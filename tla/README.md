# TLA+ models of the lizard out-of-order core

This directory holds TLA+ models of the renaming and scheduling core of
lizard (`src/lizard/...`) and of its fetch unit, together with the TLC
configurations that check them. Every action is translated from the Python
source. `PROJECT.json` maps each definition to the lines it models, lists
the runs, and records the findings and the hazards.

## 1. The system

| Part | Source | State | Operations |
|---|---|---|---|
| Dataflow manager (FL) | `lizard/core/fl/dataflow.py` | three snapshotting free lists (pregs, store ids, checkpoint ids), rename table with one copy per checkpoint, `areg_file` (architectural shadow), `arch_used_pregs`, ready table, `updated` list, `forwarded` map | `get_src`, `get_dst`, `get_store_id`, `free_store_id`, `snapshot`, `free_snapshot`, `restore`, `rollback`, `commit`, `write`, `forward`, `get_updated`, `reset_cl_forwarded`, `is_ready`, `read` |
| Free list, rename table, register file | `lizard/util/fl/...`, `lizard/core/fl/renametable.py` (not in the tree) | free set; per-checkpoint allocation masks | `alloc`, `free`, `reset_alloc_tracking`, `revert_allocs`, `set` |
| Compacting issue queue (RTL) | `lizard/util/rtl/issue_queue.py` | per slot: valid (drop controller), opaque, kill mask, two sources (tag, valid, ready), ordered | one clock cycle: `notify`, `kill_notify`, `add`, `remove` |
| Fetch unit (CL) | `lizard/core/cl/fetch.py` | `pc`, `pc_in_flight`, `in_flight`, `drop_mem`, memory request/response queues, `instrs_q` | `xtick` |
| Non-restoring divider (RTL) | `lizard/util/rtl/divide.py` | accumulator, divisor, dividend, counter, negate flags | `div`, `result` |
| Multiply/divide unit (CL) | `lizard/core/cl/muldiv.py` | the current instruction | RISC-V M results |
| Decoder (CL) | `lizard/core/cl/decode.py` | `instr_q`, `decoded_q` | `xtick`: squash, dequeue, `opmap` dispatch to the `dec_*` handlers |
| Branch unit (RTL) | `lizard/core/rtl/backend/branch.py` | none kept between calls | `process`: compare, target, redirect, BTB update |
| Older tree | `src/src/core/...` | an older dataflow manager, CSR manager and CSR stage | |

How the parts interact. Dispatch renames an instruction through the
dataflow manager: `get_src` for its sources, `get_dst` for its destination,
`snapshot` for a branch, `get_store_id` for a store. It then adds the
instruction to the issue queue, with each source's ready bit taken from
`is_ready`. When a result is written back, it is broadcast as `notify` to
the queue and as `write`/`forward` to the dataflow manager in the same
cycle. Branch resolution does two things:

* it calls `restore` or `free_snapshot`;
* it broadcasts `kill_notify` to the queue.

An exception calls `rollback`. Commit calls `commit(tag, areg)`, which
frees the areg's previous preg. Fetch feeds decode through `instrs_q`.
The control-flow unit redirects both units in the same cycle: fetch drops
its stale memory response, and decode squashes the packet waiting for it.
The branch unit resolves branches and jumps and calls `cflow_redirect`.

### Hard behaviours

* Nested speculation. Reverting checkpoint k must also undo allocations
  made under younger checkpoints, in any order of snapshot, restore,
  free_snapshot and commit.
* Flush. Everything not architecturally live must return to the free
  lists in one step.
* Reuse. A preg freed and reallocated must not carry its old ready bit.
* One queue cycle does several things at once. Issue, kill, shift, add
  and wakeup all act on the same registers together.
* A wakeup can race an add. A notify in the same cycle as the add of a
  dependent instruction is forwarded into the new slot.
* Ordered instructions. They must neither pass nor be passed.
* Fetch. A redirect can race a late memory response.
* Front end. Fetch and decode see a redirect in the same cycle, with
  their xticks in either order, while a stale packet may sit between them.

## 2. Modules

| Module | Models | State (variables) | Actions |
|---|---|---|---|
| `DataflowManager` | `DataFlowManagerFL` and, through four helper operators (`FirstFree`, `RecordAlloc`, `ResetTracking`, `RevertAllocs`), the free-list contract of spec §4.1 | `regFree/regMasks`, `storeFree/storeMasks`, `snapFree/snapMasks` (the three free lists), `rename/renameSnap`, `areg_file`, `arch_used`, `ready`, `updated`, `forwarded`; `rob` is the caller's in-flight window | one per model method; `RetireBranch` is the caller resolving a branch |
| `IssueQueue` | `CompactingIssueQueue` of `GenericIssueSlot`s | `slots` (the registers); `nextId`, `gone`, `lastIssue` are history; `ready_table` is the dataflow manager's ready bits (environment) | `Cycle(n, k, rm, ac, add)`: one clock cycle with notify set `n`, kill `k`, remove call `rm` and add call `ac`/`add`; `Realloc` (the environment's `get_dst`) |
| `Fetch` | `FetchUnitCL` | the unit's fields, `req_q`, `resp_q`, `instrs_q`; `want` and the requests' `epoch` are ghosts | `Tick(r)` (one `xtick`, redirect `r`), `MemRespond` (the memory) |
| `Decode` | `DecodeUnitCL.xtick` | `instrs_q` (its `instr_q`), `decoded_q` | `xtick(r)`, `Take` (rename draining `decoded_q`) |
| `DecodeTable` | the `opmap` dispatch and every `dec_*` handler of `DecodeUnitCL`, and the RV64IM reference `RV64`/`RefPacket` | none: `DecodeWord(w)` and one operator per handler | used by `Decode` and `MC_Isa` |
| `Frontend` | fetch and decode composed over `instrs_q` | those of `Fetch` and `Decode`, `redirect` (this cycle's `check_redirect()`), `ticked` | `FetchXtick`, `DecodeXtick`, `Memory`, `Rename`, `EndCycle` |
| `SnapshottingFreeList` | the free-list contract of spec §4.1 (its code is not in the tree) | none: operators `FirstFree`, `RecordAlloc`, `ResetTracking`, `RevertAllocs` | used by both dataflow modules |
| `DataflowManagerV0` | the older `DataFlowManagerFL` of `src/src/core/fl/dataflow.py` | as `DataflowManager` without store ids and forwarding, plus the `inverse` table | `get_dst`, `write_tag`, `commit_tag`, `snapshot`, `free_snapshot`, `restore`, `rollback`, `RetireBranch` |
| `Divider` | `NonRestoringDivider` and `NonRestoringDividerStep` | `acc`, `divisor`, `dividend`, `negate`, `negate_rem`, `counter`, `busy`; `op` is history | `Cycle(dc, a, b, sg, rc, pc)`: one clock cycle with the div, result and preempt calls |
| `MulDiv` | the results of `MulDivUnitCL.xtick` | none: operators `MulResult`, `DivResult`, `WResult`, `Result` and the reference `RefResult` | evaluated by `MC_Isa` on the divider's operands |
| `Branch` | `BranchStage` of `lizard/core/rtl/backend/branch.py`, with the fields of the CL decoder's `dec_branch`/`dec_jal`/`dec_jalr` it reads | `msg` (the processed instruction), `out` (result and the `cflow_redirect`/`btb_write` arguments), `nproc` | `process(ins, pc, rs1, rs2, imm)` |
| `AbstractScheduler` | what the issue queue promises (spec §4.6): a pool of pending instructions keyed by program-order position, without slots | `pending`, `nextId` | `Step(n, k, rm, ac)`: one cycle's kill, issue of the oldest eligible, wakeup and add |

The `MC_*` modules instantiate these for TLC and hold the views.
* `MC_DataflowManager` adds a ghost `flushed`, set by `rollback`, so that
  `NoRegLeakBeforeFlush` can be checked in the same run as the rollback
  properties.
* `MC_Frontend` gives the front end a program: four words, one with an
  opcode `opmap` lacks.
* `MC_Isa` checks the units whose results the ISA fixes: the decoder's
  tables, the divider with the multiply/divide results, and the branch
  stage. They share no state and no call, so the initial state picks one
  unit (`unit`) and the others stay in reset. Every property reads one
  unit's variables, so it holds of the units side by side exactly when it
  holds here, and TLC explores the sum of their state spaces rather than
  the product.

### Correspondence with the code

**DataflowManager.**

* Each action's guard is the method's ready condition: a free list is not
  empty, and a checkpoint id is open.
* Its primed variables are the method's writes, and the action covers the
  whole method. For example, `restore(i)` reverts three free lists and
  restores the rename table in one step. The code's `restore` does not
  free checkpoint `i`; its caller calls `free_snapshot(i)` after it. The
  model's `restore` merges that call in, and `SnapshotConservation` rests
  on this caller assumption.
* Values are abstracted away. What remains is which tag is ready and who
  owns it.
* `rob` stands for the caller. It holds an entry per dispatched
  destination, store and branch, so that the properties can say what the
  state should be. The caller only ever passes tags it holds: commit takes
  the head, and restore takes an unresolved branch.

**IssueQueue.**

* Every combinational signal is an operator of the cycle's inputs:
  `StatusValid`, `Match0/1`, `SrcsReady`, `WaitPred`, `FirstRdy`,
  `RemoveRdy`, `WillIssue`, `DoShift`, `TakeCall`, `AddRdy`, `Peek`,
  `AddIn`.
* `Cycle` writes all registers at once. A shifting slot loads `Peek` of
  its neighbour, the tail loads `AddIn`, and every other slot keeps its
  registers apart from wakeups and the valid bit (`Hold`).
* `remove` and `add` are called only when ready, since they are ready
  methods.
* The drop controller is not in the tree. It is modelled as: a slot is
  dropped when the kill names a branch in its mask.
* The notify tags come from the dataflow manager, kept as `ready_table`.
  A cycle can broadcast only tags that are not ready (`Notifies`). That
  is `get_updated`, which reports each write once, and the write makes
  the tag ready. Dispatch passes a source's ready bit from `is_ready`
  (`ReadsReadyTable`). `Realloc` is `get_dst`: it clears the ready bit of
  a tag that no slot reads. A preg is freed only after its readers have
  issued.

**Fetch.**

* `in_flight` and `drop_mem` are plain attributes, so their writes are
  seen by later statements of the same tick.
* `pc` and `pc_in_flight` are written through `.next`, so later
  statements of the same tick still read the old value.
* `Sequential` follows that order statement by statement.

**Decode and Frontend.**
* `Decode!xtick(r)` follows the early returns in code order: squash a
  waiting packet on a redirect; return if `decoded_q` is full or
  `instr_q` is empty; otherwise dequeue and decode.
* `DecodePacket` is `copy_fetch_decode` and the `opmap` dispatch of
  `DecodeTable` on the word at the packet's address in `Program`.
* In a cycle both units see the same `redirect`. Each unit's xtick runs
  once, in either order, and `EndCycle` is the clock edge that picks the
  next cycle's redirect. The simulator that fixes the order is not in the
  tree.
* Each request carries a ghost `epoch`: the number of redirects before it
  was sent. A packet is stale when its epoch is older than the current
  one.

**DecodeTable.**
* A word is a record of its fields: the opcode by name, `funct3`,
  `funct7`, `rs2`, `rs1` and `rd`. The `RVInstMask` slices that overlap
  them are operators: `I_IMM` is `funct7` and `rs2`, `FUNCT7_SHFT64` is
  bits 31:26, and `SHAMT64` adds bit 25 to `rs2`.
* Each `dec_*` handler is an operator. Each dict subscript is `Lookup`,
  which yields the packet with `instr_d` set, or `KeyError`. The `except
  KeyError` of `xtick` makes that packet invalid.
* The S, B, U and J immediates are put together from bits the record does
  not carry, so they stay 0 in the model and in the reference.
* The reference `RV64` lists the RV64IM, Zicsr and Zifencei encodings from
  the ISA manual. `Matches` says which fields each format fixes, and
  `RefPacket` gives the operands, immediate and flags the format implies.

**DataflowManagerV0.** The same correspondence as `DataflowManager`.
`commit_tag` finds the areg through `inverse`, which `get_dst` writes.

**Divider.**
* `NonRestoringDividerStep.eval` loops `nsteps` times. It is the
  RECURSIVE operator `Steps`.
* Every register is a natural number below `2^width`. `~x + 1` is
  `Negate(x, w)`.
* `Load` is the div call's branch of `set_div_regs`, `handle_counter` and
  `handle_calls`. `Iterate` is the other branch, with the last-cycle
  correction done by `FinalAcc` and `FinalDividend`.

**Branch.**
* `process` is one call of the stage: every combinational block
  (`set_take_branch`, `compute_target`, `set_value_reg_input`,
  `update_btb`) as the operators `take_branch` and `branch_target`, and
  the two required calls as fields of `out`.
* Values and pcs are `XLEN`-bit naturals; every sum goes through `Trunc`,
  the width of the wire it is written to. The immediate is an `IMMLEN`-bit
  field sign-extended by `sext`.
* `Compare` is the `Comparator` (not in the tree) applied with the
  `CMPFunc` that `OP_LUT_MAP` gives for the branch type.
* The stage carries nothing from one call to the next, so a behaviour is
  one call (`MAXPROC = 1`) followed by stuttering (`Done`); that one call
  ranges over every instruction, pc, operand pair and immediate.
* The reference `RiscVNextPc` is written from the ISA manual and uses
  Bitwise `&` to clear the JALR target's low bit.

**IssueQueue refines AbstractScheduler.** `Sched` instantiates
`AbstractScheduler` with `pending` mapped to the entries of the occupied
slots keyed by their `opaque` position (`EntryOf`), and the dispatchable
entries to `AddEntries`. `ImplementsScheduler` (`Sched!Spec`) says every
cycle of the RTL queue, compaction and shifting included, is a step of the
abstract pool or a stutter.

**MulDiv.**
* `MulResult`, `DivResult` and `WResult` translate the branches of the
  if/elif chain.
* `.int()` is `SInt`, `Bits(w, v, trunc=True)` is `Trunc`, and `sext` is
  `SExt`.
* `HALF` stands for the 32 of the W forms.
* The reference `RefResult` is written independently. It characterises
  the quotient and remainder, and the high product, by the equations they
  satisfy.

## 3. Runs

| Run | Config | Expect | What it shows |
|---|---|---|---|
| dfm_flush | `DataflowManager_flush.cfg` | pass | with `rollback`: `NoRegLeakBeforeFlush` (until the first rollback, every allocated preg is owned by an architectural register or an in-flight instruction), `NoDoubleAllocation`, `RenameMatchesProgramOrder` (the rename table and every open checkpoint equal the map implied by program order), `ReadyTracksProducer`, `SnapshotConservation`, `StoreIdConservation`, `TypeOK` |
| dfm_leak | `DataflowManager_leak.cfg` | violation | `NoRegLeak` fails on one `rollback` from reset: preg `naregs - 1` (2) is then neither free nor mapped (finding 1) |
| dfm_forward | `DataflowManager_forward.cfg` | violation | `ForwardMakesReady` fails after a `get_dst` and a `forward` of the new preg (finding 5) |
| iq_bypass | `IssueQueue_bypass.cfg` | pass | for the ordered, bypassing queue of 3 slots, with kills and adds into a full queue: `QueueHoldsPendingInOrder`, `SelectsOldestEligible`, `OrderedIssue` (an ordered instruction neither passes nor is passed, with killed slots masked), and `ImplementsScheduler`, the refinement of `AbstractScheduler` |
| iq_liveness | `IssueQueue_liveness.cfg` | pass | the ordered, non-bypassing queue of 3 slots under fairness, without kills: `QueueHoldsPendingInOrder` (no instruction lost, copied or reordered), `SelectsOldestEligible` (the RTL select equals spec §4.6), and `EventuallyLeaves`. Each tag is broadcast once per write, so a wakeup lost on the add path (`issue_queue.py:382`) or in a shifting slot (`Peek`) leaves its instruction waiting forever |
| iq_compaction | `IssueQueue_compaction.cfg` | violation | spec §8 compaction fails after a plain issue (finding 2) |
| frontend | `Frontend_safety.cfg` (`MC_Frontend`) | pass | fetch composed with decode, xticks in either order, under fairness: `PacketMatchesPc` (a packet's instruction is the one at its pc), `DecodesOnlyCurrentPath` (no packet requested before a redirect is decoded after it), `KeepsFetching`, `KeepsDecoding`, `TypeOK` |
| fetch_controlflow | `Frontend_controlflow.cfg` | violation | `FollowsControlFlow` fails after two redirects (finding 3) |
| v0_speculation | `DataflowManagerV0_speculation.cfg` | pass | the older manager, without rollback: `NoDoubleAllocation` (commit through `inverse` frees the right preg) and `ReadyTracksProducer` |
| v0_rollback | `DataflowManagerV0_rollback.cfg` | violation | `NoDoubleAllocation` fails on the first `rollback` (finding 4) |
| isa | `Isa.cfg` | pass | `DecodesLegalLikeRV64`: every RV64IM word of the bounds decodes to the instruction, operands, immediate and flags the ISA gives it. `DivideMatchesRiscV`: whenever a divider result is ready, it is the RISC-V quotient and remainder of the last div call, for all 4-bit operands, signed and unsigned, with calls in any cycle. `MulDivMatchesRiscV`: on the same operands, every `MulDivUnitCL` result equals the RISC-V M result, with 2-bit W forms. `BranchResolvesLikeRiscV`: every branch and jump, at every pc, operand pair and immediate, redirects to the RISC-V next pc, removes its BTB entry exactly when not taken and otherwise writes that next pc, and a jump links pc + 4. |
| decode_rv64 | `Isa_decode.cfg` | violation | `DecodesOnlyRV64` fails on a reserved SYSTEM word that decodes as ECALL (finding 6) |

Every property of a passing run has a fault variant in its module, for
example `rollback_v0`, the older tree's rollback. Each variant is a
plausible slip in the code it replaces, and TLC finds the property
violated when the variant replaces that code.

### Findings

1. **Register leak on rollback.** This is a bug in
   `lizard/core/fl/dataflow.py:38`.
   * `arch_used_pregs_reset` marks pregs `0..naregs-1`.
   * The rename table holds only `naregs-1` of them, and the free list
     starts with `naregs-1` used.
   * `rollback` frees `~arch_used_pregs`, so preg `naregs-1` is never
     free again.
2. **Compaction is one slot per cycle.** This is a divergence from the
   spec.
   * `shift0`/`shiftk` move a slot only from its neighbour.
   * A hole left by an add or an issue closes one position per cycle.
   * Spec §4.6 and §8 say the queue has no holes after any issue or kill.
3. **Fetch loses the redirect target.** This is a bug in
   `lizard/core/cl/fetch.py:35`.
   * Redirect R1 arrives while a request is outstanding, so `drop_mem` is
     set.
   * Redirect R2 arrives while that stale response is waiting. R2
     dequeues the response but leaves `drop_mem` set.
   * The response for R2's target is then dropped, and fetch resumes one
     instruction after the target.
4. **The older rollback frees live registers.** This is a bug in
   `src/src/core/fl/dataflow.py:158`.
   * `rollback` passes `arch_used_pregs` to `free_regs.set` without
     negating it.
   * Every architecturally used preg becomes free, while free ones stay
     allocated.
   * The current tree negates it (finding 1 is the remaining off-by-one).

5. **A forward does not make the tag ready.** This is a divergence from
   spec §4.4, at `lizard/core/fl/dataflow.py:169`.
   * `read(tag)` returns the value in `forwarded`, but `is_ready(tag)`
     reads only the ready table. The ready table is set by the later
     `write`.
   * Spec §4.4 says a forward makes the value and its readiness
     observable in the same cycle. Its §8 scenario says `is_ready` is
     satisfied via `forward` in the same cycle.
   * A dispatcher that takes source readiness from `is_ready` therefore
     misses the same-cycle wakeup that the forward path exists for.

6. **The decoder accepts reserved encodings.** This is a divergence from
   the RISC-V ISA, at `lizard/core/cl/decode.py:219`.
   * When `funct3` is not a CSR funct3, `dec_system` looks up only the I
     immediate. A SYSTEM word with `funct3` 4, or with a non-zero `rs1` or
     `rd`, becomes ECALL or EBREAK.
   * `dec_jalr` (line 268) never reads `funct3`.
   * The ISA reserves these words. Every other word that no table has
     takes the `KeyError` path and becomes an illegal-instruction
     exception, but these execute.

The multiply/divide unit agrees with RISC-V at these widths. Two
observations:
* Its signed-overflow branches are redundant: the generic branch gives the
  same value.
* Its second `REMU` branch (`muldiv.py:141`, which tests `s1 == 0`
  instead of the divisor) is dead code.

### Bounds

The sizes were chosen so that the hazards the runs name can happen. Two
cases are beyond them: two waiting packets in `instrs_q` (below) and two
checkpoints with a destination allocated under each.

**DataflowManager.** 3 aregs (areg 0 and two renamed), 5 pregs, 2
checkpoints, 1 store id, 3 in-flight entries and 1 pending update. A
snapshot and a destination each take an in-flight entry. This allows:
* two nested snapshots with one allocation, under the outer or the inner
  one, restored in either order (4 entries did not finish within 15
  minutes);
* reallocation of a freed preg;
* a full free list;
* a commit while a younger instruction renames the same areg.

**IssueQueue.**
* Both passing runs use 3 slots and 3 adds, so `shift0` and the `shiftk`
  chain both run. A slot can shift while its neighbour shifts, issues or
  is killed, the queue fills, and an add lands as the tail vacates.
* The liveness run has no branches. With one branch, it took over three
  minutes. Without kills, an instruction can leave only by issuing, so
  the liveness question is the harder one. Kills are checked by the
  bypass run (`OrderedIssue`, `QueueHoldsPendingInOrder`, and the
  refinement).
* There is one source tag and one notify port. `Realloc` makes the tag
  wait again after its readers have left.

**Decoder tables.** Every opcode in `opmap` and one it lacks, and every
`funct3`. `funct7` takes each value the tables key on (0, 1, 32), 33 (an
SRAI by 32 or more), 24 and 127. `rs2` is 0..2, so the I immediates of
ECALL, EBREAK and MRET (0x302) all occur. `rs1` and `rd` are zero or
not. That is 8064 words, one per behaviour, since the tables keep no state.

**Divider and MulDiv.** All operand pairs of 4-bit registers, with 2
cycles of 2 steps each for the divider, and 2-bit W operands for MulDiv.
This covers zero divisors, the most-negative / -1 overflow at both widths,
and every sign combination.

**Branch.** 4-bit values and pcs and 3-bit immediates (offsets -4..3;
B and J offsets even). This reaches negative offsets, targets that wrap
past 0 or 15, signed and unsigned orders that disagree (8 is -8 signed),
an odd `rs1 + imm`, and a taken branch whose target is the fall-through.

**DataflowManagerV0.** 3 aregs, 5 pregs, 2 checkpoints and 4 in flight.

**Fetch and Frontend.**
* 4-bit addresses, so pc wraps at 16.
* 2 redirect targets and 2 redirects.
* One slot in each of `instrs_q` and `decoded_q`, so a redirect can meet
  an outstanding request, a stale response and a waiting packet.
* One address holds a word that does not decode (`MC_Frontend`).

The depth of the CL port queues is set in `lizard/util/cl/ports.py`,
which is not in the tree. With two slots in `instrs_q`,
`DecodesOnlyCurrentPath` fails: decode squashes only one waiting packet
per redirect, and the second is decoded in the next cycle. This is listed
as a hazard.

### Views

The TLC views omit only data the code overwrites before it next reads it:
* the ready bit of a free preg, which `get_dst` clears;
* the masks and rename copy of a free checkpoint id, which `snapshot`
  resets;
* the registers of an invalid slot, which are written by an add or shift
  before the valid bit is set.

### Fairness

* **IssueQueue.** Execute calls `remove` whenever it is ready. A tag that
  is not ready is eventually written by its producer. That write is
  broadcast once, as `get_updated` reports it once. The fairness
  therefore never repairs a lost wakeup.
* **Frontend.** Both xticks run in every cycle, and the clock edge
  follows. The memory answers every request, and rename takes every
  decoded packet.
* Redirects and adds are bounded, so behaviours end in steady fetching
  or in an idle queue. No run disables deadlock checking.

## 4. Plan

Done: DataflowManagerV0, the divider, the MulDiv results, the branch
stage, the refinement of the issue queue, the front end (fetch and decode
composed in `Frontend`) and the decoder's tables. Next, in order:
1. **Dispatch composition.** Dispatch composed with `DataflowManager` and
   `IssueQueue` sharing notify and kill. Its property: an instruction
   never issues before its producer writes back, and `is_ready` versus
   `forward` in the same cycle.
2. **MulDiv pipeline.** The delay pipe and the forwarding from `result_q`,
   composed with the dataflow manager.
3. **CSR manager** and its stage (`src/src/core/...`), once the tree
   holds code that imports (see below).

## 5. Not modelled

* Register values and the ALU datapath. The dataflow and queue properties
  are about ownership, order and readiness.
* The CSR manager and the CSR stage of the older tree. Neither module
  imports, so neither has a behaviour to model:
  * `csr_manager.py:7` imports `CSR_SPEC_NBITS` from `config.general`,
    which defines only `CSR_SPEC_LEN`;
  * past that, `csr_manager.py:147` names `CsrFuc`, which is undefined,
    so every op on a file CSR would raise a NameError;
  * `csr.py` imports `CSROpType`, which `csr_manager.py` does not define,
    and leaves the CSR op as a TODO.
  Also, `csr_manager.py:157` writes `op_value & ~old` for READ_CLEAR,
  where CSRRC writes `old & ~rs1`.
* The misaligned-target exception of JALR (`branch.py:117`): the stage has
  no exception path, and the units that would raise it are not in the
  tree.
* The per-cycle port counts of the dataflow manager. Each call is one
  action.
* When `get_updated` is drained relative to `rollback` and `restore`.
  Neither kill clears `updated` or `forwarded` (`dataflow.py:213`). So if
  `get_dst` reallocates a squashed preg before the next drain,
  `get_updated` reports it as ready before its new producer writes it.
  An invariant that every tag in `updated` is ready fails after
  `get_dst`, `write`, `rollback`, `get_dst`. Whether the pipeline can
  reach this depends on the order of calls within a cycle, and no caller
  of `get_updated` is in the tree. It is therefore listed as a hazard and
  not given a run.
* The bits of the S, B, U and J immediates, and `line_trace`.
* Test drivers and configuration constants.
