----------------------------- MODULE IssueQueue -----------------------------
(***************************************************************************)
(* CompactingIssueQueue with GenericIssueSlot cells                        *)
(* (lizard/util/rtl/issue_queue.py), one step per clock cycle.             *)
(*                                                                         *)
(* The state is the slots' registers.  A cycle's inputs are the notify     *)
(* tags, the kill broadcast, whether remove is called and the value added, *)
(* if any; every combinational signal of the cycle is computed from the    *)
(* registers and those inputs, and the registers are then written          *)
(* together.  The opaque payload is the instruction's position in program  *)
(* order (1, 2, ...), which is what the properties tell apart.  The kill   *)
(* field is the set of unresolved branches the instruction depends on; a   *)
(* kill broadcast for branch b drops every slot whose set holds b (the     *)
(* drop controller, gen_valid_value_manager, is not in the source tree).   *)
(***************************************************************************)
EXTENDS Integers, FiniteSets

CONSTANTS
  NSLOTS,        \* num_slots
  NTAGS,         \* source tags 0..NTAGS-1
  NNOTIFY,       \* notify ports
  Branches,      \* branches a kill broadcast can name
  NoKill,        \* no kill broadcast this cycle
  BYPASS_READY,  \* bypass_ready: a same-cycle notify makes a slot ready
  ORDERED,       \* interface.Ordered
  MAXADDS        \* number of instructions added in a behaviour

ASSUME /\ NSLOTS >= 2 /\ NTAGS >= 1 /\ NNOTIFY >= 1 /\ MAXADDS >= 1
       /\ NoKill \notin Branches
       /\ BYPASS_READY \in BOOLEAN /\ ORDERED \in BOOLEAN

SlotIdx == 0..(NSLOTS - 1)
Tags    == 0..(NTAGS - 1)
Kills   == Branches \cup {NoKill}
NotifySets == {n \in SUBSET Tags : Cardinality(n) <= NNOTIFY}

\* A source descriptor as dispatch hands it over: an unused source has
\* val = FALSE (its tag and ready bit are then don't-cares, fixed here).
Sources == [tag : Tags, val : {TRUE}, rdy : BOOLEAN]
             \cup {[tag |-> 0, val |-> FALSE, rdy |-> FALSE]}

VARIABLES
  slots,      \* slots[i]: the registers of slot i (0 is the oldest)
  nextId,     \* the program-order position of the next added instruction
  gone,       \* ids that have issued or been killed (history)
  lastIssue,  \* the instruction issued by the latest issuing cycle (history)
  ready_table \* the dataflow manager's ready bits of the tags (environment)

vars == <<slots, nextId, gone, lastIssue, ready_table>>

NoIssue == [id |-> 0, ordered |-> FALSE]

\* Register reset contents: only the valid bit is reset.
EmptySlot == [valid |-> FALSE, opaque |-> 0, kill_opaque |-> {},
              src0 |-> 0, src0_val |-> FALSE, src0_rdy |-> FALSE,
              src1 |-> 0, src1_val |-> FALSE, src1_rdy |-> FALSE,
              ordered |-> FALSE]

Init ==
  /\ slots = [i \in SlotIdx |-> EmptySlot]
  /\ nextId = 1
  /\ gone = {}
  /\ lastIssue = NoIssue
  /\ ready_table = Tags

-----------------------------------------------------------------------------
(***************************************************************************)
(* Combinational signals of one cycle, for notify tags n and kill k.       *)
(***************************************************************************)

\* status_valid: the valid manager drops a slot the kill names this cycle.
StatusValid(i, k) == slots[i].valid /\ k \notin slots[i].kill_opaque

\* GenericIssueSlot.match_src
Match0(i, n) == slots[i].src0_val /\ slots[i].src0 \in n
Match1(i, n) == slots[i].src1_val /\ slots[i].src1 \in n

\* GenericIssueSlot.handle_ready and handle_srcs_ready
SrcsReady(i, n) ==
  IF BYPASS_READY
    THEN (slots[i].src0_rdy \/ Match0(i, n)) /\ (slots[i].src1_rdy \/ Match1(i, n))
    ELSE slots[i].src0_rdy /\ slots[i].src1_rdy

StatusReady(i, n, k) == StatusValid(i, k) /\ SrcsReady(i, n)

\* Fault variant: an ordered slot waits only for older ordered slots.
WaitPred_orderedonly(i, k) ==
  \E j \in 0..(i - 1) : StatusValid(j, k) /\ slots[j].ordered

\* set_wait_pred_0 / set_wait_pred_k
WaitPred(i, k) ==
  LET prevOrdered    == \E j \in 0..(i - 1) : StatusValid(j, k) /\ slots[j].ordered
      prevNonordered == \E j \in 0..(i - 1) : StatusValid(j, k) /\ ~slots[j].ordered
  IN IF slots[i].ordered THEN prevOrdered \/ prevNonordered ELSE prevOrdered

\* Fault variant: the priority encoder scans from the tail.
FirstRdy_youngest(i, n, k) ==
  StatusReady(i, n, k) /\ \A j \in (i + 1)..(NSLOTS - 1) : ~StatusReady(j, n, k)

\* set_first_rdy: the lowest ready slot, whatever its ordering constraint.
FirstRdy(i, n, k) ==
  StatusReady(i, n, k) /\ \A j \in 0..(i - 1) : ~StatusReady(j, n, k)

\* Fault variant: remove_rdy taken from first_rdy before the wait_pred mask.
RemoveRdy_unmasked(n, k) == \E i \in SlotIdx : FirstRdy(i, n, k)

\* handle_remove: remove_rdy and will_issue.
RemoveRdy(n, k) ==
  \E i \in SlotIdx : FirstRdy(i, n, k) /\ (ORDERED => ~WaitPred(i, k))

WillIssue(i, n, k, rm) ==
  rm /\ FirstRdy(i, n, k) /\ (ORDERED => ~WaitPred(i, k))

\* Fault variant: a slot shifts down even when the slot it leaves issues.
DoShift_issuing(wi, k) ==
  LET ds[i \in 0..(NSLOTS - 2)] ==
        /\ \/ ~StatusValid(i, k)
           \/ wi[i]
           \/ (i > 0 /\ ds[i - 1])
        /\ StatusValid(i + 1, k)
  IN ds

\* shift0 / shiftk: slot i takes the value of slot i + 1; wi is will_issue.
DoShift(wi, k) ==
  LET ds[i \in 0..(NSLOTS - 2)] ==
        /\ \/ ~StatusValid(i, k)
           \/ wi[i]
           \/ (i > 0 /\ ds[i - 1])
        /\ StatusValid(i + 1, k)
        /\ ~wi[i + 1]
  IN ds

\* output0 / outputk: the slot's value leaves by issue or by shifting down.
TakeCall(wi, ds) == [i \in SlotIdx |-> wi[i] \/ (i > 0 /\ ds[i - 1])]

\* add_rdy: the tail slot is free or being vacated.
AddRdy(take, k) == ~StatusValid(NSLOTS - 1, k) \/ take[NSLOTS - 1]

\* Fault variant: a shifting slot takes its neighbour's registers as they
\* were, missing this cycle's wakeup.
Peek_nowake(i, n) == slots[i]

\* peek: the registers with same-cycle wakeups folded into the ready bits.
Peek(i, n) ==
  [slots[i] EXCEPT !.src0_rdy = @ \/ Match0(i, n),
                   !.src1_rdy = @ \/ Match1(i, n)]

\* Fault variant: the add path does not forward this cycle's notifies.
AddIn_nonotify(v, n) == v

\* handle_add: the added value with this cycle's notifies forwarded in.
AddIn(v, n) ==
  [v EXCEPT !.src0_rdy = @ \/ v.src0 \in n,
            !.src1_rdy = @ \/ v.src1 \in n]

\* set_reg_rdy and the enabled registers when input is called.
Load(v) ==
  [v EXCEPT !.valid = TRUE,
            !.src0_rdy = @ \/ ~v.src0_val,
            !.src1_rdy = @ \/ ~v.src1_val]

\* Fault variant: the valid register ignores the output call.
Hold_keeptaken(i, n, k, take) ==
  [slots[i] EXCEPT
     !.valid = StatusValid(i, k),
     !.src0_rdy = @ \/ (Match0(i, n) /\ StatusValid(i, k)),
     !.src1_rdy = @ \/ (Match1(i, n) /\ StatusValid(i, k))]

\* A slot that is not written keeps its registers; a wakeup sets a ready
\* bit of a valid slot, and the valid bit drops on take or kill.
Hold(i, n, k, take) ==
  [slots[i] EXCEPT
     !.valid = StatusValid(i, k) /\ ~take[i],
     !.src0_rdy = @ \/ (Match0(i, n) /\ StatusValid(i, k)),
     !.src1_rdy = @ \/ (Match1(i, n) /\ StatusValid(i, k))]

Occupied == {i \in SlotIdx : slots[i].valid}
Present == {slots[i].opaque : i \in Occupied}

-----------------------------------------------------------------------------
(***************************************************************************)
(* One clock cycle.  remove is called only when remove_rdy and add only   *)
(* when add_rdy (both are ready methods).  Dispatch never adds an         *)
(* instruction on the path being killed in the same cycle: its own stage  *)
(* drops it.                                                               *)
(*                                                                         *)
(* The environment is the dataflow manager: the notify tags are the tags  *)
(* written this cycle, which get_updated reports once, so only a tag that *)
(* is not ready can be broadcast, and the write makes it ready; dispatch  *)
(* reads a source's ready bit with is_ready.                              *)
(***************************************************************************)
\* is_ready: an added value's used sources carry the ready table's bits.
ReadsReadyTable(v) ==
  /\ v.src0_val => (v.src0_rdy <=> v.src0 \in ready_table)
  /\ v.src1_val => (v.src1_rdy <=> v.src1 \in ready_table)

Cycle(n, k, rm, ac, add) ==
  LET wi == [i \in SlotIdx |-> WillIssue(i, n, k, rm)]
      ds == DoShift(wi, k)
      take == TakeCall(wi, ds)
      issuing == {i \in SlotIdx : wi[i]}
      killed == {slots[i].opaque : i \in {j \in SlotIdx :
                                            slots[j].valid /\ ~StatusValid(j, k)}}
  IN
  /\ rm => RemoveRdy(n, k)
  /\ ac => /\ AddRdy(take, k)
           /\ nextId <= MAXADDS
           /\ k \notin add.kill_opaque
           /\ ReadsReadyTable(add)
  /\ slots' =
       [i \in SlotIdx |->
          IF i < NSLOTS - 1
            THEN IF ds[i] THEN Load(Peek(i + 1, n)) ELSE Hold(i, n, k, take)
            ELSE IF ac
                   THEN Load([AddIn(add, n) EXCEPT !.opaque = nextId])
                   ELSE Hold(i, n, k, take)]
  /\ nextId' = IF ac THEN nextId + 1 ELSE nextId
  /\ gone' = gone \cup killed \cup {slots[i].opaque : i \in issuing}
  /\ lastIssue' = IF issuing = {} THEN lastIssue
                  ELSE LET i == CHOOSE j \in issuing : TRUE
                       IN [id |-> slots[i].opaque, ordered |-> slots[i].ordered]
  /\ ready_table' = ready_table \cup n

\* The values dispatch can add (the opaque field is filled in by Cycle).
AddValues ==
  {[valid |-> FALSE, opaque |-> 0, kill_opaque |-> ko,
    src0 |-> s0.tag, src0_val |-> s0.val, src0_rdy |-> s0.rdy,
    src1 |-> s1.tag, src1_val |-> s1.val, src1_rdy |-> s1.rdy,
    ordered |-> o] :
      s0 \in Sources, s1 \in Sources, o \in BOOLEAN, ko \in SUBSET Branches}

\* A cycle without an add; add_value is then a don't-care.
Idle(n, k, rm) == Cycle(n, k, rm, FALSE, EmptySlot)

\* Whether add may be called this cycle (add_rdy, and an instruction left).
CanAdd(n, k, rm) ==
  LET wi == [i \in SlotIdx |-> WillIssue(i, n, k, rm)]
  IN nextId <= MAXADDS /\ AddRdy(TakeCall(wi, DoShift(wi, k)), k)

\* get_updated: the tags written this cycle, none of them ready before.
Notifies == {n \in NotifySets : n \cap ready_table = {}}

\* get_dst: a ready tag is reallocated to a new producer and its ready bit
\* cleared.  A preg is freed only when a younger writer of its areg
\* commits, after every reader of it has issued, so no slot reads it.
Realloc ==
  \E t \in ready_table :
     /\ \A i \in Occupied :
           ~(slots[i].src0_val /\ slots[i].src0 = t)
           /\ ~(slots[i].src1_val /\ slots[i].src1 = t)
     /\ ready_table' = ready_table \ {t}
     /\ UNCHANGED <<slots, nextId, gone, lastIssue>>

Next ==
  \/ \E n \in Notifies, k \in Kills, rm \in BOOLEAN :
       \/ Idle(n, k, rm)
       \/ CanAdd(n, k, rm) /\ \E add \in AddValues : Cycle(n, k, rm, TRUE, add)
  \/ Realloc

(***************************************************************************)
(* Fairness: the execute stage calls remove whenever remove is ready, and  *)
(* a reallocated tag is eventually written by its producer.  The write is *)
(* broadcast once: after it the tag is ready and is not broadcast again   *)
(* until it is reallocated, so a lost wakeup is never repaired.           *)
(***************************************************************************)
Fairness ==
  /\ WF_vars(\E n \in Notifies, k \in Kills : Idle(n, k, TRUE))
  /\ \A t \in Tags :
       WF_vars(\E n \in Notifies, k \in Kills, rm \in BOOLEAN :
                 t \in n /\ Idle(n, k, rm))

Spec == Init /\ [][Next]_vars

FairSpec == Spec /\ Fairness

-----------------------------------------------------------------------------
(***************************************************************************)
(* Properties                                                              *)
(***************************************************************************)
(* Compaction moves every instruction, never copies or drops one: the     *)
(* valid slots hold exactly the instructions added and neither issued nor *)
(* killed, each once, in program order from the head.                     *)
QueueHoldsPendingInOrder ==
  /\ Present = (1..(nextId - 1)) \ gone
  /\ \A i, j \in Occupied : i < j => slots[i].opaque < slots[j].opaque

(* An ordered instruction issues only when no older instruction is left  *)
(* in the queue, and no instruction issues past an older ordered one.    *)
OrderedIssue ==
  \A i \in Occupied :
    slots[i].opaque < lastIssue.id => ~lastIssue.ordered /\ ~slots[i].ordered

(* Spec §4.6: a slot is eligible when valid, both sources ready, and, in *)
(* an ordered queue, no older valid slot is ordered, nor, for an ordered *)
(* slot, older at all.                                                   *)
Eligible(i) ==
  /\ StatusReady(i, {}, NoKill)
  /\ ORDERED =>
     \A j \in Occupied :
       slots[j].opaque < slots[i].opaque => ~slots[j].ordered /\ ~slots[i].ordered

(* remove_rdy, computed by the first-ready priority encoder and then the  *)
(* wait_pred mask, holds exactly when some slot is eligible, and the slot *)
(* it issues is the oldest eligible one.                                  *)
SelectsOldestEligible ==
  /\ RemoveRdy({}, NoKill) <=> \E i \in SlotIdx : Eligible(i)
  /\ \A i \in SlotIdx :
       WillIssue(i, {}, NoKill, TRUE) =>
         \A j \in SlotIdx : Eligible(j) => slots[i].opaque <= slots[j].opaque

NoHoles == \A i, j \in SlotIdx : i < j /\ slots[j].valid => slots[i].valid

(* Spec §8 (and §4.6 step 4): after any issue or kill event the queue    *)
(* contains no valid slot behind an empty one.  The shift0/shiftk muxes  *)
(* move a slot by at most one position per cycle.                        *)
Compaction == [][gone' # gone => NoHoles']_vars

(***************************************************************************)
(* Refinement: the queue implements AbstractScheduler.  An instruction's  *)
(* position in program order is its opaque field, and its abstract entry *)
(* is its slot's registers without the valid bit and the payload.        *)
(***************************************************************************)
EntryOf(r) ==
  [src0 |-> r.src0, src0_val |-> r.src0_val, src0_rdy |-> r.src0_rdy,
   src1 |-> r.src1, src1_val |-> r.src1_val, src1_rdy |-> r.src1_rdy,
   ordered |-> r.ordered, kill_opaque |-> r.kill_opaque]

AddEntries == {EntryOf(v) : v \in AddValues}

SlotOf(x) == CHOOSE i \in Occupied : slots[i].opaque = x

Sched == INSTANCE AbstractScheduler WITH
           CAPACITY <- NSLOTS,
           NotifySets <- NotifySets,
           Entries <- AddEntries,
           pending <- [x \in Present |-> EntryOf(slots[SlotOf(x)])]

(* Every cycle of the queue, with its kill, select, wakeup, shift and add *)
(* all happening at once on slot registers, is a step of the abstract    *)
(* scheduler on instructions: nothing is lost, copied or woken wrongly   *)
(* across a shift, and the one issued is the oldest eligible survivor.   *)
ImplementsScheduler == Sched!Spec

(* Every instruction in the queue eventually issues or is killed, given  *)
(* that remove is called when ready and each reallocated tag is written  *)
(* once: the wakeup of a source written in the cycle of the add, or while *)
(* its slot shifts, must not be lost, since the tag is never broadcast   *)
(* again while the instruction waits on it.                              *)
EventuallyLeaves ==
  \A x \in 1..MAXADDS : (x \in Present) ~> (x \in gone)

=============================================================================
