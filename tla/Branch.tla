------------------------------- MODULE Branch -------------------------------
(***************************************************************************)
(* BranchStage (lizard/core/rtl/backend/branch.py): the execution stage of *)
(* branches and jumps.  In the cycle it processes an instruction it        *)
(* compares rs1 with rs2, decides whether control is transferred, computes *)
(* the target, calls cflow_redirect with it, writes (or removes) the BTB    *)
(* entry of the pc, and produces the link value pc + 4.  The stage is      *)
(* combinational: msg is the dispatched instruction it last processed and  *)
(* out the calls and result it made of it.  Widths are small: XLEN bits    *)
(* for values and pcs, IMMLEN for the decoded immediate (32 and 64 in the  *)
(* code), so that sign extension and the wrap of pc + imm are kept.        *)
(***************************************************************************)
EXTENDS Integers, Bitwise

CONSTANTS
  XLEN,     \* register and pc width
  IMMLEN,   \* width of the decoded immediate (DECODED_IMM_LEN)
  MAXPROC   \* instructions processed in a behaviour

ASSUME XLEN >= 3 /\ IMMLEN >= 2 /\ IMMLEN <= XLEN

ILEN_BYTES == 4

Word == 0..(2^XLEN - 1)

\* An XLEN-bit wire assigned a sum.
Trunc(v) == v % 2^XLEN
SInt(x, w) == IF x >= 2^(w - 1) THEN x - 2^w ELSE x
sext(x) == Trunc(SInt(x, IMMLEN))

Instrs == {"BEQ", "BNE", "BLT", "BGE", "BLTU", "BGEU", "JAL", "JALR"}

PCs == {a \in Word : a % ILEN_BYTES = 0}

\* B and J immediates are assembled with a zero bit 0; the I immediate of
\* JALR is any value.
Imms(ins) == {i \in 0..(2^IMMLEN - 1) : ins = "JALR" \/ i % 2 = 0}

\* The fields of the decoded record the stage reads: JAL has no rs1, JALR
\* and the branches have one; the branch type and unsigned flag select the
\* comparison.  The RTL decoder that fills op_class and branch_msg is not
\* in the tree; the fields follow the CL decoder's dec_branch/dec_jal/dec_jalr.
Decoded(ins) ==
  [op_class    |-> IF ins \in {"JAL", "JALR"} THEN "JUMP" ELSE "BRANCH",
   rs1_val     |-> ins # "JAL",
   branch_type |-> CASE ins = "BEQ"             -> "EQ"
                     [] ins = "BNE"             -> "NE"
                     [] ins \in {"BLT", "BLTU"} -> "LT"
                     [] OTHER                   -> "GE",
   unsigned    |-> ins \in {"BLTU", "BGEU"}]

\* Comparator with the CMPFunc OP_LUT_MAP gives for the branch type.
Compare(f, a, b, u) ==
  LET x == IF u THEN a ELSE SInt(a, XLEN)
      y == IF u THEN b ELSE SInt(b, XLEN)
  IN CASE f = "EQ" -> x = y
       [] f = "NE" -> x # y
       [] f = "LT" -> x < y
       [] f = "GE" -> x >= y

\* set_take_branch: the comparison holds, or the instruction is a jump.
take_branch(m) ==
  Compare(m.branch_type, m.rs1, m.rs2, m.unsigned) \/ m.op_class = "JUMP"

\* Fault variant: rs1 + imm used as the target without clearing bit 0.
branch_target_nomask(m) ==
  LET imm == sext(m.imm)
  IN IF take_branch(m)
     THEN IF m.op_class = "BRANCH" \/ ~m.rs1_val
          THEN Trunc(m.pc + imm) ELSE Trunc(m.rs1 + imm)
     ELSE Trunc(m.pc + ILEN_BYTES)

\* compute_target: pc + imm for taken branches and JAL, rs1 + imm with bit
\* 0 cleared for JALR, the fall-through pc + 4 when not taken.
branch_target(m) ==
  LET imm         == sext(m.imm)
      pcimm       == Trunc(m.pc + imm)
      rs1imm      == Trunc(m.rs1 + imm) - (Trunc(m.rs1 + imm) % 2)
      fallthrough == Trunc(m.pc + ILEN_BYTES)
  IN IF take_branch(m)
     THEN IF m.op_class = "BRANCH" \/ ~m.rs1_val THEN pcimm ELSE rs1imm
     ELSE fallthrough

-----------------------------------------------------------------------------
NoMsg == [instr |-> "none"]   \* before the first process call

VARIABLES
  msg,   \* the DispatchMsg on process_in_
  out,   \* process_out.result, the cflow_redirect and btb_write arguments
  nproc  \* instructions processed so far

vars == <<msg, out, nproc>>

Init == msg = NoMsg /\ out = NoMsg /\ nproc = 0

\* process: the stage is always ready (process_accepted is 1); the call
\* drives the comparator, cflow_redirect with force 0 and btb_write, and
\* the result register takes pc + 4.
process(ins, pc, rs1, rs2, imm) ==
  LET d == Decoded(ins)
      m == [instr |-> ins, pc |-> pc, rs1 |-> rs1, rs2 |-> rs2, imm |-> imm,
            op_class |-> d.op_class, rs1_val |-> d.rs1_val,
            branch_type |-> d.branch_type, unsigned |-> d.unsigned]
  IN /\ nproc < MAXPROC
     /\ nproc' = nproc + 1
     /\ msg' = m
     /\ out' = [result          |-> Trunc(pc + ILEN_BYTES),
                redirect_target |-> branch_target(m),
                redirect_force  |-> FALSE,
                btb_key         |-> pc,
                btb_value       |-> branch_target(m),
                btb_remove      |-> ~take_branch(m)]

\* Nothing is carried from one call to the next, so one call per
\* behaviour covers every input; the behaviour then stops.
Done == nproc = MAXPROC /\ UNCHANGED vars

Next ==
  \/ /\ nproc < MAXPROC
     /\ \E ins \in Instrs, pc \in PCs, rs1, rs2 \in Word :
           \E imm \in Imms(ins) : process(ins, pc, rs1, rs2, imm)
  \/ Done

Spec == Init /\ [][Next]_vars

-----------------------------------------------------------------------------
(***************************************************************************)
(* RV32I/RV64I control transfer, written from the ISA manual: a branch    *)
(* compares rs1 with rs2 signed (BLT/BGE) or unsigned (BLTU/BGEU) and      *)
(* goes to pc + offset when the condition holds; JAL goes to pc + offset; *)
(* JALR to (rs1 + offset) with the least-significant bit set to zero.     *)
(* Addresses wrap at XLEN bits.                                            *)
(***************************************************************************)
RiscVTaken(ins, a, b) ==
  CASE ins = "BEQ"  -> a = b
    [] ins = "BNE"  -> a # b
    [] ins = "BLT"  -> SInt(a, XLEN) < SInt(b, XLEN)
    [] ins = "BGE"  -> SInt(a, XLEN) >= SInt(b, XLEN)
    [] ins = "BLTU" -> a < b
    [] ins = "BGEU" -> a >= b
    [] OTHER        -> TRUE

RiscVNextPc(ins, pc, a, b, offset) ==
  CASE ins = "JALR"           -> ((a + offset) % 2^XLEN) & (2^XLEN - 2)
    [] RiscVTaken(ins, a, b)  -> (pc + offset) % 2^XLEN
    [] OTHER                  -> (pc + 4) % 2^XLEN

TypeOK ==
  \/ msg = NoMsg /\ out = NoMsg
  \/ /\ msg.instr \in Instrs /\ msg.pc \in PCs
     /\ out.redirect_target \in Word /\ out.btb_remove \in BOOLEAN

(* The stage resolves every branch and jump as RISC-V does
   (compute_target, set_take_branch, update_btb, set_value_reg_input): the
   redirect goes to the architectural next pc, the BTB entry of the pc is
   removed exactly when the instruction is not taken and otherwise set to
   that next pc, and a jump links pc + 4. *)
BranchResolvesLikeRiscV ==
  msg # NoMsg =>
    LET next == RiscVNextPc(msg.instr, msg.pc, msg.rs1, msg.rs2,
                            SInt(msg.imm, IMMLEN))
    IN /\ out.redirect_target = next
       /\ out.btb_remove = ~RiscVTaken(msg.instr, msg.rs1, msg.rs2)
       /\ ~out.btb_remove => out.btb_value = next
       /\ msg.instr \in {"JAL", "JALR"} => out.result = (msg.pc + 4) % 2^XLEN

=============================================================================
