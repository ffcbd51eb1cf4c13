----------------------------- MODULE MC_Isa ---------------------------------
(***************************************************************************)
(* Model-checking instance of the units whose results the RISC-V ISA      *)
(* fixes: the decoder's tables, the non-restoring divider (with the results *)
(* of the CL multiply/divide unit on the same operands) and the branch     *)
(* stage.  The                                                             *)
(* units share no state and no call, so a behaviour exercises one of them, *)
(* chosen in the initial state, while the other stays in its reset state:  *)
(* every property below reads the variables of one unit, so it holds of   *)
(* the units run side by side exactly when it holds of each behaviour      *)
(* here, and TLC explores the sum of their state spaces, not the product.  *)
(***************************************************************************)
EXTENDS Divider, DecodeTable

CONSTANTS
  HALF,      \* width of the W forms' operands
  IMMLEN,    \* width of the branch stage's decoded immediate
  MAXPROC,   \* instructions the branch stage processes in a behaviour
  FUNCT7S,   \* values of bits 31:25 of a decoded word
  RS2S,      \* values of bits 24:20
  REGS       \* values of the rs1 and rd fields

VARIABLES
  msg, out, nproc,   \* the branch stage (module Branch)
  word, packet,      \* the decoder: the word decoded and its packet
  unit               \* the unit this behaviour exercises

M == INSTANCE MulDiv WITH XLEN <- DATALEN
B == INSTANCE Branch WITH XLEN <- DATALEN

Units == {"decoder", "divider", "branch"}

\* Instruction words: every opcode opmap has and one it lacks (AMO), every
\* funct3, and the values of the other fields that the tables tell apart.
Words == [opcode : Opcodes \cup {"AMO"}, funct3 : 0..7, funct7 : FUNCT7S,
          rs2 : RS2S, rs1 : REGS, rd : REGS]

NoWord == [opcode |-> "none"]

dvars == <<word, packet>>
bvars == <<msg, out, nproc>>

allvars == <<vars, bvars, dvars, unit>>

ExecInit ==
  /\ unit \in Units /\ Init /\ B!Init
  /\ word = NoWord /\ packet = KeyError

\* DecodeUnitCL.xtick decodes one fetched word; the tables keep nothing
\* between words, so one word per behaviour covers them all.
DecodeStep ==
  /\ word = NoWord
  /\ \E w \in Words : word' = w /\ packet' = DecodeWord(w)

DecoderDone == word # NoWord /\ UNCHANGED dvars

ExecNext ==
  \/ unit = "decoder" /\ (DecodeStep \/ DecoderDone) /\ UNCHANGED <<vars, bvars, unit>>
  \/ unit = "divider" /\ Next /\ UNCHANGED <<bvars, dvars, unit>>
  \/ unit = "branch" /\ B!Next /\ UNCHANGED <<vars, dvars, unit>>

ExecSpec == ExecInit /\ [][ExecNext]_allvars

-----------------------------------------------------------------------------
(* Every word RV64IM (with Zicsr and Zifencei) defines is decoded as the   *)
(* ISA defines it: the opmap and funct tables of the dec_* handlers give   *)
(* the instruction, the register operands its format reads and writes,    *)
(* its I, shift or CSR immediate, and the CSR and control-flow flags.      *)
DecodesLegalLikeRV64 ==
  word # NoWord /\ RV64Encoding(word) # {} =>
    packet = RefPacket(CHOOSE e \in RV64Encoding(word) : TRUE, word)

(* The decoder accepts only the words RV64IM defines; every other word,   *)
(* a reserved encoding, becomes an illegal-instruction packet (the         *)
(* KeyError path of xtick).                                               *)
DecodesOnlyRV64 ==
  word # NoWord /\ packet.valid => RV64Encoding(word) # {}

(* For the operands of every div call the divider is given, each of the  *)
(* thirteen instructions of MulDivUnitCL.xtick computes the RISC-V       *)
(* M-extension result: signs, division by zero, the most-negative / -1   *)
(* overflow, the high products, and the W forms' truncation and sign     *)
(* extension.                                                            *)
MulDivMatchesRiscV ==
  \A ins \in M!Instrs :
    M!Result(ins, op.dividend, op.divisor) = M!RefResult(ins, op.dividend, op.divisor)

(* The branch stage resolves every branch and jump as RISC-V does: the     *)
(* redirect goes to the architectural next pc, the BTB entry is removed    *)
(* exactly when not taken and otherwise set to it, and a jump links pc+4.  *)
BranchResolvesLikeRiscV == B!BranchResolvesLikeRiscV
=============================================================================
