------------------------------- MODULE Decode -------------------------------
(***************************************************************************)
(* DecodeUnitCL.xtick (lizard/core/cl/decode.py): each cycle decode first  *)
(* asks controlflow for a redirect and, if there is one and a fetch packet *)
(* waits in instr_q, squashes that packet and returns.  Otherwise, when   *)
(* decoded_q has room and a packet waits, it dequeues it, copies the fetch *)
(* fields and decodes the word at the packet's address with the tables of *)
(* DecodeTable: a word no table has becomes an ILLEGAL_INSTRUCTION         *)
(* exception packet.                                                      *)
(***************************************************************************)
EXTENDS Integers, Sequences, DecodeTable

CONSTANTS
  NoRedirect,    \* check_redirect() with valid = 0
  DECODED_CAP,   \* capacity of decoded_q
  Program        \* the instruction word stored at each address

VARIABLES
  instrs_q,      \* instr_q: fetch packets [pc, instr, pc_next]
  decoded_q      \* decode packets [pc, instr, valid] not yet taken by rename

\* copy_fetch_decode and the opmap dispatch; the KeyError handler clears
\* valid (status EXCEPTION_TRIGGERED, mcause ILLEGAL_INSTRUCTION).
DecodePacket(f) ==
  LET d == DecodeWord(Program[f.instr.addr])
  IN [pc |-> f.pc, instr |-> f.instr, valid |-> d.valid, decoded |-> d]

\* Fault variant: the redirect check ignored, the waiting packet decoded.
xtick_nosquash(r) ==
  IF Len(decoded_q) >= DECODED_CAP \/ instrs_q = <<>>
  THEN UNCHANGED <<instrs_q, decoded_q>>
  ELSE /\ instrs_q' = Tail(instrs_q)
       /\ decoded_q' = Append(decoded_q, DecodePacket(Head(instrs_q)))

\* Fault variant: a waiting packet squashed whether or not redirected.
xtick_alwayssquash(r) ==
  IF instrs_q # <<>>
  THEN instrs_q' = Tail(instrs_q) /\ UNCHANGED decoded_q
  ELSE UNCHANGED <<instrs_q, decoded_q>>

\* One xtick with check_redirect() = r, early returns in the code's order.
xtick(r) ==
  IF r # NoRedirect /\ instrs_q # <<>>
  THEN instrs_q' = Tail(instrs_q) /\ UNCHANGED decoded_q
  ELSE IF Len(decoded_q) >= DECODED_CAP \/ instrs_q = <<>>
  THEN UNCHANGED <<instrs_q, decoded_q>>
  ELSE /\ instrs_q' = Tail(instrs_q)
       /\ decoded_q' = Append(decoded_q, DecodePacket(Head(instrs_q)))

\* The consumer of decoded_q (rename and dispatch) takes the oldest packet.
Take ==
  /\ decoded_q # <<>>
  /\ decoded_q' = Tail(decoded_q)
  /\ UNCHANGED instrs_q

=============================================================================
