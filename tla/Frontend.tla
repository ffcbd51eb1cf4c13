------------------------------ MODULE Frontend ------------------------------
(***************************************************************************)
(* The front end: FetchUnitCL and DecodeUnitCL joined by instrs_q, with   *)
(* the memory answering fetch and rename draining decoded_q.  In a clock  *)
(* cycle controlflow's check_redirect() returns the same value to both    *)
(* units, and each unit's xtick runs once; the order of the two xticks is *)
(* set by the simulator, which is not in the tree, so both orders are     *)
(* explored.  The memory and rename act between any two steps.            *)
(***************************************************************************)
EXTENDS Fetch

CONSTANTS
  DECODED_CAP,   \* capacity of decoded_q
  Program        \* the instruction word stored at each address

VARIABLES
  decoded_q,     \* decode packets not yet taken by rename
  redirect,      \* check_redirect() in this cycle
  ticked         \* the units whose xtick has run in this cycle

D == INSTANCE Decode

allvars == <<vars, decoded_q, redirect, ticked>>

FInit ==
  /\ Init
  /\ decoded_q = <<>>
  /\ redirect = NoRedirect
  /\ ticked = {}

FetchXtick ==
  /\ "fetch" \notin ticked
  /\ Tick(redirect)
  /\ ticked' = ticked \cup {"fetch"}
  /\ UNCHANGED <<decoded_q, redirect>>

DecodeXtick ==
  /\ "decode" \notin ticked
  /\ D!xtick(redirect)
  /\ ticked' = ticked \cup {"decode"}
  /\ UNCHANGED <<pc, pc_in_flight, in_flight, drop_mem, req_q, resp_q,
                 redirects, want, redirect>>

Memory == MemRespond /\ UNCHANGED <<decoded_q, redirect, ticked>>

Rename ==
  /\ D!Take
  /\ UNCHANGED <<pc, pc_in_flight, in_flight, drop_mem, req_q, resp_q,
                 redirects, want, redirect, ticked>>

\* The clock edge: controlflow may redirect in the next cycle, up to
\* MAXREDIRECTS times in a behaviour.
EndCycle ==
  /\ ticked = {"fetch", "decode"}
  /\ ticked' = {}
  /\ redirect' \in {NoRedirect} \cup
                   (IF redirects < MAXREDIRECTS THEN Targets ELSE {})
  /\ UNCHANGED <<vars, decoded_q>>

FNext == FetchXtick \/ DecodeXtick \/ Memory \/ Rename \/ EndCycle

(* Both xticks run every cycle, the memory answers every request and      *)
(* rename takes every decoded packet.                                      *)
FFairness ==
  /\ WF_allvars(FetchXtick) /\ WF_allvars(DecodeXtick) /\ WF_allvars(EndCycle)
  /\ WF_allvars(Memory) /\ WF_allvars(Rename)

FSpec == FInit /\ [][FNext]_allvars

FairFSpec == FSpec /\ FFairness

-----------------------------------------------------------------------------
(* No packet fetched before a redirect is decoded after it: fetch drops   *)
(* the stale response (drop_mem) and decode squashes the packet waiting   *)
(* in instr_q, in whichever order their xticks run, so every packet       *)
(* decode emits was requested since the latest redirect.                  *)
DecodesOnlyCurrentPath ==
  [][Len(decoded_q') > Len(decoded_q) =>
       decoded_q'[Len(decoded_q')].instr.epoch = redirects']_allvars

(* Once redirects stop, decode keeps emitting packets: its squash takes   *)
(* only packets of a redirect cycle, and fetch keeps supplying them.      *)
KeepsDecoding == []<>(decoded_q # <<>>)

=============================================================================
