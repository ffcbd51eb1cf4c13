------------------------------- MODULE Fetch -------------------------------
(***************************************************************************)
(* FetchUnitCL (lizard/core/cl/fetch.py): the cycle-level fetch unit.      *)
(*                                                                         *)
(* One Tick is one call of xtick, taken as a whole: the redirect check and *)
(* its early return, then the drop unit, the response path and the        *)
(* request path in the order the code runs them.  in_flight and drop_mem   *)
(* are plain attributes, written immediately; pc and pc_in_flight are      *)
(* wires written through .next, so a later statement of the same tick     *)
(* still reads the old value.  The memory answers requests in order.  A  *)
(* request and its response carry the address read, which stands for the  *)
(* instruction word stored there, and a ghost epoch: the number of        *)
(* redirects before the request was sent, read by no action.  Frontend     *)
(* composes this unit with decode and the memory.                          *)
(***************************************************************************)
EXTENDS Integers, Sequences

CONSTANTS
  XLEN,          \* width of pc (reduced: addresses wrap at 2^XLEN)
  ILEN_BYTES,    \* bytes per instruction
  Targets,       \* redirect targets controlflow can return
  NoRedirect,    \* check_redirect() with valid = 0
  INSTRS_CAP,    \* capacity of instrs_q
  MAXREDIRECTS   \* redirects in a behaviour

ASSUME /\ XLEN \in Nat /\ ILEN_BYTES \in Nat \ {0} /\ INSTRS_CAP \in Nat \ {0}
       /\ NoRedirect \notin Targets /\ MAXREDIRECTS \in Nat

Addr == 0..(2^XLEN - 1)

Word == [addr : Addr, epoch : 0..MAXREDIRECTS]

VARIABLES
  pc, pc_in_flight, in_flight, drop_mem,
  req_q,       \* requests [addr, epoch] sent, not yet answered by memory
  resp_q,      \* responses [addr, epoch] not yet taken by fetch
  instrs_q,    \* fetch packets not yet taken by decode
  redirects,   \* number of redirects so far (bound)
  want         \* ghost: the pc the next fetched instruction must have

vars == <<pc, pc_in_flight, in_flight, drop_mem, req_q, resp_q, instrs_q,
          redirects, want>>

\* pc + ILEN_BYTES in an XLEN-bit register.
NextPc(p) == (p + ILEN_BYTES) % 2^XLEN

\* Reset clears drop_mem and in_flight; pc starts at 0 (the wire's reset).
Init ==
  /\ pc = 0 /\ pc_in_flight = 0
  /\ in_flight = FALSE /\ drop_mem = FALSE
  /\ req_q = <<>> /\ resp_q = <<>> /\ instrs_q = <<>>
  /\ redirects = 0 /\ want = 0

\* Fault variant: the redirect squash also forgets the outstanding request.
Redirect_forget(t) ==
  /\ IF resp_q # <<>>
       THEN /\ resp_q' = Tail(resp_q)
            /\ UNCHANGED drop_mem
       ELSE /\ drop_mem' = in_flight
            /\ UNCHANGED resp_q
  /\ in_flight' = FALSE
  /\ pc' = t
  /\ UNCHANGED <<pc_in_flight, req_q, instrs_q>>

\* xtick with a valid redirect: drop a waiting response, or else mark the
\* outstanding request's response to be dropped; redirect pc; return.
Redirect(t) ==
  /\ IF resp_q # <<>>
       THEN /\ resp_q' = Tail(resp_q)
            /\ in_flight' = FALSE
            /\ UNCHANGED drop_mem
       ELSE /\ drop_mem' = in_flight
            /\ UNCHANGED <<resp_q, in_flight>>
  /\ pc' = t
  /\ UNCHANGED <<pc_in_flight, req_q, instrs_q>>

\* Fault variant: the drop unit leaves in_flight set.
DropStale_keepflight(rq, dm, inf) ==
  IF dm /\ rq # <<>> THEN <<Tail(rq), FALSE, inf>> ELSE <<rq, dm, inf>>

\* The drop unit: <<resp_q, drop_mem, in_flight>> after it.
DropStale(rq, dm, inf) ==
  IF dm /\ rq # <<>> THEN <<Tail(rq), FALSE, FALSE>> ELSE <<rq, dm, inf>>

\* Fault variant: a response is taken without checking instrs_q.full().
TakeResp_ignorefull(rq) == rq # <<>>

\* The response path runs when a response waits and instrs_q has room.
TakeResp(rq) == rq # <<>> /\ Len(instrs_q) < INSTRS_CAP

\* xtick without a redirect: drop unit, then response path, then request.
Sequential ==
  LET d   == DropStale(resp_q, drop_mem, in_flight)
      rq  == d[1]
      got == TakeResp(rq)
      inf == IF got THEN FALSE ELSE d[3]
  IN
  /\ resp_q' = IF got THEN Tail(rq) ELSE rq
  /\ drop_mem' = d[2]
  /\ instrs_q' = IF got
                   THEN Append(instrs_q, [pc |-> pc_in_flight,
                                          instr |-> Head(rq),
                                          pc_next |-> pc])
                   ELSE instrs_q
  /\ in_flight' = TRUE
  /\ IF ~inf
       THEN /\ req_q' = Append(req_q, [addr |-> pc, epoch |-> redirects])
            /\ pc_in_flight' = pc
            /\ pc' = NextPc(pc)
       ELSE UNCHANGED <<req_q, pc_in_flight, pc>>

\* One xtick; the ghost records where the fetched stream must continue.
Tick(r) ==
  \/ /\ r \in Targets
     /\ redirects < MAXREDIRECTS
     /\ Redirect(r)
     /\ redirects' = redirects + 1
     /\ want' = r
  \/ /\ r = NoRedirect
     /\ Sequential
     /\ want' = IF Len(instrs_q') > Len(instrs_q)
                  THEN NextPc(pc_in_flight) ELSE want
     /\ UNCHANGED redirects

\* The memory answers the oldest request.
MemRespond ==
  /\ req_q # <<>>
  /\ req_q' = Tail(req_q)
  /\ resp_q' = Append(resp_q, Head(req_q))
  /\ UNCHANGED <<pc, pc_in_flight, in_flight, drop_mem, instrs_q,
                 redirects, want>>

-----------------------------------------------------------------------------
TypeOK ==
  /\ pc \in Addr /\ pc_in_flight \in Addr
  /\ in_flight \in BOOLEAN /\ drop_mem \in BOOLEAN
  /\ req_q \in Seq(Word) /\ resp_q \in Seq(Word)
  /\ instrs_q \in Seq([pc : Addr, instr : Word, pc_next : Addr])
  /\ Len(instrs_q) <= INSTRS_CAP
  /\ redirects \in 0..MAXREDIRECTS /\ want \in Addr

(* Every packet fetch hands to decode carries the instruction read from  *)
(* its own pc: the response path labels a response with pc_in_flight,    *)
(* which is right only while at most one request is outstanding and a   *)
(* redirect's stale response never reaches that path.                   *)
PacketMatchesPc == \A i \in DOMAIN instrs_q : instrs_q[i].instr.addr = instrs_q[i].pc

(* Once redirects stop, fetch keeps delivering instructions: the         *)
(* in_flight and drop_mem bookkeeping never leaves the unit waiting for  *)
(* a response that will not come.                                        *)
KeepsFetching == []<>(instrs_q # <<>>)

(* "Squash everything" on a redirect: the next packet fetch delivers is  *)
(* the instruction at the redirect target, and each later one the        *)
(* instruction after its predecessor.                                   *)
FollowsControlFlow ==
  [][Len(instrs_q') > Len(instrs_q) => instrs_q'[Len(instrs_q')].pc = want]_vars

=============================================================================
