-------------------------- MODULE AbstractScheduler --------------------------
(***************************************************************************)
(* What the compacting issue queue promises (spec section 4.6), without   *)
(* slots: a bounded pool of pending instructions keyed by their position  *)
(* in program order.  In one cycle a kill drops every instruction whose   *)
(* branch set names it, a remove issues the oldest eligible survivor,    *)
(* notifies wake sources up, and an add enters a new instruction if the  *)
(* pool has room after the cycle's departures.  Positions, not slots,    *)
(* give the age, so compaction does not appear here at all.              *)
(***************************************************************************)
EXTENDS Integers, FiniteSets

CONSTANTS
  CAPACITY,      \* the number of instructions the pool holds
  Branches,      \* branches a kill can name
  NoKill,        \* no kill this cycle
  BYPASS_READY,  \* a notify in the cycle of the issue already counts
  ORDERED,       \* ordered instructions neither pass nor are passed
  MAXADDS,       \* instructions added in a behaviour
  NotifySets,    \* the sets of tags a cycle can broadcast
  Entries        \* the instructions dispatch can add

VARIABLES
  pending,   \* position |-> [src0, src0_val, src0_rdy, src1, ..., ordered, kill_opaque]
  nextId     \* position of the next instruction added

vars == <<pending, nextId>>

Init == pending = [x \in {} |-> 0] /\ nextId = 1

\* A source is ready once woken, or unused.
Woken(e, n) ==
  [e EXCEPT !.src0_rdy = @ \/ (e.src0_val /\ e.src0 \in n),
            !.src1_rdy = @ \/ (e.src1_val /\ e.src1 \in n)]

Admitted(e, n) ==
  [e EXCEPT !.src0_rdy = @ \/ ~e.src0_val \/ e.src0 \in n,
            !.src1_rdy = @ \/ ~e.src1_val \/ e.src1 \in n]

\* The survivors of kill k in pool p.
Survivors(p, k) == {x \in DOMAIN p : k \notin p[x].kill_opaque}

Ready(e, n) ==
  LET w == IF BYPASS_READY THEN Woken(e, n) ELSE e
  IN w.src0_rdy /\ w.src1_rdy

\* Eligible: a ready survivor such that, in an ordered pool, no older
\* survivor is ordered, nor, for an ordered instruction, left at all.
Eligible(p, x, n, k) ==
  /\ x \in Survivors(p, k)
  /\ Ready(p[x], n)
  /\ ORDERED =>
       \A y \in Survivors(p, k) : y < x => ~p[y].ordered /\ ~p[x].ordered

Oldest(S) == CHOOSE x \in S : \A y \in S : x <= y

\* One cycle: notifies n, kill k, remove call rm, add call ac.  The new
\* pool is given by its domain and entries, so that the step is checked
\* entry by entry.
Step(n, k, rm, ac) ==
  LET p      == pending
      q      == pending'
      elig   == {x \in DOMAIN p : Eligible(p, x, n, k)}
      issued == IF rm THEN {Oldest(elig)} ELSE {}
      stay   == Survivors(p, k) \ issued
      new    == IF ac THEN {nextId} ELSE {}
  IN /\ nextId' = IF ac THEN nextId + 1 ELSE nextId
     /\ rm => elig # {}
     /\ DOMAIN q = stay \cup new
     /\ \A x \in stay : q[x] = Woken(p[x], n)
     /\ ac => /\ Cardinality(stay) < CAPACITY
              /\ nextId <= MAXADDS
              /\ \E e \in Entries : k \notin e.kill_opaque /\ q[nextId] = Admitted(e, n)

Next ==
  \E n \in NotifySets, k \in Branches \cup {NoKill}, rm, ac \in BOOLEAN :
     Step(n, k, rm, ac)

Spec == Init /\ [][Next]_vars

=============================================================================
