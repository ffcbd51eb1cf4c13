--------------------------- MODULE MC_IssueQueue ---------------------------
(* Model-checking instance of IssueQueue.                                 *)
EXTENDS IssueQueue

(* State view for TLC: the registers of an invalid slot are dead (every   *)
(* read of them is guarded by the slot's valid bit, and input rewrites     *)
(* them all), so they are left out.                                       *)
LiveSlotsView ==
  <<[i \in SlotIdx |-> IF slots[i].valid THEN slots[i] ELSE EmptySlot],
    nextId, gone, lastIssue, ready_table>>
=============================================================================
