-------------------------- MODULE DataflowManagerV0 --------------------------
(***************************************************************************)
(* The older DataFlowManagerFL (src/src/core/fl/dataflow.py).  Against the *)
(* current one it has no store ids and no forwarding; the value file      *)
(* carries the ready bit; commit_tag takes only the tag and finds its      *)
(* areg through the inverse table written by get_dst; and rollback hands  *)
(* the free list the architecturally-used bits without negating them.     *)
(*                                                                         *)
(* The callers are the in-flight window `rob`, as in DataflowManager.      *)
(***************************************************************************)
EXTENDS Integers, Sequences, FiniteSets, FiniteSetsExt, Functions,
        SnapshottingFreeList

CONSTANTS NAREGS, NPREGS, NSNAPSHOTS, MAXINFLIGHT

ASSUME NAREGS >= 2 /\ NPREGS >= NAREGS + 2 /\ NSNAPSHOTS >= 1 /\ MAXINFLIGHT >= 1

Aregs    == 0..(NAREGS - 1)
ArchRegs == 1..(NAREGS - 1)
ZERO_TAG == NPREGS - 1
Pregs    == 0..(NPREGS - 2)
SnapIds  == 0..(NSNAPSHOTS - 1)

VARIABLES
  regFree, regMasks,     \* free_regs
  snapFree, snapMasks,   \* snapshot_allocator
  rename, renameSnap,    \* rename_table and its checkpoint copies
  areg_file, arch_used, inverse,
  ready,                 \* the ready field of preg_file
  rob                    \* the callers' in-flight window

vars == <<regFree, regMasks, snapFree, snapMasks, rename, renameSnap,
          areg_file, arch_used, inverse, ready, rob>>

InitialMap == [a \in ArchRegs |-> a - 1]

Init ==
  /\ regFree = {p \in Pregs : p >= NAREGS - 1}
  /\ regMasks = [s \in SnapIds |-> {}]
  /\ snapFree = SnapIds
  /\ snapMasks = [s \in SnapIds |-> {}]
  /\ rename = InitialMap
  /\ renameSnap = [s \in SnapIds |-> InitialMap]
  /\ areg_file = InitialMap
  /\ arch_used = 0..(NAREGS - 1)
  \* inverse_reset: preg x holds areg x + 1; the rest are written by get_dst
  /\ inverse = [p \in Pregs |-> IF p < NAREGS - 1 THEN p + 1 ELSE 0]
  /\ ready = [p \in Pregs |-> p < NAREGS - 1]
  /\ rob = <<>>

OpEntry(a, t)  == [kind |-> "op", areg |-> a, tag |-> t, done |-> FALSE]
BranchEntry(s) == [kind |-> "br", snap |-> s, done |-> FALSE]

-----------------------------------------------------------------------------
(* Fault variant: get_dst leaves the allocated preg's ready bit as it was. *)
get_dst_keepready(a) ==
  /\ Len(rob) < MAXINFLIGHT
  /\ IF a = 0
       THEN /\ rob' = Append(rob, OpEntry(0, ZERO_TAG))
            /\ UNCHANGED <<regFree, regMasks, rename, ready, inverse>>
       ELSE LET t == FirstFree(regFree) IN
            /\ regFree # {}
            /\ regFree' = regFree \ {t}
            /\ regMasks' = RecordAlloc(regMasks, t)
            /\ rename' = [rename EXCEPT ![a] = t]
            /\ inverse' = [inverse EXCEPT ![t] = a]
            /\ rob' = Append(rob, OpEntry(a, t))
            /\ UNCHANGED ready
  /\ UNCHANGED <<snapFree, snapMasks, renameSnap, areg_file, arch_used>>

(* get_dst(areg).  Areg 0 succeeds with ZERO_TAG; otherwise a call with   *)
(* an empty free list returns success = 0 and changes nothing.           *)
get_dst(a) ==
  /\ Len(rob) < MAXINFLIGHT
  /\ IF a = 0
       THEN /\ rob' = Append(rob, OpEntry(0, ZERO_TAG))
            /\ UNCHANGED <<regFree, regMasks, rename, ready, inverse>>
       ELSE LET t == FirstFree(regFree) IN
            /\ regFree # {}
            /\ regFree' = regFree \ {t}
            /\ regMasks' = RecordAlloc(regMasks, t)
            /\ rename' = [rename EXCEPT ![a] = t]
            /\ ready' = [ready EXCEPT ![t] = FALSE]
            /\ inverse' = [inverse EXCEPT ![t] = a]
            /\ rob' = Append(rob, OpEntry(a, t))
  /\ UNCHANGED <<snapFree, snapMasks, renameSnap, areg_file, arch_used>>

(* write_tag(tag, value) by the producer of entry i.                      *)
write_tag(i) ==
  /\ rob[i].kind = "op" /\ ~rob[i].done
  /\ rob' = [rob EXCEPT ![i].done = TRUE]
  /\ ready' = IF rob[i].tag = ZERO_TAG THEN ready
              ELSE [ready EXCEPT ![rob[i].tag] = TRUE]
  /\ UNCHANGED <<regFree, regMasks, snapFree, snapMasks, rename, renameSnap,
                 areg_file, arch_used, inverse>>

(* Fault variant: commit_tag frees the committing tag itself.            *)
commit_tag_freenew ==
  /\ rob # <<>>
  /\ Head(rob).kind = "op" /\ Head(rob).done
  /\ rob' = Tail(rob)
  /\ LET t == Head(rob).tag IN
     IF t = ZERO_TAG
       THEN UNCHANGED <<regFree, areg_file, arch_used>>
       ELSE LET old_areg == inverse[t]
                old_preg == areg_file[old_areg]
            IN /\ regFree' = regFree \cup {t}
               /\ areg_file' = [areg_file EXCEPT ![old_areg] = t]
               /\ arch_used' = (arch_used \ {old_preg}) \cup {t}
  /\ UNCHANGED <<regMasks, snapFree, snapMasks, rename, renameSnap, inverse,
                 ready>>

(* commit_tag(tag) for the written producer at the head of the window:    *)
(* the areg comes from the inverse table, its committed preg is freed.   *)
commit_tag ==
  /\ rob # <<>>
  /\ Head(rob).kind = "op" /\ Head(rob).done
  /\ rob' = Tail(rob)
  /\ LET t == Head(rob).tag IN
     IF t = ZERO_TAG
       THEN UNCHANGED <<regFree, areg_file, arch_used>>
       ELSE LET old_areg == inverse[t]
                old_preg == areg_file[old_areg]
            IN /\ regFree' = regFree \cup {old_preg}
               /\ areg_file' = [areg_file EXCEPT ![old_areg] = t]
               /\ arch_used' = (arch_used \ {old_preg}) \cup {t}
  /\ UNCHANGED <<regMasks, snapFree, snapMasks, rename, renameSnap, inverse,
                 ready>>

(* snapshot(), guarded by its ready method.                               *)
snapshot ==
  /\ snapFree # {}
  /\ Len(rob) < MAXINFLIGHT
  /\ LET id == FirstFree(snapFree) IN
     /\ snapFree' = snapFree \ {id}
     /\ snapMasks' = ResetTracking(RecordAlloc(snapMasks, id), id)
     /\ regMasks' = ResetTracking(regMasks, id)
     /\ renameSnap' = [renameSnap EXCEPT ![id] = rename]
     /\ rob' = Append(rob, BranchEntry(id))
  /\ UNCHANGED <<regFree, rename, areg_file, arch_used, inverse, ready>>

\* The caller retires a resolved branch.
RetireBranch ==
  /\ rob # <<>>
  /\ Head(rob).kind = "br" /\ Head(rob).done
  /\ rob' = Tail(rob)
  /\ UNCHANGED <<regFree, regMasks, snapFree, snapMasks, rename, renameSnap,
                 areg_file, arch_used, inverse, ready>>

(* free_snapshot(id): the branch of entry i resolved as predicted.        *)
free_snapshot(i) ==
  /\ rob[i].kind = "br" /\ ~rob[i].done
  /\ snapFree' = snapFree \cup {rob[i].snap}
  /\ rob' = [rob EXCEPT ![i].done = TRUE]
  /\ UNCHANGED <<regFree, regMasks, snapMasks, rename, renameSnap, areg_file,
                 arch_used, inverse, ready>>

(* restore(id) for a mispredicted branch at entry i, followed by           *)
(* free_snapshot(id); everything younger than the branch is squashed.     *)
restore(i) ==
  /\ rob[i].kind = "br" /\ ~rob[i].done
  /\ LET id == rob[i].snap IN
     /\ snapFree' = RevertAllocs(snapFree, snapMasks, id) \cup {id}
     /\ regFree' = RevertAllocs(regFree, regMasks, id)
     /\ rename' = renameSnap[id]
  /\ rob' = [SubSeq(rob, 1, i) EXCEPT ![i].done = TRUE]
  /\ UNCHANGED <<regMasks, snapMasks, renameSnap, areg_file, arch_used,
                 inverse, ready>>

(* rollback(): free_regs.set is given arch_used_pregs as it is.           *)
rollback ==
  /\ snapFree' = SnapIds
  /\ regFree' = arch_used \cap Pregs
  /\ rename' = areg_file
  /\ rob' = <<>>
  /\ UNCHANGED <<regMasks, snapMasks, renameSnap, areg_file, arch_used,
                 inverse, ready>>

NextSpeculation ==
  \/ \E a \in Aregs : get_dst(a)
  \/ snapshot
  \/ commit_tag
  \/ RetireBranch
  \/ \E i \in DOMAIN rob : write_tag(i) \/ free_snapshot(i) \/ restore(i)

Next == NextSpeculation \/ rollback

SpecSpeculation == Init /\ [][NextSpeculation]_vars

Spec == Init /\ [][Next]_vars

-----------------------------------------------------------------------------
OwnerIdx == {i \in DOMAIN rob : rob[i].kind = "op" /\ rob[i].tag # ZERO_TAG}
InFlightTags == {rob[i].tag : i \in OwnerIdx}
Owned == Range(areg_file) \cup InFlightTags

(* No physical register is handed out twice: commit_tag, finding the      *)
(* areg through the inverse table, frees the preg that areg held before,  *)
(* never one that is still owned.                                         *)
NoDoubleAllocation ==
  /\ regFree \cap Owned = {}
  /\ \A i, j \in OwnerIdx : i # j => rob[i].tag # rob[j].tag
  /\ InFlightTags \cap Range(areg_file) = {}

(* read_tag reports an owned preg ready exactly when its producer has     *)
(* written, also for a preg recycled through commit or restore.          *)
ReadyTracksProducer ==
  \A p \in Owned :
    ready[p] <=> ~\E i \in OwnerIdx : rob[i].tag = p /\ ~rob[i].done

=============================================================================
