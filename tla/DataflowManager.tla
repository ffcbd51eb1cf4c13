--------------------------- MODULE DataflowManager ---------------------------
(***************************************************************************)
(* The register-renaming core of lizard: DataFlowManagerFL                 *)
(* (lizard/core/fl/dataflow.py).  It composes three snapshotting free      *)
(* lists (physical registers, store ids, checkpoint ids), a rename table   *)
(* with per-checkpoint copies, the architectural shadow file, the          *)
(* architecturally-used bitmap and the ready table.                        *)
(*                                                                         *)
(* The manager is driven by its callers (dispatch, execute, branch         *)
(* resolution and commit), which are not part of the source.  They are    *)
(* modelled by the in-flight window `rob`: every call that allocates       *)
(* something appends an entry in program order, commit retires the head,  *)
(* a mispredicted branch truncates the window after itself and a flush     *)
(* empties it.  Data values are abstracted away; readiness is kept.       *)
(***************************************************************************)
EXTENDS Integers, Sequences, FiniteSets, FiniteSetsExt, Functions,
        SnapshottingFreeList

CONSTANTS
  NAREGS,       \* architectural registers 0..NAREGS-1 (areg 0 reads as zero)
  NPREGS,       \* physical tags 0..NPREGS-1; the last one is ZERO_TAG
  NSNAPSHOTS,   \* checkpoint ids (MAX_SPEC_DEPTH)
  NSTORE,       \* store-buffer ids
  MAXINFLIGHT,  \* bound on the number of in-flight instructions
  MAXUPDATED    \* bound on tags written between two get_updated calls

ASSUME /\ NAREGS >= 2
       /\ NPREGS >= NAREGS + 2     \* at least one physical register is free
       /\ NSNAPSHOTS >= 1 /\ NSTORE >= 1
       /\ MAXINFLIGHT >= 1 /\ MAXUPDATED >= 1

Aregs    == 0..(NAREGS - 1)
ArchRegs == 1..(NAREGS - 1)          \* the aregs that are renamed
ZERO_TAG == NPREGS - 1
Pregs    == 0..(NPREGS - 2)          \* the free list covers npregs - 1 tags
SnapIds  == 0..(NSNAPSHOTS - 1)
StoreIds == 0..(NSTORE - 1)

VARIABLES
  regFree,      \* free_regs: free physical registers
  regMasks,     \* free_regs: registers allocated since each checkpoint
  storeFree,    \* store_ids: free store ids
  storeMasks,   \* store_ids: store ids allocated since each checkpoint
  snapFree,     \* snapshot_allocator: free checkpoint ids
  snapMasks,    \* snapshot_allocator: checkpoint ids allocated since each one
  rename,       \* rename_table: live areg -> preg mapping
  renameSnap,   \* rename_table: the copy taken by each checkpoint
  areg_file,    \* last committed preg of each areg
  arch_used,    \* arch_used_pregs: the set of pregs whose bit is 1
  ready,        \* ready_table
  updated,      \* tags written since the last get_updated
  forwarded,    \* tags forwarded this cycle (the forwarded dict's keys)
  rob           \* the callers' in-flight window, oldest first

vars == <<regFree, regMasks, storeFree, storeMasks, snapFree, snapMasks,
          rename, renameSnap, areg_file, arch_used, ready, updated,
          forwarded, rob>>

\* The rename table's reset contents: areg i is held in preg i - 1.
InitialMap == [a \in ArchRegs |-> a - 1]

\* get_src: a pure lookup, areg 0 always yields ZERO_TAG.
get_src(a) == IF a = 0 THEN ZERO_TAG ELSE rename[a]

\* is_ready: ZERO_TAG is always ready.
is_ready(t) == t = ZERO_TAG \/ ready[t]

OpEntry(a, t)  == [kind |-> "op", areg |-> a, tag |-> t, done |-> FALSE]
StoreEntry(s)  == [kind |-> "st", sid |-> s]
BranchEntry(s) == [kind |-> "br", snap |-> s, done |-> FALSE]

Init ==
  /\ regFree = {p \in Pregs : p >= NAREGS - 1}   \* used_slots_initial
  /\ regMasks = [s \in SnapIds |-> {}]
  /\ storeFree = StoreIds
  /\ storeMasks = [s \in SnapIds |-> {}]
  /\ snapFree = SnapIds
  /\ snapMasks = [s \in SnapIds |-> {}]
  /\ rename = InitialMap
  /\ renameSnap = [s \in SnapIds |-> InitialMap]
  /\ areg_file = InitialMap
  /\ arch_used = 0..(NAREGS - 1)                  \* arch_used_pregs_reset
  /\ ready = [p \in Pregs |-> TRUE]
  /\ updated = <<>>
  /\ forwarded = {}
  /\ rob = <<>>

-----------------------------------------------------------------------------
(* Fault variant: get_dst allocates but leaves the ready bit as it was.  *)
get_dst_keepready(a) ==
  /\ regFree # {}
  /\ Len(rob) < MAXINFLIGHT
  /\ IF a = 0
       THEN /\ rob' = Append(rob, OpEntry(0, ZERO_TAG))
            /\ UNCHANGED <<regFree, regMasks, rename, ready>>
       ELSE LET t == FirstFree(regFree) IN
            /\ regFree' = regFree \ {t}
            /\ regMasks' = RecordAlloc(regMasks, t)
            /\ rename' = [rename EXCEPT ![a] = t]
            /\ rob' = Append(rob, OpEntry(a, t))
            /\ UNCHANGED ready
  /\ UNCHANGED <<storeFree, storeMasks, snapFree, snapMasks, renameSnap,
                 areg_file, arch_used, updated, forwarded>>

(* get_dst(areg), guarded by its ready method (the register free list is   *)
(* not empty).  Areg 0 yields ZERO_TAG without allocating.                *)
get_dst(a) ==
  /\ regFree # {}
  /\ Len(rob) < MAXINFLIGHT
  /\ IF a = 0
       THEN /\ rob' = Append(rob, OpEntry(0, ZERO_TAG))
            /\ UNCHANGED <<regFree, regMasks, rename, ready>>
       ELSE LET t == FirstFree(regFree) IN
            /\ regFree' = regFree \ {t}
            /\ regMasks' = RecordAlloc(regMasks, t)
            /\ rename' = [rename EXCEPT ![a] = t]
            /\ ready' = [ready EXCEPT ![t] = FALSE]
            /\ rob' = Append(rob, OpEntry(a, t))
  /\ UNCHANGED <<storeFree, storeMasks, snapFree, snapMasks, renameSnap,
                 areg_file, arch_used, updated, forwarded>>

(* get_store_id, guarded by its ready method.                             *)
get_store_id ==
  /\ storeFree # {}
  /\ Len(rob) < MAXINFLIGHT
  /\ LET s == FirstFree(storeFree) IN
     /\ storeFree' = storeFree \ {s}
     /\ storeMasks' = RecordAlloc(storeMasks, s)
     /\ rob' = Append(rob, StoreEntry(s))
  /\ UNCHANGED <<regFree, regMasks, snapFree, snapMasks, rename, renameSnap,
                 areg_file, arch_used, ready, updated, forwarded>>

(* Fault variant: the checkpoint id is not recorded under the older     *)
(* checkpoints, so restoring one of them does not free it.              *)
snapshot_untracked ==
  /\ snapFree # {}
  /\ Len(rob) < MAXINFLIGHT
  /\ LET id == FirstFree(snapFree) IN
     /\ snapFree' = snapFree \ {id}
     /\ snapMasks' = ResetTracking(snapMasks, id)
     /\ regMasks' = ResetTracking(regMasks, id)
     /\ storeMasks' = ResetTracking(storeMasks, id)
     /\ renameSnap' = [renameSnap EXCEPT ![id] = rename]
     /\ rob' = Append(rob, BranchEntry(id))
  /\ UNCHANGED <<regFree, storeFree, rename, areg_file, arch_used, ready,
                 updated, forwarded>>

(* snapshot(), guarded by its ready method: allocate a checkpoint id,      *)
(* open tracking on all three free lists and copy the rename table.        *)
snapshot ==
  /\ snapFree # {}
  /\ Len(rob) < MAXINFLIGHT
  /\ LET id == FirstFree(snapFree) IN
     /\ snapFree' = snapFree \ {id}
     /\ snapMasks' = ResetTracking(RecordAlloc(snapMasks, id), id)
     /\ regMasks' = ResetTracking(regMasks, id)
     /\ storeMasks' = ResetTracking(storeMasks, id)
     /\ renameSnap' = [renameSnap EXCEPT ![id] = rename]
     /\ rob' = Append(rob, BranchEntry(id))
  /\ UNCHANGED <<regFree, storeFree, rename, areg_file, arch_used, ready,
                 updated, forwarded>>

(* Fault variant: write without the early return for ZERO_TAG.          *)
write_nozero(i) ==
  /\ rob[i].kind = "op" /\ ~rob[i].done
  /\ Len(updated) < MAXUPDATED
  /\ rob' = [rob EXCEPT ![i].done = TRUE]
  /\ ready' = [ready EXCEPT ![rob[i].tag] = TRUE]
  /\ updated' = Append(updated, rob[i].tag)
  /\ UNCHANGED <<regFree, regMasks, storeFree, storeMasks, snapFree,
                 snapMasks, rename, renameSnap, areg_file, arch_used,
                 forwarded>>

(* write(tag, value) by the producer of in-flight entry i.                *)
write(i) ==
  /\ rob[i].kind = "op" /\ ~rob[i].done
  /\ Len(updated) < MAXUPDATED
  /\ rob' = [rob EXCEPT ![i].done = TRUE]
  /\ IF rob[i].tag = ZERO_TAG
       THEN UNCHANGED <<ready, updated>>
       ELSE /\ ready' = [ready EXCEPT ![rob[i].tag] = TRUE]
            /\ updated' = Append(updated, rob[i].tag)
  /\ UNCHANGED <<regFree, regMasks, storeFree, storeMasks, snapFree,
                 snapMasks, rename, renameSnap, areg_file, arch_used,
                 forwarded>>

(* forward(tag, value) by a producer still in flight.                     *)
forward(i) ==
  /\ rob[i].kind = "op" /\ ~rob[i].done
  /\ rob[i].tag # ZERO_TAG
  /\ forwarded' = forwarded \cup {rob[i].tag}
  /\ UNCHANGED <<regFree, regMasks, storeFree, storeMasks, snapFree,
                 snapMasks, rename, renameSnap, areg_file, arch_used, ready,
                 updated, rob>>

(* get_updated drains the written tags; the forwarded ones are reported   *)
(* but stay until reset_cl_forwarded.                                     *)
get_updated ==
  /\ updated' = <<>>
  /\ UNCHANGED <<regFree, regMasks, storeFree, storeMasks, snapFree,
                 snapMasks, rename, renameSnap, areg_file, arch_used, ready,
                 forwarded, rob>>

reset_cl_forwarded ==
  /\ forwarded' = {}
  /\ UNCHANGED <<regFree, regMasks, storeFree, storeMasks, snapFree,
                 snapMasks, rename, renameSnap, areg_file, arch_used, ready,
                 updated, rob>>

-----------------------------------------------------------------------------
\* Fault variant: commit records the new preg but never frees the old one.
commit_nofree ==
  /\ rob # <<>>
  /\ Head(rob).kind = "op" /\ Head(rob).done
  /\ rob' = Tail(rob)
  /\ LET t == Head(rob).tag
         a == Head(rob).areg
     IN IF t = ZERO_TAG
          THEN UNCHANGED <<areg_file, arch_used>>
          ELSE LET old == areg_file[a] IN
               /\ areg_file' = [areg_file EXCEPT ![a] = t]
               /\ arch_used' = (arch_used \ {old}) \cup {t}
  /\ UNCHANGED <<regFree, regMasks, storeFree, storeMasks, snapFree, snapMasks,
                 rename, renameSnap, ready, updated, forwarded>>

(* commit(tag, areg) for a written producer at the head of the window:    *)
(* free the preg the areg held architecturally and record the new one.    *)
commit ==
  /\ rob # <<>>
  /\ Head(rob).kind = "op" /\ Head(rob).done
  /\ rob' = Tail(rob)
  /\ LET t == Head(rob).tag
         a == Head(rob).areg
     IN IF t = ZERO_TAG
          THEN UNCHANGED <<regFree, areg_file, arch_used>>
          ELSE LET old == areg_file[a] IN
               /\ regFree' = regFree \cup {old}
               /\ areg_file' = [areg_file EXCEPT ![a] = t]
               /\ arch_used' = (arch_used \ {old}) \cup {t}
  /\ UNCHANGED <<regMasks, storeFree, storeMasks, snapFree, snapMasks,
                 rename, renameSnap, ready, updated, forwarded>>

(* free_store_id(id) when a store retires.                                *)
free_store_id ==
  /\ rob # <<>>
  /\ Head(rob).kind = "st"
  /\ storeFree' = storeFree \cup {Head(rob).sid}
  /\ rob' = Tail(rob)
  /\ UNCHANGED <<regFree, regMasks, storeMasks, snapFree, snapMasks, rename,
                 renameSnap, areg_file, arch_used, ready, updated, forwarded>>

(* A resolved branch retires without calling the manager.                 *)
RetireBranch ==
  /\ rob # <<>>
  /\ Head(rob).kind = "br" /\ Head(rob).done
  /\ rob' = Tail(rob)
  /\ UNCHANGED <<regFree, regMasks, storeFree, storeMasks, snapFree,
                 snapMasks, rename, renameSnap, areg_file, arch_used, ready,
                 updated, forwarded>>

(* free_snapshot(id): the branch of entry i resolved as predicted.        *)
free_snapshot(i) ==
  /\ rob[i].kind = "br" /\ ~rob[i].done
  /\ snapFree' = snapFree \cup {rob[i].snap}
  /\ rob' = [rob EXCEPT ![i].done = TRUE]
  /\ UNCHANGED <<regFree, regMasks, storeFree, storeMasks, snapMasks, rename,
                 renameSnap, areg_file, arch_used, ready, updated, forwarded>>

(* Fault variant: restore reverts the free lists but not the rename table. *)
restore_keeprename(i) ==
  /\ rob[i].kind = "br" /\ ~rob[i].done
  /\ LET id == rob[i].snap IN
     /\ snapFree' = RevertAllocs(snapFree, snapMasks, id) \cup {id}
     /\ regFree' = RevertAllocs(regFree, regMasks, id)
     /\ storeFree' = RevertAllocs(storeFree, storeMasks, id)
  /\ rob' = [SubSeq(rob, 1, i) EXCEPT ![i].done = TRUE]
  /\ UNCHANGED <<regMasks, storeMasks, snapMasks, renameSnap, areg_file,
                 arch_used, ready, updated, forwarded, rename>>

(* restore(id) for a mispredicted branch at entry i, followed by           *)
(* free_snapshot(id); everything younger than the branch is squashed.     *)
restore(i) ==
  /\ rob[i].kind = "br" /\ ~rob[i].done
  /\ LET id == rob[i].snap IN
     /\ snapFree' = RevertAllocs(snapFree, snapMasks, id) \cup {id}
     /\ regFree' = RevertAllocs(regFree, regMasks, id)
     /\ storeFree' = RevertAllocs(storeFree, storeMasks, id)
     /\ rename' = renameSnap[id]
  /\ rob' = [SubSeq(rob, 1, i) EXCEPT ![i].done = TRUE]
  /\ UNCHANGED <<regMasks, storeMasks, snapMasks, renameSnap, areg_file,
                 arch_used, ready, updated, forwarded>>

(* Fault variant: rollback as in src/src/core/fl/dataflow.py (line 158),  *)
(* which sets the free list to the architecturally used bits themselves. *)
rollback_v0 ==
  /\ snapFree' = SnapIds
  /\ regFree' = arch_used
  /\ storeFree' = StoreIds
  /\ rename' = areg_file
  /\ rob' = <<>>
  /\ UNCHANGED <<regMasks, storeMasks, snapMasks, renameSnap, areg_file,
                 arch_used, ready, updated, forwarded>>

(* Fault variant: rollback that forgets the store-id free list.         *)
rollback_nostore ==
  /\ snapFree' = SnapIds
  /\ regFree' = Pregs \ arch_used
  /\ rename' = areg_file
  /\ rob' = <<>>
  /\ UNCHANGED <<regMasks, storeMasks, snapMasks, renameSnap, areg_file,
                 arch_used, ready, updated, forwarded, storeFree>>

(* rollback(): flush to the committed state.  Every checkpoint and store  *)
(* id is freed, the free registers are those not architecturally used,    *)
(* and the rename table is rebuilt from the shadow file.                  *)
rollback ==
  /\ snapFree' = SnapIds
  /\ regFree' = Pregs \ arch_used
  /\ storeFree' = StoreIds
  /\ rename' = areg_file
  /\ rob' = <<>>
  /\ UNCHANGED <<regMasks, storeMasks, snapMasks, renameSnap, areg_file,
                 arch_used, ready, updated, forwarded>>

-----------------------------------------------------------------------------
NextSpeculation ==
  \/ \E a \in Aregs : get_dst(a)
  \/ get_store_id
  \/ snapshot
  \/ \E i \in DOMAIN rob : write(i) \/ forward(i)
  \/ get_updated
  \/ reset_cl_forwarded
  \/ commit
  \/ free_store_id
  \/ RetireBranch
  \/ \E i \in DOMAIN rob : free_snapshot(i) \/ restore(i)

Next == NextSpeculation \/ rollback

Spec == Init /\ [][Next]_vars

\* The same callers, never flushing: speculation is undone only by restore.
SpecSpeculation == Init /\ [][NextSpeculation]_vars

-----------------------------------------------------------------------------
(***************************************************************************)
(* Properties                                                              *)
(***************************************************************************)
TypeOK ==
  /\ regFree \subseteq Pregs /\ storeFree \subseteq StoreIds
  /\ snapFree \subseteq SnapIds
  /\ regMasks \in [SnapIds -> SUBSET Pregs]
  /\ storeMasks \in [SnapIds -> SUBSET StoreIds]
  /\ snapMasks \in [SnapIds -> SUBSET SnapIds]
  /\ rename \in [ArchRegs -> Pregs]
  /\ renameSnap \in [SnapIds -> [ArchRegs -> Pregs]]
  /\ areg_file \in [ArchRegs -> Pregs]
  /\ arch_used \subseteq Pregs
  /\ ready \in [Pregs -> BOOLEAN]
  /\ updated \in Seq(Pregs) /\ forwarded \subseteq Pregs
  /\ Len(rob) <= MAXINFLIGHT

\* Window entries that own a physical register.
OwnerIdx == {i \in DOMAIN rob : rob[i].kind = "op" /\ rob[i].tag # ZERO_TAG}
InFlightTags == {rob[i].tag : i \in OwnerIdx}
UnresolvedIdx == {i \in DOMAIN rob : rob[i].kind = "br" /\ ~rob[i].done}

\* A preg is owned by the committed producer the shadow file names or by
\* an in-flight producer; the rename table only refers to owned pregs.
Owned == Range(areg_file) \cup InFlightTags

(* No physical register is handed out twice: get_dst never returns a preg *)
(* that is owned, across commit's free, restore's revert of nested          *)
(* checkpoints and rollback's rebuild of the free list.                   *)
NoDoubleAllocation ==
  /\ regFree \cap Owned = {}
  /\ \A i, j \in OwnerIdx : i # j => rob[i].tag # rob[j].tag
  /\ InFlightTags \cap Range(areg_file) = {}

(* No physical register leaks: every preg the free list holds as          *)
(* allocated is owned, so get_dst cannot run dry while registers are idle. *)
NoRegLeak == Pregs \ regFree \subseteq Owned

\* The mapping of the aregs after the first n window entries, in order.
ImpliedMap(n) ==
  [a \in ArchRegs |->
     LET ws == {i \in 1..n : rob[i].kind = "op" /\ rob[i].areg = a}
     IN IF ws = {} THEN areg_file[a] ELSE rob[Max(ws)].tag]

(* The rename table equals the committed map overlaid with the in-flight  *)
(* producers in program order, and the copy of every open checkpoint      *)
(* equals that map at the checkpoint's branch; so after restore or        *)
(* rollback get_src returns the producer program order says it should.    *)
RenameMatchesProgramOrder ==
  /\ rename = ImpliedMap(Len(rob))
  /\ \A i \in UnresolvedIdx : renameSnap[rob[i].snap] = ImpliedMap(i - 1)

(* is_ready on an owned preg is true exactly when its producer has written: *)
(* a recycled preg never shows the readiness of its previous producer.    *)
ReadyTracksProducer ==
  \A p \in Owned :
    ready[p] <=> ~\E i \in OwnerIdx : rob[i].tag = p /\ ~rob[i].done

(* Spec section 4.4: forward(tag, value) makes the tag's value and its    *)
(* readiness observable to readers in the same cycle, before the write.   *)
(* read() consults the forwarded map; is_ready must agree with it.         *)
ForwardMakesReady == \A t \in forwarded : is_ready(t)

(* Checkpoint ids are neither leaked nor shared: the free ones are exactly *)
(* those of no unresolved branch, across nested restores.                 *)
SnapshotConservation ==
  /\ snapFree = SnapIds \ {rob[i].snap : i \in UnresolvedIdx}
  /\ \A i, j \in UnresolvedIdx : i # j => rob[i].snap # rob[j].snap

(* Store ids are neither leaked nor shared across restore and rollback.   *)
StoreIdConservation ==
  LET st == {i \in DOMAIN rob : rob[i].kind = "st"} IN
  /\ storeFree = StoreIds \ {rob[i].sid : i \in st}
  /\ \A i, j \in st : i # j => rob[i].sid # rob[j].sid

=============================================================================
