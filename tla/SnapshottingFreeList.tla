------------------------ MODULE SnapshottingFreeList ------------------------
(***************************************************************************)
(* SnapshottingFreeListFL (lizard/util/fl/, not in the source tree; its    *)
(* contract is spec §4.1), as operators on a free set and a mask per       *)
(* checkpoint id.  alloc hands out the lowest free index and records it    *)
(* in the mask of every checkpoint, so that reverting a checkpoint also    *)
(* reverts the allocations made under the checkpoints taken after it.     *)
(***************************************************************************)
EXTENDS FiniteSetsExt

\* alloc: the lowest free index.
FirstFree(free) == Min(free)

\* alloc: the index is recorded as allocated since every checkpoint.
RecordAlloc(masks, i) == [s \in DOMAIN masks |-> masks[s] \cup {i}]

\* reset_alloc_tracking(id): checkpoint id starts with nothing allocated.
ResetTracking(masks, id) == [masks EXCEPT ![id] = {}]

\* revert_allocs(id): every index allocated since checkpoint id is free.
RevertAllocs(free, masks, id) == free \cup masks[id]

=============================================================================
