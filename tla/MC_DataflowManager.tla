------------------------- MODULE MC_DataflowManager -------------------------
(* Model-checking instance of DataflowManager.  The ghost flushed records *)
(* whether rollback has run, so that the leak property, which rollback     *)
(* breaks (finding 1), is checked on the same behaviours as the others.    *)
EXTENDS DataflowManager

VARIABLE flushed

MCInit == Init /\ flushed = FALSE

MCNext ==
  \/ NextSpeculation /\ UNCHANGED flushed
  \/ rollback /\ flushed' = TRUE

MCSpec == MCInit /\ [][MCNext]_<<vars, flushed>>

(* Until the first rollback no physical register leaks: every preg the     *)
(* free list holds as allocated is owned, whatever the order of get_dst,   *)
(* commit's free and restore's revert of nested checkpoints.               *)
NoRegLeakBeforeFlush == ~flushed => NoRegLeak

(* State view for TLC.  Data that the code overwrites before it reads it  *)
(* again is left out: the ready bit of a free preg (get_dst clears it on  *)
(* allocation) and the masks and rename copy of a free checkpoint id      *)
(* (snapshot resets and overwrites them on allocation).                   *)
OpenSnaps == SnapIds \ snapFree

DeadDataView ==
  <<regFree, storeFree, snapFree, rename, areg_file, arch_used, rob,
    updated, forwarded, flushed,
    [p \in Pregs \ regFree |-> ready[p]],
    [s \in OpenSnaps |-> <<regMasks[s], storeMasks[s], snapMasks[s],
                            renameSnap[s]>>]>>
=============================================================================
