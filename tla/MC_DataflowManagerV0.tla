------------------------ MODULE MC_DataflowManagerV0 ------------------------
(* Model-checking instance of DataflowManagerV0.                          *)
EXTENDS DataflowManagerV0

(* State view for TLC, leaving out what the code overwrites before it     *)
(* reads it again: the ready bit and inverse entry of a free preg (get_dst *)
(* writes both on allocation) and the masks and rename copy of a free      *)
(* checkpoint id (snapshot resets and overwrites them).                   *)
OpenSnaps == SnapIds \ snapFree

DeadDataView ==
  <<regFree, snapFree, rename, areg_file, arch_used, rob,
    [p \in Pregs \ regFree |-> <<ready[p], inverse[p]>>],
    [s \in OpenSnaps |-> <<regMasks[s], snapMasks[s], renameSnap[s]>>]>>
=============================================================================
