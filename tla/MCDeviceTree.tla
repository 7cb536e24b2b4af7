---------------------------- MODULE MCDeviceTree ----------------------------
(* The data tree alone, for threads that report at the same time.          *)
EXTENDS DeviceTree

Symmetry == Permutations(ClusterId) \cup Permutations(Attr) \cup Permutations(Val)

Spec == TreeInit /\ [][TreeNext]_treeVars

=============================================================================
