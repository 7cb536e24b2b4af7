------------------------------- MODULE MCNode -------------------------------
(* The two halves of class Node, which share no field: its joining state    *)
(* and its data.  One of them is exercised.                                 *)
(*                                                                          *)
(* Joining: the stages whose mask is exact and one without items, every     *)
(* single status bit and one of two bits, and clean, full and arbitrary     *)
(* words for the uninitialised field.  Data: one endpoint besides the root, *)
(* two clusters and up to two entries in a vector, so that endpoints and    *)
(* clusters are listed twice.  One mask is enough: no operation reads mMask. *)
EXTENDS NodeJoin, DeviceTree

VARIABLE half  \* "joining" or "data"

MCStages == {{}, {1}, {0, 1, 2}}

MCStatuses == {{i} : i \in 0..6} \cup {{2, 5}}

MCInitialWords == {{}, 0..31, {0, 9, 17, 26}, 0..7}

Symmetry == Permutations(ClusterId) \cup Permutations(Attr) \cup Permutations(Val)

NodeInit ==
  /\ Init /\ TreeInit
  /\ half \in {"joining", "data"}
  /\ half = "data" => mJoinStage = {} /\ mTimeStamp = 0

NodeNext ==
  \/ half = "joining" /\ Next /\ UNCHANGED <<half, treeVars>>
  \/ half = "data" /\ TreeNext /\ UNCHANGED <<half, vars>>

NodeSpec == NodeInit /\ [][NodeNext]_<<half, vars, treeVars>>

=============================================================================
