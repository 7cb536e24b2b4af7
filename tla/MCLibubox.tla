------------------------------ MODULE MCLibubox ------------------------------
(* The inline parts of libubox that the ubus programs are built on.  They   *)
(* share no data here, so one of them is exercised: lists with two heads    *)
(* and three entries, which is enough for one list to be spliced into the   *)
(* middle of the traffic of another; a tree with two equal keys between two *)
(* others, so that ranges are empty, single and longer and have neighbours  *)
(* on both sides; messages with three attributes, of every padding, nested  *)
(* up to three deep, and received messages of up to four words, of which    *)
(* the last may be a part, with lengths below, at and above each size.      *)
EXTENDS LinkedList, AvlTree, BlobBuf

CONSTANTS e1, e2, e3, e4

VARIABLE part

vars == <<part, listVars, avlVars, blobVars>>

MCKeyOf == e1 :> 1 @@ e2 :> 3 @@ e3 :> 3 @@ e4 :> 5

Value(type, bytes) == [type |-> type, value |-> bytes]

MCValues == {
  Value("INT8", <<7>>), Value("INT16", <<1, 2>>), Value("INT32", <<1, 2, 3, 4>>),
  Value("INT64", <<1, 2, 3, 4, 5, 6, 7, 8>>), Value("DOUBLE", <<8, 7, 6, 5, 4, 3, 2, 1>>),
  Value("STRING", << >>), Value("STRING", <<9, 9, 9, 9>>)}

Symmetry == Permutations(Entry) \cup Permutations(ListHead)

NoBlob == stage = "none" /\ buf = << >> /\ head = << >> /\ added = << >> /\ size = 0 /\ frames = << >> /\ got = << >>

Init ==
  /\ ListInit /\ AvlInit
  /\ \/ part \in {"list", "avl"} /\ NoBlob
     \/ part = "blob" /\ BlobInit

Next ==
  \/ part = "list" /\ ListNext /\ UNCHANGED <<part, avlVars, blobVars>>
  \/ part = "avl"  /\ AvlNext /\ UNCHANGED <<part, listVars, blobVars>>
  \/ part = "blob" /\ BlobNext /\ UNCHANGED <<part, listVars, avlVars>>

Spec == Init /\ [][Next]_vars

-----------------------------------------------------------------------------
(* After any sequence of calls of list.h the lists are rings in both        *)
(* directions, and after any of avl.h list, counter and root of a tree      *)
(* agree, also after it was cleared in a loop and filled again.             *)
StructuresAreSound == RingsAreSound /\ TreeIsConsistent

(* The loops of list.h and avl.h visit exactly what was in their range,     *)
(* once and in order, and nothing behind it, although their bodies delete   *)
(* the current element and add others, as long as the bound of a range in a *)
(* tree is where its condition looks for it; none follows a pointer of an   *)
(* element that has gone.                                                   *)
LoopsAreExact == LoopIsExact /\ WalkIsExact

==============================================================================
