------------------------------- MODULE AvlTree -------------------------------
(***************************************************************************)
(* src/ubus_example/lib/inc/libubox/avl.h: trees as their users see them,  *)
(* a sorted circular list, a counter and a root, with the macros that loop *)
(* over them.  The functions of avl.c (insert, delete, the finds) are      *)
(* external; of the tree proper only whether it has a root is kept.  The   *)
(* tree allows duplicates, as the tree of acl_for_each does.               *)
(***************************************************************************)
EXTENDS ListHeap

CONSTANTS
  Element,  \* the elements that may be in the tree
  KeyOf,    \* the key of each
  Tree      \* the list head in struct avl_tree

Node == Element \cup {Tree}

ASSUME AvlAssumption ==
  /\ IsFiniteSet(Element) /\ Tree \notin Element /\ NULL \notin Node
  /\ KeyOf \in [Element -> Int] /\ NULL \notin Int

VARIABLES
  tree,    \* [heap, count, root]
  walk,    \* the state of the loop that runs
  seen,    \* the elements its body was run for
  within,  \* the elements of its range when it started, in its order
  lost     \* its bound is no longer where its condition will look for it

avlVars == <<tree, walk, seen, within, lost>>

next == tree.heap.next
prev == tree.heap.prev

\* AVL_TREE_INIT
AvlInit ==
  /\ tree = [heap |-> INIT_LIST_HEAD(Zeroed(Node), Tree), count |-> 0, root |-> FALSE]
  /\ walk = [at |-> "idle"] /\ seen = << >> /\ within = << >> /\ lost = FALSE

-----------------------------------------------------------------------------
avl_is_first(node) == next[Tree] = node
avl_is_last(node)  == prev[Tree] = node
avl_is_empty       == tree.count = 0

Order == Along(next, Tree)
InTree == Range(Order)

\* External: an element goes behind those with the same key.
Inserted(t, e) ==
  LET order == Along(t.heap.next, Tree)
      after == {i \in DOMAIN order : KeyOf[order[i]] > KeyOf[e]}
      n     == IF after = {} THEN Tree ELSE order[Min(after)]
  IN  [heap |-> Linked(t.heap, e, t.heap.prev[n], n), count |-> t.count + 1, root |-> TRUE]

Deleted(t, e) == [heap |-> list_del(t.heap, e), count |-> t.count - 1, root |-> t.count > 1]

\* __avl_find_element: the searches of avl.c by mode, the first element with
\* the key, the last that is not above it, the first that is not below it.
find_element(t, key, mode) ==
  LET order == Along(t.heap.next, Tree)
      ok    == {i \in DOMAIN order :
                  CASE mode = "EQUAL"        -> KeyOf[order[i]] = key
                    [] mode = "LESSEQUAL"    -> KeyOf[order[i]] <= key
                    [] mode = "GREATEREQUAL" -> KeyOf[order[i]] >= key}
  IN  IF ok = {} THEN NULL ELSE order[IF mode = "LESSEQUAL" THEN Max(ok) ELSE Min(ok)]

avl_find_element(t, key)    == find_element(t, key, "EQUAL")
avl_find_le_element(t, key) == find_element(t, key, "LESSEQUAL")
avl_find_ge_element(t, key) == find_element(t, key, "GREATEREQUAL")

-----------------------------------------------------------------------------
(* All loop macros are one of two, forwards or backwards over the range     *)
(* from .. to, in a plain and a _safe form.  Where a macro passes           *)
(* avl_first_element(tree) or avl_last_element(tree), which the condition   *)
(* evaluates again in every round, the bound is Tree; key is the key whose  *)
(* elements acl_for_each looks for, in every round too, otherwise NULL.     *)
FirstOf(w) == IF w.from = Tree THEN next[Tree] ELSE w.from
LastOf(w)  == IF w.to = Tree THEN prev[Tree] ELSE w.to

Index(e) == CHOOSE i \in DOMAIN Order : Order[i] = e

\* The positions between the bounds, when the loop starts.
Between(from, to) ==
  SubSeq(Order, IF from = Tree THEN 1 ELSE Index(from), IF to = Tree THEN Len(Order) ELSE Index(to))

StartRange(from, to, back, safe, key) ==
  LET w     == [from |-> from, to |-> to]
      start == IF back THEN LastOf(w) ELSE FirstOf(w)
  IN  /\ walk' = [at |-> "test", from |-> from, to |-> to, back |-> back, safe |-> safe, key |-> key,
                  element |-> start, ptr |-> IF back THEN prev[start] ELSE next[start]]
      /\ seen' = << >>
      /\ within' = IF back THEN Backwards(Between(from, to)) ELSE Between(from, to)
      /\ lost' = FALSE
      /\ UNCHANGED tree

\* avl_for_each_element, avl_for_element_to_last, avl_for_first_to_element
\* and avl_for_element_range, with their _reverse and _safe forms.
StartLoop == \E from, to \in InTree \cup {Tree}, back, safe \in BOOLEAN :
  /\ walk.at = "idle"
  /\ (from # Tree /\ to # Tree) => Index(from) <= Index(to)
  /\ StartRange(from, to, back, safe, NULL)

\* acl_for_each of libubus.h: the elements with the key, perhaps none.  The
\* first comparison reads the element found, also if it is NULL; a bound that
\* is NULL is never met.
Keys == Range(KeyOf) \cup {k + 1 : k \in Range(KeyOf)}

Astray(w) ==
  walk' = w /\ seen' = << >> /\ within' = << >> /\ lost' = TRUE /\ UNCHANGED tree

acl_for_each == \E key \in Keys :
  LET from == avl_find_ge_element(tree, key)  to == avl_find_le_element(tree, key) IN
  /\ walk.at = "idle"
  /\ \/ from = NULL /\ Astray([at |-> "fault"])
     \/ from # NULL /\ to # NULL /\ StartRange(from, to, FALSE, FALSE, key)
     \/ from # NULL /\ to = NULL
        /\ Astray([at |-> "test", from |-> from, to |-> to, back |-> FALSE, safe |-> FALSE, key |-> key,
                   element |-> from, ptr |-> next[from]])

\* A plausible bug: the loop stops at the bound, not behind it.
StopsAtBound == walk.element # IF walk.back THEN FirstOf(walk) ELSE LastOf(walk)
Continues    == IF walk.back THEN next[walk.element] # FirstOf(walk)
                ELSE prev[walk.element] # LastOf(walk)

BoundOf == IF walk.back THEN walk.from ELSE walk.to

\* In the body of a _safe loop the current element may be deleted.  If it is
\* the bound, no element is behind it any more.
RangeBody ==
  /\ walk.at = "test" /\ Continues /\ walk.element # Tree
  /\ seen' = Append(seen, walk.element)
  /\ walk' = [walk EXCEPT !.at = "next"]
  /\ \/ UNCHANGED <<tree, lost>>
     \/ /\ walk.safe
        /\ tree' = Deleted(tree, walk.element)
        /\ lost' = (lost \/ walk.element = BoundOf)
  /\ UNCHANGED within

\* The body is handed the list head as if it was an element: undefined.
RangeFault ==
  /\ walk.at = "test" /\ Continues /\ walk.element = Tree
  /\ walk' = [at |-> "fault"]
  /\ UNCHANGED <<tree, seen, within, lost>>

RangeNext ==
  LET e == IF walk.safe THEN walk.ptr ELSE IF walk.back THEN prev[walk.element] ELSE next[walk.element] IN
  /\ walk.at = "next"
  /\ walk' = [walk EXCEPT !.at = "test", !.element = e,
                          !.ptr = IF walk.safe THEN (IF walk.back THEN prev[e] ELSE next[e]) ELSE @]
  /\ UNCHANGED <<tree, seen, within, lost>>

RangeEnd ==
  /\ walk.at = "test" /\ ~Continues
  /\ walk' = [at |-> "idle"] /\ seen' = << >> /\ within' = << >> /\ lost' = FALSE
  /\ UNCHANGED tree

-----------------------------------------------------------------------------
\* A plausible bug: the list head keeps its pointers.
ListKept  == tree.heap
ListReset == INIT_LIST_HEAD(tree.heap, Tree)

\* avl_remove_all_elements; the body frees the element.
StartClear ==
  /\ walk.at = "idle"
  /\ walk' = [at |-> "clear", element |-> next[Tree], ptr |-> next[next[Tree]]]
  /\ seen' = << >>
  /\ within' = Order
  /\ tree' = [tree EXCEPT !.heap = ListReset, !.root = FALSE]
  /\ UNCHANGED lost

ClearBody ==
  LET freed == [tree.heap EXCEPT !.next[walk.element] = NULL, !.prev[walk.element] = NULL] IN
  /\ walk.at = "clear" /\ tree.count > 0
  /\ seen' = Append(seen, walk.element)
  /\ tree' = [tree EXCEPT !.heap = freed, !.count = @ - 1]
  /\ walk' = [walk EXCEPT !.element = walk.ptr, !.ptr = freed.next[walk.ptr]]
  /\ UNCHANGED <<within, lost>>

ClearEnd ==
  /\ walk.at = "clear" /\ tree.count = 0
  /\ walk' = [at |-> "idle"] /\ seen' = << >> /\ within' = << >> /\ lost' = FALSE
  /\ UNCHANGED tree

\* What acl_for_each will find as its last element in tree t.
Relooked(t) ==
  IF walk.at = "next" /\ walk.key # NULL THEN [walk EXCEPT !.to = avl_find_le_element(t, walk.key)] ELSE walk

\* In tree t an element is between the bound of a _safe loop and the element
\* that it has saved, which was behind the bound.
Ahead(t) == IF walk.back THEN t.heap.prev ELSE t.heap.next
Parts(t) ==
  /\ walk.at = "next" /\ walk.safe /\ BoundOf # Tree
  /\ Ahead(tree)[BoundOf] = walk.ptr /\ Ahead(t)[BoundOf] # walk.ptr

\* Insertions, also by the body of a loop.  An element that its loop has
\* deleted is not inserted again before it ends: a bound of the model.
Insert == \E e \in Element \ (InTree \cup Range(seen)) :
  /\ walk.at \in {"idle", "next"}
  /\ tree' = Inserted(tree, e)
  /\ walk' = Relooked(tree')
  /\ lost' = (lost \/ Parts(tree'))
  /\ UNCHANGED <<seen, within>>

Delete == \E e \in InTree :
  /\ walk.at = "idle"
  /\ tree' = Deleted(tree, e)
  /\ UNCHANGED <<walk, seen, within, lost>>

AvlNext ==
  \/ Insert \/ Delete
  \/ StartLoop \/ acl_for_each \/ RangeBody \/ RangeFault \/ RangeNext \/ RangeEnd
  \/ StartClear \/ ClearBody \/ ClearEnd

-----------------------------------------------------------------------------
(* Outside avl_remove_all_elements list, counter and root agree, the list   *)
(* is sorted and the same in both directions, and avl_is_first, avl_is_last *)
(* and avl_is_empty tell the truth, also after elements were removed in the *)
(* middle of a loop and after the tree was cleared and filled again.        *)
TreeIsConsistent ==
  walk.at # "clear" =>
    /\ tree.count = Len(Order) /\ tree.root = (Order # << >>)
    /\ Backwards(Order) = Along(prev, Tree)
    /\ \A i \in 1..(Len(Order) - 1) : KeyOf[Order[i]] <= KeyOf[Order[i + 1]]
    /\ avl_is_empty <=> Order = << >>
    /\ \A k \in Keys : avl_find_element(tree, k) # NULL =>
         KeyOf[avl_find_le_element(tree, k)] = k /\ KeyOf[avl_find_ge_element(tree, k)] = k
    /\ \A e \in InTree : avl_is_first(e) = (e = Order[1]) /\ avl_is_last(e) = (e = Order[Len(Order)])

(* A loop runs its body for every element that was in its range, once and   *)
(* in order, never for the list head, never for an element behind the bound *)
(* or, in acl_for_each, with another key, although the current element is   *)
(* deleted and others are inserted meanwhile, as long as the bound is where *)
(* the condition looks for it; clearing the tree never reads an element     *)
(* that was freed.                                                          *)
WalkIsExact ==
  walk.at # "idle" /\ ~lost =>
    LET done == (walk.at = "test" /\ ~Continues) \/ (walk.at = "clear" /\ tree.count = 0) IN
    /\ walk.at # "fault" /\ walk.element # NULL
    /\ IsInjective(seen) /\ Range(seen) \subseteq Element
    /\ done => InOrder(within, seen)
    /\ IF walk.at = "clear" THEN Range(seen) \subseteq Range(within)
       ELSE IF walk.key # NULL THEN \A i \in 1..Len(seen) : KeyOf[seen[i]] = walk.key
       ELSE BoundOf # Tree => \A i \in 1..(Len(seen) - 1) : seen[i] # BoundOf

==============================================================================
