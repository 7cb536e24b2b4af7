------------------------------ MODULE ListHeap ------------------------------
(***************************************************************************)
(* The functions of src/ubus_example/lib/inc/libubox/list.h: circular      *)
(* lists whose nodes and heads are struct list_head.  A heap gives every   *)
(* node its two pointers; each function maps the heap before a call to the *)
(* heap after it, with the assignments in the order of the code.           *)
(***************************************************************************)
EXTENDS Integers, Sequences, FiniteSetsExt, Functions

CONSTANT NULL

\* struct list_head for every node of a set, as memory that was zeroed.
Zeroed(nodes) == [next |-> [x \in nodes |-> NULL], prev |-> [x \in nodes |-> NULL]]

INIT_LIST_HEAD(heap, list) == [heap EXCEPT !.next[list] = list, !.prev[list] = list]

list_empty(heap, head)          == heap.next[head] = head
list_is_first(heap, list, head) == heap.prev[list] = head
list_is_last(heap, list, head)  == heap.next[list] = head

\* _list_del
Unlinked(heap, entry) ==
  LET relinked == [heap EXCEPT !.prev[heap.next[entry]] = heap.prev[entry]]
  IN  [relinked EXCEPT !.next[relinked.prev[entry]] = relinked.next[entry]]

list_del(heap, entry) ==
  [Unlinked(heap, entry) EXCEPT !.next[entry] = NULL, !.prev[entry] = NULL]

list_del_init(heap, entry) == INIT_LIST_HEAD(Unlinked(heap, entry), entry)

\* _list_add
Linked(heap, new, p, n) ==
  [heap EXCEPT !.prev[n] = new, !.next[new] = n, !.prev[new] = p, !.next[p] = new]

list_add(heap, new, head)      == Linked(heap, new, head, heap.next[head])
list_add_tail(heap, new, head) == Linked(heap, new, heap.prev[head], head)

list_move(heap, list, head)       == list_add(Unlinked(heap, list), list, head)
list_move_tail(heap, entry, head) == list_add_tail(Unlinked(heap, entry), entry, head)

\* A plausible bug: an empty list is spliced like any other.
SplicedEmpty(heap, list, p, n) ==
  LET first == heap.next[list]  last == heap.prev[list]
  IN  [heap EXCEPT !.prev[first] = p, !.next[p] = first, !.next[last] = n, !.prev[n] = last]

\* _list_splice
Spliced(heap, list, p, n) ==
  LET first == heap.next[list]  last == heap.prev[list]
  IN  IF list_empty(heap, list) THEN heap
      ELSE [heap EXCEPT !.prev[first] = p, !.next[p] = first, !.next[last] = n, !.prev[n] = last]

list_splice(heap, list, head)           == Spliced(heap, list, head, heap.next[head])
list_splice_tail(heap, list, head)      == Spliced(heap, list, heap.prev[head], head)
list_splice_init(heap, list, head)      == INIT_LIST_HEAD(list_splice(heap, list, head), list)
list_splice_tail_init(heap, list, head) == INIT_LIST_HEAD(list_splice_tail(heap, list, head), list)

-----------------------------------------------------------------------------
(* What a reader of the heap sees. *)

\* The nodes met from head along link until head, NULL, or all were met.
Along(link, head) ==
  LET N    == Cardinality(DOMAIN link)
      step[i \in 1..N] ==
        IF i = 1 THEN link[head]
        ELSE IF step[i - 1] \in {head, NULL} THEN step[i - 1] ELSE link[step[i - 1]]
      ends == {i \in 1..N : step[i] \in {head, NULL}}
  IN  [i \in 1..(IF ends = {} THEN N ELSE Min(ends) - 1) |-> step[i]]

Backwards(s) == [i \in 1..Len(s) |-> s[Len(s) + 1 - i]]

\* Every element of t is in s, and they are met in the order of t.
InOrder(t, s) ==
  /\ Range(t) \subseteq Range(s)
  /\ \A i, j \in DOMAIN t, k, l \in DOMAIN s : i < j /\ s[k] = t[i] /\ s[l] = t[j] => k < l

\* The head is in a ring of its own, the same in both directions.  The head
\* given to list_splice() is not, until it is initialised again.
IsRing(heap, head) ==
  /\ heap.next[head] # NULL /\ heap.prev[head] # NULL
  /\ heap.prev[heap.next[head]] = head
  /\ heap.next[heap.prev[head]] = head

==============================================================================
