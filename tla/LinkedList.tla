----------------------------- MODULE LinkedList -----------------------------
(***************************************************************************)
(* A program that uses list.h: it calls the functions on some heads and    *)
(* entries, and runs the list_for_each macros.  Guards on the calls are    *)
(* what the functions take for granted of their callers: an entry that is  *)
(* added is in no list, one that is deleted was in some list once, a head  *)
(* that was given to list_splice() is initialised before it is used again. *)
(***************************************************************************)
EXTENDS ListHeap

CONSTANTS ListHead, Entry

ASSUME ListAssumption ==
  /\ IsFiniteSet(ListHead) /\ IsFiniteSet(Entry)
  /\ ListHead \cap Entry = {} /\ NULL \notin ListHead \cup Entry

VARIABLES
  heap,     \* the pointers
  loop,     \* the state of the loop that runs, or Idle
  visited,  \* the entries its body was run for
  members   \* the entries of the list when it started, in its order

listVars == <<heap, loop, visited, members>>

Idle == [at |-> "idle"]

\* LIST_HEAD() for the heads; entries are not initialised.
ListInit ==
  /\ heap = [next |-> [x \in ListHead \cup Entry |-> IF x \in ListHead THEN x ELSE NULL],
             prev |-> [x \in ListHead \cup Entry |-> IF x \in ListHead THEN x ELSE NULL]]
  /\ loop = Idle /\ visited = << >> /\ members = << >>

-----------------------------------------------------------------------------
Usable(h) == IsRing(heap, h)

\* Deleted, or initialised by list_del_init, or never used.
Unused(e)   == heap.next[e] \in {NULL, e}
Deletable(e) == heap.next[e] # NULL

NoLoop == loop.at = "idle"

Calls(newHeap) == heap' = newHeap /\ UNCHANGED <<loop, visited, members>>

\* In a loop the body may add entries, but none the loop has been at.
ListAdd == \E e \in Entry, h \in ListHead :
  /\ Usable(h) /\ Unused(e) /\ e \notin Range(visited)
  /\ \/ Calls(list_add(heap, e, h))
     \/ Calls(list_add_tail(heap, e, h))

ListDelete == \E e \in Entry :
  /\ NoLoop /\ Deletable(e)
  /\ \/ Calls(list_del(heap, e))
     \/ Calls(list_del_init(heap, e))

ListMove == \E e \in Entry, h \in ListHead :
  /\ NoLoop /\ Usable(h) /\ Deletable(e)
  /\ \/ Calls(list_move(heap, e, h))
     \/ Calls(list_move_tail(heap, e, h))

ListSplice == \E f, h \in ListHead :
  /\ NoLoop /\ f # h /\ Usable(f) /\ Usable(h)
  /\ \/ Calls(list_splice(heap, f, h))
     \/ Calls(list_splice_tail(heap, f, h))
     \/ Calls(list_splice_init(heap, f, h))
     \/ Calls(list_splice_tail_init(heap, f, h))

\* A head whose entries were spliced away is used again.
ListReinit == \E h \in ListHead :
  /\ NoLoop /\ ~Usable(h)
  /\ Calls(INIT_LIST_HEAD(heap, h))

-----------------------------------------------------------------------------
(* list_for_each, list_for_each_entry and list_for_each_prev and their     *)
(* _safe and _reverse forms.                                               *)
Link(back) == IF back THEN heap.prev ELSE heap.next

LoopStart == \E h \in ListHead, back, safe \in BOOLEAN :
  /\ NoLoop /\ Usable(h)
  /\ loop' = [at |-> "test", head |-> h, back |-> back, safe |-> safe,
              p |-> Link(back)[h], n |-> Link(back)[Link(back)[h]]]
  /\ visited' = << >>
  /\ members' = Along(Link(back), h)
  /\ UNCHANGED heap

\* The body: with a _safe loop it may take the entry out of the list.
LoopBody ==
  /\ loop.at = "test" /\ loop.p # loop.head
  /\ visited' = Append(visited, loop.p)
  /\ loop' = [loop EXCEPT !.at = "next"]
  /\ \/ UNCHANGED heap
     \/ /\ loop.safe
        /\ \/ heap' = list_del(heap, loop.p)
           \/ heap' = list_del_init(heap, loop.p)
           \/ \E h \in ListHead \ {loop.head} : Usable(h) /\ heap' = list_move_tail(heap, loop.p, h)
  /\ UNCHANGED members

Successor == IF loop.safe THEN loop.n ELSE Link(loop.back)[loop.p]

LoopNext ==
  /\ loop.at = "next"
  /\ loop' = [loop EXCEPT !.at = "test", !.p = Successor,
                          !.n = IF loop.safe THEN Link(loop.back)[Successor] ELSE loop.n]
  /\ UNCHANGED <<heap, visited, members>>

LoopEnd ==
  /\ loop.at = "test" /\ loop.p = loop.head
  /\ loop' = Idle /\ visited' = << >> /\ members' = << >>
  /\ UNCHANGED heap

ListNext ==
  \/ ListAdd \/ ListDelete \/ ListMove \/ ListSplice \/ ListReinit
  \/ LoopStart \/ LoopBody \/ LoopNext \/ LoopEnd

-----------------------------------------------------------------------------
(* Every head that may be used heads a ring that is the same in both        *)
(* directions, no entry is in two rings, and list_empty, list_is_first and  *)
(* list_is_last tell what the ring looks like, after any sequence of calls. *)
RingsAreSound ==
  \A h \in ListHead : Usable(h) =>
    LET s == Along(heap.next, h) IN
    /\ Backwards(s) = Along(heap.prev, h)
    /\ Range(s) \subseteq Entry /\ IsInjective(s)
    /\ \A g \in ListHead \ {h} : Usable(g) => Range(s) \cap Range(Along(heap.next, g)) = {}
    /\ list_empty(heap, h) <=> s = << >>
    /\ \A e \in Range(s) : /\ list_is_first(heap, e, h) <=> e = s[1]
                           /\ list_is_last(heap, e, h) <=> e = s[Len(s)]

(* The pointers implement sequences of entries.                             *)
Lists == INSTANCE EntryLists WITH
  lists <- [h \in ListHead |-> IF Usable(h) THEN Along(heap.next, h) ELSE << >>]

ImplementsLists == Lists!Spec

(* A loop runs its body for every entry that was in the list, once and in   *)
(* order, although the body of a _safe loop takes the current entry out and *)
(* entries are added meanwhile; it never follows a pointer of an entry that *)
(* is not in the list.                                                      *)
LoopIsExact ==
  loop.at # "idle" =>
    /\ loop.p # NULL /\ loop.p \notin ListHead \ {loop.head}
    /\ IsInjective(visited)
    /\ loop.at = "test" /\ loop.p = loop.head => InOrder(members, visited)

==============================================================================
