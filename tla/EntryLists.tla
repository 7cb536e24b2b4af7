----------------------------- MODULE EntryLists -----------------------------
(***************************************************************************)
(* What list.h implements: every head has a sequence of entries, and every *)
(* entry is in at most one of them.                                        *)
(***************************************************************************)
EXTENDS Integers, Sequences, Functions

CONSTANTS ListHead, Entry

VARIABLE lists

Init == lists = [h \in ListHead |-> << >>]

\* An entry is in a sequence at most once.
Place(s, e)   == CHOOSE i \in DOMAIN s : s[i] = e
Without(s, e) ==
  IF e \in Range(s) THEN SubSeq(s, 1, Place(s, e) - 1) \o SubSeq(s, Place(s, e) + 1, Len(s)) ELSE s
Free(ls, e)   == \A h \in ListHead : e \notin Range(ls[h])

Put(ls, e, h) == {[ls EXCEPT ![h] = <<e>> \o @], [ls EXCEPT ![h] = Append(@, e)]}

Add(e, h)    == Free(lists, e) /\ lists' \in Put(lists, e, h)
Remove(e)    == lists' = [h \in ListHead |-> Without(lists[h], e)]
Move(e, h)   == lists' \in Put([g \in ListHead |-> Without(lists[g], e)], e, h)
Splice(f, h) ==
  /\ f # h
  /\ \/ lists' = [lists EXCEPT ![f] = << >>, ![h] = lists[f] \o @]
     \/ lists' = [lists EXCEPT ![f] = << >>, ![h] = @ \o lists[f]]

Next ==
  \/ \E e \in Entry : Remove(e)
  \/ \E e \in Entry, h \in ListHead : Add(e, h) \/ Move(e, h)
  \/ \E f, h \in ListHead : Splice(f, h)

Spec == Init /\ [][Next]_lists

==============================================================================
