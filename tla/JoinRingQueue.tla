---------------------------- MODULE JoinRingQueue ----------------------------
(***************************************************************************)
(* class JoinRingQueue of src/devices_struct/DeviceDefine.h: a doubly      *)
(* linked list of the nodes that are joining, with a cursor mcurr that the *)
(* retransmission sweep advances.                                          *)
(*                                                                         *)
(* The memory is modelled: Element is the set of addresses malloc can      *)
(* return, heap the addresses in use, next and previous the fields stored  *)
(* there.  The fields of a freed element keep their last value.  An        *)
(* operation that follows nullptr or a pointer to freed memory kills the   *)
(* process: fault records it and nothing happens afterwards.  content is   *)
(* left out: an element stands for the node it carries.                    *)
(***************************************************************************)
EXTENDS Naturals, Sequences

CONSTANTS
  Element,  \* addresses of list elements
  nullptr   \* the null pointer

ASSUME NullAssumption == nullptr \notin Element

VARIABLES
  mhead, mtail, mcurr,  \* the three pointers of the class
  mcount,               \* its element counter
  next, previous,       \* the link fields of every address
  heap,                 \* the addresses malloc'ed and not yet freed
  returned,             \* the element the last traversal call gave the caller
  stale,                \* history: that element has been freed since
  clearing,             \* ClearAllElements is in its loop
  fault                 \* "none", or how the process died

links == <<mhead, mtail, mcurr, mcount, next, previous, heap, returned, stale>>
vars  == <<links, clearing, fault>>

Pointer == Element \cup {nullptr}

Ops == {"PushBack", "PopFront", "RemoveElement", "SpecialElement", "NextElement"}

-----------------------------------------------------------------------------
(* Memory.  touched is the set of pointers an operation dereferences.      *)

Valid(touched) == touched \subseteq heap

\* A wrong dereference: of nullptr in operation op, or of freed memory.
Crash(op, touched) ==
  /\ fault' = IF nullptr \in touched THEN op ELSE "freed"
  /\ UNCHANGED <<links, clearing>>

Running == fault = "none" /\ ~clearing

-----------------------------------------------------------------------------
Init ==
  /\ mhead = nullptr
  /\ mtail = nullptr
  /\ mcurr = nullptr
  /\ mcount = 0
  /\ next = [p \in Pointer |-> nullptr]
  /\ previous = [p \in Pointer |-> nullptr]
  /\ heap = {}
  /\ returned = nullptr
  /\ stale = FALSE
  /\ clearing = FALSE
  /\ fault = "none"

\* The element counter once an element is linked in.
CountNotBumped == mcount
CountAfterPush == mcount + 1

\* A plausible bug: the new element is linked in front of the head.
PushAtTheFront == \E element \in Element \ heap :
  /\ Running
  /\ heap' = heap \cup {element}
  /\ next' = [next EXCEPT ![element] = mhead]
  /\ previous' = [p \in Pointer |-> IF p = element THEN nullptr
                                    ELSE IF p = mhead THEN element ELSE previous[p]]
  /\ mhead' = element
  /\ mtail' = IF mtail = nullptr THEN element ELSE mtail
  /\ mcount' = mcount + 1
  /\ UNCHANGED <<mcurr, returned, stale, clearing, fault>>

\* When malloc fails the operation only logs: that is a stuttering step.
emberAfPluginLinkedListPushBack == \E element \in Element \ heap :
  LET touched == IF mhead = nullptr THEN {} ELSE {mtail} IN
  /\ Running
  /\ IF Valid(touched)
     THEN /\ heap' = heap \cup {element}
          /\ previous' = [previous EXCEPT ![element] = mtail]
          /\ next' = [p \in Pointer |-> IF p = element THEN nullptr
                                        ELSE IF p \in touched THEN element
                                        ELSE next[p]]
          /\ mhead' = IF mhead = nullptr THEN element ELSE mhead
          /\ mtail' = element
          /\ mcount' = CountAfterPush
          /\ UNCHANGED <<mcurr, returned, stale, clearing, fault>>
     ELSE Crash("PushBack", touched)

\* Where the cursor and the tail are once the head is gone.
CursorNotMoved == mcurr
TailNotReset   == mtail
CursorAfterPop == IF mcurr = mhead THEN next[mhead] ELSE mcurr
TailAfterPop   == IF mtail = mhead THEN nullptr ELSE mtail

\* The body of PopFront, which ClearAllElements calls in its loop too.  The
\* new head's previous field is left as it is, and a caller that was given the
\* head keeps a pointer to freed memory.
PopHead ==
  /\ mcount > 0
  /\ IF Valid({mhead})
     THEN /\ mtail' = TailAfterPop
          /\ mcurr' = CursorAfterPop
          /\ mhead' = next[mhead]
          /\ heap' = heap \ {mhead}
          /\ mcount' = mcount - 1
          /\ stale' = (stale \/ returned = mhead)
          /\ UNCHANGED <<next, previous, returned, clearing, fault>>
     ELSE Crash("PopFront", {mhead})

emberAfPluginLinkedListPopFront == Running /\ PopHead

\* The link updates of RemoveElement, for an element with neighbours n and p.
IsHead(element)  == element = mhead
IsOnly(element)  == element = mhead /\ mhead = mtail
IsTail(element)  == element # mhead /\ element = mtail
IsInner(element) == element # mhead /\ element # mtail

\* The elements whose fields RemoveElement reads or writes.
RemoveTouches(element) ==
  {element}
  \cup (IF element = mcurr \/ IsInner(element) \/ (IsHead(element) /\ ~IsOnly(element))
        THEN {next[element]} ELSE {})
  \cup (IF IsTail(element) \/ IsInner(element) THEN {previous[element]} ELSE {})

\* The back link of the element behind the removed one.
BackLink(element, old) ==
  IF IsHead(element) /\ ~IsOnly(element) THEN nullptr
  ELSE IF element = mcurr \/ IsInner(element) THEN previous[element]
  ELSE old

\* The forward link of the element in front of the removed one.
ForwardLink(element) == IF IsTail(element) THEN nullptr ELSE next[element]

\* A nullptr argument, or an empty queue, only returns false.
emberAfPluginLinkedListRemoveElement(element) ==
  /\ Running
  /\ element # nullptr
  /\ mhead # nullptr
  /\ IF Valid(RemoveTouches(element))
     THEN /\ mcurr' = IF element = mcurr THEN next[element] ELSE mcurr
          /\ mhead' = IF IsOnly(element) THEN nullptr
                      ELSE IF IsHead(element) THEN next[element] ELSE mhead
          /\ mtail' = IF IsOnly(element) THEN nullptr
                      ELSE IF IsTail(element) THEN previous[element] ELSE mtail
          /\ next' = IF IsHead(element) THEN next
                     ELSE [next EXCEPT ![previous[element]] = ForwardLink(element)]
          /\ previous' = [previous EXCEPT ![next[element]] = BackLink(element, @)]
          /\ mcount' = mcount - 1
          /\ heap' = heap \ {element}
          /\ stale' = (stale \/ returned = element)
          /\ UNCHANGED <<returned, clearing, fault>>
     ELSE Crash("RemoveElement", RemoveTouches(element))

\* ClearAllElements: while (mhead != nullptr) PopFront().
ClearAllBegins == Running /\ clearing' = TRUE /\ UNCHANGED <<links, fault>>
ClearAllPops   == clearing /\ fault = "none" /\ mhead # nullptr /\ PopHead
ClearAllEnds   == clearing /\ mhead = nullptr /\ clearing' = FALSE /\ UNCHANGED <<links, fault>>

emberAfPluginLinkedListClearAllElements == ClearAllBegins \/ ClearAllPops \/ ClearAllEnds

\* The element after elementPosition, or the head; the cursor goes behind it.
emberAfPluginLinkedListSpecialElement(elementPosition) ==
  LET found   == IF elementPosition = nullptr THEN mhead ELSE next[elementPosition]
      touched == ({elementPosition} \ {nullptr}) \cup {found}
  IN
  /\ Running
  /\ IF Valid(touched)
     THEN /\ mcurr' = next[found]
          /\ returned' = found
          /\ stale' = FALSE
          /\ UNCHANGED <<mhead, mtail, mcount, next, previous, heap, clearing, fault>>
     ELSE Crash("SpecialElement", touched)

\* The cursor is inside the list and not at its end.
CursorUnchecked == mcurr # mtail
AlwaysTheFirst  == FALSE
CursorWalks     == mcurr # mtail /\ mcurr # nullptr

\* The cursor behind the element NextElement returns.
CursorKeptOnHead(found) == IF CursorWalks THEN next[found] ELSE found
CursorBehind(found)     == IF found # nullptr THEN next[found] ELSE mcurr

emberAfPluginLinkedListNextElement ==
  LET found   == IF CursorWalks THEN mcurr ELSE mhead
      touched == IF CursorWalks THEN {mcurr} ELSE {mhead} \ {nullptr}
  IN
  /\ Running
  /\ IF Valid(touched)
     THEN /\ returned' = found
          /\ stale' = FALSE
          /\ mcurr' = CursorBehind(found)
          /\ UNCHANGED <<mhead, mtail, mcount, next, previous, heap, clearing, fault>>
     ELSE Crash("NextElement", touched)

-----------------------------------------------------------------------------
(* Any caller that takes care: the pointers it passes are queued elements,  *)
(* as every pointer is when the class hands it out.                         *)
Next ==
  \/ emberAfPluginLinkedListPushBack
  \/ emberAfPluginLinkedListPopFront
  \/ \E element \in heap : emberAfPluginLinkedListRemoveElement(element)
  \/ emberAfPluginLinkedListClearAllElements
  \/ \E position \in heap \cup {nullptr} : emberAfPluginLinkedListSpecialElement(position)
  \/ emberAfPluginLinkedListNextElement

\* The loop of ClearAllElements runs to its end: nothing in it waits.
Spec == Init /\ [][Next]_vars /\ WF_vars(ClearAllPops \/ ClearAllEnds)

\* The sweep of the class comment: it takes element after element with
\* NextElement and removes the one it has just been given, when that node's
\* joining has succeeded or timed out.  Nothing tells it that the element was
\* popped, cleared or removed before, or that its address is in use again.
SweepRemoves == emberAfPluginLinkedListRemoveElement(returned)

SweepNext ==
  \/ emberAfPluginLinkedListPushBack
  \/ emberAfPluginLinkedListPopFront
  \/ SweepRemoves
  \/ emberAfPluginLinkedListClearAllElements
  \/ emberAfPluginLinkedListNextElement

\* The sweep never stops asking for the next element ("traverses without
\* pause", the class comment).
SweepSpec ==
  /\ Init /\ [][SweepNext]_vars
  /\ WF_vars(ClearAllPops \/ ClearAllEnds)
  /\ WF_vars(emberAfPluginLinkedListNextElement)

-----------------------------------------------------------------------------
(* The type of every variable of the class and of its memory. *)
TypeOK ==
  /\ mhead \in Pointer /\ mtail \in Pointer /\ mcurr \in Pointer
  /\ mcount \in Nat
  /\ next \in [Pointer -> Pointer]
  /\ previous \in [Pointer -> Pointer]
  /\ heap \subseteq Element
  /\ returned \in Pointer /\ stale \in BOOLEAN
  /\ clearing \in BOOLEAN
  /\ fault \in Ops \cup {"none", "freed"}

\* The links, the counter and the end pointers represent the sequence q.
Linked(q) ==
  /\ \A i, j \in 1..mcount : q[i] = q[j] => i = j
  /\ heap = {q[i] : i \in 1..mcount}
  /\ mhead = IF mcount = 0 THEN nullptr ELSE q[1]
  /\ mtail = IF mcount = 0 THEN nullptr ELSE q[mcount]
  /\ \A i \in 1..mcount : next[q[i]] = IF i = mcount THEN nullptr ELSE q[i + 1]
  /\ \A i \in 2..mcount : previous[q[i]] = q[i - 1]

(* Whatever was pushed, popped, removed and cleared, in whatever order, the *)
(* list is a proper doubly linked list of exactly the elements in memory:   *)
(* no leak, no cycle, no lost element, a correct mcount and mtail, although *)
(* PopFront leaves the new head's previous field dangling.                  *)
WellLinked == \E q \in [1..mcount -> Element] : Linked(q)

(* The cursor, which the class keeps between two calls, never outlives the  *)
(* element it rests on, whatever is popped, removed or cleared in between.  *)
NoDanglingCursor == mcurr \in heap \cup {nullptr}

(* No operation ever follows a pointer into freed memory, in particular the *)
(* dangling previous field that PopFront leaves in the new head, and only   *)
(* the two operations that dereference a next field without a null check    *)
(* can kill the process.                                                    *)
OnlyKnownCrashes == fault \in {"none", "RemoveElement", "SpecialElement"}

(* A sweep that removes what NextElement has given it kills the process     *)
(* only with a stale pointer: the element was freed by PopFront,            *)
(* ClearAllElements or a RemoveElement since.  As long as it was not,       *)
(* RemoveElement follows neither nullptr nor a pointer to freed memory.     *)
CrashNeedsStale == fault # "none" => stale

(* RemoveElement of a queued element never follows nullptr.                 *)
RemoveIsSafe == fault # "RemoveElement"

(* The loop of ClearAllElements terminates.                                 *)
ClearTerminates == clearing ~> ~clearing

\* From some time on no element arrives.
ArrivalsStop == <>[][heap' \subseteq heap]_vars

\* The element the caller has now is e as it is queued.
GivenNow(e) == returned = e /\ ~stale

(* Class comment: the queue is traversed "in order, without pause", not     *)
(* "the first node every time": once arrivals have stopped, a queued        *)
(* element is eventually returned by NextElement or leaves the queue,       *)
(* unless the process dies (CrashNeedsStale).                               *)
SweepVisitsEveryone ==
  ArrivalsStop =>
     \A e \in Element : e \in heap ~> (GivenNow(e) \/ e \notin heap \/ fault # "none")

(* What the traversal of NextElement does guarantee: every element that     *)
(* does not stay the last one is eventually returned, unless the process    *)
(* dies first.                                                              *)
SweepVisitsAllButLast ==
  ArrivalsStop =>
     \A e \in Element :
       e \in heap ~> (GivenNow(e) \/ e \notin heap \/ e = mtail \/ fault # "none")

(* The list implements the abstract queue.                                  *)
TheQueue == CHOOSE q \in [1..mcount -> Element] : Linked(q)

Abstract == INSTANCE JoinQueue WITH queue <- TheQueue

ImplementsQueue == Abstract!Spec

==============================================================================
