------------------------------ MODULE JoinQueue ------------------------------
(***************************************************************************)
(* What JoinRingQueue (src/devices_struct/DeviceDefine.h) promises its     *)
(* users: the nodes that are joining the network, in arrival order.        *)
(* Elements enter at the back and leave from the front, from any place, or *)
(* all of them one after the other.  Traversing the queue changes nothing. *)
(***************************************************************************)
EXTENDS Naturals, Sequences

CONSTANT Element

VARIABLE queue

Positions == 1..Len(queue)

\* q without the element at position k.
Without(q, k) == [i \in 1..(Len(q) - 1) |-> IF i < k THEN q[i] ELSE q[i + 1]]

Init == queue = << >>

\* An element that is not queued is appended.
Arrive == \E e \in Element :
  /\ \A i \in Positions : queue[i] # e
  /\ queue' = Append(queue, e)

\* One element leaves; the others keep their order.
Leave == \E k \in Positions : queue' = Without(queue, k)

Next == Arrive \/ Leave

Spec == Init /\ [][Next]_queue

==============================================================================
