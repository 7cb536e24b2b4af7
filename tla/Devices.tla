------------------------------- MODULE Devices -------------------------------
(***************************************************************************)
(* class Devices of src/devices_struct/DeviceDefine.h: the map from MAC to *)
(* std::shared_ptr<Node> that the threads of the gateway share.            *)
(* addDeviceNode and RemoveDeviceNode hold mDevMapMutex for their whole    *)
(* body; the lookups do not take it, and may run while a writer is inside  *)
(* insert() or erase() and half-way through rebalancing the tree.  So a    *)
(* writer takes two steps, one that enters the call and one that returns   *)
(* from it with the map changed.  A lookup reads the map in single calls   *)
(* of the library: one that overlaps a restructuring is one that falls     *)
(* between those two steps, a data race, and what follows is undefined     *)
(* (corrupt).                                                              *)
(*                                                                         *)
(* An object is a Node on the heap.  It lives while the map or a thread    *)
(* holds a shared_ptr to it; a raw Node* does not keep it alive.  Objects  *)
(* are allocated once: the history of an address is not reused.            *)
(***************************************************************************)
EXTENDS Naturals, FiniteSetsExt

CONSTANTS
  Thread,
  Object,  \* the Node objects that are ever allocated
  Macs,    \* MACs are 1..Macs, in the order of the map's keys
  NodeId,
  None

Mac == 1..Macs

ASSUME DevicesAssumption ==
  /\ Macs \in Nat
  /\ None \notin Object \cup NodeId

VARIABLES
  mDeviceMap,  \* MAC -> object or None
  live,        \* the objects that have been allocated and not destroyed
  mNodeId,     \* the field of an object, None before it is allocated
  shared,      \* thread -> the shared_ptr it holds
  raw,         \* thread -> the Node* it holds
  copied,      \* thread -> the objects in its copy of the map
  op,          \* thread -> the function it is in, or "none"
  key,         \* thread -> the NodeId it looks for, or the MAC it writes
  it,          \* thread -> its iterator: a MAC, End or Erased
  corrupt,     \* a lookup has read what a writer was changing, or has erased
  removed      \* history: the objects RemoveDeviceNode took out of the map

vars == <<mDeviceMap, live, mNodeId, shared, raw, copied, op, key, it, corrupt, removed>>

lookup == <<op, key, it>>

\* Iterators that are not at an element.
End    == 0
Erased == Macs + 1

Init ==
  /\ mDeviceMap = [m \in Mac |-> None]
  /\ live = {}
  /\ mNodeId = [o \in Object |-> None]
  /\ shared = [t \in Thread |-> None]
  /\ raw = [t \in Thread |-> None]
  /\ copied = [t \in Thread |-> {}]
  /\ op = [t \in Thread |-> "none"]
  /\ key = [t \in Thread |-> None]
  /\ it = [t \in Thread |-> End]
  /\ corrupt = FALSE
  /\ removed = {}

-----------------------------------------------------------------------------
\* The objects some shared_ptr refers to.
Held(map, ptrs, copies) ==
  {o \in Object : \/ \E m \in Mac : map[m] = o
                  \/ \E t \in Thread : ptrs[t] = o \/ o \in copies[t]}

Survivors(map, ptrs, copies) == live \cap Held(map, ptrs, copies)

Idle(t) == ~corrupt /\ op[t] = "none"

\* A thread looks for one thing at a time: the result before is forgotten.
Fresh(t) == Idle(t) /\ shared[t] = None /\ raw[t] = None /\ copied[t] = {}

\* The caller makes a Node.  Node(eui) leaves mNodeId uninitialised and the
\* field is public: the object has some id, any.
NewNode(t, id) == \E o \in Object :
  /\ Fresh(t)
  /\ mNodeId[o] = None
  /\ live' = live \cup {o}
  /\ mNodeId' = [mNodeId EXCEPT ![o] = id]
  /\ shared' = [shared EXCEPT ![t] = o]
  /\ UNCHANGED <<mDeviceMap, raw, copied, lookup, corrupt, removed>>

\* A plausible bug: operator[] or insert_or_assign instead of insert.
Assigned(m, o) == [mDeviceMap EXCEPT ![m] = o]
Inserted(m, o) == IF mDeviceMap[m] = None THEN [mDeviceMap EXCEPT ![m] = o] ELSE mDeviceMap

\* lock_guard: one thread is in a writer, the next one waits.
Locked == \E t \in Thread : op[t] \in {"addDeviceNode", "RemoveDeviceNode"}

Enters(t, writer, m) ==
  /\ Idle(t) /\ ~Locked
  /\ op' = [op EXCEPT ![t] = writer]
  /\ key' = [key EXCEPT ![t] = m]
  /\ UNCHANGED <<mDeviceMap, live, mNodeId, shared, raw, copied, it, corrupt, removed>>

addDeviceNode(t, m)    == shared[t] # None /\ Enters(t, "addDeviceNode", m)
RemoveDeviceNode(t, m) == Enters(t, "RemoveDeviceNode", m)

InsertReturns(t) ==
  /\ ~corrupt /\ op[t] = "addDeviceNode"
  /\ mDeviceMap' = Inserted(key[t], shared[t])
  /\ live' = Survivors(mDeviceMap', shared, copied)
  /\ op' = [op EXCEPT ![t] = "none"]
  /\ key' = [key EXCEPT ![t] = None]
  /\ UNCHANGED <<mNodeId, shared, raw, copied, it, corrupt, removed>>

\* erase() invalidates the iterators at the element, and only those.
EraseReturns(t) ==
  /\ ~corrupt /\ op[t] = "RemoveDeviceNode"
  /\ mDeviceMap' = [mDeviceMap EXCEPT ![key[t]] = None]
  /\ live' = Survivors(mDeviceMap', shared, copied)
  /\ it' = [u \in Thread |-> IF it[u] = key[t] THEN Erased ELSE it[u]]
  /\ removed' = removed \cup ({mDeviceMap[key[t]]} \ {None})
  /\ op' = [op EXCEPT ![t] = "none"]
  /\ key' = [key EXCEPT ![t] = None]
  /\ UNCHANGED <<mNodeId, shared, raw, copied, corrupt>>

\* What a writer is changing: insert() of a new key and erase() of a known one
\* relink the tree, erase() also destroys the element.
Erasing(m)   == mDeviceMap[m] # None /\ \E t \in Thread : op[t] = "RemoveDeviceNode" /\ key[t] = m
Inserting(m) == mDeviceMap[m] = None /\ \E t \in Thread : op[t] = "addDeviceNode" /\ key[t] = m
Restructured == \E m \in Mac : Erasing(m) \/ Inserting(m)

-----------------------------------------------------------------------------
(* The lookups. *)

Present == {m \in Mac : mDeviceMap[m] # None}

\* begin() of the map, and ++ of an iterator at m.
First    == IF Present = {} THEN End ELSE Min(Present)
After(m) == LET later == {n \in Present : n > m} IN IF later = {} THEN End ELSE Min(later)

Returns(t) ==
  /\ op' = [op EXCEPT ![t] = "none"]
  /\ it' = [it EXCEPT ![t] = End]
  /\ key' = [key EXCEPT ![t] = None]

\* mDeviceMap.find(): findDeviceByDid begins with a call of findDeviceByDidEx.
FindByDidBegins(t, m) == \E which \in {"findDeviceByDidEx", "findDeviceByDid"} :
  /\ Fresh(t) /\ ~Restructured
  /\ op' = [op EXCEPT ![t] = which]
  /\ it' = [it EXCEPT ![t] = IF mDeviceMap[m] # None THEN m ELSE End]
  /\ UNCHANGED <<mDeviceMap, live, mNodeId, shared, raw, copied, key, corrupt, removed>>

\* The element the iterator is at can be read; the rest of the tree may change.
Readable(t) == it[t] # Erased /\ ~(it[t] \in Mac /\ Erasing(it[t]))

\* The shared_ptr of the element is copied, or nullptr is returned.
findDeviceByDidEx(t) ==
  /\ ~corrupt /\ op[t] = "findDeviceByDidEx" /\ Readable(t)
  /\ shared' = [shared EXCEPT ![t] = IF it[t] = End THEN None ELSE mDeviceMap[it[t]]]
  /\ Returns(t)
  /\ UNCHANGED <<mDeviceMap, live, mNodeId, raw, copied, corrupt, removed>>

\* The same copy, as the local variable device ...
FindByDidHolds(t) ==
  /\ ~corrupt /\ op[t] = "findDeviceByDid" /\ Readable(t)
  /\ shared' = [shared EXCEPT ![t] = IF it[t] = End THEN None ELSE mDeviceMap[it[t]]]
  /\ op' = [op EXCEPT ![t] = "get"]
  /\ it' = [it EXCEPT ![t] = End]
  /\ UNCHANGED <<mDeviceMap, live, mNodeId, raw, copied, key, corrupt, removed>>

\* ... which goes out of scope when device.get() is returned.
findDeviceByDid(t) ==
  /\ ~corrupt /\ op[t] = "get"
  /\ raw' = [raw EXCEPT ![t] = shared[t]]
  /\ shared' = [shared EXCEPT ![t] = None]
  /\ live' = Survivors(mDeviceMap, shared', copied)
  /\ Returns(t)
  /\ UNCHANGED <<mDeviceMap, mNodeId, copied, corrupt, removed>>

\* The loop of findDeviceByNodeId.
WalkBegins(t, id) ==
  /\ Fresh(t) /\ ~Restructured
  /\ op' = [op EXCEPT ![t] = "findDeviceByNodeId"]
  /\ key' = [key EXCEPT ![t] = id]
  /\ it' = [it EXCEPT ![t] = First]
  /\ UNCHANGED <<mDeviceMap, live, mNodeId, shared, raw, copied, corrupt, removed>>

\* Plausible bugs: the walk starts again at the first element, or takes the
\* keys to be consecutive.
StartOver(m) == First
NextKey(m)   == IF m = Macs THEN End ELSE m + 1
Step(m)      == After(m)

\* The element is not the one and the walk goes on: ++ follows the links.
Passes(t) == it[t] # End /\ mNodeId[mDeviceMap[it[t]]] # key[t]

findDeviceByNodeId(t) ==
  /\ ~corrupt /\ op[t] = "findDeviceByNodeId" /\ Readable(t)
  /\ \/ /\ Passes(t) /\ ~Restructured
        /\ it' = [it EXCEPT ![t] = Step(it[t])]
        /\ UNCHANGED <<op, key, raw>>
     \/ /\ ~Passes(t)
        /\ raw' = [raw EXCEPT ![t] = IF it[t] = End THEN None ELSE mDeviceMap[it[t]]]
        /\ Returns(t)
  /\ UNCHANGED <<mDeviceMap, live, mNodeId, shared, copied, corrupt, removed>>

\* The copy constructor of the map reads the whole tree.
getDeviceMap(t) ==
  /\ Fresh(t) /\ ~Restructured
  /\ copied' = [copied EXCEPT ![t] = {mDeviceMap[m] : m \in Present}]
  /\ UNCHANGED <<mDeviceMap, live, mNodeId, shared, raw, lookup, corrupt, removed>>

\* Undefined behaviour, after which nothing is said: begin(), find() or the
\* copy in the middle of a restructuring, ++ likewise, and reading an element
\* that is being erased or has been.
RacesAtStart(t) == Fresh(t) /\ Restructured

RacesInLookup(t) ==
  /\ ~corrupt
  /\ \/ op[t] \in {"findDeviceByDidEx", "findDeviceByDid", "findDeviceByNodeId"} /\ ~Readable(t)
     \/ op[t] = "findDeviceByNodeId" /\ Readable(t) /\ Passes(t) /\ Restructured

Races(t) ==
  /\ corrupt' = TRUE
  /\ UNCHANGED <<mDeviceMap, live, mNodeId, shared, raw, copied, lookup, removed>>

\* What a thread inside one of the functions does next.
OpStep(t) == \/ findDeviceByDidEx(t) \/ FindByDidHolds(t) \/ findDeviceByDid(t)
             \/ findDeviceByNodeId(t) \/ (RacesInLookup(t) /\ Races(t))
             \/ InsertReturns(t) \/ EraseReturns(t)

\* The caller's pointers go out of scope.
Forget(t) ==
  /\ Idle(t) /\ ~Fresh(t)
  /\ shared' = [shared EXCEPT ![t] = None]
  /\ raw' = [raw EXCEPT ![t] = None]
  /\ copied' = [copied EXCEPT ![t] = {}]
  /\ live' = Survivors(mDeviceMap, shared', copied')
  /\ UNCHANGED <<mDeviceMap, mNodeId, lookup, corrupt, removed>>

Next == \E t \in Thread :
  \/ \E id \in NodeId : NewNode(t, id) \/ WalkBegins(t, id)
  \/ \E m \in Mac : addDeviceNode(t, m) \/ RemoveDeviceNode(t, m) \/ FindByDidBegins(t, m)
  \/ getDeviceMap(t) \/ (RacesAtStart(t) /\ Races(t))
  \/ OpStep(t) \/ Forget(t)

\* A thread that is in one of the functions goes on with it.
Spec == Init /\ [][Next]_vars /\ \A t \in Thread : WF_vars(OpStep(t))

-----------------------------------------------------------------------------
(* Types of the variables. *)
TypeOK ==
  /\ mDeviceMap \in [Mac -> Object \cup {None}]
  /\ live \subseteq Object /\ removed \subseteq Object
  /\ mNodeId \in [Object -> NodeId \cup {None}]
  /\ shared \in [Thread -> Object \cup {None}]
  /\ raw \in [Thread -> Object \cup {None}]
  /\ copied \in [Thread -> SUBSET Object]
  /\ op \in [Thread -> {"none", "findDeviceByDidEx", "findDeviceByDid", "get", "findDeviceByNodeId",
                     "addDeviceNode", "RemoveDeviceNode"}]
  /\ key \in [Thread -> NodeId \cup Mac \cup {None}]
  /\ it \in [Thread -> 0..(Macs + 1)]
  /\ corrupt \in BOOLEAN

(* As long as no lookup has run into a writer (corrupt):                    *)
(* a Node that somebody reaches through a shared_ptr (the map, a result of  *)
(* findDeviceByDidEx, a copy from getDeviceMap) is alive, whoever removes   *)
(* it from the map meanwhile; and nothing else is.  A Node* from            *)
(* findDeviceByDid or findDeviceByNodeId is good until the node is removed  *)
(* from the map: adding a node again under the same MAC does not destroy    *)
(* the one the pointer refers to.                                           *)
RawGoodUntilRemoved == ~corrupt =>
  /\ live = Held(mDeviceMap, shared, copied)
  /\ \A t \in Thread : raw[t] # None => raw[t] \in live \cup removed

(* The iterator of a lookup stays at an element of the map however the map  *)
(* changes between the calls that move it, unless that very element is      *)
(* erased or a call runs into a writer; and variables keep their types.     *)
IteratorAtElement ==
  TypeOK /\ (~corrupt => \A t \in Thread : it[t] \in Mac => mDeviceMap[it[t]] # None)

(* A lookup ends, although the map grows while it is walked, unless it runs *)
(* into a writer; and a writer ends.                                        *)
LookupEnds == \A t \in Thread : op[t] # "none" ~> op[t] = "none" \/ corrupt

==============================================================================
