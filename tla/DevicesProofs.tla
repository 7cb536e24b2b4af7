---------------------------- MODULE DevicesProofs ----------------------------
(***************************************************************************)
(* What TLAPS proves of the device registry, for any number of threads,    *)
(* objects and MACs: the invariants the run checks, whichever thread takes *)
(* the next step.                                                          *)
(***************************************************************************)
EXTENDS Devices, CommonFacts

\* The object is in the map, or RemoveDeviceNode has taken it out.
WasInMap(o) == o \in removed \/ \E m \in Mac : mDeviceMap[m] = o

\* A thread in a lookup holds no shared_ptr yet, but for the local variable
\* of findDeviceByDid.
LookupIsFresh ==
  \A t \in Thread :
    op[t] \in {"findDeviceByDidEx", "findDeviceByDid", "findDeviceByNodeId"} => shared[t] = None

\* What becomes a Node* when findDeviceByDid returns was found in the map.
GetIsOfMap ==
  \A t \in Thread : op[t] = "get" /\ shared[t] # None => WasInMap(shared[t])

RawIsOfMap == \A t \in Thread : raw[t] # None => WasInMap(raw[t])

\* A writer works on a MAC, and insert() has a node.
WritesNode ==
  \A t \in Thread :
    /\ op[t] \in {"addDeviceNode", "RemoveDeviceNode"} => key[t] \in Mac
    /\ op[t] = "addDeviceNode" => shared[t] # None

AtElement == \A t \in Thread : it[t] \in Mac => mDeviceMap[it[t]] # None

LiveIsHeld == live = Held(mDeviceMap, shared, copied)

DevicesInv ==
  /\ TypeOK
  /\ LiveIsHeld
  /\ AtElement
  /\ LookupIsFresh
  /\ GetIsOfMap
  /\ RawIsOfMap
  /\ WritesNode

-----------------------------------------------------------------------------
(* An iterator that is moved is at an element of the map, or at the end.    *)
LEMMA StepIsPresent ==
  ASSUME NEW S \in SUBSET Present
  PROVE  LET next == IF S = {} THEN End ELSE Min(S)
         IN  next = End \/ (next \in Mac /\ mDeviceMap[next] # None)
<1>1. CASE S = {} BY <1>1
<1>2. CASE S # {}
  <2>1. S \in SUBSET Nat BY DevicesAssumption DEF Present, Mac
  <2>2. Min(S) \in S BY <1>2, <2>1, MinIsLeast
  <2> QED BY <1>2, <2>2 DEF Present
<1> QED BY <1>1, <1>2

LEMMA FirstAndAfter ==
  /\ First = End \/ (First \in Mac /\ mDeviceMap[First] # None)
  /\ \A m : Step(m) = End \/ (Step(m) \in Mac /\ mDeviceMap[Step(m)] # None)
<1>1. First = End \/ (First \in Mac /\ mDeviceMap[First] # None)
  BY StepIsPresent DEF First
<1>2. ASSUME NEW m PROVE Step(m) = End \/ (Step(m) \in Mac /\ mDeviceMap[Step(m)] # None)
  <2>1. {n \in Present : n > m} \in SUBSET Present OBVIOUS
  <2> QED BY <2>1, StepIsPresent DEF Step, After
<1> QED BY <1>1, <1>2

(* End and Erased are no elements. *)
LEMMA Places ==
  /\ End \notin Mac /\ Erased \notin Mac /\ End # Erased
  /\ \A i \in 0..(Macs + 1) : i \notin {End, Erased} => i \in Mac
  /\ Mac \cup {End, Erased} \subseteq 0..(Macs + 1)
BY DevicesAssumption DEF Mac, End, Erased

-----------------------------------------------------------------------------
(* The map keeps its elements when a node is inserted. *)
LEMMA InsertKeeps ==
  ASSUME DevicesInv, NEW m \in Mac, NEW o \in Object
  PROVE  /\ Inserted(m, o) \in [Mac -> Object \cup {None}]
         /\ \A n \in Mac : mDeviceMap[n] # None => Inserted(m, o)[n] = mDeviceMap[n]
         /\ \A n \in Mac : Inserted(m, o)[n] \in {mDeviceMap[n], o}
BY DEF DevicesInv, TypeOK, Inserted

(* A writer that returns has a MAC, and insert() a node. *)
LEMMA WriterHas ==
  ASSUME DevicesInv, NEW t \in Thread
  PROVE  /\ InsertReturns(t) => key[t] \in Mac /\ shared[t] \in Object
         /\ EraseReturns(t) => key[t] \in Mac
BY DEF DevicesInv, TypeOK, WritesNode, InsertReturns, EraseReturns

LEMMA TypeStep ==
  ASSUME DevicesInv, [Next]_vars
  PROVE  TypeOK'
<1> USE DEF DevicesInv, TypeOK
<1>1. CASE UNCHANGED vars BY <1>1 DEF vars, lookup
<1>2. ASSUME NEW t \in Thread, NEW id \in NodeId, NewNode(t, id) PROVE TypeOK'
  BY <1>2 DEF NewNode, lookup
<1>3. ASSUME NEW t \in Thread, NEW m \in Mac, addDeviceNode(t, m) \/ RemoveDeviceNode(t, m)
      PROVE  TypeOK'
  BY <1>3 DEF addDeviceNode, RemoveDeviceNode, Enters
<1>4. ASSUME NEW t \in Thread, NEW m \in Mac, FindByDidBegins(t, m) PROVE TypeOK'
  BY <1>4, Places DEF FindByDidBegins
<1>5. ASSUME NEW t \in Thread, NEW id \in NodeId, WalkBegins(t, id) PROVE TypeOK'
  BY <1>5, Places, FirstAndAfter DEF WalkBegins
<1>6. ASSUME NEW t \in Thread, getDeviceMap(t) PROVE TypeOK'
  BY <1>6 DEF getDeviceMap, Present, lookup
<1>7. ASSUME NEW t \in Thread, OpStep(t) PROVE TypeOK'
  <2>1. CASE findDeviceByDidEx(t) BY <2>1, Places DEF findDeviceByDidEx, Readable, Returns
  <2>2. CASE FindByDidHolds(t) BY <2>2, Places DEF FindByDidHolds, Readable
  <2>3. CASE findDeviceByDid(t) BY <2>3, Places DEF findDeviceByDid, Returns, Survivors
  <2>4. CASE findDeviceByNodeId(t)
    BY <2>4, Places, FirstAndAfter DEF findDeviceByNodeId, Readable, Returns
  <2>5. CASE InsertReturns(t) BY <2>5, WriterHas, InsertKeeps DEF InsertReturns, Survivors
  <2>6. CASE EraseReturns(t)
    <3>1. Erased \in 0..(Macs + 1) BY Places
    <3>2. key[t] \in Mac BY <2>6, WriterHas
    <3>3. removed' \subseteq Object BY <2>6, <3>2 DEF EraseReturns
    <3> QED BY <2>6, <3>1, <3>2, <3>3 DEF EraseReturns, Survivors
  <2>7. CASE Races(t) BY <2>7 DEF Races, lookup
  <2> QED BY <1>7, <2>1, <2>2, <2>3, <2>4, <2>5, <2>6, <2>7 DEF OpStep
<1>8. ASSUME NEW t \in Thread, Forget(t) \/ Races(t) PROVE TypeOK'
  BY <1>8 DEF Forget, Races, Survivors, lookup
<1> QED BY <1>1, <1>2, <1>3, <1>4, <1>5, <1>6, <1>7, <1>8 DEF Next

(* The shared_ptr decide what is alive: nothing is destroyed while the map  *)
(* or a thread refers to it, and nothing is left when nobody does.          *)
LEMMA LiveStep ==
  ASSUME DevicesInv, [Next]_vars
  PROVE  LiveIsHeld'
<1> USE DEF DevicesInv, TypeOK, LiveIsHeld
<1>1. CASE UNCHANGED <<mDeviceMap, live, shared, copied>> BY <1>1 DEF Held
<1>2. ASSUME NEW t \in Thread, NEW id \in NodeId, NewNode(t, id) PROVE LiveIsHeld'
  BY <1>2, DevicesAssumption DEF NewNode, Held, Fresh, Idle
<1>6. ASSUME NEW t \in Thread, getDeviceMap(t) PROVE LiveIsHeld'
  BY <1>6 DEF getDeviceMap, Held, Fresh, Present
<1>7. ASSUME NEW t \in Thread, OpStep(t) PROVE LiveIsHeld'
  <2>0. it[t] = Erased \/ it[t] = End \/ it[t] \in Mac BY Places
  <2>1. CASE findDeviceByDidEx(t) \/ FindByDidHolds(t)
    <3>1. shared[t] = None BY <2>1 DEF findDeviceByDidEx, FindByDidHolds, LookupIsFresh
    <3>2. /\ \E o \in Object \cup {None} :
               /\ shared' = [shared EXCEPT ![t] = o]
               /\ o = None \/ \E m \in Mac : mDeviceMap[m] = o
          /\ UNCHANGED <<mDeviceMap, copied, live>>
      BY <2>0, <2>1 DEF findDeviceByDidEx, FindByDidHolds, Readable
    <3> QED BY <3>1, <3>2, DevicesAssumption DEF Held
  <2>3. CASE findDeviceByDid(t)
    BY <2>3, DevicesAssumption DEF findDeviceByDid, Survivors, Held
  <2>4. CASE findDeviceByNodeId(t) \/ Races(t) BY <1>1, <2>4 DEF findDeviceByNodeId, Races
  <2>5. CASE InsertReturns(t)
    <3>1. shared[t] \in Object /\ key[t] \in Mac BY <2>5, WriterHas
    <3>2. /\ \A n \in Mac : mDeviceMap'[n] \in {mDeviceMap[n], shared[t]}
          /\ UNCHANGED <<shared, copied>>
          /\ live' = Survivors(mDeviceMap', shared, copied)
      BY <2>5, <3>1, InsertKeeps DEF InsertReturns
    <3> QED BY <3>2 DEF Survivors, Held
  <2>6. CASE EraseReturns(t)
    <3>1. /\ \A n \in Mac : mDeviceMap'[n] \in {mDeviceMap[n], None}
          /\ UNCHANGED <<shared, copied>>
          /\ live' = Survivors(mDeviceMap', shared, copied)
      BY <2>6 DEF EraseReturns
    <3> QED BY <3>1, DevicesAssumption DEF Survivors, Held
  <2> QED BY <1>7, <2>1, <2>3, <2>4, <2>5, <2>6 DEF OpStep
<1>8. ASSUME NEW t \in Thread, Forget(t) PROVE LiveIsHeld'
  BY <1>8, DevicesAssumption DEF Forget, Survivors, Held
<1>9. ASSUME NEW t \in Thread,
             \/ \E id \in NodeId : WalkBegins(t, id)
             \/ \E m \in Mac : addDeviceNode(t, m) \/ RemoveDeviceNode(t, m) \/ FindByDidBegins(t, m)
             \/ Races(t)
      PROVE  LiveIsHeld'
  BY <1>1, <1>9 DEF WalkBegins, addDeviceNode, RemoveDeviceNode, Enters, FindByDidBegins, Races
<1> QED BY <1>1, <1>2, <1>6, <1>7, <1>8, <1>9 DEF Next, vars

(* The iterators. *)
LEMMA AtElementStep ==
  ASSUME DevicesInv, [Next]_vars
  PROVE  AtElement'
<1> USE DEF DevicesInv, TypeOK, AtElement
<1>1. CASE UNCHANGED <<mDeviceMap, it>> BY <1>1
<1>4. ASSUME NEW t \in Thread, NEW m \in Mac, FindByDidBegins(t, m) PROVE AtElement'
  BY <1>4, Places DEF FindByDidBegins
<1>5. ASSUME NEW t \in Thread, NEW id \in NodeId, WalkBegins(t, id) PROVE AtElement'
  BY <1>5, Places, FirstAndAfter DEF WalkBegins
<1>7. ASSUME NEW t \in Thread, OpStep(t) PROVE AtElement'
  <2>1. CASE findDeviceByDidEx(t) BY <2>1, Places DEF findDeviceByDidEx, Returns
  <2>2. CASE FindByDidHolds(t) BY <2>2, Places DEF FindByDidHolds
  <2>3. CASE findDeviceByDid(t) BY <2>3, Places DEF findDeviceByDid, Returns
  <2>4. CASE findDeviceByNodeId(t)
    BY <2>4, Places, FirstAndAfter DEF findDeviceByNodeId, Returns
  <2>5. CASE InsertReturns(t) BY <2>5, WriterHas, InsertKeeps DEF InsertReturns
  <2>6. CASE EraseReturns(t)
    <3>1. key[t] \in Mac BY <2>6, WriterHas
    <3> QED BY <2>6, <3>1, Places DEF EraseReturns
  <2>7. CASE Races(t) BY <1>1, <2>7 DEF Races, lookup
  <2> QED BY <1>7, <2>1, <2>2, <2>3, <2>4, <2>5, <2>6, <2>7 DEF OpStep
<1>9. ASSUME NEW t \in Thread,
             \/ \E id \in NodeId : NewNode(t, id)
             \/ \E m \in Mac : addDeviceNode(t, m) \/ RemoveDeviceNode(t, m)
             \/ getDeviceMap(t) \/ Forget(t) \/ Races(t)
      PROVE  AtElement'
  BY <1>1, <1>9 DEF NewNode, addDeviceNode, RemoveDeviceNode, Enters, getDeviceMap, Forget, Races, lookup
<1> QED BY <1>1, <1>4, <1>5, <1>7, <1>9 DEF Next, vars, lookup

-----------------------------------------------------------------------------
(* An object leaves the map only into removed, which never shrinks: insert  *)
(* does not replace an element.                                             *)
LEMMA WasInMapForGood ==
  ASSUME DevicesInv, [Next]_vars, NEW o \in Object, WasInMap(o)
  PROVE  WasInMap(o)'
<1> USE DEF DevicesInv, TypeOK
<1>1. CASE UNCHANGED <<mDeviceMap, removed>> BY <1>1 DEF WasInMap
<1>3. ASSUME NEW t \in Thread, InsertReturns(t) PROVE WasInMap(o)'
  <2>1. shared[t] \in Object /\ key[t] \in Mac BY <1>3, WriterHas
  <2> QED BY <1>3, <2>1, InsertKeeps, DevicesAssumption DEF InsertReturns, WasInMap
<1>4. ASSUME NEW t \in Thread, EraseReturns(t) PROVE WasInMap(o)'
  <2>1. /\ mDeviceMap' = [mDeviceMap EXCEPT ![key[t]] = None]
        /\ removed' = removed \cup ({mDeviceMap[key[t]]} \ {None})
    BY <1>4 DEF EraseReturns
  <2>2. key[t] \in Mac /\ o # None BY <1>4, WriterHas, DevicesAssumption
  <2> QED BY <2>1, <2>2 DEF WasInMap
<1>5. \/ UNCHANGED <<mDeviceMap, removed>>
      \/ \E t \in Thread : InsertReturns(t) \/ EraseReturns(t)
  BY DEF Next, vars, NewNode, WalkBegins, addDeviceNode, RemoveDeviceNode, Enters,
         FindByDidBegins, getDeviceMap, OpStep, findDeviceByDidEx, FindByDidHolds,
         findDeviceByDid, findDeviceByNodeId, Races, Forget
<1> QED BY <1>1, <1>3, <1>4, <1>5

(* A step leaves what a thread u holds alone, and takes it into no lookup,  *)
(* or is a step of u that leaves the map alone and takes what it returns    *)
(* from the map.                                                            *)
LEMMA WhatItHolds ==
  ASSUME DevicesInv, [Next]_vars, NEW u \in Thread
  PROVE  \/ /\ op'[u] \in {op[u], "none", "addDeviceNode", "RemoveDeviceNode"}
            /\ shared'[u] = shared[u] /\ raw'[u] = raw[u]
         \/ /\ UNCHANGED <<mDeviceMap, removed>>
            /\ op'[u] \notin {"none", "get"} => shared'[u] = None
            /\ op'[u] = "get" /\ shared'[u] # None => WasInMap(shared'[u])
            /\ raw'[u] # None => WasInMap(raw'[u])
<1> USE DEF DevicesInv, TypeOK
<1> DEFINE Same == /\ op'[u] \in {op[u], "none", "addDeviceNode", "RemoveDeviceNode"}
                   /\ shared'[u] = shared[u] /\ raw'[u] = raw[u]
           Goal == \/ Same
                   \/ /\ UNCHANGED <<mDeviceMap, removed>>
                      /\ op'[u] \notin {"none", "get"} => shared'[u] = None
                      /\ op'[u] = "get" /\ shared'[u] # None => WasInMap(shared'[u])
                      /\ raw'[u] # None => WasInMap(raw'[u])
<1>1. CASE UNCHANGED vars BY <1>1 DEF vars, lookup
<1>2. ASSUME NEW t \in Thread, NEW id \in NodeId, NewNode(t, id) PROVE Goal
  BY <1>2 DEF NewNode, lookup, Fresh, Idle
<1>3. ASSUME NEW t \in Thread, NEW m \in Mac, addDeviceNode(t, m) \/ RemoveDeviceNode(t, m)
      PROVE  Goal
  BY <1>3 DEF addDeviceNode, RemoveDeviceNode, Enters
<1>4. ASSUME NEW t \in Thread, NEW m \in Mac, FindByDidBegins(t, m) PROVE Goal
  BY <1>4 DEF FindByDidBegins, Fresh, Idle
<1>5. ASSUME NEW t \in Thread, NEW id \in NodeId, WalkBegins(t, id) PROVE Goal
  BY <1>5 DEF WalkBegins, Fresh, Idle
<1>7. ASSUME NEW t \in Thread, OpStep(t) PROVE Goal
  <2>0. it[t] = Erased \/ it[t] = End \/ it[t] \in Mac BY Places
  <2>1. CASE findDeviceByDidEx(t)
    BY <2>1 DEF findDeviceByDidEx, Returns, RawIsOfMap
  <2>2. CASE FindByDidHolds(t)
    BY <2>0, <2>2 DEF FindByDidHolds, Readable, RawIsOfMap, WasInMap
  <2>3. CASE findDeviceByDid(t)
    BY <2>3 DEF findDeviceByDid, Returns, GetIsOfMap
  <2>4. CASE findDeviceByNodeId(t)
    BY <2>0, <2>4 DEF findDeviceByNodeId, Readable, Returns, WasInMap
  <2>5. CASE InsertReturns(t) \/ EraseReturns(t) BY <2>5 DEF InsertReturns, EraseReturns
  <2>7. CASE Races(t) BY <2>7 DEF Races, lookup
  <2> QED BY <1>7, <2>1, <2>2, <2>3, <2>4, <2>5, <2>7 DEF OpStep
<1>8. ASSUME NEW t \in Thread, Forget(t) \/ Races(t) \/ getDeviceMap(t) PROVE Goal
  BY <1>8 DEF Forget, Races, getDeviceMap, Fresh, Idle, lookup
<1> QED BY <1>1, <1>2, <1>3, <1>4, <1>5, <1>7, <1>8 DEF Next

(* So what a thread holds in a lookup, and the Node* it gets, stay as the   *)
(* invariant says.                                                          *)
LEMMA HoldsStep ==
  ASSUME DevicesInv, [Next]_vars
  PROVE  LookupIsFresh' /\ GetIsOfMap' /\ RawIsOfMap'
<1> USE DEF DevicesInv
<1> SUFFICES ASSUME NEW u \in Thread
             PROVE  /\ op'[u] \in {"findDeviceByDidEx", "findDeviceByDid", "findDeviceByNodeId"}
                         => shared'[u] = None
                    /\ op'[u] = "get" /\ shared'[u] # None => WasInMap(shared[u])'
                    /\ raw'[u] # None => WasInMap(raw[u])'
  BY DEF LookupIsFresh, GetIsOfMap, RawIsOfMap
<1>1. CASE /\ op'[u] \in {op[u], "none", "addDeviceNode", "RemoveDeviceNode"}
           /\ shared'[u] = shared[u] /\ raw'[u] = raw[u]
  <2>1. \A o \in Object : WasInMap(o) => WasInMap(o)' BY WasInMapForGood
  <2>2. shared[u] \in Object \cup {None} /\ raw[u] \in Object \cup {None} BY DEF TypeOK
  <2> QED BY <1>1, <2>1, <2>2 DEF LookupIsFresh, GetIsOfMap, RawIsOfMap, WasInMap
<1>2. CASE /\ UNCHANGED <<mDeviceMap, removed>>
           /\ op'[u] \notin {"none", "get"} => shared'[u] = None
           /\ op'[u] = "get" /\ shared'[u] # None => WasInMap(shared'[u])
           /\ raw'[u] # None => WasInMap(raw'[u])
  BY <1>2 DEF WasInMap
<1> QED BY <1>1, <1>2, WhatItHolds

(* A writer keeps its MAC and its node until it returns. *)
LEMMA WritesStep ==
  ASSUME DevicesInv, [Next]_vars
  PROVE  WritesNode'
<1> USE DEF DevicesInv, TypeOK, WritesNode
<1>1. CASE UNCHANGED <<op, key, shared>> BY <1>1
<1>2. ASSUME NEW t \in Thread, NEW id \in NodeId, NewNode(t, id) PROVE WritesNode'
  BY <1>2, DevicesAssumption DEF NewNode, lookup, Fresh, Idle
<1>3. ASSUME NEW t \in Thread, NEW m \in Mac, addDeviceNode(t, m) \/ RemoveDeviceNode(t, m)
      PROVE  WritesNode'
  BY <1>3 DEF addDeviceNode, RemoveDeviceNode, Enters
<1>4. ASSUME NEW t \in Thread, NEW m \in Mac, FindByDidBegins(t, m) PROVE WritesNode'
  BY <1>4 DEF FindByDidBegins, Fresh, Idle
<1>5. ASSUME NEW t \in Thread, NEW id \in NodeId, WalkBegins(t, id) PROVE WritesNode'
  BY <1>5 DEF WalkBegins, Fresh, Idle
<1>7. ASSUME NEW t \in Thread, OpStep(t) PROVE WritesNode'
  <2>1. CASE findDeviceByDidEx(t) BY <2>1 DEF findDeviceByDidEx, Returns
  <2>2. CASE FindByDidHolds(t) BY <2>2 DEF FindByDidHolds
  <2>3. CASE findDeviceByDid(t) BY <2>3 DEF findDeviceByDid, Returns
  <2>4. CASE findDeviceByNodeId(t) BY <2>4 DEF findDeviceByNodeId, Returns
  <2>5. CASE InsertReturns(t) \/ EraseReturns(t) BY <2>5 DEF InsertReturns, EraseReturns
  <2>7. CASE Races(t) BY <1>1, <2>7 DEF Races, lookup
  <2> QED BY <1>7, <2>1, <2>2, <2>3, <2>4, <2>5, <2>7 DEF OpStep
<1>8. ASSUME NEW t \in Thread, Forget(t) PROVE WritesNode'
  BY <1>8 DEF Forget, Idle, lookup
<1>9. ASSUME NEW t \in Thread, Races(t) \/ getDeviceMap(t) PROVE WritesNode'
  BY <1>1, <1>9 DEF Races, getDeviceMap, lookup
<1> QED BY <1>1, <1>2, <1>3, <1>4, <1>5, <1>7, <1>8, <1>9 DEF Next, vars, lookup

-----------------------------------------------------------------------------
(* The inductive invariant holds in every state of the registry. *)
THEOREM Invariance == Spec => []DevicesInv
<1>1. ASSUME Init PROVE DevicesInv
  <2>1. TypeOK BY <1>1, Places DEF Init, TypeOK
  <2>2. LiveIsHeld BY <1>1, DevicesAssumption DEF Init, LiveIsHeld, Held
  <2>3. AtElement BY <1>1, Places DEF Init, AtElement
  <2>4. LookupIsFresh /\ GetIsOfMap /\ RawIsOfMap /\ WritesNode
    BY <1>1 DEF Init, LookupIsFresh, GetIsOfMap, RawIsOfMap, WritesNode
  <2> QED BY <2>1, <2>2, <2>3, <2>4 DEF DevicesInv
<1>2. DevicesInv /\ [Next]_vars => DevicesInv'
  BY TypeStep, LiveStep, AtElementStep, HoldsStep, WritesStep DEF DevicesInv
<1> QED BY <1>1, <1>2, PTL DEF Spec

(* Exactly the nodes that a shared_ptr refers to are alive, and a Node* from *)
(* findDeviceByDid or findDeviceByNodeId is good until RemoveDeviceNode      *)
(* takes its node out of the map, however many threads add and remove, as    *)
(* long as no lookup has run into one of them in the middle of its change.   *)
THEOREM RawIsGoodUntilRemoved == Spec => []RawGoodUntilRemoved
<1>1. DevicesInv => RawGoodUntilRemoved
  BY DEF DevicesInv, TypeOK, LiveIsHeld, Held, RawIsOfMap, WasInMap, RawGoodUntilRemoved
<1> QED BY <1>1, Invariance, PTL

(* The iterators of the lookups, which do not take mDevMapMutex, are at an  *)
(* element of the map, at its end, or at an element that was erased, as     *)
(* long as no lookup has run into a writer in the middle of its change.     *)
THEOREM IteratorStaysAtElement == Spec => []IteratorAtElement
<1>1. DevicesInv => IteratorAtElement
  BY DEF DevicesInv, AtElement, IteratorAtElement
<1> QED BY <1>1, Invariance, PTL

==============================================================================
