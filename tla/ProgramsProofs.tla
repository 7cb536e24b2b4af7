---------------------------- MODULE ProgramsProofs ----------------------------
(***************************************************************************)
(* The stand-alone programs, for any number of chunks, datagrams,          *)
(* descriptors, nested variants, started chains, clients, faults and       *)
(* events.  Each has an inductive invariant of its own.                    *)
(***************************************************************************)
EXTENDS MCPrograms, FiniteSetTheorems, SequenceTheorems, TLAPS

-----------------------------------------------------------------------------
(* The TCP client. *)

Pending == {"connecting", "failed"} \cup Established

ClientInv ==
  /\ blocking \in BOOLEAN
  /\ cpc \in {"socket", "flags", "connect", "connecting", "selecting", "loop", "returned", "exited"}
  /\ fd \in {"none", "open", "closed"}
  /\ tcp \in {"none"} \cup Pending
  /\ unread \in Nat /\ sent \in Nat /\ got \in Nat
  /\ got + unread = sent
  /\ tcp \notin Established => sent = 0
  /\ cpc \in {"socket", "flags", "connect"} => tcp = "none"
  /\ cpc = "socket" => fd = "none"
  /\ cpc = "flags" => ~blocking
  /\ cpc = "connecting" => blocking /\ tcp \in Pending
  /\ cpc = "selecting" => ~blocking /\ tcp \in Pending
  /\ cpc = "loop" => tcp \in Established
  /\ blocking /\ fd = "closed" => tcp = "fin" /\ unread = 0
  /\ cpc = "returned" /\ fd = "open" /\ ~blocking /\ tcp # "none" =>
       (sent > 0 /\ tcp = "up") \/ tcp \in {"fin", "rst"}

LEMMA ClientInitInv == ClientInit => ClientInv
BY DEF ClientInit, ClientInv, Pending, Established

\* While nothing is connected nothing was sent, so that data or an end tell
\* that a connection was there.
LEMMA ClientStep ==
  ASSUME ClientInv, [ClientNext]_clientVars
  PROVE  ClientInv'
<1> USE DEF ClientInv, Pending, Established
<1>1. CASE UNCHANGED clientVars BY <1>1 DEF clientVars
<1>2. CASE Answer \/ ServerSends \/ ServerEnds
  BY <1>2 DEF Answer, ServerSends, ServerEnds, network
<1>3. CASE Socket \/ SocketFails \/ SetNonblock \/ SetNonblockFails
  BY <1>3 DEF Socket, SocketFails, SetNonblock, SetNonblockFails, Leave, data
<1>4. CASE Connect \/ ConnectAtOnce \/ ConnectFailsAtOnce
  BY <1>4 DEF Connect, ConnectAtOnce, ConnectFailsAtOnce, Leave, data
<1>5. CASE BlockingConnected \/ BlockingRefused
  BY <1>5 DEF BlockingConnected, BlockingRefused, Leave, data
<1>6. CASE SelectFails \/ SelectTimesOut \/ SelectConnected \/ SelectError
  BY <1>6 DEF SelectFails, SelectTimesOut, SelectConnected, SelectError, Leave, data, Writable, Readable
<1>7. CASE SelectAbandons
  BY <1>7 DEF SelectAbandons, Leave, data, Writable, Readable, SoError
<1>8. CASE Receive \/ ReceiveEnd \/ ReceiveReset \/ LoopSelectFails
  BY <1>8 DEF Receive, ReceiveEnd, ReceiveReset, LoopSelectFails, HasData, Leave, data
<1> QED BY <1>1, <1>2, <1>3, <1>4, <1>5, <1>6, <1>7, <1>8 DEF ClientNext, ClientProgram

-----------------------------------------------------------------------------
(* The UDP echo server. *)

Taken == Len(arrived) - Len(datagrams)

Served(n) == {i \in Carrying(n) : Cardinality(Carrying(i)) <= MaxSockets}

EchoInv ==
  /\ arrived \in Seq([no : Nat, size : Sizes])
  /\ datagrams \in Seq([no : Nat, size : Sizes])
  /\ \A i \in 1..Len(arrived) : arrived[i].no = i
  /\ Taken \in Nat
  /\ \A j \in 1..Len(datagrams) : datagrams[j] = arrived[Taken + j]
  /\ sockets = IF Cardinality(Carrying(Taken)) < MaxSockets THEN Cardinality(Carrying(Taken)) ELSE MaxSockets
  /\ sockets = Cardinality(Served(Taken))
  /\ echoed \in Seq([no : Nat, size : Sizes])
  /\ \A k \in 1..Len(echoed) :
       /\ \E i \in Served(Taken) : echoed[k] = Truncated(arrived[i])
       /\ \A l \in 1..(k - 1) : echoed[l].no < echoed[k].no
  /\ refused \subseteq 1..Taken
  /\ UdpCallsFail \/ (refused = {} /\ Len(echoed) = sockets)

\* The sets that are counted are finite.
LEMMA CarryingFinite ==
  ASSUME NEW n \in Nat
  PROVE  /\ IsFiniteSet(Carrying(n)) /\ Cardinality(Carrying(n)) \in Nat
         /\ IsFiniteSet(Served(n)) /\ Cardinality(Served(n)) \in Nat
<1>1. IsFiniteSet(1..n) BY FS_Interval
<1>2. Carrying(n) \subseteq 1..n /\ Served(n) \subseteq 1..n BY DEF Carrying, Served
<1>3. IsFiniteSet(Carrying(n)) /\ IsFiniteSet(Served(n)) BY <1>1, <1>2, FS_Subset
<1> QED BY <1>3, FS_CardinalityType

\* One datagram more.
LEMMA CarryingGrows ==
  ASSUME NEW n \in Nat
  PROVE  /\ Carrying(n + 1) = IF arrived[n + 1].size # "empty" /\ n + 1 \notin refused THEN Carrying(n) \cup {n + 1} ELSE Carrying(n)
         /\ n + 1 \notin Carrying(n)
BY DEF Carrying

LEMMA EchoInitInv == EchoInit => EchoInv
<1> SUFFICES ASSUME EchoInit PROVE EchoInv OBVIOUS
<1>1. arrived = << >> /\ datagrams = << >> /\ echoed = << >> /\ sockets = 0 /\ refused = {}
  BY DEF EchoInit
<1>2. Taken = 0 BY <1>1 DEF Taken
<1>3. Carrying(0) = {} /\ Served(0) = {} BY DEF Carrying, Served
<1>4. Cardinality({}) = 0 BY FS_EmptySet
<1>5. Taken \in Nat BY <1>2
<1>6. sockets = Cardinality(Served(Taken)) /\ sockets = Cardinality(Carrying(Taken))
  BY <1>1, <1>2, <1>3, <1>4
<1>7. /\ arrived \in Seq([no : Nat, size : Sizes]) /\ datagrams \in Seq([no : Nat, size : Sizes])
      /\ echoed \in Seq([no : Nat, size : Sizes])
  BY <1>1
<1>8. Len(arrived) = 0 /\ Len(datagrams) = 0 /\ Len(echoed) = 0 BY <1>1
<1>9. sockets = IF Cardinality(Carrying(Taken)) < MaxSockets THEN Cardinality(Carrying(Taken)) ELSE MaxSockets
  BY <1>1, <1>6, EchoAssumption
<1> QED BY <1>1, <1>5, <1>6, <1>7, <1>8, <1>9 DEF EchoInv

\* What has been taken does not change when more arrives.
LEMMA EchoArrives ==
  ASSUME EchoInv, Arrive
  PROVE  EchoInv'
<1>1. PICK size \in Sizes :
        LET d == [no |-> Len(arrived) + 1, size |-> size] IN
        /\ datagrams' = Append(datagrams, d) /\ arrived' = Append(arrived, d)
  BY DEF Arrive
<1>2. UNCHANGED <<sockets, refused, echoed>> BY DEF Arrive
<1>3. PICK d \in [no : Nat, size : Sizes] :
        /\ d.no = Len(arrived) + 1
        /\ datagrams' = Append(datagrams, d) /\ arrived' = Append(arrived, d)
  <2>1. Len(arrived) + 1 \in Nat BY DEF EchoInv
  <2> DEFINE d == [no |-> Len(arrived) + 1, size |-> size]
  <2>2. d \in [no : Nat, size : Sizes] /\ d.no = Len(arrived) + 1 BY <2>1
  <2> QED BY <1>1, <2>2
<1>4. /\ arrived' \in Seq([no : Nat, size : Sizes]) /\ datagrams' \in Seq([no : Nat, size : Sizes])
      /\ Len(arrived') = Len(arrived) + 1 /\ Len(datagrams') = Len(datagrams) + 1
      /\ \A i \in 1..Len(arrived) : arrived'[i] = arrived[i]
      /\ \A i \in 1..Len(datagrams) : datagrams'[i] = datagrams[i]
      /\ arrived'[Len(arrived) + 1] = d /\ datagrams'[Len(datagrams) + 1] = d
  BY <1>3 DEF EchoInv
<1>5. Taken' = Taken /\ Taken \in 0..Len(arrived) BY <1>4 DEF Taken, EchoInv
<1>6. \A n \in 0..Len(arrived) : Carrying(n)' = Carrying(n)
  <2> SUFFICES ASSUME NEW n \in 0..Len(arrived) PROVE Carrying(n)' = Carrying(n) OBVIOUS
  <2>1. \A i \in 1..n : arrived'[i] = arrived[i] BY <1>4 DEF EchoInv
  <2> QED BY <1>2, <2>1 DEF Carrying
<1>7. Carrying(Taken)' = Carrying(Taken) BY <1>5, <1>6
<1>8. Served(Taken)' = Served(Taken)
  <2>1. \A i \in Carrying(Taken) : i \in 0..Len(arrived) BY <1>5 DEF Carrying, EchoInv
  <2>2. \A i \in Carrying(Taken) : Cardinality(Carrying(i))' = Cardinality(Carrying(i))
    BY <1>6, <2>1
  <2> QED BY <1>7, <2>2 DEF Served
<1>9. \A i \in Served(Taken) : arrived'[i] = arrived[i]
  BY <1>4, <1>5 DEF Served, Carrying, EchoInv
<1>10. \A i \in 1..Len(arrived') : arrived'[i].no = i
  <2>1. Len(arrived) \in Nat /\ \A i \in 1..Len(arrived) : arrived[i].no = i BY DEF EchoInv
  <2> QED BY <1>3, <1>4, <2>1
<1>11. \A j \in 1..Len(datagrams') : datagrams'[j] = arrived'[Taken + j]
  <2> SUFFICES ASSUME NEW j \in 1..Len(datagrams') PROVE datagrams'[j] = arrived'[Taken + j] OBVIOUS
  <2>1. CASE j \in 1..Len(datagrams)
    <3>1. Taken + j \in 1..Len(arrived) BY <2>1 DEF Taken, EchoInv
    <3> QED BY <1>4, <2>1, <3>1 DEF EchoInv
  <2>2. CASE j = Len(datagrams) + 1
    <3>1. Taken + j = Len(arrived) + 1 BY <2>2 DEF Taken, EchoInv
    <3> QED BY <1>4, <2>2, <3>1
  <2> QED BY <1>4, <2>1, <2>2 DEF EchoInv
<1>12. \A k \in 1..Len(echoed) : \E i \in Served(Taken) : echoed[k] = Truncated(arrived[i])'
  <2>1. \A i \in Served(Taken) : Truncated(arrived[i])' = Truncated(arrived[i]) BY <1>9 DEF Truncated
  <2> QED BY <2>1 DEF EchoInv
<1> QED BY <1>2, <1>4, <1>5, <1>7, <1>8, <1>10, <1>11, <1>12 DEF EchoInv

\* As long as there is a descriptor for every datagram that carried
\* something, the next one is served too; from then on none is.
LEMMA ServedGrows ==
  ASSUME EchoInv, arrived[Taken + 1].size # "empty", Taken + 1 \notin refused
  PROVE  /\ Cardinality(Carrying(Taken + 1)) = Cardinality(Carrying(Taken)) + 1
         /\ sockets < MaxSockets =>
              /\ Served(Taken + 1) = Served(Taken) \cup {Taken + 1}
              /\ Cardinality(Served(Taken + 1)) = Cardinality(Served(Taken)) + 1
         /\ ~(sockets < MaxSockets) => Served(Taken + 1) = Served(Taken)
<1>1. PICK t \in Nat : t = Taken BY DEF EchoInv
<1>2. Carrying(t + 1) = Carrying(t) \cup {t + 1} /\ t + 1 \notin Carrying(t)
  BY <1>1, CarryingGrows
<1>3. IsFiniteSet(Carrying(t)) /\ Cardinality(Carrying(t)) \in Nat
      /\ IsFiniteSet(Served(t)) /\ Cardinality(Served(t)) \in Nat
  BY CarryingFinite
<1>4. Cardinality(Carrying(t + 1)) = Cardinality(Carrying(t)) + 1
  BY <1>2, <1>3, FS_AddElement
<1>5. sockets = IF Cardinality(Carrying(t)) < MaxSockets THEN Cardinality(Carrying(t)) ELSE MaxSockets
  BY <1>1 DEF EchoInv
<1>6. CASE sockets < MaxSockets
  <2>1. Cardinality(Carrying(t + 1)) <= MaxSockets BY <1>3, <1>4, <1>5, <1>6, EchoAssumption
  <2>2. Served(t + 1) = Served(t) \cup {t + 1} BY <1>2, <2>1 DEF Served
  <2>3. t + 1 \notin Served(t) BY <1>2 DEF Served
  <2>4. Cardinality(Served(t + 1)) = Cardinality(Served(t)) + 1
    BY <1>3, <2>2, <2>3, FS_AddElement
  <2> QED BY <1>1, <1>4, <1>6, <2>2, <2>4
<1>7. CASE ~(sockets < MaxSockets)
  <2>1. ~(Cardinality(Carrying(t + 1)) <= MaxSockets) BY <1>3, <1>4, <1>5, <1>7, EchoAssumption
  <2>2. Served(t + 1) = Served(t) BY <1>2, <2>1 DEF Served
  <2> QED BY <1>1, <1>4, <1>7, <2>2
<1> QED BY <1>6, <1>7

\* Cutting a datagram keeps which one it is.
LEMMA TruncatedIs ==
  ASSUME NEW d \in [no : Nat, size : Sizes]
  PROVE  Truncated(d) \in [no : Nat, size : Sizes] /\ Truncated(d).no = d.no
BY DEF Truncated, Sizes

\* One round of the loop: a datagram that carries something is served if
\* there is a descriptor left for it.
LEMMA EchoReceives ==
  ASSUME EchoInv, EchoReceive, UNCHANGED refused
  PROVE  EchoInv'
<1>1. datagrams # << >> /\ datagrams' = Tail(datagrams) /\ UNCHANGED arrived BY DEF EchoReceive
<1>2. /\ datagrams' \in Seq([no : Nat, size : Sizes])
      /\ Len(datagrams') = Len(datagrams) - 1 /\ Len(datagrams) \in Nat \ {0}
      /\ \A j \in 1..Len(datagrams') : datagrams'[j] = datagrams[j + 1] /\ j + 1 \in 1..Len(datagrams)
      /\ Head(datagrams) = datagrams[1] /\ 1 \in 1..Len(datagrams)
  BY <1>1 DEF EchoInv
<1>3. PICK t \in Nat : t = Taken BY DEF EchoInv
<1>4. Taken' = t + 1 /\ t + 1 \in 1..Len(arrived) BY <1>1, <1>2, <1>3 DEF Taken, EchoInv
<1>5. Head(datagrams) = arrived[t + 1] BY <1>2, <1>3 DEF EchoInv
<1>6. \A j \in 1..Len(datagrams') : datagrams'[j] = arrived[(t + 1) + j]
  BY <1>2, <1>3 DEF EchoInv
<1>7. \A n : Carrying(n)' = Carrying(n) /\ Served(n)' = Served(n)
  BY <1>1 DEF Carrying, Served
<1>8. IsFiniteSet(Carrying(t)) /\ Cardinality(Carrying(t)) \in Nat
      /\ IsFiniteSet(Served(t)) /\ Cardinality(Served(t)) \in Nat
  BY CarryingFinite
<1>14. refused' = refused /\ refused \subseteq 1..(t + 1) /\ (UdpCallsFail \/ refused = {})
  BY <1>3 DEF EchoInv
<1>9. SUFFICES
        /\ sockets' = IF Cardinality(Carrying(t + 1)) < MaxSockets THEN Cardinality(Carrying(t + 1)) ELSE MaxSockets
        /\ sockets' = Cardinality(Served(t + 1))
        /\ echoed' \in Seq([no : Nat, size : Sizes])
        /\ \A k \in 1..Len(echoed') :
             /\ \E i \in Served(t + 1) : echoed'[k] = Truncated(arrived[i])
             /\ \A l \in 1..(k - 1) : echoed'[l].no < echoed'[k].no
        /\ UdpCallsFail \/ Len(echoed') = sockets'
  <2>1. \A i : Truncated(arrived[i])' = Truncated(arrived[i]) BY <1>1 DEF Truncated
  <2> QED BY <1>1, <1>2, <1>4, <1>6, <1>7, <1>14, <2>1, SMTT(60) DEF EchoInv
<1>13. t + 1 \notin refused BY <1>3 DEF EchoInv
<1>10. CASE arrived[t + 1].size = "empty"
  <2>1. UNCHANGED <<sockets, echoed>> BY <1>5, <1>10 DEF EchoReceive
  <2>2. Carrying(t + 1) = Carrying(t) BY <1>10, CarryingGrows
  <2>3. Served(t + 1) = Served(t) BY <2>2 DEF Served
  <2> QED BY <1>3, <2>1, <2>2, <2>3 DEF EchoInv
<1>11. CASE arrived[t + 1].size # "empty" /\ ~CanOpen
  <2>1. UNCHANGED <<sockets, echoed>> BY <1>5, <1>11 DEF EchoReceive, sendData
  <2>2. /\ Cardinality(Carrying(t + 1)) = Cardinality(Carrying(t)) + 1
        /\ Served(t + 1) = Served(t)
    BY <1>3, <1>11, <1>13, ServedGrows DEF CanOpen
  <2>3. sockets' = IF Cardinality(Carrying(t + 1)) < MaxSockets THEN Cardinality(Carrying(t + 1)) ELSE MaxSockets
    BY <1>3, <1>8, <1>11, <2>1, <2>2, EchoAssumption DEF EchoInv, CanOpen
  <2> QED BY <1>3, <2>1, <2>2, <2>3 DEF EchoInv
<1>12. CASE arrived[t + 1].size # "empty" /\ CanOpen
  <2>1. PICK d : d = Truncated(arrived[t + 1]) OBVIOUS
  <2>2. /\ sockets' = sockets + 1
        /\ echoed' = Append(echoed, d) \/ (UdpCallsFail /\ UNCHANGED echoed)
    <3>1. sendData(d) BY <1>5, <1>12, <2>1 DEF EchoReceive
    <3>2. d.no = t + 1
      BY <1>4, <2>1, <1>3 DEF Truncated, EchoInv
    <3> QED BY <1>12, <1>13, <3>1, <3>2 DEF sendData
  <2>3. /\ Cardinality(Carrying(t + 1)) = Cardinality(Carrying(t)) + 1
        /\ Served(t + 1) = Served(t) \cup {t + 1}
        /\ Cardinality(Served(t + 1)) = Cardinality(Served(t)) + 1
    BY <1>3, <1>12, <1>13, ServedGrows DEF CanOpen
  <2>4. sockets' = IF Cardinality(Carrying(t + 1)) < MaxSockets THEN Cardinality(Carrying(t + 1)) ELSE MaxSockets
    BY <1>3, <1>8, <1>12, <2>2, <2>3, EchoAssumption DEF EchoInv, CanOpen
  <2>5. sockets' = Cardinality(Served(t + 1)) BY <1>3, <2>2, <2>3 DEF EchoInv
  <2>6. CASE UdpCallsFail /\ UNCHANGED echoed
    BY <1>3, <2>3, <2>4, <2>5, <2>6 DEF EchoInv
  <2>7. CASE echoed' = Append(echoed, d)
    <3>1. d \in [no : Nat, size : Sizes] /\ d.no = t + 1
      <4> DEFINE D == [no : Nat, size : Sizes]
      <4>1. arrived \in Seq(D) /\ arrived[t + 1].no = t + 1 BY <1>4 DEF EchoInv
      <4>2. arrived[t + 1] \in D
        <5> HIDE DEF D
        <5> QED BY <1>4, <4>1
      <4> QED BY <2>1, <4>1, <4>2, TruncatedIs
    <3>2. /\ echoed' \in Seq([no : Nat, size : Sizes]) /\ Len(echoed') = Len(echoed) + 1
          /\ \A k \in 1..Len(echoed) : echoed'[k] = echoed[k]
          /\ echoed'[Len(echoed) + 1] = d /\ Len(echoed) \in Nat
      BY <2>7, <3>1 DEF EchoInv
    <3>3. \A i \in Served(t) : i \in 1..t /\ i \in 1..Len(arrived)
      <4>1. \A i \in Served(t) : i \in 1..t BY DEF Served, Carrying
      <4>2. Len(arrived) \in Nat BY DEF EchoInv
      <4> QED BY <1>4, <4>1, <4>2
    <3>4. \A i \in Served(t) : Truncated(arrived[i]).no = i
      BY <3>3 DEF Truncated, EchoInv
    <3>5. \A k \in 1..Len(echoed) : echoed[k].no \in 1..t
      <4>1. \A k \in 1..Len(echoed) : \E i \in Served(t) : echoed[k] = Truncated(arrived[i])
        BY <1>3 DEF EchoInv
      <4> QED BY <3>3, <3>4, <4>1
    <3>6. \A k \in 1..Len(echoed') : \E i \in Served(t + 1) : echoed'[k] = Truncated(arrived[i])
      <4> SUFFICES ASSUME NEW k \in 1..Len(echoed')
                   PROVE  \E i \in Served(t + 1) : echoed'[k] = Truncated(arrived[i])
        OBVIOUS
      <4>1. CASE k \in 1..Len(echoed) BY <1>3, <2>3, <3>2, <4>1 DEF EchoInv
      <4>2. CASE k = Len(echoed) + 1 BY <2>1, <2>3, <3>2, <4>2
      <4> QED BY <3>2, <4>1, <4>2
    <3>7. \A k \in 1..Len(echoed') : \A l \in 1..(k - 1) : echoed'[l].no < echoed'[k].no
      <4> SUFFICES ASSUME NEW k \in 1..Len(echoed'), NEW l \in 1..(k - 1)
                   PROVE  echoed'[l].no < echoed'[k].no
        OBVIOUS
      <4>1. l \in 1..Len(echoed) /\ echoed'[l] = echoed[l] BY <3>2
      <4>2. CASE k \in 1..Len(echoed) BY <3>2, <4>1, <4>2 DEF EchoInv
      <4>3. CASE k = Len(echoed) + 1 BY <3>1, <3>2, <3>5, <4>1, <4>3
      <4> QED BY <3>2, <4>2, <4>3
    <3>8. UdpCallsFail \/ Len(echoed') = sockets'
      <4>1. UdpCallsFail \/ Len(echoed) = sockets BY DEF EchoInv
      <4> QED BY <2>2, <3>2, <4>1
    <3> QED BY <2>4, <2>5, <3>2, <3>6, <3>7, <3>8
  <2> QED BY <2>2, <2>6, <2>7
<1> QED BY <1>10, <1>11, <1>12

\* socket() refuses the next datagram: it counts no more than an empty one.
LEMMA EchoRefuses ==
  ASSUME EchoInv, EchoReceive, refused' # refused
  PROVE  EchoInv'
<1>1. datagrams # << >> /\ datagrams' = Tail(datagrams) /\ UNCHANGED arrived BY DEF EchoReceive
<1>2. /\ datagrams' \in Seq([no : Nat, size : Sizes])
      /\ Len(datagrams') = Len(datagrams) - 1 /\ Len(datagrams) \in Nat \ {0}
      /\ \A j \in 1..Len(datagrams') : datagrams'[j] = datagrams[j + 1] /\ j + 1 \in 1..Len(datagrams)
      /\ Head(datagrams) = datagrams[1] /\ 1 \in 1..Len(datagrams)
  BY <1>1 DEF EchoInv
<1>3. PICK t \in Nat : t = Taken BY DEF EchoInv
<1>4. Taken' = t + 1 /\ t + 1 \in 1..Len(arrived) BY <1>1, <1>2, <1>3 DEF Taken, EchoInv
<1>5. Head(datagrams) = arrived[t + 1] BY <1>2, <1>3 DEF EchoInv
<1>6. \A j \in 1..Len(datagrams') : datagrams'[j] = arrived[(t + 1) + j]
  BY <1>2, <1>3 DEF EchoInv
<1>7. /\ UdpCallsFail /\ UNCHANGED <<sockets, echoed>>
      /\ refused' = refused \cup {t + 1}
  <2>1. sendData(Truncated(arrived[t + 1])) BY <1>5 DEF EchoReceive
  <2>2. arrived[t + 1].no = t + 1 BY <1>4 DEF EchoInv
  <2>3. Truncated(arrived[t + 1]).no = arrived[t + 1].no BY DEF Truncated
  <2> QED BY <2>1, <2>2, <2>3 DEF sendData
<1>8. \A n \in 0..t : Carrying(n)' = Carrying(n)
  <2> SUFFICES ASSUME NEW n \in 0..t PROVE Carrying(n)' = Carrying(n) OBVIOUS
  <2>1. \A i \in 1..n : i # t + 1 OBVIOUS
  <2> QED BY <1>1, <1>7, <2>1 DEF Carrying
<1>9. Carrying(t + 1)' = Carrying(t)
  <2>1. \A i \in 1..(t + 1) : i = t + 1 \/ (i \in 1..t /\ i # t + 1) OBVIOUS
  <2>2. \A i \in 1..t : i \in 1..(t + 1) /\ i # t + 1 OBVIOUS
  <2> QED BY <1>1, <1>7, <2>1, <2>2 DEF Carrying
<1>10. Served(t + 1)' = Served(t)
  <2>1. \A i \in Carrying(t) : i \in 0..t BY DEF Carrying
  <2>2. \A i \in Carrying(t) : Cardinality(Carrying(i))' = Cardinality(Carrying(i))
    BY <1>8, <2>1
  <2> QED BY <1>9, <2>2 DEF Served
<1>11. Served(Taken)' = Served(t) /\ Carrying(Taken)' = Carrying(t)
  BY <1>4, <1>9, <1>10
<1>12. refused' \subseteq 1..(t + 1) BY <1>3, <1>7 DEF EchoInv
<1>13. /\ sockets' = IF Cardinality(Carrying(t)) < MaxSockets THEN Cardinality(Carrying(t)) ELSE MaxSockets
       /\ sockets' = Cardinality(Served(t))
       /\ echoed' \in Seq([no : Nat, size : Sizes])
       /\ \A k \in 1..Len(echoed') :
            /\ \E i \in Served(t) : echoed'[k] = Truncated(arrived'[i])
            /\ \A l \in 1..(k - 1) : echoed'[l].no < echoed'[k].no
  BY <1>1, <1>3, <1>7 DEF EchoInv
<1>14. \A i : Truncated(arrived[i])' = Truncated(arrived[i]) BY <1>1 DEF Truncated
<1>15. \A k \in 1..Len(echoed') : \E i \in Served(Taken)' : echoed'[k] = Truncated(arrived[i])'
  BY <1>11, <1>13, <1>14, <1>1
<1>16. /\ arrived' \in Seq([no : Nat, size : Sizes])
       /\ \A i \in 1..Len(arrived') : arrived'[i].no = i
  BY <1>1, <1>2 DEF EchoInv
<1>17. \A j \in 1..Len(datagrams') : datagrams'[j] = arrived'[Taken' + j]
  BY <1>1, <1>4, <1>6
<1>18. Taken' \in Nat /\ refused' \subseteq 1..(Taken') BY <1>3, <1>4, <1>12
<1>19. /\ sockets' = IF Cardinality(Carrying(Taken)') < MaxSockets THEN Cardinality(Carrying(Taken)') ELSE MaxSockets
       /\ sockets' = Cardinality(Served(Taken)')
  BY <1>11, <1>13
<1>20. \A k \in 1..Len(echoed') : \A l \in 1..(k - 1) : echoed'[l].no < echoed'[k].no BY <1>13
<1>21. echoed' \in Seq([no : Nat, size : Sizes]) BY <1>13
<1> QED BY <1>2, <1>7, <1>15, <1>16, <1>17, <1>18, <1>19, <1>20, <1>21, Zenon DEF EchoInv

LEMMA EchoStep ==
  ASSUME EchoInv, [EchoNext]_echoVars
  PROVE  EchoInv'
<1>1. ASSUME UNCHANGED <<datagrams, arrived, sockets, refused, echoed>> PROVE EchoInv'
  <2>1. Taken' = Taken BY <1>1 DEF Taken
  <2>2. \A n : Carrying(n)' = Carrying(n) /\ Served(n)' = Served(n)
    BY <1>1 DEF Carrying, Served
  <2> QED BY <1>1, <2>1, <2>2 DEF EchoInv, Truncated
<1> QED BY <1>1, EchoArrives, EchoReceives, EchoRefuses
        DEF EchoNext, EchoServer, EchoSocket, EchoBind, Setup, echoVars

-----------------------------------------------------------------------------
(* The reader of properties over D-Bus. *)

Contents == Props \cup {"uninit", "zero", "null", "garbled"}

\* The outer iterators of the first n queries.
Outer(n) == {<<i, 0>> : i \in 1..n}

\* The iterators of the query main is at, to the n-th level.
Levels(n) == {<<at, k>> : k \in 0..n}

IterInv ==
  /\ dpc = "run" => iters = Outer(at - 1)
  /\ dpc = "print" => iters = Outer(at)
  /\ dpc = "recurse" => depth \in Nat /\ iters = Outer(at - 1) \cup Levels(depth)
  /\ dpc = "unwind" =>
       /\ depth \in Nat \ {0} /\ pIter \in Nat /\ depth <= pIter
       /\ iters = Outer(at - 1) \cup Levels(depth - 1) \cup {<<at, pIter>>}

ReplyInv ==
  /\ bare \subseteq 1..at
  /\ dpc = "run" => bare \subseteq 1..(at - 1)
  /\ dpc \in {"run", "print"} => replies = bare
  /\ dpc \in {"recurse", "unwind"} => replies = bare \cup {at} /\ at \notin bare

MemoryInv ==
  /\ memory \in [Variables -> [Byte -> Contents]]
  /\ \A v \in Variables : \A y \in Byte : \A j \in 1..6 :
       memory[v][y] = Queries[j].prop => j < at \/ (j = at /\ dpc \in {"print", "abort"})
  /\ dpc = "print" /\ Good(Queries[at]) => memory[Queries[at].var] = Whole(Queries[at].prop)
  /\ dpc = "print" /\ Short(Queries[at]) =>
       \A y \in Byte : memory[Queries[at].var][y] = Queries[at].prop <=> y <= reply.len

DbusInv ==
  /\ at \in 0..7
  /\ dpc \in {"run", "recurse", "unwind", "print", "exit", "abort"}
  /\ dpc = "run" => at < 7
  /\ dpc \in {"recurse", "unwind", "print"} => at \in 1..6
  /\ reply \in Reply
  /\ IterInv /\ ReplyInv /\ MemoryInv /\ AnsweredIsPrinted

\* What main's six calls have in common.
LEMMA QueriesAre ==
  /\ DOMAIN Queries = 1..6 /\ Len(Queries) = 6
  /\ \A i \in 1..6 :
       /\ Queries[i].var \in Variables
       /\ Queries[i].prop \in Props
       /\ Queries[i].type \in {"q", "t", "s", "ay"}
       /\ Queries[i].overload = "uint16_t" => Queries[i].type = "q"
       /\ Queries[i].prop \notin {"uninit", "zero", "null", "garbled"}
       /\ \A j \in 1..6 : Queries[i].prop = Queries[j].prop => i = j
<1>1. DOMAIN Queries = 1..6 /\ Len(Queries) = 6 BY DEF Queries
<1>2. \A i \in 1..6 : Queries[i].var \in Variables /\ Queries[i].prop \in Props
  BY <1>1 DEF Variables, Props
<1>3. \A i \in 1..6 : /\ Queries[i].type \in {"q", "t", "s", "ay"}
                      /\ Queries[i].overload = "uint16_t" => Queries[i].type = "q"
  BY DEF Queries, Query
<1>4. \A i \in 1..6 : /\ Queries[i].prop \notin {"uninit", "zero", "null", "garbled"}
                      /\ \A j \in 1..6 : Queries[i].prop = Queries[j].prop => i = j
  BY SMTT(30) DEF Queries, Query
<1> QED BY <1>1, <1>2, <1>3, <1>4

\* Before the first query there is nothing of the router in memory.
LEMMA DbusInitInv == DbusInit => DbusInv
<1> SUFFICES ASSUME DbusInit PROVE DbusInv OBVIOUS
<1>1. at = 0 /\ dpc = "run" /\ bare = {} /\ iters = {} /\ replies = {} BY DEF DbusInit
<1>2. reply \in Reply BY DEF DbusInit, Reply
<1>3. IterInv BY <1>1 DEF IterInv, Outer
<1>4. ReplyInv BY <1>1 DEF ReplyInv
<1>5. \A v \in Variables : memory[v] \in [Byte -> Contents]
        /\ \A y \in Byte : memory[v][y] \in {"uninit", "zero", "null"}
  BY DEF DbusInit, Whole, Contents
<1>6. memory \in [Variables -> [Byte -> Contents]] BY <1>5 DEF DbusInit
<1>7. MemoryInv BY <1>1, <1>5, <1>6, QueriesAre DEF MemoryInv
<1> QED BY <1>1, <1>2, <1>3, <1>4, <1>7 DEF DbusInv, AnsweredIsPrinted

\* The query's own iterator, and its reply, are allocated first.
LEMMA DbusQueries ==
  ASSUME DbusInv, query
  PROVE  DbusInv'
<1>1. /\ dpc = "run" /\ at \in 1..6 /\ reply' \in Reply /\ depth' = 0
      /\ iters' = iters \cup {<<at, 0>>} /\ replies' = replies \cup {at}
      /\ UNCHANGED <<at, memory, printed, pIter>>
      /\ \/ reply'.top = "none" /\ dpc' = "print" /\ bare' = bare \cup {at}
         \/ dpc' = "recurse" /\ UNCHANGED bare
  BY QueriesAre DEF query
<1>2. Outer(at) = Outer(at - 1) \cup {<<at, 0>>}
  <2>1. \A i : i \in 1..at <=> i \in 1..(at - 1) \/ i = at BY <1>1
  <2> QED BY <2>1 DEF Outer
<1>3. Levels(0) = {<<at, 0>>} BY DEF Levels
<1>4. Outer(at - 1)' = Outer(at - 1) /\ Outer(at)' = Outer(at) /\ Levels(0)' = Levels(0)
  BY <1>1 DEF Outer, Levels
<1>5. IterInv' BY <1>1, <1>2, <1>3, <1>4 DEF IterInv, DbusInv
<1>6. ReplyInv'
  <2>1. bare \subseteq 1..(at - 1) /\ replies = bare BY <1>1 DEF DbusInv, ReplyInv
  <2>2. \A i \in 1..(at - 1) : i \in 1..at /\ i # at BY <1>1
  <2>3. bare \cup {at} \subseteq 1..at /\ at \notin bare /\ at \in 1..at BY <1>1, <2>1, <2>2
  <2>4. bare' \subseteq 1..at BY <1>1, <2>3
  <2> QED BY <1>1, <2>1, <2>3, <2>4 DEF ReplyInv
<1>7. MemoryInv' BY <1>1 DEF DbusInv, MemoryInv, Good, Short
<1> QED BY <1>1, <1>5, <1>6, <1>7 DEF DbusInv, AnsweredIsPrinted

\* One level further down.
LEMMA DbusRecurses ==
  ASSUME DbusInv, Recurse
  PROVE  DbusInv'
<1>1. /\ dpc = "recurse" /\ at \in 1..6 /\ depth \in Nat /\ depth' = depth + 1
      /\ iters = Outer(at - 1) \cup Levels(depth)
      /\ iters' = iters \cup {<<at, depth + 1>>}
      /\ UNCHANGED <<at, memory, reply, bare, printed, replies>>
      /\ \/ dpc' = "recurse" \/ (dpc' = "unwind" /\ pIter' = depth + 1)
  BY DEF Recurse, DbusInv, IterInv
<1>2. Levels(depth + 1) = Levels(depth) \cup {<<at, depth + 1>>}
  <2>1. \A k : k \in 0..(depth + 1) <=> k \in 0..depth \/ k = depth + 1 BY <1>1
  <2> QED BY <2>1 DEF Levels
<1>3. Outer(at - 1)' = Outer(at - 1)
      /\ Levels(depth)' = Levels(depth + 1) /\ Levels(depth - 1)' = Levels(depth)
  <2>1. depth' = depth + 1 /\ depth' - 1 = depth /\ at' = at BY <1>1
  <2> QED BY <2>1 DEF Outer, Levels
<1>4. depth' \in Nat \ {0} BY <1>1
<1>5. IterInv' BY <1>1, <1>2, <1>3, <1>4 DEF IterInv
<1>6. ReplyInv' BY <1>1 DEF DbusInv, ReplyInv
<1>7. MemoryInv' BY <1>1 DEF DbusInv, MemoryInv, Good, Short
<1> QED BY <1>1, <1>5, <1>6, <1>7 DEF DbusInv, AnsweredIsPrinted

\* One level up: the iterator that is passed on is a deeper one.
LEMMA DbusUnwinds ==
  ASSUME DbusInv, Unwind
  PROVE  DbusInv'
<1>1. /\ dpc = "unwind" /\ at \in 1..6 /\ depth \in Nat /\ depth > 1 /\ depth' = depth - 1
      /\ pIter \in Nat /\ depth <= pIter
      /\ iters = Outer(at - 1) \cup Levels(depth - 1) \cup {<<at, pIter>>}
      /\ iters' = iters \ {<<at, depth - 1>>}
      /\ UNCHANGED <<at, dpc, memory, reply, bare, printed, pIter, replies>>
  BY DEF Unwind, FreedBy, DbusInv, IterInv
<1>2. \A x \in Outer(at - 1) : x # <<at, depth - 1>>
  <2>1. \A i \in 1..(at - 1) : i # at BY <1>1
  <2> QED BY <2>1 DEF Outer
<1>3. Levels(depth - 2) = Levels(depth - 1) \ {<<at, depth - 1>>}
  <2>1. \A k : k \in 0..(depth - 2) <=> k \in 0..(depth - 1) /\ k # depth - 1 BY <1>1
  <2> QED BY <2>1 DEF Levels
<1>4. iters' = Outer(at - 1) \cup Levels(depth - 2) \cup {<<at, pIter>>}
  <2>1. pIter # depth - 1 BY <1>1
  <2>2. <<at, pIter>> # <<at, depth - 1>> BY <2>1
  <2> QED BY <1>1, <1>2, <1>3, <2>2
<1>5. Outer(at - 1)' = Outer(at - 1) /\ Levels(depth - 1)' = Levels(depth - 2)
  <2>1. depth' - 1 = depth - 2 /\ at' = at BY <1>1
  <2> QED BY <2>1 DEF Outer, Levels
<1>6. depth' \in Nat \ {0} /\ depth' <= pIter BY <1>1
<1>7. IterInv' BY <1>1, <1>4, <1>5, <1>6 DEF IterInv
<1>8. ReplyInv' BY <1>1 DEF DbusInv, ReplyInv
<1>9. MemoryInv' BY <1>1 DEF DbusInv, MemoryInv, Good, Short
<1> QED BY <1>1, <1>7, <1>8, <1>9 DEF DbusInv, AnsweredIsPrinted

\* What unpacking leaves in memory: a byte is of the answer, garbled or as
\* it was, and a value of the type asked for is in the query's variable.
LEMMA UnpackedIs ==
  ASSUME memory \in [Variables -> [Byte -> Contents]], reply \in Reply,
         at \in 1..6, NEW q, q = Queries[at], NEW m \in Unpacked(q)
  PROVE  /\ m \in [Variables -> [Byte -> Contents]]
         /\ \A v \in Variables : \A y \in Byte :
              m[v][y] = memory[v][y] \/ m[v][y] = "garbled" \/ m[v][y] = q.prop
         /\ Good(q) => m[q.var] = Whole(q.prop)
         /\ Short(q) => m[q.var] = Overlaid(memory[q.var], reply.len, q.prop)
<1>1. /\ q.var \in Variables /\ q.prop \in Contents /\ "garbled" \in Contents
      /\ q.type \in {"q", "t", "s", "ay"} /\ (q.overload = "uint16_t" => q.type = "q")
  BY QueriesAre DEF Contents
<1>2. \A hit : /\ Garbled(hit) \in [Variables -> [Byte -> Contents]]
               /\ \A v \in Variables : \A y \in Byte :
                    Garbled(hit)[v][y] = memory[v][y] \/ Garbled(hit)[v][y] = "garbled"
  <2> SUFFICES ASSUME NEW hit
               PROVE  /\ Garbled(hit) \in [Variables -> [Byte -> Contents]]
                      /\ \A v \in Variables : \A y \in Byte :
                           Garbled(hit)[v][y] = memory[v][y] \/ Garbled(hit)[v][y] = "garbled"
    OBVIOUS
  <2>1. Whole("garbled") \in [Byte -> Contents] /\ \A y \in Byte : Whole("garbled")[y] = "garbled"
    BY <1>1 DEF Whole
  <2> QED BY <2>1 DEF Garbled
<1>3. ASSUME NEW n, NEW x \in Contents
      PROVE  /\ Overlaid(memory[q.var], n, x) \in [Byte -> Contents]
             /\ \A y \in Byte : Overlaid(memory[q.var], n, x)[y] \in {x, memory[q.var][y]}
  BY <1>1 DEF Overlaid
<1>4. CASE reply.top = "s"
  BY <1>2, <1>4 DEF Unpacked, Good, Short
<1>5. CASE reply.top # "s" /\ q.overload = "uint16_t" /\ reply.type # "q"
  <2>1. m = memory BY <1>5 DEF Unpacked
  <2>2. ~Good(q) /\ ~Short(q) BY <1>1, <1>5 DEF Good, Short
  <2> QED BY <2>1, <2>2
<1>6. CASE reply.top # "s" /\ ~(q.overload = "uint16_t" /\ reply.type # "q")
  <2>1. m \in dbus_dataType_parse(q) BY <1>6 DEF Unpacked
  <2>2. CASE reply.type = "ay"
    <3>1. PICK x \in Contents : x = (IF q.type = "ay" THEN q.prop ELSE "garbled") BY <1>1
    <3>2. PICK hit \in SUBSET Variables :
            /\ q.var \notin hit \/ hit = {}
            /\ m = [Garbled(hit) EXCEPT ![q.var] = Overlaid(memory[q.var], reply.len, x)]
      BY <2>1, <2>2, <3>1 DEF dbus_dataType_parse, dbus_dataTye_array_parse
    <3>3. m \in [Variables -> [Byte -> Contents]] BY <1>2, <1>3, <3>1, <3>2
    <3>4. m[q.var] = Overlaid(memory[q.var], reply.len, x) BY <1>1, <1>2, <3>2
    <3>5. \A v \in Variables : v # q.var => m[v] = Garbled(hit)[v] BY <1>2, <3>2
    <3>6. x = q.prop \/ x = "garbled" BY <3>1
    <3>7. \A v \in Variables : \A y \in Byte :
            m[v][y] = memory[v][y] \/ m[v][y] = "garbled" \/ m[v][y] = q.prop
      BY <1>2, <1>3, <3>4, <3>5, <3>6
    <3>8. Good(q) => m[q.var] = Whole(q.prop)
      <4> SUFFICES ASSUME Good(q) PROVE m[q.var] = Whole(q.prop) OBVIOUS
      <4>1. q.type = "ay" /\ reply.len \in PrintedBytes..BufferBytes BY <2>2 DEF Good
      <4>2. \A y \in Byte : y <= reply.len BY <4>1, DbusAssumption DEF Byte
      <4> QED BY <3>1, <3>4, <4>1, <4>2 DEF Overlaid, Whole
    <3>9. Short(q) => m[q.var] = Overlaid(memory[q.var], reply.len, q.prop)
      BY <3>1, <3>4 DEF Short
    <3> QED BY <3>3, <3>7, <3>8, <3>9
  <2>3. CASE reply.type # "ay" /\ reply.type = q.type
    <3>1. m = [memory EXCEPT ![q.var] = Whole(q.prop)] BY <2>1, <2>3 DEF dbus_dataType_parse
    <3>2. Whole(q.prop) \in [Byte -> Contents] /\ \A y \in Byte : Whole(q.prop)[y] = q.prop
      BY <1>1 DEF Whole
    <3>3. ~Short(q) BY <2>3 DEF Short
    <3> QED BY <1>1, <3>1, <3>2, <3>3
  <2>4. CASE reply.type # "ay" /\ reply.type # q.type
    <3>1. PICK n \in 0..PointerBytes : m = [memory EXCEPT ![q.var] = Overlaid(memory[q.var], n, "garbled")]
      BY <2>1, <2>4 DEF dbus_dataType_parse
    <3>2. ~Good(q) /\ ~Short(q) BY <2>4 DEF Good, Short
    <3> QED BY <1>1, <1>3, <3>1, <3>2
  <2> QED BY <2>2, <2>3, <2>4
<1> QED BY <1>4, <1>5, <1>6

\* The value is taken, and of the query's iterators the outer one is left.
LEMMA DbusUnpacks ==
  ASSUME DbusInv, Unpack
  PROVE  DbusInv'
<1>1. /\ dpc = "unwind" /\ at \in 1..6 /\ depth = 1 /\ dpc' = "print"
      /\ pIter \in Nat /\ 1 <= pIter
      /\ iters = Outer(at - 1) \cup Levels(depth - 1) \cup {<<at, pIter>>}
      /\ iters' = iters \ {<<at, pIter>>}
      /\ replies = bare \cup {at} /\ at \notin bare /\ replies' = replies \ {at}
      /\ UNCHANGED <<at, reply, bare, printed>>
  BY DEF Unpack, DbusInv, IterInv, ReplyInv
<1>2. Levels(depth - 1) = {<<at, 0>>} BY <1>1 DEF Levels
<1>3. iters' = Outer(at)
  <2>1. \A i : i \in 1..at <=> i \in 1..(at - 1) \/ i = at BY <1>1
  <2>2. Outer(at) = Outer(at - 1) \cup {<<at, 0>>} BY <2>1 DEF Outer
  <2>3. pIter # 0 BY <1>1
  <2>4. \A x \in Outer(at) : x # <<at, pIter>> BY <2>3 DEF Outer
  <2> QED BY <1>1, <1>2, <2>2, <2>4
<1>4. IterInv'
  <2>1. Outer(at)' = Outer(at) BY <1>1 DEF Outer
  <2> QED BY <1>1, <1>3, <2>1 DEF IterInv
<1>5. ReplyInv'
  <2>1. replies' = bare BY <1>1
  <2> QED BY <1>1, <2>1 DEF ReplyInv, DbusInv
<1>6. PICK q : q = Queries[at] OBVIOUS
<1>7. PICK m \in Unpacked(q) : memory' = m BY <1>6 DEF Unpack
<1>8. /\ memory' \in [Variables -> [Byte -> Contents]]
      /\ \A v \in Variables : \A y \in Byte :
           memory'[v][y] = memory[v][y] \/ memory'[v][y] = "garbled" \/ memory'[v][y] = q.prop
      /\ Good(q) => memory'[q.var] = Whole(q.prop)
      /\ Short(q) => memory'[q.var] = Overlaid(memory[q.var], reply.len, q.prop)
  BY <1>1, <1>6, <1>7, UnpackedIs DEF DbusInv, MemoryInv
<1>9. \A v \in Variables : \A y \in Byte : \A j \in 1..6 :
        memory[v][y] = Queries[j].prop => j < at
  BY <1>1 DEF DbusInv, MemoryInv
<1>10. \A v \in Variables : \A y \in Byte : \A j \in 1..6 :
         memory'[v][y] = Queries[j].prop => j < at \/ j = at
  BY <1>1, <1>6, <1>8, <1>9, QueriesAre
<1>11. Short(q) => \A y \in Byte : memory'[q.var][y] = q.prop <=> y <= reply.len
  <2>1. q.var \in Variables /\ \A y \in Byte : memory[q.var][y] # q.prop
    <3>1. ~(at < at) BY <1>1
    <3> QED BY <1>1, <1>6, <1>9, <3>1, QueriesAre
  <2> QED BY <1>8, <2>1 DEF Overlaid
<1>12. MemoryInv'
  <2>1. UNCHANGED <<at, reply>> /\ dpc' = "print" BY <1>1
  <2>2. (Good(Queries[at]))' <=> Good(q) BY <1>6, <2>1 DEF Good
  <2>3. (Short(Queries[at]))' <=> Short(q) BY <1>6, <2>1 DEF Short
  <2> QED BY <1>6, <1>8, <1>10, <1>11, <2>1, <2>2, <2>3 DEF MemoryInv
<1> QED BY <1>1, <1>4, <1>5, <1>12 DEF DbusInv, AnsweredIsPrinted

\* main prints the variable before the next query changes it.
LEMMA DbusPrints ==
  ASSUME DbusInv, print
  PROVE  DbusInv'
<1>1. /\ dpc = "print" /\ at \in 1..6 /\ at' = at + 1
      /\ dpc' = IF at = 6 THEN "exit" ELSE "run"
      /\ printed' = Shown(Queries[at])
      /\ UNCHANGED <<memory, reply, bare, depth, pIter, iters, replies>>
  BY QueriesAre DEF print, PrintsValue, DbusInv
<1>2. PICK q : q = Queries[at] OBVIOUS
<1>3. at' - 1 = at /\ Queries[at' - 1] = q BY <1>1, <1>2
<1>4. IterInv'
  <2>1. Outer(at - 1)' = Outer(at) BY <1>3 DEF Outer
  <2> QED BY <1>1, <2>1 DEF IterInv, DbusInv
<1>5. ReplyInv'
  <2>1. bare \subseteq 1..at /\ replies = bare BY <1>1 DEF DbusInv, ReplyInv
  <2>2. \A i \in 1..at : i \in 1..(at + 1) BY <1>1
  <2> QED BY <1>1, <1>3, <2>1, <2>2 DEF ReplyInv
<1>6. MemoryInv'
  <2>1. memory \in [Variables -> [Byte -> Contents]]
        /\ \A v \in Variables : \A y \in Byte : \A j \in 1..6 :
             memory[v][y] = Queries[j].prop => j < at \/ j = at
    BY DEF DbusInv, MemoryInv
  <2>2. \A j \in 1..6 : j < at \/ j = at => j < at + 1 BY <1>1
  <2> QED BY <1>1, <2>1, <2>2 DEF MemoryInv
<1>7. ASSUME Good(q) PROVE printed' = Whole(IF q.var = "sPtr" THEN "freed" ELSE q.prop)
  <2>1. memory[q.var] = Whole(q.prop) BY <1>1, <1>2, <1>7 DEF DbusInv, MemoryInv
  <2> QED BY <1>1, <1>2, <2>1 DEF Shown
<1>8. ASSUME Short(q) PROVE \A y \in Byte : printed'[y] = q.prop <=> y <= reply.len
  <2>1. q.var # "sPtr"
    <3>1. \A i \in 1..6 : Queries[i].type = "ay" => Queries[i].var # "sPtr" BY DEF Queries, Query
    <3> QED BY <1>1, <1>2, <1>8, <3>1 DEF Short
  <2>2. printed' = memory[q.var] BY <1>1, <1>2, <2>1 DEF Shown
  <2> QED BY <1>1, <1>2, <1>8, <2>2 DEF DbusInv, MemoryInv
<1>9. AnsweredIsPrinted'
  <2>1. UNCHANGED reply BY <1>1
  <2>2. (Good(Queries[at - 1]))' <=> Good(q) BY <1>3, <2>1 DEF Good
  <2>3. (Short(Queries[at - 1]))' <=> Short(q) BY <1>3, <2>1 DEF Short
  <2> QED BY <1>3, <1>7, <1>8, <2>1, <2>2, <2>3 DEF AnsweredIsPrinted
<1> QED BY <1>1, <1>4, <1>5, <1>6, <1>9 DEF DbusInv

\* The other steps of main.
LEMMA DbusStep ==
  ASSUME DbusInv, [DbusNext]_dbusVars
  PROVE  DbusInv'
<1>1. CASE UNCHANGED dbusVars
  BY <1>1 DEF dbusVars, DbusInv, IterInv, ReplyInv, MemoryInv, AnsweredIsPrinted,
              Good, Short, Outer, Levels
<1>2. CASE init
  <2>1. /\ dpc = "run" /\ at = 0 /\ at' \in {0, 1} /\ dpc' \in {"run", "exit"}
        /\ UNCHANGED <<memory, reply, bare, printed, depth, pIter, iters, replies>>
    BY <1>2 DEF init
  <2>2. iters = {} /\ bare = {} /\ replies = {}
    BY <2>1 DEF DbusInv, IterInv, ReplyInv, Outer
  <2>3. IterInv'
    <3>1. Outer(at - 1)' = {} BY <2>1 DEF Outer
    <3> QED BY <2>1, <2>2, <3>1 DEF IterInv
  <2>4. ReplyInv' BY <2>1, <2>2 DEF ReplyInv
  <2>5. MemoryInv' BY <2>1 DEF DbusInv, MemoryInv
  <2> QED BY <2>1, <2>3, <2>4, <2>5 DEF DbusInv, AnsweredIsPrinted
<1>3. CASE aborts
  <2>1. /\ dpc \notin {"exit", "abort"} /\ dpc' = "abort"
        /\ UNCHANGED <<at, memory, reply, bare, printed, depth, pIter, iters, replies>>
    BY <1>3 DEF aborts
  <2>2. IterInv' BY <2>1 DEF IterInv
  <2>3. ReplyInv' BY <2>1 DEF DbusInv, ReplyInv
  <2>4. MemoryInv' BY <2>1 DEF DbusInv, MemoryInv
  <2> QED BY <2>1, <2>2, <2>3, <2>4 DEF DbusInv, AnsweredIsPrinted
<1> QED BY <1>1, <1>2, <1>3, DbusQueries, DbusRecurses, DbusUnwinds, DbusUnpacks, DbusPrints
        DEF DbusNext

\* What is left allocated.
LEMMA DbusLeaves == DbusInv => OneIteratorPerQuery
BY DEF DbusInv, IterInv, ReplyInv, OneIteratorPerQuery, Outer

-----------------------------------------------------------------------------
(* The chain of queries over ubus. *)

ChainInv ==
  /\ asked \in Seq(1..7)
  /\ starts \in Nat
  /\ \E n \in 0..7 :
       /\ known = 1..n
       /\ \A c \in 1..Len(asked) : asked[c] <= n + 1
  /\ starts > 0 /\ asked = << >> /\ ~failed => known = 1..7

\* The chain has seven links.
LEMMA ChainHas == DOMAIN Chain = 1..7 /\ Len(Chain) = 7
BY DEF Chain

\* A query that has ended: every other one is still under way.
LEMMA WithoutIs ==
  ASSUME asked \in Seq(1..7), NEW c \in DOMAIN asked
  PROVE  /\ Without(c) \in Seq(1..7)
         /\ \A i \in 1..Len(Without(c)) : \E j \in 1..Len(asked) : Without(c)[i] = asked[j]
<1>1. c \in 1..Len(asked) /\ Len(asked) \in Nat BY LenProperties
<1>2. PICK s : s = SubSeq(asked, 1, c - 1) OBVIOUS
<1>3. PICK t : t = SubSeq(asked, c + 1, Len(asked)) OBVIOUS
<1>4. /\ s \in Seq(1..7) /\ Len(s) = c - 1
      /\ \A i \in 1..Len(s) : s[i] = asked[i] /\ i \in 1..Len(asked)
  BY <1>1, <1>2
<1>5. /\ t \in Seq(1..7) /\ Len(t) = Len(asked) - c
      /\ \A i \in 1..Len(t) : t[i] = asked[c + i] /\ c + i \in 1..Len(asked)
  <2>1. /\ t \in Seq(1..7) /\ Len(t) = Len(asked) - c BY <1>1, <1>3
  <2>2. ASSUME NEW i \in 1..Len(t) PROVE t[i] = asked[c + i] /\ c + i \in 1..Len(asked)
    <3>1. c + i \in 1..Len(asked) BY <1>1, <2>1
    <3>2. t[i] = asked[(c + 1) + i - 1] BY <1>1, <1>3, <2>1, SMTT(60)
    <3>3. (c + 1) + i - 1 = c + i BY <1>1
    <3> QED BY <3>1, <3>2, <3>3
  <2> QED BY <2>1, <2>2
<1>6. Without(c) = s \o t BY <1>2, <1>3 DEF Without
<1>7. /\ Without(c) \in Seq(1..7) /\ Len(Without(c)) = Len(s) + Len(t)
      /\ \A i \in 1..(Len(s) + Len(t)) :
           Without(c)[i] = IF i <= Len(s) THEN s[i] ELSE t[i - Len(s)]
  <2>1. /\ s \o t \in Seq(1..7) /\ Len(s \o t) = Len(s) + Len(t)
        /\ \A i \in 1..(Len(s) + Len(t)) :
             (s \o t)[i] = IF i <= Len(s) THEN s[i] ELSE t[i - Len(s)]
    BY <1>4, <1>5, ConcatProperties, Zenon
  <2> QED BY <1>6, <2>1, Zenon
<1>8. ASSUME NEW i \in 1..Len(Without(c)) PROVE \E j \in 1..Len(asked) : Without(c)[i] = asked[j]
  <2>1. PICK x \in Nat : x = Len(s) BY <1>1, <1>4
  <2>2. PICK y \in Nat : y = Len(t) BY <1>1, <1>5
  <2>3. i \in 1..(x + y) BY <1>7, <2>1, <2>2
  <2>4. CASE i <= x
    <3>1. i \in 1..x BY <2>3, <2>4
    <3> QED BY <1>4, <1>7, <2>1, <2>2, <2>3, <2>4, <3>1
  <2>5. CASE ~(i <= x)
    <3>1. i - x \in 1..y BY <2>3, <2>5
    <3>2. Without(c)[i] = t[i - x] BY <1>7, <2>1, <2>2, <2>3, <2>5
    <3> QED BY <1>5, <2>2, <3>1, <3>2
  <2> QED BY <2>4, <2>5
<1> QED BY <1>7, <1>8

LEMMA ChainInitInv == ChainInit => ChainInv
<1> SUFFICES ASSUME ChainInit PROVE ChainInv OBVIOUS
<1>1. known = 1..0 BY DEF ChainInit
<1> QED BY <1>1 DEF ChainInit, ChainInv

\* A chain asks at most for the property after the last known one.
LEMMA ChainStep ==
  ASSUME ChainInv, [ChainNext]_chainVars
  PROVE  ChainInv'
<1>1. PICK n \in 0..7 : /\ known = 1..n
                        /\ \A c \in 1..Len(asked) : asked[c] <= n + 1
  BY DEF ChainInv
<1>2. CASE UNCHANGED chainVars BY <1>2 DEF chainVars, ChainInv
<1>3. CASE StartChain
  <2>1. asked' = Append(asked, 1) /\ UNCHANGED <<known, failed>> /\ starts' = starts + 1
    BY <1>3 DEF StartChain
  <2>2. asked' \in Seq(1..7) /\ asked' # << >> /\ \A c \in 1..Len(asked') : asked'[c] <= n + 1
    BY <1>1, <2>1 DEF ChainInv
  <2>3. starts' \in Nat BY <2>1 DEF ChainInv
  <2> QED BY <1>1, <2>1, <2>2, <2>3 DEF ChainInv
<1>4. CASE BadReply \/ MalformedNumber
  <2>1. PICK c \in DOMAIN asked : asked' = Without(c)
    BY <1>4 DEF BadReply, MalformedNumber
  <2>2. failed' = TRUE /\ UNCHANGED <<known, starts>> BY <1>4 DEF BadReply, MalformedNumber
  <2>3. asked' \in Seq(1..7) /\ \A i \in 1..Len(asked') : asked'[i] <= n + 1
    BY <1>1, <2>1, WithoutIs DEF ChainInv
  <2> QED BY <1>1, <2>2, <2>3 DEF ChainInv
<1>5. CASE GoodReply
  <2>1. PICK c \in DOMAIN asked :
          /\ known' = known \cup {asked[c]}
          /\ asked' = IF NextQuery(asked[c]) = {} THEN Without(c)
                      ELSE [asked EXCEPT ![c] = CHOOSE k \in NextQuery(@) : TRUE]
          /\ UNCHANGED <<starts, failed, threw>>
    BY <1>5 DEF GoodReply
  <2>2. PICK a \in 1..7 : a = asked[c] /\ a <= n + 1 BY <1>1 DEF ChainInv
  <2>3. PICK k \in 0..7 : known' = 1..k /\ n <= k /\ a <= k
    <3>1. CASE a <= n
      <4>1. known' = 1..n BY <1>1, <2>1, <2>2, <3>1
      <4> QED BY <3>1, <4>1
    <3>2. CASE a = n + 1
      <4>1. known' = 1..(n + 1) BY <1>1, <2>1, <2>2, <3>2
      <4> QED BY <2>2, <3>2, <4>1
    <3> QED BY <2>2, <3>1, <3>2
  <2>4. CASE a = 7
    <3>1. NextQuery(a) = {} BY <2>4, ChainHas DEF NextQuery
    <3>2. asked' = Without(c) BY <2>1, <2>2, <3>1
    <3>3. asked' \in Seq(1..7) /\ \A i \in 1..Len(asked') : asked'[i] <= k + 1
      <4>1. asked' \in Seq(1..7) BY <3>2, WithoutIs DEF ChainInv
      <4>2. ASSUME NEW i \in 1..Len(asked') PROVE asked'[i] <= k + 1
        <5>1. PICK j \in 1..Len(asked) : asked'[i] = asked[j] BY <3>2, WithoutIs DEF ChainInv
        <5>2. asked[j] \in 1..7 BY DEF ChainInv
        <5>3. asked[j] <= n + 1 BY <1>1
        <5> QED BY <2>3, <5>1, <5>2, <5>3
      <4> QED BY <4>1, <4>2
    <3>4. k = 7 BY <2>3, <2>4
    <3> QED BY <2>1, <2>3, <3>3, <3>4 DEF ChainInv
  <2>5. CASE a < 7
    <3>1. NextQuery(a) = {a + 1} 
      <4>1. a + 1 \in 1..7 BY <2>5
      <4> QED BY <4>1, ChainHas DEF NextQuery
    <3>2. (CHOOSE j \in NextQuery(a) : TRUE) = a + 1 BY <3>1
    <3>3. asked' = [asked EXCEPT ![c] = a + 1] BY <2>1, <2>2, <3>1, <3>2
    <3>4. asked \in Seq(1..7) /\ a + 1 \in 1..7 BY <2>5 DEF ChainInv
    <3>5. /\ asked' \in Seq(1..7) /\ Len(asked') = Len(asked) /\ Len(asked) # 0
          /\ \A i \in 1..Len(asked) : asked'[i] = IF i = c THEN a + 1 ELSE asked[i]
      BY <3>3, <3>4
    <3>6. \A i \in 1..Len(asked') : asked'[i] <= k + 1
      <4> SUFFICES ASSUME NEW i \in 1..Len(asked) PROVE asked'[i] <= k + 1 BY <3>5
      <4>1. asked[i] \in 1..7 /\ asked[i] <= n + 1 BY <1>1 DEF ChainInv
      <4>2. asked'[i] = IF i = c THEN a + 1 ELSE asked[i] BY <3>5
      <4> QED BY <2>3, <4>1, <4>2
    <3>7. asked' # << >> BY <3>5
    <3> QED BY <2>1, <2>3, <3>5, <3>6, <3>7 DEF ChainInv
  <2> QED BY <2>4, <2>5
<1> QED BY <1>2, <1>3, <1>4, <1>5 DEF ChainNext, ChainReply

-----------------------------------------------------------------------------
(* The ubus server and its clients. *)

ServiceInv ==
  /\ DOMAIN answer = Client
  /\ ReplyIsExact
  /\ watched \in BOOLEAN /\ retry \in BOOLEAN
  /\ link \in {"none", "open", "lost"}
  /\ pc \in {"start", "crashed", "connected", "registered", "loop", "reconnect", "refresh", "ended"}
  /\ pc \in {"connected", "registered", "refresh"} => link # "none" /\ ~retry
  /\ pc \in {"start", "reconnect"} => link = "none" /\ ~retry
  /\ pc \in {"connected", "registered", "reconnect", "refresh"} => ~watched
  /\ pc = "start" => ~watched
  /\ NeverDeaf

LEMMA ServiceInitInv == ServiceInit => ServiceInv
BY DEF ServiceInit, ServiceInv, ReplyIsExact, NeverDeaf

\* Steps that send no reply.
LEMMA AnswersKept ==
  ASSUME DOMAIN answer = Client, ReplyIsExact, UNCHANGED answer
  PROVE  DOMAIN answer' = Client /\ ReplyIsExact'
BY DEF ReplyIsExact

\* The reply is what this call put into the buffer.
LEMMA ReplyIsTheCalls ==
  ASSUME DOMAIN answer = Client, ReplyIsExact, NEW c, get_devinfo(c)
  PROVE  DOMAIN answer' = Client /\ ReplyIsExact'
<1>1. b' = DevInfo BY DEF get_devinfo, blob_buf_init, DevInfo
<1>2. answer' = answer \/ answer' = [answer EXCEPT ![c] = DevInfo] BY <1>1 DEF get_devinfo
<1> QED BY <1>2 DEF ReplyIsExact

\* In each state of the server either the connection or the timer is there.
LEMMA ServiceStep ==
  ASSUME ServiceInv, [ServiceNext]_serviceVars
  PROVE  ServiceInv'
<1> USE DEF daemonVars, serverVars, callerVars
<1>1. CASE UNCHANGED serviceVars
  BY <1>1 DEF serviceVars, ServiceInv, ReplyIsExact, NeverDeaf
<1>2. CASE Fault \/ Restart \/ SendEvent
  BY <1>2, AnswersKept DEF Fault, Cut, Restart, SendEvent, ServiceInv, NeverDeaf
<1>3. CASE ServerConnect \/ RegisterEvent \/ AddObject
  <2>1. CASE ServerConnect BY <2>1, AnswersKept DEF ServerConnect, ServiceInv, NeverDeaf
  <2>2. CASE RegisterEvent
    <3>1. /\ pc = "connected" /\ pc' = "registered"
          /\ UNCHANGED <<link, watched, retry, answer>>
      BY <2>2 DEF RegisterEvent
    <3> QED BY <3>1, AnswersKept DEF ServiceInv, NeverDeaf
  <2>3. CASE AddObject
    <3>1. /\ pc = "registered" /\ pc' = "loop" /\ watched' = TRUE
          /\ UNCHANGED <<link, retry, answer>>
      BY <2>3 DEF AddObject
    <3> QED BY <3>1, AnswersKept DEF ServiceInv, NeverDeaf
  <2> QED BY <1>3, <2>1, <2>2, <2>3
<1>4. CASE HandleMessage
  <2>1. UNCHANGED answer \/ get_devinfo(Head(inbox).from)
    BY <1>4 DEF HandleMessage, receive_event
  <2>2. PICK c : c = Head(inbox).from OBVIOUS
  <2>3. DOMAIN answer' = Client /\ ReplyIsExact'
    BY <2>1, <2>2, AnswersKept, ReplyIsTheCalls DEF ServiceInv
  <2> QED BY <1>4, <2>3 DEF HandleMessage, ServiceInv, NeverDeaf
<1>5. CASE ConnectionLost \/ RetryFires \/ Reconnect \/ Refresh
  <2>1. CASE ConnectionLost BY <2>1, AnswersKept DEF ConnectionLost, ServiceInv, NeverDeaf
  <2>2. CASE RetryFires BY <2>2, AnswersKept DEF RetryFires, ServiceInv, NeverDeaf
  <2>3. CASE Reconnect
    <3>1. /\ pc = "reconnect" /\ UNCHANGED <<watched, answer>>
          /\ \/ pc' = "refresh" /\ link' = "open" /\ retry' = retry
             \/ pc' = "loop" /\ link' = "none" /\ retry' = TRUE
      BY <2>3 DEF Reconnect, uloop_timeout_set
    <3>2. CASE pc' = "refresh" /\ link' = "open" /\ retry' = retry
      BY <3>1, <3>2, AnswersKept DEF ServiceInv, NeverDeaf
    <3>3. CASE pc' = "loop" /\ link' = "none" /\ retry' = TRUE
      BY <3>1, <3>3, AnswersKept DEF ServiceInv, NeverDeaf
    <3> QED BY <3>1, <3>2, <3>3
  <2>4. CASE Refresh
    <3>1. /\ pc = "refresh" /\ pc' = "loop" /\ watched' = TRUE
          /\ UNCHANGED <<link, retry, answer>>
      BY <2>4 DEF Refresh, ubus_add_uloop
    <3> QED BY <3>1, AnswersKept DEF ServiceInv, NeverDeaf
  <2> QED BY <1>5, <2>1, <2>2, <2>3, <2>4
<1>6. CASE Terminate BY <1>6, AnswersKept DEF Terminate, ServiceInv, NeverDeaf
<1>7. ASSUME NEW c \in Client, Caller(c) PROVE ServiceInv'
  <2>1. CASE ClientConnect(c) \/ Lookup(c) \/ Invoke(c) \/ Answered(c)
    BY <2>1, AnswersKept DEF ClientConnect, Lookup, Invoke, Answered, ServiceInv, NeverDeaf
  <2>2. CASE GivesUp(c)
    BY <2>2 DEF GivesUp, ServiceInv, NeverDeaf, ReplyIsExact
  <2> QED BY <1>7, <2>1, <2>2 DEF Caller
<1> QED BY <1>1, <1>2, <1>3, <1>4, <1>5, <1>6, <1>7 DEF ServiceNext, Server

-----------------------------------------------------------------------------
(* One of the programs runs; the others stand still. *)

Inv == ClientInv /\ EchoInv /\ DbusInv /\ ChainInv /\ ServiceInv

(* The conjunction of the programs' inductive invariants is one of all.     *)
THEOREM Invariance == Spec => []Inv
<1>1. Init => Inv
  BY ClientInitInv, EchoInitInv, DbusInitInv, ChainInitInv, ServiceInitInv DEF Init, Inv
<1>2. [Next]_vars => /\ [ClientNext]_clientVars /\ [EchoNext]_echoVars /\ [DbusNext]_dbusVars
                     /\ [ChainNext]_chainVars /\ [ServiceNext]_serviceVars
  BY DEF Next, vars, programs, ClientSteps, EchoSteps, DbusSteps, ChainSteps, ServiceSteps
<1>3. Inv /\ [Next]_vars => Inv'
  BY <1>2, ClientStep, EchoStep, DbusStep, ChainStep, ServiceStep DEF Inv
<1> QED BY <1>1, <1>3, PTL DEF Spec

(* The TCP client never takes a refused connection for an established one   *)
(* and abandons a connection only when the server was quick, however the    *)
(* answer to connect(), the data and the end race.                          *)
THEOREM OutcomeIsAlwaysReal == Spec => []OutcomeIsReal
<1>1. Inv => OutcomeIsReal BY DEF Inv, ClientInv, OutcomeIsReal
<1> QED BY <1>1, Invariance, PTL

(* recv() hands over every chunk once, and the blocking client closes its   *)
(* descriptor only after the last.                                          *)
THEOREM AlwaysClosesAfterLastChunk == Spec => []ClosesAfterLastChunk
<1>1. Inv => ClosesAfterLastChunk BY DEF Inv, ClientInv, ClosesAfterLastChunk
<1> QED BY <1>1, Invariance, PTL

(* sendData leaks a descriptor per echo: the first MaxSockets datagrams     *)
(* that carry something, and that socket() does not refuse for another      *)
(* reason, take all there are, and nothing behind them is ever echoed.      *)
THEOREM EchoIsAlwaysLimited == Spec => []EchoIsLimited
<1>1. Inv => EchoIsLimited BY DEF Inv, EchoInv, EchoIsLimited, Served, Taken
<1> QED BY <1>1, Invariance, PTL

(* The recursion of dbus_iter_enter_recurse frees every iterator but the    *)
(* one it returns, and that one only after its use: a query leaks its outer *)
(* iterator however deep the reply is nested, and a reply only when it was  *)
(* empty.                                                                   *)
THEOREM AlwaysOneIteratorPerQuery == Spec => []OneIteratorPerQuery
<1>1. Inv => OneIteratorPerQuery BY DbusLeaves DEF Inv
<1> QED BY <1>1, Invariance, PTL

(* A good answer is what the D-Bus reader prints, although its variables    *)
(* are shared by queries; behind a short array it prints bytes that are     *)
(* not of the answer.                                                       *)
THEOREM AnsweredIsAlwaysPrinted == Spec => []AnsweredIsPrinted
<1>1. Inv => AnsweredIsPrinted BY DEF Inv, DbusInv
<1> QED BY <1>1, Invariance, PTL

(* However many chains of scanreq_prog_cb1 overlap and break off, what the  *)
(* manager knows is the beginning of the chain.                             *)
THEOREM KnownIsAlwaysPrefix == Spec => []KnownIsPrefix
<1>1. Inv => KnownIsPrefix BY ChainHas DEF Inv, ChainInv, KnownIsPrefix
<1> QED BY <1>1, Invariance, PTL

(* Every reply has the attributes of its own call, although all calls share *)
(* the buffer b.                                                            *)
THEOREM ReplyIsAlwaysExact == Spec => []ReplyIsExact
<1>1. Inv => ReplyIsExact BY DEF Inv, ServiceInv
<1> QED BY <1>1, Invariance, PTL

(* The loop of the ubus server always has a connection whose end it will    *)
(* notice, or the timer of ubus_reconn_timer, and never both.               *)
THEOREM IsNeverDeaf == Spec => []NeverDeaf
<1>1. Inv => NeverDeaf BY DEF Inv, ServiceInv
<1> QED BY <1>1, Invariance, PTL
==============================================================================
