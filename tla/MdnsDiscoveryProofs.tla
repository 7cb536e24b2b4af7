------------------------- MODULE MdnsDiscoveryProofs -------------------------
(***************************************************************************)
(* What TLAPS proves of the mDNS discovery, for any number of nodes and    *)
(* resolvers, any length of a packet and any room for addresses.           *)
(***************************************************************************)
EXTENDS MdnsDiscovery, FiniteSetTheorems, TLAPS

TypeOK ==
  /\ step \in InitStep /\ caller \in Resolver \cup {nullptr}
  /\ server \in BOOLEAN /\ mDelegate \in Resolver \cup {nullptr}
  /\ msg \in Message \cup {nullptr} /\ seen \in Seq(Record)

\* A server that was started by an init that has ended has a delegate.
Registered ==
  /\ step # "done" => caller \in Resolver
  /\ server /\ step \in {"start", "done"} => mDelegate \in Resolver

\* The packet under way read what the parser had when it began.
DelegateIsRead == msg # nullptr => msg.delegate \in Resolver \/ msg.begun \in {"clear", "set"}

\* Records are kept for a packet only.
SeenIsOfPacket == msg = nullptr => seen = << >>

\* What is said of the node, is said by one of the records.
SaysSeen(n) == n = nullptr \/ \E i \in 1..Len(seen) : seen[i].node = n

NodeDataIsSeen == msg # nullptr =>
  /\ SaysSeen(msg.mNodeData.mHostName)
  /\ SaysSeen(msg.mNodeData.mPeerId)
  /\ SaysSeen(msg.mNodeData.mAddress)

MdnsInv ==
  /\ TypeOK /\ Registered /\ DelegateIsRead /\ SeenIsOfPacket /\ NodeDataIsSeen
  /\ LastRecordDecides /\ FirstAddressesKept /\ ResolvedIsUsable /\ CrashesOnlyDuringInit

-----------------------------------------------------------------------------
LEMMA RecordFields ==
  ASSUME NEW r \in Record
  PROVE  /\ r.node \in Node /\ r.parsed \in BOOLEAN /\ r.idOk \in BOOLEAN
         /\ r.type \in {"SRV", "PTR", "TXT", "A", "NSEC"}
         /\ r.service \in {Operational, Discovery, "other"}
BY DEF Record, RecordOf

IsSrv(r)     == r.type = "SRV" /\ r.service = Operational
IsAddress(r) == r.type = "A" /\ (~r.parsed \/ r.service = Operational)
IsFound(r)   == r.type = "A" /\ r.parsed /\ r.service = Discovery

(* What a record does to the message, by the kind of the record: an SRV     *)
(* record of the operational service.                                       *)
LEMMA AfterSrv ==
  ASSUME NEW m \in Message, NEW r \in Record, IsSrv(r), NEW p, p = Parsed(m, r)
  PROVE  /\ p \in Message
         /\ p.delegate = m.delegate /\ p.begun = m.begun /\ p.mHasIP = m.mHasIP
         /\ p.mDiscoveredNodeData = m.mDiscoveredNodeData
         /\ p.mNodeData.mAddress = m.mNodeData.mAddress
         /\ p.mNodeData.mHostName \in {m.mNodeData.mHostName, r.node}
         /\ p.mNodeData.mPeerId \in {m.mNodeData.mPeerId, r.node}
         /\ p.mHasNodePort = r.idOk
         /\ r.idOk => /\ p.mNodeData.mPeerId = r.node
                      /\ p.mNodeData.mPort = IF r.parsed THEN r.node ELSE nullptr
<1> DEFINE d    == m.mNodeData
           host == IF r.parsed THEN r.node ELSE d.mHostName
           port == IF r.parsed THEN r.node ELSE nullptr
           e    == [d EXCEPT !.mHostName = host]
           f    == [d EXCEPT !.mHostName = host, !.mPeerId = r.node, !.mPort = port]
<1>1. p = OnOperationalSrvRecord(m, r) BY DEF Parsed, OnSrv, IsSrv, Operational, Discovery
<1>2. /\ d \in NodeData /\ r.node \in Value /\ r.idOk \in BOOLEAN
      /\ host \in {d.mHostName, r.node} /\ host \in Value /\ port \in Value
  BY RecordFields DEF Message, NodeData, Value
<1>3. /\ e \in NodeData /\ e.mHostName = host
      /\ e.mAddress = d.mAddress /\ e.mPeerId = d.mPeerId
  <2> HIDE DEF d, host
  <2> QED BY <1>2 DEF NodeData
<1>4. /\ f \in NodeData /\ f.mHostName = host /\ f.mPeerId = r.node /\ f.mPort = port
      /\ f.mAddress = d.mAddress
  <2> HIDE DEF d, host, port
  <2> QED BY <1>2 DEF NodeData
<1>5. CASE r.idOk
  <2>1. p = [m EXCEPT !.mNodeData = f, !.mHasNodePort = TRUE]
    BY <1>1, <1>5, Zenon DEF OnOperationalSrvRecord
  <2>2. p \in Message /\ p.mNodeData = f /\ p.mHasNodePort = TRUE
        /\ p.delegate = m.delegate /\ p.begun = m.begun /\ p.mHasIP = m.mHasIP
        /\ p.mDiscoveredNodeData = m.mDiscoveredNodeData
    <3> HIDE DEF f
    <3> QED BY <1>4, <2>1 DEF Message
  <2> HIDE DEF f
  <2> QED BY <1>2, <1>4, <1>5, <2>2
<1>6. CASE ~r.idOk
  <2>1. p = [m EXCEPT !.mNodeData = e, !.mHasNodePort = FALSE]
    BY <1>1, <1>6 DEF OnOperationalSrvRecord
  <2>2. p \in Message /\ p.mNodeData = e /\ p.mHasNodePort = FALSE
        /\ p.delegate = m.delegate /\ p.begun = m.begun /\ p.mHasIP = m.mHasIP
        /\ p.mDiscoveredNodeData = m.mDiscoveredNodeData
    <3> HIDE DEF e
    <3> QED BY <1>3, <2>1 DEF Message
  <2> HIDE DEF e
  <2> QED BY <1>2, <1>3, <1>6, <2>2
<1> QED BY <1>5, <1>6

(* An address that does not parse, or is of the operational service.        *)
LEMMA AfterAddress ==
  ASSUME NEW m \in Message, NEW r \in Record, IsAddress(r), NEW p, p = Parsed(m, r)
  PROVE  /\ p \in Message
         /\ p.delegate = m.delegate /\ p.begun = m.begun /\ p.mHasNodePort = m.mHasNodePort
         /\ p.mDiscoveredNodeData = m.mDiscoveredNodeData
         /\ p.mNodeData.mHostName = m.mNodeData.mHostName
         /\ p.mNodeData.mPeerId = m.mNodeData.mPeerId
         /\ p.mNodeData.mPort = m.mNodeData.mPort
         /\ p.mNodeData.mAddress \in {m.mNodeData.mAddress, r.node}
         /\ p.mHasIP = r.parsed
         /\ r.parsed => p.mNodeData.mAddress = r.node
<1>1. r.node \in Value /\ r.parsed \in BOOLEAN BY RecordFields DEF Value
<1>2. CASE r.parsed
  <2> DEFINE d == m.mNodeData
             e == [d EXCEPT !.mAddress = r.node]
  <2>1. p = OnOperationalIPAddress(m, r) BY <1>2 DEF Parsed, OnAddress, IsAddress, Operational, Discovery
  <2>2. p = [m EXCEPT !.mNodeData = e, !.mHasIP = TRUE] BY <2>1 DEF OnOperationalIPAddress
  <2>3. d \in NodeData BY DEF Message
  <2>4. /\ e \in NodeData /\ e.mAddress = r.node
        /\ e.mHostName = d.mHostName /\ e.mPeerId = d.mPeerId /\ e.mPort = d.mPort
    <3> HIDE DEF d
    <3> QED BY <1>1, <2>3 DEF NodeData
  <2>5. /\ p \in Message /\ p.mNodeData = e /\ p.mHasIP = TRUE
        /\ p.delegate = m.delegate /\ p.begun = m.begun /\ p.mHasNodePort = m.mHasNodePort
        /\ p.mDiscoveredNodeData = m.mDiscoveredNodeData
    <3> HIDE DEF e
    <3> QED BY <2>2, <2>4 DEF Message
  <2> HIDE DEF e
  <2> QED BY <1>1, <1>2, <2>4, <2>5
<1>3. CASE ~r.parsed
  <2>1. p = OnBadAddress(m) BY <1>3 DEF Parsed, OnAddress, IsAddress
  <2> QED BY <1>1, <1>3, <2>1 DEF OnBadAddress, Message, NodeData
<1> QED BY <1>1, <1>2, <1>3

(* Records of the other kinds leave the operational data alone. *)
LEMMA DiscoveredUpdate ==
  ASSUME NEW m \in Message, NEW e \in DiscoveredNodeData, NEW p,
         p = [m EXCEPT !.mDiscoveredNodeData = e]
  PROVE  /\ p \in Message /\ p.mDiscoveredNodeData = e
         /\ p.delegate = m.delegate /\ p.begun = m.begun
         /\ p.mHasNodePort = m.mHasNodePort /\ p.mHasIP = m.mHasIP
         /\ p.mNodeData = m.mNodeData
BY DEF Message

(* An address of a discovery service, and any other record. *)
LEMMA AfterOther ==
  ASSUME NEW m \in Message, NEW r \in Record, ~IsSrv(r), ~IsAddress(r), NEW p, p = Parsed(m, r)
  PROVE  /\ p \in Message
         /\ p.delegate = m.delegate /\ p.begun = m.begun
         /\ p.mHasNodePort = m.mHasNodePort /\ p.mHasIP = m.mHasIP
         /\ p.mNodeData.mHostName = m.mNodeData.mHostName
         /\ p.mNodeData.mPeerId = m.mNodeData.mPeerId
         /\ p.mNodeData.mPort = m.mNodeData.mPort
         /\ p.mNodeData.mAddress = m.mNodeData.mAddress
         /\ p.mDiscoveredNodeData.ipAddress =
              IF IsFound(r) /\ HasRoom(m.mDiscoveredNodeData.ipAddress)
              THEN Append(m.mDiscoveredNodeData.ipAddress, r.node)
              ELSE m.mDiscoveredNodeData.ipAddress
<1>1. /\ r.node \in Value /\ nullptr \in Value /\ r.parsed \in BOOLEAN
      /\ r.type \in {"SRV", "PTR", "TXT", "A", "NSEC"}
      /\ r.service \in {Operational, Discovery, "other"}
  BY RecordFields DEF Value
<1>0. r.node \in Node BY RecordFields
<1> DEFINE d == m.mDiscoveredNodeData
<1>d. d \in DiscoveredNodeData BY DEF Message
<1>2. CASE r.type = "SRV" /\ r.service = Discovery
  <2>1. p = OnCommissionableNodeSrvRecord(m, r)
    BY <1>2 DEF Parsed, OnSrv, Operational, Discovery
  <2> DEFINE e == [d EXCEPT !.hostName = IF r.parsed THEN r.node ELSE @,
                            !.instanceName = r.node,
                            !.port = IF r.parsed THEN r.node ELSE nullptr]
  <2>2. p = [m EXCEPT !.mDiscoveredNodeData = e] BY <2>1 DEF OnCommissionableNodeSrvRecord
  <2>3. e \in DiscoveredNodeData /\ e.ipAddress = d.ipAddress
    <3> HIDE DEF d
    <3> QED BY <1>d, <1>1 DEF DiscoveredNodeData
  <2> HIDE DEF e
  <2> QED BY <1>2, <2>2, <2>3, DiscoveredUpdate DEF IsFound
<1>3. CASE r.type = "PTR"
  <2> DEFINE e == [d EXCEPT !.instanceName = IF r.parsed THEN r.node ELSE @]
  <2>1. p = OnPtr(m, r) BY <1>3 DEF Parsed
  <2>2. p = [m EXCEPT !.mDiscoveredNodeData = e] BY <2>1 DEF OnPtr
  <2>3. e \in DiscoveredNodeData /\ e.ipAddress = d.ipAddress
    <3> HIDE DEF d
    <3> QED BY <1>d, <1>1 DEF DiscoveredNodeData
  <2> HIDE DEF e
  <2> QED BY <1>3, <2>2, <2>3, DiscoveredUpdate DEF IsFound
<1>4. CASE r.type = "TXT"
  <2>1. p = OnTxt(m, r) BY <1>4 DEF Parsed
  <2>2. CASE r.parsed /\ r.service = Discovery
    <3>1. p = [m EXCEPT !.mDiscoveredNodeData.txt = @ \cup {r.node}]
      BY <2>1, <2>2 DEF OnTxt, Operational, Discovery
    <3>2. ~IsFound(r) BY <1>4 DEF IsFound
    <3> QED BY <1>0, <3>1, <3>2, SMTT(60) DEF Message, DiscoveredNodeData
  <2>3. CASE r.parsed /\ r.service = Operational
    <3>1. p = [m EXCEPT !.mNodeData.txt = @ \cup {r.node}]
      BY <2>1, <2>3 DEF OnTxt, Operational, Discovery
    <3> QED BY <1>0, <1>4, <3>1 DEF Message, NodeData, IsFound
  <2>4. CASE ~(r.parsed /\ r.service \in {Discovery, Operational})
    BY <1>4, <2>1, <2>4 DEF OnTxt, IsFound
  <2> QED BY <2>2, <2>3, <2>4
<1>5. CASE IsFound(r)
  <2>1. p = OnDiscoveredNodeIPAddress(m, r)
    BY <1>5 DEF Parsed, OnAddress, IsFound, Operational, Discovery
  <2>2. /\ m.mDiscoveredNodeData.ipAddress \in Seq(Node)
        /\ Append(m.mDiscoveredNodeData.ipAddress, r.node) \in Seq(Node)
    BY <1>0 DEF Message, DiscoveredNodeData
  <2> DEFINE ips == IF HasRoom(d.ipAddress) THEN Append(d.ipAddress, r.node) ELSE d.ipAddress
  <2>3. ips \in Seq(Node) BY <2>2
  <2> HIDE DEF HasRoom
  <2>4. p = [m EXCEPT !.mDiscoveredNodeData.ipAddress = ips]
    BY <2>1 DEF OnDiscoveredNodeIPAddress, Message, DiscoveredNodeData
  <2>5. /\ p.mDiscoveredNodeData.ipAddress = ips
        /\ p.mDiscoveredNodeData \in DiscoveredNodeData
    <3> HIDE DEF ips
    <3> QED BY <2>3, <2>4 DEF Message, DiscoveredNodeData
  <2>6. p \in Message
    <3> HIDE DEF ips
    <3> QED BY <2>4, <2>5 DEF Message
  <2>7. /\ p.delegate = m.delegate /\ p.begun = m.begun /\ p.mNodeData = m.mNodeData
        /\ p.mHasNodePort = m.mHasNodePort /\ p.mHasIP = m.mHasIP
    <3> HIDE DEF ips
    <3> QED BY <2>4 DEF Message
  <2> QED BY <1>5, <2>5, <2>6, <2>7, ZenonT(60)
<1>6. CASE p = m /\ ~IsFound(r) BY <1>6
<1>7. CASE r.type = "NSEC" BY <1>6, <1>7 DEF Parsed, IsFound
<1>8. CASE r.service = "other" /\ r.type = "SRV"
  BY <1>6, <1>8 DEF Parsed, OnSrv, IsFound, Operational, Discovery
<1>9. CASE r.service = "other" /\ r.type = "A"
  BY <1>6, <1>9 DEF Parsed, OnAddress, IsAddress, IsFound, Operational, Discovery
<1>10. \/ r.type = "SRV" /\ r.service = Discovery
       \/ r.type = "PTR" \/ r.type = "TXT" \/ IsFound(r) \/ r.type = "NSEC"
       \/ (r.service = "other" /\ r.type = "SRV") \/ (r.service = "other" /\ r.type = "A")
  BY <1>1 DEF IsSrv, IsAddress, IsFound
<1> QED BY <1>2, <1>3, <1>4, <1>5, <1>7, <1>8, <1>9, <1>10

-----------------------------------------------------------------------------
(* A record more: the numbers of the records before it stay. *)
LEMMA OneMore ==
  ASSUME TypeOK, NEW r \in Record, seen' = Append(seen, r)
  PROVE  /\ seen' \in Seq(Record) /\ Len(seen') = Len(seen) + 1 /\ Len(seen) \in Nat
         /\ \A i \in 1..Len(seen) : seen'[i] = seen[i]
         /\ seen'[Len(seen) + 1] = r
         /\ Srvs' = IF IsSrv(r) THEN Srvs \cup {Len(seen) + 1} ELSE Srvs
         /\ Addresses' = IF IsAddress(r) THEN Addresses \cup {Len(seen) + 1} ELSE Addresses
         /\ Found' = IF IsFound(r) THEN Found \cup {Len(seen) + 1} ELSE Found
<1>1. /\ seen' \in Seq(Record) /\ Len(seen') = Len(seen) + 1 /\ Len(seen) \in Nat
      /\ \A i \in 1..Len(seen) : seen'[i] = seen[i]
      /\ seen'[Len(seen) + 1] = r
  BY DEF TypeOK
<1>2. 1..Len(seen') = (1..Len(seen)) \cup {Len(seen) + 1} BY <1>1
<1>3. Srvs' = IF IsSrv(r) THEN Srvs \cup {Len(seen) + 1} ELSE Srvs
  BY <1>1, <1>2 DEF Srvs, IsSrv
<1>4. Addresses' = IF IsAddress(r) THEN Addresses \cup {Len(seen) + 1} ELSE Addresses
  BY <1>1, <1>2 DEF Addresses, IsAddress
<1>5. Found' = IF IsFound(r) THEN Found \cup {Len(seen) + 1} ELSE Found
  BY <1>1, <1>2 DEF Found, IsFound
<1> QED BY <1>1, <1>3, <1>4, <1>5

(* The record that is added to a set of numbers is its last; any other      *)
(* record leaves the last as it was.                                        *)
LEMMA LastOf ==
  ASSUME NEW n \in Nat, NEW S \in SUBSET (1..n)
  PROVE  \A i : IsLast(i, S \cup {n + 1}) <=> i = n + 1
<1>1. \A j \in S : j <= n + 1 /\ ~(n + 1 <= j) OBVIOUS
<1>2. n + 1 <= n + 1 OBVIOUS
<1> HIDE DEF IsLast
<1>3. IsLast(n + 1, S \cup {n + 1}) BY <1>1, <1>2 DEF IsLast
<1>4. ASSUME NEW i, IsLast(i, S \cup {n + 1}) PROVE i = n + 1
  BY <1>1, <1>4, Zenon DEF IsLast
<1> QED BY <1>3, <1>4

LEMMA RecordDecides ==
  ASSUME MdnsInv, NEW r \in Record, msg # nullptr, msg' = Parsed(msg, r), seen' = Append(seen, r)
  PROVE  msg' \in Message /\ LastRecordDecides' /\ NodeDataIsSeen' /\ DelegateIsRead'
<1> DEFINE n == Len(seen)
<1>1. /\ n \in Nat /\ \A i \in 1..n : seen'[i] = seen[i]
      /\ seen'[n + 1] = r /\ Len(seen') = n + 1
      /\ Srvs' = IF IsSrv(r) THEN Srvs \cup {n + 1} ELSE Srvs
      /\ Addresses' = IF IsAddress(r) THEN Addresses \cup {n + 1} ELSE Addresses
  BY OneMore DEF MdnsInv
<1>2. Srvs \in SUBSET (1..n) /\ Addresses \in SUBSET (1..n) BY DEF Srvs, Addresses
<1>m. msg \in Message BY DEF MdnsInv, TypeOK
<1>3. /\ msg' \in Message /\ msg'.delegate = msg.delegate /\ msg'.begun = msg.begun
      /\ msg'.mNodeData.mHostName \in {msg.mNodeData.mHostName, r.node}
      /\ msg'.mNodeData.mPeerId \in {msg.mNodeData.mPeerId, r.node}
      /\ msg'.mNodeData.mAddress \in {msg.mNodeData.mAddress, r.node}
  <2>1. CASE IsSrv(r) BY <2>1, <1>m, AfterSrv, ZenonT(60)
  <2>2. CASE IsAddress(r) BY <2>2, <1>m, AfterAddress, ZenonT(60)
  <2>3. CASE ~IsSrv(r) /\ ~IsAddress(r) BY <2>3, <1>m, AfterOther, ZenonT(60)
  <2> QED BY <2>1, <2>2, <2>3
<1>4. DelegateIsRead' BY <1>3 DEF DelegateIsRead, MdnsInv
<1>5. \A v : (v = r.node \/ SaysSeen(v)) => SaysSeen(v)' BY <1>1 DEF SaysSeen
<1>6. NodeDataIsSeen' BY <1>3, <1>5 DEF NodeDataIsSeen, MdnsInv, SaysSeen
<1>7. \A i \in Srvs : seen'[i] = seen[i] BY <1>1, <1>2
<1>8. \A i \in Addresses : seen'[i] = seen[i] BY <1>1, <1>2
<1>9. /\ msg.mHasNodePort <=> \E i \in Srvs : IsLast(i, Srvs) /\ seen[i].idOk
      /\ msg.mHasIP <=> \E i \in Addresses : IsLast(i, Addresses) /\ seen[i].parsed
      /\ \A i \in Srvs : IsLast(i, Srvs) /\ msg.mHasNodePort =>
           /\ msg.mNodeData.mPeerId = seen[i].node
           /\ msg.mNodeData.mPort = IF seen[i].parsed THEN seen[i].node ELSE nullptr
      /\ \A i \in Addresses :
           IsLast(i, Addresses) /\ msg.mHasIP => msg.mNodeData.mAddress = seen[i].node
  BY DEF MdnsInv, LastRecordDecides
<1>10. /\ msg'.mHasNodePort <=> \E i \in Srvs' : IsLast(i, Srvs') /\ seen'[i].idOk
       /\ \A i \in Srvs' : IsLast(i, Srvs') /\ msg'.mHasNodePort =>
            /\ msg'.mNodeData.mPeerId = seen'[i].node
            /\ msg'.mNodeData.mPort = IF seen'[i].parsed THEN seen'[i].node ELSE nullptr
  <2>1. CASE IsSrv(r)
    <3>1. /\ msg'.mHasNodePort = r.idOk
          /\ r.idOk => /\ msg'.mNodeData.mPeerId = r.node
                       /\ msg'.mNodeData.mPort = IF r.parsed THEN r.node ELSE nullptr
      BY <2>1, <1>m, AfterSrv, ZenonT(60)
    <3>2. Srvs' = Srvs \cup {n + 1} BY <1>1, <2>1
    <3>3. \A i : IsLast(i, Srvs') <=> i = n + 1
      <4>1. PICK k \in Nat : k = n BY <1>1
      <4>2. PICK T \in SUBSET (1..k) : T = Srvs BY <1>2, <4>1
      <4>3. \A i : IsLast(i, T \cup {k + 1}) <=> i = k + 1 BY LastOf
      <4> HIDE DEF n
      <4> QED BY <3>2, <4>1, <4>2, <4>3
    <3>4. seen'[n + 1] = r /\ n + 1 \in Srvs' BY <1>1, <3>2
    <3>5. msg'.mHasNodePort <=> \E i \in Srvs' : IsLast(i, Srvs') /\ seen'[i].idOk
      BY <3>1, <3>3, <3>4
    <3> QED BY <3>1, <3>3, <3>4, <3>5
  <2>2. CASE ~IsSrv(r)
    <3>1. /\ msg'.mHasNodePort = msg.mHasNodePort
          /\ msg'.mNodeData.mPeerId = msg.mNodeData.mPeerId
          /\ msg'.mNodeData.mPort = msg.mNodeData.mPort
      <4>1. CASE IsAddress(r) BY <4>1, <1>m, AfterAddress, ZenonT(60)
      <4>2. CASE ~IsAddress(r) BY <2>2, <4>2, <1>m, AfterOther, ZenonT(60)
      <4> QED BY <4>1, <4>2
    <3>2. Srvs' = Srvs BY <1>1, <2>2
    <3>3. \A i : IsLast(i, Srvs) => i \in Srvs BY DEF IsLast
    <3>4. msg'.mHasNodePort <=> \E i \in Srvs' : IsLast(i, Srvs') /\ seen'[i].idOk
      BY <3>1, <3>2, <1>7, <1>9
    <3>5. ASSUME NEW i \in Srvs', IsLast(i, Srvs'), msg'.mHasNodePort
          PROVE  /\ msg'.mNodeData.mPeerId = seen'[i].node
                 /\ msg'.mNodeData.mPort = IF seen'[i].parsed THEN seen'[i].node ELSE nullptr
      <4>1. i \in Srvs /\ IsLast(i, Srvs) /\ msg.mHasNodePort BY <3>1, <3>2, <3>5
      <4>2. /\ msg.mNodeData.mPeerId = seen[i].node
            /\ msg.mNodeData.mPort = IF seen[i].parsed THEN seen[i].node ELSE nullptr
        BY <4>1, <1>9
      <4>3. seen'[i] = seen[i] BY <4>1, <1>7
      <4> QED BY <3>1, <4>2, <4>3, ZenonT(60)
    <3> QED BY <3>4, <3>5, ZenonT(60)
  <2> QED BY <2>1, <2>2
<1>11. /\ msg'.mHasIP <=> \E i \in Addresses' : IsLast(i, Addresses') /\ seen'[i].parsed
       /\ \A i \in Addresses' :
            IsLast(i, Addresses') /\ msg'.mHasIP => msg'.mNodeData.mAddress = seen'[i].node
  <2>1. CASE IsAddress(r)
    <3>1. /\ msg'.mHasIP = r.parsed
          /\ r.parsed => msg'.mNodeData.mAddress = r.node
      BY <2>1, <1>m, AfterAddress, ZenonT(60)
    <3>2. Addresses' = Addresses \cup {n + 1} BY <1>1, <2>1
    <3>3. \A i : IsLast(i, Addresses') <=> i = n + 1
      <4>1. PICK k \in Nat : k = n BY <1>1
      <4>2. PICK T \in SUBSET (1..k) : T = Addresses BY <1>2, <4>1
      <4>3. \A i : IsLast(i, T \cup {k + 1}) <=> i = k + 1 BY LastOf
      <4> HIDE DEF n
      <4> QED BY <3>2, <4>1, <4>2, <4>3
    <3> QED BY <3>1, <3>2, <3>3, <1>1
  <2>2. CASE ~IsAddress(r)
    <3>1. msg'.mHasIP = msg.mHasIP /\ msg'.mNodeData.mAddress = msg.mNodeData.mAddress
      <4>1. CASE IsSrv(r) BY <4>1, <1>m, AfterSrv, ZenonT(60)
      <4>2. CASE ~IsSrv(r) BY <2>2, <4>2, <1>m, AfterOther, ZenonT(60)
      <4> QED BY <4>1, <4>2
    <3>2. Addresses' = Addresses BY <1>1, <2>2
    <3> QED BY <3>1, <3>2, <1>8, <1>9
  <2> QED BY <2>1, <2>2
<1>12. LastRecordDecides' BY <1>10, <1>11, Zenon DEF LastRecordDecides, IsLast
<1> QED BY <1>3, <1>4, <1>6, <1>12

-----------------------------------------------------------------------------
(* How many addresses there are up to one of them. *)
LEMMA RankOfFound ==
  ASSUME NEW n \in Nat, NEW F \in SUBSET (1..n)
  PROVE  /\ IsFiniteSet(F) /\ Cardinality(F) \in Nat
         /\ n + 1 \notin F /\ Cardinality(F \cup {n + 1}) = Cardinality(F) + 1
         /\ {j \in F \cup {n + 1} : j <= n + 1} = F \cup {n + 1}
         /\ \A i \in F : /\ {j \in F \cup {n + 1} : j <= i} = {j \in F : j <= i}
                         /\ Cardinality({j \in F : j <= i}) \in 1..Cardinality(F)
<1>1. IsFiniteSet(F)
  <2>1. IsFiniteSet(1..n) BY FS_Interval
  <2> QED BY <2>1, FS_Subset
<1>2. Cardinality(F) \in Nat BY <1>1, FS_CardinalityType
<1>3. n + 1 \notin F OBVIOUS
<1>4. Cardinality(F \cup {n + 1}) = Cardinality(F) + 1 BY <1>1, <1>3, FS_AddElement
<1>5. {j \in F \cup {n + 1} : j <= n + 1} = F \cup {n + 1}
  <2>1. \A j \in F \cup {n + 1} : j <= n + 1 OBVIOUS
  <2> QED BY <2>1, Zenon
<1>6. ASSUME NEW i \in F
      PROVE  /\ {j \in F \cup {n + 1} : j <= i} = {j \in F : j <= i}
             /\ Cardinality({j \in F : j <= i}) \in 1..Cardinality(F)
  <2> DEFINE G == {j \in F : j <= i}
  <2>1. {j \in F \cup {n + 1} : j <= i} = G OBVIOUS
  <2>2. G \in SUBSET F /\ i \in G OBVIOUS
  <2> HIDE DEF G
  <2>3. IsFiniteSet(G) /\ Cardinality(G) <= Cardinality(F) BY <1>1, <2>2, FS_Subset
  <2>4. Cardinality(G) \in Nat /\ Cardinality(G) # 0
    BY <2>2, <2>3, FS_CardinalityType, FS_EmptySet
  <2> QED BY <1>2, <2>1, <2>3, <2>4 DEF G
<1> QED BY <1>1, <1>2, <1>3, <1>4, <1>5, <1>6

LEMMA AddressesKept ==
  ASSUME MdnsInv, NEW r \in Record, msg # nullptr, msg' = Parsed(msg, r), seen' = Append(seen, r)
  PROVE  FirstAddressesKept'
<1>1. PICK n \in Nat : n = Len(seen) BY OneMore DEF MdnsInv
<1>2. /\ \A i \in 1..n : seen'[i] = seen[i]
      /\ seen'[n + 1] = r
      /\ Found' = IF IsFound(r) THEN Found \cup {n + 1} ELSE Found
  BY <1>1, OneMore DEF MdnsInv
<1>3. PICK F \in SUBSET (1..n) : F = Found BY <1>1 DEF Found
<1>m. msg \in Message BY DEF MdnsInv, TypeOK
<1>4. PICK ips \in Seq(Node) : ips = msg.mDiscoveredNodeData.ipAddress
  BY <1>m DEF Message, DiscoveredNodeData
<1>5. PICK rank : rank = [i \in F |-> Cardinality({j \in F : j <= i})] OBVIOUS
<1>6. /\ Len(ips) = IF Cardinality(F) < kMaxIPAddresses THEN Cardinality(F) ELSE kMaxIPAddresses
      /\ \A i \in F : rank[i] <= kMaxIPAddresses => ips[rank[i]] = seen[i].node
  BY <1>3, <1>4, <1>5 DEF MdnsInv, FirstAddressesKept, Rank
<1>7. /\ Cardinality(F) \in Nat /\ \A i \in F : rank[i] \in 1..Cardinality(F)
      /\ Cardinality(F \cup {n + 1}) = Cardinality(F) + 1
  <2>1. /\ Cardinality(F) \in Nat /\ Cardinality(F \cup {n + 1}) = Cardinality(F) + 1
        /\ \A i \in F : Cardinality({j \in F : j <= i}) \in 1..Cardinality(F)
    BY RankOfFound, ZenonT(60)
  <2>2. \A i \in F : rank[i] = Cardinality({j \in F : j <= i}) BY <1>5
  <2> QED BY <2>1, <2>2
<1>8. \A i \in F : seen'[i] = seen[i] BY <1>2
<1>9. CASE ~IsFound(r)
  <2>1. msg'.mDiscoveredNodeData.ipAddress = ips
    <3>1. CASE IsSrv(r) BY <1>4, <1>m, <3>1, AfterSrv, ZenonT(60)
    <3>2. CASE IsAddress(r) BY <1>4, <1>m, <3>2, AfterAddress, ZenonT(60)
    <3>3. CASE ~IsSrv(r) /\ ~IsAddress(r) BY <1>4, <1>9, <1>m, <3>3, AfterOther
    <3> QED BY <3>1, <3>2, <3>3
  <2>2. Found' = F BY <1>2, <1>3, <1>9
  <2>3. \A i \in F : Rank(i)' = rank[i] BY <1>5, <2>2 DEF Rank
  <2> QED BY <1>6, <1>8, <2>1, <2>2, <2>3 DEF FirstAddressesKept
<1>10. CASE IsFound(r)
  <2>1. msg'.mDiscoveredNodeData.ipAddress = IF HasRoom(ips) THEN Append(ips, r.node) ELSE ips
    <3>1. ~IsSrv(r) /\ ~IsAddress(r)
      BY <1>10 DEF IsFound, IsSrv, IsAddress, Operational, Discovery
    <3> QED BY <1>4, <1>10, <1>m, <3>1, AfterOther
  <2>2. PICK new : new = IF HasRoom(ips) THEN Append(ips, r.node) ELSE ips OBVIOUS
  <2>3. Found' = F \cup {n + 1} BY <1>2, <1>3, <1>10
  <2>4. \A i \in F : Rank(i)' = rank[i] BY <1>5, <2>3, RankOfFound DEF Rank
  <2>5. Rank(n + 1)' = Cardinality(F) + 1 BY <1>7, <2>3, RankOfFound DEF Rank
  <2>6. PICK c \in Nat : c = Cardinality(F) BY <1>7
  <2>7. Len(new) = IF c + 1 < kMaxIPAddresses THEN c + 1 ELSE kMaxIPAddresses
    BY <1>6, <2>2, <2>6, MdnsAssumption DEF HasRoom
  <2>8. \A i \in F : rank[i] <= kMaxIPAddresses => new[rank[i]] = seen'[i].node
    <3> SUFFICES ASSUME NEW i \in F, rank[i] <= kMaxIPAddresses PROVE new[rank[i]] = seen'[i].node
      OBVIOUS
    <3>1. PICK k \in 1..c : k = rank[i] BY <1>7, <2>6
    <3>2. k \in 1..Len(ips) BY <1>6, <2>6, <3>1, MdnsAssumption
    <3>3. new[k] = ips[k] BY <2>2, <3>2, RecordFields
    <3> QED BY <1>6, <1>8, <3>1, <3>3
  <2>9. c + 1 <= kMaxIPAddresses => new[c + 1] = r.node
    BY <1>6, <2>2, <2>6, MdnsAssumption, RecordFields DEF HasRoom
  <2>10. Cardinality(Found') = c + 1 BY <1>7, <2>3, <2>6
  <2>11. \A i \in Found' : Rank(i)' <= kMaxIPAddresses => new[Rank(i)'] = seen'[i].node
    BY <1>2, <2>3, <2>4, <2>5, <2>6, <2>8, <2>9
  <2> QED BY <2>1, <2>2, <2>7, <2>10, <2>11 DEF FirstAddressesKept
<1> QED BY <1>9, <1>10

-----------------------------------------------------------------------------
(* A packet begins: nothing is known yet, whoever the delegate is. *)
LEMMA BeginsStep ==
  ASSUME MdnsInv, OnMdnsPacketData
  PROVE  MdnsInv'
<1> USE DEF OnMdnsPacketData, registration
<1>1. seen = << >> /\ seen' = << >> BY DEF MdnsInv, SeenIsOfPacket
<1>2. mDelegate \in Resolver \cup {nullptr} /\ step \in InitStep BY DEF MdnsInv, TypeOK
<1>3. msg' \in Message
  <2>1. NewMessage.mNodeData \in NodeData BY DEF NewMessage, NodeData, Value
  <2>2. NewMessage.mDiscoveredNodeData \in DiscoveredNodeData
    BY DEF NewMessage, DiscoveredNodeData, Value
  <2> QED BY <1>2, <2>1, <2>2 DEF Message, NewMessage
<1>4. TypeOK' BY <1>1, <1>3 DEF MdnsInv, TypeOK
<1>5. Registered' BY DEF MdnsInv, Registered
<1>6. DelegateIsRead' BY DEF MdnsInv, Registered, TypeOK, DelegateIsRead, NewMessage, InitStep
<1>7. SeenIsOfPacket' BY <1>1 DEF SeenIsOfPacket
<1>8. NodeDataIsSeen' BY DEF NodeDataIsSeen, NewMessage, SaysSeen
<1>9. LastRecordDecides'
  <2>1. Srvs' = {} /\ Addresses' = {} BY <1>1 DEF Srvs, Addresses
  <2> QED BY <2>1 DEF LastRecordDecides, NewMessage
<1>10. FirstAddressesKept'
  <2>1. Found' = {} BY <1>1 DEF Found
  <2>2. Cardinality({}) = 0 BY FS_EmptySet
  <2> QED BY <2>1, <2>2, MdnsAssumption DEF FirstAddressesKept, NewMessage
<1>11. ResolvedIsUsable' BY DEF ResolvedIsUsable, NoReport
<1>12. CrashesOnlyDuringInit' BY DEF MdnsInv, CrashesOnlyDuringInit
<1> QED BY <1>4, <1>5, <1>6, <1>7, <1>8, <1>9, <1>10, <1>11, <1>12 DEF MdnsInv

LEMMA ResourceStep ==
  ASSUME MdnsInv, OnResource
  PROVE  MdnsInv'
<1>1. PICK r \in Record : /\ msg # nullptr
                          /\ msg' = Parsed(msg, r)
                          /\ seen' = Append(seen, r)
                          /\ UNCHANGED <<report, crashed, registration>>
  BY DEF OnResource
<1>2. msg' \in Message /\ LastRecordDecides' /\ NodeDataIsSeen' /\ DelegateIsRead'
  BY <1>1, RecordDecides
<1>3. FirstAddressesKept' BY <1>1, AddressesKept
<1>4. TypeOK' BY <1>1, <1>2, OneMore DEF MdnsInv, TypeOK, registration
<1>5. Registered' BY <1>1 DEF MdnsInv, Registered, registration
<1>6. SeenIsOfPacket' BY <1>2, NullAssumption DEF SeenIsOfPacket
<1>7. ResolvedIsUsable' /\ CrashesOnlyDuringInit'
  BY <1>1 DEF MdnsInv, ResolvedIsUsable, CrashesOnlyDuringInit
<1> QED BY <1>2, <1>3, <1>4, <1>5, <1>6, <1>7 DEF MdnsInv

(* A packet ends: nothing is left of it but what is reported. *)
LEMMA NoPacket ==
  ASSUME MdnsInv, msg' = nullptr, seen' = << >>, UNCHANGED registration
  PROVE  /\ TypeOK' /\ Registered' /\ DelegateIsRead' /\ SeenIsOfPacket' /\ NodeDataIsSeen'
         /\ LastRecordDecides' /\ FirstAddressesKept'
<1>1. TypeOK' /\ Registered' BY DEF MdnsInv, TypeOK, Registered, registration
<1>2. DelegateIsRead' /\ SeenIsOfPacket' /\ NodeDataIsSeen'
  BY DEF DelegateIsRead, SeenIsOfPacket, NodeDataIsSeen
<1>3. LastRecordDecides' /\ FirstAddressesKept' BY DEF LastRecordDecides, FirstAddressesKept
<1> QED BY <1>1, <1>2, <1>3

(* A node is resolved from the last SRV and the last address record of the  *)
(* packet.                                                                  *)
LEMMA ResolvedFrom ==
  ASSUME MdnsInv, msg # nullptr, IsResolved(msg)
  PROVE  LET d == msg.mNodeData
         IN  /\ d.mPeerId \in Node /\ d.mAddress \in Node /\ d.mPort \in {d.mPeerId, nullptr}
             /\ \A n \in Node : {seen[i].node : i \in 1..Len(seen)} = {n} =>
                  d.mPeerId = n /\ d.mAddress = n /\ d.mHostName \in {n, nullptr}
<1> DEFINE d == msg.mNodeData
<1>1. msg.mHasIP /\ msg.mHasNodePort BY DEF IsResolved
<1>2. PICK i \in Srvs : IsLast(i, Srvs) /\ seen[i].idOk
  BY <1>1 DEF MdnsInv, LastRecordDecides
<1>3. PICK j \in Addresses : IsLast(j, Addresses) /\ seen[j].parsed
  BY <1>1 DEF MdnsInv, LastRecordDecides
<1>4. d.mPeerId = seen[i].node /\ d.mPort \in {seen[i].node, nullptr}
  BY <1>1, <1>2 DEF MdnsInv, LastRecordDecides
<1>5. d.mAddress = seen[j].node BY <1>1, <1>3 DEF MdnsInv, LastRecordDecides
<1>6. \A k \in 1..Len(seen) : seen[k].node \in Node BY RecordFields DEF MdnsInv, TypeOK
<1>7. i \in 1..Len(seen) /\ j \in 1..Len(seen) BY DEF Srvs, Addresses
<1>8. SaysSeen(d.mHostName) BY DEF MdnsInv, NodeDataIsSeen
<1>9. ASSUME NEW n \in Node, {seen[k].node : k \in 1..Len(seen)} = {n}
      PROVE  d.mPeerId = n /\ d.mAddress = n /\ d.mHostName \in {n, nullptr}
  <2>1. \A k \in 1..Len(seen) : seen[k].node = n BY <1>9
  <2> QED BY <1>4, <1>5, <1>7, <1>8, <2>1 DEF SaysSeen
<1> QED BY <1>4, <1>5, <1>6, <1>7, <1>9

LEMMA CompleteStep ==
  ASSUME MdnsInv, OnComplete
  PROVE  MdnsInv'
<1> DEFINE kind == CASE IsValid(msg.mDiscoveredNodeData) -> "discovered"
                     [] ~IsValid(msg.mDiscoveredNodeData) /\ IsResolved(msg) -> "resolved"
                     [] OTHER -> "none"
<1>1. /\ msg # nullptr /\ msg' = nullptr /\ seen' = << >> /\ UNCHANGED registration
      /\ IF kind # "none" /\ msg.delegate = nullptr
         THEN crashed' = msg.begun /\ UNCHANGED report
         ELSE /\ report' = [kind |-> kind, to |-> msg.delegate,
                            data |-> IF kind = "discovered" THEN msg.mDiscoveredNodeData ELSE msg.mNodeData,
                            nodes |-> {seen[i].node : i \in 1..Len(seen)}]
              /\ UNCHANGED crashed
  BY DEF OnComplete
<1>2. kind = "resolved" => IsResolved(msg) OBVIOUS
<1> HIDE DEF kind
<1>3. CASE kind # "none" /\ msg.delegate = nullptr
  <2>1. msg.begun \in {"clear", "set"}
    BY <1>1, <1>3, MdnsAssumption DEF MdnsInv, DelegateIsRead
  <2>2. ResolvedIsUsable' /\ CrashesOnlyDuringInit'
    BY <1>1, <1>3, <2>1 DEF MdnsInv, ResolvedIsUsable, CrashesOnlyDuringInit
  <2> QED BY <1>1, <2>2, NoPacket DEF MdnsInv
<1>4. CASE ~(kind # "none" /\ msg.delegate = nullptr)
  <2>1. CrashesOnlyDuringInit' BY <1>1, <1>4 DEF MdnsInv, CrashesOnlyDuringInit
  <2>2. ASSUME report'.kind = "resolved"
        PROVE  /\ IsResolved(msg) /\ report'.data = msg.mNodeData
               /\ report'.nodes = {seen[i].node : i \in 1..Len(seen)}
    BY <1>1, <1>2, <1>4, <2>2
  <2>3. ResolvedIsUsable'
    BY <1>1, <2>2, ResolvedFrom, MdnsAssumption DEF ResolvedIsUsable
  <2> QED BY <1>1, <2>1, <2>3, NoPacket DEF MdnsInv
<1> QED BY <1>3, <1>4

LEMMA FailsStep ==
  ASSUME MdnsInv, ParsePacketFails
  PROVE  MdnsInv'
<1>1. ResolvedIsUsable' /\ CrashesOnlyDuringInit'
  BY DEF MdnsInv, ParsePacketFails, ResolvedIsUsable, CrashesOnlyDuringInit
<1> QED BY <1>1, NoPacket DEF MdnsInv, ParsePacketFails

(* The steps of init do not touch the packet under way. *)
LEMMA PacketStays ==
  ASSUME MdnsInv, UNCHANGED packet
  PROVE  /\ DelegateIsRead' /\ SeenIsOfPacket' /\ NodeDataIsSeen'
         /\ LastRecordDecides' /\ FirstAddressesKept' /\ ResolvedIsUsable'
         /\ CrashesOnlyDuringInit'
<1> USE DEF MdnsInv, packet
<1>1. DelegateIsRead' /\ SeenIsOfPacket' /\ CrashesOnlyDuringInit'
  BY DEF DelegateIsRead, SeenIsOfPacket, CrashesOnlyDuringInit
<1>2. NodeDataIsSeen' BY DEF NodeDataIsSeen, SaysSeen
<1>3. LastRecordDecides' BY DEF LastRecordDecides, Srvs, Addresses, IsLast
<1>4. FirstAddressesKept' BY DEF FirstAddressesKept, Found, Rank
<1>5. ResolvedIsUsable' BY DEF ResolvedIsUsable
<1> QED BY <1>1, <1>2, <1>3, <1>4, <1>5

LEMMA InitStepKeeps ==
  ASSUME MdnsInv, create \/ Start \/ Registers
  PROVE  MdnsInv'
<1>1. UNCHANGED packet BY DEF create, Start, Registers, SetResolverDelegate
<1>2. TypeOK' /\ Registered'
  <2> USE DEF MdnsInv, TypeOK, Registered, InitStep, packet
  <2>1. CASE create BY <2>1 DEF create
  <2>2. CASE Start BY <2>2 DEF Start
  <2>3. CASE Registers BY <2>3 DEF Registers, SetResolverDelegate
  <2> QED BY <2>1, <2>2, <2>3
<1> QED BY <1>1, <1>2, PacketStays DEF MdnsInv

-----------------------------------------------------------------------------
(* The inductive invariant holds in every state. *)
THEOREM Invariance == Spec => []MdnsInv
<1>1. ASSUME Init PROVE MdnsInv
  <2>1. step = "done" /\ server = FALSE /\ seen = << >> BY <1>1 DEF Init
  <2>2. step \in InitStep /\ seen \in Seq(Record) BY <2>1 DEF InitStep
  <2>3. server \in BOOLEAN BY <2>1
  <2>4. TypeOK BY <1>1, <2>2, <2>3, Zenon DEF Init, TypeOK
  <2>5. Registered BY <2>1 DEF Registered
  <2>6. DelegateIsRead /\ SeenIsOfPacket /\ NodeDataIsSeen /\ LastRecordDecides /\ FirstAddressesKept
    BY <1>1 DEF Init, DelegateIsRead, SeenIsOfPacket, NodeDataIsSeen, LastRecordDecides, FirstAddressesKept
  <2>7. ResolvedIsUsable /\ CrashesOnlyDuringInit
    BY <1>1 DEF Init, NoReport, ResolvedIsUsable, CrashesOnlyDuringInit
  <2> QED BY <2>4, <2>5, <2>6, <2>7 DEF MdnsInv
<1>2. ASSUME MdnsInv, [Next]_vars PROVE MdnsInv'
  <2>1. CASE UNCHANGED vars
    <3>1. TypeOK' /\ Registered' BY <1>2, <2>1 DEF MdnsInv, TypeOK, Registered, vars
    <3> QED BY <1>2, <2>1, <3>1, PacketStays DEF MdnsInv, vars, packet
  <2>2. CASE create \/ Start \/ Registers BY <1>2, <2>2, InitStepKeeps
  <2>3. CASE OnMdnsPacketData BY <1>2, <2>3, BeginsStep
  <2>4. CASE OnResource BY <1>2, <2>4, ResourceStep
  <2>5. CASE ParsePacketFails BY <1>2, <2>5, FailsStep
  <2>6. CASE OnComplete BY <1>2, <2>6, CompleteStep
  <2> QED BY <1>2, <2>1, <2>2, <2>3, <2>4, <2>5, <2>6 DEF Next
<1> QED BY <1>1, <1>2, PTL DEF Spec

(* However many records a packet has, the last SRV and the last address     *)
(* record decide whether a node is resolved, and as what.                   *)
THEOREM LastRecordAlwaysDecides == Spec => []LastRecordDecides
<1>1. MdnsInv => LastRecordDecides BY DEF MdnsInv
<1> QED BY <1>1, Invariance, PTL

(* OnDiscoveredNodeIPAddress keeps the first kMaxIPAddresses addresses, in  *)
(* their order, and never writes past the array, whatever its length.       *)
THEOREM FirstAddressesAlwaysKept == Spec => []FirstAddressesKept
<1>1. MdnsInv => FirstAddressesKept BY DEF MdnsInv
<1> QED BY <1>1, Invariance, PTL

(* The delegate is told of a resolved node only with an id and an address;  *)
(* a packet about one node reports nothing of another.                      *)
THEOREM ResolvedIsAlwaysUsable == Spec => []ResolvedIsUsable
<1>1. MdnsInv => ResolvedIsUsable BY DEF MdnsInv
<1> QED BY <1>1, Invariance, PTL

(* A null delegate is only called for a packet that began while init was    *)
(* between Start and the registration, however often init is called.        *)
THEOREM CrashesAreDuringInit == Spec => []CrashesOnlyDuringInit
<1>1. MdnsInv => CrashesOnlyDuringInit BY DEF MdnsInv
<1> QED BY <1>1, Invariance, PTL

==============================================================================
