---------------------------- MODULE MdnsDiscovery ----------------------------
(***************************************************************************)
(* src/mdns_parse_example: MDNSResolve::init starts the mDNS server and    *)
(* registers itself with the one MdnsParser; for every packet the event    *)
(* loop builds an MdnsMessage, feeds it the records one by one and, when   *)
(* the packet has parsed, reports what it found to the delegate.           *)
(*                                                                         *)
(* A value of a record (name, id, port, address) is represented by the     *)
(* node the record is about.  The CHIP library is external.                *)
(***************************************************************************)
EXTENDS Integers, Sequences, FiniteSets

CONSTANTS
  Node,             \* the nodes the records are about
  Resolver,         \* the MDNSResolve objects
  nullptr,          \* also an unset value, and the port of an unparsed record
  kMaxIPAddresses,
  MaxRecords        \* records in a packet

ASSUME MdnsAssumption ==
  /\ nullptr \notin Node \cup Resolver
  /\ kMaxIPAddresses \in Nat /\ MaxRecords \in Nat

VARIABLES
  step,       \* of MDNSResolve::init: "start", "clear", "set", or "done"
  caller,     \* the resolver whose init runs or ran last
  server,     \* whether the mDNS server receives packets
  mDelegate,  \* of the parser
  msg,        \* the MdnsMessage of the packet under way, or nullptr
  seen,       \* its records so far
  report,     \* the last call of the delegate
  crashed     \* a call through nullptr, and when its packet had begun

vars == <<step, caller, server, mDelegate, msg, seen, report, crashed>>

-----------------------------------------------------------------------------
(* Records.  A name is told by the service it has as a part: HasQNamePart.  *)
(* The commissionable and the commissioner service are treated alike, and   *)
(* so are A and AAAA records.  parsed: the data is well formed; idOk: the   *)
(* name holds an id.                                                        *)
Operational == "operational"
Discovery   == "discovery"

RecordOf(types, services, parsed, idOk) ==
  [type : types, service : services, node : Node, parsed : parsed, idOk : idOk]

Record ==
  RecordOf({"SRV"}, {Operational}, BOOLEAN, BOOLEAN)
    \cup RecordOf({"SRV"}, {Discovery}, BOOLEAN, {TRUE})
    \cup RecordOf({"TXT", "A"}, {Operational, Discovery}, {TRUE}, {TRUE})
    \cup RecordOf({"SRV", "PTR", "TXT", "A", "NSEC"}, {"other"}, {TRUE}, {TRUE})
    \cup RecordOf({"PTR", "TXT", "A"}, {"other"}, {FALSE}, {TRUE})

\* MdnsMessage, ResolvedNodeData and DiscoveredNodeData.
Value == Node \cup {nullptr}

NodeData ==
  [mHostName : Value, mPeerId : Value, mPort : Value, mAddress : Value, txt : SUBSET Node]

DiscoveredNodeData ==
  [hostName : Value, instanceName : Value, port : Value, ipAddress : Seq(Node), txt : SUBSET Node]

InitStep == {"start", "clear", "set", "done"}

Message ==
  [delegate : Resolver \cup {nullptr}, begun : InitStep, mNodeData : NodeData,
   mDiscoveredNodeData : DiscoveredNodeData, mHasIP : BOOLEAN, mHasNodePort : BOOLEAN]

ASSUME NullAssumption == nullptr \notin Message

NoReport == [kind |-> "none", to |-> nullptr, data |-> nullptr, nodes |-> {}]

NewMessage ==
  [delegate |-> mDelegate, begun |-> step,
   mNodeData |-> [mHostName |-> nullptr, mPeerId |-> nullptr, mPort |-> nullptr,
                  mAddress |-> nullptr, txt |-> {}],
   mDiscoveredNodeData |-> [hostName |-> nullptr, instanceName |-> nullptr, port |-> nullptr,
                            ipAddress |-> << >>, txt |-> {}],
   mHasIP |-> FALSE, mHasNodePort |-> FALSE]

Init ==
  /\ step = "done" /\ caller = nullptr
  /\ server = FALSE /\ mDelegate = nullptr
  /\ msg = nullptr /\ seen = << >>
  /\ report = NoReport /\ crashed = nullptr

-----------------------------------------------------------------------------
(* MDNSResolve::init, on the thread of its caller.  create() only makes     *)
(* the parser, once, and registers it with the server.                      *)
packet == <<msg, seen, report, crashed>>

create == \E r \in Resolver :
  /\ step = "done"
  /\ caller' = r
  /\ step' = "start"
  /\ UNCHANGED <<server, mDelegate, packet>>

\* The old server is shut down; the result of Start() is not looked at.
Start ==
  /\ step = "start"
  /\ server' \in BOOLEAN
  /\ step' = "clear"
  /\ UNCHANGED <<caller, mDelegate, packet>>

SetResolverDelegate(from, delegate, to) ==
  /\ step = from
  /\ mDelegate' = delegate
  /\ step' = to
  /\ UNCHANGED <<caller, server, packet>>

\* A plausible bug: the two calls are swapped.
ClearedLast == SetResolverDelegate("clear", caller, "set") \/ SetResolverDelegate("set", nullptr, "done")
Registers   == SetResolverDelegate("clear", nullptr, "set") \/ SetResolverDelegate("set", caller, "done")

-----------------------------------------------------------------------------
(* One record, in the message m. *)

\* An SRV record that does not parse is used all the same: it has no host
\* name and port 0.  The host name is kept even if the id cannot be read.
OnOperationalSrvRecord(m, r) ==
  LET named == [m EXCEPT !.mNodeData.mHostName = IF r.parsed THEN r.node ELSE @]
  IN  IF r.idOk
      THEN [named EXCEPT !.mNodeData.mPeerId = r.node,
                         !.mNodeData.mPort = IF r.parsed THEN r.node ELSE nullptr,
                         !.mHasNodePort = TRUE]
      ELSE [named EXCEPT !.mHasNodePort = FALSE]

OnCommissionableNodeSrvRecord(m, r) ==
  [m EXCEPT !.mDiscoveredNodeData.hostName = IF r.parsed THEN r.node ELSE @,
            !.mDiscoveredNodeData.instanceName = r.node,
            !.mDiscoveredNodeData.port = IF r.parsed THEN r.node ELSE nullptr]

OnOperationalIPAddress(m, r) ==
  [m EXCEPT !.mNodeData.mAddress = r.node, !.mHasIP = TRUE]

\* A plausible bug: the bound is off by one.
RoomForOneMore(ips) == Len(ips) <= kMaxIPAddresses
HasRoom(ips)        == Len(ips) < kMaxIPAddresses

OnDiscoveredNodeIPAddress(m, r) ==
  [m EXCEPT !.mDiscoveredNodeData.ipAddress = IF HasRoom(@) THEN Append(@, r.node) ELSE @]

\* A plausible bug: an address that does not parse is ignored.
BadAddressIgnored(m) == m
OnBadAddress(m)      == [m EXCEPT !.mHasIP = FALSE]

OnSrv(m, r) ==
  CASE r.service = Operational  -> OnOperationalSrvRecord(m, r)
    [] r.service = Discovery  -> OnCommissionableNodeSrvRecord(m, r)
    [] OTHER                    -> m

\* Whatever service a PTR record is about, it names the discovered instance.
OnPtr(m, r) == [m EXCEPT !.mDiscoveredNodeData.instanceName = IF r.parsed THEN r.node ELSE @]

OnTxt(m, r) ==
  CASE r.parsed /\ r.service = Discovery -> [m EXCEPT !.mDiscoveredNodeData.txt = @ \cup {r.node}]
    [] r.parsed /\ r.service = Operational -> [m EXCEPT !.mNodeData.txt = @ \cup {r.node}]
    [] OTHER                               -> m

OnAddress(m, r) ==
  CASE ~r.parsed                            -> OnBadAddress(m)
    [] r.parsed /\ r.service = Operational  -> OnOperationalIPAddress(m, r)
    [] r.parsed /\ r.service = Discovery  -> OnDiscoveredNodeIPAddress(m, r)
    [] OTHER                                -> m

Parsed(m, r) ==
  CASE r.type = "SRV" -> OnSrv(m, r)
    [] r.type = "PTR" -> OnPtr(m, r)
    [] r.type = "TXT" -> OnTxt(m, r)
    [] r.type = "A"   -> OnAddress(m, r)
    [] OTHER          -> m

-----------------------------------------------------------------------------
(* OnMdnsPacketData, on the event loop: it reads mDelegate once. *)
registration == <<step, caller, server, mDelegate>>

OnMdnsPacketData ==
  /\ server /\ msg = nullptr /\ crashed = nullptr
  /\ msg' = NewMessage
  /\ report' = NoReport
  /\ UNCHANGED <<seen, crashed, registration>>

OnResource == \E r \in Record :
  /\ msg # nullptr /\ Len(seen) < MaxRecords
  /\ msg' = Parsed(msg, r)
  /\ seen' = Append(seen, r)
  /\ UNCHANGED <<report, crashed, registration>>

\* The packet turns out to be malformed: its message is dropped.
ParsePacketFails ==
  /\ msg # nullptr
  /\ msg' = nullptr
  /\ seen' = << >>
  /\ UNCHANGED <<report, crashed, registration>>

\* DiscoveredNodeData::IsValid(): a host name and an address.
IsValid(d) == d.hostName # nullptr /\ d.ipAddress # << >>

\* A plausible bug: either of the two is enough.
OneIsEnough(m) == m.mHasIP \/ m.mHasNodePort
IsResolved(m)  == m.mHasIP /\ m.mHasNodePort

\* A packet that discovers a node and resolves another only reports the first.
OnComplete ==
  LET kind == CASE IsValid(msg.mDiscoveredNodeData) -> "discovered"
                [] ~IsValid(msg.mDiscoveredNodeData) /\ IsResolved(msg) -> "resolved"
                [] OTHER -> "none"
  IN  /\ msg # nullptr
      /\ msg' = nullptr
      /\ seen' = << >>
      /\ IF kind # "none" /\ msg.delegate = nullptr
         THEN crashed' = msg.begun /\ UNCHANGED report
         ELSE /\ report' = [kind |-> kind, to |-> msg.delegate,
                            data |-> IF kind = "discovered" THEN msg.mDiscoveredNodeData ELSE msg.mNodeData,
                            nodes |-> {seen[i].node : i \in 1..Len(seen)}]
              /\ UNCHANGED crashed
      /\ UNCHANGED registration

Next ==
  \/ create \/ Start \/ Registers
  \/ OnMdnsPacketData \/ OnResource \/ ParsePacketFails \/ OnComplete

Spec == Init /\ [][Next]_vars

-----------------------------------------------------------------------------
\* The records of the packet so far, by number.
Srvs      == {i \in 1..Len(seen) : seen[i].type = "SRV" /\ seen[i].service = Operational}
Addresses == {i \in 1..Len(seen) : seen[i].type = "A" /\
                                   (~seen[i].parsed \/ seen[i].service = Operational)}
IsLast(i, S) == i \in S /\ \A j \in S : j <= i

(* The flags that decide whether a node is resolved follow the last SRV and *)
(* the last address record of the packet, whatever came in between: the     *)
(* port and the id are then those of that SRV record (port 0 if it did not  *)
(* parse), the address is that of that address record.                      *)
LastRecordDecides == msg # nullptr =>
  /\ msg.mHasNodePort <=> \E i \in Srvs : IsLast(i, Srvs) /\ seen[i].idOk
  /\ msg.mHasIP <=> \E i \in Addresses : IsLast(i, Addresses) /\ seen[i].parsed
  /\ \A i \in Srvs : IsLast(i, Srvs) /\ msg.mHasNodePort =>
       /\ msg.mNodeData.mPeerId = seen[i].node
       /\ msg.mNodeData.mPort = IF seen[i].parsed THEN seen[i].node ELSE nullptr
  /\ \A i \in Addresses : IsLast(i, Addresses) /\ msg.mHasIP => msg.mNodeData.mAddress = seen[i].node

\* The addresses of the discovery services, and how many there are up to one.
Found   == {i \in 1..Len(seen) : /\ seen[i].type = "A" /\ seen[i].parsed
                                 /\ seen[i].service = Discovery}
Rank(i) == Cardinality({j \in Found : j <= i})

(* The addresses of a discovered node are the first kMaxIPAddresses of the  *)
(* packet, in order; the array never overflows.                             *)
FirstAddressesKept == msg # nullptr =>
  LET ips == msg.mDiscoveredNodeData.ipAddress
  IN  /\ Len(ips) = IF Cardinality(Found) < kMaxIPAddresses THEN Cardinality(Found) ELSE kMaxIPAddresses
      /\ \A i \in Found : Rank(i) <= kMaxIPAddresses => ips[Rank(i)] = seen[i].node

(* A resolved node is reported with an id and an address; when all records  *)
(* of the packet are about one node, as the comment in                      *)
(* OnOperationalIPAddress assumes, everything reported is about that node.  *)
ResolvedIsUsable == report.kind = "resolved" =>
  /\ report.data.mPeerId # nullptr /\ report.data.mAddress # nullptr
  /\ report.data.mPort \in {report.data.mPeerId, nullptr}
  /\ \A n \in Node : report.nodes = {n} =>
       report.data.mPeerId = n /\ report.data.mAddress = n /\ report.data.mHostName \in {n, nullptr}

(* A packet is only lost to a null delegate if it began while init was      *)
(* running: between the start of the server and the registration.  Once     *)
(* init is done no packet crashes, not even one that overlaps the next init. *)
CrashesOnlyDuringInit == crashed \in {nullptr, "clear", "set"}

==============================================================================
