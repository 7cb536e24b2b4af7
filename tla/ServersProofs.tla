---------------------------- MODULE ServersProofs ----------------------------
(***************************************************************************)
(* For any number of clients, slots and descriptors, any backlog, and with *)
(* or without failing system calls: the safety of the three servers of     *)
(* server.c.  NetInv is what they share of the kernel's state, TableInv of *)
(* the table; each server adds what its loop relies on.                    *)
(***************************************************************************)
EXTENDS MCServers, CommonFacts

USE DEF NoFd, Stdin, ListenFd

-----------------------------------------------------------------------------
(* The network, whichever server runs. *)

\* The connections in the backlog are distinct, have come and have no
\* descriptor; no two connections have the same descriptor.
NetInv ==
  /\ peer \in [Conn -> {"away", "up", "closed", "reset"}]
  /\ unread \in [Conn -> BOOLEAN]
  /\ backlog \in Seq(Conn)
  /\ sock \in [Conn -> ClientFd \cup {NoFd}]
  /\ \A i \in 1..Len(backlog) : sock[backlog[i]] = NoFd /\ peer[backlog[i]] # "away"
  /\ \A i, j \in 1..Len(backlog) : backlog[i] = backlog[j] => i = j
  /\ \A c \in Conn : peer[c] = "away" => sock[c] = NoFd
  /\ \A c, d \in Conn : sock[c] = sock[d] /\ sock[c] # NoFd => c = d

\* There is one connection behind an open descriptor.
LEMMA ConnOfOpen ==
  ASSUME NetInv, NEW fd \in OpenFds
  PROVE  fd \in ClientFd /\ ConnOf(fd) \in Conn /\ sock[ConnOf(fd)] = fd
BY ServerAssumption DEF NetInv, OpenFds, Accepted, ConnOf, ClientFd

\* accept() returns a descriptor that nobody has.
LEMMA NewFdIsFree ==
  ASSUME CanAccept
  PROVE  NewFd \in ClientFd /\ NewFd \notin OpenFds
<1>1. FreeFds \in SUBSET Nat /\ FreeFds # {}
  BY ServerAssumption DEF CanAccept, FreeFds, ClientFd
<1>2. NewFd \in FreeFds BY <1>1, MinIsLeast DEF NewFd
<1> QED BY <1>2 DEF FreeFds

\* What clients do.
LEMMA ClientsKeepNet ==
  ASSUME NetInv, Clients
  PROVE  NetInv' /\ UNCHANGED sock
<1> PICK c \in Conn : Connect(c) \/ Send(c) \/ Close(c) \/ Reset(c) BY DEF Clients
<1>1. CASE Connect(c)
  <2>1. \A i \in 1..Len(backlog) : backlog[i] # c BY <1>1 DEF NetInv, Connect
  <2> QED BY <1>1, <2>1 DEF NetInv, Connect
<1>2. CASE Send(c) BY <1>2 DEF NetInv, Send
<1>3. CASE Close(c) BY <1>3 DEF NetInv, Close
<1>4. CASE Reset(c) BY <1>4 DEF NetInv, Reset
<1> QED BY <1>1, <1>2, <1>3, <1>4

\* accept() opens exactly one descriptor.
LEMMA AcceptKeepsNet ==
  ASSUME NetInv, CanAccept, AcceptCall
  PROVE  NetInv' /\ OpenFds' = OpenFds \cup {NewFd}
<1>1. NewFd \in ClientFd /\ NewFd \notin OpenFds BY NewFdIsFree
<1>2. Head(backlog) \in Conn /\ sock[Head(backlog)] = NoFd /\ peer[Head(backlog)] # "away"
  BY DEF NetInv, CanAccept
<1>3. OpenFds' = OpenFds \cup {NewFd}
  BY <1>1, <1>2, ServerAssumption DEF OpenFds, Accepted, AcceptCall, NetInv, ClientFd
<1>4. backlog # << >> BY DEF CanAccept
<1>5. \A i \in 1..Len(backlog') : backlog'[i] = backlog[i + 1] /\ i + 1 \in 1..Len(backlog)
  BY <1>4 DEF NetInv, AcceptCall
<1>6. \A i \in 1..Len(backlog') : backlog'[i] # Head(backlog)
  BY <1>4, <1>5 DEF NetInv
<1>7. backlog' \in Seq(Conn) BY <1>4 DEF NetInv, AcceptCall
<1>8. \A c \in Conn : sock[c] # NewFd BY <1>1, ServerAssumption DEF OpenFds, Accepted, NetInv, ClientFd
<1>9. NetInv'
  <2>1. /\ sock' = [sock EXCEPT ![Head(backlog)] = NewFd] /\ UNCHANGED <<peer, unread>>
        /\ sock' \in [Conn -> ClientFd \cup {NoFd}]
    BY <1>1 DEF NetInv, AcceptCall
  <2>2. \A i \in 1..Len(backlog') : sock'[backlog'[i]] = NoFd /\ peer'[backlog'[i]] # "away"
    BY <1>5, <1>6, <1>7, <2>1 DEF NetInv
  <2>3. \A i, j \in 1..Len(backlog') : backlog'[i] = backlog'[j] => i = j
    BY <1>4, <1>5 DEF NetInv, AcceptCall
  <2>4. \A c, d \in Conn : sock'[c] = sock'[d] /\ sock'[c] # NoFd => c = d
    BY <1>2, <1>8, <2>1 DEF NetInv
  <2>5. \A c \in Conn : peer'[c] = "away" => sock'[c] = NoFd BY <1>2, <2>1 DEF NetInv
  <2> QED BY <1>7, <2>1, <2>2, <2>3, <2>4, <2>5 DEF NetInv
<1> QED BY <1>3, <1>9

\* read() and recv() open and close none.
LEMMA ReadKeepsNet ==
  ASSUME NetInv, NEW fd, ReadCall(fd), UNCHANGED sock
  PROVE  NetInv' /\ OpenFds' = OpenFds
<1>1. OpenFds' = OpenFds BY DEF OpenFds, Accepted
<1>2. CASE fd \notin OpenFds BY <1>1, <1>2 DEF ReadCall, NetInv
<1>3. CASE fd \in OpenFds
  <2>1. PICK c \in Conn : c = ConnOf(fd) BY <1>3, ConnOfOpen
  <2>2. sock[c] = fd /\ fd # NoFd
    BY <1>3, <2>1, ConnOfOpen, ServerAssumption DEF ClientFd
  <2>3. /\ peer' = [peer EXCEPT ![c] = IF @ = "reset" /\ ~unread[c] THEN "closed" ELSE @]
        /\ unread' = [unread EXCEPT ![c] = FALSE]
        /\ UNCHANGED backlog
    BY <1>3, <2>1 DEF ReadCall
  <2> QED BY <1>1, <2>2, <2>3 DEF NetInv
<1> QED BY <1>1, <1>2, <1>3

-----------------------------------------------------------------------------
(* The table, with slots 0 .. N. *)

TableInv(N) ==
  /\ client_fd \in [0..N -> {NoFd, Stdin, ListenFd} \cup ClientFd]
  /\ \A n \in 0..N :
       /\ client_fd[n] \in {NoFd, Stdin, ListenFd} \cup OpenFds
       /\ client_fd[n] = ListenFd => n = 0
       /\ client_fd[n] # NoFd => \A k \in (0..N) \ {n} : client_fd[k] # client_fd[n]

\* It implies what the runs check.
LEMMA TableInvIsSound ==
  ASSUME NEW N \in Nat, TableInv(N)
  PROVE  TableSound
BY DEF TableInv, TableSound, Slot

\* The loops over the table that break at the first match change one slot
\* with the old value, or nothing.
LEMMA FirstReplacedIs ==
  ASSUME NEW N \in Nat, TableInv(N), NEW old, NEW new
  PROVE  \/ /\ \A n \in 0..N : client_fd[n] # old
            /\ FirstReplaced(client_fd, old, new) = client_fd
         \/ \E n \in 0..N : /\ client_fd[n] = old
                            /\ FirstReplaced(client_fd, old, new) = [client_fd EXCEPT ![n] = new]
<1> DEFINE found == {n \in Slot : client_fd[n] = old}
<1>1. Slot = 0..N BY DEF Slot, TableInv
<1>2. CASE found = {} BY <1>1, <1>2 DEF FirstReplaced
<1>3. CASE found # {}
  <2>1. found \in SUBSET Nat BY <1>1
  <2>2. Min(found) \in found
    <3> HIDE DEF found
    <3> QED BY <1>3, <2>1, MinIsLeast
  <2> QED BY <1>1, <1>3, <2>2 DEF FirstReplaced
<1> QED BY <1>2, <1>3

\* Slot 0 is given to the listener.
LEMMA ListenerKeepsTable ==
  ASSUME NEW N \in Nat, NetInv, TableInv(N), UNCHANGED sock,
         client_fd' = [client_fd EXCEPT ![0] = ListenFd]
  PROVE  TableInv(N)'
<1>1. OpenFds' = OpenFds BY DEF OpenFds, Accepted
<1>2. \A fd \in OpenFds : fd > 3 BY ConnOfOpen, ServerAssumption DEF ClientFd
<1> QED BY <1>1, <1>2, ServerAssumption DEF TableInv, ClientFd

\* A new connection gets an empty slot, or none.
LEMMA AcceptKeepsTable ==
  ASSUME NEW N \in Nat, NetInv, TableInv(N), CanAccept, AcceptCall,
         client_fd' \in {client_fd, FirstReplaced(client_fd, NoFd, NewFd)}
  PROVE  TableInv(N)'
<1>1. OpenFds' = OpenFds \cup {NewFd} BY AcceptKeepsNet
<1>2. NewFd \in ClientFd /\ NewFd \notin OpenFds BY NewFdIsFree
<1>3. \A n \in 0..N : client_fd[n] # NewFd /\ NewFd > 3
  BY <1>2, ServerAssumption DEF TableInv, ClientFd
<1>4. CASE client_fd' = client_fd BY <1>1, <1>4 DEF TableInv
<1>5. ASSUME NEW n \in 0..N, client_fd[n] = NoFd, client_fd' = [client_fd EXCEPT ![n] = NewFd]
      PROVE  TableInv(N)'
  BY <1>1, <1>2, <1>3, <1>5 DEF TableInv
<1> QED BY <1>4, <1>5, FirstReplacedIs

\* A slot is emptied.
LEMMA EmptyKeepsTable ==
  ASSUME NEW N \in Nat, NetInv, TableInv(N), UNCHANGED sock, NEW fd,
         client_fd' \in {client_fd, FirstReplaced(client_fd, fd, NoFd)}
  PROVE  TableInv(N)'
<1>1. OpenFds' = OpenFds BY DEF OpenFds, Accepted
<1>2. CASE client_fd' = client_fd BY <1>1, <1>2 DEF TableInv
<1>3. ASSUME NEW n \in 0..N, client_fd' = [client_fd EXCEPT ![n] = NoFd]
      PROVE  TableInv(N)'
  BY <1>1, <1>3 DEF TableInv
<1> QED BY <1>2, <1>3, FirstReplacedIs

LEMMA FrameKeepsTable ==
  ASSUME NEW N \in Nat, TableInv(N), UNCHANGED <<sock, client_fd>>
  PROVE  TableInv(N)' /\ OpenFds' = OpenFds
BY DEF TableInv, OpenFds, Accepted

-----------------------------------------------------------------------------
(* The select server.  Descriptors that select() reported are still open    *)
(* and, from the slot of the scan on, still readable.                       *)

\* What the select server shares with the others does not depend on the
\* number of slots.
LEMMA SelectShares ==
  /\ Select!ClientFd = ClientFd /\ Select!OpenFds = OpenFds /\ Select!Slot = Slot
  /\ Select!CanAccept = CanAccept /\ Select!NewFd = NewFd
  /\ Select!AcceptCall <=> AcceptCall
  /\ Select!Clients <=> Clients
  /\ Select!ServerTypeOK <=>
       /\ peer \in [Conn -> {"away", "up", "closed", "reset"}]
       /\ unread \in [Conn -> BOOLEAN]
       /\ backlog \in Seq(Conn)
       /\ sock \in [Conn -> ClientFd \cup {NoFd}]
       /\ client_fd \in [0..SelectAccept -> {NoFd, Stdin, ListenFd} \cup ClientFd]
       /\ pc \in {"wait", "scan", "blocked", "exited"}
  /\ \A fds : Select!ReadyOf(fds) = ReadyOf(fds)
  /\ \A t, old, new : Select!FirstReplaced(t, old, new) = FirstReplaced(t, old, new)
  /\ \A fd : /\ Select!ReadResult(fd) = ReadResult(fd)
             /\ Select!ReadCall(fd) <=> ReadCall(fd)
<1> USE DEF Select!NoFd, Select!Stdin, Select!ListenFd, Select!Min, Min
<1>1. /\ Select!ClientFd = ClientFd /\ Select!OpenFds = OpenFds /\ Select!Slot = Slot
      /\ Select!FreeFds = FreeFds
  BY DEF Select!ClientFd, ClientFd, Select!OpenFds, OpenFds, Select!Accepted, Accepted,
         Select!Slot, Slot, Select!FreeFds, FreeFds
<1>2. /\ Select!CanAccept = CanAccept /\ Select!NewFd = NewFd
      /\ Select!AcceptCall <=> AcceptCall
  BY <1>1 DEF Select!CanAccept, CanAccept, Select!NewFd, NewFd, Select!AcceptCall, AcceptCall
<1>3. Select!Clients <=> Clients
  BY DEF Select!Clients, Clients, Select!Connect, Connect, Select!Send, Send,
         Select!Close, Close, Select!Reset, Reset
<1>4. \A t, old, new : Select!FirstReplaced(t, old, new) = FirstReplaced(t, old, new)
  BY <1>1 DEF Select!FirstReplaced, FirstReplaced
<1>5. \A fd : Select!ConnOf(fd) = ConnOf(fd) BY DEF Select!ConnOf, ConnOf
<1>6. \A fds : Select!ReadyOf(fds) = ReadyOf(fds)
  BY <1>1, <1>5 DEF Select!ReadyOf, ReadyOf, Select!Readable, Readable
<1>7. \A fd : Select!ReadResult(fd) = ReadResult(fd)
  BY <1>1, <1>5 DEF Select!ReadResult, ReadResult
<1>8. \A fd : Select!ReadCall(fd) <=> ReadCall(fd)
  BY <1>1, <1>5 DEF Select!ReadCall, ReadCall
<1> QED BY <1>1, <1>2, <1>3, <1>4, <1>6, <1>7, <1>8 DEF Select!ServerTypeOK

ScanIsFresh ==
  pc = "scan" =>
    \A n \in m..SelectAccept :
      client_fd[n] \in fdr \ {ListenFd} => Readable(ConnOf(client_fd[n]))

SelectInv ==
  /\ NetInv
  /\ TableInv(SelectAccept)
  /\ pc \in {"wait", "scan", "exited"}
  /\ client_fd[0] \in {NoFd, ListenFd}
  /\ pc = "scan" => client_fd[0] = ListenFd
  /\ fdr \subseteq OpenFds \cup {ListenFd}
  /\ m \in 0..SelectAccept
  /\ ScanIsFresh

\* A slot loses its connection only in a step that allows it.
WronglyDropped == \E c \in Conn : InTable(c) /\ ~InTable(c)' /\ peer[c] # "reset"

\* Nothing the select server watches is closed, so that the connection
\* behind a descriptor stays the same.
LEMMA SelectKeepsConn ==
  ASSUME SelectInv, NEW fd \in OpenFds, NetInv', \A c \in Conn : sock[c] # NoFd => sock'[c] = sock[c]
  PROVE  ConnOf(fd)' = ConnOf(fd)
<1>1. PICK c \in Conn : c = ConnOf(fd) /\ sock[c] = fd /\ fd # NoFd
  BY ConnOfOpen, ServerAssumption DEF SelectInv, ClientFd
<1>2. sock'[c] = fd BY <1>1
<1>3. \A d \in Conn : sock'[d] = fd => d = c BY <1>1, <1>2 DEF NetInv
<1>4. ConnOf(fd)' = (CHOOSE d \in Conn : sock'[d] = fd) BY DEF ConnOf
<1> QED BY <1>1, <1>2, <1>3, <1>4

\* What select() reports is open and readable.
LEMMA SelectWaits ==
  ASSUME SelectInv, Select!Select
  PROVE  SelectInv' /\ ~WronglyDropped
<1> USE SelectAssumption DEF Select!NoFd, Select!ListenFd
<1>1. /\ pc = "wait" /\ pc' = "scan" /\ m' = 0 /\ UNCHANGED <<peer, unread, backlog, sock>>
      /\ client_fd' = [client_fd EXCEPT ![0] = ListenFd]
      /\ fdr' = ReadyOf(Select!Watched \ {NoFd})
  BY SelectShares DEF Select!Select, Select!network
<1>2. NetInv' BY <1>1 DEF NetInv, SelectInv
<1>3. TableInv(SelectAccept)' BY <1>1, ListenerKeepsTable DEF SelectInv
<1>4. OpenFds' = OpenFds BY <1>1 DEF OpenFds, Accepted
<1>5. fdr' \subseteq OpenFds \cup {ListenFd} BY <1>1 DEF ReadyOf
<1>6. client_fd'[0] = ListenFd BY <1>1 DEF SelectInv, TableInv
<1>7. ScanIsFresh'
  <2>1. \A fd \in fdr' \ {ListenFd} : Readable(ConnOf(fd)) BY <1>1 DEF ReadyOf
  <2>2. \A fd : Readable(ConnOf(fd))' <=> Readable(ConnOf(fd)) BY <1>1 DEF Readable, ConnOf
  <2>3. \A fd \in fdr' \ {ListenFd} : Readable(ConnOf(fd))' BY <2>1, <2>2
  <2> QED BY <2>3 DEF ScanIsFresh
<1>8. ~WronglyDropped BY <1>1 DEF WronglyDropped, InTable, SelectInv, TableInv, Slot
<1> QED BY <1>1, <1>2, <1>3, <1>4, <1>5, <1>6, <1>7, <1>8 DEF SelectInv

LEMMA SelectFails ==
  ASSUME SelectInv, Select!SelectFails
  PROVE  SelectInv' /\ ~WronglyDropped
<1> USE SelectAssumption DEF Select!ListenFd
<1>1. /\ pc' = "exited" /\ UNCHANGED <<peer, unread, backlog, sock, fdr, m>>
      /\ client_fd' = [client_fd EXCEPT ![0] = ListenFd]
  BY DEF Select!SelectFails, Select!network
<1>2. NetInv' BY <1>1 DEF NetInv, SelectInv
<1>3. TableInv(SelectAccept)' BY <1>1, ListenerKeepsTable DEF SelectInv
<1>4. OpenFds' = OpenFds BY <1>1 DEF OpenFds, Accepted
<1>5. client_fd'[0] = ListenFd BY <1>1 DEF SelectInv, TableInv
<1>6. ~WronglyDropped BY <1>1 DEF WronglyDropped, InTable, SelectInv, TableInv, Slot
<1> QED BY <1>1, <1>2, <1>3, <1>4, <1>5, <1>6 DEF SelectInv, ScanIsFresh

\* The scan never leaves the table.
LEMMA SelectAdvances ==
  ASSUME SelectInv, Select!Advance
  PROVE  /\ pc' \in {"wait", "scan"} /\ m' \in 0..SelectAccept /\ UNCHANGED fdr
         /\ pc' = "scan" => m' = m + 1
BY SelectAssumption DEF SelectInv, Select!Advance

LEMMA SelectSkips ==
  ASSUME SelectInv, Select!ScanSkips
  PROVE  SelectInv' /\ ~WronglyDropped
<1> USE SelectAssumption
<1>1. pc = "scan" /\ UNCHANGED <<peer, unread, backlog, sock, client_fd>> /\ Select!Advance
  BY DEF Select!ScanSkips, Select!Scanning, Select!network
<1>2. NetInv' BY <1>1 DEF NetInv, SelectInv
<1>3. TableInv(SelectAccept)' /\ OpenFds' = OpenFds BY <1>1, FrameKeepsTable DEF SelectInv
<1>4. \A fd : Readable(ConnOf(fd))' <=> Readable(ConnOf(fd)) BY <1>1 DEF Readable, ConnOf
<1>5. ScanIsFresh'
  BY <1>1, <1>4, SelectAdvances DEF ScanIsFresh, SelectInv
<1>6. ~WronglyDropped BY <1>1 DEF WronglyDropped, InTable, Slot
<1> QED BY <1>1, <1>2, <1>3, <1>5, <1>6, SelectAdvances DEF SelectInv

\* A client accepted during a scan gets a descriptor that is not in fdr.
LEMMA SelectAccepts ==
  ASSUME SelectInv, Select!ScanAccepts
  PROVE  SelectInv' /\ ~WronglyDropped
<1> USE SelectAssumption DEF Select!NoFd
<1>1. pc = "scan" /\ Select!Advance /\ client_fd[0] = ListenFd
  BY DEF Select!ScanAccepts, Select!Scanning, SelectInv
<1>2. CASE ~CanAccept
  <2>1. UNCHANGED <<peer, unread, backlog, sock, client_fd>>
    BY <1>2, SelectShares DEF Select!ScanAccepts, Select!network
  <2>2. NetInv' BY <2>1 DEF NetInv, SelectInv
  <2>3. TableInv(SelectAccept)' /\ OpenFds' = OpenFds BY <2>1, FrameKeepsTable DEF SelectInv
  <2>4. \A fd : Readable(ConnOf(fd))' <=> Readable(ConnOf(fd)) BY <2>1 DEF Readable, ConnOf
  <2>5. ScanIsFresh' BY <1>1, <2>1, <2>4, SelectAdvances DEF ScanIsFresh, SelectInv
  <2>6. ~WronglyDropped BY <2>1 DEF WronglyDropped, InTable, Slot
  <2> QED BY <1>1, <2>1, <2>2, <2>3, <2>5, <2>6, SelectAdvances DEF SelectInv
<1>3. CASE CanAccept
  <2>1. AcceptCall /\ client_fd' = FirstReplaced(client_fd, NoFd, NewFd)
    BY <1>3, SelectShares DEF Select!ScanAccepts
  <2>2. NetInv' /\ OpenFds' = OpenFds \cup {NewFd} BY <1>3, <2>1, AcceptKeepsNet DEF SelectInv
  <2>3. TableInv(SelectAccept)' BY <1>3, <2>1, AcceptKeepsTable DEF SelectInv
  <2>4. NewFd \in ClientFd /\ NewFd \notin OpenFds /\ NewFd # ListenFd
    BY <1>3, NewFdIsFree, ServerAssumption DEF ClientFd
  <2>5. \A n \in 0..SelectAccept :
          client_fd'[n] = client_fd[n] \/ (client_fd[n] = NoFd /\ client_fd'[n] = NewFd)
    BY <2>1, FirstReplacedIs DEF SelectInv, TableInv
  <2>6. \A c \in Conn : sock[c] # NoFd => sock'[c] = sock[c]
    BY <1>3, <2>1 DEF SelectInv, NetInv, AcceptCall, CanAccept
  <2>7. \A fd \in OpenFds : Readable(ConnOf(fd))' <=> Readable(ConnOf(fd))
    BY <2>1, <2>2, <2>6, SelectKeepsConn DEF Readable, AcceptCall
  <2>8. ScanIsFresh'
    BY <1>1, <2>4, <2>5, <2>7, SelectAdvances DEF ScanIsFresh, SelectInv
  <2>9. client_fd'[0] = ListenFd BY <1>1, <2>5
  <2>10. ~WronglyDropped
    BY <2>3, <2>5, <2>6 DEF WronglyDropped, InTable, Slot, SelectInv, TableInv
  <2> QED BY <1>1, <2>2, <2>3, <2>8, <2>9, <2>10, SelectAdvances DEF SelectInv
<1> QED BY <1>2, <1>3

\* A read of a reported descriptor fails only after a reset, and leaves the
\* slots behind it as they were reported.
LEMMA SelectReads ==
  ASSUME SelectInv, Select!ScanReads
  PROVE  SelectInv' /\ ~WronglyDropped
<1> USE SelectAssumption DEF Select!NoFd, Select!ListenFd
<1>1. PICK fd : fd = client_fd[m] OBVIOUS
<1>2. /\ pc = "scan" /\ Select!Advance /\ UNCHANGED sock
      /\ fd \in fdr /\ fd # ListenFd /\ ReadCall(fd)
      /\ client_fd' = IF ReadResult(fd) = "error" THEN FirstReplaced(client_fd, fd, NoFd)
                      ELSE client_fd
  BY <1>1, SelectShares DEF Select!ScanReads, Select!Scanning, Select!IsSet
<1>3. fd \in OpenFds /\ fd # NoFd
  BY <1>2, ConnOfOpen, ServerAssumption DEF SelectInv, ClientFd
<1>4. PICK c \in Conn : c = ConnOf(fd) /\ sock[c] = fd BY <1>3, ConnOfOpen DEF SelectInv
<1>5. NetInv' /\ OpenFds' = OpenFds BY <1>2, ReadKeepsNet DEF SelectInv
<1>6. TableInv(SelectAccept)' BY <1>2, EmptyKeepsTable DEF SelectInv
<1>7. Readable(c) BY <1>1, <1>2, <1>4 DEF SelectInv, ScanIsFresh
<1>8. ReadResult(fd) = "error" => peer[c] = "reset"
  BY <1>3, <1>4, <1>7 DEF ReadResult, Readable
<1>9. \A n \in 0..SelectAccept :
        \/ client_fd'[n] = client_fd[n]
        \/ n = m /\ client_fd'[n] = NoFd /\ peer[c] = "reset"
  BY <1>1, <1>2, <1>3, <1>8, FirstReplacedIs DEF SelectInv, TableInv
<1>10. \A d \in Conn : d # c => peer'[d] = peer[d] /\ unread'[d] = unread[d]
  BY <1>2, <1>3, <1>4 DEF ReadCall, SelectInv, NetInv
<1>11. \A f \in OpenFds : ConnOf(f)' = ConnOf(f)
  BY <1>2, <1>5, SelectKeepsConn
<1>12. ASSUME NEW f \in OpenFds, f # fd PROVE Readable(ConnOf(f))' <=> Readable(ConnOf(f))
  <2>1. ConnOf(f) \in Conn /\ ConnOf(f) # c BY <1>4, <1>12, ConnOfOpen DEF SelectInv
  <2> QED BY <1>10, <1>11, <1>12, <2>1 DEF Readable
<1>13. ScanIsFresh'
  <2> SUFFICES ASSUME pc' = "scan", NEW n \in m'..SelectAccept, client_fd'[n] \in fdr \ {ListenFd}
               PROVE  Readable(ConnOf(client_fd[n]))'
    BY <1>2, SelectAdvances DEF ScanIsFresh
  <2>1. n \in (m + 1)..SelectAccept /\ n \in 0..SelectAccept /\ n # m
    BY <1>2, SelectAdvances DEF SelectInv
  <2>2. client_fd'[n] = client_fd[n] BY <1>9, <2>1
  <2>3. client_fd[n] \in OpenFds /\ client_fd[n] # fd
    BY <1>1, <1>3, <2>1, <2>2 DEF SelectInv, TableInv
  <2>4. n \in m..SelectAccept BY <2>1 DEF SelectInv
  <2>5. Readable(ConnOf(client_fd[n])) BY <1>2, <2>2, <2>4 DEF SelectInv, ScanIsFresh
  <2> QED BY <1>12, <2>2, <2>3, <2>5
<1>14. client_fd'[0] = ListenFd BY <1>1, <1>2, <1>9 DEF SelectInv
<1>15. ~WronglyDropped
  BY <1>1, <1>2, <1>4, <1>6, <1>9 DEF WronglyDropped, InTable, Slot, SelectInv, TableInv, NetInv
<1> QED BY <1>2, <1>5, <1>6, <1>13, <1>14, <1>15, SelectAdvances DEF SelectInv

\* Clients never make a connection unreadable.
LEMMA SelectClients ==
  ASSUME SelectInv, Clients, UNCHANGED <<client_fd, pc, fdr, m>>
  PROVE  SelectInv' /\ ~WronglyDropped
<1> USE SelectAssumption
<1>1. NetInv' /\ UNCHANGED sock BY ClientsKeepNet DEF SelectInv
<1>2. TableInv(SelectAccept)' /\ OpenFds' = OpenFds BY <1>1, FrameKeepsTable DEF SelectInv
<1>3. \A c \in Conn : Readable(c) => Readable(c)'
  BY DEF Clients, Connect, Send, Close, Reset, Readable, SelectInv, NetInv
<1>4. \A fd \in OpenFds : Readable(ConnOf(fd)) => Readable(ConnOf(fd))'
  BY <1>1, <1>3, ConnOfOpen, SelectKeepsConn DEF SelectInv
<1>5. ScanIsFresh' BY <1>4 DEF ScanIsFresh, SelectInv
<1>6. ~WronglyDropped BY <1>1 DEF WronglyDropped, InTable, Slot
<1> QED BY <1>1, <1>2, <1>5, <1>6 DEF SelectInv

\* Every step of the select server.
LEMMA SelectStep ==
  ASSUME SelectInv, Select!Next
  PROVE  SelectInv' /\ ~WronglyDropped
BY SelectWaits, SelectFails, SelectSkips, SelectAccepts, SelectReads, SelectClients, SelectShares
   DEF Select!Next, Select!Server

-----------------------------------------------------------------------------
(* The poll server.  Whatever the unwritten entries of its array make it    *)
(* do, the table stays sound: a failed read can only empty a slot.          *)

PollInv ==
  /\ NetInv
  /\ TableInv(MAX_ACCEPT)
  /\ pc \in {"wait", "scan", "blocked", "exited"}
  /\ revents \in [0..MAX_ACCEPT -> {"quiet", "listen", "other", "stale"}]
  /\ Idx \in 0..MAX_ACCEPT

\* Names of the instance mean what they mean here.
LEMMA PollShares ==
  /\ Poll!ClientFd = ClientFd /\ Poll!OpenFds = OpenFds /\ Poll!Slot = Slot
  /\ Poll!CanAccept = CanAccept /\ Poll!NewFd = NewFd
  /\ Poll!AcceptCall <=> AcceptCall
  /\ Poll!Clients <=> Clients
  /\ Poll!ServerTypeOK <=> ServerTypeOK
  /\ \A fd : Poll!ConnOf(fd) = ConnOf(fd)
  /\ \A fds : Poll!ReadyOf(fds) = ReadyOf(fds)
  /\ \A t, old, new : Poll!FirstReplaced(t, old, new) = FirstReplaced(t, old, new)
  /\ \A fd : /\ Poll!ReadResult(fd) = ReadResult(fd)
             /\ Poll!ReadCall(fd) <=> ReadCall(fd)
<1> USE DEF Poll!NoFd, Poll!Stdin, Poll!ListenFd, Poll!Min, Min
<1>1. /\ Poll!ClientFd = ClientFd /\ Poll!OpenFds = OpenFds /\ Poll!Slot = Slot
      /\ Poll!FreeFds = FreeFds
  BY DEF Poll!ClientFd, ClientFd, Poll!OpenFds, OpenFds, Poll!Accepted, Accepted,
         Poll!Slot, Slot, Poll!FreeFds, FreeFds
<1>2. /\ Poll!CanAccept = CanAccept /\ Poll!NewFd = NewFd
      /\ Poll!AcceptCall <=> AcceptCall
  BY <1>1 DEF Poll!CanAccept, CanAccept, Poll!NewFd, NewFd, Poll!AcceptCall, AcceptCall
<1>3. Poll!Clients <=> Clients
  BY DEF Poll!Clients, Clients, Poll!Connect, Connect, Poll!Send, Send,
         Poll!Close, Close, Poll!Reset, Reset
<1>4. \A t, old, new : Poll!FirstReplaced(t, old, new) = FirstReplaced(t, old, new)
  BY <1>1 DEF Poll!FirstReplaced, FirstReplaced
<1>5. \A fd : Poll!ConnOf(fd) = ConnOf(fd) BY DEF Poll!ConnOf, ConnOf
<1>6. \A fds : Poll!ReadyOf(fds) = ReadyOf(fds)
  BY <1>1, <1>5 DEF Poll!ReadyOf, ReadyOf, Poll!Readable, Readable
<1>7. \A fd : Poll!ReadResult(fd) = ReadResult(fd)
  BY <1>1, <1>5 DEF Poll!ReadResult, ReadResult
<1>8. \A fd : Poll!ReadCall(fd) <=> ReadCall(fd)
  BY <1>1, <1>5 DEF Poll!ReadCall, ReadCall
<1>9. Poll!ServerTypeOK <=> ServerTypeOK BY <1>1 DEF Poll!ServerTypeOK, ServerTypeOK
<1> QED BY <1>1, <1>2, <1>3, <1>4, <1>5, <1>6, <1>7, <1>8, <1>9

LEMMA PollWaits ==
  ASSUME PollInv, Poll!Poll \/ Poll!PollFails
  PROVE  PollInv'
<1> USE ServerAssumption DEF Poll!ListenFd
<1>1. /\ pc' = "scan" /\ Idx' = 0 /\ UNCHANGED <<peer, unread, backlog, sock>>
      /\ client_fd' = [client_fd EXCEPT ![0] = ListenFd]
      /\ revents' \in [Slot -> {"quiet", "listen", "other", "stale"}]
  BY PollShares DEF Poll!Poll, Poll!PollFails, Poll!network
<1>2. NetInv' BY <1>1 DEF NetInv, PollInv
<1>3. TableInv(MAX_ACCEPT)' BY <1>1, ListenerKeepsTable DEF PollInv
<1>4. Slot = 0..MAX_ACCEPT BY DEF PollInv, TableInv, Slot
<1> QED BY <1>1, <1>2, <1>3, <1>4 DEF PollInv

LEMMA PollAdvances ==
  ASSUME PollInv, Poll!Advance
  PROVE  pc' \in {"wait", "scan"} /\ Idx' \in 0..MAX_ACCEPT /\ UNCHANGED revents
BY ServerAssumption DEF PollInv, Poll!Advance

LEMMA PollScans ==
  ASSUME PollInv, Poll!ScanSkips \/ Poll!ScanAccepts \/ Poll!ScanReads
  PROVE  PollInv'
<1> USE ServerAssumption DEF Poll!NoFd
<1>1. Poll!Advance BY DEF Poll!ScanSkips, Poll!ScanAccepts, Poll!ScanReads
<1>2. SUFFICES NetInv' /\ TableInv(MAX_ACCEPT)' BY <1>1, PollAdvances DEF PollInv
<1>3. CASE UNCHANGED <<peer, unread, backlog, sock, client_fd>>
  BY <1>3, FrameKeepsTable DEF PollInv, NetInv
<1>4. CASE CanAccept /\ AcceptCall /\ client_fd' = FirstReplaced(client_fd, NoFd, NewFd)
  BY <1>4, AcceptKeepsNet, AcceptKeepsTable DEF PollInv
<1>5. ASSUME NEW fd, ReadCall(fd), UNCHANGED sock,
             client_fd' \in {client_fd, FirstReplaced(client_fd, fd, NoFd)}
      PROVE  NetInv' /\ TableInv(MAX_ACCEPT)'
  BY <1>5, ReadKeepsNet, EmptyKeepsTable DEF PollInv
<1>6. CASE Poll!ScanSkips BY <1>3, <1>6 DEF Poll!ScanSkips, Poll!network
<1>7. CASE Poll!ScanAccepts
  BY <1>3, <1>4, <1>7, PollShares DEF Poll!ScanAccepts, Poll!network
<1>8. CASE Poll!ScanReads
  <2>1. PICK fd : fd = client_fd[Idx] OBVIOUS
  <2>2. /\ ReadCall(fd) /\ UNCHANGED sock
        /\ client_fd' \in {client_fd, FirstReplaced(client_fd, fd, NoFd)}
    BY <1>8, <2>1, PollShares DEF Poll!ScanReads
  <2> QED BY <1>5, <2>2
<1> QED BY <1>6, <1>7, <1>8

LEMMA PollBlocks ==
  ASSUME PollInv, Poll!ScanBlocks \/ Poll!StdinReturns
  PROVE  PollInv'
<1> USE ServerAssumption DEF Poll!NoFd, Poll!Stdin
<1>1. UNCHANGED <<peer, unread, backlog, sock>> /\ NetInv'
  BY DEF Poll!ScanBlocks, Poll!StdinReturns, Poll!network, PollInv, NetInv
<1>2. CASE Poll!ScanBlocks
  BY <1>1, <1>2, FrameKeepsTable DEF PollInv, Poll!ScanBlocks
<1>3. CASE Poll!StdinReturns
  <2>1. client_fd' \in {client_fd, FirstReplaced(client_fd, 0, NoFd)}
    BY <1>3, PollShares DEF Poll!StdinReturns, NoFd
  <2>2. TableInv(MAX_ACCEPT)'
    BY <1>1, <2>1, EmptyKeepsTable, FrameKeepsTable DEF PollInv
  <2> QED BY <1>1, <1>3, <2>2, PollAdvances DEF PollInv, Poll!StdinReturns
<1> QED BY <1>2, <1>3

LEMMA PollStep ==
  ASSUME PollInv, Poll!Next
  PROVE  PollInv'
<1> USE ServerAssumption
<1>1. CASE Clients /\ UNCHANGED <<client_fd, pc, revents, Idx>>
  BY <1>1, ClientsKeepNet, FrameKeepsTable DEF PollInv
<1> QED BY <1>1, PollWaits, PollScans, PollBlocks, PollShares DEF Poll!Next, Poll!Server

-----------------------------------------------------------------------------
(* The epoll server.  Two events of a batch never share a descriptor, and a *)
(* descriptor that is closed and given to another client was the one of the *)
(* event just handled: that is why the others stay current.                 *)

EpollInv ==
  /\ NetInv
  /\ TableInv(MAX_ACCEPT)
  /\ pc \in {"wait", "scan", "exited"}
  /\ interest \subseteq ClientFd \cup {ListenFd}
  /\ pc # "exited" => interest = {ListenFd} \cup OpenFds
  /\ \A e \in events : e.fd = ListenFd \/ (e.fd \in ClientFd /\ e.of \in Conn)
  /\ \A e, f \in events : e.fd = f.fd => e = f
  /\ pc = "wait" => events = {}
  /\ pc = "scan" => \A e \in events : e.fd # ListenFd => sock[e.of] = e.fd
  /\ Idx \in Nat

\* Names of the instance mean what they mean here.
LEMMA EpollShares ==
  /\ Epoll!ClientFd = ClientFd /\ Epoll!OpenFds = OpenFds /\ Epoll!Slot = Slot
  /\ Epoll!CanAccept = CanAccept /\ Epoll!NewFd = NewFd
  /\ Epoll!AcceptCall <=> AcceptCall
  /\ Epoll!Clients <=> Clients
  /\ Epoll!ServerTypeOK <=> ServerTypeOK
  /\ \A fd : Epoll!ConnOf(fd) = ConnOf(fd)
  /\ \A fds : Epoll!ReadyOf(fds) = ReadyOf(fds)
  /\ \A t, old, new : Epoll!FirstReplaced(t, old, new) = FirstReplaced(t, old, new)
  /\ \A fd : /\ Epoll!ReadResult(fd) = ReadResult(fd)
             /\ Epoll!ReadCall(fd) <=> ReadCall(fd)
<1> USE DEF Epoll!NoFd, Epoll!Stdin, Epoll!ListenFd, Epoll!Min, Min
<1>1. /\ Epoll!ClientFd = ClientFd /\ Epoll!OpenFds = OpenFds /\ Epoll!Slot = Slot
      /\ Epoll!FreeFds = FreeFds
  BY DEF Epoll!ClientFd, ClientFd, Epoll!OpenFds, OpenFds, Epoll!Accepted, Accepted,
         Epoll!Slot, Slot, Epoll!FreeFds, FreeFds
<1>2. /\ Epoll!CanAccept = CanAccept /\ Epoll!NewFd = NewFd
      /\ Epoll!AcceptCall <=> AcceptCall
  BY <1>1 DEF Epoll!CanAccept, CanAccept, Epoll!NewFd, NewFd, Epoll!AcceptCall, AcceptCall
<1>3. Epoll!Clients <=> Clients
  BY DEF Epoll!Clients, Clients, Epoll!Connect, Connect, Epoll!Send, Send,
         Epoll!Close, Close, Epoll!Reset, Reset
<1>4. \A t, old, new : Epoll!FirstReplaced(t, old, new) = FirstReplaced(t, old, new)
  BY <1>1 DEF Epoll!FirstReplaced, FirstReplaced
<1>5. \A fd : Epoll!ConnOf(fd) = ConnOf(fd) BY DEF Epoll!ConnOf, ConnOf
<1>6. \A fds : Epoll!ReadyOf(fds) = ReadyOf(fds)
  BY <1>1, <1>5 DEF Epoll!ReadyOf, ReadyOf, Epoll!Readable, Readable
<1>7. \A fd : Epoll!ReadResult(fd) = ReadResult(fd)
  BY <1>1, <1>5 DEF Epoll!ReadResult, ReadResult
<1>8. \A fd : Epoll!ReadCall(fd) <=> ReadCall(fd)
  BY <1>1, <1>5 DEF Epoll!ReadCall, ReadCall
<1>9. Epoll!ServerTypeOK <=> ServerTypeOK BY <1>1 DEF Epoll!ServerTypeOK, ServerTypeOK
<1> QED BY <1>1, <1>2, <1>3, <1>4, <1>5, <1>6, <1>7, <1>8, <1>9

\* A batch has one event per descriptor, of its connection.
LEMMA EpollWaits ==
  ASSUME EpollInv, Epoll!EpollWait \/ Epoll!EpollWaitFails
  PROVE  EpollInv' /\ UNCHANGED <<peer, unread, backlog, sock>>
<1> USE ServerAssumption DEF Epoll!ListenFd
<1>1. UNCHANGED <<peer, unread, backlog, sock, client_fd, interest>>
  BY DEF Epoll!EpollWait, Epoll!EpollWaitFails, Epoll!network
<1>2. NetInv' BY <1>1 DEF NetInv, EpollInv
<1>3. TableInv(MAX_ACCEPT)' /\ OpenFds' = OpenFds BY <1>1, FrameKeepsTable DEF EpollInv
<1>4. CASE Epoll!EpollWaitFails
  BY <1>1, <1>2, <1>3, <1>4 DEF EpollInv, Epoll!EpollWaitFails
<1>5. CASE Epoll!EpollWait
  <2>1. /\ pc = "wait" /\ pc' = "scan" /\ Idx' = 0
        /\ events' = {Epoll!Event(fd) : fd \in ReadyOf(interest)}
    BY <1>5, EpollShares DEF Epoll!EpollWait
  <2>2. \A fd \in ReadyOf(interest) : fd = ListenFd \/ fd \in OpenFds
    BY DEF ReadyOf
  <2>3. \A fd \in OpenFds : /\ fd \in ClientFd /\ fd # ListenFd
                            /\ ConnOf(fd) \in Conn /\ sock[ConnOf(fd)] = fd
    BY ConnOfOpen DEF EpollInv, ClientFd
  <2>4. \A e \in events' : \E fd \in ReadyOf(interest) :
          e.fd = fd /\ (fd # ListenFd => e.of = ConnOf(fd)) /\ e = Epoll!Event(fd)
    BY <2>1, EpollShares DEF Epoll!Event
  <2>5. \A e \in events' : \/ e.fd = ListenFd
                           \/ e.fd \in ClientFd /\ e.of \in Conn /\ sock[e.of] = e.fd
    BY <2>2, <2>3, <2>4
  <2>6. \A e, f \in events' : e.fd = f.fd => e = f BY <2>4
  <2> QED BY <1>1, <1>2, <1>3, <2>1, <2>5, <2>6 DEF EpollInv
<1> QED BY <1>1, <1>4, <1>5

\* A descriptor that is given out belongs to no event that is left.
LEMMA EpollAccepts ==
  ASSUME EpollInv, NEW e \in events, pc = "scan", Epoll!HandleAccept(e)
  PROVE  EpollInv' /\ ((AcceptCall /\ CanAccept) \/ UNCHANGED <<peer, unread, backlog, sock>>)
<1> USE ServerAssumption DEF Epoll!ListenFd, Epoll!NoFd
<1>1. CASE ~CanAccept /\ UNCHANGED Epoll!network /\ Epoll!Exits(e)
  <2>1. UNCHANGED <<peer, unread, backlog, sock, client_fd, interest, events, Idx>> /\ pc' = "exited"
    BY <1>1 DEF Epoll!network, Epoll!Exits
  <2>2. NetInv' BY <2>1 DEF NetInv, EpollInv
  <2>3. TableInv(MAX_ACCEPT)' BY <2>1, FrameKeepsTable DEF EpollInv
  <2> QED BY <2>1, <2>2, <2>3 DEF EpollInv
<1>2. CASE CanAccept /\ AcceptCall /\ Epoll!Exits(e)
  <2>1. UNCHANGED <<client_fd, interest, events, Idx>> /\ pc' = "exited"
    BY <1>2 DEF Epoll!Exits
  <2>2. NetInv' BY <1>2, AcceptKeepsNet DEF EpollInv
  <2>3. TableInv(MAX_ACCEPT)' BY <1>2, <2>1, AcceptKeepsTable DEF EpollInv
  <2> QED BY <1>2, <2>1, <2>2, <2>3 DEF EpollInv
<1>3. CASE /\ CanAccept /\ AcceptCall /\ interest' = interest \cup {NewFd}
           /\ client_fd' = FirstReplaced(client_fd, NoFd, NewFd)
           /\ Epoll!Handled(e)
  <2>1. /\ events' = events \ {e} /\ Idx' = Idx + 1
        /\ pc' = IF events = {e} THEN "wait" ELSE "scan"
    BY <1>3 DEF Epoll!Handled
  <2>2. NetInv' /\ OpenFds' = OpenFds \cup {NewFd} BY <1>3, AcceptKeepsNet DEF EpollInv
  <2>3. TableInv(MAX_ACCEPT)' BY <1>3, AcceptKeepsTable DEF EpollInv
  <2>4. NewFd \in ClientFd BY <1>3, NewFdIsFree
  <2>5. \A c \in Conn : sock[c] # NoFd => sock'[c] = sock[c]
    BY <1>3 DEF EpollInv, NetInv, AcceptCall, CanAccept
  <2>6. \A f \in events : f.fd # ListenFd => sock'[f.of] = f.fd
    BY <2>5 DEF EpollInv, ClientFd
  <2>7. pc' = "wait" => events' = {} BY <2>1
  <2>8. interest' = {ListenFd} \cup OpenFds' BY <1>3, <2>2 DEF EpollInv
  <2> QED BY <1>3, <2>1, <2>2, <2>3, <2>4, <2>6, <2>7, <2>8 DEF EpollInv
<1> QED BY <1>1, <1>2, <1>3, EpollShares DEF Epoll!HandleAccept, Epoll!InterestGrown

\* What the end of a connection does to the network.
EndOf(c) ==
  /\ c \in Conn /\ sock[c] # NoFd /\ peer[c] = "closed" /\ ~unread[c]
  /\ sock' = [sock EXCEPT ![c] = NoFd]
  /\ UNCHANGED <<peer, unread, backlog>>

\* Slot, interest list and descriptor of one connection go together.
LEMMA EpollEnds ==
  ASSUME EpollInv, NEW e \in events, pc = "scan", Epoll!HandleEof(e)
  PROVE  EpollInv' /\ \E c \in Conn : EndOf(c)
<1> USE ServerAssumption DEF Epoll!ListenFd, Epoll!NoFd
<1>1. /\ e.fd # ListenFd /\ ReadResult(e.fd) = "eof"
      /\ client_fd' = FirstReplaced(client_fd, e.fd, NoFd)
      /\ interest' = interest \ {e.fd}
      /\ sock' = [c \in Conn |-> IF sock[c] = e.fd THEN NoFd ELSE sock[c]]
      /\ UNCHANGED <<peer, unread, backlog>>
      /\ events' = events \ {e} /\ Idx' = Idx + 1
      /\ pc' = IF events = {e} THEN "wait" ELSE "scan"
  BY EpollShares DEF Epoll!HandleEof, Epoll!IsEof, Epoll!FdToClose, Epoll!Handled
<1>2. e.fd \in OpenFds BY <1>1 DEF ReadResult
<1>3. PICK c \in Conn : c = ConnOf(e.fd) /\ sock[c] = e.fd /\ e.fd # NoFd
  BY <1>2, ConnOfOpen DEF EpollInv, ClientFd
<1>4. EndOf(c)
  <2>1. peer[c] = "closed" /\ ~unread[c] BY <1>1, <1>2, <1>3 DEF ReadResult
  <2>2. \A d \in Conn : sock[d] = e.fd <=> d = c BY <1>3 DEF EpollInv, NetInv
  <2>3. sock' = [d \in Conn |-> IF d = c THEN NoFd ELSE sock[d]] BY <1>1, <2>2
  <2>4. [sock EXCEPT ![c] = NoFd] = [d \in Conn |-> IF d = c THEN NoFd ELSE sock[d]]
    BY DEF EpollInv, NetInv
  <2> QED BY <1>1, <1>3, <2>1, <2>3, <2>4 DEF EndOf
<1>5. NetInv' BY <1>1, <1>4 DEF EpollInv, NetInv, EndOf
<1>6. OpenFds' = OpenFds \ {e.fd}
  BY <1>3, <1>4 DEF OpenFds, Accepted, EndOf, EpollInv, NetInv
<1>7. TableInv(MAX_ACCEPT)'
  <2>1. CASE /\ \A n \in 0..MAX_ACCEPT : client_fd[n] # e.fd
             /\ client_fd' = client_fd
    BY <1>6, <2>1 DEF TableInv, EpollInv
  <2>2. ASSUME NEW n \in 0..MAX_ACCEPT, client_fd[n] = e.fd, client_fd' = [client_fd EXCEPT ![n] = NoFd]
        PROVE  TableInv(MAX_ACCEPT)'
    BY <1>3, <1>6, <2>2 DEF TableInv, EpollInv
  <2> QED BY <1>1, <2>1, <2>2, FirstReplacedIs DEF EpollInv
<1>8. \A f \in events' : f.fd # ListenFd => sock'[f.of] = f.fd
  BY <1>1 DEF EpollInv
<1>9. interest' = {ListenFd} \cup OpenFds' BY <1>1, <1>6 DEF EpollInv
<1>10. pc' = "wait" => events' = {} BY <1>1
<1>11. interest' \subseteq ClientFd \cup {ListenFd} BY <1>1 DEF EpollInv
<1>12. EpollInv' BY <1>1, <1>5, <1>7, <1>8, <1>9, <1>10, <1>11 DEF EpollInv
<1> QED BY <1>4, <1>12

LEMMA EpollEndFails ==
  ASSUME EpollInv, NEW e \in events, pc = "scan", Epoll!HandleEofFails(e)
  PROVE  EpollInv' /\ UNCHANGED <<peer, unread, backlog, sock>>
<1> USE ServerAssumption DEF Epoll!NoFd
<1>1. /\ UNCHANGED <<peer, unread, backlog, sock, interest, events, Idx>> /\ pc' = "exited"
      /\ client_fd' = FirstReplaced(client_fd, e.fd, NoFd)
  BY EpollShares DEF Epoll!HandleEofFails, Epoll!network
<1>2. NetInv' BY <1>1 DEF NetInv, EpollInv
<1>3. TableInv(MAX_ACCEPT)' BY <1>1, EmptyKeepsTable DEF EpollInv
<1> QED BY <1>1, <1>2, <1>3 DEF EpollInv

LEMMA EpollReads ==
  ASSUME EpollInv, NEW e \in events, pc = "scan", Epoll!HandleData(e)
  PROVE  EpollInv' /\ e.fd # ListenFd /\ ReadResult(e.fd) # "eof" /\ ReadCall(e.fd) /\ UNCHANGED sock
<1> USE ServerAssumption DEF Epoll!ListenFd
<1>1. /\ e.fd # ListenFd /\ ReadResult(e.fd) # "eof" /\ ReadCall(e.fd)
      /\ UNCHANGED <<sock, client_fd, interest>>
      /\ events' = events \ {e} /\ Idx' = Idx + 1
      /\ pc' = IF events = {e} THEN "wait" ELSE "scan"
  BY EpollShares DEF Epoll!HandleData, Epoll!IsEof, Epoll!Handled
<1>2. NetInv' /\ OpenFds' = OpenFds BY <1>1, ReadKeepsNet DEF EpollInv
<1>3. TableInv(MAX_ACCEPT)' BY <1>1, FrameKeepsTable DEF EpollInv
<1>4. pc' = "wait" => events' = {} BY <1>1
<1>5. pc' = "scan" => \A f \in events' : f.fd # ListenFd => sock'[f.of] = f.fd
  BY <1>1 DEF EpollInv
<1>6. EpollInv' BY <1>1, <1>2, <1>3, <1>4, <1>5 DEF EpollInv
<1> QED BY <1>1, <1>6

-----------------------------------------------------------------------------
(* The promise of ConnectionService, step by step. *)

Waiting(c) == \E i \in 1..Len(backlog) : backlog[i] = c

PhaseOf(c) ==
  CASE peer[c] = "away" -> "none"
    [] Waiting(c)       -> "waiting"
    [] sock[c] # NoFd   -> "open"
    [] OTHER            -> "released"

PromiseStep == Epoll!Promise!Next \/ UNCHANGED Epoll!Promise!service

\* The refinement mapping, connection by connection.
LEMMA PhaseIs ==
  /\ Epoll!Phase = [c \in Conn |-> PhaseOf(c)]
  /\ Epoll!Phase' = [c \in Conn |-> PhaseOf(c)']
BY DEF Epoll!Phase, PhaseOf, Epoll!NoFd, Waiting

\* The conditions exclude each other.
LEMMA PhaseIff ==
  ASSUME NetInv, NEW c \in Conn
  PROVE  /\ PhaseOf(c) = "none" <=> peer[c] = "away"
         /\ PhaseOf(c) = "waiting" <=> Waiting(c)
         /\ PhaseOf(c) = "open" <=> sock[c] # NoFd
         /\ PhaseOf(c) \in {"none", "waiting", "open", "released"}
<1>1. Waiting(c) => peer[c] # "away" /\ sock[c] = NoFd BY DEF NetInv, Waiting
<1>2. peer[c] = "away" => sock[c] = NoFd BY DEF NetInv
<1> QED BY <1>1, <1>2 DEF PhaseOf

LEMMA PhaseStutters ==
  ASSUME UNCHANGED <<peer, unread, backlog, sock>>
  PROVE  PromiseStep
BY PhaseIs DEF PromiseStep, Epoll!Promise!service, PhaseOf, Waiting

LEMMA ClientsPromise ==
  ASSUME NetInv, Clients
  PROVE  PromiseStep
<1>1. PICK c \in Conn : Connect(c) \/ Send(c) \/ Close(c) \/ Reset(c) BY DEF Clients
<1>2. NetInv' BY ClientsKeepNet
<1>3. CASE Connect(c)
  <2>1. PhaseOf(c) = "none" BY <1>3, PhaseIff DEF Connect
  <2>2. Waiting(c)'
    <3>1. backlog' = Append(backlog, c) /\ backlog \in Seq(Conn) BY <1>3 DEF Connect, NetInv
    <3>2. Len(backlog) + 1 \in 1..Len(backlog') /\ backlog'[Len(backlog) + 1] = c BY <3>1
    <3> QED BY <3>2 DEF Waiting
  <2>3. PhaseOf(c)' = "waiting" BY <1>3, <2>2 DEF PhaseOf, Connect, NetInv
  <2>4. ASSUME NEW d \in Conn, d # c PROVE PhaseOf(d)' = PhaseOf(d)
    <3>1. Waiting(d)' <=> Waiting(d) BY <1>3, <2>4 DEF Waiting, Connect, NetInv
    <3> QED BY <1>3, <2>4, <3>1 DEF PhaseOf, Connect, NetInv
  <2>5. Epoll!Phase' = [Epoll!Phase EXCEPT ![c] = "waiting"] BY <2>3, <2>4, PhaseIs
  <2>6. Epoll!Promise!Connect(c)
    BY <1>3, <2>1, <2>5, PhaseIs DEF Epoll!Promise!Connect, Connect
  <2> QED BY <2>6 DEF PromiseStep, Epoll!Promise!Next
<1>4. CASE Send(c) \/ Close(c) \/ Reset(c)
  <2>1. \A d \in Conn : PhaseOf(d)' = PhaseOf(d)
    BY <1>4 DEF PhaseOf, Waiting, Send, Close, Reset, NetInv
  <2>2. Epoll!Phase' = Epoll!Phase BY <2>1, PhaseIs
  <2>3. Epoll!Promise!Send(c) \/ Epoll!Promise!End(c)
    BY <1>4, <2>2 DEF Epoll!Promise!Send, Epoll!Promise!End, Send, Close, Reset
  <2> QED BY <2>3 DEF PromiseStep, Epoll!Promise!Next
<1> QED BY <1>1, <1>3, <1>4

LEMMA AcceptPromise ==
  ASSUME NetInv, CanAccept, AcceptCall
  PROVE  PromiseStep
<1>1. NetInv' BY AcceptKeepsNet
<1>2. PICK c \in Conn : c = Head(backlog) BY DEF NetInv, CanAccept
<1>3. backlog # << >> /\ backlog \in Seq(Conn) /\ backlog' = Tail(backlog)
  BY DEF CanAccept, NetInv, AcceptCall
<1>4. Waiting(c) BY <1>2, <1>3 DEF Waiting
<1>5. PhaseOf(c) = "waiting" BY <1>4, PhaseIff
<1>6. sock'[c] # NoFd BY <1>2, NewFdIsFree, ServerAssumption DEF AcceptCall, NetInv, ClientFd
<1>7. PhaseOf(c)' = "open" BY <1>1, <1>6 DEF PhaseOf, NetInv, Waiting
<1>8. ASSUME NEW d \in Conn, d # c PROVE PhaseOf(d)' = PhaseOf(d)
  <2>1. Waiting(d)' => Waiting(d) BY <1>3 DEF Waiting
  <2>2. Waiting(d) => Waiting(d)'
    <3> SUFFICES ASSUME NEW i \in 1..Len(backlog), backlog[i] = d PROVE Waiting(d)' BY DEF Waiting
    <3>1. i # 1 BY <1>2, <1>3, <1>8
    <3>2. i - 1 \in 1..Len(backlog') /\ backlog'[i - 1] = d BY <1>3, <3>1
    <3> QED BY <3>2 DEF Waiting
  <2> QED BY <1>2, <1>8, <2>1, <2>2 DEF PhaseOf, AcceptCall, NetInv
<1>9. Epoll!Phase' = [Epoll!Phase EXCEPT ![c] = "open"] BY <1>7, <1>8, PhaseIs
<1>10. Epoll!Promise!Accept(c)
  BY <1>5, <1>9, PhaseIs DEF Epoll!Promise!Accept, AcceptCall
<1> QED BY <1>10 DEF PromiseStep, Epoll!Promise!Next, Epoll!Promise!Serve

\* The end of a connection releases it.
LEMMA EndPromise ==
  ASSUME NetInv, NEW c \in Conn, EndOf(c)
  PROVE  PromiseStep
<1>1. ~Waiting(c) /\ peer[c] # "away" BY DEF NetInv, Waiting, EndOf
<1>2. PhaseOf(c) = "open" BY PhaseIff DEF EndOf
<1>3. PhaseOf(c)' = "released" BY <1>1 DEF PhaseOf, Waiting, EndOf, NetInv
<1>4. \A d \in Conn : d # c => PhaseOf(d)' = PhaseOf(d) BY DEF PhaseOf, Waiting, EndOf, NetInv
<1>5. Epoll!Phase' = [Epoll!Phase EXCEPT ![c] = "released"] BY <1>3, <1>4, PhaseIs
<1>6. Epoll!Promise!Release(c) BY <1>2, <1>5, PhaseIs DEF Epoll!Promise!Release, EndOf
<1> QED BY <1>6 DEF PromiseStep, Epoll!Promise!Next, Epoll!Promise!Serve

\* A read consumes data, notices a reset, or does nothing.
LEMMA ReadPromise ==
  ASSUME NetInv, NEW fd, ReadCall(fd), ReadResult(fd) # "eof", UNCHANGED sock
  PROVE  PromiseStep
<1>1. CASE fd \notin OpenFds BY <1>1, PhaseStutters DEF ReadCall
<1>2. CASE fd \in OpenFds
  <2>1. PICK c \in Conn : c = ConnOf(fd) BY <1>2, ConnOfOpen
  <2>2. sock[c] = fd /\ fd # NoFd
    BY <1>2, <2>1, ConnOfOpen, ServerAssumption DEF ClientFd
  <2>3. /\ peer' = [peer EXCEPT ![c] = IF @ = "reset" /\ ~unread[c] THEN "closed" ELSE @]
        /\ unread' = [unread EXCEPT ![c] = FALSE]
        /\ UNCHANGED backlog
    BY <1>2, <2>1 DEF ReadCall
  <2>4. PhaseOf(c) = "open" BY <2>2, PhaseIff
  <2>5. \A d \in Conn : PhaseOf(d)' = PhaseOf(d) BY <2>3 DEF PhaseOf, Waiting, NetInv
  <2>6. Epoll!Phase' = Epoll!Phase BY <2>5, PhaseIs
  <2>7. ~unread[c] => peer[c] # "closed" BY <1>2, <2>1 DEF ReadResult
  <2>8. CASE unread[c]
    <3>1. peer' = peer BY <2>3, <2>8 DEF NetInv
    <3>2. Epoll!Promise!Consume(c)
      BY <2>3, <2>4, <2>6, <2>8, <3>1, PhaseIs DEF Epoll!Promise!Consume
    <3> QED BY <3>2 DEF PromiseStep, Epoll!Promise!Next, Epoll!Promise!Serve
  <2>9. CASE ~unread[c] /\ peer[c] = "reset"
    <3>1. unread' = unread BY <2>3, <2>9 DEF NetInv
    <3>2. peer' = [peer EXCEPT ![c] = "closed"] BY <2>3, <2>9
    <3>3. Epoll!Promise!NoticeReset(c)
      BY <2>4, <2>6, <2>9, <3>1, <3>2, PhaseIs DEF Epoll!Promise!NoticeReset
    <3> QED BY <3>3 DEF PromiseStep, Epoll!Promise!Next, Epoll!Promise!Serve
  <2>10. CASE ~unread[c] /\ peer[c] # "reset"
    <3>1. peer' = peer /\ unread' = unread BY <2>3, <2>10 DEF NetInv
    <3> QED BY <2>3, <3>1, PhaseStutters
  <2> QED BY <2>8, <2>9, <2>10
<1> QED BY <1>1, <1>2

\* Every step of the epoll server is one of the promise, or none.
LEMMA EpollStep ==
  ASSUME EpollInv, Epoll!Next
  PROVE  EpollInv' /\ PromiseStep
<1> USE ServerAssumption
<1>1. CASE Clients /\ UNCHANGED <<client_fd, pc, interest, events, Idx>>
  <2>1. NetInv' /\ UNCHANGED sock /\ PromiseStep BY <1>1, ClientsKeepNet, ClientsPromise DEF EpollInv
  <2>2. TableInv(MAX_ACCEPT)' /\ OpenFds' = OpenFds BY <1>1, <2>1, FrameKeepsTable DEF EpollInv
  <2> QED BY <1>1, <2>1, <2>2 DEF EpollInv
<1>2. CASE Epoll!EpollWait \/ Epoll!EpollWaitFails
  BY <1>2, EpollWaits, PhaseStutters
<1>3. ASSUME NEW e \in events, pc = "scan", Epoll!HandleAccept(e) PROVE EpollInv' /\ PromiseStep
  BY <1>3, EpollAccepts, PhaseStutters, AcceptPromise DEF EpollInv
<1>4. ASSUME NEW e \in events, pc = "scan", Epoll!HandleEof(e) PROVE EpollInv' /\ PromiseStep
  BY <1>4, EpollEnds, EndPromise DEF EpollInv
<1>5. ASSUME NEW e \in events, pc = "scan", Epoll!HandleEofFails(e) PROVE EpollInv' /\ PromiseStep
  BY <1>5, EpollEndFails, PhaseStutters
<1>6. ASSUME NEW e \in events, pc = "scan", Epoll!HandleData(e) PROVE EpollInv' /\ PromiseStep
  BY <1>6, EpollReads, ReadPromise DEF EpollInv
<1> QED BY <1>1, <1>2, <1>3, <1>4, <1>5, <1>6, EpollShares DEF Epoll!Next, Epoll!Server, Epoll!Handle

-----------------------------------------------------------------------------
(* The build that runs one of the three. *)

Inv ==
  /\ api \in {"select", "poll", "epoll"}
  /\ api = "select" => SelectInv
  /\ api = "poll"   => PollInv
  /\ api = "epoll"  => EpollInv

\* The servers start with nobody connected and an empty table.
LEMMA InitInv == Init => Inv
<1> SUFFICES ASSUME Init PROVE Inv OBVIOUS
<1> USE ServerAssumption, SelectAssumption
<1>1. ASSUME peer = [c \in Conn |-> "away"], unread = [c \in Conn |-> FALSE],
             backlog = << >>, sock = [c \in Conn |-> -1]
      PROVE  NetInv /\ OpenFds = {}
  BY <1>1 DEF NetInv, OpenFds, Accepted
<1>2. CASE api = "select" /\ Select!Init
  <2>1. NetInv /\ OpenFds = {} BY <1>1, <1>2 DEF Select!Init, Select!NetworkInit, Select!NoFd
  <2>2. client_fd = [i \in 0..SelectAccept |-> IF i < SelectAccept THEN -1 ELSE 0]
        /\ pc = "wait" /\ fdr = {} /\ m = 0
    BY <1>2 DEF Select!Init, Select!TableInit, Select!NoFd
  <2> QED BY <1>2, <2>1, <2>2 DEF Inv, SelectInv, TableInv, ScanIsFresh
<1>3. CASE api = "poll" /\ Poll!Init
  <2>1. NetInv /\ OpenFds = {} BY <1>1, <1>3 DEF Poll!Init, Poll!NetworkInit, Poll!NoFd
  <2>2. client_fd = [i \in 0..MAX_ACCEPT |-> IF i < MAX_ACCEPT THEN -1 ELSE 0]
        /\ pc = "wait" /\ revents = [n \in 0..MAX_ACCEPT |-> "quiet"] /\ Idx = 0
    BY <1>3 DEF Poll!Init, Poll!TableInit, Poll!NoFd
  <2> QED BY <1>3, <2>1, <2>2 DEF Inv, PollInv, TableInv
<1>4. CASE api = "epoll" /\ Epoll!Init
  <2>1. NetInv /\ OpenFds = {} BY <1>1, <1>4 DEF Epoll!Init, Epoll!NetworkInit, Epoll!NoFd
  <2>2. /\ client_fd = [i \in 0..MAX_ACCEPT |-> IF i = 0 THEN 3 ELSE IF i < MAX_ACCEPT THEN -1 ELSE 0]
        /\ pc = "wait" /\ interest = {3} /\ events = {} /\ Idx = 0
    BY <1>4 DEF Epoll!Init, Epoll!NoFd, Epoll!ListenFd
  <2> QED BY <1>4, <2>1, <2>2 DEF Inv, EpollInv, TableInv
<1> QED BY <1>2, <1>3, <1>4 DEF Init

\* A step of whichever server runs.
LEMMA StepInv ==
  ASSUME Inv, [Next]_vars
  PROVE  /\ Inv'
         /\ api = "select" => ~WronglyDropped
         /\ api = "epoll" => PromiseStep
<1>1. CASE UNCHANGED vars
  <2>1. UNCHANGED <<peer, unread, backlog, sock, client_fd, pc, api, fdr, m, revents, interest, events, Idx>>
    BY <1>1 DEF vars, network
  <2>2. NetInv => NetInv' BY <2>1 DEF NetInv
  <2>3. OpenFds' = OpenFds BY <2>1 DEF OpenFds, Accepted
  <2>4. \A N \in Nat : TableInv(N) => TableInv(N)' BY <2>1, <2>3 DEF TableInv
  <2>5. ScanIsFresh => ScanIsFresh' BY <2>1 DEF ScanIsFresh, Readable, ConnOf
  <2>6. SelectInv => SelectInv' BY <2>1, <2>2, <2>3, <2>4, <2>5, SelectAssumption DEF SelectInv
  <2>7. PollInv => PollInv' BY <2>1, <2>2, <2>4, ServerAssumption DEF PollInv
  <2>8. EpollInv => EpollInv' BY <2>1, <2>2, <2>3, <2>4, ServerAssumption DEF EpollInv
  <2>9. ~WronglyDropped BY <2>1 DEF WronglyDropped, InTable, Slot
  <2> QED BY <2>1, <2>6, <2>7, <2>8, <2>9, PhaseStutters DEF Inv
<1>2. CASE SelectSteps /\ Select!Next BY <1>2, SelectStep DEF Inv, SelectSteps
<1>3. CASE PollSteps /\ Poll!Next BY <1>3, PollStep DEF Inv, PollSteps
<1>4. CASE EpollSteps /\ Epoll!Next BY <1>4, EpollStep DEF Inv, EpollSteps
<1> QED BY <1>1, <1>2, <1>3, <1>4 DEF Next

(* The conjunction of the above is an inductive invariant of the three     *)
(* loops of server.c.                                                       *)
THEOREM Invariance == Spec => []Inv
<1>1. Inv /\ [Next]_vars => Inv' BY StepInv
<1> QED BY <1>1, InitInv, PTL DEF Spec

(* The table client_fd of each server of server.c holds open descriptors,  *)
(* each once, and never one that was closed and given to another client.    *)
THEOREM TableIsAlwaysSound == Spec => []TableIsSound
<1>1. Inv => TableIsSound
  <2> SUFFICES ASSUME Inv PROVE TableIsSound OBVIOUS
  <2> USE ServerAssumption, SelectAssumption
  <2>1. TableSound BY TableInvIsSound DEF Inv, SelectInv, PollInv, EpollInv
  <2>2. api = "select" => Select!TypeOK
    BY SelectShares, ConnOfOpen DEF Inv, SelectInv, NetInv, TableInv, Slot, Select!TypeOK, Select!ListenFd
  <2>3. api = "poll" => Poll!TypeOK
    BY PollShares DEF Inv, PollInv, NetInv, TableInv, Slot, Poll!TypeOK, ServerTypeOK
  <2>4. api = "epoll" => Epoll!TypeOK
    BY EpollShares DEF Inv, EpollInv, NetInv, TableInv, Epoll!TypeOK, ServerTypeOK, Epoll!ListenFd
  <2> QED BY <2>1, <2>2, <2>3, <2>4 DEF TableIsSound
<1> QED BY <1>1, Invariance, PTL

(* The epoll server handles every event on the connection that raised it,   *)
(* although close() and accept() reuse descriptors within a batch.          *)
THEOREM EventsStayCurrent == Spec => []EventsAreCurrent
<1>1. Inv => EventsAreCurrent
  BY DEF Inv, EpollInv, EventsAreCurrent, Epoll!EventsAreCurrent, Epoll!ListenFd
<1> QED BY <1>1, Invariance, PTL

(* The interest list of the epoll server is the listener and the open       *)
(* connections as long as the process runs.                                 *)
THEOREM InterestStaysExact == Spec => []InterestIsExact
<1>1. Inv => InterestIsExact
  BY EpollShares DEF Inv, EpollInv, InterestIsExact, Epoll!InterestIsExact, Epoll!ListenFd
<1> QED BY <1>1, Invariance, PTL

(* The select server empties a slot only when the connection was reset: a   *)
(* negative result of its read() is never "no data yet".                    *)
THEOREM OnlyResetIsDropped == Spec => OnlyResetDropped
<1>1. Inv /\ [Next]_vars =>
        [api = "select" => \A c \in Conn : InTable(c) /\ ~InTable(c)' => peer[c] = "reset"]_vars
  BY StepInv DEF WronglyDropped
<1> QED BY <1>1, Invariance, PTL DEF Spec, OnlyResetDropped

(* Each step of the epoll server is a step ConnectionService allows: it     *)
(* releases a connection only after its client ended it and everything it   *)
(* sent was consumed.                                                       *)
THEOREM PromiseIsKept == Spec => PromiseSafety
<1>1. Init => (api = "epoll" => Epoll!Promise!Init)
  <2> SUFFICES ASSUME Init, api = "epoll" PROVE Epoll!Promise!Init OBVIOUS
  <2>1. peer = [c \in Conn |-> "away"] /\ unread = [c \in Conn |-> FALSE]
    BY DEF Init, Epoll!Init, Epoll!NetworkInit
  <2>2. \A c \in Conn : PhaseOf(c) = "none" BY <2>1, PhaseIff, InitInv DEF Inv, EpollInv
  <2> QED BY <2>1, <2>2, PhaseIs DEF Epoll!Promise!Init
<1>2. Inv /\ [Next]_vars => [api = "epoll" => Epoll!Promise!Next \/ UNCHANGED Epoll!Promise!service]_vars
  BY StepInv DEF PromiseStep
<1> QED BY <1>1, <1>2, Invariance, PTL DEF Spec, PromiseSafety
==============================================================================
