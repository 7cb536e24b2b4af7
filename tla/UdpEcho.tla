------------------------------- MODULE UdpEcho -------------------------------
(***************************************************************************)
(* src/linux_socket_example/udp_blocking.c: a server that sends every      *)
(* datagram it receives to a fixed peer.  sendData opens a socket for      *)
(* each echo, never closes it and sends through the listening socket.      *)
(***************************************************************************)
EXTENDS Integers, Sequences, FiniteSets

CONSTANTS
  MaxDatagrams,  \* how many datagrams arrive
  MaxSockets,    \* descriptors the process has left
  UdpCallsFail   \* whether socket(), bind() and sendto() may also fail while
                 \* descriptors are left (ENFILE, ENOBUFS, ENOMEM, ...)

ASSUME EchoAssumption ==
  MaxDatagrams \in Nat /\ MaxSockets \in Nat /\ UdpCallsFail \in BOOLEAN

VARIABLES
  upc,      \* "socket", "bind", "loop", or ended: "returned", "exited"
  datagrams,    \* datagrams in the receive buffer of the listening socket
  arrived,  \* every datagram that was received into it
  sockets,  \* descriptors sendData has opened
  refused,  \* history: the datagrams for which socket() failed although
            \* descriptors were left
  echoed    \* datagrams sent to the peer

echoVars == <<upc, datagrams, arrived, sockets, refused, echoed>>

\* Of a datagram only its length matters: none, at most the 1024 bytes the
\* buffer takes, or more.
Sizes == {"empty", "fits", "long"}
Datagram == [no : 1..MaxDatagrams, size : Sizes]

\* recvfrom() cuts a longer datagram.
Truncated(d) == [d EXCEPT !.size = IF @ = "long" THEN "fits" ELSE @]

EchoInit ==
  /\ upc = "socket"
  /\ datagrams = << >> /\ arrived = << >> /\ echoed = << >>
  /\ sockets = 0 /\ refused = {}

Setup(from, to, end) ==
  /\ upc = from
  /\ upc' = to \/ (UdpCallsFail /\ upc' = end)
  /\ UNCHANGED <<datagrams, arrived, sockets, refused, echoed>>

EchoSocket == Setup("socket", "bind", "returned")
EchoBind   == Setup("bind", "loop", "exited")

\* The network: datagrams reach the bound socket.
Arrive == \E size \in Sizes :
  /\ upc = "loop" /\ Len(arrived) < MaxDatagrams
  /\ LET d == [no |-> Len(arrived) + 1, size |-> size] IN
       /\ datagrams' = Append(datagrams, d)
       /\ arrived' = Append(arrived, d)
  /\ UNCHANGED <<upc, sockets, refused, echoed>>

\* A plausible bug: the echo goes on without a socket of its own.
AlwaysOpens == TRUE
CanOpen     == sockets < MaxSockets

\* sendData: when socket() fails, for want of a descriptor or otherwise,
\* nothing is sent and no descriptor is used; sendto() is not checked.
sendData(d) ==
  \/ /\ CanOpen
     /\ sockets' = sockets + 1
     /\ echoed' = Append(echoed, d) \/ (UdpCallsFail /\ UNCHANGED echoed)
     /\ UNCHANGED refused
  \/ /\ CanOpen /\ UdpCallsFail
     /\ refused' = refused \cup {d.no}
     /\ UNCHANGED <<sockets, echoed>>
  \/ /\ ~CanOpen
     /\ UNCHANGED <<sockets, refused, echoed>>

\* One round of the loop; an empty datagram is only logged.
EchoReceive ==
  /\ upc = "loop" /\ datagrams # << >>
  /\ datagrams' = Tail(datagrams)
  /\ IF Head(datagrams).size = "empty" THEN UNCHANGED <<sockets, refused, echoed>>
     ELSE sendData(Truncated(Head(datagrams)))
  /\ UNCHANGED <<upc, arrived>>

EchoServer == EchoSocket \/ EchoBind \/ EchoReceive

EchoNext == EchoServer \/ Arrive

-----------------------------------------------------------------------------
\* The datagrams up to the n-th that carry something and could be given a
\* socket: one that socket() refused by chance does not count.
Carrying(n) == {i \in 1..n : arrived[i].size # "empty" /\ i \notin refused}

(* The service is as good as its descriptors: the first MaxSockets          *)
(* non-empty datagrams that socket() does not refuse for another reason     *)
(* each cost one descriptor; only they are echoed, in order, cut to the     *)
(* buffer; every later one is swallowed for the life of the process.        *)
EchoIsLimited ==
  LET taken  == Len(arrived) - Len(datagrams)
      served == {i \in Carrying(taken) : Cardinality(Carrying(i)) <= MaxSockets}
  IN  /\ sockets = Cardinality(served)
      /\ \A k \in 1..Len(echoed) :
           /\ \E i \in served : echoed[k] = Truncated(arrived[i])
           /\ \A l \in 1..(k - 1) : echoed[l].no < echoed[k].no
      /\ UdpCallsFail \/ (refused = {} /\ Len(echoed) = Cardinality(served))

==============================================================================
