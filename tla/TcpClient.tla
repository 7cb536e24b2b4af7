------------------------------ MODULE TcpClient ------------------------------
(***************************************************************************)
(* The two clients of src/linux_socket_example/client_nonblocking.c:       *)
(* client_blocking_init and client_nonblock_init, which main runs.  A      *)
(* client opens a socket, connects and then receives for ever.  The        *)
(* network and the server act between any two of its steps.                *)
(***************************************************************************)
EXTENDS Integers

CONSTANTS
  MaxData,      \* how many chunks the server may send
  SyscallsFail  \* whether socket(), fcntl(), select() and getsockopt() may fail

ASSUME ClientAssumption == MaxData \in Nat /\ SyscallsFail \in BOOLEAN

VARIABLES
  blocking,  \* which of the two clients it is
  cpc,        \* where it is: the system call it is about to make or waits in
  fd,        \* its descriptor: "none", "open" or "closed"
  tcp,      \* the connection, as the kernel of the client knows it
  unread,    \* received chunks the client has not read
  sent, got  \* chunks the server has sent, and the client has read

clientVars == <<blocking, cpc, fd, tcp, unread, sent, got>>

\* Connected, and then perhaps ended by the server with a FIN or an RST.
Established == {"up", "fin", "rst"}

ClientInit ==
  /\ blocking \in BOOLEAN
  /\ cpc = "socket" /\ fd = "none" /\ tcp = "none"
  /\ unread = 0 /\ sent = 0 /\ got = 0

-----------------------------------------------------------------------------
(* The network and the server. *)
network == <<blocking, cpc, fd, got>>

Answer ==
  /\ tcp = "connecting"
  /\ \E outcome \in {"up", "failed"} : tcp' = outcome
  /\ UNCHANGED <<unread, sent, network>>

ServerSends ==
  /\ tcp = "up" /\ sent < MaxData
  /\ unread' = unread + 1
  /\ sent' = sent + 1
  /\ UNCHANGED <<tcp, network>>

ServerEnds ==
  /\ tcp = "up"
  /\ \E how \in {"fin", "rst"} : tcp' = how
  /\ UNCHANGED <<unread, sent, network>>

Readable  == unread > 0 \/ tcp \in {"fin", "rst", "failed"}
Writable  == tcp \in Established \cup {"failed"}

\* A plausible bug: a refused connection is not seen as an error.
OnlyReset == tcp = "rst"
SoError   == tcp \in {"rst", "failed"}

-----------------------------------------------------------------------------
(* Getting connected. *)
data == <<unread, sent, got>>

\* return -1 (or exit), with the descriptor closed before or left open.
Leave(from, to) ==
  /\ cpc = from
  /\ cpc' = to
  /\ UNCHANGED <<blocking, tcp, data>>

Socket ==
  /\ cpc = "socket"
  /\ fd' = "open"
  /\ cpc' = IF blocking THEN "connect" ELSE "flags"
  /\ UNCHANGED <<blocking, tcp, data>>

SocketFails == SyscallsFail /\ Leave("socket", "returned") /\ UNCHANGED fd

SetNonblock == Leave("flags", "connect") /\ UNCHANGED fd

SetNonblockFails == SyscallsFail /\ Leave("flags", "returned") /\ fd' = "closed"

\* connect(): the blocking client waits in it; the other gets EINPROGRESS and
\* goes on to select(), or connects or fails at once.
Connect ==
  /\ cpc = "connect"
  /\ tcp' = "connecting"
  /\ cpc' = IF blocking THEN "connecting" ELSE "selecting"
  /\ UNCHANGED <<blocking, fd, data>>

ConnectAtOnce ==
  /\ cpc = "connect" /\ ~blocking
  /\ tcp' = "up"
  /\ cpc' = "loop"
  /\ UNCHANGED <<blocking, fd, data>>

ConnectFailsAtOnce == Leave("connect", "returned") /\ UNCHANGED fd

BlockingConnected == tcp \in Established /\ Leave("connecting", "loop") /\ UNCHANGED fd
BlockingRefused   == tcp = "failed" /\ Leave("connecting", "returned") /\ UNCHANGED fd

\* select() on both sets for ten seconds: rc is negative, 0, 1 or 2.
SelectFails == SyscallsFail /\ Leave("selecting", "returned") /\ fd' = "closed"

SelectTimesOut ==
  /\ ~Readable /\ ~Writable
  /\ Leave("selecting", "returned") /\ fd' = "closed"

SelectConnected == Writable /\ ~Readable /\ Leave("selecting", "loop") /\ UNCHANGED fd

\* rc == 2: SO_ERROR tells why.
SelectError ==
  /\ Writable /\ Readable
  /\ SoError \/ SyscallsFail
  /\ Leave("selecting", "returned") /\ fd' = "closed"

\* rc == 2 but SO_ERROR is zero: "connect failed", and nothing is closed.
SelectAbandons ==
  /\ Writable /\ Readable /\ ~SoError
  /\ Leave("selecting", "returned") /\ UNCHANGED fd

-----------------------------------------------------------------------------
(* The receive loop. *)

\* A plausible bug: the end is looked at first.
EndFirst == unread > 0 /\ tcp = "up"
HasData  == unread > 0

\* recv() with data, of at most 1024 bytes: all that is modelled.
Receive ==
  /\ cpc = "loop" /\ fd = "open" /\ HasData
  /\ got' = got + unread
  /\ unread' = 0
  /\ UNCHANGED <<blocking, cpc, fd, tcp, sent>>

\* recv() returns 0.  The blocking client closes the descriptor and calls
\* recv() on it for ever; the other one only goes round its loop.
ReceiveEnd ==
  /\ cpc = "loop" /\ fd = "open" /\ ~HasData /\ tcp = "fin"
  /\ fd' = IF blocking THEN "closed" ELSE fd
  /\ UNCHANGED <<blocking, cpc, tcp, data>>

\* recv() fails once, and returns 0 from then on.
ReceiveReset ==
  /\ cpc = "loop" /\ fd = "open" /\ ~HasData /\ tcp = "rst"
  /\ tcp' = "fin"
  /\ UNCHANGED <<blocking, cpc, fd, data>>

LoopSelectFails == SyscallsFail /\ ~blocking /\ Leave("loop", "exited") /\ fd' = "closed"

ClientProgram ==
  \/ Socket \/ SocketFails \/ SetNonblock \/ SetNonblockFails
  \/ Connect \/ ConnectAtOnce \/ ConnectFailsAtOnce
  \/ BlockingConnected \/ BlockingRefused
  \/ SelectFails \/ SelectTimesOut \/ SelectConnected \/ SelectError \/ SelectAbandons
  \/ Receive \/ ReceiveEnd \/ ReceiveReset \/ LoopSelectFails

ClientNext == ClientProgram \/ Answer \/ ServerSends \/ ServerEnds

-----------------------------------------------------------------------------
(* What the client makes of its connection attempt is true, however the     *)
(* answer, the first data and the end race.  The receive loop is only       *)
(* entered with a connection that was established: a refused one, which     *)
(* makes the descriptor writable too, never passes for a success.  The      *)
(* non-blocking client gives up on a connection, and leaks its descriptor,  *)
(* only when the server was quick: it had sent something, or closed, when   *)
(* select() returned.                                                       *)
OutcomeIsReal ==
  /\ cpc = "loop" => tcp \in Established
  /\ cpc = "returned" /\ fd = "open" /\ ~blocking /\ tcp # "none" => sent > 0 \/ tcp \in {"fin", "rst"}

(* Every chunk the server sent is still to be read or was read once, and    *)
(* the blocking client closes its descriptor only after it has read all.    *)
ClosesAfterLastChunk ==
  /\ got + unread = sent
  /\ blocking /\ fd = "closed" => got = sent

==============================================================================
