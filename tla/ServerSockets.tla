---------------------------- MODULE ServerSockets ----------------------------
(***************************************************************************)
(* What the three servers of src/linux_socket_example/server.c share: the  *)
(* listening socket, the connections of the clients as the kernel keeps    *)
(* them, and the global table client_fd.                                   *)
(*                                                                         *)
(* The kernel and the clients are external: they are modelled by what the  *)
(* servers observe of them.  The data of a connection is reduced to        *)
(* whether there is some to read.                                          *)
(***************************************************************************)
EXTENDS Integers, Sequences, FiniteSetsExt

CONSTANTS
  Conn,         \* the connections clients will open, each once
  MAX_ACCEPT,   \* the macro of server.c: the table has MAX_ACCEPT + 1 slots
  Backlog,      \* the argument of listen()
  MaxFd,        \* descriptors ListenFd + 1 .. MaxFd are left for clients
  SyscallsFail  \* whether waiting for events may fail (EINTR, ENOMEM)

NoFd     == -1
Stdin    == 0
ListenFd == 3
ClientFd == (ListenFd + 1)..MaxFd

ASSUME ServerAssumption ==
  /\ MAX_ACCEPT \in Nat \ {0}
  /\ Backlog \in Nat \ {0}
  /\ MaxFd \in Nat
  /\ SyscallsFail \in BOOLEAN

VARIABLES
  peer,       \* the client's end: "away", "up", "closed" (FIN), "reset" (RST)
  unread,     \* received data that has not been read
  backlog,    \* connections waiting for accept(), in order
  sock,       \* the descriptor of an accepted connection, or NoFd
  client_fd,  \* the table of the server
  pc          \* "wait" for events, "scan" them, "blocked" in a read, "exited"

network == <<peer, unread, backlog, sock>>

Slot == DOMAIN client_fd

NetworkInit ==
  /\ peer = [c \in Conn |-> "away"]
  /\ unread = [c \in Conn |-> FALSE]
  /\ backlog = << >>
  /\ sock = [c \in Conn |-> NoFd]

\* The loops over i < MAX_ACCEPT leave the last slot at its static zero.
TableInit == client_fd = [i \in 0..MAX_ACCEPT |-> IF i < MAX_ACCEPT THEN NoFd ELSE 0]

-----------------------------------------------------------------------------
(* The clients. *)
Connect(c) ==
  /\ peer[c] = "away" /\ Len(backlog) < Backlog
  /\ peer' = [peer EXCEPT ![c] = "up"]
  /\ backlog' = Append(backlog, c)
  /\ UNCHANGED <<unread, sock>>

Send(c) ==
  /\ peer[c] = "up"
  /\ unread' = [unread EXCEPT ![c] = TRUE]
  /\ UNCHANGED <<peer, backlog, sock>>

Close(c) ==
  /\ peer[c] = "up"
  /\ peer' = [peer EXCEPT ![c] = "closed"]
  /\ UNCHANGED <<unread, backlog, sock>>

\* Data that was received before a reset can still be read.
Reset(c) ==
  /\ peer[c] = "up"
  /\ peer' = [peer EXCEPT ![c] = "reset"]
  /\ UNCHANGED <<unread, backlog, sock>>

Clients == \E c \in Conn : Connect(c) \/ Send(c) \/ Close(c) \/ Reset(c)

-----------------------------------------------------------------------------
(* The system calls. *)

Accepted == {c \in Conn : sock[c] # NoFd}
OpenFds  == {sock[c] : c \in Accepted}
FreeFds  == ClientFd \ OpenFds

\* The connection behind an open descriptor.
ConnOf(fd) == CHOOSE c \in Conn : sock[c] = fd

\* A read of the connection would not block.
Readable(c) == unread[c] \/ peer[c] \in {"closed", "reset"}

\* The descriptors of fds that have something to report.
ReadyOf(fds) == {fd \in fds : \/ fd = ListenFd /\ backlog # << >>
                              \/ fd \in OpenFds /\ Readable(ConnOf(fd))}

\* accept() fails when nobody waits (EAGAIN) or no descriptor is left (EMFILE).
CanAccept == backlog # << >> /\ FreeFds # {}
NewFd     == Min(FreeFds)

AcceptCall ==
  /\ sock' = [sock EXCEPT ![Head(backlog)] = NewFd]
  /\ backlog' = Tail(backlog)
  /\ UNCHANGED <<peer, unread>>

\* The result of read() or recv(): negative, zero or positive.
ReadResult(fd) ==
  IF fd \notin OpenFds THEN "error"
  ELSE LET c == ConnOf(fd) IN
       CASE unread[c]                        -> "data"
         [] peer[c] = "closed" /\ ~unread[c] -> "eof"
         [] OTHER                            -> "error"

\* Its effect: data is consumed; the reset behind it is reported only once.
ReadCall(fd) ==
  IF fd \notin OpenFds THEN UNCHANGED <<peer, unread, backlog>>
  ELSE LET c == ConnOf(fd) IN
       /\ peer' = [peer EXCEPT ![c] = IF @ = "reset" /\ ~unread[c] THEN "closed" ELSE @]
       /\ unread' = [unread EXCEPT ![c] = FALSE]
       /\ UNCHANGED backlog

-----------------------------------------------------------------------------
(* The loops over the table. *)

\* A plausible bug: the break is missing.
AllReplaced(table, old, new) == [n \in Slot |-> IF table[n] = old THEN new ELSE table[n]]

\* for (n...) if (client_fd[n] == old) { client_fd[n] = new; break; }
FirstReplaced(table, old, new) ==
  LET found == {n \in Slot : table[n] = old}
  IN  IF found = {} THEN table ELSE [table EXCEPT ![Min(found)] = new]

\* The clients that have a slot, and the table as a whole.
InTable(c) == \E n \in Slot : client_fd[n] = sock[c] /\ sock[c] # NoFd

ServerTypeOK ==
  /\ peer \in [Conn -> {"away", "up", "closed", "reset"}]
  /\ unread \in [Conn -> BOOLEAN]
  /\ backlog \in Seq(Conn)
  /\ sock \in [Conn -> ClientFd \cup {NoFd}]
  /\ client_fd \in [0..MAX_ACCEPT -> {NoFd, Stdin, ListenFd} \cup ClientFd]
  /\ pc \in {"wait", "scan", "blocked", "exited"}

\* Every slot but the listener's is empty, the static zero, or an open
\* descriptor that no other slot holds.
TableSound ==
  \A n \in Slot \ {0} :
    /\ client_fd[n] \in {NoFd, Stdin} \cup OpenFds
    /\ client_fd[n] # NoFd => \A k \in Slot \ {n} : client_fd[k] # client_fd[n]

==============================================================================
