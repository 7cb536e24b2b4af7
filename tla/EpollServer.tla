----------------------------- MODULE EpollServer -----------------------------
(***************************************************************************)
(* socketSeverInit_epoll of src/linux_socket_example/server.c: the kernel  *)
(* keeps the interest list, epoll_wait() returns the descriptors that have *)
(* events, and the server handles one after the other before it waits      *)
(* again.  The order of the events is the kernel's: any.  Every event of   *)
(* a connection includes EPOLLIN, since a FIN or RST sets it too, so the   *)
(* "NOT Handler" branch is never taken.  MAX_EVENTS is not defined in      *)
(* server.c; with the 100 of udp_blocking.c a batch holds every event.     *)
(***************************************************************************)
EXTENDS ServerSockets

VARIABLES
  interest,  \* the interest list of the epoll instance
  events,    \* the events still to be handled: descriptor, and who raised it
  Idx        \* how many have been handled

vars == <<network, client_fd, pc, interest, events, Idx>>

\* The listener's event is raised by nobody in Conn.
Listener == "listener"

\* Slot 0 and the interest list get the listener once, before the loop.
Init ==
  /\ NetworkInit
  /\ client_fd = [i \in 0..MAX_ACCEPT |-> IF i = 0 THEN ListenFd ELSE IF i < MAX_ACCEPT THEN NoFd ELSE 0]
  /\ interest = {ListenFd}
  /\ pc = "wait"
  /\ events = {}
  /\ Idx = 0

-----------------------------------------------------------------------------
Event(fd) == [fd |-> fd, of |-> IF fd = ListenFd THEN Listener ELSE ConnOf(fd)]

\* A timeout of epoll_wait() changes nothing.
EpollWait ==
  /\ pc = "wait"
  /\ ReadyOf(interest) # {}
  /\ events' = {Event(fd) : fd \in ReadyOf(interest)}
  /\ Idx' = 0
  /\ pc' = "scan"
  /\ UNCHANGED <<network, client_fd, interest>>

EpollWaitFails ==
  /\ pc = "wait" /\ SyscallsFail
  /\ pc' = "exited"
  /\ UNCHANGED <<network, client_fd, interest, events, Idx>>

\* The loop goes to the next event, or back to epoll_wait().
Handled(e) ==
  /\ events' = events \ {e}
  /\ Idx' = Idx + 1
  /\ pc' = IF events = {e} THEN "wait" ELSE "scan"

\* accept() or epoll_ctl() failing ends the process.
Exits(e) ==
  /\ pc' = "exited"
  /\ UNCHANGED <<client_fd, interest, events, Idx>>

\* A plausible bug: a client that finds no slot is not added to the list.
OnlyWithSlot  == IF \E n \in Slot : client_fd[n] = NoFd THEN interest \cup {NewFd} ELSE interest
InterestGrown == interest \cup {NewFd}

\* The table is only bookkeeping here: a client without a slot is served too.
HandleAccept(e) ==
  /\ e.fd = ListenFd
  /\ \/ /\ CanAccept
        /\ AcceptCall
        /\ interest' = InterestGrown
        /\ client_fd' = FirstReplaced(client_fd, NoFd, NewFd)
        /\ Handled(e)
     \/ /\ CanAccept /\ SyscallsFail
        /\ AcceptCall
        /\ Exits(e)
     \/ /\ ~CanAccept
        /\ UNCHANGED network
        /\ Exits(e)

\* Plausible bugs: close() gets a descriptor from the table, as in the two
\* other servers, or any result that is not positive ends the connection.
FirstSlotFd(fd) == client_fd[1]
FdToClose(fd)   == fd

EofOrError(fd)  == ReadResult(fd) \in {"eof", "error"}
IsEof(fd)       == ReadResult(fd) = "eof"

\* The end of the connection: slot, interest list and descriptor.
HandleEof(e) ==
  /\ e.fd # ListenFd /\ IsEof(e.fd)
  /\ client_fd' = FirstReplaced(client_fd, e.fd, NoFd)
  /\ interest' = interest \ {e.fd}
  /\ sock' = [c \in Conn |-> IF sock[c] = FdToClose(e.fd) THEN NoFd ELSE sock[c]]
  /\ UNCHANGED <<peer, unread, backlog>>
  /\ Handled(e)

\* The deletion from the interest list fails: the slot is already empty.
HandleEofFails(e) ==
  /\ e.fd # ListenFd /\ IsEof(e.fd) /\ SyscallsFail
  /\ client_fd' = FirstReplaced(client_fd, e.fd, NoFd)
  /\ pc' = "exited"
  /\ UNCHANGED <<network, interest, events, Idx>>

\* Data is handled; a negative result is only logged.
HandleData(e) ==
  /\ e.fd # ListenFd /\ ~IsEof(e.fd)
  /\ ReadCall(e.fd)
  /\ UNCHANGED <<sock, client_fd, interest>>
  /\ Handled(e)

Handle == \E e \in events :
  /\ pc = "scan"
  /\ HandleAccept(e) \/ HandleEof(e) \/ HandleEofFails(e) \/ HandleData(e)

Server == EpollWait \/ EpollWaitFails \/ Handle

Next == Server \/ (Clients /\ UNCHANGED <<client_fd, pc, interest, events, Idx>>)

-----------------------------------------------------------------------------
(* Types of the variables; the server only waits when no event is left. *)
TypeOK ==
  /\ ServerTypeOK
  /\ interest \subseteq ClientFd \cup {ListenFd}
  /\ \A e \in events : e.fd = ListenFd \/ (e.fd \in ClientFd /\ e.of \in Conn)
  /\ Idx \in Nat
  /\ pc = "wait" => events = {}

(* Descriptors are reused within one batch of events: a close() followed by *)
(* an accept() gives the number to another client.  An event that is still  *)
(* to be handled is nevertheless always handled on the connection that      *)
(* raised it.                                                               *)
EventsAreCurrent == pc = "scan" => \A e \in events : e.fd # ListenFd => sock[e.of] = e.fd

(* The interest list is exactly the listener and the open connections: no   *)
(* closed descriptor is watched, no open one is forgotten.                  *)
InterestIsExact == pc # "exited" => interest = {ListenFd} \cup OpenFds

\* The state of a connection for the client: the refinement mapping.
Phase == [c \in Conn |->
  CASE peer[c] = "away"                         -> "none"
    [] \E i \in 1..Len(backlog) : backlog[i] = c -> "waiting"
    [] sock[c] # NoFd                           -> "open"
    [] OTHER                                    -> "released"]

Promise == INSTANCE ConnectionService WITH phase <- Phase

==============================================================================
