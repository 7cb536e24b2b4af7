------------------------------ MODULE MCServers ------------------------------
(* The three servers of server.c; main of the build runs one of them.  Each *)
(* has the table its interesting cases need: two slots for three clients of *)
(* the select server, one slot and the standard input for two clients of    *)
(* the poll server, and for the epoll server one slot and two descriptors   *)
(* for three clients, so that descriptors are reused.                       *)
EXTENDS ServerSockets

CONSTANTS
  PollConn,     \* the connections clients open to the poll server
  SelectAccept, \* MAX_ACCEPT of the select server
  Observed      \* the connections whose progress is checked: one stands for
                \* all, since they are interchangeable

ASSUME SelectAssumption == SelectAccept \in Nat \ {0}

VARIABLES
  api,                     \* the server that runs
  fdr, m,                  \* the select server
  revents,                 \* the poll server
  interest, events,        \* the epoll server
  Idx                      \* these two

vars == <<network, client_fd, pc, api, fdr, m, revents, interest, events, Idx>>

Select == INSTANCE SelectServer WITH MAX_ACCEPT <- SelectAccept
Poll   == INSTANCE PollServer
Epoll  == INSTANCE EpollServer

SelectIdle == fdr = {} /\ m = 0
PollIdle   == revents = << >>
EpollIdle  == interest = {} /\ events = {}

Init ==
  \/ api = "select" /\ Select!Init /\ PollIdle /\ EpollIdle /\ Idx = 0
  \/ api = "poll"   /\ Poll!Init /\ SelectIdle /\ EpollIdle
  \/ api = "epoll"  /\ Epoll!Init /\ SelectIdle /\ PollIdle

SelectSteps == api = "select" /\ UNCHANGED <<api, revents, interest, events, Idx>>
PollSteps   == api = "poll"   /\ UNCHANGED <<api, fdr, m, interest, events>>
EpollSteps  == api = "epoll"  /\ UNCHANGED <<api, fdr, m, revents>>

Server ==
  \/ SelectSteps /\ Select!Server
  \/ PollSteps   /\ Poll!Server
  \/ EpollSteps  /\ Epoll!Server

Next ==
  \/ SelectSteps /\ Select!Next
  \/ PollSteps   /\ Poll!Next /\ \A c \in Conn \ PollConn : peer'[c] = "away"
  \/ EpollSteps  /\ Epoll!Next

\* The loops never wait for ever, and poll() does not fail for ever; the poll
\* server may wait for the standard input for ever.
Spec == Init /\ [][Next]_vars /\ WF_vars(Server) /\ SF_vars(PollSteps /\ Poll!Poll)

-----------------------------------------------------------------------------
(* In each server the table holds open descriptors, each once, whatever     *)
(* connects, fails, fires at random and is accepted while events are        *)
(* handled, and never one that was closed and given to another client; the  *)
(* variables keep their types.                                              *)
TableIsSound ==
  /\ api = "select" => Select!TypeOK
  /\ api = "poll"   => Poll!TypeOK
  /\ api = "epoll"  => Epoll!TypeOK
  /\ TableSound

(* Events of a batch of the epoll server are handled on the connection that *)
(* raised them, although descriptors are reused within the batch.           *)
EventsAreCurrent == api = "epoll" => Epoll!EventsAreCurrent

(* The interest list of the epoll server is exactly the listener and the    *)
(* open connections.                                                        *)
InterestIsExact == api = "epoll" => Epoll!InterestIsExact

(* A client of the select server loses its slot only because its connection *)
(* was reset: "no data yet" is never taken for a failure.                   *)
OnlyResetDropped ==
  [][api = "select" => \A c \in Conn : InTable(c) /\ ~InTable(c)' => peer[c] = "reset"]_vars

(* Data of a client that has a watched slot of the select server is         *)
(* eventually read.  In the poll server the client may lose its slot, and   *)
(* the server may get stuck before: in a read of the standard input that    *)
(* was started on what a failed poll() left in memory.                      *)
SlotIsServed ==
  \A c \in Observed :
    api \in {"select", "poll"} /\ unread[c] /\ InTable(c)
      ~> \/ ~unread[c] \/ pc = "exited"
         \/ api = "poll" /\ (~InTable(c) \/ pc = "blocked")

(* A connection waiting for the select server is eventually accepted,       *)
(* unless the descriptors have run out.                                     *)
PendingIsAccepted ==
  \A c \in Observed :
    api = "select" /\ peer[c] # "away" ~> sock[c] # NoFd \/ FreeFds = {} \/ pc = "exited"

(* A client of the select server that has closed its connection loses its   *)
(* slot: the comments on read() at the top of server.c say that a result of *)
(* 0 means that the other side has closed.                                  *)
ClosedIsReleased ==
  \A c \in Observed : api = "select" /\ peer[c] = "closed" /\ InTable(c) ~> ~InTable(c) \/ pc = "exited"

(* The epoll server implements the promise of ConnectionService: a          *)
(* connection is only released after its client ended it and everything was *)
(* consumed; and, until the process exits, every one is consumed and        *)
(* released in the end.                                                     *)
PromiseSafety ==
  /\ api = "epoll" => Epoll!Promise!Init
  /\ [][api = "epoll" => Epoll!Promise!Next \/ UNCHANGED Epoll!Promise!service]_vars

KeepsPromise ==
  /\ PromiseSafety
  /\ [](api = "epoll" /\ pc # "exited") => \A c \in Observed : Epoll!Promise!Served(c)

==============================================================================
