----------------------------- MODULE UbusService -----------------------------
(***************************************************************************)
(* src/ubus_example/ubus_server.c and the main program of ubus_client.c,   *)
(* with the bus daemon between them.  The server publishes an object,      *)
(* listens for an event, answers calls from its event loop, and reconnects *)
(* every two seconds when its connection is lost.  A client looks the      *)
(* object up and calls it once.                                            *)
(*                                                                         *)
(* ubusd and libubus are external.  The daemon forgets the objects and the *)
(* listeners of a connection that ends; object ids are never reused;       *)
(* ubus_reconnect publishes again the objects of the context, but not the  *)
(* event pattern, which only main registers.                               *)
(***************************************************************************)
EXTENDS Integers, Sequences

CONSTANTS
  Client,     \* the runs of the client program
  MaxFaults,  \* connections lost, alone or with the daemon
  MaxEvents   \* events sent

ASSUME UbusAssumption == MaxFaults \in Nat /\ MaxEvents \in Nat

NoId == 0

VARIABLES
  daemon,   \* "up" or "down"
  reign,    \* how often it was restarted
  faults,   \* connections lost so far
  events,   \* events sent so far
  object,   \* the id under which the daemon has the object, or NoId
  nextId,   \* the next id it gives away
  heard,    \* the daemon has the server's event pattern
  pc,       \* where the server is
  link,     \* the server's connection: "none", "open", or "lost" but unread
  watched,  \* the connection is in the event loop
  retry,    \* the timer of ubus_reconn_timer is pending
  listed,   \* ubus_ctx->objects has the object
  inbox,    \* what the connection has for the server
  b,        \* the server's blob buffer
  state,    \* where each client is
  since,    \* the reign in which each client connected
  id,       \* the id each client has looked up
  answer    \* the reply on its way to the client, or printed by it

daemonVars == <<daemon, reign, faults, events, object, nextId, heard>>
serverVars == <<pc, link, watched, retry, listed, inbox, b>>
callerVars == <<state, since, id, answer>>
serviceVars == <<daemonVars, serverVars, callerVars>>

ServiceInit ==
  /\ daemon \in {"up", "down"} /\ reign = 0 /\ faults = 0 /\ events = 0
  /\ object = NoId /\ nextId = 1 /\ heard = FALSE
  /\ pc = "start" /\ link = "none" /\ watched = FALSE /\ retry = FALSE /\ listed = FALSE
  /\ inbox = << >> /\ b = << >>
  /\ state = [c \in Client |-> "idle"] /\ since = [c \in Client |-> 0]
  /\ id = [c \in Client |-> NoId] /\ answer = [c \in Client |-> << >>]

-----------------------------------------------------------------------------
(* The daemon and its connections. *)
Cut == link' = (IF link = "open" THEN "lost" ELSE link) /\ object' = NoId /\ heard' = FALSE

\* The daemon ends, or closes the server's connection only.
Fault ==
  /\ daemon = "up" /\ faults < MaxFaults
  /\ faults' = faults + 1
  /\ daemon' \in {"up", "down"}
  /\ Cut
  /\ UNCHANGED <<reign, events, nextId, pc, watched, retry, listed, inbox, b, callerVars>>

Restart ==
  /\ daemon = "down" /\ daemon' = "up" /\ reign' = reign + 1
  /\ UNCHANGED <<faults, events, object, nextId, heard, serverVars, callerVars>>

Event == [kind |-> "event"]
Call(c) == [kind |-> "call", from |-> c]

SendEvent ==
  /\ heard /\ events < MaxEvents
  /\ events' = events + 1
  /\ inbox' = Append(inbox, Event)
  /\ UNCHANGED <<daemon, reign, faults, object, nextId, heard, pc, link, watched, retry, listed, b, callerVars>>

\* ubus_add_object: the daemon gives the object an id, and libubus enters it
\* into the context.
Publish ==
  /\ object' = nextId /\ nextId' = nextId + 1
  /\ listed' = TRUE

-----------------------------------------------------------------------------
(* The server. *)

\* main: ubus_connect.  Without a daemon the context is NULL, and
\* ubus_register_event_handler dereferences it.
ServerConnect ==
  /\ pc = "start"
  /\ \/ daemon = "up" /\ pc' = "connected" /\ link' = "open"
     \/ daemon = "down" /\ pc' = "crashed" /\ link' = "none"
  /\ UNCHANGED <<daemonVars, watched, retry, listed, inbox, b, callerVars>>

\* The result of the registration is not looked at.
RegisterEvent ==
  /\ pc = "connected" /\ pc' = "registered"
  /\ heard' = (link = "open")
  /\ UNCHANGED <<daemon, reign, faults, events, object, nextId, link, watched, retry, listed, inbox, b, callerVars>>

\* A failure of ubus_add_object is printed, and main goes on into the loop.
AddObject ==
  /\ pc = "registered" /\ pc' = "loop"
  /\ IF link = "open" THEN Publish ELSE UNCHANGED <<object, nextId, listed>>
  /\ watched' = TRUE
  /\ UNCHANGED <<daemon, reign, faults, events, heard, link, retry, inbox, b, callerVars>>

\* A plausible bug: the buffer keeps what the last call put into it.
NotCleared(buf)    == buf
blob_buf_init(buf) == << >>

\* The daemon that a client has connected to is still there.
Connected(c) == daemon = "up" /\ since[c] = reign

DevInfo == <<"mac", "rx_rssi">>

\* uproto_get_devinfo; the reply is lost with the connection, and of no use
\* to a client that has gone.
get_devinfo(c) ==
  /\ b' = blob_buf_init(b) \o DevInfo
  /\ answer' = IF link = "open" /\ state[c] = "waiting" /\ Connected(c) THEN [answer EXCEPT ![c] = b'] ELSE answer

\* ubus_receive_event only prints.
receive_event == UNCHANGED <<b, answer>>

HandleMessage ==
  /\ pc = "loop" /\ watched /\ inbox # << >>
  /\ inbox' = Tail(inbox)
  /\ \/ Head(inbox) = Event /\ receive_event
     \/ Head(inbox).kind = "call" /\ get_devinfo(Head(inbox).from)
  /\ UNCHANGED <<daemonVars, pc, link, watched, retry, listed, state, since, id>>

\* ubus_connection_lost, from the loop; ubus_reconn_timer begins with
\* ubus_reconnect, which closes the old connection.
ConnectionLost ==
  /\ pc = "loop" /\ watched /\ inbox = << >> /\ link = "lost"
  /\ pc' = "reconnect" /\ link' = "none" /\ watched' = FALSE
  /\ UNCHANGED <<daemonVars, retry, listed, inbox, b, callerVars>>

RetryFires ==
  /\ pc = "loop" /\ retry
  /\ pc' = "reconnect" /\ retry' = FALSE
  /\ UNCHANGED <<daemonVars, link, watched, listed, inbox, b, callerVars>>

\* A plausible bug: a failed attempt does not arm the timer.
NotArmed(armed)          == armed
uloop_timeout_set(armed) == TRUE

Reconnect ==
  /\ pc = "reconnect"
  /\ \/ daemon = "up" /\ pc' = "refresh" /\ link' = "open" /\ retry' = retry
     \/ daemon = "down" /\ pc' = "loop" /\ link' = "none" /\ retry' = uloop_timeout_set(retry)
  /\ UNCHANGED <<daemonVars, watched, listed, inbox, b, callerVars>>

\* A plausible bug: the new connection is not watched.
StaysOut(w)       == w
ubus_add_uloop(w) == TRUE

\* The rest of ubus_reconnect, which publishes what the context knows, and of
\* ubus_reconn_timer.  When the connection is lost again in between, the
\* object may have left the context for good.
Refresh ==
  /\ pc = "refresh" /\ pc' = "loop"
  /\ watched' = ubus_add_uloop(watched)
  /\ IF ~listed THEN UNCHANGED <<object, nextId, listed>>
     ELSE IF link = "open" THEN Publish
     ELSE listed' \in BOOLEAN /\ UNCHANGED <<object, nextId>>
  /\ UNCHANGED <<daemon, reign, faults, events, heard, link, retry, inbox, b, callerVars>>

\* A signal ends uloop_run; ubus_free closes the connection.
Terminate ==
  /\ pc = "loop" /\ pc' = "ended"
  /\ link' = "none" /\ watched' = FALSE /\ retry' = FALSE /\ listed' = FALSE /\ inbox' = << >>
  /\ object' = NoId /\ heard' = FALSE
  /\ UNCHANGED <<daemon, reign, faults, events, nextId, b, callerVars>>

-----------------------------------------------------------------------------
(* The client. *)
Move(c, to) == state' = [state EXCEPT ![c] = to]

\* Without a daemon the context is NULL, and ubus_lookup_id dereferences it.
ClientConnect(c) ==
  /\ state[c] = "idle"
  /\ Move(c, IF daemon = "up" THEN "connected" ELSE "crashed")
  /\ since' = [since EXCEPT ![c] = reign]
  /\ UNCHANGED <<daemonVars, serverVars, id, answer>>

\* A lookup that fails ends the program.
Lookup(c) ==
  /\ state[c] = "connected"
  /\ IF Connected(c) /\ object # NoId
     THEN Move(c, "found") /\ id' = [id EXCEPT ![c] = object]
     ELSE Move(c, "ended") /\ UNCHANGED id
  /\ UNCHANGED <<daemonVars, serverVars, since, answer>>

\* ubus_invoke: the call goes to the server when the id is still known; the
\* result is not looked at.
Invoke(c) ==
  /\ state[c] = "found"
  /\ IF Connected(c) /\ id[c] = object
     THEN Move(c, "waiting") /\ inbox' = Append(inbox, Call(c))
     ELSE Move(c, "ended") /\ UNCHANGED inbox
  /\ UNCHANGED <<daemonVars, pc, link, watched, retry, listed, b, since, id, answer>>

\* scanreq_prog_cb prints the reply.
Answered(c) ==
  /\ state[c] = "waiting" /\ answer[c] # << >>
  /\ Move(c, "ended")
  /\ UNCHANGED <<daemonVars, serverVars, since, id, answer>>

\* A plausible bug: the call waits for ever.
NoTimeout(c) == FALSE
HasTimeout(c) == TRUE

\* One second has passed, or the connection or the object has gone.
GivesUp(c) ==
  /\ state[c] = "waiting" /\ HasTimeout(c)
  /\ Move(c, "ended")
  /\ answer' = [answer EXCEPT ![c] = << >>]
  /\ UNCHANGED <<daemonVars, serverVars, since, id>>

-----------------------------------------------------------------------------
Server ==
  \/ ServerConnect \/ RegisterEvent \/ AddObject
  \/ HandleMessage \/ ConnectionLost \/ RetryFires \/ Reconnect \/ Refresh

Caller(c) == ClientConnect(c) \/ Lookup(c) \/ Invoke(c) \/ Answered(c) \/ GivesUp(c)

ServiceNext == Fault \/ Restart \/ SendEvent \/ Server \/ Terminate \/ \E c \in Client : Caller(c)

-----------------------------------------------------------------------------
(* The global buffer of uproto_get_devinfo serves one call after the other, *)
(* yet every reply that is sent has the two attributes of its own call.     *)
ReplyIsExact == \A c \in Client : answer[c] \in {<< >>, DevInfo}

(* The loop of the server never waits for nothing: there is a connection in *)
(* it, whose end will be noticed, or the timer of the next attempt, and     *)
(* never both, whatever was lost while ubus_reconn_timer was at work.       *)
NeverDeaf ==
  pc = "loop" => IF retry THEN ~watched /\ link = "none" ELSE watched /\ link # "none"

(* When the daemon stays up, a server that has lost its connection has its  *)
(* object published again, unless the object has left the context.          *)
ObjectComesBack ==
  <>[](daemon = "up")
    => (pc = "loop" /\ listed) ~> (object # NoId \/ ~listed)

(* A client ends, whatever becomes of the server, the daemon and its call.  *)
ClientEnds == \A c \in Client : (state[c] # "idle") ~> (state[c] \in {"ended", "crashed"})

==============================================================================
