-------------------------- MODULE ConnectionService --------------------------
(***************************************************************************)
(* What a socket server promises a client: its connection is accepted and  *)
(* stays open until the client itself ends it, everything the client sent  *)
(* is consumed before the connection is released, and all of this happens. *)
(***************************************************************************)
CONSTANT Conn

VARIABLES
  peer,    \* the client's end of the connection
  unread,  \* it has sent something that has not been consumed
  phase    \* the server's end: "none", "waiting", "open", "released"

service == <<peer, unread, phase>>

Init ==
  /\ peer = [c \in Conn |-> "away"]
  /\ unread = [c \in Conn |-> FALSE]
  /\ phase = [c \in Conn |-> "none"]

Connect(c) ==
  /\ phase[c] = "none"
  /\ peer' = [peer EXCEPT ![c] = "up"]
  /\ phase' = [phase EXCEPT ![c] = "waiting"]
  /\ UNCHANGED unread

Send(c) ==
  /\ peer[c] = "up"
  /\ unread' = [unread EXCEPT ![c] = TRUE]
  /\ UNCHANGED <<peer, phase>>

End(c) ==
  /\ peer[c] = "up"
  /\ \E how \in {"closed", "reset"} : peer' = [peer EXCEPT ![c] = how]
  /\ UNCHANGED <<unread, phase>>

Accept(c) ==
  /\ phase[c] = "waiting"
  /\ phase' = [phase EXCEPT ![c] = "open"]
  /\ UNCHANGED <<peer, unread>>

Consume(c) ==
  /\ phase[c] = "open"
  /\ unread[c]
  /\ unread' = [unread EXCEPT ![c] = FALSE]
  /\ UNCHANGED <<peer, phase>>

\* The server learns of the reset; the connection is then like a closed one.
NoticeReset(c) ==
  /\ phase[c] = "open"
  /\ peer[c] = "reset" /\ ~unread[c]
  /\ peer' = [peer EXCEPT ![c] = "closed"]
  /\ UNCHANGED <<unread, phase>>

Release(c) ==
  /\ phase[c] = "open"
  /\ peer[c] = "closed"
  /\ ~unread[c]
  /\ phase' = [phase EXCEPT ![c] = "released"]
  /\ UNCHANGED <<peer, unread>>

Serve(c) == Accept(c) \/ Consume(c) \/ NoticeReset(c) \/ Release(c)

Next == \E c \in Conn : Connect(c) \/ Send(c) \/ End(c) \/ Serve(c)

Safety == Init /\ [][Next]_service

Served(c) == WF_service(Serve(c))

Liveness == \A c \in Conn : Served(c)

Spec == Safety /\ Liveness

==============================================================================
