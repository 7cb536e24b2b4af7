------------------------------ MODULE PollServer ------------------------------
(***************************************************************************)
(* socketSever_Init_poll of src/linux_socket_example/server.c: like the    *)
(* select server, but the array given to poll() is malloc'ed anew in every *)
(* round and only the entries of occupied slots are filled in.  An entry   *)
(* of an empty slot holds whatever was in memory, often the descriptor the *)
(* slot had before, so that it may or may not fire.                        *)
(***************************************************************************)
EXTENDS ServerSockets

VARIABLES
  revents,  \* per slot: "quiet", fired for the "listen" or an "other" fd, or
            \* fired although the last poll() failed: "stale"
  Idx       \* the slot the scan looks at

vars == <<network, client_fd, pc, revents, Idx>>

Init ==
  /\ NetworkInit
  /\ TableInit
  /\ pc = "wait"
  /\ revents = [n \in 0..MAX_ACCEPT |-> "quiet"]
  /\ Idx = 0

-----------------------------------------------------------------------------
\* What poll() can report for slot n.  The last slot, a static zero, is the
\* standard input.
Reports(n) ==
  CASE n = 0                 -> {IF backlog # << >> THEN "listen" ELSE "quiet"}
    [] client_fd[n] = Stdin  -> {"quiet", "other"}
    [] client_fd[n] = NoFd   -> {"quiet", "other"} \cup (IF backlog # << >> THEN {"listen"} ELSE {})
    [] OTHER                 -> {IF client_fd[n] \in ReadyOf({client_fd[n]}) THEN "other" ELSE "quiet"}

SlotsPolled(r) == \A n \in Slot : r[n] \in Reports(n)

\* The head of the loop and poll(); on its timeout nothing fires.  When
\* malloc() fails the loop tries again.
Poll == \E r \in [Slot -> {"quiet", "listen", "other"}] :
  /\ pc = "wait"
  /\ SlotsPolled(r)
  /\ client_fd' = [client_fd EXCEPT ![0] = ListenFd]
  /\ revents' = r
  /\ Idx' = 0
  /\ pc' = "scan"
  /\ UNCHANGED network

\* poll() returned -1: only 0 is told apart, so revents is scanned although
\* poll() did not write it.
PollFails == \E r \in [Slot -> {"quiet", "listen", "stale"}] :
  /\ pc = "wait" /\ SyscallsFail
  /\ \A n \in Slot : r[n] = "listen" => n = 0 \/ client_fd[n] = NoFd
  /\ r[0] # "stale"
  /\ client_fd' = [client_fd EXCEPT ![0] = ListenFd]
  /\ revents' = r
  /\ Idx' = 0
  /\ pc' = "scan"
  /\ UNCHANGED network

Advance ==
  /\ Idx' = IF Idx < MAX_ACCEPT THEN Idx + 1 ELSE 0
  /\ pc' = IF Idx < MAX_ACCEPT THEN "scan" ELSE "wait"
  /\ UNCHANGED revents

ScanSkips ==
  /\ pc = "scan" /\ revents[Idx] = "quiet"
  /\ UNCHANGED <<network, client_fd>>
  /\ Advance

\* A failed accept() stores -1 over an empty slot.
ScanAccepts ==
  /\ pc = "scan" /\ revents[Idx] = "listen"
  /\ IF CanAccept
     THEN /\ AcceptCall
          /\ client_fd' = FirstReplaced(client_fd, NoFd, NewFd)
     ELSE UNCHANGED <<network, client_fd>>
  /\ Advance

\* The read is of what the slot holds now.  As in the select server, a
\* failure empties the slot and closes nothing.
ScanReads ==
  /\ pc = "scan" /\ revents[Idx] \in {"other", "stale"}
  /\ ReadCall(client_fd[Idx])
  /\ \/ /\ ReadResult(client_fd[Idx]) = "error"
        /\ client_fd' = FirstReplaced(client_fd, client_fd[Idx], NoFd)
     \/ /\ ReadResult(client_fd[Idx]) # "error" \/ client_fd[Idx] = Stdin
        /\ UNCHANGED client_fd
  /\ UNCHANGED sock
  /\ Advance

\* Every socket is non-blocking, the standard input is not: after a failed
\* poll() nothing says that it has input, and the read of it waits.
ScanBlocks ==
  /\ pc = "scan" /\ revents[Idx] = "stale" /\ client_fd[Idx] = Stdin
  /\ pc' = "blocked"
  /\ UNCHANGED <<network, client_fd, revents, Idx>>

\* Somebody types, or the standard input ends or fails.
StdinReturns ==
  /\ pc = "blocked"
  /\ client_fd' \in {client_fd, FirstReplaced(client_fd, Stdin, NoFd)}
  /\ UNCHANGED network
  /\ Advance

Server == Poll \/ PollFails \/ ScanSkips \/ ScanAccepts \/ ScanReads \/ ScanBlocks

Next ==
  \/ Server
  \/ StdinReturns
  \/ Clients /\ UNCHANGED <<client_fd, pc, revents, Idx>>

-----------------------------------------------------------------------------
(* Types of the variables. *)
TypeOK == ServerTypeOK /\ Idx \in Slot
          /\ revents \in [Slot -> {"quiet", "listen", "other", "stale"}]

===============================================================================
