----------------------------- MODULE SelectServer -----------------------------
(***************************************************************************)
(* socketSever_Init_select of src/linux_socket_example/server.c, the       *)
(* server that main runs: a loop that fills an fd_set from the table,      *)
(* waits in select() for at most ten seconds, and scans the table for the  *)
(* descriptors select() left in the set.  One step of the scan handles one *)
(* slot; the clients act in between.                                       *)
(***************************************************************************)
EXTENDS ServerSockets

VARIABLES
  fdr,  \* the fd_set after select()
  m     \* the slot the scan looks at

vars == <<network, client_fd, pc, fdr, m>>

Init ==
  /\ NetworkInit
  /\ TableInit
  /\ pc = "wait"
  /\ fdr = {}
  /\ m = 0

-----------------------------------------------------------------------------
\* Plausible bugs: the loop stops one slot early, or starts one late.
OneSlotShort   == {client_fd[i] : i \in 1..(MAX_ACCEPT - 2)} \cup {ListenFd}
ListenerMissed == {client_fd[i] : i \in 1..(MAX_ACCEPT - 1)}
Watched        == {client_fd[i] : i \in 1..(MAX_ACCEPT - 1)} \cup {ListenFd}

\* The head of the loop, with slot 0 for the listener, and select().  When
\* the ten seconds pass, fdr comes back empty and the scan finds nothing.
Select ==
  /\ pc = "wait"
  /\ client_fd' = [client_fd EXCEPT ![0] = ListenFd]
  /\ fdr' = ReadyOf(Watched \ {NoFd})
  /\ m' = 0
  /\ pc' = "scan"
  /\ UNCHANGED network

SelectFails ==
  /\ pc = "wait" /\ SyscallsFail
  /\ pc' = "exited"
  /\ client_fd' = [client_fd EXCEPT ![0] = ListenFd]
  /\ UNCHANGED <<network, fdr, m>>

\* The scan goes to the next slot, or back to the head of the loop.
Advance ==
  /\ m' = IF m < MAX_ACCEPT THEN m + 1 ELSE 0
  /\ pc' = IF m < MAX_ACCEPT THEN "scan" ELSE "wait"
  /\ UNCHANGED fdr

\* FD_ISSET.  For an empty slot it is undefined; true or false, nothing
\* changes: read(-1) fails, and then the first empty slot is emptied again.
EverySlot == TRUE
IsSet     == client_fd[m] \in fdr

Scanning == pc = "scan"

ScanSkips ==
  /\ Scanning /\ ~IsSet
  /\ UNCHANGED <<network, client_fd>>
  /\ Advance

\* The new socket goes into the first empty slot, if there is one; a failed
\* accept() returns -1, which is not 0 and is stored over an empty slot.
ScanAccepts ==
  /\ Scanning /\ IsSet /\ client_fd[m] = ListenFd
  /\ IF CanAccept
     THEN /\ AcceptCall
          /\ client_fd' = FirstReplaced(client_fd, NoFd, NewFd)
     ELSE UNCHANGED <<network, client_fd>>
  /\ Advance

\* Only a negative result empties the slot; client_fd[m] is -1 when it is
\* passed to close(), so that no descriptor is ever closed.
ScanReads ==
  /\ Scanning /\ IsSet /\ client_fd[m] # ListenFd
  /\ ReadCall(client_fd[m])
  /\ client_fd' = IF ReadResult(client_fd[m]) = "error"
                  THEN FirstReplaced(client_fd, client_fd[m], NoFd) ELSE client_fd
  /\ UNCHANGED sock
  /\ Advance

Server == Select \/ SelectFails \/ ScanSkips \/ ScanAccepts \/ ScanReads

Next == Server \/ (Clients /\ UNCHANGED <<client_fd, pc, fdr, m>>)

-----------------------------------------------------------------------------
(* Types of the variables. *)
TypeOK == ServerTypeOK /\ fdr \subseteq ClientFd \cup {ListenFd} /\ m \in Slot

===============================================================================
