----------------------------- MODULE MCPrograms -----------------------------
(* The stand-alone programs that talk to a peer: the TCP client, the UDP    *)
(* echo server, the readers of the border router's properties over D-Bus    *)
(* and over ubus, and the ubus server with its clients.  They share         *)
(* nothing, so one of them runs.                                            *)
(*                                                                          *)
(* Two chunks let data arrive before, with and after the end of the TCP     *)
(* client's connection; three datagrams and two sockets let the echo server *)
(* run out of descriptors; a reply nests a variant in a variant; a variable *)
(* of three bytes, two of them printed and one a pointer, lets an array be  *)
(* shorter than what is printed, as long, and longer than the variable;     *)
(* three chains of queries overlap; two ubus clients use the server's       *)
(* buffer twice, and one call may wait behind another; two faults let a     *)
(* connection be lost in main or in the loop and again while the server     *)
(* reconnects.                                                              *)
EXTENDS TcpClient, UdpEcho, DbusInitiator, UbusInitiator, UbusService

VARIABLE program

programs == <<clientVars, echoVars, dbusVars, chainVars, serviceVars>>
vars == <<programs, program>>

Init ==
  /\ program \in {"client", "echo", "dbus", "chain", "service"}
  /\ ClientInit /\ EchoInit /\ DbusInit /\ ChainInit /\ ServiceInit
  /\ program # "client" => ~blocking
  /\ program # "service" => daemon = "up"

ClientSteps  == program = "client"  /\ UNCHANGED <<program, echoVars, dbusVars, chainVars, serviceVars>>
EchoSteps    == program = "echo"    /\ UNCHANGED <<program, clientVars, dbusVars, chainVars, serviceVars>>
DbusSteps    == program = "dbus"    /\ UNCHANGED <<program, clientVars, echoVars, chainVars, serviceVars>>
ChainSteps   == program = "chain"   /\ UNCHANGED <<program, clientVars, echoVars, dbusVars, serviceVars>>
ServiceSteps == program = "service" /\ UNCHANGED <<program, clientVars, echoVars, dbusVars, chainVars>>

Next ==
  \/ ClientSteps  /\ ClientNext
  \/ EchoSteps    /\ EchoNext
  \/ DbusSteps    /\ DbusNext
  \/ ChainSteps   /\ ChainNext
  \/ ServiceSteps /\ ServiceNext

\* The ubus programs are scheduled and their timers fire: the reconnection
\* timer of the server, and the timeout of a client's call.  The daemon need
\* not be restarted.
Fairness ==
  /\ WF_vars(ServiceSteps /\ Server)
  /\ \A c \in Client : WF_vars(ServiceSteps /\ Caller(c))

Spec == Init /\ [][Next]_vars /\ Fairness

=============================================================================
