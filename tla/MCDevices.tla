------------------------------ MODULE MCDevices ------------------------------
(* Two threads, two MACs and two node ids; two objects, so that a MAC can   *)
(* be added a second time, with another object, while the first is held.    *)
EXTENDS Devices

==============================================================================
