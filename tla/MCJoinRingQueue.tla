--------------------------- MODULE MCJoinRingQueue ---------------------------
(* JoinRingQueue on three addresses: enough for a head, an inner element    *)
(* and a tail, and for a freed address that is in use again.                *)
EXTENDS JoinRingQueue

==============================================================================
