----------------------------- MODULE JoinProgress -----------------------------
(***************************************************************************)
(* How far the joining of one node has come, as the accessors of class     *)
(* Node present it: the stage, the status items of that stage that have    *)
(* been reported, and how often the stage's request was sent again.  The   *)
(* three are independent, and the resend counter sticks at its maximum.    *)
(***************************************************************************)
EXTENDS Naturals

CONSTANTS Stage, Item, MaxRecount

VARIABLES stage, reported, recount

progress == <<stage, reported, recount>>

\* A Node is created with no progress recorded: any content is possible.
Init ==
  /\ stage \in Stage
  /\ reported \in SUBSET Item
  /\ recount \in 0..MaxRecount

EnterStage == stage' \in Stage /\ reported' = {} /\ recount' = 0

Report == reported \subseteq reported' /\ reported' \subseteq Item /\ UNCHANGED <<stage, recount>>

Resend ==
  /\ recount' = IF recount < MaxRecount THEN recount + 1 ELSE recount
  /\ UNCHANGED <<stage, reported>>

Next == EnterStage \/ Report \/ Resend

Spec == Init /\ [][Next]_progress

===============================================================================
