------------------------------- MODULE NodeJoin -------------------------------
(***************************************************************************)
(* The joining state of class Node (src/devices_struct/DeviceDefine.h):    *)
(* stage, status items and resend counter packed into the 32-bit word      *)
(* mJoinStage.                                                             *)
(*                                                                         *)
(* An unsigned integer is the set of its one bits, so that & is \cap, | is *)
(* \cup and << shifts every bit number; a cast to uint8_t keeps the bits   *)
(* 0..7.  Only the increment is arithmetic: it sets the lowest zero bit    *)
(* and clears the ones below it.                                           *)
(***************************************************************************)
EXTENDS Integers

CONSTANTS
  Stages,        \* the arguments SetJoinStage is called with
  Statuses,      \* the arguments SetJoinStatus is called with
  InitialWords   \* what the uninitialised mJoinStage may hold

Bit  == 0..31
Word == SUBSET Bit
Byte == SUBSET (0..7)

ASSUME ByteAssumption ==
  /\ Stages \subseteq Byte
  /\ Statuses \subseteq Byte
  /\ InitialWords \subseteq Word

VARIABLES
  mJoinStage,  \* the packed word
  mTimeStamp,  \* 0, or 1 for a time of the last report
  staged,      \* history: SetJoinStage has been called
  asked        \* history: the status bits reported since it last was

vars == <<mJoinStage, mTimeStamp, staged, asked>>

-----------------------------------------------------------------------------
(* The C operators of the accessors. *)

Shl(w, n)  == {i + n : i \in w} \cap Bit
Shr(w, n)  == {i - n : i \in {j \in w : j >= n}}
Uint8(w)   == w \cap (0..7)

\* w + 1 on 32 bits; the word of all ones wraps to zero.
Increment(w) ==
  IF w = Bit THEN {}
  ELSE LET k == CHOOSE i \in Bit : i \notin w /\ \A j \in 0..(i - 1) : j \in w
       IN  (w \ (0..(k - 1))) \cup {k}

\* The number a byte stands for.
Weight(b, i, v) == IF i \in b THEN v ELSE 0
Value(b) == Weight(b, 0, 1) + Weight(b, 1, 2) + Weight(b, 2, 4) + Weight(b, 3, 8)
            + Weight(b, 4, 16) + Weight(b, 5, 32) + Weight(b, 6, 64) + Weight(b, 7, 128)

-----------------------------------------------------------------------------
\* The three fields of a word.
StageOf(w)   == Uint8(Shr(w \cap (24..31), 24))
StatusOf(w)  == Uint8(Shr(w \cap (8..15), 8))
ReCountOf(w) == Uint8(w \cap (0..7))

GetJoinStage   == StageOf(mJoinStage)
GetJoinStatus  == StatusOf(mJoinStage)
GetJoinReCount == ReCountOf(mJoinStage)

\* The constructors leave both fields uninitialised.
Init ==
  /\ mJoinStage \in InitialWords
  /\ mTimeStamp \in {0, 1}
  /\ staged = FALSE
  /\ asked = {}

\* A plausible bug: only the stage byte is overwritten.
StageKeepsRest(stage) == (mJoinStage \ (24..31)) \cup Shl(stage, 24)
StageWord(stage)      == Shl(stage, 24)

SetJoinStage(stage) ==
  /\ mJoinStage' = StageWord(stage)
  /\ mTimeStamp' = 0
  /\ staged' = TRUE
  /\ asked' = {}

\* A plausible bug: the last status replaces the earlier ones.
StatusReplaces(status) == (mJoinStage \ (8..15)) \cup ((8..15) \cap Shl(status, 8))
StatusWord(status)     == mJoinStage \cup ((8..15) \cap Shl(status, 8))

SetJoinStatus(status) ==
  /\ mJoinStage' = StatusWord(status)
  /\ asked' = asked \cup status
  /\ UNCHANGED <<mTimeStamp, staged>>

\* A plausible bug: the test for the maximum is missing.
NeverSaturated == TRUE
Unsaturated    == GetJoinReCount # 0..7

JoinReCountIncrease ==
  /\ Unsaturated
  /\ mJoinStage' = Increment(mJoinStage)
  /\ UNCHANGED <<mTimeStamp, staged, asked>>

\* mTimeStamp is public: the callers set it to the time of a report.
TimeStamped == mTimeStamp' = 1 /\ UNCHANGED <<mJoinStage, staged, asked>>

Next ==
  \/ \E stage \in Stages : SetJoinStage(stage)
  \/ \E status \in Statuses : SetJoinStatus(status)
  \/ JoinReCountIncrease
  \/ TimeStamped

Spec == Init /\ [][Next]_vars

-----------------------------------------------------------------------------
(* The word is 32 bits wide, the history a byte. *)
TypeOK ==
  /\ mJoinStage \in Word
  /\ mTimeStamp \in {0, 1}
  /\ staged \in BOOLEAN
  /\ asked \in Byte

(* The packed word behaves like three separate fields: SetJoinStage clears  *)
(* status and counter, SetJoinStatus accumulates without touching the       *)
(* others, and 255 resends do not carry into the status byte, whatever the  *)
(* uninitialised word was.                                                  *)
Abstract == INSTANCE JoinProgress WITH
  Stage <- Byte, Item <- 0..7, MaxRecount <- 255,
  stage <- GetJoinStage, reported <- GetJoinStatus, recount <- Value(GetJoinReCount)

ImplementsProgress == Abstract!Spec

-----------------------------------------------------------------------------
(* The status macros, by stage: the items and the mask of all of them.      *)
JOIN_STAGE_ANNOUNCE            == {}
JOIN_STAGE_BASIC_INFO_SUBCRIBE == {0}
JOIN_STAGE_UTILITY_READ        == {1}

Items(stage) == CASE stage = JOIN_STAGE_ANNOUNCE            -> {{0}, {1}, {2}, {3}}
                  [] stage = JOIN_STAGE_BASIC_INFO_SUBCRIBE -> {{0}, {1}, {2}, {3}}
                  [] stage = JOIN_STAGE_UTILITY_READ        -> {{0}, {1}, {2}, {3}, {4}, {5}, {6}}
                  [] OTHER                                  -> {}

FULL(stage) == CASE stage = JOIN_STAGE_ANNOUNCE            -> 0..3
                 [] stage = JOIN_STAGE_BASIC_INFO_SUBCRIBE -> 0..7
                 [] stage = JOIN_STAGE_UTILITY_READ        -> 0..6
                 [] OTHER                                  -> {}

\* Every item of the stage has been reported since it was entered; nothing
\* but items of the stage has.
AllReported(stage)  == UNION Items(stage) \subseteq asked
OnlyItems(stage)    == asked \subseteq UNION Items(stage)

CompleteExactly(stages) ==
  staged /\ GetJoinStage \in stages =>
    /\ FULL(GetJoinStage) \subseteq GetJoinStatus <=> AllReported(GetJoinStage)
    /\ GetJoinStatus = FULL(GetJoinStage)
         <=> AllReported(GetJoinStage) /\ OnlyItems(GetJoinStage)

(* In the ANNOUNCE and UTILITY_READ stages the status contains the stage's  *)
(* FULL mask exactly when every item of that stage has been reported since  *)
(* the stage was entered, however many resends there were and whatever else *)
(* was reported.  A caller that compares the status with the mask for       *)
(* equality sees completion only while no other bit has been reported: one  *)
(* bit too many, and the stage is complete but never equal to its mask.     *)
FullMeansAllReported == CompleteExactly({JOIN_STAGE_ANNOUNCE, JOIN_STAGE_UTILITY_READ})

===============================================================================
