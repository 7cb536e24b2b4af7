---------------------------- MODULE NodeProofs --------------------------------
(***************************************************************************)
(* Class Node.  For every uninitialised word and all arguments the packed  *)
(* mJoinStage implements the three independent fields of JoinProgress, and *)
(* a stage's FULL mask means that all its items were reported.  For any    *)
(* endpoints, clusters and attributes the vectors of its data behave as a  *)
(* map, as long as one thread updates them.                                *)
(***************************************************************************)
EXTENDS MCNode, CommonFacts

-----------------------------------------------------------------------------
(* The fields of a word, bit by bit. *)

LEMMA StageBits ==
  ASSUME NEW w \in Word
  PROVE  /\ StageOf(w) \in Byte
         /\ \A b \in 0..7 : b \in StageOf(w) <=> b + 24 \in w
<1>1. \A b \in 0..7 : b \in StageOf(w) => b + 24 \in w
  BY DEF StageOf, Uint8, Shr, Word, Bit
<1>2. ASSUME NEW b \in 0..7, b + 24 \in w PROVE b \in StageOf(w)
  <2>1. b + 24 \in {j \in w \cap (24..31) : j >= 24} /\ (b + 24) - 24 = b BY <1>2
  <2> QED BY <2>1 DEF StageOf, Uint8, Shr
<1>3. StageOf(w) \in Byte BY DEF StageOf, Uint8, Byte
<1> QED BY <1>1, <1>2, <1>3

LEMMA StatusBits ==
  ASSUME NEW w \in Word
  PROVE  /\ StatusOf(w) \in Byte
         /\ \A b \in 0..7 : b \in StatusOf(w) <=> b + 8 \in w
<1>1. \A b \in 0..7 : b \in StatusOf(w) => b + 8 \in w
  BY DEF StatusOf, Uint8, Shr, Word, Bit
<1>2. ASSUME NEW b \in 0..7, b + 8 \in w PROVE b \in StatusOf(w)
  <2>1. b + 8 \in {j \in w \cap (8..15) : j >= 8} /\ (b + 8) - 8 = b BY <1>2
  <2> QED BY <2>1 DEF StatusOf, Uint8, Shr
<1>3. StatusOf(w) \in Byte BY DEF StatusOf, Uint8, Byte
<1> QED BY <1>1, <1>2, <1>3

LEMMA ReCountBits ==
  ASSUME NEW w \in Word
  PROVE  /\ ReCountOf(w) \in Byte
         /\ \A b \in 0..7 : b \in ReCountOf(w) <=> b \in w
BY DEF ReCountOf, Uint8, Byte

LEMMA ShlBits ==
  ASSUME NEW b \in Byte, NEW n \in {8, 24}
  PROVE  /\ Shl(b, n) \in Word
         /\ Shl(b, n) \subseteq n..(n + 7)
         /\ \A i \in 0..7 : i + n \in Shl(b, n) <=> i \in b
BY DEF Shl, Word, Bit, Byte

LEMMA ByteRange ==
  ASSUME NEW b \in Byte
  PROVE  Value(b) \in 0..255
BY DEF Value, Weight

LEMMA ByteZero == Value({}) = 0
BY DEF Value, Weight

\* Below the maximum there is a lowest zero bit among the lowest eight.
LEMMA LowestZero ==
  ASSUME NEW w \in Word, ReCountOf(w) # 0..7
  PROVE  \E k \in 0..7 : k \notin w /\ \A j \in 0..(k - 1) : j \in w
<1>1. \E b \in 0..7 : b \notin w BY ReCountBits DEF Byte
<1>2. CASE 0 \notin w BY <1>2
<1>3. CASE 0 \in w /\ 1 \notin w BY <1>3
<1>4. CASE {0, 1} \subseteq w /\ 2 \notin w BY <1>4
<1>5. CASE {0, 1, 2} \subseteq w /\ 3 \notin w BY <1>5
<1>6. CASE {0, 1, 2, 3} \subseteq w /\ 4 \notin w BY <1>6
<1>7. CASE {0, 1, 2, 3, 4} \subseteq w /\ 5 \notin w BY <1>7
<1>8. CASE {0, 1, 2, 3, 4, 5} \subseteq w /\ 6 \notin w BY <1>8
<1>9. CASE {0, 1, 2, 3, 4, 5, 6} \subseteq w /\ 7 \notin w BY <1>9
<1> QED BY <1>1, <1>2, <1>3, <1>4, <1>5, <1>6, <1>7, <1>8, <1>9

\* The increment of an unsaturated counter stays in its byte and adds one.
LEMMA IncrementCounts ==
  ASSUME NEW w \in Word, ReCountOf(w) # 0..7
  PROVE  /\ Increment(w) \in Word
         /\ \A i \in 8..31 : i \in Increment(w) <=> i \in w
         /\ Value(ReCountOf(Increment(w))) = Value(ReCountOf(w)) + 1
         /\ Value(ReCountOf(w)) < 255
<1>1. PICK k \in 0..7 : k \notin w /\ \A j \in 0..(k - 1) : j \in w
  BY LowestZero
<1>2. w # Bit BY <1>1 DEF Bit
<1> DEFINE c == CHOOSE i \in Bit : i \notin w /\ \A j \in 0..(i - 1) : j \in w
<1>3. c \in Bit /\ c \notin w /\ \A j \in 0..(c - 1) : j \in w
  BY <1>1 DEF Bit
<1>4. c = k
  <2> HIDE DEF c
  <2> QED BY <1>1, <1>3 DEF Bit
<1>5. Increment(w) = (w \ (0..(k - 1))) \cup {k}
  BY <1>2, <1>4 DEF Increment
<1> DEFINE v == Increment(w)
<1>6. v \in Word BY <1>5 DEF Word, Bit
<1>7. \A i \in Bit : i \in v <=> i = k \/ (i \in w /\ i > k)
  BY <1>1, <1>5 DEF Word, Bit
<1>8. /\ \A b \in 0..7 : b \in ReCountOf(w) <=> b \in w
      /\ \A b \in 0..7 : b \in ReCountOf(v) <=> b \in v
  BY <1>6, ReCountBits
<1>9. Value(ReCountOf(v)) = Value(ReCountOf(w)) + 1
  <2> HIDE DEF v
  <2>1. CASE k = 0 BY <2>1, <1>1, <1>7, <1>8 DEF Value, Weight, Bit
  <2>2. CASE k = 1 BY <2>2, <1>1, <1>7, <1>8 DEF Value, Weight, Bit
  <2>3. CASE k = 2 BY <2>3, <1>1, <1>7, <1>8 DEF Value, Weight, Bit
  <2>4. CASE k = 3 BY <2>4, <1>1, <1>7, <1>8 DEF Value, Weight, Bit
  <2>5. CASE k = 4 BY <2>5, <1>1, <1>7, <1>8 DEF Value, Weight, Bit
  <2>6. CASE k = 5 BY <2>6, <1>1, <1>7, <1>8 DEF Value, Weight, Bit
  <2>7. CASE k = 6 BY <2>7, <1>1, <1>7, <1>8 DEF Value, Weight, Bit
  <2>8. CASE k = 7 BY <2>8, <1>1, <1>7, <1>8 DEF Value, Weight, Bit
  <2> QED BY <2>1, <2>2, <2>3, <2>4, <2>5, <2>6, <2>7, <2>8
<1>10. Value(ReCountOf(w)) \in 0..255 /\ Value(ReCountOf(v)) \in 0..255
  BY <1>6, ReCountBits, ByteRange
<1>11. \A i \in 8..31 : i \in v <=> i \in w
  BY <1>7 DEF Bit
<1> QED BY <1>6, <1>9, <1>10, <1>11

-----------------------------------------------------------------------------
(* The packed word is always a word: needed to read its fields at all. *)
THEOREM TypeCorrect == Spec => []TypeOK
<1> USE ByteAssumption
<1>1. Init => TypeOK BY DEF Init, TypeOK, Byte
<1>2. TypeOK /\ [Next]_vars => TypeOK'
  <2> SUFFICES ASSUME TypeOK, [Next]_vars PROVE TypeOK' OBVIOUS
  <2>1. ASSUME NEW stage \in Stages, SetJoinStage(stage) PROVE TypeOK'
    BY <2>1, ShlBits DEF TypeOK, SetJoinStage, StageWord, Byte
  <2>2. ASSUME NEW status \in Statuses, SetJoinStatus(status) PROVE TypeOK'
    BY <2>2, ShlBits DEF TypeOK, SetJoinStatus, StatusWord, Byte, Word
  <2>3. CASE JoinReCountIncrease
    BY <2>3, IncrementCounts DEF TypeOK, JoinReCountIncrease, Unsaturated, GetJoinReCount
  <2>4. CASE TimeStamped BY <2>4 DEF TypeOK, TimeStamped
  <2>5. CASE UNCHANGED vars BY <2>5 DEF TypeOK, vars
  <2> QED BY <2>1, <2>2, <2>3, <2>4, <2>5 DEF Next
<1> QED BY <1>1, <1>2, PTL DEF Spec

\* What the three operations do to the three fields.
LEMMA StageStep ==
  ASSUME NEW s \in Byte
  PROVE  /\ StageOf(StageWord(s)) = s
         /\ StatusOf(StageWord(s)) = {}
         /\ ReCountOf(StageWord(s)) = {}
<1>1. /\ StageWord(s) \in Word
      /\ StageWord(s) \subseteq 24..31
      /\ \A i \in 0..7 : i + 24 \in StageWord(s) <=> i \in s
  BY ShlBits DEF StageWord
<1>2. \A i \in 0..7 : i \in StageOf(StageWord(s)) <=> i \in s
  BY <1>1, StageBits
<1>3. StageOf(StageWord(s)) \subseteq 0..7 /\ s \subseteq 0..7
  BY <1>1, StageBits DEF Byte
<1>4. \A i \in 0..7 : i \notin StatusOf(StageWord(s)) /\ i \notin ReCountOf(StageWord(s))
  BY <1>1, StatusBits, ReCountBits
<1>5. StatusOf(StageWord(s)) \subseteq 0..7 /\ ReCountOf(StageWord(s)) \subseteq 0..7
  BY <1>1, StatusBits, ReCountBits DEF Byte
<1> QED BY <1>2, <1>3, <1>4, <1>5

LEMMA StatusStep ==
  ASSUME mJoinStage \in Word, NEW s \in Byte
  PROVE  /\ StatusWord(s) \in Word
         /\ StageOf(StatusWord(s)) = StageOf(mJoinStage)
         /\ StatusOf(StatusWord(s)) = StatusOf(mJoinStage) \cup s
         /\ ReCountOf(StatusWord(s)) = ReCountOf(mJoinStage)
<1> DEFINE v == StatusWord(s)
<1>1. /\ v \in Word
      /\ \A i \in 0..7 : i + 8 \in v <=> i + 8 \in mJoinStage \/ i \in s
      /\ \A i \in (0..7) \cup (16..31) : i \in v <=> i \in mJoinStage
  <2> DEFINE t == Shl(s, 8)
  <2>1. /\ t \in Word /\ t \subseteq 8..15 /\ (8..15) \cap t = t
        /\ \A i \in 0..7 : i + 8 \in t <=> i \in s
    BY ShlBits
  <2>2. v = mJoinStage \cup t BY <2>1 DEF StatusWord
  <2> HIDE DEF t, v
  <2>3. v \in Word BY <2>1, <2>2 DEF Word
  <2>4. \A i \in 0..7 : i + 8 \in v <=> i + 8 \in mJoinStage \/ i \in s BY <2>1, <2>2
  <2>5. \A i \in (0..7) \cup (16..31) : i \in v <=> i \in mJoinStage BY <2>1, <2>2
  <2> QED BY <2>3, <2>4, <2>5
<1>2. /\ StageOf(v) \subseteq 0..7 /\ StatusOf(v) \subseteq 0..7 /\ ReCountOf(v) \subseteq 0..7
      /\ StageOf(mJoinStage) \subseteq 0..7 /\ StatusOf(mJoinStage) \subseteq 0..7
      /\ ReCountOf(mJoinStage) \subseteq 0..7 /\ s \subseteq 0..7
  BY <1>1, StageBits, StatusBits, ReCountBits DEF Byte
<1>3. \A i \in 0..7 : i \in StageOf(v) <=> i \in StageOf(mJoinStage)
  BY <1>1, StageBits
<1>4. \A i \in 0..7 : i \in StatusOf(v) <=> i \in StatusOf(mJoinStage) \cup s
  BY <1>1, StatusBits
<1>5. \A i \in 0..7 : i \in ReCountOf(v) <=> i \in ReCountOf(mJoinStage)
  BY <1>1, ReCountBits
<1> HIDE DEF v
<1>6. StageOf(v) = StageOf(mJoinStage) BY <1>2, <1>3
<1>7. StatusOf(v) = StatusOf(mJoinStage) \cup s BY <1>2, <1>4
<1>8. ReCountOf(v) = ReCountOf(mJoinStage) BY <1>2, <1>5
<1> QED BY <1>1, <1>6, <1>7, <1>8 DEF v

LEMMA ReCountStep ==
  ASSUME NEW w \in Word, ReCountOf(w) # 0..7
  PROVE  /\ StageOf(Increment(w)) = StageOf(w)
         /\ StatusOf(Increment(w)) = StatusOf(w)
<1> DEFINE v == Increment(w)
<1>1. v \in Word /\ \A i \in 8..31 : i \in v <=> i \in w
  BY IncrementCounts
<1> HIDE DEF v
<1>2. \A i \in 0..7 : i \in StageOf(v) <=> i \in StageOf(w)
  BY <1>1, StageBits
<1>3. \A i \in 0..7 : i \in StatusOf(v) <=> i \in StatusOf(w)
  BY <1>1, StatusBits
<1>4. /\ StageOf(v) \subseteq 0..7 /\ StatusOf(v) \subseteq 0..7
      /\ StageOf(w) \subseteq 0..7 /\ StatusOf(w) \subseteq 0..7
  BY <1>1, StageBits, StatusBits DEF Byte
<1> QED BY <1>2, <1>3, <1>4 DEF v

-----------------------------------------------------------------------------
(* mJoinStage is three independent fields: whatever the uninitialised word  *)
(* was, entering a stage resets status and counter, status items            *)
(* accumulate, and the resend counter sticks at 255 without a carry into    *)
(* the status.                                                              *)
THEOREM PackedWordIsThreeFields == Spec => ImplementsProgress
<1> USE ByteAssumption
<1>1. Init => Abstract!Init
  <2> SUFFICES ASSUME Init PROVE Abstract!Init OBVIOUS
  <2>1. mJoinStage \in Word BY DEF Init
  <2> QED BY <2>1, StageBits, StatusBits, ReCountBits, ByteRange
          DEF Abstract!Init, GetJoinStage, GetJoinStatus, GetJoinReCount, Byte
<1>2. TypeOK /\ [Next]_vars => [Abstract!Next]_(Abstract!progress)
  <2> SUFFICES ASSUME TypeOK, [Next]_vars
               PROVE  Abstract!Next \/ UNCHANGED Abstract!progress
    OBVIOUS
  <2>0. mJoinStage \in Word BY DEF TypeOK
  <2>1. ASSUME NEW s \in Stages, SetJoinStage(s) PROVE Abstract!Next
    <3>1. s \in Byte /\ GetJoinStage' = s /\ GetJoinStatus' = {} /\ Value(GetJoinReCount)' = 0
      BY <2>1, StageStep, ByteZero
         DEF SetJoinStage, GetJoinStage, GetJoinStatus, GetJoinReCount
    <3> QED BY <3>1 DEF Abstract!Next, Abstract!EnterStage
  <2>2. ASSUME NEW s \in Statuses, SetJoinStatus(s) PROVE Abstract!Next
    <3>1. /\ s \in SUBSET (0..7)
          /\ GetJoinStage' = GetJoinStage /\ GetJoinStatus' = GetJoinStatus \cup s
          /\ GetJoinReCount' = GetJoinReCount
      BY <2>0, <2>2, StatusStep
         DEF SetJoinStatus, GetJoinStage, GetJoinStatus, GetJoinReCount, Byte
    <3>2. Value(GetJoinReCount)' = Value(GetJoinReCount) BY <3>1
    <3>3. GetJoinStatus \in SUBSET (0..7) BY <2>0, StatusBits DEF GetJoinStatus, Byte
    <3>4. GetJoinStatus \subseteq GetJoinStatus' /\ GetJoinStatus' \subseteq 0..7
      BY <3>1, <3>3
    <3>5. UNCHANGED <<GetJoinStage, Value(GetJoinReCount)>> BY <3>1, <3>2
    <3> QED BY <3>4, <3>5 DEF Abstract!Next, Abstract!Report
  <2>3. CASE JoinReCountIncrease
    <3>1. /\ GetJoinStage' = GetJoinStage /\ GetJoinStatus' = GetJoinStatus
          /\ Value(GetJoinReCount)' = Value(GetJoinReCount) + 1
          /\ Value(GetJoinReCount) < 255
      BY <2>0, <2>3, ReCountStep, IncrementCounts
         DEF JoinReCountIncrease, Unsaturated, GetJoinStage, GetJoinStatus, GetJoinReCount
    <3> QED BY <3>1 DEF Abstract!Next, Abstract!Resend
  <2>4. CASE TimeStamped \/ UNCHANGED vars
    BY <2>4 DEF TimeStamped, vars, Abstract!progress, GetJoinStage, GetJoinStatus, GetJoinReCount
  <2> QED BY <2>1, <2>2, <2>3, <2>4 DEF Next
<1> QED BY <1>1, <1>2, TypeCorrect, PTL DEF Spec, ImplementsProgress, Abstract!Spec

-----------------------------------------------------------------------------
\* Since the stage was entered, the status byte holds exactly what was reported.
StatusIsHistory == TypeOK /\ (staged => GetJoinStatus = asked)

(* In the ANNOUNCE and UTILITY_READ stages the status contains the FULL     *)
(* mask exactly when every item has been reported, and equals it exactly    *)
(* when nothing else has: after any number of resends, from any             *)
(* uninitialised word and whatever statuses the callers report.             *)
THEOREM FullIsExact == Spec => []FullMeansAllReported
<1> USE ByteAssumption
<1>1. Init => StatusIsHistory
  BY DEF Init, StatusIsHistory, TypeOK, Byte
<1>2. StatusIsHistory /\ [Next]_vars => StatusIsHistory'
  <2> SUFFICES ASSUME StatusIsHistory, [Next]_vars PROVE StatusIsHistory' OBVIOUS
  <2>0. mJoinStage \in Word BY DEF StatusIsHistory, TypeOK
  <2>1. ASSUME NEW s \in Stages, SetJoinStage(s) PROVE StatusIsHistory'
    BY <2>1, StageStep, ShlBits
       DEF StatusIsHistory, TypeOK, SetJoinStage, GetJoinStatus, StageWord, Byte
  <2>2. ASSUME NEW s \in Statuses, SetJoinStatus(s) PROVE StatusIsHistory'
    <3>1. s \in Byte OBVIOUS
    <3>2. asked \cup s \in Byte BY <3>1 DEF StatusIsHistory, TypeOK, Byte
    <3> QED BY <2>0, <2>2, <3>1, <3>2, StatusStep
            DEF StatusIsHistory, TypeOK, SetJoinStatus, GetJoinStatus
  <2>3. CASE JoinReCountIncrease
    BY <2>0, <2>3, ReCountStep, IncrementCounts
       DEF StatusIsHistory, TypeOK, JoinReCountIncrease, Unsaturated, GetJoinReCount, GetJoinStatus
  <2>4. CASE TimeStamped \/ UNCHANGED vars
    BY <2>4 DEF StatusIsHistory, TypeOK, TimeStamped, vars, GetJoinStatus
  <2> QED BY <2>1, <2>2, <2>3, <2>4 DEF Next
<1>3. StatusIsHistory => FullMeansAllReported
  <2> SUFFICES ASSUME StatusIsHistory, staged,
                      GetJoinStage \in {JOIN_STAGE_ANNOUNCE, JOIN_STAGE_UTILITY_READ}
               PROVE  FULL(GetJoinStage) = UNION Items(GetJoinStage)
    BY DEF StatusIsHistory, FullMeansAllReported, CompleteExactly, AllReported, OnlyItems
  <2>1. /\ JOIN_STAGE_UTILITY_READ # JOIN_STAGE_ANNOUNCE
        /\ JOIN_STAGE_UTILITY_READ # JOIN_STAGE_BASIC_INFO_SUBCRIBE
        /\ JOIN_STAGE_ANNOUNCE # JOIN_STAGE_BASIC_INFO_SUBCRIBE
    <3>1. 1 \in {1} /\ 1 \notin {} /\ 1 \notin {0} /\ 0 \in {0} /\ 0 \notin {} OBVIOUS
    <3> QED BY <3>1 DEF JOIN_STAGE_ANNOUNCE, JOIN_STAGE_BASIC_INFO_SUBCRIBE, JOIN_STAGE_UTILITY_READ
  <2>2. CASE GetJoinStage = JOIN_STAGE_ANNOUNCE
    <3>1. FULL(GetJoinStage) = 0..3 /\ Items(GetJoinStage) = {{0}, {1}, {2}, {3}}
      BY <2>1, <2>2 DEF FULL, Items
    <3>2. UNION {{0}, {1}, {2}, {3}} = 0..3 OBVIOUS
    <3> QED BY <3>1, <3>2
  <2>3. CASE GetJoinStage = JOIN_STAGE_UTILITY_READ
    <3>1. /\ FULL(GetJoinStage) = 0..6
          /\ Items(GetJoinStage) = {{0}, {1}, {2}, {3}, {4}, {5}, {6}}
      BY <2>1, <2>3 DEF FULL, Items
    <3>2. UNION {{0}, {1}, {2}, {3}, {4}, {5}, {6}} = 0..6 OBVIOUS
    <3> QED BY <3>1, <3>2
  <2> QED BY <2>2, <2>3
<1> QED BY <1>1, <1>2, <1>3, PTL DEF Spec

-----------------------------------------------------------------------------
(* The vectors of the data tree, searched from the front. *)

FirstOf(I) == IF I # {} THEN Min(I) ELSE 0

EndpointsAt(eps, ep) == {i \in 1..Len(eps) : eps[i] = ep}
ClustersAt(s, id)    == {i \in 1..Len(s) : s[i].mClusterId = id}
AttributesAt(q, a)   == {i \in 1..Len(q) : q[i].mAttributeId = a}

Attribute == [mAttributeId : Attr, mAttributeVal : Val]
Cluster   == [mClusterId : ClusterId, mMask : Mask, mAttributes : Seq(Attribute)]

\* What is read of attribute a from a vector of attributes, and of a cluster
\* from a vector of clusters.
ReadFrom(q, a) ==
  LET n == FirstOf(AttributesAt(q, a)) IN IF n = 0 THEN Absent ELSE q[n].mAttributeVal
ReadIn(s, id, a) ==
  LET k == FirstOf(ClustersAt(s, id)) IN IF k = 0 THEN Absent ELSE ReadFrom(s[k].mAttributes, a)

LEMMA FirstOfSet ==
  ASSUME NEW n \in Nat, NEW I \in SUBSET (1..n)
  PROVE  /\ I = {} <=> FirstOf(I) = 0
         /\ FirstOf(I) \in Nat
         /\ I # {} => FirstOf(I) \in I /\ \A i \in I : FirstOf(I) <= i
<1>1. CASE I = {} BY <1>1 DEF FirstOf
<1>2. CASE I # {}
  <2>1. I \in SUBSET Nat OBVIOUS
  <2>2. PICK x \in I : x = Min(I) /\ \A i \in I : x <= i BY <1>2, <2>1, MinIsLeast
  <2>3. FirstOf(I) = x BY <1>2, <2>2 DEF FirstOf
  <2>4. x \in Nat /\ x # 0 OBVIOUS
  <2> QED BY <1>2, <2>2, <2>3, <2>4
<1> QED BY <1>1, <1>2

(* What is added behind changes a search only if it found nothing. *)
LEMMA FirstOfMore ==
  ASSUME NEW n \in Nat, NEW m \in Nat, n <= m,
         NEW I \in SUBSET (1..n), NEW J \in SUBSET (1..m),
         \A i \in 1..n : i \in I <=> i \in J
  PROVE  /\ I # {} => FirstOf(J) = FirstOf(I)
         /\ I = {} => FirstOf(J) = 0 \/ FirstOf(J) \in J \ (1..n)
<1>1. /\ I # {} => FirstOf(I) \in I /\ \A i \in I : FirstOf(I) <= i
      /\ J # {} => FirstOf(J) \in J /\ \A j \in J : FirstOf(J) <= j
      /\ J = {} => FirstOf(J) = 0
  BY FirstOfSet
<1>2. ASSUME I # {} PROVE FirstOf(J) = FirstOf(I)
  <2>1. PICK x \in I : x = FirstOf(I) /\ \A i \in I : x <= i BY <1>1, <1>2
  <2>2. PICK y \in J : y = FirstOf(J) /\ \A j \in J : y <= j BY <1>1, <1>2
  <2>3. y <= x /\ x \in 1..n /\ y \in 1..m BY <2>1, <2>2
  <2>4. y \in I BY <2>3
  <2> QED BY <2>1, <2>2, <2>3, <2>4
<1>3. ASSUME I = {} PROVE FirstOf(J) = 0 \/ FirstOf(J) \in J \ (1..n) BY <1>1, <1>3
<1> QED BY <1>2, <1>3

LEMMA Searches ==
  /\ \A ep : FindEndpointTypeData(ep) = FirstOf(EndpointsAt(mEndpointTypes, ep))
  /\ \A e, id : /\ FindClusterData(e, id) = FirstOf(ClustersAt(mClusters[e], id))
                /\ ClusterToUpdate(e, id) = FirstOf(ClustersAt(mClusters[e], id))
  /\ \A c, a : /\ FindAttributeData(c, a) = FirstOf(AttributesAt(c.mAttributes, a))
               /\ AttributeToUpdate(c, a) = FirstOf(AttributesAt(c.mAttributes, a))
BY DEF FindEndpointTypeData, FindClusterData, ClusterToUpdate, FindAttributeData, AttributeToUpdate,
       SelectInSeq, FirstOf, EndpointsAt, ClustersAt, AttributesAt

\* The index the search for an endpoint leads to, in a vector of endpoints.
LeadsTo(eps, ep, e) ==
  IF ep = Root THEN e = Root ELSE e = FirstOf(EndpointsAt(eps, ep)) /\ e # 0

LEMMA Reached ==
  /\ \A ep, e : Reaches(ep, e) <=> LeadsTo(mEndpointTypes, ep, e)
  /\ \A ep, e : Reaches(ep, e)' <=> LeadsTo(mEndpointTypes', ep, e)
BY DEF Reaches, LeadsTo, FindEndpointTypeData, SelectInSeq, FirstOf, EndpointsAt

(* What is read depends on the clusters of the endpoint that is reached. *)
LEMMA ValueReached ==
  ASSUME NEW ep, NEW id, NEW a
  PROVE  /\ \A e : Reaches(ep, e) => ValueAt(ep, id, a) = ReadIn(mClusters[e], id, a)
         /\ (\A e : ~Reaches(ep, e)) => ValueAt(ep, id, a) = Absent
BY Searches DEF ValueAt, ReadIn, ReadFrom, Reaches, Root

LEMMA ValueReachedNext ==
  ASSUME NEW ep, NEW id, NEW a
  PROVE  /\ \A e : Reaches(ep, e)' => ValueAt(ep, id, a)' = ReadIn(mClusters'[e], id, a)
         /\ (\A e : ~Reaches(ep, e)') => ValueAt(ep, id, a)' = Absent
<1>1. /\ \A x : FindEndpointTypeData(x)' = FirstOf(EndpointsAt(mEndpointTypes', x))
      /\ \A e, x : FindClusterData(e, x)' = FirstOf(ClustersAt(mClusters'[e], x))
      /\ \A c, x : FindAttributeData(c, x) = FirstOf(AttributesAt(c.mAttributes, x))
  BY DEF FindEndpointTypeData, FindClusterData, FindAttributeData,
         SelectInSeq, FirstOf, EndpointsAt, ClustersAt, AttributesAt
<1> QED BY <1>1 DEF ValueAt, ReadIn, ReadFrom, Reaches, Root

LEMMA ValueSame ==
  ASSUME UNCHANGED <<mEndpointTypes, mClusters>>, NEW ep, NEW id, NEW a
  PROVE  ValueAt(ep, id, a)' = ValueAt(ep, id, a)
<1>1. \A e : Reaches(ep, e)' <=> Reaches(ep, e) BY Reached
<1>2. ASSUME NEW e, Reaches(ep, e) PROVE ValueAt(ep, id, a)' = ValueAt(ep, id, a)
  BY <1>1, <1>2, ValueReached, ValueReachedNext
<1>3. ASSUME \A e : ~Reaches(ep, e) PROVE ValueAt(ep, id, a)' = ValueAt(ep, id, a)
  BY <1>1, <1>3, ValueReached, ValueReachedNext
<1> QED BY <1>2, <1>3

(* Clusters without attributes that are added behind are not read. *)
LEMMA ReadBehind ==
  ASSUME NEW s \in Seq(Cluster), NEW t \in Seq(Cluster),
         \A i \in 1..Len(t) : t[i].mAttributes = << >>, NEW id, NEW a
  PROVE  /\ ReadIn(s \o t, id, a) = ReadIn(s, id, a)
         /\ FirstOf(ClustersAt(s, id)) # 0 =>
              FirstOf(ClustersAt(s \o t, id)) = FirstOf(ClustersAt(s, id))
<1> DEFINE u == s \o t
           I == ClustersAt(s, id)
           J == ClustersAt(u, id)
<1>1. /\ u \in Seq(Cluster) /\ Len(u) = Len(s) + Len(t)
      /\ \A i \in 1..Len(s) : u[i] = s[i]
      /\ \A i \in (1..Len(u)) \ (1..Len(s)) : u[i].mAttributes = << >>
  <2>1. /\ u \in Seq(Cluster) /\ Len(u) = Len(s) + Len(t)
        /\ \A i \in 1..Len(s) : u[i] = s[i]
    OBVIOUS
  <2>2. ASSUME NEW i \in (1..Len(u)) \ (1..Len(s)) PROVE u[i].mAttributes = << >>
    <3>1. i - Len(s) \in 1..Len(t) /\ u[i] = t[i - Len(s)] BY <2>1
    <3> QED BY <3>1
  <2> QED BY <2>1, <2>2
<1> HIDE DEF u
<1>2. I \in SUBSET (1..Len(s)) /\ J \in SUBSET (1..Len(u)) /\ I = J \cap (1..Len(s))
  BY <1>1 DEF ClustersAt
<1>3. Len(s) \in Nat /\ Len(u) \in Nat /\ Len(s) <= Len(u) BY <1>1
<1>4. /\ I # {} => FirstOf(J) = FirstOf(I) /\ FirstOf(I) \in 1..Len(s)
      /\ I = {} => FirstOf(I) = 0 /\ (FirstOf(J) = 0 \/ FirstOf(J) \in J \ (1..Len(s)))
  <2>1. PICK n \in Nat, m \in Nat : n = Len(s) /\ m = Len(u) /\ n <= m BY <1>3
  <2>2. I \in SUBSET (1..n) /\ J \in SUBSET (1..m) /\ I = J \cap (1..n) BY <1>2, <2>1
  <2>3. PICK A \in SUBSET (1..n), B \in SUBSET (1..m) : A = I /\ B = J BY <2>2
  <2> HIDE DEF I, J
  <2>4. \A i \in 1..n : i \in A <=> i \in B BY <2>2, <2>3
  <2>5. /\ A # {} => FirstOf(B) = FirstOf(A)
        /\ A = {} => FirstOf(B) = 0 \/ FirstOf(B) \in B \ (1..n)
    <3>1. n <= m BY <2>1
    <3>2. /\ A # {} => FirstOf(B) = FirstOf(A)
          /\ A = {} => FirstOf(B) = 0 \/ FirstOf(B) \in B \ (1..n)
      BY <3>1, <2>4, FirstOfMore, ZenonT(60)
    <3> QED BY <3>2
  <2>6. (A # {} => FirstOf(A) \in A) /\ (A = {} => FirstOf(A) = 0) BY FirstOfSet
  <2> QED BY <2>1, <2>3, <2>5, <2>6
<1>5. \A b : ReadFrom(<< >>, b) = Absent BY DEF ReadFrom, AttributesAt, FirstOf
<1> HIDE DEF I, J
<1>6. ReadIn(u, id, a) = ReadIn(s, id, a)
  <2>1. CASE I # {} BY <1>1, <1>4, <2>1 DEF ReadIn, I, J
  <2>2. CASE I = {}
    <3>1. ReadIn(s, id, a) = Absent BY <1>4, <2>2 DEF ReadIn, I
    <3>2. CASE FirstOf(J) = 0 BY <3>1, <3>2 DEF ReadIn, J
    <3>3. CASE FirstOf(J) \in J \ (1..Len(s))
      <4>1. u[FirstOf(J)].mAttributes = << >> BY <1>1, <1>2, <3>3
      <4> QED BY <1>5, <3>1, <4>1 DEF ReadIn, J
    <3> QED BY <1>4, <2>2, <3>2, <3>3
  <2> QED BY <2>1, <2>2
<1> QED BY <1>4, <1>6 DEF u, I, J

(* A change of the first cluster with an id is read, and under that id only. *)
LEMMA ReadChanged ==
  ASSUME NEW s \in Seq(Cluster), NEW id, NEW k, k = FirstOf(ClustersAt(s, id)), k # 0,
         NEW u \in Seq(Cluster), Len(u) = Len(s),
         \A i \in 1..Len(s) : i # k => u[i] = s[i], u[k].mClusterId = id
  PROVE  /\ \A j : ClustersAt(u, j) = ClustersAt(s, j)
         /\ \A a : ReadIn(s, id, a) = ReadFrom(s[k].mAttributes, a)
         /\ \A a : ReadIn(u, id, a) = ReadFrom(u[k].mAttributes, a)
         /\ \A j, a : j # id => ReadIn(u, j, a) = ReadIn(s, j, a)
<1>0. PICK n \in Nat : n = Len(s) OBVIOUS
<1>1. \A j : ClustersAt(s, j) \in SUBSET (1..n) BY <1>0 DEF ClustersAt
<1>2. k \in ClustersAt(s, id) BY <1>0, <1>1, FirstOfSet
<1>3. k \in 1..n /\ s[k].mClusterId = id BY <1>0, <1>2 DEF ClustersAt
<1>4. \A j : ClustersAt(u, j) = ClustersAt(s, j)
  <2>1. \A i \in 1..n : u[i].mClusterId = s[i].mClusterId BY <1>0, <1>3
  <2> QED BY <1>0, <2>1 DEF ClustersAt
<1>5. /\ \A a : ReadIn(s, id, a) = ReadFrom(s[k].mAttributes, a)
      /\ \A a : ReadIn(u, id, a) = ReadFrom(u[k].mAttributes, a)
  BY <1>4 DEF ReadIn
<1>6. ASSUME NEW j, NEW a, j # id PROVE ReadIn(u, j, a) = ReadIn(s, j, a)
  <2>1. CASE ClustersAt(s, j) = {}
    <3>1. FirstOf(ClustersAt(s, j)) = 0 /\ FirstOf(ClustersAt(u, j)) = 0 BY <1>4, <2>1 DEF FirstOf
    <3> QED BY <3>1 DEF ReadIn
  <2>2. CASE ClustersAt(s, j) # {}
    <3>1. PICK i : i = FirstOf(ClustersAt(s, j)) OBVIOUS
    <3>2. i \in ClustersAt(s, j) BY <1>1, <2>2, <3>1, FirstOfSet
    <3>3. i \in 1..n /\ i # k BY <1>0, <1>3, <1>6, <3>2 DEF ClustersAt
    <3>4. u[i] = s[i] /\ FirstOf(ClustersAt(u, j)) = i BY <1>0, <1>4, <3>1, <3>3
    <3> QED BY <3>1, <3>4 DEF ReadIn
  <2> QED BY <2>1, <2>2
<1> QED BY <1>4, <1>5, <1>6

LEMMA ChangedCluster ==
  ASSUME NEW s \in Seq(Cluster), NEW id, NEW k, k = FirstOf(ClustersAt(s, id)), k # 0,
         NEW q \in Seq(Attribute)
  PROVE  /\ k \in 1..Len(s) /\ s[k].mAttributes \in Seq(Attribute)
         /\ \E u \in Seq(Cluster) :
              /\ u = [s EXCEPT ![k] = [s[k] EXCEPT !.mAttributes = q]]
              /\ Len(u) = Len(s) /\ u[k].mClusterId = id /\ u[k].mAttributes = q
              /\ \A i \in 1..Len(s) : i # k => u[i] = s[i]
<1>1. PICK n \in Nat : n = Len(s) OBVIOUS
<1>2. PICK I \in SUBSET (1..n) : I = ClustersAt(s, id) BY <1>1 DEF ClustersAt
<1>3. k \in I BY <1>2, FirstOfSet
<1>4. k \in 1..n /\ s[k].mClusterId = id BY <1>1, <1>2, <1>3 DEF ClustersAt
<1>5. s[k] \in Cluster BY <1>1, <1>4
<1>6. s[k].mAttributes \in Seq(Attribute) BY <1>5 DEF Cluster
<1>7. PICK c : c = [s[k] EXCEPT !.mAttributes = q] OBVIOUS
<1>8. c \in Cluster /\ c.mClusterId = id /\ c.mAttributes = q BY <1>4, <1>5, <1>7 DEF Cluster
<1>9. PICK u : u = [s EXCEPT ![k] = c] OBVIOUS
<1>10. u \in Seq(Cluster) /\ Len(u) = n /\ u[k] = c /\ \A i \in 1..n : i # k => u[i] = s[i]
  BY <1>1, <1>4, <1>8, <1>9
<1> QED BY <1>1, <1>4, <1>6, <1>7, <1>8, <1>9, <1>10

Once(q) == \A i, j \in 1..Len(q) : q[i].mAttributeId = q[j].mAttributeId => i = j

(* An attribute that is there gets the value, and no other does. *)
LEMMA ReadAssigned ==
  ASSUME NEW q \in Seq(Attribute), NEW a, NEW n, n = FirstOf(AttributesAt(q, a)), n # 0,
         NEW v \in Val
  PROVE  \E p \in Seq(Attribute) :
           /\ p = [q EXCEPT ![n] = [q[n] EXCEPT !.mAttributeVal = v]]
           /\ Once(q) => Once(p)
           /\ ReadFrom(p, a) = v
           /\ \A b : b # a => ReadFrom(p, b) = ReadFrom(q, b)
<1> DEFINE p == [q EXCEPT ![n] = [q[n] EXCEPT !.mAttributeVal = v]]
<1>0. PICK l \in Nat : l = Len(q) OBVIOUS
<1>1. \A b : AttributesAt(q, b) \in SUBSET (1..l) BY <1>0 DEF AttributesAt
<1>2. n \in AttributesAt(q, a) BY <1>0, <1>1, FirstOfSet
<1>3. n \in 1..l /\ q[n].mAttributeId = a BY <1>0, <1>2 DEF AttributesAt
<1>4. q[n] \in Attribute BY <1>0, <1>3
<1>5. PICK c \in Attribute : c = [q[n] EXCEPT !.mAttributeVal = v] BY <1>4 DEF Attribute
<1>d. c.mAttributeId = a /\ c.mAttributeVal = v BY <1>3, <1>4, <1>5 DEF Attribute
<1>6. p = [q EXCEPT ![n] = c] BY <1>5
<1>7. /\ p \in Seq(Attribute) /\ Len(p) = l
      /\ \A i \in 1..l : i # n => p[i] = q[i]
      /\ p[n] = c
  <2> HIDE DEF p
  <2> QED BY <1>0, <1>3, <1>6
<1> HIDE DEF p
<1>8. \A i \in 1..l : p[i].mAttributeId = q[i].mAttributeId BY <1>3, <1>d, <1>7
<1>9. \A b : AttributesAt(p, b) = AttributesAt(q, b) BY <1>0, <1>7, <1>8 DEF AttributesAt
<1>10. Once(q) => Once(p) BY <1>0, <1>7, <1>8 DEF Once
<1>11. ReadFrom(p, a) = v
  <2>1. FirstOf(AttributesAt(p, a)) = n BY <1>9
  <2> QED BY <1>d, <1>7, <2>1 DEF ReadFrom
<1>12. ASSUME NEW b, b # a PROVE ReadFrom(p, b) = ReadFrom(q, b)
  <2>1. CASE AttributesAt(q, b) = {}
    <3>1. FirstOf(AttributesAt(q, b)) = 0 /\ FirstOf(AttributesAt(p, b)) = 0 BY <1>9, <2>1 DEF FirstOf
    <3> QED BY <3>1 DEF ReadFrom
  <2>2. CASE AttributesAt(q, b) # {}
    <3>1. PICK i : i = FirstOf(AttributesAt(q, b)) OBVIOUS
    <3>2. i \in AttributesAt(q, b) BY <1>1, <2>2, <3>1, FirstOfSet
    <3>3. i \in 1..l /\ i # n BY <1>0, <1>3, <1>12, <3>2 DEF AttributesAt
    <3> QED BY <1>7, <1>9, <3>1, <3>3 DEF ReadFrom
  <2> QED BY <2>1, <2>2
<1>13. p = [q EXCEPT ![n] = [q[n] EXCEPT !.mAttributeVal = v]] BY DEF p
<1> QED BY <1>7, <1>10, <1>11, <1>12, <1>13

(* An attribute that is not there is added behind and read from there. *)
LEMMA ReadAppended ==
  ASSUME NEW q \in Seq(Attribute), NEW a \in Attr, AttributesAt(q, a) = {}, NEW v \in Val
  PROVE  \E p \in Seq(Attribute) :
           /\ p = Append(q, [mAttributeId |-> a, mAttributeVal |-> v])
           /\ Once(q) => Once(p)
           /\ ReadFrom(p, a) = v
           /\ \A b : b # a => ReadFrom(p, b) = ReadFrom(q, b)
<1> DEFINE c == [mAttributeId |-> a, mAttributeVal |-> v]
           p == Append(q, c)
<1>0. PICK l \in Nat : l = Len(q) OBVIOUS
<1>1. c \in Attribute /\ c.mAttributeId = a /\ c.mAttributeVal = v BY DEF Attribute
<1> HIDE DEF c
<1>2. /\ p \in Seq(Attribute) /\ Len(p) = l + 1
      /\ \A i \in 1..l : p[i] = q[i]
      /\ p[l + 1] = c
  BY <1>0, <1>1
<1> HIDE DEF p
<1>3. \A i \in 1..l : q[i].mAttributeId # a BY <1>0 DEF AttributesAt
<1>4. 1..(l + 1) = (1..l) \cup {l + 1} OBVIOUS
<1>5. AttributesAt(p, a) = {l + 1} BY <1>0, <1>1, <1>2, <1>3, <1>4 DEF AttributesAt
<1>6. \A b : b # a => AttributesAt(p, b) = AttributesAt(q, b)
  BY <1>0, <1>1, <1>2, <1>4 DEF AttributesAt
<1>7. Once(q) => Once(p)
  <2> SUFFICES ASSUME Once(q), NEW i \in 1..(l + 1), NEW j \in 1..(l + 1),
                      p[i].mAttributeId = p[j].mAttributeId
               PROVE  i = j
    BY <1>2 DEF Once
  <2>1. CASE i \in 1..l /\ j \in 1..l BY <1>0, <1>2, <2>1 DEF Once
  <2>2. CASE i = l + 1 \/ j = l + 1 BY <1>1, <1>2, <1>3, <1>4, <2>2
  <2> QED BY <1>4, <2>1, <2>2
<1>8. ReadFrom(p, a) = v
  <2>1. {l + 1} \in SUBSET (1..(l + 1)) /\ l + 1 \in Nat /\ {l + 1} # {} BY <1>0
  <2>2. FirstOf({l + 1}) = l + 1 BY <2>1, FirstOfSet
  <2> QED BY <1>1, <1>2, <1>5, <2>1, <2>2 DEF ReadFrom
<1>9. ASSUME NEW b, b # a PROVE ReadFrom(p, b) = ReadFrom(q, b)
  <2>1. AttributesAt(p, b) = AttributesAt(q, b) /\ AttributesAt(q, b) \in SUBSET (1..l)
    BY <1>0, <1>6, <1>9 DEF AttributesAt
  <2>2. PICK i : i = FirstOf(AttributesAt(q, b)) OBVIOUS
  <2>3. i = 0 \/ i \in 1..l BY <1>0, <2>1, <2>2, FirstOfSet
  <2> QED BY <1>2, <2>1, <2>2, <2>3 DEF ReadFrom
<1>10. p = Append(q, [mAttributeId |-> a, mAttributeVal |-> v]) BY DEF p, c
<1> QED BY <1>2, <1>7, <1>8, <1>9, <1>10

-----------------------------------------------------------------------------
Places == {Root} \cup 1..Len(mEndpointTypes)

TreeTypes ==
  /\ mEndpointTypes \in Seq(Ep)
  /\ mClusters \in [Places -> Seq(Cluster)]
  /\ DOMAIN adding = Thread
  /\ latest \in [Endpoint \X ClusterId \X Attr -> Val \cup {Absent}]

\* A push_back that is about to happen: the searches would still end at its
\* cluster, and find no such attribute there.
IsPending(p) ==
  /\ p.of \in Endpoint \X ClusterId \X Attr /\ p.at \in Places /\ p.val \in Val
  /\ Reaches(p.of[1], p.at)
  /\ p.cluster = FirstOf(ClustersAt(mClusters[p.at], p.of[2])) /\ p.cluster # 0
  /\ AttributesAt(mClusters[p.at][p.cluster].mAttributes, p.of[3]) = {}

PendingIsFresh == \A t \in Thread : adding[t] # Nothing => IsPending(adding[t])

EachOnce == \A e \in Places : \A k \in 1..Len(mClusters[e]) : Once(mClusters[e][k].mAttributes)

ReadsAsMap ==
  \A ep \in Endpoint, id \in ClusterId, a \in Attr : ValueAt(ep, id, a) = latest[<<ep, id, a>>]

TreeInv == TreeTypes /\ PendingIsFresh /\ EachOnce /\ ReadsAsMap

\* There is no other thread.
OneThread == \A t, u \in Thread : t = u

(* Two numbers do not lead to one endpoint. *)
LEMMA OneNumber ==
  ASSUME TreeTypes, NEW ep \in Endpoint, NEW other \in Endpoint, NEW e, Reaches(ep, e), Reaches(other, e)
  PROVE  ep = other /\ e \in Places
<1>1. PICK eps \in Seq(Ep) : eps = mEndpointTypes BY DEF TreeTypes
<1>2. PICK n \in Nat : n = Len(eps) OBVIOUS
<1>3. LeadsTo(eps, ep, e) /\ LeadsTo(eps, other, e) BY <1>1, Reached
<1>4. \A x : EndpointsAt(eps, x) \in SUBSET (1..n) BY <1>2 DEF EndpointsAt
<1>5. \A x : x # Root /\ LeadsTo(eps, x, e) => e \in EndpointsAt(eps, x)
  <2> SUFFICES ASSUME NEW x, x # Root, LeadsTo(eps, x, e) PROVE e \in EndpointsAt(eps, x) OBVIOUS
  <2>1. e = FirstOf(EndpointsAt(eps, x)) /\ e # 0 BY DEF LeadsTo
  <2>2. PICK I \in SUBSET (1..n) : I = EndpointsAt(eps, x) BY <1>4
  <2> QED BY <2>1, <2>2, FirstOfSet
<1>6. \A x : x # Root /\ LeadsTo(eps, x, e) => e \in 1..n /\ eps[e] = x
  BY <1>2, <1>5 DEF EndpointsAt
<1>7. CASE ep = Root \/ other = Root
  <2>1. e = 0 BY <1>3, <1>7 DEF LeadsTo, Root
  <2>2. ep = Root /\ other = Root BY <1>3, <1>6, <2>1
  <2> QED BY <2>1, <2>2 DEF Places, Root
<1>8. CASE ep # Root /\ other # Root BY <1>1, <1>2, <1>3, <1>6, <1>8 DEF Places
<1> QED BY <1>7, <1>8

(* The attributes of the cluster that a search ends at are changed: one of  *)
(* them is given the value that is reported.                                *)
LEMMA Changed ==
  ASSUME TreeInv,
         NEW ep \in Endpoint, NEW id \in ClusterId, NEW a \in Attr, NEW v \in Val,
         NEW e, Reaches(ep, e),
         NEW k, k = FirstOf(ClustersAt(mClusters[e], id)), k # 0,
         NEW q \in Seq(Attribute), Once(q), ReadFrom(q, a) = v,
         \A b : b # a => ReadFrom(q, b) = ReadFrom(mClusters[e][k].mAttributes, b),
         mClusters' = [mClusters EXCEPT ![e][k].mAttributes = q],
         latest' = [latest EXCEPT ![<<ep, id, a>>] = v],
         UNCHANGED mEndpointTypes, DOMAIN adding' = Thread
  PROVE  TreeTypes' /\ EachOnce' /\ ReadsAsMap'
<1>0. TreeTypes /\ EachOnce /\ ReadsAsMap BY DEF TreeInv
<1>1. e \in Places BY <1>0, OneNumber
<1>2. PICK s \in Seq(Cluster) : s = mClusters[e] BY <1>0, <1>1 DEF TreeTypes
<1>3. PICK u \in Seq(Cluster) :
              /\ u = [s EXCEPT ![k] = [s[k] EXCEPT !.mAttributes = q]]
              /\ Len(u) = Len(s) /\ u[k].mClusterId = id /\ u[k].mAttributes = q
              /\ \A i \in 1..Len(s) : i # k => u[i] = s[i]
  <2>1. k = FirstOf(ClustersAt(s, id)) BY <1>2
  <2> QED BY <2>1, ChangedCluster
<1>4. /\ \A b : ReadIn(s, id, b) = ReadFrom(s[k].mAttributes, b)
      /\ \A b : ReadIn(u, id, b) = ReadFrom(q, b)
      /\ \A j, b : j # id => ReadIn(u, j, b) = ReadIn(s, j, b)
  <2>1. k = FirstOf(ClustersAt(s, id)) BY <1>2
  <2>3. /\ \A b : ReadIn(s, id, b) = ReadFrom(s[k].mAttributes, b)
        /\ \A b : ReadIn(u, id, b) = ReadFrom(u[k].mAttributes, b)
        /\ \A j, b : j # id => ReadIn(u, j, b) = ReadIn(s, j, b)
    <3>1. Len(u) = Len(s) /\ u[k].mClusterId = id /\ \A i \in 1..Len(s) : i # k => u[i] = s[i]
      BY <1>3
    <3> QED BY <2>1, <3>1, ReadChanged
  <2> QED BY <1>3, <2>3
<1>5. mClusters' = [mClusters EXCEPT ![e] = u] BY <1>2, <1>3
<1>6. Places' = Places BY DEF Places
<1>7. /\ mClusters' \in [Places -> Seq(Cluster)]
      /\ mClusters'[e] = u /\ \A x \in Places : x # e => mClusters'[x] = mClusters[x]
  BY <1>0, <1>1, <1>5 DEF TreeTypes
<1>8. <<ep, id, a>> \in Endpoint \X ClusterId \X Attr OBVIOUS
<1>9. TreeTypes' BY <1>0, <1>6, <1>7, <1>8 DEF TreeTypes
<1>10. EachOnce'
  <2> SUFFICES ASSUME NEW x \in Places, NEW i \in 1..Len(mClusters'[x])
               PROVE  Once(mClusters'[x][i].mAttributes)
    BY <1>6 DEF EachOnce
  <2>1. CASE x # e BY <1>0, <1>7, <2>1 DEF EachOnce
  <2>2. CASE x = e /\ i = k BY <1>3, <1>7, <2>2
  <2>3. CASE x = e /\ i # k BY <1>0, <1>2, <1>3, <1>7, <2>3 DEF EachOnce
  <2> QED BY <2>1, <2>2, <2>3
<1>11. ReadsAsMap'
  <2> SUFFICES ASSUME NEW ep2 \in Endpoint, NEW id2 \in ClusterId, NEW a2 \in Attr
               PROVE  ValueAt(ep2, id2, a2)' = latest'[<<ep2, id2, a2>>]
    BY DEF ReadsAsMap
  <2>0. <<ep2, id2, a2>> \in Endpoint \X ClusterId \X Attr OBVIOUS
  <2>1. \A x : Reaches(ep2, x)' <=> Reaches(ep2, x) BY Reached
  <2>2. ValueAt(ep2, id2, a2) = latest[<<ep2, id2, a2>>] BY <1>0 DEF ReadsAsMap
  <2>3. CASE ep2 = ep
    <3>0. Reaches(ep2, e)' BY <2>1, <2>3
    <3>1. ValueAt(ep2, id2, a2)' = ReadIn(u, id2, a2)
      <4>1. ValueAt(ep2, id2, a2)' = ReadIn(mClusters'[e], id2, a2) BY <3>0, ValueReachedNext
      <4> QED BY <1>7, <4>1
    <3>2. ValueAt(ep2, id2, a2) = ReadIn(s, id2, a2) BY <1>2, <2>3, ValueReached
    <3>3. CASE id2 = id /\ a2 = a
      <4>1. latest'[<<ep, id, a>>] = v BY <1>0, <1>8 DEF TreeTypes
      <4> QED BY <1>4, <2>3, <3>1, <3>3, <4>1
    <3>4. CASE id2 # id \/ a2 # a
      <4>1. ReadIn(u, id2, a2) = ReadIn(s, id2, a2) BY <1>2, <1>4, <3>4
      <4>2. latest'[<<ep2, id2, a2>>] = latest[<<ep2, id2, a2>>]
        BY <1>0, <2>0, <3>4 DEF TreeTypes
      <4> QED BY <2>2, <3>1, <3>2, <4>1, <4>2
    <3> QED BY <3>3, <3>4
  <2>4. CASE ep2 # ep
    <3>1. latest'[<<ep2, id2, a2>>] = latest[<<ep2, id2, a2>>] BY <1>0, <2>0, <2>4 DEF TreeTypes
    <3>2. ASSUME NEW x, Reaches(ep2, x) PROVE ValueAt(ep2, id2, a2)' = ValueAt(ep2, id2, a2)
      <4>1. x \in Places /\ x # e BY <1>0, <2>4, <3>2, OneNumber
      <4>2. mClusters'[x] = mClusters[x] BY <1>7, <4>1
      <4> QED BY <2>1, <3>2, <4>2, ValueReached, ValueReachedNext
    <3>3. ASSUME \A x : ~Reaches(ep2, x) PROVE ValueAt(ep2, id2, a2)' = ValueAt(ep2, id2, a2)
      BY <2>1, <3>3, ValueReached, ValueReachedNext
    <3> QED BY <2>2, <3>1, <3>2, <3>3
  <2> QED BY <2>3, <2>4
<1> QED BY <1>9, <1>10, <1>11

-----------------------------------------------------------------------------
(* UpdateClusterData: the attribute is found, or its push_back is due.      *)
LEMMA UpdateStep ==
  ASSUME TreeInv, OneThread, NEW t \in Thread, NEW ep \in Endpoint, NEW id \in ClusterId,
         NEW a \in Attr, NEW v \in Val, UpdateClusterData(t, ep, id, a, v)
  PROVE  TreeInv'
<1>0. TreeTypes /\ EachOnce BY DEF TreeInv
<1>1. PICK e \in DOMAIN mClusters :
        LET k == ClusterToUpdate(e, id)
            n == AttributeToUpdate(mClusters[e][k], a)
        IN  /\ adding[t] = Nothing
            /\ Reaches(ep, e) /\ k # 0
            /\ IF n # 0
               THEN /\ mClusters' = [mClusters EXCEPT ![e][k].mAttributes[n].mAttributeVal = v]
                    /\ latest' = [latest EXCEPT ![<<ep, id, a>>] = v]
                    /\ UNCHANGED adding
               ELSE /\ adding' = [adding EXCEPT ![t] = [of |-> <<ep, id, a>>, at |-> e, cluster |-> k, val |-> v]]
                    /\ UNCHANGED <<mClusters, latest>>
            /\ UNCHANGED mEndpointTypes
  BY DEF UpdateClusterData
<1>2. e \in Places BY <1>0, <1>1, OneNumber
<1>3. PICK s \in Seq(Cluster) : s = mClusters[e] BY <1>0, <1>2 DEF TreeTypes
<1>4. PICK k : k = FirstOf(ClustersAt(s, id)) /\ k = ClusterToUpdate(e, id) /\ k # 0
  BY <1>1, <1>3, Searches
<1>5. k \in 1..Len(s) /\ s[k].mAttributes \in Seq(Attribute)
  <2>1. << >> \in Seq(Attribute) OBVIOUS
  <2> QED BY <1>4, <2>1, ChangedCluster
<1>6. PICK q \in Seq(Attribute) : q = s[k].mAttributes BY <1>5
<1>7. PICK n : n = FirstOf(AttributesAt(q, a)) /\ n = AttributeToUpdate(mClusters[e][k], a)
  BY <1>3, <1>6, Searches
<1>8. Once(q) BY <1>0, <1>2, <1>3, <1>5, <1>6 DEF EachOnce
<1>n. \A u \in Thread : adding[u] = Nothing BY <1>1 DEF OneThread
<1>9. CASE n # 0
  <2>1. PICK p \in Seq(Attribute) : /\ p = [q EXCEPT ![n] = [q[n] EXCEPT !.mAttributeVal = v]]
                                    /\ Once(p) /\ ReadFrom(p, a) = v
                                    /\ \A b : b # a => ReadFrom(p, b) = ReadFrom(q, b)
    <3>1. n = FirstOf(AttributesAt(q, a)) /\ n # 0 BY <1>7, <1>9
    <3>2. \E p \in Seq(Attribute) :
            /\ p = [q EXCEPT ![n] = [q[n] EXCEPT !.mAttributeVal = v]]
            /\ Once(q) => Once(p)
            /\ ReadFrom(p, a) = v
            /\ \A b : b # a => ReadFrom(p, b) = ReadFrom(q, b)
      BY <3>1, ReadAssigned
    <3> QED BY <1>8, <3>2
  <2>2. /\ mClusters' = [mClusters EXCEPT ![e][k].mAttributes[n].mAttributeVal = v]
        /\ latest' = [latest EXCEPT ![<<ep, id, a>>] = v]
        /\ UNCHANGED <<adding, mEndpointTypes>>
    BY <1>1, <1>4, <1>7, <1>9
  <2>3. mClusters' = [mClusters EXCEPT ![e][k].mAttributes = p]
    BY <1>3, <1>6, <2>1, <2>2
  <2>4. TreeTypes' /\ EachOnce' /\ ReadsAsMap'
    <3>1. k = FirstOf(ClustersAt(mClusters[e], id)) /\ Reaches(ep, e) BY <1>1, <1>3, <1>4
    <3>2. \A b : b # a => ReadFrom(p, b) = ReadFrom(mClusters[e][k].mAttributes, b)
      BY <1>3, <1>6, <2>1
    <3>3. DOMAIN adding' = Thread BY <1>0, <2>2 DEF TreeTypes
    <3>4. Once(p) /\ ReadFrom(p, a) = v BY <2>1
    <3>5. UNCHANGED mEndpointTypes /\ latest' = [latest EXCEPT ![<<ep, id, a>>] = v] BY <2>2
    <3> QED BY <1>4, <2>3, <3>1, <3>2, <3>3, <3>4, <3>5, Changed
  <2>5. PendingIsFresh' BY <1>n, <2>2 DEF PendingIsFresh
  <2> QED BY <2>4, <2>5 DEF TreeInv
<1>10. CASE n = 0
  <2> DEFINE p == [of |-> <<ep, id, a>>, at |-> e, cluster |-> k, val |-> v]
  <2>1. adding' = [adding EXCEPT ![t] = p] /\ UNCHANGED <<mClusters, latest, mEndpointTypes>>
    BY <1>1, <1>4, <1>7, <1>10
  <2>2. TreeTypes' /\ EachOnce' /\ ReadsAsMap'
    <3>1. TreeTypes' /\ EachOnce' BY <1>0, <2>1 DEF TreeTypes, EachOnce, Places
    <3>2. UNCHANGED <<mEndpointTypes, mClusters>> BY <2>1
    <3>3. \A x, y, z : ValueAt(x, y, z)' = ValueAt(x, y, z) BY <3>2, ValueSame
    <3>4. ReadsAsMap' BY <2>1, <3>3 DEF TreeInv, ReadsAsMap
    <3> QED BY <3>1, <3>4
  <2>3. AttributesAt(q, a) = {}
    <3>1. PICK l \in Nat : l = Len(q) OBVIOUS
    <3>2. PICK I \in SUBSET (1..l) : I = AttributesAt(q, a) BY <3>1 DEF AttributesAt
    <3> QED BY <1>7, <1>10, <3>2, FirstOfSet
  <2>4. IsPending(p)
    BY <1>1, <1>2, <1>3, <1>4, <1>6, <2>3 DEF IsPending
  <2>5. IsPending(p)'
    <3>1. Reaches(p.of[1], p.at)' <=> Reaches(p.of[1], p.at) BY <2>1, Reached
    <3> HIDE DEF p
    <3> QED BY <2>1, <2>4, <3>1 DEF IsPending, Places
  <2> HIDE DEF p
  <2>6. \A u \in Thread : u = t BY DEF OneThread
  <2>7. adding'[t] = p BY <1>0, <2>1 DEF TreeTypes
  <2>8. PendingIsFresh' BY <2>5, <2>6, <2>7 DEF PendingIsFresh
  <2> QED BY <2>2, <2>8 DEF TreeInv
<1> QED BY <1>9, <1>10

(* The push_back: no other thread has added the attribute meanwhile.        *)
LEMMA PushStep ==
  ASSUME TreeInv, OneThread, NEW t \in Thread, PushesAttribute(t)
  PROVE  TreeInv'
<1>0. TreeTypes /\ EachOnce /\ PendingIsFresh BY DEF TreeInv
<1>1. PICK new : new = adding[t] OBVIOUS
<1>2. /\ new # Nothing
      /\ mClusters' = [mClusters EXCEPT ![new.at][new.cluster].mAttributes =
                         Append(@, [mAttributeId |-> new.of[3], mAttributeVal |-> new.val])]
      /\ adding' = [adding EXCEPT ![t] = Nothing]
      /\ latest' = [latest EXCEPT ![new.of] = new.val]
      /\ UNCHANGED mEndpointTypes
  BY <1>1 DEF PushesAttribute
<1>3. IsPending(new) BY <1>0, <1>1, <1>2 DEF PendingIsFresh
<1>4. PICK ep \in Endpoint, id \in ClusterId, a \in Attr : new.of = <<ep, id, a>>
  BY <1>3 DEF IsPending
<1>5. PICK e \in Places, v \in Val : e = new.at /\ v = new.val BY <1>3 DEF IsPending
<1>k. PICK k : k = new.cluster OBVIOUS
<1>6. PICK s \in Seq(Cluster) : s = mClusters[e] BY <1>0 DEF TreeTypes
<1>7. /\ Reaches(ep, e) /\ k = FirstOf(ClustersAt(s, id)) /\ k # 0
      /\ AttributesAt(s[k].mAttributes, a) = {}
  BY <1>3, <1>4, <1>5, <1>k, <1>6 DEF IsPending
<1>8. k \in 1..Len(s) /\ s[k].mAttributes \in Seq(Attribute)
  <2>1. << >> \in Seq(Attribute) OBVIOUS
  <2> QED BY <1>7, <2>1, ChangedCluster
<1>9. PICK q \in Seq(Attribute) : q = s[k].mAttributes BY <1>8
<1>10. Once(q) BY <1>0, <1>6, <1>8, <1>9 DEF EachOnce
<1>11. PICK p \in Seq(Attribute) : /\ p = Append(q, [mAttributeId |-> a, mAttributeVal |-> v])
                                   /\ Once(p) /\ ReadFrom(p, a) = v
                                   /\ \A b : b # a => ReadFrom(p, b) = ReadFrom(q, b)
  <2>1. AttributesAt(q, a) = {} BY <1>7, <1>9
  <2>2. \E p \in Seq(Attribute) :
          /\ p = Append(q, [mAttributeId |-> a, mAttributeVal |-> v])
          /\ Once(q) => Once(p)
          /\ ReadFrom(p, a) = v
          /\ \A b : b # a => ReadFrom(p, b) = ReadFrom(q, b)
    BY <2>1, ReadAppended, ZenonT(60)
  <2> QED BY <1>10, <2>2
<1>12. mClusters' = [mClusters EXCEPT ![e][k].mAttributes = p]
  <2>1. mClusters' = [mClusters EXCEPT ![e][k].mAttributes =
                        Append(@, [mAttributeId |-> a, mAttributeVal |-> v])]
    BY <1>2, <1>4, <1>5, <1>k
  <2> QED BY <1>6, <1>9, <1>11, <2>1
<1>13. TreeTypes' /\ EachOnce' /\ ReadsAsMap'
  <2>1. k = FirstOf(ClustersAt(mClusters[e], id)) BY <1>6, <1>7
  <2>2. \A b : b # a => ReadFrom(p, b) = ReadFrom(mClusters[e][k].mAttributes, b)
    BY <1>6, <1>9, <1>11
  <2>3. DOMAIN adding' = Thread BY <1>0, <1>2 DEF TreeTypes
  <2>4. Once(p) /\ ReadFrom(p, a) = v BY <1>11
  <2>5. latest' = [latest EXCEPT ![<<ep, id, a>>] = v] BY <1>2, <1>4, <1>5
  <2>6. UNCHANGED mEndpointTypes BY <1>2
  <2> QED BY <1>7, <1>12, <2>1, <2>2, <2>3, <2>4, <2>5, <2>6, Changed
<1>14. PendingIsFresh'
  <2>1. \A u \in Thread : u = t BY DEF OneThread
  <2>2. adding'[t] = Nothing BY <1>0, <1>2 DEF TreeTypes
  <2> QED BY <2>1, <2>2 DEF PendingIsFresh
<1> QED BY <1>13, <1>14 DEF TreeInv

(* The lists of a descriptor, and the clusters made from one. *)
LEMMA ListsAreSequences ==
  ASSUME NEW S, NEW l \in Lists(S)
  PROVE  l \in Seq(S)
<1>1. CASE \E x \in S : l = <<x>> BY <1>1
<1>2. CASE \E x, y \in S : l = <<x, y>> BY <1>2
<1> QED BY <1>1, <1>2 DEF Lists

LEMMA NewClusters ==
  ASSUME NEW mask \in Mask, NEW l \in Lists(ClusterId), NEW more,
         more = [i \in 1..Len(l) |-> NewCluster(l[i], mask)]
  PROVE  /\ more \in Seq(Cluster)
         /\ \A i \in 1..Len(more) : more[i].mAttributes = << >>
<1>1. l \in Seq(ClusterId) BY ListsAreSequences
<1>2. \A x \in ClusterId : NewCluster(x, mask) \in Cluster /\ NewCluster(x, mask).mAttributes = << >>
  <2>1. << >> \in Seq(Attribute) OBVIOUS
  <2> QED BY <2>1 DEF NewCluster, Cluster
<1>3. PICK n \in Nat : n = Len(l) BY <1>1
<1>4. \A i \in 1..n : l[i] \in ClusterId BY <1>1, <1>3
<1>5. more \in [1..n -> Cluster] BY <1>2, <1>3, <1>4
<1>6. more \in Seq(Cluster) /\ Len(more) = n BY <1>5
<1>7. \A i \in 1..n : more[i] = NewCluster(l[i], mask) BY <1>3
<1> QED BY <1>2, <1>4, <1>6, <1>7

(* Two vectors one behind the other. *)
LEMMA Behind ==
  ASSUME NEW S, NEW s \in Seq(S), NEW t \in Seq(S), NEW u, u = s \o t
  PROVE  /\ u \in Seq(S) /\ Len(u) = Len(s) + Len(t) /\ Len(s) \in Nat /\ Len(t) \in Nat
         /\ \A i \in 1..Len(s) : u[i] = s[i]
         /\ \A i \in (1..Len(u)) \ (1..Len(s)) : i - Len(s) \in 1..Len(t) /\ u[i] = t[i - Len(s)]
<1>1. u \in Seq(S) /\ Len(u) = Len(s) + Len(t) /\ Len(s) \in Nat /\ Len(t) \in Nat OBVIOUS
<1>2. \A i \in 1..Len(s) : u[i] = s[i] OBVIOUS
<1>3. ASSUME NEW i \in (1..Len(u)) \ (1..Len(s))
      PROVE  i - Len(s) \in 1..Len(t) /\ u[i] = t[i - Len(s)]
  BY <1>1
<1> QED BY <1>1, <1>2, <1>3

(* Clusters are added behind those of an endpoint, and have no attributes.  *)
LEMMA CreateStep ==
  ASSUME TreeInv, NEW ep \in Endpoint, NEW mask \in Mask, NEW clusterlist \in Lists(ClusterId),
         CreateClusterElements(ep, mask, clusterlist)
  PROVE  TreeInv'
<1>0. TreeTypes /\ EachOnce /\ PendingIsFresh /\ ReadsAsMap BY DEF TreeInv
<1>1. PICK e \in DOMAIN mClusters :
        /\ mClusters' = [mClusters EXCEPT ![e] = @ \o [i \in 1..Len(clusterlist) |-> NewCluster(clusterlist[i], mask)]]
        /\ UNCHANGED <<mEndpointTypes, adding, latest>>
  BY DEF CreateClusterElements
<1>2. e \in Places BY <1>0 DEF TreeTypes
<1>3. PICK s \in Seq(Cluster) : s = mClusters[e] BY <1>0, <1>2 DEF TreeTypes
<1>4. PICK more : more = [i \in 1..Len(clusterlist) |-> NewCluster(clusterlist[i], mask)] OBVIOUS
<1>m. more \in Seq(Cluster) /\ \A i \in 1..Len(more) : more[i].mAttributes = << >>
  BY <1>4, NewClusters
<1>5. PICK u : u = s \o more OBVIOUS
<1>u. /\ u \in Seq(Cluster) /\ Len(u) = Len(s) + Len(more) /\ Len(s) \in Nat /\ Len(more) \in Nat
      /\ \A i \in 1..Len(s) : u[i] = s[i]
      /\ \A i \in (1..Len(u)) \ (1..Len(s)) : i - Len(s) \in 1..Len(more) /\ u[i] = more[i - Len(s)]
  BY <1>m, <1>5, Behind
<1>6. /\ \A id, a : ReadIn(u, id, a) = ReadIn(s, id, a)
      /\ \A id : FirstOf(ClustersAt(s, id)) # 0 => FirstOf(ClustersAt(u, id)) = FirstOf(ClustersAt(s, id))
  BY <1>m, <1>5, ReadBehind
<1>7. /\ mClusters' \in [Places -> Seq(Cluster)]
      /\ mClusters'[e] = u /\ \A x \in Places : x # e => mClusters'[x] = mClusters[x]
  BY <1>0, <1>1, <1>2, <1>3, <1>4, <1>5, <1>u DEF TreeTypes
<1>8. Places' = Places BY <1>1 DEF Places
<1>9. TreeTypes' BY <1>0, <1>1, <1>7, <1>8 DEF TreeTypes
<1>10. \A i \in 1..Len(u) : IF i \in 1..Len(s) THEN u[i] = s[i] ELSE u[i].mAttributes = << >>
  BY <1>m, <1>u
<1>11. EachOnce'
  <2> SUFFICES ASSUME NEW x \in Places, NEW i \in 1..Len(mClusters'[x])
               PROVE  Once(mClusters'[x][i].mAttributes)
    BY <1>8 DEF EachOnce
  <2>1. CASE x # e BY <1>0, <1>7, <2>1 DEF EachOnce
  <2>2. CASE x = e
    <3>1. Once(<< >>) BY DEF Once
    <3>2. \A j \in 1..Len(s) : Once(s[j].mAttributes) BY <1>0, <1>2, <1>3 DEF EachOnce
    <3> QED BY <1>7, <1>10, <2>2, <3>1, <3>2
  <2> QED BY <2>1, <2>2
<1>12. \A x \in Places : \A id, a : ReadIn(mClusters'[x], id, a) = ReadIn(mClusters[x], id, a)
  BY <1>3, <1>6, <1>7
<1>13. \A y, x : Reaches(y, x)' <=> Reaches(y, x) BY <1>1, Reached
<1>14. ReadsAsMap'
  <2> SUFFICES ASSUME NEW y \in Endpoint, NEW id \in ClusterId, NEW a \in Attr
               PROVE  ValueAt(y, id, a)' = ValueAt(y, id, a)
    BY <1>0, <1>1 DEF ReadsAsMap
  <2>1. ASSUME NEW x, Reaches(y, x) PROVE ValueAt(y, id, a)' = ValueAt(y, id, a)
    <3>1. x \in Places BY <1>0, <2>1, OneNumber
    <3>2. ReadIn(mClusters'[x], id, a) = ReadIn(mClusters[x], id, a) BY <1>12, <3>1
    <3> QED BY <1>13, <2>1, <3>2, ValueReached, ValueReachedNext
  <2>2. ASSUME \A x : ~Reaches(y, x) PROVE ValueAt(y, id, a)' = ValueAt(y, id, a)
    BY <1>13, <2>2, ValueReached, ValueReachedNext
  <2> QED BY <2>1, <2>2
<1>15. PendingIsFresh'
  <2> SUFFICES ASSUME NEW t \in Thread, adding[t] # Nothing PROVE IsPending(adding[t])'
    BY <1>1 DEF PendingIsFresh
  <2>1. PICK p : p = adding[t] OBVIOUS
  <2>2. IsPending(p) BY <1>0, <2>1 DEF PendingIsFresh
  <2>3. p.at \in Places /\ p.cluster # 0 /\ p.cluster = FirstOf(ClustersAt(mClusters[p.at], p.of[2]))
    BY <2>2 DEF IsPending
  <2>4. /\ FirstOf(ClustersAt(mClusters'[p.at], p.of[2])) = p.cluster
        /\ mClusters'[p.at][p.cluster] = mClusters[p.at][p.cluster]
    <3>1. CASE p.at # e BY <1>7, <2>3, <3>1
    <3>2. CASE p.at = e
      <4>1. PICK id : id = p.of[2] OBVIOUS
      <4>2. PICK k : k = p.cluster OBVIOUS
      <4>3. k = FirstOf(ClustersAt(s, id)) /\ k # 0 BY <1>3, <2>3, <3>2, <4>1, <4>2
      <4>4. k \in 1..Len(s)
        <5>1. << >> \in Seq(Attribute) OBVIOUS
        <5> QED BY <4>3, <5>1, ChangedCluster
      <4>5. k \in 1..Len(u) /\ u[k] = s[k] BY <1>u, <4>4
      <4>6. FirstOf(ClustersAt(u, id)) = k BY <1>6, <4>3
      <4> QED BY <1>3, <1>7, <3>2, <4>1, <4>2, <4>5, <4>6
    <3> QED BY <3>1, <3>2
  <2>5. Reaches(p.of[1], p.at)' BY <1>13, <2>2 DEF IsPending
  <2>6. IsPending(p)' BY <1>8, <2>2, <2>3, <2>4, <2>5 DEF IsPending
  <2>7. adding' = adding BY <1>1
  <2> QED BY <2>1, <2>6, <2>7 DEF IsPending
<1> QED BY <1>9, <1>11, <1>14, <1>15 DEF TreeInv

(* Endpoints are added behind the others, and have no clusters. *)
LEMMA AddStep ==
  ASSUME TreeInv, NEW eplist \in Lists(Ep), AddEndpointTypeElements(eplist)
  PROVE  TreeInv'
<1>0. TreeTypes /\ EachOnce /\ PendingIsFresh /\ ReadsAsMap BY DEF TreeInv
<1>1. PICK eps \in Seq(Ep) : eps = mEndpointTypes BY <1>0 DEF TreeTypes
<1>2. PICK new : new = eps \o eplist OBVIOUS
<1>3. /\ mEndpointTypes' = new
      /\ mClusters' = [e \in {Root} \cup 1..Len(mEndpointTypes') |->
                         IF e \in DOMAIN mClusters THEN mClusters[e] ELSE << >>]
      /\ UNCHANGED <<adding, latest>>
  BY <1>1, <1>2 DEF AddEndpointTypeElements
<1>4. /\ new \in Seq(Ep) /\ Len(new) = Len(eps) + Len(eplist)
      /\ Len(eps) \in Nat /\ Len(eplist) \in Nat
      /\ \A i \in 1..Len(eps) : new[i] = eps[i]
  <2>1. eplist \in Seq(Ep) BY ListsAreSequences
  <2> QED BY <1>2, <2>1, Behind
<1>5. PICK n \in Nat, m \in Nat : n = Len(eps) /\ m = Len(new) /\ n <= m BY <1>4
<1>6. Places = {Root} \cup 1..n /\ Places' = {Root} \cup 1..m
  BY <1>1, <1>3, <1>5 DEF Places
<1>7. DOMAIN mClusters = Places BY <1>0 DEF TreeTypes
<1>8. /\ mClusters' \in [Places' -> Seq(Cluster)]
      /\ \A e \in Places : e \in Places' /\ mClusters'[e] = mClusters[e]
      /\ \A e \in Places' \ Places : mClusters'[e] = << >>
  <2>1. mClusters' = [e \in Places' |-> IF e \in Places THEN mClusters[e] ELSE << >>]
    BY <1>3, <1>7 DEF Places
  <2>2. \A e \in Places : e \in Places' BY <1>5, <1>6
  <2>3. << >> \in Seq(Cluster) OBVIOUS
  <2> QED BY <1>0, <2>1, <2>2, <2>3 DEF TreeTypes
<1>9. TreeTypes' BY <1>0, <1>3, <1>4, <1>8 DEF TreeTypes
<1>10. EachOnce'
  <2> SUFFICES ASSUME NEW x \in Places', NEW i \in 1..Len(mClusters'[x])
               PROVE  Once(mClusters'[x][i].mAttributes)
    BY DEF EachOnce
  <2>1. CASE x \in Places BY <1>0, <1>8, <2>1 DEF EachOnce
  <2>2. CASE x \notin Places
    <3>1. mClusters'[x] = << >> BY <1>8, <2>2
    <3>2. Len(<< >>) = 0 OBVIOUS
    <3> QED BY <3>1, <3>2
  <2> QED BY <2>1, <2>2
<1>11. /\ \A y, e : Reaches(y, e) => Reaches(y, e)'
       /\ \A y, e : Reaches(y, e)' /\ (\A x : ~Reaches(y, x)) => e \in Places' \ Places
  <2> SUFFICES ASSUME NEW y
               PROVE  /\ \A e : LeadsTo(eps, y, e) => LeadsTo(new, y, e)
                      /\ \A e : LeadsTo(new, y, e) /\ (\A x : ~LeadsTo(eps, y, x)) => e \in Places' \ Places
    BY <1>1, <1>3, Reached
  <2>1. CASE y = Root BY <2>1 DEF LeadsTo
  <2>2. CASE y # Root
    <3>1. PICK I \in SUBSET (1..n) : I = EndpointsAt(eps, y) BY <1>5 DEF EndpointsAt
    <3>2. PICK J \in SUBSET (1..m) : J = EndpointsAt(new, y) BY <1>5 DEF EndpointsAt
    <3>3. \A i \in 1..n : i \in I <=> i \in J BY <1>4, <1>5, <3>1, <3>2 DEF EndpointsAt
    <3>4. n <= m BY <1>5
    <3>5. /\ I # {} => FirstOf(J) = FirstOf(I)
          /\ I = {} => FirstOf(J) = 0 \/ FirstOf(J) \in J \ (1..n)
      BY <3>3, <3>4, FirstOfMore, ZenonT(60)
    <3>6. (I = {} <=> FirstOf(I) = 0) BY FirstOfSet
    <3>7. \A e : LeadsTo(eps, y, e) <=> e = FirstOf(I) /\ e # 0 BY <2>2, <3>1 DEF LeadsTo
    <3>8. \A e : LeadsTo(new, y, e) <=> e = FirstOf(J) /\ e # 0 BY <2>2, <3>2 DEF LeadsTo
    <3>9. \A e \in J \ (1..n) : e \in Places' \ Places BY <1>5, <1>6 DEF Root
    <3>10. CASE I = {}
      <4>1. \A e : ~LeadsTo(eps, y, e) BY <3>6, <3>7, <3>10
      <4>2. \A e : LeadsTo(new, y, e) => e \in Places' \ Places BY <3>5, <3>8, <3>9, <3>10
      <4> QED BY <4>1, <4>2
    <3>11. CASE I # {}
      <4>1. \A e : LeadsTo(eps, y, e) => LeadsTo(new, y, e) BY <3>5, <3>7, <3>8, <3>11
      <4>2. LeadsTo(eps, y, FirstOf(I)) BY <3>6, <3>7, <3>11
      <4> QED BY <4>1, <4>2
    <3> QED BY <3>10, <3>11
  <2> QED BY <2>1, <2>2
<1>12. ReadsAsMap'
  <2> SUFFICES ASSUME NEW y \in Endpoint, NEW id \in ClusterId, NEW a \in Attr
               PROVE  ValueAt(y, id, a)' = ValueAt(y, id, a)
    BY <1>0, <1>3 DEF ReadsAsMap
  <2>1. ASSUME NEW x, Reaches(y, x) PROVE ValueAt(y, id, a)' = ValueAt(y, id, a)
    <3>1. x \in Places BY <1>0, <2>1, OneNumber
    <3>2. mClusters'[x] = mClusters[x] BY <1>8, <3>1
    <3> QED BY <1>11, <2>1, <3>2, ValueReached, ValueReachedNext
  <2>2. ASSUME \A x : ~Reaches(y, x) PROVE ValueAt(y, id, a)' = ValueAt(y, id, a)
    <3>1. ValueAt(y, id, a) = Absent BY <2>2, ValueReached
    <3>2. CASE \A x : ~Reaches(y, x)' BY <3>1, <3>2, ValueReachedNext
    <3>3. ASSUME NEW x, Reaches(y, x)' PROVE ValueAt(y, id, a)' = Absent
      <4>1. mClusters'[x] = << >> BY <1>8, <1>11, <2>2, <3>3
      <4>2. ReadIn(<< >>, id, a) = Absent BY DEF ReadIn, ClustersAt, FirstOf
      <4> QED BY <3>3, <4>1, <4>2, ValueReachedNext
    <3> QED BY <3>1, <3>2, <3>3
  <2> QED BY <2>1, <2>2
<1>13. PendingIsFresh'
  <2> SUFFICES ASSUME NEW t \in Thread, adding[t] # Nothing PROVE IsPending(adding[t])'
    BY <1>3 DEF PendingIsFresh
  <2>1. PICK p : p = adding[t] OBVIOUS
  <2>2. IsPending(p) BY <1>0, <2>1 DEF PendingIsFresh
  <2>3. p.at \in Places' /\ mClusters'[p.at] = mClusters[p.at] BY <1>8, <2>2 DEF IsPending
  <2>4. Reaches(p.of[1], p.at)' BY <1>11, <2>2 DEF IsPending
  <2>5. IsPending(p)' BY <2>2, <2>3, <2>4 DEF IsPending
  <2>6. adding' = adding BY <1>3
  <2> QED BY <2>1, <2>5, <2>6 DEF IsPending
<1> QED BY <1>9, <1>10, <1>12, <1>13 DEF TreeInv

-----------------------------------------------------------------------------
LEMMA TreeSame ==
  ASSUME TreeInv, UNCHANGED treeVars
  PROVE  TreeInv'
<1> USE DEF treeVars
<1>1. TreeTypes' /\ EachOnce' BY DEF TreeInv, TreeTypes, EachOnce, Places
<1>2. UNCHANGED <<mEndpointTypes, mClusters>> OBVIOUS
<1>3. \A x, y, z : ValueAt(x, y, z)' = ValueAt(x, y, z) BY <1>2, ValueSame
<1>4. ReadsAsMap' BY <1>3 DEF TreeInv, ReadsAsMap
<1>5. \A y, x : Reaches(y, x)' <=> Reaches(y, x) BY Reached
<1>6. PendingIsFresh' BY <1>5 DEF TreeInv, PendingIsFresh, IsPending, Places
<1> QED BY <1>1, <1>4, <1>6 DEF TreeInv

LEMMA TreeStep ==
  ASSUME OneThread, TreeInv, TreeNext
  PROVE  TreeInv'
BY AddStep, CreateStep, UpdateStep, PushStep DEF TreeNext

LEMMA TreeStarts ==
  ASSUME TreeInit
  PROVE  TreeInv
<1> USE DEF TreeInit
<1>1. Places = {Root} BY DEF Places
<1>2. TreeTypes
  <2>1. << >> \in Seq(Cluster) /\ << >> \in Seq(Ep) OBVIOUS
  <2> QED BY <1>1, <2>1 DEF TreeTypes
<1>3. PendingIsFresh BY DEF PendingIsFresh
<1>4. EachOnce BY <1>1 DEF EachOnce
<1>5. ReadsAsMap
  <2> SUFFICES ASSUME NEW y \in Endpoint, NEW id \in ClusterId, NEW a \in Attr
               PROVE  ValueAt(y, id, a) = Absent
    BY DEF ReadsAsMap
  <2>1. ReadIn(<< >>, id, a) = Absent BY DEF ReadIn, ClustersAt, FirstOf
  <2>2. \A x : Reaches(y, x) => mClusters[x] = << >>
    <3>1. \A z : EndpointsAt(<< >>, z) = {} BY DEF EndpointsAt
    <3>2. FirstOf({}) = 0 BY DEF FirstOf
    <3>3. \A x : LeadsTo(<< >>, y, x) => x = Root BY <3>1, <3>2 DEF LeadsTo
    <3> QED BY <3>3, Reached
  <2>3. ASSUME NEW x, Reaches(y, x) PROVE ValueAt(y, id, a) = Absent
    BY <2>1, <2>2, <2>3, ValueReached
  <2>4. ASSUME \A x : ~Reaches(y, x) PROVE ValueAt(y, id, a) = Absent
    BY <2>4, ValueReached
  <2> QED BY <2>3, <2>4
<1> QED BY <1>2, <1>3, <1>4, <1>5 DEF TreeInv

LEMMA TreeReads ==
  ASSUME TreeInv
  PROVE  ReadsLastReport
<1>0. TreeTypes /\ PendingIsFresh /\ EachOnce /\ ReadsAsMap BY DEF TreeInv
<1>1. DOMAIN mClusters = {Root} \cup 1..Len(mEndpointTypes) BY <1>0 DEF TreeTypes, Places
<1>2. ASSUME NEW t \in Thread, adding[t] # Nothing
      PROVE  adding[t].cluster \in 1..Len(mClusters[adding[t].at])
  <2>1. PICK p : p = adding[t] OBVIOUS
  <2>2. IsPending(p) BY <1>0, <1>2, <2>1 DEF PendingIsFresh
  <2>3. PICK s \in Seq(Cluster) : s = mClusters[p.at] BY <1>0, <2>2 DEF IsPending, TreeTypes
  <2>4. PICK k, id : k = p.cluster /\ id = p.of[2] OBVIOUS
  <2>5. k = FirstOf(ClustersAt(s, id)) /\ k # 0 BY <2>2, <2>3, <2>4 DEF IsPending
  <2>6. << >> \in Seq(Attribute) OBVIOUS
  <2>7. k \in 1..Len(s) BY <2>5, <2>6, ChangedCluster
  <2> QED BY <2>1, <2>3, <2>4, <2>7
<1>3. TreeTypeOK BY <1>0, <1>1, <1>2 DEF TreeTypeOK, TreeTypes
<1>4. AttributeOnce BY <1>0, <1>1 DEF AttributeOnce, EachOnce, Once, Places
<1> QED BY <1>0, <1>3, <1>4 DEF ReadsLastReport, ReadsAsMap

(* The searched vectors of a Node are a map: with one thread, whatever      *)
(* lists come however often, FindEndpointTypeData, FindClusterData and      *)
(* FindAttributeData lead to the last value that was reported.              *)
THEOREM ReadsAlwaysLastReport ==
  ASSUME OneThread
  PROVE  NodeSpec => []ReadsLastReport
<1>1. NodeInit => TreeInv BY TreeStarts DEF NodeInit
<1>2. TreeInv /\ [NodeNext]_<<half, vars, treeVars>> => TreeInv'
  BY TreeStep, TreeSame DEF NodeNext
<1>3. TreeInv => ReadsLastReport BY TreeReads
<1> QED BY <1>1, <1>2, <1>3, PTL DEF NodeSpec

==============================================================================
