----------------------------- MODULE CommonFacts -----------------------------
(***************************************************************************)
(* Facts the proofs about the code rest on that have nothing of the code   *)
(* in them: natural numbers, and sequences that are seen as rings or from  *)
(* which elements are taken and to which they are added.  Induction is     *)
(* stated for sets, not for predicates: the set of the numbers with a      *)
(* property stands for the property.                                       *)
(***************************************************************************)
EXTENDS Integers, FiniteSetsExt, SequenceTheorems, FiniteSetTheorems, WellFoundedInduction, TLAPS

(* Every set of naturals that is not empty has a smallest element. *)
LEMMA LeastNatural ==
  ASSUME NEW T \in SUBSET Nat, T # {}
  PROVE  \E x \in T : \A y \in T : x <= y
<1> DEFINE R == OpToRel(<, Nat)
<1>1. IsWellFoundedOn(R, Nat) BY NatLessThanWellFounded
<1>2. PICK x \in T : \A y \in T : ~(<<y, x>> \in R)
  <2> HIDE DEF R
  <2> QED BY <1>1, WFMin
<1>3. \A y \in T : ~(y < x) BY <1>2 DEF OpToRel
<1> QED BY <1>3

(* The Min of the community modules, by which the models pick the first     *)
(* slot of a loop or the lowest free descriptor, is that element.           *)
LEMMA MinIsLeast ==
  ASSUME NEW T \in SUBSET Nat, T # {}
  PROVE  Min(T) \in T /\ \A y \in T : Min(T) <= y
BY LeastNatural DEF Min

(* The largest number of a set, as MinIsLeast for the smallest. *)
LEMMA MaxIsGreatest ==
  ASSUME NEW m \in Nat, NEW T \in SUBSET (1..m), T # {}
  PROVE  Max(T) \in T /\ \A y \in T : Max(T) >= y
<1>1. PICK D : D = {m - x : x \in T} OBVIOUS
<1>2. D \in SUBSET Nat /\ D # {}
  <2>1. \A x \in T : x \in 1..m /\ m - x \in Nat OBVIOUS
  <2> QED BY <1>1, <2>1
<1>3. Min(D) \in D /\ \A y \in D : Min(D) <= y BY <1>2, MinIsLeast
<1>4. PICK x \in T : Min(D) = m - x BY <1>1, <1>3
<1>5. ASSUME NEW y \in T PROVE x >= y
  <2>1. m - y \in D BY <1>1
  <2>2. m - x <= m - y BY <1>3, <1>4, <2>1
  <2>3. x \in 1..m /\ y \in 1..m OBVIOUS
  <2> QED BY <2>2, <2>3
<1> QED BY <1>5 DEF Max

(* A set that holds 0 and the successor of each of its numbers holds all.   *)
LEMMA NatSetInduction ==
  ASSUME NEW T, 0 \in T, \A n \in Nat : n \in T => n + 1 \in T
  PROVE  Nat \subseteq T
<1> SUFFICES ASSUME ~(Nat \subseteq T) PROVE FALSE OBVIOUS
<1>1. PICK x \in Nat \ T : \A y \in Nat \ T : x <= y BY LeastNatural
<1>2. x # 0 /\ x - 1 \in Nat BY <1>1
<1>3. x - 1 \in T BY <1>1, <1>2
<1> QED BY <1>1, <1>2, <1>3

-----------------------------------------------------------------------------
(* One more element at the end of a sequence. *)
LEMMA OneMore ==
  ASSUME NEW S, NEW s \in Seq(S), NEW x \in S
  PROVE  /\ s \o <<x>> \in Seq(S) /\ Len(s \o <<x>>) = Len(s) + 1
         /\ (s \o <<x>>)[Len(s) + 1] = x
         /\ \A i \in 1..Len(s) : (s \o <<x>>)[i] = s[i]
OBVIOUS

\* Node i of the ring of head h with the entries s, from the head on (0) to
\* the head again (Len(s) + 1).
Spot(h, s, i) == IF i \in 1..Len(s) THEN s[i] ELSE h

\* No element occurs twice.
Distinct(s) == \A i, j \in 1..Len(s) : s[i] = s[j] => i = j

(* A sequence without repetition is no longer than its set is large. *)
LEMMA NoRepetition ==
  ASSUME NEW S, IsFiniteSet(S), NEW q \in Seq(S), Distinct(q)
  PROVE  Len(q) <= Cardinality(S) /\ Cardinality(S) \in Nat
<1>1. q \in Injection(1..Len(q), S)
  <2>1. q \in [1..Len(q) -> S] OBVIOUS
  <2> QED BY <2>1 DEF Injection, IsInjective, Distinct
<1>2. Cardinality(1..Len(q)) <= Cardinality(S) BY <1>1, FS_Injection
<1>3. Cardinality(1..Len(q)) = IF 1 > Len(q) THEN 0 ELSE Len(q) - 1 + 1
  <2>1. 1 \in Int /\ Len(q) \in Int OBVIOUS
  <2> QED BY <2>1, FS_Interval
<1>4. Cardinality(S) \in Nat BY FS_CardinalityType
<1> QED BY <1>2, <1>3, <1>4

\* e is put behind the first k elements of s, and element k is taken out.
Ins(s, k, e) == [i \in 1..(Len(s) + 1) |-> IF i <= k THEN s[i] ELSE IF i = k + 1 THEN e ELSE s[i - 1]]
Del(s, k)    == [i \in 1..(Len(s) - 1) |-> IF i < k THEN s[i] ELSE s[i + 1]]

\* r is put behind the first k elements of s.
Mix(s, k, r) ==
  [i \in 1..(Len(s) + Len(r)) |-> IF i <= k THEN s[i] ELSE IF i <= k + Len(r) THEN r[i - k] ELSE s[i - Len(r)]]

\* The nodes of the ring w are those of the ring s, and e behind node k.
Inserted1(h, s, k, e, w) ==
  \A i \in 0..(Len(s) + 2) :
    Spot(h, w, i) = IF i <= k THEN Spot(h, s, i) ELSE IF i = k + 1 THEN e ELSE Spot(h, s, i - 1)

\* e may be put behind element k of s.
MayInsert(E, s, k, e, n) == s \in Seq(E) /\ n \in Nat /\ n = Len(s) /\ k \in 0..n /\ e \in E

(* The nodes of a ring with one more entry. *)
LEMMA InsSpots ==
  ASSUME NEW h, NEW E, NEW s, NEW k, NEW e, NEW n, MayInsert(E, s, k, e, n)
  PROVE  /\ Ins(s, k, e) \in Seq(E) /\ Len(Ins(s, k, e)) = n + 1
         /\ Inserted1(h, s, k, e, Ins(s, k, e))
<1>0. s \in Seq(E) /\ n \in Nat /\ n = Len(s) /\ k \in 0..n /\ e \in E BY DEF MayInsert
<1>1. \A i \in 1..n : s[i] \in E BY <1>0, ElementOfSeq
<1>2. \A i \in 1..(n + 1) : (i <= k => i \in 1..n) /\ (i > k + 1 => i - 1 \in 1..n) BY <1>0
<1>3. PICK w : w = Ins(s, k, e) OBVIOUS
<1>4. /\ w = [i \in 1..(n + 1) |-> IF i <= k THEN s[i] ELSE IF i = k + 1 THEN e ELSE s[i - 1]]
  BY <1>0, <1>3 DEF Ins
<1>5. \A i \in 1..(n + 1) : w[i] \in E
  <2> TAKE i \in 1..(n + 1)
  <2>1. CASE i <= k BY <1>1, <1>2, <1>4, <2>1
  <2>2. CASE i = k + 1 BY <1>0, <1>4, <2>2
  <2>3. CASE i > k + 1 BY <1>1, <1>2, <1>4, <2>3
  <2> QED BY <1>0, <2>1, <2>2, <2>3
<1>6. w \in Seq(E) /\ Len(w) = n + 1 BY <1>0, <1>4, <1>5
<1>7. ASSUME NEW i \in 0..(n + 2)
      PROVE  Spot(h, w, i) = IF i <= k THEN Spot(h, s, i) ELSE IF i = k + 1 THEN e ELSE Spot(h, s, i - 1)
  <2>1. CASE i \in 1..(n + 1)
    <3>1. Spot(h, w, i) = w[i] BY <1>6, <2>1 DEF Spot
    <3>2. CASE i <= k
      <4>1. i \in 1..Len(s) BY <1>0, <1>2, <2>1, <3>2
      <4> QED BY <1>4, <2>1, <3>1, <3>2, <4>1 DEF Spot
    <3>3. CASE i = k + 1 BY <1>0, <1>4, <2>1, <3>1, <3>3
    <3>4. CASE i > k + 1
      <4>1. i - 1 \in 1..Len(s) BY <1>0, <1>2, <2>1, <3>4
      <4> QED BY <1>0, <1>4, <2>1, <3>1, <3>4, <4>1 DEF Spot
    <3> QED BY <1>0, <2>1, <3>2, <3>3, <3>4
  <2>2. CASE i = 0 BY <1>0, <1>6, <2>2 DEF Spot
  <2>3. CASE i = n + 2
    <3>1. ~(i <= k) /\ i # k + 1 /\ i - 1 = n + 1 /\ i - 1 \notin 1..Len(s) /\ i \notin 1..Len(w)
      BY <1>0, <1>6, <2>3
    <3> QED BY <3>1 DEF Spot
  <2> QED BY <1>0, <2>1, <2>2, <2>3
<1> QED BY <1>0, <1>3, <1>6, <1>7 DEF Inserted1

(* The nodes of a ring with one entry less. *)
LEMMA DelSpots ==
  ASSUME NEW h, NEW E, NEW s \in Seq(E), NEW k \in 1..Len(s), NEW n \in Nat, n = Len(s)
  PROVE  /\ Del(s, k) \in Seq(E) /\ Len(Del(s, k)) = n - 1
         /\ \A i \in 0..n : Spot(h, Del(s, k), i) = IF i < k THEN Spot(h, s, i) ELSE Spot(h, s, i + 1)
<1>1. \A i \in 1..n : s[i] \in E BY ElementOfSeq
<1>2. \A i \in 1..(n - 1) : (i < k => i \in 1..n) /\ i + 1 \in 1..n OBVIOUS
<1>3. PICK w : w = Del(s, k) OBVIOUS
<1>4. w = [i \in 1..(n - 1) |-> IF i < k THEN s[i] ELSE s[i + 1]] BY <1>3 DEF Del
<1>5. \A i \in 1..(n - 1) : w[i] \in E BY <1>1, <1>2, <1>4
<1>6. w \in Seq(E) /\ Len(w) = n - 1
  <2>1. n - 1 \in Nat OBVIOUS
  <2> QED BY <1>4, <1>5, <2>1
<1>7. ASSUME NEW i \in 0..n
      PROVE  Spot(h, w, i) = IF i < k THEN Spot(h, s, i) ELSE Spot(h, s, i + 1)
  <2>1. CASE i \in 1..(n - 1)
    <3>1. Spot(h, w, i) = w[i] BY <1>6, <2>1 DEF Spot
    <3>2. i \in 1..Len(s) /\ i + 1 \in 1..Len(s) BY <2>1
    <3> QED BY <1>4, <2>1, <3>1, <3>2 DEF Spot
  <2>2. CASE i = 0 BY <1>6, <2>2 DEF Spot
  <2>3. CASE i = n /\ i # 0
    <3>1. ~(i < k) /\ i + 1 \notin 1..Len(s) /\ i \notin 1..Len(w) BY <1>6, <2>3
    <3> QED BY <3>1 DEF Spot
  <2> QED BY <2>1, <2>2, <2>3
<1> QED BY <1>3, <1>6, <1>7

\* The nodes of the ring w are those of the ring s, and r behind node k.
Mixed(h, s, k, r, w) ==
  \A i \in 0..(Len(s) + Len(r) + 1) :
    Spot(h, w, i) = IF i <= k THEN Spot(h, s, i) ELSE IF i <= k + Len(r) THEN r[i - k] ELSE Spot(h, s, i - Len(r))

\* r may be put behind element k of s.
MayMix(E, s, k, r, n, m) == s \in Seq(E) /\ r \in Seq(E) /\ n \in Nat /\ m \in Nat /\ n = Len(s) /\ m = Len(r) /\ k \in 0..n

(* The nodes of a ring that has taken in another. *)
LEMMA MixSpots ==
  ASSUME NEW h, NEW E, NEW s, NEW k, NEW r, NEW n, NEW m, MayMix(E, s, k, r, n, m)
  PROVE  /\ Mix(s, k, r) \in Seq(E) /\ Len(Mix(s, k, r)) = n + m
         /\ Mixed(h, s, k, r, Mix(s, k, r))
<1>0. s \in Seq(E) /\ r \in Seq(E) /\ n \in Nat /\ m \in Nat /\ n = Len(s) /\ m = Len(r) /\ k \in 0..n BY DEF MayMix
<1>1. (\A i \in 1..n : s[i] \in E) /\ (\A i \in 1..m : r[i] \in E) BY <1>0, ElementOfSeq
<1>2. \A i \in 1..(n + m) : /\ i <= k => i \in 1..n
                            /\ i > k /\ i <= k + m => i - k \in 1..m
                            /\ i > k + m => i - m \in 1..n
  BY <1>0
<1>3. PICK w : w = Mix(s, k, r) OBVIOUS
<1>4. w = [i \in 1..(n + m) |-> IF i <= k THEN s[i] ELSE IF i <= k + m THEN r[i - k] ELSE s[i - m]]
  BY <1>0, <1>3 DEF Mix
<1>5. \A i \in 1..(n + m) : w[i] \in E
  <2> TAKE i \in 1..(n + m)
  <2>1. CASE i <= k BY <1>1, <1>2, <1>4, <2>1
  <2>2. CASE i > k /\ i <= k + m
    <3>1. i - k \in 1..m /\ ~(i <= k) BY <1>0, <1>2, <2>2
    <3>2. w[i] = r[i - k] BY <1>4, <2>2, <3>1
    <3> QED BY <1>1, <3>1, <3>2
  <2>3. CASE i > k + m
    <3>1. i - m \in 1..n /\ ~(i <= k) /\ ~(i <= k + m) BY <1>0, <1>2, <2>3
    <3>2. w[i] = s[i - m] BY <1>4, <2>3, <3>1
    <3> QED BY <1>1, <3>1, <3>2
  <2> QED BY <1>0, <2>1, <2>2, <2>3
<1>6. w \in Seq(E) /\ Len(w) = n + m
  <2>1. n + m \in Nat BY <1>0
  <2> QED BY <1>4, <1>5, <2>1
<1>7. ASSUME NEW i \in 0..(n + m + 1)
      PROVE  Spot(h, w, i) = IF i <= k THEN Spot(h, s, i) ELSE IF i <= k + m THEN r[i - k] ELSE Spot(h, s, i - m)
  <2>1. CASE i \in 1..(n + m)
    <3>1. Spot(h, w, i) = w[i] BY <1>6, <2>1 DEF Spot
    <3>2. CASE i <= k
      <4>1. i \in 1..Len(s) BY <1>0, <1>2, <2>1, <3>2
      <4> QED BY <1>4, <2>1, <3>1, <3>2, <4>1 DEF Spot
    <3>3. CASE i > k /\ i <= k + m
      <4>1. ~(i <= k) BY <1>0, <3>3
      <4> QED BY <1>4, <2>1, <3>1, <3>3, <4>1
    <3>4. CASE i > k + m
      <4>1. i - m \in 1..Len(s) /\ ~(i <= k) /\ ~(i <= k + m) BY <1>0, <1>2, <2>1, <3>4
      <4> QED BY <1>4, <2>1, <3>1, <4>1 DEF Spot
    <3> QED BY <1>0, <2>1, <3>2, <3>3, <3>4
  <2>2. CASE i = 0 BY <1>0, <1>6, <2>2 DEF Spot
  <2>3. CASE i = n + m + 1
    <3>1. ~(i <= k) /\ ~(i <= k + m) /\ i - m = n + 1 /\ i - m \notin 1..Len(s) /\ i \notin 1..Len(w)
      BY <1>0, <1>6, <2>3
    <3> QED BY <3>1 DEF Spot
  <2> QED BY <1>0, <2>1, <2>2, <2>3
<1> QED BY <1>0, <1>3, <1>6, <1>7 DEF Mixed

(* The length alone. *)
LEMMA MixLen ==
  ASSUME NEW E, NEW s, NEW k, NEW r, NEW n \in Nat, NEW m \in Nat, MayMix(E, s, k, r, n, m)
  PROVE  Len(Mix(s, k, r)) = n + m
BY MixSpots

(* Splicing in front and behind. *)
LEMMA MixIs ==
  ASSUME NEW E, NEW s \in Seq(E), NEW r \in Seq(E)
  PROVE  Mix(s, 0, r) = r \o s /\ Mix(s, Len(s), r) = s \o r
<1>1. PICK n \in Nat, m \in Nat : n = Len(s) /\ m = Len(r) OBVIOUS
<1>2. PICK v : v = r \o s OBVIOUS
<1>3. PICK w : w = s \o r OBVIOUS
<1>4. v = [i \in 1..(n + m) |-> IF i <= 0 THEN s[i] ELSE IF i <= 0 + m THEN r[i - 0] ELSE s[i - m]]
  <2>1. v \in Seq(E) /\ Len(v) = n + m BY <1>1, <1>2
  <2>2. v = [i \in 1..(n + m) |-> v[i]] BY <2>1
  <2>3. \A i \in 1..(n + m) : v[i] = IF i <= 0 THEN s[i] ELSE IF i <= 0 + m THEN r[i - 0] ELSE s[i - m] BY <1>1, <1>2
  <2> QED BY <2>2, <2>3
<1>5. w = [i \in 1..(n + m) |-> IF i <= n THEN s[i] ELSE IF i <= n + m THEN r[i - n] ELSE s[i - m]]
  <2>1. w \in Seq(E) /\ Len(w) = n + m BY <1>1, <1>3
  <2>2. w = [i \in 1..(n + m) |-> w[i]] BY <2>1
  <2>3. \A i \in 1..(n + m) : w[i] = IF i <= n THEN s[i] ELSE IF i <= n + m THEN r[i - n] ELSE s[i - m] BY <1>1, <1>3
  <2> QED BY <2>2, <2>3
<1> QED BY <1>1, <1>2, <1>3, <1>4, <1>5 DEF Mix

(* Nodes of a ring without repetitions are different. *)
LEMMA SpotsOfDistinct ==
  ASSUME NEW E, NEW h, h \notin E, NEW S \in Seq(E), Distinct(S),
         NEW i \in 0..Len(S), NEW j \in 0..Len(S), Spot(h, S, i) = Spot(h, S, j)
  PROVE  i = j
<1>1. PICK n \in Nat : n = Len(S) OBVIOUS
<1>2. \A k \in 1..n : S[k] \in E BY <1>1, ElementOfSeq
<1>3. i # 0 => i \in 1..n BY <1>1
<1>4. j # 0 => j \in 1..n BY <1>1
<1>5. CASE i = 0 /\ j = 0 BY <1>5
<1>6. CASE i = 0 /\ j # 0
  <2>1. Spot(h, S, i) = h BY <1>1, <1>6 DEF Spot
  <2>2. Spot(h, S, j) \in E BY <1>1, <1>2, <1>4, <1>6 DEF Spot
  <2> QED BY <2>1, <2>2
<1>7. CASE i # 0 /\ j = 0
  <2>1. Spot(h, S, j) = h BY <1>1, <1>7 DEF Spot
  <2>2. Spot(h, S, i) \in E BY <1>1, <1>2, <1>3, <1>7 DEF Spot
  <2> QED BY <2>1, <2>2
<1>8. CASE i # 0 /\ j # 0
  <2>1. S[i] = S[j] BY <1>1, <1>3, <1>4, <1>8 DEF Spot
  <2> QED BY <1>1, <1>3, <1>4, <1>8, <2>1 DEF Distinct
<1> QED BY <1>5, <1>6, <1>7, <1>8

(* The first elements of a sequence, and one more. *)
LEMMA SubSeqGrows ==
  ASSUME NEW E, NEW s \in Seq(E), NEW k \in 0..(Len(s) - 1)
  PROVE  Append(SubSeq(s, 1, k), s[k + 1]) = SubSeq(s, 1, k + 1)
<1>1. PICK m \in Nat : m = Len(s) OBVIOUS
<1>2. k \in Int /\ 0 <= k /\ k <= m - 1 BY <1>1
<1>3. PICK r : r = SubSeq(s, 1, k) OBVIOUS
<1>4. 1 \in 1..(m + 1) /\ k \in (1 - 1)..m /\ k + 1 \in (1 - 1)..m /\ k - 1 + 1 = k /\ (k + 1) - 1 + 1 = k + 1 BY <1>2
<1>5. r \in Seq(E) /\ Len(r) = k /\ \A i \in 1..k : r[i] = s[1 + i - 1] BY <1>1, <1>3, <1>4, SubSeqProperties
<1>6. PICK w : w = SubSeq(s, 1, k + 1) OBVIOUS
<1>7. w \in Seq(E) /\ Len(w) = k + 1 /\ \A i \in 1..(k + 1) : w[i] = s[1 + i - 1] BY <1>1, <1>4, <1>6, SubSeqProperties
<1>8. PICK x : x = s[k + 1] OBVIOUS
<1>9. x \in E
  <2>1. k + 1 \in 1..Len(s) BY <1>1, <1>2
  <2> QED BY <1>8, <2>1, ElementOfSeq
<1>10. PICK v : v = Append(r, x) OBVIOUS
<1>11. v \in Seq(E) /\ Len(v) = k + 1 /\ (\A i \in 1..k : v[i] = r[i]) /\ v[k + 1] = x BY <1>5, <1>9, <1>10, AppendProperties
<1>12. ASSUME NEW i \in 1..(k + 1) PROVE v[i] = w[i]
  <2>1. 1 + i - 1 = i BY <1>2
  <2>2. w[i] = s[i] BY <1>7, <2>1
  <2>3. CASE i = k + 1 BY <1>8, <1>11, <2>2, <2>3
  <2>4. CASE i # k + 1
    <3>1. i \in 1..k BY <1>2, <2>4
    <3> QED BY <1>5, <1>11, <2>1, <2>2, <3>1
  <2> QED BY <2>3, <2>4
<1>13. v = w BY <1>7, <1>11, <1>12, SeqEqual
<1> QED BY <1>3, <1>6, <1>8, <1>10, <1>13

==============================================================================
