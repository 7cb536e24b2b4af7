------------------------- MODULE JoinRingQueueProofs -------------------------
(***************************************************************************)
(* For every set of addresses: the list of JoinRingQueue stays well        *)
(* linked and implements a queue, its pointers do not dangle, no freed     *)
(* memory is followed, and the sweep of the class comment crashes only     *)
(* with a stale pointer.                                                   *)
(*                                                                         *)
(* Chain(q, n, ...) is Linked(q) with the state's values as parameters, so *)
(* that what the three list updates do to it are lemmas about constants.   *)
(***************************************************************************)
EXTENDS JoinRingQueue, SequenceTheorems, CommonFacts

Chain(q, n, h, hd, tl, nx, pv) ==
  /\ q \in [1..n -> Element]
  /\ \A i, j \in 1..n : q[i] = q[j] => i = j
  /\ h = {q[i] : i \in 1..n}
  /\ hd = IF n = 0 THEN nullptr ELSE q[1]
  /\ tl = IF n = 0 THEN nullptr ELSE q[n]
  /\ \A i \in 1..n : nx[q[i]] = IF i = n THEN nullptr ELSE q[i + 1]
  /\ \A i \in 2..n : pv[q[i]] = q[i - 1]

\* The sequences before and after the three updates of the list.
Pushed(q, n, e)  == [i \in 1..(n + 1) |-> IF i = n + 1 THEN e ELSE q[i]]
Popped(q, n)     == [i \in 1..(n - 1) |-> q[i + 1]]
Removed(q, n, k) == [i \in 1..(n - 1) |-> IF i < k THEN q[i] ELSE q[i + 1]]

\* PushBack: e, fresh, is linked behind the tail.
LEMMA PushChain ==
  ASSUME NEW q, NEW n \in Nat, NEW h, NEW hd, NEW tl,
         NEW nx, NEW pv, Chain(q, n, h, hd, tl, nx, pv), NEW e \in Element \ h,
         NEW hd1, hd = nullptr => hd1 = e, hd # nullptr => hd1 = hd,
         NEW nx1, nx1[e] = nullptr, hd # nullptr => nx1[tl] = e,
         \A p \in Element : p # e /\ p # tl => nx1[p] = nx[p],
         NEW pv1, pv1[e] = tl, \A p \in Element : p # e => pv1[p] = pv[p]
  PROVE  Chain(Pushed(q, n, e), n + 1, h \cup {e}, hd1, e, nx1, pv1)
<1> DEFINE r == Pushed(q, n, e)
<1> USE NullAssumption
<1>1. r \in [1..(n + 1) -> Element] /\ r[n + 1] = e /\ \A i \in 1..n : r[i] = q[i]
  BY DEF Pushed, Chain
<1>2. \A i \in 1..n : q[i] \in h /\ q[i] # e /\ q[i] \in Element
  BY DEF Chain
<1>3. hd = nullptr <=> n = 0
  BY DEF Chain
<1>4. \A i, j \in 1..(n + 1) : r[i] = r[j] => i = j
  BY <1>1, <1>2 DEF Chain
<1>5. h \cup {e} = {r[i] : i \in 1..(n + 1)}
  <2>1. ASSUME NEW x \in h \cup {e} PROVE x \in {r[i] : i \in 1..(n + 1)}
    BY <1>1 DEF Chain
  <2>2. ASSUME NEW i \in 1..(n + 1) PROVE r[i] \in h \cup {e}
    BY <1>1, <1>2
  <2> QED BY <2>1, <2>2
<1>6. hd1 = r[1] /\ e = r[n + 1]
  BY <1>1, <1>3 DEF Chain
<1>7. ASSUME NEW i \in 1..(n + 1) PROVE nx1[r[i]] = IF i = n + 1 THEN nullptr ELSE r[i + 1]
  <2>1. CASE i = n + 1 BY <2>1, <1>1
  <2>2. CASE i = n
    <3>1. nx1[q[n]] = e BY <2>2, <1>2, <1>3 DEF Chain
    <3> QED BY <3>1, <2>2, <1>1
  <2>3. CASE i < n
    <3>1. q[i] # tl BY <2>3 DEF Chain
    <3>2. nx1[q[i]] = nx[q[i]] BY <3>1, <2>3, <1>2
    <3> QED BY <3>2, <2>3, <1>1 DEF Chain
  <2> QED BY <2>1, <2>2, <2>3
<1>8. ASSUME NEW i \in 2..(n + 1) PROVE pv1[r[i]] = r[i - 1]
  <2>1. CASE i = n + 1 BY <2>1, <1>1 DEF Chain
  <2>2. CASE i \in 2..n
    <3>1. pv1[q[i]] = pv[q[i]] BY <2>2, <1>2
    <3> QED BY <3>1, <2>2, <1>1 DEF Chain
  <2> QED BY <2>1, <2>2
<1> HIDE DEF r
<1> QED BY <1>1, <1>4, <1>5, <1>6, <1>7, <1>8 DEF Chain, r

\* PopFront: the head leaves.
LEMMA PopChain ==
  ASSUME NEW q, NEW n \in Nat, n > 0, NEW h, NEW hd, NEW tl, NEW nx, NEW pv,
         Chain(q, n, h, hd, tl, nx, pv),
         NEW tl1, tl1 = IF tl = hd THEN nullptr ELSE tl
  PROVE  Chain(Popped(q, n), n - 1, h \ {hd}, nx[hd], tl1, nx, pv)
<1> DEFINE r == Popped(q, n)
<1>1. r \in [1..(n - 1) -> Element] /\ \A i \in 1..(n - 1) : r[i] = q[i + 1]
  BY DEF Popped, Chain
<1>2. hd = q[1] /\ \A i \in 2..n : q[i] # hd
  BY DEF Chain
<1>3. \A i, j \in 1..(n - 1) : r[i] = r[j] => i = j
  BY <1>1 DEF Chain
<1>4. h \ {hd} = {r[i] : i \in 1..(n - 1)}
  <2>1. ASSUME NEW x \in h \ {hd} PROVE x \in {r[i] : i \in 1..(n - 1)}
    <3>1. PICK i \in 1..n : x = q[i] BY DEF Chain
    <3>2. i # 1 BY <3>1, <1>2
    <3>3. i - 1 \in 1..(n - 1) /\ r[i - 1] = q[i] BY <3>2, <1>1
    <3> QED BY <3>1, <3>3
  <2>2. ASSUME NEW i \in 1..(n - 1) PROVE r[i] \in h \ {hd}
    BY <1>1, <1>2 DEF Chain
  <2> QED BY <2>1, <2>2
<1>5. nx[hd] = IF n - 1 = 0 THEN nullptr ELSE r[1]
  BY <1>1, <1>2 DEF Chain
<1>6. tl1 = IF n - 1 = 0 THEN nullptr ELSE r[n - 1]
  BY <1>1, <1>2 DEF Chain
<1>7. \A i \in 1..(n - 1) : nx[r[i]] = IF i = n - 1 THEN nullptr ELSE r[i + 1]
  BY <1>1 DEF Chain
<1>8. \A i \in 2..(n - 1) : pv[r[i]] = r[i - 1]
  BY <1>1 DEF Chain
<1> HIDE DEF r
<1> QED BY <1>1, <1>3, <1>4, <1>5, <1>6, <1>7, <1>8 DEF Chain, r

LEMMA RemovedInjective ==
  ASSUME NEW n \in Nat, NEW k \in 1..n, NEW q \in [1..n -> Element],
         \A i, j \in 1..n : q[i] = q[j] => i = j
  PROVE  \A i, j \in 1..(n - 1) : Removed(q, n, k)[i] = Removed(q, n, k)[j] => i = j
<1> SUFFICES ASSUME NEW i \in 1..(n - 1), NEW j \in 1..(n - 1),
                    Removed(q, n, k)[i] = Removed(q, n, k)[j]
             PROVE  i = j
  OBVIOUS
<1>1. PICK a \in 1..n : Removed(q, n, k)[i] = q[a] /\ a = IF i < k THEN i ELSE i + 1
  BY DEF Removed
<1>2. PICK b \in 1..n : Removed(q, n, k)[j] = q[b] /\ b = IF j < k THEN j ELSE j + 1
  BY DEF Removed
<1>3. q[a] = q[b] BY <1>1, <1>2
<1>4. a = b BY <1>3
<1> QED BY <1>1, <1>2, <1>4

\* RemoveElement: the element at position k leaves; its neighbours, where it
\* has them, are linked to each other.
LEMMA RemoveChain ==
  ASSUME NEW q, NEW n \in Nat, NEW h, NEW hd, NEW tl,
         NEW nx \in [Pointer -> Pointer], NEW pv \in [Pointer -> Pointer],
         Chain(q, n, h, hd, tl, nx, pv), NEW k \in 1..n,
         NEW hd1, k = 1 => hd1 = nx[q[k]], k > 1 => hd1 = hd,
         NEW tl1, k < n => tl1 = tl, n = 1 => tl1 = nullptr,
         k = n /\ k > 1 => tl1 = pv[q[k]],
         NEW nx1, k = 1 => nx1 = nx, k > 1 => nx1 = [nx EXCEPT ![pv[q[k]]] = nx[q[k]]],
         NEW pv1 \in [Pointer -> Pointer],
         \A p \in Element : p # nx[q[k]] => pv1[p] = pv[p],
         k > 1 /\ k < n => pv1[nx[q[k]]] = pv[q[k]]
  PROVE  Chain(Removed(q, n, k), n - 1, h \ {q[k]}, hd1, tl1, nx1, pv1)
<1> DEFINE r == Removed(q, n, k)
<1> USE NullAssumption
<1>1. /\ r \in [1..(n - 1) -> Element]
      /\ \A i \in 1..(n - 1) : r[i] = IF i < k THEN q[i] ELSE q[i + 1]
  BY DEF Removed, Chain
<1>2. /\ \A i \in 1..n : q[i] \in Element /\ q[i] \in Pointer /\ q[i] \in h
      /\ \A i, j \in 1..n : q[i] = q[j] => i = j
  BY DEF Chain, Pointer
<1>3. \A i, j \in 1..(n - 1) : r[i] = r[j] => i = j
  BY <1>2, RemovedInjective DEF Chain
<1>4. h \ {q[k]} = {r[i] : i \in 1..(n - 1)}
  <2>1. ASSUME NEW x \in h \ {q[k]} PROVE x \in {r[i] : i \in 1..(n - 1)}
    <3>1. PICK i \in 1..n : x = q[i] BY DEF Chain
    <3>2. CASE i < k BY <3>1, <3>2, <1>1
    <3>3. CASE i > k
      <4>1. i - 1 \in 1..(n - 1) /\ r[i - 1] = q[i] BY <3>3, <1>1
      <4> QED BY <3>1, <4>1
    <3> QED BY <3>1, <3>2, <3>3
  <2>2. ASSUME NEW i \in 1..(n - 1) PROVE r[i] \in h \ {q[k]}
    <3>1. PICK j \in 1..n : j # k /\ r[i] = q[j] BY <1>1
    <3> QED BY <3>1, <1>2
  <2> QED BY <2>1, <2>2
<1>5. hd1 = IF n - 1 = 0 THEN nullptr ELSE r[1]
  BY <1>1 DEF Chain
<1>6. tl1 = IF n - 1 = 0 THEN nullptr ELSE r[n - 1]
  BY <1>1 DEF Chain
<1>7. ASSUME NEW i \in 1..(n - 1) PROVE nx1[r[i]] = IF i = n - 1 THEN nullptr ELSE r[i + 1]
  <2>1. k > 1 => pv[q[k]] = q[k - 1] /\ q[k - 1] \in Pointer
    BY <1>2 DEF Chain
  <2>2. CASE i = k - 1
    <3>1. nx1[q[k - 1]] = nx[q[k]] BY <2>1, <2>2
    <3> QED BY <3>1, <2>2, <1>1 DEF Chain
  <2>3. CASE i # k - 1
    <3>1. \E j \in 1..n : j # k - 1 /\ r[i] = q[j] /\ j = IF i < k THEN i ELSE i + 1
      BY <2>3, <1>1
    <3>2. nx1[r[i]] = nx[r[i]] BY <3>1, <2>1, <1>2
    <3> QED BY <3>1, <3>2, <2>3, <1>1 DEF Chain
  <2> QED BY <2>2, <2>3
<1>8. ASSUME NEW i \in 2..(n - 1) PROVE pv1[r[i]] = r[i - 1]
  <2>1. nx[q[k]] = IF k = n THEN nullptr ELSE q[k + 1]
    BY DEF Chain
  <2>2. CASE i = k
    <3>1. r[i] = nx[q[k]] /\ k > 1 /\ k < n BY <2>1, <2>2, <1>1
    <3> QED BY <3>1, <2>2, <1>1 DEF Chain
  <2>3. CASE i # k
    <3>1. \E j \in 2..n : j # k + 1 /\ r[i] = q[j] /\ j = IF i < k THEN i ELSE i + 1
      BY <2>3, <1>1
    <3>2. r[i] # nx[q[k]] BY <3>1, <2>1, <1>2
    <3>3. pv1[r[i]] = pv[r[i]] BY <3>2, <1>1
    <3> QED BY <3>1, <3>3, <2>3, <1>1 DEF Chain
  <2> QED BY <2>2, <2>3
<1> HIDE DEF r
<1> QED BY <1>1, <1>3, <1>4, <1>5, <1>6, <1>7, <1>8 DEF Chain, r

-----------------------------------------------------------------------------
(* The inductive invariant.  WellLinked alone is not inductive: the cursor  *)
(* must be known to be in memory or null for the cursor updates of          *)
(* RemoveElement and NextElement to touch nothing else.                     *)
Inv == TypeOK /\ WellLinked /\ NoDanglingCursor /\ OnlyKnownCrashes

IsChain(q) == Chain(q, mcount, heap, mhead, mtail, next, previous)

\* The list after a step.
Becomes(q) == Chain(q, mcount', heap', mhead', mtail', next', previous')

LEMMA WellLinkedChain == WellLinked <=> \E q : IsChain(q)
BY DEF WellLinked, Linked, IsChain, Chain

LEMMA WellLinkedChainPrimed ==
  WellLinked' <=> \E q : Chain(q, mcount', heap', mhead', mtail', next', previous')
BY DEF WellLinked, Linked, Chain

\* What every proof about an action reads off the chain.
LEMMA ChainFacts ==
  ASSUME TypeOK, NEW q, IsChain(q)
  PROVE  /\ mcount \in Nat
         /\ mhead = nullptr <=> mcount = 0
         /\ mcount > 0 => mhead = q[1] /\ mtail = q[mcount] /\ mhead \in heap /\ mtail \in heap
         /\ \A i \in 1..mcount : q[i] \in heap /\ q[i] # nullptr
         /\ \A e \in heap : \E i \in 1..mcount : e = q[i]
         /\ \A e \in heap : next[e] \in heap \cup {nullptr}
         /\ \A e \in heap : next[e] # e /\ next[e] # mhead
         /\ mhead # nullptr => next[mtail] = nullptr
         /\ nullptr \notin heap
<1> USE NullAssumption
<1>1. /\ mcount \in Nat
      /\ mhead = nullptr <=> mcount = 0
      /\ mcount > 0 => mhead = q[1] /\ mtail = q[mcount] /\ mhead \in heap /\ mtail \in heap
      /\ \A i \in 1..mcount : q[i] \in heap /\ q[i] # nullptr
      /\ \A e \in heap : \E i \in 1..mcount : e = q[i]
      /\ nullptr \notin heap
  BY DEF TypeOK, IsChain, Chain
<1>2. \A i \in 1..mcount : next[q[i]] = IF i = mcount THEN nullptr ELSE q[i + 1]
  BY DEF IsChain, Chain
<1>3. \A i, j \in 1..mcount : q[i] = q[j] => i = j
  BY DEF IsChain, Chain
<1>4. ASSUME NEW e \in heap
      PROVE  next[e] \in heap \cup {nullptr} /\ next[e] # e /\ next[e] # mhead
  <2>1. PICK i \in 1..mcount : e = q[i] BY <1>1
  <2>2. CASE i = mcount BY <2>1, <2>2, <1>1, <1>2
  <2>3. CASE i < mcount
    <3>1. next[e] = q[i + 1] /\ i + 1 \in 1..mcount /\ 1 \in 1..mcount /\ mhead = q[1]
      BY <2>1, <2>3, <1>1, <1>2
    <3> QED BY <2>1, <3>1, <1>1, <1>3
  <2> QED BY <2>1, <2>2, <2>3, <1>1
<1>5. mhead # nullptr => next[mtail] = nullptr
  BY <1>1, <1>2
<1> QED BY <1>1, <1>4, <1>5

\* The traversals change no link.
LEMMA SameLinks ==
  ASSUME WellLinked, UNCHANGED <<mhead, mtail, mcount, next, previous, heap>>
  PROVE  WellLinked'
BY DEF WellLinked, Linked

\* A crash leaves the list as it is.
LEMMA CrashKeepsInv ==
  ASSUME Inv, NEW op \in {"RemoveElement", "SpecialElement"}, NEW touched,
         nullptr \in touched, Crash(op, touched)
  PROVE  Inv'
<1>1. WellLinked' BY DEF Inv, WellLinked, Linked, Crash, links
<1>2. TypeOK' BY DEF Inv, TypeOK, Crash, links, Ops, Pointer
<1>3. NoDanglingCursor' BY DEF Inv, NoDanglingCursor, Crash, links
<1>4. OnlyKnownCrashes' BY DEF Inv, OnlyKnownCrashes, Crash
<1> QED BY <1>1, <1>2, <1>3, <1>4 DEF Inv

LEMMA PushBackKeepsInv ==
  ASSUME Inv, emberAfPluginLinkedListPushBack
  PROVE  /\ Inv' /\ fault' = fault
         /\ \E q, e : IsChain(q) /\ e \in Element \ heap /\ Becomes(Pushed(q, mcount, e))
<1> USE NullAssumption
<1>1. PICK q : IsChain(q) BY WellLinkedChain DEF Inv
<1> DEFINE touched == IF mhead = nullptr THEN {} ELSE {mtail}
<1>2. PICK element \in Element \ heap :
        /\ heap' = heap \cup {element}
        /\ previous' = [previous EXCEPT ![element] = mtail]
        /\ next' = [p \in Pointer |-> IF p = element THEN nullptr
                                      ELSE IF p \in touched THEN element ELSE next[p]]
        /\ mhead' = IF mhead = nullptr THEN element ELSE mhead
        /\ mtail' = element
        /\ mcount' = mcount + 1
        /\ UNCHANGED <<mcurr, returned, stale, clearing, fault>>
  BY <1>1, ChainFacts DEF Inv, emberAfPluginLinkedListPushBack, Valid, CountAfterPush
<1>3. TypeOK'
  BY <1>2 DEF Inv, TypeOK, Pointer
<1>4. Chain(Pushed(q, mcount, element), mcount + 1, heap', mhead', element, next', previous')
  <2>1. /\ next' \in [Pointer -> Pointer] /\ next'[element] = nullptr
        /\ mhead # nullptr => next'[mtail] = element
        /\ \A p \in Element : p # element /\ p # mtail => next'[p] = next[p]
    <3>1. element \in Pointer /\ mtail \in Pointer /\ \A p \in Element : p \in Pointer
      BY DEF Pointer, Inv, TypeOK
    <3>2. mhead # nullptr => mtail \in heap
      BY <1>1, ChainFacts DEF Inv
    <3> QED BY <1>2, <1>3, <3>1, <3>2 DEF TypeOK
  <2>2. /\ previous'[element] = mtail
        /\ \A p \in Element : p # element => previous'[p] = previous[p]
    BY <1>2 DEF Inv, TypeOK, Pointer
  <2>3. mcount \in Nat /\ Chain(q, mcount, heap, mhead, mtail, next, previous)
    BY <1>1 DEF IsChain, Inv, TypeOK
  <2>4. /\ heap' = heap \cup {element}
        /\ mhead = nullptr => mhead' = element
        /\ mhead # nullptr => mhead' = mhead
    BY <1>2
  <2>5. Chain(Pushed(q, mcount, element), mcount + 1, heap \cup {element}, mhead', element,
              next', previous')
    <3> HIDE NullAssumption
    <3> HIDE DEF touched
    <3> QED BY <2>1, <2>2, <2>3, <2>4, PushChain
  <2> QED BY <2>4, <2>5
<1>5. WellLinked'
  BY <1>2, <1>4, WellLinkedChainPrimed
<1>6. NoDanglingCursor' /\ OnlyKnownCrashes'
  BY <1>2 DEF Inv, NoDanglingCursor, OnlyKnownCrashes
<1>7. Becomes(Pushed(q, mcount, element)) BY <1>2, <1>4 DEF Becomes
<1> QED BY <1>1, <1>2, <1>3, <1>5, <1>6, <1>7 DEF Inv

LEMMA PopHeadKeepsInv ==
  ASSUME Inv, PopHead
  PROVE  /\ Inv' /\ fault' = fault
         /\ \E q : IsChain(q) /\ mcount > 0 /\ Becomes(Popped(q, mcount))
<1> USE NullAssumption
<1>1. PICK q : IsChain(q) BY WellLinkedChain DEF Inv
<1>2. /\ mcount > 0 /\ mcount \in Nat /\ mhead \in heap /\ next[mhead] \in heap \cup {nullptr}
      /\ nullptr \notin heap /\ mhead = q[1]
  BY <1>1, ChainFacts DEF Inv, PopHead
<1>3. /\ mtail' = TailAfterPop
      /\ mcurr' = CursorAfterPop
      /\ mhead' = next[mhead]
      /\ heap' = heap \ {mhead}
      /\ mcount' = mcount - 1
      /\ stale' = (stale \/ returned = mhead)
      /\ UNCHANGED <<next, previous, returned, clearing, fault>>
  BY <1>2 DEF PopHead, Valid
<1>4. TypeOK'
  BY <1>2, <1>3 DEF Inv, TypeOK, Pointer, CursorAfterPop, TailAfterPop
<1>5. Chain(Popped(q, mcount), mcount - 1, heap \ {mhead}, next[mhead], mtail', next, previous)
  BY <1>1, <1>2, <1>3, PopChain DEF IsChain, TailAfterPop
<1>6. WellLinked'
  BY <1>3, <1>5, WellLinkedChainPrimed
<1>7. next[mhead] # mhead
  BY <1>1, <1>2 DEF IsChain, Chain
<1>8. NoDanglingCursor'
  BY <1>2, <1>3, <1>7 DEF Inv, NoDanglingCursor, CursorAfterPop
<1>9. OnlyKnownCrashes'
  BY <1>3 DEF Inv, OnlyKnownCrashes
<1>10. Becomes(Popped(q, mcount)) BY <1>3, <1>5 DEF Becomes
<1> QED BY <1>1, <1>2, <1>3, <1>4, <1>6, <1>8, <1>9, <1>10 DEF Inv

LEMMA SpecialElementKeepsInv ==
  ASSUME Inv, NEW position \in heap \cup {nullptr},
         emberAfPluginLinkedListSpecialElement(position)
  PROVE  Inv'
<1> USE NullAssumption
<1>1. PICK q : IsChain(q) BY WellLinkedChain DEF Inv
<1> DEFINE found   == IF position = nullptr THEN mhead ELSE next[position]
           touched == ({position} \ {nullptr}) \cup {found}
<1>2. /\ mhead \in heap \cup {nullptr} /\ nullptr \notin heap
      /\ \A e \in heap : next[e] \in heap \cup {nullptr}
  BY <1>1, ChainFacts DEF Inv, TypeOK
<1>3. CASE Valid(touched)
  <2>1. /\ found \in heap
        /\ mcurr' = next[found]
        /\ returned' = found
        /\ stale' = FALSE
        /\ UNCHANGED <<mhead, mtail, mcount, next, previous, heap, clearing, fault>>
    BY <1>3 DEF emberAfPluginLinkedListSpecialElement, Valid
  <2>2. WellLinked' BY <2>1, SameLinks DEF Inv
  <2> QED BY <2>1, <2>2, <1>2 DEF Inv, TypeOK, Pointer, NoDanglingCursor, OnlyKnownCrashes
<1>4. CASE ~Valid(touched)
  <2>1. Crash("SpecialElement", touched)
    BY <1>4 DEF emberAfPluginLinkedListSpecialElement
  <2>2. nullptr \in touched
    BY <1>2, <1>4 DEF Valid
  <2> QED BY <2>1, <2>2, CrashKeepsInv
<1> QED BY <1>3, <1>4

LEMMA NextElementKeepsInv ==
  ASSUME Inv, emberAfPluginLinkedListNextElement
  PROVE  /\ Inv'
         /\ UNCHANGED <<mhead, next, heap, fault>>
         /\ returned' \in heap \cup {nullptr}
         /\ returned' \in heap => mcurr' = next[returned']
<1> USE NullAssumption
<1>1. PICK q : IsChain(q) BY WellLinkedChain DEF Inv
<1> DEFINE found   == IF CursorWalks THEN mcurr ELSE mhead
           touched == IF CursorWalks THEN {mcurr} ELSE {mhead} \ {nullptr}
<1>2. /\ mhead \in heap \cup {nullptr} /\ nullptr \notin heap
      /\ \A e \in heap : next[e] \in heap \cup {nullptr}
  BY <1>1, ChainFacts DEF Inv, TypeOK
<1>3. Valid(touched)
  BY <1>2 DEF Valid, CursorWalks, Inv, NoDanglingCursor
<1>4. /\ returned' = found
      /\ stale' = FALSE
      /\ mcurr' = CursorBehind(found)
      /\ UNCHANGED <<mhead, mtail, mcount, next, previous, heap, clearing, fault>>
  BY <1>3 DEF emberAfPluginLinkedListNextElement
<1>5. found \in heap \cup {nullptr}
  BY <1>2 DEF Inv, NoDanglingCursor
<1>6. Inv'
  <2>1. WellLinked' BY <1>4, SameLinks DEF Inv
  <2> QED BY <2>1, <1>2, <1>4, <1>5
          DEF Inv, TypeOK, Pointer, NoDanglingCursor, OnlyKnownCrashes, CursorBehind
<1> QED BY <1>2, <1>4, <1>5, <1>6 DEF CursorBehind

\* RemoveElement of a queued element: it crashes only when it is the cursor.
LEMMA RemoveElementKeepsInv ==
  ASSUME Inv, NEW element \in heap, emberAfPluginLinkedListRemoveElement(element)
  PROVE  /\ Inv'
         /\ fault' = fault \/ element = mcurr
         /\ fault' = fault => stale' = (stale \/ returned = element) /\ heap' = heap \ {element}
         /\ \/ UNCHANGED links
            \/ \E q, k : IsChain(q) /\ k \in 1..mcount /\ Becomes(Removed(q, mcount, k))
<1> USE NullAssumption
<1>1. PICK q : IsChain(q) BY WellLinkedChain DEF Inv
<1>2. PICK k \in 1..mcount : element = q[k] BY <1>1, ChainFacts DEF Inv
<1>3. /\ mcount \in Nat
      /\ mhead = q[1] /\ mtail = q[mcount]
      /\ \A i, j \in 1..mcount : q[i] = q[j] => i = j
      /\ \A i \in 1..mcount : q[i] \in heap /\ q[i] \in Element /\ q[i] \in Pointer
      /\ next[element] = IF k = mcount THEN nullptr ELSE q[k + 1]
      /\ k > 1 => previous[element] = q[k - 1]
      /\ next \in [Pointer -> Pointer] /\ previous \in [Pointer -> Pointer]
      /\ nullptr \notin heap
  BY <1>1, <1>2 DEF IsChain, Chain, Inv, TypeOK, Pointer
<1>4. /\ IsHead(element) <=> k = 1
      /\ IsOnly(element) <=> k = 1 /\ k = mcount
      /\ IsTail(element) <=> k > 1 /\ k = mcount
      /\ IsInner(element) <=> k > 1 /\ k < mcount
  BY <1>2, <1>3 DEF IsHead, IsOnly, IsTail, IsInner
<1>5. CASE ~Valid(RemoveTouches(element))
  <2>1. element = mcurr /\ nullptr \in RemoveTouches(element)
    <3>1. k > 1 => previous[element] \in heap BY <1>3
    <3>2. next[element] \in heap \cup {nullptr} BY <1>2, <1>3
    <3>3. k < mcount => next[element] \in heap BY <1>3
    <3>4. element # mcurr => RemoveTouches(element) \subseteq heap
      BY <1>3, <1>4, <3>1, <3>3 DEF RemoveTouches
    <3>5. RemoveTouches(element) \subseteq heap \cup {nullptr}
      BY <1>3, <1>4, <3>1, <3>2 DEF RemoveTouches
    <3> QED BY <1>5, <3>4, <3>5 DEF Valid
  <2>2. Crash("RemoveElement", RemoveTouches(element))
    BY <1>5 DEF emberAfPluginLinkedListRemoveElement
  <2>3. Inv' BY <2>1, <2>2, CrashKeepsInv
  <2>4. fault' = "RemoveElement" BY <2>1, <2>2 DEF Crash
  <2>5. fault' # fault
    BY <2>4 DEF emberAfPluginLinkedListRemoveElement, Running
  <2>6. UNCHANGED links BY <2>2 DEF Crash
  <2> QED BY <2>1, <2>3, <2>5, <2>6
<1>6. CASE Valid(RemoveTouches(element))
  <2>1. /\ mcurr' = IF element = mcurr THEN next[element] ELSE mcurr
        /\ mhead' = IF IsOnly(element) THEN nullptr
                    ELSE IF IsHead(element) THEN next[element] ELSE mhead
        /\ mtail' = IF IsOnly(element) THEN nullptr
                    ELSE IF IsTail(element) THEN previous[element] ELSE mtail
        /\ next' = IF IsHead(element) THEN next
                   ELSE [next EXCEPT ![previous[element]] = ForwardLink(element)]
        /\ previous' = [previous EXCEPT ![next[element]] = BackLink(element, @)]
        /\ mcount' = mcount - 1
        /\ heap' = heap \ {element}
        /\ stale' = (stale \/ returned = element)
        /\ UNCHANGED <<returned, clearing, fault>>
    BY <1>6 DEF emberAfPluginLinkedListRemoveElement
  <2>2. ForwardLink(element) = next[element]
    BY <1>3, <1>4 DEF ForwardLink
  <2>3. BackLink(element, previous[next[element]]) \in Pointer
    BY <1>2, <1>3 DEF BackLink, Pointer
  <2>4. TypeOK'
    <3>1. next[element] \in Pointer /\ previous[element] \in Pointer /\ nullptr \in Pointer
      BY <1>2, <1>3 DEF Pointer
    <3>2. previous' \in [Pointer -> Pointer] BY <2>1, <2>3, <1>3
    <3>3. next' \in [Pointer -> Pointer] BY <2>1, <2>2, <3>1, <1>3
    <3>4. mhead' \in Pointer /\ mtail' \in Pointer /\ mcurr' \in Pointer /\ returned' \in Pointer
      BY <2>1, <3>1 DEF Inv, TypeOK
    <3>5. mcount' \in Nat BY <2>1, <1>3
    <3> QED BY <2>1, <3>2, <3>3, <3>4, <3>5 DEF Inv, TypeOK
  <2>5. Chain(Removed(q, mcount, k), mcount - 1, heap \ {q[k]}, mhead', mtail', next', previous')
    <3>1. /\ k = 1 => mhead' = next[q[k]]
          /\ k > 1 => mhead' = mhead
          /\ k < mcount => mtail' = mtail
          /\ mcount = 1 => mtail' = nullptr
          /\ k = mcount /\ k > 1 => mtail' = previous[q[k]]
      BY <2>1, <1>2, <1>3, <1>4
    <3>2. /\ k = 1 => next' = next
          /\ k > 1 => next' = [next EXCEPT ![previous[q[k]]] = next[q[k]]]
      BY <2>1, <2>2, <1>2, <1>4
    <3>3. \A p \in Element : p # next[q[k]] => previous'[p] = previous[p]
      BY <2>1, <1>2, <1>3 DEF Pointer
    <3>4. k > 1 /\ k < mcount => previous'[next[q[k]]] = previous[q[k]]
      BY <2>1, <1>2, <1>3, <1>4 DEF BackLink
    <3>5. previous' \in [Pointer -> Pointer] BY <2>4 DEF TypeOK
    <3>6. Chain(q, mcount, heap, mhead, mtail, next, previous) BY <1>1 DEF IsChain
    <3>7. mcount \in Nat /\ next \in [Pointer -> Pointer] /\ previous \in [Pointer -> Pointer]
      BY <1>3
    <3> HIDE NullAssumption
    <3> QED BY <3>1, <3>2, <3>3, <3>4, <3>5, <3>6, <3>7, RemoveChain
  <2>6. WellLinked' BY <2>1, <2>5, <1>2, WellLinkedChainPrimed
  <2>7. NoDanglingCursor'
    <3>1. next[element] \in (heap \ {element}) \cup {nullptr} BY <1>2, <1>3
    <3> QED BY <2>1, <3>1 DEF Inv, NoDanglingCursor
  <2>8. OnlyKnownCrashes' BY <2>1 DEF Inv, OnlyKnownCrashes
  <2>9. Becomes(Removed(q, mcount, k)) BY <1>2, <2>1, <2>5 DEF Becomes
  <2> QED BY <1>1, <2>1, <2>4, <2>6, <2>7, <2>8, <2>9 DEF Inv
<1> QED BY <1>5, <1>6

\* ClearAllElements: a flag, and PopFront's body.
LEMMA ClearKeepsInv ==
  ASSUME Inv, emberAfPluginLinkedListClearAllElements
  PROVE  Inv' /\ fault' = fault
<1>1. CASE ClearAllBegins \/ ClearAllEnds
  <2>1. UNCHANGED <<mhead, mtail, mcurr, mcount, next, previous, heap, returned, stale, fault>> /\ clearing' \in BOOLEAN
    BY <1>1 DEF ClearAllBegins, ClearAllEnds, links
  <2>2. WellLinked' BY <2>1, SameLinks DEF Inv
  <2> QED BY <2>1, <2>2 DEF Inv, TypeOK, NoDanglingCursor, OnlyKnownCrashes
<1>2. CASE ClearAllPops
  BY <1>2, PopHeadKeepsInv DEF ClearAllPops
<1> QED BY <1>1, <1>2 DEF emberAfPluginLinkedListClearAllElements

LEMMA StutterKeepsInv ==
  ASSUME Inv, UNCHANGED vars
  PROVE  Inv'
<1>1. UNCHANGED <<mhead, mtail, mcurr, mcount, next, previous, heap, returned, stale, clearing, fault>>
  BY DEF vars, links
<1>2. WellLinked' BY <1>1, SameLinks DEF Inv
<1> QED BY <1>1, <1>2 DEF Inv, TypeOK, NoDanglingCursor, OnlyKnownCrashes

LEMMA InitInv == Init => Inv
<1> SUFFICES ASSUME Init PROVE Inv OBVIOUS
<1>1. IsChain([i \in 1..0 |-> nullptr])
  BY DEF Init, IsChain, Chain
<1>2. WellLinked BY <1>1, WellLinkedChain
<1> QED BY <1>2 DEF Init, Inv, TypeOK, NoDanglingCursor, OnlyKnownCrashes, Pointer

-----------------------------------------------------------------------------
\* One step per operation of the class.
LEMMA NextInv == Inv /\ [Next]_vars => Inv'
<1> SUFFICES ASSUME Inv, [Next]_vars PROVE Inv' OBVIOUS
<1>1. CASE emberAfPluginLinkedListPushBack BY <1>1, PushBackKeepsInv
<1>2. CASE emberAfPluginLinkedListPopFront
  BY <1>2, PopHeadKeepsInv DEF emberAfPluginLinkedListPopFront
<1>3. CASE \E element \in heap : emberAfPluginLinkedListRemoveElement(element)
  BY <1>3, RemoveElementKeepsInv
<1>4. CASE emberAfPluginLinkedListClearAllElements BY <1>4, ClearKeepsInv
<1>5. CASE \E position \in heap \cup {nullptr} : emberAfPluginLinkedListSpecialElement(position)
  BY <1>5, SpecialElementKeepsInv
<1>6. CASE emberAfPluginLinkedListNextElement BY <1>6, NextElementKeepsInv
<1>7. CASE UNCHANGED vars BY <1>7, StutterKeepsInv
<1> QED BY <1>1, <1>2, <1>3, <1>4, <1>5, <1>6, <1>7 DEF Next

(* What the operations of the class keep, each from all the others.        *)
THEOREM Invariance == Spec => []Inv
BY InitInv, NextInv, PTL DEF Spec

(* Every variable of the class keeps its type, in particular the unsigned  *)
(* mcount never wraps below zero.                                          *)
THEOREM TypeCorrect == Spec => []TypeOK
<1>1. Inv => TypeOK BY DEF Inv
<1> QED BY <1>1, Invariance, PTL

(* In whatever order elements are pushed, popped, removed, cleared and     *)
(* traversed, the list links exactly the elements in memory, in order.     *)
THEOREM ListWellLinked == Spec => []WellLinked
<1>1. Inv => WellLinked BY DEF Inv
<1> QED BY <1>1, Invariance, PTL

(* The cursor rests on an element in memory, or on none.                   *)
THEOREM CursorNeverDangles == Spec => []NoDanglingCursor
<1>1. Inv => NoDanglingCursor BY DEF Inv
<1> QED BY <1>1, Invariance, PTL

(* No operation follows a pointer into freed memory, and only              *)
(* RemoveElement and SpecialElement can follow nullptr.                    *)
THEOREM MemorySafe == Spec => []OnlyKnownCrashes
<1>1. Inv => OnlyKnownCrashes BY DEF Inv
<1> QED BY <1>1, Invariance, PTL

-----------------------------------------------------------------------------
(* The sweep.  It removes only the element returned last.  Unless that is    *)
(* stale the cursor is behind it, or null: the cursor branch of              *)
(* RemoveElement, the only one that can crash, is not taken.  What is true   *)
(* of the list is said of a process that lives.                              *)
CursorIsBehind ==
  /\ returned \in heap \cup {nullptr}
  /\ returned \in heap => mcurr \in {nullptr, next[returned]}

SweepInv ==
  /\ fault = "none" => Inv /\ (~stale => CursorIsBehind)
  /\ CrashNeedsStale

\* A process that died does nothing but leave a loop it has finished.
LEMMA DeadIsDead ==
  ASSUME fault # "none", [SweepNext]_vars
  PROVE  UNCHANGED <<stale, fault>>
BY DEF SweepNext, SweepRemoves, emberAfPluginLinkedListPushBack, emberAfPluginLinkedListPopFront,
       emberAfPluginLinkedListRemoveElement, emberAfPluginLinkedListClearAllElements,
       emberAfPluginLinkedListNextElement, ClearAllBegins, ClearAllPops, ClearAllEnds, Running,
       vars, links

LEMMA SweepNextInv == SweepInv /\ [SweepNext]_vars => SweepInv'
<1> SUFFICES ASSUME SweepInv, [SweepNext]_vars PROVE SweepInv' OBVIOUS
<1> USE NullAssumption
<1>0. SUFFICES ASSUME fault = "none" PROVE SweepInv'
  BY DeadIsDead DEF SweepInv, CrashNeedsStale
<1>2. Inv /\ (~stale => CursorIsBehind) BY <1>0 DEF SweepInv
<1>1. PICK q : IsChain(q) BY <1>2, WellLinkedChain DEF Inv
<1>3. CASE emberAfPluginLinkedListPushBack
  <2>1. PICK element \in Element \ heap :
          /\ heap' = heap \cup {element}
          /\ next' = [p \in Pointer |-> IF p = element THEN nullptr
                         ELSE IF p \in (IF mhead = nullptr THEN {} ELSE {mtail}) THEN element
                         ELSE next[p]]
          /\ UNCHANGED <<mcurr, returned, stale>>
    BY <1>1, <1>2, <1>3, ChainFacts DEF Inv, emberAfPluginLinkedListPushBack, Valid
  <2>2. mhead # nullptr => next[mtail] = nullptr
    BY <1>1, <1>2, ChainFacts DEF Inv
  <2>3. ASSUME ~stale PROVE CursorIsBehind'
    <3>1. returned # element /\ returned \in heap \cup {nullptr} BY <1>2, <2>1, <2>3 DEF CursorIsBehind
    <3>2. ASSUME returned \in heap PROVE mcurr \in {nullptr, next'[returned]}
      <4>1. returned \in Pointer BY <1>2 DEF Inv, TypeOK
      <4>2. next'[returned] = IF returned \in (IF mhead = nullptr THEN {} ELSE {mtail})
                              THEN element ELSE next[returned]
        BY <2>1, <3>1, <4>1
      <4> QED BY <1>2, <2>2, <2>3, <3>2, <4>2 DEF CursorIsBehind
    <3> QED BY <2>1, <3>1, <3>2 DEF CursorIsBehind
  <2> QED BY <1>0, <1>2, <1>3, <2>1, <2>3, PushBackKeepsInv DEF SweepInv, CrashNeedsStale
<1>4. ASSUME PopHead PROVE SweepInv'
  <2>1. /\ mcurr' = CursorAfterPop
        /\ heap' = heap \ {mhead}
        /\ stale' = (stale \/ returned = mhead)
        /\ UNCHANGED <<next, returned>>
    BY <1>1, <1>2, <1>4, ChainFacts DEF Inv, PopHead, Valid
  <2>2. \A e \in heap : next[e] # mhead
    BY <1>1, <1>2, ChainFacts DEF Inv
  <2>3. ASSUME ~stale' PROVE CursorIsBehind'
    <3>1. ~stale /\ returned # mhead BY <2>1, <2>3
    <3>2. mhead \in heap /\ nullptr \notin heap BY <1>1, <1>2, <1>4, ChainFacts DEF Inv, PopHead
    <3> QED BY <1>2, <2>1, <2>2, <3>1, <3>2 DEF CursorIsBehind, CursorAfterPop
  <2> QED BY <1>0, <1>2, <1>4, <2>3, PopHeadKeepsInv DEF SweepInv, CrashNeedsStale
<1>5. CASE SweepRemoves
  <2>1. emberAfPluginLinkedListRemoveElement(returned) BY <1>5 DEF SweepRemoves
  <2>2. CASE stale
    <3>1. stale' BY <2>1, <2>2 DEF emberAfPluginLinkedListRemoveElement, Crash, links
    <3>2. CASE returned \in heap
      <4>1. Inv' BY <1>2, <2>1, <3>2, RemoveElementKeepsInv
      <4> QED BY <3>1, <4>1 DEF SweepInv, CrashNeedsStale
    <3>3. CASE returned \notin heap
      <4>1. Crash("RemoveElement", RemoveTouches(returned))
        BY <2>1, <3>3 DEF emberAfPluginLinkedListRemoveElement, RemoveTouches, Valid
      <4>2. fault' # "none" BY <4>1 DEF Crash
      <4> QED BY <3>1, <4>2 DEF SweepInv, CrashNeedsStale
    <3> QED BY <3>2, <3>3
  <2>3. CASE ~stale
    <3>1. returned \in heap
      BY <1>2, <2>1, <2>3 DEF CursorIsBehind, emberAfPluginLinkedListRemoveElement
    <3>2. returned # mcurr
      <4>1. next[returned] # returned /\ nullptr # returned
        BY <1>1, <1>2, <3>1, ChainFacts DEF Inv
      <4> QED BY <1>2, <2>3, <3>1, <4>1 DEF CursorIsBehind
    <3>3. Inv' /\ fault' = fault /\ stale'
      BY <1>2, <2>1, <3>1, <3>2, RemoveElementKeepsInv
    <3> QED BY <3>3 DEF SweepInv, CrashNeedsStale
  <2> QED BY <2>2, <2>3
<1>6. CASE emberAfPluginLinkedListClearAllElements
  <2>1. CASE ClearAllBegins \/ ClearAllEnds
    <3>1. UNCHANGED <<mcurr, next, heap, returned, stale, fault>>
      BY <2>1 DEF ClearAllBegins, ClearAllEnds, links
    <3>2. Inv' BY <1>2, <1>6, ClearKeepsInv
    <3>3. CursorIsBehind' <=> CursorIsBehind BY <3>1 DEF CursorIsBehind
    <3> QED BY <1>0, <1>2, <3>1, <3>2, <3>3 DEF SweepInv, CrashNeedsStale
  <2>2. CASE ClearAllPops BY <2>2, <1>4 DEF ClearAllPops
  <2> QED BY <1>6, <2>1, <2>2 DEF emberAfPluginLinkedListClearAllElements
<1>7. CASE emberAfPluginLinkedListNextElement
  <2>1. Inv' /\ UNCHANGED <<next, heap, fault>> /\ returned' \in heap \cup {nullptr}
        /\ (returned' \in heap => mcurr' = next[returned'])
    BY <1>2, <1>7, NextElementKeepsInv
  <2> QED BY <1>0, <2>1 DEF SweepInv, CrashNeedsStale, CursorIsBehind
<1>8. CASE UNCHANGED vars
  <2>1. UNCHANGED <<mcurr, next, heap, returned, stale, fault>> BY <1>8 DEF vars, links
  <2>2. Inv' BY <1>2, <1>8, StutterKeepsInv
  <2>3. CursorIsBehind' <=> CursorIsBehind BY <2>1 DEF CursorIsBehind
  <2> QED BY <1>0, <1>2, <2>1, <2>2, <2>3 DEF SweepInv, CrashNeedsStale
<1> QED BY <1>3, <1>4, <1>5, <1>6, <1>7, <1>8 DEF SweepNext, emberAfPluginLinkedListPopFront

(* The retransmission sweep of the class comment kills the process only by  *)
(* removing an element that was freed since NextElement returned it,        *)
(* however many nodes are joining and even if its address is in use again.  *)
THEOREM SweepSafe == SweepSpec => []CrashNeedsStale
<1>1. Init => SweepInv
  BY InitInv, NullAssumption DEF Init, SweepInv, CrashNeedsStale, CursorIsBehind
<1>2. SweepInv => CrashNeedsStale BY DEF SweepInv
<1> QED BY <1>1, <1>2, SweepNextInv, PTL DEF SweepSpec

-----------------------------------------------------------------------------
(* The refinement.  The abstract queue is the sequence the links represent; *)
(* there is only one, because they lead from each element to the next.      *)
LEMMA ChainUnique ==
  ASSUME NEW n \in Nat, NEW h, NEW hd, NEW tl, NEW nx, NEW pv,
         NEW q, Chain(q, n, h, hd, tl, nx, pv), NEW r, Chain(r, n, h, hd, tl, nx, pv)
  PROVE  q = r
<1> DEFINE T == {i \in Nat : i + 1 <= n => q[i + 1] = r[i + 1]}
<1>1. 0 \in T BY DEF Chain
<1>2. ASSUME NEW i \in Nat, i \in T PROVE i + 1 \in T
  <2> SUFFICES ASSUME (i + 1) + 1 <= n PROVE q[(i + 1) + 1] = r[(i + 1) + 1] OBVIOUS
  <2>1. i + 1 \in 1..n /\ i + 1 # n BY <1>2
  <2>2. q[i + 1] = r[i + 1] BY <1>2
  <2>3. nx[q[i + 1]] = q[(i + 1) + 1] BY <2>1 DEF Chain
  <2>4. nx[r[i + 1]] = r[(i + 1) + 1] BY <2>1 DEF Chain
  <2> QED BY <2>2, <2>3, <2>4
<1> HIDE DEF T
<1>3. Nat \subseteq T BY <1>1, <1>2, NatSetInduction
<1>4. ASSUME NEW i \in 1..n PROVE q[i] = r[i]
  <2>1. i - 1 \in T BY <1>3
  <2> QED BY <2>1 DEF T
<1>5. q \in [1..n -> Element] /\ r \in [1..n -> Element] BY DEF Chain
<1> QED BY <1>4, <1>5

LEMMA QueueIs ==
  ASSUME TypeOK, NEW q, IsChain(q)
  PROVE  TheQueue = q
<1>1. q \in [1..mcount -> Element] /\ Linked(q) BY DEF IsChain, Chain, Linked
<1>2. ASSUME NEW r \in [1..mcount -> Element], Linked(r) PROVE r = q
  <2>1. IsChain(r) BY <1>2 DEF IsChain, Chain, Linked
  <2>2. mcount \in Nat BY DEF TypeOK
  <2> QED BY <2>1, <2>2, ChainUnique DEF IsChain
<1> QED BY <1>1, <1>2 DEF TheQueue

LEMMA QueueBecomes ==
  ASSUME mcount' \in Nat, NEW q, Becomes(q)
  PROVE  TheQueue' = q
<1>1. q \in [1..mcount' -> Element] /\ Linked(q)' BY DEF Becomes, Chain, Linked
<1>2. ASSUME NEW r \in [1..mcount' -> Element], Linked(r)' PROVE r = q
  <2>1. Becomes(r) BY <1>2 DEF Becomes, Chain, Linked
  <2> QED BY <2>1, ChainUnique DEF Becomes
<1> QED BY <1>1, <1>2 DEF TheQueue

\* A function on 1..n is a sequence of length n.
LEMMA ChainIsSeq ==
  ASSUME NEW n \in Nat, NEW q \in [1..n -> Element]
  PROVE  q \in Seq(Element) /\ Len(q) = n
<1>1. q \in Seq(Element) BY SeqDef
<1> QED BY <1>1, LenProperties

LEMMA PushedIsAppend ==
  ASSUME NEW n \in Nat, NEW q \in [1..n -> Element], NEW e \in Element
  PROVE  Pushed(q, n, e) = Append(q, e)
<1>1. q \in Seq(Element) /\ Len(q) = n BY ChainIsSeq
<1>2. Append(q, e) \in Seq(Element) /\ Len(Append(q, e)) = n + 1
      /\ \A i \in 1..(n + 1) : Append(q, e)[i] = IF i = n + 1 THEN e ELSE q[i]
  BY <1>1
<1>3. Pushed(q, n, e) \in [1..(n + 1) -> Element]
      /\ \A i \in 1..(n + 1) : Pushed(q, n, e)[i] = IF i = n + 1 THEN e ELSE q[i]
  BY DEF Pushed
<1>4. Append(q, e) \in [1..(n + 1) -> Element] BY <1>2, LenProperties, ElementOfSeq
<1> QED BY <1>2, <1>3, <1>4

\* PushBack is Arrive, what takes an element out is Leave, and everything
\* else leaves the queue as it is.
LEMMA PushArrives ==
  ASSUME Inv, NEW q, IsChain(q), NEW e \in Element \ heap, Becomes(Pushed(q, mcount, e)), TypeOK'
  PROVE  Abstract!Arrive
<1>1. TheQueue = q BY QueueIs DEF Inv
<1>2. PICK n \in Nat : n = mcount BY DEF Inv, TypeOK
<1>3. q \in [1..n -> Element] /\ heap = {q[i] : i \in 1..n} BY <1>2 DEF IsChain, Chain
<1>4. Len(q) = n BY <1>3, ChainIsSeq
<1>5. PICK r : r = Pushed(q, n, e) OBVIOUS
<1>6. TheQueue' = r
  <2>1. Becomes(r) BY <1>2, <1>5
  <2>2. mcount' \in Nat BY DEF TypeOK
  <2> QED BY <2>1, <2>2, QueueBecomes
<1>7. r = Append(q, e) BY <1>3, <1>5, PushedIsAppend
<1>8. \A i \in 1..Len(q) : q[i] # e BY <1>3, <1>4
<1> QED BY <1>1, <1>6, <1>7, <1>8 DEF Abstract!Arrive, Abstract!Positions

LEMMA RemovalLeaves ==
  ASSUME Inv, NEW q, IsChain(q), NEW k \in 1..mcount, Becomes(Removed(q, mcount, k)), TypeOK'
  PROVE  Abstract!Leave
<1>1. TheQueue = q BY QueueIs DEF Inv
<1>2. PICK n \in Nat : n = mcount BY DEF Inv, TypeOK
<1>3. q \in [1..n -> Element] BY <1>2 DEF IsChain, Chain
<1>4. Len(q) = n BY <1>3, ChainIsSeq
<1>5. PICK r : r = Removed(q, n, k) OBVIOUS
<1>6. TheQueue' = r
  <2>1. Becomes(r) BY <1>2, <1>5
  <2>2. mcount' \in Nat BY DEF TypeOK
  <2> QED BY <2>1, <2>2, QueueBecomes
<1>7. r = Abstract!Without(q, k) BY <1>4, <1>5 DEF Removed, Abstract!Without
<1> QED BY <1>1, <1>2, <1>4, <1>6, <1>7 DEF Abstract!Leave, Abstract!Positions

LEMMA PopLeaves ==
  ASSUME Inv, PopHead
  PROVE  Abstract!Leave
<1>1. PICK q : IsChain(q) /\ mcount > 0 /\ Becomes(Popped(q, mcount)) BY PopHeadKeepsInv
<1>2. TypeOK' BY PopHeadKeepsInv DEF Inv
<1>3. mcount \in Nat BY DEF Inv, TypeOK
<1>4. Popped(q, mcount) = Removed(q, mcount, 1)
  <2>1. \A i \in 1..(mcount - 1) : ~(i < 1) BY <1>3
  <2> QED BY <2>1 DEF Popped, Removed
<1>5. 1 \in 1..mcount BY <1>1, <1>3
<1> QED BY <1>1, <1>2, <1>4, <1>5, RemovalLeaves

LEMMA SameQueue ==
  ASSUME Inv, UNCHANGED <<mhead, mtail, mcount, next, previous, heap>>
  PROVE  UNCHANGED TheQueue
<1>1. PICK q : IsChain(q) BY WellLinkedChain DEF Inv
<1>2. Becomes(q) BY <1>1 DEF Becomes, IsChain
<1>3. mcount' \in Nat BY DEF Inv, TypeOK
<1>4. TheQueue = q BY <1>1, QueueIs DEF Inv
<1>5. TheQueue' = q BY <1>2, <1>3, QueueBecomes
<1> QED BY <1>4, <1>5

(* Whatever is pushed, popped, removed, cleared and traversed, in whatever  *)
(* order, the doubly linked list with its counter implements the queue      *)
(* JoinQueue: nodes enter at the back, leave from any place, and keep their *)
(* order of arrival.                                                        *)
THEOREM ListIsQueue == Spec => ImplementsQueue
<1>1. Init => Abstract!Init
  <2> SUFFICES ASSUME Init PROVE TheQueue = << >> BY DEF Abstract!Init
  <2>1. IsChain(<< >>) BY DEF Init, IsChain, Chain
  <2>2. TypeOK BY InitInv DEF Inv
  <2> QED BY <2>1, <2>2, QueueIs
<1>2. Inv /\ [Next]_vars => [Abstract!Next]_TheQueue
  <2> SUFFICES ASSUME Inv, [Next]_vars PROVE Abstract!Next \/ UNCHANGED TheQueue OBVIOUS
  <2>0. TypeOK' BY NextInv DEF Inv
  <2>1. CASE emberAfPluginLinkedListPushBack
    <3>1. PICK q, e : IsChain(q) /\ e \in Element \ heap /\ Becomes(Pushed(q, mcount, e))
      BY <2>1, PushBackKeepsInv
    <3> QED BY <2>0, <3>1, PushArrives DEF Abstract!Next
  <2>2. CASE PopHead BY <2>2, PopLeaves DEF Abstract!Next
  <2>3. CASE \E element \in heap : emberAfPluginLinkedListRemoveElement(element)
    <3>1. CASE UNCHANGED links BY <3>1, SameQueue DEF links
    <3>2. CASE \E q, k : IsChain(q) /\ k \in 1..mcount /\ Becomes(Removed(q, mcount, k))
      <4>1. PICK q, k : IsChain(q) /\ k \in 1..mcount /\ Becomes(Removed(q, mcount, k)) BY <3>2
      <4> QED BY <2>0, <4>1, RemovalLeaves DEF Abstract!Next
    <3> QED BY <2>3, <3>1, <3>2, RemoveElementKeepsInv
  <2>4. CASE emberAfPluginLinkedListNextElement
             \/ \E position \in heap \cup {nullptr} : emberAfPluginLinkedListSpecialElement(position)
    <3>1. UNCHANGED <<mhead, mtail, mcount, next, previous, heap>>
      BY <2>4 DEF emberAfPluginLinkedListNextElement, emberAfPluginLinkedListSpecialElement, Crash, links
    <3> QED BY <3>1, SameQueue
  <2>5. CASE ClearAllBegins \/ ClearAllEnds \/ UNCHANGED vars
    BY <2>5, SameQueue DEF ClearAllBegins, ClearAllEnds, vars, links
  <2> QED BY <2>1, <2>2, <2>3, <2>4, <2>5
          DEF Next, emberAfPluginLinkedListPopFront, emberAfPluginLinkedListClearAllElements, ClearAllPops
<1> QED BY <1>1, <1>2, Invariance, PTL DEF Spec, ImplementsQueue, Abstract!Spec

==============================================================================
