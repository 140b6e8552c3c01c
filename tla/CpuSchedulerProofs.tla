-------------------------- MODULE CpuSchedulerProofs --------------------------
(* Proofs about CpuScheduler for every set of threads, priorities and quanta, *)
(* and without its bounds mattering: where the threads are, which one has the *)
(* processor, in which order they get it and for how long, and what stats()   *)
(* makes of the times the callbacks write down.                               *)
(*                                                                            *)
(* What the scheduler takes for current and what the simulator runs part      *)
(* where io_complete() dispatches in the middle of a tick; Agree says in      *)
(* which ways, phase by phase.                                                *)
EXTENDS CpuScheduler, FiniteSetTheorems, TLAPS

Distinct(q) == \A i, j \in 1 .. Len(q) : q[i] = q[j] => i = j

-----------------------------------------------------------------------------
\* Induction over the naturals, for a set: strict inclusion is well founded
\* on the segments 0..k, so a number outside it would have a least one.
LEMMA NaturalsFromZero ==
    ASSUME NEW S \in SUBSET Nat, 0 \in S, \A n \in S : n + 1 \in S
    PROVE  S = Nat
<1> SUFFICES ASSUME Nat \ S # {} PROVE FALSE
  OBVIOUS
<1> DEFINE Segments == {0 .. k : k \in Nat \ S}
<1>1. Segments \subseteq FiniteSubsetsOf(Nat)
  <2> SUFFICES ASSUME NEW k \in Nat PROVE 0 .. k \in FiniteSubsetsOf(Nat)
    OBVIOUS
  <2>1. IsFiniteSet(0 .. k) BY FS_Interval
  <2> QED BY <2>1 DEF FiniteSubsetsOf
<1>2. Segments # {} OBVIOUS
<1>3. \E x \in Segments : \A y \in Segments : ~(<<y, x>> \in StrictSubsetOrdering(Nat))
  <2> HIDE DEF Segments
  <2> QED BY <1>1, <1>2, FS_StrictSubsetOrderingWellFounded, WFMin
<1>4. PICK m \in Nat \ S : \A n \in Nat \ S : ~(<<0 .. n, 0 .. m>> \in StrictSubsetOrdering(Nat))
  BY <1>3
<1>5. m > 0 /\ m - 1 \in Nat \ S
  <2>1. m # 0 OBVIOUS
  <2>2. m - 1 \in Nat /\ (m - 1) + 1 = m BY <2>1
  <2> QED BY <2>1, <2>2
<1>6. 0 .. m - 1 \subseteq 0 .. m /\ m \in 0 .. m /\ m \notin 0 .. m - 1 BY <1>5
<1>7. <<0 .. m - 1, 0 .. m>> \in StrictSubsetOrdering(Nat) BY <1>6 DEF StrictSubsetOrdering
<1> QED BY <1>4, <1>5, <1>7

-----------------------------------------------------------------------------
\* The function Sorted() takes from the queue: f[n] is the list of the first
\* n threads.
Sorting(f, q, n) ==
    f = [k \in 0 .. n |-> IF k = 0 THEN <<>> ELSE Place(f[k - 1], q[k])]

LEMMA SortingExists ==
    ASSUME NEW q, NEW n \in Nat
    PROVE  \E f : Sorting(f, q, n)
<1> DEFINE S == {m \in Nat : \E f : Sorting(f, q, m)}
<1>1. 0 \in S
  <2>1. Sorting([k \in 0 .. 0 |-> <<>>], q, 0) BY DEF Sorting
  <2> QED BY <2>1
<1>2. ASSUME NEW m \in S PROVE m + 1 \in S
  <2>1. PICK f : Sorting(f, q, m) BY <1>2
  <2> DEFINE g == [k \in 0 .. m + 1 |-> IF k <= m THEN f[k] ELSE Place(f[m], q[m + 1])]
  <2>2. ASSUME NEW k \in 0 .. m + 1
        PROVE  g[k] = IF k = 0 THEN <<>> ELSE Place(g[k - 1], q[k])
    <3>1. CASE k = 0
      <4>1. g[0] = f[0] /\ f[0] = <<>> BY <2>1 DEF Sorting
      <4> QED BY <3>1, <4>1
    <3>2. CASE k \in 1 .. m
      <4>1. g[k] = f[k] /\ g[k - 1] = f[k - 1] BY <3>2
      <4>2. f[k] = Place(f[k - 1], q[k]) BY <2>1, <3>2 DEF Sorting
      <4> HIDE DEF g
      <4> QED BY <3>2, <4>1, <4>2
    <3>3. CASE k = m + 1
      <4>1. g[k - 1] = f[m] /\ g[k] = Place(f[m], q[m + 1]) BY <3>3
      <4> HIDE DEF g
      <4> QED BY <3>3, <4>1
    <3> QED BY <3>1, <3>2, <3>3
  <2>3. g = [k \in 0 .. m + 1 |-> IF k = 0 THEN <<>> ELSE Place(g[k - 1], q[k])]
    <3>1. DOMAIN g = 0 .. m + 1 /\ g = [k \in 0 .. m + 1 |-> g[k]] OBVIOUS
    <3> HIDE DEF g
    <3> QED BY <2>2, <3>1
  <2>4. Sorting(g, q, m + 1) 
    <3> HIDE DEF g
    <3> QED BY <2>3 DEF Sorting
  <2> QED BY <2>4
<1>3. S = Nat
  <2> HIDE DEF S
  <2>1. S \in SUBSET Nat BY DEF S
  <2> QED BY <1>1, <1>2, <2>1, NaturalsFromZero
<1> QED BY <1>3

LEMMA SortedIsSorting ==
    ASSUME NEW q \in Seq(Thread), ByPriority
    PROVE  \E f : Sorting(f, q, Len(q)) /\ Sorted(q) = f[Len(q)]
<1>1. \E f : Sorting(f, q, Len(q))
  <2>1. Len(q) \in Nat OBVIOUS
  <2> QED BY <2>1, SortingExists
<1>2. PICK f : f = CHOOSE g : g = [k \in 0 .. Len(q) |->
                     IF k = 0 THEN <<>> ELSE Place(g[k - 1], q[k])]
  OBVIOUS
<1>3. Sorted(q) = f[Len(q)] BY <1>2 DEF Sorted
<1>4. f = [k \in 0 .. Len(q) |-> IF k = 0 THEN <<>> ELSE Place(f[k - 1], q[k])]
  BY <1>1, <1>2 DEF Sorting
<1> QED BY <1>3, <1>4 DEF Sorting

\* In a list sorted by priority those before the place of t are the ones of
\* no lower priority, and the number of them is that place.
ByPrio(s) == \A i, j \in 1 .. Len(s) : i < j => prio[s[i]] <= prio[s[j]]

LEMMA PlaceOf ==
    ASSUME prio \in [Thread -> Nat], NEW s \in Seq(Thread), ByPrio(s), NEW t \in Thread
    PROVE  \E m \in 0 .. Len(s) :
              /\ Cardinality({i \in DOMAIN s : prio[s[i]] <= prio[t]}) = m
              /\ \A i \in 1 .. m : prio[s[i]] <= prio[t]
              /\ \A i \in m + 1 .. Len(s) : prio[t] < prio[s[i]]
<1> DEFINE D(n) == {i \in 1 .. n : prio[s[i]] <= prio[t]}
           S == {n \in Nat : n <= Len(s) => \E k \in 0 .. n : D(n) = 1 .. k}
<1>1. 0 \in S
  <2>1. D(0) = 1 .. 0 OBVIOUS
  <2> QED BY <2>1
<1>2. ASSUME NEW n \in S PROVE n + 1 \in S
  <2>0. Len(s) \in Nat /\ n \in Nat /\ n + 1 \in Nat OBVIOUS
  <2> SUFFICES ASSUME n + 1 <= Len(s) PROVE \E k \in 0 .. n + 1 : D(n + 1) = 1 .. k
    <3> HIDE DEF D
    <3> QED BY <2>0
  <2>1. n \in Nat /\ n <= Len(s) BY <2>0
  <2>2. PICK k \in 0 .. n : D(n) = 1 .. k BY <2>1
  <2>3. D(n + 1) = IF prio[s[n + 1]] <= prio[t] THEN D(n) \cup {n + 1} ELSE D(n)
    BY <2>1
  <2>4. CASE prio[s[n + 1]] <= prio[t] /\ k = n
    <3> HIDE DEF D
    <3>0. 1 .. n + 1 = (1 .. n) \cup {n + 1} BY <2>1
    <3>1. D(n + 1) = 1 .. n + 1 BY <3>0, <2>2, <2>3, <2>4
    <3> QED BY <3>1
  <2>5. CASE prio[s[n + 1]] <= prio[t] /\ k # n
    <3>1. k + 1 \in 1 .. n /\ k + 1 \notin D(n) BY <2>2, <2>5
    <3>2. prio[t] < prio[s[k + 1]] BY <3>1, <2>1
    <3>3. prio[s[k + 1]] <= prio[s[n + 1]] BY <3>1, <2>1 DEF ByPrio
    <3>4. prio[s[k + 1]] \in Nat /\ prio[s[n + 1]] \in Nat /\ prio[t] \in Nat BY <3>1, <2>1
    <3> QED BY <2>5, <3>2, <3>3, <3>4
  <2>6. CASE ~(prio[s[n + 1]] <= prio[t])
    <3> HIDE DEF D
    <3>1. D(n + 1) = 1 .. k BY <2>2, <2>3, <2>6
    <3> QED BY <3>1
  <2> QED BY <2>4, <2>5, <2>6
<1>3. S = Nat
  <2> HIDE DEF S
  <2>1. S \in SUBSET Nat BY DEF S
  <2> QED BY <1>1, <1>2, <2>1, NaturalsFromZero
<1>4. Len(s) \in Nat /\ Len(s) \in S
  <2>1. Len(s) \in Nat OBVIOUS
  <2> QED BY <1>3, <2>1
<1>5. PICK m \in 0 .. Len(s) : D(Len(s)) = 1 .. m
  <2> HIDE DEF D
  <2> QED BY <1>4
<1>6. Cardinality(1 .. m) = m BY FS_Interval
<1>7. {i \in DOMAIN s : prio[s[i]] <= prio[t]} = 1 .. m BY <1>5
<1>8. ASSUME NEW i \in 1 .. m PROVE prio[s[i]] <= prio[t] BY <1>5
<1>9. ASSUME NEW i \in m + 1 .. Len(s) PROVE prio[t] < prio[s[i]]
  <2>1. i \notin D(Len(s)) /\ i \in 1 .. Len(s) BY <1>5
  <2>2. prio[s[i]] \in Nat /\ prio[t] \in Nat BY <2>1
  <2> QED BY <2>1, <2>2
<1> QED BY <1>6, <1>7, <1>8, <1>9

\* The list s is q, or its first n threads, sorted: where[i] is the place in q
\* of the i-th of them, and threads of one priority keep their order.
Stably(s, q, n, where) ==
    /\ where \in [1 .. n -> 1 .. n]
    /\ \A i, j \in 1 .. n : where[i] = where[j] => i = j
    /\ \A k \in 1 .. n : \E i \in 1 .. n : where[i] = k
    /\ s = [i \in 1 .. n |-> q[where[i]]]
    /\ ByPrio(s)
    /\ \A i, j \in 1 .. n : i < j /\ prio[s[i]] = prio[s[j]] => where[i] < where[j]

LEMMA PlaceSorts ==
    ASSUME prio \in [Thread -> Nat], NEW q \in Seq(Thread), NEW n \in Nat, n < Len(q),
           NEW s, NEW where, Stably(s, q, n, where)
    PROVE  \E w : Stably(Place(s, q[n + 1]), q, n + 1, w)
<1> DEFINE t == q[n + 1]
<1>0. Len(q) \in Nat /\ \A i \in 1 .. Len(q) : q[i] \in Thread OBVIOUS
<1>1. t \in Thread BY <1>0
<1>2. s \in Seq(Thread) /\ Len(s) = n
  <2>1. \A i \in 1 .. n : where[i] \in 1 .. Len(q) BY <1>0 DEF Stably
  <2>2. \A i \in 1 .. n : q[where[i]] \in Thread BY <1>0, <2>1
  <2>3. s \in [1 .. n -> Thread] BY <2>2 DEF Stably
  <2> QED BY <2>3
<1>3. PICK m \in 0 .. n :
         /\ Cardinality({i \in DOMAIN s : prio[s[i]] <= prio[t]}) = m
         /\ \A i \in 1 .. m : prio[s[i]] <= prio[t]
         /\ \A i \in m + 1 .. n : prio[t] < prio[s[i]]
  <2> HIDE DEF t
  <2> QED BY <1>1, <1>2, PlaceOf DEF Stably
<1> DEFINE new == [i \in 1 .. n + 1 |-> IF i <= m THEN s[i] ELSE IF i = m + 1 THEN t ELSE s[i - 1]]
           w == [i \in 1 .. n + 1 |-> IF i <= m THEN where[i]
                                      ELSE IF i = m + 1 THEN n + 1 ELSE where[i - 1]]
<1>4. Place(s, t) = new
  <2>1. Place(s, t) = SubSeq(s, 1, m) \o <<t>> \o SubSeq(s, m + 1, Len(s)) BY <1>3 DEF Place
  <2>2. SubSeq(s, 1, m) \o <<t>> \o SubSeq(s, m + 1, Len(s)) = new
    <3> DEFINE a == SubSeq(s, 1, m)
               c == SubSeq(s, m + 1, Len(s))
               b == a \o <<t>>
    <3>1. /\ a \in Seq(Thread) /\ Len(a) = m
          /\ \A i \in 1 .. m : a[i] = s[i]
      BY <1>2
    <3>2. /\ c \in Seq(Thread) /\ Len(c) = n - m
          /\ \A i \in 1 .. n - m : c[i] = s[m + i]
      <4> HIDE DEF t
      <4>1. m \in Nat /\ m <= n /\ Len(s) = n /\ s \in Seq(Thread) BY <1>2
      <4>2. c \in Seq(Thread) BY <4>1
      <4>3. Len(c) = n - m BY <4>1
      <4>4. \A i \in 1 .. n - m : c[i] = s[m + i] BY <4>1
      <4> QED BY <4>2, <4>3, <4>4
    <3> HIDE DEF t, a, c
    <3>3. /\ b \in Seq(Thread) /\ Len(b) = m + 1
          /\ \A i \in 1 .. m : b[i] = s[i]
          /\ b[m + 1] = t
      BY <1>1, <3>1
    <3> HIDE DEF b
    <3> DEFINE d == b \o c
    <3>4. /\ d \in Seq(Thread) /\ Len(d) = Len(b) + Len(c)
          /\ \A i \in 1 .. Len(b) : d[i] = b[i]
          /\ \A i \in Len(b) + 1 .. Len(b) + Len(c) : d[i] = c[i - Len(b)]
      <4>1. b \in Seq(Thread) /\ c \in Seq(Thread) BY <3>2, <3>3
      <4>2. d \in Seq(Thread) BY <4>1
      <4>3. Len(d) = Len(b) + Len(c) BY <4>1
      <4>4. \A i \in 1 .. Len(b) : d[i] = b[i] BY <4>1
      <4>5. \A i \in Len(b) + 1 .. Len(b) + Len(c) : d[i] = c[i - Len(b)] BY <4>1
      <4> QED BY <4>2, <4>3, <4>4, <4>5
    <3>5. Len(b) + Len(c) = n + 1 BY <3>2, <3>3
    <3> HIDE DEF d
    <3>6. ASSUME NEW i \in 1 .. n + 1 PROVE d[i] = new[i]
      <4>1. CASE i <= m
        <5>1. i \in 1 .. m /\ i \in 1 .. Len(b) BY <3>3, <4>1
        <5> QED BY <3>3, <3>4, <4>1, <5>1
      <4>2. CASE i = m + 1
        <5>1. i \in 1 .. Len(b) BY <3>3, <4>2
        <5> QED BY <3>3, <3>4, <4>2, <5>1
      <4>3. CASE i > m + 1
        <5>1. i \in Len(b) + 1 .. Len(b) + Len(c) BY <3>3, <3>5, <4>3
        <5>2. d[i] = c[i - (m + 1)] BY <3>3, <3>4, <5>1
        <5>3. i - (m + 1) \in 1 .. n - m /\ m + (i - (m + 1)) = i - 1 BY <4>3
        <5>4. c[i - (m + 1)] = s[i - 1] BY <3>2, <5>3
        <5>5. new[i] = s[i - 1] BY <4>3
        <5> QED BY <5>2, <5>4, <5>5
      <4> QED BY <4>1, <4>2, <4>3
    <3>7. d = [i \in 1 .. n + 1 |-> d[i]] BY <3>4, <3>5
    <3>8. d = new BY <3>6, <3>7
    <3> QED BY <3>8 DEF a, b, c, d
  <2> QED BY <2>1, <2>2
<1>5. w \in [1 .. n + 1 -> 1 .. n + 1]
  <2> SUFFICES ASSUME NEW i \in 1 .. n + 1 PROVE w[i] \in 1 .. n + 1
    OBVIOUS
  <2>1. CASE i <= m BY <2>1 DEF Stably
  <2>2. CASE i = m + 1 BY <2>2
  <2>3. CASE i > m + 1
    <3>1. i - 1 \in 1 .. n /\ w[i] = where[i - 1] BY <2>3
    <3>2. where[i - 1] \in 1 .. n BY <3>1 DEF Stably
    <3> QED BY <3>1, <3>2
  <2> QED BY <2>1, <2>2, <2>3
<1>6. ASSUME NEW i \in 1 .. n + 1, NEW j \in 1 .. n + 1, w[i] = w[j] PROVE i = j
  <2>1. \A k \in 1 .. n : where[k] \in 1 .. n /\ where[k] # n + 1 BY DEF Stably
  <2>2. \A k, l \in 1 .. n : where[k] = where[l] => k = l BY DEF Stably
  <2> QED BY <1>6, <2>1, <2>2
<1>7. ASSUME NEW k \in 1 .. n + 1 PROVE \E i \in 1 .. n + 1 : w[i] = k
  <2>1. CASE k = n + 1 
    <3>1. m + 1 \in 1 .. n + 1 /\ w[m + 1] = n + 1 OBVIOUS
    <3> HIDE DEF w
    <3> QED BY <2>1, <3>1
  <2>2. CASE k # n + 1
    <3>1. PICK i \in 1 .. n : where[i] = k BY <2>2 DEF Stably
    <3>2. CASE i <= m BY <3>1, <3>2
    <3>3. CASE i > m
      <4>1. i + 1 \in 1 .. n + 1 /\ w[i + 1] = where[i] BY <3>3
      <4> HIDE DEF w
      <4> QED BY <3>1, <4>1
    <3> QED BY <3>2, <3>3
  <2> QED BY <2>1, <2>2
<1>8. new = [i \in 1 .. n + 1 |-> q[w[i]]]
  <2> SUFFICES ASSUME NEW i \in 1 .. n + 1 PROVE new[i] = q[w[i]]
    OBVIOUS
  <2>1. CASE i <= m
    <3>1. i \in 1 .. n /\ w[i] = where[i] /\ new[i] = s[i] BY <2>1
    <3>2. s[i] = q[where[i]] BY <3>1 DEF Stably
    <3> QED BY <3>1, <3>2
  <2>2. CASE i = m + 1 BY <2>2
  <2>3. CASE i > m + 1
    <3>1. i - 1 \in 1 .. n /\ w[i] = where[i - 1] /\ new[i] = s[i - 1] BY <2>3
    <3>2. s[i - 1] = q[where[i - 1]] BY <3>1 DEF Stably
    <3> QED BY <3>1, <3>2
  <2> QED BY <2>1, <2>2, <2>3
<1>9. ASSUME NEW i \in 1 .. n + 1, NEW j \in 1 .. n + 1, i < j
      PROVE  /\ prio[new[i]] <= prio[new[j]]
             /\ prio[new[i]] = prio[new[j]] => w[i] < w[j]
  <2> DEFINE i0 == IF i <= m THEN i ELSE i - 1
             j0 == IF j <= m THEN j ELSE j - 1
  <2>0. \A k \in 1 .. n : where[k] \in 1 .. n /\ s[k] \in Thread /\ prio[s[k]] \in Nat
    BY <1>2 DEF Stably
  <2>1. prio[t] \in Nat BY <1>1
  <2>2. CASE i # m + 1 /\ j # m + 1
    <3>1. i0 \in 1 .. n /\ j0 \in 1 .. n /\ i0 < j0 BY <1>9, <2>2
    <3>2. new[i] = s[i0] /\ new[j] = s[j0] /\ w[i] = where[i0] /\ w[j] = where[j0] BY <2>2
    <3> HIDE DEF i0, j0, new, w
    <3>3. prio[s[i0]] <= prio[s[j0]] BY <1>2, <3>1 DEF Stably, ByPrio
    <3>4. prio[s[i0]] = prio[s[j0]] => where[i0] < where[j0] BY <3>1 DEF Stably
    <3> QED BY <3>2, <3>3, <3>4
  <2>3. CASE i = m + 1
    <3>1. j0 \in m + 1 .. n /\ new[j] = s[j0] /\ new[i] = t BY <1>9, <2>3
    <3> HIDE DEF i0, j0, new, w
    <3>2. prio[t] < prio[s[j0]] BY <1>3, <3>1
    <3>3. prio[s[j0]] \in Nat BY <2>0, <3>1
    <3> QED BY <2>1, <3>1, <3>2, <3>3
  <2>4. CASE j = m + 1
    <3>1. i \in 1 .. m /\ new[i] = s[i] /\ new[j] = t /\ w[i] = where[i] /\ w[j] = n + 1
      BY <1>9, <2>4
    <3> HIDE DEF i0, j0, new, w
    <3>2. prio[s[i]] <= prio[t] BY <1>3, <3>1
    <3>3. where[i] < n + 1 BY <2>0, <3>1
    <3> QED BY <3>1, <3>2, <3>3
  <2> QED BY <2>2, <2>3, <2>4
<1>10. Len(new) = n + 1 OBVIOUS
<1>11. ByPrio(new) BY <1>9, <1>10 DEF ByPrio
<1>12. Stably(new, q, n + 1, w)
  <2> HIDE DEF new, w
  <2> QED BY <1>5, <1>6, <1>7, <1>8, <1>9, <1>11 DEF Stably
<1> QED BY <1>4, <1>12

\* queue_sort() is a stable sort.
LEMMA SortedStably ==
    ASSUME prio \in [Thread -> Nat], NEW q \in Seq(Thread), ByPriority
    PROVE  \E w : Stably(Sorted(q), q, Len(q), w)
<1>1. PICK f : Sorting(f, q, Len(q)) /\ Sorted(q) = f[Len(q)] BY SortedIsSorting
<1> DEFINE S == {n \in Nat : n <= Len(q) => \E w : Stably(f[n], q, n, w)}
<1>2. 0 \in S
  <2>1. f[0] = <<>> BY <1>1 DEF Sorting
  <2> DEFINE e == [i \in 1 .. 0 |-> i]
  <2>2. Stably(<<>>, q, 0, e)
    <3>1. e \in [1 .. 0 -> 1 .. 0] OBVIOUS
    <3>2. <<>> = [i \in 1 .. 0 |-> q[e[i]]] OBVIOUS
    <3>3. ByPrio(<<>>) BY DEF ByPrio
    <3> HIDE DEF e
    <3> QED BY <3>1, <3>2, <3>3 DEF Stably
  <2> HIDE DEF e
  <2> QED BY <2>1, <2>2
<1>3. ASSUME NEW n \in S PROVE n + 1 \in S
  <2> SUFFICES ASSUME n + 1 <= Len(q) PROVE \E w : Stably(f[n + 1], q, n + 1, w)
    OBVIOUS
  <2>1. n \in Nat /\ n < Len(q) OBVIOUS
  <2>2. PICK w : Stably(f[n], q, n, w) BY <2>1
  <2>3. f[n + 1] = Place(f[n], q[n + 1])
    <3>1. n + 1 \in 0 .. Len(q) /\ n + 1 # 0 /\ (n + 1) - 1 = n BY <2>1
    <3> QED BY <1>1, <3>1 DEF Sorting
  <2>4. \E v : Stably(Place(f[n], q[n + 1]), q, n + 1, v) BY <2>1, <2>2, PlaceSorts
  <2> QED BY <2>3, <2>4
<1>4. S = Nat
  <2> HIDE DEF S
  <2>1. S \in SUBSET Nat BY DEF S
  <2> QED BY <1>2, <1>3, <2>1, NaturalsFromZero
<1>5. Len(q) \in S
  <2>1. Len(q) \in Nat OBVIOUS
  <2> QED BY <1>4, <2>1
<1> QED BY <1>1, <1>5

-----------------------------------------------------------------------------
\* What the queue's operations do to the list, its members and their order.

\* Of two threads of one priority the one in front has been ready for longer.
Older(q) ==
    \A i, j \in 1 .. Len(q) : i < j /\ prio[q[i]] = prio[q[j]] => turn[q[j]] <= turn[q[i]]

LEMMA RangeIs ==
    ASSUME NEW q \in Seq(Thread)
    PROVE  /\ Range(q) = {q[i] : i \in 1 .. Len(q)}
           /\ Range(q) \subseteq Thread
           /\ q = <<>> <=> Range(q) = {}
           /\ q = <<>> <=> Len(q) = 0
           /\ Len(q) \in Nat
<1>1. Len(q) \in Nat /\ (q = <<>> <=> Len(q) = 0) OBVIOUS
<1>2. DOMAIN q = 1 .. Len(q) /\ \A i \in 1 .. Len(q) : q[i] \in Thread OBVIOUS
<1>3. Range(q) = {q[i] : i \in 1 .. Len(q)} BY <1>2 DEF Range
<1>4. Range(q) \subseteq Thread BY <1>2, <1>3
<1>5. Len(q) = 0 <=> Range(q) = {}
  <2>1. CASE Len(q) = 0 BY <1>3, <2>1
  <2>2. CASE Len(q) # 0
    <3>1. 1 \in 1 .. Len(q) BY <1>1, <2>2
    <3> QED BY <1>3, <2>2, <3>1
  <2> QED BY <2>1, <2>2
<1> QED BY <1>1, <1>3, <1>4, <1>5

LEMMA AppendIs ==
    ASSUME NEW q \in Seq(Thread), NEW t \in Thread
    PROVE  /\ Append(q, t) \in Seq(Thread)
           /\ Len(Append(q, t)) = Len(q) + 1
           /\ \A i \in 1 .. Len(q) : Append(q, t)[i] = q[i]
           /\ Append(q, t)[Len(q) + 1] = t
           /\ Range(Append(q, t)) = Range(q) \cup {t}
           /\ Distinct(q) /\ t \notin Range(q) => Distinct(Append(q, t))
           /\ Append(q, t) # <<>>
<1> DEFINE a == Append(q, t)
<1>0. Len(q) \in Nat OBVIOUS
<1>1. /\ a \in Seq(Thread) /\ Len(a) = Len(q) + 1
      /\ \A i \in 1 .. Len(q) : a[i] = q[i]
      /\ a[Len(q) + 1] = t
  OBVIOUS
<1> HIDE DEF a
<1>2. Range(a) = {a[i] : i \in 1 .. Len(q) + 1} /\ a # <<>> BY <1>0, <1>1, RangeIs
<1>3. Range(q) = {q[i] : i \in 1 .. Len(q)} BY RangeIs
<1>4. Range(a) = Range(q) \cup {t}
  <2>1. ASSUME NEW u \in Range(a) PROVE u \in Range(q) \cup {t}
    <3>1. PICK i \in 1 .. Len(q) + 1 : u = a[i] BY <1>2
    <3>2. CASE i = Len(q) + 1 BY <1>1, <3>1, <3>2
    <3>3. CASE i # Len(q) + 1
      <4>1. i \in 1 .. Len(q) BY <1>0, <3>3
      <4> QED BY <1>1, <1>3, <3>1, <4>1
    <3> QED BY <3>2, <3>3
  <2>2. ASSUME NEW u \in Range(q) PROVE u \in Range(a)
    <3>1. PICK i \in 1 .. Len(q) : u = q[i] BY <1>3
    <3>2. i \in 1 .. Len(q) + 1 /\ u = a[i] BY <1>0, <1>1, <3>1
    <3> QED BY <1>2, <3>2
  <2>3. t \in Range(a)
    <3>1. Len(q) + 1 \in 1 .. Len(q) + 1 BY <1>0
    <3> QED BY <1>1, <1>2, <3>1
  <2> QED BY <2>1, <2>2, <2>3
<1>5. ASSUME Distinct(q), t \notin Range(q) PROVE Distinct(a)
  <2> SUFFICES ASSUME NEW i \in 1 .. Len(q) + 1, NEW j \in 1 .. Len(q) + 1, a[i] = a[j]
               PROVE  i = j
    BY <1>1 DEF Distinct
  <2>1. \A k \in 1 .. Len(q) : a[k] = q[k] /\ a[k] # t BY <1>1, <1>3, <1>5
  <2>2. CASE i \in 1 .. Len(q) /\ j \in 1 .. Len(q) BY <1>5, <2>1, <2>2 DEF Distinct
  <2>3. CASE i = Len(q) + 1 BY <1>0, <1>1, <2>1, <2>3
  <2>4. CASE j = Len(q) + 1 BY <1>0, <1>1, <2>1, <2>4
  <2> QED BY <1>0, <2>2, <2>3, <2>4
<1> QED BY <1>1, <1>2, <1>4, <1>5 DEF a

LEMMA TailIs ==
    ASSUME NEW q \in Seq(Thread), q # <<>>
    PROVE  /\ Head(q) = q[1] /\ Head(q) \in Thread
           /\ Tail(q) \in Seq(Thread)
           /\ Len(Tail(q)) = Len(q) - 1 /\ Len(q) >= 1
           /\ \A i \in 1 .. Len(q) - 1 : Tail(q)[i] = q[i + 1]
           /\ Range(q) = {Head(q)} \cup Range(Tail(q))
           /\ Distinct(q) => Distinct(Tail(q)) /\ Head(q) \notin Range(Tail(q))
           /\ prio \in [Thread -> Nat] /\ ByPrio(q) =>
                 \A t \in Range(q) : prio[Head(q)] <= prio[t]
<1> DEFINE h == Tail(q)
<1>0. Len(q) \in Nat /\ Len(q) >= 1 /\ Head(q) = q[1] /\ q[1] \in Thread OBVIOUS
<1>1. /\ h \in Seq(Thread) /\ Len(h) = Len(q) - 1
      /\ \A i \in 1 .. Len(q) - 1 : h[i] = q[i + 1]
  OBVIOUS
<1> HIDE DEF h
<1>2. Range(h) = {h[i] : i \in 1 .. Len(q) - 1} BY <1>0, <1>1, RangeIs
<1>3. Range(q) = {q[i] : i \in 1 .. Len(q)} BY RangeIs
<1>4. Range(q) = {q[1]} \cup Range(h)
  <2>1. ASSUME NEW u \in Range(q) PROVE u \in {q[1]} \cup Range(h)
    <3>1. PICK i \in 1 .. Len(q) : u = q[i] BY <1>3
    <3>2. CASE i = 1 BY <3>1, <3>2
    <3>3. CASE i # 1
      <4>1. i - 1 \in 1 .. Len(q) - 1 /\ (i - 1) + 1 = i BY <1>0, <3>3
      <4>2. h[i - 1] = u BY <1>1, <3>1, <4>1
      <4> QED BY <1>2, <4>1, <4>2
    <3> QED BY <3>2, <3>3
  <2>2. ASSUME NEW u \in Range(h) PROVE u \in Range(q)
    <3>1. PICK i \in 1 .. Len(q) - 1 : u = h[i] BY <1>2
    <3>2. i + 1 \in 1 .. Len(q) /\ u = q[i + 1] BY <1>0, <1>1, <3>1
    <3> QED BY <1>3, <3>2
  <2>3. q[1] \in Range(q)
    <3>1. 1 \in 1 .. Len(q) BY <1>0
    <3> QED BY <1>3, <3>1
  <2> QED BY <2>1, <2>2, <2>3
<1>5. ASSUME Distinct(q) PROVE Distinct(h) /\ q[1] \notin Range(h)
  <2>1. ASSUME NEW i \in 1 .. Len(q) - 1, NEW j \in 1 .. Len(q) - 1, h[i] = h[j] PROVE i = j
    <3>1. i + 1 \in 1 .. Len(q) /\ j + 1 \in 1 .. Len(q) BY <1>0
    <3>2. q[i + 1] = q[j + 1] BY <1>1, <2>1
    <3>3. i + 1 = j + 1 BY <1>5, <3>1, <3>2 DEF Distinct
    <3> QED BY <3>3
  <2>2. ASSUME NEW i \in 1 .. Len(q) - 1, q[1] = h[i] PROVE FALSE
    <3>1. i + 1 \in 1 .. Len(q) /\ 1 \in 1 .. Len(q) /\ q[1] = q[i + 1] BY <1>0, <1>1, <2>2
    <3>2. i + 1 = 1 BY <1>5, <3>1 DEF Distinct
    <3> QED BY <3>2
  <2> QED BY <1>1, <1>2, <2>1, <2>2 DEF Distinct
<1>6. ASSUME prio \in [Thread -> Nat], ByPrio(q), NEW t \in Range(q)
      PROVE  prio[q[1]] <= prio[t]
  <2>1. PICK i \in 1 .. Len(q) : t = q[i] BY <1>3, <1>6
  <2>2. CASE i = 1 BY <1>0, <1>6, <2>1, <2>2
  <2>3. CASE i > 1
    <3>1. 1 \in 1 .. Len(q) BY <1>0
    <3> QED BY <1>6, <2>1, <2>3, <3>1 DEF ByPrio
  <2> QED BY <1>0, <2>2, <2>3
<1> QED BY <1>0, <1>1, <1>4, <1>5, <1>6 DEF h

\* Sorting moves threads about and keeps the older of one priority in front.
LEMMA SortedIs ==
    ASSUME prio \in [Thread -> Nat], NEW q \in Seq(Thread)
    PROVE  /\ Sorted(q) \in Seq(Thread)
           /\ Len(Sorted(q)) = Len(q)
           /\ Range(Sorted(q)) = Range(q)
           /\ Sorted(q) = <<>> <=> q = <<>>
           /\ Distinct(q) => Distinct(Sorted(q))
           /\ ByPriority => ByPrio(Sorted(q))
           /\ ~ByPriority => Sorted(q) = q
           /\ Older(q) => Older(Sorted(q))
<1>1. CASE ~ByPriority
  <2>1. Sorted(q) = q BY <1>1 DEF Sorted
  <2> QED BY <1>1, <2>1
<1>2. CASE ByPriority
  <2> DEFINE s == Sorted(q)
  <2>1. PICK w : Stably(s, q, Len(q), w) BY <1>2, SortedStably
  <2> HIDE DEF s
  <2>2. Len(q) \in Nat /\ \A i \in 1 .. Len(q) : q[i] \in Thread OBVIOUS
  <2>3. /\ w \in [1 .. Len(q) -> 1 .. Len(q)]
        /\ \A i \in 1 .. Len(q) : s[i] = q[w[i]]
    BY <2>1 DEF Stably
  <2>4. s \in Seq(Thread) /\ Len(s) = Len(q)
    <3>1. s = [i \in 1 .. Len(q) |-> q[w[i]]] BY <2>1 DEF Stably
    <3>2. \A i \in 1 .. Len(q) : q[w[i]] \in Thread BY <2>2, <2>3
    <3>3. s \in [1 .. Len(q) -> Thread] BY <3>1, <3>2
    <3>4. PICK n \in Nat : n = Len(q) BY <2>2
    <3>5. s \in Seq(Thread) BY <3>3, <3>4
    <3>6. DOMAIN s = 1 .. n BY <3>3, <3>4
    <3>7. Len(s) = n BY <3>4, <3>5, <3>6
    <3> QED BY <3>4, <3>5, <3>7
  <2>5. Range(s) = {s[i] : i \in 1 .. Len(q)} /\ Range(q) = {q[i] : i \in 1 .. Len(q)}
    BY <2>4, RangeIs
  <2>6. Range(s) = Range(q)
    <3>1. \A k \in 1 .. Len(q) : \E i \in 1 .. Len(q) : w[i] = k BY <2>1 DEF Stably
    <3>2. ASSUME NEW i \in 1 .. Len(q) PROVE s[i] \in Range(q)
      <4>1. w[i] \in 1 .. Len(q) /\ s[i] = q[w[i]] BY <2>3
      <4> QED BY <2>5, <4>1
    <3>3. ASSUME NEW k \in 1 .. Len(q) PROVE q[k] \in Range(s)
      <4>1. PICK i \in 1 .. Len(q) : w[i] = k BY <3>1
      <4>2. s[i] = q[k] BY <2>3, <4>1
      <4> QED BY <2>5, <4>2
    <3> QED BY <2>5, <3>2, <3>3
  <2>7. s = <<>> <=> q = <<>> BY <2>4
  <2>8. ASSUME Distinct(q) PROVE Distinct(s)
    <3>1. \A i, j \in 1 .. Len(q) : w[i] = w[j] => i = j BY <2>1 DEF Stably
    <3>2. ASSUME NEW i \in 1 .. Len(q), NEW j \in 1 .. Len(q), s[i] = s[j] PROVE i = j
      <4>0. w[i] \in 1 .. Len(q) /\ w[j] \in 1 .. Len(q) /\ q[w[i]] = q[w[j]] BY <2>3, <3>2
      <4>1. w[i] = w[j] BY <2>8, <4>0 DEF Distinct
      <4> QED BY <3>1, <4>1
    <3> QED BY <2>4, <3>2 DEF Distinct
  <2>9. ByPrio(s) BY <2>1 DEF Stably
  <2>10. ASSUME Older(q) PROVE Older(s)
    <3>1. ASSUME NEW i \in 1 .. Len(q), NEW j \in 1 .. Len(q), i < j, prio[s[i]] = prio[s[j]]
          PROVE  turn[s[j]] <= turn[s[i]]
      <4>1. w[i] < w[j] BY <2>1, <3>1 DEF Stably
      <4>2. prio[q[w[i]]] = prio[q[w[j]]] /\ w[i] \in 1 .. Len(q) /\ w[j] \in 1 .. Len(q)
        BY <2>3, <3>1
      <4>3. turn[q[w[j]]] <= turn[q[w[i]]] BY <2>10, <4>1, <4>2 DEF Older
      <4> QED BY <2>3, <4>3
    <3> QED BY <2>4, <3>1 DEF Older
  <2> QED BY <1>2, <2>4, <2>6, <2>7, <2>8, <2>9, <2>10 DEF s
<1> QED BY <1>1, <1>2

-----------------------------------------------------------------------------
\* The inductive invariant.
Phase == {"arrivals", "switch", "device", "transfer", "cpu"}

Typed ==
    /\ algo \in {"FIRST_COME_FIRST_SERVED", "ROUND_ROBIN", "NON_PREEMPTIVE_PRIORITY",
                 "PREEMPTIVE_PRIORITY"}
    /\ prio \in [Thread -> Nat]
    /\ {current_thread, new_cpu, cpu, io, displaced} \subseteq Thread \cup {None}
    /\ ready \in Seq(Thread) /\ ioq \in Seq(Thread)
    /\ arrived \subseteq Thread /\ finished \subseteq Thread
    /\ phase \in Phase /\ (phase = "transfer" => io # None)
    /\ turn \in [Thread -> Nat]
    /\ overrun \in BOOLEAN
    /\ ~Preemptive => displaced = None /\ ~overrun

\* The processor is free while threads are ready only between the arrival
\* that took it from one and the next sim_ready().
FreeOnlyEmpty ==
    current_thread = None => ready = <<>> \/ (ByPriority /\ phase = "arrivals")
TopRuns ==
    Preemptive /\ current_thread # None => \A t \in Range(ready) : prio[current_thread] <= prio[t]

\* The places a live thread can be in share no thread.
Apart ==
    ~overrun =>
       /\ Distinct(ready) /\ Distinct(ioq)
       /\ Range(ready) \cap Range(ioq) = {}
       /\ {current_thread, io} \cap (Range(ready) \cup Range(ioq)) = {}
       /\ current_thread = io => io = None
       /\ finished \subseteq arrived
       /\ Live = Range(ready) \cup Range(ioq) \cup ({current_thread, io} \ {None})

\* The simulator runs the current thread, or is about to.
Same == cpu = current_thread /\ new_cpu = None
Dispatched == new_cpu = current_thread /\ current_thread # None
Agree ==
    ~overrun =>
       /\ phase = "arrivals" =>
             \/ Same \/ Dispatched
             \/ ByPriority /\ current_thread = None /\ ready # <<>>
       /\ phase = "switch" => Same \/ Dispatched
       /\ phase \in {"device", "transfer"} => Same
       /\ phase = "cpu" => Same \/ (Dispatched /\ cpu \in {None, displaced})

\* Who is not in the queue has turn 0, but for one that round robin has just
\* taken from it; of two threads of one priority the one in front has been
\* ready for longer.  When the processor is free, who is next has turn 0.
Turns ==
    ~overrun =>
       /\ \A t \in Thread \ Range(ready) :
             turn[t] = 0 \/ (~ByPriority /\ t = current_thread /\ phase # "arrivals")
       /\ Older(ready)
       /\ phase = "arrivals" /\ ByPriority /\ current_thread = None =>
             \A t \in Range(ready) : turn[t] = 0 \/ \E u \in Range(ready) : prio[u] < prio[t]

\* Round robin: the ticks counted are at most those since the dispatch, but
\* for one by io_complete(), and with a place in the queue they bound the time
\* the thread there has been ready: a quantum for each that runs before it.
Ahead(p) == (Cardinality(Thread) - 1 - p) * quan
Quanta ==
    algo = "ROUND_ROBIN" =>
       /\ quan \in Nat \ {0} /\ ticks_on_cpu \in 0 .. quan /\ ran \in Nat
       /\ current_thread # None /\ ~byIo =>
             /\ ticks_on_cpu <= IF phase = "arrivals" THEN ran ELSE ran + 1
             /\ phase = "cpu" => cpu = current_thread
       /\ current_thread # None /\ phase # "arrivals" /\ (phase = "cpu" => ready # <<>>) =>
             ticks_on_cpu > 0
       /\ \A p \in 1 .. Len(ready) :
             turn[ready[p]] <= Ahead(p) + (IF phase = "arrivals" THEN ticks_on_cpu ELSE ticks_on_cpu - 1)

IInv == Typed /\ FreeOnlyEmpty /\ TopRuns /\ Apart /\ Agree /\ Turns /\ Quanta

\* The head of the sorted queue gets the processor and leaves the queue.
LEMMA HeadDispatched ==
    ASSUME Typed, DispatchHead, ready # <<>>
    PROVE  /\ current_thread' \in Thread /\ new_cpu' = current_thread'
           /\ current_thread' = Head(Sorted(ready)) /\ ready' = Tail(Sorted(ready))
           /\ ready' \in Seq(Thread)
           /\ Range(ready) = {current_thread'} \cup Range(ready')
           /\ Distinct(ready) => Distinct(ready') /\ current_thread' \notin Range(ready')
           /\ ByPriority => \A t \in Range(ready) : prio[current_thread'] <= prio[t]
           /\ ran' = 0 /\ byIo' = FALSE
           /\ ticks_on_cpu' = IF ByPriority THEN ticks_on_cpu ELSE 0
<1> DEFINE s == Sorted(ready)
<1>1. ready \in Seq(Thread) /\ prio \in [Thread -> Nat] BY DEF Typed
<1>2. /\ s \in Seq(Thread) /\ Range(s) = Range(ready) /\ s # <<>>
      /\ Distinct(ready) => Distinct(s)
      /\ ByPriority => ByPrio(s)
  BY <1>1, SortedIs
<1>3. /\ current_thread' = Head(s) /\ ready' = Tail(s) /\ new_cpu' = Head(s)
      /\ ran' = 0 /\ byIo' = FALSE
      /\ ticks_on_cpu' = IF ByPriority THEN ticks_on_cpu ELSE 0
  BY DEF DispatchHead, Dispatch
<1> HIDE DEF s
<1>4. /\ Head(s) \in Thread /\ Tail(s) \in Seq(Thread)
      /\ Range(s) = {Head(s)} \cup Range(Tail(s))
      /\ Distinct(s) => Distinct(Tail(s)) /\ Head(s) \notin Range(Tail(s))
      /\ ByPrio(s) => \A t \in Range(s) : prio[Head(s)] <= prio[t]
  BY <1>1, <1>2, TailIs
<1>5. Distinct(ready) => Distinct(ready') /\ current_thread' \notin Range(ready')
  BY <1>2, <1>3, <1>4
<1>6. ByPriority => \A t \in Range(ready) : prio[current_thread'] <= prio[t]
  BY <1>2, <1>3, <1>4
<1>7. Range(ready) = {current_thread'} \cup Range(ready') BY <1>2, <1>3, <1>4
<1>8. current_thread' = Head(Sorted(ready)) /\ ready' = Tail(Sorted(ready)) BY <1>3 DEF s
<1> QED BY <1>3, <1>4, <1>5, <1>6, <1>7, <1>8

\* A thread joins the sorted queue.
LEMMA EnqueuedSorted ==
    ASSUME prio \in [Thread -> Nat], NEW q \in Seq(Thread), NEW t \in Thread
    PROVE  /\ Sorted(Enqueue(q, t)) \in Seq(Thread)
           /\ Range(Sorted(Enqueue(q, t))) = Range(q) \cup {t}
           /\ Distinct(q) /\ t \notin Range(q) => Distinct(Sorted(Enqueue(q, t)))
           /\ Sorted(Enqueue(q, t)) # <<>>
<1>1. /\ Append(q, t) \in Seq(Thread) /\ Append(q, t) # <<>>
      /\ Range(Append(q, t)) = Range(q) \cup {t}
      /\ Distinct(q) /\ t \notin Range(q) => Distinct(Append(q, t))
  BY AppendIs
<1>2. QED BY <1>1, SortedIs DEF Enqueue

\* Round robin's queue as the current thread goes to its back and its head,
\* which is another thread, gets the processor.
LEMMA Rotated ==
    ASSUME NEW q \in Seq(Thread), q # <<>>, NEW t \in Thread
    PROVE  LET b == Enqueue(q, t)
           IN  /\ Head(b) = q[1] /\ Head(b) \in Range(q)
               /\ Tail(b) \in Seq(Thread) /\ Tail(b) # <<>>
               /\ Len(Tail(b)) = Len(q)
               /\ \A i \in 1 .. Len(q) - 1 : Tail(b)[i] = q[i + 1]
               /\ Tail(b)[Len(q)] = t
               /\ Range(q) \cup {t} = {Head(b)} \cup Range(Tail(b))
               /\ Distinct(q) /\ t \notin Range(q) =>
                     Distinct(Tail(b)) /\ Head(b) \notin Range(Tail(b))
<1> DEFINE b == Append(q, t)
<1>0. Len(q) \in Nat /\ Len(q) >= 1 /\ q[1] \in Range(q)
  <2>1. Len(q) \in Nat /\ Len(q) >= 1 OBVIOUS
  <2>2. Range(q) = {q[i] : i \in 1 .. Len(q)} BY RangeIs
  <2>3. 1 \in 1 .. Len(q) BY <2>1
  <2> QED BY <2>1, <2>2, <2>3
<1>1. /\ b \in Seq(Thread) /\ Len(b) = Len(q) + 1 /\ b # <<>>
      /\ \A i \in 1 .. Len(q) : b[i] = q[i]
      /\ b[Len(q) + 1] = t
      /\ Range(b) = Range(q) \cup {t}
      /\ Distinct(q) /\ t \notin Range(q) => Distinct(b)
  BY AppendIs
<1> HIDE DEF b
<1>2. /\ Head(b) = b[1]
      /\ Tail(b) \in Seq(Thread) /\ Len(Tail(b)) = Len(b) - 1
      /\ \A i \in 1 .. Len(b) - 1 : Tail(b)[i] = b[i + 1]
      /\ Range(b) = {Head(b)} \cup Range(Tail(b))
      /\ Distinct(b) => Distinct(Tail(b)) /\ Head(b) \notin Range(Tail(b))
  BY <1>1, TailIs
<1>3. Head(b) = q[1] BY <1>0, <1>1, <1>2
<1>4. Len(Tail(b)) = Len(q) /\ Tail(b) # <<>> BY <1>0, <1>1, <1>2
<1>5. \A i \in 1 .. Len(q) - 1 : Tail(b)[i] = q[i + 1] BY <1>0, <1>1, <1>2
<1>6. Tail(b)[Len(q)] = t BY <1>0, <1>1, <1>2
<1> QED BY <1>0, <1>1, <1>2, <1>3, <1>4, <1>5, <1>6 DEF b, Enqueue

-----------------------------------------------------------------------------
\* The types.
LEMMA InitTyped == Init => Typed
<1> SUFFICES ASSUME Init PROVE Typed
  OBVIOUS
<1>1. prio \in [Thread -> Nat]
  <2>1. prio \in Priority \/ prio = [t \in Thread |-> 0] BY DEF Init
  <2> QED BY <2>1, PriorityAssumption
<1>2. turn \in [Thread -> Nat] BY DEF Init
<1>3. ready \in Seq(Thread) /\ ioq \in Seq(Thread) BY DEF Init
<1>4. /\ {current_thread, new_cpu, cpu, io, displaced} \subseteq Thread \cup {None}
      /\ arrived \subseteq Thread /\ finished \subseteq Thread
      /\ phase \in Phase /\ phase # "transfer"
      /\ displaced = None
  BY DEF Init, Phase
<1>5. overrun = FALSE BY DEF Init
<1>6. algo \in {"FIRST_COME_FIRST_SERVED", "ROUND_ROBIN", "NON_PREEMPTIVE_PRIORITY",
               "PREEMPTIVE_PRIORITY"}
  BY DEF Init
<1> QED BY <1>1, <1>2, <1>3, <1>4, <1>5, <1>6 DEF Typed

LEMMA TypedStep ==
    ASSUME Typed, FreeOnlyEmpty, Next
    PROVE  Typed'
<1>0. /\ prio \in [Thread -> Nat] /\ ready \in Seq(Thread) /\ ioq \in Seq(Thread)
      /\ arrived \subseteq Thread /\ finished \subseteq Thread
      /\ current_thread \in Thread \cup {None}
  BY DEF Typed
<1>1. algo' = algo /\ prio' = prio /\ (Preemptive' <=> Preemptive)
  BY DEF Next, Arrive, Ready, Switch, Device, Transfer, Idle, Cpu, Tick, sys_exec, sim_ready,
         io_starting, io_complete, sys_read, sys_write, sys_exit, sched, Preemptive
<1>2. ready' \in Seq(Thread) /\ {current_thread, new_cpu}' \subseteq Thread \cup {None}
  <2>1. ASSUME NEW t \in Thread, Arrive(t)
        PROVE  ready' \in Seq(Thread) /\ {current_thread, new_cpu}' \subseteq Thread \cup {None}
    <3>1. CASE ByPriority /\ Beats(t)
      <4>1. current_thread \in Thread BY <1>0, <3>1 DEF Beats
      <4>2. PutBack \in Seq(Thread) BY <1>0, <4>1, AppendIs DEF PutBack, Enqueue
      <4>3. Sorted(Enqueue(PutBack, t)) \in Seq(Thread) BY <1>0, <4>2, EnqueuedSorted
      <4> QED BY <2>1, <3>1, <4>3 DEF Arrive, sys_exec, Typed
    <3>2. CASE ByPriority /\ ~Beats(t)
      <4>1. Sorted(Enqueue(ready, t)) \in Seq(Thread) BY <1>0, EnqueuedSorted
      <4> QED BY <2>1, <3>2, <4>1 DEF Arrive, sys_exec, Typed
    <3>3. CASE ~ByPriority
      <4>1. Enqueue(ready, t) \in Seq(Thread) BY <1>0, AppendIs DEF Enqueue
      <4> QED BY <2>1, <3>3, <4>1 DEF Arrive, sys_exec, Typed, Dispatch
    <3> QED BY <3>1, <3>2, <3>3
  <2>2. CASE Ready
    <3>1. CASE DispatchHead
      <4>1. CASE ready = <<>> BY <3>1, <4>1 DEF DispatchHead, Typed
      <4>2. CASE ready # <<>> BY <3>1, <4>2, HeadDispatched
      <4> QED BY <4>1, <4>2
    <3>2. CASE algo = "ROUND_ROBIN" /\ ready # <<>> /\ QuantumOver
      <4>1. current_thread \in Thread BY <1>0, <3>2 DEF FreeOnlyEmpty, ByPriority
      <4>2. Tail(PutBack) \in Seq(Thread) /\ Head(PutBack) \in Thread
        BY <1>0, <3>2, <4>1, Rotated, RangeIs DEF PutBack
      <4> QED BY <2>2, <3>2, <4>2 DEF Ready, sim_ready, Dispatch, ByPriority
    <3>3. CASE UNCHANGED <<current_thread, new_cpu, ready>> BY <3>3 DEF Typed
    <3> QED BY <2>2, <3>1, <3>2, <3>3 DEF Ready, sim_ready
  <2>3. CASE Switch BY <2>3 DEF Switch, sched, Typed
  <2>4. CASE Device BY <2>4 DEF Device, io_starting, sched, Typed
  <2>5. CASE Transfer
    <3>1. CASE UNCHANGED <<sched, new_cpu>> BY <3>1 DEF sched, Typed
    <3>2. CASE io_complete(io)
      <4>1. io \in Thread BY <2>5 DEF Transfer, Typed
      <4>2. CASE current_thread = None BY <1>0, <3>2, <4>1, <4>2 DEF io_complete, Dispatch, Beats
      <4>3. CASE current_thread # None
        <5>1. PutBack \in Seq(Thread) BY <1>0, <4>3, AppendIs DEF PutBack, Enqueue
        <5>2. Sorted(Enqueue(ready, io)) \in Seq(Thread) BY <1>0, <4>1, EnqueuedSorted
        <5> QED BY <3>2, <4>1, <4>3, <5>1, <5>2 DEF io_complete, Dispatch, Typed
      <4> QED BY <4>2, <4>3
    <3> QED BY <2>5, <3>1, <3>2 DEF Transfer
  <2>6. CASE Idle BY <2>6 DEF Idle, sched, Typed
  <2>7. CASE Cpu
    <3>1. CASE UNCHANGED <<sched, new_cpu>> BY <3>1 DEF sched, Typed
    <3>2. CASE DispatchHead
      <4>1. CASE ready = <<>> BY <3>2, <4>1 DEF DispatchHead, Typed
      <4>2. CASE ready # <<>> BY <3>2, <4>2, HeadDispatched
      <4> QED BY <4>1, <4>2
    <3> QED BY <2>7, <3>1, <3>2 DEF Cpu, sys_read, sys_write, sys_exit
  <2> QED BY <2>1, <2>2, <2>3, <2>4, <2>5, <2>6, <2>7 DEF Next
<1>3. ioq' \in Seq(Thread)
  <2>1. CASE Device
    <3>1. ioq # <<>> => Tail(ioq) \in Seq(Thread) BY <1>0, TailIs
    <3> QED BY <1>0, <2>1, <3>1 DEF Device
  <2>2. CASE Cpu
    <3>1. cpu \in Thread BY <2>2 DEF Cpu, Typed
    <3>2. Append(ioq, cpu) \in Seq(Thread) BY <1>0, <3>1, AppendIs
    <3> QED BY <1>0, <2>2, <3>2 DEF Cpu
  <2> QED BY <1>0, <2>1, <2>2 DEF Next, Arrive, Ready, Switch, Transfer, Idle
<1>4. io' \in Thread \cup {None} /\ phase' \in Phase /\ (phase' = "transfer" => io' # None)
  <2>1. CASE Device BY <1>0, <2>1, TailIs, NoneAssumption DEF Device, Phase, Typed
  <2> QED BY <2>1 DEF Next, Arrive, Ready, Switch, Transfer, Idle, Cpu, Tick, Phase, Typed
<1>5. {cpu, displaced}' \subseteq Thread \cup {None} /\ overrun' \in BOOLEAN
      /\ (~Preemptive => displaced' = None /\ ~overrun')
  <2>1. CASE Transfer
    BY <2>1 DEF Transfer, io_complete, Beats, Typed
  <2>2. CASE Cpu
    <3>1. cpu \in Thread /\ displaced' = None BY <2>2 DEF Cpu, Tick, Typed
    <3>2. cpu' \in Thread \cup {None} BY <2>2, <3>1 DEF Cpu
    <3>3. CASE overrun' = overrun BY <3>1, <3>2, <3>3 DEF Typed
    <3>4. CASE overrun' = (overrun \/ cpu = displaced)
      <4>1. overrun' \in BOOLEAN BY <3>4
      <4>2. ~Preemptive => ~overrun' BY <3>1, <3>4, NoneAssumption DEF Typed
      <4> QED BY <3>1, <3>2, <4>1, <4>2
    <3> QED BY <2>2, <3>3, <3>4 DEF Cpu
  <2> QED BY <2>1, <2>2 DEF Next, Arrive, Ready, Switch, Device, Idle, Tick, history, Typed
<1>6. arrived' \subseteq Thread /\ finished' \subseteq Thread
  BY <1>0 DEF Next, Arrive, Ready, Switch, Device, Transfer, Idle, Cpu, Tick, Typed
<1>7. turn' \in [Thread -> Nat]
  <2>1. turn \in [Thread -> Nat] BY DEF Typed
  <2>2. CASE turn' = [u \in Thread |-> IF u \in Range(ready) /\ u \in Range(ready')
                                 THEN turn[u] + 1 ELSE 0]
    BY <2>1, <2>2
  <2> QED BY <2>1, <2>2 DEF Next, Arrive, Ready, Switch, Device, Transfer, Idle, Cpu, Tick, history
<1>8. algo' \in {"FIRST_COME_FIRST_SERVED", "ROUND_ROBIN", "NON_PREEMPTIVE_PRIORITY",
                 "PREEMPTIVE_PRIORITY"} /\ prio' \in [Thread -> Nat]
  BY <1>1 DEF Typed
<1> QED BY <1>1, <1>2, <1>3, <1>4, <1>5, <1>6, <1>7, <1>8 DEF Typed

-----------------------------------------------------------------------------
\* Who has the processor.
LEMMA FreeOnlyEmptyStep ==
    ASSUME Typed, FreeOnlyEmpty, Next
    PROVE  FreeOnlyEmpty'
<1>0. /\ prio \in [Thread -> Nat] /\ ready \in Seq(Thread)
      /\ current_thread \in Thread \cup {None}
  BY DEF Typed
<1>1. ASSUME NEW t \in Thread, Arrive(t) PROVE FreeOnlyEmpty'
  <2>1. phase' = "arrivals" /\ (ByPriority' <=> ByPriority)
    BY <1>1 DEF Arrive, sys_exec, ByPriority
  <2>2. CASE ByPriority BY <2>1, <2>2 DEF FreeOnlyEmpty
  <2>3. CASE ~ByPriority
    <3>1. current_thread' # None
      BY <1>1, <2>3, NoneAssumption DEF Arrive, sys_exec, Dispatch
    <3> QED BY <3>1 DEF FreeOnlyEmpty
  <2> QED BY <2>2, <2>3
<1>2. CASE DispatchHead
  <2>1. CASE ready = <<>> BY <1>2, <2>1 DEF DispatchHead, FreeOnlyEmpty
  <2>2. CASE ready # <<>>
    <3>1. current_thread' \in Thread BY <1>2, <2>2, HeadDispatched
    <3> QED BY <3>1, NoneAssumption DEF FreeOnlyEmpty
  <2> QED BY <2>1, <2>2
<1>3. CASE phase # "arrivals" /\ UNCHANGED <<current_thread, ready>>
  BY <1>3 DEF FreeOnlyEmpty
<1>4. CASE Ready
  <2>1. CASE algo = "ROUND_ROBIN" /\ ready # <<>> /\ QuantumOver
    <3>1. current_thread \in Thread BY <1>0, <2>1 DEF FreeOnlyEmpty, ByPriority
    <3>2. Head(PutBack) \in Thread BY <1>0, <2>1, <3>1, Rotated, RangeIs DEF PutBack
    <3>3. current_thread' = Head(PutBack)
      BY <1>4, <2>1 DEF Ready, sim_ready, Dispatch, ByPriority
    <3> QED BY <3>2, <3>3, NoneAssumption DEF FreeOnlyEmpty
  <2>2. CASE UNCHANGED <<current_thread, ready>> /\ ~(ByPriority /\ current_thread = None)
    BY <2>2 DEF FreeOnlyEmpty
  <2> QED BY <1>2, <1>4, <2>1, <2>2 DEF Ready, sim_ready, ByPriority
<1>5. CASE Transfer
  <2>1. phase = "transfer" /\ io \in Thread BY <1>5 DEF Transfer, Typed
  <2>2. CASE io_complete(io)
    <3>1. current_thread' # None
      BY <2>1, <2>2, NoneAssumption DEF io_complete, Dispatch
    <3> QED BY <3>1 DEF FreeOnlyEmpty
  <2> QED BY <1>3, <1>5, <2>1, <2>2 DEF Transfer, sched
<1>6. CASE Cpu
  <2>1. phase = "cpu" BY <1>6 DEF Cpu
  <2> QED BY <1>2, <1>3, <1>6, <2>1 DEF Cpu, sys_read, sys_write, sys_exit, sched
<1>7. CASE Switch \/ Device \/ Idle
  BY <1>3, <1>7 DEF Switch, Device, Idle, io_starting, sched
<1> QED BY <1>1, <1>4, <1>5, <1>6, <1>7 DEF Next

LEMMA TopRunsStep ==
    ASSUME Typed, FreeOnlyEmpty, TopRuns, Next
    PROVE  TopRuns'
<1>0. /\ prio \in [Thread -> Nat] /\ ready \in Seq(Thread)
      /\ current_thread \in Thread \cup {None}
  BY DEF Typed
<1>1. algo' = algo /\ prio' = prio /\ (Preemptive' <=> Preemptive)
  BY DEF Next, Arrive, Ready, Switch, Device, Transfer, Idle, Cpu, Tick, sys_exec, sim_ready,
         io_starting, io_complete, sys_read, sys_write, sys_exit, sched, Preemptive
<1> SUFFICES ASSUME Preemptive, current_thread' # None, NEW u \in Range(ready')
             PROVE  prio[current_thread'] <= prio[u]
  BY <1>1 DEF TopRuns
<1>2. ByPriority BY DEF Preemptive, ByPriority
<1>3. ASSUME NEW t \in Thread, ~Beats(t), current_thread # None, current_thread' = current_thread,
             ready' = Sorted(Enqueue(ready, t))
      PROVE  prio[current_thread'] <= prio[u]
  <2>1. Range(ready') = Range(ready) \cup {t} BY <1>0, <1>3, EnqueuedSorted
  <2>2. prio[current_thread] <= prio[t] BY <1>0, <1>3 DEF Beats
  <2> QED BY <1>3, <2>1, <2>2 DEF TopRuns
<1>4. CASE UNCHANGED <<current_thread, ready>> BY <1>4 DEF TopRuns
<1>5. CASE DispatchHead
  <2>1. ready # <<>> BY <1>5 DEF DispatchHead
  <2>2. /\ \A v \in Range(ready) : prio[current_thread'] <= prio[v]
        /\ Range(ready) = {current_thread'} \cup Range(ready')
    BY <1>2, <1>5, <2>1, HeadDispatched
  <2> QED BY <2>2
<1>6. ASSUME NEW t \in Thread, Arrive(t) PROVE prio[current_thread'] <= prio[u]
  <2>1. sys_exec(t) BY <1>6 DEF Arrive
  <2>2. ~Beats(t) /\ UNCHANGED current_thread /\ ready' = Sorted(Enqueue(ready, t))
    BY <1>2, <2>1 DEF sys_exec
  <2> QED BY <1>3, <2>2
<1>7. CASE Ready
  BY <1>2, <1>4, <1>5, <1>7 DEF Ready, sim_ready, ByPriority
<1>8. CASE Transfer
  <2>1. io \in Thread /\ phase = "transfer" BY <1>8 DEF Transfer, Typed
  <2>2. CASE current_thread = None /\ io_complete(io)
    <3>1. ready = <<>> BY <2>1, <2>2 DEF FreeOnlyEmpty
    <3>2. ready' = <<>> BY <2>2, <3>1 DEF io_complete, Beats
    <3> QED BY <3>2 DEF Range
  <2>3. CASE Beats(io) /\ io_complete(io)
    <3>1. /\ current_thread \in Thread /\ prio[io] < prio[current_thread]
          /\ ready' = Append(ready, current_thread) /\ current_thread' = io
      BY <1>0, <2>3 DEF io_complete, Beats, Dispatch, PutBack, Enqueue
    <3>2. Range(ready') = Range(ready) \cup {current_thread} BY <1>0, <3>1, AppendIs
    <3>3. prio[io] \in Nat /\ prio[current_thread] \in Nat /\ prio[u] \in Nat
      <4>1. Range(ready) \subseteq Thread BY <1>0, RangeIs
      <4> QED BY <1>0, <2>1, <3>1, <3>2, <4>1
    <3>4. prio[current_thread] <= prio[u]
      <4>1. CASE u = current_thread BY <3>3, <4>1
      <4>2. CASE u \in Range(ready) BY <3>1, <4>2, NoneAssumption DEF TopRuns
      <4> QED BY <3>2, <4>1, <4>2
    <3> QED BY <3>1, <3>3, <3>4
  <2>4. CASE current_thread # None /\ ~Beats(io) /\ io_complete(io)
    BY <1>3, <2>1, <2>4 DEF io_complete
  <2>5. CASE UNCHANGED sched BY <1>4, <2>5 DEF sched
  <2> QED BY <1>8, <2>2, <2>3, <2>4, <2>5 DEF Transfer
<1>9. CASE Cpu
  BY <1>4, <1>5, <1>9 DEF Cpu, sys_read, sys_write, sys_exit, sched
<1>10. CASE Switch \/ Device \/ Idle
  BY <1>4, <1>10 DEF Switch, Device, Idle, io_starting, sched
<1> QED BY <1>6, <1>7, <1>8, <1>9, <1>10 DEF Next

LEMMA AgreeStep ==
    ASSUME Typed, FreeOnlyEmpty, Agree, Next
    PROVE  Agree'
<1>0. /\ prio \in [Thread -> Nat] /\ ready \in Seq(Thread)
      /\ current_thread \in Thread \cup {None}
  BY DEF Typed
<1> SUFFICES ASSUME ~overrun' PROVE Agree'
  BY DEF Agree
<1>1. ~overrun
  BY DEF Next, Arrive, Ready, Switch, Device, Transfer, Idle, Cpu, history
<1>2. ASSUME NEW t \in Thread, Arrive(t) PROVE Agree'
  <2>1. /\ phase = "arrivals" /\ phase' = "arrivals" /\ cpu' = cpu /\ sys_exec(t)
        /\ (ByPriority' <=> ByPriority)
    BY <1>2 DEF Arrive, sys_exec, ByPriority
  <2>2. Same \/ Dispatched \/ (ByPriority /\ current_thread = None /\ ready # <<>>)
    BY <1>1, <2>1 DEF Agree
  <2>3. Same' \/ Dispatched' \/ (ByPriority /\ current_thread' = None /\ ready' # <<>>)
    <3>1. CASE ByPriority /\ Beats(t)
      <4>1. PutBack \in Seq(Thread) BY <1>0, <3>1, AppendIs DEF Beats, PutBack, Enqueue
      <4>2. Sorted(Enqueue(PutBack, t)) # <<>> BY <1>0, <4>1, EnqueuedSorted
      <4> QED BY <2>1, <3>1, <4>2 DEF sys_exec
    <3>2. CASE ByPriority /\ ~Beats(t)
      <4>1. Sorted(Enqueue(ready, t)) # <<>> BY <1>0, EnqueuedSorted
      <4> QED BY <2>1, <2>2, <3>2, <4>1 DEF sys_exec, Same, Dispatched
    <3>3. CASE ~ByPriority
      BY <2>1, <2>2, <3>3, NoneAssumption DEF sys_exec, Dispatch, Same, Dispatched
    <3> QED BY <3>1, <3>2, <3>3
  <2> QED BY <2>1, <2>3 DEF Agree
<1>3. CASE Ready
  <2>1. /\ phase = "arrivals" /\ phase' = "switch" /\ cpu' = cpu /\ sim_ready
    BY <1>3 DEF Ready
  <2>2. Same \/ Dispatched \/ (ByPriority /\ current_thread = None /\ ready # <<>>)
    BY <1>1, <2>1 DEF Agree
  <2>3. Same' \/ Dispatched'
    <3>1. CASE algo = "ROUND_ROBIN" /\ ready # <<>> /\ QuantumOver
      <4>1. current_thread \in Thread BY <1>0, <3>1 DEF FreeOnlyEmpty, ByPriority
      <4>2. Head(PutBack) \in Thread BY <1>0, <3>1, <4>1, Rotated, RangeIs DEF PutBack
      <4>3. current_thread' = Head(PutBack) /\ new_cpu' = Head(PutBack)
        BY <2>1, <3>1 DEF sim_ready, Dispatch, ByPriority
      <4> QED BY <4>2, <4>3, NoneAssumption DEF Dispatched
    <3>2. CASE UNCHANGED <<current_thread, new_cpu>> /\ ~(ByPriority /\ current_thread = None)
      BY <2>1, <2>2, <3>2 DEF Same, Dispatched
    <3>3. CASE DispatchHead /\ ready = <<>> /\ current_thread = None
      BY <2>1, <2>2, <3>3 DEF DispatchHead, Same, Dispatched
    <3>4. CASE DispatchHead /\ ready # <<>>
      <4>1. current_thread' \in Thread /\ new_cpu' = current_thread' BY <3>4, HeadDispatched
      <4> QED BY <4>1, NoneAssumption DEF Dispatched
    <3> QED BY <2>1, <3>1, <3>2, <3>3, <3>4 DEF sim_ready, ByPriority
  <2> QED BY <2>1, <2>3 DEF Agree
<1>4. CASE Switch
  BY <1>1, <1>4 DEF Switch, Agree, Same, Dispatched, sched
<1>5. CASE Device
  <2>1. phase = "device" /\ phase' \in {"transfer", "cpu"} BY <1>5 DEF Device
  <2>2. UNCHANGED <<current_thread, new_cpu, cpu>> BY <1>5 DEF Device, io_starting, sched
  <2> QED BY <1>1, <2>1, <2>2 DEF Agree, Same
<1>6. CASE Transfer
  <2>1. /\ phase = "transfer" /\ phase' = "cpu" /\ cpu' = cpu /\ io \in Thread
    BY <1>6 DEF Transfer, Typed
  <2>2. Same BY <1>1, <2>1 DEF Agree
  <2>3. Same' \/ (Dispatched' /\ cpu' \in {None, displaced'})
    <3>1. CASE UNCHANGED <<current_thread, new_cpu>> BY <2>1, <2>2, <3>1 DEF Same
    <3>2. CASE io_complete(io)
      BY <2>1, <2>2, <3>1, <3>2, NoneAssumption DEF io_complete, Dispatch, Same, Dispatched
    <3> QED BY <1>6, <3>1, <3>2 DEF Transfer, sched
  <2> QED BY <2>1, <2>3 DEF Agree
<1>7. CASE Idle
  <2>1. phase = "cpu" /\ phase' = "arrivals" BY <1>7 DEF Idle, Tick
  <2>2. UNCHANGED <<current_thread, new_cpu, cpu>> BY <1>7 DEF Idle, sched
  <2> QED BY <1>1, <2>1, <2>2 DEF Agree, Same, Dispatched
<1>8. CASE Cpu
  <2>1. phase = "cpu" /\ phase' = "arrivals" /\ cpu # None BY <1>8 DEF Cpu, Tick
  <2>2. Same \/ (Dispatched /\ cpu \in {None, displaced}) BY <1>1, <2>1 DEF Agree
  <2>3. CASE UNCHANGED <<current_thread, new_cpu, cpu>>
    BY <2>1, <2>2, <2>3 DEF Agree, Same, Dispatched
  <2>4. CASE DispatchHead /\ cpu' = None /\ overrun' = (overrun \/ cpu = displaced)
    <3>1. Same BY <2>1, <2>2, <2>4
    <3>2. CASE ready = <<>>
      BY <2>1, <2>4, <3>1, <3>2 DEF DispatchHead, Agree, Same
    <3>3. CASE ready # <<>>
      <4>1. current_thread' \in Thread /\ new_cpu' = current_thread' BY <2>4, <3>3, HeadDispatched
      <4>2. Dispatched' BY <4>1, NoneAssumption DEF Dispatched
      <4> QED BY <2>1, <4>2 DEF Agree
    <3> QED BY <3>2, <3>3
  <2> QED BY <1>8, <2>3, <2>4 DEF Cpu, sys_read, sys_write, sys_exit, sched
<1> QED BY <1>2, <1>3, <1>4, <1>5, <1>6, <1>7, <1>8 DEF Next

-----------------------------------------------------------------------------
\* The places of the threads.
LEMMA ApartStep ==
    ASSUME Typed, FreeOnlyEmpty, Apart, Agree, Next
    PROVE  Apart'
<1>0. /\ prio \in [Thread -> Nat] /\ ready \in Seq(Thread) /\ ioq \in Seq(Thread)
      /\ {current_thread, io} \subseteq Thread \cup {None}
      /\ Range(ready) \subseteq Thread /\ Range(ioq) \subseteq Thread
  BY RangeIs DEF Typed
<1> SUFFICES ASSUME ~overrun' PROVE Apart'
  BY DEF Apart
<1>1. ~overrun
  BY DEF Next, Arrive, Ready, Switch, Device, Transfer, Idle, Cpu, history
<1>2. /\ Distinct(ready) /\ Distinct(ioq)
      /\ Range(ready) \cap Range(ioq) = {}
      /\ {current_thread, io} \cap (Range(ready) \cup Range(ioq)) = {}
      /\ current_thread = io => io = None
      /\ finished \subseteq arrived
      /\ arrived \ finished = Range(ready) \cup Range(ioq) \cup ({current_thread, io} \ {None})
  BY <1>1 DEF Apart, Live
\* A step that leaves the queue, the current thread and the device as they are.
<1>3. CASE UNCHANGED <<ready, ioq, current_thread, io, arrived, finished>>
  <2>1. Range(ready') = Range(ready) /\ Range(ioq') = Range(ioq) BY <1>3
  <2>2. Distinct(ready') /\ Distinct(ioq') BY <1>2, <1>3
  <2> QED BY <1>2, <1>3, <2>1, <2>2 DEF Apart, Live
<1>4. ASSUME NEW t \in Thread, Arrive(t) PROVE Apart'
  <2>1. /\ t \notin arrived /\ arrived' = arrived \cup {t} /\ sys_exec(t)
        /\ UNCHANGED <<ioq, io, finished>>
    BY <1>4 DEF Arrive
  <2>2. t \notin Range(ready) \cup Range(ioq) \cup {current_thread, io}
    BY <1>2, <2>1, NoneAssumption
  <2>3. CASE /\ Distinct(ready') /\ current_thread' = None /\ current_thread # None
             /\ Range(ready') = Range(ready) \cup {current_thread, t}
    <3>1. Range(ioq') = Range(ioq) /\ Distinct(ioq') BY <1>2, <2>1
    <3> QED BY <1>0, <1>2, <2>1, <2>2, <2>3, <3>1, NoneAssumption DEF Apart, Live
  <2>4. CASE /\ Distinct(ready') /\ current_thread' = current_thread
             /\ Range(ready') = Range(ready) \cup {t}
    <3>1. Range(ioq') = Range(ioq) /\ Distinct(ioq') BY <1>2, <2>1
    <3> QED BY <1>0, <1>2, <2>1, <2>2, <2>4, <3>1, NoneAssumption DEF Apart, Live
  <2>5. CASE /\ current_thread = None /\ current_thread' = t /\ ready' = ready
    <3>1. Range(ioq') = Range(ioq) /\ Distinct(ioq') /\ Range(ready') = Range(ready) /\ Distinct(ready')
      BY <1>2, <2>1, <2>5
    <3> QED BY <1>0, <1>2, <2>1, <2>2, <2>5, <3>1, NoneAssumption DEF Apart, Live
  <2>6. CASE ByPriority /\ Beats(t)
    <3>1. current_thread \in Thread BY <1>0, <2>6 DEF Beats
    <3>2. /\ PutBack \in Seq(Thread) /\ Range(PutBack) = Range(ready) \cup {current_thread}
          /\ Distinct(PutBack)
      BY <1>0, <1>2, <3>1, AppendIs DEF PutBack, Enqueue
    <3>3. /\ Range(Sorted(Enqueue(PutBack, t))) = Range(PutBack) \cup {t}
          /\ Distinct(Sorted(Enqueue(PutBack, t)))
      BY <1>0, <2>2, <3>2, EnqueuedSorted
    <3>4. ready' = Sorted(Enqueue(PutBack, t)) /\ current_thread' = None
      BY <2>1, <2>6 DEF sys_exec
    <3> QED BY <2>3, <3>1, <3>2, <3>3, <3>4, NoneAssumption
  <2>7. CASE ByPriority /\ ~Beats(t)
    <3>1. /\ Range(Sorted(Enqueue(ready, t))) = Range(ready) \cup {t}
          /\ Distinct(Sorted(Enqueue(ready, t)))
      BY <1>0, <1>2, <2>2, EnqueuedSorted
    <3>2. ready' = Sorted(Enqueue(ready, t)) /\ current_thread' = current_thread
      BY <2>1, <2>7 DEF sys_exec
    <3> QED BY <2>4, <3>1, <3>2
  <2>8. CASE ~ByPriority /\ current_thread # None
    <3>1. Range(Append(ready, t)) = Range(ready) \cup {t} /\ Distinct(Append(ready, t))
      BY <1>0, <1>2, <2>2, AppendIs
    <3>2. ready' = Append(ready, t) /\ current_thread' = current_thread
      BY <2>1, <2>8 DEF sys_exec, Enqueue
    <3> QED BY <2>4, <3>1, <3>2
  <2>9. CASE ~ByPriority /\ current_thread = None
    <3>1. ready' = ready /\ current_thread' = t BY <2>1, <2>9 DEF sys_exec, Dispatch
    <3> QED BY <2>5, <2>9, <3>1
  <2> QED BY <2>6, <2>7, <2>8, <2>9
<1>5. CASE Ready
  <2>1. UNCHANGED <<ioq, io, arrived, finished>> /\ sim_ready BY <1>5 DEF Ready
  <2>2. Range(ioq') = Range(ioq) /\ Distinct(ioq') BY <1>2, <2>1
  <2>3. CASE algo = "ROUND_ROBIN" /\ ready # <<>> /\ QuantumOver
    <3>1. current_thread \in Thread BY <1>0, <2>3 DEF FreeOnlyEmpty, ByPriority
    <3>2. /\ Head(PutBack) \in Range(ready)
          /\ Range(ready) \cup {current_thread} = {Head(PutBack)} \cup Range(Tail(PutBack))
          /\ Distinct(Tail(PutBack)) /\ Head(PutBack) \notin Range(Tail(PutBack))
      BY <1>0, <1>2, <2>3, <3>1, Rotated DEF PutBack
    <3>3. current_thread' = Head(PutBack) /\ ready' = Tail(PutBack)
      BY <2>1, <2>3 DEF sim_ready, Dispatch, ByPriority
    <3>4. /\ current_thread' \in Range(ready) /\ Distinct(ready')
          /\ Range(ready) \cup {current_thread} = {current_thread'} \cup Range(ready')
          /\ current_thread' \notin Range(ready')
      BY <3>2, <3>3
    <3> QED BY <1>0, <1>2, <2>1, <2>2, <3>1, <3>4, NoneAssumption DEF Apart, Live
  <2>4. CASE UNCHANGED <<current_thread, ready>> BY <1>3, <2>1, <2>4
  <2>5. CASE DispatchHead /\ current_thread = None
    <3>1. CASE ready = <<>> BY <1>3, <2>1, <2>5, <3>1 DEF DispatchHead
    <3>2. CASE ready # <<>>
      <4>1. /\ current_thread' \in Thread /\ Distinct(ready')
            /\ Range(ready) = {current_thread'} \cup Range(ready')
            /\ current_thread' \notin Range(ready')
        BY <1>2, <2>5, <3>2, HeadDispatched
      <4> QED BY <1>0, <1>2, <2>1, <2>2, <2>5, <4>1, NoneAssumption DEF Apart, Live
    <3> QED BY <3>1, <3>2
  <2> QED BY <2>1, <2>3, <2>4, <2>5 DEF sim_ready
<1>6. CASE Device
  <2>1. UNCHANGED <<ready, current_thread, arrived, finished>>
    BY <1>6 DEF Device, io_starting, sched
  <2>2. CASE UNCHANGED <<io, ioq>> BY <1>3, <2>1, <2>2
  <2>3. CASE io = None /\ ioq # <<>> /\ io' = Head(ioq) /\ ioq' = Tail(ioq)
    <3>1. /\ Head(ioq) \in Thread /\ Distinct(Tail(ioq)) /\ Head(ioq) \notin Range(Tail(ioq))
          /\ Range(ioq) = {Head(ioq)} \cup Range(Tail(ioq))
      BY <1>0, <1>2, <2>3, TailIs
    <3>2. /\ io' \in Thread /\ Distinct(ioq') /\ io' \notin Range(ioq')
          /\ Range(ioq) = {io'} \cup Range(ioq')
      BY <2>3, <3>1
    <3>3. Range(ready') = Range(ready) /\ Distinct(ready') BY <1>2, <2>1
    <3> QED BY <1>0, <1>2, <2>1, <2>3, <3>2, <3>3, NoneAssumption DEF Apart, Live
  <2> QED BY <1>6, <2>2, <2>3 DEF Device
<1>7. CASE Transfer
  <2>1. /\ io \in Thread /\ UNCHANGED <<ioq, arrived, finished>>
    BY <1>7 DEF Transfer, Typed
  <2>2. Range(ioq') = Range(ioq) /\ Distinct(ioq') BY <1>2, <2>1
  <2>3. CASE UNCHANGED <<sched, io>> BY <1>3, <2>1, <2>3 DEF sched
  <2>4. CASE io_complete(io) /\ io' = None
    <3>1. CASE current_thread = None
      <4>1. ready' = ready /\ current_thread' = io
        BY <2>4, <3>1 DEF io_complete, Dispatch, Beats
      <4>2. Range(ready') = Range(ready) /\ Distinct(ready') BY <1>2, <4>1
      <4> QED BY <1>0, <1>2, <2>1, <2>2, <2>4, <3>1, <4>1, <4>2, NoneAssumption DEF Apart, Live
    <3>2. CASE Beats(io)
      <4>0. current_thread \in Thread BY <1>0, <3>2 DEF Beats
      <4>1. ready' = Append(ready, current_thread) /\ current_thread' = io
        BY <2>4, <3>2 DEF io_complete, Dispatch, Beats, PutBack, Enqueue
      <4>2. Range(ready') = Range(ready) \cup {current_thread} /\ Distinct(ready')
        BY <1>0, <1>2, <4>0, <4>1, AppendIs
      <4> QED BY <1>0, <1>2, <2>1, <2>2, <2>4, <4>0, <4>1, <4>2, NoneAssumption DEF Apart, Live
    <3>3. CASE current_thread # None /\ ~Beats(io)
      <4>1. ready' = Sorted(Enqueue(ready, io)) /\ current_thread' = current_thread
        BY <2>4, <3>3 DEF io_complete
      <4>2. Range(ready') = Range(ready) \cup {io} /\ Distinct(ready')
        BY <1>0, <1>2, <2>1, <4>1, EnqueuedSorted
      <4> QED BY <1>0, <1>2, <2>1, <2>2, <2>4, <4>1, <4>2, NoneAssumption DEF Apart, Live
    <3> QED BY <3>1, <3>2, <3>3
  <2> QED BY <1>7, <2>3, <2>4 DEF Transfer
<1>8. CASE Cpu
  <2>1. UNCHANGED <<arrived, io>> /\ phase = "cpu" /\ cpu # None BY <1>8 DEF Cpu, Tick
  <2>2. CASE UNCHANGED <<sched, finished, ioq>> BY <1>3, <2>1, <2>2 DEF sched
  <2>3. CASE /\ DispatchHead /\ overrun' = (overrun \/ cpu = displaced)
             /\ \/ ioq' = Append(ioq, cpu) /\ finished' = finished
                \/ ioq' = ioq /\ finished' = finished \cup {cpu}
    <3>1. cpu = current_thread /\ cpu \in Thread
      <4>1. Same \/ (Dispatched /\ cpu \in {None, displaced}) BY <1>1, <2>1 DEF Agree
      <4> QED BY <1>0, <2>1, <2>3, <4>1 DEF Same
    <3>2. /\ Distinct(ready') /\ current_thread' \in Thread \cup {None}
          /\ Range(ready) = Range(ready') \cup ({current_thread'} \ {None})
          /\ current_thread' \notin Range(ready')
      <4>1. CASE ready = <<>>
        <5>1. ready' = ready /\ current_thread' = None BY <2>3, <4>1 DEF DispatchHead
        <5>2. Range(ready') = Range(ready) /\ Distinct(ready') BY <1>2, <5>1
        <5> QED BY <1>0, <5>1, <5>2, NoneAssumption
      <4>2. CASE ready # <<>> BY <1>2, <2>3, <4>2, HeadDispatched, NoneAssumption
      <4> QED BY <4>1, <4>2
    <3>3. CASE ioq' = Append(ioq, cpu) /\ finished' = finished
      <4>1. Range(ioq') = Range(ioq) \cup {cpu} /\ Distinct(ioq')
        BY <1>0, <1>2, <3>1, <3>3, AppendIs
      <4> QED BY <1>0, <1>2, <2>1, <3>1, <3>2, <3>3, <4>1, NoneAssumption DEF Apart, Live
    <3>4. CASE ioq' = ioq /\ finished' = finished \cup {cpu}
      <4>1. Range(ioq') = Range(ioq) /\ Distinct(ioq') BY <1>2, <3>4
      <4> QED BY <1>0, <1>2, <2>1, <3>1, <3>2, <3>4, <4>1, NoneAssumption DEF Apart, Live
    <3> QED BY <2>3, <3>3, <3>4
  <2> QED BY <1>8, <2>2, <2>3 DEF Cpu, sys_read, sys_write, sys_exit
<1>9. CASE Switch \/ Idle
  BY <1>3, <1>9 DEF Switch, Idle, Tick, sched
<1> QED BY <1>4, <1>5, <1>6, <1>7, <1>8, <1>9 DEF Next

-----------------------------------------------------------------------------
\* How long each has been ready.
LEMMA OlderAppend ==
    ASSUME turn \in [Thread -> Nat], NEW q \in Seq(Thread), Older(q),
           NEW t \in Thread, turn[t] = 0
    PROVE  Older(Append(q, t))
<1> DEFINE a == Append(q, t)
<1>1. /\ a \in Seq(Thread) /\ Len(a) = Len(q) + 1
      /\ \A i \in 1 .. Len(q) : a[i] = q[i]
      /\ a[Len(q) + 1] = t
  BY AppendIs
<1>2. Len(q) \in Nat /\ \A i \in 1 .. Len(q) : q[i] \in Thread OBVIOUS
<1> HIDE DEF a
<1>3. ASSUME NEW i \in 1 .. Len(q) + 1, NEW j \in 1 .. Len(q) + 1, i < j, prio[a[i]] = prio[a[j]]
      PROVE  turn[a[j]] <= turn[a[i]]
  <2>1. i \in 1 .. Len(q) /\ a[i] = q[i] /\ turn[a[i]] \in Nat BY <1>1, <1>2, <1>3
  <2>2. CASE j = Len(q) + 1 BY <1>1, <2>1, <2>2
  <2>3. CASE j # Len(q) + 1
    <3>1. j \in 1 .. Len(q) /\ a[j] = q[j] BY <1>1, <1>2, <2>3
    <3> QED BY <1>3, <2>1, <3>1 DEF Older
  <2> QED BY <2>2, <2>3
<1> QED BY <1>1, <1>3 DEF Older, a

LEMMA OlderTail ==
    ASSUME NEW q \in Seq(Thread), q # <<>>, Older(q)
    PROVE  Older(Tail(q))
<1> DEFINE h == Tail(q)
<1>1. /\ Len(h) = Len(q) - 1 /\ Len(q) \in Nat
      /\ \A i \in 1 .. Len(q) - 1 : h[i] = q[i + 1]
  BY TailIs
<1> HIDE DEF h
<1>2. ASSUME NEW i \in 1 .. Len(q) - 1, NEW j \in 1 .. Len(q) - 1, i < j, prio[h[i]] = prio[h[j]]
      PROVE  turn[h[j]] <= turn[h[i]]
  <2>1. /\ i + 1 \in 1 .. Len(q) /\ j + 1 \in 1 .. Len(q) /\ i + 1 < j + 1
        /\ h[i] = q[i + 1] /\ h[j] = q[j + 1]
    BY <1>1, <1>2
  <2> QED BY <1>2, <2>1 DEF Older
<1> QED BY <1>1, <1>2 DEF Older, h

\* A tick keeps the order of those that stay in the queue.
LEMMA TurnsTick ==
    ASSUME Typed, Typed', Range(ready') \subseteq Range(ready), prio' = prio, Older(ready'),
           turn' = [u \in Thread |-> IF u \in Range(ready) /\ u \in Range(ready')
                                     THEN turn[u] + 1 ELSE 0],
           (ByPriority /\ current_thread = None => ready = <<>>)'
    PROVE  Turns'
<1>1. /\ ready' \in Seq(Thread) /\ turn \in [Thread -> Nat] BY DEF Typed
<1>2. /\ Range(ready') = {ready'[i] : i \in 1 .. Len(ready')} /\ Range(ready') \subseteq Thread
      /\ ready' = <<>> <=> Range(ready') = {}
  BY <1>1, RangeIs
<1>3. \A u \in Thread \ Range(ready') : turn'[u] = 0 OBVIOUS
<1>4. \A i \in 1 .. Len(ready') : turn'[ready'[i]] = turn[ready'[i]] + 1 /\ turn[ready'[i]] \in Nat
  BY <1>1, <1>2
<1>5. ASSUME NEW i \in 1 .. Len(ready'), NEW j \in 1 .. Len(ready'), i < j,
             prio[ready'[i]] = prio[ready'[j]]
      PROVE  turn'[ready'[j]] <= turn'[ready'[i]]
  <2>1. turn[ready'[j]] <= turn[ready'[i]] BY <1>5 DEF Older
  <2> QED BY <1>4, <2>1
<1>6. Older(ready)' BY <1>5 DEF Older
<1>7. (ByPriority /\ current_thread = None)' => Range(ready') = {} BY <1>2
<1> QED BY <1>3, <1>6, <1>7 DEF Turns

\* The head of the sorted queue leaves the others in order.
LEMMA HeadDispatchedOlder ==
    ASSUME Typed, DispatchHead, Older(ready)
    PROVE  Older(ready')
<1>1. ready \in Seq(Thread) /\ prio \in [Thread -> Nat] BY DEF Typed
<1>2. CASE ready = <<>>
  <2>1. ready' = ready BY <1>2 DEF DispatchHead
  <2> QED BY <2>1 DEF Older
<1>3. CASE ready # <<>>
  <2>1. Sorted(ready) \in Seq(Thread) /\ Sorted(ready) # <<>> /\ Older(Sorted(ready))
    BY <1>1, <1>3, SortedIs
  <2>2. ready' = Tail(Sorted(ready)) BY <1>3, HeadDispatched
  <2> QED BY <2>1, <2>2, OlderTail
<1> QED BY <1>2, <1>3

LEMMA TurnsStep ==
    ASSUME Typed, FreeOnlyEmpty, TopRuns, Apart, Turns, Next, Typed'
    PROVE  Turns'
<1>0. /\ prio \in [Thread -> Nat] /\ ready \in Seq(Thread) /\ turn \in [Thread -> Nat]
      /\ {current_thread, io} \subseteq Thread \cup {None}
      /\ Range(ready) \subseteq Thread
  BY RangeIs DEF Typed
<1> SUFFICES ASSUME ~overrun' PROVE Turns'
  BY DEF Turns
<1>1. ~overrun
  BY DEF Next, Arrive, Ready, Switch, Device, Transfer, Idle, Cpu, history
<1>2. /\ \A t \in Thread \ Range(ready) :
            turn[t] = 0 \/ (~ByPriority /\ t = current_thread /\ phase # "arrivals")
      /\ Older(ready)
      /\ phase = "arrivals" /\ ByPriority /\ current_thread = None =>
             \A t \in Range(ready) : turn[t] = 0 \/ \E u \in Range(ready) : prio[u] < prio[t]
      /\ current_thread \notin Range(ready) /\ io \notin Range(ready)
      /\ current_thread = io => io = None
  BY <1>1 DEF Turns, Apart
<1>3. prio' = prio /\ algo' = algo /\ (ByPriority' <=> ByPriority)
  BY DEF Next, Arrive, Ready, Switch, Device, Transfer, Idle, Cpu, Tick, sys_exec, sim_ready,
         io_starting, io_complete, sys_read, sys_write, sys_exit, sched, ByPriority
\* The order of the queue after a step in which the turns do not change.
<1>4. turn' = turn /\ Older(ready') => Older(ready)'
  BY <1>3 DEF Older
<1>5. ASSUME NEW t \in Thread, Arrive(t) PROVE Turns'
  <2>1. /\ t \notin arrived /\ phase = "arrivals" /\ phase' = "arrivals" /\ turn' = turn /\ sys_exec(t)
    BY <1>5 DEF Arrive
  <2>2. \A u \in Thread \ Range(ready) : turn[u] = 0 BY <1>2, <2>1
  <2>3. t \notin Range(ready) /\ turn[t] = 0
    <3>1. Range(ready) \subseteq arrived BY <1>1 DEF Apart, Live
    <3> QED BY <2>1, <2>2, <3>1
  <2>4. CASE ByPriority /\ Beats(t)
    <3>1. /\ current_thread \in Thread /\ Preemptive /\ prio[t] < prio[current_thread]
          /\ current_thread # None
      BY <1>0, <2>4 DEF Beats
    <3>2. turn[current_thread] = 0 BY <1>2, <2>2, <3>1
    <3>3. /\ PutBack \in Seq(Thread) /\ Range(PutBack) = Range(ready) \cup {current_thread}
      BY <1>0, <3>1, AppendIs DEF PutBack, Enqueue
    <3>4. Older(PutBack) BY <1>0, <1>2, <3>1, <3>2, OlderAppend DEF PutBack, Enqueue
    <3>5. Enqueue(PutBack, t) \in Seq(Thread) /\ Older(Enqueue(PutBack, t))
      BY <1>0, <2>3, <3>3, <3>4, AppendIs, OlderAppend DEF Enqueue
    <3>6. Older(Sorted(Enqueue(PutBack, t))) BY <1>0, <3>5, SortedIs
    <3>7. ready' = Sorted(Enqueue(PutBack, t)) BY <2>1, <2>4 DEF sys_exec
    <3>8. Range(ready') = Range(ready) \cup {current_thread, t}
      <4>1. Range(Sorted(Enqueue(PutBack, t))) = Range(PutBack) \cup {t}
        BY <1>0, <3>3, EnqueuedSorted
      <4> QED BY <3>3, <3>7, <4>1
    <3>9. ASSUME NEW u \in Range(ready') PROVE turn[u] = 0 \/ \E v \in Range(ready') : prio[v] < prio[u]
      <4>1. CASE u = t BY <2>3, <4>1
      <4>2. CASE u = current_thread BY <3>1, <3>8, <4>2
      <4>3. CASE u \in Range(ready)
        <5>1. prio[current_thread] <= prio[u] BY <3>1, <4>3 DEF TopRuns
        <5>2. prio[t] \in Nat /\ prio[current_thread] \in Nat /\ prio[u] \in Nat
          BY <1>0, <3>1, <4>3
        <5>3. prio[t] < prio[u] BY <3>1, <5>1, <5>2
        <5> QED BY <3>8, <5>3
      <4> QED BY <3>8, <4>1, <4>2, <4>3
    <3>10. Older(ready') BY <3>6, <3>7
    <3>11. \A u \in Thread \ Range(ready') : turn'[u] = 0 BY <2>1, <2>2, <3>8
    <3>12. \A u \in Range(ready') : turn'[u] = 0 \/ \E v \in Range(ready') : prio'[v] < prio'[u]
      BY <1>3, <2>1, <3>9
    <3> QED BY <1>4, <2>1, <3>10, <3>11, <3>12 DEF Turns
  <2>5. CASE ~(ByPriority /\ Beats(t))
    <3>1. \/ current_thread # None /\ current_thread' = current_thread
          \/ ~ByPriority
          \/ ByPriority /\ current_thread = None /\ ready' = Sorted(Enqueue(ready, t))
      BY <2>1, <2>5 DEF sys_exec
    <3>2. Enqueue(ready, t) \in Seq(Thread) /\ Older(Enqueue(ready, t))
      BY <1>0, <1>2, <2>3, AppendIs, OlderAppend DEF Enqueue
    <3>3. Older(Sorted(Enqueue(ready, t))) BY <1>0, <3>2, SortedIs
    <3>4. ready' = Sorted(Enqueue(ready, t)) \/ ready' = Enqueue(ready, t) \/ ready' = ready
      BY <2>1, <2>5 DEF sys_exec
    <3>5. Range(Enqueue(ready, t)) = Range(ready) \cup {t} BY <1>0, AppendIs DEF Enqueue
    <3>6. Range(Sorted(Enqueue(ready, t))) = Range(ready) \cup {t} BY <1>0, EnqueuedSorted
    <3>7. Older(ready') BY <1>2, <3>2, <3>3, <3>4
    <3>8. Range(ready) \subseteq Range(ready') /\ Range(ready') \subseteq Range(ready) \cup {t}
      BY <3>4, <3>5, <3>6
    <3>9. \A u \in Thread \ Range(ready') : turn'[u] = 0 BY <2>1, <2>2, <3>8
    <3>10. ASSUME ByPriority, current_thread' = None, NEW u \in Range(ready')
           PROVE  turn[u] = 0 \/ \E v \in Range(ready') : prio[v] < prio[u]
      <4>1. current_thread = None BY <3>1, <3>10
      <4>2. CASE u = t BY <2>3, <4>2
      <4>3. CASE u \in Range(ready) BY <1>2, <2>1, <3>8, <3>10, <4>1, <4>3
      <4> QED BY <3>8, <4>2, <4>3
    <3>11. (ByPriority /\ current_thread = None)' =>
              \A u \in Range(ready') : turn'[u] = 0 \/ \E v \in Range(ready') : prio'[v] < prio'[u]
      BY <1>3, <2>1, <3>10
    <3> QED BY <1>4, <2>1, <3>7, <3>9, <3>11 DEF Turns
  <2> QED BY <2>4, <2>5
<1>6. CASE Ready
  <2>1. phase = "arrivals" /\ phase' = "switch" /\ turn' = turn /\ sim_ready
    BY <1>6 DEF Ready
  <2>2. \A u \in Thread \ Range(ready) : turn[u] = 0 BY <1>2, <2>1
  <2>3. CASE algo = "ROUND_ROBIN" /\ ready # <<>> /\ QuantumOver
    <3>1. current_thread \in Thread /\ ~ByPriority BY <1>0, <2>3 DEF FreeOnlyEmpty, ByPriority
    <3>2. /\ PutBack \in Seq(Thread) /\ PutBack # <<>> /\ Older(PutBack)
      BY <1>0, <1>2, <2>2, <3>1, AppendIs, OlderAppend DEF PutBack, Enqueue
    <3>3. Older(Tail(PutBack)) BY <3>2, OlderTail
    <3>4. Range(ready) \cup {current_thread} = {Head(PutBack)} \cup Range(Tail(PutBack))
      BY <1>0, <2>3, <3>1, Rotated DEF PutBack
    <3>5. current_thread' = Head(PutBack) /\ ready' = Tail(PutBack)
      BY <2>1, <2>3 DEF sim_ready, Dispatch, ByPriority
    <3>6. ASSUME NEW u \in Thread \ Range(ready') PROVE turn'[u] = 0 \/ u = current_thread'
      <4>1. Range(ready) \subseteq {current_thread'} \cup Range(ready') BY <3>4, <3>5
      <4>2. CASE u = current_thread' BY <4>2
      <4>3. CASE u \notin Range(ready) BY <2>1, <2>2, <4>3
      <4> QED BY <4>1, <4>2, <4>3
    <3>7. Older(ready') BY <3>3, <3>5
    <3> QED BY <1>3, <1>4, <2>1, <3>1, <3>6, <3>7 DEF Turns
  <2>4. CASE UNCHANGED <<current_thread, ready>>
    <3>1. Older(ready') BY <1>2, <2>4
    <3>2. \A u \in Thread \ Range(ready') : turn'[u] = 0 BY <2>1, <2>2, <2>4
    <3> QED BY <1>4, <2>1, <3>1, <3>2 DEF Turns
  <2>5. CASE ByPriority /\ current_thread = None /\ DispatchHead
    <3>1. Older(ready') BY <1>2, <2>5, HeadDispatchedOlder
    <3>2. CASE ready = <<>>
      <4>1. ready' = ready BY <2>5, <3>2 DEF DispatchHead
      <4>2. \A u \in Thread \ Range(ready') : turn'[u] = 0 BY <2>1, <2>2, <4>1
      <4> QED BY <1>4, <2>1, <3>1, <4>2 DEF Turns
    <3>3. CASE ready # <<>>
      <4>1. /\ Range(ready) = {current_thread'} \cup Range(ready') /\ current_thread' \in Thread
            /\ \A u \in Range(ready) : prio[current_thread'] <= prio[u]
        BY <2>5, <3>3, HeadDispatched
      <4>2. turn[current_thread'] = 0
        <5>1. current_thread' \in Range(ready) BY <4>1
        <5>2. \A u \in Range(ready) : ~(prio[u] < prio[current_thread'])
          <6> TAKE u \in Range(ready)
          <6>1. prio[u] \in Nat /\ prio[current_thread'] \in Nat BY <1>0, <4>1
          <6> QED BY <4>1, <6>1
        <5> QED BY <1>2, <2>1, <2>5, <5>1, <5>2
      <4>3. \A u \in Thread \ Range(ready') : turn'[u] = 0 BY <2>1, <2>2, <4>1, <4>2
      <4> QED BY <1>4, <2>1, <3>1, <4>3 DEF Turns
    <3> QED BY <3>2, <3>3
  <2> QED BY <2>1, <2>3, <2>4, <2>5 DEF sim_ready
<1>7. CASE Switch \/ Device
  <2>1. /\ UNCHANGED <<current_thread, ready, turn>> /\ phase # "arrivals" /\ phase' # "arrivals"
    BY <1>7 DEF Switch, Device, io_starting, sched, history
  <2>2. \A u \in Thread \ Range(ready') : turn'[u] = 0 \/ (~ByPriority /\ u = current_thread)'
    BY <1>2, <1>3, <2>1
  <2>3. Older(ready') BY <1>2, <2>1
  <2> QED BY <1>4, <2>1, <2>2, <2>3 DEF Turns
<1>8. CASE Transfer
  <2>1. phase = "transfer" /\ phase' = "cpu" /\ turn' = turn /\ io \in Thread
    BY <1>8 DEF Transfer, Typed
  <2>2. CASE UNCHANGED <<current_thread, ready>>
    <3>1. Older(ready') BY <1>2, <2>2
    <3>2. \A u \in Thread \ Range(ready') : turn'[u] = 0 \/ (~ByPriority /\ u = current_thread)'
      BY <1>2, <1>3, <2>1, <2>2
    <3> QED BY <1>4, <2>1, <3>1, <3>2 DEF Turns
  <2>3. CASE current_thread = None /\ io_complete(io)
    <3>1. ready' = ready BY <2>3 DEF io_complete, Beats
    <3>2. \A u \in Thread \ Range(ready') : turn'[u] = 0
      BY <1>2, <2>1, <2>3, <3>1, NoneAssumption
    <3>3. Older(ready') BY <1>2, <3>1
    <3> QED BY <1>4, <2>1, <3>2, <3>3 DEF Turns
  <2>4. CASE Beats(io) /\ io_complete(io)
    <3>1. /\ current_thread \in Thread /\ ByPriority
          /\ ready' = Append(ready, current_thread)
      BY <1>0, <2>4 DEF io_complete, Beats, PutBack, Enqueue, Preemptive, ByPriority
    <3>2. \A u \in Thread \ Range(ready) : turn[u] = 0 BY <1>2, <3>1
    <3>3. Older(ready') BY <1>0, <1>2, <3>1, <3>2, OlderAppend
    <3>4. Range(ready') = Range(ready) \cup {current_thread} BY <1>0, <3>1, AppendIs
    <3>5. \A u \in Thread \ Range(ready') : turn'[u] = 0 BY <2>1, <3>2, <3>4
    <3> QED BY <1>4, <2>1, <3>3, <3>5 DEF Turns
  <2>5. CASE current_thread # None /\ ~Beats(io) /\ io_complete(io)
    <3>1. ready' = Sorted(Enqueue(ready, io)) /\ current_thread' = current_thread
      BY <2>5 DEF io_complete
    <3>2. turn[io] = 0 BY <1>2, <2>1, NoneAssumption
    <3>3. Enqueue(ready, io) \in Seq(Thread) /\ Older(Enqueue(ready, io))
      BY <1>0, <1>2, <2>1, <3>2, AppendIs, OlderAppend DEF Enqueue
    <3>4. Older(ready') BY <1>0, <3>1, <3>3, SortedIs
    <3>5. Range(ready') = Range(ready) \cup {io} BY <1>0, <2>1, <3>1, EnqueuedSorted
    <3>6. \A u \in Thread \ Range(ready') : turn'[u] = 0 \/ (~ByPriority /\ u = current_thread)'
      BY <1>2, <1>3, <2>1, <3>1, <3>5
    <3> QED BY <1>4, <2>1, <3>4, <3>6 DEF Turns
  <2> QED BY <1>8, <2>2, <2>3, <2>4, <2>5 DEF Transfer, sched
<1>9. CASE Idle \/ Cpu
  <2>1. turn' = [u \in Thread |-> IF u \in Range(ready) /\ u \in Range(ready')
                                  THEN turn[u] + 1 ELSE 0]
    BY <1>9 DEF Idle, Cpu, Tick
  <2>2. phase = "cpu" BY <1>9 DEF Idle, Cpu
  <2>3. CASE UNCHANGED <<current_thread, ready>>
    <3>1. (ByPriority /\ current_thread = None => ready = <<>>)' BY <2>2, <2>3 DEF FreeOnlyEmpty
    <3>2. Older(ready') /\ Range(ready') \subseteq Range(ready) BY <1>2, <2>3
    <3> QED BY <1>3, <2>1, <3>1, <3>2, TurnsTick
  <2>4. CASE DispatchHead
    <3>1. Older(ready') BY <1>2, <2>4, HeadDispatchedOlder
    <3>2. /\ Range(ready') \subseteq Range(ready)
          /\ (ByPriority /\ current_thread = None => ready = <<>>)'
      <4>1. CASE ready = <<>> BY <2>4, <4>1 DEF DispatchHead
      <4>2. CASE ready # <<>>
        <5>1. Range(ready) = {current_thread'} \cup Range(ready') /\ current_thread' \in Thread
          BY <2>4, <4>2, HeadDispatched
        <5> QED BY <5>1, NoneAssumption
      <4> QED BY <4>1, <4>2
    <3> QED BY <1>3, <2>1, <3>1, <3>2, TurnsTick
  <2> QED BY <1>9, <2>3, <2>4 DEF Idle, Cpu, sys_read, sys_write, sys_exit, sched
<1> QED BY <1>5, <1>6, <1>7, <1>8, <1>9 DEF Next

-----------------------------------------------------------------------------
\* The quanta.

\* A queue without repetitions is as long as it has members.
LEMMA LengthIs ==
    ASSUME NEW q \in Seq(Thread), Distinct(q)
    PROVE  IsFiniteSet(Range(q)) /\ Cardinality(Range(q)) = Len(q)
<1>1. /\ Range(q) = {q[i] : i \in 1 .. Len(q)} /\ Len(q) \in Nat
      /\ DOMAIN q = 1 .. Len(q)
  BY RangeIs
<1>2. q \in [1 .. Len(q) -> Range(q)]
  <2>1. q = [i \in 1 .. Len(q) |-> q[i]] OBVIOUS
  <2>2. \A i \in 1 .. Len(q) : q[i] \in Range(q) BY <1>1
  <2> QED BY <2>1, <2>2
<1>3. q \in Surjection(1 .. Len(q), Range(q)) BY <1>1, <1>2 DEF Surjection
<1>4. q \in Injection(1 .. Len(q), Range(q)) BY <1>2 DEF Injection, IsInjective, Distinct
<1>5. IsFiniteSet(1 .. Len(q)) /\ Cardinality(1 .. Len(q)) = Len(q) BY <1>1, FS_Interval
<1> QED BY <1>3, <1>4, <1>5, FS_Surjection

\* There is a place in the queue for a thread that is not in it ...
LEMMA RoomForOne ==
    ASSUME NEW q \in Seq(Thread), Distinct(q), NEW t \in Thread \ Range(q)
    PROVE  Len(q) + 1 <= Cardinality(Thread) /\ Cardinality(Thread) \in Nat
<1>1. IsFiniteSet(Range(q)) /\ Cardinality(Range(q)) = Len(q) /\ Len(q) \in Nat
      /\ Range(q) \subseteq Thread
  BY LengthIs, RangeIs
<1>2. Cardinality(Range(q) \cup {t}) = Len(q) + 1 BY <1>1, FS_AddElement
<1>3. Range(q) \cup {t} \in SUBSET Thread BY <1>1
<1> QED BY <1>2, <1>3, ThreadAssumption, FS_Subset, FS_CardinalityType

\* ... and two for two.
LEMMA RoomForTwo ==
    ASSUME NEW q \in Seq(Thread), Distinct(q), NEW t \in Thread \ Range(q),
           NEW u \in Thread \ Range(q), t # u
    PROVE  Len(q) + 2 <= Cardinality(Thread) /\ Cardinality(Thread) \in Nat
<1>1. IsFiniteSet(Range(q)) /\ Cardinality(Range(q)) = Len(q) /\ Len(q) \in Nat
      /\ Range(q) \subseteq Thread
  BY LengthIs, RangeIs
<1>2. /\ IsFiniteSet(Range(q) \cup {t})
      /\ Cardinality(Range(q) \cup {t}) = Len(q) + 1
  BY <1>1, FS_AddElement
<1>3. Cardinality((Range(q) \cup {t}) \cup {u}) = Len(q) + 1 + 1 BY <1>2, FS_AddElement
<1>4. (Range(q) \cup {t}) \cup {u} \in SUBSET Thread BY <1>1
<1>5. Cardinality((Range(q) \cup {t}) \cup {u}) <= Cardinality(Thread)
      /\ Cardinality(Thread) \in Nat
  BY <1>4, ThreadAssumption, FS_Subset, FS_CardinalityType
<1> QED BY <1>1, <1>3, <1>5

\* A place nearer to the head costs one quantum less, and each costs some.
LEMMA AheadIs ==
    ASSUME quan \in Nat \ {0}, NEW p \in Nat
    PROVE  /\ Ahead(p) \in Int
           /\ Ahead(p) = Ahead(p + 1) + quan
           /\ p + 1 <= Cardinality(Thread) => Ahead(p) >= 0
           /\ p >= 1 => Ahead(p) + quan <= (Cardinality(Thread) - 1) * quan
<1>1. Cardinality(Thread) \in Nat BY ThreadAssumption, FS_CardinalityType
<1>2. PICK c \in Nat : c = Cardinality(Thread) BY <1>1
<1>3. PICK n \in Nat : n = quan OBVIOUS
<1>4. (c - 1 - p) * n = (c - 1 - (p + 1)) * n + n
  <2>1. PICK a \in Int : a = c - 1 - (p + 1) OBVIOUS
  <2>2. c - 1 - p = a + 1 BY <2>1
  <2>3. (a + 1) * n = a * n + n OBVIOUS
  <2> QED BY <2>1, <2>2, <2>3
<1>5. p + 1 <= c => (c - 1 - p) * n >= 0
  <2> HAVE p + 1 <= c
  <2>1. PICK a \in Nat : a = c - 1 - p OBVIOUS
  <2>2. a * n >= 0 OBVIOUS
  <2> QED BY <2>1, <2>2
<1>6. p >= 1 => (c - 1 - p) * n + n <= (c - 1) * n
  <2> HAVE p >= 1
  <2>1. PICK b \in Nat : p = b + 1 OBVIOUS
  <2>2. PICK a \in Int : a = c - 1 - p OBVIOUS
  <2>3. c - 1 = (a + 1) + b BY <2>1, <2>2
  <2>4. ((a + 1) + b) * n = (a * n + n) + b * n OBVIOUS
  <2>5. b * n >= 0 /\ a * n \in Int /\ b * n \in Int OBVIOUS
  <2> QED BY <2>2, <2>3, <2>4, <2>5
<1>7. (c - 1 - p) * n \in Int OBVIOUS
<1> QED BY <1>2, <1>3, <1>4, <1>5, <1>6, <1>7 DEF Ahead

LEMMA QuantaStep ==
    ASSUME Typed, FreeOnlyEmpty, Apart, Agree, Turns, Quanta, Next
    PROVE  Quanta'
<1> SUFFICES ASSUME algo = "ROUND_ROBIN" PROVE Quanta'
  <2>1. algo' = algo
    BY DEF Next, Arrive, Ready, Switch, Device, Transfer, Idle, Cpu, Tick, sys_exec, sim_ready,
           io_starting, io_complete, sys_read, sys_write, sys_exit, sched
  <2> QED BY <2>1 DEF Quanta
<1>0. /\ prio \in [Thread -> Nat] /\ ready \in Seq(Thread) /\ turn \in [Thread -> Nat]
      /\ {current_thread, io} \subseteq Thread \cup {None}
      /\ Range(ready) = {ready[i] : i \in 1 .. Len(ready)} /\ Range(ready) \subseteq Thread
      /\ Len(ready) \in Nat /\ (ready = <<>> <=> Len(ready) = 0)
  BY RangeIs DEF Typed
<1>1. ~ByPriority /\ ~Preemptive /\ ~overrun /\ \A q : Sorted(q) = q /\ \A t : ~Beats(t)
  BY DEF Typed, ByPriority, Preemptive, Sorted, Beats
<1>2. /\ quan \in Nat \ {0} /\ ticks_on_cpu \in 0 .. quan /\ ran \in Nat
      /\ current_thread # None /\ ~byIo =>
            /\ ticks_on_cpu <= IF phase = "arrivals" THEN ran ELSE ran + 1
            /\ phase = "cpu" => cpu = current_thread
      /\ current_thread # None /\ phase # "arrivals" /\ (phase = "cpu" => ready # <<>>) =>
            ticks_on_cpu > 0
      /\ \A p \in 1 .. Len(ready) :
            turn[ready[p]] <= Ahead(p) + (IF phase = "arrivals" THEN ticks_on_cpu ELSE ticks_on_cpu - 1)
  BY DEF Quanta
<1>3. /\ Distinct(ready) /\ current_thread \notin Range(ready) /\ io \notin Range(ready)
      /\ current_thread = io => io = None
  BY <1>1 DEF Apart
<1>4. current_thread = None => ready = <<>> /\ Len(ready) = 0
  BY <1>0, <1>1 DEF FreeOnlyEmpty
<1>5. algo' = algo /\ quan' = quan /\ \A p : Ahead(p)' = Ahead(p)
  <2>1. algo' = algo /\ quan' = quan
    BY DEF Next, Arrive, Ready, Switch, Device, Transfer, Idle, Cpu, Tick, sys_exec, sim_ready,
           io_starting, io_complete, sys_read, sys_write, sys_exit, sched
  <2> QED BY <2>1 DEF Ahead
<1> DEFINE Bound(p) == turn'[ready'[p]] <=
                 Ahead(p) + (IF phase' = "arrivals" THEN ticks_on_cpu' ELSE ticks_on_cpu' - 1)
           After == /\ ticks_on_cpu' \in 0 .. quan /\ ran' \in Nat
                    /\ current_thread' # None /\ ~byIo' =>
                          /\ ticks_on_cpu' <= IF phase' = "arrivals" THEN ran' ELSE ran' + 1
                          /\ phase' = "cpu" => cpu' = current_thread'
                    /\ current_thread' # None /\ phase' # "arrivals"
                          /\ (phase' = "cpu" => ready' # <<>>) => ticks_on_cpu' > 0
                    /\ \A p \in 1 .. Len(ready') : Bound(p)
<1>6. SUFFICES After
  BY <1>2, <1>5 DEF Quanta
<1>7. \A p \in Nat : Ahead(p) \in Int /\ Ahead(p) = Ahead(p + 1) + quan
  BY <1>2, AheadIs
<1>8. \A p \in 1 .. Len(ready) : ready[p] \in Thread /\ turn[ready[p]] \in Nat
  BY <1>0
\* A thread of turn 0 that joins the queue while another is current.
<1>9. ASSUME NEW t \in Thread \ Range(ready), t # current_thread, current_thread # None,
             turn[t] = 0, turn' = turn, ready' = Append(ready, t), ticks_on_cpu' = ticks_on_cpu,
             phase' = "arrivals" <=> phase = "arrivals",
             phase # "arrivals" => ticks_on_cpu > 0
      PROVE  \A p \in 1 .. Len(ready') : Bound(p)
  <2>1. Len(ready') = Len(ready) + 1 /\ ready'[Len(ready) + 1] = t
        /\ \A p \in 1 .. Len(ready) : ready'[p] = ready[p]
    BY <1>0, <1>9, AppendIs
  <2>2. Ahead(Len(ready) + 1) >= 0 /\ Ahead(Len(ready) + 1) \in Int
    <3>1. Len(ready) + 2 <= Cardinality(Thread) /\ Cardinality(Thread) \in Nat
      BY <1>0, <1>3, <1>9, RoomForTwo
    <3>2. Len(ready) + 1 \in Nat /\ (Len(ready) + 1) + 1 <= Cardinality(Thread) BY <1>0, <3>1
    <3> QED BY <1>2, <3>2, AheadIs
  <2>3. ASSUME NEW p \in 1 .. Len(ready) PROVE Bound(p) BY <1>2, <1>9, <2>1
  <2>4. Bound(Len(ready) + 1) BY <1>2, <1>9, <2>1, <2>2
  <2>5. \A p \in 1 .. Len(ready') : p \in 1 .. Len(ready) \/ p = Len(ready) + 1 BY <1>0, <2>1
  <2> HIDE DEF Bound
  <2> QED BY <2>3, <2>4, <2>5
<1>10. ASSUME NEW t \in Thread, Arrive(t) PROVE After
  <2>1. /\ t \notin arrived /\ phase = "arrivals" /\ phase' = "arrivals" /\ turn' = turn /\ sys_exec(t)
    BY <1>10 DEF Arrive
  <2>2. t \notin Range(ready) /\ t # current_thread /\ turn[t] = 0
    <3>1. t \notin Range(ready) /\ t # current_thread
      BY <1>1, <2>1, NoneAssumption DEF Apart, Live
    <3> QED BY <1>1, <2>1, <3>1 DEF Turns
  <2>3. CASE current_thread = None
    <3>1. ticks_on_cpu' = 0 /\ ran' = 0 /\ ready' = <<>>
      BY <1>1, <1>4, <2>1, <2>3 DEF sys_exec, Dispatch
    <3>2. Len(ready') = 0 BY <3>1
    <3> QED BY <1>2, <2>1, <3>1, <3>2
  <2>4. CASE current_thread # None
    <3>1. /\ ready' = Append(ready, t)
          /\ UNCHANGED <<current_thread, ticks_on_cpu, ran, byIo>>
      BY <1>1, <2>1, <2>4 DEF sys_exec, Enqueue
    <3>2. \A p \in 1 .. Len(ready') : Bound(p) BY <1>9, <2>1, <2>2, <2>4, <3>1
    <3> HIDE DEF Bound
    <3> QED BY <1>2, <2>1, <3>1, <3>2
  <2> QED BY <2>3, <2>4
<1>11. CASE Ready
  <2>1. phase = "arrivals" /\ phase' = "switch" /\ turn' = turn /\ sim_ready
    BY <1>11 DEF Ready
  <2>2. CASE ready # <<>> /\ QuantumOver
    <3>1. current_thread \in Thread /\ ticks_on_cpu = quan /\ turn[current_thread] = 0
      <4>1. current_thread \in Thread BY <1>0, <1>4, <2>2
      <4>2. ticks_on_cpu = quan BY <1>2, <2>2 DEF QuantumOver
      <4> QED BY <1>1, <1>3, <2>1, <4>1, <4>2 DEF Turns
    <3>2. /\ current_thread' = Head(PutBack) /\ ready' = Tail(PutBack)
          /\ ran' = 0 /\ byIo' = FALSE
          /\ ticks_on_cpu' = IF current_thread' = None THEN 0 ELSE 0 + 1
      BY <2>1, <2>2, <1>1 DEF sim_ready, Dispatch
    <3>3. /\ Head(PutBack) \in Range(ready) /\ Len(Tail(PutBack)) = Len(ready)
          /\ \A i \in 1 .. Len(ready) - 1 : Tail(PutBack)[i] = ready[i + 1]
          /\ Tail(PutBack)[Len(ready)] = current_thread
      <4> DEFINE b == Enqueue(ready, current_thread)
      <4>1. ready \in Seq(Thread) /\ ready # <<>> BY <1>0, <2>2
      <4>2. /\ Head(b) \in Range(ready) /\ Len(Tail(b)) = Len(ready)
            /\ \A i \in 1 .. Len(ready) - 1 : Tail(b)[i] = ready[i + 1]
            /\ Tail(b)[Len(ready)] = current_thread
        <5>1. Head(b) \in Range(ready) /\ Len(Tail(b)) = Len(ready) BY <3>1, <4>1, Rotated
        <5>2. \A i \in 1 .. Len(ready) - 1 : Tail(b)[i] = ready[i + 1] BY <3>1, <4>1, Rotated
        <5>3. Tail(b)[Len(ready)] = current_thread
          <6>1. /\ b \in Seq(Thread) /\ b # <<>> /\ Len(b) - 1 = Len(ready)
                /\ b[Len(ready) + 1] = current_thread
            <7>1. b = Append(ready, current_thread) BY DEF Enqueue
            <7> HIDE DEF b
            <7>2. b \in Seq(Thread) /\ b # <<>> /\ Len(b) = Len(ready) + 1
              BY <3>1, <4>1, <7>1, AppendIs
            <7>3. b[Len(ready) + 1] = current_thread BY <3>1, <4>1, <7>1, AppendIs
            <7> QED BY <1>0, <7>2, <7>3
          <6>2. Len(ready) \in 1 .. Len(b) - 1 BY <1>0, <4>1, <6>1
          <6> HIDE DEF b
          <6>3. Tail(b)[Len(ready)] = b[Len(ready) + 1] BY <6>1, <6>2, TailIs
          <6> QED BY <6>1, <6>3
        <5> QED BY <5>1, <5>2, <5>3
      <4> QED BY <4>2 DEF PutBack
    <3>4. current_thread' # None /\ ticks_on_cpu' = 1
      BY <1>0, <3>2, <3>3, NoneAssumption
    <3>5. ASSUME NEW p \in 1 .. Len(ready') PROVE Bound(p)
      <4>1. CASE p = Len(ready)
        <5>1. Len(ready) + 1 <= Cardinality(Thread) BY <1>0, <1>3, <3>1, RoomForOne
        <5>2. Ahead(Len(ready)) >= 0 /\ Ahead(Len(ready)) \in Int BY <1>0, <1>2, <5>1, AheadIs
        <5>3. turn'[ready'[p]] = 0 BY <2>1, <3>1, <3>2, <3>3, <4>1
        <5> QED BY <2>1, <3>4, <4>1, <5>2, <5>3
      <4>2. CASE p # Len(ready)
        <5>0. p \in 1 .. Len(ready) - 1 /\ p + 1 \in 1 .. Len(ready) /\ p \in Nat
          <6>1. Len(ready') = Len(ready) BY <3>2, <3>3
          <6> QED BY <1>0, <4>2, <6>1
        <5>1. p + 1 \in 1 .. Len(ready) /\ p \in Nat /\ ready'[p] = ready[p + 1]
          BY <3>2, <3>3, <5>0
        <5>2. turn[ready[p + 1]] <= Ahead(p + 1) + quan BY <1>2, <2>1, <3>1, <5>1
        <5>3. Ahead(p) = Ahead(p + 1) + quan /\ Ahead(p) \in Int BY <1>7, <5>1
        <5> QED BY <2>1, <3>4, <5>1, <5>2, <5>3
      <4> QED BY <4>1, <4>2
    <3> HIDE DEF Bound
    <3> QED BY <1>2, <2>1, <3>2, <3>4, <3>5
  <2>3. CASE ready = <<>> \/ ~QuantumOver
    <3>1. /\ UNCHANGED <<current_thread, ready, ran, byIo>>
          /\ ticks_on_cpu' = IF current_thread = None
                             THEN IF QuantumOver THEN 0 ELSE ticks_on_cpu
                             ELSE (IF QuantumOver THEN 0 ELSE ticks_on_cpu) + 1
      BY <1>1, <2>1, <2>3 DEF sim_ready
    <3>2. CASE current_thread = None
      <4>1. Len(ready') = 0 BY <1>4, <3>1, <3>2
      <4> QED BY <1>2, <2>1, <3>1, <3>2, <4>1
    <3>3. CASE current_thread # None
      <4>1. ticks_on_cpu' \in 1 .. quan /\ ticks_on_cpu' <= ticks_on_cpu + 1
        BY <1>2, <3>1, <3>3 DEF QuantumOver
      <4>2. CASE ready = <<>>
        <5>1. Len(ready') = 0 BY <3>1, <4>2
        <5> QED BY <1>2, <2>1, <3>1, <3>3, <4>1, <5>1
      <4>3. CASE ~QuantumOver
        <5>1. ticks_on_cpu' = ticks_on_cpu + 1 BY <3>1, <3>3, <4>3
        <5>2. ASSUME NEW p \in 1 .. Len(ready') PROVE Bound(p)
          <6>1. p \in 1 .. Len(ready) /\ turn'[ready'[p]] = turn[ready[p]] BY <2>1, <3>1
          <6>2. turn[ready[p]] <= Ahead(p) + ticks_on_cpu BY <1>2, <2>1, <6>1
          <6>3. Ahead(p) \in Int /\ ticks_on_cpu \in Nat BY <1>2, <1>7, <6>1
          <6> QED BY <2>1, <5>1, <6>1, <6>2, <6>3
        <5> HIDE DEF Bound
        <5> QED BY <1>2, <2>1, <3>1, <3>3, <4>1, <5>2
      <4> QED BY <2>3, <4>2, <4>3
    <3> QED BY <3>2, <3>3
  <2> QED BY <2>2, <2>3
<1>12. CASE Switch \/ Device
  <2>1. /\ UNCHANGED <<current_thread, ready, turn, ticks_on_cpu, ran, byIo>>
        /\ phase \in {"switch", "device"} /\ phase' \in {"device", "transfer", "cpu"}
        /\ phase' = "cpu" => phase = "device" /\ cpu' = cpu
    BY <1>12 DEF Switch, Device, io_starting, sched, history
  <2>2. phase' = "cpu" => cpu' = current_thread' BY <1>1, <2>1 DEF Agree, Same
  <2> QED BY <1>2, <2>1, <2>2
<1>13. CASE Transfer
  <2>1. /\ phase = "transfer" /\ phase' = "cpu" /\ turn' = turn /\ io \in Thread /\ cpu' = cpu
        /\ cpu = current_thread
    BY <1>1, <1>13 DEF Transfer, Typed, Agree, Same
  <2>2. CASE UNCHANGED <<current_thread, ready, ticks_on_cpu, ran, byIo>> BY <1>2, <2>1, <2>2
  <2>3. CASE current_thread = None /\ io_complete(io)
    <3>1. ready' = <<>> /\ ticks_on_cpu' = ticks_on_cpu /\ ran' = 0 /\ byIo' = TRUE
      BY <1>1, <1>4, <2>3 DEF io_complete, Dispatch
    <3>2. Len(ready') = 0 BY <3>1
    <3> QED BY <1>2, <2>1, <3>1, <3>2
  <2>4. CASE current_thread # None /\ io_complete(io)
    <3>1. /\ ready' = Append(ready, io)
          /\ UNCHANGED <<current_thread, ticks_on_cpu, ran, byIo>>
      BY <1>1, <2>4 DEF io_complete, Enqueue
    <3>2. io \notin Range(ready) /\ io # current_thread /\ turn[io] = 0
      BY <1>1, <1>3, <2>1, <2>4, NoneAssumption DEF Turns
    <3>3. ticks_on_cpu > 0 BY <1>2, <2>1, <2>4
    <3>4. \A p \in 1 .. Len(ready') : Bound(p) BY <1>9, <2>1, <2>4, <3>1, <3>2, <3>3
    <3> HIDE DEF Bound
    <3> QED BY <1>2, <2>1, <3>1, <3>3, <3>4
  <2> QED BY <1>13, <2>2, <2>3, <2>4 DEF Transfer, sched
<1>14. CASE Idle \/ Cpu
  <2>1. /\ phase = "cpu" /\ phase' = "arrivals"
        /\ turn' = [u \in Thread |-> IF u \in Range(ready) /\ u \in Range(ready')
                                     THEN turn[u] + 1 ELSE 0]
    BY <1>14 DEF Idle, Cpu, Tick
  <2>2. \A u \in Thread : turn'[u] \in Nat /\ turn'[u] <= turn[u] + 1 BY <1>0, <2>1
  <2>3. CASE UNCHANGED <<current_thread, ready, ticks_on_cpu, byIo>>
              /\ ran' \in Nat /\ (current_thread # None /\ ~byIo => ran' = ran + 1)
    <3>1. \A p \in 1 .. Len(ready') : Bound(p)
      <4> SUFFICES ASSUME NEW p \in 1 .. Len(ready) PROVE Bound(p)
        BY <2>3
      <4>1. turn'[ready[p]] <= turn[ready[p]] + 1 /\ turn'[ready[p]] \in Nat BY <1>8, <2>2
      <4>2. turn[ready[p]] <= Ahead(p) + (ticks_on_cpu - 1) /\ turn[ready[p]] \in Nat
        BY <1>2, <1>8, <2>1
      <4>3. p \in Nat /\ Ahead(p) \in Int BY <1>7
      <4> QED BY <1>2, <2>1, <2>3, <4>1, <4>2, <4>3
    <3> HIDE DEF Bound
    <3> QED BY <1>2, <2>1, <2>3, <3>1
  <2>4. CASE DispatchHead
    <3>1. CASE ready = <<>>
      <4>1. /\ current_thread' = None /\ Len(ready') = 0
            /\ UNCHANGED <<ticks_on_cpu, ran>>
        BY <2>4, <3>1 DEF DispatchHead
      <4> QED BY <1>2, <2>1, <4>1
    <3>2. CASE ready # <<>>
      <4>1. /\ ran' = 0 /\ byIo' = FALSE /\ ticks_on_cpu' = 0 /\ ready' = Tail(ready)
        BY <1>1, <2>4, <3>2, HeadDispatched
      <4>2. /\ Len(ready') = Len(ready) - 1
            /\ \A p \in 1 .. Len(ready) - 1 : ready'[p] = ready[p + 1]
        BY <1>0, <3>2, <4>1, TailIs
      <4>3. ASSUME NEW p \in 1 .. Len(ready') PROVE Bound(p)
        <5>1. p + 1 \in 1 .. Len(ready) /\ p \in Nat /\ ready'[p] = ready[p + 1] BY <1>0, <4>2
        <5>2. turn'[ready[p + 1]] <= turn[ready[p + 1]] + 1 /\ turn'[ready[p + 1]] \in Nat
          BY <1>8, <2>2, <5>1
        <5>3. turn[ready[p + 1]] <= Ahead(p + 1) + (ticks_on_cpu - 1) /\ turn[ready[p + 1]] \in Nat
          BY <1>2, <1>8, <2>1, <5>1
        <5>4. Ahead(p) = Ahead(p + 1) + quan /\ Ahead(p) \in Int /\ Ahead(p + 1) \in Int
          BY <1>7, <5>1
        <5> QED BY <1>2, <2>1, <4>1, <5>1, <5>2, <5>3, <5>4
      <4> HIDE DEF Bound
      <4> QED BY <1>2, <2>1, <4>1, <4>3
    <3> QED BY <3>1, <3>2
  <2>5. CASE Idle
    <3>1. UNCHANGED <<current_thread, ready, ticks_on_cpu, byIo, ran>> /\ cpu = None
      BY <2>5 DEF Idle, sched
    <3> QED BY <1>2, <2>1, <2>3, <3>1
  <2>6. CASE Cpu
    BY <1>2, <2>3, <2>4, <2>6 DEF Cpu, sys_read, sys_write, sys_exit, sched
  <2> QED BY <1>14, <2>5, <2>6
<1> QED BY <1>10, <1>11, <1>12, <1>13, <1>14 DEF Next

-----------------------------------------------------------------------------
\* The invariant holds in every state.
LEMMA InitIInv == Init => IInv
<1> SUFFICES ASSUME Init PROVE IInv
  OBVIOUS
<1>1. Typed BY InitTyped
<1>2. /\ ready = <<>> /\ ioq = <<>> /\ Len(ready) = 0
      /\ Range(ready) = {} /\ Range(ioq) = {}
  <2>1. ready = <<>> /\ ioq = <<>> BY DEF Init
  <2> QED BY <2>1 DEF Range
<1>3. Distinct(ready) /\ Distinct(ioq) /\ Older(ready)
  BY <1>2 DEF Distinct, Older
<1>4. /\ current_thread = None /\ io = None /\ cpu = None /\ new_cpu = None
      /\ arrived = {} /\ finished = {} /\ turn = [t \in Thread |-> 0]
      /\ ticks_on_cpu = 0 /\ ran = 0 /\ phase = "arrivals"
      /\ algo = "ROUND_ROBIN" => quan \in Quantum
  BY DEF Init
<1>5. FreeOnlyEmpty /\ TopRuns BY <1>2, <1>4 DEF FreeOnlyEmpty, TopRuns
<1>6. Apart BY <1>2, <1>3, <1>4 DEF Apart, Live
<1>7. Agree BY <1>4 DEF Agree, Same
<1>8. Turns BY <1>2, <1>3, <1>4 DEF Turns
<1>9. Quanta
  <2> SUFFICES ASSUME algo = "ROUND_ROBIN" PROVE Quanta
    BY DEF Quanta
  <2>1. quan \in Nat \ {0} BY <1>4, QuantumAssumption
  <2>2. ticks_on_cpu \in 0 .. quan BY <1>4, <2>1
  <2> QED BY <1>2, <1>4, <2>1, <2>2 DEF Quanta
<1> QED BY <1>1, <1>5, <1>6, <1>7, <1>8, <1>9 DEF IInv

LEMMA StepIInv == IInv /\ [Next]_vars => IInv'
<1> SUFFICES ASSUME IInv, [Next]_vars PROVE IInv'
  OBVIOUS
<1>1. CASE Next
  <2>1. Typed' BY <1>1, TypedStep DEF IInv
  <2>2. FreeOnlyEmpty' /\ TopRuns' BY <1>1, FreeOnlyEmptyStep, TopRunsStep DEF IInv
  <2>3. Apart' /\ Agree' BY <1>1, ApartStep, AgreeStep DEF IInv
  <2>4. Turns' BY <1>1, <2>1, TurnsStep DEF IInv
  <2>5. Quanta' BY <1>1, QuantaStep DEF IInv
  <2> QED BY <2>1, <2>2, <2>3, <2>4, <2>5 DEF IInv
<1>2. CASE UNCHANGED vars
  <2>1. IInv' <=> IInv
    BY <1>2 DEF vars, sched, sim, history, IInv, Typed, FreeOnlyEmpty, TopRuns, Apart, Agree,
       Same, Dispatched, Turns, Quanta, Ahead, Live, Older, Distinct, ByPriority, Preemptive
  <2> QED BY <2>1
<1> QED BY <1>1, <1>2

\* The queue and the device's line, the current thread and the one on the
\* device, the simulator and the scheduler: the invariant of all of them.
THEOREM AlwaysIInv == Spec => []IInv
<1>1. Init => IInv BY InitIInv
<1>2. IInv /\ [Next]_vars => IInv' BY StepIInv
<1> QED BY <1>1, <1>2, PTL DEF Spec

-----------------------------------------------------------------------------
\* How often a thread is in a queue without repetitions.
LEMMA CountIn ==
    ASSUME NEW q \in Seq(Thread), Distinct(q), NEW t
    PROVE  Cardinality({i \in DOMAIN q : q[i] = t}) = IF t \in Range(q) THEN 1 ELSE 0
<1> DEFINE D == {i \in DOMAIN q : q[i] = t}
<1>1. DOMAIN q = 1 .. Len(q) /\ Range(q) = {q[i] : i \in 1 .. Len(q)} BY RangeIs
<1>2. CASE t \in Range(q)
  <2>1. PICK i \in 1 .. Len(q) : q[i] = t BY <1>1, <1>2
  <2>2. D = {i} BY <1>1, <2>1 DEF Distinct
  <2> QED BY <1>2, <2>2, FS_Singleton
<1>3. CASE t \notin Range(q)
  <2>1. D = {} BY <1>1, <1>3
  <2> QED BY <1>3, <2>1, FS_EmptySet
<1> QED BY <1>2, <1>3

\* Of the two places of one thread, the processor and the device.
LEMMA CountOn ==
    ASSUME NEW t, current_thread = t => io # t
    PROVE  Cardinality({p \in {"current", "io"} :
                           IF p = "current" THEN current_thread = t ELSE io = t})
             = IF t \in {current_thread, io} THEN 1 ELSE 0
<1> DEFINE D == {p \in {"current", "io"} :
                    IF p = "current" THEN current_thread = t ELSE io = t}
<1>1. CASE current_thread = t
  <2>1. D = {"current"} BY <1>1
  <2> QED BY <1>1, <2>1, FS_Singleton
<1>2. CASE io = t /\ current_thread # t
  <2>1. D = {"io"} BY <1>2
  <2> QED BY <1>2, <2>1, FS_Singleton
<1>3. CASE current_thread # t /\ io # t
  <2>1. D = {} BY <1>3
  <2> QED BY <1>3, <2>1, FS_EmptySet
<1> QED BY <1>1, <1>2, <1>3

\* Whatever order the callbacks come in, a thread that has arrived and not
\* ended is current, ready, in line for the device or on it, in one of these
\* places and once, and one that has ended is in none.
THEOREM OnePlaceEach == Spec => []OnePlace
<1>1. IInv => OnePlace
  <2> SUFFICES ASSUME IInv, ~overrun, NEW t \in Thread
               PROVE  Places(t) = IF t \in Live THEN 1 ELSE 0
    BY DEF OnePlace
  <2>1. ready \in Seq(Thread) /\ ioq \in Seq(Thread) BY DEF IInv, Typed
  <2>2. /\ Distinct(ready) /\ Distinct(ioq)
        /\ Range(ready) \cap Range(ioq) = {}
        /\ {current_thread, io} \cap (Range(ready) \cup Range(ioq)) = {}
        /\ current_thread = io => io = None
        /\ Live = Range(ready) \cup Range(ioq) \cup ({current_thread, io} \ {None})
    BY DEF IInv, Apart
  <2>3. Cardinality({i \in DOMAIN ready : ready[i] = t}) = IF t \in Range(ready) THEN 1 ELSE 0
    BY <2>1, <2>2, CountIn
  <2>4. Cardinality({i \in DOMAIN ioq : ioq[i] = t}) = IF t \in Range(ioq) THEN 1 ELSE 0
    BY <2>1, <2>2, CountIn
  <2>5. Cardinality({p \in {"current", "io"} :
                        IF p = "current" THEN current_thread = t ELSE io = t})
          = IF t \in {current_thread, io} THEN 1 ELSE 0
    BY <2>2, NoneAssumption, CountOn
  <2>6. t # None BY NoneAssumption
  <2>7. Places(t) = (IF t \in Range(ready) THEN 1 ELSE 0) + (IF t \in Range(ioq) THEN 1 ELSE 0)
                    + (IF t \in {current_thread, io} THEN 1 ELSE 0)
    BY <2>3, <2>4, <2>5 DEF Places
  <2> QED BY <2>2, <2>6, <2>7
<1> QED BY <1>1, AlwaysIInv, PTL

\* The simulator runs the thread the scheduler takes for current, but from an
\* io_complete() that dispatches to the switch of the next tick.
THEOREM SimulatorRunsCurrent == Spec => []CurrentRuns
<1>1. IInv => CurrentRuns
  BY DEF IInv, Agree, CurrentRuns, Same, Dispatched
<1> QED BY <1>1, AlwaysIInv, PTL

\* The processor is never left idle while a thread is ready, and with
\* preemption no ready thread is of higher priority than the current one.
THEOREM RightOne == Spec => []RightOneRuns
<1>1. IInv => RightOneRuns
  BY DEF IInv, FreeOnlyEmpty, TopRuns, RightOneRuns
<1> QED BY <1>1, AlwaysIInv, PTL

-----------------------------------------------------------------------------
\* Nobody of the head's priority has been ready for longer.
LEMMA OldestFirst ==
    ASSUME turn \in [Thread -> Nat], NEW q \in Seq(Thread), q # <<>>, Older(q),
           NEW t \in Range(q), prio[t] = prio[Head(q)]
    PROVE  turn[t] <= turn[Head(q)]
<1>1. /\ Head(q) = q[1] /\ Head(q) \in Thread /\ Len(q) \in Nat /\ Len(q) >= 1
      /\ Range(q) = {q[i] : i \in 1 .. Len(q)}
  BY TailIs, RangeIs
<1>2. PICK i \in 1 .. Len(q) : t = q[i] BY <1>1
<1>3. CASE i = 1
  <2>1. turn[Head(q)] \in Nat BY <1>1
  <2> QED BY <1>1, <1>2, <1>3, <2>1
<1>4. CASE i # 1
  <2>1. 1 \in 1 .. Len(q) /\ 1 < i /\ prio[q[1]] = prio[q[i]] BY <1>1, <1>2, <1>4
  <2>2. turn[q[i]] <= turn[q[1]] BY <2>1 DEF Older
  <2> QED BY <1>1, <1>2, <2>2
<1> QED BY <1>3, <1>4

\* A thread that gets the processor is of no lower priority than those that
\* stay in the queue, and has been ready for longer than those of its own.
THEOREM DispatchInOrder == Spec => DispatchOrder
<1> DEFINE After(t) ==
       /\ ByPriority => prio[current_thread'] <= prio[t]
       /\ ~overrun /\ {t, current_thread'} \subseteq Range(ready)
          /\ prio[t] = prio[current_thread'] => turn[t] <= turn[current_thread']
<1>1. ASSUME IInv, [Next]_vars, current_thread' # current_thread, current_thread' # None,
             NEW t \in Range(ready')
      PROVE  After(t)
  <2>0. /\ prio \in [Thread -> Nat] /\ ready \in Seq(Thread) /\ turn \in [Thread -> Nat]
        /\ {current_thread, io} \subseteq Thread \cup {None}
    BY <1>1 DEF IInv, Typed
  <2>1. /\ ~overrun => Older(ready) /\ io \notin Range(ready) /\ current_thread \notin Range(ready)
        /\ ~overrun => Range(ready) \subseteq arrived
    BY <1>1 DEF IInv, Turns, Apart, Live
  <2>2. Next BY <1>1 DEF vars, sched
  <2>3. CASE DispatchHead
    <3>1. ready # <<>> BY <1>1, <2>3 DEF DispatchHead
    <3>2. /\ current_thread' = Head(Sorted(ready))
          /\ Range(ready) = {current_thread'} \cup Range(ready')
          /\ ByPriority => \A u \in Range(ready) : prio[current_thread'] <= prio[u]
      BY <1>1, <2>3, <3>1, HeadDispatched DEF IInv
    <3>3. /\ Sorted(ready) \in Seq(Thread) /\ Sorted(ready) # <<>>
          /\ Range(Sorted(ready)) = Range(ready)
          /\ Older(ready) => Older(Sorted(ready))
      BY <2>0, <3>1, SortedIs
    <3>4. t \in Range(Sorted(ready)) BY <1>1, <3>2, <3>3
    <3>5. ASSUME ~overrun, prio[t] = prio[current_thread'] PROVE turn[t] <= turn[current_thread']
      <4>1. Older(Sorted(ready)) /\ prio[t] = prio[Head(Sorted(ready))] BY <2>1, <3>2, <3>3, <3>5
      <4>2. turn[t] <= turn[Head(Sorted(ready))] BY <2>0, <3>3, <3>4, <4>1, OldestFirst
      <4> QED BY <3>2, <4>2
    <3> QED BY <1>1, <3>2, <3>5
  <2>4. ASSUME NEW u \in Thread, Arrive(u) PROVE After(t)
    <3>1. sys_exec(u) /\ u \notin arrived BY <2>4 DEF Arrive
    <3>2. ~ByPriority /\ current_thread' = u BY <1>1, <3>1 DEF sys_exec, Dispatch
    <3> QED BY <2>1, <3>1, <3>2
  <2>5. CASE Ready
    <3>1. sim_ready BY <2>5 DEF Ready
    <3>2. CASE algo = "ROUND_ROBIN"
      <4>1. ready # <<>> /\ current_thread' = Head(PutBack) /\ ready' = Tail(PutBack) /\ ~ByPriority
        BY <1>1, <3>1, <3>2 DEF sim_ready, Dispatch, ByPriority
      <4>2. current_thread \in Thread /\ current_thread # None
        BY <1>1, <2>0, <4>1, NoneAssumption DEF IInv, FreeOnlyEmpty
      <4>3. Head(PutBack) = ready[1] BY <2>0, <4>1, <4>2, Rotated DEF PutBack
      <4>4. Head(ready) = ready[1] BY <2>0, <4>1, TailIs
      <4>5. ASSUME ~overrun, t \in Range(ready), prio[t] = prio[current_thread']
            PROVE  turn[t] <= turn[current_thread']
        BY <2>0, <2>1, <4>1, <4>3, <4>4, <4>5, OldestFirst
      <4> QED BY <4>1, <4>5
    <3>3. CASE algo # "ROUND_ROBIN" BY <1>1, <2>3, <3>1, <3>3 DEF sim_ready
    <3> QED BY <3>2, <3>3
  <2>6. CASE Transfer
    <3>1. io \in Thread /\ phase = "transfer" BY <1>1, <2>6 DEF IInv, Typed, Transfer
    <3>2. io_complete(io) /\ current_thread' = io
      BY <1>1, <2>6 DEF Transfer, io_complete, Dispatch, sched
    <3>3. ASSUME ByPriority PROVE prio[current_thread'] <= prio[t]
      <4>1. CASE current_thread = None
        <5>1. ready = <<>> /\ ready' = ready
          BY <1>1, <3>1, <3>2, <4>1 DEF IInv, FreeOnlyEmpty, io_complete, Beats
        <5> QED BY <1>1, <5>1, <2>0, RangeIs
      <4>2. CASE current_thread # None
        <5>1. /\ Preemptive /\ prio[io] < prio[current_thread] /\ current_thread \in Thread
              /\ ready' = Append(ready, current_thread)
          BY <1>1, <2>0, <3>2, <4>2 DEF io_complete, Beats, PutBack, Enqueue
        <5>2. t \in Range(ready) \cup {current_thread} BY <1>1, <2>0, <5>1, AppendIs
        <5>3. t \in Thread BY <2>0, <5>1, <5>2, RangeIs
        <5>4. prio[current_thread] <= prio[t]
          <6>1. CASE t = current_thread
            <7>1. prio[t] \in Nat BY <2>0, <5>3
            <7> QED BY <6>1, <7>1
          <6>2. CASE t \in Range(ready) BY <1>1, <4>2, <5>1, <6>2 DEF IInv, TopRuns
          <6> QED BY <5>2, <6>1, <6>2
        <5>5. prio[io] \in Nat /\ prio[current_thread] \in Nat /\ prio[t] \in Nat
          BY <2>0, <3>1, <5>1, <5>3
        <5> QED BY <3>2, <5>1, <5>4, <5>5
      <4> QED BY <4>1, <4>2
    <3> QED BY <2>1, <3>2, <3>3
  <2>7. CASE Cpu
    BY <1>1, <2>3, <2>7 DEF Cpu, sys_read, sys_write, sys_exit, sched
  <2>8. ~(Switch \/ Device \/ Idle)
    BY <1>1 DEF Switch, Device, Idle, io_starting, sched
  <2> QED BY <2>2, <2>4, <2>5, <2>6, <2>7, <2>8 DEF Next
<1>2. IInv /\ [Next]_vars =>
         [current_thread' # current_thread /\ current_thread' # None
          => \A t \in Range(ready') : After(t)]_vars
  <2> HIDE DEF After
  <2> QED BY <1>1
<1> QED BY <1>2, AlwaysIInv, PTL DEF Spec, DispatchOrder

\* sim_ready() of a round robin takes a thread off after its quantum and no
\* sooner, unless io_complete() had dispatched it, and each of the others has
\* the processor for at most a quantum while a thread is ready.
THEOREM QuantumGiven == Spec => QuantumKept
<1> DEFINE Kept ==
       algo = "ROUND_ROBIN" =>
        /\ phase = "arrivals" /\ phase' = "switch" /\ current_thread' # current_thread
           => ran >= quan \/ byIo
        /\ \A t \in Range(ready) : turn[t] <= (Cardinality(Thread) - 1) * quan
<1>1. ASSUME IInv, [Next]_vars, algo = "ROUND_ROBIN" PROVE Kept
  <2>0. /\ quan \in Nat \ {0} /\ ticks_on_cpu \in 0 .. quan /\ ran \in Nat
        /\ ready \in Seq(Thread) /\ turn \in [Thread -> Nat] /\ ~ByPriority
    BY <1>1 DEF IInv, Quanta, Typed, ByPriority
  <2>1. ASSUME phase = "arrivals", phase' = "switch", current_thread' # current_thread
        PROVE  ran >= quan \/ byIo
    <3>1. sim_ready
      BY <1>1, <2>1 DEF vars, sim, Next, Arrive, Ready, Switch, Device, Transfer, Idle, Cpu
    <3>2. ready # <<>> /\ QuantumOver BY <1>1, <2>0, <2>1, <3>1 DEF sim_ready
    <3>3. current_thread # None BY <1>1, <2>0, <3>2 DEF IInv, FreeOnlyEmpty
    <3>4. ~byIo => ticks_on_cpu <= ran BY <1>1, <2>1, <3>3 DEF IInv, Quanta
    <3> QED BY <2>0, <3>2, <3>4 DEF QuantumOver
  <2>2. ASSUME NEW t \in Range(ready) PROVE turn[t] <= (Cardinality(Thread) - 1) * quan
    <3>1. PICK p \in 1 .. Len(ready) : t = ready[p] BY <2>0, <2>2, RangeIs
    <3>2. turn[t] <= Ahead(p) + (IF phase = "arrivals" THEN ticks_on_cpu ELSE ticks_on_cpu - 1)
      BY <1>1, <3>1 DEF IInv, Quanta
    <3>3. Ahead(p) \in Int /\ Ahead(p) + quan <= (Cardinality(Thread) - 1) * quan
      BY <2>0, <3>1, AheadIs
    <3>4. Cardinality(Thread) \in Nat /\ (Cardinality(Thread) - 1) * quan \in Int /\ turn[t] \in Nat
      BY <2>0, <3>1, ThreadAssumption, FS_CardinalityType
    <3> HIDE DEF Kept
    <3>5. PICK m \in Int : m = (Cardinality(Thread) - 1) * quan BY <3>4
    <3>6. ticks_on_cpu \in Nat /\ quan \in Nat /\ ticks_on_cpu <= quan BY <2>0
    <3>7. Ahead(p) + quan <= m BY <3>3, <3>5
    <3> QED BY <3>2, <3>3, <3>4, <3>5, <3>6, <3>7
  <2> QED BY <2>1, <2>2
<1>2. IInv /\ [Next]_vars => [Kept]_vars
  <2>1. ASSUME algo # "ROUND_ROBIN" PROVE Kept BY <2>1
  <2> HIDE DEF Kept
  <2> QED BY <1>1, <2>1
<1> QED BY <1>2, AlwaysIInv, PTL DEF Spec, QuantumKept

-----------------------------------------------------------------------------
\* The accounts of the threads' time.
Counted ==
    /\ clock \in Nat /\ done \in Nat
    /\ used \in [Thread -> Nat] /\ waited \in [Thread -> Nat]
    /\ stat \in [Thread -> Times] /\ memory \in [Thread -> Times]
    /\ served \in Thread \cup {None}

\* Whom the device has served in this tick: not the thread on the processor.
\* Who is current and not on the processor is that one.
Serving ==
    ~overrun =>
       /\ served # None => phase \in {"transfer", "cpu"} /\ served \in Live
                         /\ served # cpu /\ served \notin Range(ioq)
       /\ io # None /\ phase \in {"transfer", "cpu"} => served = io
       /\ phase = "cpu" => current_thread \in {cpu, served}
       /\ displaced # None => phase = "cpu" /\ displaced \in Range(ready)

\* The times of a thread before, on and after the device.  Only a transfer
\* asked for at time zero leaves the end of the first ticks at zero, and it
\* begins at time one.  Until the transfer begins its start is what the node's
\* memory held.
Transfers ==
    ~overrun =>
       /\ clock = 0 => ioq = <<>> /\ io = None
       /\ asked \subseteq arrived
       /\ Range(ioq) \subseteq asked /\ (io # None => io \in asked /\ io \notin Range(ioq))
       /\ \A t \in arrived : stat[t].arival \in Nat
       /\ \A t \in Thread \ asked : stat[t].io_burst_start = memory[t].io_burst_start
       /\ \A t \in Range(ioq) :
             stat[t].first_cpu_burst_end = 0 =>
                /\ clock = 1 /\ phase \in {"arrivals", "switch", "device"}
                /\ io = None /\ ioq = <<t>> /\ stat[t].arival = 0
       /\ \A t \in asked \ Range(ioq) :
             /\ stat[t].io_burst_start > 0
             /\ stat[t].first_cpu_burst_end = 0 =>
                   stat[t].io_burst_start = 1 /\ stat[t].arival = 0
             /\ t # io => stat[t].io_burst_start <= stat[t].io_burst_end
       /\ io # None =>
             /\ done > 0
             /\ done + stat[io].io_burst_start = clock + IF served = None THEN 0 ELSE 1

\* The ticks a thread has been there are those on the processor, those on the
\* device and those on neither.
Began(t) == t \in asked /\ t \notin Range(ioq)
OnDevice(t) ==
    IF ~Began(t) THEN 0
    ELSE IF t = io THEN done
    ELSE stat[t].io_burst_end - stat[t].io_burst_start + 1
Ledger ==
    ~overrun =>
       /\ \A t \in Thread \ arrived : used[t] = 0 /\ waited[t] = 0 /\ stat[t] = memory[t]
       /\ \A t \in Live :
             stat[t].arival + used[t] + waited[t] + OnDevice(t)
                = clock + IF t = served THEN 1 ELSE 0
       /\ \A t \in finished :
             stat[t].arival + used[t] + waited[t] + OnDevice(t) = stat[t].finish + 1

\* First come first served, for a node that held zeros for the first ticks: what
\* the thread has waited before its first ticks, for the device, and for its
\* second ticks, as far as it has come.
Zeroed(t) == memory[t].first_cpu_burst_start = 0 /\ memory[t].first_cpu_burst_end = 0
Overwritten(t) == stat[t].arival = 0 /\ stat[t].io_burst_start = 1
ToDevice(t) == waited[t] + stat[t].arival + stat[t].first_cpu_burst_end + 1
ToSecond(t) == ToDevice(t) + stat[t].io_burst_end + 1
Waits(t) ==
    Zeroed(t) =>
    IF t \notin asked
    THEN used[t] = 0 /\ stat[t].first_cpu_burst_start = 0 /\ stat[t].first_cpu_burst_end = 0
    ELSE \/ ToSecond(t) = stat[t].first_cpu_burst_start + stat[t].io_burst_start
                          + clock + IF t = served THEN 1 ELSE 0
         \/ Overwritten(t)
Waited(t) ==
    Zeroed(t) =>
    IF t \notin asked
    THEN waited[t] + stat[t].arival = stat[t].first_cpu_burst_start
    ELSE \/ ToSecond(t) = stat[t].first_cpu_burst_start + stat[t].io_burst_start
                          + stat[t].second_cpu_burst_start
         \/ Overwritten(t)
InLine(t) == Zeroed(t) => ToDevice(t) = stat[t].first_cpu_burst_start + clock
Served(t) == Zeroed(t) => ToDevice(t) = stat[t].first_cpu_burst_start + stat[t].io_burst_start
FirstCome ==
    algo = "FIRST_COME_FIRST_SERVED" =>
       /\ \A t \in Range(ready) : Waits(t)
       /\ \A t \in (finished \cup {current_thread}) \ {None} : Waited(t)
       /\ \A t \in Range(ioq) : InLine(t)
       /\ \A t \in {io} \ {None} : Served(t)

Accounts == Counted /\ Serving /\ Transfers /\ Ledger /\ FirstCome

\* The times as the processor goes to the head of the queue.
LEMMA StartedIs ==
    ASSUME Typed, Counted, DispatchHead
    PROVE  /\ Started \in [Thread -> Times]
           /\ \A t \in Thread :
                 /\ Started[t].arival = stat[t].arival
                 /\ Started[t].finish = stat[t].finish
                 /\ Started[t].io_burst_start = stat[t].io_burst_start
                 /\ Started[t].io_burst_end = stat[t].io_burst_end
                 /\ Started[t].first_cpu_burst_end = stat[t].first_cpu_burst_end
                 /\ t # current_thread' => Started[t] = stat[t]
                 /\ algo = "FIRST_COME_FIRST_SERVED" /\ t = current_thread' =>
                       /\ Started[t].second_cpu_burst_start = clock + 1
                       /\ Started[t].first_cpu_burst_start =
                             IF stat[t].first_cpu_burst_start = 0 /\ stat[t].first_cpu_burst_end = 0
                             THEN clock + 1 ELSE stat[t].first_cpu_burst_start
<1>0. stat \in [Thread -> Times] /\ clock + 1 \in Int BY DEF Counted
<1>1. CASE ready = <<>>
  <2>1. Started = stat /\ current_thread' = None BY <1>1 DEF Started, DispatchHead
  <2> QED BY <1>0, <2>1, NoneAssumption
<1>2. CASE ready # <<>>
  <2>1. PICK h \in Thread : h = current_thread' BY <1>2, HeadDispatched
  <2>2. Started = Starts(h) BY <1>2, <2>1, HeadDispatched DEF Started
  <2>3. CASE algo # "FIRST_COME_FIRST_SERVED"
    <3>1. Started = stat BY <2>2, <2>3 DEF Starts
    <3> QED BY <1>0, <2>3, <3>1
  <2>4. CASE algo = "FIRST_COME_FIRST_SERVED"
    <3>1. PICK a \in Int : a = IF stat[h].first_cpu_burst_start = 0 /\ stat[h].first_cpu_burst_end = 0
                               THEN clock + 1 ELSE stat[h].first_cpu_burst_start
      BY <1>0 DEF Times
    <3>2. Started = [stat EXCEPT ![h].first_cpu_burst_start = a,
                                 ![h].second_cpu_burst_start = clock + 1]
      BY <2>2, <2>4, <3>1 DEF Starts
    <3>3. Started \in [Thread -> Times] BY <1>0, <3>1, <3>2, ZenonT(60) DEF Times
    <3>4. ASSUME NEW t \in Thread, t # h PROVE Started[t] = stat[t] BY <1>0, <3>2, <3>4
    <3>5. /\ Started[h].arival = stat[h].arival
          /\ Started[h].finish = stat[h].finish
          /\ Started[h].io_burst_start = stat[h].io_burst_start
          /\ Started[h].io_burst_end = stat[h].io_burst_end
          /\ Started[h].first_cpu_burst_end = stat[h].first_cpu_burst_end
          /\ Started[h].second_cpu_burst_start = clock + 1
          /\ Started[h].first_cpu_burst_start = a
      BY <1>0, <3>2 DEF Times
    <3> QED BY <2>1, <3>1, <3>3, <3>4, <3>5
  <2> QED BY <2>3, <2>4
<1> QED BY <1>1, <1>2

\* The types.
LEMMA CountedStep ==
    ASSUME Typed, Typed', Counted, Next
    PROVE  Counted'
<1>0. /\ stat \in [Thread -> Times] /\ clock \in Nat /\ clock \in Int /\ done \in Nat
      /\ used \in [Thread -> Nat] /\ waited \in [Thread -> Nat]
      /\ served \in Thread \cup {None}
  BY DEF Counted
<1>1. stat' \in [Thread -> Times]
  <2>1. ASSUME NEW t \in Thread, Arrive(t) PROVE stat' \in [Thread -> Times]
    BY <1>0, <2>1, ZenonT(60) DEF Arrive, sys_exec, Times
  <2>2. CASE Device
    <3>1. CASE io_starting(Head(ioq)) BY <1>0, <3>1, ZenonT(60) DEF io_starting, Times
    <3> QED BY <1>0, <2>2, <3>1 DEF Device, sched
  <2>3. CASE Transfer
    <3>1. CASE io_complete(io)
      <4>1. stat' = [stat EXCEPT ![io].io_burst_end = clock,
                       ![io].second_cpu_burst_start =
                          IF algo = "FIRST_COME_FIRST_SERVED" /\ current_thread = None
                          THEN clock + 1 ELSE @]
        BY <3>1 DEF io_complete
      <4>2. PICK b \in Int : b = IF algo = "FIRST_COME_FIRST_SERVED" /\ current_thread = None
                                 THEN clock + 1 ELSE stat[io].second_cpu_burst_start
        <5>1. io \in Thread BY <2>3 DEF Transfer, Typed
        <5>2. stat[io].second_cpu_burst_start \in Int BY <1>0, <5>1 DEF Times
        <5>3. clock + 1 \in Int BY <1>0
        <5> QED BY <5>2, <5>3
      <4>3. stat' = [stat EXCEPT ![io].io_burst_end = clock, ![io].second_cpu_burst_start = b]
        BY <4>1, <4>2
      <4> QED BY <1>0, <4>3, ZenonT(60) DEF Times
    <3> QED BY <1>0, <2>3, <3>1 DEF Transfer, sched
  <2>4. CASE Cpu
    <3>1. CASE /\ DispatchHead
               /\ \/ stat' = [Started EXCEPT ![cpu].first_cpu_burst_end = clock]
                  \/ stat' = [Started EXCEPT ![cpu].finish = clock,
                        ![cpu].first_cpu_burst_end = IF stat[cpu].io_burst_start = 0 THEN clock ELSE @]
      <4>1. PICK s \in [Thread -> Times] : s = Started BY <3>1, StartedIs
      <4>2. CASE stat' = [s EXCEPT ![cpu].first_cpu_burst_end = clock]
        BY <1>0, <4>2, ZenonT(60) DEF Times
      <4>3. CASE stat' = [s EXCEPT ![cpu].finish = clock, ![cpu].first_cpu_burst_end =
                             IF stat[cpu].io_burst_start = 0 THEN clock ELSE @]
        BY <1>0, <4>3, ZenonT(60) DEF Times
      <4> QED BY <3>1, <4>1, <4>2, <4>3
    <3> QED BY <1>0, <2>4, <3>1 DEF Cpu, sched, sys_read, sys_write, sys_exit
  <2> QED BY <1>0, <2>1, <2>2, <2>3, <2>4 DEF Next, Ready, sim_ready, Switch, Idle, sched
<1>2. clock' \in Nat /\ done' \in Nat
  BY <1>0 DEF Next, Arrive, Ready, Switch, Device, Transfer, Idle, Cpu, Tick
<1>3. used' \in [Thread -> Nat]
  BY <1>0 DEF Next, Arrive, Ready, Switch, Device, Transfer, Idle, Cpu
<1>4. waited' \in [Thread -> Nat]
  BY <1>0 DEF Next, Arrive, Ready, Switch, Device, Transfer, Idle, Cpu, Tick, history
<1>5. served' \in Thread \cup {None}
  <2>1. CASE Device
    <3>1. ioq # <<>> => Head(ioq) \in Thread BY TailIs DEF Typed
    <3> QED BY <1>0, <2>1, <3>1 DEF Device, Typed
  <2> QED BY <1>0, <2>1 DEF Next, Arrive, Ready, Switch, Transfer, Idle, Cpu, Tick, history
<1>6. memory' \in [Thread -> Times]
  BY DEF Counted, Next, Arrive, Ready, Switch, Device, Transfer, Idle, Cpu, Tick, history
<1> QED BY <1>1, <1>2, <1>3, <1>4, <1>5, <1>6 DEF Counted

-----------------------------------------------------------------------------
\* What the callbacks write.
LEMMA ExecTimes ==
    ASSUME Counted, NEW t \in Thread, sys_exec(t)
    PROVE  /\ \A u \in Thread \ {t} : stat'[u] = stat[u]
           /\ stat'[t].arival = clock
           /\ stat'[t].io_burst_start = stat[t].io_burst_start
           /\ stat'[t].io_burst_end = stat[t].io_burst_end
           /\ stat'[t].first_cpu_burst_end = stat[t].first_cpu_burst_end
           /\ stat'[t].first_cpu_burst_start =
                 IF ~ByPriority /\ current_thread = None THEN clock ELSE stat[t].first_cpu_burst_start
<1>1. stat \in [Thread -> Times] BY DEF Counted
<1>2. stat' = [stat EXCEPT ![t].arival = clock, ![t].first_cpu_burst_start =
                 IF ~ByPriority /\ current_thread = None THEN clock ELSE @]
  BY DEF sys_exec
<1>3. PICK a : a = IF ~ByPriority /\ current_thread = None THEN clock
                   ELSE stat[t].first_cpu_burst_start
  OBVIOUS
<1>4. stat' = [stat EXCEPT ![t].arival = clock, ![t].first_cpu_burst_start = a] BY <1>2, <1>3
<1>5. \A u \in Thread \ {t} : stat'[u] = stat[u] BY <1>1, <1>4
<1>6. /\ stat'[t].arival = clock
      /\ stat'[t].io_burst_start = stat[t].io_burst_start
      /\ stat'[t].io_burst_end = stat[t].io_burst_end
      /\ stat'[t].first_cpu_burst_end = stat[t].first_cpu_burst_end
      /\ stat'[t].first_cpu_burst_start = a
  BY <1>1, <1>4 DEF Times
<1> QED BY <1>3, <1>5, <1>6

LEMMA StartingTimes ==
    ASSUME Counted, NEW t \in Thread, io_starting(t)
    PROVE  /\ \A u \in Thread \ {t} : stat'[u] = stat[u]
           /\ stat'[t].io_burst_start = clock
           /\ stat'[t].arival = stat[t].arival
           /\ stat'[t].finish = stat[t].finish
           /\ stat'[t].io_burst_end = stat[t].io_burst_end
           /\ stat'[t].first_cpu_burst_end = stat[t].first_cpu_burst_end
           /\ stat'[t].first_cpu_burst_start = stat[t].first_cpu_burst_start
           /\ stat'[t].second_cpu_burst_start = stat[t].second_cpu_burst_start
<1>1. stat \in [Thread -> Times] BY DEF Counted
<1>2. stat' = [stat EXCEPT ![t].io_burst_start = clock] BY DEF io_starting
<1> QED BY <1>1, <1>2 DEF Times

LEMMA CompleteTimes ==
    ASSUME Counted, NEW t \in Thread, io_complete(t)
    PROVE  /\ \A u \in Thread \ {t} : stat'[u] = stat[u]
           /\ stat'[t].io_burst_end = clock
           /\ stat'[t].arival = stat[t].arival
           /\ stat'[t].finish = stat[t].finish
           /\ stat'[t].io_burst_start = stat[t].io_burst_start
           /\ stat'[t].first_cpu_burst_end = stat[t].first_cpu_burst_end
           /\ stat'[t].first_cpu_burst_start = stat[t].first_cpu_burst_start
           /\ algo = "FIRST_COME_FIRST_SERVED" /\ current_thread = None =>
                 stat'[t].second_cpu_burst_start = clock + 1
<1>1. stat \in [Thread -> Times] BY DEF Counted
<1>2. stat' = [stat EXCEPT ![t].io_burst_end = clock, ![t].second_cpu_burst_start =
                 IF algo = "FIRST_COME_FIRST_SERVED" /\ current_thread = None
                 THEN clock + 1 ELSE @]
  BY DEF io_complete
<1>3. PICK b : b = IF algo = "FIRST_COME_FIRST_SERVED" /\ current_thread = None
                   THEN clock + 1 ELSE stat[t].second_cpu_burst_start
  OBVIOUS
<1>4. stat' = [stat EXCEPT ![t].io_burst_end = clock, ![t].second_cpu_burst_start = b]
  BY <1>2, <1>3
<1>5. \A u \in Thread \ {t} : stat'[u] = stat[u] BY <1>1, <1>4
<1>6. /\ stat'[t].io_burst_end = clock
      /\ stat'[t].arival = stat[t].arival
      /\ stat'[t].finish = stat[t].finish
      /\ stat'[t].io_burst_start = stat[t].io_burst_start
      /\ stat'[t].first_cpu_burst_end = stat[t].first_cpu_burst_end
      /\ stat'[t].first_cpu_burst_start = stat[t].first_cpu_burst_start
      /\ stat'[t].second_cpu_burst_start = b
  BY <1>1, <1>4 DEF Times
<1> QED BY <1>3, <1>5, <1>6

\* A thread leaves the processor, for a transfer or for good.
Asks == stat' = [Started EXCEPT ![cpu].first_cpu_burst_end = clock]
Ends ==
    stat' = [Started EXCEPT
              ![cpu].finish = clock,
              ![cpu].first_cpu_burst_end = IF stat[cpu].io_burst_start = 0 THEN clock ELSE @]

LEMMA LeaveTimes ==
    ASSUME Typed, Counted, DispatchHead, cpu \in Thread, cpu # current_thread', Asks \/ Ends
    PROVE  /\ \A t \in Thread \ {cpu, current_thread'} : stat'[t] = stat[t]
           /\ \A t \in Thread :
                 /\ stat'[t].arival = stat[t].arival
                 /\ stat'[t].io_burst_start = stat[t].io_burst_start
                 /\ stat'[t].io_burst_end = stat[t].io_burst_end
                 /\ Asks => /\ stat'[t].finish = stat[t].finish
                            /\ stat'[t].first_cpu_burst_end =
                                  IF t = cpu THEN clock ELSE stat[t].first_cpu_burst_end
                 /\ Ends => /\ stat'[t].finish = IF t = cpu THEN clock ELSE stat[t].finish
                            /\ stat'[t].first_cpu_burst_end =
                                  IF t = cpu /\ stat[t].io_burst_start = 0 THEN clock
                                  ELSE stat[t].first_cpu_burst_end
                 /\ t # current_thread' =>
                       /\ stat'[t].first_cpu_burst_start = stat[t].first_cpu_burst_start
                       /\ stat'[t].second_cpu_burst_start = stat[t].second_cpu_burst_start
                 /\ algo = "FIRST_COME_FIRST_SERVED" /\ t = current_thread' =>
                       /\ stat'[t].second_cpu_burst_start = clock + 1
                       /\ stat'[t].first_cpu_burst_start =
                             IF stat[t].first_cpu_burst_start = 0 /\ stat[t].first_cpu_burst_end = 0
                             THEN clock + 1 ELSE stat[t].first_cpu_burst_start
<1> DEFINE Kept(s) ==
       /\ \A t \in Thread \ {cpu} : s[t] = Started[t]
       /\ s[cpu].arival = Started[cpu].arival
       /\ s[cpu].io_burst_start = Started[cpu].io_burst_start
       /\ s[cpu].io_burst_end = Started[cpu].io_burst_end
       /\ s[cpu].first_cpu_burst_start = Started[cpu].first_cpu_burst_start
       /\ s[cpu].second_cpu_burst_start = Started[cpu].second_cpu_burst_start
<1>1. PICK s \in [Thread -> Times] : s = Started BY StartedIs
<1>2. ASSUME Asks
      PROVE  /\ Kept(stat')
             /\ stat'[cpu].finish = Started[cpu].finish
             /\ stat'[cpu].first_cpu_burst_end = clock
  <2>1. stat' = [s EXCEPT ![cpu].first_cpu_burst_end = clock] BY <1>1, <1>2 DEF Asks
  <2>2. /\ \A t \in Thread \ {cpu} : stat'[t] = s[t]
        /\ stat'[cpu].arival = s[cpu].arival
        /\ stat'[cpu].finish = s[cpu].finish
        /\ stat'[cpu].io_burst_start = s[cpu].io_burst_start
        /\ stat'[cpu].io_burst_end = s[cpu].io_burst_end
        /\ stat'[cpu].first_cpu_burst_start = s[cpu].first_cpu_burst_start
        /\ stat'[cpu].second_cpu_burst_start = s[cpu].second_cpu_burst_start
        /\ stat'[cpu].first_cpu_burst_end = clock
    BY <2>1 DEF Times
  <2> QED BY <1>1, <2>2
<1>3. ASSUME Ends
      PROVE  /\ Kept(stat')
             /\ stat'[cpu].finish = clock
             /\ stat'[cpu].first_cpu_burst_end =
                   IF stat[cpu].io_burst_start = 0 THEN clock ELSE Started[cpu].first_cpu_burst_end
  <2>1. PICK e : e = IF stat[cpu].io_burst_start = 0 THEN clock ELSE s[cpu].first_cpu_burst_end
    OBVIOUS
  <2>2. stat' = [s EXCEPT ![cpu].finish = clock, ![cpu].first_cpu_burst_end = e]
    BY <1>1, <1>3, <2>1 DEF Ends
  <2>3. /\ \A t \in Thread \ {cpu} : stat'[t] = s[t]
        /\ stat'[cpu].arival = s[cpu].arival
        /\ stat'[cpu].finish = clock
        /\ stat'[cpu].io_burst_start = s[cpu].io_burst_start
        /\ stat'[cpu].io_burst_end = s[cpu].io_burst_end
        /\ stat'[cpu].first_cpu_burst_start = s[cpu].first_cpu_burst_start
        /\ stat'[cpu].second_cpu_burst_start = s[cpu].second_cpu_burst_start
        /\ stat'[cpu].first_cpu_burst_end = e
    BY <2>2 DEF Times
  <2> QED BY <1>1, <2>1, <2>3
<1>4. Kept(stat') BY <1>2, <1>3
<1>5. \A t \in Thread :
         /\ Started[t].arival = stat[t].arival
         /\ Started[t].finish = stat[t].finish
         /\ Started[t].io_burst_start = stat[t].io_burst_start
         /\ Started[t].io_burst_end = stat[t].io_burst_end
         /\ Started[t].first_cpu_burst_end = stat[t].first_cpu_burst_end
         /\ t # current_thread' => Started[t] = stat[t]
         /\ algo = "FIRST_COME_FIRST_SERVED" /\ t = current_thread' =>
               /\ Started[t].second_cpu_burst_start = clock + 1
               /\ Started[t].first_cpu_burst_start =
                     IF stat[t].first_cpu_burst_start = 0 /\ stat[t].first_cpu_burst_end = 0
                     THEN clock + 1 ELSE stat[t].first_cpu_burst_start
  BY StartedIs
<1>6. \A t \in Thread \ {cpu, current_thread'} : stat'[t] = stat[t] BY <1>4, <1>5
<1> SUFFICES ASSUME NEW t \in Thread
    PROVE  /\ stat'[t].arival = stat[t].arival
           /\ stat'[t].io_burst_start = stat[t].io_burst_start
           /\ stat'[t].io_burst_end = stat[t].io_burst_end
           /\ Asks => /\ stat'[t].finish = stat[t].finish
                      /\ stat'[t].first_cpu_burst_end =
                            IF t = cpu THEN clock ELSE stat[t].first_cpu_burst_end
           /\ Ends => /\ stat'[t].finish = IF t = cpu THEN clock ELSE stat[t].finish
                      /\ stat'[t].first_cpu_burst_end =
                            IF t = cpu /\ stat[t].io_burst_start = 0 THEN clock
                            ELSE stat[t].first_cpu_burst_end
           /\ t # current_thread' =>
                 /\ stat'[t].first_cpu_burst_start = stat[t].first_cpu_burst_start
                 /\ stat'[t].second_cpu_burst_start = stat[t].second_cpu_burst_start
           /\ algo = "FIRST_COME_FIRST_SERVED" /\ t = current_thread' =>
                 /\ stat'[t].second_cpu_burst_start = clock + 1
                 /\ stat'[t].first_cpu_burst_start =
                       IF stat[t].first_cpu_burst_start = 0 /\ stat[t].first_cpu_burst_end = 0
                       THEN clock + 1 ELSE stat[t].first_cpu_burst_start
  BY <1>6
<1>7. CASE t # cpu
  <2>1. stat'[t] = Started[t] BY <1>4, <1>7
  <2> HIDE DEF Kept
  <2> QED BY <1>5, <1>7, <2>1
<1>8. CASE t = cpu
  <2> QED BY <1>2, <1>3, <1>5, <1>8
<1> QED BY <1>7, <1>8

-----------------------------------------------------------------------------
\* Whom the device has served.
LEMMA ServingStep ==
    ASSUME IInv, IInv', Serving, Next
    PROVE  Serving'
<1> SUFFICES ASSUME ~overrun' PROVE Serving'
  BY DEF Serving
<1>1. ~overrun
  BY DEF Next, Arrive, Ready, Switch, Device, Transfer, Idle, Cpu, history
<1>2. ASSUME phase' \in {"arrivals", "switch", "device"}, served' = None, displaced' = None
      PROVE  Serving'
  BY <1>2 DEF Serving
<1>3. CASE phase \in {"arrivals", "switch"}
  <2>1. served = None /\ displaced = None BY <1>1, <1>3 DEF Serving
  <2>2. (\E t \in Thread : Arrive(t)) \/ Ready \/ Switch
    BY <1>3 DEF Next, Device, Transfer, Idle, Cpu
  <2> QED BY <1>2, <1>3, <2>1, <2>2 DEF Arrive, Ready, Switch, history
<1>4. CASE Device
  <2>1. /\ phase = "device" /\ served = None /\ displaced = None /\ displaced' = None
        /\ current_thread' = current_thread /\ cpu' = cpu /\ cpu = current_thread
    BY <1>1, <1>4 DEF Serving, Device, IInv, Agree, Same, io_starting, sched
  <2>2. CASE io' = None
    <3>1. phase' = "cpu" /\ served' = None
      BY <1>4, <2>1, <2>2, TailIs, NoneAssumption DEF Device, IInv, Typed
    <3> QED BY <2>1, <2>2, <3>1 DEF Serving
  <2>3. CASE io' # None
    <3>1. phase' = "transfer" /\ served' = io' BY <1>4, <2>1, <2>3 DEF Device
    <3>2. io' \in Live' /\ io' # current_thread' /\ io' \notin Range(ioq') BY <2>3 DEF IInv, Apart
    <3> QED BY <2>1, <2>3, <3>1, <3>2 DEF Serving
  <2> QED BY <2>2, <2>3
<1>5. CASE Transfer
  <2>1. /\ phase = "transfer" /\ phase' = "cpu" /\ io # None /\ io \in Thread /\ served = io
        /\ cpu = current_thread /\ displaced = None /\ served # cpu /\ served \in Live
        /\ served \notin Range(ioq)
    BY <1>1, <1>5 DEF Serving, Transfer, IInv, Agree, Same, Typed
  <2>2. UNCHANGED <<served, cpu, ioq, arrived, finished>> /\ io' \in {io, None} BY <1>5 DEF Transfer
  <2>3. CASE UNCHANGED <<current_thread, displaced>>
    BY <2>1, <2>2, <2>3 DEF Serving, Live
  <2>4. CASE io_complete(io) /\ current_thread' # current_thread
    <3>1. current_thread' = io BY <2>4 DEF io_complete, Dispatch
    <3>2. displaced' # None => displaced' \in Range(ready')
      <4>1. CASE Beats(io)
        <5>1. ready' = PutBack /\ displaced' = current_thread /\ current_thread # None
          BY <2>4, <4>1 DEF io_complete, Beats
        <5>2. ready \in Seq(Thread) /\ current_thread \in Thread BY <5>1 DEF IInv, Typed
        <5>3. current_thread \in Range(ready') BY <5>1, <5>2, AppendIs DEF PutBack, Enqueue
        <5> QED BY <5>1, <5>3
      <4>2. CASE ~Beats(io) BY <2>1, <2>4, <4>2 DEF io_complete
      <4> QED BY <4>1, <4>2
    <3> QED BY <2>1, <2>2, <3>1, <3>2 DEF Serving, Live
  <2>5. CASE io_complete(io) /\ current_thread' = current_thread
    <3>1. displaced' = displaced
      <4>1. ~Beats(io) BY <2>1, <2>5 DEF io_complete, Dispatch, IInv, Apart, Beats
      <4> QED BY <2>5, <4>1 DEF io_complete
    <3> QED BY <2>3, <2>5, <3>1
  <2> QED BY <1>5, <2>3, <2>4, <2>5 DEF Transfer, sched
<1>6. CASE Idle \/ Cpu
  <2>1. phase' = "arrivals" /\ served' = None /\ displaced' = None
    BY <1>6 DEF Idle, Cpu, Tick
  <2> QED BY <1>2, <2>1
<1>7. CASE ~(phase \in {"arrivals", "switch"})
  BY <1>4, <1>5, <1>6, <1>7 DEF Next, Arrive, Ready, Switch
<1> QED BY <1>3, <1>7

\* The thread on the processor is there for good reason.
LEMMA RunningLives ==
    ASSUME IInv, Serving, ~overrun, phase = "cpu", cpu # None
    PROVE  cpu \in Live /\ cpu \in Thread /\ cpu # io /\ cpu \notin Range(ioq) /\ cpu # served
<1>1. cpu = current_thread \/ cpu \in Range(ready) BY DEF IInv, Agree, Same, Serving
<1>2. cpu \in Thread BY DEF IInv, Typed
<1>3. /\ Range(ready) \cap Range(ioq) = {}
      /\ {current_thread, io} \cap (Range(ready) \cup Range(ioq)) = {}
      /\ current_thread = io => io = None
      /\ Live = Range(ready) \cup Range(ioq) \cup ({current_thread, io} \ {None})
  BY DEF IInv, Apart
<1>4. served # None => served # cpu BY DEF Serving
<1> QED BY <1>1, <1>2, <1>3, <1>4

\* The thread that leaves the processor was the current one; the next comes
\* from the queue.
LEMMA Leaving ==
    ASSUME IInv, Serving, ~overrun, phase = "cpu", cpu # None, cpu # displaced, DispatchHead
    PROVE  /\ cpu = current_thread /\ cpu \in Live /\ cpu \in Thread
           /\ cpu \notin Range(ready) \cup Range(ioq) \cup {io, served, current_thread'}
           /\ current_thread' \in Thread \cup {None}
           /\ Range(ready) = Range(ready') \cup ({current_thread'} \ {None})
           /\ current_thread' \notin Range(ready')
<1>1. cpu = current_thread BY DEF IInv, Agree, Same
<1>2. cpu \in Live /\ cpu \in Thread /\ cpu # io /\ cpu \notin Range(ioq) /\ cpu # served
  BY RunningLives
<1>3. cpu \notin Range(ready) /\ Distinct(ready) /\ Range(ready) \subseteq Thread
  BY <1>1, RangeIs DEF IInv, Apart, Typed
<1>4. CASE ready = <<>>
  <2>1. ready' = ready /\ current_thread' = None BY <1>4 DEF DispatchHead
  <2> QED BY <1>1, <1>2, <1>3, <2>1, NoneAssumption
<1>5. CASE ready # <<>>
  <2>1. /\ current_thread' \in Thread /\ current_thread' \notin Range(ready')
        /\ Range(ready) = {current_thread'} \cup Range(ready')
    BY <1>3, <1>5, HeadDispatched DEF IInv
  <2> QED BY <1>1, <1>2, <1>3, <2>1, NoneAssumption
<1> QED BY <1>4, <1>5

-----------------------------------------------------------------------------
\* The ways a tick ends.
GoesOn == UNCHANGED <<stat, ready, ioq, asked, current_thread, finished, overrun>>
Leaves(cause) ==
    /\ cause /\ DispatchHead /\ cpu # None
    /\ overrun' = (overrun \/ cpu = displaced)
    /\ used' = [used EXCEPT ![cpu] = @ + 1]
Asked ==
    /\ Leaves(Asks) /\ ioq' = Append(ioq, cpu) /\ finished' = finished
    /\ cpu \notin asked /\ asked' = asked \cup {cpu}
Ended ==
    /\ Leaves(Ends) /\ ioq' = ioq /\ asked' = asked
    /\ finished' = finished \cup {cpu} /\ cpu \notin finished

LEMMA TickEnds ==
    ASSUME Idle \/ Cpu
    PROVE  /\ phase = "cpu" /\ phase' = "arrivals" /\ clock' = clock + 1 /\ served' = None
           /\ io' = io /\ done' = done /\ arrived' = arrived /\ algo' = algo /\ memory' = memory
           /\ waited' = [u \in Thread |->
                           IF u \in Live \ {cpu, served} THEN waited[u] + 1 ELSE waited[u]]
           /\ used' = IF cpu = None THEN used ELSE [used EXCEPT ![cpu] = @ + 1]
           /\ GoesOn \/ Asked \/ Ended
<1>1. CASE Idle BY <1>1 DEF Idle, Tick, GoesOn, sched
<1>2. CASE Cpu
  <2>1. /\ phase = "cpu" /\ phase' = "arrivals" /\ clock' = clock + 1 /\ served' = None
        /\ io' = io /\ done' = done /\ arrived' = arrived /\ cpu # None
        /\ waited' = [u \in Thread |->
                        IF u \in Live \ {cpu, served} THEN waited[u] + 1 ELSE waited[u]]
        /\ used' = [used EXCEPT ![cpu] = @ + 1]
    BY <1>2 DEF Cpu, Tick
  <2>2. algo' = algo /\ memory' = memory BY <1>2 DEF Cpu, Tick, sys_read, sys_write, sys_exit, sched
  <2>3. GoesOn \/ Asked \/ Ended
    BY <1>2 DEF Cpu, sys_read, sys_write, sys_exit, sched, GoesOn, Asked, Ended, Leaves, Asks, Ends
  <2> QED BY <2>1, <2>2, <2>3
<1> QED BY <1>1, <1>2

LEMMA TransfersStep ==
    ASSUME IInv, IInv', Counted, Counted', Serving, Serving', Transfers, Ledger, Next
    PROVE  Transfers'
<1> SUFFICES ASSUME ~overrun' PROVE Transfers'
  BY DEF Transfers
<1>1. ~overrun
  BY DEF Next, Arrive, Ready, Switch, Device, Transfer, Idle, Cpu, history
<1>2. /\ clock \in Nat /\ done \in Nat /\ {io, served} \subseteq Thread \cup {None}
      /\ ioq \in Seq(Thread) /\ Range(ioq) \subseteq Thread
      /\ arrived \subseteq Thread
      /\ \A t \in Thread : stat[t] \in Times
  BY RangeIs DEF IInv, Typed, Counted
<1>3. /\ clock = 0 => ioq = <<>> /\ io = None
      /\ asked \subseteq arrived
      /\ Range(ioq) \subseteq asked /\ (io # None => io \in asked /\ io \notin Range(ioq))
      /\ \A t \in arrived : stat[t].arival \in Nat
      /\ \A t \in Thread \ asked : stat[t].io_burst_start = memory[t].io_burst_start
      /\ \A t \in Range(ioq) :
            stat[t].first_cpu_burst_end = 0 =>
               /\ clock = 1 /\ phase \in {"arrivals", "switch", "device"}
               /\ io = None /\ ioq = <<t>> /\ stat[t].arival = 0
      /\ \A t \in asked \ Range(ioq) :
            /\ stat[t].io_burst_start > 0
            /\ stat[t].first_cpu_burst_end = 0 =>
                  stat[t].io_burst_start = 1 /\ stat[t].arival = 0
            /\ t # io => stat[t].io_burst_start <= stat[t].io_burst_end
      /\ io # None =>
            /\ done > 0
            /\ done + stat[io].io_burst_start = clock + IF served = None THEN 0 ELSE 1
  BY <1>1 DEF Transfers
<1>4. /\ Range(ready) \cap Range(ioq) = {}
      /\ {current_thread, io} \cap (Range(ready) \cup Range(ioq)) = {}
      /\ Live = Range(ready) \cup Range(ioq) \cup ({current_thread, io} \ {None})
      /\ Distinct(ioq)
  BY <1>1 DEF IInv, Apart
<1>5. ASSUME NEW t \in Thread, Arrive(t) PROVE Transfers'
  <2>1. /\ sys_exec(t) /\ t \notin arrived /\ phase = "arrivals" /\ phase' = phase
        /\ arrived' = arrived \cup {t}
        /\ UNCHANGED <<clock, io, ioq, done, served, asked, memory>>
    BY <1>5 DEF Arrive
  <2>2. /\ \A u \in Thread \ {t} : stat'[u] = stat[u]
        /\ stat'[t].arival = clock
        /\ stat'[t].io_burst_start = stat[t].io_burst_start
    BY <2>1, ExecTimes
  <2>3. t \notin asked BY <1>3, <2>1
  <2>4. \A u \in asked : stat'[u] = stat[u] BY <1>2, <1>3, <2>2, <2>3
  <2>5. \A u \in arrived' : stat'[u].arival \in Nat BY <1>2, <1>3, <2>1, <2>2
  <2>6. \A u \in Thread : stat'[u].io_burst_start = stat[u].io_burst_start BY <2>2
  <2>7. \A u \in Range(ioq') : stat'[u] = stat[u] BY <1>3, <2>1, <2>4
  <2>8. \A u \in asked' \ Range(ioq') : stat'[u] = stat[u] BY <2>1, <2>4
  <2>9. io' # None => stat'[io'] = stat[io] BY <1>3, <2>1, <2>4
  <2>10. asked' \subseteq arrived' BY <1>3, <2>1
  <2> QED BY <1>3, <2>1, <2>5, <2>6, <2>7, <2>8, <2>9, <2>10 DEF Transfers
<1>6. CASE Ready \/ Switch
  <2>1. /\ phase' \in {"switch", "device"}
        /\ UNCHANGED <<stat, clock, io, ioq, done, served, asked, arrived, memory>>
    BY <1>6 DEF Ready, sim_ready, Switch, sched, history
  <2> QED BY <1>3, <2>1 DEF Transfers
<1>7. CASE Device
  <2>1. phase = "device" /\ served = None /\ UNCHANGED <<clock, asked, arrived, memory>>
    BY <1>1, <1>7 DEF Device, Serving
  <2>2. CASE io = None /\ ioq = <<>>
    <3>1. UNCHANGED <<stat, io, ioq, done, served>> BY <1>7, <2>2 DEF Device, sched
    <3>2. Range(ioq) = {} BY <1>2, <2>2, RangeIs
    <3>3. Range(ioq') = {} BY <3>1, <3>2
    <3> QED BY <1>3, <2>1, <2>2, <3>1, <3>3 DEF Transfers
  <2>3. CASE io = None /\ ioq # <<>>
    <3>1. PICK h \in Thread : h = Head(ioq) BY <1>2, <2>3, TailIs
    <3>2. io' = h /\ ioq' = Tail(ioq) /\ done' = 1 /\ served' = h /\ io_starting(h)
      BY <1>7, <2>3, <3>1 DEF Device
    <3>3. /\ \A u \in Thread \ {h} : stat'[u] = stat[u]
          /\ stat'[h].io_burst_start = clock
          /\ stat'[h].arival = stat[h].arival
          /\ stat'[h].io_burst_end = stat[h].io_burst_end
          /\ stat'[h].first_cpu_burst_end = stat[h].first_cpu_burst_end
      BY <3>2, StartingTimes
    <3>4. /\ h \notin Range(ioq') /\ Range(ioq) = {h} \cup Range(ioq') /\ ioq'  \in Seq(Thread)
      BY <1>2, <1>4, <2>3, <3>1, <3>2, TailIs
    <3>5. clock > 0 /\ h # None /\ h \in asked
      BY <1>2, <1>3, <2>3, <3>1, <3>4, NoneAssumption
    <3>6. ASSUME NEW t \in Range(ioq')
          PROVE  stat'[t].first_cpu_burst_end # 0 /\ t \in asked
      <4>1. t \in Range(ioq) /\ t # h /\ t \in Thread BY <1>2, <3>4
      <4>2. stat'[t] = stat[t] BY <3>3, <4>1
      <4>3. stat[t].first_cpu_burst_end # 0
        <5> SUFFICES ASSUME ioq = <<t>> PROVE FALSE BY <1>3, <4>1
        <5>1. Head(ioq) = t OBVIOUS
        <5> QED BY <3>1, <4>1, <5>1
      <4> QED BY <1>3, <4>1, <4>2, <4>3
    <3>7. ASSUME NEW t \in asked' \ Range(ioq')
          PROVE  /\ stat'[t].io_burst_start > 0
                 /\ stat'[t].first_cpu_burst_end = 0 =>
                       stat'[t].io_burst_start = 1 /\ stat'[t].arival = 0
                 /\ t # io' => stat'[t].io_burst_start <= stat'[t].io_burst_end
      <4>1. CASE t = h BY <1>3, <3>2, <3>3, <3>4, <3>5, <4>1
      <4>2. CASE t # h
        <5>1. t \in asked \ Range(ioq) /\ t \in Thread /\ t # io
          BY <1>2, <1>3, <2>1, <2>3, <3>4, <4>2, NoneAssumption
        <5> QED BY <1>3, <3>3, <4>2, <5>1
      <4> QED BY <4>1, <4>2
    <3>8. \A t \in Thread \ asked' : stat'[t].io_burst_start = memory'[t].io_burst_start
      BY <1>3, <2>1, <3>3, <3>5
    <3>9. /\ done' > 0
          /\ done' + stat'[io'].io_burst_start = clock' + IF served' = None THEN 0 ELSE 1
      BY <1>2, <2>1, <3>2, <3>3, <3>5
    <3>10. clock' # 0 /\ asked' \subseteq arrived' /\ io' \in asked' /\ io' \notin Range(ioq')
      BY <1>2, <1>3, <2>1, <3>2, <3>4, <3>5
    <3>11. \A t \in arrived' : stat'[t].arival \in Nat
      BY <1>2, <1>3, <2>1, <3>3
    <3>12. Range(ioq') \subseteq asked' BY <2>1, <3>6
    <3>13. \A t \in Range(ioq') : stat'[t].first_cpu_burst_end # 0 BY <3>6
    <3> QED BY <3>7, <3>8, <3>9, <3>10, <3>11, <3>12, <3>13 DEF Transfers
  <2>4. CASE io # None
    <3>1. done' = done + 1 /\ served' = io /\ UNCHANGED <<stat, io, ioq>>
      BY <1>7, <2>4 DEF Device, sched
    <3>2. /\ done' > 0
          /\ done' + stat'[io'].io_burst_start = clock' + IF served' = None THEN 0 ELSE 1
      <4>1. PICK s \in Int : s = stat[io].io_burst_start BY <1>2, <2>4 DEF Times
      <4>2. done > 0 /\ done + s = clock BY <1>2, <1>3, <2>1, <2>4, <4>1
      <4>3. done + 1 > 0 /\ (done + 1) + s = clock + 1 BY <1>2, <4>1, <4>2
      <4>4. served' # None /\ clock' = clock /\ stat'[io'].io_burst_start = s
        BY <2>1, <2>4, <3>1, <4>1
      <4> QED BY <3>1, <4>3, <4>4
    <3>3. \A t \in Range(ioq') : stat'[t].first_cpu_burst_end # 0 BY <1>3, <2>4, <3>1
    <3>4. \A t \in asked' \ Range(ioq') :
             /\ stat'[t].io_burst_start > 0
             /\ stat'[t].first_cpu_burst_end = 0 =>
                   stat'[t].io_burst_start = 1 /\ stat'[t].arival = 0
             /\ t # io' => stat'[t].io_burst_start <= stat'[t].io_burst_end
      BY <1>3, <2>1, <3>1
    <3>5. \A t \in Thread \ asked' : stat'[t].io_burst_start = memory'[t].io_burst_start
      BY <1>3, <2>1, <3>1
    <3>6. /\ clock' = 0 => ioq' = <<>> /\ io' = None
          /\ asked' \subseteq arrived' /\ Range(ioq') \subseteq asked'
          /\ io' \in asked' /\ io' \notin Range(ioq')
          /\ \A t \in arrived' : stat'[t].arival \in Nat
      BY <1>3, <2>1, <2>4, <3>1
    <3> QED BY <3>2, <3>3, <3>4, <3>5, <3>6 DEF Transfers
  <2> QED BY <2>2, <2>3, <2>4
<1>8. CASE Transfer
  <2>1. /\ phase = "transfer" /\ io # None /\ io \in Thread /\ served = io
        /\ UNCHANGED <<clock, ioq, done, served, asked, arrived, memory>>
    BY <1>1, <1>8 DEF Transfer, IInv, Typed, Serving
  <2>2. CASE UNCHANGED <<stat, io>> BY <1>3, <2>1, <2>2 DEF Transfers
  <2>3. CASE io_complete(io) /\ io' = None
    <3>1. /\ \A u \in Thread \ {io} : stat'[u] = stat[u]
          /\ stat'[io].io_burst_end = clock
          /\ stat'[io].arival = stat[io].arival
          /\ stat'[io].io_burst_start = stat[io].io_burst_start
          /\ stat'[io].first_cpu_burst_end = stat[io].first_cpu_burst_end
      BY <2>1, <2>3, CompleteTimes
    <3>2. stat[io].io_burst_start \in Int BY <1>2, <2>1 DEF Times
    <3>3. stat[io].io_burst_start <= clock /\ clock > 0 /\ stat[io].io_burst_start > 0
      BY <1>2, <1>3, <2>1, <3>2
    <3>4. ASSUME NEW t \in asked' \ Range(ioq')
          PROVE  /\ stat'[t].io_burst_start > 0
                 /\ stat'[t].first_cpu_burst_end = 0 =>
                       stat'[t].io_burst_start = 1 /\ stat'[t].arival = 0
                 /\ stat'[t].io_burst_start <= stat'[t].io_burst_end
      <4>1. t \in asked \ Range(ioq) /\ t \in Thread BY <1>2, <1>3, <2>1
      <4>2. CASE t = io BY <1>3, <2>1, <3>1, <3>3, <4>1, <4>2
      <4>3. CASE t # io BY <1>3, <3>1, <4>1, <4>3
      <4> QED BY <4>2, <4>3
    <3>5. \A t \in arrived' : stat'[t].arival \in Nat BY <1>2, <1>3, <2>1, <3>1
    <3>6. \A t \in Range(ioq') : stat'[t].first_cpu_burst_end # 0
      BY <1>2, <1>3, <2>1, <3>1
    <3>7. \A t \in Thread \ asked' : stat'[t].io_burst_start = memory'[t].io_burst_start
      BY <1>3, <2>1, <3>1
    <3> QED BY <1>3, <2>1, <2>3, <3>3, <3>4, <3>5, <3>6, <3>7 DEF Transfers
  <2> QED BY <1>8, <2>2, <2>3 DEF Transfer, sched
<1>9. CASE Idle \/ Cpu
  <2>1. /\ phase = "cpu" /\ phase' = "arrivals" /\ clock' = clock + 1 /\ served' = None
        /\ io' = io /\ done' = done /\ arrived' = arrived /\ memory' = memory
        /\ GoesOn \/ Asked \/ Ended
    BY <1>9, TickEnds
  <2>2. clock' # 0 BY <1>2, <2>1
  <2>3. \A t \in Range(ioq) : stat[t].first_cpu_burst_end # 0 BY <1>3, <2>1
  <2>4. io # None => done > 0 /\ done + stat[io].io_burst_start = clock'
    BY <1>1, <1>3, <2>1 DEF Serving
  <2>5. CASE GoesOn
    <3>1. stat' = stat /\ ioq' = ioq /\ asked' = asked BY <2>5 DEF GoesOn
    <3> QED BY <1>2, <1>3, <2>1, <2>2, <2>3, <2>4, <3>1 DEF Transfers
  <2>6. CASE Asked \/ Ended
    <3>1. /\ DispatchHead /\ cpu # None /\ cpu # displaced
      BY <2>6 DEF Asked, Ended, Leaves
    <3>2. /\ cpu \in Live /\ cpu \in Thread
          /\ cpu \notin Range(ready) \cup Range(ioq) \cup {io, served, current_thread'}
      BY <1>1, <2>1, <3>1, Leaving
    <3>3. Asks \/ Ends BY <2>6 DEF Asked, Ended, Leaves
    <3>4. \A t \in Thread :
             /\ stat'[t].arival = stat[t].arival
             /\ stat'[t].io_burst_start = stat[t].io_burst_start
             /\ stat'[t].io_burst_end = stat[t].io_burst_end
             /\ Asks => stat'[t].first_cpu_burst_end =
                           IF t = cpu THEN clock ELSE stat[t].first_cpu_burst_end
             /\ Ends => stat'[t].first_cpu_burst_end =
                           IF t = cpu /\ stat[t].io_burst_start = 0 THEN clock
                           ELSE stat[t].first_cpu_burst_end
      BY <3>1, <3>2, <3>3, LeaveTimes DEF IInv
    <3>5. \A t \in arrived' : stat'[t].arival \in Nat BY <1>2, <1>3, <2>1, <3>4
    <3>6. io' # None =>
             /\ done' > 0
             /\ done' + stat'[io'].io_burst_start = clock' + IF served' = None THEN 0 ELSE 1
      <4>1. io # None => io \in Thread /\ stat[io].io_burst_start \in Int BY <1>2 DEF Times
      <4> QED BY <1>2, <2>1, <2>4, <3>4, <4>1
    <3>7. ASSUME NEW t \in Range(ioq)
          PROVE  stat'[t].first_cpu_burst_end # 0
      <4>1. t \in Thread /\ t # cpu BY <1>2, <3>2
      <4> QED BY <1>3, <2>3, <3>3, <3>4, <4>1
    <3>8. ASSUME NEW t \in asked \ Range(ioq)
          PROVE  /\ stat'[t].io_burst_start > 0
                 /\ stat'[t].first_cpu_burst_end = 0 /\ (t # cpu \/ Ends) =>
                       stat'[t].io_burst_start = 1 /\ stat'[t].arival = 0
                 /\ t # io => stat'[t].io_burst_start <= stat'[t].io_burst_end
      <4>1. t \in Thread /\ stat[t].io_burst_start > 0 /\ stat[t].io_burst_start \in Int
        BY <1>2, <1>3 DEF Times
      <4>2. (t # cpu \/ Ends) => stat'[t].first_cpu_burst_end = stat[t].first_cpu_burst_end
        BY <3>3, <3>4, <4>1
      <4> QED BY <1>3, <3>4, <3>8, <4>1, <4>2
    <3>9. CASE Asked
      <4>1. /\ Asks /\ ioq' = Append(ioq, cpu) /\ cpu \notin asked /\ asked' = asked \cup {cpu}
        BY <3>9 DEF Asked, Leaves
      <4>2. Range(ioq') = Range(ioq) \cup {cpu} BY <1>2, <3>2, <4>1, AppendIs
      <4>3. ASSUME clock = 0 PROVE clock' = 1 /\ io' = None /\ ioq' = <<cpu>> /\ stat'[cpu].arival = 0
        <5>1. ioq = <<>> /\ io = None BY <1>3, <4>3
        <5>2. ioq' = <<cpu>> BY <4>1, <5>1
        <5>3. stat[cpu].arival + used[cpu] + waited[cpu] + OnDevice(cpu) = clock
          BY <1>1, <1>2, <3>2 DEF Ledger
        <5>4. /\ stat[cpu].arival \in Nat /\ used[cpu] \in Nat /\ waited[cpu] \in Nat
              /\ OnDevice(cpu) = 0
          BY <1>3, <3>2, <4>1 DEF Counted, OnDevice, Began, Live
        <5>5. stat[cpu].arival = 0
          <6>1. PICK a \in Nat, u \in Nat, w \in Nat :
                   a = stat[cpu].arival /\ u = used[cpu] /\ w = waited[cpu]
            BY <5>4
          <6>2. a + u + w + 0 = 0 BY <4>3, <5>3, <5>4, <6>1
          <6>3. a = 0 BY <6>2
          <6> QED BY <6>1, <6>3
        <5>6. stat'[cpu].arival = 0 BY <3>2, <3>4, <5>5
        <5>7. clock' = 1 /\ io' = None BY <2>1, <4>3, <5>1
        <5> QED BY <5>2, <5>6, <5>7
      <4>4. stat'[cpu].first_cpu_burst_end = clock BY <3>2, <3>4, <4>1
      <4>5. ASSUME NEW t \in Range(ioq')
            PROVE  stat'[t].first_cpu_burst_end = 0 =>
                         /\ clock' = 1 /\ phase' \in {"arrivals", "switch", "device"}
                         /\ io' = None /\ ioq' = <<t>> /\ stat'[t].arival = 0
        <5>1. CASE t = cpu BY <2>1, <4>3, <4>4, <5>1
        <5>2. CASE t \in Range(ioq) BY <3>7, <5>2
        <5> QED BY <4>2, <5>1, <5>2
      <4>6. ASSUME NEW t \in asked' \ Range(ioq')
            PROVE  t \in asked \ Range(ioq) /\ t # cpu
        BY <4>1, <4>2
      <4>7. /\ asked' \subseteq arrived' /\ Range(ioq') \subseteq asked'
            /\ io' # None => io' \in asked' /\ io' \notin Range(ioq')
        BY <1>3, <2>1, <3>2, <4>1, <4>2 DEF Live
      <4>8. \A t \in Thread \ asked' : stat'[t].io_burst_start = memory'[t].io_burst_start
        BY <1>3, <2>1, <3>4, <4>1
      <4>9. ASSUME NEW t \in asked' \ Range(ioq')
            PROVE  /\ stat'[t].io_burst_start > 0
                   /\ stat'[t].first_cpu_burst_end = 0 =>
                         stat'[t].io_burst_start = 1 /\ stat'[t].arival = 0
                   /\ t # io' => stat'[t].io_burst_start <= stat'[t].io_burst_end
        BY <2>1, <3>8, <4>6
      <4> QED BY <2>2, <3>5, <3>6, <4>5, <4>7, <4>8, <4>9 DEF Transfers
    <3>10. CASE Ended
      <4>1. Ends /\ ioq' = ioq /\ asked' = asked BY <3>10 DEF Ended, Leaves
      <4>2. \A t \in Thread \ asked' : stat'[t].io_burst_start = memory'[t].io_burst_start
        BY <1>3, <2>1, <3>4, <4>1
      <4>3. ASSUME NEW t \in asked' \ Range(ioq')
            PROVE  /\ stat'[t].io_burst_start > 0
                   /\ stat'[t].first_cpu_burst_end = 0 =>
                         stat'[t].io_burst_start = 1 /\ stat'[t].arival = 0
                   /\ t # io' => stat'[t].io_burst_start <= stat'[t].io_burst_end
        BY <2>1, <3>8, <4>1
      <4>4. /\ asked' \subseteq arrived' /\ Range(ioq') \subseteq asked'
            /\ io' # None => io' \in asked' /\ io' \notin Range(ioq')
        BY <1>3, <2>1, <4>1
      <4>5. \A t \in Range(ioq') : stat'[t].first_cpu_burst_end # 0 BY <3>7, <4>1
      <4> QED BY <2>2, <3>5, <3>6, <4>2, <4>3, <4>4, <4>5 DEF Transfers
    <3> QED BY <2>6, <3>9, <3>10
  <2> QED BY <2>1, <2>5, <2>6
<1> QED BY <1>5, <1>6, <1>7, <1>8, <1>9 DEF Next

-----------------------------------------------------------------------------
\* The ledger.
LEMMA OnDeviceIs ==
    ASSUME Counted, Transfers, ~overrun, NEW t \in Thread
    PROVE  OnDevice(t) \in Nat
<1>1. /\ stat[t].io_burst_start \in Int /\ stat[t].io_burst_end \in Int /\ done \in Nat
  BY DEF Counted, Times
<1>2. Began(t) /\ t # io => stat[t].io_burst_start <= stat[t].io_burst_end
  BY DEF Transfers, Began
<1>3. PICK s \in Int, e \in Int : s = stat[t].io_burst_start /\ e = stat[t].io_burst_end BY <1>1
<1>4. s <= e => e - s + 1 \in Nat BY <1>3
<1> QED BY <1>1, <1>2, <1>3, <1>4 DEF OnDevice

\* A thread that is there has, in a tick, the processor, the device or to wait.
LEMMA TickCounts ==
    ASSUME IInv, Counted, Serving, ~overrun, Idle \/ Cpu, NEW t \in Thread
    PROVE  /\ t \notin Live => used'[t] = used[t] /\ waited'[t] = waited[t]
           /\ t = served => used'[t] = used[t] /\ waited'[t] = waited[t]
           /\ t = cpu => used'[t] = used[t] + 1 /\ waited'[t] = waited[t]
           /\ t \in Live \ {cpu, served} => used'[t] = used[t] /\ waited'[t] = waited[t] + 1
<1>1. /\ phase = "cpu"
      /\ waited' = [u \in Thread |->
                      IF u \in Live \ {cpu, served} THEN waited[u] + 1 ELSE waited[u]]
      /\ used' = IF cpu = None THEN used ELSE [used EXCEPT ![cpu] = @ + 1]
  BY TickEnds
<1>2. cpu # None => cpu \in Live /\ cpu # served /\ cpu \in Thread BY <1>1, RunningLives
<1>3. t # None BY NoneAssumption
<1>4. used \in [Thread -> Nat] /\ waited \in [Thread -> Nat] BY DEF Counted
<1>5. used'[t] = IF t = cpu THEN used[t] + 1 ELSE used[t] BY <1>1, <1>3, <1>4
<1>6. waited'[t] = IF t \in Live \ {cpu, served} THEN waited[t] + 1 ELSE waited[t] BY <1>1
<1> QED BY <1>2, <1>3, <1>5, <1>6

LEMMA LedgerStep ==
    ASSUME IInv, IInv', Counted, Counted', Serving, Serving', Transfers, Transfers', Ledger, Next
    PROVE  Ledger'
<1> SUFFICES ASSUME ~overrun' PROVE Ledger'
  BY DEF Ledger
<1>1. ~overrun
  BY DEF Next, Arrive, Ready, Switch, Device, Transfer, Idle, Cpu, history
<1>2. /\ clock \in Nat /\ done \in Nat /\ {io, served} \subseteq Thread \cup {None}
      /\ ioq \in Seq(Thread) /\ Range(ioq) \subseteq Thread
      /\ arrived \subseteq Thread /\ finished \subseteq arrived /\ Live = arrived \ finished
      /\ \A t \in Thread : stat[t] \in Times
  BY <1>1, RangeIs DEF IInv, Typed, Counted, Live, Apart
<1>3. /\ \A t \in Thread \ arrived : used[t] = 0 /\ waited[t] = 0 /\ stat[t] = memory[t]
      /\ \A t \in Live :
            stat[t].arival + used[t] + waited[t] + OnDevice(t)
               = clock + IF t = served THEN 1 ELSE 0
      /\ \A t \in finished :
            stat[t].arival + used[t] + waited[t] + OnDevice(t) = stat[t].finish + 1
  BY <1>1 DEF Ledger
<1>4. /\ {current_thread, io} \cap (Range(ready) \cup Range(ioq)) = {}
      /\ Live = Range(ready) \cup Range(ioq) \cup ({current_thread, io} \ {None})
      /\ Distinct(ioq)
  BY <1>1 DEF IInv, Apart
<1>0. memory' = memory /\ asked \subseteq arrived /\ Range(ioq) \subseteq asked
  BY <1>1 DEF Next, Arrive, Ready, Switch, Device, Transfer, Idle, Cpu, Tick, history, Transfers
<1>5. ASSUME UNCHANGED <<stat, used, waited, io, ioq, asked, done, arrived, finished, clock, served>>
      PROVE  Ledger'
  <2>1. \A t \in Thread : OnDevice(t)' = OnDevice(t) BY <1>5 DEF OnDevice, Began
  <2> QED BY <1>0, <1>2, <1>3, <1>5, <2>1 DEF Ledger, Live
\* What a thread has had does not change but for a step's own thread.
<1>6. ASSUME NEW t \in Thread, t \in Live', UNCHANGED <<used, waited, clock, finished>>,
             arrived' = arrived \cup {t},
             \A u \in Thread \ {t} : stat'[u] = stat[u] /\ OnDevice(u)' = OnDevice(u),
             \A u \in Thread \ {t} : u = served <=> u = served',
             stat'[t].arival + used[t] + waited[t] + OnDevice(t)'
                = clock + IF t = served' THEN 1 ELSE 0
      PROVE  Ledger'
  <2>1. ASSUME NEW u \in Thread \ arrived'
        PROVE  used'[u] = 0 /\ waited'[u] = 0 /\ stat'[u] = memory'[u]
    BY <1>0, <1>3, <1>6
  <2>2. ASSUME NEW u \in Live'
        PROVE  stat'[u].arival + used'[u] + waited'[u] + OnDevice(u)'
                  = clock' + IF u = served' THEN 1 ELSE 0
    <3>1. CASE u = t BY <1>6, <3>1
    <3>2. CASE u # t
      <4>1. u \in Live /\ u \in Thread BY <1>2, <1>6, <3>2 DEF Live
      <4>2. stat'[u] = stat[u] /\ OnDevice(u)' = OnDevice(u) /\ (u = served <=> u = served')
        BY <1>6, <3>2, <4>1
      <4> QED BY <1>3, <1>6, <4>1, <4>2
    <3> QED BY <3>1, <3>2
  <2>3. ASSUME NEW u \in finished'
        PROVE  stat'[u].arival + used'[u] + waited'[u] + OnDevice(u)' = stat'[u].finish + 1
    <3>1. u \in finished /\ u # t /\ u \in Thread BY <1>2, <1>6 DEF Live
    <3>2. stat'[u] = stat[u] /\ OnDevice(u)' = OnDevice(u) BY <1>6, <3>1
    <3> QED BY <1>3, <1>6, <3>1, <3>2
  <2> QED BY <2>1, <2>2, <2>3 DEF Ledger
<1>7. ASSUME NEW t \in Thread, Arrive(t) PROVE Ledger'
  <2>1. /\ sys_exec(t) /\ t \notin arrived /\ phase = "arrivals" /\ arrived' = arrived \cup {t}
        /\ UNCHANGED <<clock, io, ioq, asked, done, served, finished, used, waited>>
    BY <1>7 DEF Arrive
  <2>2. /\ \A u \in Thread \ {t} : stat'[u] = stat[u]
        /\ stat'[t].arival = clock
    BY <2>1, ExecTimes
  <2>3. t \notin asked /\ used[t] = 0 /\ waited[t] = 0 BY <1>0, <1>3, <2>1
  <2>4. OnDevice(t)' = 0 BY <2>1, <2>3 DEF OnDevice, Began
  <2>5. \A u \in Thread \ {t} : OnDevice(u)' = OnDevice(u)
    BY <2>1, <2>2 DEF OnDevice, Began
  <2>6. served = None BY <1>1, <2>1 DEF Serving
  <2>7. t \in Live' BY <1>2, <2>1 DEF Live
  <2>8. stat'[t].arival + used[t] + waited[t] + OnDevice(t)'
           = clock + IF t = served' THEN 1 ELSE 0
    BY <1>2, <2>1, <2>2, <2>3, <2>4, <2>6, NoneAssumption
  <2> HIDE DEF OnDevice
  <2> QED BY <1>6, <2>1, <2>2, <2>5, <2>7, <2>8
<1>8. CASE Ready \/ Switch
  BY <1>5, <1>8 DEF Ready, sim_ready, Switch, sched, history
<1>9. CASE Device
  <2>1. /\ phase = "device" /\ served = None
        /\ UNCHANGED <<clock, arrived, asked, finished, used, waited>>
    BY <1>1, <1>9 DEF Device, Serving
  <2>2. CASE io = None /\ ioq = <<>>
    BY <1>5, <1>9, <2>1, <2>2 DEF Device, sched
  <2>3. CASE io = None /\ ioq # <<>>
    <3>1. PICK h \in Thread : h = Head(ioq) BY <1>2, <2>3, TailIs
    <3>2. io' = h /\ ioq' = Tail(ioq) /\ done' = 1 /\ served' = h /\ io_starting(h)
      BY <1>9, <2>3, <3>1 DEF Device
    <3>3. /\ \A u \in Thread \ {h} : stat'[u] = stat[u]
          /\ stat'[h].arival = stat[h].arival
      BY <3>2, StartingTimes
    <3>4. h \in Range(ioq) /\ Range(ioq) = {h} \cup Range(ioq') /\ h \notin Range(ioq')
      BY <1>2, <1>4, <2>3, <3>1, <3>2, TailIs
    <3>5. Began(h)' /\ ~Began(h) BY <1>0, <2>1, <3>4 DEF Began
    <3>6. OnDevice(h) = 0 /\ OnDevice(h)' = 1 BY <3>2, <3>5 DEF OnDevice
    <3>7. \A u \in Thread \ {h} : OnDevice(u)' = OnDevice(u)
      <4> SUFFICES ASSUME NEW u \in Thread \ {h} PROVE OnDevice(u)' = OnDevice(u) OBVIOUS
      <4>1. Began(u)' <=> Began(u) BY <2>1, <3>4 DEF Began
      <4>2. u # io /\ u # io' BY <2>3, <3>2, NoneAssumption
      <4> QED BY <3>3, <4>1, <4>2 DEF OnDevice
    <3>8. h \in Live /\ h \in Live' /\ arrived' = arrived \cup {h}
      BY <1>2, <1>4, <2>1, <3>4 DEF Live
    <3>9. stat[h].arival + used[h] + waited[h] + 0 = clock
      BY <1>3, <2>1, <3>6, <3>8, <1>2, NoneAssumption
    <3>10. stat'[h].arival + used[h] + waited[h] + OnDevice(h)'
             = clock + IF h = served' THEN 1 ELSE 0
      <4>1. PICK a \in Int, u \in Nat, w \in Nat :
               a = stat[h].arival /\ u = used[h] /\ w = waited[h]
        BY <1>2 DEF Counted, Times
      <4>2. a + u + w + 1 = clock + 1 BY <1>2, <3>9, <4>1
      <4> QED BY <3>2, <3>3, <3>6, <4>1, <4>2
    <3>11. \A u \in Thread \ {h} : u = served <=> u = served'
      BY <2>1, <3>2, NoneAssumption
    <3> HIDE DEF OnDevice
    <3> QED BY <1>6, <2>1, <3>3, <3>7, <3>8, <3>10, <3>11
  <2>4. CASE io # None
    <3>1. done' = done + 1 /\ served' = io /\ UNCHANGED <<stat, io, ioq>> /\ io \in Thread
      BY <1>2, <1>9, <2>4 DEF Device, sched
    <3>2. \A u : Began(u)' <=> Began(u) BY <2>1, <3>1 DEF Began
    <3>3. OnDevice(io) = done /\ OnDevice(io)' = done + 1
      <4>1. Began(io) BY <1>1, <2>4 DEF Transfers, Began
      <4> QED BY <3>1, <3>2, <4>1 DEF OnDevice
    <3>4. \A u \in Thread \ {io} : OnDevice(u)' = OnDevice(u) BY <3>1, <3>2 DEF OnDevice
    <3>5. io \in Live /\ io \in Live' /\ arrived' = arrived \cup {io}
      BY <1>2, <1>4, <2>1, <2>4 DEF Live
    <3>6. stat[io].arival + used[io] + waited[io] + done = clock
      BY <1>2, <1>3, <2>1, <2>4, <3>3, <3>5
    <3>7. stat'[io].arival + used[io] + waited[io] + OnDevice(io)'
             = clock + IF io = served' THEN 1 ELSE 0
      <4>1. PICK a \in Int, u \in Nat, w \in Nat :
               a = stat[io].arival /\ u = used[io] /\ w = waited[io]
        BY <1>2, <3>1 DEF Counted, Times
      <4>2. a + u + w + done = clock /\ done \in Nat /\ clock \in Nat BY <1>2, <3>6, <4>1
      <4>3. a + u + w + (done + 1) = clock + 1 BY <4>2
      <4> QED BY <3>1, <3>3, <4>1, <4>3
    <3>8. \A u \in Thread \ {io} : u = served <=> u = served'
      BY <2>1, <3>1, NoneAssumption
    <3> HIDE DEF OnDevice
    <3> QED BY <1>6, <2>1, <3>1, <3>4, <3>5, <3>7, <3>8
  <2> QED BY <2>2, <2>3, <2>4
<1>10. CASE Transfer
  <2>1. /\ phase = "transfer" /\ io # None /\ io \in Thread /\ served = io
        /\ UNCHANGED <<clock, done, served, ioq, asked, arrived, finished, used, waited>>
    BY <1>1, <1>10 DEF Transfer, IInv, Typed, Serving
  <2>2. CASE UNCHANGED <<stat, io>> BY <1>5, <2>1, <2>2
  <2>3. CASE io_complete(io) /\ io' = None
    <3>0. PICK o \in Thread : o = io /\ io_complete(o) BY <2>1, <2>3
    <3>1. /\ \A u \in Thread \ {o} : stat'[u] = stat[u]
          /\ stat'[o].io_burst_end = clock
          /\ stat'[o].arival = stat[o].arival
          /\ stat'[o].io_burst_start = stat[o].io_burst_start
      BY <3>0, CompleteTimes
    <3>2. PICK s \in Int : s = stat[o].io_burst_start BY <1>2 DEF Times
    <3>3. Began(o) /\ done + s = clock + 1
      BY <1>1, <2>1, <3>0, <3>2, NoneAssumption DEF Transfers, Began
    <3>9. \A u : Began(u)' <=> Began(u) BY <2>1 DEF Began
    <3>4. OnDevice(o) = done BY <3>0, <3>3 DEF OnDevice
    <3>5. OnDevice(o)' = done
      <4>1. OnDevice(o)' = clock - s + 1
        BY <2>3, <3>1, <3>2, <3>3, <3>9, NoneAssumption DEF OnDevice
      <4> QED BY <1>2, <3>3, <4>1
    <3>6. \A u \in Thread \ {o} : OnDevice(u)' = OnDevice(u)
      BY <2>3, <3>0, <3>1, <3>9, NoneAssumption DEF OnDevice
    <3>7. o \in Live /\ o \in Live' /\ arrived' = arrived \cup {o}
      BY <1>2, <1>4, <2>1, <3>0 DEF Live
    <3>8. stat'[o].arival + used[o] + waited[o] + OnDevice(o)'
             = clock + IF o = served' THEN 1 ELSE 0
      BY <1>3, <2>1, <3>0, <3>1, <3>4, <3>5, <3>7
    <3> HIDE DEF OnDevice
    <3> QED BY <1>6, <2>1, <3>1, <3>6, <3>7, <3>8
  <2> QED BY <1>10, <2>2, <2>3 DEF Transfer, sched
<1>11. CASE Idle \/ Cpu
  <2>1. /\ phase = "cpu" /\ clock' = clock + 1 /\ served' = None
        /\ io' = io /\ done' = done /\ arrived' = arrived
        /\ GoesOn \/ Asked \/ Ended
    BY <1>11, TickEnds
  <2>10. \A t : Began(t)' <=> Began(t)
    <3>1. CASE GoesOn \/ Ended BY <3>1 DEF GoesOn, Ended, Began
    <3>2. CASE Asked
      <4>1. /\ ioq' = Append(ioq, cpu) /\ cpu \notin asked /\ asked' = asked \cup {cpu}
            /\ cpu \in Thread
        BY <1>1, <2>1, <3>2, RunningLives DEF Asked, Leaves
      <4>2. Range(ioq') = Range(ioq) \cup {cpu} BY <1>2, <4>1, AppendIs
      <4> QED BY <1>0, <4>1, <4>2 DEF Began
    <3> QED BY <2>1, <3>1, <3>2
  <2>2. \A t \in Thread :
           /\ t \notin Live => used'[t] = used[t] /\ waited'[t] = waited[t]
           /\ t = served => used'[t] = used[t] /\ waited'[t] = waited[t]
           /\ t = cpu => used'[t] = used[t] + 1 /\ waited'[t] = waited[t]
           /\ t \in Live \ {cpu, served} => used'[t] = used[t] /\ waited'[t] = waited[t] + 1
    BY <1>1, <1>11, TickCounts
  <2>3. /\ \A t \in Thread : /\ stat'[t].arival = stat[t].arival
                             /\ stat'[t].io_burst_start = stat[t].io_burst_start
                             /\ stat'[t].io_burst_end = stat[t].io_burst_end
        /\ \A t \in finished : stat'[t].finish = stat[t].finish
        /\ \A t \in Thread \ arrived : stat'[t] = stat[t]
        /\ \/ finished' = finished
           \/ /\ finished' = finished \cup {cpu} /\ cpu \in Live
              /\ stat'[cpu].finish = clock
    <3>1. CASE GoesOn BY <3>1 DEF GoesOn
    <3>2. CASE Asked \/ Ended
      <4>1. /\ DispatchHead /\ cpu # None /\ cpu # displaced /\ (Asks \/ Ends)
        BY <3>2 DEF Asked, Ended, Leaves
      <4>2. /\ cpu \in Live /\ cpu \in Thread /\ cpu # current_thread'
            /\ Range(ready) = Range(ready') \cup ({current_thread'} \ {None})
        BY <1>1, <2>1, <4>1, Leaving
      <4>3. /\ \A t \in Thread \ {cpu, current_thread'} : stat'[t] = stat[t]
            /\ \A t \in Thread :
                  /\ stat'[t].arival = stat[t].arival
                  /\ stat'[t].io_burst_start = stat[t].io_burst_start
                  /\ stat'[t].io_burst_end = stat[t].io_burst_end
                  /\ Asks => stat'[t].finish = stat[t].finish
                  /\ Ends => stat'[t].finish = IF t = cpu THEN clock ELSE stat[t].finish
        BY <4>1, <4>2, LeaveTimes DEF IInv
      <4>4. \A t \in Thread \ arrived : t # cpu /\ t # current_thread'
        BY <1>2, <1>4, <4>2, NoneAssumption DEF Live
      <4>5. \A t \in finished : t # cpu /\ t \in Thread BY <1>2, <4>2
      <4> QED BY <3>2, <4>1, <4>2, <4>3, <4>4, <4>5 DEF Asked, Ended, Leaves
    <3> QED BY <2>1, <3>1, <3>2
  <2>4. \A t \in Thread : OnDevice(t)' = OnDevice(t) BY <2>1, <2>3, <2>10 DEF OnDevice
  <2>5. \A t \in Thread : stat[t].arival \in Int /\ used[t] \in Nat /\ waited[t] \in Nat
                          /\ OnDevice(t) \in Nat
    BY <1>1, <1>2, OnDeviceIs DEF Counted, Times
  <2> HIDE DEF OnDevice
  <2>6. ASSUME NEW t \in Live
        PROVE  stat'[t].arival + used'[t] + waited'[t] + OnDevice(t)' = clock + 1
    <3>1. t \in Thread BY <1>2
    <3>2. PICK a \in Int, u \in Nat, w \in Nat, d \in Nat :
             a = stat[t].arival /\ u = used[t] /\ w = waited[t] /\ d = OnDevice(t)
      BY <2>5, <3>1
    <3>3. stat'[t].arival = a /\ OnDevice(t)' = d BY <2>3, <2>4, <3>1, <3>2
    <3>4. a + u + w + d = clock + IF t = served THEN 1 ELSE 0 BY <1>3, <3>2
    <3>5. CASE t = served
      <4>1. used'[t] = u /\ waited'[t] = w BY <2>2, <3>1, <3>2, <3>5
      <4>2. a + u + w + d = clock + 1 BY <3>4, <3>5
      <4> QED BY <3>3, <4>1, <4>2
    <3>6. CASE t = cpu /\ t # served
      <4>1. used'[t] = u + 1 /\ waited'[t] = w BY <2>2, <3>1, <3>2, <3>6
      <4>2. a + (u + 1) + w + d = clock + 1 BY <1>2, <3>4, <3>6
      <4> QED BY <3>3, <4>1, <4>2
    <3>7. CASE t # cpu /\ t # served
      <4>1. used'[t] = u /\ waited'[t] = w + 1 BY <2>2, <3>1, <3>2, <3>7
      <4>2. a + u + (w + 1) + d = clock + 1 BY <1>2, <3>4, <3>7
      <4> QED BY <3>3, <4>1, <4>2
    <3> QED BY <3>5, <3>6, <3>7
  <2>7. ASSUME NEW t \in Live'
        PROVE  stat'[t].arival + used'[t] + waited'[t] + OnDevice(t)'
                  = clock' + IF t = served' THEN 1 ELSE 0
    <3>1. t \in Live /\ t # served'
      BY <1>2, <2>1, <2>3, NoneAssumption DEF Live
    <3>2. clock' + 0 = clock + 1 BY <1>2, <2>1
    <3> QED BY <2>6, <3>1, <3>2
  <2>8. ASSUME NEW t \in finished'
        PROVE  stat'[t].arival + used'[t] + waited'[t] + OnDevice(t)' = stat'[t].finish + 1
    <3>1. CASE t \in finished
      <4>1. t \in Thread /\ t \notin Live BY <1>2, <3>1
      <4> QED BY <1>3, <2>2, <2>3, <2>4, <3>1, <4>1
    <3>2. CASE t \notin finished
      <4>1. t = cpu /\ t \in Live /\ stat'[t].finish = clock BY <2>3, <3>2
      <4> QED BY <2>6, <4>1
    <3> QED BY <3>1, <3>2
  <2>9. ASSUME NEW t \in Thread \ arrived'
        PROVE  used'[t] = 0 /\ waited'[t] = 0 /\ stat'[t] = memory'[t]
    <3>1. t \notin arrived /\ t \notin Live BY <1>2, <2>1
    <3> QED BY <1>0, <1>3, <2>2, <2>3, <3>1
  <2> QED BY <2>7, <2>8, <2>9 DEF Ledger
<1> QED BY <1>7, <1>8, <1>9, <1>10, <1>11 DEF Next

-----------------------------------------------------------------------------
\* First come first served.
LEMMA FirstComeStep ==
    ASSUME IInv, IInv', Counted, Counted', Serving, Serving', Transfers, Transfers',
           Ledger, Ledger', FirstCome, Next
    PROVE  FirstCome'
<1>0. algo' = algo
  BY DEF Next, Arrive, Ready, Switch, Device, Transfer, Idle, Cpu, sys_exec, sim_ready,
         io_starting, io_complete, sys_read, sys_write, sys_exit, sched
<1> SUFFICES ASSUME algo = "FIRST_COME_FIRST_SERVED" PROVE FirstCome'
  BY <1>0 DEF FirstCome
<1>1. ~ByPriority /\ ~Preemptive /\ ~overrun /\ ~overrun' /\ displaced = None
  <2>1. ~ByPriority /\ ~Preemptive /\ ~Preemptive' BY <1>0 DEF ByPriority, Preemptive
  <2> QED BY <2>1 DEF IInv, Typed
<1>2. /\ clock \in Nat /\ done \in Nat
      /\ {io, served, current_thread, cpu} \subseteq Thread \cup {None}
      /\ ioq \in Seq(Thread) /\ Range(ioq) \subseteq Thread
      /\ ready \in Seq(Thread) /\ Range(ready) \subseteq Thread
      /\ arrived \subseteq Thread /\ finished \subseteq arrived /\ Live = arrived \ finished
      /\ \A t \in Thread : stat[t] \in Times
  BY <1>1, RangeIs DEF IInv, Typed, Counted, Live, Apart
<1>3. /\ \A t \in Range(ready) : Waits(t)
      /\ \A t \in (finished \cup {current_thread}) \ {None} : Waited(t)
      /\ \A t \in Range(ioq) : InLine(t)
      /\ \A t \in {io} \ {None} : Served(t)
  BY DEF FirstCome
<1>4. /\ Range(ready) \cap Range(ioq) = {}
      /\ {current_thread, io} \cap (Range(ready) \cup Range(ioq)) = {}
      /\ current_thread = io => io = None
      /\ Live = Range(ready) \cup Range(ioq) \cup ({current_thread, io} \ {None})
      /\ Distinct(ioq)
  BY <1>1 DEF IInv, Apart
<1>12. memory' = memory /\ asked \subseteq arrived /\ Range(ioq) \subseteq asked /\ arrived \subseteq arrived'
  BY <1>1 DEF Next, Arrive, Ready, Switch, Device, Transfer, Idle, Cpu, Tick, history, Transfers
<1>13. \A t : Zeroed(t)' <=> Zeroed(t) BY <1>12 DEF Zeroed
\* What holds of a thread stays as it is with its accounts.
<1>5. ASSUME NEW t, stat'[t] = stat[t], waited'[t] = waited[t], t \in asked' <=> t \in asked
      PROVE  /\ Waited(t)' <=> Waited(t)
             /\ Served(t)' <=> Served(t)
             /\ clock' = clock => (InLine(t)' <=> InLine(t))
             /\ /\ used'[t] = used[t] /\ clock' = clock
                /\ t = served <=> t = served'
                => (Waits(t)' <=> Waits(t))
  BY <1>5, <1>13 DEF Waited, Waits, Served, InLine, ToDevice, ToSecond, Overwritten
<1>6. ASSUME NEW t \in Thread, Arrive(t) PROVE FirstCome'
  <2>1. /\ sys_exec(t) /\ t \notin arrived
        /\ UNCHANGED <<clock, io, ioq, asked, served, finished, used, waited>>
    BY <1>6 DEF Arrive
  <2>2. /\ \A u \in Thread \ {t} : stat'[u] = stat[u]
        /\ stat'[t].arival = clock
        /\ stat'[t].io_burst_start = stat[t].io_burst_start
        /\ stat'[t].first_cpu_burst_end = stat[t].first_cpu_burst_end
        /\ stat'[t].first_cpu_burst_start =
              IF ~ByPriority /\ current_thread = None THEN clock ELSE stat[t].first_cpu_burst_start
    BY <2>1, ExecTimes
  <2>3. used[t] = 0 /\ waited[t] = 0 /\ stat[t] = memory[t] /\ t \notin asked'
    BY <1>1, <1>12, <2>1 DEF Ledger
  <2>4. t \notin Range(ready) \cup Range(ioq) \cup {io, current_thread} \cup finished /\ t # None
    BY <1>2, <1>4, <2>1, NoneAssumption
  <2>5. \A u \in Range(ready) : Waits(u)'
    <3> SUFFICES ASSUME NEW u \in Range(ready) PROVE Waits(u)' OBVIOUS
    <3>1. u \in Thread \ {t} BY <1>2, <2>4
    <3> QED BY <1>3, <1>5, <2>1, <2>2, <3>1
  <2>6. \A u \in (finished \cup {current_thread}) \ {None} : Waited(u)'
    <3> SUFFICES ASSUME NEW u \in (finished \cup {current_thread}) \ {None} PROVE Waited(u)'
      OBVIOUS
    <3>1. u \in Thread \ {t} BY <1>2, <2>4
    <3> QED BY <1>3, <1>5, <2>1, <2>2, <3>1
  <2>7. \A u \in Range(ioq') : InLine(u)'
    <3> SUFFICES ASSUME NEW u \in Range(ioq) PROVE InLine(u)' BY <2>1
    <3>1. u \in Thread \ {t} BY <1>2, <2>4
    <3> QED BY <1>3, <1>5, <2>1, <2>2, <3>1
  <2>8. \A u \in {io'} \ {None} : Served(u)'
    <3> SUFFICES ASSUME NEW u \in {io} \ {None} PROVE Served(u)' BY <2>1
    <3>1. u \in Thread \ {t} BY <1>2, <2>4
    <3> QED BY <1>3, <1>5, <2>1, <2>2, <3>1
  <2>9. CASE current_thread = None
    <3>1. ready' = ready /\ current_thread' = t BY <1>1, <2>1, <2>9 DEF sys_exec, Dispatch
    <3>2. Waited(t)'
      <4>1. stat'[t].first_cpu_burst_start = clock /\ waited'[t] = 0
        BY <1>1, <2>1, <2>2, <2>3, <2>9
      <4> QED BY <1>2, <2>2, <2>3, <4>1 DEF Waited
    <3> QED BY <2>1, <2>5, <2>6, <2>7, <2>8, <3>1, <3>2 DEF FirstCome
  <2>10. CASE current_thread # None
    <3>1. ready' = Append(ready, t) /\ current_thread' = current_thread
      BY <1>1, <2>1, <2>10 DEF sys_exec, Enqueue
    <3>2. Range(ready') = Range(ready) \cup {t} BY <1>2, <3>1, AppendIs
    <3>3. Waits(t)'
      <4>1. /\ stat'[t].first_cpu_burst_start = memory[t].first_cpu_burst_start
            /\ stat'[t].first_cpu_burst_end = memory[t].first_cpu_burst_end /\ used'[t] = 0
        BY <2>1, <2>2, <2>3, <2>10
      <4> QED BY <1>13, <2>3, <4>1 DEF Waits, Zeroed
    <3> QED BY <2>1, <2>5, <2>6, <2>7, <2>8, <3>1, <3>2, <3>3 DEF FirstCome
  <2> QED BY <2>9, <2>10
<1>7. ASSUME UNCHANGED <<ready, finished, current_thread, ioq, io, asked, stat, waited, used, clock>>,
             \A t \in Range(ready) : t = served <=> t = served'
      PROVE  FirstCome'
  <2>1. \A t \in Range(ready') : Waits(t)' BY <1>3, <1>5, <1>7
  <2>2. \A t \in (finished' \cup {current_thread'}) \ {None} : Waited(t)' BY <1>3, <1>5, <1>7
  <2>3. \A t \in Range(ioq') : InLine(t)' BY <1>3, <1>5, <1>7
  <2>4. \A t \in {io'} \ {None} : Served(t)' BY <1>3, <1>5, <1>7
  <2> QED BY <2>1, <2>2, <2>3, <2>4 DEF FirstCome
<1>8. CASE Ready \/ Switch
  BY <1>1, <1>7, <1>8 DEF Ready, sim_ready, Switch, sched, history
<1>9. CASE Device
  <2>1. /\ phase = "device" /\ served = None
        /\ UNCHANGED <<clock, finished, asked, used, waited, ready, current_thread>>
    BY <1>1, <1>9 DEF Device, Serving, io_starting, sched
  <2>2. CASE io = None /\ ioq = <<>>
    BY <1>7, <1>9, <2>1, <2>2 DEF Device, sched
  <2>3. CASE io = None /\ ioq # <<>>
    <3>1. PICK h \in Thread : h = Head(ioq) BY <1>2, <2>3, TailIs
    <3>2. io' = h /\ ioq' = Tail(ioq) /\ served' = h /\ io_starting(h)
      BY <1>9, <2>3, <3>1 DEF Device
    <3>3. /\ \A u \in Thread \ {h} : stat'[u] = stat[u]
          /\ stat'[h].io_burst_start = clock
          /\ stat'[h].arival = stat[h].arival
          /\ stat'[h].first_cpu_burst_start = stat[h].first_cpu_burst_start
          /\ stat'[h].first_cpu_burst_end = stat[h].first_cpu_burst_end
      BY <3>2, StartingTimes
    <3>4. h \in Range(ioq) /\ Range(ioq) = {h} \cup Range(ioq') /\ h \notin Range(ioq')
      BY <1>2, <1>4, <2>3, <3>1, <3>2, TailIs
    <3>5. h \notin Range(ready) \cup {current_thread} \cup finished
      BY <1>2, <1>4, <3>4
    <3>6. \A t \in Range(ready') : Waits(t)'
      <4> SUFFICES ASSUME NEW t \in Range(ready) PROVE Waits(t)' BY <2>1
      <4>1. t \in Thread \ {h} /\ t # None BY <1>2, <3>5, NoneAssumption
      <4>2. t # served /\ t # served' BY <2>1, <3>2, <4>1
      <4> QED BY <1>3, <1>5, <2>1, <3>3, <4>1, <4>2
    <3>7. \A t \in (finished' \cup {current_thread'}) \ {None} : Waited(t)'
      <4> SUFFICES ASSUME NEW t \in (finished \cup {current_thread}) \ {None} PROVE Waited(t)'
        BY <2>1
      <4>1. t \in Thread \ {h} BY <1>2, <3>5
      <4> QED BY <1>3, <1>5, <2>1, <3>3, <4>1
    <3>8. \A t \in Range(ioq') : InLine(t)'
      <4> SUFFICES ASSUME NEW t \in Range(ioq') PROVE InLine(t)' OBVIOUS
      <4>1. t \in Range(ioq) /\ t \in Thread \ {h} BY <1>2, <3>4
      <4> QED BY <1>3, <1>5, <2>1, <3>3, <4>1
    <3>9. Served(h)'
      <4>1. ToDevice(h)' = ToDevice(h) BY <2>1, <3>3 DEF ToDevice
      <4> QED BY <1>3, <1>13, <3>3, <3>4, <4>1 DEF InLine, Served
    <3> QED BY <3>2, <3>6, <3>7, <3>8, <3>9 DEF FirstCome
  <2>4. CASE io # None
    <3>1. served' = io /\ UNCHANGED <<stat, io, ioq>> BY <1>9, <2>4 DEF Device, sched
    <3>2. \A t \in Range(ready) : t # served /\ t # served'
      BY <1>2, <1>4, <2>1, <3>1, NoneAssumption
    <3> QED BY <1>7, <2>1, <3>1, <3>2
  <2> QED BY <2>2, <2>3, <2>4
<1>10. CASE Transfer
  <2>1. /\ phase = "transfer" /\ io # None /\ io \in Thread /\ served = io
        /\ io \in asked \ Range(ioq)
        /\ UNCHANGED <<clock, served, ioq, asked, finished, used, waited>>
    BY <1>1, <1>10 DEF Transfer, Transfers, IInv, Typed, Serving
  <2>2. CASE UNCHANGED <<sched, io>> BY <1>7, <2>1, <2>2 DEF sched
  <2>3. CASE io_complete(io) /\ io' = None
    <3>0. PICK o \in Thread : o = io /\ io_complete(o) BY <2>1, <2>3
    <3>1. /\ \A u \in Thread \ {o} : stat'[u] = stat[u]
          /\ stat'[o].io_burst_end = clock
          /\ stat'[o].arival = stat[o].arival
          /\ stat'[o].io_burst_start = stat[o].io_burst_start
          /\ stat'[o].first_cpu_burst_start = stat[o].first_cpu_burst_start
          /\ stat'[o].first_cpu_burst_end = stat[o].first_cpu_burst_end
          /\ current_thread = None => stat'[o].second_cpu_burst_start = clock + 1
      BY <3>0, CompleteTimes
    <3>2. o \notin Range(ready) \cup Range(ioq) \cup {current_thread} \cup finished
      BY <1>2, <1>4, <2>1, <3>0
    <3>3. \A t \in Range(ready) : Waits(t)'
      <4> SUFFICES ASSUME NEW t \in Range(ready) PROVE Waits(t)' OBVIOUS
      <4>1. t \in Thread \ {o} BY <1>2, <3>2
      <4> QED BY <1>3, <1>5, <2>1, <3>1, <4>1
    <3>4. \A t \in (finished \cup {current_thread}) \ {None} : Waited(t)'
      <4> SUFFICES ASSUME NEW t \in (finished \cup {current_thread}) \ {None} PROVE Waited(t)'
        OBVIOUS
      <4>1. t \in Thread \ {o} BY <1>2, <3>2
      <4> QED BY <1>3, <1>5, <2>1, <3>1, <4>1
    <3>5. \A t \in Range(ioq') : InLine(t)'
      <4> SUFFICES ASSUME NEW t \in Range(ioq) PROVE InLine(t)' BY <2>1
      <4>1. t \in Thread \ {o} BY <1>2, <3>2
      <4> QED BY <1>3, <1>5, <2>1, <3>1, <4>1
    <3>6. o \in asked' BY <2>1, <3>0
    <3>7. ASSUME Zeroed(o)
          PROVE  ToSecond(o)' = stat'[o].first_cpu_burst_start + stat'[o].io_burst_start + clock + 1
      <4>1. ToDevice(o)' = ToDevice(o) BY <2>1, <3>1 DEF ToDevice
      <4>2. ToDevice(o) = stat[o].first_cpu_burst_start + stat[o].io_burst_start
        BY <1>3, <2>1, <3>0, <3>7 DEF Served
      <4>3. ToSecond(o)' = ToDevice(o)' + clock + 1 BY <3>1 DEF ToSecond
      <4> QED BY <3>1, <4>1, <4>2, <4>3
    <3>8. CASE current_thread = None
      <4>1. ready' = ready /\ current_thread' = o
        BY <3>0, <3>8 DEF io_complete, Dispatch, Beats
      <4>2. ASSUME Zeroed(o) PROVE Waited(o)'
        <5>1. PICK f \in Int, s \in Int :
                 f = stat'[o].first_cpu_burst_start /\ s = stat'[o].io_burst_start
          BY DEF Counted, Times
        <5>2. ToSecond(o)' = stat'[o].first_cpu_burst_start + stat'[o].io_burst_start
                             + stat'[o].second_cpu_burst_start
          <6>1. ToSecond(o)' = f + s + clock + 1 BY <3>7, <4>2, <5>1
          <6>2. ToSecond(o)' = f + s + (clock + 1) BY <1>2, <6>1
          <6> QED BY <3>1, <3>8, <5>1, <6>2
        <5> QED BY <3>6, <5>2 DEF Waited
      <4>3. Waited(o)' BY <1>13, <4>2 DEF Waited
      <4> QED BY <2>1, <2>3, <3>3, <3>4, <3>5, <4>1, <4>3 DEF FirstCome
    <3>9. CASE current_thread # None
      <4>1. ready' = Sorted(Enqueue(ready, o)) /\ current_thread' = current_thread
        BY <1>1, <3>0, <3>9 DEF io_complete, Beats
      <4>2. Range(ready') = Range(ready) \cup {o}
        BY <1>2, <4>1, EnqueuedSorted DEF IInv, Typed
      <4>3. ASSUME Zeroed(o) PROVE Waits(o)'
        <5>1. o = served' /\ clock' = clock BY <2>1, <3>0
        <5>2. ToSecond(o)' = stat'[o].first_cpu_burst_start + stat'[o].io_burst_start
                             + clock' + IF o = served' THEN 1 ELSE 0
          BY <3>7, <4>3, <5>1
        <5> QED BY <3>6, <5>2 DEF Waits
      <4>4. Waits(o)' BY <1>13, <4>3 DEF Waits
      <4> QED BY <2>1, <2>3, <3>3, <3>4, <3>5, <4>1, <4>2, <4>4 DEF FirstCome
    <3> QED BY <3>8, <3>9
  <2> QED BY <1>10, <2>2, <2>3 DEF Transfer

<1>11. CASE Idle \/ Cpu
  <2>1. /\ phase = "cpu" /\ clock' = clock + 1 /\ served' = None /\ io' = io
        /\ arrived' = arrived
        /\ GoesOn \/ Asked \/ Ended
    BY <1>11, TickEnds
  <2>2. \A t \in Thread :
           /\ t \notin Live => used'[t] = used[t] /\ waited'[t] = waited[t]
           /\ t = served => used'[t] = used[t] /\ waited'[t] = waited[t]
           /\ t = cpu => used'[t] = used[t] + 1 /\ waited'[t] = waited[t]
           /\ t \in Live \ {cpu, served} => used'[t] = used[t] /\ waited'[t] = waited[t] + 1
    BY <1>1, <1>11, TickCounts
  <2>3. cpu \in {None, current_thread} /\ current_thread \in {cpu, served}
    BY <1>1, <2>1 DEF IInv, Agree, Same, Serving
  \* Those in the queue, on whose times the step does not write.
  <2>4. ASSUME NEW t \in Range(ready), stat'[t] = stat[t], t \in asked' <=> t \in asked
        PROVE  Waits(t)'
    <3> SUFFICES ASSUME Zeroed(t) PROVE Waits(t)' BY <1>13 DEF Waits
    <3>1. t \in Thread /\ t \in Live /\ t # cpu /\ t # None
      BY <1>2, <1>4, <2>3, NoneAssumption
    <3>2. CASE t \notin asked
      <4>1. used'[t] = used[t] BY <2>2, <3>1
      <4> QED BY <1>3, <2>4, <3>2, <4>1 DEF Waits
    <3>3. CASE t \in asked /\ ~Overwritten(t)
      <4>1. ToSecond(t) = stat[t].first_cpu_burst_start + stat[t].io_burst_start
                          + clock + IF t = served THEN 1 ELSE 0
        BY <1>3, <3>3 DEF Waits
      <4>2. ToSecond(t)' = ToSecond(t) + IF t = served THEN 0 ELSE 1
        <5>1. waited'[t] = waited[t] + IF t = served THEN 0 ELSE 1
          <6>1. waited[t] \in Nat BY <3>1 DEF Counted
          <6> QED BY <2>2, <3>1, <6>1
        <5>2. PICK w \in Nat, a \in Int, e \in Int, i \in Int :
                 /\ w = waited[t] /\ a = stat[t].arival
                 /\ e = stat[t].first_cpu_burst_end /\ i = stat[t].io_burst_end
          BY <1>2, <3>1 DEF Counted, Times
        <5>3. ToSecond(t) = w + a + e + 1 + i + 1 BY <5>2 DEF ToSecond, ToDevice
        <5>4. ToSecond(t)' = (w + IF t = served THEN 0 ELSE 1) + a + e + 1 + i + 1
          BY <2>4, <5>1, <5>2 DEF ToSecond, ToDevice
        <5> QED BY <5>3, <5>4
      <4>3. ToSecond(t)' = stat[t].first_cpu_burst_start + stat[t].io_burst_start + clock' + 0
        <5>1. PICK f \in Int, i \in Int :
                 f = stat[t].first_cpu_burst_start /\ i = stat[t].io_burst_start
          BY <1>2, <3>1 DEF Times
        <5>2. ToSecond(t) = f + i + clock + IF t = served THEN 1 ELSE 0 BY <4>1, <5>1
        <5>3. ToSecond(t)' = f + i + (clock + 1) + 0 BY <1>2, <4>2, <5>2
        <5> QED BY <2>1, <5>1, <5>3
      <4> QED BY <2>1, <2>4, <3>1, <3>3, <4>3 DEF Waits
    <3>4. CASE t \in asked /\ Overwritten(t)
      BY <2>4, <3>4 DEF Waits, Overwritten
    <3> QED BY <3>2, <3>3, <3>4
  <2>5. ASSUME NEW t \in Range(ioq), stat'[t] = stat[t] PROVE InLine(t)'
    <3> SUFFICES ASSUME Zeroed(t) PROVE ToDevice(t)' = stat'[t].first_cpu_burst_start + clock'
      BY <1>13 DEF InLine
    <3>1. t \in Thread /\ t \in Live /\ t # cpu /\ t # served
      BY <1>1, <1>2, <1>4, <2>3, NoneAssumption DEF Serving
    <3>2. waited'[t] = waited[t] + 1 BY <2>2, <3>1
    <3>3. PICK w \in Nat, a \in Int, e \in Int, f \in Int :
             /\ w = waited[t] /\ a = stat[t].arival
             /\ e = stat[t].first_cpu_burst_end /\ f = stat[t].first_cpu_burst_start
      BY <1>2, <3>1 DEF Counted, Times
    <3>4. w + a + e + 1 = f + clock BY <1>3, <3>3 DEF InLine, ToDevice
    <3>5. (w + 1) + a + e + 1 = f + (clock + 1) BY <1>2, <3>4
    <3> QED BY <2>1, <2>5, <3>2, <3>3, <3>5 DEF ToDevice
  \* Those on the processor or the device, and those that have ended.
  <2>6. ASSUME NEW t \in Thread, t \in finished \cup {current_thread, io}
        PROVE  waited'[t] = waited[t]
    <3>1. CASE t \in finished BY <1>2, <2>2, <3>1
    <3>2. CASE t = current_thread BY <2>2, <2>3, <3>2
    <3>3. CASE t = io
      <4>1. t = served BY <1>1, <2>1, <3>3, NoneAssumption DEF Serving
      <4> QED BY <2>2, <4>1
    <3> QED BY <2>6, <3>1, <3>2, <3>3
  <2>7. CASE GoesOn
    <3>1. UNCHANGED <<stat, ready, ioq, asked, current_thread, finished>> BY <2>7 DEF GoesOn
    <3>2. \A t \in Range(ready') : Waits(t)' BY <2>4, <3>1
    <3>3. \A t \in Range(ioq') : InLine(t)' BY <2>5, <3>1
    <3>4. \A t \in (finished' \cup {current_thread'}) \ {None} : Waited(t)'
      <4> SUFFICES ASSUME NEW t \in (finished \cup {current_thread}) \ {None} PROVE Waited(t)'
        BY <3>1
      <4>1. t \in Thread BY <1>2
      <4> QED BY <1>3, <1>5, <2>6, <3>1, <4>1
    <3>5. \A t \in {io'} \ {None} : Served(t)'
      <4> SUFFICES ASSUME NEW t \in {io} \ {None} PROVE Served(t)' BY <2>1
      <4>1. t \in Thread BY <1>2
      <4> QED BY <1>3, <1>5, <2>6, <3>1, <4>1
    <3> QED BY <3>2, <3>3, <3>4, <3>5 DEF FirstCome
  <2>8. CASE Asked \/ Ended
    <3>1. PICK c \in Thread : c = cpu
      <4>1. cpu # None BY <2>8 DEF Asked, Ended, Leaves
      <4> QED BY <1>2, <4>1
    <3>2. DispatchHead /\ cpu # None /\ cpu # displaced /\ (Asks \/ Ends)
      BY <1>1, <2>8 DEF Asked, Ended, Leaves
    <3>3. /\ c = current_thread /\ c \in Live
          /\ c \notin Range(ready) \cup Range(ioq) \cup {io, served, current_thread'}
          /\ current_thread' \in Thread \cup {None}
          /\ Range(ready) = Range(ready') \cup ({current_thread'} \ {None})
          /\ current_thread' \notin Range(ready')
      BY <1>1, <2>1, <3>1, <3>2, Leaving
    <3>4. /\ \A t \in Thread \ {c, current_thread'} : stat'[t] = stat[t]
          /\ \A t \in Thread :
                /\ stat'[t].arival = stat[t].arival
                /\ stat'[t].io_burst_start = stat[t].io_burst_start
                /\ stat'[t].io_burst_end = stat[t].io_burst_end
                /\ Asks => stat'[t].first_cpu_burst_end =
                              IF t = c THEN clock ELSE stat[t].first_cpu_burst_end
                /\ Ends => stat'[t].first_cpu_burst_end =
                              IF t = c /\ stat[t].io_burst_start = 0 THEN clock
                              ELSE stat[t].first_cpu_burst_end
                /\ t # current_thread' =>
                      /\ stat'[t].first_cpu_burst_start = stat[t].first_cpu_burst_start
                      /\ stat'[t].second_cpu_burst_start = stat[t].second_cpu_burst_start
                /\ t = current_thread' =>
                      /\ stat'[t].second_cpu_burst_start = clock + 1
                      /\ stat'[t].first_cpu_burst_start =
                            IF stat[t].first_cpu_burst_start = 0 /\ stat[t].first_cpu_burst_end = 0
                            THEN clock + 1 ELSE stat[t].first_cpu_burst_start
      BY <3>1, <3>2, <3>3, LeaveTimes DEF IInv
    <3>15. \A t \in Thread \ {c} : t \in asked' <=> t \in asked
      BY <2>8, <3>1 DEF Asked, Ended
    <3>5. \A t \in Range(ready') : Waits(t)'
      <4> SUFFICES ASSUME NEW t \in Range(ready') PROVE Waits(t)' OBVIOUS
      <4>1. t \in Range(ready) /\ t \in Thread \ {c, current_thread'} BY <1>2, <3>3
      <4> QED BY <2>4, <3>4, <3>15, <4>1
    <3>6. \A t \in Range(ioq) : InLine(t)'
      <4> SUFFICES ASSUME NEW t \in Range(ioq) PROVE InLine(t)' OBVIOUS
      <4>1. t \in Thread \ {c, current_thread'} BY <1>2, <1>4, <3>3, NoneAssumption
      <4> QED BY <2>5, <3>4, <4>1
    <3>7. \A t \in {io'} \ {None} : Served(t)'
      <4> SUFFICES ASSUME NEW t \in {io} \ {None} PROVE Served(t)' BY <2>1
      <4>1. t \in Thread \ {c, current_thread'} BY <1>2, <1>4, <3>3, NoneAssumption
      <4> QED BY <1>3, <1>5, <2>6, <3>4, <3>15, <4>1
    <3>8. \A t \in finished : Waited(t)'
      <4> SUFFICES ASSUME NEW t \in finished PROVE Waited(t)' OBVIOUS
      <4>1. t \in Thread \ {c, current_thread'} /\ t # None
        BY <1>2, <1>4, <3>3, NoneAssumption
      <4> QED BY <1>3, <1>5, <2>6, <3>4, <3>15, <4>1
    \* The one that leaves ...
    <3>9. waited'[c] = waited[c] /\ Waited(c) BY <1>3, <2>6, <3>3, NoneAssumption
    <3>10. Asked => InLine(c)'
      <4> SUFFICES ASSUME Asked, Zeroed(c)
                   PROVE  ToDevice(c)' = stat'[c].first_cpu_burst_start + clock'
        BY <1>13 DEF InLine
      <4>1. c \notin asked /\ Asks BY <3>1 DEF Asked, Leaves
      <4>3. waited[c] + stat[c].arival = stat[c].first_cpu_burst_start BY <3>9, <4>1 DEF Waited
      <4>4. PICK f \in Int : f = stat[c].first_cpu_burst_start BY <1>2 DEF Times
      <4>5. /\ stat'[c].first_cpu_burst_end = clock /\ stat'[c].arival = stat[c].arival
            /\ stat'[c].first_cpu_burst_start = f
        BY <3>3, <3>4, <4>1, <4>4
      <4>6. ToDevice(c)' = f + clock + 1 BY <3>9, <4>3, <4>4, <4>5 DEF ToDevice
      <4> QED BY <1>2, <2>1, <4>4, <4>5, <4>6
    <3>11. Ended => Waited(c)'
      <4> SUFFICES ASSUME Ended PROVE Waited(c)' OBVIOUS
      <4>1. Ends /\ asked' = asked BY DEF Ended, Leaves
      <4>2. /\ stat'[c].arival = stat[c].arival
            /\ stat'[c].io_burst_start = stat[c].io_burst_start
            /\ stat'[c].io_burst_end = stat[c].io_burst_end
            /\ stat'[c].first_cpu_burst_start = stat[c].first_cpu_burst_start
            /\ stat'[c].second_cpu_burst_start = stat[c].second_cpu_burst_start
            /\ stat[c].io_burst_start # 0 =>
                  stat'[c].first_cpu_burst_end = stat[c].first_cpu_burst_end
        BY <3>3, <3>4, <4>1
      <4>3. c \in asked => stat[c].io_burst_start # 0
        <5>1. stat[c].io_burst_start \in Int BY <1>2 DEF Times
        <5>2. c \in asked => stat[c].io_burst_start > 0 BY <1>1, <3>3 DEF Transfers
        <5> QED BY <5>1, <5>2
      <4> QED BY <1>13, <3>9, <4>1, <4>2, <4>3 DEF Waited, ToSecond, ToDevice, Overwritten
    \* ... and the one that follows it.
    <3>12. ASSUME NEW h \in Thread, h = current_thread' PROVE Waited(h)'
      <4> SUFFICES ASSUME Zeroed(h) PROVE Waited(h)' BY <1>13 DEF Waited
      <4>6. h \in asked' <=> h \in asked BY <3>3, <3>12, <3>15
      <4>1. h \in Range(ready) /\ h # c /\ h # cpu /\ h \in Live
        BY <1>4, <3>1, <3>3, <3>12, NoneAssumption
      <4>2. /\ stat'[h].arival = stat[h].arival
            /\ stat'[h].io_burst_start = stat[h].io_burst_start
            /\ stat'[h].io_burst_end = stat[h].io_burst_end
            /\ stat'[h].first_cpu_burst_end = stat[h].first_cpu_burst_end
            /\ stat'[h].second_cpu_burst_start = clock + 1
            /\ stat'[h].first_cpu_burst_start =
                  IF stat[h].first_cpu_burst_start = 0 /\ stat[h].first_cpu_burst_end = 0
                  THEN clock + 1 ELSE stat[h].first_cpu_burst_start
        BY <3>2, <3>4, <3>12, <4>1
      <4>3. CASE h \notin asked
        <5>1. /\ used[h] = 0 /\ stat[h].first_cpu_burst_start = 0 /\ stat[h].first_cpu_burst_end = 0
          BY <1>3, <4>1, <4>3 DEF Waits
        <5>2. h \in Live' /\ h # served' /\ used'[h] = 0
          <6>1. h \in Live'
            BY <1>1, <3>12, NoneAssumption DEF IInv, Apart
          <6>2. used'[h] = used[h] BY <2>2, <4>1
          <6> QED BY <2>1, <5>1, <6>1, <6>2, NoneAssumption
        <5>3. OnDevice(h)' = 0 BY <4>3, <4>6 DEF OnDevice, Began
        <5>4. stat'[h].arival + used'[h] + waited'[h] + OnDevice(h)' = clock'
          BY <1>1, <1>2, <2>1, <5>2 DEF Ledger
        <5>5. PICK a \in Int, w \in Nat : a = stat'[h].arival /\ w = waited'[h]
          BY DEF Counted, Times
        <5>6. a + 0 + w + 0 = clock + 1 BY <2>1, <5>2, <5>3, <5>4, <5>5
        <5>7. w + a = clock + 1 BY <5>6
        <5>8. waited'[h] + stat'[h].arival = stat'[h].first_cpu_burst_start
          BY <4>2, <5>1, <5>5, <5>7
        <5> QED BY <4>3, <4>6, <5>8 DEF Waited
      <4>4. CASE h \in asked /\ Overwritten(h)
        BY <4>2, <4>4, <4>6 DEF Waited, Overwritten
      <4>5. CASE h \in asked /\ ~Overwritten(h)
        <5>1. stat[h].first_cpu_burst_end # 0
          <6>1. h \notin Range(ioq) BY <1>4, <4>1
          <6> QED BY <1>1, <4>5, <6>1 DEF Transfers, Overwritten
        <5>2. PICK w \in Nat, a \in Int, e \in Int, i \in Int, f \in Int, s \in Int :
                 /\ w = waited[h] /\ a = stat[h].arival
                 /\ e = stat[h].first_cpu_burst_end /\ i = stat[h].io_burst_end
                 /\ f = stat[h].first_cpu_burst_start /\ s = stat[h].io_burst_start
          BY <1>2 DEF Counted, Times
        <5>3. ToSecond(h) = f + s + clock + IF h = served THEN 1 ELSE 0
          BY <1>3, <4>1, <4>5, <5>2 DEF Waits
        <5>4. w + a + e + 1 + i + 1 = f + s + clock + IF h = served THEN 1 ELSE 0
          BY <5>2, <5>3 DEF ToSecond, ToDevice
        <5>5. waited'[h] = w + IF h = served THEN 0 ELSE 1 BY <2>2, <4>1, <5>2
        <5>6. (w + IF h = served THEN 0 ELSE 1) + a + e + 1 + i + 1 = f + s + (clock + 1)
          BY <1>2, <5>4
        <5>7. ToSecond(h)' = f + s + (clock + 1)
          BY <4>2, <5>2, <5>5, <5>6 DEF ToSecond, ToDevice
        <5>8. stat'[h].first_cpu_burst_start = f BY <4>2, <5>1, <5>2
        <5> QED BY <4>2, <4>5, <4>6, <5>2, <5>7, <5>8 DEF Waited
      <4> QED BY <4>3, <4>4, <4>5
    <3>13. CASE Asked
      <4>1. ioq' = Append(ioq, c) /\ finished' = finished BY <3>1, <3>13 DEF Asked
      <4>2. Range(ioq') = Range(ioq) \cup {c} BY <1>2, <4>1, AppendIs
      <4>3. \A t \in (finished' \cup {current_thread'}) \ {None} : Waited(t)'
        BY <3>3, <3>8, <3>12, <4>1
      <4> QED BY <3>5, <3>6, <3>7, <3>10, <3>13, <4>2, <4>3 DEF FirstCome
    <3>14. CASE Ended
      <4>1. ioq' = ioq /\ finished' = finished \cup {c} BY <3>1, <3>14 DEF Ended
      <4>2. \A t \in (finished' \cup {current_thread'}) \ {None} : Waited(t)'
        BY <3>3, <3>8, <3>11, <3>12, <3>14, <4>1
      <4> QED BY <3>5, <3>6, <3>7, <4>1, <4>2 DEF FirstCome
    <3> QED BY <2>8, <3>13, <3>14
  <2> QED BY <2>1, <2>7, <2>8
<1> QED BY <1>6, <1>8, <1>9, <1>10, <1>11 DEF Next

-----------------------------------------------------------------------------
\* The accounts are right in every state.
LEMMA InitAccounts == Init => Accounts
<1> SUFFICES ASSUME Init PROVE Accounts
  OBVIOUS
<1>1. /\ clock = 0 /\ done = 0 /\ served = None /\ io = None /\ displaced = None
      /\ arrived = {} /\ finished = {} /\ current_thread = None /\ phase = "arrivals"
      /\ used = [t \in Thread |-> 0] /\ waited = [t \in Thread |-> 0]
      /\ ready = <<>> /\ ioq = <<>> /\ asked = {}
      /\ stat = memory /\ memory \in [Thread -> Times]
  BY MemoryAssumption DEF Init
<1>2. Range(ready) = {} /\ Range(ioq) = {} BY <1>1 DEF Range
<1>3. Counted BY <1>1 DEF Counted
<1>4. Serving BY <1>1 DEF Serving
<1>5. Transfers BY <1>1, <1>2 DEF Transfers
<1>6. Ledger BY <1>1 DEF Ledger, Live
<1>7. FirstCome BY <1>1, <1>2 DEF FirstCome
<1> QED BY <1>3, <1>4, <1>5, <1>6, <1>7 DEF Accounts

LEMMA StepAccounts == IInv /\ IInv' /\ Accounts /\ [Next]_vars => Accounts'
<1> SUFFICES ASSUME IInv, IInv', Accounts, [Next]_vars PROVE Accounts'
  OBVIOUS
<1>1. CASE Next
  <2>0. Counted /\ Serving /\ Transfers /\ Ledger /\ FirstCome BY DEF Accounts
  <2>1. Counted' BY <1>1, <2>0, CountedStep DEF IInv
  <2>2. Serving' BY <1>1, <2>0, ServingStep
  <2>3. Transfers' BY <1>1, <2>0, <2>1, <2>2, TransfersStep
  <2>4. Ledger' BY <1>1, <2>0, <2>1, <2>2, <2>3, LedgerStep
  <2>5. FirstCome' BY <1>1, <2>0, <2>1, <2>2, <2>3, <2>4, FirstComeStep
  <2> QED BY <2>1, <2>2, <2>3, <2>4, <2>5 DEF Accounts
<1>2. CASE UNCHANGED vars
  BY <1>2 DEF vars, sched, sim, history, Accounts, Counted, Serving, Transfers, Ledger, FirstCome,
     Live, Began, OnDevice, Zeroed, Waits, Waited, InLine, Served, ToDevice, ToSecond, Overwritten
<1> QED BY <1>1, <1>2

\* The times written down, the history and the places of the threads agree.
THEOREM AlwaysAccounts == Spec => []Accounts
<1>1. Init => Accounts BY InitAccounts
<1>2. IInv /\ IInv' /\ Accounts /\ [Next]_vars => Accounts' BY StepAccounts
<1> QED BY <1>1, <1>2, AlwaysIInv, PTL DEF Spec

\* As long as no thread ended or asked for a transfer in the tick io_complete()
\* took it off in, the waiting time of stats() is the number of ticks in which
\* the thread was there and neither ran nor had the device, if it had a transfer
\* or its node's memory happened to hold a zero for the start of one.  So is
\* Assignment4's, if the memory held zeros for the first ticks too, but for a
\* thread that asked for its transfer at time zero.
THEOREM StatsAreExact == Spec => []StatsExact
<1>1. ASSUME IInv, Accounts PROVE StatsExact
  <2> SUFFICES ASSUME ~overrun, NEW t \in finished,
                      t \in asked \/ memory[t].io_burst_start = 0
               PROVE  /\ WaitingTime(t) = waited[t]
                      /\ /\ algo = "FIRST_COME_FIRST_SERVED"
                         /\ memory[t].first_cpu_burst_start = 0
                         /\ memory[t].first_cpu_burst_end = 0
                         => \/ WaitingTimeFirstCome(t) = waited[t]
                            \/ stat[t].arival = 0 /\ stat[t].io_burst_start = 1
    BY DEF StatsExact
  <2>1. t \in Thread /\ t # io /\ t # None /\ t \notin Range(ioq)
    <3>1. t \in Thread /\ t \notin Live BY <1>1 DEF IInv, Typed, Live
    <3>2. (io # None => io \in Live) /\ Range(ioq) \subseteq Live BY <1>1 DEF IInv, Apart
    <3> QED BY <3>1, <3>2, NoneAssumption
  <2>2. PICK a \in Int, f \in Int, s \in Int, e \in Int, u \in Nat, w \in Nat :
           /\ a = stat[t].arival /\ f = stat[t].finish
           /\ s = stat[t].io_burst_start /\ e = stat[t].io_burst_end
           /\ u = used[t] /\ w = waited[t]
    BY <1>1, <2>1 DEF Accounts, Counted, Times
  \* The test for zero tells whether the thread had a transfer.
  <2>7. s = 0 <=> t \notin asked BY <1>1, <2>1, <2>2 DEF Accounts, Transfers
  <2>3. a + u + w + (IF s = 0 THEN 0 ELSE e - s + 1) = f + 1
    BY <1>1, <2>1, <2>2, <2>7 DEF Accounts, Ledger, OnDevice, Began
  <2>4. WaitingTime(t) = (f - a + 1) - (u + (IF s = 0 THEN 0 ELSE e - s + 1))
    BY <2>2 DEF WaitingTime
  <2>5. WaitingTime(t) = w BY <2>3, <2>4
  <2>6. ASSUME algo = "FIRST_COME_FIRST_SERVED", Zeroed(t), ~Overwritten(t)
        PROVE  WaitingTimeFirstCome(t) = w
    <3>1. PICK b \in Int, c \in Int, d \in Int :
             /\ b = stat[t].first_cpu_burst_start /\ c = stat[t].first_cpu_burst_end
             /\ d = stat[t].second_cpu_burst_start
      BY <1>1, <2>1 DEF Accounts, Counted, Times
    <3>2. Waited(t) BY <1>1, <2>1, <2>6 DEF Accounts, FirstCome
    <3>3. WaitingTimeFirstCome(t) = (b - a) + IF s = 0 THEN 0 ELSE (s - c - 1) + (d - e - 1)
      BY <2>2, <3>1 DEF WaitingTimeFirstCome
    <3>4. CASE s = 0
      <4>1. w + a = b BY <2>2, <2>6, <2>7, <3>1, <3>2, <3>4 DEF Waited
      <4> QED BY <3>3, <3>4, <4>1
    <3>5. CASE s # 0
      <4>1. w + a + c + 1 + e + 1 = b + s + d
        BY <2>2, <2>6, <2>7, <3>1, <3>2, <3>5 DEF Waited, ToSecond, ToDevice
      <4> QED BY <3>3, <3>5, <4>1
    <3> QED BY <3>4, <3>5
  <2>8. WaitingTime(t) = waited[t] BY <2>2, <2>5
  <2>9. algo = "FIRST_COME_FIRST_SERVED" /\ Zeroed(t) =>
           WaitingTimeFirstCome(t) = waited[t] \/ Overwritten(t)
    BY <2>2, <2>6
  <2>10. (memory[t].first_cpu_burst_start = 0 /\ memory[t].first_cpu_burst_end = 0) => Zeroed(t)
    BY DEF Zeroed
  <2>11. Overwritten(t) => stat[t].arival = 0 /\ stat[t].io_burst_start = 1 BY DEF Overwritten
  <2> QED BY <2>8, <2>9, <2>10, <2>11
<1> QED BY <1>1, AlwaysIInv, AlwaysAccounts, PTL

=============================================================================
