----------------------------- MODULE AlarmProofs -----------------------------
(* Proofs about Alarm for any threads, semaphores, arguments of timer_sleep() *)
(* and lengths of a slice: locks exclude and the ends of the lists stay their *)
(* ends whatever the timer does; and until it wakes a thread, other than the  *)
(* idle one, that does not sleep, the pointers are lists of the threads they  *)
(* should hold, and every sleeper is woken at the tick its time comes.        *)
EXTENDS Alarm, FiniteSetTheorems, TLAPS

Distinct(q) == \A i, j \in 1 .. Len(q) : q[i] = q[j] => i = j

-----------------------------------------------------------------------------
\* Induction over the naturals, for a set: strict inclusion is well founded
\* on the segments 0..k, so a number outside it would have a least one.
LEMMA NaturalsFromZero ==
    ASSUME NEW S \in SUBSET Nat, 0 \in S, \A n \in S : n + 1 \in S
    PROVE  S = Nat
<1> SUFFICES ASSUME Nat \ S # {} PROVE FALSE
  OBVIOUS
<1> DEFINE Segments == {0 .. k : k \in Nat \ S}
<1>1. Segments \subseteq FiniteSubsetsOf(Nat)
  <2> SUFFICES ASSUME NEW k \in Nat PROVE 0 .. k \in FiniteSubsetsOf(Nat)
    OBVIOUS
  <2>1. IsFiniteSet(0 .. k) BY FS_Interval
  <2> QED BY <2>1 DEF FiniteSubsetsOf
<1>2. Segments # {} OBVIOUS
<1>3. \E x \in Segments : \A y \in Segments : ~(<<y, x>> \in StrictSubsetOrdering(Nat))
  <2> HIDE DEF Segments
  <2> QED BY <1>1, <1>2, FS_StrictSubsetOrderingWellFounded, WFMin
<1>4. PICK m \in Nat \ S : \A n \in Nat \ S : ~(<<0 .. n, 0 .. m>> \in StrictSubsetOrdering(Nat))
  BY <1>3
<1>5. m > 0 /\ m - 1 \in Nat \ S
  <2>1. m # 0 OBVIOUS
  <2>2. m - 1 \in Nat /\ (m - 1) + 1 = m BY <2>1
  <2> QED BY <2>1, <2>2
<1>6. 0 .. m - 1 \subseteq 0 .. m /\ m \in 0 .. m /\ m \notin 0 .. m - 1 BY <1>5
<1>7. <<0 .. m - 1, 0 .. m>> \in StrictSubsetOrdering(Nat) BY <1>6 DEF StrictSubsetOrdering
<1> QED BY <1>4, <1>5, <1>7

\* What the operations on sequences do to their members.
LEMMA RangeIs ==
    ASSUME NEW q \in Seq(Thread)
    PROVE  /\ Range(q) = {q[i] : i \in 1 .. Len(q)}
           /\ Range(q) \subseteq Thread
           /\ q = <<>> <=> Range(q) = {}
           /\ q = <<>> <=> Len(q) = 0
           /\ Len(q) \in Nat
<1>1. Len(q) \in Nat /\ (q = <<>> <=> Len(q) = 0) OBVIOUS
<1>2. DOMAIN q = 1 .. Len(q) /\ \A i \in 1 .. Len(q) : q[i] \in Thread OBVIOUS
<1>3. Range(q) = {q[i] : i \in 1 .. Len(q)} BY <1>2 DEF Range
<1>4. Range(q) \subseteq Thread BY <1>2, <1>3
<1>5. Len(q) = 0 <=> Range(q) = {}
  <2>1. CASE Len(q) = 0 BY <1>3, <2>1
  <2>2. CASE Len(q) # 0
    <3>1. 1 \in 1 .. Len(q) BY <1>1, <2>2
    <3> QED BY <1>3, <2>2, <3>1
  <2> QED BY <2>1, <2>2
<1> QED BY <1>1, <1>3, <1>4, <1>5

LEMMA AppendIs ==
    ASSUME NEW q \in Seq(Thread), NEW t \in Thread
    PROVE  /\ Append(q, t) \in Seq(Thread)
           /\ Len(Append(q, t)) = Len(q) + 1
           /\ \A i \in 1 .. Len(q) : Append(q, t)[i] = q[i]
           /\ Append(q, t)[Len(q) + 1] = t
           /\ Range(Append(q, t)) = Range(q) \cup {t}
           /\ Distinct(q) /\ t \notin Range(q) => Distinct(Append(q, t))
           /\ Append(q, t) # <<>>
<1> DEFINE a == Append(q, t)
<1>0. Len(q) \in Nat OBVIOUS
<1>1. /\ a \in Seq(Thread) /\ Len(a) = Len(q) + 1
      /\ \A i \in 1 .. Len(q) : a[i] = q[i]
      /\ a[Len(q) + 1] = t
  OBVIOUS
<1> HIDE DEF a
<1>2. Range(a) = {a[i] : i \in 1 .. Len(q) + 1} /\ a # <<>> BY <1>0, <1>1, RangeIs
<1>3. Range(q) = {q[i] : i \in 1 .. Len(q)} BY RangeIs
<1>4. Range(a) = Range(q) \cup {t}
  <2>1. ASSUME NEW u \in Range(a) PROVE u \in Range(q) \cup {t}
    <3>1. PICK i \in 1 .. Len(q) + 1 : u = a[i] BY <1>2
    <3>2. CASE i = Len(q) + 1 BY <1>1, <3>1, <3>2
    <3>3. CASE i # Len(q) + 1
      <4>1. i \in 1 .. Len(q) BY <1>0, <3>3
      <4> QED BY <1>1, <1>3, <3>1, <4>1
    <3> QED BY <3>2, <3>3
  <2>2. ASSUME NEW u \in Range(q) PROVE u \in Range(a)
    <3>1. PICK i \in 1 .. Len(q) : u = q[i] BY <1>3
    <3>2. i \in 1 .. Len(q) + 1 /\ u = a[i] BY <1>0, <1>1, <3>1
    <3> QED BY <1>2, <3>2
  <2>3. t \in Range(a)
    <3>1. Len(q) + 1 \in 1 .. Len(q) + 1 BY <1>0
    <3> QED BY <1>1, <1>2, <3>1
  <2> QED BY <2>1, <2>2, <2>3
<1>5. ASSUME Distinct(q), t \notin Range(q) PROVE Distinct(a)
  <2> SUFFICES ASSUME NEW i \in 1 .. Len(q) + 1, NEW j \in 1 .. Len(q) + 1, a[i] = a[j]
               PROVE  i = j
    BY <1>1 DEF Distinct
  <2>1. \A k \in 1 .. Len(q) : a[k] = q[k] /\ a[k] # t BY <1>1, <1>3, <1>5
  <2>2. CASE i \in 1 .. Len(q) /\ j \in 1 .. Len(q) BY <1>5, <2>1, <2>2 DEF Distinct
  <2>3. CASE i = Len(q) + 1 BY <1>0, <1>1, <2>1, <2>3
  <2>4. CASE j = Len(q) + 1 BY <1>0, <1>1, <2>1, <2>4
  <2> QED BY <1>0, <2>2, <2>3, <2>4
<1> QED BY <1>1, <1>2, <1>4, <1>5 DEF a

LEMMA TailIs ==
    ASSUME NEW q \in Seq(Thread), q # <<>>
    PROVE  /\ Head(q) = q[1] /\ Head(q) \in Thread
           /\ Tail(q) \in Seq(Thread)
           /\ Len(Tail(q)) = Len(q) - 1 /\ Len(q) >= 1
           /\ \A i \in 1 .. Len(q) - 1 : Tail(q)[i] = q[i + 1]
           /\ Range(q) = {Head(q)} \cup Range(Tail(q))
           /\ Distinct(q) => Distinct(Tail(q)) /\ Head(q) \notin Range(Tail(q))
<1> DEFINE h == Tail(q)
<1>0. Len(q) \in Nat /\ Len(q) >= 1 /\ Head(q) = q[1] /\ q[1] \in Thread OBVIOUS
<1>1. /\ h \in Seq(Thread) /\ Len(h) = Len(q) - 1
      /\ \A i \in 1 .. Len(q) - 1 : h[i] = q[i + 1]
  OBVIOUS
<1> HIDE DEF h
<1>2. Range(h) = {h[i] : i \in 1 .. Len(q) - 1} BY <1>0, <1>1, RangeIs
<1>3. Range(q) = {q[i] : i \in 1 .. Len(q)} BY RangeIs
<1>4. Range(q) = {q[1]} \cup Range(h)
  <2>1. ASSUME NEW u \in Range(q) PROVE u \in {q[1]} \cup Range(h)
    <3>1. PICK i \in 1 .. Len(q) : u = q[i] BY <1>3
    <3>2. CASE i = 1 BY <3>1, <3>2
    <3>3. CASE i # 1
      <4>1. i - 1 \in 1 .. Len(q) - 1 /\ (i - 1) + 1 = i BY <1>0, <3>3
      <4>2. h[i - 1] = u BY <1>1, <3>1, <4>1
      <4> QED BY <1>2, <4>1, <4>2
    <3> QED BY <3>2, <3>3
  <2>2. ASSUME NEW u \in Range(h) PROVE u \in Range(q)
    <3>1. PICK i \in 1 .. Len(q) - 1 : u = h[i] BY <1>2
    <3>2. i + 1 \in 1 .. Len(q) /\ u = q[i + 1] BY <1>0, <1>1, <3>1
    <3> QED BY <1>3, <3>2
  <2>3. q[1] \in Range(q)
    <3>1. 1 \in 1 .. Len(q) BY <1>0
    <3> QED BY <1>3, <3>1
  <2> QED BY <2>1, <2>2, <2>3
<1>5. ASSUME Distinct(q) PROVE Distinct(h) /\ q[1] \notin Range(h)
  <2>1. ASSUME NEW i \in 1 .. Len(q) - 1, NEW j \in 1 .. Len(q) - 1, h[i] = h[j] PROVE i = j
    <3>1. i + 1 \in 1 .. Len(q) /\ j + 1 \in 1 .. Len(q) BY <1>0
    <3>2. q[i + 1] = q[j + 1] BY <1>1, <2>1
    <3>3. i + 1 = j + 1 BY <1>5, <3>1, <3>2 DEF Distinct
    <3> QED BY <3>3
  <2>2. ASSUME NEW i \in 1 .. Len(q) - 1, q[1] = h[i] PROVE FALSE
    <3>1. i + 1 \in 1 .. Len(q) /\ 1 \in 1 .. Len(q) /\ q[1] = q[i + 1] BY <1>0, <1>1, <2>2
    <3>2. i + 1 = 1 BY <1>5, <3>1 DEF Distinct
    <3> QED BY <3>2
  <2> QED BY <1>1, <1>2, <2>1, <2>2 DEF Distinct
<1> QED BY <1>0, <1>1, <1>4, <1>5 DEF h

\* A list without repetitions is as long as it has members.
LEMMA LengthIs ==
    ASSUME NEW q \in Seq(Thread), Distinct(q)
    PROVE  IsFiniteSet(Range(q)) /\ Cardinality(Range(q)) = Len(q)
<1>1. /\ Range(q) = {q[i] : i \in 1 .. Len(q)} /\ Len(q) \in Nat
      /\ DOMAIN q = 1 .. Len(q)
  BY RangeIs
<1>2. q \in [1 .. Len(q) -> Range(q)]
  <2>1. q = [i \in 1 .. Len(q) |-> q[i]] OBVIOUS
  <2>2. \A i \in 1 .. Len(q) : q[i] \in Range(q) BY <1>1
  <2> QED BY <2>1, <2>2
<1>3. q \in Surjection(1 .. Len(q), Range(q)) BY <1>1, <1>2 DEF Surjection
<1>4. q \in Injection(1 .. Len(q), Range(q)) BY <1>2 DEF Injection, IsInjective, Distinct
<1>5. IsFiniteSet(1 .. Len(q)) /\ Cardinality(1 .. Len(q)) = Len(q) BY <1>1, FS_Interval
<1> QED BY <1>3, <1>4, <1>5, FS_Surjection

\* What is left when one is removed.
LEMMA RemoveAtIs ==
    ASSUME NEW q \in Seq(Thread), NEW k \in DOMAIN q
    PROVE  /\ RemoveAt(q, k) \in Seq(Thread)
           /\ Range(RemoveAt(q, k)) \subseteq Range(q)
           /\ Range(q) \subseteq Range(RemoveAt(q, k)) \cup {q[k]}
           /\ Distinct(q) => Distinct(RemoveAt(q, k))
<1> DEFINE n == Len(q)
           r == RemoveAt(q, k)
<1>1. n \in Nat /\ k \in 1 .. n /\ DOMAIN q = 1 .. n
  OBVIOUS
<1>2. /\ SubSeq(q, 1, k - 1) \in Seq(Thread) /\ Len(SubSeq(q, 1, k - 1)) = k - 1
      /\ \A i \in 1 .. k - 1 : SubSeq(q, 1, k - 1)[i] = q[i]
  BY <1>1
<1>3. /\ SubSeq(q, k + 1, n) \in Seq(Thread) /\ Len(SubSeq(q, k + 1, n)) = n - k
      /\ \A i \in 1 .. n - k : SubSeq(q, k + 1, n)[i] = q[k + i]
  BY <1>1
<1>4. /\ r \in Seq(Thread) /\ Len(r) = n - 1
      /\ \A i \in 1 .. n - 1 : r[i] = IF i < k THEN q[i] ELSE q[i + 1]
  <2> DEFINE a == SubSeq(q, 1, k - 1)
             b == SubSeq(q, k + 1, n)
  <2>1. r = a \o b BY DEF RemoveAt
  <2>2. Len(a) = k - 1 /\ Len(b) = n - k /\ a \in Seq(Thread) /\ b \in Seq(Thread) BY <1>2, <1>3
  <2>3. ASSUME NEW i \in 1 .. n - 1 PROVE (a \o b)[i] = IF i < k THEN q[i] ELSE q[i + 1]
    <3>1. CASE i < k
      <4>1. i \in 1 .. k - 1 BY <1>1, <3>1
      <4>2. a[i] = q[i] BY <1>2, <4>1
      <4> HIDE DEF a, b, n
      <4>3. (a \o b)[i] = a[i] BY <1>1, <2>2, <4>1
      <4> QED BY <3>1, <4>2, <4>3
    <3>2. CASE ~(i < k)
      <4>1. i - (k - 1) \in 1 .. n - k /\ k + (i - (k - 1)) = i + 1 BY <1>1, <3>2
      <4>2. b[i - (k - 1)] = q[i + 1] BY <1>3, <4>1
      <4>3. i \in 1 .. Len(a) + Len(b) /\ i > Len(a) /\ i - Len(a) = i - (k - 1) BY <1>1, <2>2, <3>2
      <4> HIDE DEF a, b, n
      <4>4. (a \o b)[i] = b[i - Len(a)] BY <2>2, <4>3
      <4>5. (a \o b)[i] = q[i + 1] BY ONLY <4>2, <4>3, <4>4
      <4> QED BY ONLY <3>2, <4>5
    <3> QED BY <3>1, <3>2
  <2> HIDE DEF a, b, n
  <2>4. (a \o b) \in Seq(Thread) /\ Len(a \o b) = n - 1 BY <1>1, <2>2
  <2> QED BY <2>1, <2>3, <2>4
<1> HIDE DEF r
<1>5. DOMAIN r = 1 .. n - 1 BY <1>1, <1>4
<1> HIDE DEF n
<1>6. Range(r) \subseteq Range(q)
  <2> SUFFICES ASSUME NEW i \in 1 .. n - 1 PROVE r[i] \in Range(q)
    BY <1>5 DEF Range
  <2>1. i \in 1 .. n /\ i + 1 \in 1 .. n BY <1>1
  <2> QED BY <1>1, <1>4, <2>1 DEF Range
<1>7. Range(q) \subseteq Range(r) \cup {q[k]}
  <2> SUFFICES ASSUME NEW i \in 1 .. n, i # k PROVE q[i] \in Range(r)
    BY <1>1 DEF Range
  <2>1. CASE i < k
    <3>1. i \in 1 .. n - 1 BY <1>1, <2>1
    <3>2. r[i] = q[i] BY <1>4, <2>1, <3>1
    <3> QED BY <1>5, <3>1, <3>2 DEF Range
  <2>2. CASE i > k
    <3>1. i - 1 \in 1 .. n - 1 /\ ~(i - 1 < k) /\ (i - 1) + 1 = i BY <1>1, <2>2
    <3>2. r[i - 1] = q[i] BY <1>4, <3>1
    <3> QED BY <1>5, <3>1, <3>2 DEF Range
  <2> QED BY <1>1, <2>1, <2>2
<1>8. ASSUME Distinct(q), NEW i \in 1 .. n - 1, NEW j \in 1 .. n - 1, r[i] = r[j] PROVE i = j
  <2>1. {i, j, i + 1, j + 1} \subseteq 1 .. n BY <1>1
  <2>2. \A u, v \in 1 .. n : q[u] = q[v] => u = v BY <1>8 DEF Distinct, n
  <2> DEFINE from(x) == IF x < k THEN x ELSE x + 1
  <2>3. r[i] = q[from(i)] /\ r[j] = q[from(j)] BY <1>4
  <2>4. from(i) \in 1 .. n /\ from(j) \in 1 .. n BY <2>1
  <2>5. from(i) = from(j)
    <3> HIDE DEF from
    <3> QED BY <1>8, <2>2, <2>3, <2>4
  <2> QED BY <1>1, <2>5
<1> QED BY <1>4, <1>6, <1>7, <1>8 DEF r, Distinct

-----------------------------------------------------------------------------
\* The pointers.
Heads == {HeadOf(L) : L \in ListName}
Tails == {TailOf(L) : L \in ListName}

LEMMA Ends ==
    /\ Node = Thread \cup Heads \cup Tails
    /\ Thread \cap (Heads \cup Tails) = {} /\ Heads \cap Tails = {}
    /\ NULL \notin Node
    /\ \A L \in ListName : HeadOf(L) \in Heads /\ TailOf(L) \in Tails
    /\ \A L, M \in ListName : /\ HeadOf(L) = HeadOf(M) => L = M
                              /\ TailOf(L) = TailOf(M) => L = M
<1>1. \A L, M \in ListName : /\ HeadOf(L) = HeadOf(M) => L = M
                             /\ TailOf(L) = TailOf(M) => L = M
                             /\ HeadOf(L) # TailOf(M)
  BY DEF HeadOf, TailOf
<1> QED BY <1>1, NodeAssumption, NamesAssumption DEF Node, Heads, Tails

\* Whatever was put on two lists, from a node that is no list's end one gets
\* no further than to the end of one; an element that a node points to can be
\* removed, as its own pointers are set.
EndsOK(m) ==
    /\ m.next \in [Node -> (Node \ Heads) \cup {NULL}]
    /\ m.prev \in [Node -> (Node \ Tails) \cup {NULL}]
    /\ \A L \in ListName : /\ m.next[TailOf(L)] = NULL /\ m.prev[HeadOf(L)] = NULL
                           /\ m.next[HeadOf(L)] # NULL /\ m.prev[TailOf(L)] # NULL
    /\ \A n \in Node : m.next[n] \in Thread => m.next[m.next[n]] # NULL /\ m.prev[m.next[n]] # NULL

LEMMA PushKeepsEnds ==
    ASSUME NEW m, EndsOK(m), NEW L \in ListName, NEW t \in Thread
    PROVE  EndsOK(list_push_back(m, L, t))
<1> DEFINE p == m.prev[TailOf(L)]
           r == list_push_back(m, L, t)
<1>1. /\ TailOf(L) \in Tails /\ Tails \subseteq Node /\ Thread \subseteq Node /\ Heads \subseteq Node
      /\ TailOf(L) \notin Heads /\ t \notin Heads /\ t \notin Tails
  BY Ends
<1>2. p \in Node \ Tails BY <1>1 DEF EndsOK
<1>3. r.next = [m.next EXCEPT ![t] = TailOf(L), ![p] = t]
  BY DEF list_push_back, list_insert
<1>4. r.prev = [m.prev EXCEPT ![t] = p, ![TailOf(L)] = t]
  BY DEF list_push_back, list_insert
<1> HIDE DEF p, r
<1>5. r.next \in [Node -> (Node \ Heads) \cup {NULL}]
  BY <1>1, <1>2, <1>3 DEF EndsOK
<1>6. r.prev \in [Node -> (Node \ Tails) \cup {NULL}]
  BY <1>1, <1>2, <1>4 DEF EndsOK
<1>7. ASSUME NEW M \in ListName
      PROVE  /\ r.next[TailOf(M)] = NULL /\ r.prev[HeadOf(M)] = NULL
             /\ r.next[HeadOf(M)] # NULL /\ r.prev[TailOf(M)] # NULL
  BY <1>1, <1>2, <1>3, <1>4, Ends DEF EndsOK
<1>8. ASSUME NEW n \in Node, r.next[n] \in Thread
      PROVE  r.next[r.next[n]] # NULL /\ r.prev[r.next[n]] # NULL
  <2>1. \A x \in Node : m.next[x] # NULL => r.next[x] # NULL
    BY <1>1, <1>2, <1>3, Ends DEF EndsOK
  <2>2. \A x \in Node : m.prev[x] # NULL => r.prev[x] # NULL
    BY <1>1, <1>2, <1>4, Ends DEF EndsOK
  <2>3. r.next[t] # NULL /\ r.prev[t] # NULL
    BY <1>1, <1>2, <1>3, <1>4, Ends DEF EndsOK
  <2>4. r.next[n] = t \/ r.next[n] = m.next[n] \/ r.next[n] = TailOf(L)
    BY <1>1, <1>2, <1>3 DEF EndsOK
  <2>5. CASE r.next[n] = t BY <2>3, <2>5
  <2>6. CASE r.next[n] = m.next[n]
    <3>1. r.next[n] \in Node /\ m.next[r.next[n]] # NULL /\ m.prev[r.next[n]] # NULL
      BY <1>1, <1>8, <2>6 DEF EndsOK
    <3> QED BY <2>1, <2>2, <3>1
  <2>7. r.next[n] # TailOf(L) BY <1>8, Ends
  <2> QED BY <2>4, <2>5, <2>6, <2>7
<1> QED BY <1>5, <1>6, <1>7, <1>8 DEF EndsOK, r

LEMMA RemoveKeepsEnds ==
    ASSUME NEW m, EndsOK(m), NEW t \in Thread, NEW from \in Node, m.next[from] = t
    PROVE  EndsOK(list_remove(m, t))
<1> DEFINE p == m.prev[t]
           x == m.next[t]
           r == list_remove(m, t)
<1>1. /\ Tails \subseteq Node /\ Thread \subseteq Node /\ Heads \subseteq Node
      /\ t \notin Heads /\ t \notin Tails /\ t \in Node
  BY Ends
<1>2. p \in Node \ Tails /\ x \in Node \ Heads BY <1>1 DEF EndsOK
<1>3. r.next = [m.next EXCEPT ![p] = x]
  BY DEF list_remove
<1>4. r.prev = [m.prev EXCEPT ![x] = p]
  <2>1. r.prev = [m.prev EXCEPT ![r.next[t]] = p] BY DEF list_remove
  <2>2. r.next[t] = x BY <1>1, <1>2, <1>3 DEF EndsOK
  <2> QED BY <2>1, <2>2
<1>x. (x \in Thread => m.next[x] # NULL) /\ (x \in Thread => m.prev[x] # NULL)
  BY <1>1 DEF EndsOK
<1> HIDE DEF r
<1>5. r.next \in [Node -> (Node \ Heads) \cup {NULL}]
  BY <1>1, <1>2, <1>3 DEF EndsOK
<1>6. r.prev \in [Node -> (Node \ Tails) \cup {NULL}]
  BY <1>1, <1>2, <1>4 DEF EndsOK
<1>7. ASSUME NEW M \in ListName
      PROVE  /\ r.next[TailOf(M)] = NULL /\ r.prev[HeadOf(M)] = NULL
             /\ r.next[HeadOf(M)] # NULL /\ r.prev[TailOf(M)] # NULL
  BY <1>1, <1>2, <1>3, <1>4, Ends DEF EndsOK
<1>8. ASSUME NEW n \in Node, r.next[n] \in Thread
      PROVE  r.next[r.next[n]] # NULL /\ r.prev[r.next[n]] # NULL
  <2>1. \A y \in Node : m.next[y] # NULL => r.next[y] # NULL
    BY <1>1, <1>2, <1>3, Ends DEF EndsOK
  <2>2. \A y \in Node : m.prev[y] # NULL => r.prev[y] # NULL
    BY <1>1, <1>2, <1>4, Ends DEF EndsOK
  <2>4. r.next[n] = x \/ r.next[n] = m.next[n]
    BY <1>1, <1>2, <1>3 DEF EndsOK
  <2> HIDE DEF x
  <2> QED BY <1>x, <1>1, <1>2, <1>8, <2>1, <2>2, <2>4 DEF EndsOK
<1> QED BY <1>5, <1>6, <1>7, <1>8 DEF EndsOK, r

-----------------------------------------------------------------------------
\* List L holds the threads of q: its nodes, from the head, point to one
\* another both ways.
At(L, q, i) == IF i = 0 THEN HeadOf(L) ELSE IF i <= Len(q) THEN q[i] ELSE TailOf(L)
Chain(m, L, q) ==
    \A i \in 0 .. Len(q) : /\ m.next[At(L, q, i)] = At(L, q, i + 1)
                           /\ m.prev[At(L, q, i + 1)] = At(L, q, i)

\* A node of the list is at one place.
LEMMA AtIs ==
    ASSUME NEW L \in ListName, NEW q \in Seq(Thread)
    PROVE  /\ At(L, q, 0) = HeadOf(L) /\ At(L, q, Len(q) + 1) = TailOf(L)
           /\ \A i \in 1 .. Len(q) : At(L, q, i) = q[i] /\ q[i] \in Thread /\ q[i] \in Range(q)
           /\ \A i \in 0 .. Len(q) : At(L, q, i) \in Range(q) \cup {HeadOf(L)}
           /\ \A i \in 0 .. Len(q) : At(L, q, i + 1) \in Range(q) \cup {TailOf(L)}
           /\ \A i \in 0 .. Len(q) + 1 : At(L, q, i) \in Node
           /\ Distinct(q) => \A i, j \in 0 .. Len(q) + 1 : At(L, q, i) = At(L, q, j) => i = j
<1>1. Len(q) \in Nat /\ \A i \in 1 .. Len(q) : q[i] \in Thread
  OBVIOUS
<1>2. Range(q) = {q[i] : i \in 1 .. Len(q)} BY RangeIs
<1>3. At(L, q, 0) = HeadOf(L) /\ At(L, q, Len(q) + 1) = TailOf(L) BY <1>1 DEF At
<1>4. \A i \in 1 .. Len(q) : At(L, q, i) = q[i] /\ q[i] \in Thread /\ q[i] \in Range(q) BY <1>1, <1>2 DEF At
<1>5. \A i \in 0 .. Len(q) : At(L, q, i) \in Range(q) \cup {HeadOf(L)}
  <2>1. \A i \in 0 .. Len(q) : i = 0 \/ i \in 1 .. Len(q) BY <1>1
  <2> QED BY <1>3, <1>4, <2>1
<1>6. \A i \in 0 .. Len(q) : At(L, q, i + 1) \in Range(q) \cup {TailOf(L)}
  <2>1. \A i \in 0 .. Len(q) : i = Len(q) \/ i + 1 \in 1 .. Len(q) BY <1>1
  <2> QED BY <1>3, <1>4, <2>1
<1>0. \A i \in 0 .. Len(q) + 1 : i = 0 \/ i = Len(q) + 1 \/ i \in 1 .. Len(q) BY <1>1
<1>7. \A i \in 0 .. Len(q) + 1 : At(L, q, i) \in Node
  BY <1>0, <1>3, <1>4, Ends
<1>8. ASSUME Distinct(q), NEW i \in 0 .. Len(q) + 1, NEW j \in 0 .. Len(q) + 1, At(L, q, i) = At(L, q, j)
      PROVE  i = j
  <2>1. HeadOf(L) # TailOf(L) /\ HeadOf(L) \notin Thread /\ TailOf(L) \notin Thread BY Ends
  <2> QED BY <1>0, <1>3, <1>4, <1>8, <2>1 DEF Distinct
<1> QED BY <1>3, <1>4, <1>5, <1>6, <1>7, <1>8

\* Only the pointers of its own nodes make a list.
LEMMA ChainFrame ==
    ASSUME NEW m, NEW r, NEW L \in ListName, NEW q \in Seq(Thread), Chain(m, L, q),
           \A n \in Range(q) \cup {HeadOf(L)} : r.next[n] = m.next[n],
           \A n \in Range(q) \cup {TailOf(L)} : r.prev[n] = m.prev[n]
    PROVE  Chain(r, L, q)
<1> SUFFICES ASSUME NEW i \in 0 .. Len(q)
             PROVE  /\ r.next[At(L, q, i)] = At(L, q, i + 1)
                    /\ r.prev[At(L, q, i + 1)] = At(L, q, i)
  BY DEF Chain
<1>1. /\ m.next[At(L, q, i)] = At(L, q, i + 1)
      /\ m.prev[At(L, q, i + 1)] = At(L, q, i)
  BY DEF Chain
<1> QED BY <1>1, AtIs

\* list_push_back() puts the element last ...
LEMMA PushChain ==
    ASSUME NEW m, EndsOK(m), NEW L \in ListName, NEW q \in Seq(Thread), Distinct(q), Chain(m, L, q),
           NEW t \in Thread \ Range(q)
    PROVE  Chain(list_push_back(m, L, t), L, Append(q, t))
<1> DEFINE r == list_push_back(m, L, t)
           a == Append(q, t)
           k == Len(q)
<1>1. k \in Nat /\ a \in Seq(Thread) /\ Len(a) = k + 1 BY AppendIs, RangeIs
<1>2. m.prev[TailOf(L)] = At(L, q, k) /\ m.next[At(L, q, k)] = TailOf(L)
  <2>1. k \in 0 .. Len(q) BY <1>1
  <2> QED BY <2>1, AtIs DEF Chain
<1>3. r.next = [m.next EXCEPT ![t] = TailOf(L), ![At(L, q, k)] = t]
  BY <1>2 DEF list_push_back, list_insert
<1>4. r.prev = [m.prev EXCEPT ![t] = At(L, q, k), ![TailOf(L)] = t]
  BY <1>2 DEF list_push_back, list_insert
<1>5. /\ \A i \in 0 .. k : At(L, a, i) = At(L, q, i)
      /\ At(L, a, k + 1) = t /\ At(L, a, k + 2) = TailOf(L)
  <2>1. \A i \in 1 .. k : At(L, a, i) = a[i] /\ At(L, q, i) = q[i] /\ a[i] = q[i]
    BY <1>1, AppendIs DEF At
  <2>2. At(L, a, 0) = At(L, q, 0) BY DEF At
  <2>3. \A i \in 0 .. k : i = 0 \/ i \in 1 .. k BY <1>1
  <2>4. At(L, a, k + 1) = a[k + 1] /\ At(L, a, k + 2) = TailOf(L) BY <1>1 DEF At
  <2> QED BY <2>1, <2>2, <2>3, <2>4, AppendIs
<1> HIDE DEF r, a, k
<1>6. /\ \A i \in 0 .. k + 1 : At(L, q, i) \in Node /\ At(L, q, i) # t
      /\ \A i, j \in 0 .. k + 1 : At(L, q, i) = At(L, q, j) => i = j
      /\ At(L, q, k + 1) = TailOf(L)
  <2>1. HeadOf(L) # t /\ TailOf(L) # t BY Ends
  <2>2. \A i \in 0 .. k + 1 : At(L, q, i) # t
    <3>1. \A i \in 0 .. k + 1 : i = 0 \/ i = k + 1 \/ i \in 1 .. k BY <1>1
    <3> QED BY <2>1, <3>1, AtIs DEF k
  <2> QED BY <2>2, AtIs DEF k
<1>7. /\ m.next \in [Node -> (Node \ Heads) \cup {NULL}] /\ m.prev \in [Node -> (Node \ Tails) \cup {NULL}]
      /\ t \in Node /\ TailOf(L) \in Node /\ TailOf(L) # t
  BY Ends DEF EndsOK
<1> SUFFICES ASSUME NEW i \in 0 .. k + 1
             PROVE  /\ r.next[At(L, a, i)] = At(L, a, i + 1)
                    /\ r.prev[At(L, a, i + 1)] = At(L, a, i)
  BY <1>1 DEF Chain, a, r
<1>8. CASE i \in 0 .. k - 1
  <2>1. i \in 0 .. k /\ i + 1 \in 0 .. k /\ i + 1 \in 0 .. k + 1 /\ i # k /\ i + 1 # k + 1 /\ k \in 0 .. k + 1 /\ k + 1 \in 0 .. k + 1
    BY <1>1, <1>8
  <2>2. m.next[At(L, q, i)] = At(L, q, i + 1) /\ m.prev[At(L, q, i + 1)] = At(L, q, i)
    BY <2>1 DEF Chain, k
  <2>3. At(L, q, i) # At(L, q, k) /\ At(L, q, i + 1) # TailOf(L) BY <1>6, <2>1
  <2>4. r.next[At(L, q, i)] = m.next[At(L, q, i)] BY <1>3, <1>6, <1>7, <2>1, <2>3
  <2>5. r.prev[At(L, q, i + 1)] = m.prev[At(L, q, i + 1)] BY <1>4, <1>6, <1>7, <2>1, <2>3
  <2> QED BY <1>5, <2>1, <2>2, <2>4, <2>5
<1>9. CASE i = k
  <2>1. k \in 0 .. k + 1 /\ k \in 0 .. k BY <1>1
  <2>2. r.next[At(L, q, k)] = t BY <1>3, <1>6, <1>7, <2>1
  <2>3. r.prev[t] = At(L, q, k) BY <1>4, <1>7
  <2> QED BY <1>5, <1>9, <2>1, <2>2, <2>3
<1>10. CASE i = k + 1
  <2>1. k \in 0 .. k + 1 /\ i + 1 = k + 2 BY <1>1, <1>10
  <2>2. r.next[t] = TailOf(L) BY <1>3, <1>6, <1>7, <2>1
  <2>3. r.prev[TailOf(L)] = t BY <1>4, <1>7
  <2> QED BY <1>5, <1>10, <2>1, <2>2, <2>3
<1> QED BY <1>1, <1>8, <1>9, <1>10

\* ... and leaves the other lists alone, if it was on none of them.
LEMMA PushOther ==
    ASSUME NEW m, EndsOK(m), NEW L \in ListName, NEW q \in Seq(Thread), Chain(m, L, q),
           NEW M \in ListName \ {L}, NEW w \in Seq(Thread), Chain(m, M, w),
           NEW t \in Thread \ Range(w), Range(q) \cap Range(w) = {}
    PROVE  Chain(list_push_back(m, L, t), M, w)
<1> DEFINE r == list_push_back(m, L, t)
           p == m.prev[TailOf(L)]
<1>1. p \in Range(q) \cup {HeadOf(L)}
  <2>1. Len(q) \in 0 .. Len(q) BY RangeIs
  <2>2. p = At(L, q, Len(q)) BY <2>1, AtIs DEF Chain
  <2> QED BY <2>1, <2>2, AtIs
<1>2. r.next = [m.next EXCEPT ![t] = TailOf(L), ![p] = t]
  BY DEF list_push_back, list_insert
<1>3. r.prev = [m.prev EXCEPT ![t] = p, ![TailOf(L)] = t]
  BY DEF list_push_back, list_insert
<1>4. /\ m.next \in [Node -> (Node \ Heads) \cup {NULL}] /\ m.prev \in [Node -> (Node \ Tails) \cup {NULL}]
      /\ Range(w) \subseteq Thread /\ Range(q) \subseteq Thread
  BY RangeIs DEF EndsOK
<1>5. /\ HeadOf(M) \in Node /\ TailOf(M) \in Node /\ Range(w) \subseteq Node
      /\ HeadOf(M) \notin Range(q) \cup {HeadOf(L), t}
      /\ TailOf(M) \notin {TailOf(L), t} /\ TailOf(L) \notin Range(w) /\ HeadOf(L) \notin Range(w)
  BY <1>4, Ends
<1> HIDE DEF r, p
<1>6. \A n \in Range(w) \cup {HeadOf(M)} : r.next[n] = m.next[n]
  BY <1>1, <1>2, <1>4, <1>5
<1>7. \A n \in Range(w) \cup {TailOf(M)} : r.prev[n] = m.prev[n]
  BY <1>3, <1>4, <1>5
<1> QED BY <1>6, <1>7, ChainFrame DEF r

\* What list_empty() and list_front() see.
LEMMA FrontIs ==
    ASSUME NEW m, NEW L \in ListName, NEW q \in Seq(Thread), Chain(m, L, q)
    PROVE  /\ list_empty(m, L) <=> q = <<>>
           /\ q # <<>> => list_front(m, L) = Head(q) /\ Head(q) \in Range(q) /\ Head(q) \in Thread
<1>1. Len(q) \in Nat /\ 0 \in 0 .. Len(q) /\ 0 + 1 = 1 /\ (q = <<>> <=> Len(q) = 0) BY RangeIs
<1>2. m.next[HeadOf(L)] = At(L, q, 1) BY <1>1, AtIs DEF Chain
<1>3. CASE q = <<>>
  <2>1. At(L, q, 1) = TailOf(L) BY <1>1, <1>3 DEF At
  <2> QED BY <1>2, <1>3, <2>1 DEF list_empty
<1>4. CASE q # <<>>
  <2>0. Len(q) >= 1 /\ Head(q) = q[1] BY <1>4, TailIs
  <2>1. 1 \in 1 .. Len(q) /\ Head(q) = q[1] BY <1>1, <2>0
  <2>2. At(L, q, 1) = Head(q) /\ Head(q) \in Range(q) /\ Head(q) \in Thread BY <2>1, AtIs
  <2>3. Head(q) # TailOf(L) BY <2>2, Ends
  <2> QED BY <1>2, <1>4, <2>2, <2>3 DEF list_empty, list_front
<1> QED BY <1>3, <1>4

\* list_remove() of the front leaves the rest ...
LEMMA RemoveChain ==
    ASSUME NEW m, EndsOK(m), NEW L \in ListName, NEW q \in Seq(Thread), Distinct(q), Chain(m, L, q),
           q # <<>>
    PROVE  Chain(list_remove(m, Head(q)), L, Tail(q))
<1> DEFINE t == Head(q)
           r == list_remove(m, t)
           b == Tail(q)
           k == Len(b)
<1>1. /\ k \in Nat /\ Len(q) = k + 1 /\ t = q[1] /\ t \in Thread /\ b \in Seq(Thread)
      /\ \A i \in 1 .. k : b[i] = q[i + 1]
  BY TailIs, RangeIs
<1>2. /\ At(L, b, 0) = At(L, q, 0) /\ At(L, q, 1) = t
      /\ \A i \in 1 .. k + 1 : At(L, b, i) = At(L, q, i + 1)
  BY <1>1 DEF At
<1> HIDE DEF t, r, b, k
<1>3. \A i \in 0 .. k + 1 : /\ m.next[At(L, q, i)] = At(L, q, i + 1)
                            /\ m.prev[At(L, q, i + 1)] = At(L, q, i)
  BY <1>1 DEF Chain
<1>4. m.prev[t] = At(L, q, 0) /\ m.next[t] = At(L, q, 2)
  <2>1. 0 \in 0 .. k + 1 /\ 1 \in 0 .. k + 1 /\ 0 + 1 = 1 /\ 1 + 1 = 2 BY <1>1
  <2> QED BY <1>2, <1>3, <2>1
<1>5. /\ \A i \in 0 .. k + 2 : At(L, q, i) \in Node
      /\ \A i, j \in 0 .. k + 2 : At(L, q, i) = At(L, q, j) => i = j
  <2>1. Len(q) + 1 = k + 2 BY <1>1
  <2> QED BY <2>1, AtIs
<1>6. /\ m.next \in [Node -> (Node \ Heads) \cup {NULL}] /\ m.prev \in [Node -> (Node \ Tails) \cup {NULL}]
  BY DEF EndsOK
<1>7. r.next = [m.next EXCEPT ![At(L, q, 0)] = At(L, q, 2)]
  BY <1>4 DEF list_remove, r
<1>0. 0 \in 0 .. k + 2 /\ 1 \in 0 .. k + 2 /\ 2 \in 0 .. k + 2 BY <1>1
<1>8. r.prev = [m.prev EXCEPT ![At(L, q, 2)] = At(L, q, 0)]
  <2>1. r.prev = [m.prev EXCEPT ![r.next[t]] = At(L, q, 0)] BY <1>4 DEF list_remove, r
  <2>2. At(L, q, 1) # At(L, q, 0) BY <1>0, <1>5
  <2>3. r.next[At(L, q, 1)] = m.next[At(L, q, 1)] BY <1>0, <1>5, <1>6, <1>7, <2>2
  <2> QED BY <1>2, <1>4, <2>1, <2>3
<1> SUFFICES ASSUME NEW i \in 0 .. k
             PROVE  /\ r.next[At(L, b, i)] = At(L, b, i + 1)
                    /\ r.prev[At(L, b, i + 1)] = At(L, b, i)
  BY DEF Chain, k, b, r, t
<1>9. CASE i = 0
  <2>1. At(L, b, 1) = At(L, q, 2)
    <3>1. 1 \in 1 .. k + 1 /\ 1 + 1 = 2 BY <1>1
    <3> QED BY <1>2, <3>1
  <2>2. r.next[At(L, q, 0)] = At(L, q, 2) BY <1>0, <1>5, <1>6, <1>7
  <2>3. r.prev[At(L, q, 2)] = At(L, q, 0) BY <1>0, <1>5, <1>6, <1>8
  <2>4. i + 1 = 1 BY <1>9
  <2> QED BY <1>2, <1>9, <2>1, <2>2, <2>3, <2>4
<1>10. CASE i \in 1 .. k
  <2>1. /\ i \in 1 .. k + 1 /\ i + 1 \in 1 .. k + 1 /\ i + 1 \in 0 .. k + 1 /\ i + 1 \in 0 .. k + 2
        /\ (i + 1) + 1 \in 0 .. k + 2 /\ i + 1 # 0 /\ (i + 1) + 1 # 2
    BY <1>1, <1>10
  <2>2. At(L, b, i) = At(L, q, i + 1) /\ At(L, b, i + 1) = At(L, q, (i + 1) + 1) BY <1>2, <2>1
  <2>3. /\ m.next[At(L, q, i + 1)] = At(L, q, (i + 1) + 1)
        /\ m.prev[At(L, q, (i + 1) + 1)] = At(L, q, i + 1)
    BY <1>3, <2>1
  <2>4. At(L, q, i + 1) # At(L, q, 0) /\ At(L, q, (i + 1) + 1) # At(L, q, 2) BY <1>0, <1>5, <2>1
  <2>5. r.next[At(L, q, i + 1)] = m.next[At(L, q, i + 1)] BY <1>5, <1>6, <1>7, <2>1, <2>4
  <2>6. r.prev[At(L, q, (i + 1) + 1)] = m.prev[At(L, q, (i + 1) + 1)] BY <1>5, <1>6, <1>8, <2>1, <2>4
  <2> QED BY <2>2, <2>3, <2>5, <2>6
<1> QED BY <1>1, <1>9, <1>10

\* ... and the lists that share no thread with it.
LEMMA RemoveOther ==
    ASSUME NEW m, EndsOK(m), NEW L \in ListName, NEW q \in Seq(Thread), Distinct(q), Chain(m, L, q),
           q # <<>>,
           NEW M \in ListName \ {L}, NEW w \in Seq(Thread), Chain(m, M, w),
           Range(q) \cap Range(w) = {}
    PROVE  Chain(list_remove(m, Head(q)), M, w)
<1> DEFINE t == Head(q)
           r == list_remove(m, t)
           p == m.prev[t]
           x == m.next[t]
<1>1. Len(q) \in Nat /\ Len(q) >= 1 /\ t = q[1] /\ t \in Thread /\ t \in Range(q)
  BY TailIs, RangeIs
<1>2. p = HeadOf(L) /\ x \in Range(q) \cup {TailOf(L)}
  <2>1. 0 \in 0 .. Len(q) /\ 1 \in 0 .. Len(q) /\ 0 + 1 = 1 /\ 1 \in 1 .. Len(q) BY <1>1
  <2>2. At(L, q, 1) = t BY <1>1, <2>1, AtIs
  <2>3. p = At(L, q, 0) /\ x = At(L, q, 1 + 1) BY <2>1, <2>2 DEF Chain
  <2> QED BY <2>1, <2>3, AtIs
<1>3. /\ m.next \in [Node -> (Node \ Heads) \cup {NULL}] /\ m.prev \in [Node -> (Node \ Tails) \cup {NULL}]
      /\ Range(w) \subseteq Thread /\ Range(q) \subseteq Thread
  BY RangeIs DEF EndsOK
<1>4. /\ HeadOf(M) \in Node /\ TailOf(M) \in Node /\ Range(w) \subseteq Node /\ t \in Node
      /\ HeadOf(L) # t /\ HeadOf(M) # HeadOf(L) /\ HeadOf(L) \notin Range(w)
      /\ TailOf(M) \notin Range(q) \cup {TailOf(L)} /\ TailOf(L) \notin Range(w)
  BY <1>1, <1>3, Ends
<1>5. r.next = [m.next EXCEPT ![HeadOf(L)] = x]
  BY <1>2 DEF list_remove
<1>6. r.prev = [m.prev EXCEPT ![x] = p]
  <2>1. r.prev = [m.prev EXCEPT ![r.next[t]] = p] BY DEF list_remove
  <2>2. r.next[t] = x BY <1>3, <1>4, <1>5
  <2> QED BY <2>1, <2>2
<1> HIDE DEF r, p, x
<1>7. \A n \in Range(w) \cup {HeadOf(M)} : r.next[n] = m.next[n]
  BY <1>3, <1>4, <1>5
<1>8. \A n \in Range(w) \cup {TailOf(M)} : r.prev[n] = m.prev[n]
  BY <1>2, <1>3, <1>4, <1>6
<1> QED BY <1>7, <1>8, ChainFrame DEF r, t

-----------------------------------------------------------------------------
\* IsListOf() sees the list.

\* The walk from the head ...
LEMMA ForwardIs ==
    ASSUME NEW m, NEW L \in ListName, NEW q \in Seq(Thread), Distinct(q), Chain(m, L, q)
    PROVE  \A n \in 0 .. Len(q) + 1 : Forward(m, L, n) = At(L, q, n)
<1> DEFINE k == Len(q)
           F(g) == [i \in Nat |-> IF i = 0 THEN HeadOf(L)
                                  ELSE IF g[i - 1] = TailOf(L) THEN TailOf(L) ELSE m.next[g[i - 1]]]
           f == [i \in Nat |-> At(L, q, i)]
<1>1. k \in Nat /\ At(L, q, 0) = HeadOf(L) BY RangeIs, AtIs
<1>2. ASSUME NEW i \in Nat, i # 0
      PROVE  At(L, q, i) = IF At(L, q, i - 1) = TailOf(L) THEN TailOf(L) ELSE m.next[At(L, q, i - 1)]
  <2>1. CASE i <= k + 1
    <3>1. i - 1 \in 0 .. k /\ (i - 1) + 1 = i BY <1>1, <1>2, <2>1
    <3>2. At(L, q, i - 1) # TailOf(L)
      <4>1. At(L, q, i - 1) \in Range(q) \cup {HeadOf(L)} /\ Range(q) \subseteq Thread BY <3>1, AtIs, RangeIs
      <4> QED BY <4>1, Ends
    <3>3. m.next[At(L, q, i - 1)] = At(L, q, (i - 1) + 1) BY <3>1 DEF Chain
    <3> QED BY <3>1, <3>2, <3>3
  <2>2. CASE i > k + 1
    <3>1. At(L, q, i) = TailOf(L) /\ At(L, q, i - 1) = TailOf(L) BY <1>1, <2>2 DEF At
    <3> QED BY <3>1
  <2> QED BY <1>1, <2>1, <2>2
<1>3. f = F(f)
  <2>1. \A i \in Nat : f[i] = IF i = 0 THEN HeadOf(L)
                              ELSE IF f[i - 1] = TailOf(L) THEN TailOf(L) ELSE m.next[f[i - 1]]
    BY <1>1, <1>2
  <2>2. f = [i \in Nat |-> f[i]] OBVIOUS
  <2> HIDE DEF f
  <2> QED BY <2>1, <2>2
<1>4. PICK g : g = CHOOSE h : h = F(h) OBVIOUS
<1>5. g = F(g)
  <2> HIDE DEF f, F
  <2> QED BY <1>3, <1>4
<1>6. Forward(m, L, 0) = g[0] /\ \A n \in Nat : Forward(m, L, n) = g[n] BY <1>4 DEF Forward
<1>7. {i \in Nat : g[i] = f[i]} = Nat
  <2> DEFINE S == {i \in Nat : g[i] = f[i]}
  <2>1. 0 \in S BY <1>1, <1>5
  <2>2. ASSUME NEW i \in S PROVE i + 1 \in S
    <3>1. i + 1 \in Nat /\ i + 1 # 0 /\ (i + 1) - 1 = i /\ g[i] = f[i] OBVIOUS
    <3>2. g[i + 1] = F(g)[i + 1] /\ f[i + 1] = F(f)[i + 1]
      <4> HIDE DEF F, f
      <4> QED BY <1>3, <1>5
    <3>3. F(g)[i + 1] = F(f)[i + 1]
      <4> HIDE DEF f
      <4> QED BY <3>1
    <3> HIDE DEF F, f
    <3> QED BY <3>1, <3>2, <3>3
  <2>3. S \in SUBSET Nat OBVIOUS
  <2> HIDE DEF S
  <2>4. S = Nat BY <2>1, <2>2, <2>3, NaturalsFromZero
  <2> QED BY <2>4 DEF S
<1> QED
  <2> SUFFICES ASSUME NEW n \in 0 .. k + 1 PROVE Forward(m, L, n) = At(L, q, n)
    OBVIOUS
  <2>1. n \in Nat BY <1>1
  <2>2. g[n] = f[n] BY <1>7, <2>1
  <2> QED BY <1>6, <2>1, <2>2

\* ... and the one back from the tail meet its nodes one by one.
LEMMA BackwardIs ==
    ASSUME NEW m, NEW L \in ListName, NEW q \in Seq(Thread), Distinct(q), Chain(m, L, q)
    PROVE  \A n \in 0 .. Len(q) + 1 : Backward(m, L, n) = At(L, q, Len(q) + 1 - n)
<1> DEFINE k == Len(q)
           F(g) == [i \in Nat |-> IF i = 0 THEN TailOf(L)
                                  ELSE IF g[i - 1] = HeadOf(L) THEN HeadOf(L) ELSE m.prev[g[i - 1]]]
           f == [i \in Nat |-> IF i <= k + 1 THEN At(L, q, k + 1 - i) ELSE HeadOf(L)]
<1>1. k \in Nat /\ At(L, q, 0) = HeadOf(L) /\ At(L, q, k + 1) = TailOf(L) BY RangeIs, AtIs
<1>2. ASSUME NEW i \in Nat, i # 0
      PROVE  f[i] = IF f[i - 1] = HeadOf(L) THEN HeadOf(L) ELSE m.prev[f[i - 1]]
  <2>1. CASE i <= k + 1
    <3>1. /\ k + 1 - i \in 0 .. k /\ (k + 1 - i) + 1 = k + 1 - (i - 1) /\ i - 1 \in Nat /\ i - 1 <= k + 1
      BY <1>1, <1>2, <2>1
    <3>2. f[i] = At(L, q, k + 1 - i) /\ f[i - 1] = At(L, q, (k + 1 - i) + 1) BY <2>1, <3>1
    <3>3. f[i - 1] # HeadOf(L)
      <4>1. f[i - 1] \in Range(q) \cup {TailOf(L)} /\ Range(q) \subseteq Thread BY <3>1, <3>2, AtIs, RangeIs
      <4> QED BY <4>1, Ends
    <3>4. m.prev[At(L, q, (k + 1 - i) + 1)] = At(L, q, k + 1 - i) BY <3>1 DEF Chain
    <3> QED BY <3>2, <3>3, <3>4
  <2>2. CASE i > k + 1
    <3>0. i - 1 \in Nat BY <1>2
    <3>1. f[i] = HeadOf(L) BY <1>1, <2>2
    <3>2. CASE i - 1 = k + 1
      <4>1. f[i - 1] = At(L, q, k + 1 - (i - 1)) /\ k + 1 - (i - 1) = 0 BY <1>1, <3>0, <3>2
      <4> QED BY <1>1, <3>1, <4>1
    <3>3. CASE i - 1 # k + 1
      <4>1. ~(i - 1 <= k + 1) BY <1>1, <2>2, <3>3
      <4>2. f[i - 1] = HeadOf(L) BY <3>0, <4>1
      <4> QED BY <3>1, <4>2
    <3> QED BY <3>2, <3>3
  <2> QED BY <1>1, <2>1, <2>2
<1>3. f = F(f)
  <2>0. f[0] = TailOf(L) BY <1>1
  <2>1. \A i \in Nat : f[i] = IF i = 0 THEN TailOf(L)
                              ELSE IF f[i - 1] = HeadOf(L) THEN HeadOf(L) ELSE m.prev[f[i - 1]]
    <3> HIDE DEF f
    <3> QED BY <1>2, <2>0
  <2>2. f = [i \in Nat |-> f[i]] OBVIOUS
  <2> HIDE DEF f
  <2> QED BY <2>1, <2>2
<1>4. PICK g : g = CHOOSE h : h = F(h) OBVIOUS
<1>5. g = F(g)
  <2> HIDE DEF f, F
  <2> QED BY <1>3, <1>4
<1>6. \A n \in Nat : Backward(m, L, n) = g[n] BY <1>4 DEF Backward
<1>7. {i \in Nat : g[i] = f[i]} = Nat
  <2> DEFINE S == {i \in Nat : g[i] = f[i]}
  <2>1. 0 \in S
    <3>1. g[0] = F(g)[0] /\ f[0] = F(f)[0]
      <4> HIDE DEF F, f
      <4> QED BY <1>3, <1>5
    <3>2. F(g)[0] = F(f)[0]
      <4> HIDE DEF f
      <4> QED OBVIOUS
    <3> HIDE DEF F, f
    <3> QED BY <3>1, <3>2
  <2>2. ASSUME NEW i \in S PROVE i + 1 \in S
    <3>1. i + 1 \in Nat /\ i + 1 # 0 /\ (i + 1) - 1 = i /\ g[i] = f[i]
      <4> HIDE DEF f
      <4> QED OBVIOUS
    <3>2. g[i + 1] = F(g)[i + 1] /\ f[i + 1] = F(f)[i + 1]
      <4> HIDE DEF F, f
      <4> QED BY <1>3, <1>5
    <3>3. F(g)[i + 1] = F(f)[i + 1]
      <4> HIDE DEF f
      <4> QED BY <3>1
    <3> HIDE DEF F, f
    <3> QED BY <3>1, <3>2, <3>3
  <2>3. S \in SUBSET Nat OBVIOUS
  <2> HIDE DEF S
  <2>4. S = Nat BY <2>1, <2>2, <2>3, NaturalsFromZero
  <2> QED BY <2>4 DEF S
<1> QED
  <2> SUFFICES ASSUME NEW n \in 0 .. k + 1 PROVE Backward(m, L, n) = At(L, q, k + 1 - n)
    OBVIOUS
  <2>1. n \in Nat /\ n <= k + 1 BY <1>1
  <2>2. f[n] = At(L, q, k + 1 - n) BY <2>1
  <2> HIDE DEF f
  <2>3. g[n] = f[n] BY <1>7, <2>1
  <2> QED BY <1>6, <2>1, <2>2, <2>3

LEMMA ListIs ==
    ASSUME NEW m, NEW L \in ListName, NEW q \in Seq(Thread), Distinct(q), Chain(m, L, q)
    PROVE  IsListOf(m, L, Range(q))
<1> DEFINE k == Len(q)
<1>1. k \in Nat /\ Cardinality(Range(q)) = k /\ Range(q) = {q[i] : i \in 1 .. k}
  BY LengthIs, RangeIs
<1>0. /\ \A n \in 0 .. k + 1 : Forward(m, L, n) = At(L, q, n)
      /\ \A n \in 0 .. k + 1 : Backward(m, L, n) = At(L, q, k + 1 - n)
  <2>1. \A n \in 0 .. k + 1 : Forward(m, L, n) = At(L, q, n) BY ForwardIs
  <2>2. \A n \in 0 .. k + 1 : Backward(m, L, n) = At(L, q, k + 1 - n) BY BackwardIs
  <2> QED BY <2>1, <2>2
<1>a. At(L, q, k + 1) = TailOf(L) /\ \A n \in 1 .. k : At(L, q, n) = q[n] BY AtIs
<1> HIDE DEF k
<1>2. \A n \in 1 .. k : Forward(m, L, n) = q[n]
  <2>1. \A n \in 1 .. k : n \in 0 .. k + 1 BY <1>1
  <2> QED BY <1>0, <1>a, <2>1
<1>3. Range(q) = {Forward(m, L, n) : n \in 1 .. k} BY <1>1, <1>2
<1>4. Forward(m, L, k + 1) = TailOf(L)
  <2>1. k + 1 \in 0 .. k + 1 BY <1>1
  <2> QED BY <1>0, <1>a, <2>1
<1>5. ASSUME NEW n \in 0 .. k + 1 PROVE Backward(m, L, n) = Forward(m, L, k + 1 - n)
  <2>1. k + 1 - n \in 0 .. k + 1 BY <1>1
  <2> QED BY <1>0, <2>1
<1> QED BY <1>1, <1>3, <1>4, <1>5 DEF IsListOf

-----------------------------------------------------------------------------
\* The walk of wake_sleeping_threads(): f[n] is what it has made of the
\* pointers after n threads.
Walk(f, lk, q, S, n) ==
    f = [i \in 0 .. n |-> IF i = 0 THEN lk
                          ELSE IF q[i] \in S THEN list_push_back(f[i - 1], Ready, q[i]) ELSE f[i - 1]]

LEMMA WalkExists ==
    ASSUME NEW lk, NEW q, NEW S, NEW n \in Nat
    PROVE  \E f : Walk(f, lk, q, S, n)
<1> DEFINE step(x, i) == IF q[i] \in S THEN list_push_back(x, Ready, q[i]) ELSE x
           W == {m \in Nat : \E f : Walk(f, lk, q, S, m)}
<1>0. \A f : \A m \in Nat : Walk(f, lk, q, S, m) <=> f = [i \in 0 .. m |-> IF i = 0 THEN lk ELSE step(f[i - 1], i)]
  BY DEF Walk
<1> HIDE DEF step
<1>1. 0 \in W
  <2>1. [i \in 0 .. 0 |-> lk] = [i \in 0 .. 0 |-> IF i = 0 THEN lk ELSE step([j \in 0 .. 0 |-> lk][i - 1], i)] OBVIOUS
  <2> QED BY <1>0, <2>1
<1>2. ASSUME NEW m \in W PROVE m + 1 \in W
  <2>1. PICK f : f = [i \in 0 .. m |-> IF i = 0 THEN lk ELSE step(f[i - 1], i)] BY <1>0, <1>2
  <2> DEFINE g == [i \in 0 .. m + 1 |-> IF i <= m THEN f[i] ELSE step(f[m], m + 1)]
  <2>2. ASSUME NEW i \in 0 .. m + 1
        PROVE  g[i] = IF i = 0 THEN lk ELSE step(g[i - 1], i)
    <3>1. CASE i = 0
      <4>1. g[0] = f[0] /\ f[0] = lk BY <2>1
      <4> QED BY <3>1, <4>1
    <3>2. CASE i \in 1 .. m
      <4>1. g[i] = f[i] /\ g[i - 1] = f[i - 1] BY <3>2
      <4>2. f[i] = step(f[i - 1], i) BY <2>1, <3>2
      <4> HIDE DEF g
      <4> QED BY <3>2, <4>1, <4>2
    <3>3. CASE i = m + 1
      <4>1. g[i - 1] = f[m] /\ g[i] = step(f[m], m + 1) BY <3>3
      <4> HIDE DEF g
      <4> QED BY <3>3, <4>1
    <3> QED BY <3>1, <3>2, <3>3
  <2>3. g = [i \in 0 .. m + 1 |-> IF i = 0 THEN lk ELSE step(g[i - 1], i)]
    <3>1. DOMAIN g = 0 .. m + 1 /\ g = [i \in 0 .. m + 1 |-> g[i]] OBVIOUS
    <3> HIDE DEF g
    <3> QED BY <2>2, <3>1
  <2>4. m + 1 \in Nat OBVIOUS
  <2> HIDE DEF g
  <2> QED BY <1>0, <2>3, <2>4
<1>3. W = Nat
  <2>1. W \in SUBSET Nat OBVIOUS
  <2> HIDE DEF W
  <2> QED BY <1>1, <1>2, <2>1, NaturalsFromZero
<1> QED BY <1>3

Walked(f, lk, q, S) ==
    /\ f[0] = lk
    /\ \A i \in 1 .. Len(q) :
          f[i] = IF q[i] \in S THEN list_push_back(f[i - 1], Ready, q[i]) ELSE f[i - 1]

LEMMA ReadyAfterIs ==
    ASSUME NEW lk, NEW q \in Seq(Thread), NEW S
    PROVE  \E f : ReadyAfter(lk, q, S) = f[Len(q)] /\ Walked(f, lk, q, S)
<1> DEFINE F(f) == [i \in 0 .. Len(q) |-> IF i = 0 THEN lk
                       ELSE IF q[i] \in S THEN list_push_back(f[i - 1], Ready, q[i]) ELSE f[i - 1]]
<1>0. Len(q) \in Nat BY RangeIs
<1>1. \E f : f = F(f)
  <2>1. PICK f : Walk(f, lk, q, S, Len(q)) BY <1>0, WalkExists
  <2>2. f = F(f) BY <2>1 DEF Walk
  <2> HIDE DEF F
  <2> QED BY <2>2
<1>2. PICK f : f = CHOOSE g : g = F(g) OBVIOUS
<1>3. f = F(f)
  <2> HIDE DEF F
  <2> QED BY <1>1, <1>2
<1>4. ReadyAfter(lk, q, S) = f[Len(q)] BY <1>2 DEF ReadyAfter
<1>5. ASSUME NEW i \in 0 .. Len(q)
      PROVE  f[i] = IF i = 0 THEN lk
                    ELSE IF q[i] \in S THEN list_push_back(f[i - 1], Ready, q[i]) ELSE f[i - 1]
  <2>1. f[i] = F(f)[i]
    <3> HIDE DEF F
    <3> QED BY <1>3
  <2> QED BY <2>1
<1>6. f[0] = lk
  <2>1. 0 \in 0 .. Len(q) BY <1>0
  <2> QED BY <1>5, <2>1
<1>7. ASSUME NEW i \in 1 .. Len(q)
      PROVE  f[i] = IF q[i] \in S THEN list_push_back(f[i - 1], Ready, q[i]) ELSE f[i - 1]
  <2>1. i \in 0 .. Len(q) /\ i # 0 BY <1>0
  <2> QED BY <1>5, <2>1
<1> HIDE DEF F
<1> QED BY <1>4, <1>6, <1>7 DEF Walked

\* Whatever the lists are, the walk leaves their ends.
LEMMA WalkKeepsEnds ==
    ASSUME NEW lk, EndsOK(lk), NEW q \in Seq(Thread), NEW S
    PROVE  EndsOK(ReadyAfter(lk, q, S))
<1>1. PICK f : ReadyAfter(lk, q, S) = f[Len(q)] /\ Walked(f, lk, q, S)
  BY ReadyAfterIs
<1> DEFINE W == {n \in Nat : n <= Len(q) => EndsOK(f[n])}
<1>2. Len(q) \in Nat /\ \A i \in 1 .. Len(q) : q[i] \in Thread BY RangeIs
<1>3. 0 \in W BY <1>1 DEF Walked
<1>4. ASSUME NEW n \in W PROVE n + 1 \in W
  <2> SUFFICES ASSUME n + 1 <= Len(q) PROVE EndsOK(f[n + 1])
    OBVIOUS
  <2>1. n \in Nat /\ n + 1 \in 1 .. Len(q) /\ (n + 1) - 1 = n /\ EndsOK(f[n]) BY <1>2
  <2>2. f[n + 1] = IF q[n + 1] \in S THEN list_push_back(f[n], Ready, q[n + 1]) ELSE f[n] BY <1>1, <2>1 DEF Walked
  <2>3. Ready \in ListName /\ q[n + 1] \in Thread BY <1>2, <2>1, NamesAssumption
  <2> QED BY <2>1, <2>2, <2>3, PushKeepsEnds
<1>5. W = Nat
  <2>1. W \in SUBSET Nat OBVIOUS
  <2> HIDE DEF W
  <2> QED BY <1>3, <1>4, <2>1, NaturalsFromZero
<1>6. EndsOK(f[Len(q)]) BY <1>2, <1>5
<1> QED BY <1>1, <1>6

\* If none of those it unblocks is on the ready list, it puts each on it once,
\* and the lists that hold none of them stay as they are.
LEMMA WalkChains ==
    ASSUME NEW lk, EndsOK(lk), NEW q \in Seq(Thread), Distinct(q), NEW S,
           NEW c \in Seq(Thread), Distinct(c), Chain(lk, Ready, c), Range(c) \cap S = {}
    PROVE  /\ \E b \in Seq(Thread) :
                 Distinct(b) /\ Chain(ReadyAfter(lk, q, S), Ready, b) /\ Range(b) = Range(c) \cup (Range(q) \cap S)
           /\ \A M \in ListName \ {Ready}, w \in Seq(Thread) :
                 Chain(lk, M, w) /\ Range(w) \cap (Range(c) \cup S) = {}
                 => Chain(ReadyAfter(lk, q, S), M, w)
<1>1. PICK f : ReadyAfter(lk, q, S) = f[Len(q)] /\ Walked(f, lk, q, S)
  BY ReadyAfterIs
<1> DEFINE Done(n) == {q[i] : i \in 1 .. n} \cap S
           P(n) == /\ EndsOK(f[n])
                   /\ \E b \in Seq(Thread) :
                        Distinct(b) /\ Chain(f[n], Ready, b) /\ Range(b) = Range(c) \cup Done(n)
                   /\ \A M \in ListName \ {Ready}, w \in Seq(Thread) :
                        Chain(lk, M, w) /\ Range(w) \cap (Range(c) \cup S) = {} => Chain(f[n], M, w)
           W == {n \in Nat : n <= Len(q) => P(n)}
<1>2. Len(q) \in Nat /\ (\A i \in 1 .. Len(q) : q[i] \in Thread) /\ Range(q) = {q[i] : i \in 1 .. Len(q)}
  BY RangeIs
<1>r. Ready \in ListName BY NamesAssumption
<1>3. 0 \in W
  <2>1. Done(0) = {} OBVIOUS
  <2> HIDE DEF Done
  <2> QED BY <1>1, <2>1 DEF Walked
<1>4. ASSUME NEW n \in W PROVE n + 1 \in W
  <2> SUFFICES ASSUME n + 1 <= Len(q) PROVE P(n + 1)
    OBVIOUS
  <2>1. n \in Nat /\ n + 1 \in 1 .. Len(q) /\ (n + 1) - 1 = n /\ P(n) BY <1>2
  <2> DEFINE t == q[n + 1]
  <2>2. f[n + 1] = IF t \in S THEN list_push_back(f[n], Ready, t) ELSE f[n] BY <1>1, <2>1 DEF Walked
  <2>3. t \in Thread BY <1>2, <2>1
  <2>4. Done(n + 1) = IF t \in S THEN Done(n) \cup {t} ELSE Done(n)
    <3>1. 1 .. n + 1 = (1 .. n) \cup {n + 1} BY <2>1
    <3> QED BY <3>1
  <2>5. t \notin Done(n)
    <3>1. \A i \in 1 .. n : i \in 1 .. Len(q) /\ i # n + 1 BY <1>2, <2>1
    <3> QED BY <2>1, <3>1 DEF Distinct
  <2> HIDE DEF t, Done
  <2>6. CASE t \notin S BY <2>1, <2>2, <2>4, <2>6
  <2>7. CASE t \in S
    <3>1. f[n + 1] = list_push_back(f[n], Ready, t) /\ Done(n + 1) = Done(n) \cup {t} BY <2>2, <2>4, <2>7
    <3>2. PICK b \in Seq(Thread) :
             Distinct(b) /\ Chain(f[n], Ready, b) /\ Range(b) = Range(c) \cup Done(n)
      BY <2>1
    <3>3. t \notin Range(b) BY <2>5, <2>7, <3>2
    <3>4. EndsOK(f[n + 1]) BY <1>r, <2>1, <2>3, <3>1, PushKeepsEnds
    <3>5. /\ Append(b, t) \in Seq(Thread) /\ Distinct(Append(b, t))
          /\ Range(Append(b, t)) = Range(b) \cup {t}
      BY <2>3, <3>2, <3>3, AppendIs
    <3>6. Chain(f[n + 1], Ready, Append(b, t)) BY <1>r, <2>1, <2>3, <3>1, <3>2, <3>3, PushChain
    <3>7. Range(Append(b, t)) = Range(c) \cup Done(n + 1) BY <3>1, <3>2, <3>5
    <3>8. ASSUME NEW M \in ListName \ {Ready}, NEW w \in Seq(Thread),
                 Chain(lk, M, w), Range(w) \cap (Range(c) \cup S) = {}
          PROVE  Chain(f[n + 1], M, w)
      <4>1. Chain(f[n], M, w) BY <2>1, <3>8
      <4>2. Done(n) \subseteq S BY DEF Done
      <4>3. t \in Thread \ Range(w) /\ Range(b) \cap Range(w) = {} BY <2>3, <2>7, <3>2, <3>8, <4>2
      <4> QED BY <1>r, <2>1, <3>1, <3>2, <4>1, <4>3, PushOther
    <3> QED BY <3>4, <3>5, <3>6, <3>7, <3>8
  <2> QED BY <2>6, <2>7
<1>5. W = Nat
  <2>1. W \in SUBSET Nat OBVIOUS
  <2> HIDE DEF W
  <2> QED BY <1>3, <1>4, <2>1, NaturalsFromZero
<1>6. P(Len(q))
  <2> HIDE DEF P
  <2> QED BY <1>2, <1>5
<1>7. Done(Len(q)) = Range(q) \cap S BY <1>2
<1> HIDE DEF Done
<1> QED BY <1>1, <1>6, <1>7

-----------------------------------------------------------------------------
\* The inductive invariant.
Status == {"unborn", "blocked", "ready", "running", "dead"}
Pc == {"run", "to_sleep", "asleep", "to_unblock", "half", "loop", "halted"}

Typed ==
    /\ EndsOK(links)
    /\ all \in Seq(Thread)
    /\ status \in [Thread -> Status]
    /\ current \in Thread
    /\ remaining \in [Thread -> Nat]
    /\ pc \in [Thread -> Pc]
    /\ waitsFor \in [Thread -> Sema \cup {Nothing}]
    /\ value \in [Sema -> Nat]
    /\ holds \in [Thread -> SUBSET (Sema \ Signal)]

\* A lock that a thread holds is down, and one that is not was upped once.
Locks ==
    /\ \A s \in Sema \ Signal : value[s] <= 1
    /\ \A t \in Thread : \A s \in holds[t] : value[s] = 0
    /\ SemaphoreExcludes

\* The lists with c[L] on list L have no thread in common.
Lists(m, c) ==
    /\ c \in [ListName -> Seq(Thread)]
    /\ \A L \in ListName : Distinct(c[L]) /\ Chain(m, L, c[L])
    /\ \A L, M \in ListName : L # M => Range(c[L]) \cap Range(c[M]) = {}

\* On the ready list are those that are ready, but that the idle thread is not
\* after its thread_yield(); on a semaphore's, blocked ones that came to it.
Holding(m, st, at, wf, c) ==
    /\ Lists(m, c)
    /\ \A t \in Thread : st[t] = "ready" => t \in Range(c[Ready]) \cup {Idle}
    /\ \A t \in Range(c[Ready]) : st[t] = "ready"
    /\ \A s \in Sema : \A t \in Range(c[s]) : st[t] = "blocked" /\ at[t] = "run" /\ wf[t] = s

\* Which points a thread can be at: the timer's walk finds it, thread_create()
\* finds its child as it left it, the idle thread waits for no semaphore.
Points(st, at, wf, al) ==
    /\ Distinct(al)
    /\ \A t \in Thread : st[t] \notin {"unborn", "dead"} => t \in Range(al)
    /\ \A t \in Range(al) : st[t] # "unborn"
    /\ \A t \in Thread : at[t] = "half" => st[t] = "blocked"
    /\ \A t \in Thread : wf[t] # Nothing => at[t] = "run"
    /\ \A t \in Thread : st[t] = "unborn" => wf[t] = Nothing
    /\ at[Idle] \in {"loop", "halted"} /\ wf[Idle] = Nothing
    /\ st[Idle] \notin {"unborn", "dead"}

OneRuns(st, cur) == \A t \in Thread : st[t] = "running" <=> t = cur

Calm ==
    /\ panic = "none"
    /\ OneRuns(status, current)
    /\ Points(status, pc, waitsFor, all)
    /\ \E c : Holding(links, status, pc, waitsFor, c)

IInv == Typed /\ Locks /\ (stray \/ Calm)

-----------------------------------------------------------------------------
\* The types and the ends of the lists.

LEMMA ScheduleTyped ==
    ASSUME Typed, NEW lk, EndsOK(lk), NEW st \in [Thread -> Status], NEW at \in [Thread -> Pc],
           Schedule(lk, st, at)
    PROVE  /\ EndsOK(links') /\ current' \in Thread
           /\ status' \in [Thread -> Status] /\ pc' \in [Thread -> Pc]
<1> DEFINE front == list_front(lk, Ready)
           next == IF list_empty(lk, Ready) THEN Idle ELSE front
<1>1. current \in Thread BY DEF Typed
<1>2. CASE links' = lk /\ current' = current /\ status' = st /\ pc' = at
  BY <1>1, <1>2
<1>3. CASE /\ Alive(next) /\ current' = next
           /\ links' = IF list_empty(lk, Ready) THEN lk ELSE list_remove(lk, front)
           /\ status' = [st EXCEPT ![next] = "running"]
           /\ pc' = [at EXCEPT ![next] = IF @ = "asleep" THEN "run" ELSE @]
  <2>1. next \in Thread BY <1>3 DEF Alive
  <2>2. EndsOK(links')
    <3>1. CASE list_empty(lk, Ready) BY <1>3, <3>1
    <3>2. CASE ~list_empty(lk, Ready)
      <4>1. front \in Thread /\ links' = list_remove(lk, front) BY <1>3, <2>1, <3>2
      <4>2. HeadOf(Ready) \in Node /\ lk.next[HeadOf(Ready)] = front
        <5>1. Ready \in ListName BY NamesAssumption
        <5> QED BY <5>1, Ends DEF list_front
      <4> HIDE DEF front
      <4> QED BY <4>1, <4>2, RemoveKeepsEnds
    <3> QED BY <3>1, <3>2
  <2> HIDE DEF next, front
  <2>3. status' \in [Thread -> Status] BY <1>3, <2>1 DEF Status
  <2>4. pc' \in [Thread -> Pc] BY <1>3, <2>1 DEF Pc
  <2> QED BY <1>3, <2>1, <2>2, <2>3, <2>4
<1>4. \/ links' = lk /\ current' = current /\ status' = st /\ pc' = at
      \/ /\ Alive(next) /\ current' = next
         /\ links' = IF list_empty(lk, Ready) THEN lk ELSE list_remove(lk, front)
         /\ status' = [st EXCEPT ![next] = "running"]
         /\ pc' = [at EXCEPT ![next] = IF @ = "asleep" THEN "run" ELSE @]
  BY DEF Schedule
<1> QED BY <1>2, <1>3, <1>4

LEMMA YieldTyped ==
    ASSUME NEW lk, EndsOK(lk), current \in Thread
    PROVE  EndsOK(YieldLinks(lk))
<1>1. Ready \in ListName BY NamesAssumption
<1> QED BY <1>1, PushKeepsEnds DEF YieldLinks

\* The pointers once the main thread and the idle thread have been put on the
\* ready list and taken from it.
Taken == [next |-> [EmptyLinks.next EXCEPT ![Main] = TailOf(Ready), ![Idle] = TailOf(Ready)],
          prev |-> [EmptyLinks.prev EXCEPT ![Main] = HeadOf(Ready), ![Idle] = HeadOf(Ready)]]

LEMMA TakenIs ==
    /\ EndsOK(Taken)
    /\ \A L \in ListName : Taken.next[HeadOf(L)] = TailOf(L) /\ Taken.prev[TailOf(L)] = HeadOf(L)
<1>1. /\ Main \in Thread /\ Idle \in Thread /\ Thread \subseteq Node /\ Ready \in ListName
      /\ TailOf(Ready) \in Tails /\ HeadOf(Ready) \in Heads /\ Tails \subseteq Node /\ Heads \subseteq Node
  BY ThreadAssumption, NamesAssumption, Ends
<1>2. \A L \in ListName : HeadOf(L)[1] = L /\ TailOf(L)[1] = L BY DEF HeadOf, TailOf
<1> DEFINE nx == EmptyLinks.next
           pv == EmptyLinks.prev
<1>3. /\ nx = [n \in Node |-> IF n \in Heads THEN TailOf(n[1]) ELSE NULL]
      /\ pv = [n \in Node |-> IF n \in Tails THEN HeadOf(n[1]) ELSE NULL]
  BY DEF EmptyLinks, Heads, Tails
<1>4. /\ \A L \in ListName : nx[HeadOf(L)] = TailOf(L) /\ pv[TailOf(L)] = HeadOf(L)
      /\ \A n \in Node \ Heads : nx[n] = NULL
      /\ \A n \in Node \ Tails : pv[n] = NULL
  <2> HIDE DEF nx, pv
  <2> QED BY <1>1, <1>2, <1>3, Ends
<1>5. nx \in [Node -> Tails \cup {NULL}]
  <2> HIDE DEF nx
  <2>1. \A n \in Heads : nx[n] \in Tails BY <1>4, Ends DEF Heads
  <2>2. \A n \in Node : nx[n] \in Tails \cup {NULL} BY <1>4, <2>1
  <2> QED BY <1>3, <2>2
<1>6. pv \in [Node -> Heads \cup {NULL}]
  <2> HIDE DEF pv
  <2>1. \A n \in Tails : pv[n] \in Heads BY <1>4, Ends DEF Tails
  <2>2. \A n \in Node : pv[n] \in Heads \cup {NULL} BY <1>4, <2>1
  <2> QED BY <1>3, <2>2
<1>7. /\ Taken.next = [nx EXCEPT ![Main] = TailOf(Ready), ![Idle] = TailOf(Ready)]
      /\ Taken.prev = [pv EXCEPT ![Main] = HeadOf(Ready), ![Idle] = HeadOf(Ready)]
  BY DEF Taken
<1> HIDE DEF nx, pv
<1>8. Taken.next \in [Node -> Tails \cup {NULL}] /\ Taken.prev \in [Node -> Heads \cup {NULL}]
  BY <1>1, <1>5, <1>6, <1>7
<1>9. ASSUME NEW L \in ListName
      PROVE  /\ Taken.next[TailOf(L)] = NULL /\ Taken.prev[HeadOf(L)] = NULL
             /\ Taken.next[HeadOf(L)] = TailOf(L) /\ Taken.prev[TailOf(L)] = HeadOf(L)
             /\ Taken.next[HeadOf(L)] # NULL /\ Taken.prev[TailOf(L)] # NULL
  <2>1. /\ HeadOf(L) \in Heads /\ TailOf(L) \in Tails
        /\ {HeadOf(L), TailOf(L)} \cap {Main, Idle} = {} /\ NULL \notin Node
        /\ HeadOf(L) \notin Tails /\ TailOf(L) \notin Heads
    BY <1>1, Ends
  <2>2. /\ Taken.next[TailOf(L)] = nx[TailOf(L)] /\ Taken.next[HeadOf(L)] = nx[HeadOf(L)]
        /\ Taken.prev[TailOf(L)] = pv[TailOf(L)] /\ Taken.prev[HeadOf(L)] = pv[HeadOf(L)]
    BY <1>1, <1>5, <1>6, <1>7, <2>1
  <2> QED BY <1>1, <1>4, <2>1, <2>2, Ends
<1>10. \A n \in Node : Taken.next[n] \notin Thread
  BY <1>8, Ends
<1> QED BY <1>1, <1>8, <1>9, <1>10, Ends DEF EndsOK

LEMMA OrderIs ==
    ASSUME NEW order \in Bijection(1 .. Cardinality(Old), Old)
    PROVE  order \in Seq(Thread) /\ Distinct(order) /\ Range(order) = Old
<1>1. Cardinality(Old) \in Nat /\ Old \subseteq Thread
  <2>1. Old \in SUBSET Thread BY DEF Old
  <2>2. IsFiniteSet(Old) BY <2>1, ThreadAssumption, FS_Subset
  <2> QED BY <2>1, <2>2, FS_CardinalityType
<1>2. /\ order \in [1 .. Cardinality(Old) -> Old]
      /\ \A i, j \in 1 .. Cardinality(Old) : order[i] = order[j] => i = j
      /\ \A t \in Old : \E i \in 1 .. Cardinality(Old) : order[i] = t
  BY DEF Bijection, Injection, IsInjective, Surjection
<1>3. order \in Seq(Thread) /\ Len(order) = Cardinality(Old) BY <1>1, <1>2
<1>4. Range(order) = {order[i] : i \in 1 .. Cardinality(Old)} BY <1>3, RangeIs
<1> QED BY <1>2, <1>3, <1>4 DEF Distinct

LEMMA InitTyped == Init => Typed
<1> SUFFICES ASSUME Init PROVE Typed
  OBVIOUS
<1>1. PICK order \in Bijection(1 .. Cardinality(Old), Old) :
         /\ all = <<Main, Idle>> \o order
         /\ links = ReadyAfter(Taken, order, Old)
  BY DEF Init, Taken
<1>3. order \in Seq(Thread) BY <1>1, OrderIs
<1>4. EndsOK(Taken) BY TakenIs
<1>5. EndsOK(links) BY <1>1, <1>3, <1>4, WalkKeepsEnds
<1>6. all \in Seq(Thread) BY <1>1, <1>3, ThreadAssumption
<1>7. status \in [Thread -> Status] /\ current \in Thread BY ThreadAssumption DEF Init, Status
<1>8. /\ remaining \in [Thread -> Nat] /\ pc \in [Thread -> Pc] /\ waitsFor \in [Thread -> Sema \cup {Nothing}]
      /\ value \in [Sema -> Nat] /\ holds \in [Thread -> SUBSET (Sema \ Signal)]
  BY DEF Init, Pc
<1> QED BY <1>5, <1>6, <1>7, <1>8 DEF Typed

\* The types, through each action.
LEMMA TickTyped == Typed /\ Tick => Typed'
<1> SUFFICES ASSUME Typed, Tick PROVE Typed'
  OBVIOUS
<1> DEFINE at == IF current = Idle THEN [pc EXCEPT ![Idle] = "loop"] ELSE pc
<1>1. at \in [Thread -> Pc] BY ThreadAssumption DEF Typed, Pc
<1>2. EndsOK(WokenLinks) BY WalkKeepsEnds DEF Typed, WokenLinks
<1>3. WokenStatus \in [Thread -> Status] /\ [WokenStatus EXCEPT ![current] = "ready"] \in [Thread -> Status]
  BY DEF Typed, WokenStatus, Status
<1>4. EndsOK(YieldLinks(WokenLinks)) /\ current \in Thread BY <1>2, YieldTyped DEF Typed
<1>5. /\ EndsOK(links') /\ current' \in Thread
      /\ status' \in [Thread -> Status] /\ pc' \in [Thread -> Pc]
  <2>1. CASE Schedule(YieldLinks(WokenLinks), [WokenStatus EXCEPT ![current] = "ready"], at)
    <3> HIDE DEF at
    <3> QED BY <1>1, <1>3, <1>4, <2>1, ScheduleTyped
  <2>2. CASE links' = WokenLinks /\ status' = WokenStatus /\ pc' = at /\ current' = current
    <3> HIDE DEF at
    <3> QED BY <1>1, <1>2, <1>3, <1>4, <2>2
  <2> QED BY <2>1, <2>2 DEF Tick
<1>6. remaining' \in [Thread -> Nat] BY DEF Typed, Tick
<1> QED BY <1>5, <1>6 DEF Typed, Tick

LEMMA SleepBeginTyped == \A t \in Thread : Typed /\ SleepBegin(t) => Typed'
BY SleepAssumption DEF Typed, SleepBegin, Pc

LEMMA SleepTyped == \A t \in Thread : Typed /\ Sleep(t) => Typed'
<1> SUFFICES ASSUME Typed, NEW t \in Thread, Sleep(t) PROVE Typed'
  OBVIOUS
<1>1. /\ [status EXCEPT ![t] = "blocked"] \in [Thread -> Status] /\ [pc EXCEPT ![t] = "asleep"] \in [Thread -> Pc]
      /\ EndsOK(links)
  BY DEF Typed, Status, Pc
<1>2. Schedule(links, [status EXCEPT ![t] = "blocked"], [pc EXCEPT ![t] = "asleep"]) BY DEF Sleep
<1>3. /\ EndsOK(links') /\ current' \in Thread
      /\ status' \in [Thread -> Status] /\ pc' \in [Thread -> Pc]
  BY <1>1, <1>2, ScheduleTyped
<1> QED BY <1>3 DEF Typed, Sleep

LEMMA IdleBlockTyped == Typed /\ IdleBlock => Typed'
<1> SUFFICES ASSUME Typed, IdleBlock PROVE Typed'
  OBVIOUS
<1>1. /\ [status EXCEPT ![Idle] = "blocked"] \in [Thread -> Status] /\ [pc EXCEPT ![Idle] = "halted"] \in [Thread -> Pc]
      /\ EndsOK(links)
  BY DEF Typed, Status, Pc
<1>2. Schedule(links, [status EXCEPT ![Idle] = "blocked"], [pc EXCEPT ![Idle] = "halted"]) BY DEF IdleBlock
<1>3. /\ EndsOK(links') /\ current' \in Thread
      /\ status' \in [Thread -> Status] /\ pc' \in [Thread -> Pc]
  BY <1>1, <1>2, ScheduleTyped
<1> QED BY <1>3 DEF Typed, IdleBlock

LEMMA DownTyped == \A t \in Thread, s \in Sema : Typed /\ Down(t, s) => Typed'
<1> SUFFICES ASSUME Typed, NEW t \in Thread, NEW s \in Sema, Down(t, s) PROVE Typed'
  OBVIOUS
<1>1. CASE /\ waitsFor' = [waitsFor EXCEPT ![t] = s]
           /\ Schedule(list_push_back(links, s, t), [status EXCEPT ![t] = "blocked"], pc)
           /\ UNCHANGED <<value, holds>>
  <2>1. [status EXCEPT ![t] = "blocked"] \in [Thread -> Status] /\ pc \in [Thread -> Pc]
    BY DEF Typed, Status
  <2>2. EndsOK(list_push_back(links, s, t))
    <3>1. s \in ListName BY NamesAssumption
    <3> QED BY <3>1, PushKeepsEnds DEF Typed
  <2>3. /\ EndsOK(links') /\ current' \in Thread
        /\ status' \in [Thread -> Status] /\ pc' \in [Thread -> Pc]
    BY <1>1, <2>1, <2>2, ScheduleTyped
  <2> QED BY <1>1, <2>3 DEF Typed, Down
<1>2. CASE /\ value[s] > 0
           /\ value' = [value EXCEPT ![s] = @ - 1]
           /\ holds' = [holds EXCEPT ![t] = @ \cup ({s} \ Signal)]
           /\ waitsFor' = [waitsFor EXCEPT ![t] = Nothing]
           /\ UNCHANGED <<links, status, current, thread_ticks, pc, panic>>
  <2>1. value' \in [Sema -> Nat] BY <1>2 DEF Typed
  <2>2. holds' \in [Thread -> SUBSET (Sema \ Signal)] BY <1>2 DEF Typed
  <2>3. waitsFor' \in [Thread -> Sema \cup {Nothing}] BY <1>2 DEF Typed
  <2> QED BY <1>2, <2>1, <2>2, <2>3 DEF Typed, Down
<1> QED BY <1>1, <1>2 DEF Down

LEMMA UpTyped == \A t \in Thread, s \in Sema : Typed /\ Up(t, s) => Typed'
<1> SUFFICES ASSUME Typed, NEW t \in Thread, NEW s \in Sema, Up(t, s) PROVE Typed'
  OBVIOUS
<1> DEFINE n == list_front(links, s)
<1>1. holds' \in [Thread -> SUBSET (Sema \ Signal)] BY DEF Typed, Up
<1>2. value' \in [Sema -> Nat]
  <2>1. value' = [value EXCEPT ![s] = @ + 1] \/ value' = value BY DEF Up
  <2> QED BY <2>1 DEF Typed
<1>3. EndsOK(links') /\ status' \in [Thread -> Status]
  <2>1. CASE /\ Alive(n) /\ links' = list_push_back(list_remove(links, n), Ready, n)
             /\ status' = [status EXCEPT ![n] = "ready"]
    <3>1. n \in Thread /\ links.next[HeadOf(s)] = n BY <2>1 DEF Alive, list_front
    <3>2. s \in ListName /\ HeadOf(s) \in Node /\ Ready \in ListName BY NamesAssumption, Ends
    <3> HIDE DEF n
    <3>3. EndsOK(list_remove(links, n)) BY <3>1, <3>2, RemoveKeepsEnds DEF Typed
    <3>4. EndsOK(links') BY <2>1, <3>1, <3>2, <3>3, PushKeepsEnds
    <3> QED BY <2>1, <3>1, <3>4 DEF Typed, Status
  <2>2. CASE links' = links /\ status' = status BY <2>2 DEF Typed
  <2> QED BY <2>1, <2>2 DEF Up
<1> QED BY <1>1, <1>2, <1>3 DEF Typed, Up

LEMMA CreateTyped ==
    \A t \in Thread, child \in Fresh : Typed /\ (CreateBegin(t, child) \/ CreateEnd(t, child)) => Typed'
<1> SUFFICES ASSUME Typed, NEW t \in Thread, NEW child \in Fresh, CreateBegin(t, child) \/ CreateEnd(t, child)
             PROVE  Typed'
  OBVIOUS
<1>1. child \in Thread BY FreshAssumption
<1>2. CASE CreateBegin(t, child)
  <2>1. all' \in Seq(Thread) BY <1>1, <1>2, AppendIs DEF Typed, CreateBegin
  <2>2. status' \in [Thread -> Status] /\ pc' \in [Thread -> Pc] BY <1>1, <1>2 DEF Typed, CreateBegin, Status, Pc
  <2> QED BY <1>2, <2>1, <2>2 DEF Typed, CreateBegin
<1>3. CASE CreateEnd(t, child)
  <2>1. pc' \in [Thread -> Pc] BY <1>1, <1>3 DEF Typed, CreateEnd, Pc
  <2>2. EndsOK(links')
    <3>1. Ready \in ListName BY NamesAssumption
    <3>2. links' = list_push_back(links, Ready, child) \/ links' = links BY <1>3 DEF CreateEnd
    <3> QED BY <1>1, <3>1, <3>2, PushKeepsEnds DEF Typed
  <2>3. status' \in [Thread -> Status] BY <1>1, <1>3 DEF Typed, CreateEnd, Status
  <2> QED BY <1>3, <2>1, <2>2, <2>3 DEF Typed, CreateEnd
<1> QED BY <1>2, <1>3

LEMMA ExitTyped == \A t \in Thread : Typed /\ Exit(t) => Typed'
<1> SUFFICES ASSUME Typed, NEW t \in Thread, Exit(t) PROVE Typed'
  OBVIOUS
<1>1. [status EXCEPT ![t] = "dead"] \in [Thread -> Status] /\ pc \in [Thread -> Pc] /\ EndsOK(links)
  BY DEF Typed, Status
<1>2. Schedule(links, [status EXCEPT ![t] = "dead"], pc) BY DEF Exit
<1>3. /\ EndsOK(links') /\ current' \in Thread
      /\ status' \in [Thread -> Status] /\ pc' \in [Thread -> Pc]
  BY <1>1, <1>2, ScheduleTyped
<1>4. all' \in Seq(Thread)
  <2>1. PICK i \in DOMAIN all : all' = RemoveAt(all, i) BY DEF Exit
  <2> QED BY <2>1, RemoveAtIs DEF Typed
<1> QED BY <1>3, <1>4 DEF Typed, Exit

LEMMA NextTyped == Typed /\ [Next]_vars => Typed'
<1>1. Typed /\ UNCHANGED vars => Typed' BY DEF Typed, vars
<1> QED
  BY <1>1, TickTyped, SleepBeginTyped, SleepTyped, IdleBlockTyped, DownTyped, UpTyped, CreateTyped, ExitTyped
  DEF Next

-----------------------------------------------------------------------------
\* Locks exclude: semaphore_down() looks at the value again after every
\* dispatch, whoever made the thread ready.
LEMMA InitLocks == Init => Locks
BY DEF Init, Locks, SemaphoreExcludes

LEMMA NextLocks == Typed /\ Locks /\ [Next]_vars => Locks'
<1> SUFFICES ASSUME Typed, Locks, [Next]_vars PROVE Locks'
  OBVIOUS
<1>1. CASE UNCHANGED <<value, holds>>
  BY <1>1 DEF Locks, SemaphoreExcludes
<1>2. ASSUME NEW t \in Thread, NEW s \in Sema, Down(t, s) PROVE Locks'
  <2>1. CASE /\ value[s] > 0
             /\ value' = [value EXCEPT ![s] = @ - 1]
             /\ holds' = [holds EXCEPT ![t] = @ \cup ({s} \ Signal)]
    <3>1. \A u \in Thread : s \notin holds[u]
      BY <2>1 DEF Locks
    <3>2. \A x \in Sema : value[x] \in Nat /\ value'[x] = IF x = s THEN value[s] - 1 ELSE value[x]
      BY <2>1 DEF Typed
    <3>3. \A u \in Thread : holds'[u] = IF u = t THEN holds[t] \cup ({s} \ Signal) ELSE holds[u]
      BY <2>1 DEF Typed
    <3>4. \A u \in Thread : holds[u] \subseteq Sema \ Signal BY DEF Typed
    <3>5. (\A x \in Sema \ Signal : value[x] <= 1)' BY <3>2 DEF Locks
    <3>6. (\A u \in Thread : \A x \in holds[u] : value[x] = 0)'
      <4> SUFFICES ASSUME NEW u \in Thread, NEW x \in holds'[u] PROVE value'[x] = 0
        OBVIOUS
      <4>1. CASE x = s
        <5>1. s \notin Signal BY <3>1, <3>3, <4>1
        <5>2. value[s] <= 1 BY <5>1 DEF Locks
        <5> QED BY <2>1, <3>2, <4>1, <5>2
      <4>2. CASE x # s
        <5>1. x \in holds[u] BY <3>3, <4>2
        <5> QED BY <3>2, <3>4, <4>2, <5>1 DEF Locks
      <4> QED BY <4>1, <4>2
    <3>7. SemaphoreExcludes' BY <3>1, <3>3 DEF Locks, SemaphoreExcludes
    <3> QED BY <3>5, <3>6, <3>7 DEF Locks
  <2> QED BY <1>1, <1>2, <2>1 DEF Down
<1>3. ASSUME NEW t \in Thread, NEW s \in Sema, Up(t, s) PROVE Locks'
  <2>1. \A u \in Thread : holds'[u] = IF u = t THEN holds[t] \ {s} ELSE holds[u]
    BY <1>3 DEF Typed, Up
  <2>2. \A u \in Thread : holds[u] \subseteq Sema \ Signal BY DEF Typed
  <2>3. SemaphoreExcludes' BY <2>1 DEF Locks, SemaphoreExcludes
  <2>4. CASE value' = value BY <2>1, <2>3, <2>4 DEF Locks
  <2>5. CASE value' = [value EXCEPT ![s] = @ + 1]
    <3>1. \A x \in Sema : value[x] \in Nat /\ value'[x] = IF x = s THEN value[s] + 1 ELSE value[x]
      BY <2>5 DEF Typed
    <3>2. s \in Signal \/ s \in holds[t] BY <1>3 DEF Up
    <3>3. s \in holds[t] => value[s] = 0 BY DEF Locks
    <3>4. (\A x \in Sema \ Signal : value[x] <= 1)' BY <3>1, <3>2, <3>3 DEF Locks
    <3>5. (\A u \in Thread : \A x \in holds[u] : value[x] = 0)'
      <4> SUFFICES ASSUME NEW u \in Thread, NEW x \in holds'[u] PROVE value'[x] = 0
        OBVIOUS
      <4>1. x \in holds[u] /\ x \in Sema BY <2>1, <2>2
      <4>2. value[x] = 0 BY <4>1 DEF Locks
      <4>3. x # s BY <2>1, <2>2, <3>2, <4>1 DEF Locks, SemaphoreExcludes
      <4> QED BY <3>1, <4>1, <4>2, <4>3
    <3> QED BY <2>3, <3>4, <3>5 DEF Locks
  <2>6. value' = value \/ value' = [value EXCEPT ![s] = @ + 1] BY <1>3 DEF Up
  <2> QED BY <2>4, <2>5, <2>6
<1>4. CASE Tick BY <1>1, <1>4 DEF Tick
<1>5. CASE IdleBlock BY <1>1, <1>5 DEF IdleBlock
<1>6. ASSUME NEW t \in Thread, SleepBegin(t) \/ Sleep(t) \/ Exit(t) PROVE Locks'
  BY <1>1, <1>6 DEF SleepBegin, Sleep, Exit
<1>7. ASSUME NEW t \in Thread, NEW child \in Fresh, CreateBegin(t, child) \/ CreateEnd(t, child) PROVE Locks'
  BY <1>1, <1>7 DEF CreateBegin, CreateEnd
<1>8. CASE UNCHANGED vars BY <1>1, <1>8 DEF vars
<1> QED BY <1>2, <1>3, <1>4, <1>5, <1>6, <1>7, <1>8 DEF Next

-----------------------------------------------------------------------------
\* The lists, while the timer has woken sleepers only.

\* Putting a thread that is on no list on one, and taking the front of one.
LEMMA ListsPush ==
    ASSUME NEW m, EndsOK(m), NEW c, Lists(m, c), NEW L \in ListName, NEW t \in Thread,
           \A M \in ListName : t \notin Range(c[M])
    PROVE  \E d : /\ Lists(list_push_back(m, L, t), d)
                  /\ Range(d[L]) = Range(c[L]) \cup {t}
                  /\ \A M \in ListName \ {L} : Range(d[M]) = Range(c[M])
<1> DEFINE d == [c EXCEPT ![L] = Append(c[L], t)]
           r == list_push_back(m, L, t)
<1>1. /\ c \in [ListName -> Seq(Thread)]
      /\ \A M \in ListName : c[M] \in Seq(Thread) /\ Distinct(c[M]) /\ Chain(m, M, c[M])
      /\ \A M, N \in ListName : M # N => Range(c[M]) \cap Range(c[N]) = {}
  BY DEF Lists
<1>2. /\ d[L] = Append(c[L], t) /\ \A M \in ListName \ {L} : d[M] = c[M]
  BY <1>1
<1>3. /\ Append(c[L], t) \in Seq(Thread) /\ Range(Append(c[L], t)) = Range(c[L]) \cup {t}
      /\ Distinct(Append(c[L], t))
  BY <1>1, AppendIs
<1>4. d \in [ListName -> Seq(Thread)] BY <1>1, <1>3
<1> HIDE DEF d, r
<1>5. Chain(r, L, d[L]) BY <1>1, <1>2, PushChain DEF r
<1>6. ASSUME NEW M \in ListName \ {L} PROVE Chain(r, M, d[M])
  <2>1. Range(c[L]) \cap Range(c[M]) = {} /\ t \in Thread \ Range(c[M]) BY <1>1
  <2>2. c[L] \in Seq(Thread) /\ c[M] \in Seq(Thread) /\ Chain(m, L, c[L]) /\ Chain(m, M, c[M]) BY <1>1
  <2> QED BY <1>2, <2>1, <2>2, PushOther DEF r
<1>7. \A M \in ListName : Distinct(d[M]) /\ Chain(r, M, d[M])
  BY <1>1, <1>2, <1>3, <1>5, <1>6
<1>8. ASSUME NEW M \in ListName, NEW N \in ListName, M # N
      PROVE  Range(d[M]) \cap Range(d[N]) = {}
  <2>1. \A K \in ListName : Range(d[K]) = IF K = L THEN Range(c[K]) \cup {t} ELSE Range(c[K])
    BY <1>2, <1>3
  <2>2. Range(c[M]) \cap Range(c[N]) = {} /\ t \notin Range(c[M]) /\ t \notin Range(c[N]) BY <1>1, <1>8
  <2> QED BY <1>8, <2>1, <2>2
<1>9. Lists(r, d) BY <1>4, <1>7, <1>8 DEF Lists
<1> QED BY <1>2, <1>3, <1>9 DEF r

LEMMA ListsRemove ==
    ASSUME NEW m, EndsOK(m), NEW c, Lists(m, c), NEW L \in ListName, c[L] # <<>>
    PROVE  /\ list_front(m, L) \in Thread /\ list_front(m, L) \in Range(c[L])
           /\ ~list_empty(m, L)
           /\ \E d : /\ Lists(list_remove(m, list_front(m, L)), d)
                     /\ Range(d[L]) = Range(c[L]) \ {list_front(m, L)}
                     /\ \A M \in ListName \ {L} : Range(d[M]) = Range(c[M])
<1> DEFINE t == Head(c[L])
           d == [c EXCEPT ![L] = Tail(c[L])]
           r == list_remove(m, t)
<1>1. /\ c \in [ListName -> Seq(Thread)]
      /\ \A M \in ListName : c[M] \in Seq(Thread) /\ Distinct(c[M]) /\ Chain(m, M, c[M])
      /\ \A M, N \in ListName : M # N => Range(c[M]) \cap Range(c[N]) = {}
  BY DEF Lists
<1>2. list_front(m, L) = t /\ t \in Range(c[L]) /\ t \in Thread /\ ~list_empty(m, L)
  BY <1>1, FrontIs
<1>3. /\ d[L] = Tail(c[L]) /\ \A M \in ListName \ {L} : d[M] = c[M]
  BY <1>1
<1>4. /\ Tail(c[L]) \in Seq(Thread) /\ Range(c[L]) = {t} \cup Range(Tail(c[L]))
      /\ Distinct(Tail(c[L])) /\ t \notin Range(Tail(c[L]))
  BY <1>1, TailIs
<1>5. d \in [ListName -> Seq(Thread)] BY <1>1, <1>4
<1> HIDE DEF d, r
<1>6. Chain(r, L, d[L])
  <2>1. c[L] \in Seq(Thread) /\ Distinct(c[L]) /\ Chain(m, L, c[L]) BY <1>1
  <2> QED BY <1>3, <2>1, RemoveChain DEF r
<1>7. ASSUME NEW M \in ListName \ {L} PROVE Chain(r, M, d[M])
  <2>1. Range(c[L]) \cap Range(c[M]) = {} BY <1>1
  <2>2. c[L] \in Seq(Thread) /\ c[M] \in Seq(Thread) /\ Chain(m, L, c[L]) /\ Chain(m, M, c[M]) /\ Distinct(c[L])
    BY <1>1
  <2>3. Chain(r, M, c[M]) BY <2>1, <2>2, RemoveOther DEF r
  <2> QED BY <1>3, <2>3
<1> HIDE DEF t
<1>8. \A M \in ListName : Distinct(d[M]) /\ Chain(r, M, d[M])
  BY <1>1, <1>3, <1>4, <1>6, <1>7
<1>9. \A M, N \in ListName : M # N => Range(d[M]) \cap Range(d[N]) = {}
  BY <1>1, <1>3, <1>4
<1>10. Lists(r, d) BY <1>5, <1>8, <1>9 DEF Lists
<1>11. Range(d[L]) = Range(c[L]) \ {t} /\ \A M \in ListName \ {L} : Range(d[M]) = Range(c[M])
  BY <1>3, <1>4
<1> QED BY <1>2, <1>10, <1>11 DEF r

\* Threads on no list may change as long as they do not become ready.
Kept(u, st, at, wf, c, st2, at2, wf2) ==
    \/ st2[u] = st[u] /\ at2[u] = at[u] /\ wf2[u] = wf[u]
    \/ (\A L \in ListName : u \notin Range(c[L])) /\ (st2[u] # "ready" \/ u = Idle)

LEMMA HoldingFrame ==
    ASSUME NEW m, NEW st, NEW at, NEW wf, NEW c, Holding(m, st, at, wf, c),
           NEW st2, NEW at2, NEW wf2, \A u \in Thread : Kept(u, st, at, wf, c, st2, at2, wf2)
    PROVE  Holding(m, st2, at2, wf2, c)
<1>1. Lists(m, c) BY DEF Holding
<1>2. \A L \in ListName : Range(c[L]) \subseteq Thread BY <1>1, RangeIs DEF Lists
<1>3. Ready \in ListName /\ Sema \subseteq ListName BY NamesAssumption
<1>4. \A u \in Thread : st2[u] = "ready" => u \in Range(c[Ready]) \cup {Idle} BY DEF Holding, Kept
<1>5. \A u \in Range(c[Ready]) : st2[u] = "ready" BY <1>2, <1>3 DEF Holding, Kept
<1>6. \A s \in Sema : \A u \in Range(c[s]) : st2[u] = "blocked" /\ at2[u] = "run" /\ wf2[u] = s
  BY <1>2, <1>3 DEF Holding, Kept
<1> QED BY <1>1, <1>4, <1>5, <1>6 DEF Holding

\* One of them is put on a list.
LEMMA HoldingPush ==
    ASSUME NEW m, EndsOK(m), NEW st, NEW at, NEW wf, NEW c, Holding(m, st, at, wf, c),
           NEW L \in ListName, NEW t \in Thread, \A M \in ListName : t \notin Range(c[M]),
           NEW st2, NEW at2, NEW wf2,
           \A u \in Thread \ {t} : Kept(u, st, at, wf, c, st2, at2, wf2),
           L = Ready => st2[t] = "ready",
           L # Ready => st2[t] = "blocked" /\ at2[t] = "run" /\ wf2[t] = L
    PROVE  \E d : Holding(list_push_back(m, L, t), st2, at2, wf2, d)
<1> DEFINE r == list_push_back(m, L, t)
<1>1. PICK d : /\ Lists(r, d)
               /\ Range(d[L]) = Range(c[L]) \cup {t}
               /\ \A M \in ListName \ {L} : Range(d[M]) = Range(c[M])
  BY ListsPush DEF Holding
<1> HIDE DEF r
<1>2. \A M \in ListName : Range(c[M]) \subseteq Thread
  <2>1. c \in [ListName -> Seq(Thread)] BY DEF Holding, Lists
  <2> QED BY <2>1, RangeIs
<1>3. Ready \in ListName /\ Sema \subseteq ListName /\ Ready \notin Sema BY NamesAssumption
<1>4. ASSUME NEW u \in Thread, st2[u] = "ready" PROVE u \in Range(d[Ready]) \cup {Idle}
  <2>1. CASE u = t
    <3>1. L = Ready BY <1>4, <2>1
    <3> QED BY <1>1, <2>1, <3>1
  <2>2. CASE u # t
    <3>1. u \in Range(c[Ready]) \cup {Idle} BY <1>4, <2>2 DEF Holding, Kept
    <3>2. Range(c[Ready]) \subseteq Range(d[Ready]) BY <1>1, <1>3
    <3> QED BY <3>1, <3>2
  <2> QED BY <2>1, <2>2
<1>5. ASSUME NEW u \in Range(d[Ready]) PROVE st2[u] = "ready"
  <2>1. CASE u = t /\ L = Ready BY <2>1
  <2>2. CASE ~(u = t /\ L = Ready)
    <3>1. u \in Range(c[Ready]) BY <1>1, <1>3, <1>5, <2>2
    <3>2. u \in Thread \ {t} BY <1>2, <1>3, <3>1
    <3> QED BY <1>3, <3>1, <3>2 DEF Holding, Kept
  <2> QED BY <2>1, <2>2
<1>6. ASSUME NEW s \in Sema, NEW u \in Range(d[s]) PROVE st2[u] = "blocked" /\ at2[u] = "run" /\ wf2[u] = s
  <2>1. CASE u = t /\ L = s BY <1>3, <2>1
  <2>2. CASE ~(u = t /\ L = s)
    <3>1. u \in Range(c[s]) BY <1>1, <1>3, <1>6, <2>2
    <3>2. u \in Thread \ {t} BY <1>2, <1>3, <3>1
    <3> QED BY <1>3, <3>1, <3>2 DEF Holding, Kept
  <2> QED BY <2>1, <2>2
<1>7. Holding(r, st2, at2, wf2, d) BY <1>1, <1>4, <1>5, <1>6 DEF Holding
<1> QED BY <1>7 DEF r

\* The front of a semaphore's list is taken off it.
LEMMA HoldingRemove ==
    ASSUME NEW m, EndsOK(m), NEW st, NEW at, NEW wf, NEW c, Holding(m, st, at, wf, c),
           NEW s \in Sema, ~list_empty(m, s)
    PROVE  /\ list_front(m, s) \in Thread /\ st[list_front(m, s)] = "blocked" /\ at[list_front(m, s)] = "run"
           /\ \E d : /\ Holding(list_remove(m, list_front(m, s)), st, at, wf, d)
                     /\ \A L \in ListName : list_front(m, s) \notin Range(d[L])
<1> DEFINE n == list_front(m, s)
           r == list_remove(m, n)
<1>1. /\ Lists(m, c) /\ s \in ListName /\ Ready \in ListName /\ Ready # s /\ Sema \subseteq ListName
      /\ ListName = Sema \cup {Ready}
  BY NamesAssumption DEF Holding
<1>2. c[s] # <<>>
  <2>1. c[s] \in Seq(Thread) /\ Chain(m, s, c[s]) BY <1>1 DEF Lists
  <2> QED BY <1>1, <2>1, FrontIs
<1>3. n \in Thread /\ n \in Range(c[s]) BY <1>1, <1>2, ListsRemove
<1>4. PICK d : /\ Lists(r, d)
               /\ Range(d[s]) = Range(c[s]) \ {n}
               /\ \A M \in ListName \ {s} : Range(d[M]) = Range(c[M])
  BY <1>1, <1>2, ListsRemove
<1> HIDE DEF n, r
<1>5. st[n] = "blocked" /\ at[n] = "run" BY <1>3 DEF Holding
<1>6. \A L \in ListName : n \notin Range(d[L]) BY <1>1, <1>3, <1>4 DEF Lists
<1>7. \A L \in ListName : Range(d[L]) \subseteq Range(c[L]) BY <1>1, <1>4
<1>8. Range(d[Ready]) = Range(c[Ready]) BY <1>1, <1>4
<1>9. Holding(r, st, at, wf, d) BY <1>1, <1>4, <1>7, <1>8 DEF Holding
<1> QED BY <1>3, <1>5, <1>6, <1>9 DEF n, r

\* schedule(), as seen from whom it leaves alone: it is right as long as the
\* ready list holds ready threads.
LEMMA ScheduleReady ==
    ASSUME NEW lk, NEW st \in [Thread -> Status], NEW at, Schedule(lk, st, at),
           NEW b \in Seq(Thread), Chain(lk, Ready, b), \A t \in Range(b) : st[t] = "ready"
    PROVE  \A t \in Thread : /\ st[t] # "ready" /\ t # Idle => status'[t] = st[t]
                             /\ st[t] = "ready" => status'[t] \in {"ready", "running"}
<1> DEFINE front == list_front(lk, Ready)
           next == IF list_empty(lk, Ready) THEN Idle ELSE front
<1>1. Ready \in ListName BY NamesAssumption
<1>2. next = Idle \/ st[next] = "ready" BY <1>1, FrontIs
<1>3. status' = st \/ status' = [st EXCEPT ![next] = "running"] BY DEF Schedule
<1> HIDE DEF next
<1> QED BY <1>2, <1>3

LEMMA ScheduleCalm ==
    ASSUME Typed, NEW lk, EndsOK(lk), NEW st \in [Thread -> Status], NEW at \in [Thread -> Pc], NEW wf,
           NEW al \in Seq(Thread), NEW c, Schedule(lk, st, at), Holding(lk, st, at, wf, c), Points(st, at, wf, al),
           \A t \in Thread : st[t] = "ready" => Alive(t), Alive(Idle),
           \A t \in Thread : st[t] # "running"
    PROVE  /\ panic' = "none" /\ OneRuns(status', current') /\ Points(status', pc', wf, al)
           /\ \E d : Holding(links', status', pc', wf, d)
<1> DEFINE front == list_front(lk, Ready)
           next == IF list_empty(lk, Ready) THEN Idle ELSE front
<1>1. /\ Lists(lk, c) /\ Ready \in ListName /\ Sema \subseteq ListName /\ Idle \in Thread
      /\ c[Ready] \in Seq(Thread) /\ Chain(lk, Ready, c[Ready])
  BY NamesAssumption, ThreadAssumption DEF Holding, Lists
<1>2. next = Idle \/ (next \in Range(c[Ready]) /\ next \in Thread /\ st[next] = "ready")
  BY <1>1, FrontIs DEF Holding
<1>3. /\ next \in Thread /\ Alive(next) /\ st[next] # "dead" /\ at[next] # "half"
      /\ at[next] # "run" \/ next \in Range(c[Ready])
  BY <1>1, <1>2 DEF Points
<1>4. /\ panic' = "none" /\ current' = next
      /\ links' = IF list_empty(lk, Ready) THEN lk ELSE list_remove(lk, front)
      /\ status' = [st EXCEPT ![next] = "running"]
      /\ pc' = [at EXCEPT ![next] = IF @ = "asleep" THEN "run" ELSE @]
  BY <1>3 DEF Schedule
<1>5. \E d : /\ Lists(links', d)
             /\ Range(d[Ready]) = Range(c[Ready]) \ {next}
             /\ \A M \in ListName \ {Ready} : Range(d[M]) = Range(c[M])
  <2>1. CASE list_empty(lk, Ready)
    <3>1. Range(c[Ready]) = {} BY <1>1, <2>1, FrontIs, RangeIs
    <3> QED BY <1>1, <1>4, <2>1, <3>1
  <2>2. CASE ~list_empty(lk, Ready)
    <3>1. c[Ready] # <<>> BY <1>1, <2>2, FrontIs
    <3> QED BY <1>1, <1>4, <2>2, <3>1, ListsRemove
  <2> QED BY <2>1, <2>2
<1> HIDE DEF next, front
<1>6. PICK d : /\ Lists(links', d)
               /\ Range(d[Ready]) = Range(c[Ready]) \ {next}
               /\ \A M \in ListName \ {Ready} : Range(d[M]) = Range(c[M])
  BY <1>5
<1>7. /\ \A u \in Thread : status'[u] = IF u = next THEN "running" ELSE st[u]
      /\ \A u \in Thread : pc'[u] = IF u = next /\ at[u] = "asleep" THEN "run" ELSE at[u]
  BY <1>3, <1>4
<1>8. \A L \in ListName : Range(c[L]) \subseteq Thread
  BY <1>1, RangeIs DEF Lists
<1>9. Holding(links', status', pc', wf, d)
  <2>1. ASSUME NEW u \in Thread, status'[u] = "ready" PROVE u \in Range(d[Ready]) \cup {Idle}
    <3>1. u # next /\ st[u] = "ready" BY <1>7, <2>1
    <3>2. u \in Range(c[Ready]) \cup {Idle} BY <3>1 DEF Holding
    <3> QED BY <1>6, <3>1, <3>2
  <2>2. ASSUME NEW u \in Range(d[Ready]) PROVE status'[u] = "ready"
    <3>1. u \in Range(c[Ready]) /\ u # next /\ u \in Thread BY <1>1, <1>6, <1>8
    <3>2. st[u] = "ready" BY <3>1 DEF Holding
    <3> QED BY <1>7, <3>1, <3>2
  <2>3. ASSUME NEW s \in Sema, NEW u \in Range(d[s])
        PROVE  status'[u] = "blocked" /\ pc'[u] = "run" /\ wf[u] = s
    <3>1. s \in ListName \ {Ready} BY NamesAssumption
    <3>2. u \in Range(c[s]) /\ u \in Thread BY <1>6, <1>8, <3>1
    <3>3. st[u] = "blocked" /\ at[u] = "run" /\ wf[u] = s BY <3>2 DEF Holding
    <3>4. u # next BY <1>2, <1>3, <3>3 DEF Points
    <3> QED BY <1>7, <3>2, <3>3, <3>4
  <2> QED BY <1>6, <2>1, <2>2, <2>3 DEF Holding
<1>10. Points(status', pc', wf, al)
  <2>1. \A u \in Thread : status'[u] \notin {"unborn", "dead"} => u \in Range(al)
    BY <1>2, <1>3, <1>7 DEF Points
  <2>2. \A u \in Range(al) : status'[u] # "unborn"
    <3>1. Range(al) \subseteq Thread BY RangeIs
    <3> QED BY <1>7, <3>1 DEF Points
  <2>3. \A u \in Thread : pc'[u] = "half" => status'[u] = "blocked" BY <1>3, <1>7 DEF Points
  <2>4. \A u \in Thread : wf[u] # Nothing => pc'[u] = "run" BY <1>7 DEF Points
  <2>5. \A u \in Thread : status'[u] = "unborn" => wf[u] = Nothing BY <1>7 DEF Points
  <2>6. /\ pc'[Idle] \in {"loop", "halted"} /\ wf[Idle] = Nothing
        /\ status'[Idle] \notin {"unborn", "dead"}
    BY <1>1, <1>7 DEF Points
  <2> QED BY <2>1, <2>2, <2>3, <2>4, <2>5, <2>6 DEF Points
<1>11. OneRuns(status', current') BY <1>3, <1>4, <1>7 DEF OneRuns
<1> QED BY <1>4, <1>9, <1>10, <1>11

\* Who runs, or is not born or made yet, is on no list.
LEMMA OffLists ==
    ASSUME NEW c, Holding(links, status, pc, waitsFor, c), NEW t \in Thread,
           \/ status[t] \notin {"ready", "blocked"}
           \/ status[t] # "ready" /\ (pc[t] = "half" \/ waitsFor[t] = Nothing)
    PROVE  \A L \in ListName : t \notin Range(c[L])
<1> SUFFICES ASSUME NEW L \in ListName, t \in Range(c[L]) PROVE FALSE
  OBVIOUS
<1>1. CASE L = Ready BY <1>1 DEF Holding
<1>2. CASE L \in Sema
  <2>1. status[t] = "blocked" /\ pc[t] = "run" /\ waitsFor[t] = L BY <1>2 DEF Holding
  <2> QED BY <1>2, <2>1, NamesAssumption
<1> QED BY <1>1, <1>2, NamesAssumption

\* A step that ends in schedule() after the running thread has left the
\* processor.
LEMMA LeaveCalm ==
    ASSUME Typed, Calm, NEW lk, EndsOK(lk), NEW st \in [Thread -> Status], NEW at \in [Thread -> Pc],
           NEW c, Schedule(lk, st, at), Holding(lk, st, at, waitsFor', c), Points(st, at, waitsFor', all'),
           all' \in Seq(Thread),
           \A u \in Thread \ {current} : st[u] = status[u],
           st[current] \in {"blocked", "dead"}
    PROVE  Calm'
<1>1. \A u \in Thread : st[u] = "ready" => Alive(u) BY DEF Alive
<1>2. Alive(Idle) BY ThreadAssumption DEF Alive, Calm, Points
<1>3. \A u \in Thread : st[u] # "running" BY DEF Calm, OneRuns
<1>4. /\ panic' = "none" /\ OneRuns(status', current') /\ Points(status', pc', waitsFor', all')
      /\ \E d : Holding(links', status', pc', waitsFor', d)
  BY <1>1, <1>2, <1>3, ScheduleCalm
<1> QED BY <1>4 DEF Calm

LEMMA SleepBeginCalm == \A t \in Thread : Typed /\ Calm /\ SleepBegin(t) => Calm'
<1> SUFFICES ASSUME Typed, Calm, NEW t \in Thread, SleepBegin(t) PROVE Calm'
  OBVIOUS
<1>1. PICK c : Holding(links, status, pc, waitsFor, c) BY DEF Calm
<1>2. /\ t = current /\ status[t] = "running" /\ pc[t] = "run" /\ waitsFor[t] = Nothing /\ t # Idle
      /\ pc' = [pc EXCEPT ![t] = "to_sleep"]
      /\ UNCHANGED <<links, all, status, current, waitsFor, panic>>
  BY DEF SleepBegin, Runs, Calm, OneRuns
<1>3. \A u \in Thread : pc'[u] = IF u = t THEN "to_sleep" ELSE pc[u] BY <1>2 DEF Typed
<1>4. Holding(links, status, pc', waitsFor, c)
  <2>1. \A L \in ListName : t \notin Range(c[L]) BY <1>1, <1>2, OffLists
  <2>2. \A u \in Thread : Kept(u, status, pc, waitsFor, c, status, pc', waitsFor) BY <1>2, <1>3, <2>1 DEF Kept
  <2> QED BY <1>1, <2>2, HoldingFrame
<1>5. Points(status, pc', waitsFor, all) BY <1>2, <1>3, ThreadAssumption DEF Calm, Points
<1>6. Holding(links', status', pc', waitsFor', c) /\ Points(status', pc', waitsFor', all') BY <1>2, <1>4, <1>5
<1> QED BY <1>2, <1>6 DEF Calm, OneRuns

LEMMA SleepCalm == \A t \in Thread : Typed /\ Calm /\ Sleep(t) => Calm'
<1> SUFFICES ASSUME Typed, Calm, NEW t \in Thread, Sleep(t) PROVE Calm'
  OBVIOUS
<1> DEFINE st == [status EXCEPT ![t] = "blocked"]
           at == [pc EXCEPT ![t] = "asleep"]
<1>1. PICK c : Holding(links, status, pc, waitsFor, c) BY DEF Calm
<1>2. /\ t = current /\ status[t] = "running" /\ pc[t] = "to_sleep" /\ waitsFor[t] = Nothing /\ t # Idle
      /\ Schedule(links, st, at)
      /\ UNCHANGED <<all, waitsFor>>
  BY DEF Sleep, Runs, Calm, OneRuns, Points
<1>3. /\ \A u \in Thread : st[u] = IF u = t THEN "blocked" ELSE status[u]
      /\ \A u \in Thread : at[u] = IF u = t THEN "asleep" ELSE pc[u]
      /\ st \in [Thread -> Status] /\ at \in [Thread -> Pc] /\ EndsOK(links) /\ all \in Seq(Thread)
  BY DEF Typed, Status, Pc
<1> HIDE DEF st, at
<1>4. Holding(links, st, at, waitsFor, c)
  <2>1. \A L \in ListName : t \notin Range(c[L]) BY <1>1, <1>2, OffLists
  <2>2. \A u \in Thread : Kept(u, status, pc, waitsFor, c, st, at, waitsFor) BY <1>2, <1>3, <2>1 DEF Kept
  <2> QED BY <1>1, <2>2, HoldingFrame
<1>5. Points(st, at, waitsFor, all)
  <2>1. Range(all) \subseteq Thread BY <1>3, RangeIs
  <2> QED BY <1>2, <1>3, <2>1, ThreadAssumption DEF Calm, Points
<1>6. Holding(links, st, at, waitsFor', c) /\ Points(st, at, waitsFor', all') /\ all' \in Seq(Thread) BY <1>2, <1>3, <1>4, <1>5
<1> QED BY <1>2, <1>3, <1>6, LeaveCalm

LEMMA IdleBlockCalm == Typed /\ Calm /\ IdleBlock => Calm'
<1> SUFFICES ASSUME Typed, Calm, IdleBlock PROVE Calm'
  OBVIOUS
<1> DEFINE st == [status EXCEPT ![Idle] = "blocked"]
           at == [pc EXCEPT ![Idle] = "halted"]
<1>0. Idle \in Thread BY ThreadAssumption
<1>1. PICK c : Holding(links, status, pc, waitsFor, c) BY DEF Calm
<1>2. /\ Idle = current /\ status[Idle] = "running" /\ pc[Idle] = "loop" /\ waitsFor[Idle] = Nothing
      /\ Schedule(links, st, at)
      /\ UNCHANGED <<all, waitsFor>>
  BY <1>0 DEF IdleBlock, Runs, Calm, OneRuns, Points
<1>3. /\ \A u \in Thread : st[u] = IF u = Idle THEN "blocked" ELSE status[u]
      /\ \A u \in Thread : at[u] = IF u = Idle THEN "halted" ELSE pc[u]
      /\ st \in [Thread -> Status] /\ at \in [Thread -> Pc] /\ EndsOK(links) /\ all \in Seq(Thread)
  BY DEF Typed, Status, Pc
<1> HIDE DEF st, at
<1>4. Holding(links, st, at, waitsFor, c)
  <2>1. \A L \in ListName : Idle \notin Range(c[L]) BY <1>0, <1>1, <1>2, OffLists
  <2>2. \A u \in Thread : Kept(u, status, pc, waitsFor, c, st, at, waitsFor) BY <1>2, <1>3, <2>1 DEF Kept
  <2> QED BY <1>1, <2>2, HoldingFrame
<1>5. Points(st, at, waitsFor, all)
  <2>1. Range(all) \subseteq Thread BY <1>3, RangeIs
  <2> QED BY <1>0, <1>2, <1>3, <2>1 DEF Calm, Points
<1>6. Holding(links, st, at, waitsFor', c) /\ Points(st, at, waitsFor', all') /\ all' \in Seq(Thread) BY <1>2, <1>3, <1>4, <1>5
<1> QED BY <1>0, <1>2, <1>3, <1>6, LeaveCalm

LEMMA ExitCalm == \A t \in Thread : Typed /\ Calm /\ Exit(t) => Calm'
<1> SUFFICES ASSUME Typed, Calm, NEW t \in Thread, Exit(t) PROVE Calm'
  OBVIOUS
<1> DEFINE st == [status EXCEPT ![t] = "dead"]
<1>1. PICK c : Holding(links, status, pc, waitsFor, c) BY DEF Calm
<1>2. /\ t = current /\ status[t] = "running" /\ pc[t] = "run" /\ waitsFor[t] = Nothing /\ t # Idle
      /\ Schedule(links, st, pc)
      /\ UNCHANGED waitsFor
  BY DEF Exit, Runs, Calm, OneRuns
<1>3. /\ \A u \in Thread : st[u] = IF u = t THEN "dead" ELSE status[u]
      /\ st \in [Thread -> Status] /\ pc \in [Thread -> Pc] /\ EndsOK(links) /\ all \in Seq(Thread)
  BY DEF Typed, Status
<1> HIDE DEF st
<1>4. Holding(links, st, pc, waitsFor, c)
  <2>1. \A L \in ListName : t \notin Range(c[L]) BY <1>1, <1>2, OffLists
  <2>2. \A u \in Thread : Kept(u, status, pc, waitsFor, c, st, pc, waitsFor) BY <1>2, <1>3, <2>1 DEF Kept
  <2> QED BY <1>1, <2>2, HoldingFrame
<1>5. PICK i \in DOMAIN all : all[i] = t /\ all' = RemoveAt(all, i) BY DEF Exit
<1>6. /\ all' \in Seq(Thread) /\ Range(all') \subseteq Range(all) /\ Range(all) \subseteq Range(all') \cup {t}
      /\ Distinct(all) => Distinct(all')
  BY <1>3, <1>5, RemoveAtIs
<1>7. Points(st, pc, waitsFor, all')
  <2>1. Range(all) \subseteq Thread BY <1>3, RangeIs
  <2>2. \A u \in Thread : st[u] \notin {"unborn", "dead"} => u \in Range(all')
    BY <1>3, <1>6 DEF Calm, Points
  <2>3. \A u \in Range(all') : st[u] # "unborn" BY <1>3, <1>6, <2>1 DEF Calm, Points
  <2>4. \A u \in Thread : pc[u] = "half" => st[u] = "blocked" BY <1>2, <1>3 DEF Calm, Points
  <2> QED BY <1>2, <1>3, <1>6, <2>2, <2>3, <2>4, ThreadAssumption DEF Calm, Points
<1>8. Holding(links, st, pc, waitsFor', c) /\ Points(st, pc, waitsFor', all') BY <1>2, <1>4, <1>7
<1> QED BY <1>2, <1>3, <1>6, <1>8, LeaveCalm

LEMMA DownCalm == \A t \in Thread, s \in Sema : Typed /\ Calm /\ Down(t, s) => Calm'
<1> SUFFICES ASSUME Typed, Calm, NEW t \in Thread, NEW s \in Sema, Down(t, s) PROVE Calm'
  OBVIOUS
<1>1. PICK c : Holding(links, status, pc, waitsFor, c) BY DEF Calm
<1>2. /\ t = current /\ status[t] = "running" /\ pc[t] = "run" /\ t # Idle
      /\ UNCHANGED all /\ s # Nothing /\ s \in ListName /\ s # Ready
  BY NamesAssumption DEF Down, Runs, Calm, OneRuns, Points
<1>3. \A L \in ListName : t \notin Range(c[L]) BY <1>1, <1>2, OffLists
<1>4. CASE /\ waitsFor' = [waitsFor EXCEPT ![t] = s]
           /\ Schedule(list_push_back(links, s, t), [status EXCEPT ![t] = "blocked"], pc)
  <2> DEFINE st == [status EXCEPT ![t] = "blocked"]
             lk == list_push_back(links, s, t)
  <2>1. /\ \A u \in Thread : st[u] = IF u = t THEN "blocked" ELSE status[u]
        /\ \A u \in Thread : waitsFor'[u] = IF u = t THEN s ELSE waitsFor[u]
        /\ st \in [Thread -> Status] /\ pc \in [Thread -> Pc] /\ EndsOK(links) /\ all \in Seq(Thread)
    BY <1>4 DEF Typed, Status
  <2>2. EndsOK(lk) BY <1>2, <2>1, PushKeepsEnds
  <2>3. Schedule(lk, st, pc) BY <1>4
  <2> HIDE DEF st
  <2>4. \E d : Holding(lk, st, pc, waitsFor', d)
    <3>1. \A u \in Thread \ {t} : Kept(u, status, pc, waitsFor, c, st, pc, waitsFor') BY <2>1 DEF Kept
    <3>2. st[t] = "blocked" /\ pc[t] = "run" /\ waitsFor'[t] = s BY <1>2, <2>1
    <3> QED BY <1>1, <1>2, <1>3, <2>1, <3>1, <3>2, HoldingPush
  <2> HIDE DEF lk
  <2>5. PICK d : Holding(lk, st, pc, waitsFor', d) BY <2>4
  <2>6. Points(st, pc, waitsFor', all')
    <3>1. Range(all) \subseteq Thread BY <2>1, RangeIs
    <3> QED BY <1>2, <2>1, <3>1, ThreadAssumption DEF Calm, Points
  <2> QED BY <1>2, <2>1, <2>2, <2>3, <2>5, <2>6, LeaveCalm
<1>5. CASE /\ waitsFor' = [waitsFor EXCEPT ![t] = Nothing]
           /\ UNCHANGED <<links, status, current, thread_ticks, pc, panic>>
  <2>1. \A u \in Thread : waitsFor'[u] = IF u = t THEN Nothing ELSE waitsFor[u] BY <1>5 DEF Typed
  <2>2. Holding(links, status, pc, waitsFor', c)
    <3>1. \A u \in Thread : Kept(u, status, pc, waitsFor, c, status, pc, waitsFor') BY <1>2, <1>3, <2>1 DEF Kept
    <3> QED BY <1>1, <3>1, HoldingFrame
  <2>3. Points(status, pc, waitsFor', all) BY <1>2, <2>1, ThreadAssumption DEF Calm, Points
  <2>4. Holding(links', status', pc', waitsFor', c) /\ Points(status', pc', waitsFor', all') BY <1>2, <1>5, <2>2, <2>3
  <2> QED BY <1>5, <2>4 DEF Calm, OneRuns
<1> QED BY <1>4, <1>5 DEF Down

LEMMA UpCalm == \A t \in Thread, s \in Sema : Typed /\ Calm /\ Up(t, s) => Calm'
<1> SUFFICES ASSUME Typed, Calm, NEW t \in Thread, NEW s \in Sema, Up(t, s) PROVE Calm'
  OBVIOUS
<1> DEFINE n == list_front(links, s)
           m == list_remove(links, n)
<1>1. PICK c : Holding(links, status, pc, waitsFor, c) BY DEF Calm
<1>2. /\ t = current /\ EndsOK(links) /\ UNCHANGED <<all, current, pc, waitsFor>>
      /\ s \in ListName /\ Ready \in ListName
  BY NamesAssumption DEF Typed, Up, Runs
<1>3. CASE list_empty(links, s)
  <2>1. UNCHANGED <<links, status, panic>> BY <1>3 DEF Up
  <2>2. Holding(links', status', pc', waitsFor', c) /\ Points(status', pc', waitsFor', all')
    BY <1>1, <1>2, <2>1 DEF Calm
  <2> QED BY <1>2, <2>1, <2>2 DEF Calm, OneRuns
<1>4. CASE ~list_empty(links, s)
  <2>1. /\ n \in Thread /\ status[n] = "blocked" /\ pc[n] = "run"
        /\ \E d : Holding(m, status, pc, waitsFor, d) /\ \A L \in ListName : n \notin Range(d[L])
    BY <1>1, <1>2, <1>4, HoldingRemove
  <2>2. Alive(n) BY <2>1 DEF Alive
  <2>3. /\ links' = list_push_back(m, Ready, n) /\ status' = [status EXCEPT ![n] = "ready"]
        /\ UNCHANGED panic
    BY <1>4, <2>1, <2>2 DEF Up
  <2>4. EndsOK(m)
    <3>1. HeadOf(s) \in Node /\ links.next[HeadOf(s)] = n BY <1>2, Ends DEF list_front
    <3> HIDE DEF n
    <3> QED BY <1>2, <2>1, <3>1, RemoveKeepsEnds
  <2> HIDE DEF n, m
  <2>5. PICK d : Holding(m, status, pc, waitsFor, d) /\ \A L \in ListName : n \notin Range(d[L]) BY <2>1
  <2>6. \A u \in Thread : status'[u] = IF u = n THEN "ready" ELSE status[u] BY <2>3 DEF Typed
  <2>7. \A u \in Thread \ {n} : Kept(u, status, pc, waitsFor, d, status', pc', waitsFor') BY <1>2, <2>6 DEF Kept
  <2>8. \E e : Holding(links', status', pc', waitsFor', e)
    <3>1. Ready = Ready => status'[n] = "ready" BY <2>1, <2>6
    <3> QED BY <1>2, <2>1, <2>3, <2>4, <2>5, <2>7, <3>1, HoldingPush
  <2>9. Points(status', pc', waitsFor', all')
    <3>1. Range(all) \subseteq Thread BY RangeIs DEF Typed
    <3> QED BY <1>2, <2>1, <2>6, <3>1, ThreadAssumption DEF Calm, Points
  <2>10. OneRuns(status', current') BY <1>2, <2>1, <2>6 DEF Calm, OneRuns
  <2> QED BY <2>3, <2>8, <2>9, <2>10 DEF Calm
<1> QED BY <1>3, <1>4

LEMMA CreateBeginCalm ==
    \A t \in Thread, child \in Fresh : Typed /\ Calm /\ CreateBegin(t, child) => Calm'
<1> SUFFICES ASSUME Typed, Calm, NEW t \in Thread, NEW child \in Fresh, CreateBegin(t, child) PROVE Calm'
  OBVIOUS
<1>1. PICK c : Holding(links, status, pc, waitsFor, c) BY DEF Calm
<1>2. /\ t = current /\ status[t] = "running" /\ pc[t] = "run" /\ waitsFor[t] = Nothing /\ t # Idle
      /\ child \in Thread /\ child # Idle /\ child # t /\ status[child] = "unborn" /\ waitsFor[child] = Nothing
      /\ all' = Append(all, child)
      /\ UNCHANGED <<links, current, waitsFor, panic>>
  BY FreshAssumption DEF CreateBegin, Runs, Calm, OneRuns, Points
<1>3. /\ \A u \in Thread : status'[u] = IF u = child THEN "blocked" ELSE status[u]
      /\ \A u \in Thread : pc'[u] = IF u = t THEN "to_unblock" ELSE IF u = child THEN "half" ELSE pc[u]
  BY <1>2 DEF Typed, CreateBegin
<1>4. Holding(links, status', pc', waitsFor, c)
  <2>1. \A L \in ListName : t \notin Range(c[L]) BY <1>1, <1>2, OffLists
  <2>2. \A L \in ListName : child \notin Range(c[L]) BY <1>1, <1>2, OffLists
  <2>3. \A u \in Thread : Kept(u, status, pc, waitsFor, c, status', pc', waitsFor) BY <1>2, <1>3, <2>1, <2>2 DEF Kept
  <2> QED BY <1>1, <2>3, HoldingFrame
<1>5. Points(status', pc', waitsFor, all')
  <2>1. Range(all) \subseteq Thread BY RangeIs DEF Typed
  <2>2. child \notin Range(all) BY <1>2 DEF Calm, Points
  <2>3. Range(all') = Range(all) \cup {child} /\ (Distinct(all) => Distinct(all'))
    BY <1>2, <2>2, AppendIs DEF Typed
  <2>4. Distinct(all') BY <2>3 DEF Calm, Points
  <2>5. \A u \in Thread : status'[u] \notin {"unborn", "dead"} => u \in Range(all')
    BY <1>3, <2>3 DEF Calm, Points
  <2>6. \A u \in Range(all') : status'[u] # "unborn" BY <1>2, <1>3, <2>1, <2>3 DEF Calm, Points
  <2>7. \A u \in Thread : pc'[u] = "half" => status'[u] = "blocked" BY <1>2, <1>3 DEF Calm, Points
  <2>8. \A u \in Thread : waitsFor[u] # Nothing => pc'[u] = "run" BY <1>2, <1>3 DEF Calm, Points
  <2>9. \A u \in Thread : status'[u] = "unborn" => waitsFor[u] = Nothing BY <1>3 DEF Calm, Points
  <2>10. pc'[Idle] \in {"loop", "halted"} /\ waitsFor[Idle] = Nothing /\ status'[Idle] \notin {"unborn", "dead"}
    BY <1>2, <1>3, ThreadAssumption DEF Calm, Points
  <2> QED BY <2>4, <2>5, <2>6, <2>7, <2>8, <2>9, <2>10 DEF Points
<1>6. OneRuns(status', current') BY <1>2, <1>3 DEF Calm, OneRuns
<1>7. Holding(links', status', pc', waitsFor', c) /\ Points(status', pc', waitsFor', all') BY <1>2, <1>4, <1>5
<1> QED BY <1>2, <1>6, <1>7 DEF Calm

LEMMA CreateEndCalm ==
    \A t \in Thread, child \in Fresh : Typed /\ Calm /\ CreateEnd(t, child) => Calm'
<1> SUFFICES ASSUME Typed, Calm, NEW t \in Thread, NEW child \in Fresh, CreateEnd(t, child) PROVE Calm'
  OBVIOUS
<1>1. PICK c : Holding(links, status, pc, waitsFor, c) BY DEF Calm
<1>2. /\ t = current /\ status[t] = "running" /\ pc[t] = "to_unblock" /\ waitsFor[t] = Nothing
      /\ child \in Thread /\ child # Idle /\ pc[child] = "half" /\ status[child] = "blocked" /\ child # t
      /\ UNCHANGED <<all, current, waitsFor>>
      /\ EndsOK(links) /\ Ready \in ListName
  BY FreshAssumption, NamesAssumption DEF CreateEnd, Runs, Calm, OneRuns, Points, Typed
<1>3. /\ links' = list_push_back(links, Ready, child)
      /\ UNCHANGED panic
      /\ status' = [status EXCEPT ![child] = "ready"]
  BY <1>2 DEF CreateEnd
<1>4. /\ \A u \in Thread : status'[u] = IF u = child THEN "ready" ELSE status[u]
      /\ \A u \in Thread : pc'[u] = IF u = child \/ u = t THEN "run" ELSE pc[u]
  BY <1>2, <1>3 DEF Typed, CreateEnd
<1>5. \E d : Holding(links', status', pc', waitsFor', d)
  <2>1. \A L \in ListName : t \notin Range(c[L]) BY <1>1, <1>2, OffLists
  <2>2. \A L \in ListName : child \notin Range(c[L]) BY <1>1, <1>2, OffLists
  <2>3. \A u \in Thread \ {child} : Kept(u, status, pc, waitsFor, c, status', pc', waitsFor')
    BY <1>2, <1>4, <2>1 DEF Kept
  <2>4. status'[child] = "ready" BY <1>2, <1>4
  <2> QED BY <1>1, <1>2, <1>3, <2>2, <2>3, <2>4, HoldingPush
<1>6. Points(status', pc', waitsFor', all')
  <2>1. Range(all) \subseteq Thread BY RangeIs DEF Typed
  <2>2. t # Idle BY <1>2 DEF Calm, Points
  <2> QED BY <1>2, <1>4, <2>1, <2>2, ThreadAssumption DEF Calm, Points
<1>7. OneRuns(status', current') BY <1>2, <1>4 DEF Calm, OneRuns
<1> QED BY <1>3, <1>5, <1>6, <1>7 DEF Calm

\* The timer: as long as those it wakes are asleep, they come on the ready list
\* from no other.
LEMMA WakingCalm ==
    ASSUME Typed, Calm, \A t \in Woken \ {Idle} : pc[t] = "asleep",
           NEW at, at = IF current = Idle THEN [pc EXCEPT ![Idle] = "loop"] ELSE pc
    PROVE  /\ \E d : Holding(WokenLinks, WokenStatus, at, waitsFor, d)
           /\ Points(WokenStatus, at, waitsFor, all)
<1>1. PICK c : Holding(links, status, pc, waitsFor, c) BY DEF Calm
<1>2. /\ Lists(links, c) /\ Ready \in ListName /\ Sema \subseteq ListName /\ ListName \ {Ready} \subseteq Sema
      /\ Ready \notin Sema /\ Idle \in Thread
      /\ EndsOK(links) /\ all \in Seq(Thread) /\ Distinct(all) /\ Range(all) \subseteq Thread
  BY <1>1, NamesAssumption, ThreadAssumption, RangeIs DEF Holding, Typed, Calm, Points
<1>3. /\ \A L \in ListName : c[L] \in Seq(Thread) /\ Distinct(c[L]) /\ Chain(links, L, c[L]) /\ Range(c[L]) \subseteq Thread
      /\ \A L, M \in ListName : L # M => Range(c[L]) \cap Range(c[M]) = {}
      /\ c \in [ListName -> Seq(Thread)]
  BY <1>2, RangeIs DEF Lists
<1>4. Woken \subseteq Range(all) /\ Woken \subseteq Thread /\ \A t \in Woken : status[t] = "blocked"
  BY <1>2 DEF Woken
<1>5. pc[Idle] \in {"loop", "halted"} BY DEF Calm, Points
<1>6. Range(c[Ready]) \cap Woken = {} BY <1>1, <1>4 DEF Holding
<1>7. \A s \in Sema : Range(c[s]) \cap Woken = {} /\ Idle \notin Range(c[s]) BY <1>1, <1>4, <1>5 DEF Holding
<1>8. /\ \E b \in Seq(Thread) :
            Distinct(b) /\ Chain(WokenLinks, Ready, b) /\ Range(b) = Range(c[Ready]) \cup (Range(all) \cap Woken)
      /\ \A M \in ListName \ {Ready}, w \in Seq(Thread) :
            Chain(links, M, w) /\ Range(w) \cap (Range(c[Ready]) \cup Woken) = {} => Chain(WokenLinks, M, w)
  <2>1. c[Ready] \in Seq(Thread) /\ Distinct(c[Ready]) /\ Chain(links, Ready, c[Ready]) BY <1>2, <1>3
  <2> HIDE DEF Woken
  <2> QED BY <1>2, <1>6, <2>1, WalkChains DEF WokenLinks
<1>9. PICK b \in Seq(Thread) :
         Distinct(b) /\ Chain(WokenLinks, Ready, b) /\ Range(b) = Range(c[Ready]) \cup Woken
  BY <1>4, <1>8
<1> DEFINE d == [c EXCEPT ![Ready] = b]
<1>10. d[Ready] = b /\ d \in [ListName -> Seq(Thread)] /\ \A L \in ListName \ {Ready} : d[L] = c[L] BY <1>2, <1>3
<1> HIDE DEF d
<1>11. Lists(WokenLinks, d)
  <2>1. ASSUME NEW L \in ListName PROVE Distinct(d[L]) /\ Chain(WokenLinks, L, d[L])
    <3>1. CASE L = Ready BY <1>9, <1>10, <3>1
    <3>2. CASE L # Ready
      <4>1. Range(c[L]) \cap (Range(c[Ready]) \cup Woken) = {} BY <1>2, <1>3, <1>7, <3>2
      <4> QED BY <1>3, <1>8, <1>10, <3>2, <4>1
    <3> QED BY <3>1, <3>2
  <2>2. ASSUME NEW L \in ListName, NEW M \in ListName, L # M PROVE Range(d[L]) \cap Range(d[M]) = {}
    <3>1. \A K \in ListName \ {Ready} : Range(c[K]) \cap Range(b) = {} BY <1>2, <1>3, <1>7, <1>9
    <3> QED BY <1>3, <1>10, <2>2, <3>1
  <2> QED BY <1>10, <2>1, <2>2 DEF Lists
<1>12. \A u \in Thread : WokenStatus[u] = IF u \in Woken THEN "ready" ELSE status[u] BY DEF WokenStatus
<1>13. \A u \in Thread : at[u] = IF u = Idle /\ current = Idle THEN "loop" ELSE pc[u] BY <1>2 DEF Typed
<1> HIDE DEF Woken, WokenLinks, WokenStatus
<1>14. Holding(WokenLinks, WokenStatus, at, waitsFor, d)
  <2>1. \A u \in Thread : WokenStatus[u] = "ready" => u \in Range(d[Ready]) \cup {Idle}
    BY <1>1, <1>9, <1>10, <1>12 DEF Holding
  <2>2. ASSUME NEW u \in Range(d[Ready]) PROVE WokenStatus[u] = "ready"
    <3>1. u \in Range(c[Ready]) \cup Woken BY <1>9, <1>10, <2>2
    <3>2. Range(c[Ready]) \subseteq Thread BY <1>2, <1>3
    <3>3. u \in Range(c[Ready]) => status[u] = "ready" BY <1>1 DEF Holding
    <3> QED BY <1>4, <1>12, <3>1, <3>2, <3>3
  <2>3. ASSUME NEW s \in Sema, NEW u \in Range(d[s])
        PROVE  WokenStatus[u] = "blocked" /\ at[u] = "run" /\ waitsFor[u] = s
    <3>1. u \in Range(c[s]) /\ u \in Thread /\ u \notin Woken /\ u # Idle BY <1>2, <1>3, <1>7, <1>10, <2>3
    <3>2. status[u] = "blocked" /\ pc[u] = "run" /\ waitsFor[u] = s BY <1>1, <3>1 DEF Holding
    <3> QED BY <1>12, <1>13, <3>1, <3>2
  <2> QED BY <1>11, <2>1, <2>2, <2>3 DEF Holding
<1>15. Points(WokenStatus, at, waitsFor, all)
  <2>1. \A u \in Thread : WokenStatus[u] \notin {"unborn", "dead"} => u \in Range(all)
    BY <1>4, <1>12 DEF Calm, Points
  <2>2. \A u \in Range(all) : WokenStatus[u] # "unborn" BY <1>2, <1>12 DEF Calm, Points
  <2>3. ASSUME NEW u \in Thread, at[u] = "half" PROVE WokenStatus[u] = "blocked"
    <3>1. pc[u] = "half" /\ u # Idle BY <1>5, <1>13, <2>3
    <3>2. u \notin Woken BY <3>1
    <3> QED BY <1>12, <3>1, <3>2 DEF Calm, Points
  <2>4. ASSUME NEW u \in Thread, waitsFor[u] # Nothing PROVE at[u] = "run"
    <3>1. pc[u] = "run" /\ u # Idle BY <1>5, <2>4 DEF Calm, Points
    <3> QED BY <1>13, <3>1
  <2>5. \A u \in Thread : WokenStatus[u] = "unborn" => waitsFor[u] = Nothing BY <1>12 DEF Calm, Points
  <2>6. at[Idle] \in {"loop", "halted"} /\ waitsFor[Idle] = Nothing /\ WokenStatus[Idle] \notin {"unborn", "dead"}
    BY <1>2, <1>5, <1>12, <1>13 DEF Calm, Points
  <2> QED BY <1>2, <2>1, <2>2, <2>3, <2>4, <2>5, <2>6 DEF Points
<1> QED BY <1>14, <1>15

LEMMA TickCalm == Typed /\ Calm /\ Tick /\ ~stray' => Calm'
<1> SUFFICES ASSUME Typed, Calm, Tick, ~stray' PROVE Calm'
  OBVIOUS
<1> DEFINE at == IF current = Idle THEN [pc EXCEPT ![Idle] = "loop"] ELSE pc
           st == [WokenStatus EXCEPT ![current] = "ready"]
<1>1. UNCHANGED <<all, waitsFor>> /\ current \in Thread /\ Idle \in Thread /\ Ready \in ListName
  BY NamesAssumption, ThreadAssumption DEF Tick, Typed
<1>2. \A t \in Woken \ {Idle} : pc[t] = "asleep"
  <2> HIDE DEF at, st
  <2> QED BY DEF Tick
<1>3. /\ \E d : Holding(WokenLinks, WokenStatus, at, waitsFor, d)
      /\ Points(WokenStatus, at, waitsFor, all)
  <2>1. at = IF current = Idle THEN [pc EXCEPT ![Idle] = "loop"] ELSE pc OBVIOUS
  <2> HIDE DEF at
  <2> QED BY <1>2, <2>1, WakingCalm
<1>4. at \in [Thread -> Pc] /\ WokenStatus \in [Thread -> Status] /\ st \in [Thread -> Status]
  BY <1>1 DEF Typed, Pc, WokenStatus, Status
<1>5. EndsOK(WokenLinks) /\ all \in Seq(Thread) BY WalkKeepsEnds DEF Typed, WokenLinks
<1>6. /\ \A u \in Thread : WokenStatus[u] \in {status[u], "ready"} /\ (status[u] \in {"unborn", "dead"} => WokenStatus[u] = status[u])
      /\ \A u \in Thread : WokenStatus[u] = "running" <=> u = current
      /\ \A u \in Thread : st[u] = IF u = current THEN "ready" ELSE WokenStatus[u]
  <2>1. \A u \in Woken : status[u] = "blocked" BY DEF Woken
  <2>2. \A u \in Thread : WokenStatus[u] = IF u \in Woken THEN "ready" ELSE status[u] BY DEF WokenStatus
  <2>3. \A u \in Thread : st[u] = IF u = current THEN "ready" ELSE WokenStatus[u] BY <1>4
  <2> HIDE DEF Woken, WokenStatus, st
  <2> QED BY <2>1, <2>2, <2>3 DEF Calm, OneRuns
<1>7. CASE /\ links' = WokenLinks /\ status' = WokenStatus /\ pc' = at
           /\ UNCHANGED <<current, panic>>
  <2>1. OneRuns(status', current') BY <1>6, <1>7 DEF OneRuns
  <2> HIDE DEF at, st
  <2>2. (\E d : Holding(links', status', pc', waitsFor', d)) /\ Points(status', pc', waitsFor', all')
    BY <1>1, <1>3, <1>7
  <2> QED BY <1>7, <2>1, <2>2 DEF Calm
<1>8. CASE Schedule(YieldLinks(WokenLinks), st, at)
  <2> HIDE DEF at, st
  <2>1. PICK d : Holding(WokenLinks, WokenStatus, at, waitsFor, d) BY <1>3
  <2>2. \A L \in ListName : current \notin Range(d[L])
    <3>1. WokenStatus[current] = "running" BY <1>1, <1>6
    <3> QED BY <2>1, <3>1, NamesAssumption DEF Holding
  <2>3. \A u \in Thread \ {current} : Kept(u, WokenStatus, at, waitsFor, d, st, at, waitsFor) BY <1>6 DEF Kept
  <2>4. \E e : Holding(YieldLinks(WokenLinks), st, at, waitsFor, e)
    <3>1. CASE current = Idle
      <4>1. Kept(current, WokenStatus, at, waitsFor, d, st, at, waitsFor) BY <2>2, <3>1 DEF Kept
      <4>2. \A u \in Thread : Kept(u, WokenStatus, at, waitsFor, d, st, at, waitsFor) BY <2>3, <4>1
      <4>3. Holding(WokenLinks, st, at, waitsFor, d) BY <2>1, <4>2, HoldingFrame
      <4> QED BY <3>1, <4>3 DEF YieldLinks
    <3>2. CASE current # Idle
      <4>1. st[current] = "ready" BY <1>1, <1>6
      <4>2. \E e : Holding(list_push_back(WokenLinks, Ready, current), st, at, waitsFor, e)
        BY <1>1, <1>5, <2>1, <2>2, <2>3, <4>1, HoldingPush
      <4> QED BY <3>2, <4>2 DEF YieldLinks
    <3> QED BY <3>1, <3>2
  <2>5. PICK e : Holding(YieldLinks(WokenLinks), st, at, waitsFor, e) BY <2>4
  <2>6. Points(st, at, waitsFor, all)
    <3>1. Range(all) \subseteq Thread BY <1>5, RangeIs
    <3>2. at[current] # "half" /\ current \in Range(all) BY <1>1, <1>3, <1>6 DEF Points
    <3> QED BY <1>1, <1>3, <1>6, <3>1, <3>2 DEF Points
  <2>7. EndsOK(YieldLinks(WokenLinks)) BY <1>1, <1>5, YieldTyped
  <2>8. \A u \in Thread : st[u] = "ready" => Alive(u) BY <1>6 DEF Alive, Calm, OneRuns
  <2>9. Alive(Idle) BY <1>1 DEF Alive, Calm, Points
  <2>10. \A u \in Thread : st[u] # "running" BY <1>6
  <2>11. /\ panic' = "none" /\ OneRuns(status', current') /\ Points(status', pc', waitsFor, all)
         /\ \E f : Holding(links', status', pc', waitsFor, f)
    BY <1>4, <1>5, <1>8, <2>5, <2>6, <2>7, <2>8, <2>9, <2>10, ScheduleCalm
  <2> QED BY <1>1, <2>11 DEF Calm
<1>9. panic = "none" BY DEF Tick
<1> QED BY <1>7, <1>8, <1>9 DEF Tick

LEMMA InitCalm == Init => Calm
<1> SUFFICES ASSUME Init PROVE Calm
  OBVIOUS
<1>1. PICK order \in Bijection(1 .. Cardinality(Old), Old) :
         /\ all = <<Main, Idle>> \o order
         /\ links = ReadyAfter(Taken, order, Old)
  BY DEF Init, Taken
<1>2. order \in Seq(Thread) /\ Distinct(order) /\ Range(order) = Old BY <1>1, OrderIs
<1>3. /\ \A t \in Thread : status[t] = CASE t = Main -> "running" [] t = Idle -> "blocked"
                                         [] t \in Fresh -> "unborn" [] OTHER -> "ready"
      /\ \A t \in Thread : pc[t] = IF t = Idle THEN "halted" ELSE "run"
      /\ \A t \in Thread : waitsFor[t] = Nothing
      /\ panic = "none" /\ current = Main
  BY DEF Init
<1>4. Main \in Thread /\ Idle \in Thread /\ Main # Idle /\ Main \notin Fresh /\ Idle \notin Fresh /\ Ready \in ListName
  BY ThreadAssumption, FreshAssumption, NamesAssumption
<1>5. \A t \in Thread : t \in Old <=> t # Main /\ t # Idle /\ t \notin Fresh BY DEF Old
<1>6. \A t \in Thread : status[t] = "ready" <=> t \in Old BY <1>3, <1>4, <1>5
<1>7. Points(status, pc, waitsFor, all)
  <2>1. /\ all \in Seq(Thread) /\ Len(all) = Len(order) + 2
        /\ all[1] = Main /\ all[2] = Idle /\ \A i \in 1 .. Len(order) : all[i + 2] = order[i]
    BY <1>1, <1>2, <1>4
  <2>2. Len(order) \in Nat /\ Range(order) = {order[i] : i \in 1 .. Len(order)} BY <1>2, RangeIs
  <2>3. \A i \in 1 .. Len(all) : i = 1 \/ i = 2 \/ (i - 2 \in 1 .. Len(order) /\ all[i] = order[i - 2])
    BY <2>1, <2>2
  <2>4. \A i \in 1 .. Len(order) : order[i] \notin {Main, Idle} /\ order[i] \in Range(order)
    BY <1>2, <2>2 DEF Old
  <2>5. Distinct(all)
    <3> SUFFICES ASSUME NEW i \in 1 .. Len(all), NEW j \in 1 .. Len(all), all[i] = all[j] PROVE i = j
      BY DEF Distinct
    <3>1. CASE i - 2 \in 1 .. Len(order) /\ j - 2 \in 1 .. Len(order)
               /\ all[i] = order[i - 2] /\ all[j] = order[j - 2]
      <4>1. i - 2 = j - 2 BY <1>2, <3>1 DEF Distinct
      <4> QED BY <4>1, <2>1, <2>2
    <3> QED BY <1>4, <2>1, <2>3, <2>4, <3>1
  <2>6. Range(all) = {Main, Idle} \cup Old
    <3>1. Range(all) = {all[i] : i \in 1 .. Len(all)} BY <2>1, RangeIs
    <3>2. ASSUME NEW u \in Range(all) PROVE u \in {Main, Idle} \cup Old
      <4>1. PICK i \in 1 .. Len(all) : u = all[i] BY <3>1
      <4> QED BY <1>2, <2>1, <2>3, <2>4, <4>1
    <3>3. ASSUME NEW u \in Old PROVE u \in Range(all)
      <4>1. PICK i \in 1 .. Len(order) : u = order[i] BY <1>2, <2>2
      <4>2. i + 2 \in 1 .. Len(all) /\ all[i + 2] = u BY <2>1, <2>2, <4>1
      <4> QED BY <3>1, <4>2
    <3>4. 1 \in 1 .. Len(all) /\ 2 \in 1 .. Len(all) BY <2>1, <2>2
    <3> QED BY <2>1, <3>1, <3>2, <3>3, <3>4
  <2>7. Old \subseteq Thread BY DEF Old
  <2>8. \A u \in Thread : status[u] \notin {"unborn", "dead"} => u \in Range(all)
    BY <1>3, <1>4, <1>5, <2>6
  <2>9. \A u \in Range(all) : status[u] # "unborn" BY <1>3, <1>4, <1>6, <2>6, <2>7
  <2> QED BY <1>3, <1>4, <2>5, <2>8, <2>9 DEF Points
<1>8. OneRuns(status, current) BY <1>3, <1>4 DEF OneRuns
<1>0. PICK e : e = <<>> OBVIOUS
<1>9. \A L \in ListName : e \in Seq(Thread) /\ Range(e) = {} /\ Distinct(e) /\ Chain(Taken, L, e)
  <2> TAKE L \in ListName
  <2>1. e \in Seq(Thread) /\ Len(e) = 0 BY <1>0
  <2>2. Range(e) = {} BY <2>1, RangeIs
  <2>3. Distinct(e) BY <2>1 DEF Distinct
  <2>4. At(L, e, 0) = HeadOf(L) /\ At(L, e, 1) = TailOf(L) BY <2>1 DEF At
  <2>5. \A i \in 0 .. Len(e) : i = 0 /\ i + 1 = 1 BY <2>1
  <2>6. Chain(Taken, L, e) BY <2>4, <2>5, TakenIs DEF Chain
  <2> QED BY <2>1, <2>2, <2>3, <2>6
<1>10. /\ \E b \in Seq(Thread) : Distinct(b) /\ Chain(links, Ready, b) /\ Range(b) = Range(e) \cup (Range(order) \cap Old)
       /\ \A M \in ListName \ {Ready}, w \in Seq(Thread) :
             Chain(Taken, M, w) /\ Range(w) \cap (Range(e) \cup Old) = {} => Chain(links, M, w)
  <2>1. EndsOK(Taken) BY TakenIs
  <2>2. /\ e \in Seq(Thread) /\ Distinct(e) /\ Chain(Taken, Ready, e) /\ Range(e) \cap Old = {}
    BY <1>4, <1>9
  <2>3. order \in Seq(Thread) /\ Distinct(order) BY <1>2
  <2>4. PICK r : r = ReadyAfter(Taken, order, Old) OBVIOUS
  <2>5. /\ \E b \in Seq(Thread) : Distinct(b) /\ Chain(r, Ready, b) /\ Range(b) = Range(e) \cup (Range(order) \cap Old)
        /\ \A M \in ListName \ {Ready}, w \in Seq(Thread) :
              Chain(Taken, M, w) /\ Range(w) \cap (Range(e) \cup Old) = {} => Chain(r, M, w)
    BY <2>1, <2>2, <2>3, <2>4, WalkChains
  <2> QED BY <1>1, <2>4, <2>5
<1>11. PICK b \in Seq(Thread) : Distinct(b) /\ Chain(links, Ready, b) /\ Range(b) = Old
  BY <1>2, <1>4, <1>9, <1>10
<1>12. \A M \in ListName \ {Ready} : Chain(links, M, e) BY <1>9, <1>10
<1> DEFINE c == [L \in ListName |-> IF L = Ready THEN b ELSE e]
<1>13. /\ c \in [ListName -> Seq(Thread)] /\ c[Ready] = b
       /\ \A L \in ListName \ {Ready} : c[L] = e /\ Range(c[L]) = {}
  BY <1>4, <1>9
<1> HIDE DEF c
<1>14. Lists(links, c)
  <2>1. \A L \in ListName : Distinct(c[L]) /\ Chain(links, L, c[L]) BY <1>9, <1>11, <1>12, <1>13
  <2>2. \A L, M \in ListName : L # M => Range(c[L]) \cap Range(c[M]) = {} BY <1>13
  <2> QED BY <1>13, <2>1, <2>2 DEF Lists
<1>15. Holding(links, status, pc, waitsFor, c)
  <2>1. \A s \in Sema : Range(c[s]) = {} BY <1>13, NamesAssumption
  <2>2. \A u \in Range(c[Ready]) : status[u] = "ready" BY <1>6, <1>11, <1>13 DEF Old
  <2>3. \A u \in Thread : status[u] = "ready" => u \in Range(c[Ready]) BY <1>6, <1>11, <1>13
  <2> QED BY <1>14, <2>1, <2>2, <2>3 DEF Holding
<1> QED BY <1>3, <1>7, <1>8, <1>15 DEF Calm

LEMMA NextIInv == IInv /\ [Next]_vars => IInv'
<1> SUFFICES ASSUME IInv, [Next]_vars PROVE IInv'
  OBVIOUS
<1>1. Typed' BY NextTyped DEF IInv
<1>2. Locks' BY NextLocks DEF IInv
<1>3. stray => stray'
  BY DEF Next, Tick, IdleBlock, SleepBegin, Sleep, Exit, Down, Up, CreateBegin, CreateEnd, vars
<1>4. CASE stray BY <1>1, <1>2, <1>3, <1>4 DEF IInv
<1>5. CASE stray' BY <1>1, <1>2, <1>5 DEF IInv
<1>6. CASE ~stray /\ ~stray'
  <2> SUFFICES Calm'
    BY <1>1, <1>2 DEF IInv
  <2>1. Typed /\ Calm BY <1>6 DEF IInv
  <2>2. CASE Tick BY <1>6, <2>1, <2>2, TickCalm
  <2>3. CASE IdleBlock BY <2>1, <2>3, IdleBlockCalm
  <2>4. ASSUME NEW t \in Thread, SleepBegin(t) \/ Sleep(t) \/ Exit(t) PROVE Calm'
    BY <2>1, <2>4, SleepBeginCalm, SleepCalm, ExitCalm
  <2>5. ASSUME NEW t \in Thread, NEW s \in Sema, Down(t, s) \/ Up(t, s) PROVE Calm'
    BY <2>1, <2>5, DownCalm, UpCalm
  <2>6. ASSUME NEW t \in Thread, NEW child \in Fresh, CreateBegin(t, child) \/ CreateEnd(t, child) PROVE Calm'
    BY <2>1, <2>6, CreateBeginCalm, CreateEndCalm
  <2>7. CASE UNCHANGED vars BY <2>1, <2>7 DEF vars, Calm, OneRuns
  <2> QED BY <2>2, <2>3, <2>4, <2>5, <2>6, <2>7 DEF Next
<1> QED BY <1>4, <1>5, <1>6

\* The invariant holds of every reachable state.
THEOREM AlwaysIInv == Spec => []IInv
<1>1. Init => IInv BY InitTyped, InitLocks, InitCalm DEF IInv
<1> QED BY <1>1, NextIInv, PTL DEF Spec

-----------------------------------------------------------------------------
\* Whatever ticks come between the steps of timer_sleep(), thread_create() and
\* the idle loop, the ready list holds the ready threads, each once, in both
\* directions, until the timer wakes a thread other than the idle one that is
\* not asleep.
THEOREM ReadyList == Spec => []ReadyListIntact
<1>1. IInv => ReadyListIntact
  <2> SUFFICES ASSUME IInv, ~stray PROVE ReadyListIntact
    BY DEF ReadyListIntact
  <2>1. PICK c : Holding(links, status, pc, waitsFor, c) BY DEF IInv, Calm
  <2>2. /\ Ready \in ListName /\ c[Ready] \in Seq(Thread) /\ Distinct(c[Ready]) /\ Chain(links, Ready, c[Ready])
    BY <2>1, NamesAssumption DEF Holding, Lists
  <2>3. IsListOf(links, Ready, Range(c[Ready])) BY <2>2, ListIs
  <2>4. Range(c[Ready]) \subseteq Thread BY <2>2, RangeIs
  <2>5. \/ Range(c[Ready]) = {t \in Thread : status[t] = "ready"}
        \/ Range(c[Ready]) = {t \in Thread \ {Idle} : status[t] = "ready"}
    <3>1. CASE Idle \in Range(c[Ready]) BY <2>1, <2>4, <3>1 DEF Holding
    <3>2. CASE Idle \notin Range(c[Ready]) BY <2>1, <2>4, <3>2 DEF Holding
    <3> QED BY <3>1, <3>2
  <2> QED BY <2>3, <2>5 DEF ReadyListIntact
<1> QED BY <1>1, AlwaysIInv, PTL

\* Two threads never hold the same lock, whoever wakes the waiters of
\* semaphore_down().
THEOREM LocksExclude == Spec => []SemaphoreExcludes
<1>1. IInv => SemaphoreExcludes BY DEF IInv, Locks
<1> QED BY <1>1, AlwaysIInv, PTL

\* The assertion of list_insert() holds at every insertion, even once threads
\* are on two lists.
THEOREM EndsKept == Spec => []EndsIntact
<1>1. IInv => EndsIntact BY DEF IInv, Typed, EndsOK, EndsIntact
<1> QED BY <1>1, AlwaysIInv, PTL

\* No assertion of the kernel stops it until the timer wakes a thread, other
\* than the idle one, that is not asleep: only the walk of all_list leads to a
\* panic.
THEOREM OnlyStrayStops == Spec => [](panic # "none" => stray)
<1>1. IInv => (panic # "none" => stray) BY DEF IInv, Calm
<1> QED BY <1>1, AlwaysIInv, PTL

-----------------------------------------------------------------------------
\* The tick that wakes a sleeper.

LEMMA TickWakes ==
    ASSUME IInv, ~stray, Tick, NEW t \in Thread, Asleep(t)
    PROVE  status'[t] # "blocked" <=> remaining'[t] = 0
<1> DEFINE st == [WokenStatus EXCEPT ![current] = "ready"]
           at == IF current = Idle THEN [pc EXCEPT ![Idle] = "loop"] ELSE pc
<1>1. Typed /\ Calm BY DEF IInv
<1>2. PICK c : Holding(links, status, pc, waitsFor, c) BY <1>1 DEF Calm
<1>3. /\ Ready \in ListName /\ EndsOK(links) /\ all \in Seq(Thread) /\ Distinct(all) /\ Range(all) \subseteq Thread
      /\ c[Ready] \in Seq(Thread) /\ Distinct(c[Ready]) /\ Chain(links, Ready, c[Ready])
      /\ Range(c[Ready]) \subseteq Thread /\ current \in Thread /\ status[current] = "running"
  BY <1>1, <1>2, NamesAssumption, RangeIs DEF Holding, Lists, Typed, Calm, Points, OneRuns
<1>4. /\ status[t] = "blocked" /\ pc[t] = "asleep" /\ t # Idle /\ t # current /\ t \in Range(all)
  BY <1>1, <1>3 DEF Asleep, Calm, Points
<1>5. (t \in Woken) <=> remaining'[t] = 0
  <2>1. remaining[t] \in Nat BY <1>1 DEF Typed
  <2>2. remaining'[t] = IF remaining[t] > 0 THEN remaining[t] - 1 ELSE 0 BY DEF Tick
  <2> QED BY <1>4, <2>1, <2>2 DEF Woken, Due
<1>6. \A u \in Woken : status[u] = "blocked" /\ u \in Thread BY <1>3 DEF Woken
<1>7. \A u \in Thread : WokenStatus[u] = IF u \in Woken THEN "ready" ELSE status[u] BY DEF WokenStatus
<1>8. CASE status' = WokenStatus BY <1>4, <1>5, <1>7, <1>8
<1>9. CASE Schedule(YieldLinks(WokenLinks), st, at)
  <2>1. Range(c[Ready]) \cap Woken = {} BY <1>2, <1>6 DEF Holding
  <2>2. \E b \in Seq(Thread) :
           Distinct(b) /\ Chain(WokenLinks, Ready, b) /\ Range(b) = Range(c[Ready]) \cup (Range(all) \cap Woken)
    <3> HIDE DEF Woken
    <3> QED BY <1>3, <2>1, WalkChains DEF WokenLinks
  <2>3. PICK b \in Seq(Thread) :
           Distinct(b) /\ Chain(WokenLinks, Ready, b) /\ Range(b) = Range(c[Ready]) \cup (Range(all) \cap Woken)
    BY <2>2
  <2>4. ASSUME NEW u \in Range(b) PROVE u \in Thread /\ WokenStatus[u] = "ready" /\ u # current
    <3>1. u \in Range(c[Ready]) \/ u \in Woken BY <2>3
    <3>2. u \in Range(c[Ready]) => status[u] = "ready" /\ u \in Thread BY <1>2, <1>3 DEF Holding
    <3> QED BY <1>3, <1>6, <1>7, <3>1, <3>2
  <2>5. EndsOK(WokenLinks) BY <1>3, WalkKeepsEnds DEF WokenLinks
  <2>6. st \in [Thread -> Status] /\ WokenStatus \in [Thread -> Status]
    BY <1>1 DEF Typed, WokenStatus, Status
  <2>7. \A u \in Thread : st[u] = IF u = current THEN "ready" ELSE WokenStatus[u] BY <2>6
  <2>8. \E e \in Seq(Thread) : Chain(YieldLinks(WokenLinks), Ready, e) /\ \A u \in Range(e) : st[u] = "ready"
    <3> HIDE DEF st
    <3>1. CASE current = Idle BY <2>3, <2>4, <2>7, <3>1 DEF YieldLinks
    <3>2. CASE current # Idle
      <4>1. current \in Thread \ Range(b) BY <1>3, <2>4
      <4>2. Chain(list_push_back(WokenLinks, Ready, current), Ready, Append(b, current))
        BY <1>3, <2>3, <2>5, <4>1, PushChain
      <4>3. Append(b, current) \in Seq(Thread) /\ Range(Append(b, current)) = Range(b) \cup {current}
        BY <1>3, AppendIs
      <4>4. \A u \in Range(Append(b, current)) : st[u] = "ready" BY <1>3, <2>4, <2>7, <4>3
      <4> QED BY <3>2, <4>2, <4>3, <4>4 DEF YieldLinks
    <3> QED BY <3>1, <3>2
  <2> HIDE DEF st, at
  <2>9. /\ st[t] # "ready" /\ t # Idle => status'[t] = st[t]
        /\ st[t] = "ready" => status'[t] \in {"ready", "running"}
    BY <1>9, <2>6, <2>8, ScheduleReady
  <2>10. st[t] = IF t \in Woken THEN "ready" ELSE "blocked" BY <1>4, <1>7, <2>7
  <2> QED BY <1>4, <1>5, <2>9, <2>10
<1> QED BY <1>8, <1>9 DEF Tick

\* Nothing else wakes one: what another thread's step dispatches was ready.
LEMMA OthersSleep ==
    ASSUME IInv, ~stray, Next, ~Tick, NEW t \in Thread, Asleep(t)
    PROVE  status'[t] = "blocked"
<1>1. Typed /\ Calm BY DEF IInv
<1>2. PICK c : Holding(links, status, pc, waitsFor, c) BY <1>1 DEF Calm
<1>3. /\ Ready \in ListName /\ EndsOK(links) /\ c[Ready] \in Seq(Thread) /\ Chain(links, Ready, c[Ready])
      /\ current \in Thread /\ status[current] = "running" /\ Idle \in Thread
      /\ Range(c[Ready]) \subseteq Thread
      /\ \A u \in Range(c[Ready]) : status[u] = "ready" /\ u # current
  BY <1>1, <1>2, NamesAssumption, ThreadAssumption, RangeIs DEF Holding, Lists, Typed, Calm, Points, OneRuns
<1>4. status[t] = "blocked" /\ pc[t] = "asleep" /\ t # Idle /\ t # current
  BY <1>1, <1>3 DEF Asleep, Calm, Points
<1>5. ASSUME NEW lk, Chain(lk, Ready, c[Ready]), NEW st \in [Thread -> Status], NEW at, Schedule(lk, st, at),
             \A u \in Thread \ {current} : st[u] = status[u]
      PROVE  status'[t] = "blocked"
  <2>1. \A u \in Range(c[Ready]) : st[u] = "ready" BY <1>3, <1>5
  <2>2. st[t] = "blocked" BY <1>4, <1>5
  <2> QED BY <1>3, <1>4, <1>5, <2>1, <2>2, ScheduleReady
<1>6. ASSUME NEW x \in {"blocked", "dead"}
      PROVE  /\ [status EXCEPT ![current] = x] \in [Thread -> Status]
             /\ \A u \in Thread \ {current} : [status EXCEPT ![current] = x][u] = status[u]
  BY <1>1, <1>3 DEF Typed, Status
<1>7. CASE IdleBlock
  <2>1. Idle = current BY <1>7 DEF IdleBlock, Runs
  <2>2. Schedule(links, [status EXCEPT ![current] = "blocked"], [pc EXCEPT ![Idle] = "halted"])
    BY <1>7, <2>1 DEF IdleBlock
  <2> QED BY <1>3, <1>5, <1>6, <2>2
<1>8. ASSUME NEW u \in Thread, SleepBegin(u) PROVE status'[t] = "blocked"
  BY <1>4, <1>8 DEF SleepBegin
<1>9. ASSUME NEW u \in Thread, Sleep(u) PROVE status'[t] = "blocked"
  <2>1. u = current BY <1>9 DEF Sleep, Runs
  <2>2. Schedule(links, [status EXCEPT ![current] = "blocked"], [pc EXCEPT ![u] = "asleep"])
    BY <1>9, <2>1 DEF Sleep
  <2> QED BY <1>3, <1>5, <1>6, <2>2
<1>10. ASSUME NEW u \in Thread, Exit(u) PROVE status'[t] = "blocked"
  <2>1. u = current BY <1>10 DEF Exit, Runs
  <2>2. Schedule(links, [status EXCEPT ![current] = "dead"], pc) BY <1>10, <2>1 DEF Exit
  <2> QED BY <1>3, <1>5, <1>6, <2>2
<1>11. ASSUME NEW u \in Thread, NEW s \in Sema, Down(u, s) PROVE status'[t] = "blocked"
  <2>1. u = current BY <1>11 DEF Down
  <2>2. CASE Schedule(list_push_back(links, s, u), [status EXCEPT ![u] = "blocked"], pc)
    <3>1. s \in ListName /\ Ready \in ListName \ {s} BY NamesAssumption
    <3>2. /\ c[s] \in Seq(Thread) /\ Chain(links, s, c[s]) /\ Range(c[s]) \cap Range(c[Ready]) = {}
      BY <1>2, <3>1 DEF Holding, Lists
    <3>3. current \in Thread \ Range(c[Ready]) BY <1>3
    <3>4. Chain(list_push_back(links, s, current), Ready, c[Ready])
      BY <1>3, <3>1, <3>2, <3>3, PushOther
    <3> QED BY <1>5, <1>6, <2>1, <2>2, <3>4
  <2>3. CASE UNCHANGED status BY <1>4, <2>3
  <2> QED BY <1>11, <2>2, <2>3 DEF Down
<1>12. ASSUME NEW u \in Thread, NEW s \in Sema, Up(u, s) PROVE status'[t] = "blocked"
  <2> DEFINE n == list_front(links, s)
  <2>1. CASE ~list_empty(links, s) /\ status' = [status EXCEPT ![n] = "ready"]
    <3>1. pc[n] = "run" BY <1>2, <1>3, <2>1, HoldingRemove
    <3> HIDE DEF n
    <3> QED BY <1>1, <1>4, <2>1, <3>1 DEF Typed
  <2>2. CASE UNCHANGED status BY <1>4, <2>2
  <2> QED BY <1>12, <2>1, <2>2 DEF Up
<1>13. ASSUME NEW u \in Thread, NEW child \in Fresh, CreateBegin(u, child) \/ CreateEnd(u, child)
       PROVE  status'[t] = "blocked"
  <2>1. CASE CreateBegin(u, child) BY <1>1, <1>4, <2>1 DEF CreateBegin, Typed
  <2>2. CASE CreateEnd(u, child) BY <1>1, <1>4, <2>2 DEF CreateEnd, Typed
  <2> QED BY <1>13, <2>1, <2>2
<1> QED BY <1>7, <1>8, <1>9, <1>10, <1>11, <1>12, <1>13 DEF Next

\* Until the timer wakes a thread, other than the idle one, that is not asleep,
\* every sleeper is woken at the tick its time comes: never earlier, never later,
\* and by nothing else.
THEOREM WokenInTime == Spec => AlarmExact
<1>1. IInv /\ [Next]_vars =>
      [~stray => \A t \in Thread : Asleep(t) => (status'[t] # "blocked" <=> Tick /\ remaining'[t] = 0)]_vars
  <2> SUFFICES ASSUME IInv, Next, ~stray, NEW t \in Thread, Asleep(t)
               PROVE  status'[t] # "blocked" <=> Tick /\ remaining'[t] = 0
    OBVIOUS
  <2>1. CASE Tick BY <2>1, TickWakes
  <2>2. CASE ~Tick BY <2>2, OthersSleep
  <2> QED BY <2>1, <2>2
<1> QED BY <1>1, AlwaysIInv, PTL DEF Spec, AlarmExact

=============================================================================
