-------------------------------- MODULE FilesProofs --------------------------------
(* Proofs about the files of the Lab3 kernel (Files.tla): the six properties  *)
(* its passing run checks, for every disk, every size of the index blocks,    *)
(* every size a call passes, and every number of names, descriptors, files    *)
(* and reboots.                                                               *)
(*                                                                            *)
(* First what a reservation does to the tree of blocks below an inode, level  *)
(* by level as in inode_reserve_indirect(): nothing that was there moves, the *)
(* new entries are different sectors that were free.  Then what that makes of *)
(* a file, then of all files, and last of the state: FilesInv is inductive.   *)
(* A write of no bytes may leave a file longer or shorter than anyone asked:  *)
(* its tree stays sound, and its content is Lost to the history.              *)
(*                                                                            *)
(* The walks are recursive functions.  What they come to is shown along the   *)
(* set of the numbers it holds for (SetInduction), which has no least number  *)
(* it misses (LeastNatural).                                                  *)
EXTENDS Files, FiniteSetTheorems, TLAPS

-----------------------------------------------------------------------------
(* Induction, and the walk of ReserveSectors.                               *)

\* A set of naturals has a least element: the initial segments are well-founded.
LEMMA LeastNatural ==
    ASSUME NEW S \in SUBSET Nat, S # {}
    PROVE  \E m \in S : \A n \in S : m <= n
<1> DEFINE Segments == {0 .. k : k \in S}
<1>1. Segments \subseteq FiniteSubsetsOf(Nat)
  <2> SUFFICES ASSUME NEW k \in S PROVE 0 .. k \in FiniteSubsetsOf(Nat)
    OBVIOUS
  <2>1. IsFiniteSet(0 .. k) BY FS_Interval
  <2> QED BY <2>1 DEF FiniteSubsetsOf
<1>2. Segments # {} OBVIOUS
<1>3. \E x \in Segments : \A y \in Segments : ~(<<y, x>> \in StrictSubsetOrdering(Nat))
  <2> HIDE DEF Segments
  <2> QED BY <1>1, <1>2, FS_StrictSubsetOrderingWellFounded, WFMin
<1>4. PICK m \in S : \A n \in S : ~(<<0 .. n, 0 .. m>> \in StrictSubsetOrdering(Nat))
  BY <1>3
<1>5. ASSUME NEW n \in S, n < m PROVE FALSE
  <2>1. 0 .. n \subseteq 0 .. m BY <1>5
  <2>2. m \in 0 .. m /\ m \notin 0 .. n BY <1>5
  <2>3. <<0 .. n, 0 .. m>> \in StrictSubsetOrdering(Nat)
    BY <2>1, <2>2 DEF StrictSubsetOrdering
  <2> QED BY <1>4, <2>3
<1> QED BY <1>5

\* Induction, over the set of the numbers it holds for.
LEMMA SetInduction ==
    ASSUME NEW m \in Nat, NEW S, 0 \in S, \A k \in 0 .. m - 1 : k \in S => k + 1 \in S
    PROVE  \A k \in 0 .. m : k \in S
<1> SUFFICES ASSUME {k \in 0 .. m : k \notin S} # {} PROVE FALSE
  OBVIOUS
<1> DEFINE Out == {k \in 0 .. m : k \notin S}
<1>1. Out \in SUBSET Nat OBVIOUS
<1>2. PICK k \in Out : \A n \in Out : k <= n BY <1>1, LeastNatural
<1>3. k # 0 /\ k \in 1 .. m BY <1>2
<1>4. k - 1 \in 0 .. m - 1 /\ k - 1 \notin Out BY <1>2, <1>3
<1>5. k - 1 \in S BY <1>4
<1> QED BY <1>2, <1>3, <1>4, <1>5

\* The walk of ReserveSectors.
SectorWalk(w, r, n) ==
    w = [j \in 0 .. n |->
            IF j = 0 THEN r
            ELSE LET q == w[j - 1] IN IF q.ok THEN ReserveSector(q, j) ELSE q]

\* The walk is there, and ReserveSectors() is what it comes to.
LEMMA SectorWalkExists ==
    ASSUME NEW r, NEW n \in Nat
    PROVE  \E w : SectorWalk(w, r, n)
<1> DEFINE S == {m \in Nat : \E w : SectorWalk(w, r, m)}
<1>1. 0 \in S
  <2> DEFINE w == [j \in 0 .. 0 |-> r]
  <2>1. SectorWalk(w, r, 0) BY DEF SectorWalk
  <2> QED BY <2>1
<1>2. ASSUME NEW m \in 0 .. n - 1, m \in S PROVE m + 1 \in S
  <2>1. PICK w : SectorWalk(w, r, m) BY <1>2
  <2> DEFINE last == IF w[m].ok THEN ReserveSector(w[m], m + 1) ELSE w[m]
             v == [j \in 0 .. m + 1 |-> IF j = m + 1 THEN last ELSE w[j]]
  <2> HIDE DEF last
  <2>2. \A j \in 0 .. m : w[j] = IF j = 0 THEN r
            ELSE IF w[j - 1].ok THEN ReserveSector(w[j - 1], j) ELSE w[j - 1]
    BY <2>1 DEF SectorWalk
  <2>3. \A j \in 0 .. m + 1 : v[j] = IF j = 0 THEN r
            ELSE IF v[j - 1].ok THEN ReserveSector(v[j - 1], j) ELSE v[j - 1]
    BY <2>2 DEF last
  <2>4. SectorWalk(v, r, m + 1) BY <2>3 DEF SectorWalk
  <2> QED BY <2>4
<1> HIDE DEF S
<1>3. n \in S BY <1>1, <1>2, SetInduction
<1> QED BY <1>3 DEF S

\* What ReserveSectors() returns is the end of its walk.
LEMMA ReserveSectorsWalk ==
    ASSUME NEW r, NEW n \in Nat
    PROVE  \E w : SectorWalk(w, r, n) /\ ReserveSectors(r, n) = w[n]
BY SectorWalkExists DEF ReserveSectors, SectorWalk

-----------------------------------------------------------------------------
(* Types.                                                                  *)

Entries == [1 .. INDIRECT_BLOCKS_PER_SECTOR -> Sector]
Blocks == [1 .. DoublyIndirectBlock -> Sector]
Block == {Zeros, System} \cup {Data(v) : v \in Value} \cup {Index(b) : b \in Entries}
            \cup {Inode(d) : d \in [length : Nat, blocks : Blocks]}
Reservation(N) == [map : SUBSET Sector, disk : [Sector -> Block], blocks : [N -> Sector],
                   ok : BOOLEAN, full : BOOLEAN]

\* A reservation on the entries N: sector 0 is never free, and holds no pointers.
Fine(r, N) ==
    /\ r \in Reservation(N)
    /\ 0 \in r.map
    /\ BlocksOf(r.disk[0]) = NoBlocks
    /\ \A j \in N : r.blocks[j] \in r.map

\* From r to q the sectors found at the places X have grown from old to new, by
\* sectors that were free, at places of Y only; those at I hold pointers.
Grows(r, q, X, I, Y, old, new) ==
    /\ r.map \subseteq q.map
    /\ \A x \in X : new[x] # old[x] =>
            /\ old[x] = 0 /\ x \in Y /\ new[x] \in q.map \ r.map
            /\ x \notin I => q.disk[new[x]] = Zeros
    /\ \A x, y \in X : new[x] = new[y] /\ new[x] \notin r.map => x = y
    /\ \A s \in Sector : q.disk[s] # r.disk[s] =>
            \/ s \in q.map \ r.map
            \/ s = 0 /\ q.disk[0] = Zeros /\ q.full
            \/ \E x \in I : s = new[x] /\ s # 0
    /\ q.ok => /\ r.ok
               /\ \A y \in Y : new[y] # 0
               /\ \A s \in q.map \ r.map : \E y \in Y : new[y] = s
    /\ q.full # r.full => q.full /\ ~q.ok

\* What a block holds as pointers.
LEMMA BlocksOfType == \A c \in Block : BlocksOf(c) \in Entries
<1>1. NoBlocks \in Entries
  BY DiskAssumption, BlocksAssumption DEF NoBlocks, Entries, Sector, Capacity
<1>2. ASSUME NEW c \in Block, c.kind = "index" PROVE c.blocks \in Entries
  BY <1>2 DEF Block, Zeros, System, Data, Index, Inode
<1> QED BY <1>1, <1>2 DEF BlocksOf

\* What is written back is what is read.
LEMMA BlocksOfIndex == \A b : BlocksOf(Index(b)) = b
BY DEF BlocksOf, Index

\* A sector of zeros, or of anything else, names no block.
LEMMA BlocksOfZeros == BlocksOf(Zeros) = NoBlocks /\ BlocksOf(System) = NoBlocks
BY DEF BlocksOf, Zeros, System

\* Sector 0, the null pointer of an index block, is a sector of the disk.
LEMMA ZeroIsSector == 0 \in Sector /\ Zeros \in Block
BY DiskAssumption DEF Sector, Block

\* Growing twice.
LEMMA GrowsOn ==
    ASSUME NEW r, NEW p, NEW q, NEW X, NEW I \in SUBSET X,
           NEW Y \in SUBSET X, NEW Z \in SUBSET X,
           NEW old, NEW mid, NEW new, 0 \in r.map, p.map \subseteq Sector,
           Grows(r, p, X, I, Y, old, mid), Grows(p, q, X, I, Z, mid, new), p.ok
    PROVE  Grows(r, q, X, I, Y \cup Z, old, new)
<1>1. r.map \subseteq q.map BY DEF Grows
<1>2. \A x, y \in X : new[x] = new[y] /\ new[x] \notin r.map => x = y
  <2> SUFFICES ASSUME NEW x \in X, NEW y \in X, new[x] = new[y], new[x] \notin r.map
               PROVE  x = y
    OBVIOUS
  <2>1. CASE new[x] \in p.map
    <3>1. new[x] = mid[x] /\ new[y] = mid[y] BY <2>1 DEF Grows
    <3>2. \A a, b \in X : mid[a] = mid[b] /\ mid[a] \notin r.map => a = b BY DEF Grows
    <3> QED BY <3>1, <3>2
  <2>2. CASE new[x] \notin p.map BY <2>2 DEF Grows
  <2> QED BY <2>1, <2>2
<1>3. ASSUME NEW x \in X, new[x] # old[x]
      PROVE  /\ old[x] = 0 /\ x \in Y \cup Z /\ new[x] \in q.map \ r.map
             /\ x \notin I => q.disk[new[x]] = Zeros
  <2>1. CASE mid[x] = old[x] BY <1>3, <2>1 DEF Grows
  <2>2. CASE mid[x] # old[x]
    <3>1. /\ old[x] = 0 /\ x \in Y /\ mid[x] \in p.map \ r.map
          /\ x \notin I => p.disk[mid[x]] = Zeros
      BY <2>2 DEF Grows
    <3>2. mid[x] # 0 BY <3>1
    <3>3. new[x] = mid[x] BY <3>2 DEF Grows
    <3>4. ASSUME x \notin I PROVE q.disk[mid[x]] = p.disk[mid[x]]
      <4>1. \A z \in I : new[z] # new[x]
        BY <1>2, <3>1, <3>3, <3>4
      <4>2. mid[x] \notin q.map \ p.map BY <3>1
      <4> QED BY <4>1, <4>2, <3>1, <3>2, <3>3 DEF Grows
    <3> QED BY <1>1, <3>1, <3>3, <3>4 DEF Grows
  <2> QED BY <2>1, <2>2
<1>4. ASSUME NEW s \in Sector, q.disk[s] # r.disk[s]
      PROVE  \/ s \in q.map \ r.map
             \/ s = 0 /\ q.disk[0] = Zeros /\ q.full
             \/ \E x \in I : s = new[x] /\ s # 0
  <2>1. CASE p.disk[s] # r.disk[s]
    <3>1. ASSUME NEW x \in I, s = mid[x], s # 0 PROVE s = new[x]
      BY <3>1 DEF Grows
    <3>2. CASE s = 0 /\ p.disk[0] = Zeros /\ p.full
      <4>1. q.full BY <3>2 DEF Grows
      <4>2. ASSUME q.disk[0] # p.disk[0] PROVE q.disk[0] = Zeros
        BY <4>2, <3>2 DEF Grows
      <4> QED BY <4>1, <4>2, <3>2
    <3> QED BY <1>1, <2>1, <3>1, <3>2 DEF Grows
  <2>2. CASE q.disk[s] # p.disk[s] BY <2>2 DEF Grows
  <2> QED BY <1>4, <2>1, <2>2
<1>5. ASSUME q.ok
      PROVE  /\ r.ok
             /\ \A y \in Y \cup Z : new[y] # 0
             /\ \A s \in q.map \ r.map : \E y \in Y \cup Z : new[y] = s
  <2>1. \A y \in Y : mid[y] # 0 /\ new[y] = mid[y] BY DEF Grows
  <2>2. ASSUME NEW s \in q.map \ r.map PROVE \E y \in Y \cup Z : new[y] = s
    BY <1>5, <2>1 DEF Grows
  <2> QED BY <1>5, <2>1, <2>2 DEF Grows
<1>6. q.full # r.full => q.full /\ ~q.ok BY DEF Grows
<1> QED BY <1>1, <1>2, <1>3, <1>4, <1>5, <1>6 DEF Grows

\* Nothing grows.
LEMMA GrowsNot ==
    ASSUME NEW r, NEW X, NEW I, NEW t, r.ok, \A x \in X : t[x] \in r.map
    PROVE  Grows(r, r, X, I, {}, t, t)
BY DEF Grows

\* After a failure it does not matter what was asked for.
LEMMA GrowsWider ==
    ASSUME NEW r, NEW q, NEW X, NEW I, NEW Y, NEW Z, NEW old, NEW new,
           Grows(r, q, X, I, Y, old, new), ~q.ok, Y \subseteq Z
    PROVE  Grows(r, q, X, I, Z, old, new)
BY DEF Grows

\* g takes the places X1 to places among X, and at the others nothing changes.
Among(m, X1, I1, old1, new1, X, I, old, new, g) ==
    /\ g \in [X1 -> X]
    /\ \A x, y \in X1 : g[x] = g[y] => x = y
    /\ \A x \in X1 : /\ old[g[x]] = old1[x] /\ new[g[x]] = new1[x]
                     /\ (g[x] \in I <=> x \in I1)
    /\ \A x \in X : (\A y \in X1 : g[y] # x) => new[x] = old[x] /\ old[x] \in m

\* ... and the places Y1 are taken to Y.
Placed(m, X1, I1, Y1, old1, new1, X, I, Y, old, new, g) ==
    /\ Among(m, X1, I1, old1, new1, X, I, old, new, g)
    /\ I1 \in SUBSET X1 /\ Y1 \in SUBSET X1
    /\ \A y \in Y1 : g[y] \in Y
    /\ \A z \in Y : \E y \in Y1 : g[y] = z

\* What grows somewhere grows where it is placed.
LEMMA GrowsPlaced ==
    ASSUME NEW r, NEW q, NEW X1, NEW I1, NEW Y1, NEW old1, NEW new1, NEW X, NEW I, NEW Y,
           NEW old, NEW new, NEW g, Grows(r, q, X1, I1, Y1, old1, new1),
           Placed(r.map, X1, I1, Y1, old1, new1, X, I, Y, old, new, g)
    PROVE  Grows(r, q, X, I, Y, old, new)
<1>0. /\ g \in [X1 -> X]
      /\ \A x, y \in X1 : g[x] = g[y] => x = y
      /\ \A x \in X1 : /\ old[g[x]] = old1[x] /\ new[g[x]] = new1[x]
                       /\ (g[x] \in I <=> x \in I1)
      /\ \A x \in X : (\A y \in X1 : g[y] # x) => new[x] = old[x] /\ old[x] \in r.map
      /\ I1 \in SUBSET X1 /\ Y1 \in SUBSET X1
      /\ \A y \in Y1 : g[y] \in Y
      /\ \A z \in Y : \E y \in Y1 : g[y] = z
  BY DEF Among, Placed
<1>1. ASSUME NEW x \in X, new[x] # old[x]
      PROVE  /\ old[x] = 0 /\ x \in Y /\ new[x] \in q.map \ r.map
             /\ x \notin I => q.disk[new[x]] = Zeros
  <2>1. PICK z \in X1 : g[z] = x BY <1>0, <1>1
  <2>2. old1[z] # new1[z] BY <1>0, <1>1, <2>1
  <2> QED BY <1>0, <2>1, <2>2 DEF Grows
<1>2. ASSUME NEW x \in X, NEW y \in X, new[x] = new[y], new[x] \notin r.map PROVE x = y
  <2>1. PICK u \in X1 : g[u] = x BY <1>0, <1>2
  <2>2. PICK v \in X1 : g[v] = y BY <1>0, <1>2
  <2>3. new1[u] = new1[v] /\ new1[u] \notin r.map BY <1>0, <1>2, <2>1, <2>2
  <2>4. u = v BY <2>3 DEF Grows
  <2> QED BY <2>1, <2>2, <2>4
<1>3. ASSUME NEW s \in Sector, q.disk[s] # r.disk[s]
      PROVE  \/ s \in q.map \ r.map
             \/ s = 0 /\ q.disk[0] = Zeros /\ q.full
             \/ \E x \in I : s = new[x] /\ s # 0
  <2>1. ASSUME NEW z \in I1, s = new1[z], s # 0 PROVE g[z] \in I /\ s = new[g[z]]
    BY <1>0, <2>1
  <2> QED BY <1>3, <2>1 DEF Grows
<1>4. ASSUME q.ok
      PROVE  /\ r.ok
             /\ \A y \in Y : new[y] # 0
             /\ \A s \in q.map \ r.map : \E y \in Y : new[y] = s
  <2>1. \A y \in Y1 : new[g[y]] = new1[y] BY <1>0
  <2>2. \A y \in Y : new[y] # 0 BY <1>0, <1>4, <2>1 DEF Grows
  <2>3. ASSUME NEW s \in q.map \ r.map PROVE \E y \in Y : new[y] = s
    <3>1. PICK y \in Y1 : new1[y] = s BY <1>4, <2>3 DEF Grows
    <3> QED BY <1>0, <2>1, <3>1
  <2> QED BY <1>4, <2>2, <2>3 DEF Grows
<1> QED BY <1>1, <1>2, <1>3, <1>4 DEF Grows

\* Sector 0 keeps holding no pointers.
LEMMA GrowsZero ==
    ASSUME NEW r, NEW N, Fine(r, N), NEW q, NEW X, NEW I, NEW Y, NEW old, NEW new,
           Grows(r, q, X, I, Y, old, new)
    PROVE  0 \in q.map /\ BlocksOf(q.disk[0]) = NoBlocks
<1>1. 0 \in q.map /\ 0 \notin q.map \ r.map BY DEF Fine, Grows
<1>2. CASE q.disk[0] = r.disk[0] BY <1>1, <1>2 DEF Fine
<1>3. CASE q.disk[0] # r.disk[0]
  <2>1. q.disk[0] = Zeros BY <1>1, <1>3, ZeroIsSector DEF Grows
  <2> QED BY <1>1, <2>1, BlocksOfZeros
<1> QED BY <1>2, <1>3

-----------------------------------------------------------------------------
(* One sector.                                                             *)

\* bitmap_scan_and_flip() finds a free sector if there is one.
LEMMA LowestFree ==
    ASSUME NEW r, r.map \subseteq Sector, ~Full(r)
    PROVE  Lowest(r) \in Sector \ r.map
<1>1. Sector \ r.map # {} BY DEF Full
<1>2. Sector \ r.map \in SUBSET Nat BY DiskAssumption DEF Sector
<1>3. \E m \in Sector \ r.map : \A n \in Sector \ r.map : m <= n BY <1>1, <1>2, LeastNatural
<1> QED BY <1>3 DEF Lowest, Min

\* free_map_allocate() for one entry.
LEMMA TakeGrows ==
    ASSUME NEW N, NEW r, Fine(r, N), r.ok, ~Full(r), NEW j \in N, r.blocks[j] = 0
    PROVE  /\ Fine(Take(r, j), N)
           /\ Grows(r, Take(r, j), N, {}, {j}, r.blocks, Take(r, j).blocks)
           /\ Take(r, j).ok
<1> DEFINE s == Lowest(r)
           q == Take(r, j)
<1>1. s \in Sector /\ s \notin r.map BY LowestFree DEF Fine, Reservation
<1> HIDE DEF s
<1>2. q = [r EXCEPT !.map = @ \cup {s}, !.disk[s] = Zeros, !.blocks[j] = s] BY DEF Take, s
<1> HIDE DEF q
<1>3. /\ q.map = r.map \cup {s} /\ q.ok = r.ok /\ q.full = r.full
      /\ q.disk = [r.disk EXCEPT ![s] = Zeros]
      /\ q.blocks = [r.blocks EXCEPT ![j] = s]
      /\ q \in Reservation(N)
  BY <1>1, <1>2, ZeroIsSector DEF Fine, Reservation
<1>4. Grows(r, q, N, {}, {j}, r.blocks, q.blocks)
  BY <1>1, <1>3 DEF Grows, Fine, Reservation
<1>5. Fine(q, N)
  BY <1>1, <1>3, <1>4, GrowsZero DEF Fine, Reservation
<1> QED BY <1>3, <1>4, <1>5 DEF q

\* inode_reserve_indirect(), level 0: the entry has a sector, unless the disk is
\* full.
LEMMA SectorGrows ==
    ASSUME NEW N, NEW r, Fine(r, N), r.ok, NEW j \in N
    PROVE  LET q == ReserveSector(r, j) IN
           /\ Fine(q, N)
           /\ Grows(r, q, N, {}, {j}, r.blocks, q.blocks)
<1> DEFINE q == ReserveSector(r, j)
<1>1. CASE r.blocks[j] # 0
  <2>1. q = r BY <1>1 DEF ReserveSector
  <2>2. Grows(r, r, N, {}, {j}, r.blocks, r.blocks) BY <1>1 DEF Grows, Fine
  <2> QED BY <2>1, <2>2
<1>2. CASE r.blocks[j] = 0 /\ Full(r)
  <2>1. q = [r EXCEPT !.ok = FALSE] BY <1>2 DEF ReserveSector
  <2> HIDE DEF q
  <2>2. /\ q.map = r.map /\ q.disk = r.disk /\ q.blocks = r.blocks /\ q.full = r.full /\ q.ok = FALSE
        /\ q \in Reservation(N)
    BY <2>1 DEF Fine, Reservation
  <2>3. Fine(q, N) BY <2>2 DEF Fine
  <2>4. Grows(r, q, N, {}, {j}, r.blocks, q.blocks) BY <2>2 DEF Grows, Fine
  <2> QED BY <2>3, <2>4 DEF q
<1>3. CASE r.blocks[j] = 0 /\ ~Full(r) BY <1>3, TakeGrows DEF ReserveSector
<1> QED BY <1>1, <1>2, <1>3

\* A walk over the entries 1 to n.
LEMMA SectorsGrow ==
    ASSUME NEW N, NEW r, Fine(r, N), r.ok, NEW n \in Nat, 1 .. n \subseteq N
    PROVE  LET q == ReserveSectors(r, n) IN
           /\ Fine(q, N)
           /\ Grows(r, q, N, {}, 1 .. n, r.blocks, q.blocks)
<1>1. PICK w : SectorWalk(w, r, n) /\ ReserveSectors(r, n) = w[n] BY ReserveSectorsWalk
<1> DEFINE Good(j) == Fine(w[j], N) /\ Grows(r, w[j], N, {}, 1 .. j, r.blocks, w[j].blocks)
           S == {j \in 0 .. n : Good(j)}
<1>2. 0 \in S
  <2>1. w[0] = r BY <1>1 DEF SectorWalk
  <2>2. Grows(r, r, N, {}, {}, r.blocks, r.blocks) BY GrowsNot DEF Fine
  <2>3. 1 .. 0 = {} OBVIOUS
  <2> QED BY <2>1, <2>2, <2>3
<1>3. ASSUME NEW k \in 0 .. n - 1, k \in S PROVE k + 1 \in S
  <2> DEFINE p == w[k]
             q == w[k + 1]
  <2>1. q = IF p.ok THEN ReserveSector(p, k + 1) ELSE p BY <1>1 DEF SectorWalk
  <2>2. k + 1 \in N /\ 1 .. k \subseteq N /\ 1 .. k + 1 = (1 .. k) \cup {k + 1} /\ k + 1 \in 0 .. n
    OBVIOUS
  <2>3. Fine(p, N) /\ Grows(r, p, N, {}, 1 .. k, r.blocks, p.blocks) BY <1>3
  <2> HIDE DEF p, q
  <2>4. CASE p.ok
    <3>1. Fine(q, N) /\ Grows(p, q, N, {}, {k + 1}, p.blocks, q.blocks)
      BY <2>1, <2>2, <2>3, <2>4, SectorGrows
    <3>2. 0 \in r.map /\ p.map \subseteq Sector BY <2>3 DEF Fine, Reservation
    <3>3. Grows(r, q, N, {}, (1 .. k) \cup {k + 1}, r.blocks, q.blocks)
      BY <2>2, <2>3, <2>4, <3>1, <3>2, GrowsOn
    <3> QED BY <2>2, <3>1, <3>3 DEF q
  <2>5. CASE ~p.ok
    <3>1. q = p BY <2>1, <2>5
    <3>2. Grows(r, p, N, {}, 1 .. k + 1, r.blocks, p.blocks) BY <2>2, <2>3, <2>5, GrowsWider
    <3> QED BY <2>2, <2>3, <3>1, <3>2 DEF q
  <2> QED BY <2>4, <2>5
<1> HIDE DEF S
<1>4. n \in S BY <1>2, <1>3, SetInduction
<1> QED BY <1>1, <1>4 DEF S

-----------------------------------------------------------------------------
(* Blocks of pointers.                                                     *)

Pointer == 1 .. INDIRECT_BLOCKS_PER_SECTOR
\* A block of pointers and the sectors it names.
Branch(dsk, e) ==
    [l \in 0 .. INDIRECT_BLOCKS_PER_SECTOR |-> IF l = 0 THEN e ELSE BlocksOf(dsk[e])[l]]

\* The entries of an index block.
LEMMA PointerNat == INDIRECT_BLOCKS_PER_SECTOR \in Nat \ {0} /\ Pointer \subseteq Nat \ {0}
BY BlocksAssumption DEF Pointer

\* Reading a block of pointers.
LEMMA BranchType ==
    ASSUME NEW dsk \in [Sector -> Block], NEW e \in Sector
    PROVE  /\ BlocksOf(dsk[e]) \in [Pointer -> Sector]
           /\ Branch(dsk, e) \in [0 .. INDIRECT_BLOCKS_PER_SECTOR -> Sector]
           /\ Branch(dsk, e)[0] = e
           /\ \A l \in Pointer : Branch(dsk, e)[l] = BlocksOf(dsk[e])[l]
<1>1. BlocksOf(dsk[e]) \in [Pointer -> Sector] BY BlocksOfType DEF Entries, Pointer
<1>2. ASSUME NEW l \in 0 .. INDIRECT_BLOCKS_PER_SECTOR, l # 0 PROVE l \in Pointer
  BY <1>2, PointerNat DEF Pointer
<1>3. \A l \in Pointer : l \in 0 .. INDIRECT_BLOCKS_PER_SECTOR /\ l # 0
  BY PointerNat DEF Pointer
<1>4. 0 \in 0 .. INDIRECT_BLOCKS_PER_SECTOR BY PointerNat
<1> QED BY <1>1, <1>2, <1>3, <1>4 DEF Branch

\* The block of pointers below entry i is as it was, or new and empty; or there
\* is no sector left for it.
LEMMA IndexBlockGrows ==
    ASSUME NEW N, NEW r, Fine(r, N), r.ok, NEW i \in N,
           \A l \in Pointer : BlocksOf(r.disk[r.blocks[i]])[l] \in r.map
    PROVE  LET p == IndexBlock(r, i)
               a == Entered(p, i)
           IN  /\ Fine(p, N) /\ p.ok
               /\ \A j \in N \ {i} : p.blocks[j] = r.blocks[j]
               /\ Fine(a, Pointer)
               /\ a.map = p.map /\ a.disk = p.disk /\ a.ok = p.ok /\ a.full = p.full
               /\ a.blocks = BlocksOf(p.disk[p.blocks[i]])
               /\ a.blocks = BlocksOf(r.disk[r.blocks[i]])
               /\ IF p.blocks[i] # 0
                  THEN /\ p.blocks[i] = r.blocks[i] => p = r
                       /\ p.blocks[i] # r.blocks[i] =>
                            /\ r.blocks[i] = 0 /\ p.blocks[i] \in p.map \ r.map
                            /\ p.disk[p.blocks[i]] = Zeros
                       /\ p.map = r.map \cup {p.blocks[i]}
                       /\ \A s \in Sector : s \in r.map => p.disk[s] = r.disk[s]
                       /\ \A s \in Sector : s \notin p.map => p.disk[s] = r.disk[s]
                       /\ p.full = r.full
                  ELSE /\ Full(r) /\ p.full /\ p.map = r.map /\ r.blocks[i] = 0
                       /\ p.disk = [r.disk EXCEPT ![0] = Zeros]
                       /\ a.blocks = NoBlocks
<1> DEFINE p == IndexBlock(r, i)
           a == Entered(p, i)
<1>0. /\ r \in Reservation(N) /\ 0 \in r.map /\ BlocksOf(r.disk[0]) = NoBlocks
      /\ \A j \in N : r.blocks[j] \in r.map
      /\ r.disk \in [Sector -> Block] /\ r.blocks \in [N -> Sector] /\ r.map \subseteq Sector
  BY DEF Fine, Reservation
<1>1. /\ Fine(p, N) /\ p.ok /\ \A j \in N \ {i} : p.blocks[j] = r.blocks[j]
      /\ r.map \subseteq p.map
      /\ BlocksOf(p.disk[p.blocks[i]]) = BlocksOf(r.disk[r.blocks[i]])
      /\ IF p.blocks[i] # 0
         THEN /\ p.blocks[i] = r.blocks[i] => p = r
              /\ p.blocks[i] # r.blocks[i] =>
                   /\ r.blocks[i] = 0 /\ p.blocks[i] \in p.map \ r.map
                   /\ p.disk[p.blocks[i]] = Zeros
              /\ p.map = r.map \cup {p.blocks[i]}
              /\ \A s \in Sector : s \in r.map => p.disk[s] = r.disk[s]
              /\ \A s \in Sector : s \notin p.map => p.disk[s] = r.disk[s]
              /\ p.full = r.full
         ELSE /\ Full(r) /\ p.full /\ p.map = r.map /\ r.blocks[i] = 0
              /\ p.disk = [r.disk EXCEPT ![0] = Zeros]
              /\ BlocksOf(p.disk[p.blocks[i]]) = NoBlocks
  <2>1. CASE r.blocks[i] # 0
    <3>1. p = r BY <2>1 DEF IndexBlock
    <3>2. r.map = r.map \cup {r.blocks[i]} BY <1>0
    <3> QED BY <2>1, <3>1, <3>2
  <2>2. CASE r.blocks[i] = 0 /\ ~Full(r)
    <3> DEFINE s == Lowest(r)
    <3>1. p = Take(r, i) BY <2>2 DEF IndexBlock
    <3>2. s \in Sector /\ s \notin r.map BY <1>0, <2>2, LowestFree
    <3> HIDE DEF s
    <3>3. Take(r, i) = [r EXCEPT !.map = @ \cup {s}, !.disk[s] = Zeros, !.blocks[i] = s]
      BY DEF Take, s
    <3>4. Fine(p, N) /\ p.ok BY <2>2, <3>1, TakeGrows
    <3> HIDE DEF p
    <3>5. /\ p.map = r.map \cup {s} /\ p.full = r.full /\ p.disk = [r.disk EXCEPT ![s] = Zeros]
          /\ p.blocks = [r.blocks EXCEPT ![i] = s]
      BY <1>0, <3>1, <3>3 DEF Reservation
    <3>6. p.blocks[i] = s /\ s # 0 /\ p.disk[s] = Zeros BY <1>0, <3>2, <3>5
    <3>7. BlocksOf(p.disk[s]) = BlocksOf(r.disk[r.blocks[i]]) BY <1>0, <2>2, <3>6, BlocksOfZeros
    <3> QED BY <1>0, <2>2, <3>2, <3>4, <3>5, <3>6, <3>7 DEF p
  <2>3. CASE r.blocks[i] = 0 /\ Full(r)
    <3>1. p = [r EXCEPT !.disk[0] = Zeros, !.full = TRUE] BY <2>3 DEF IndexBlock
    <3> HIDE DEF p
    <3>2. /\ p.map = r.map /\ p.disk = [r.disk EXCEPT ![0] = Zeros] /\ p.blocks = r.blocks
          /\ p.ok = r.ok /\ p.full = TRUE /\ p \in Reservation(N)
      BY <1>0, <3>1, ZeroIsSector DEF Reservation
    <3>3. p.disk[0] = Zeros BY <1>0, <3>2, ZeroIsSector
    <3>4. BlocksOf(p.disk[0]) = NoBlocks BY <3>3, BlocksOfZeros
    <3>5. Fine(p, N) BY <1>0, <3>2, <3>4 DEF Fine
    <3> QED BY <1>0, <2>3, <3>2, <3>4, <3>5 DEF p
  <2> QED BY <2>1, <2>2, <2>3
<1> HIDE DEF p
<1>2. p \in Reservation(N) /\ p.blocks[i] \in Sector BY <1>1 DEF Fine, Reservation
<1>3. BlocksOf(p.disk[p.blocks[i]]) \in [Pointer -> Sector]
  BY <1>2, BranchType DEF Reservation
<1>4. a = [p EXCEPT !.blocks = BlocksOf(p.disk[p.blocks[i]])] BY DEF Entered
<1> HIDE DEF a
<1>5. /\ a.map = p.map /\ a.disk = p.disk /\ a.ok = p.ok /\ a.full = p.full
      /\ a.blocks = BlocksOf(p.disk[p.blocks[i]])
      /\ a \in Reservation(Pointer)
  BY <1>2, <1>3, <1>4 DEF Reservation
<1>6. Fine(a, Pointer) BY <1>1, <1>5 DEF Fine
<1> QED BY <1>1, <1>5, <1>6 DEF p, a

\* inode_reserve_indirect(), level 1.
LEMMA IndirectGrows ==
    ASSUME NEW N, NEW r, Fine(r, N), r.ok, NEW i \in N, NEW n \in Pointer,
           \A l \in Pointer : BlocksOf(r.disk[r.blocks[i]])[l] \in r.map
    PROVE  LET q == ReserveIndirect(r, i, n) IN
           /\ Fine(q, N)
           /\ \A j \in N \ {i} : q.blocks[j] = r.blocks[j]
           /\ Grows(r, q, 0 .. INDIRECT_BLOCKS_PER_SECTOR, {0}, 0 .. n,
                    Branch(r.disk, r.blocks[i]), Branch(q.disk, q.blocks[i]))
<1> DEFINE p == IndexBlock(r, i)
           a == Entered(p, i)
           b == ReserveSectors(a, n)
           q == WrittenBack(p, i, b)
           e == p.blocks[i]
           X == 0 .. INDIRECT_BLOCKS_PER_SECTOR
<1>1. /\ Fine(p, N) /\ p.ok /\ \A j \in N \ {i} : p.blocks[j] = r.blocks[j]
      /\ Fine(a, Pointer)
      /\ a.map = p.map /\ a.disk = p.disk /\ a.ok = p.ok /\ a.full = p.full
      /\ a.blocks = BlocksOf(p.disk[e])
      /\ a.blocks = BlocksOf(r.disk[r.blocks[i]])
      /\ IF e # 0
         THEN /\ e = r.blocks[i] => p = r
              /\ e # r.blocks[i] =>
                   /\ r.blocks[i] = 0 /\ e \in p.map \ r.map
                   /\ p.disk[e] = Zeros
              /\ p.map = r.map \cup {e}
              /\ \A s \in Sector : s \in r.map => p.disk[s] = r.disk[s]
              /\ \A s \in Sector : s \notin p.map => p.disk[s] = r.disk[s]
              /\ p.full = r.full
         ELSE /\ Full(r) /\ p.full /\ p.map = r.map /\ r.blocks[i] = 0
              /\ p.disk = [r.disk EXCEPT ![0] = Zeros]
              /\ a.blocks = NoBlocks
  BY IndexBlockGrows
<1>2. ReserveIndirect(r, i, n) = q BY DEF ReserveIndirect
<1>3. n \in Nat \ {0} /\ 1 .. n \subseteq Pointer /\ 0 .. n \subseteq X
      /\ Pointer \subseteq X /\ 0 \in X /\ 0 \notin Pointer
      /\ 1 \in 1 .. n /\ 0 .. n = {0} \cup (1 .. n) /\ X = {0} \cup Pointer
  BY PointerNat DEF Pointer
<1> HIDE DEF p, a, X
<1>4. Fine(b, Pointer) /\ Grows(a, b, Pointer, {}, 1 .. n, a.blocks, b.blocks)
  BY <1>1, <1>3, SectorsGrow
<1> HIDE DEF b
<1>5. /\ p \in Reservation(N) /\ e \in Sector /\ e \in p.map /\ p.disk \in [Sector -> Block]
      /\ p.blocks \in [N -> Sector] /\ 0 \in p.map /\ p.map \subseteq Sector
  BY <1>1 DEF Fine, Reservation
<1>6. /\ b \in Reservation(Pointer) /\ b.disk \in [Sector -> Block]
      /\ b.blocks \in Entries /\ b.map \subseteq Sector /\ b.ok \in BOOLEAN
  BY <1>4 DEF Fine, Reservation, Entries, Pointer
<1>7. /\ r \in Reservation(N) /\ r.blocks[i] \in Sector /\ r.blocks[i] \in r.map
      /\ r.disk \in [Sector -> Block] /\ r.map \subseteq Sector /\ 0 \in r.map
      /\ BlocksOf(r.disk[0]) = NoBlocks
  BY DEF Fine, Reservation
<1>8. /\ Branch(r.disk, r.blocks[i]) \in [X -> Sector]
      /\ Branch(r.disk, r.blocks[i])[0] = r.blocks[i]
      /\ \A l \in Pointer : Branch(r.disk, r.blocks[i])[l] = a.blocks[l]
      /\ Branch(p.disk, e) \in [X -> Sector] /\ Branch(p.disk, e)[0] = e
      /\ \A l \in Pointer : Branch(p.disk, e)[l] = a.blocks[l]
  <2>1. /\ Branch(r.disk, r.blocks[i]) \in [X -> Sector]
        /\ Branch(r.disk, r.blocks[i])[0] = r.blocks[i]
        /\ \A l \in Pointer : Branch(r.disk, r.blocks[i])[l] = BlocksOf(r.disk[r.blocks[i]])[l]
    BY <1>7, BranchType DEF X
  <2>2. /\ Branch(p.disk, e) \in [X -> Sector] /\ Branch(p.disk, e)[0] = e
        /\ \A l \in Pointer : Branch(p.disk, e)[l] = BlocksOf(p.disk[e])[l]
    BY <1>5, BranchType DEF X
  <2> QED BY <1>1, <2>1, <2>2
<1>9. q = [b EXCEPT !.blocks = p.blocks, !.disk[e] = IF b.ok THEN Index(b.blocks) ELSE @]
  BY DEF WrittenBack
<1> HIDE DEF q
<1>10. /\ q.blocks = p.blocks /\ q.map = b.map /\ q.ok = b.ok /\ q.full = b.full
       /\ q.disk = [b.disk EXCEPT ![e] = IF b.ok THEN Index(b.blocks) ELSE @]
  BY <1>6, <1>9 DEF Reservation
<1>11. Index(b.blocks) \in Block BY <1>6 DEF Block
<1>12. q \in Reservation(N) /\ q.disk \in [Sector -> Block]
  <2> DEFINE c == IF b.ok THEN Index(b.blocks) ELSE b.disk[e]
  <2>1. c \in Block BY <1>5, <1>6, <1>11
  <2>2. q = [b EXCEPT !.blocks = p.blocks, !.disk[e] = c] BY <1>9
  <2>3. q.disk = [b.disk EXCEPT ![e] = c] BY <1>10
  <2> HIDE DEF c
  <2>4. q.disk \in [Sector -> Block] BY <1>6, <2>1, <2>3
  <2>5. q = [map |-> b.map, disk |-> q.disk, blocks |-> p.blocks, ok |-> b.ok, full |-> b.full]
    BY <1>6, <1>10, <2>2 DEF Reservation
  <2> QED BY <1>5, <1>6, <2>4, <2>5 DEF Reservation
<1>13. q.blocks[i] = e /\ p.map \subseteq q.map /\ r.map \subseteq q.map
  BY <1>1, <1>4, <1>10 DEF Grows
<1>14. /\ Branch(q.disk, e) \in [X -> Sector] /\ Branch(q.disk, e)[0] = e
       /\ \A l \in Pointer : Branch(q.disk, e)[l] = BlocksOf(q.disk[e])[l]
  BY <1>5, <1>12, BranchType DEF X
<1> DEFINE old == Branch(r.disk, r.blocks[i])
           mid == Branch(p.disk, e)
           new == Branch(q.disk, e)
<1>15. \A j \in N : q.blocks[j] \in q.map BY <1>1, <1>10, <1>13 DEF Fine
<1>16. CASE e = 0
  <2>1. ~b.ok
    <3>0. 1 \in 1 .. INDIRECT_BLOCKS_PER_SECTOR BY <1>3 DEF Pointer
    <3>1. a.blocks[1] = 0 BY <1>1, <1>16, <3>0, ZenonT(40) DEF NoBlocks
    <3>2. b.map \ a.map = {} BY <1>1, <1>6, <1>16 DEF Full
    <3> QED BY <1>3, <1>4, <3>1, <3>2 DEF Grows
  <2>2. q.disk = b.disk /\ b.disk = p.disk
    <3>1. b.map \ a.map = {} BY <1>1, <1>6, <1>16 DEF Full
    <3>2. \A s \in Sector : b.disk[s] = a.disk[s] \/ (s = 0 /\ b.disk[0] = Zeros)
      BY <1>4, <3>1 DEF Grows
    <3>3. a.disk[0] = Zeros BY <1>1, <1>7, <1>16, ZeroIsSector
    <3>4. \A s \in Sector : b.disk[s] = a.disk[s] BY <3>2, <3>3
    <3>5. b.disk = p.disk BY <1>1, <1>5, <1>6, <3>4
    <3> QED BY <1>5, <1>6, <1>10, <2>1, <3>5
  <2>3. new = old
    <3>1. r.blocks[i] = 0 BY <1>1, <1>16
    <3>2. BlocksOf(q.disk[e]) = a.blocks BY <1>1, <2>2
    <3>3. \A x \in X : new[x] = old[x] BY <1>3, <1>8, <1>14, <1>16, <3>1, <3>2
    <3> QED BY <1>8, <1>14, <3>3
  <2>4. q.map = r.map
    <3>1. b.map = a.map BY <1>1, <1>4, <1>6, <1>16, ZenonT(40) DEF Full, Grows
    <3> QED BY <1>1, <1>10, <1>16, <3>1
  <2>5. q.full BY <1>1, <1>4, <1>10, <1>16 DEF Grows
  <2>6. \A s \in Sector : q.disk[s] # r.disk[s] => s = 0 /\ q.disk[0] = Zeros
    BY <1>1, <1>7, <1>16, <2>2
  <2>7. \A x \in X : old[x] \in r.map BY <1>1, <1>3, <1>7, <1>8
  <2>8. Grows(r, q, X, {0}, 0 .. n, old, new)
    BY <1>10, <2>1, <2>3, <2>4, <2>5, <2>6, <2>7 DEF Grows
  <2>9. Fine(q, N) BY <1>12, <1>15, <2>8, GrowsZero DEF Fine
  <2> QED BY <1>1, <1>2, <1>10, <1>13, <2>8, <2>9 DEF X
<1>17. CASE e # 0
  <2>1. Grows(r, p, X, {0}, {0}, old, mid)
    <3>1. \A l \in Pointer : mid[l] = old[l] /\ mid[l] \in r.map BY <1>1, <1>8
    <3>2. \A x \in X : mid[x] # old[x] => x = 0 /\ old[0] = 0 /\ mid[0] \in p.map \ r.map
      BY <1>1, <1>3, <1>8, <1>17, <3>1
    <3>3. \A x \in X : mid[x] \notin r.map => x = 0 BY <1>3, <3>1
    <3>4. \A s \in Sector : p.disk[s] # r.disk[s] => s \in p.map \ r.map BY <1>1, <1>17
    <3>5. mid[0] # 0 /\ \A s \in p.map \ r.map : mid[0] = s BY <1>1, <1>8, <1>17
    <3> QED BY <1>1, <1>17, <3>2, <3>3, <3>4, <3>5 DEF Grows
  <2>2. Grows(p, q, X, {0}, 1 .. n, mid, new)
    <3>1. CASE b.ok
      <4>1. BlocksOf(q.disk[e]) = b.blocks BY <1>5, <1>6, <1>10, <3>1, BlocksOfIndex
      <4>2. new[0] = mid[0] /\ \A l \in Pointer : new[l] = b.blocks[l] /\ mid[l] = a.blocks[l]
        BY <1>8, <1>14, <4>1
      <4>3. ASSUME NEW x \in X, new[x] # mid[x]
            PROVE  /\ mid[x] = 0 /\ x \in 1 .. n /\ new[x] \in q.map \ p.map
                   /\ q.disk[new[x]] = Zeros
        <5>1. x \in Pointer /\ b.blocks[x] # a.blocks[x] BY <1>3, <4>2, <4>3
        <5>2. /\ mid[x] = 0 /\ x \in 1 .. n /\ new[x] \in b.map \ p.map
              /\ b.disk[new[x]] = Zeros
          BY <1>1, <1>4, <4>2, <5>1 DEF Grows
        <5> QED BY <1>5, <1>6, <1>10, <5>2
      <4>4. ASSUME NEW x \in X, NEW y \in X, new[x] = new[y], new[x] \notin p.map PROVE x = y
        <5>1. x \in Pointer /\ y \in Pointer BY <1>3, <1>5, <1>14, <4>4
        <5> QED BY <1>1, <1>4, <4>2, <4>4, <5>1 DEF Grows
      <4>5. ASSUME NEW s \in Sector, q.disk[s] # p.disk[s]
            PROVE  \/ s \in q.map \ p.map
                   \/ s = 0 /\ q.disk[0] = Zeros /\ q.full
                   \/ s = new[0] /\ s # 0
        BY <1>1, <1>4, <1>5, <1>6, <1>10, <1>14, <1>17, <4>5 DEF Grows
      <4>6. /\ \A y \in 1 .. n : new[y] # 0
            /\ \A s \in q.map \ p.map : \E y \in 1 .. n : new[y] = s
        BY <1>1, <1>3, <1>4, <1>10, <3>1, <4>2 DEF Grows
      <4>7. q.full # p.full => q.full /\ ~q.ok BY <1>1, <1>4, <1>10 DEF Grows
      <4> QED BY <1>1, <1>13, <4>3, <4>4, <4>5, <4>6, <4>7 DEF Grows
    <3>2. CASE ~b.ok
      <4>1. q.disk = b.disk BY <1>5, <1>6, <1>10, <3>2
      <4>2. b.disk[e] = p.disk[e] BY <1>1, <1>4, <1>5, <1>17 DEF Grows
      <4>3. new = mid
        <5>0. BlocksOf(q.disk[e]) = a.blocks BY <1>1, <4>1, <4>2
        <5>1. \A x \in X : new[x] = mid[x] BY <1>3, <1>8, <1>14, <5>0
        <5> QED BY <1>8, <1>14, <5>1
      <4>4. \A x \in X : mid[x] \in p.map BY <1>1, <1>3, <1>5, <1>8 DEF Fine
      <4>5. ASSUME NEW s \in Sector, q.disk[s] # p.disk[s]
            PROVE  \/ s \in q.map \ p.map
                   \/ s = 0 /\ q.disk[0] = Zeros /\ q.full
        BY <1>1, <1>4, <1>10, <4>1, <4>5 DEF Grows
      <4>6. q.full # p.full => q.full /\ ~q.ok BY <1>1, <1>4, <1>10 DEF Grows
      <4> QED BY <1>10, <1>13, <3>2, <4>3, <4>4, <4>5, <4>6 DEF Grows
    <3> QED BY <3>1, <3>2
  <2>3. Grows(r, q, X, {0}, {0} \cup (1 .. n), old, new)
    <3>1. {0} \in SUBSET X /\ 1 .. n \in SUBSET X BY <1>3
    <3> HIDE DEF old, mid, new
    <3> QED BY <1>1, <1>5, <1>7, <2>1, <2>2, <3>1, GrowsOn
  <2>4. Fine(q, N) BY <1>12, <1>15, <2>3, GrowsZero DEF Fine
  <2> QED BY <1>1, <1>2, <1>3, <1>10, <1>13, <2>3, <2>4 DEF X
<1> QED BY <1>16, <1>17

-----------------------------------------------------------------------------
(* The walk over a doubly indirect block.                                  *)

\* The sectors at the places X are taken, and no two are the same.
Sound(m, X, t) ==
    /\ \A x \in X : t[x] \in m
    /\ \A x, y \in X : t[x] = t[y] /\ t[x] # 0 => x = y

\* A reservation keeps the places apart.
LEMMA SoundGrows ==
    ASSUME NEW r, NEW q, NEW X, NEW I, NEW Y, NEW old, NEW new,
           Sound(r.map, X, old), Grows(r, q, X, I, Y, old, new)
    PROVE  Sound(q.map, X, new)
<1>1. \A x \in X : new[x] \in q.map BY DEF Sound, Grows
<1>2. ASSUME NEW x \in X, NEW y \in X, new[x] = new[y], new[x] # 0 PROVE x = y
  <2>1. CASE new[x] \in r.map
    <3>1. new[x] = old[x] /\ new[y] = old[y] BY <1>2, <2>1 DEF Grows
    <3> QED BY <1>2, <3>1 DEF Sound
  <2>2. CASE new[x] \notin r.map BY <1>2, <2>2 DEF Grows
  <2> QED BY <2>1, <2>2
<1> QED BY <1>1, <1>2 DEF Sound

Twig == Pointer \X (0 .. INDIRECT_BLOCKS_PER_SECTOR)
TwigRoots == {<<j, 0>> : j \in Pointer}
\* The blocks of pointers that the block of pointers b names, and what those name.
Twigs(dsk, b) == [x \in Twig |-> Branch(dsk, b[x[1]])[x[2]]]
NeedTwigs(n, k) == {x \in Twig : x[1] \in 1 .. k /\ x[2] \in 0 .. Below(n, x[1])}

\* What the twigs of a block are.
LEMMA TwigType ==
    ASSUME NEW r, Fine(r, Pointer)
    PROVE  /\ Twigs(r.disk, r.blocks) \in [Twig -> Sector]
           /\ \A j \in Pointer : /\ <<j, 0>> \in TwigRoots /\ <<j, 0>> \in Twig
                                 /\ Twigs(r.disk, r.blocks)[<<j, 0>>] = r.blocks[j]
           /\ \A j \in Pointer : \A l \in 0 .. INDIRECT_BLOCKS_PER_SECTOR :
                /\ <<j, l>> \in Twig /\ (<<j, l>> \in TwigRoots <=> l = 0)
                /\ Twigs(r.disk, r.blocks)[<<j, l>>] = Branch(r.disk, r.blocks[j])[l]
<1>1. r.disk \in [Sector -> Block] /\ r.blocks \in [Pointer -> Sector]
  BY DEF Fine, Reservation
<1>2. \A j \in Pointer : /\ Branch(r.disk, r.blocks[j]) \in [0 .. INDIRECT_BLOCKS_PER_SECTOR -> Sector]
                         /\ Branch(r.disk, r.blocks[j])[0] = r.blocks[j]
  BY <1>1, BranchType
<1>3. 0 \in 0 .. INDIRECT_BLOCKS_PER_SECTOR BY PointerNat
<1> QED BY <1>1, <1>2, <1>3, ZenonT(40) DEF Twigs, Twig, TwigRoots

\* What one block of pointers grows by.
LEMMA TwigGrows ==
    ASSUME NEW r, Fine(r, Pointer), r.ok, NEW j \in Pointer, NEW m \in Pointer,
           Sound(r.map, Twig, Twigs(r.disk, r.blocks))
    PROVE  LET q == ReserveIndirect(r, j, m) IN
           /\ Fine(q, Pointer)
           /\ Grows(r, q, Twig, TwigRoots, {<<j, l>> : l \in 0 .. m},
                    Twigs(r.disk, r.blocks), Twigs(q.disk, q.blocks))
<1> DEFINE q == ReserveIndirect(r, j, m)
           X == 0 .. INDIRECT_BLOCKS_PER_SECTOR
           old1 == Branch(r.disk, r.blocks[j])
           new1 == Branch(q.disk, q.blocks[j])
           old == Twigs(r.disk, r.blocks)
           new == Twigs(q.disk, q.blocks)
           g == [l \in X |-> <<j, l>>]
<1>1. 0 \in X /\ 0 .. m \subseteq X /\ \A l \in Pointer : l \in X /\ l # 0
  BY PointerNat DEF Pointer
<1>2. \A k \in Pointer : \A l \in X :
        /\ <<k, l>> \in Twig /\ (<<k, l>> \in TwigRoots <=> l = 0)
        /\ old[<<k, l>>] = Branch(r.disk, r.blocks[k])[l]
  BY TwigType
<1>3. /\ r.disk \in [Sector -> Block] /\ r.blocks \in [Pointer -> Sector] /\ r.map \subseteq Sector
      /\ 0 \in r.map /\ BlocksOf(r.disk[0]) = NoBlocks /\ \A k \in Pointer : r.blocks[k] \in r.map
  BY DEF Fine, Reservation
<1>4. \A l \in Pointer : BlocksOf(r.disk[r.blocks[j]])[l] \in r.map
  <2> SUFFICES ASSUME NEW l \in Pointer PROVE BlocksOf(r.disk[r.blocks[j]])[l] \in r.map
    OBVIOUS
  <2>1. BlocksOf(r.disk[r.blocks[j]])[l] = Branch(r.disk, r.blocks[j])[l] BY <1>3, BranchType
  <2>2. <<j, l>> \in Twig /\ old[<<j, l>>] = BlocksOf(r.disk[r.blocks[j]])[l] BY <1>1, <1>2, <2>1
  <2> HIDE DEF old
  <2>3. old[<<j, l>>] \in r.map BY <2>2 DEF Sound, old
  <2> QED BY <2>2, <2>3
<1>5. /\ Fine(q, Pointer)
      /\ \A k \in Pointer \ {j} : q.blocks[k] = r.blocks[k]
      /\ Grows(r, q, X, {0}, 0 .. m, old1, new1)
  BY <1>4, IndirectGrows
<1> HIDE DEF q
<1>6. \A k \in Pointer : \A l \in X :
        /\ <<k, l>> \in Twig /\ new[<<k, l>>] = Branch(q.disk, q.blocks[k])[l]
  <2>1. Fine(q, Pointer) BY <1>5
  <2> SUFFICES ASSUME NEW k \in Pointer, NEW l \in X
               PROVE  <<k, l>> \in Twig /\ new[<<k, l>>] = Branch(q.disk, q.blocks[k])[l]
    OBVIOUS
  <2> HIDE DEF old, old1, new1, g
  <2> QED BY <2>1, TwigType
<1>7. /\ q.disk \in [Sector -> Block] /\ q.blocks \in [Pointer -> Sector] /\ q.map \subseteq Sector
      /\ 0 \in q.map /\ BlocksOf(q.disk[0]) = NoBlocks
  BY <1>5 DEF Fine, Reservation
<1>8. ASSUME NEW k \in Pointer, k # j, NEW l \in X
      PROVE  new[<<k, l>>] = old[<<k, l>>] /\ old[<<k, l>>] \in r.map
  <2> DEFINE f == r.blocks[k]
  <2>1. f \in r.map /\ f \in Sector /\ q.blocks[k] = f BY <1>3, <1>5, <1>8
  <2>2. BlocksOf(q.disk[f]) = BlocksOf(r.disk[f])
    <3>1. CASE f = 0 BY <1>3, <1>7, <3>1
    <3>2. CASE f # 0
      <4>1. new1[0] = q.blocks[j] /\ old1[0] = r.blocks[j] BY <1>3, <1>7, BranchType, ZenonT(40)
      <4>2. f # r.blocks[j]
        <5>1. old[<<k, 0>>] = f /\ old[<<j, 0>>] = r.blocks[j] BY TwigType
        <5>2. <<k, 0>> # <<j, 0>> BY <1>8
        <5> QED BY <1>1, <1>2, <3>2, <5>1, <5>2 DEF Sound
      <4>3. f # new1[0] BY <1>1, <1>5, <2>1, <4>1, <4>2 DEF Grows
      <4>4. q.disk[f] = r.disk[f] BY <1>5, <2>1, <3>2, <4>3 DEF Grows
      <4> QED BY <4>4
    <3> QED BY <3>1, <3>2
  <2>3. Branch(q.disk, f)[l] = Branch(r.disk, f)[l] BY <1>8, <2>2 DEF Branch
  <2> QED BY <1>2, <1>6, <1>8, <2>1, <2>3 DEF Sound
<1>9. g \in [X -> Twig] BY <1>2
<1>10. /\ \A x, y \in X : g[x] = g[y] => x = y
       /\ \A x \in X : /\ old[g[x]] = old1[x] /\ new[g[x]] = new1[x]
                       /\ (g[x] \in TwigRoots <=> x \in {0})
  BY <1>2, <1>6
<1>11. ASSUME NEW x \in Twig, \A y \in X : g[y] # x
       PROVE  new[x] = old[x] /\ old[x] \in r.map
  <2>1. PICK k \in Pointer, l \in X : x = <<k, l>> BY DEF Twig
  <2>2. k # j BY <1>11, <2>1
  <2> QED BY <1>8, <2>1, <2>2
<1>12. Grows(r, q, Twig, TwigRoots, {<<j, l>> : l \in 0 .. m}, old, new)
  <2> HIDE DEF g, old, new, old1, new1, X
  <2>1. {0} \in SUBSET X /\ 0 .. m \in SUBSET X BY <1>1
  <2>2. \A x \in Twig : (\A y \in X : g[y] # x) => new[x] = old[x] /\ old[x] \in r.map
    BY <1>11
  <2>3. Grows(r, q, X, {0}, 0 .. m, old1, new1) BY <1>5
  <2>4. \A x \in X : /\ old[g[x]] = old1[x] /\ new[g[x]] = new1[x]
                    /\ (g[x] \in TwigRoots <=> x \in {0})
    BY <1>10
  <2>5. \A x, y \in X : g[x] = g[y] => x = y BY <1>10
  <2>6. Among(r.map, X, {0}, old1, new1, Twig, TwigRoots, old, new, g)
    BY ONLY <1>9, <2>2, <2>4, <2>5 DEF Among
  <2>7. (\A y \in 0 .. m : g[y] \in {<<j, l>> : l \in 0 .. m})
        /\ \A z \in {<<j, l>> : l \in 0 .. m} : \E y \in 0 .. m : g[y] = z
    BY <2>1 DEF g
  <2>8. Placed(r.map, X, {0}, 0 .. m, old1, new1, Twig, TwigRoots, {<<j, l>> : l \in 0 .. m}, old, new, g)
    BY <2>1, <2>6, <2>7 DEF Placed
  <2> QED BY <2>3, <2>8, GrowsPlaced
<1> QED BY <1>5, <1>12 DEF q

-----------------------------------------------------------------------------
(* Arithmetic.                                                             *)

\* The lesser of two numbers.
LEMMA LeastOf == \A a, b \in Int : /\ Least(a, b) \in {a, b} /\ Least(a, b) <= a /\ Least(a, b) <= b
BY DEF Least

\* Multiplication is monotone.
LEMMA TimesMonotone ==
    ASSUME NEW a \in Int, NEW b \in Int, a <= b, NEW c \in Nat
    PROVE  a * c \in Int /\ b * c \in Int /\ a * c <= b * c
OBVIOUS

\* Rounding up.
LEMMA DivUpOf ==
    ASSUME NEW n \in Nat \ {0}, NEW d \in Nat \ {0}
    PROVE  /\ DivUp(n, d) \in Nat \ {0}
           /\ (DivUp(n, d) - 1) * d < n /\ n <= DivUp(n, d) * d
<1> DEFINE k == (n + d - 1) \div d
<1>1. k \in Int /\ k * d <= n + d - 1 /\ n + d - 1 < (k + 1) * d
  OBVIOUS
<1> HIDE DEF k
<1>2. (k + 1) * d = k * d + d /\ (k - 1) * d = k * d - d /\ k * d \in Int BY <1>1
<1>3. (k - 1) * d < n /\ n <= k * d BY <1>1, <1>2
<1>4. k > 0
  <2> SUFFICES ASSUME k <= 0 PROVE FALSE BY <1>1
  <2>1. k * d <= 0 * d BY <1>1, TimesMonotone
  <2> QED BY <1>1, <1>3, <2>1
<1> QED BY <1>1, <1>3, <1>4 DEF k, DivUp

\* The blocks of pointers n sectors need below a doubly indirect block, and how
\* many of the sectors each has.
LEMMA BelowOf ==
    ASSUME NEW n \in 1 .. INDIRECT_BLOCKS_PER_SECTOR * INDIRECT_BLOCKS_PER_SECTOR
    PROVE  /\ DivUp(n, INDIRECT_BLOCKS_PER_SECTOR) \in Pointer
           /\ \A j \in 1 .. DivUp(n, INDIRECT_BLOCKS_PER_SECTOR) : Below(n, j) \in Pointer
<1> DEFINE d == INDIRECT_BLOCKS_PER_SECTOR
           last == DivUp(n, d)
<1>1. d \in Nat \ {0} BY PointerNat
<1> HIDE DEF d
<1>2. d * d \in Nat BY <1>1
<1>3. n \in Nat \ {0} /\ n <= d * d BY <1>2 DEF d
<1>4. last \in Nat \ {0} /\ (last - 1) * d < n BY <1>1, <1>3, DivUpOf
<1> HIDE DEF last
<1>5. last <= d
  <2> SUFFICES ASSUME d <= last - 1 PROVE FALSE BY <1>1, <1>4
  <2>1. d * d <= (last - 1) * d BY <1>1, <1>4, TimesMonotone
  <2>2. (last - 1) * d \in Int BY <1>1, <1>4
  <2> QED BY <1>2, <1>3, <1>4, <2>1, <2>2
<1>6. ASSUME NEW j \in 1 .. last PROVE Below(n, j) \in 1 .. d
  <2>1. (j - 1) * d \in Int /\ (last - 1) * d \in Int /\ (j - 1) * d <= (last - 1) * d
    BY <1>1, <1>4, TimesMonotone
  <2>2. n - (j - 1) * d \in Int /\ n - (j - 1) * d > 0 BY <1>3, <1>4, <2>1
  <2>3. Least(d, n - (j - 1) * d) \in {d, n - (j - 1) * d} /\ Least(d, n - (j - 1) * d) <= d
    BY <1>1, <2>2, LeastOf
  <2> QED BY <1>1, <2>2, <2>3 DEF Below, d
<1> QED BY <1>1, <1>4, <1>5, <1>6 DEF d, last, Pointer

-----------------------------------------------------------------------------
(* The walk of ReserveIndirects.                                           *)

IndirectWalk(w, r, n, m) ==
    w = [j \in 0 .. m |->
            IF j = 0 THEN r
            ELSE LET q == w[j - 1] IN IF q.ok THEN ReserveIndirect(q, j, Below(n, j)) ELSE q]

\* The walk of level 2 is there.
LEMMA IndirectWalkExists ==
    ASSUME NEW r, NEW n, NEW last \in Nat
    PROVE  \E w : IndirectWalk(w, r, n, last)
<1> DEFINE S == {m \in Nat : \E w : IndirectWalk(w, r, n, m)}
<1>1. 0 \in S
  <2> DEFINE w == [j \in 0 .. 0 |-> r]
  <2>1. IndirectWalk(w, r, n, 0) BY DEF IndirectWalk
  <2> QED BY <2>1
<1>2. ASSUME NEW m \in 0 .. last - 1, m \in S PROVE m + 1 \in S
  <2>1. PICK w : IndirectWalk(w, r, n, m) BY <1>2
  <2> DEFINE end == IF w[m].ok THEN ReserveIndirect(w[m], m + 1, Below(n, m + 1)) ELSE w[m]
             v == [j \in 0 .. m + 1 |-> IF j = m + 1 THEN end ELSE w[j]]
  <2> HIDE DEF end
  <2>2. \A j \in 0 .. m : w[j] = IF j = 0 THEN r
            ELSE IF w[j - 1].ok THEN ReserveIndirect(w[j - 1], j, Below(n, j)) ELSE w[j - 1]
    BY <2>1 DEF IndirectWalk
  <2>3. \A j \in 0 .. m + 1 : v[j] = IF j = 0 THEN r
            ELSE IF v[j - 1].ok THEN ReserveIndirect(v[j - 1], j, Below(n, j)) ELSE v[j - 1]
    BY <2>2 DEF end
  <2>4. IndirectWalk(v, r, n, m + 1) BY <2>3 DEF IndirectWalk
  <2> QED BY <2>4
<1> HIDE DEF S
<1>3. last \in S BY <1>1, <1>2, SetInduction
<1> QED BY <1>3 DEF S

\* What ReserveIndirects() returns is the end of its walk.
LEMMA ReserveIndirectsWalk ==
    ASSUME NEW r, NEW n, DivUp(n, INDIRECT_BLOCKS_PER_SECTOR) \in Nat
    PROVE  LET last == DivUp(n, INDIRECT_BLOCKS_PER_SECTOR) IN
           \E w : IndirectWalk(w, r, n, last) /\ ReserveIndirects(r, n) = w[last]
<1> DEFINE last == DivUp(n, INDIRECT_BLOCKS_PER_SECTOR)
           Is(w) == w = [j \in 0 .. last |->
                            IF j = 0 THEN r
                            ELSE LET q == w[j - 1]
                                 IN  IF q.ok THEN ReserveIndirect(q, j, Below(n, j)) ELSE q]
           v == CHOOSE w : Is(w)
<1>1. ReserveIndirects(r, n) = v[last] BY DEF ReserveIndirects
<1>2. \E w : IndirectWalk(w, r, n, last) BY IndirectWalkExists
<1>3. \A w : IndirectWalk(w, r, n, last) <=> Is(w) BY DEF IndirectWalk
<1> HIDE DEF Is
<1>4. Is(v) BY <1>2, <1>3
<1> QED BY <1>1, <1>3, <1>4

\* A walk over the entries of a doubly indirect block.
LEMMA TwigsGrow ==
    ASSUME NEW r, Fine(r, Pointer), r.ok, Sound(r.map, Twig, Twigs(r.disk, r.blocks)),
           NEW n \in 1 .. INDIRECT_BLOCKS_PER_SECTOR * INDIRECT_BLOCKS_PER_SECTOR
    PROVE  LET q == ReserveIndirects(r, n) IN
           /\ Fine(q, Pointer)
           /\ Grows(r, q, Twig, TwigRoots, NeedTwigs(n, DivUp(n, INDIRECT_BLOCKS_PER_SECTOR)),
                    Twigs(r.disk, r.blocks), Twigs(q.disk, q.blocks))
<1> DEFINE last == DivUp(n, INDIRECT_BLOCKS_PER_SECTOR)
           T(q) == Twigs(q.disk, q.blocks)
<1>1. last \in Pointer /\ (\A j \in 1 .. last : Below(n, j) \in Pointer) BY BelowOf
<1>2. last \in Nat /\ 1 .. last \subseteq Pointer BY <1>1, PointerNat DEF Pointer
<1> HIDE DEF last
<1>3. PICK w : IndirectWalk(w, r, n, last) /\ ReserveIndirects(r, n) = w[last]
  BY <1>2, ReserveIndirectsWalk DEF last
<1> DEFINE Good(j) == /\ Fine(w[j], Pointer)
                      /\ Grows(r, w[j], Twig, TwigRoots, NeedTwigs(n, j), T(r), T(w[j]))
           S == {j \in 0 .. last : Good(j)}
<1>4. 0 \in S
  <2>1. w[0] = r BY <1>2, <1>3 DEF IndirectWalk
  <2>2. Grows(r, r, Twig, TwigRoots, {}, T(r), T(r)) BY GrowsNot DEF Sound
  <2>3. NeedTwigs(n, 0) = {} BY DEF NeedTwigs
  <2>4. Grows(r, r, Twig, TwigRoots, NeedTwigs(n, 0), T(r), T(r)) BY <2>2, <2>3
  <2> HIDE DEF T
  <2>5. Good(0) BY <2>1, <2>4
  <2> QED BY <1>2, <2>5
<1>5. ASSUME NEW k \in 0 .. last - 1, k \in S PROVE k + 1 \in S
  <2> DEFINE p == w[k]
             q == w[k + 1]
             more == {<<k + 1, l>> : l \in 0 .. Below(n, k + 1)}
  <2>1. q = IF p.ok THEN ReserveIndirect(p, k + 1, Below(n, k + 1)) ELSE p
    BY <1>2, <1>3 DEF IndirectWalk
  <2>2. k + 1 \in 1 .. last /\ k + 1 \in 0 .. last /\ k + 1 \in Pointer /\ Below(n, k + 1) \in Pointer
    BY <1>1, <1>2
  <2>3. NeedTwigs(n, k + 1) = NeedTwigs(n, k) \cup more
    <3>1. 0 .. Below(n, k + 1) \subseteq 0 .. INDIRECT_BLOCKS_PER_SECTOR BY <2>2, PointerNat DEF Pointer
    <3>2. ASSUME NEW x \in Twig PROVE x[1] \in Nat /\ x = <<x[1], x[2]>>
      <4>1. PICK j \in Pointer, l \in 0 .. INDIRECT_BLOCKS_PER_SECTOR : x = <<j, l>> BY DEF Twig
      <4> QED BY <4>1, PointerNat
    <3>3. \A x \in Twig : x[1] \in 1 .. k + 1 <=> x[1] \in 1 .. k \/ x[1] = k + 1 BY <3>2
    <3>4. more \subseteq Twig BY <2>2, <3>1 DEF Twig
    <3>5. \A x \in Twig : x \in more <=> x[1] = k + 1 /\ x[2] \in 0 .. Below(n, k + 1) BY <3>2
    <3> HIDE DEF more
    <3> QED BY <3>3, <3>4, <3>5 DEF NeedTwigs
  <2>4. Fine(p, Pointer) /\ Grows(r, p, Twig, TwigRoots, NeedTwigs(n, k), T(r), T(p)) BY <1>5
  <2> HIDE DEF p, q
  <2>5. TwigRoots \in SUBSET Twig /\ NeedTwigs(n, k) \in SUBSET Twig /\ more \in SUBSET Twig
    <3>1. 0 \in 0 .. INDIRECT_BLOCKS_PER_SECTOR BY PointerNat
    <3>2. 0 .. Below(n, k + 1) \subseteq 0 .. INDIRECT_BLOCKS_PER_SECTOR BY <2>2, PointerNat DEF Pointer
    <3> QED BY <2>2, <3>1, <3>2 DEF TwigRoots, NeedTwigs, Twig
  <2>6. CASE p.ok
    <3>1. Sound(p.map, Twig, T(p)) BY <2>4, SoundGrows
    <3>2. Fine(q, Pointer) /\ Grows(p, q, Twig, TwigRoots, more, T(p), T(q))
      BY <2>1, <2>2, <2>4, <2>6, <3>1, TwigGrows
    <3>3. 0 \in r.map /\ p.map \subseteq Sector BY <2>4 DEF Fine, Reservation
    <3> HIDE DEF more, T
    <3>4. Grows(r, q, Twig, TwigRoots, NeedTwigs(n, k) \cup more, T(r), T(q))
      BY <2>4, <2>5, <2>6, <3>2, <3>3, GrowsOn
    <3> QED BY <2>2, <2>3, <3>2, <3>4 DEF q, T
  <2>7. CASE ~p.ok
    <3>1. q = p BY <2>1, <2>7
    <3>2. NeedTwigs(n, k) \subseteq NeedTwigs(n, k + 1) BY <2>3
    <3>3. Grows(r, p, Twig, TwigRoots, NeedTwigs(n, k + 1), T(r), T(p))
      BY <2>4, <2>7, <3>2, GrowsWider
    <3> QED BY <2>2, <2>4, <3>1, <3>3 DEF q
  <2> QED BY <2>6, <2>7
<1> HIDE DEF S
<1>6. last \in S BY <1>2, <1>4, <1>5, SetInduction
<1> QED BY <1>3, <1>6 DEF S, last

-----------------------------------------------------------------------------
(* The doubly indirect block.                                              *)

Bough == {<<0, 0>>} \cup Twig
BoughRoots == {<<0, 0>>} \cup TwigRoots
\* A doubly indirect block and the sectors below it.
Boughs(dsk, e) ==
    [x \in Bough |-> IF x = <<0, 0>> THEN e ELSE Twigs(dsk, BlocksOf(dsk[e]))[x]]

\* The places below a doubly indirect block.
LEMMA BoughPlaces ==
    /\ <<0, 0>> \in Bough /\ <<0, 0>> \notin Twig /\ Twig \subseteq Bough
    /\ TwigRoots \subseteq Twig /\ <<0, 0>> \in BoughRoots
    /\ \A x \in Twig : x \in BoughRoots <=> x \in TwigRoots
    /\ \A x \in Twig : \E j \in Pointer, l \in 0 .. INDIRECT_BLOCKS_PER_SECTOR : x = <<j, l>>
<1>1. 0 \in 0 .. INDIRECT_BLOCKS_PER_SECTOR BY PointerNat
<1>2. \A j \in Pointer, l \in 0 .. INDIRECT_BLOCKS_PER_SECTOR : <<j, l>> # <<0, 0>>
  BY PointerNat
<1>3. \A x \in Twig : \E j \in Pointer, l \in 0 .. INDIRECT_BLOCKS_PER_SECTOR : x = <<j, l>>
  BY DEF Twig
<1>4. <<0, 0>> \notin Twig BY <1>2, <1>3
<1>5. TwigRoots \subseteq Twig BY <1>1 DEF TwigRoots, Twig
<1> QED BY <1>3, <1>4, <1>5 DEF Bough, BoughRoots

\* Below the same pointers, what does not change on the disk reads the same.
LEMMA TwigsSame ==
    ASSUME NEW dsk, NEW old, NEW b \in [Pointer -> Sector],
           \A j \in Pointer : BlocksOf(dsk[b[j]]) = BlocksOf(old[b[j]])
    PROVE  Twigs(dsk, b) = Twigs(old, b)
<1>1. \A j \in Pointer : Branch(dsk, b[j]) = Branch(old, b[j]) BY DEF Branch
<1>2. \A x \in Twig : x[1] \in Pointer BY DEF Twig
<1>3. \A x \in Twig : Branch(dsk, b[x[1]])[x[2]] = Branch(old, b[x[1]])[x[2]] BY <1>1, <1>2
<1> QED BY <1>3 DEF Twigs

\* inode_reserve_indirect(), level 2.
LEMMA DoublyGrows ==
    ASSUME NEW N, NEW r, Fine(r, N), r.ok, NEW i \in N,
           NEW n \in 1 .. INDIRECT_BLOCKS_PER_SECTOR * INDIRECT_BLOCKS_PER_SECTOR,
           Sound(r.map, Bough, Boughs(r.disk, r.blocks[i]))
    PROVE  LET q == ReserveDoubly(r, i, n) IN
           /\ Fine(q, N)
           /\ \A j \in N \ {i} : q.blocks[j] = r.blocks[j]
           /\ Grows(r, q, Bough, BoughRoots,
                    {<<0, 0>>} \cup NeedTwigs(n, DivUp(n, INDIRECT_BLOCKS_PER_SECTOR)),
                    Boughs(r.disk, r.blocks[i]), Boughs(q.disk, q.blocks[i]))
<1> DEFINE p == IndexBlock(r, i)
           a == Entered(p, i)
           b == ReserveIndirects(a, n)
           q == WrittenBack(p, i, b)
           e == p.blocks[i]
           Y == NeedTwigs(n, DivUp(n, INDIRECT_BLOCKS_PER_SECTOR))
           f == r.blocks[i]
           ta == Twigs(a.disk, a.blocks)
           tb == Twigs(b.disk, b.blocks)
           old == Boughs(r.disk, f)
           mid == Boughs(p.disk, e)
           new == Boughs(q.disk, e)
<1>1. /\ r \in Reservation(N) /\ f \in Sector /\ f \in r.map
      /\ r.disk \in [Sector -> Block] /\ r.map \subseteq Sector /\ 0 \in r.map
      /\ BlocksOf(r.disk[0]) = NoBlocks
      /\ BlocksOf(r.disk[f]) \in [Pointer -> Sector]
  BY BranchType DEF Fine, Reservation
<1>2. /\ old[<<0, 0>>] = f
      /\ \A x \in Twig : old[x] = Twigs(r.disk, BlocksOf(r.disk[f]))[x]
  BY BoughPlaces DEF Boughs
<1>3. \A j \in Pointer : /\ <<j, 0>> \in Twig /\ <<j, 0>> \in TwigRoots
                         /\ old[<<j, 0>>] = BlocksOf(r.disk[f])[j]
  <2> SUFFICES ASSUME NEW j \in Pointer
               PROVE  /\ <<j, 0>> \in Twig /\ <<j, 0>> \in TwigRoots
                      /\ old[<<j, 0>>] = BlocksOf(r.disk[f])[j]
    OBVIOUS
  <2>1. 0 \in 0 .. INDIRECT_BLOCKS_PER_SECTOR BY PointerNat
  <2>2. <<j, 0>> \in Twig /\ <<j, 0>> \in TwigRoots BY <2>1 DEF Twig, TwigRoots
  <2>3. Twigs(r.disk, BlocksOf(r.disk[f]))[<<j, 0>>] = Branch(r.disk, BlocksOf(r.disk[f])[j])[0]
    BY <2>2 DEF Twigs
  <2>4. Branch(r.disk, BlocksOf(r.disk[f])[j])[0] = BlocksOf(r.disk[f])[j]
    BY <2>1 DEF Branch
  <2> QED BY <1>2, <2>2, <2>3, <2>4
<1>4. \A l \in Pointer : BlocksOf(r.disk[f])[l] \in r.map
  BY <1>3, BoughPlaces DEF Sound
<1>5. /\ Fine(p, N) /\ p.ok /\ \A j \in N \ {i} : p.blocks[j] = r.blocks[j]
      /\ Fine(a, Pointer)
      /\ a.map = p.map /\ a.disk = p.disk /\ a.ok = p.ok /\ a.full = p.full
      /\ a.blocks = BlocksOf(p.disk[e])
      /\ a.blocks = BlocksOf(r.disk[f])
      /\ IF e # 0
         THEN /\ e = f => p = r
              /\ e # f => f = 0 /\ e \in p.map \ r.map /\ p.disk[e] = Zeros
              /\ p.map = r.map \cup {e}
              /\ \A s \in Sector : s \in r.map => p.disk[s] = r.disk[s]
              /\ \A s \in Sector : s \notin p.map => p.disk[s] = r.disk[s]
              /\ p.full = r.full
         ELSE /\ Full(r) /\ p.full /\ p.map = r.map /\ f = 0
              /\ p.disk = [r.disk EXCEPT ![0] = Zeros]
              /\ a.blocks = NoBlocks
  BY <1>4, IndexBlockGrows
<1>6. ReserveDoubly(r, i, n) = q BY DEF ReserveDoubly
<1> HIDE DEF p, a
<1>7. /\ p \in Reservation(N) /\ e \in Sector /\ e \in p.map /\ p.disk \in [Sector -> Block]
      /\ p.blocks \in [N -> Sector] /\ 0 \in p.map /\ p.map \subseteq Sector /\ r.map \subseteq p.map
      /\ BlocksOf(p.disk[0]) = NoBlocks
  BY <1>5 DEF Fine, Reservation
<1>8. /\ a.blocks \in [Pointer -> Sector] /\ a.disk \in [Sector -> Block]
  BY <1>5 DEF Fine, Reservation
\* Entering the block changes nothing below it.
<1>9. ta = Twigs(r.disk, a.blocks) /\ ta = Twigs(p.disk, BlocksOf(p.disk[e]))
  <2>1. ASSUME NEW j \in Pointer
        PROVE  BlocksOf(p.disk[a.blocks[j]]) = BlocksOf(r.disk[a.blocks[j]])
    <3>1. a.blocks[j] \in r.map /\ a.blocks[j] \in Sector BY <1>4, <1>5, <1>8
    <3>2. CASE a.blocks[j] = 0 BY <1>1, <1>7, <3>2
    <3>3. CASE a.blocks[j] # 0
      <4>1. p.disk[a.blocks[j]] = r.disk[a.blocks[j]] BY <1>1, <1>5, <3>1, <3>3
      <4> QED BY <4>1
    <3> QED BY <3>2, <3>3
  <2>2. Twigs(p.disk, a.blocks) = Twigs(r.disk, a.blocks) BY <1>8, <2>1, TwigsSame
  <2> QED BY <1>5, <2>2
<1>10. /\ mid[<<0, 0>>] = e /\ \A x \in Twig : mid[x] = ta[x] /\ old[x] = ta[x]
  BY <1>2, <1>5, <1>9, BoughPlaces DEF Boughs
<1>11. Sound(a.map, Twig, ta)
  <2>1. \A x \in Twig : ta[x] \in a.map BY <1>5, <1>7, <1>10, BoughPlaces DEF Sound
  <2>2. \A x, y \in Twig : ta[x] = ta[y] /\ ta[x] # 0 => x = y
    BY <1>10, BoughPlaces DEF Sound
  <2> QED BY <2>1, <2>2 DEF Sound
<1>12. \A j \in Pointer : ta[<<j, 0>>] = a.blocks[j] BY <1>3, <1>5, <1>10
\* No entry of the block is the block itself.
<1>13. \A j \in Pointer : a.blocks[j] = e => e = 0
  <2> SUFFICES ASSUME NEW j \in Pointer, a.blocks[j] = e, e # 0 PROVE FALSE
    OBVIOUS
  <2>1. a.blocks[j] \in r.map BY <1>4, <1>5
  <2>2. e = f BY <1>5, <2>1
  <2>3. old[<<j, 0>>] = old[<<0, 0>>] /\ old[<<0, 0>>] # 0 BY <1>2, <1>3, <1>5, <2>2
  <2>4. <<j, 0>> = <<0, 0>> BY <1>3, <2>3, BoughPlaces DEF Sound
  <2> QED BY <1>3, <2>4, BoughPlaces
<1>14. Fine(b, Pointer) /\ Grows(a, b, Twig, TwigRoots, Y, ta, tb)
  BY <1>5, <1>11, TwigsGrow
<1> HIDE DEF b
<1>15. /\ b \in Reservation(Pointer) /\ b.disk \in [Sector -> Block]
       /\ b.blocks \in Entries /\ b.blocks \in [Pointer -> Sector]
       /\ b.map \subseteq Sector /\ b.ok \in BOOLEAN
  BY <1>14 DEF Fine, Reservation, Entries, Pointer
<1>16. \A j \in Pointer : tb[<<j, 0>>] = b.blocks[j] BY <1>14, TwigType
<1>17. q = [b EXCEPT !.blocks = p.blocks, !.disk[e] = IF b.ok THEN Index(b.blocks) ELSE @]
  BY DEF WrittenBack
<1> HIDE DEF q
<1>18. /\ q.blocks = p.blocks /\ q.map = b.map /\ q.ok = b.ok /\ q.full = b.full
       /\ q.disk = [b.disk EXCEPT ![e] = IF b.ok THEN Index(b.blocks) ELSE @]
  BY <1>15, <1>17 DEF Reservation
<1>19. Index(b.blocks) \in Block BY <1>15 DEF Block
<1>20. q \in Reservation(N) /\ q.disk \in [Sector -> Block]
  <2> DEFINE c == IF b.ok THEN Index(b.blocks) ELSE b.disk[e]
  <2>1. c \in Block BY <1>7, <1>15, <1>19
  <2>2. q = [b EXCEPT !.blocks = p.blocks, !.disk[e] = c] BY <1>17
  <2>3. q.disk = [b.disk EXCEPT ![e] = c] BY <1>18
  <2> HIDE DEF c
  <2>4. q.disk \in [Sector -> Block] BY <1>15, <2>1, <2>3
  <2>5. q = [map |-> b.map, disk |-> q.disk, blocks |-> p.blocks, ok |-> b.ok, full |-> b.full]
    BY <1>15, <1>18, <2>2 DEF Reservation
  <2> QED BY <1>7, <1>15, <2>4, <2>5 DEF Reservation
<1>21. q.blocks[i] = e /\ p.map \subseteq q.map /\ r.map \subseteq q.map
  BY <1>5, <1>7, <1>14, <1>18 DEF Grows
<1>22. new[<<0, 0>>] = e /\ \A x \in Twig : new[x] = Twigs(q.disk, BlocksOf(q.disk[e]))[x]
  BY BoughPlaces DEF Boughs
<1>23. \A j \in N : q.blocks[j] \in q.map BY <1>5, <1>18, <1>21 DEF Fine
<1>24. \A x \in Bough : x = <<0, 0>> \/ x \in Twig BY DEF Bough
<1> HIDE DEF ta, tb, old, mid, new, Y
<1>25. ASSUME e = 0
       PROVE  /\ ~b.ok /\ q.disk = p.disk /\ q.map = r.map /\ q.full
              /\ \A x \in Bough : new[x] = old[x] /\ old[x] \in r.map
  <2>1. a.map = Sector /\ b.map = Sector BY <1>5, <1>7, <1>14, <1>15, <1>25 DEF Full, Grows
  <2>2. \A x \in Twig : ta[x] = 0
    <3> SUFFICES ASSUME NEW x \in Twig PROVE ta[x] = 0
      OBVIOUS
    <3>1. PICK j \in Pointer, l \in 0 .. INDIRECT_BLOCKS_PER_SECTOR : x = <<j, l>>
      BY BoughPlaces
    <3>2. a.blocks[j] = 0 BY <1>5, <1>25, ZenonT(40) DEF NoBlocks, Pointer
    <3>3. ta[x] = Branch(a.disk, 0)[l] BY <1>5, <3>1, <3>2, TwigType DEF ta
    <3>4. BlocksOf(a.disk[0]) = NoBlocks BY <1>5, <1>7
    <3>5. l # 0 => l \in 1 .. INDIRECT_BLOCKS_PER_SECTOR BY PointerNat
    <3> QED BY <3>3, <3>4, <3>5 DEF Branch, NoBlocks
  <2>3. \A x \in Twig : tb[x] = 0 BY <1>14, <2>1, <2>2 DEF Grows
  <2>4. ~b.ok
    <3>1. DivUp(n, INDIRECT_BLOCKS_PER_SECTOR) \in Pointer
          /\ Below(n, 1) \in Pointer /\ 1 \in 1 .. DivUp(n, INDIRECT_BLOCKS_PER_SECTOR)
      BY BelowOf, PointerNat DEF Pointer
    <3>2. 1 \in Pointer /\ 0 \in 0 .. Below(n, 1) BY <3>1, PointerNat DEF Pointer
    <3>3. <<1, 0>> \in Y BY <1>3, <3>1, <3>2 DEF Y, NeedTwigs
    <3>4. tb[<<1, 0>>] = 0 BY <1>3, <2>3, <3>2
    <3> QED BY <1>14, <3>3, <3>4 DEF Grows
  <2>5. q.disk = b.disk BY <1>7, <1>15, <1>18, <2>4
  <2>6. TwigRoots \subseteq Twig BY BoughPlaces
  <2>7. a.disk[0] = Zeros BY <1>1, <1>5, <1>25
  <2>8. \A s \in Sector : b.disk[s] = a.disk[s] BY <1>14, <2>1, <2>3, <2>6, <2>7 DEF Grows
  <2>9. b.disk = p.disk BY <1>5, <1>7, <1>15, <2>8
  <2>10. BlocksOf(q.disk[e]) = a.blocks BY <1>5, <2>5, <2>9
  <2>11. \A x \in Twig : new[x] = ta[x] BY <1>9, <1>5, <1>22, <2>5, <2>9, <2>10
  <2>12. \A x \in Bough : new[x] = old[x]
    BY <1>2, <1>5, <1>10, <1>22, <1>24, <1>25, <2>11
  <2>13. \A x \in Bough : old[x] \in r.map BY DEF Sound, old
  <2>14. q.map = r.map /\ q.full BY <1>5, <1>14, <1>18, <1>25, <2>1 DEF Grows
  <2> QED BY <2>4, <2>5, <2>9, <2>12, <2>13, <2>14
<1>26. CASE e = 0
  <2>1. \A s \in Sector : q.disk[s] # r.disk[s] => s = 0 /\ q.disk[0] = Zeros
    BY <1>1, <1>5, <1>25, <1>26
  <2>2. Grows(r, q, Bough, BoughRoots, {<<0, 0>>} \cup Y, old, new)
    BY <1>18, <1>25, <1>26, <2>1 DEF Grows
  <2>3. Fine(q, N) BY <1>20, <1>23, <2>2, GrowsZero DEF Fine
  <2> QED BY <1>5, <1>6, <1>18, <1>21, <2>2, <2>3 DEF old, new, Y
<1>27. ASSUME e # 0 PROVE Grows(r, p, Bough, BoughRoots, {<<0, 0>>}, old, mid)
  <2>1. \A x \in Twig : mid[x] = old[x] /\ mid[x] \in r.map
    BY <1>10, BoughPlaces DEF Sound, old
  <2>2. \A x \in Bough : mid[x] # old[x] =>
            x = <<0, 0>> /\ old[<<0, 0>>] = 0 /\ mid[<<0, 0>>] \in p.map \ r.map
    BY <1>2, <1>5, <1>10, <1>24, <1>27, <2>1
  <2>3. \A x \in Bough : mid[x] \notin r.map => x = <<0, 0>> BY <1>24, <2>1
  <2>4. \A s \in Sector : p.disk[s] # r.disk[s] => s \in p.map \ r.map BY <1>5, <1>27
  <2>5. mid[<<0, 0>>] # 0 /\ \A s \in p.map \ r.map : mid[<<0, 0>>] = s BY <1>5, <1>10, <1>27
  <2> QED BY <1>5, <1>7, <1>27, <2>2, <2>3, <2>4, <2>5, BoughPlaces DEF Grows
\* Below the block there is now what the walk has found, or what was there before.
<1>28. ASSUME e # 0
       PROVE  /\ \A x \in Twig : new[x] = tb[x] \/ new[x] = ta[x]
              /\ b.ok => \A x \in Twig : new[x] = tb[x]
              /\ \A j \in Pointer : ta[<<j, 0>>] # 0 => new[<<j, 0>>] = ta[<<j, 0>>]
  <2>1. CASE b.ok
    <3>1. BlocksOf(q.disk[e]) = b.blocks BY <1>7, <1>15, <1>18, <2>1, BlocksOfIndex
    <3>2. ASSUME NEW j \in Pointer PROVE BlocksOf(q.disk[b.blocks[j]]) = BlocksOf(b.disk[b.blocks[j]])
      <4>1. b.blocks[j] # e
        <5>1. CASE tb[<<j, 0>>] = ta[<<j, 0>>] BY <1>12, <1>13, <1>16, <1>28, <5>1
        <5>2. CASE tb[<<j, 0>>] # ta[<<j, 0>>]
          BY <1>3, <1>5, <1>7, <1>14, <1>16, <5>2 DEF Grows
        <5> QED BY <5>1, <5>2
      <4>2. q.disk[b.blocks[j]] = b.disk[b.blocks[j]] BY <1>7, <1>15, <1>18, <4>1
      <4> QED BY <4>2
    <3>3. Twigs(q.disk, b.blocks) = tb BY <1>15, <3>2, TwigsSame DEF tb
    <3>4. \A x \in Twig : new[x] = tb[x] BY <1>22, <3>1, <3>3
    <3>5. \A j \in Pointer : ta[<<j, 0>>] # 0 => tb[<<j, 0>>] = ta[<<j, 0>>]
      BY <1>3, <1>14 DEF Grows
    <3> QED BY <1>3, <3>4, <3>5
  <2>2. CASE ~b.ok
    <3>1. q.disk = b.disk BY <1>7, <1>15, <1>18, <2>2
    <3>2. b.disk[e] = a.disk[e]
      <4>1. ASSUME NEW x \in TwigRoots PROVE tb[x] # e
        <5>1. PICK j \in Pointer : x = <<j, 0>> BY <4>1 DEF TwigRoots
        <5>2. CASE tb[x] = ta[x] BY <1>12, <1>13, <1>28, <5>1, <5>2
        <5>3. CASE tb[x] # ta[x] BY <1>3, <1>5, <1>7, <1>14, <5>1, <5>3 DEF Grows
        <5> QED BY <5>2, <5>3
      <4> QED BY <1>5, <1>7, <1>14, <1>28, <4>1 DEF Grows
    <3>3. BlocksOf(q.disk[e]) = a.blocks BY <1>5, <3>1, <3>2
    <3>4. \A x \in Twig : new[x] = Twigs(b.disk, a.blocks)[x] BY <1>22, <3>1, <3>3
    <3>5. ASSUME NEW j \in Pointer, NEW l \in 0 .. INDIRECT_BLOCKS_PER_SECTOR
          PROVE  /\ new[<<j, l>>] = tb[<<j, l>>] \/ new[<<j, l>>] = ta[<<j, l>>]
                 /\ l = 0 => new[<<j, l>>] = ta[<<j, l>>]
      <4>1. /\ <<j, l>> \in Twig /\ <<j, 0>> \in Twig
            /\ ta[<<j, l>>] = Branch(a.disk, a.blocks[j])[l]
            /\ tb[<<j, l>>] = Branch(b.disk, b.blocks[j])[l]
        BY <1>3, <1>5, <1>14, TwigType DEF ta, tb
      <4>2. Twigs(b.disk, a.blocks)[<<j, l>>] = Branch(b.disk, a.blocks[j])[l]
        BY <4>1 DEF Twigs
      <4>3. l = 0 => Branch(b.disk, a.blocks[j])[l] = Branch(a.disk, a.blocks[j])[l]
        BY DEF Branch
      <4>4. CASE b.blocks[j] = a.blocks[j] BY <3>4, <4>1, <4>2, <4>3, <4>4
      <4>5. CASE b.blocks[j] # a.blocks[j]
        <5>1. a.blocks[j] = 0 BY <1>12, <1>14, <1>16, <4>1, <4>5 DEF Grows
        <5>2. BlocksOf(b.disk[0]) = NoBlocks /\ BlocksOf(a.disk[0]) = NoBlocks
          BY <1>5, <1>14 DEF Fine
        <5>3. Branch(b.disk, 0)[l] = Branch(a.disk, 0)[l] BY <5>2 DEF Branch
        <5> QED BY <3>4, <4>1, <4>2, <5>1, <5>3
      <4> QED BY <4>4, <4>5
    <3>6. \A j \in Pointer : new[<<j, 0>>] = ta[<<j, 0>>] BY <3>5, PointerNat
    <3>7. \A x \in Twig : new[x] = tb[x] \/ new[x] = ta[x] BY <3>5, BoughPlaces
    <3> QED BY <2>2, <3>6, <3>7
  <2> QED BY <2>1, <2>2
<1>29. ASSUME e # 0 PROVE Grows(p, q, Bough, BoughRoots, Y, mid, new)
  <2>1. ASSUME NEW x \in Bough, new[x] # mid[x]
        PROVE  /\ mid[x] = 0 /\ x \in Y /\ new[x] \in q.map \ p.map
               /\ x \notin BoughRoots => q.disk[new[x]] = Zeros
    <3>1. x \in Twig BY <1>10, <1>22, <1>24, <2>1
    <3>2. mid[x] = ta[x] /\ new[x] = tb[x] /\ tb[x] # ta[x] BY <1>10, <1>28, <1>29, <2>1, <3>1
    <3>3. /\ mid[x] = 0 /\ x \in Y /\ new[x] \in b.map \ a.map
          /\ x \notin TwigRoots => b.disk[new[x]] = Zeros
      BY <1>14, <3>1, <3>2 DEF Grows
    <3>4. new[x] # e BY <1>5, <1>7, <3>3
    <3>5. q.disk[new[x]] = b.disk[new[x]] BY <1>7, <1>15, <1>18, <3>3, <3>4
    <3> QED BY <1>5, <1>18, <3>1, <3>3, <3>5, BoughPlaces
  <2>2. ASSUME NEW x \in Bough, NEW y \in Bough, new[x] = new[y], new[x] \notin p.map PROVE x = y
    <3>1. x \in Twig /\ y \in Twig BY <1>7, <1>22, <1>24, <2>2
    <3>2. ta[x] \in p.map /\ ta[y] \in p.map BY <1>5, <1>11, <3>1 DEF Sound
    <3>3. new[x] = tb[x] /\ new[y] = tb[y] BY <1>28, <1>29, <2>2, <3>1, <3>2
    <3>4. \A u, v \in Twig : tb[u] = tb[v] /\ tb[u] \notin p.map => u = v BY <1>5, <1>14 DEF Grows
    <3> QED BY <2>2, <3>1, <3>3, <3>4
  <2>3. ASSUME NEW s \in Sector, q.disk[s] # p.disk[s]
        PROVE  \/ s \in q.map \ p.map
               \/ s = 0 /\ q.disk[0] = Zeros /\ q.full
               \/ \E x \in BoughRoots : s = new[x] /\ s # 0
    <3>1. CASE s = e BY <1>22, <1>29, <3>1, BoughPlaces
    <3>2. CASE s # e
      <4>1. q.disk[s] = b.disk[s] BY <1>7, <1>15, <1>18, <3>2
      <4>2. b.disk[s] # a.disk[s] BY <1>5, <2>3, <4>1
      <4>3. ASSUME s = 0 /\ b.disk[0] = Zeros /\ b.full
            PROVE  s = 0 /\ q.disk[0] = Zeros /\ q.full
        BY <1>18, <4>1, <4>3
      <4>4. ASSUME NEW x \in TwigRoots, s = tb[x], s # 0, s \notin q.map \ p.map
            PROVE  s = new[x] /\ x \in BoughRoots
        <5>1. PICK j \in Pointer : x = <<j, 0>> BY <4>4 DEF TwigRoots
        <5>2. tb[x] = ta[x] BY <1>3, <1>5, <1>14, <1>18, <4>4, <5>1 DEF Grows
        <5>3. new[x] = ta[x] BY <1>28, <1>29, <4>4, <5>1, <5>2
        <5> QED BY <4>4, <5>2, <5>3 DEF BoughRoots
      <4>5. \/ s \in b.map \ a.map
            \/ s = 0 /\ b.disk[0] = Zeros /\ b.full
            \/ \E x \in TwigRoots : s = tb[x] /\ s # 0
        BY <1>14, <4>2 DEF Grows
      <4> QED BY <1>5, <1>18, <4>3, <4>4, <4>5
    <3> QED BY <3>1, <3>2
  <2>4. ASSUME q.ok
        PROVE  /\ \A y \in Y : new[y] # 0
               /\ \A s \in q.map \ p.map : \E y \in Y : new[y] = s
    <3>1. Y \subseteq Twig BY DEF Y, NeedTwigs
    <3>2. \A x \in Twig : new[x] = tb[x] BY <1>18, <1>28, <1>29, <2>4
    <3> QED BY <1>5, <1>14, <1>18, <2>4, <3>1, <3>2 DEF Grows
  <2>5. q.full # p.full => q.full /\ ~q.ok BY <1>5, <1>14, <1>18 DEF Grows
  <2> QED BY <1>5, <1>21, <2>1, <2>2, <2>3, <2>4, <2>5 DEF Grows
<1>30. CASE e # 0
  <2>1. BoughRoots \in SUBSET Bough /\ {<<0, 0>>} \in SUBSET Bough /\ Y \in SUBSET Bough
    BY BoughPlaces DEF BoughRoots, Bough, Y, NeedTwigs
  <2>2. Grows(r, q, Bough, BoughRoots, {<<0, 0>>} \cup Y, old, new)
    BY <1>1, <1>5, <1>7, <1>27, <1>29, <1>30, <2>1, GrowsOn
  <2>3. Fine(q, N) BY <1>20, <1>23, <2>2, GrowsZero DEF Fine
  <2> QED BY <1>5, <1>6, <1>18, <1>21, <2>2, <2>3 DEF old, new, Y
<1> QED BY <1>26, <1>30

-----------------------------------------------------------------------------
(* The blocks of an inode.                                                 *)

InodeEntry == 1 .. DoublyIndirectBlock
\* Where an inode has sectors: its direct blocks, below its indirect block, and
\* below its doubly indirect block.
Place == {<<i, 0, 0>> : i \in 1 .. DIRECT_BLOCKS_COUNT}
            \cup {<<IndirectBlock, l, 0>> : l \in 0 .. INDIRECT_BLOCKS_PER_SECTOR}
            \cup {<<DoublyIndirectBlock, x[1], x[2]>> : x \in Bough}
PlaceRoots == {<<IndirectBlock, 0, 0>>} \cup {<<DoublyIndirectBlock, x[1], x[2]>> : x \in BoughRoots}
Tree(dsk, b) ==
    [x \in Place |-> IF x[1] = IndirectBlock THEN Branch(dsk, b[IndirectBlock])[x[2]]
                     ELSE IF x[1] = DoublyIndirectBlock
                     THEN Boughs(dsk, b[DoublyIndirectBlock])[<<x[2], x[3]>>]
                     ELSE b[x[1]]]

\* The places n sectors take.
NeedDirect(n) == {<<i, 0, 0>> : i \in 1 .. Least(n, DIRECT_BLOCKS_COUNT)}
NeedSingle(n) == {<<IndirectBlock, l, 0>> : l \in 0 .. Least(n, INDIRECT_BLOCKS_PER_SECTOR)}
NeedBoughs(n) == {<<0, 0>>} \cup NeedTwigs(n, DivUp(n, INDIRECT_BLOCKS_PER_SECTOR))
NeedDoubly(n) == {<<DoublyIndirectBlock, x[1], x[2]>> : x \in NeedBoughs(n)}
Need(n) ==
    LET rest == n - DIRECT_BLOCKS_COUNT
        far == rest - INDIRECT_BLOCKS_PER_SECTOR
    IN  NeedDirect(n)
        \cup (IF rest > 0 THEN NeedSingle(rest) ELSE {})
        \cup (IF far > 0
              THEN NeedDoubly(Least(far, INDIRECT_BLOCKS_PER_SECTOR * INDIRECT_BLOCKS_PER_SECTOR))
              ELSE {})

\* The entries of an inode.
LEMMA SlotFacts ==
    /\ DIRECT_BLOCKS_COUNT \in Nat \ {0} /\ INDIRECT_BLOCKS_PER_SECTOR \in Nat \ {0}
    /\ IndirectBlock \in InodeEntry /\ DoublyIndirectBlock \in InodeEntry
    /\ IndirectBlock # DoublyIndirectBlock
    /\ \A i \in 1 .. DIRECT_BLOCKS_COUNT :
            i \in InodeEntry /\ i # IndirectBlock /\ i # DoublyIndirectBlock
    /\ Blocks = [InodeEntry -> Sector]
BY BlocksAssumption DEF IndirectBlock, DoublyIndirectBlock, InodeEntry, Blocks

\* The places of an inode.
LEMMA PlaceFacts ==
    /\ \A i \in 1 .. DIRECT_BLOCKS_COUNT : <<i, 0, 0>> \in Place /\ <<i, 0, 0>> \notin PlaceRoots
    /\ \A l \in 0 .. INDIRECT_BLOCKS_PER_SECTOR :
            /\ <<IndirectBlock, l, 0>> \in Place
            /\ (<<IndirectBlock, l, 0>> \in PlaceRoots <=> l = 0)
    /\ \A x \in Bough :
            /\ <<DoublyIndirectBlock, x[1], x[2]>> \in Place
            /\ (<<DoublyIndirectBlock, x[1], x[2]>> \in PlaceRoots <=> x \in BoughRoots)
            /\ x = <<x[1], x[2]>>
    /\ \A y \in Place : \/ \E i \in 1 .. DIRECT_BLOCKS_COUNT : y = <<i, 0, 0>>
                        \/ \E l \in 0 .. INDIRECT_BLOCKS_PER_SECTOR : y = <<IndirectBlock, l, 0>>
                        \/ \E x \in Bough : y = <<DoublyIndirectBlock, x[1], x[2]>>
    /\ PlaceRoots \subseteq Place
<1>1. \A x \in Bough : x = <<x[1], x[2]>>
  <2> SUFFICES ASSUME NEW x \in Bough PROVE x = <<x[1], x[2]>>
    OBVIOUS
  <2>1. CASE x = <<0, 0>> BY <2>1
  <2>2. CASE x \in Twig BY <2>2, BoughPlaces
  <2> QED BY <2>1, <2>2 DEF Bough
<1>2. \A i \in 1 .. DIRECT_BLOCKS_COUNT : <<i, 0, 0>> \in Place /\ <<i, 0, 0>> \notin PlaceRoots
  BY SlotFacts DEF Place, PlaceRoots
<1>3. \A l \in 0 .. INDIRECT_BLOCKS_PER_SECTOR :
            /\ <<IndirectBlock, l, 0>> \in Place
            /\ (<<IndirectBlock, l, 0>> \in PlaceRoots <=> l = 0)
  BY SlotFacts DEF Place, PlaceRoots
<1>4. BoughRoots \subseteq Bough BY BoughPlaces DEF BoughRoots, Bough
<1>5. ASSUME NEW x \in Bough
      PROVE  /\ <<DoublyIndirectBlock, x[1], x[2]>> \in Place
             /\ (<<DoublyIndirectBlock, x[1], x[2]>> \in PlaceRoots <=> x \in BoughRoots)
  <2>1. <<DoublyIndirectBlock, x[1], x[2]>> \in Place BY <1>5 DEF Place
  <2>2. ASSUME x \in BoughRoots PROVE <<DoublyIndirectBlock, x[1], x[2]>> \in PlaceRoots
    BY <2>2 DEF PlaceRoots
  <2>3. ASSUME <<DoublyIndirectBlock, x[1], x[2]>> \in PlaceRoots PROVE x \in BoughRoots
    <3>1. PICK y \in BoughRoots : <<DoublyIndirectBlock, x[1], x[2]>> = <<DoublyIndirectBlock, y[1], y[2]>>
      BY <2>3, SlotFacts DEF PlaceRoots
    <3>2. x[1] = y[1] /\ x[2] = y[2] BY <3>1
    <3>3. x = <<x[1], x[2]>> /\ y = <<y[1], y[2]>> BY <1>1, <1>4, <1>5
    <3> QED BY <3>2, <3>3
  <2> QED BY <2>1, <2>2, <2>3
<1>6. \A y \in Place : \/ \E i \in 1 .. DIRECT_BLOCKS_COUNT : y = <<i, 0, 0>>
                       \/ \E l \in 0 .. INDIRECT_BLOCKS_PER_SECTOR : y = <<IndirectBlock, l, 0>>
                       \/ \E x \in Bough : y = <<DoublyIndirectBlock, x[1], x[2]>>
  BY DEF Place
<1>7. PlaceRoots \subseteq Place
  <2>1. 0 \in 0 .. INDIRECT_BLOCKS_PER_SECTOR BY PointerNat
  <2> QED BY <1>3, <1>4, <1>5, <2>1 DEF PlaceRoots
<1> QED BY <1>1, <1>2, <1>3, <1>5, <1>6, <1>7

\* Reading the places of an inode.
LEMMA TreeAt ==
    ASSUME NEW dsk, NEW b
    PROVE  /\ \A i \in 1 .. DIRECT_BLOCKS_COUNT : Tree(dsk, b)[<<i, 0, 0>>] = b[i]
           /\ \A l \in 0 .. INDIRECT_BLOCKS_PER_SECTOR :
                Tree(dsk, b)[<<IndirectBlock, l, 0>>] = Branch(dsk, b[IndirectBlock])[l]
           /\ \A x \in Bough :
                Tree(dsk, b)[<<DoublyIndirectBlock, x[1], x[2]>>] = Boughs(dsk, b[DoublyIndirectBlock])[x]
<1>1. \A i \in 1 .. DIRECT_BLOCKS_COUNT : Tree(dsk, b)[<<i, 0, 0>>] = b[i]
  BY PlaceFacts, SlotFacts DEF Tree
<1>2. \A l \in 0 .. INDIRECT_BLOCKS_PER_SECTOR :
        Tree(dsk, b)[<<IndirectBlock, l, 0>>] = Branch(dsk, b[IndirectBlock])[l]
  BY PlaceFacts, SlotFacts DEF Tree
<1>3. ASSUME NEW x \in Bough
      PROVE  Tree(dsk, b)[<<DoublyIndirectBlock, x[1], x[2]>>] = Boughs(dsk, b[DoublyIndirectBlock])[x]
  <2>1. <<DoublyIndirectBlock, x[1], x[2]>> \in Place /\ x = <<x[1], x[2]>> BY PlaceFacts
  <2>2. Tree(dsk, b)[<<DoublyIndirectBlock, x[1], x[2]>>]
            = Boughs(dsk, b[DoublyIndirectBlock])[<<x[1], x[2]>>]
    BY <2>1, SlotFacts DEF Tree
  <2> QED BY <2>1, <2>2
<1> QED BY <1>1, <1>2, <1>3

\* Two trees are the same if they are the same at every kind of place.
LEMMA TreeSame ==
    ASSUME NEW dsk, NEW b, NEW old, NEW c,
           \A i \in 1 .. DIRECT_BLOCKS_COUNT : b[i] = c[i],
           Branch(dsk, b[IndirectBlock]) = Branch(old, c[IndirectBlock]),
           Boughs(dsk, b[DoublyIndirectBlock]) = Boughs(old, c[DoublyIndirectBlock])
    PROVE  Tree(dsk, b) = Tree(old, c)
<1>1. ASSUME NEW y \in Place PROVE Tree(dsk, b)[y] = Tree(old, c)[y]
  <2>1. CASE \E i \in 1 .. DIRECT_BLOCKS_COUNT : y = <<i, 0, 0>> BY <2>1, TreeAt
  <2>2. CASE \E l \in 0 .. INDIRECT_BLOCKS_PER_SECTOR : y = <<IndirectBlock, l, 0>> BY <2>2, TreeAt
  <2>3. CASE \E x \in Bough : y = <<DoublyIndirectBlock, x[1], x[2]>> BY <2>3, TreeAt
  <2> QED BY <2>1, <2>2, <2>3, PlaceFacts
<1> QED BY <1>1 DEF Tree

\* A sector that was taken keeps what it holds, if no pointers were added to it.
LEMMA GrowsKeeps ==
    ASSUME NEW r, NEW N, Fine(r, N), NEW q, NEW X, NEW I \in SUBSET X, NEW Y, NEW old, NEW new,
           Grows(r, q, X, I, Y, old, new),
           NEW s \in Sector, s \in r.map, \A x \in I : old[x] # s
    PROVE  BlocksOf(q.disk[s]) = BlocksOf(r.disk[s]) /\ (s # 0 => q.disk[s] = r.disk[s])
<1>1. \A x \in I : new[x] # s BY DEF Grows
<1>2. CASE s = 0 BY <1>2, GrowsZero DEF Fine
<1>3. CASE s # 0 BY <1>1, <1>3 DEF Grows
<1> QED BY <1>2, <1>3

\* What is below a doubly indirect block is up to it and the index blocks it
\* names.
LEMMA BoughsSame ==
    ASSUME NEW dsk, NEW old, NEW e, BlocksOf(old[e]) \in [Pointer -> Sector],
           BlocksOf(dsk[e]) = BlocksOf(old[e]),
           \A j \in Pointer : BlocksOf(dsk[BlocksOf(old[e])[j]]) = BlocksOf(old[BlocksOf(old[e])[j]])
    PROVE  Boughs(dsk, e) = Boughs(old, e)
<1>1. Twigs(dsk, BlocksOf(old[e])) = Twigs(old, BlocksOf(old[e])) BY TwigsSame
<1> QED BY <1>1 DEF Boughs

\* Growing at places of X only is growing at them.
LEMMA GrowsFewer ==
    ASSUME NEW r, NEW q, NEW X, NEW I, NEW Y, NEW old, NEW new,
           Grows(r, q, X, I, Y, old, new), NEW Z \in SUBSET X, I \subseteq Z, Y \subseteq Z
    PROVE  Grows(r, q, Z, I, Y, old, new)
BY DEF Grows

\* The pointers of an inode, and those below them, that are not at the place
\* being worked on.
LEMMA TreeRoots ==
    ASSUME NEW r, Fine(r, InodeEntry), NEW t, t = Tree(r.disk, r.blocks), Sound(r.map, Place, t)
    PROVE  LET f == r.blocks[IndirectBlock]
               e == r.blocks[DoublyIndirectBlock]
               g == BlocksOf(r.disk[e])
           IN  /\ f \in Sector /\ f \in r.map /\ e \in Sector /\ e \in r.map
               /\ g \in [Pointer -> Sector] /\ \A j \in Pointer : g[j] \in r.map
               /\ t[<<IndirectBlock, 0, 0>>] = f /\ t[<<DoublyIndirectBlock, 0, 0>>] = e
               /\ \A j \in Pointer : /\ t[<<DoublyIndirectBlock, j, 0>>] = g[j]
                                     /\ <<DoublyIndirectBlock, j, 0>> \in PlaceRoots
                                     /\ <<j, 0>> \in BoughRoots /\ <<j, 0>> \in Bough
<1> DEFINE f == r.blocks[IndirectBlock]
           e == r.blocks[DoublyIndirectBlock]
           g == BlocksOf(r.disk[e])
<1>1. /\ r.disk \in [Sector -> Block] /\ r.blocks \in [InodeEntry -> Sector]
      /\ \A j \in InodeEntry : r.blocks[j] \in r.map
  BY DEF Fine, Reservation
<1>2. f \in Sector /\ f \in r.map /\ e \in Sector /\ e \in r.map BY <1>1, SlotFacts
<1>3. g \in [Pointer -> Sector] BY <1>1, <1>2, BranchType
<1>4. 0 \in 0 .. INDIRECT_BLOCKS_PER_SECTOR BY PointerNat
<1>5. t[<<IndirectBlock, 0, 0>>] = f
  <2>1. t[<<IndirectBlock, 0, 0>>] = Branch(r.disk, f)[0] BY <1>4, TreeAt
  <2> QED BY <1>4, <2>1 DEF Branch
<1>6. \A x \in Bough : t[<<DoublyIndirectBlock, x[1], x[2]>>] = Boughs(r.disk, e)[x] BY TreeAt
<1>7. t[<<DoublyIndirectBlock, 0, 0>>] = e
  <2>1. <<0, 0>> \in Bough /\ <<0, 0>>[1] = 0 /\ <<0, 0>>[2] = 0 BY BoughPlaces
  <2>2. t[<<DoublyIndirectBlock, 0, 0>>] = Boughs(r.disk, e)[<<0, 0>>] BY <1>6, <2>1
  <2> QED BY <2>1, <2>2 DEF Boughs
<1>8. ASSUME NEW j \in Pointer
      PROVE  /\ t[<<DoublyIndirectBlock, j, 0>>] = g[j] /\ g[j] \in r.map
             /\ <<DoublyIndirectBlock, j, 0>> \in PlaceRoots
             /\ <<j, 0>> \in BoughRoots /\ <<j, 0>> \in Bough
  <2>1. <<j, 0>> \in Twig /\ <<j, 0>> \in TwigRoots BY <1>4 DEF Twig, TwigRoots
  <2>2. <<j, 0>> \in Bough /\ <<j, 0>> \in BoughRoots /\ <<j, 0>> # <<0, 0>>
    BY <2>1, BoughPlaces DEF Bough, BoughRoots
  <2>3. <<j, 0>>[1] = j /\ <<j, 0>>[2] = 0 OBVIOUS
  <2>4. t[<<DoublyIndirectBlock, j, 0>>] = Boughs(r.disk, e)[<<j, 0>>] BY <1>6, <2>2, <2>3
  <2>5. Boughs(r.disk, e)[<<j, 0>>] = Branch(r.disk, g[j])[0] BY <2>1, <2>2 DEF Boughs, Twigs
  <2>6. <<DoublyIndirectBlock, j, 0>> \in Place /\ <<DoublyIndirectBlock, j, 0>> \in PlaceRoots
    BY <2>2, <2>3, PlaceFacts
  <2>7. t[<<DoublyIndirectBlock, j, 0>>] = g[j] BY <1>4, <2>4, <2>5 DEF Branch
  <2> QED BY <2>2, <2>6, <2>7 DEF Sound
<1> QED BY <1>2, <1>3, <1>5, <1>7, <1>8

\* The direct blocks.
LEMMA DirectTree ==
    ASSUME NEW r, Fine(r, InodeEntry), r.ok, Sound(r.map, Place, Tree(r.disk, r.blocks)),
           NEW n \in Nat
    PROVE  LET q == ReserveSectors(r, Least(n, DIRECT_BLOCKS_COUNT)) IN
           /\ Fine(q, InodeEntry)
           /\ Grows(r, q, Place, PlaceRoots, NeedDirect(n),
                    Tree(r.disk, r.blocks), Tree(q.disk, q.blocks))
<1> DEFINE m == Least(n, DIRECT_BLOCKS_COUNT)
           q == ReserveSectors(r, m)
           X == 1 .. DIRECT_BLOCKS_COUNT
           old == Tree(r.disk, r.blocks)
           new == Tree(q.disk, q.blocks)
           g == [i \in X |-> <<i, 0, 0>>]
           f == r.blocks[IndirectBlock]
           e == r.blocks[DoublyIndirectBlock]
<1>1. m \in Nat /\ 1 .. m \subseteq X /\ X \subseteq InodeEntry
      /\ IndirectBlock \notin 1 .. m /\ DoublyIndirectBlock \notin 1 .. m
  BY LeastOf, SlotFacts
<1>2. Fine(q, InodeEntry) /\ Grows(r, q, InodeEntry, {}, 1 .. m, r.blocks, q.blocks)
  BY <1>1, SectorsGrow
<1> HIDE DEF q
<1>3. q.blocks[IndirectBlock] = f /\ q.blocks[DoublyIndirectBlock] = e
  BY <1>1, <1>2, SlotFacts DEF Grows
<1>4. \A s \in Sector : s \in r.map => BlocksOf(q.disk[s]) = BlocksOf(r.disk[s])
  <2> SUFFICES ASSUME NEW s \in Sector, s \in r.map PROVE BlocksOf(q.disk[s]) = BlocksOf(r.disk[s])
    OBVIOUS
  <2>1. CASE s = 0
    <3>1. BlocksOf(q.disk[0]) = NoBlocks /\ BlocksOf(r.disk[0]) = NoBlocks BY <1>2 DEF Fine
    <3> QED BY <2>1, <3>1
  <2>2. CASE s # 0 BY <1>2, <2>2 DEF Grows
  <2> QED BY <2>1, <2>2
<1>5. /\ f \in Sector /\ f \in r.map /\ e \in Sector /\ e \in r.map
      /\ BlocksOf(r.disk[e]) \in [Pointer -> Sector] /\ \A j \in Pointer : BlocksOf(r.disk[e])[j] \in r.map
  BY TreeRoots
<1>6. Branch(q.disk, f) = Branch(r.disk, f) BY <1>4, <1>5 DEF Branch
<1>7. Boughs(q.disk, e) = Boughs(r.disk, e) BY <1>4, <1>5, BoughsSame
<1>8. Grows(r, q, X, {}, 1 .. m, r.blocks, q.blocks) BY <1>1, <1>2, GrowsFewer
<1>9. Among(r.map, X, {}, r.blocks, q.blocks, Place, PlaceRoots, old, new, g)
  <2>1. g \in [X -> Place] /\ \A x, y \in X : g[x] = g[y] => x = y BY PlaceFacts
  <2>2. ASSUME NEW x \in X
        PROVE  /\ old[g[x]] = r.blocks[x] /\ new[g[x]] = q.blocks[x]
               /\ (g[x] \in PlaceRoots <=> x \in {})
    <3>1. old[<<x, 0, 0>>] = r.blocks[x] BY TreeAt
    <3>2. new[<<x, 0, 0>>] = q.blocks[x] BY TreeAt
    <3> QED BY <3>1, <3>2, PlaceFacts
  <2>3. ASSUME NEW x \in Place, \A y \in X : g[y] # x PROVE new[x] = old[x] /\ old[x] \in r.map
    <3>1. ~\E i \in 1 .. DIRECT_BLOCKS_COUNT : x = <<i, 0, 0>> BY <2>3
    <3>4. old[x] \in r.map BY <2>3 DEF Sound
    <3>2. CASE \E l \in 0 .. INDIRECT_BLOCKS_PER_SECTOR : x = <<IndirectBlock, l, 0>>
      <4>1. PICK l \in 0 .. INDIRECT_BLOCKS_PER_SECTOR : x = <<IndirectBlock, l, 0>> BY <3>2
      <4>2. old[x] = Branch(r.disk, f)[l] BY <4>1, TreeAt
      <4>3. new[x] = Branch(q.disk, q.blocks[IndirectBlock])[l] BY <4>1, TreeAt
      <4> QED BY <3>4, <1>3, <1>6, <4>2, <4>3
    <3>3. CASE \E y \in Bough : x = <<DoublyIndirectBlock, y[1], y[2]>>
      <4>1. PICK y \in Bough : x = <<DoublyIndirectBlock, y[1], y[2]>> BY <3>3
      <4>2. old[x] = Boughs(r.disk, e)[y] BY <4>1, TreeAt
      <4>3. new[x] = Boughs(q.disk, q.blocks[DoublyIndirectBlock])[y] BY <4>1, TreeAt
      <4> QED BY <3>4, <1>3, <1>7, <4>2, <4>3
    <3> QED BY <3>1, <3>2, <3>3, <3>4, PlaceFacts
  <2> HIDE DEF g, old, new, X
  <2> QED BY <2>1, <2>2, <2>3 DEF Among
<1>10. Grows(r, q, Place, PlaceRoots, NeedDirect(n), old, new)
  <2>1. (\A y \in 1 .. m : g[y] \in NeedDirect(n)) /\ \A z \in NeedDirect(n) : \E y \in 1 .. m : g[y] = z
    BY <1>1 DEF NeedDirect
  <2>2. 1 .. m \in SUBSET X /\ {} \in SUBSET X BY <1>1
  <2> HIDE DEF g, old, new, X, m
  <2>3. Placed(r.map, X, {}, 1 .. m, r.blocks, q.blocks, Place, PlaceRoots, NeedDirect(n), old, new, g)
    BY <1>9, <2>1, <2>2 DEF Placed
  <2> QED BY <1>8, <2>3, GrowsPlaced
<1> QED BY <1>2, <1>10 DEF q

\* The indirect block.
LEMMA SingleTree ==
    ASSUME NEW r, Fine(r, InodeEntry), r.ok, Sound(r.map, Place, Tree(r.disk, r.blocks)),
           NEW n \in Nat \ {0}
    PROVE  LET q == ReserveIndirect(r, IndirectBlock, Least(n, INDIRECT_BLOCKS_PER_SECTOR)) IN
           /\ Fine(q, InodeEntry)
           /\ Grows(r, q, Place, PlaceRoots, NeedSingle(n),
                    Tree(r.disk, r.blocks), Tree(q.disk, q.blocks))
<1> DEFINE m == Least(n, INDIRECT_BLOCKS_PER_SECTOR)
           q == ReserveIndirect(r, IndirectBlock, m)
           X == 0 .. INDIRECT_BLOCKS_PER_SECTOR
           old == Tree(r.disk, r.blocks)
           new == Tree(q.disk, q.blocks)
           f == r.blocks[IndirectBlock]
           e == r.blocks[DoublyIndirectBlock]
           old1 == Branch(r.disk, f)
           new1 == Branch(q.disk, q.blocks[IndirectBlock])
           g == [l \in X |-> <<IndirectBlock, l, 0>>]
<1>1. m \in Pointer /\ 0 .. m \subseteq X /\ 0 \in X BY LeastOf, PointerNat DEF Pointer
<1>2. /\ f \in Sector /\ f \in r.map /\ e \in Sector /\ e \in r.map
      /\ BlocksOf(r.disk[e]) \in [Pointer -> Sector] /\ \A j \in Pointer : BlocksOf(r.disk[e])[j] \in r.map
      /\ old[<<IndirectBlock, 0, 0>>] = f /\ old[<<DoublyIndirectBlock, 0, 0>>] = e
      /\ \A j \in Pointer : /\ old[<<DoublyIndirectBlock, j, 0>>] = BlocksOf(r.disk[e])[j]
                            /\ <<DoublyIndirectBlock, j, 0>> \in PlaceRoots
  BY TreeRoots
<1>3. r.disk \in [Sector -> Block] BY DEF Fine, Reservation
<1>4. \A l \in Pointer : BlocksOf(r.disk[f])[l] \in r.map
  <2> SUFFICES ASSUME NEW l \in Pointer PROVE BlocksOf(r.disk[f])[l] \in r.map
    OBVIOUS
  <2>1. l \in X BY PointerNat DEF Pointer
  <2>2. old1[l] = BlocksOf(r.disk[f])[l] BY <1>2, <1>3, BranchType
  <2>3. old[<<IndirectBlock, l, 0>>] = old1[l] /\ <<IndirectBlock, l, 0>> \in Place
    BY <2>1, TreeAt, PlaceFacts
  <2> HIDE DEF old1
  <2>4. old[<<IndirectBlock, l, 0>>] \in r.map BY <2>3 DEF Sound
  <2> QED BY <2>2, <2>3, <2>4
<1>5. /\ Fine(q, InodeEntry)
      /\ \A j \in InodeEntry \ {IndirectBlock} : q.blocks[j] = r.blocks[j]
      /\ Grows(r, q, X, {0}, 0 .. m, old1, new1)
  BY <1>1, <1>4, SlotFacts, IndirectGrows
<1> HIDE DEF q
<1>6. q.blocks[DoublyIndirectBlock] = e /\ \A i \in 1 .. DIRECT_BLOCKS_COUNT : q.blocks[i] = r.blocks[i]
  BY <1>5, SlotFacts
<1>7. ASSUME NEW s \in Sector, s \in r.map, s = f => s = 0
      PROVE  BlocksOf(q.disk[s]) = BlocksOf(r.disk[s])
  <2>1. old1[0] = f BY <1>1 DEF Branch
  <2>2. CASE s # f
    <3>1. {0} \in SUBSET X /\ \A x \in {0} : old1[x] # s BY <1>1, <2>1, <2>2
    <3> HIDE DEF old1, new1, X
    <3>2. Grows(r, q, X, {0}, 0 .. m, old1, new1) BY <1>5
    <3>3. new1[0] = old1[0] \/ new1[0] \notin r.map BY <1>1, <3>2 DEF Grows
    <3>4. CASE s = 0
      <4>1. BlocksOf(q.disk[0]) = NoBlocks /\ BlocksOf(r.disk[0]) = NoBlocks BY <1>5 DEF Fine
      <4> QED BY <3>4, <4>1
    <3>5. CASE s # 0
      <4>1. s # new1[0] BY <1>7, <2>1, <2>2, <3>3
      <4>2. q.disk[s] = r.disk[s] BY <1>7, <3>2, <3>5, <4>1 DEF Grows
      <4> QED BY <4>2
    <3> QED BY <3>4, <3>5
  <2>3. CASE s = 0
    <3>1. BlocksOf(q.disk[0]) = NoBlocks /\ BlocksOf(r.disk[0]) = NoBlocks BY <1>5 DEF Fine
    <3> QED BY <2>3, <3>1
  <2> QED BY <1>7, <2>2, <2>3
\* What the doubly indirect block leads to is not the indirect block.
<1>8. ASSUME NEW y \in PlaceRoots, y # <<IndirectBlock, 0, 0>>, old[y] = f PROVE f = 0
  BY <1>1, <1>2, <1>8, PlaceFacts DEF Sound
<1>9. Boughs(q.disk, e) = Boughs(r.disk, e)
  <2>1. <<DoublyIndirectBlock, 0, 0>> \in PlaceRoots
    <3>1. <<0, 0>> \in Bough /\ <<0, 0>> \in BoughRoots /\ <<0, 0>>[1] = 0 /\ <<0, 0>>[2] = 0
      BY BoughPlaces
    <3> QED BY <3>1, PlaceFacts
  <2>2. e = f => e = 0 BY <1>2, <1>8, <2>1, SlotFacts
  <2>3. \A j \in Pointer : BlocksOf(r.disk[e])[j] = f => f = 0 BY <1>2, <1>8, SlotFacts
  <2>4. BlocksOf(q.disk[e]) = BlocksOf(r.disk[e]) BY <1>2, <1>7, <2>2
  <2>5. \A j \in Pointer : BlocksOf(q.disk[BlocksOf(r.disk[e])[j]]) = BlocksOf(r.disk[BlocksOf(r.disk[e])[j]])
    BY <1>2, <1>7, <2>3
  <2>6. BlocksOf(r.disk[e]) \in [Pointer -> Sector] BY <1>2
  <2> QED BY ONLY <2>4, <2>5, <2>6, BoughsSame
<1>10. Among(r.map, X, {0}, old1, new1, Place, PlaceRoots, old, new, g)
  <2>1. g \in [X -> Place] /\ \A x, y \in X : g[x] = g[y] => x = y BY PlaceFacts
  <2>2. \A x \in X : /\ old[g[x]] = old1[x] /\ new[g[x]] = new1[x]
                     /\ (g[x] \in PlaceRoots <=> x \in {0})
    BY PlaceFacts, TreeAt
  <2>3. ASSUME NEW x \in Place, \A y \in X : g[y] # x PROVE new[x] = old[x] /\ old[x] \in r.map
    <3>1. ~\E l \in X : x = <<IndirectBlock, l, 0>> BY <2>3
    <3>4. old[x] \in r.map BY <2>3 DEF Sound
    <3>2. CASE \E i \in 1 .. DIRECT_BLOCKS_COUNT : x = <<i, 0, 0>>
      <4>1. PICK i \in 1 .. DIRECT_BLOCKS_COUNT : x = <<i, 0, 0>> BY <3>2
      <4>2. old[x] = r.blocks[i] BY <4>1, TreeAt
      <4>3. new[x] = q.blocks[i] BY <4>1, TreeAt
      <4> QED BY <3>4, <1>6, <4>2, <4>3
    <3>3. CASE \E y \in Bough : x = <<DoublyIndirectBlock, y[1], y[2]>>
      <4>1. PICK y \in Bough : x = <<DoublyIndirectBlock, y[1], y[2]>> BY <3>3
      <4>2. old[x] = Boughs(r.disk, e)[y] BY <4>1, TreeAt
      <4>3. new[x] = Boughs(q.disk, q.blocks[DoublyIndirectBlock])[y] BY <4>1, TreeAt
      <4> QED BY <3>4, <1>6, <1>9, <4>2, <4>3
    <3> QED BY <3>1, <3>2, <3>3, <3>4, PlaceFacts
  <2> HIDE DEF g, old, new, X, old1, new1
  <2> QED BY <2>1, <2>2, <2>3 DEF Among
<1>11. Grows(r, q, Place, PlaceRoots, NeedSingle(n), old, new)
  <2>1. (\A y \in 0 .. m : g[y] \in NeedSingle(n)) /\ \A z \in NeedSingle(n) : \E y \in 0 .. m : g[y] = z
    BY <1>1 DEF NeedSingle
  <2>2. 0 .. m \in SUBSET X /\ {0} \in SUBSET X BY <1>1
  <2> HIDE DEF g, old, new, X, m, old1, new1
  <2>3. Grows(r, q, X, {0}, 0 .. m, old1, new1) BY <1>5
  <2>4. Placed(r.map, X, {0}, 0 .. m, old1, new1, Place, PlaceRoots, NeedSingle(n), old, new, g)
    BY <1>10, <2>1, <2>2 DEF Placed
  <2> QED BY <2>3, <2>4, GrowsPlaced
<1> QED BY <1>5, <1>11 DEF q

\* The doubly indirect block.
LEMMA DoublyTree ==
    ASSUME NEW r, Fine(r, InodeEntry), r.ok, Sound(r.map, Place, Tree(r.disk, r.blocks)),
           NEW n \in Nat \ {0}
    PROVE  LET m == Least(n, INDIRECT_BLOCKS_PER_SECTOR * INDIRECT_BLOCKS_PER_SECTOR)
               q == ReserveDoubly(r, DoublyIndirectBlock, m)
           IN  /\ Fine(q, InodeEntry)
               /\ Grows(r, q, Place, PlaceRoots, NeedDoubly(m),
                        Tree(r.disk, r.blocks), Tree(q.disk, q.blocks))
<1> DEFINE m == Least(n, INDIRECT_BLOCKS_PER_SECTOR * INDIRECT_BLOCKS_PER_SECTOR)
           q == ReserveDoubly(r, DoublyIndirectBlock, m)
           X == Bough
           Y == NeedBoughs(m)
           old == Tree(r.disk, r.blocks)
           new == Tree(q.disk, q.blocks)
           f == r.blocks[IndirectBlock]
           e == r.blocks[DoublyIndirectBlock]
           old1 == Boughs(r.disk, e)
           new1 == Boughs(q.disk, q.blocks[DoublyIndirectBlock])
           g == [x \in X |-> <<DoublyIndirectBlock, x[1], x[2]>>]
<1>1. m \in 1 .. INDIRECT_BLOCKS_PER_SECTOR * INDIRECT_BLOCKS_PER_SECTOR
  <2>1. INDIRECT_BLOCKS_PER_SECTOR * INDIRECT_BLOCKS_PER_SECTOR \in Nat \ {0} BY BlocksAssumption
  <2> QED BY <2>1 DEF Least
<1>2. /\ f \in Sector /\ f \in r.map /\ e \in Sector /\ e \in r.map
      /\ old[<<IndirectBlock, 0, 0>>] = f
  BY TreeRoots
<1>3. <<IndirectBlock, 0, 0>> \in Place BY PointerNat, PlaceFacts
<1>4. Sound(r.map, Bough, old1)
  <2>1. \A x \in Bough : /\ g[x] \in Place /\ old[g[x]] = old1[x] /\ x = <<x[1], x[2]>>
    BY PlaceFacts, TreeAt
  <2>2. \A x, y \in Bough : g[x] = g[y] => x = y BY <2>1
  <2> HIDE DEF g, old1, old
  <2>3. Sound(r.map, Place, old) BY DEF old
  <2> QED BY <2>1, <2>2, <2>3 DEF Sound
<1>5. /\ Fine(q, InodeEntry)
      /\ \A j \in InodeEntry \ {DoublyIndirectBlock} : q.blocks[j] = r.blocks[j]
      /\ Grows(r, q, X, BoughRoots, Y, old1, new1)
  BY <1>1, <1>4, SlotFacts, DoublyGrows DEF NeedBoughs
<1> HIDE DEF q
<1>6. q.blocks[IndirectBlock] = f /\ \A i \in 1 .. DIRECT_BLOCKS_COUNT : q.blocks[i] = r.blocks[i]
  BY <1>5, SlotFacts
<1>7. BlocksOf(q.disk[f]) = BlocksOf(r.disk[f])
  <2>1. CASE f = 0
    <3>1. BlocksOf(q.disk[0]) = NoBlocks /\ BlocksOf(r.disk[0]) = NoBlocks BY <1>5 DEF Fine
    <3> QED BY <2>1, <3>1
  <2>2. CASE f # 0
    <3>1. ASSUME NEW x \in BoughRoots PROVE f # new1[x]
      <4>1. x \in Bough BY BoughPlaces DEF BoughRoots, Bough
      <4>2. new1[x] = old1[x] \/ new1[x] \notin r.map BY <1>5, <4>1 DEF Grows
      <4>3. /\ <<DoublyIndirectBlock, x[1], x[2]>> \in Place
            /\ old[<<DoublyIndirectBlock, x[1], x[2]>>] = old1[x]
        BY <4>1, PlaceFacts, TreeAt
      <4>4. <<DoublyIndirectBlock, x[1], x[2]>> # <<IndirectBlock, 0, 0>> BY SlotFacts
      <4> HIDE DEF old, old1, new1
      <4>5. Sound(r.map, Place, old) BY DEF old
      <4>6. old1[x] # f BY <1>2, <1>3, <2>2, <4>3, <4>4, <4>5 DEF Sound
      <4> QED BY <1>2, <4>2, <4>6
    <3>2. q.disk[f] = r.disk[f] BY <1>2, <1>5, <2>2, <3>1 DEF Grows
    <3> QED BY <3>2
  <2> QED BY <2>1, <2>2
<1>8. Branch(q.disk, f) = Branch(r.disk, f) BY <1>7 DEF Branch
<1>9. Among(r.map, X, BoughRoots, old1, new1, Place, PlaceRoots, old, new, g)
  <2>1. g \in [X -> Place] /\ \A x, y \in X : g[x] = g[y] => x = y
    <3>1. \A x \in X : g[x] \in Place /\ x = <<x[1], x[2]>> BY PlaceFacts
    <3> QED BY <3>1
  <2>2. \A x \in X : /\ old[g[x]] = old1[x] /\ new[g[x]] = new1[x]
                     /\ (g[x] \in PlaceRoots <=> x \in BoughRoots)
    BY PlaceFacts, TreeAt
  <2>3. ASSUME NEW x \in Place, \A y \in X : g[y] # x PROVE new[x] = old[x] /\ old[x] \in r.map
    <3>1. ~\E y \in Bough : x = <<DoublyIndirectBlock, y[1], y[2]>> BY <2>3
    <3>2. old[x] \in r.map BY <2>3 DEF Sound
    <3>3. CASE \E i \in 1 .. DIRECT_BLOCKS_COUNT : x = <<i, 0, 0>>
      <4>1. PICK i \in 1 .. DIRECT_BLOCKS_COUNT : x = <<i, 0, 0>> BY <3>3
      <4>2. old[x] = r.blocks[i] BY <4>1, TreeAt
      <4>3. new[x] = q.blocks[i] BY <4>1, TreeAt
      <4> QED BY <3>2, <1>6, <4>2, <4>3
    <3>4. CASE \E l \in 0 .. INDIRECT_BLOCKS_PER_SECTOR : x = <<IndirectBlock, l, 0>>
      <4>1. PICK l \in 0 .. INDIRECT_BLOCKS_PER_SECTOR : x = <<IndirectBlock, l, 0>> BY <3>4
      <4>2. old[x] = Branch(r.disk, f)[l] BY <4>1, TreeAt
      <4>3. new[x] = Branch(q.disk, q.blocks[IndirectBlock])[l] BY <4>1, TreeAt
      <4> QED BY <3>2, <1>6, <1>8, <4>2, <4>3
    <3> QED BY <3>1, <3>3, <3>4, PlaceFacts
  <2> HIDE DEF g, old, new, X, old1, new1
  <2> QED BY <2>1, <2>2, <2>3 DEF Among
<1>10. Grows(r, q, Place, PlaceRoots, NeedDoubly(m), old, new)
  <2>1. Y \subseteq Bough
    <3>1. <<0, 0>> \in Bough /\ Twig \subseteq Bough BY BoughPlaces
    <3> QED BY <3>1 DEF NeedBoughs, NeedTwigs
  <2>2. (\A y \in Y : g[y] \in NeedDoubly(m)) /\ \A z \in NeedDoubly(m) : \E y \in Y : g[y] = z
    BY <2>1 DEF NeedDoubly
  <2>3. BoughRoots \subseteq X BY BoughPlaces DEF BoughRoots, Bough
  <2> HIDE DEF g, old, new, X, Y, m, old1, new1
  <2>4. Grows(r, q, X, BoughRoots, Y, old1, new1) BY <1>5
  <2>5. Y \subseteq X BY <2>1 DEF X
  <2>6. Placed(r.map, X, BoughRoots, Y, old1, new1, Place, PlaceRoots, NeedDoubly(m), old, new, g)
    BY <1>9, <2>2, <2>3, <2>5 DEF Placed
  <2> QED BY <2>4, <2>6, GrowsPlaced
<1> QED BY <1>5, <1>10 DEF q

\* The places that are needed are places.
LEMMA NeedPlaces ==
    ASSUME NEW n \in Nat
    PROVE  /\ NeedDirect(n) \subseteq Place
           /\ n # 0 => NeedSingle(n) \subseteq Place /\ NeedDoubly(n) \subseteq Place
           /\ Need(n) \subseteq Place
<1>1. \A k \in Nat : NeedDirect(k) \subseteq Place
  <2> SUFFICES ASSUME NEW k \in Nat PROVE NeedDirect(k) \subseteq Place
    OBVIOUS
  <2>1. 1 .. Least(k, DIRECT_BLOCKS_COUNT) \subseteq 1 .. DIRECT_BLOCKS_COUNT BY BlocksAssumption DEF Least
  <2> QED BY <2>1, PlaceFacts DEF NeedDirect
<1>2. \A k \in Nat \ {0} : NeedSingle(k) \subseteq Place
  <2> SUFFICES ASSUME NEW k \in Nat \ {0} PROVE NeedSingle(k) \subseteq Place
    OBVIOUS
  <2>1. 0 .. Least(k, INDIRECT_BLOCKS_PER_SECTOR) \subseteq 0 .. INDIRECT_BLOCKS_PER_SECTOR
    BY BlocksAssumption DEF Least
  <2> QED BY <2>1, PlaceFacts DEF NeedSingle
<1>3. \A k \in Nat \ {0} : NeedDoubly(k) \subseteq Place
  <2> SUFFICES ASSUME NEW k \in Nat \ {0} PROVE NeedDoubly(k) \subseteq Place
    OBVIOUS
  <2>1. NeedBoughs(k) \subseteq Bough
    <3>1. <<0, 0>> \in Bough /\ Twig \subseteq Bough BY BoughPlaces
    <3> QED BY <3>1 DEF NeedBoughs, NeedTwigs
  <2> QED BY <2>1, PlaceFacts DEF NeedDoubly
<1>4. Need(n) \subseteq Place
  <2> DEFINE rest == n - DIRECT_BLOCKS_COUNT
             far == rest - INDIRECT_BLOCKS_PER_SECTOR
             some == Least(far, INDIRECT_BLOCKS_PER_SECTOR * INDIRECT_BLOCKS_PER_SECTOR)
  <2>1. DIRECT_BLOCKS_COUNT \in Nat \ {0} /\ INDIRECT_BLOCKS_PER_SECTOR \in Nat \ {0}
        /\ INDIRECT_BLOCKS_PER_SECTOR * INDIRECT_BLOCKS_PER_SECTOR \in Nat \ {0}
    BY BlocksAssumption
  <2>2. rest > 0 => rest \in Nat \ {0} BY <2>1
  <2>3. far > 0 => some \in Nat \ {0} BY <2>1 DEF Least
  <2> QED BY <1>1, <1>2, <1>3, <2>2, <2>3 DEF Need
<1> QED BY <1>1, <1>2, <1>3, <1>4

\* inode_reserve(): if it succeeds, the places n sectors need hold sectors; those
\* it has taken are all at such places, whether or not it has succeeded each is at
\* one place only, and nothing else changes on the disk but the index blocks and,
\* if there was no sector for one of them, sector 0.
LEMMA BlocksGrow ==
    ASSUME NEW r, Fine(r, InodeEntry), r.ok, Sound(r.map, Place, Tree(r.disk, r.blocks)),
           NEW n \in Nat
    PROVE  LET q == ReserveBlocks(r, n) IN
           /\ Fine(q, InodeEntry)
           /\ Grows(r, q, Place, PlaceRoots, Need(n),
                    Tree(r.disk, r.blocks), Tree(q.disk, q.blocks))
<1> DEFINE P == INDIRECT_BLOCKS_PER_SECTOR
           rest == n - DIRECT_BLOCKS_COUNT
           far == rest - P
           some == Least(far, P * P)
           direct == ReserveSectors(r, Least(n, DIRECT_BLOCKS_COUNT))
           single == IF direct.ok /\ rest > 0 THEN ReserveIndirect(direct, IndirectBlock, Least(rest, P))
                     ELSE direct
           q == IF single.ok /\ far > 0 THEN ReserveDoubly(single, DoublyIndirectBlock, some) ELSE single
           A == NeedDirect(n)
           B == IF rest > 0 THEN NeedSingle(rest) ELSE {}
           C == IF far > 0 THEN NeedDoubly(some) ELSE {}
           t(s) == Tree(s.disk, s.blocks)
<1>1. q = ReserveBlocks(r, n) BY DEF ReserveBlocks
<1>2. DIRECT_BLOCKS_COUNT \in Nat \ {0} /\ P \in Nat \ {0} /\ P * P \in Nat \ {0} BY BlocksAssumption
<1>3. rest \in Int /\ far \in Int /\ (rest > 0 => rest \in Nat \ {0})
      /\ (far > 0 => far \in Nat \ {0} /\ some \in Nat \ {0})
  BY <1>2 DEF Least
<1>4. A \in SUBSET Place /\ B \in SUBSET Place /\ C \in SUBSET Place /\ PlaceRoots \in SUBSET Place
  BY <1>3, NeedPlaces, PlaceFacts
<1>5. Need(n) = (A \cup B) \cup C BY DEF Need
<1>6. Fine(direct, InodeEntry) /\ Grows(r, direct, Place, PlaceRoots, A, t(r), t(direct))
  BY DirectTree
<1>7. Sound(direct.map, Place, t(direct)) BY <1>6, SoundGrows
<1>8. 0 \in r.map /\ direct.map \subseteq Sector BY <1>6 DEF Fine, Reservation
<1> HIDE DEF A, B, C, direct
<1>9. Fine(single, InodeEntry) /\ Grows(r, single, Place, PlaceRoots, A \cup B, t(r), t(single))
  <2>1. CASE direct.ok /\ rest > 0
    <3>1. single = ReserveIndirect(direct, IndirectBlock, Least(rest, P)) /\ B = NeedSingle(rest)
      BY <2>1 DEF B
    <3> HIDE DEF single
    <3>2. Fine(single, InodeEntry) /\ Grows(direct, single, Place, PlaceRoots, B, t(direct), t(single))
      BY <1>3, <1>6, <1>7, <2>1, <3>1, SingleTree
    <3> HIDE DEF t
    <3> QED BY <1>4, <1>6, <1>8, <2>1, <3>2, GrowsOn
  <2>2. CASE direct.ok /\ ~(rest > 0)
    <3>1. single = direct /\ A \cup B = A BY <2>2 DEF B
    <3> QED BY <1>6, <3>1
  <2>3. CASE ~direct.ok
    <3>1. single = direct BY <2>3
    <3> HIDE DEF single, t
    <3>2. Grows(r, direct, Place, PlaceRoots, A \cup B, t(r), t(direct)) BY <1>6, <2>3, GrowsWider
    <3> QED BY <1>6, <3>1, <3>2
  <2> QED BY <2>1, <2>2, <2>3
<1> HIDE DEF single
<1>10. Sound(single.map, Place, t(single)) BY <1>9, SoundGrows
<1>11. single.map \subseteq Sector BY <1>9 DEF Fine, Reservation
<1>12. Fine(q, InodeEntry) /\ Grows(r, q, Place, PlaceRoots, (A \cup B) \cup C, t(r), t(q))
  <2>1. CASE single.ok /\ far > 0
    <3>1. q = ReserveDoubly(single, DoublyIndirectBlock, some) /\ C = NeedDoubly(some) BY <2>1 DEF C
    <3> HIDE DEF q
    <3>2. Fine(q, InodeEntry) /\ Grows(single, q, Place, PlaceRoots, C, t(single), t(q))
      BY <1>3, <1>9, <1>10, <2>1, <3>1, DoublyTree
    <3> HIDE DEF t
    <3>3. A \cup B \in SUBSET Place BY <1>4
    <3> QED BY <1>4, <1>8, <1>9, <1>11, <2>1, <3>2, <3>3, GrowsOn
  <2>2. CASE single.ok /\ ~(far > 0)
    <3>1. q = single /\ (A \cup B) \cup C = A \cup B BY <2>2 DEF C
    <3> QED BY <1>9, <3>1
  <2>3. CASE ~single.ok
    <3>1. q = single BY <2>3
    <3> HIDE DEF q, t
    <3>2. Grows(r, single, Place, PlaceRoots, (A \cup B) \cup C, t(r), t(single))
      BY <1>9, <2>3, GrowsWider
    <3> QED BY <1>9, <3>1, <3>2
  <2> QED BY <2>1, <2>2, <2>3
<1> QED BY <1>1, <1>5, <1>12

\* inode_reserve() does no more, and succeeds for no more than a file can hold.
LEMMA ReserveGrows ==
    ASSUME NEW r, Fine(r, InodeEntry), r.ok, Sound(r.map, Place, Tree(r.disk, r.blocks)),
           NEW n \in Nat, NEW q, q = Reserve(r, n)
    PROVE  /\ Fine(q, InodeEntry)
           /\ Grows(r, q, Place, PlaceRoots, Need(n),
                    Tree(r.disk, r.blocks), Tree(q.disk, q.blocks))
           /\ q.ok => n <= Capacity
<1>1. PICK p : p = ReserveBlocks(r, n) OBVIOUS
<1>2. Fine(p, InodeEntry) /\ Grows(r, p, Place, PlaceRoots, Need(n),
                                   Tree(r.disk, r.blocks), Tree(p.disk, p.blocks))
  BY <1>1, BlocksGrow
<1>3. ~(n < 0) OBVIOUS
<1>4. q = [p EXCEPT !.ok = @ /\ n <= Capacity] BY <1>1, <1>3 DEF Reserve
<1>5. p \in Reservation(InodeEntry) BY <1>2 DEF Fine
<1>6. /\ q.map = p.map /\ q.disk = p.disk /\ q.blocks = p.blocks /\ q.full = p.full
      /\ q.ok = (p.ok /\ n <= Capacity)
      /\ q \in Reservation(InodeEntry)
  BY <1>4, <1>5 DEF Reservation
<1>7. Fine(q, InodeEntry) BY <1>2, <1>6 DEF Fine
<1> DEFINE t == Tree(r.disk, r.blocks)
           u == Tree(p.disk, p.blocks)
<1>8. u = Tree(q.disk, q.blocks) BY <1>6
<1>9. Grows(r, p, Place, PlaceRoots, Need(n), t, u) BY <1>2
<1> HIDE DEF t, u
<1>10. Grows(r, q, Place, PlaceRoots, Need(n), t, u)
  <2>1. /\ r.map \subseteq q.map
        /\ \A x \in Place : u[x] # t[x] =>
              /\ t[x] = 0 /\ x \in Need(n) /\ u[x] \in q.map \ r.map
              /\ x \notin PlaceRoots => q.disk[u[x]] = Zeros
        /\ \A x, y \in Place : u[x] = u[y] /\ u[x] \notin r.map => x = y
    BY ONLY <1>6, <1>9 DEF Grows
  <2>2. \A s \in Sector : q.disk[s] # r.disk[s] =>
            \/ s \in q.map \ r.map
            \/ s = 0 /\ q.disk[0] = Zeros /\ q.full
            \/ \E x \in PlaceRoots : s = u[x] /\ s # 0
    BY ONLY <1>6, <1>9 DEF Grows
  <2>3. q.ok => /\ r.ok
                /\ \A y \in Need(n) : u[y] # 0
                /\ \A s \in q.map \ r.map : \E y \in Need(n) : u[y] = s
    BY ONLY <1>6, <1>9 DEF Grows
  <2>4. q.full # r.full => q.full /\ ~q.ok
    BY ONLY <1>6, <1>9 DEF Grows
  <2> QED BY ONLY <2>1, <2>2, <2>3, <2>4 DEF Grows
<1> QED BY <1>6, <1>7, <1>8, <1>10 DEF t

-----------------------------------------------------------------------------
(* Where the sectors of a file are: index_to_sector().                     *)

\* The place of sector k.
Leaf(k) ==
    LET i == k - DIRECT_BLOCKS_COUNT
        j == i - INDIRECT_BLOCKS_PER_SECTOR
    IN  IF i < 0 THEN <<k + 1, 0, 0>>
        ELSE IF j < 0 THEN <<IndirectBlock, i + 1, 0>>
        ELSE <<DoublyIndirectBlock, (j \div INDIRECT_BLOCKS_PER_SECTOR) + 1,
                                    (j % INDIRECT_BLOCKS_PER_SECTOR) + 1>>

\* Division with remainder,
LEMMA DivMod ==
    ASSUME NEW j \in Nat, NEW p \in Nat \ {0}
    PROVE  /\ j \div p \in Nat /\ j % p \in 0 .. p - 1
           /\ j = (j \div p) * p + (j % p)
<1>1. j \div p \in Nat /\ j % p \in 0 .. p - 1 OBVIOUS
<1>2. j % p = j - p * (j \div p) BY SMTT(60)
<1> DEFINE c == j \div p
           e == j % p
<1>3. c \in Nat /\ e \in 0 .. p - 1 /\ e = j - p * c BY <1>1, <1>2
<1> HIDE DEF c, e
<1>4. j = c * p + e BY <1>3
<1> QED BY <1>1, <1>4, Zenon DEF c, e

\* of which there is one.
LEMMA DivModUnique ==
    ASSUME NEW a \in Nat, NEW p \in Nat \ {0}, NEW b \in 0 .. p - 1
    PROVE  a * p + b \in Nat /\ (a * p + b) \div p = a /\ (a * p + b) % p = b
<1>1. a * p \in Nat /\ a * p + b \in Nat OBVIOUS
<1> DEFINE j == a * p + b
           c == j \div p
           e == j % p
<1>2. c \in Nat /\ e \in 0 .. p - 1 /\ j = c * p + e BY <1>1, DivMod
<1> HIDE DEF c, e
<1>3. ~(c < a)
  <2> SUFFICES ASSUME c + 1 <= a PROVE FALSE BY <1>2
  <2>1. (c + 1) * p <= a * p /\ (c + 1) * p \in Int BY <1>2, TimesMonotone
  <2>2. (c + 1) * p = c * p + p /\ c * p \in Int BY <1>2
  <2> QED BY <1>1, <1>2, <2>1, <2>2
<1>4. ~(a < c)
  <2> SUFFICES ASSUME a + 1 <= c PROVE FALSE BY <1>2
  <2>1. (a + 1) * p <= c * p /\ (a + 1) * p \in Int /\ c * p \in Int BY <1>2, TimesMonotone
  <2>2. (a + 1) * p = a * p + p BY <1>1
  <2> QED BY <1>1, <1>2, <2>1, <2>2
<1>5. c = a /\ e = b BY <1>1, <1>2, <1>3, <1>4
<1> QED BY <1>1, <1>5 DEF c, e

\* The leaves below a doubly indirect block.
LEMMA TwigLeaf ==
    ASSUME NEW j \in 0 .. INDIRECT_BLOCKS_PER_SECTOR * INDIRECT_BLOCKS_PER_SECTOR - 1
    PROVE  LET a == (j \div INDIRECT_BLOCKS_PER_SECTOR) + 1
               b == (j % INDIRECT_BLOCKS_PER_SECTOR) + 1
           IN  /\ a \in Pointer /\ b \in Pointer
               /\ j = (a - 1) * INDIRECT_BLOCKS_PER_SECTOR + (b - 1)
<1> DEFINE p == INDIRECT_BLOCKS_PER_SECTOR
           c == j \div p
           e == j % p
<1>1. p \in Nat \ {0} BY PointerNat
<1> HIDE DEF p
<1>2. p * p \in Nat /\ j \in Nat /\ j < p * p BY <1>1 DEF p
<1>3. c \in Nat /\ e \in 0 .. p - 1 /\ j = c * p + e BY <1>1, <1>2, DivMod
<1> HIDE DEF c, e
<1>4. ~(p <= c)
  <2> SUFFICES ASSUME p <= c PROVE FALSE OBVIOUS
  <2>1. p * p <= c * p /\ c * p \in Int BY <1>1, <1>3, TimesMonotone
  <2> QED BY <1>1, <1>2, <1>3, <2>1
<1> QED BY <1>1, <1>3, <1>4 DEF c, e, p, Pointer

\* The longest file is a number of sectors.
LEMMA CapacityNat ==
    /\ Capacity \in Nat
    /\ INDIRECT_BLOCKS_PER_SECTOR * INDIRECT_BLOCKS_PER_SECTOR \in Nat \ {0}
    /\ Capacity = DIRECT_BLOCKS_COUNT + INDIRECT_BLOCKS_PER_SECTOR
                    + INDIRECT_BLOCKS_PER_SECTOR * INDIRECT_BLOCKS_PER_SECTOR
BY BlocksAssumption DEF Capacity

\* The three kinds of leaves.
LEMMA LeafCases ==
    ASSUME NEW k \in 0 .. Capacity - 1
    PROVE  LET i == k - DIRECT_BLOCKS_COUNT
               j == i - INDIRECT_BLOCKS_PER_SECTOR
               a == (j \div INDIRECT_BLOCKS_PER_SECTOR) + 1
               b == (j % INDIRECT_BLOCKS_PER_SECTOR) + 1
           IN  \/ i < 0 /\ k + 1 \in 1 .. DIRECT_BLOCKS_COUNT /\ Leaf(k) = <<k + 1, 0, 0>>
               \/ i >= 0 /\ j < 0 /\ i + 1 \in Pointer /\ Leaf(k) = <<IndirectBlock, i + 1, 0>>
               \/ /\ i >= 0 /\ j >= 0 /\ a \in Pointer /\ b \in Pointer
                  /\ j = (a - 1) * INDIRECT_BLOCKS_PER_SECTOR + (b - 1)
                  /\ j < INDIRECT_BLOCKS_PER_SECTOR * INDIRECT_BLOCKS_PER_SECTOR
                  /\ Leaf(k) = <<DoublyIndirectBlock, a, b>>
<1> DEFINE P == INDIRECT_BLOCKS_PER_SECTOR
           i == k - DIRECT_BLOCKS_COUNT
           j == i - P
<1>1. P \in Nat \ {0} /\ DIRECT_BLOCKS_COUNT \in Nat \ {0} BY SlotFacts
<1>2. P * P \in Nat /\ j < P * P BY <1>1, CapacityNat
<1>3. CASE i < 0 BY <1>1, <1>3 DEF Leaf
<1>4. CASE i >= 0 /\ j < 0
  <2>1. ~(i < 0) /\ i + 1 \in Pointer BY <1>1, <1>4 DEF Pointer
  <2>2. Leaf(k) = <<IndirectBlock, i + 1, 0>> BY <1>4, <2>1 DEF Leaf
  <2> QED BY <1>4, <2>1, <2>2
<1>5. CASE i >= 0 /\ j >= 0
  <2>1. ~(i < 0) /\ ~(j < 0) /\ j \in 0 .. P * P - 1 BY <1>1, <1>2, <1>5
  <2>2. Leaf(k) = <<DoublyIndirectBlock, (j \div P) + 1, (j % P) + 1>> BY <2>1 DEF Leaf
  <2>3. /\ (j \div P) + 1 \in Pointer /\ (j % P) + 1 \in Pointer
        /\ j = (((j \div P) + 1) - 1) * P + (((j % P) + 1) - 1)
    BY <2>1, TwigLeaf
  <2> QED BY <1>2, <1>5, <2>2, <2>3
<1> QED BY <1>1, <1>3, <1>4, <1>5

\* Which places below a doubly indirect block n sectors need.
LEMMA NeedTwig ==
    ASSUME NEW f \in 1 .. INDIRECT_BLOCKS_PER_SECTOR * INDIRECT_BLOCKS_PER_SECTOR,
           NEW j \in Pointer, NEW l \in 0 .. INDIRECT_BLOCKS_PER_SECTOR
    PROVE  <<j, l>> \in NeedTwigs(f, DivUp(f, INDIRECT_BLOCKS_PER_SECTOR))
                <=> /\ (j - 1) * INDIRECT_BLOCKS_PER_SECTOR < f
                    /\ (j - 1) * INDIRECT_BLOCKS_PER_SECTOR + l <= f
<1> DEFINE P == INDIRECT_BLOCKS_PER_SECTOR
           last == DivUp(f, P)
           before == (j - 1) * P
<1>1. P \in Nat \ {0} /\ j \in Nat \ {0} BY PointerNat
<1> HIDE DEF P
<1>2. P * P \in Nat /\ f \in Nat \ {0} BY <1>1 DEF P
<1>3. last \in Nat \ {0} /\ (last - 1) * P < f /\ f <= last * P BY <1>1, <1>2, DivUpOf
<1> HIDE DEF last
<1>4. before \in Int /\ (last - 1) * P \in Int /\ last * P \in Int BY <1>1, <1>3
<1>5. j <= last => before <= (last - 1) * P BY <1>1, <1>3, TimesMonotone
<1>6. last <= j - 1 => last * P <= before BY <1>1, <1>3, TimesMonotone
<1> HIDE DEF before
<1>7. j \in 1 .. last <=> before < f BY <1>1, <1>2, <1>3, <1>4, <1>5, <1>6
<1>8. l \in 0 .. Below(f, j) <=> before + l <= f
  <2>1. Below(f, j) = Least(P, f - before) BY DEF Below, P, before
  <2>2. l \in 0 .. P BY DEF P
  <2> QED BY <1>1, <1>2, <1>4, <2>1, <2>2 DEF Least
<1>9. <<j, l>> \in Twig BY DEF Twig
<1>10. <<j, l>> \in NeedTwigs(f, last) <=> j \in 1 .. last /\ l \in 0 .. Below(f, j)
  BY <1>9 DEF NeedTwigs
<1> QED BY <1>7, <1>8, <1>10 DEF last, P, before

\* The places n sectors of a file need.
LEMMA NeedCases ==
    ASSUME NEW n \in Nat
    PROVE  LET far == n - DIRECT_BLOCKS_COUNT - INDIRECT_BLOCKS_PER_SECTOR IN
           /\ \A i \in 1 .. DIRECT_BLOCKS_COUNT : <<i, 0, 0>> \in Need(n) <=> i <= n
           /\ \A l \in 0 .. INDIRECT_BLOCKS_PER_SECTOR :
                <<IndirectBlock, l, 0>> \in Need(n)
                    <=> n > DIRECT_BLOCKS_COUNT /\ l <= n - DIRECT_BLOCKS_COUNT
           /\ <<DoublyIndirectBlock, 0, 0>> \in Need(n) <=> far > 0
           /\ \A j \in Pointer, l \in 0 .. INDIRECT_BLOCKS_PER_SECTOR :
                <<DoublyIndirectBlock, j, l>> \in Need(n)
                    <=> /\ far > 0 /\ (j - 1) * INDIRECT_BLOCKS_PER_SECTOR < far
                        /\ (j - 1) * INDIRECT_BLOCKS_PER_SECTOR + l <= far
<1> DEFINE P == INDIRECT_BLOCKS_PER_SECTOR
           D == DIRECT_BLOCKS_COUNT
           rest == n - D
           far == rest - P
           some == Least(far, P * P)
<1>1. D \in Nat \ {0} /\ P \in Nat \ {0} /\ P * P \in Nat \ {0} BY BlocksAssumption
<1>2. rest \in Int /\ far \in Int /\ far = n - D - P BY <1>1
<1>3. IndirectBlock \notin 1 .. D /\ DoublyIndirectBlock \notin 1 .. D /\ IndirectBlock # DoublyIndirectBlock
  BY SlotFacts
<1>4. Need(n) = NeedDirect(n) \cup (IF rest > 0 THEN NeedSingle(rest) ELSE {})
                \cup (IF far > 0 THEN NeedDoubly(some) ELSE {})
  BY DEF Need
<1>5. /\ \A y \in NeedDirect(n) : y[1] \in 1 .. D
      /\ \A y \in NeedSingle(rest) : y[1] = IndirectBlock
      /\ \A y \in NeedDoubly(some) : y[1] = DoublyIndirectBlock
  <2>1. \A y \in NeedDirect(n) : y[1] \in 1 .. D
    <3>1. 1 .. Least(n, D) \subseteq 1 .. D BY <1>1 DEF Least
    <3> QED BY <3>1 DEF NeedDirect
  <2> QED BY <2>1 DEF NeedSingle, NeedDoubly
<1>6. ASSUME NEW i \in 1 .. D PROVE <<i, 0, 0>> \in Need(n) <=> i <= n
  <2>1. <<i, 0, 0>> \in Need(n) <=> <<i, 0, 0>> \in NeedDirect(n)
    <3>1. <<i, 0, 0>>[1] = i OBVIOUS
    <3> HIDE DEF far, rest, some, D
    <3> QED BY <1>3, <1>4, <1>5, <1>6, <3>1
  <2>2. <<i, 0, 0>> \in NeedDirect(n) <=> i \in 1 .. Least(n, D) BY DEF NeedDirect
  <2>3. i \in 1 .. Least(n, D) <=> i <= n BY <1>1, <1>6 DEF Least
  <2> QED BY <2>1, <2>2, <2>3
<1>7. ASSUME NEW l \in 0 .. P
      PROVE  <<IndirectBlock, l, 0>> \in Need(n) <=> n > D /\ l <= n - D
  <2>1. <<IndirectBlock, l, 0>> \in Need(n) <=> rest > 0 /\ <<IndirectBlock, l, 0>> \in NeedSingle(rest)
    <3>1. <<IndirectBlock, l, 0>>[1] = IndirectBlock OBVIOUS
    <3> HIDE DEF far, rest, some, D
    <3> QED BY <1>3, <1>4, <1>5, <3>1
  <2>2. <<IndirectBlock, l, 0>> \in NeedSingle(rest) <=> l \in 0 .. Least(rest, P) BY DEF NeedSingle
  <2>3. rest > 0 => (l \in 0 .. Least(rest, P) <=> l <= rest) BY <1>1, <1>2, <1>7 DEF Least
  <2> QED BY <1>1, <2>1, <2>2, <2>3
<1>8. ASSUME NEW x \in Bough
      PROVE  <<DoublyIndirectBlock, x[1], x[2]>> \in Need(n) <=> far > 0 /\ x \in NeedBoughs(some)
  <2>1. <<DoublyIndirectBlock, x[1], x[2]>> \in Need(n)
            <=> far > 0 /\ <<DoublyIndirectBlock, x[1], x[2]>> \in NeedDoubly(some)
    <3>1. <<DoublyIndirectBlock, x[1], x[2]>>[1] = DoublyIndirectBlock OBVIOUS
    <3> HIDE DEF far, rest, some, D
    <3> QED BY <1>3, <1>4, <1>5, <3>1
  <2>2. ASSUME <<DoublyIndirectBlock, x[1], x[2]>> \in NeedDoubly(some) PROVE x \in NeedBoughs(some)
    <3> HIDE DEF some
    <3>1. PICK y \in NeedBoughs(some) :
            <<DoublyIndirectBlock, x[1], x[2]>> = <<DoublyIndirectBlock, y[1], y[2]>>
      BY <2>2 DEF NeedDoubly
    <3>2. x[1] = y[1] /\ x[2] = y[2] BY <3>1
    <3>3. y \in Bough
      <4>1. <<0, 0>> \in Bough /\ Twig \subseteq Bough BY BoughPlaces
      <4> QED BY <4>1 DEF NeedBoughs, NeedTwigs
    <3>4. x = <<x[1], x[2]>> /\ y = <<y[1], y[2]>> BY <1>8, <3>3, PlaceFacts
    <3> QED BY <3>2, <3>4
  <2> QED BY <2>1, <2>2 DEF NeedDoubly
<1>9. <<DoublyIndirectBlock, 0, 0>> \in Need(n) <=> far > 0
  <2>1. <<0, 0>> \in Bough /\ <<0, 0>>[1] = 0 /\ <<0, 0>>[2] = 0 BY BoughPlaces
  <2>2. <<0, 0>> \in NeedBoughs(some) BY DEF NeedBoughs
  <2> HIDE DEF far, some
  <2> QED BY <1>8, <2>1, <2>2
<1>10. ASSUME NEW j \in Pointer, NEW l \in 0 .. P
       PROVE  <<DoublyIndirectBlock, j, l>> \in Need(n)
                <=> far > 0 /\ (j - 1) * P < far /\ (j - 1) * P + l <= far
  <2>1. <<j, l>> \in Bough /\ <<j, l>> # <<0, 0>> /\ <<j, l>>[1] = j /\ <<j, l>>[2] = l
    BY PointerNat, BoughPlaces DEF Twig
  <2>2. <<DoublyIndirectBlock, j, l>> \in Need(n) <=> far > 0 /\ <<j, l>> \in NeedBoughs(some)
    <3> HIDE DEF far, some
    <3> QED BY <1>8, <2>1
  <2>3. <<j, l>> \in NeedBoughs(some) <=> <<j, l>> \in NeedTwigs(some, DivUp(some, P))
    BY <2>1 DEF NeedBoughs
  <2> DEFINE before == (j - 1) * P
  <2>4. before \in Int /\ before + P <= P * P
    <3>1. j \in Nat /\ j <= P BY <1>1 DEF Pointer
    <3>2. j * P <= P * P /\ j * P \in Int BY <1>1, <3>1, TimesMonotone
    <3>3. (j - 1) * P = j * P - P BY <1>1, <3>1
    <3> HIDE DEF before
    <3> QED BY <1>1, <3>2, <3>3 DEF before
  <2>5. ASSUME far > 0 PROVE <<j, l>> \in NeedTwigs(some, DivUp(some, P)) <=> before < far /\ before + l <= far
    <3>1. some \in 1 .. P * P BY <1>1, <1>2, <2>5 DEF Least
    <3>2. <<j, l>> \in NeedTwigs(some, DivUp(some, P)) <=> before < some /\ before + l <= some
      <4> HIDE DEF some
      <4> QED BY <3>1, NeedTwig
    <3>3. l \in Nat /\ l <= P BY <1>1
    <3> HIDE DEF before, far, P
    <3>4. some = far \/ (some = P * P /\ P * P <= far) BY <1>1, <1>2 DEF Least
    <3> HIDE DEF some
    <3> QED BY <1>1, <1>2, <2>4, <3>1, <3>2, <3>3, <3>4
  <2> QED BY <2>2, <2>3, <2>5
<1> QED BY <1>2, <1>6, <1>7, <1>9, <1>10

\* The entries of an index block, with 0 for the block itself.
LEMMA PointerBetween ==
    /\ \A l \in Pointer : l \in 0 .. INDIRECT_BLOCKS_PER_SECTOR /\ l # 0
    /\ \A l \in 0 .. INDIRECT_BLOCKS_PER_SECTOR : l # 0 => l \in Pointer
    /\ 0 \in 0 .. INDIRECT_BLOCKS_PER_SECTOR
BY PointerNat DEF Pointer

\* The places below the doubly indirect block.
LEMMA DoublyPlaces ==
    /\ \A j \in Pointer, l \in 0 .. INDIRECT_BLOCKS_PER_SECTOR :
            /\ <<DoublyIndirectBlock, j, l>> \in Place
            /\ (<<DoublyIndirectBlock, j, l>> \in PlaceRoots <=> l = 0)
    /\ <<DoublyIndirectBlock, 0, 0>> \in Place /\ <<DoublyIndirectBlock, 0, 0>> \in PlaceRoots
    /\ \A x \in Bough : x = <<0, 0>> \/ \E j \in Pointer, l \in 0 .. INDIRECT_BLOCKS_PER_SECTOR : x = <<j, l>>
<1>1. ASSUME NEW j \in Pointer, NEW l \in 0 .. INDIRECT_BLOCKS_PER_SECTOR
      PROVE  /\ <<DoublyIndirectBlock, j, l>> \in Place
             /\ (<<DoublyIndirectBlock, j, l>> \in PlaceRoots <=> l = 0)
  <2>1. <<j, l>> \in Twig /\ <<j, l>> \in Bough /\ <<j, l>>[1] = j /\ <<j, l>>[2] = l
    BY BoughPlaces DEF Twig
  <2>2. <<j, l>> \in BoughRoots <=> l = 0
    <3>1. <<j, l>> \in TwigRoots <=> l = 0 BY DEF TwigRoots
    <3> QED BY <2>1, <3>1, BoughPlaces
  <2>3. /\ <<DoublyIndirectBlock, <<j, l>>[1], <<j, l>>[2]>> \in Place
        /\ (<<DoublyIndirectBlock, <<j, l>>[1], <<j, l>>[2]>> \in PlaceRoots <=> <<j, l>> \in BoughRoots)
    BY <2>1, PlaceFacts
  <2> QED BY <2>1, <2>2, <2>3
<1>2. <<DoublyIndirectBlock, 0, 0>> \in Place /\ <<DoublyIndirectBlock, 0, 0>> \in PlaceRoots
  <2>1. <<0, 0>> \in Bough /\ <<0, 0>> \in BoughRoots /\ <<0, 0>>[1] = 0 /\ <<0, 0>>[2] = 0
    BY BoughPlaces
  <2> QED BY <2>1, PlaceFacts
<1>3. \A x \in Bough : x = <<0, 0>> \/ \E j \in Pointer, l \in 0 .. INDIRECT_BLOCKS_PER_SECTOR : x = <<j, l>>
  BY BoughPlaces DEF Bough
<1> QED BY <1>1, <1>2, <1>3

\* Every place is one of five kinds.
LEMMA PlaceCases ==
    ASSUME NEW x \in Place
    PROVE  \/ \E i \in 1 .. DIRECT_BLOCKS_COUNT : x = <<i, 0, 0>>
           \/ x = <<IndirectBlock, 0, 0>>
           \/ \E l \in Pointer : x = <<IndirectBlock, l, 0>>
           \/ x = <<DoublyIndirectBlock, 0, 0>>
           \/ \E j \in Pointer : x = <<DoublyIndirectBlock, j, 0>>
           \/ \E j, l \in Pointer : x = <<DoublyIndirectBlock, j, l>>
<1>1. CASE \E i \in 1 .. DIRECT_BLOCKS_COUNT : x = <<i, 0, 0>> BY <1>1
<1>2. CASE \E l \in 0 .. INDIRECT_BLOCKS_PER_SECTOR : x = <<IndirectBlock, l, 0>>
  BY <1>2, PointerBetween
<1>3. CASE \E y \in Bough : x = <<DoublyIndirectBlock, y[1], y[2]>>
  <2>1. PICK y \in Bough : x = <<DoublyIndirectBlock, y[1], y[2]>> BY <1>3
  <2>2. CASE y = <<0, 0>> BY <2>1, <2>2
  <2>3. CASE \E j \in Pointer, l \in 0 .. INDIRECT_BLOCKS_PER_SECTOR : y = <<j, l>>
    <3>1. PICK j \in Pointer, l \in 0 .. INDIRECT_BLOCKS_PER_SECTOR : y = <<j, l>> BY <2>3
    <3>2. x = <<DoublyIndirectBlock, j, l>> BY <2>1, <3>1
    <3> QED BY <3>2, PointerBetween
  <2> QED BY <2>2, <2>3, DoublyPlaces
<1> QED BY <1>1, <1>2, <1>3, PlaceFacts

\* A leaf is a place of a sector of data.
LEMMA LeafPlace ==
    ASSUME NEW k \in 0 .. Capacity - 1
    PROVE  Leaf(k) \in Place /\ Leaf(k) \notin PlaceRoots
<1>1. \A l \in Pointer : <<IndirectBlock, l, 0>> \in Place /\ <<IndirectBlock, l, 0>> \notin PlaceRoots
  BY PlaceFacts, PointerBetween
<1>2. \A j, l \in Pointer : <<DoublyIndirectBlock, j, l>> \in Place /\ <<DoublyIndirectBlock, j, l>> \notin PlaceRoots
  BY DoublyPlaces, PointerBetween
<1>3. \A i \in 1 .. DIRECT_BLOCKS_COUNT : <<i, 0, 0>> \in Place /\ <<i, 0, 0>> \notin PlaceRoots
  BY PlaceFacts
<1> QED BY <1>1, <1>2, <1>3, LeafCases

\* Two sectors of a file have different places.
LEMMA LeafInjective ==
    ASSUME NEW k \in 0 .. Capacity - 1, NEW m \in 0 .. Capacity - 1, Leaf(k) = Leaf(m)
    PROVE  k = m
<1> DEFINE D == DIRECT_BLOCKS_COUNT
           P == INDIRECT_BLOCKS_PER_SECTOR
           Kind(n, y) ==
              \/ n - D < 0 /\ n + 1 \in 1 .. D /\ y = <<n + 1, 0, 0>>
              \/ n - D >= 0 /\ n - D - P < 0 /\ n - D + 1 \in Pointer /\ y = <<IndirectBlock, n - D + 1, 0>>
              \/ \E a, b \in Pointer : /\ n - D >= 0 /\ n - D - P >= 0
                                       /\ n - D - P = (a - 1) * P + (b - 1)
                                       /\ y = <<DoublyIndirectBlock, a, b>>
<1>1. D \in Nat \ {0} /\ P \in Nat \ {0} /\ k \in Nat /\ m \in Nat BY CapacityNat, SlotFacts
<1>2. \A n \in 0 .. Capacity - 1 : Kind(n, Leaf(n)) BY LeafCases
<1>3. Kind(k, Leaf(k)) /\ Kind(m, Leaf(k)) BY <1>2
<1>4. \A i \in 1 .. D : i # IndirectBlock /\ i # DoublyIndirectBlock BY SlotFacts
<1>5. IndirectBlock # DoublyIndirectBlock BY SlotFacts
<1> DEFINE y == Leaf(k)
<1> HIDE DEF D, P, y
<1>6. Kind(k, y) /\ Kind(m, y) BY <1>3 DEF y, D, P
<1>7. CASE k - D < 0 /\ k + 1 \in 1 .. D /\ y = <<k + 1, 0, 0>>
  <2>1. m - D < 0 /\ m + 1 \in 1 .. D /\ y = <<m + 1, 0, 0>> BY <1>4, <1>5, <1>6, <1>7
  <2>2. k + 1 = m + 1 BY <1>7, <2>1
  <2> QED BY <1>1, <2>2
<1>8. CASE k - D >= 0 /\ k - D - P < 0 /\ k - D + 1 \in Pointer /\ y = <<IndirectBlock, k - D + 1, 0>>
  <2>1. y = <<IndirectBlock, m - D + 1, 0>> BY <1>4, <1>5, <1>6, <1>8
  <2>2. k - D + 1 = m - D + 1 BY <1>8, <2>1
  <2> QED BY <1>1, <2>2
<1>9. CASE \E a, b \in Pointer : /\ k - D >= 0 /\ k - D - P >= 0
                                 /\ k - D - P = (a - 1) * P + (b - 1)
                                 /\ y = <<DoublyIndirectBlock, a, b>>
  <2>1. PICK a \in Pointer, b \in Pointer : k - D - P = (a - 1) * P + (b - 1) /\ y = <<DoublyIndirectBlock, a, b>>
    BY <1>9
  <2>2. PICK c \in Pointer, d \in Pointer : m - D - P = (c - 1) * P + (d - 1) /\ y = <<DoublyIndirectBlock, c, d>>
    BY <1>4, <1>5, <1>6, <2>1
  <2>3. a = c /\ b = d BY <2>1, <2>2
  <2>4. k - D - P = m - D - P BY <2>1, <2>2, <2>3
  <2> QED BY <1>1, <2>4
<1> QED BY <1>6, <1>7, <1>8, <1>9

\* The first n sectors have places among those that n sectors need, and there is
\* no other place for data among them.
LEMMA LeafNeeded ==
    ASSUME NEW n \in Nat, NEW k \in 0 .. Capacity - 1
    PROVE  Leaf(k) \in Need(n) <=> k < n
<1> DEFINE D == DIRECT_BLOCKS_COUNT
           P == INDIRECT_BLOCKS_PER_SECTOR
           i == k - D
           j == i - P
           a == (j \div P) + 1
           b == (j % P) + 1
<1>1. D \in Nat \ {0} /\ P \in Nat \ {0} /\ k \in Nat BY CapacityNat, SlotFacts
<1>2. CASE i < 0 /\ k + 1 \in 1 .. D /\ Leaf(k) = <<k + 1, 0, 0>>
  <2>1. Leaf(k) \in Need(n) <=> k + 1 <= n BY <1>2, NeedCases
  <2> QED BY <1>1, <2>1
<1>3. CASE i >= 0 /\ j < 0 /\ i + 1 \in Pointer /\ Leaf(k) = <<IndirectBlock, i + 1, 0>>
  <2>1. Leaf(k) \in Need(n) <=> n > D /\ i + 1 <= n - D BY <1>3, NeedCases, PointerBetween
  <2> QED BY <1>1, <1>3, <2>1
<1>4. CASE /\ i >= 0 /\ j >= 0 /\ a \in Pointer /\ b \in Pointer
           /\ j = (a - 1) * P + (b - 1) /\ Leaf(k) = <<DoublyIndirectBlock, a, b>>
  <2> DEFINE before == (a - 1) * P
  <2> HIDE DEF a, b
  <2>1. Leaf(k) \in Need(n) <=> n - D - P > 0 /\ before < n - D - P /\ before + b <= n - D - P
    BY <1>4, NeedCases, PointerBetween
  <2>2. a \in Nat \ {0} /\ b \in Nat \ {0} BY <1>4, PointerNat
  <2>3. before \in Nat BY <1>1, <2>2
  <2>4. j = before + (b - 1) BY <1>4
  <2> HIDE DEF before
  <2> QED BY <1>1, <2>1, <2>2, <2>3, <2>4
<1> QED BY <1>2, <1>3, <1>4, LeafCases

\* A place that is no index block is a sector of the data.
LEMMA NeededLeaf ==
    ASSUME NEW x \in Place, x \notin PlaceRoots
    PROVE  \E k \in 0 .. Capacity - 1 : x = Leaf(k)
<1> DEFINE D == DIRECT_BLOCKS_COUNT
           P == INDIRECT_BLOCKS_PER_SECTOR
<1>1. D \in Nat \ {0} /\ P \in Nat \ {0} /\ P * P \in Nat /\ Capacity = D + P + P * P
  BY CapacityNat, SlotFacts
<1>2. CASE \E i \in 1 .. D : x = <<i, 0, 0>>
  <2>1. PICK i \in 1 .. D : x = <<i, 0, 0>> BY <1>2
  <2>2. i - 1 \in 0 .. Capacity - 1 BY <1>1
  <2>3. (i - 1) - D < 0 /\ (i - 1) + 1 = i BY <1>1
  <2>4. Leaf(i - 1) = x BY <2>1, <2>3 DEF Leaf
  <2> QED BY <2>2, <2>4
<1>3. CASE \E l \in Pointer : x = <<IndirectBlock, l, 0>>
  <2>1. PICK l \in Pointer : x = <<IndirectBlock, l, 0>> BY <1>3
  <2>2. l \in 1 .. P BY DEF Pointer
  <2> DEFINE k == D + l - 1
  <2>3. k \in 0 .. Capacity - 1 /\ k - D = l - 1 /\ ~(k - D < 0) /\ (k - D) - P < 0 /\ (l - 1) + 1 = l
    BY <1>1, <2>2
  <2> HIDE DEF k
  <2>4. Leaf(k) = x BY <2>1, <2>3 DEF Leaf
  <2> QED BY <2>3, <2>4
<1>4. CASE \E a, b \in Pointer : x = <<DoublyIndirectBlock, a, b>>
  <2>1. PICK a \in Pointer, b \in Pointer : x = <<DoublyIndirectBlock, a, b>> BY <1>4
  <2>2. a - 1 \in Nat /\ b - 1 \in 0 .. P - 1 /\ a - 1 <= P - 1 /\ (a - 1) + 1 = a /\ (b - 1) + 1 = b
    BY <1>1 DEF Pointer
  <2> DEFINE j == (a - 1) * P + (b - 1)
             k == D + P + j
  <2>3. j \in Nat /\ j \div P = a - 1 /\ j % P = b - 1 BY <1>1, <2>2, DivModUnique
  <2>4. j <= P * P - 1
    <3>1. (a - 1) * P <= (P - 1) * P /\ (a - 1) * P \in Int /\ (P - 1) * P \in Int
      BY <1>1, <2>2, TimesMonotone
    <3>2. (P - 1) * P = P * P - P BY <1>1
    <3> QED BY <1>1, <2>2, <3>1, <3>2
  <2> HIDE DEF j
  <2>5. k \in 0 .. Capacity - 1 /\ ~(k - D < 0) /\ (k - D) - P = j /\ ~((k - D) - P < 0)
    BY <1>1, <2>3, <2>4
  <2> HIDE DEF k
  <2>6. Leaf(k) = <<DoublyIndirectBlock, (j \div P) + 1, (j % P) + 1>> BY <2>5 DEF Leaf
  <2>7. Leaf(k) = x BY <2>1, <2>2, <2>3, <2>6
  <2> QED BY <2>5, <2>7
<1>5. <<IndirectBlock, 0, 0>> \in PlaceRoots /\ <<DoublyIndirectBlock, 0, 0>> \in PlaceRoots
      /\ \A j \in Pointer : <<DoublyIndirectBlock, j, 0>> \in PlaceRoots
  BY PlaceFacts, DoublyPlaces, PointerBetween
<1> QED BY <1>2, <1>3, <1>4, <1>5, PlaceCases

\* index_to_sector() reads the tree at the leaf.
LEMMA SectorAtTree ==
    ASSUME NEW dsk, NEW b, NEW k \in 0 .. Capacity - 1
    PROVE  SectorAt(dsk, b, k) = Tree(dsk, b)[Leaf(k)]
<1> DEFINE D == DIRECT_BLOCKS_COUNT
           P == INDIRECT_BLOCKS_PER_SECTOR
           i == k - D
           j == i - P
           x1 == (j \div P) + 1
           x2 == (j % P) + 1
<1>1. D \in Nat \ {0} /\ P \in Nat \ {0} BY SlotFacts
<1>2. CASE i < 0 /\ k + 1 \in 1 .. D /\ Leaf(k) = <<k + 1, 0, 0>>
  <2>1. SectorAt(dsk, b, k) = b[k + 1] BY <1>2 DEF SectorAt
  <2> QED BY <1>2, <2>1, TreeAt
<1>3. CASE i >= 0 /\ j < 0 /\ i + 1 \in Pointer /\ Leaf(k) = <<IndirectBlock, i + 1, 0>>
  <2>1. ~(i < 0) BY <1>1, <1>3
  <2>2. SectorAt(dsk, b, k) = BlocksOf(dsk[b[IndirectBlock]])[i + 1] BY <1>3, <2>1 DEF SectorAt
  <2>3. i + 1 \in 0 .. P /\ i + 1 # 0 BY <1>3, PointerBetween
  <2>4. Tree(dsk, b)[Leaf(k)] = Branch(dsk, b[IndirectBlock])[i + 1] BY <1>3, <2>3, TreeAt
  <2> QED BY <2>2, <2>3, <2>4 DEF Branch
<1>4. CASE /\ i >= 0 /\ j >= 0 /\ x1 \in Pointer /\ x2 \in Pointer
           /\ Leaf(k) = <<DoublyIndirectBlock, x1, x2>>
  <2> DEFINE e == b[DoublyIndirectBlock]
  <2>1. ~(i < 0) /\ ~(j < 0) BY <1>1, <1>4
  <2>2. SectorAt(dsk, b, k) = BlocksOf(dsk[BlocksOf(dsk[e])[x1]])[x2] BY <2>1 DEF SectorAt
  <2> HIDE DEF x1, x2, e
  <2>3. x2 \in 0 .. P /\ x2 # 0 BY <1>4, PointerBetween
  <2>4. <<x1, x2>> \in Twig BY <1>4, <2>3 DEF Twig
  <2>5. <<x1, x2>> \in Bough /\ <<x1, x2>> # <<0, 0>> /\ <<x1, x2>>[1] = x1 /\ <<x1, x2>>[2] = x2
    BY <2>4, BoughPlaces
  <2>6. Tree(dsk, b)[<<DoublyIndirectBlock, <<x1, x2>>[1], <<x1, x2>>[2]>>] = Boughs(dsk, e)[<<x1, x2>>]
    BY <2>5, TreeAt DEF e
  <2>7. Boughs(dsk, e)[<<x1, x2>>] = Twigs(dsk, BlocksOf(dsk[e]))[<<x1, x2>>] BY <2>5 DEF Boughs
  <2>8. Twigs(dsk, BlocksOf(dsk[e]))[<<x1, x2>>] = Branch(dsk, BlocksOf(dsk[e])[x1])[x2]
    BY <2>4, <2>5 DEF Twigs
  <2>9. Branch(dsk, BlocksOf(dsk[e])[x1])[x2] = BlocksOf(dsk[BlocksOf(dsk[e])[x1]])[x2]
    BY <2>3 DEF Branch
  <2> QED BY <1>4, <2>2, <2>5, <2>6, <2>7, <2>8, <2>9
<1> QED BY <1>2, <1>3, <1>4, LeafCases

\* The roots among the places.
LEMMA TreeRootsAt ==
    ASSUME NEW dsk, NEW b
    PROVE  /\ Tree(dsk, b)[<<IndirectBlock, 0, 0>>] = b[IndirectBlock]
           /\ Tree(dsk, b)[<<DoublyIndirectBlock, 0, 0>>] = b[DoublyIndirectBlock]
           /\ \A j \in Pointer : Tree(dsk, b)[<<DoublyIndirectBlock, j, 0>>]
                                    = BlocksOf(dsk[b[DoublyIndirectBlock]])[j]
<1> DEFINE e == b[DoublyIndirectBlock]
<1>1. Tree(dsk, b)[<<IndirectBlock, 0, 0>>] = b[IndirectBlock]
  BY TreeAt, PointerBetween DEF Branch
<1>2. \A x \in Bough : Tree(dsk, b)[<<DoublyIndirectBlock, x[1], x[2]>>] = Boughs(dsk, e)[x] BY TreeAt
<1>3. Tree(dsk, b)[<<DoublyIndirectBlock, 0, 0>>] = e
  <2>1. <<0, 0>> \in Bough /\ <<0, 0>>[1] = 0 /\ <<0, 0>>[2] = 0 BY BoughPlaces
  <2> HIDE DEF e
  <2>2. Tree(dsk, b)[<<DoublyIndirectBlock, 0, 0>>] = Boughs(dsk, e)[<<0, 0>>] BY <1>2, <2>1
  <2> QED BY <2>1, <2>2 DEF Boughs
<1>4. ASSUME NEW j \in Pointer
      PROVE  Tree(dsk, b)[<<DoublyIndirectBlock, j, 0>>] = BlocksOf(dsk[e])[j]
  <2> HIDE DEF e
  <2>1. <<j, 0>> \in Twig BY PointerBetween DEF Twig
  <2>2. <<j, 0>> \in Bough /\ <<j, 0>> # <<0, 0>> /\ <<j, 0>>[1] = j /\ <<j, 0>>[2] = 0
    BY <2>1, BoughPlaces
  <2>3. Tree(dsk, b)[<<DoublyIndirectBlock, j, 0>>] = Boughs(dsk, e)[<<j, 0>>] BY <1>2, <2>2
  <2>4. Boughs(dsk, e)[<<j, 0>>] = Branch(dsk, BlocksOf(dsk[e])[j])[0] BY <2>1, <2>2 DEF Boughs, Twigs
  <2> QED BY <2>3, <2>4, PointerBetween DEF Branch
<1> QED BY <1>1, <1>3, <1>4

\* More sectors need more places.
LEMMA NeedMonotone ==
    ASSUME NEW m \in Nat, NEW n \in Nat, m <= n
    PROVE  Need(m) \subseteq Need(n)
<1> SUFFICES ASSUME NEW x \in Need(m) PROVE x \in Need(n)
  OBVIOUS
<1> DEFINE D == DIRECT_BLOCKS_COUNT
           P == INDIRECT_BLOCKS_PER_SECTOR
<1>1. x \in Place BY NeedPlaces
<1>2. D \in Nat \ {0} /\ P \in Nat \ {0} BY SlotFacts
<1>3. CASE \E i \in 1 .. D : x = <<i, 0, 0>>
  <2>1. PICK i \in 1 .. D : x = <<i, 0, 0>> BY <1>3
  <2>2. x \in Need(m) <=> i <= m BY <2>1, NeedCases
  <2>3. x \in Need(n) <=> i <= n BY <2>1, NeedCases
  <2> QED BY <2>2, <2>3
<1>4. CASE \E l \in 0 .. P : x = <<IndirectBlock, l, 0>>
  <2>1. PICK l \in 0 .. P : x = <<IndirectBlock, l, 0>> BY <1>4
  <2>2. x \in Need(m) <=> m > D /\ l <= m - D BY <2>1, NeedCases
  <2>3. x \in Need(n) <=> n > D /\ l <= n - D BY <2>1, NeedCases
  <2> QED BY <1>2, <2>2, <2>3
<1>5. CASE x = <<DoublyIndirectBlock, 0, 0>>
  <2>1. x \in Need(m) <=> m - D - P > 0 BY <1>5, NeedCases
  <2>2. x \in Need(n) <=> n - D - P > 0 BY <1>5, NeedCases
  <2> QED BY <1>2, <2>1, <2>2
<1>6. CASE \E j \in Pointer, l \in 0 .. P : x = <<DoublyIndirectBlock, j, l>>
  <2>1. PICK j \in Pointer, l \in 0 .. P : x = <<DoublyIndirectBlock, j, l>> BY <1>6
  <2> DEFINE before == (j - 1) * P
  <2>2. x \in Need(m) <=> m - D - P > 0 /\ before < m - D - P /\ before + l <= m - D - P
    BY <2>1, NeedCases
  <2>3. x \in Need(n) <=> n - D - P > 0 /\ before < n - D - P /\ before + l <= n - D - P
    BY <2>1, NeedCases
  <2>4. before \in Int /\ l \in Nat BY <1>2, PointerNat
  <2> HIDE DEF before
  <2> QED BY <1>2, <2>2, <2>3, <2>4
<1> QED BY <1>1, <1>3, <1>4, <1>5, <1>6, PlaceCases, PointerBetween

\* The index blocks inode_deallocate() releases are those that are needed.
LEMMA IndexTree ==
    ASSUME NEW dsk, NEW d, d.length \in 0 .. Capacity, NEW s
    PROVE  s \in IndexSectors(dsk, d)
                <=> \E x \in Need(d.length) : x \in PlaceRoots /\ Tree(dsk, d.blocks)[x] = s
<1> DEFINE D == DIRECT_BLOCKS_COUNT
           P == INDIRECT_BLOCKS_PER_SECTOR
           n == d.length
           rest == n - D
           far == rest - P
           t == Tree(dsk, d.blocks)
           e == d.blocks[DoublyIndirectBlock]
           last == DivUp(far, P)
<1>1. /\ D \in Nat \ {0} /\ P \in Nat \ {0} /\ n \in Nat /\ rest \in Int /\ far \in Int
      /\ P * P \in Nat /\ far <= P * P /\ (n > D <=> rest > 0) /\ far = n - D - P
  BY CapacityNat, SlotFacts
<1>2. /\ t[<<IndirectBlock, 0, 0>>] = d.blocks[IndirectBlock]
      /\ t[<<DoublyIndirectBlock, 0, 0>>] = e
      /\ \A j \in Pointer : t[<<DoublyIndirectBlock, j, 0>>] = BlocksOf(dsk[e])[j]
  BY TreeRootsAt
<1>3. <<IndirectBlock, 0, 0>> \in Need(n) <=> rest > 0
  <2>1. <<IndirectBlock, 0, 0>> \in Need(n) <=> n > D /\ 0 <= n - D BY <1>1, NeedCases, PointerBetween
  <2> QED BY <1>1, <2>1
<1>4. <<DoublyIndirectBlock, 0, 0>> \in Need(n) <=> far > 0 BY <1>1, NeedCases
<1>5. ASSUME NEW j \in Pointer
      PROVE  <<DoublyIndirectBlock, j, 0>> \in Need(n) <=> far > 0 /\ j \in 1 .. last
  <2> DEFINE before == (j - 1) * P
  <2>1. <<DoublyIndirectBlock, j, 0>> \in Need(n) <=> far > 0 /\ before < far /\ before + 0 <= far
    BY <1>1, NeedCases, PointerBetween
  <2>2. j \in Nat \ {0} BY PointerNat
  <2>3. ASSUME far > 0 PROVE before < far <=> j \in 1 .. last
    <3>1. last \in Nat \ {0} /\ (last - 1) * P < far /\ far <= last * P BY <1>1, <2>3, DivUpOf
    <3> HIDE DEF last, far
    <3>2. before \in Int /\ (last - 1) * P \in Int /\ last * P \in Int BY <1>1, <2>2, <3>1
    <3>3. j <= last => before <= (last - 1) * P BY <1>1, <2>2, <3>1, TimesMonotone
    <3>4. last <= j - 1 => last * P <= before BY <1>1, <2>2, <3>1, TimesMonotone
    <3> HIDE DEF before
    <3> QED BY <1>1, <2>2, <3>1, <3>2, <3>3, <3>4
  <2>4. before \in Int BY <1>1, <2>2
  <2> HIDE DEF before, last, far
  <2> QED BY <1>1, <2>1, <2>3, <2>4
<1>6. far > 0 => 1 .. last \subseteq Pointer
  <2> SUFFICES ASSUME far > 0 PROVE 1 .. last \subseteq Pointer
    OBVIOUS
  <2>1. far \in 1 .. P * P BY <1>1
  <2>2. last \in Pointer BY <2>1, BelowOf
  <2> HIDE DEF last
  <2> QED BY <1>1, <2>2 DEF Pointer
<1>7. s \in IndexSectors(dsk, d) <=> \/ rest > 0 /\ s = d.blocks[IndirectBlock]
                                     \/ far > 0 /\ s = e
                                     \/ far > 0 /\ \E j \in 1 .. last : s = BlocksOf(dsk[e])[j]
  BY DEF IndexSectors
<1>8. /\ <<IndirectBlock, 0, 0>> \in PlaceRoots /\ <<DoublyIndirectBlock, 0, 0>> \in PlaceRoots
      /\ \A j \in Pointer : <<DoublyIndirectBlock, j, 0>> \in PlaceRoots
  BY PlaceFacts, DoublyPlaces, PointerBetween
<1> HIDE DEF rest, far, last, t, e, D, P
<1>9. ASSUME s \in IndexSectors(dsk, d) PROVE \E x \in Need(n) : x \in PlaceRoots /\ t[x] = s
  BY <1>2, <1>3, <1>4, <1>5, <1>6, <1>7, <1>8, <1>9
<1>10. ASSUME NEW x \in Need(n), x \in PlaceRoots, t[x] = s PROVE s \in IndexSectors(dsk, d)
  <2>1. x \in Place BY <1>1, NeedPlaces
  <2>2. \/ x = <<IndirectBlock, 0, 0>> \/ x = <<DoublyIndirectBlock, 0, 0>>
        \/ \E j \in Pointer : x = <<DoublyIndirectBlock, j, 0>>
    <3>1. \A i \in 1 .. DIRECT_BLOCKS_COUNT : <<i, 0, 0>> \notin PlaceRoots BY PlaceFacts
    <3>2. \A l \in Pointer : <<IndirectBlock, l, 0>> \notin PlaceRoots BY PlaceFacts, PointerBetween
    <3>3. \A j, l \in Pointer : <<DoublyIndirectBlock, j, l>> \notin PlaceRoots
      BY DoublyPlaces, PointerBetween
    <3> QED BY <1>10, <2>1, <3>1, <3>2, <3>3, PlaceCases
  <2> QED BY <1>2, <1>3, <1>4, <1>5, <1>7, <1>10, <2>2
<1> QED BY <1>9, <1>10 DEF t

\* One of the sectors that n sectors of a file need.
Needed(dsk, d, s) == \E x \in Need(d.length) : Tree(dsk, d.blocks)[x] = s

\* ... and Sectors are the sectors at all the places that are needed: what
\* inode_deallocate() releases is what the length needs.
LEMMA SectorsNeeded ==
    ASSUME NEW dsk, NEW d, d.length \in 0 .. Capacity
    PROVE  \A s : s \in Sectors(dsk, d) <=> Needed(dsk, d, s)
<1> SUFFICES ASSUME NEW s PROVE s \in Sectors(dsk, d) <=> Needed(dsk, d, s)
  OBVIOUS
<1> DEFINE t == Tree(dsk, d.blocks)
<1>1. Capacity \in Nat /\ d.length \in Nat BY CapacityNat
<1>2. \A k \in 0 .. d.length - 1 : k \in 0 .. Capacity - 1 BY <1>1
<1>3. ASSUME NEW k \in 0 .. d.length - 1
      PROVE  Leaf(k) \in Need(d.length) /\ SectorAt(dsk, d.blocks, k) = t[Leaf(k)]
  BY <1>1, <1>2, LeafNeeded, SectorAtTree
<1>4. s \in Sectors(dsk, d) <=> \/ \E k \in 0 .. d.length - 1 : SectorAt(dsk, d.blocks, k) = s
                                \/ s \in IndexSectors(dsk, d)
  BY DEF Sectors
<1>5. s \in IndexSectors(dsk, d) <=> \E x \in Need(d.length) : x \in PlaceRoots /\ t[x] = s
  BY IndexTree
<1> HIDE DEF t
<1>6. ASSUME NEW x \in Need(d.length), x \notin PlaceRoots
      PROVE  \E k \in 0 .. d.length - 1 : x = Leaf(k)
  <2>1. x \in Place BY <1>1, NeedPlaces
  <2>2. PICK k \in 0 .. Capacity - 1 : x = Leaf(k) BY <1>6, <2>1, NeededLeaf
  <2>3. k < d.length BY <1>1, <1>6, <2>2, LeafNeeded
  <2> QED BY <1>1, <2>2, <2>3
<1> QED BY <1>3, <1>4, <1>5, <1>6 DEF t, Needed

-----------------------------------------------------------------------------
(* One file on the disk.                                                   *)

FileData == [length : 0 .. Capacity, blocks : Blocks]

\* The inode on the disk names what the one in memory, d, has for its length: a
\* write that failed has added to the one in memory only.
OnDisk(dsk, i, d) ==
    \E e \in FileData :
        /\ dsk[i] = Inode(e) /\ e.length = d.length
        /\ \A y \in InodeEntry : e.blocks[y] \in {0, d.blocks[y]}
        /\ \A x \in Need(d.length) : e.blocks[x[1]] = d.blocks[x[1]]

\* The sectors of file i with the data d: its inode, and what its places hold,
\* also past its end.
Owned(dsk, i, d) ==
    {i} \cup {s \in Sector : s # 0 /\ \E x \in Place : Tree(dsk, d.blocks)[x] = s}

\* In the place of a content nothing is promised of.
Lost == <<System>>

\* A file with the data d holds the content c, and zeros past its end.
Kept(dsk, d, c) ==
    LET t == Tree(dsk, d.blocks) IN
    /\ \A k \in d.length .. Capacity - 1 : t[Leaf(k)] # 0 => dsk[t[Leaf(k)]] = Zeros
    /\ c = [k \in 1 .. d.length |-> dsk[t[Leaf(k - 1)]]]

\* File i has the data d, and holds the content c unless that is lost.
FileBody(mp, dsk, i, d, c) ==
    LET t == Tree(dsk, d.blocks) IN
    /\ d \in FileData
    /\ i \in mp \ Reserved
    /\ Sound(mp, Place, t)
    /\ \A x \in Place : t[x] # i /\ (t[x] # 0 => t[x] \notin Reserved)
    /\ \A x \in Need(d.length) : t[x] # 0
    /\ c # Lost => Kept(dsk, d, c)
FileSound(mp, dsk, i, d, c) == FileBody(mp, dsk, i, d, c) /\ OnDisk(dsk, i, d)

\* The places of the index blocks.
LEMMA PlaceRootAt ==
    /\ PlaceRoots \subseteq Place
    /\ <<IndirectBlock, 0, 0>> \in PlaceRoots /\ <<DoublyIndirectBlock, 0, 0>> \in PlaceRoots
    /\ \A j \in Pointer : <<DoublyIndirectBlock, j, 0>> \in PlaceRoots
BY PlaceFacts, DoublyPlaces, PointerBetween

\* What a tree is made of is sectors.
LEMMA TreeType ==
    ASSUME NEW dsk \in [Sector -> Block], NEW b \in Blocks
    PROVE  Tree(dsk, b) \in [Place -> Sector]
<1> DEFINE f == b[IndirectBlock]
           e == b[DoublyIndirectBlock]
<1>1. f \in Sector /\ e \in Sector /\ \A i \in 1 .. DIRECT_BLOCKS_COUNT : b[i] \in Sector
  BY SlotFacts
<1>2. BlocksOf(dsk[e]) \in [Pointer -> Sector] BY <1>1, BranchType
<1>3. Branch(dsk, f) \in [0 .. INDIRECT_BLOCKS_PER_SECTOR -> Sector] BY <1>1, BranchType
<1>4. ASSUME NEW x \in Bough PROVE Boughs(dsk, e)[x] \in Sector
  <2>1. CASE x = <<0, 0>> BY <1>1, <2>1, BoughPlaces DEF Boughs
  <2>2. CASE x # <<0, 0>>
    <3>1. PICK j \in Pointer, l \in 0 .. INDIRECT_BLOCKS_PER_SECTOR : x = <<j, l>>
      BY <2>2, DoublyPlaces
    <3>2. x \in Twig BY <3>1 DEF Twig
    <3>3. Boughs(dsk, e)[x] = Branch(dsk, BlocksOf(dsk[e])[j])[l]
      BY <2>2, <3>1, <3>2 DEF Boughs, Twigs
    <3>4. BlocksOf(dsk[e])[j] \in Sector BY <1>2
    <3>5. Branch(dsk, BlocksOf(dsk[e])[j]) \in [0 .. INDIRECT_BLOCKS_PER_SECTOR -> Sector]
      BY <3>4, BranchType
    <3> QED BY <3>3, <3>5
  <2> QED BY <2>1, <2>2
<1>5. ASSUME NEW x \in Place PROVE Tree(dsk, b)[x] \in Sector
  <2>1. CASE \E i \in 1 .. DIRECT_BLOCKS_COUNT : x = <<i, 0, 0>> BY <1>1, <2>1, TreeAt
  <2>2. CASE \E l \in 0 .. INDIRECT_BLOCKS_PER_SECTOR : x = <<IndirectBlock, l, 0>>
    <3>1. PICK l \in 0 .. INDIRECT_BLOCKS_PER_SECTOR : x = <<IndirectBlock, l, 0>> BY <2>2
    <3>2. Tree(dsk, b)[x] = Branch(dsk, f)[l] BY <3>1, TreeAt
    <3> QED BY <1>3, <3>2
  <2>3. CASE \E y \in Bough : x = <<DoublyIndirectBlock, y[1], y[2]>> BY <1>4, <2>3, TreeAt
  <2> QED BY <2>1, <2>2, <2>3, PlaceFacts
<1> QED BY <1>5 DEF Tree

\* A tree is the same as long as its blocks of pointers are.
LEMMA TreeFrame ==
    ASSUME NEW dsk \in [Sector -> Block], NEW old \in [Sector -> Block], NEW b \in Blocks,
           \A x \in PlaceRoots : BlocksOf(dsk[Tree(old, b)[x]]) = BlocksOf(old[Tree(old, b)[x]])
    PROVE  Tree(dsk, b) = Tree(old, b)
<1> DEFINE f == b[IndirectBlock]
           e == b[DoublyIndirectBlock]
<1>1. f \in Sector /\ e \in Sector BY SlotFacts
<1>2. /\ Tree(old, b)[<<IndirectBlock, 0, 0>>] = f
      /\ Tree(old, b)[<<DoublyIndirectBlock, 0, 0>>] = e
      /\ \A j \in Pointer : Tree(old, b)[<<DoublyIndirectBlock, j, 0>>] = BlocksOf(old[e])[j]
  BY TreeRootsAt
<1>3. /\ BlocksOf(dsk[f]) = BlocksOf(old[f]) /\ BlocksOf(dsk[e]) = BlocksOf(old[e])
      /\ \A j \in Pointer : BlocksOf(dsk[BlocksOf(old[e])[j]]) = BlocksOf(old[BlocksOf(old[e])[j]])
  BY <1>2, PlaceRootAt
<1>4. Branch(dsk, f) = Branch(old, f) BY <1>3 DEF Branch
<1>5. BlocksOf(old[e]) \in [Pointer -> Sector] BY <1>1, BranchType
<1>6. Boughs(dsk, e) = Boughs(old, e) BY <1>3, <1>5, BoughsSame
<1> QED BY <1>4, <1>6, TreeSame

\* Below no block there is none.
LEMMA ZeroTrees ==
    ASSUME NEW dsk, BlocksOf(dsk[0]) = NoBlocks
    PROVE  /\ \A l \in 0 .. INDIRECT_BLOCKS_PER_SECTOR : Branch(dsk, 0)[l] = 0
           /\ \A y \in Bough : Boughs(dsk, 0)[y] = 0
<1>1. NoBlocks = [l \in Pointer |-> 0] BY DEF NoBlocks, Pointer
<1>2. \A l \in 0 .. INDIRECT_BLOCKS_PER_SECTOR : Branch(dsk, 0)[l] = 0
  BY <1>1, PointerBetween DEF Branch
<1>3. ASSUME NEW y \in Bough PROVE Boughs(dsk, 0)[y] = 0
  <2>1. CASE y = <<0, 0>> BY <2>1, BoughPlaces DEF Boughs
  <2>2. CASE y # <<0, 0>>
    <3>1. PICK j \in Pointer, l \in 0 .. INDIRECT_BLOCKS_PER_SECTOR : y = <<j, l>>
      BY <2>2, DoublyPlaces
    <3>2. y \in Twig BY <3>1 DEF Twig
    <3>3. Boughs(dsk, 0)[y] = Branch(dsk, BlocksOf(dsk[0])[j])[l]
      BY <2>2, <3>1, <3>2 DEF Boughs, Twigs
    <3>4. BlocksOf(dsk[0])[j] = 0 BY <1>1
    <3> QED BY <1>2, <3>3, <3>4
  <2> QED BY <2>1, <2>2
<1> QED BY <1>2, <1>3

\* Where inodes name a part of the blocks, they lead to a part of the places.
LEMMA TreeLess ==
    ASSUME NEW dsk \in [Sector -> Block], BlocksOf(dsk[0]) = NoBlocks,
           NEW b \in Blocks, NEW c \in Blocks, \A y \in InodeEntry : c[y] \in {0, b[y]}
    PROVE  \A x \in Place : /\ x[1] \in InodeEntry
                            /\ Tree(dsk, c)[x] \in {0, Tree(dsk, b)[x]}
                            /\ c[x[1]] = b[x[1]] => Tree(dsk, c)[x] = Tree(dsk, b)[x]
<1> SUFFICES ASSUME NEW x \in Place
             PROVE  /\ x[1] \in InodeEntry
                    /\ Tree(dsk, c)[x] \in {0, Tree(dsk, b)[x]}
                    /\ c[x[1]] = b[x[1]] => Tree(dsk, c)[x] = Tree(dsk, b)[x]
  OBVIOUS
<1>1. /\ \A l \in 0 .. INDIRECT_BLOCKS_PER_SECTOR : Branch(dsk, 0)[l] = 0
      /\ \A y \in Bough : Boughs(dsk, 0)[y] = 0
  BY ZeroTrees
<1>2. CASE \E i \in 1 .. DIRECT_BLOCKS_COUNT : x = <<i, 0, 0>>
  <2>1. PICK i \in 1 .. DIRECT_BLOCKS_COUNT : x = <<i, 0, 0>> BY <1>2
  <2>2. x[1] = i /\ i \in InodeEntry BY <2>1, SlotFacts
  <2>3. Tree(dsk, c)[x] = c[i] BY <2>1, TreeAt
  <2>4. Tree(dsk, b)[x] = b[i] BY <2>1, TreeAt
  <2> QED BY <2>2, <2>3, <2>4
<1>3. CASE \E l \in 0 .. INDIRECT_BLOCKS_PER_SECTOR : x = <<IndirectBlock, l, 0>>
  <2>1. PICK l \in 0 .. INDIRECT_BLOCKS_PER_SECTOR : x = <<IndirectBlock, l, 0>> BY <1>3
  <2>2. x[1] = IndirectBlock /\ IndirectBlock \in InodeEntry BY <2>1, SlotFacts
  <2>3. Tree(dsk, c)[x] = Branch(dsk, c[IndirectBlock])[l] BY <2>1, TreeAt
  <2>4. Tree(dsk, b)[x] = Branch(dsk, b[IndirectBlock])[l] BY <2>1, TreeAt
  <2>5. CASE c[IndirectBlock] = b[IndirectBlock] BY <2>2, <2>3, <2>4, <2>5
  <2>6. CASE c[IndirectBlock] = 0 /\ c[IndirectBlock] # b[IndirectBlock] BY <1>1, <2>2, <2>3, <2>6
  <2> QED BY <2>2, <2>5, <2>6
<1>4. CASE \E y \in Bough : x = <<DoublyIndirectBlock, y[1], y[2]>>
  <2>1. PICK y \in Bough : x = <<DoublyIndirectBlock, y[1], y[2]>> BY <1>4
  <2>2. x[1] = DoublyIndirectBlock /\ DoublyIndirectBlock \in InodeEntry BY <2>1, SlotFacts
  <2>3. Tree(dsk, c)[x] = Boughs(dsk, c[DoublyIndirectBlock])[y] BY <2>1, TreeAt
  <2>4. Tree(dsk, b)[x] = Boughs(dsk, b[DoublyIndirectBlock])[y] BY <2>1, TreeAt
  <2>5. CASE c[DoublyIndirectBlock] = b[DoublyIndirectBlock] BY <2>2, <2>3, <2>4, <2>5
  <2>6. CASE c[DoublyIndirectBlock] = 0 /\ c[DoublyIndirectBlock] # b[DoublyIndirectBlock]
    <3>1. Boughs(dsk, 0)[y] = 0 BY <1>1
    <3> QED BY <2>2, <2>3, <2>6, <3>1
  <2> QED BY <2>2, <2>5, <2>6
<1> QED BY <1>2, <1>3, <1>4, PlaceFacts

-----------------------------------------------------------------------------
(* What inode_deallocate() releases, and what leaves a file as it is.      *)

\* A disk that sector 0 holds no pointers of.
DiskFine(dsk) == dsk \in [Sector -> Block] /\ BlocksOf(dsk[0]) = NoBlocks

\* A file is what it was as long as its sectors hold what they held.
LEMMA FileFrame ==
    ASSUME NEW mp, NEW old, NEW i, NEW d, NEW c, FileSound(mp, old, i, d, c), DiskFine(old),
           NEW mq, NEW dsk, DiskFine(dsk), 0 \in mq, i \in Sector,
           \A s \in Owned(old, i, d) : dsk[s] = old[s] /\ s \in mq
    PROVE  /\ FileSound(mq, dsk, i, d, c)
           /\ Tree(dsk, d.blocks) = Tree(old, d.blocks)
           /\ Owned(dsk, i, d) = Owned(old, i, d)
<1> DEFINE t == Tree(old, d.blocks)
<1>1. /\ d \in FileData /\ d.blocks \in Blocks /\ d.length \in 0 .. Capacity
      /\ i \in mp \ Reserved
      /\ Sound(mp, Place, t)
      /\ \A x \in Place : t[x] # i /\ (t[x] # 0 => t[x] \notin Reserved)
      /\ \A x \in Need(d.length) : t[x] # 0
      /\ c # Lost => Kept(old, d, c)
      /\ OnDisk(old, i, d)
  BY DEF FileSound, FileBody, FileData
<1>2. t \in [Place -> Sector] BY <1>1, TreeType DEF DiskFine
<1> HIDE DEF t
<1>3. ASSUME NEW x \in Place, t[x] # 0 PROVE dsk[t[x]] = old[t[x]] /\ t[x] \in mq
  <2>1. t[x] \in Owned(old, i, d) BY <1>2, <1>3 DEF Owned, t
  <2> QED BY <2>1
<1>4. ASSUME NEW x \in PlaceRoots PROVE BlocksOf(dsk[t[x]]) = BlocksOf(old[t[x]])
  <2>1. x \in Place BY PlaceRootAt
  <2>2. CASE t[x] = 0 BY <2>2 DEF DiskFine
  <2>3. CASE t[x] # 0 BY <1>3, <2>1, <2>3
  <2> QED BY <2>2, <2>3
<1>5. Tree(dsk, d.blocks) = t BY <1>1, <1>4, TreeFrame DEF t, DiskFine
<1>6. Owned(dsk, i, d) = Owned(old, i, d) BY <1>5 DEF Owned, t
<1>7. dsk[i] = old[i] /\ i \in mq BY DEF Owned
<1>8. Sound(mq, Place, t) BY <1>1, <1>3 DEF Sound
<1>9. OnDisk(dsk, i, d) BY <1>1, <1>7 DEF OnDisk
<1>10. Capacity \in Nat /\ d.length \in Nat BY <1>1, CapacityNat
<1>11. ASSUME c # Lost
       PROVE  /\ \A k \in d.length .. Capacity - 1 : t[Leaf(k)] # 0 => old[t[Leaf(k)]] = Zeros
              /\ c = [k \in 1 .. d.length |-> old[t[Leaf(k - 1)]]]
  BY <1>1, <1>11 DEF Kept, t
<1>12. ASSUME c # Lost PROVE \A k \in d.length .. Capacity - 1 : t[Leaf(k)] # 0 => dsk[t[Leaf(k)]] = Zeros
  BY <1>3, <1>10, <1>11, <1>12, LeafPlace
<1>13. ASSUME c # Lost PROVE c = [k \in 1 .. d.length |-> dsk[t[Leaf(k - 1)]]]
  <2> SUFFICES ASSUME NEW k \in 1 .. d.length PROVE dsk[t[Leaf(k - 1)]] = old[t[Leaf(k - 1)]]
    BY <1>11, <1>13
  <2>1. k - 1 \in 0 .. Capacity - 1 /\ k - 1 < d.length BY <1>1, <1>10
  <2>2. Leaf(k - 1) \in Place /\ Leaf(k - 1) \in Need(d.length) BY <1>10, <2>1, LeafPlace, LeafNeeded
  <2> QED BY <1>1, <1>3, <2>2
<1>14. c # Lost => Kept(dsk, d, c) BY <1>5, <1>12, <1>13 DEF Kept, t
<1> QED BY <1>1, <1>5, <1>6, <1>7, <1>8, <1>9, <1>14 DEF FileSound, FileBody, t

\* What is released with a file, and counted as its own.
LEMMA FileTaken ==
    ASSUME NEW mp \in SUBSET Sector, NEW dsk, NEW i, NEW d, NEW c, FileSound(mp, dsk, i, d, c), DiskFine(dsk)
    PROVE  /\ {i} \cup Sectors(dsk, d) \subseteq Owned(dsk, i, d)
           /\ Owned(dsk, i, d) \subseteq mp \ Reserved
           /\ i \in Owned(dsk, i, d)
           /\ Sectors(dsk, d) \subseteq Sector
<1> DEFINE t == Tree(dsk, d.blocks)
<1>1. /\ d.blocks \in Blocks /\ d.length \in 0 .. Capacity /\ i \in mp \ Reserved /\ Sound(mp, Place, t)
      /\ \A x \in Place : t[x] # 0 => t[x] \notin Reserved
      /\ \A x \in Need(d.length) : t[x] # 0
  BY DEF FileSound, FileBody, FileData
<1>2. t \in [Place -> Sector] BY <1>1, TreeType DEF DiskFine
<1>3. Need(d.length) \subseteq Place BY <1>1, CapacityNat, NeedPlaces
<1> HIDE DEF t
<1>4. \A s : s \in Sectors(dsk, d) <=> \E x \in Need(d.length) : t[x] = s
  <2>1. d.length \in 0 .. Capacity BY <1>1
  <2>2. \A s : s \in Sectors(dsk, d) <=> Needed(dsk, d, s) BY <2>1, SectorsNeeded
  <2> QED BY <2>2 DEF t, Needed
<1>5. ASSUME NEW s \in Sectors(dsk, d) PROVE s \in Sector /\ s \in Owned(dsk, i, d)
  <2>1. PICK x \in Need(d.length) : t[x] = s BY <1>4, <1>5
  <2> QED BY <1>1, <1>2, <1>3, <2>1 DEF Owned, t
<1>6. ASSUME NEW s \in Owned(dsk, i, d) PROVE s \in mp \ Reserved
  <2>1. CASE s = i BY <1>1, <2>1
  <2>2. CASE s # 0 /\ \E x \in Place : t[x] = s BY <1>1, <2>2 DEF Sound
  <2> QED BY <2>1, <2>2 DEF Owned, t
<1>7. i \in Owned(dsk, i, d) BY DEF Owned
<1> QED BY <1>5, <1>6, <1>7

\* A file that is read in again is what it was.
LEMMA FileReloaded ==
    ASSUME NEW mp, NEW dsk, NEW i, NEW d, NEW c, FileSound(mp, dsk, i, d, c), DiskFine(dsk), 0 \in mp
    PROVE  /\ FileSound(mp, dsk, i, dsk[i].data, c)
           /\ Owned(dsk, i, dsk[i].data) \subseteq Owned(dsk, i, d)
           /\ Sectors(dsk, dsk[i].data) = Sectors(dsk, d)
           /\ dsk[i].data.length = d.length
<1> DEFINE t == Tree(dsk, d.blocks)
<1>1. /\ d \in FileData /\ d.blocks \in Blocks /\ d.length \in 0 .. Capacity
      /\ i \in mp \ Reserved
      /\ Sound(mp, Place, t)
      /\ \A x \in Place : t[x] # i /\ (t[x] # 0 => t[x] \notin Reserved)
      /\ \A x \in Need(d.length) : t[x] # 0
      /\ c # Lost => Kept(dsk, d, c)
      /\ OnDisk(dsk, i, d)
  BY DEF FileSound, FileBody, FileData
<1>2. PICK e \in FileData :
        /\ dsk[i] = Inode(e) /\ e.length = d.length
        /\ \A y \in InodeEntry : e.blocks[y] \in {0, d.blocks[y]}
        /\ \A x \in Need(d.length) : e.blocks[x[1]] = d.blocks[x[1]]
  BY <1>1 DEF OnDisk
<1>3. dsk[i].data = e BY <1>2 DEF Inode
<1> DEFINE u == Tree(dsk, e.blocks)
<1>4. e.blocks \in Blocks BY DEF FileData
<1>5. \A x \in Place : u[x] \in {0, t[x]} /\ (e.blocks[x[1]] = d.blocks[x[1]] => u[x] = t[x])
  BY <1>1, <1>2, <1>4, TreeLess, SMTT(40) DEF DiskFine
<1>6. Capacity \in Nat /\ d.length \in Nat BY <1>1, CapacityNat
<1>7. Need(d.length) \subseteq Place BY <1>6, NeedPlaces
<1> HIDE DEF t, u
<1>8. \A x \in Need(d.length) : u[x] = t[x] BY <1>2, <1>5, <1>7
<1>9. Sound(mp, Place, u) BY <1>1, <1>5 DEF Sound
<1>10. \A x \in Place : u[x] # i /\ (u[x] # 0 => u[x] \notin Reserved)
  <2>1. 0 \in Reserved BY DEF Reserved
  <2> QED BY <1>1, <1>5, <2>1
<1>11. \A x \in Need(e.length) : u[x] # 0 BY <1>1, <1>2, <1>8
<1>12. ASSUME c # Lost PROVE \A k \in e.length .. Capacity - 1 : u[Leaf(k)] # 0 => dsk[u[Leaf(k)]] = Zeros
  <2> SUFFICES ASSUME NEW k \in d.length .. Capacity - 1, u[Leaf(k)] # 0 PROVE dsk[u[Leaf(k)]] = Zeros
    BY <1>2
  <2>1. k \in 0 .. Capacity - 1 BY <1>6
  <2>2. Leaf(k) \in Place BY <2>1, LeafPlace
  <2>3. u[Leaf(k)] = t[Leaf(k)] BY <1>5, <2>2
  <2> QED BY <1>1, <1>12, <2>3 DEF Kept, t
<1>13. ASSUME NEW k \in 1 .. d.length PROVE u[Leaf(k - 1)] = t[Leaf(k - 1)]
  <2>1. k - 1 \in 0 .. Capacity - 1 /\ k - 1 < d.length BY <1>1, <1>6
  <2>2. Leaf(k - 1) \in Need(d.length) BY <1>6, <2>1, LeafNeeded
  <2> QED BY <1>8, <2>2
<1>14. ASSUME c # Lost PROVE c = [k \in 1 .. e.length |-> dsk[u[Leaf(k - 1)]]]
  <2>1. c = [k \in 1 .. d.length |-> dsk[t[Leaf(k - 1)]]] BY <1>1, <1>14 DEF Kept, t
  <2> QED BY <1>2, <1>13, <2>1
<1>15. OnDisk(dsk, i, e) BY <1>2 DEF OnDisk
<1>16. FileSound(mp, dsk, i, e, c)
  <2>1. c # Lost => Kept(dsk, e, c) BY <1>12, <1>14 DEF Kept, u
  <2> QED BY <1>1, <1>9, <1>10, <1>11, <1>15, <2>1 DEF FileSound, FileBody, u
<1>17. Owned(dsk, i, e) \subseteq Owned(dsk, i, d)
  <2> SUFFICES ASSUME NEW s \in Sector, s # 0, NEW x \in Place, u[x] = s
               PROVE  \E y \in Place : t[y] = s
    BY DEF Owned, t, u
  <2> QED BY <1>5
<1>18. Sectors(dsk, e) = Sectors(dsk, d)
  <2> SUFFICES ASSUME NEW s PROVE s \in Sectors(dsk, e) <=> s \in Sectors(dsk, d)
    OBVIOUS
  <2>1. d.length \in 0 .. Capacity /\ e.length \in 0 .. Capacity BY <1>1, <1>2
  <2>2. s \in Sectors(dsk, d) <=> Needed(dsk, d, s) BY <2>1, SectorsNeeded
  <2>3. s \in Sectors(dsk, e) <=> Needed(dsk, e, s) BY <2>1, SectorsNeeded
  <2>4. Needed(dsk, d, s) <=> \E x \in Need(d.length) : t[x] = s BY DEF Needed, t
  <2>5. Needed(dsk, e, s) <=> \E x \in Need(e.length) : u[x] = s BY DEF Needed, u
  <2> QED BY <1>2, <1>8, <2>2, <2>3, <2>4, <2>5
<1> QED BY <1>2, <1>3, <1>16, <1>17, <1>18

\* No sector of a file is counted twice.
LEMMA FileCount ==
    ASSUME NEW mp \in SUBSET Sector, NEW dsk, NEW i, NEW d, NEW c, FileSound(mp, dsk, i, d, c), DiskFine(dsk)
    PROVE  Cardinality({i} \cup Sectors(dsk, d)) = 1 + d.length + Cardinality(IndexSectors(dsk, d))
<1> DEFINE t == Tree(dsk, d.blocks)
           K == 0 .. d.length - 1
           h == [k \in K |-> t[Leaf(k)]]
           L == {t[Leaf(k)] : k \in K}
           I == IndexSectors(dsk, d)
<1>1. /\ d.blocks \in Blocks /\ d.length \in 0 .. Capacity /\ Sound(mp, Place, t)
      /\ \A x \in Place : t[x] # i
      /\ \A x \in Need(d.length) : t[x] # 0
  BY DEF FileSound, FileBody, FileData
<1>2. Capacity \in Nat /\ d.length \in Nat /\ \A k \in K : k \in 0 .. Capacity - 1 /\ k < d.length
  BY <1>1, CapacityNat
<1>3. Need(d.length) \subseteq Place BY <1>2, NeedPlaces
<1>4. \A k \in K : Leaf(k) \in Need(d.length) /\ Leaf(k) \in Place /\ Leaf(k) \notin PlaceRoots
  BY <1>2, LeafNeeded, LeafPlace
<1>5. Sectors(dsk, d) = L \cup I
  <2>1. \A k \in K : SectorAt(dsk, d.blocks, k) = t[Leaf(k)] BY <1>2, SectorAtTree
  <2> HIDE DEF t
  <2> QED BY <2>1 DEF Sectors
<1>6. \A s \in I : \E x \in Need(d.length) : x \in PlaceRoots /\ t[x] = s BY <1>1, IndexTree
<1>7. Sectors(dsk, d) \subseteq Sector BY FileTaken
<1>8. IsFiniteSet(Sector) BY DiskAssumption, CapacityNat, FS_Interval DEF Sector
<1> HIDE DEF I, t
<1>9. IsFiniteSet(I) /\ Cardinality(I) \in Nat
  BY <1>5, <1>7, <1>8, FS_Subset, FS_CardinalityType
<1>10. IsFiniteSet(K) /\ Cardinality(K) = d.length BY <1>2, FS_Interval, SMTT(40)
<1>11. \A x, y \in Need(d.length) : t[x] = t[y] => x = y BY <1>1, <1>3 DEF Sound
<1>12. h \in Bijection(K, L)
  <2>1. \A k, m \in K : t[Leaf(k)] = t[Leaf(m)] => k = m
    <3> SUFFICES ASSUME NEW k \in K, NEW m \in K, t[Leaf(k)] = t[Leaf(m)] PROVE k = m
      OBVIOUS
    <3>1. Leaf(k) = Leaf(m) BY <1>4, <1>11
    <3> QED BY <1>2, <3>1, LeafInjective
  <2> HIDE DEF K
  <2> QED BY <2>1 DEF Bijection, Injection, Surjection, IsInjective
<1>13. IsFiniteSet(L) /\ Cardinality(L) = d.length
  <2> HIDE DEF K, L, h
  <2> QED BY <1>10, <1>12, FS_Bijection DEF ExistsBijection
<1>14. L \cap I = {}
  <2> SUFFICES ASSUME NEW k \in K, t[Leaf(k)] \in I PROVE FALSE
    OBVIOUS
  <2>1. PICK x \in Need(d.length) : x \in PlaceRoots /\ t[x] = t[Leaf(k)] BY <1>6
  <2>2. x = Leaf(k) BY <1>4, <1>11, <2>1
  <2> QED BY <1>4, <2>1, <2>2
<1>15. i \notin L \cup I
  <2>1. i \notin L BY <1>1, <1>4
  <2>2. i \notin I BY <1>1, <1>3, <1>6
  <2> QED BY <2>1, <2>2
<1> HIDE DEF L
<1>16. IsFiniteSet(L \cup I) /\ Cardinality(L \cup I) = d.length + Cardinality(I)
  <2>1. Cardinality(L \cap I) = 0 BY <1>14, FS_EmptySet
  <2>2. IsFiniteSet(L \cup I) /\ Cardinality(L \cup I) = Cardinality(L) + Cardinality(I) - Cardinality(L \cap I)
    BY <1>9, <1>13, FS_Union
  <2> QED BY <1>2, <1>9, <1>13, <2>1, <2>2
<1>17. Cardinality((L \cup I) \cup {i}) = Cardinality(L \cup I) + 1 BY <1>15, <1>16, FS_AddElement
<1>18. {i} \cup Sectors(dsk, d) = (L \cup I) \cup {i} BY <1>5
<1>19. Cardinality({i} \cup Sectors(dsk, d)) = d.length + Cardinality(I) + 1
  BY <1>16, <1>17, <1>18
<1>20. d.length + Cardinality(I) + 1 = 1 + d.length + Cardinality(I) BY <1>2, <1>9
<1> QED BY <1>19, <1>20 DEF I

-----------------------------------------------------------------------------
(* What reservations and writes make of a file.                            *)

\* Each entry of an inode is at a place, which is needed with those below it.
LEMMA EntryPlace ==
    /\ \A y \in InodeEntry : <<y, 0, 0>> \in Place
    /\ \A dsk, b : \A y \in InodeEntry : Tree(dsk, b)[<<y, 0, 0>>] = b[y]
    /\ \A n \in Nat : \A x \in Need(n) : x[1] \in InodeEntry /\ <<x[1], 0, 0>> \in Need(n)
<1>1. ASSUME NEW y \in InodeEntry
      PROVE  y \in 1 .. DIRECT_BLOCKS_COUNT \/ y = IndirectBlock \/ y = DoublyIndirectBlock
  BY BlocksAssumption DEF InodeEntry, IndirectBlock, DoublyIndirectBlock
<1>2. \A y \in InodeEntry : <<y, 0, 0>> \in Place BY <1>1, PlaceFacts, PlaceRootAt
<1>3. ASSUME NEW dsk, NEW b, NEW y \in InodeEntry PROVE Tree(dsk, b)[<<y, 0, 0>>] = b[y]
  BY <1>1, TreeAt, TreeRootsAt
<1>4. ASSUME NEW n \in Nat, NEW x \in Need(n)
      PROVE  x[1] \in InodeEntry /\ <<x[1], 0, 0>> \in Need(n)
  <2> DEFINE D == DIRECT_BLOCKS_COUNT
  <2>1. x \in Place BY NeedPlaces
  <2>2. D \in Nat /\ IndirectBlock \in InodeEntry /\ DoublyIndirectBlock \in InodeEntry
        /\ \A i \in 1 .. D : i \in InodeEntry
    BY SlotFacts
  <2>3. CASE \E i \in 1 .. D : x = <<i, 0, 0>> BY <2>2, <2>3
  <2>4. CASE \E l \in 0 .. INDIRECT_BLOCKS_PER_SECTOR : x = <<IndirectBlock, l, 0>>
    <3>1. PICK l \in 0 .. INDIRECT_BLOCKS_PER_SECTOR : x = <<IndirectBlock, l, 0>> BY <2>4
    <3>2. x[1] = IndirectBlock BY <3>1
    <3>3. n > D BY <3>1, NeedCases
    <3>4. <<IndirectBlock, 0, 0>> \in Need(n) <=> n > D /\ 0 <= n - D BY NeedCases, PointerBetween
    <3> QED BY <2>2, <3>2, <3>3, <3>4
  <2>5. CASE x = <<DoublyIndirectBlock, 0, 0>> BY <2>2, <2>5
  <2>6. CASE \E j \in Pointer, l \in 0 .. INDIRECT_BLOCKS_PER_SECTOR : x = <<DoublyIndirectBlock, j, l>>
    <3>1. PICK j \in Pointer, l \in 0 .. INDIRECT_BLOCKS_PER_SECTOR : x = <<DoublyIndirectBlock, j, l>> BY <2>6
    <3>2. x[1] = DoublyIndirectBlock BY <3>1
    <3>3. n - D - INDIRECT_BLOCKS_PER_SECTOR > 0 BY <3>1, NeedCases
    <3>4. <<DoublyIndirectBlock, 0, 0>> \in Need(n) BY <3>3, NeedCases
    <3> QED BY <2>2, <3>2, <3>4
  <2> QED BY <2>1, <2>3, <2>4, <2>5, <2>6, PlaceCases, PointerBetween
<1> QED BY <1>2, <1>3, <1>4

\* The reservation r is for file i with the data d.
Holds(r, mp, dsk, d) ==
    Fine(r, InodeEntry) /\ r.ok /\ r.map = mp /\ r.disk = dsk /\ r.blocks = d.blocks

Grown(d, q) == [length |-> d.length, blocks |-> q.blocks]

\* What a reservation of n sectors makes of file i, whether it fails or not.
Extended(mp, dsk, i, d, c, r, n, q) ==
    /\ Fine(q, InodeEntry) /\ mp \subseteq q.map
    /\ FileBody(q.map, q.disk, i, Grown(d, q), c)
    /\ q.disk[i] = dsk[i]
    /\ \A y \in InodeEntry : q.blocks[y] # d.blocks[y] => d.blocks[y] = 0
    /\ \A s \in Sector : q.disk[s] # dsk[s] =>
             \/ s \in q.map \ mp
             \/ s = 0 /\ q.disk[0] = Zeros /\ q.full
             \/ s \in Owned(dsk, i, d)
    /\ Owned(q.disk, i, Grown(d, q)) \subseteq Owned(dsk, i, d) \cup (q.map \ mp)
    /\ q.full # r.full => q.full /\ ~q.ok
    /\ q.ok => /\ n <= Capacity
               /\ \A x \in Need(n) : Tree(q.disk, q.blocks)[x] # 0
               /\ \A s \in q.map \ mp : \E x \in Need(n) : Tree(q.disk, q.blocks)[x] = s
    /\ \A x \in Place : Tree(dsk, d.blocks)[x] # 0 =>
             Tree(q.disk, q.blocks)[x] = Tree(dsk, d.blocks)[x]

\* A reservation, also one that fails, leaves a file what it is.
LEMMA FileExtended ==
    ASSUME NEW mp, NEW dsk, NEW i \in Sector, NEW d, NEW c, FileBody(mp, dsk, i, d, c),
           NEW r, Holds(r, mp, dsk, d), Reserved \subseteq mp, NEW n \in Nat, NEW q, q = Reserve(r, n)
    PROVE  Extended(mp, dsk, i, d, c, r, n, q)
<1> DEFINE t == Tree(dsk, d.blocks)
           u == Tree(q.disk, q.blocks)
<1>1. /\ d \in FileData /\ d.blocks \in Blocks /\ d.length \in 0 .. Capacity
      /\ i \in mp \ Reserved
      /\ Sound(mp, Place, t)
      /\ \A x \in Place : t[x] # i /\ (t[x] # 0 => t[x] \notin Reserved)
      /\ \A x \in Need(d.length) : t[x] # 0
      /\ c # Lost => Kept(dsk, d, c)
  BY DEF FileBody, FileData
<1>2. Fine(r, InodeEntry) /\ r.ok /\ r.map = mp /\ r.disk = dsk /\ r.blocks = d.blocks BY DEF Holds
<1>3. Fine(q, InodeEntry) /\ Grows(r, q, Place, PlaceRoots, Need(n), t, u) /\ (q.ok => n <= Capacity)
  BY <1>1, <1>2, ReserveGrows
<1>4. Sound(q.map, Place, u) BY <1>1, <1>2, <1>3, SoundGrows
<1>5. q.disk \in [Sector -> Block] /\ q.blocks \in Blocks /\ q.map \in SUBSET Sector
  BY <1>3, SlotFacts DEF Fine, Reservation
<1>6. u \in [Place -> Sector] BY <1>5, TreeType
<1>7. dsk \in [Sector -> Block] /\ mp \in SUBSET Sector BY <1>2 DEF Fine, Reservation
<1>8. t \in [Place -> Sector] BY <1>1, <1>7, TreeType
<1>9. Capacity \in Nat /\ d.length \in Nat BY <1>1, CapacityNat
<1> HIDE DEF t, u
<1>10. /\ mp \subseteq q.map
       /\ \A x \in Place : u[x] # t[x] => /\ t[x] = 0 /\ x \in Need(n) /\ u[x] \in q.map \ mp
                                          /\ x \notin PlaceRoots => q.disk[u[x]] = Zeros
       /\ \A s \in Sector : q.disk[s] # dsk[s] =>
            \/ s \in q.map \ mp
            \/ s = 0 /\ q.disk[0] = Zeros /\ q.full
            \/ \E x \in PlaceRoots : s = u[x] /\ s # 0
       /\ q.ok => /\ \A y \in Need(n) : u[y] # 0
                  /\ \A s \in q.map \ mp : \E y \in Need(n) : u[y] = s
       /\ q.full # r.full => q.full /\ ~q.ok
  BY <1>2, <1>3 DEF Grows
<1>11. PlaceRoots \subseteq Place BY PlaceRootAt
<1>12. \A x \in Place : t[x] # 0 => u[x] = t[x] BY <1>10
<1>13. \A x \in Place : u[x] # i /\ (u[x] # 0 => u[x] \notin Reserved) BY <1>1, <1>10
<1>14. \A x \in Need(d.length) : u[x] # 0 BY <1>1, <1>9, <1>12, NeedPlaces
<1>15. \A x, y \in Place : u[x] = u[y] /\ u[x] # 0 => x = y BY <1>4 DEF Sound
\* The sectors of data hold what they held.
<1>16. ASSUME NEW k \in 0 .. Capacity - 1, t[Leaf(k)] # 0
       PROVE  u[Leaf(k)] = t[Leaf(k)] /\ q.disk[u[Leaf(k)]] = dsk[t[Leaf(k)]]
  <2>1. Leaf(k) \in Place /\ Leaf(k) \notin PlaceRoots BY LeafPlace
  <2>2. u[Leaf(k)] = t[Leaf(k)] /\ t[Leaf(k)] \in Sector /\ t[Leaf(k)] \in mp
    BY <1>1, <1>8, <1>12, <1>16, <2>1 DEF Sound
  <2>3. \A x \in PlaceRoots : u[x] # u[Leaf(k)] BY <1>11, <1>15, <1>16, <2>1, <2>2
  <2> QED BY <1>10, <1>16, <2>2, <2>3
<1>17. ASSUME c # Lost
       PROVE  \A k \in d.length .. Capacity - 1 : u[Leaf(k)] # 0 => q.disk[u[Leaf(k)]] = Zeros
  <2> SUFFICES ASSUME NEW k \in d.length .. Capacity - 1, u[Leaf(k)] # 0
               PROVE  q.disk[u[Leaf(k)]] = Zeros
    OBVIOUS
  <2>1. k \in 0 .. Capacity - 1 BY <1>9
  <2>2. CASE t[Leaf(k)] # 0
    <3>1. dsk[t[Leaf(k)]] = Zeros BY <1>1, <1>17, <2>2 DEF Kept, t
    <3> QED BY <1>16, <2>1, <2>2, <3>1
  <2>3. CASE t[Leaf(k)] = 0
    <3>1. Leaf(k) \in Place /\ Leaf(k) \notin PlaceRoots BY <2>1, LeafPlace
    <3> QED BY <1>10, <2>3, <3>1
  <2> QED BY <2>2, <2>3
<1>18. ASSUME c # Lost PROVE c = [k \in 1 .. d.length |-> q.disk[u[Leaf(k - 1)]]]
  <2> SUFFICES ASSUME NEW k \in 1 .. d.length PROVE q.disk[u[Leaf(k - 1)]] = dsk[t[Leaf(k - 1)]]
    BY <1>1, <1>18 DEF Kept, t
  <2>1. k - 1 \in 0 .. Capacity - 1 /\ k - 1 < d.length BY <1>1, <1>9
  <2>2. Leaf(k - 1) \in Need(d.length) BY <1>9, <2>1, LeafNeeded
  <2> QED BY <1>1, <1>16, <2>1, <2>2
<1> DEFINE g == Grown(d, q)
<1>19. g \in FileData /\ g.length = d.length /\ g.blocks = q.blocks
  BY <1>1, <1>5 DEF Grown, FileData
<1>20. FileBody(q.map, q.disk, i, g, c)
  <2> HIDE DEF g
  <2>1. i \in q.map \ Reserved BY <1>1, <1>10
  <2>2. u = Tree(q.disk, g.blocks) BY <1>19 DEF u
  <2>3. c # Lost => Kept(q.disk, g, c) BY <1>17, <1>18, <1>19, <2>2 DEF Kept
  <2> QED BY <1>4, <1>13, <1>14, <1>19, <2>1, <2>2, <2>3 DEF FileBody
<1>21. q.disk[i] = dsk[i]
  <2>1. i # 0 BY <1>1 DEF Reserved
  <2>2. \A x \in PlaceRoots : u[x] # i BY <1>11, <1>13
  <2> QED BY <1>1, <1>10, <2>1, <2>2
<1>22. ASSUME NEW y \in InodeEntry, q.blocks[y] # d.blocks[y] PROVE d.blocks[y] = 0
  <2>1. u[<<y, 0, 0>>] = q.blocks[y] /\ t[<<y, 0, 0>>] = d.blocks[y] /\ <<y, 0, 0>> \in Place
    BY EntryPlace DEF t, u
  <2> QED BY <1>12, <1>22, <2>1
<1>23. \A s : s \in Owned(dsk, i, d) <=> s = i \/ (s \in Sector /\ s # 0 /\ \E x \in Place : t[x] = s)
  BY DEF Owned, t
<1>24. \A s : s \in Owned(q.disk, i, g) <=> s = i \/ (s \in Sector /\ s # 0 /\ \E x \in Place : u[x] = s)
  BY <1>19 DEF Owned, u
<1>25. ASSUME NEW s \in Sector, q.disk[s] # dsk[s]
       PROVE  \/ s \in q.map \ mp
              \/ s = 0 /\ q.disk[0] = Zeros /\ q.full
              \/ s \in Owned(dsk, i, d)
  BY <1>10, <1>11, <1>23, <1>25
<1>26. Owned(q.disk, i, g) \subseteq Owned(dsk, i, d) \cup (q.map \ mp)
  BY <1>10, <1>23, <1>24
<1> QED BY <1>3, <1>10, <1>12, <1>20, <1>21, <1>22, <1>25, <1>26 DEF Extended, t, u

\* What is to be shown of a file whose places are known.
LEMMA FileBodyAt ==
    ASSUME NEW mp, NEW dsk, NEW i, NEW d, NEW c, NEW t, t = Tree(dsk, d.blocks),
           d \in FileData, i \in mp \ Reserved, Sound(mp, Place, t),
           \A x \in Place : t[x] # i /\ (t[x] # 0 => t[x] \notin Reserved),
           \A x \in Need(d.length) : t[x] # 0,
           c # Lost => /\ \A k \in d.length .. Capacity - 1 : t[Leaf(k)] # 0 => dsk[t[Leaf(k)]] = Zeros
                       /\ c = [k \in 1 .. d.length |-> dsk[t[Leaf(k - 1)]]]
    PROVE  FileBody(mp, dsk, i, d, c)
BY DEF FileBody, Kept

NoData == [length |-> 0, blocks |-> Unallocated]

\* A sector that was free is an empty file.
LEMMA FileEmpty ==
    ASSUME NEW mp \in SUBSET Sector, NEW dsk, DiskFine(dsk), 0 \in mp, NEW i \in mp \ Reserved
    PROVE  /\ FileBody(mp, dsk, i, NoData, [k \in 1 .. 0 |-> Zeros])
           /\ Owned(dsk, i, NoData) = {i}
           /\ NoData.blocks = Unallocated /\ NoData.length = 0
           /\ Unallocated \in Blocks
<1> DEFINE t == Tree(dsk, Unallocated)
<1>1. 0 \in Sector /\ Capacity \in Nat BY ZeroIsSector, CapacityNat
<1>2. Unallocated \in Blocks /\ \A y \in InodeEntry : Unallocated[y] = 0
  BY <1>1 DEF Unallocated, Blocks, InodeEntry
<1>3. NoData \in FileData /\ NoData.blocks = Unallocated /\ NoData.length = 0
  BY <1>1, <1>2 DEF NoData, FileData
<1>4. ASSUME NEW x \in Place PROVE t[x] = 0
  <2>1. /\ \A l \in 0 .. INDIRECT_BLOCKS_PER_SECTOR : Branch(dsk, 0)[l] = 0
        /\ \A y \in Bough : Boughs(dsk, 0)[y] = 0
    BY ZeroTrees DEF DiskFine
  <2>2. Unallocated[IndirectBlock] = 0 /\ Unallocated[DoublyIndirectBlock] = 0
        /\ \A j \in 1 .. DIRECT_BLOCKS_COUNT : Unallocated[j] = 0
    BY <1>2, SlotFacts
  <2>3. CASE \E j \in 1 .. DIRECT_BLOCKS_COUNT : x = <<j, 0, 0>> BY <2>2, <2>3, TreeAt
  <2>4. CASE \E l \in 0 .. INDIRECT_BLOCKS_PER_SECTOR : x = <<IndirectBlock, l, 0>>
    <3>1. PICK l \in 0 .. INDIRECT_BLOCKS_PER_SECTOR : x = <<IndirectBlock, l, 0>> BY <2>4
    <3>2. t[x] = Branch(dsk, 0)[l] BY <2>2, <3>1, TreeAt
    <3> QED BY <2>1, <3>2
  <2>5. CASE \E y \in Bough : x = <<DoublyIndirectBlock, y[1], y[2]>>
    <3>1. PICK y \in Bough : x = <<DoublyIndirectBlock, y[1], y[2]>> BY <2>5
    <3>2. t[x] = Boughs(dsk, 0)[y] BY <2>2, <3>1, TreeAt
    <3> QED BY <2>1, <3>2
  <2> QED BY <2>3, <2>4, <2>5, PlaceFacts
<1> HIDE DEF t
<1>5. Need(0) = {}
  <2> SUFFICES ASSUME NEW x \in Need(0) PROVE FALSE
    OBVIOUS
  <2>1. x \in Place BY NeedPlaces
  <2>2. DIRECT_BLOCKS_COUNT \in Nat /\ INDIRECT_BLOCKS_PER_SECTOR \in Nat BY SlotFacts
  <2>3. CASE \E j \in 1 .. DIRECT_BLOCKS_COUNT : x = <<j, 0, 0>>
    <3>1. PICK j \in 1 .. DIRECT_BLOCKS_COUNT : x = <<j, 0, 0>> BY <2>3
    <3>2. j <= 0 BY <3>1, NeedCases
    <3> QED BY <2>2, <3>2
  <2>4. CASE \E l \in 0 .. INDIRECT_BLOCKS_PER_SECTOR : x = <<IndirectBlock, l, 0>>
    <3>1. 0 > DIRECT_BLOCKS_COUNT BY <2>4, NeedCases
    <3> QED BY <2>2, <3>1
  <2>5. CASE x = <<DoublyIndirectBlock, 0, 0>>
    <3>1. 0 - DIRECT_BLOCKS_COUNT - INDIRECT_BLOCKS_PER_SECTOR > 0 BY <2>5, NeedCases
    <3> QED BY <2>2, <3>1
  <2>6. CASE \E j \in Pointer, l \in 0 .. INDIRECT_BLOCKS_PER_SECTOR : x = <<DoublyIndirectBlock, j, l>>
    <3>1. 0 - DIRECT_BLOCKS_COUNT - INDIRECT_BLOCKS_PER_SECTOR > 0 BY <2>6, NeedCases
    <3> QED BY <2>2, <3>1
  <2> QED BY <2>1, <2>3, <2>4, <2>5, <2>6, PlaceCases, PointerBetween
<1>6. i # 0 BY DEF Reserved
<1>7. \A k \in 0 .. Capacity - 1 : t[Leaf(k)] = 0 BY <1>4, LeafPlace
<1>8. t = Tree(dsk, NoData.blocks) BY <1>3 DEF t
<1>9. Sound(mp, Place, t) BY <1>4 DEF Sound
<1>10. [k \in 1 .. 0 |-> Zeros] = [k \in 1 .. NoData.length |-> dsk[t[Leaf(k - 1)]]] BY <1>3
<1>11. FileBody(mp, dsk, i, NoData, [k \in 1 .. 0 |-> Zeros])
  BY <1>3, <1>4, <1>5, <1>6, <1>7, <1>8, <1>9, <1>10 DEF FileBody, Kept
<1>12. Owned(dsk, i, NoData) = {i} BY <1>4, <1>8 DEF Owned
<1> QED BY <1>2, <1>3, <1>11, <1>12

\* The content c, of length m, with zeros to the length n: lost if that is less.
ZerosTo(c, m, n) ==
    IF c = Lost \/ n < m THEN Lost ELSE [k \in 1 .. n |-> IF k <= m THEN c[k] ELSE Zeros]

\* Of file i, with the data d, when its inode on the disk has been given the length n.
Lengthened(mp, dsk, i, d, c, n, e, new) ==
    /\ DiskFine(new)
    /\ FileSound(mp, new, i, e, ZerosTo(c, d.length, n))
    /\ Tree(new, d.blocks) = Tree(dsk, d.blocks)
    /\ Owned(new, i, e) = Owned(dsk, i, d)

\* The inode with another length is written, all its sectors being there.
LEMMA FileLengthened ==
    ASSUME NEW mp, NEW dsk, NEW i \in Sector, NEW d, NEW c, FileBody(mp, dsk, i, d, c), DiskFine(dsk),
           NEW n \in Nat, n <= Capacity,
           \A x \in Need(n) : Tree(dsk, d.blocks)[x] # 0,
           NEW e, e = [length |-> n, blocks |-> d.blocks],
           NEW new, new = [dsk EXCEPT ![i] = Inode(e)]
    PROVE  Lengthened(mp, dsk, i, d, c, n, e, new)
<1> DEFINE t == Tree(dsk, d.blocks)
           c2 == ZerosTo(c, d.length, n)
<1>1. /\ d \in FileData /\ d.blocks \in Blocks /\ d.length \in 0 .. Capacity
      /\ i \in mp \ Reserved
      /\ Sound(mp, Place, t)
      /\ \A x \in Place : t[x] # i /\ (t[x] # 0 => t[x] \notin Reserved)
      /\ c # Lost => Kept(dsk, d, c)
  BY DEF FileBody, FileData
<1>2. Capacity \in Nat /\ d.length \in Nat BY <1>1, CapacityNat
<1>3. e \in FileData /\ e.length = n /\ e.blocks = d.blocks BY <1>1, <1>2 DEF FileData
<1>4. dsk \in [Sector -> Block] /\ BlocksOf(dsk[0]) = NoBlocks BY DEF DiskFine
<1>5. t \in [Place -> Sector] BY <1>1, <1>4, TreeType
<1>6. i # 0 BY <1>1 DEF Reserved
<1>7. Inode(e) \in Block BY <1>2, <1>3 DEF Block, FileData
<1>8. DiskFine(new) BY <1>4, <1>6, <1>7, ZeroIsSector DEF DiskFine
<1> HIDE DEF t, c2
<1>9. \A x \in Place : new[t[x]] = dsk[t[x]] BY <1>1, <1>4, <1>5
<1>10. Tree(new, d.blocks) = t
  <2>1. \A x \in PlaceRoots : BlocksOf(new[t[x]]) = BlocksOf(dsk[t[x]]) BY <1>9, PlaceRootAt
  <2> QED BY <1>1, <1>4, <1>8, <2>1, TreeFrame DEF t, DiskFine
<1>11. \A x \in Need(n) : t[x] # 0 BY DEF t
<1>20. c2 # Lost => c # Lost /\ d.length <= n
  <2>1. n < d.length \/ d.length <= n BY <1>2
  <2> QED BY <2>1 DEF c2, ZerosTo
<1>12. ASSUME c2 # Lost, NEW k \in 0 .. n - 1
       PROVE  new[t[Leaf(k)]] = IF k < d.length THEN c[k + 1] ELSE Zeros
  <2>1. k \in 0 .. Capacity - 1 /\ k < n BY <1>2
  <2>2. Leaf(k) \in Need(n) /\ Leaf(k) \in Place BY <2>1, LeafNeeded, LeafPlace
  <2>3. new[t[Leaf(k)]] = dsk[t[Leaf(k)]] BY <1>9, <2>2
  <2>4. CASE k < d.length
    <3>1. k + 1 \in 1 .. d.length /\ (k + 1) - 1 = k BY <1>2, <2>1, <2>4
    <3>2. c = [j \in 1 .. d.length |-> dsk[t[Leaf(j - 1)]]] BY <1>1, <1>12, <1>20 DEF Kept, t
    <3> QED BY <2>3, <2>4, <3>1, <3>2
  <2>5. CASE ~(k < d.length)
    <3>1. k \in d.length .. Capacity - 1 BY <1>2, <2>1, <2>5
    <3>2. t[Leaf(k)] # 0 => dsk[t[Leaf(k)]] = Zeros BY <1>1, <1>12, <1>20, <3>1 DEF Kept, t
    <3> QED BY <1>11, <2>2, <2>3, <2>5, <3>2
  <2> QED BY <2>4, <2>5
<1>13. ASSUME c2 # Lost PROVE c2 = [k \in 1 .. e.length |-> new[t[Leaf(k - 1)]]]
  <2> SUFFICES ASSUME NEW k \in 1 .. n
               PROVE  (IF k <= d.length THEN c[k] ELSE Zeros) = new[t[Leaf(k - 1)]]
    BY <1>2, <1>3, <1>13, <1>20 DEF c2, ZerosTo
  <2>1. k - 1 \in 0 .. n - 1 /\ (k - 1 < d.length <=> k <= d.length) /\ (k - 1) + 1 = k BY <1>2
  <2> QED BY <1>12, <1>13, <2>1
<1>14. ASSUME c2 # Lost
       PROVE  \A k \in e.length .. Capacity - 1 : t[Leaf(k)] # 0 => new[t[Leaf(k)]] = Zeros
  <2> SUFFICES ASSUME NEW k \in n .. Capacity - 1, t[Leaf(k)] # 0 PROVE new[t[Leaf(k)]] = Zeros
    BY <1>3
  <2>1. k \in 0 .. Capacity - 1 /\ k \in d.length .. Capacity - 1 BY <1>2, <1>14, <1>20
  <2>2. dsk[t[Leaf(k)]] = Zeros BY <1>1, <1>14, <1>20, <2>1 DEF Kept, t
  <2> QED BY <1>9, <2>1, <2>2, LeafPlace
<1>15. new[i] = Inode(e) BY <1>4
<1>16. OnDisk(new, i, e)
  BY <1>3, <1>15 DEF OnDisk
<1>17. t = Tree(new, e.blocks) BY <1>3, <1>10
<1>18. FileBody(mp, new, i, e, c2)
  <2>1. i \in mp \ Reserved /\ Sound(mp, Place, t) BY <1>1
  <2>2. \A x \in Place : t[x] # i /\ (t[x] # 0 => t[x] \notin Reserved) BY <1>1
  <2>3. \A x \in Need(e.length) : t[x] # 0 BY <1>3, <1>11
  <2>4. e \in FileData BY <1>3
  <2> QED BY ONLY <1>13, <1>14, <1>17, <2>1, <2>2, <2>3, <2>4, FileBodyAt, Zenon
<1>19. Owned(new, i, e) = Owned(dsk, i, d) BY <1>3, <1>10 DEF Owned, t
<1> QED BY <1>8, <1>10, <1>16, <1>18, <1>19 DEF Lengthened, FileSound, c2, t

\* The content c, of length m, with v written over it.
WrittenTo(c, m, pos, end, v) ==
    IF c = Lost THEN Lost ELSE [k \in 1 .. m |-> IF k \in pos + 1 .. end THEN Data(v) ELSE c[k]]

\* Of file i, with the data d, when v has been written after sector pos, up to end.
Written(mp, dsk, i, d, c, v, pos, end, new) ==
    /\ DiskFine(new)
    /\ FileSound(mp, new, i, d, WrittenTo(c, d.length, pos, end, v))
    /\ Tree(new, d.blocks) = Tree(dsk, d.blocks)
    /\ Owned(new, i, d) = Owned(dsk, i, d)
    /\ \A s \in Sector : new[s] # dsk[s] => s \in Owned(dsk, i, d)
    /\ new[0] = dsk[0]

\* Data is written to sectors of the file.
LEMMA FileWritten ==
    ASSUME NEW mp, NEW dsk, NEW i \in Sector, NEW d, NEW c, FileSound(mp, dsk, i, d, c), DiskFine(dsk),
           NEW v \in Value, NEW pos \in Nat, NEW end \in Nat, end <= d.length,
           NEW written, written = {SectorAt(dsk, d.blocks, k) : k \in pos .. end - 1},
           NEW new, new = [s \in Sector |-> IF s \in written THEN Data(v) ELSE dsk[s]]
    PROVE  Written(mp, dsk, i, d, c, v, pos, end, new)
<1> DEFINE t == Tree(dsk, d.blocks)
           c2 == WrittenTo(c, d.length, pos, end, v)
<1>1. /\ d \in FileData /\ d.blocks \in Blocks /\ d.length \in 0 .. Capacity
      /\ i \in mp \ Reserved
      /\ Sound(mp, Place, t)
      /\ \A x \in Place : t[x] # i /\ (t[x] # 0 => t[x] \notin Reserved)
      /\ \A x \in Need(d.length) : t[x] # 0
      /\ c # Lost => Kept(dsk, d, c)
      /\ OnDisk(dsk, i, d)
  BY DEF FileSound, FileBody, FileData
<1>2. Capacity \in Nat /\ d.length \in Nat BY <1>1, CapacityNat
<1>3. dsk \in [Sector -> Block] /\ BlocksOf(dsk[0]) = NoBlocks /\ 0 \in Sector BY ZeroIsSector DEF DiskFine
<1>4. t \in [Place -> Sector] BY <1>1, <1>3, TreeType
<1>5. \A k \in pos .. end - 1 : /\ k \in 0 .. Capacity - 1 /\ k < d.length
                                /\ SectorAt(dsk, d.blocks, k) = t[Leaf(k)]
  <2> SUFFICES ASSUME NEW k \in pos .. end - 1
               PROVE  k \in 0 .. Capacity - 1 /\ k < d.length /\ SectorAt(dsk, d.blocks, k) = t[Leaf(k)]
    OBVIOUS
  <2>1. d.length <= Capacity BY <1>1
  <2>2. k \in 0 .. Capacity - 1 /\ k < d.length BY <1>2, <2>1
  <2> QED BY <2>2, SectorAtTree
<1>6. \A k \in 0 .. Capacity - 1 : k < d.length =>
        Leaf(k) \in Need(d.length) /\ Leaf(k) \in Place /\ Leaf(k) \notin PlaceRoots /\ t[Leaf(k)] # 0
  BY <1>1, <1>2, LeafNeeded, LeafPlace
<1> HIDE DEF t, c2
<1>7. \A s : s \in written <=> \E k \in pos .. end - 1 : s = t[Leaf(k)] BY <1>5
<1>8. \A x, y \in Place : t[x] = t[y] /\ t[x] # 0 => x = y BY <1>1 DEF Sound
<1>9. 0 \notin written /\ i \notin written BY <1>1, <1>5, <1>6, <1>7
<1>10. ASSUME NEW x \in Place, \A k \in pos .. end - 1 : x # Leaf(k) PROVE new[t[x]] = dsk[t[x]]
  <2>1. t[x] \notin written BY <1>5, <1>6, <1>7, <1>8, <1>10
  <2> QED BY <1>4, <2>1
<1>11. Data(v) \in Block BY DEF Block
<1>12. new[0] = dsk[0] /\ DiskFine(new) BY <1>3, <1>9, <1>11 DEF DiskFine
<1>13. Tree(new, d.blocks) = t
  <2>1. \A x \in PlaceRoots : BlocksOf(new[t[x]]) = BlocksOf(dsk[t[x]])
    <3> SUFFICES ASSUME NEW x \in PlaceRoots PROVE new[t[x]] = dsk[t[x]]
      OBVIOUS
    <3> QED BY <1>5, <1>6, <1>10, PlaceRootAt
  <2> QED BY <1>1, <1>3, <1>12, <2>1, TreeFrame DEF t, DiskFine
<1>14. ASSUME NEW k \in 0 .. Capacity - 1
       PROVE  /\ k \in pos .. end - 1 => new[t[Leaf(k)]] = Data(v)
              /\ k \notin pos .. end - 1 => new[t[Leaf(k)]] = dsk[t[Leaf(k)]]
  <2>1. Leaf(k) \in Place /\ t[Leaf(k)] \in Sector BY <1>4, LeafPlace
  <2>2. ASSUME k \in pos .. end - 1 PROVE new[t[Leaf(k)]] = Data(v) BY <1>7, <2>1, <2>2
  <2>3. ASSUME k \notin pos .. end - 1 PROVE new[t[Leaf(k)]] = dsk[t[Leaf(k)]]
    <3>1. ASSUME NEW m \in pos .. end - 1, Leaf(k) = Leaf(m) PROVE FALSE
      BY <1>5, <2>3, <3>1, LeafInjective
    <3> QED BY <1>10, <2>1, <3>1
  <2> QED BY <2>2, <2>3
<1>15. ASSUME c # Lost PROVE c2 = [k \in 1 .. d.length |-> new[t[Leaf(k - 1)]]]
  <2> SUFFICES ASSUME NEW k \in 1 .. d.length
               PROVE  (IF k \in pos + 1 .. end THEN Data(v) ELSE c[k]) = new[t[Leaf(k - 1)]]
    BY <1>15 DEF c2, WrittenTo
  <2>1. k - 1 \in 0 .. Capacity - 1 /\ (k - 1 \in pos .. end - 1 <=> k \in pos + 1 .. end) BY <1>1, <1>2
  <2>2. c = [j \in 1 .. d.length |-> dsk[t[Leaf(j - 1)]]] BY <1>1, <1>15 DEF Kept, t
  <2> QED BY <1>14, <2>1, <2>2
<1>16. ASSUME c # Lost
       PROVE  \A k \in d.length .. Capacity - 1 : t[Leaf(k)] # 0 => new[t[Leaf(k)]] = Zeros
  <2> SUFFICES ASSUME NEW k \in d.length .. Capacity - 1, t[Leaf(k)] # 0 PROVE new[t[Leaf(k)]] = Zeros
    OBVIOUS
  <2>1. k \in 0 .. Capacity - 1 /\ k \notin pos .. end - 1 BY <1>2
  <2>2. dsk[t[Leaf(k)]] = Zeros BY <1>1, <1>16 DEF Kept, t
  <2> QED BY <1>14, <2>1, <2>2
<1>17. new[i] = dsk[i] BY <1>9
<1>18. OnDisk(new, i, d) BY <1>1, <1>17 DEF OnDisk
<1>19. FileBody(mp, new, i, d, c2)
  <2>1. d \in FileData /\ i \in mp \ Reserved /\ Sound(mp, Place, t) BY <1>1
  <2>2. \A x \in Place : t[x] # i /\ (t[x] # 0 => t[x] \notin Reserved) BY <1>1
  <2>3. \A x \in Need(d.length) : t[x] # 0 BY <1>1
  <2>4. t = Tree(new, d.blocks) BY <1>13
  <2>5. c2 # Lost => c # Lost BY DEF c2, WrittenTo
  <2> QED BY ONLY <1>15, <1>16, <2>1, <2>2, <2>3, <2>4, <2>5, FileBodyAt, Zenon
<1>20. Owned(new, i, d) = Owned(dsk, i, d) BY <1>13 DEF Owned, t
<1>21. ASSUME NEW s \in Sector, new[s] # dsk[s] PROVE s \in Owned(dsk, i, d)
  <2>1. s \in written BY <1>21
  <2>2. PICK k \in pos .. end - 1 : s = t[Leaf(k)] BY <1>7, <2>1
  <2>3. Leaf(k) \in Place /\ s # 0 BY <1>5, <1>6, <2>2
  <2> QED BY <2>2, <2>3 DEF Owned, t
<1> QED BY <1>12, <1>13, <1>18, <1>19, <1>20, <1>21 DEF Written, FileSound, c2, t

\* A write that failed leaves the inode on the disk as it is.
LEMMA FileFailed ==
    ASSUME NEW dsk, NEW i, NEW d, d.length \in Nat, OnDisk(dsk, i, d), d.blocks \in Blocks,
           \A x \in Need(d.length) : Tree(dsk, d.blocks)[x] # 0,
           NEW q, \A y \in InodeEntry : q.blocks[y] # d.blocks[y] => d.blocks[y] = 0,
           q.disk[i] = dsk[i]
    PROVE  OnDisk(q.disk, i, Grown(d, q))
<1>1. PICK e \in FileData :
        /\ dsk[i] = Inode(e) /\ e.length = d.length
        /\ \A y \in InodeEntry : e.blocks[y] \in {0, d.blocks[y]}
        /\ \A x \in Need(d.length) : e.blocks[x[1]] = d.blocks[x[1]]
  BY DEF OnDisk
<1> DEFINE g == Grown(d, q)
<1>2. g.length = d.length /\ g.blocks = q.blocks BY DEF Grown
<1> HIDE DEF g
<1>3. \A y \in InodeEntry : e.blocks[y] \in {0, g.blocks[y]} BY <1>1, <1>2
<1>4. ASSUME NEW x \in Need(d.length) PROVE e.blocks[x[1]] = g.blocks[x[1]]
  <2>1. x[1] \in InodeEntry /\ <<x[1], 0, 0>> \in Need(d.length) BY EntryPlace
  <2>2. Tree(dsk, d.blocks)[<<x[1], 0, 0>>] = d.blocks[x[1]] BY <2>1, EntryPlace
  <2>3. d.blocks[x[1]] # 0 BY <2>1, <2>2
  <2> QED BY <1>1, <1>2, <2>1, <2>3
<1> QED BY <1>1, <1>2, <1>3, <1>4 DEF OnDisk, g

-----------------------------------------------------------------------------
(* All files.                                                              *)

\* The files F, with their data and their contents, share no sector.
FilesFine(mp, dsk, F, data, cont) ==
    /\ \A i \in F : FileSound(mp, dsk, i, data[i], cont[i])
    /\ \A i, j \in F : i # j => Owned(dsk, i, data[i]) \cap Owned(dsk, j, data[j]) = {}
\* Their sectors are all that is taken.
Accounted(mp, dsk, F, data) ==
    \A s \in mp \ Reserved : \E i \in F : s \in {i} \cup Sectors(dsk, data[i])
StoreFine(mp, dsk) == mp \in SUBSET Sector /\ Reserved \subseteq mp /\ DiskFine(dsk)
\* What file i with the data d consists of is on dsk as on old, and not free.
Untouched(old, dsk, mq, i, d) == \A s \in Owned(old, i, d) : dsk[s] = old[s] /\ s \in mq

\* The files G are F but for i0, which shares no sector with the others.
OneChanged(old, F, data, cont, mq, dsk, G, data2, cont2, i0) ==
    /\ \A j \in G : j # i0 => /\ j \in F /\ data2[j] = data[j] /\ cont2[j] = cont[j]
                           /\ Untouched(old, dsk, mq, j, data[j])
    /\ i0 \in G => /\ FileSound(mq, dsk, i0, data2[i0], cont2[i0])
                   /\ \A j \in G : j # i0 =>
                            Owned(dsk, i0, data2[i0]) \cap Owned(old, j, data[j]) = {}

\* The same tree has the same sectors.
LEMMA SectorsSame ==
    ASSUME NEW old, NEW dsk, NEW d, d.length \in 0 .. Capacity, Tree(dsk, d.blocks) = Tree(old, d.blocks)
    PROVE  Sectors(dsk, d) = Sectors(old, d)
<1> SUFFICES ASSUME NEW s PROVE s \in Sectors(dsk, d) <=> s \in Sectors(old, d)
  OBVIOUS
<1>1. s \in Sectors(dsk, d) <=> Needed(dsk, d, s) BY SectorsNeeded
<1>2. s \in Sectors(old, d) <=> Needed(old, d, s) BY SectorsNeeded
<1>3. Needed(dsk, d, s) <=> Needed(old, d, s) BY DEF Needed
<1> QED BY <1>1, <1>2, <1>3

\* Sector 0 is never free.
LEMMA ZeroReserved == \A mp : Reserved \subseteq mp => 0 \in mp
BY DEF Reserved

\* The files other than i0 are as they were, and i0 is sound and apart.
LEMMA FilesFrame ==
    ASSUME NEW mp, NEW old, StoreFine(mp, old), NEW F \in SUBSET Sector, NEW data, NEW cont,
           FilesFine(mp, old, F, data, cont),
           NEW mq, NEW dsk, StoreFine(mq, dsk), NEW G \in SUBSET Sector, NEW data2, NEW cont2, NEW i0,
           OneChanged(old, F, data, cont, mq, dsk, G, data2, cont2, i0)
    PROVE  /\ FilesFine(mq, dsk, G, data2, cont2)
           /\ \A j \in G : j # i0 => Sectors(dsk, data2[j]) = Sectors(old, data[j])
<1>1. ASSUME NEW j \in G, j # i0
      PROVE  /\ FileSound(mq, dsk, j, data2[j], cont2[j])
             /\ Owned(dsk, j, data2[j]) = Owned(old, j, data[j])
             /\ Sectors(dsk, data2[j]) = Sectors(old, data[j])
  <2>1. /\ j \in F /\ data2[j] = data[j] /\ cont2[j] = cont[j]
        /\ \A s \in Owned(old, j, data[j]) : dsk[s] = old[s] /\ s \in mq
    BY <1>1 DEF OneChanged, Untouched
  <2>2. FileSound(mp, old, j, data[j], cont[j]) BY <2>1 DEF FilesFine
  <2>3. DiskFine(old) /\ DiskFine(dsk) /\ 0 \in mq /\ j \in Sector BY ZeroReserved DEF StoreFine
  <2>4. /\ FileSound(mq, dsk, j, data[j], cont[j])
        /\ Tree(dsk, data[j].blocks) = Tree(old, data[j].blocks)
        /\ Owned(dsk, j, data[j]) = Owned(old, j, data[j])
    BY <2>1, <2>2, <2>3, FileFrame
  <2>5. data[j].length \in 0 .. Capacity BY <2>2 DEF FileSound, FileBody, FileData
  <2>6. Sectors(dsk, data[j]) = Sectors(old, data[j]) BY <2>4, <2>5, SectorsSame
  <2> QED BY <2>1, <2>4, <2>6
<1>2. \A j \in G : FileSound(mq, dsk, j, data2[j], cont2[j]) BY <1>1 DEF OneChanged
<1>3. ASSUME NEW i \in G, NEW j \in G, i # j
      PROVE  Owned(dsk, i, data2[i]) \cap Owned(dsk, j, data2[j]) = {}
  <2>1. CASE i # i0 /\ j # i0
    <3>1. Owned(dsk, i, data2[i]) = Owned(old, i, data[i]) /\ Owned(dsk, j, data2[j]) = Owned(old, j, data[j])
      BY <1>1, <2>1
    <3>2. i \in F /\ j \in F BY <2>1 DEF OneChanged
    <3> QED BY <1>3, <3>1, <3>2 DEF FilesFine
  <2>2. CASE i = i0 BY <1>1, <1>3, <2>2 DEF OneChanged
  <2>3. CASE j = i0
    <3>1. Owned(dsk, j, data2[j]) \cap Owned(old, i, data[i]) = {} BY <1>3, <2>3 DEF OneChanged
    <3>2. Owned(dsk, i, data2[i]) = Owned(old, i, data[i]) BY <1>1, <1>3, <2>3
    <3> QED BY <3>1, <3>2
  <2> QED BY <2>1, <2>2, <2>3
<1> QED BY <1>1, <1>2, <1>3 DEF FilesFine

\* What the files are made of is taken.
LEMMA FilesTaken ==
    ASSUME NEW mp, NEW dsk, StoreFine(mp, dsk), NEW F, NEW data, NEW cont,
           FilesFine(mp, dsk, F, data, cont), NEW i \in F
    PROVE  /\ {i} \cup Sectors(dsk, data[i]) \subseteq Owned(dsk, i, data[i])
           /\ Owned(dsk, i, data[i]) \subseteq mp \ Reserved
           /\ i \in mp \ Reserved
           /\ \A j \in F : j # i => /\ Owned(dsk, i, data[i]) \cap Owned(dsk, j, data[j]) = {}
                                    /\ i \notin Owned(dsk, j, data[j])
<1>1. FileSound(mp, dsk, i, data[i], cont[i]) BY DEF FilesFine
<1>2. mp \in SUBSET Sector /\ DiskFine(dsk) BY DEF StoreFine
<1>3. /\ {i} \cup Sectors(dsk, data[i]) \subseteq Owned(dsk, i, data[i])
      /\ Owned(dsk, i, data[i]) \subseteq mp \ Reserved
      /\ i \in Owned(dsk, i, data[i])
  BY <1>1, <1>2, FileTaken
<1>4. \A j \in F : j # i => Owned(dsk, i, data[i]) \cap Owned(dsk, j, data[j]) = {} BY DEF FilesFine
<1> QED BY <1>3, <1>4

\* What a reservation for the new file i of n sectors makes of the store.
Created(mp, dsk, i, fl, n, q, e, new) ==
    /\ q.map \in SUBSET Sector /\ mp \cup {i} \subseteq q.map /\ DiskFine(new) /\ q.full \in BOOLEAN
    /\ q.ok \in BOOLEAN
    /\ new[0] = dsk[0] \/ (new[0] = Zeros /\ q.full)
    /\ q.full # fl => q.full
    /\ \A s \in mp \ Reserved : new[s] = dsk[s]
    /\ q.ok => /\ n <= Capacity
               /\ new[i] = Inode(e)
               /\ FileSound(q.map, new, i, e, [k \in 1 .. n |-> Zeros])
               /\ Owned(new, i, e) \cap mp = {}
               /\ \A s \in q.map \ mp : s \in {i} \cup Sectors(new, e)

\* A new file, whether all its sectors were free or not.
LEMMA FileCreated ==
    ASSUME NEW mp, NEW dsk, StoreFine(mp, dsk), NEW i \in Sector \ mp, NEW fl \in BOOLEAN,
           NEW r, r = [map |-> mp \cup {i}, disk |-> dsk, blocks |-> Unallocated, ok |-> TRUE, full |-> fl],
           NEW n \in Nat, NEW q, q = Reserve(r, n),
           NEW e, e = [length |-> n, blocks |-> q.blocks],
           NEW new, new = IF q.ok THEN [q.disk EXCEPT ![i] = Inode(e)] ELSE q.disk
    PROVE  Created(mp, dsk, i, fl, n, q, e, new)
<1> DEFINE m == mp \cup {i}
           d == NoData
           c == [k \in 1 .. 0 |-> Zeros]
           g == Grown(d, q)
<1>1. /\ mp \in SUBSET Sector /\ Reserved \subseteq mp /\ DiskFine(dsk) /\ 0 \in mp
      /\ m \in SUBSET Sector /\ Reserved \subseteq m /\ 0 \in m /\ i \in m \ Reserved /\ i \in Sector
  BY ZeroReserved DEF StoreFine
<1>2. /\ FileBody(m, dsk, i, d, c) /\ Owned(dsk, i, d) = {i}
      /\ d.blocks = Unallocated /\ d.length = 0 /\ Unallocated \in Blocks
  BY <1>1, FileEmpty
<1>3. r.map = m /\ r.disk = dsk /\ r.blocks = Unallocated /\ r.ok = TRUE /\ r.full = fl
  OBVIOUS
<1>4. Fine(r, InodeEntry)
  <2>1. Unallocated \in [InodeEntry -> Sector] BY <1>2, SlotFacts
  <2>2. \A j \in InodeEntry : Unallocated[j] = 0 BY DEF Unallocated, InodeEntry
  <2> HIDE DEF m
  <2>3. r \in Reservation(InodeEntry) BY <1>1, <2>1 DEF Reservation, DiskFine
  <2> QED BY <1>1, <1>3, <2>2, <2>3 DEF Fine, DiskFine
<1>5. Holds(r, m, dsk, d) BY <1>2, <1>3, <1>4 DEF Holds
<1> HIDE DEF m, c, d
<1>6. Extended(m, dsk, i, d, c, r, n, q)
  BY ONLY <1>1, <1>2, <1>5, FileExtended, n \in Nat, q = Reserve(r, n), Zenon
<1> DEFINE u == Tree(q.disk, q.blocks)
<1>16. /\ Fine(q, InodeEntry) /\ m \subseteq q.map
       /\ FileBody(q.map, q.disk, i, g, c)
       /\ \A s \in Sector : q.disk[s] # dsk[s] =>
               \/ s \in q.map \ m
               \/ s = 0 /\ q.disk[0] = Zeros /\ q.full
               \/ s = i
       /\ Owned(q.disk, i, g) \subseteq {i} \cup (q.map \ m)
       /\ q.full # r.full => q.full
  <2> HIDE DEF u
  <2> QED BY ONLY <1>2, <1>6 DEF Extended, g
<1>17. q.ok => /\ n <= Capacity
               /\ \A x \in Need(n) : u[x] # 0
               /\ \A s \in q.map \ m : \E x \in Need(n) : u[x] = s
  BY ONLY <1>6 DEF Extended, u
<1>18. g.length = 0 /\ g.blocks = q.blocks BY <1>2 DEF Grown
<1> HIDE DEF g, u
<1>7. /\ q.map \in SUBSET Sector /\ q.disk \in [Sector -> Block] /\ q.full \in BOOLEAN /\ q.ok \in BOOLEAN
      /\ DiskFine(q.disk) /\ q.blocks \in Blocks
  BY <1>16, SlotFacts DEF Fine, Reservation, DiskFine
<1>8. i # 0 /\ i \notin Reserved BY <1>1, ZeroReserved DEF Reserved
<1>9. \A s \in Sector : s # i => new[s] = q.disk[s] BY <1>7
<1>10. \A s \in mp \ Reserved : new[s] = dsk[s]
  <2> SUFFICES ASSUME NEW s \in mp, s \notin Reserved PROVE new[s] = dsk[s]
    OBVIOUS
  <2>1. s \in Sector /\ s # i /\ s \in m BY <1>1 DEF m
  <2>2. s # 0 BY DEF Reserved
  <2> QED BY <1>9, <1>16, <2>1, <2>2
<1>11. new[0] = dsk[0] \/ (new[0] = Zeros /\ q.full)
  <2>1. 0 \in m /\ 0 \in Sector BY <1>1, ZeroIsSector
  <2> QED BY <1>8, <1>9, <1>16, <2>1
<1>12. q.full # fl => q.full BY <1>3, <1>16
<1>13. ASSUME q.ok
       PROVE  /\ n <= Capacity
              /\ DiskFine(new)
              /\ FileSound(q.map, new, i, e, [k \in 1 .. n |-> Zeros])
              /\ Owned(new, i, e) \cap mp = {}
              /\ \A s \in q.map \ mp : s \in {i} \cup Sectors(new, e)
  <2>1. g.length = 0 /\ g.blocks = q.blocks BY <1>18
  <2>2. FileBody(q.map, q.disk, i, g, c) BY <1>16
  <2>3. e = [length |-> n, blocks |-> g.blocks] BY <2>1
  <2>4. new = [q.disk EXCEPT ![i] = Inode(e)] BY <1>13
  <2>5. \A x \in Need(n) : Tree(q.disk, g.blocks)[x] # 0 BY <1>13, <1>17, <2>1, ZenonT(40) DEF u
  <2>6. n <= Capacity BY <1>13, <1>17
  <2>12. DiskFine(q.disk) /\ i \in Sector BY <1>1, <1>7
  <2>13. Lengthened(q.map, q.disk, i, g, c, n, e, new)
    BY ONLY <2>2, <2>3, <2>4, <2>5, <2>6, <2>12, n \in Nat, FileLengthened, Zenon
  <2>7. /\ DiskFine(new)
        /\ FileSound(q.map, new, i, e, ZerosTo(c, g.length, n))
        /\ Tree(new, g.blocks) = Tree(q.disk, g.blocks)
        /\ Owned(new, i, e) = Owned(q.disk, i, g)
    BY <2>13 DEF Lengthened
  <2>8. ZerosTo(c, g.length, n) = [k \in 1 .. n |-> Zeros]
    <3>1. DOMAIN c = {} /\ DOMAIN Lost = {1}
      <4>1. 1 .. 0 = {} /\ 1 .. 1 = {1} OBVIOUS
      <4> QED BY <4>1 DEF c, Lost
    <3>2. c # Lost
      <4>1. 1 \in DOMAIN Lost /\ 1 \notin DOMAIN c BY <3>1
      <4> QED BY <4>1
    <3>3. ~(n < 0) OBVIOUS
    <3> QED BY <2>1, <3>2, <3>3 DEF ZerosTo
  <2>9. FileSound(q.map, new, i, e, [k \in 1 .. n |-> Zeros]) BY <2>7, <2>8
  <2>10. Owned(new, i, e) \cap mp = {}
    <3>1. Owned(q.disk, i, g) \subseteq {i} \cup (q.map \ m) BY <1>16
    <3> QED BY <2>7, <3>1 DEF m
  <2>11. ASSUME NEW s \in q.map \ mp, s # i PROVE s \in Sectors(new, e)
    <3>1. PICK x \in Need(n) : u[x] = s BY <1>13, <1>17, <2>11 DEF m
    <3>2. e.length = n /\ e.blocks = q.blocks OBVIOUS
    <3>3. Tree(new, e.blocks)[x] = s BY <2>1, <2>7, <3>1, <3>2 DEF u
    <3>4. Needed(new, e, s) BY <3>1, <3>2, <3>3 DEF Needed
    <3>5. e.length \in 0 .. Capacity BY <2>6, <3>2, CapacityNat
    <3> QED BY <3>4, <3>5, SectorsNeeded
  <2> QED BY <2>6, <2>7, <2>9, <2>10, <2>11
<1>14. DiskFine(new)
  <2>1. CASE q.ok BY <1>13, <2>1
  <2>2. CASE ~q.ok
    <3>1. new = q.disk BY <2>2
    <3> QED BY <1>7, <3>1
  <2> QED BY <2>1, <2>2
<1>15. mp \cup {i} \subseteq q.map BY <1>16 DEF m
<1>19. q.ok => new[i] = Inode(e) BY <1>1, <1>7
<1> QED BY <1>7, <1>10, <1>11, <1>12, <1>13, <1>14, <1>15, <1>19 DEF Created

\* v written to the blocks pos to end - 1 of the inode data with the entries b.
Overlaid(dsk, b, pos, end, v) ==
    [s \in Sector |-> IF s \in {SectorAt(dsk, b, k) : k \in pos .. end - 1} THEN Data(v) ELSE dsk[s]]
\* The content c with v written to the same blocks, and zeros before them if need be.
Promise(c, pos, end, v) ==
    IF c = Lost THEN Lost
    ELSE [k \in 1 .. Max({Len(c), end}) |-> IF k \in pos + 1 .. end THEN Data(v)
                                            ELSE IF k <= Len(c) THEN c[k] ELSE Zeros]

\* What a write makes of file i with the data d and the content c.
Overwritten(mp, dsk, i, d, fl, q, longer, new, after) ==
    /\ q.map \in SUBSET Sector /\ mp \subseteq q.map /\ DiskFine(new) /\ q.full \in BOOLEAN
    /\ q.ok \in BOOLEAN
    /\ new[0] = dsk[0] \/ (new[0] = Zeros /\ q.full)
    /\ q.full # fl => q.full
    /\ \A s \in mp \ Reserved : s \notin Owned(dsk, i, d) => new[s] = dsk[s]
    /\ FileSound(q.map, new, i, longer, after)
    /\ Owned(new, i, longer) \subseteq Owned(dsk, i, d) \cup (q.map \ mp)
    /\ d.length <= longer.length => Sectors(dsk, d) \subseteq Sectors(new, longer)
    /\ q.ok => \A s \in q.map \ mp : s \in Sectors(new, longer)

\* The content is as long as the file.
LEMMA LenOfContent ==
    ASSUME NEW mp, NEW dsk, NEW i, NEW d, NEW c, FileBody(mp, dsk, i, d, c), c # Lost, DiskFine(dsk)
    PROVE  c \in Seq(Block) /\ Len(c) = d.length
<1> DEFINE t == Tree(dsk, d.blocks)
<1>1. d.length \in 0 .. Capacity /\ d.blocks \in Blocks /\ Capacity \in Nat BY CapacityNat DEF FileBody, FileData
<1>2. t \in [Place -> Sector] BY <1>1, TreeType DEF DiskFine
<1>3. c = [k \in 1 .. d.length |-> dsk[t[Leaf(k - 1)]]] BY DEF FileBody, Kept
<1> HIDE DEF t
<1>4. ASSUME NEW k \in 1 .. d.length PROVE dsk[t[Leaf(k - 1)]] \in Block
  <2>1. k - 1 \in 0 .. Capacity - 1 BY <1>1
  <2>2. Leaf(k - 1) \in Place BY <2>1, LeafPlace
  <2> QED BY <1>2, <2>2 DEF DiskFine
<1>5. c \in [1 .. d.length -> Block] BY <1>3, <1>4
<1>6. d.length \in Nat BY <1>1
<1> QED BY <1>5, <1>6

\* The greater of two lengths.
LEMMA MaxOfTwo == \A m, n \in Nat : Max({m, n}) = IF m <= n THEN n ELSE m
<1> SUFFICES ASSUME NEW m \in Nat, NEW n \in Nat PROVE Max({m, n}) = IF m <= n THEN n ELSE m
  OBVIOUS
<1> DEFINE x == IF m <= n THEN n ELSE m
<1>1. x \in {m, n} /\ \A y \in {m, n} : x >= y OBVIOUS
<1>2. \A y \in {m, n} : (\A z \in {m, n} : y >= z) => y = x OBVIOUS
<1>3. Max({m, n}) = CHOOSE y \in {m, n} : \A z \in {m, n} : y >= z BY DEF Max
<1> QED BY <1>1, <1>2, <1>3

\* A write within the file.
LEMMA FileWrittenWithin ==
    ASSUME NEW mp, NEW dsk, StoreFine(mp, dsk), NEW i \in Sector, NEW d, NEW c, FileSound(mp, dsk, i, d, c),
           NEW fl \in BOOLEAN, NEW v \in Value, NEW pos \in Nat, NEW n \in Nat, pos <= n, n <= d.length,
           NEW q, q = [map |-> mp, disk |-> dsk, blocks |-> d.blocks, ok |-> TRUE, full |-> fl],
           NEW new, new = Overlaid(dsk, d.blocks, pos, n, v), NEW after, after = Promise(c, pos, n, v)
    PROVE  Overwritten(mp, dsk, i, d, fl, q, d, new, after)
<1> DEFINE c2 == WrittenTo(c, d.length, pos, n, v)
<1>1. mp \in SUBSET Sector /\ DiskFine(dsk) BY DEF StoreFine
<1>2. FileBody(mp, dsk, i, d, c) BY DEF FileSound
<1>3. d.length \in 0 .. Capacity /\ d.length \in Nat BY <1>2, CapacityNat DEF FileBody, FileData
<1>4. Written(mp, dsk, i, d, c, v, pos, n, new)
  <2> DEFINE written == {SectorAt(dsk, d.blocks, k) : k \in pos .. n - 1}
  <2>1. new = [s \in Sector |-> IF s \in written THEN Data(v) ELSE dsk[s]] BY DEF Overlaid
  <2>2. written = {SectorAt(dsk, d.blocks, k) : k \in pos .. n - 1} OBVIOUS
  <2> HIDE DEF written
  <2>3. FileSound(mp, dsk, i, d, c) OBVIOUS
  <2> QED BY ONLY <1>1, <2>1, <2>2, <2>3, i \in Sector, v \in Value, pos \in Nat, n \in Nat, n <= d.length,
             FileWritten, Zenon
<1>5. after = c2
  <2>1. CASE c = Lost BY <2>1 DEF Promise, WrittenTo
  <2>2. CASE c # Lost
    <3>1. Len(c) = d.length BY <1>1, <1>2, <2>2, LenOfContent
    <3>2. Max({Len(c), n}) = d.length BY <1>3, <3>1, MaxOfTwo
    <3>3. after = [k \in 1 .. d.length |-> IF k \in pos + 1 .. n THEN Data(v)
                                         ELSE IF k <= d.length THEN c[k] ELSE Zeros]
      BY <2>2, <3>1, <3>2 DEF Promise
    <3> QED BY <2>2, <3>3 DEF WrittenTo
  <2> QED BY <2>1, <2>2
<1>6. Sectors(new, d) = Sectors(dsk, d) BY <1>3, <1>4, SectorsSame DEF Written
<1>7. q.map = mp /\ q.full = fl /\ q.ok = TRUE OBVIOUS
<1>8. /\ DiskFine(new) /\ FileSound(mp, new, i, d, c2)
      /\ Owned(new, i, d) = Owned(dsk, i, d)
      /\ \A s \in Sector : new[s] # dsk[s] => s \in Owned(dsk, i, d)
      /\ new[0] = dsk[0]
  BY ONLY <1>4 DEF Written
<1> HIDE DEF c2
<1>9. \A s \in mp \ Reserved : s \notin Owned(dsk, i, d) => new[s] = dsk[s] BY <1>1, <1>8
<1>10. Overwritten(mp, dsk, i, d, fl, q, d, new, after)
  BY ONLY <1>1, <1>5, <1>6, <1>7, <1>8, <1>9, fl \in BOOLEAN DEF Overwritten
<1> QED BY <1>10

\* A write that writes nothing.
LEMMA FileUnwritten ==
    ASSUME NEW mp, NEW dsk, StoreFine(mp, dsk), NEW i, NEW d, NEW c, FileSound(mp, dsk, i, d, c),
           NEW fl \in BOOLEAN, NEW q, q.map = mp, q.full = fl, q.ok \in BOOLEAN
    PROVE  Overwritten(mp, dsk, i, d, fl, q, d, dsk, c)
<1>1. mp \in SUBSET Sector /\ DiskFine(dsk) BY DEF StoreFine
<1> QED BY <1>1 DEF Overwritten

\* Nothing is known of the content any more.
LEMMA FileLost ==
    ASSUME NEW mp, NEW dsk, NEW i, NEW d, NEW c, FileSound(mp, dsk, i, d, c)
    PROVE  FileSound(mp, dsk, i, d, Lost)
BY DEF FileSound, FileBody

\* What the reservation a write begins with makes of the store.
Reserving(mp, dsk, i, d, c, r, fl, n, q) ==
    /\ Extended(mp, dsk, i, d, c, r, n, q)
    /\ q.map \in SUBSET Sector /\ mp \subseteq q.map /\ DiskFine(q.disk) /\ q.full \in BOOLEAN
    /\ q.ok \in BOOLEAN
    /\ q.disk[0] = dsk[0] \/ (q.disk[0] = Zeros /\ q.full)
    /\ q.full # fl => q.full
    /\ \A s \in mp \ Reserved : s \notin Owned(dsk, i, d) => q.disk[s] = dsk[s]

\* The reservation a write past the end of file i begins with.
LEMMA WriteReserves ==
    ASSUME NEW mp, NEW dsk, StoreFine(mp, dsk), NEW i \in Sector, NEW d, NEW c, FileSound(mp, dsk, i, d, c),
           NEW fl \in BOOLEAN, NEW n \in Nat,
           NEW r, r = [map |-> mp, disk |-> dsk, blocks |-> d.blocks, ok |-> TRUE, full |-> fl],
           NEW q, q = Reserve(r, n)
    PROVE  Reserving(mp, dsk, i, d, c, r, fl, n, q)
<1>1. mp \in SUBSET Sector /\ DiskFine(dsk) /\ Reserved \subseteq mp BY DEF StoreFine
<1>2. FileBody(mp, dsk, i, d, c) BY DEF FileSound
<1>3. /\ d \in FileData /\ d.blocks \in Blocks /\ d.length \in 0 .. Capacity
      /\ i \in mp \ Reserved
      /\ Sound(mp, Place, Tree(dsk, d.blocks))
  BY <1>2 DEF FileBody, FileData
<1>4. r.map = mp /\ r.disk = dsk /\ r.blocks = d.blocks /\ r.ok = TRUE /\ r.full = fl
  OBVIOUS
<1>5. 0 \in mp BY <1>1, ZeroReserved
<1>6. ASSUME NEW j \in InodeEntry PROVE d.blocks[j] \in mp
  <2>1. <<j, 0, 0>> \in Place BY EntryPlace
  <2>2. Tree(dsk, d.blocks)[<<j, 0, 0>>] = d.blocks[j] BY EntryPlace
  <2> QED BY <1>3, <2>1, <2>2 DEF Sound
<1>7. r \in Reservation(InodeEntry)
  <2>1. d.blocks \in [InodeEntry -> Sector] BY <1>3, SlotFacts
  <2> QED BY <1>1, <2>1 DEF Reservation, DiskFine
<1>8. Fine(r, InodeEntry) BY <1>1, <1>4, <1>5, <1>6, <1>7 DEF Fine, DiskFine
<1>9. Holds(r, mp, dsk, d) BY <1>4, <1>8 DEF Holds
<1>10. Extended(mp, dsk, i, d, c, r, n, q)
  BY ONLY <1>1, <1>2, <1>9, i \in Sector, n \in Nat, q = Reserve(r, n), FileExtended, Zenon
<1>11. /\ Fine(q, InodeEntry) /\ mp \subseteq q.map
       /\ \A s \in Sector : q.disk[s] # dsk[s] =>
               \/ s \in q.map \ mp
               \/ s = 0 /\ q.disk[0] = Zeros /\ q.full
               \/ s \in Owned(dsk, i, d)
       /\ q.full # r.full => q.full
  BY ONLY <1>10 DEF Extended
<1>12. /\ q.map \in SUBSET Sector /\ q.disk \in [Sector -> Block] /\ q.full \in BOOLEAN /\ q.ok \in BOOLEAN /\ DiskFine(q.disk)
  BY <1>11 DEF Fine, Reservation, DiskFine
<1>13. Owned(dsk, i, d) \subseteq mp \ Reserved
  BY <1>1, FileTaken
<1>14. q.disk[0] = dsk[0] \/ (q.disk[0] = Zeros /\ q.full)
  <2>1. 0 \notin Owned(dsk, i, d) BY <1>13 DEF Reserved
  <2> QED BY <1>5, <1>11, <2>1, ZeroIsSector
<1>15. ASSUME NEW s \in mp \ Reserved, s \notin Owned(dsk, i, d) PROVE q.disk[s] = dsk[s]
  <2>1. s \in Sector /\ s # 0 BY <1>1 DEF Reserved
  <2> QED BY <1>11, <1>15, <2>1
<1> QED BY <1>4, <1>10, <1>11, <1>12, <1>14, <1>15 DEF Reserving

\* What file i had of its own it still has.
LEMMA ExtendedSectors ==
    ASSUME NEW mp, NEW dsk, NEW i, NEW d, NEW c, FileBody(mp, dsk, i, d, c), NEW r, NEW n, NEW q,
           Extended(mp, dsk, i, d, c, r, n, q),
           NEW new, NEW longer, longer.length \in 0 .. Capacity, d.length <= longer.length,
           Tree(new, longer.blocks) = Tree(q.disk, q.blocks)
    PROVE  Sectors(dsk, d) \subseteq Sectors(new, longer)
<1> SUFFICES ASSUME NEW s \in Sectors(dsk, d) PROVE s \in Sectors(new, longer)
  OBVIOUS
<1>1. d.length \in 0 .. Capacity /\ d.length \in Nat /\ longer.length \in Nat
  BY CapacityNat DEF FileBody, FileData
<1>2. Needed(dsk, d, s) BY <1>1, SectorsNeeded
<1>3. PICK x \in Need(d.length) : Tree(dsk, d.blocks)[x] = s BY <1>2 DEF Needed
<1>4. x \in Place BY <1>1, NeedPlaces
<1>5. Tree(dsk, d.blocks)[x] # 0 BY <1>3 DEF FileBody
<1>6. \A y \in Place : Tree(dsk, d.blocks)[y] # 0 => Tree(q.disk, q.blocks)[y] = Tree(dsk, d.blocks)[y]
  BY DEF Extended
<1>7. Tree(q.disk, q.blocks)[x] = s BY <1>3, <1>4, <1>5, <1>6
<1>8. x \in Need(longer.length) BY <1>1, NeedMonotone
<1>9. Needed(new, longer, s) BY <1>7, <1>8 DEF Needed
<1> QED BY <1>9, SectorsNeeded

\* The file is given another length, before anything is written to it.
LEMMA FileResized ==
    ASSUME NEW mp, NEW dsk, StoreFine(mp, dsk), NEW i \in Sector, NEW d, NEW c, FileSound(mp, dsk, i, d, c),
           NEW fl \in BOOLEAN, NEW n \in Nat,
           NEW r, r = [map |-> mp, disk |-> dsk, blocks |-> d.blocks, ok |-> TRUE, full |-> fl],
           NEW q, q = Reserve(r, n), q.ok,
           NEW longer, longer = [length |-> n, blocks |-> q.blocks],
           NEW mid, mid = [q.disk EXCEPT ![i] = Inode(longer)]
    PROVE  Overwritten(mp, dsk, i, d, fl, q, longer, mid, ZerosTo(c, d.length, n)) /\ n <= Capacity
<1> DEFINE g == Grown(d, q)
           c3 == ZerosTo(c, d.length, n)
<1>1. Reserving(mp, dsk, i, d, c, r, fl, n, q)
  BY ONLY StoreFine(mp, dsk), i \in Sector, FileSound(mp, dsk, i, d, c), fl \in BOOLEAN, n \in Nat,
          r = [map |-> mp, disk |-> dsk, blocks |-> d.blocks, ok |-> TRUE, full |-> fl],
          q = Reserve(r, n), WriteReserves, Zenon
<1>2. /\ Extended(mp, dsk, i, d, c, r, n, q)
      /\ q.map \in SUBSET Sector /\ mp \subseteq q.map /\ DiskFine(q.disk) /\ q.full \in BOOLEAN
      /\ q.ok \in BOOLEAN
      /\ q.disk[0] = dsk[0] \/ (q.disk[0] = Zeros /\ q.full)
      /\ q.full # fl => q.full
      /\ \A s \in mp \ Reserved : s \notin Owned(dsk, i, d) => q.disk[s] = dsk[s]
  BY ONLY <1>1 DEF Reserving
<1>3. FileBody(mp, dsk, i, d, c) /\ DiskFine(dsk) /\ mp \in SUBSET Sector /\ Reserved \subseteq mp
  BY DEF FileSound, StoreFine
<1>4. d.length \in 0 .. Capacity /\ d.length \in Nat /\ Capacity \in Nat
  BY <1>3, CapacityNat DEF FileBody, FileData
<1>5. /\ FileBody(q.map, q.disk, i, g, c)
      /\ Owned(q.disk, i, g) \subseteq Owned(dsk, i, d) \cup (q.map \ mp)
      /\ n <= Capacity
      /\ \A x \in Need(n) : Tree(q.disk, q.blocks)[x] # 0
      /\ \A s \in q.map \ mp : \E x \in Need(n) : Tree(q.disk, q.blocks)[x] = s
  BY ONLY <1>2, q.ok DEF Extended, g
<1>6. g.length = d.length /\ g.blocks = q.blocks BY DEF Grown
<1>7. i \in mp \ Reserved BY <1>3 DEF FileBody
<1> HIDE DEF g
<1>8. Lengthened(q.map, q.disk, i, g, c, n, longer, mid)
  <2>1. \A x \in Need(n) : Tree(q.disk, g.blocks)[x] # 0 BY <1>5, <1>6
  <2>2. longer = [length |-> n, blocks |-> g.blocks] BY <1>6
  <2>3. mid = [q.disk EXCEPT ![i] = Inode(longer)] OBVIOUS
  <2>4. FileBody(q.map, q.disk, i, g, c) /\ DiskFine(q.disk) /\ n <= Capacity BY <1>2, <1>5
  <2> QED BY ONLY <2>1, <2>2, <2>3, <2>4, i \in Sector, n \in Nat, FileLengthened, Zenon
<1>9. /\ DiskFine(mid)
      /\ FileSound(q.map, mid, i, longer, c3)
      /\ Tree(mid, q.blocks) = Tree(q.disk, q.blocks)
      /\ Owned(mid, i, longer) = Owned(q.disk, i, g)
  BY ONLY <1>6, <1>8 DEF Lengthened, c3
<1>10. longer.length = n /\ longer.blocks = q.blocks OBVIOUS
<1> HIDE DEF c3
<1>11. mid[0] = dsk[0] \/ (mid[0] = Zeros /\ q.full)
  <2>1. i # 0 BY <1>7 DEF Reserved
  <2>2. mid[0] = q.disk[0] BY <1>2, <2>1, ZeroIsSector DEF DiskFine
  <2> QED BY <1>2, <2>2
<1>12. ASSUME NEW s \in mp \ Reserved, s \notin Owned(dsk, i, d) PROVE mid[s] = dsk[s]
  <2>1. s \in Sector /\ s # i BY <1>3, <1>12 DEF Owned
  <2>2. mid[s] = q.disk[s] BY <1>2, <2>1 DEF DiskFine
  <2> QED BY <1>2, <1>12, <2>2
<1>13. Owned(mid, i, longer) \subseteq Owned(dsk, i, d) \cup (q.map \ mp) BY <1>5, <1>9
<1>14. longer.length \in 0 .. Capacity BY <1>4, <1>5, <1>10
<1>15. Tree(mid, longer.blocks) = Tree(q.disk, q.blocks) BY <1>9, <1>10
<1>16. d.length <= longer.length => Sectors(dsk, d) \subseteq Sectors(mid, longer)
  <2> SUFFICES ASSUME d.length <= longer.length PROVE Sectors(dsk, d) \subseteq Sectors(mid, longer)
    OBVIOUS
  <2>1. d.length <= longer.length OBVIOUS
  <2> QED BY ONLY <1>2, <1>3, <1>14, <1>15, <2>1, ExtendedSectors, Zenon
<1>17. ASSUME NEW s \in q.map \ mp PROVE s \in Sectors(mid, longer)
  <2>1. PICK x \in Need(n) : Tree(q.disk, q.blocks)[x] = s BY <1>5
  <2>2. Needed(mid, longer, s) BY <1>10, <1>15, <2>1 DEF Needed
  <2> QED BY <1>14, <2>2, SectorsNeeded
<1>18. Overwritten(mp, dsk, i, d, fl, q, longer, mid, c3)
  BY ONLY <1>2, <1>9, <1>11, <1>12, <1>13, <1>16, <1>17 DEF Overwritten
<1> QED BY <1>5, <1>18 DEF c3

\* A write of no bytes past the end of the file, or at its beginning: nothing is
\* known of the content if the length has changed.
LEMMA FileCut ==
    ASSUME NEW mp, NEW dsk, StoreFine(mp, dsk), NEW i \in Sector, NEW d, NEW c, FileSound(mp, dsk, i, d, c),
           NEW fl \in BOOLEAN, NEW n \in Nat,
           NEW r, r = [map |-> mp, disk |-> dsk, blocks |-> d.blocks, ok |-> TRUE, full |-> fl],
           NEW q, q = Reserve(r, n), q.ok,
           NEW longer, longer = [length |-> n, blocks |-> q.blocks],
           NEW mid, mid = [q.disk EXCEPT ![i] = Inode(longer)],
           NEW after, after \in {c, Lost}, n # d.length => after = Lost
    PROVE  Overwritten(mp, dsk, i, d, fl, q, longer, mid, after)
<1>1. Overwritten(mp, dsk, i, d, fl, q, longer, mid, ZerosTo(c, d.length, n))
  BY ONLY StoreFine(mp, dsk), i \in Sector, FileSound(mp, dsk, i, d, c), fl \in BOOLEAN, n \in Nat,
          r = [map |-> mp, disk |-> dsk, blocks |-> d.blocks, ok |-> TRUE, full |-> fl],
          q = Reserve(r, n), q.ok, longer = [length |-> n, blocks |-> q.blocks],
          mid = [q.disk EXCEPT ![i] = Inode(longer)], FileResized, Zenon
<1>2. FileSound(q.map, mid, i, longer, ZerosTo(c, d.length, n)) BY ONLY <1>1 DEF Overwritten
<1>3. FileSound(q.map, mid, i, longer, Lost) BY ONLY <1>2, FileLost
<1>4. ASSUME after # Lost PROVE after = ZerosTo(c, d.length, n)
  <2>1. after = c /\ n = d.length BY <1>4
  <2>2. c = [k \in 1 .. d.length |-> dsk[Tree(dsk, d.blocks)[Leaf(k - 1)]]]
    BY <1>4, <2>1 DEF FileSound, FileBody, Kept
  <2>3. c = [k \in 1 .. d.length |-> c[k]] BY <2>2
  <2>4. [k \in 1 .. n |-> IF k <= d.length THEN c[k] ELSE Zeros] = [k \in 1 .. d.length |-> c[k]]
    BY <2>1
  <2> QED BY <1>4, <2>1, <2>3, <2>4 DEF ZerosTo
<1>5. FileSound(q.map, mid, i, longer, after) BY <1>2, <1>3, <1>4
<1> QED BY ONLY <1>1, <1>5 DEF Overwritten

\* A write past the end of the file.
LEMMA FileWrittenPast ==
    ASSUME NEW mp, NEW dsk, StoreFine(mp, dsk), NEW i \in Sector, NEW d, NEW c, FileSound(mp, dsk, i, d, c),
           NEW fl \in BOOLEAN, NEW v \in Value, NEW pos \in Nat, NEW n \in Nat, d.length < n,
           NEW r, r = [map |-> mp, disk |-> dsk, blocks |-> d.blocks, ok |-> TRUE, full |-> fl],
           NEW q, q = Reserve(r, n), q.ok,
           NEW longer, longer = [length |-> n, blocks |-> q.blocks],
           NEW mid, mid = [q.disk EXCEPT ![i] = Inode(longer)],
           NEW new, new = Overlaid(mid, q.blocks, pos, n, v), NEW after, after = Promise(c, pos, n, v)
    PROVE  Overwritten(mp, dsk, i, d, fl, q, longer, new, after)
<1> DEFINE c3 == ZerosTo(c, d.length, n)
           c4 == WrittenTo(c3, n, pos, n, v)
<1>1. Overwritten(mp, dsk, i, d, fl, q, longer, mid, c3) /\ n <= Capacity
  BY ONLY StoreFine(mp, dsk), i \in Sector, FileSound(mp, dsk, i, d, c), fl \in BOOLEAN, n \in Nat,
          r = [map |-> mp, disk |-> dsk, blocks |-> d.blocks, ok |-> TRUE, full |-> fl],
          q = Reserve(r, n), q.ok, longer = [length |-> n, blocks |-> q.blocks],
          mid = [q.disk EXCEPT ![i] = Inode(longer)], FileResized, Zenon
<1> HIDE DEF c3
<1>2. /\ q.map \in SUBSET Sector /\ mp \subseteq q.map /\ DiskFine(mid) /\ q.full \in BOOLEAN
      /\ q.ok \in BOOLEAN
      /\ mid[0] = dsk[0] \/ (mid[0] = Zeros /\ q.full)
      /\ q.full # fl => q.full
      /\ \A s \in mp \ Reserved : s \notin Owned(dsk, i, d) => mid[s] = dsk[s]
      /\ FileSound(q.map, mid, i, longer, c3)
      /\ Owned(mid, i, longer) \subseteq Owned(dsk, i, d) \cup (q.map \ mp)
      /\ d.length <= longer.length => Sectors(dsk, d) \subseteq Sectors(mid, longer)
      /\ q.ok => \A s \in q.map \ mp : s \in Sectors(mid, longer)
  BY ONLY <1>1 DEF Overwritten
<1>3. FileBody(mp, dsk, i, d, c) /\ DiskFine(dsk) BY DEF FileSound, StoreFine
<1>4. d.length \in 0 .. Capacity /\ d.length \in Nat /\ Capacity \in Nat
  BY <1>3, CapacityNat DEF FileBody, FileData
<1>5. longer.length = n /\ longer.blocks = q.blocks OBVIOUS
<1>6. Written(q.map, mid, i, longer, c3, v, pos, n, new)
  <2> DEFINE written == {SectorAt(mid, longer.blocks, k) : k \in pos .. n - 1}
  <2>1. new = [s \in Sector |-> IF s \in written THEN Data(v) ELSE mid[s]] BY <1>5 DEF Overlaid
  <2>2. written = {SectorAt(mid, longer.blocks, k) : k \in pos .. n - 1} OBVIOUS
  <2> HIDE DEF written
  <2>3. n <= longer.length BY <1>5
  <2>4. FileSound(q.map, mid, i, longer, c3) /\ DiskFine(mid) BY <1>2
  <2> QED BY ONLY <2>1, <2>2, <2>3, <2>4, i \in Sector, v \in Value, pos \in Nat, n \in Nat, FileWritten, Zenon
<1>7. /\ DiskFine(new) /\ FileSound(q.map, new, i, longer, c4)
      /\ Tree(new, longer.blocks) = Tree(mid, longer.blocks)
      /\ Owned(new, i, longer) = Owned(mid, i, longer)
      /\ \A s \in Sector : new[s] # mid[s] => s \in Owned(mid, i, longer)
      /\ new[0] = mid[0]
  BY ONLY <1>5, <1>6 DEF Written, c4
<1>8. after = c4
  <2>1. CASE c = Lost BY <2>1 DEF Promise, WrittenTo, ZerosTo, c3
  <2>2. CASE c # Lost
    <3>1. Len(c) = d.length BY <1>3, <2>2, LenOfContent
    <3>2. Max({Len(c), n}) = n BY <1>4, <3>1, MaxOfTwo
    <3>3. c3 = [k \in 1 .. n |-> IF k <= d.length THEN c[k] ELSE Zeros]
      <4>1. ~(n < d.length) BY <1>4
      <4> QED BY <2>2, <4>1 DEF c3, ZerosTo
    <3>4. c3 # Lost
      <4>1. n \in 1 .. n /\ ~(n <= d.length) BY <1>4
      <4>2. c3[n] = Zeros BY <3>3, <4>1
      <4>3. ASSUME c3 = Lost PROVE n = 1
        <5>1. n \in DOMAIN Lost BY <3>3, <4>1, <4>3
        <5> QED BY <5>1 DEF Lost
      <4>4. Lost[1] # Zeros BY DEF Lost, System, Zeros
      <4> QED BY <4>2, <4>3, <4>4
    <3>5. after = [k \in 1 .. n |-> IF k \in pos + 1 .. n THEN Data(v)
                                  ELSE IF k <= d.length THEN c[k] ELSE Zeros]
      BY <2>2, <3>1, <3>2 DEF Promise
    <3>6. \A k \in 1 .. n : c3[k] = IF k <= d.length THEN c[k] ELSE Zeros BY <3>3
    <3> QED BY <3>4, <3>5, <3>6 DEF WrittenTo
  <2> QED BY <2>1, <2>2
<1> HIDE DEF c4
<1>9. new[0] = dsk[0] \/ (new[0] = Zeros /\ q.full) BY <1>2, <1>7
<1>10. ASSUME NEW s \in mp \ Reserved, s \notin Owned(dsk, i, d) PROVE new[s] = dsk[s]
  <2>1. s \in Sector /\ s \notin Owned(mid, i, longer) BY <1>2, <1>10
  <2> QED BY <1>2, <1>7, <1>10, <2>1
<1>11. Sectors(new, longer) = Sectors(mid, longer)
  <2>1. longer.length \in 0 .. Capacity BY <1>1, <1>4, <1>5
  <2>2. Tree(new, longer.blocks) = Tree(mid, longer.blocks) BY <1>7
  <2> QED BY ONLY <2>1, <2>2, SectorsSame, Zenon
<1> QED BY ONLY <1>2, <1>7, <1>8, <1>9, <1>10, <1>11 DEF Overwritten

\* A write whose reservation fails.
LEMMA FileWriteFailed ==
    ASSUME NEW mp, NEW dsk, StoreFine(mp, dsk), NEW i \in Sector, NEW d, NEW c, FileSound(mp, dsk, i, d, c),
           NEW fl \in BOOLEAN, NEW n \in Nat,
           NEW r, r = [map |-> mp, disk |-> dsk, blocks |-> d.blocks, ok |-> TRUE, full |-> fl],
           NEW q, q = Reserve(r, n), ~q.ok,
           NEW longer, longer = [length |-> d.length, blocks |-> q.blocks]
    PROVE  Overwritten(mp, dsk, i, d, fl, q, longer, q.disk, c)
<1>30. Reserving(mp, dsk, i, d, c, r, fl, n, q)
  BY ONLY StoreFine(mp, dsk), i \in Sector, FileSound(mp, dsk, i, d, c), fl \in BOOLEAN, n \in Nat,
          r = [map |-> mp, disk |-> dsk, blocks |-> d.blocks, ok |-> TRUE, full |-> fl],
          q = Reserve(r, n), WriteReserves, Zenon
<1>1. /\ Extended(mp, dsk, i, d, c, r, n, q)
      /\ q.map \in SUBSET Sector /\ mp \subseteq q.map /\ DiskFine(q.disk) /\ q.full \in BOOLEAN
      /\ q.ok \in BOOLEAN
      /\ q.disk[0] = dsk[0] \/ (q.disk[0] = Zeros /\ q.full)
      /\ q.full # fl => q.full
      /\ \A s \in mp \ Reserved : s \notin Owned(dsk, i, d) => q.disk[s] = dsk[s]
  BY ONLY <1>30 DEF Reserving
<1>2. FileBody(mp, dsk, i, d, c) /\ OnDisk(dsk, i, d) BY DEF FileSound
<1>3. d.length \in 0 .. Capacity /\ d.length \in Nat /\ d.blocks \in Blocks
      /\ \A x \in Need(d.length) : Tree(dsk, d.blocks)[x] # 0
  BY <1>2, CapacityNat DEF FileBody, FileData
<1>4. longer = Grown(d, q) /\ longer.length = d.length /\ longer.blocks = q.blocks BY DEF Grown
<1>5. /\ FileBody(q.map, q.disk, i, longer, c)
      /\ Owned(q.disk, i, longer) \subseteq Owned(dsk, i, d) \cup (q.map \ mp)
      /\ q.disk[i] = dsk[i]
      /\ \A y \in InodeEntry : q.blocks[y] # d.blocks[y] => d.blocks[y] = 0
  BY ONLY <1>1, <1>4 DEF Extended
<1>6. OnDisk(q.disk, i, longer)
  BY ONLY <1>2, <1>3, <1>4, <1>5, FileFailed, Zenon
<1>7. FileSound(q.map, q.disk, i, longer, c) BY <1>5, <1>6 DEF FileSound
<1>8. d.length <= longer.length => Sectors(dsk, d) \subseteq Sectors(q.disk, longer)
  <2>1. longer.length \in 0 .. Capacity /\ d.length <= longer.length BY <1>3, <1>4
  <2>2. Tree(q.disk, longer.blocks) = Tree(q.disk, q.blocks) BY <1>4
  <2> QED BY ONLY <1>1, <1>2, <2>1, <2>2, ExtendedSectors
<1> QED BY ONLY <1>1, <1>5, <1>7, <1>8, ~q.ok DEF Overwritten

-----------------------------------------------------------------------------
(* The inductive invariant.                                                *)

DataOf == [i \in Sector |-> InodeData(i)]
\* What each file holds: of a file that was cut nothing is known.
Held == [i \in Sector |-> IF i \in cut THEN Lost ELSE content[i]]
Contents == {Zeros} \cup {Data(v) : v \in Value}
Handles(i) == {c \in StructFile : files[c] # Freed /\ files[c].inode = i}
Denying(i) == {c \in Handles(i) : files[c].deny}
InMemory == [cnt : Nat, deny : Nat, removed : BOOLEAN, data : [length : Nat, blocks : Blocks]]
InUse == [inode : Sector, pos : Nat, deny : BOOLEAN]

TypeOK ==
    /\ map \in SUBSET Sector
    /\ disk \in [Sector -> Block]
    /\ slots \in [Slot -> [name : Name \cup {"", ".."}, inode : Sector]]
    /\ inodes \in [Sector -> InMemory]
    /\ files \in [StructFile -> {Freed} \cup InUse]
    /\ file_array \in Seq(StructFile) /\ opened \in Seq(Sector) /\ Len(opened) = Len(file_array)
    /\ content \in [Sector -> Seq(Contents)] /\ cut \in SUBSET Sector
    /\ failed \in BOOLEAN /\ full \in BOOLEAN /\ stale \in BOOLEAN

\* Only entry 0 is the parent's, no two entries name one inode, and no two that
\* lookup() looks at have one name.
DirectoryOK ==
    /\ \A e \in Slot : \/ slots[e] = Unused
                       \/ slots[e] = Parent /\ e = 0
                       \/ slots[e].name \in Name
    /\ \A e, f \in Slot : slots[e].name \in Name /\ slots[f].name \in Name /\ e # f =>
            /\ slots[e].inode # slots[f].inode
            /\ e # 0 /\ f # 0 => slots[e].name # slots[f].name

\* An inode is open until it is closed as often as opened, and removed while
\* open when no entry names it any more.
InodesOK ==
    /\ \A i \in Sector : inodes[i].cnt = 0 => inodes[i] = NotOpen
    /\ \A i \in Sector : inodes[i].cnt # 0 => (inodes[i].removed <=> i \notin Named)

\* A struct file in use is on an open inode.
HandlesOK == \A c \in StructFile : files[c] # Freed => inodes[files[c].inode].cnt # 0

\* The descriptors that are still open share no memory.
DescriptorsOK ==
    ~stale => \A fd, gd \in DOMAIN file_array :
        opened[fd] # 0 /\ opened[gd] # 0 /\ file_array[fd] = file_array[gd] => fd = gd

FilesOK == FilesFine(map, disk, File, DataOf, Held)
AccountedOK == ~failed => Accounted(map, disk, File, DataOf)

\* Nothing that formatting took is released.
StoreOK ==
    /\ Reserved \subseteq map
    /\ disk[FREE_MAP_SECTOR] \in {System, Zeros}
    /\ ~full => disk[FREE_MAP_SECTOR] = System
    /\ halted \in {"no", "undefined", "panic", "capacity", "length", "filesize"}
    /\ halted = "panic" => full

FilesInv ==
    /\ TypeOK /\ DirectoryOK /\ InodesOK /\ HandlesOK /\ OpenCount
    /\ DescriptorKept /\ DescriptorsOK /\ FilesOK /\ AccountedOK /\ StoreOK

-----------------------------------------------------------------------------

\* The records that stand for nothing are told from the others.
LEMMA Unlike ==
    /\ NotOpen.cnt = 0 /\ NotOpen.deny = 0 /\ NotOpen.removed = FALSE /\ NotOpen \in InMemory
    /\ NotOpen.data = NoData
    /\ Unused.name = "" /\ Unused.inode = 0 /\ Parent.name = ".." /\ Parent.inode = 1
    /\ Unused.name \notin Name /\ Parent.name \notin Name
    /\ \A i, p, w : [inode |-> i, pos |-> p, deny |-> w] # Freed
<1>1. Unallocated \in Blocks BY ZeroIsSector DEF Unallocated, Blocks
<1>2. NotOpen \in InMemory BY <1>1 DEF NotOpen, InMemory
<1>3. \A i, p, w : [inode |-> i, pos |-> p, deny |-> w] # Freed BY DEF Freed
<1> QED BY <1>2, <1>3, NameAssumption DEF NotOpen, Unused, Parent, NoData

\* What follows of the state.
Derived ==
    /\ StoreFine(map, disk)
    /\ \A i \in Sector : inodes[i] = NotOpen <=> inodes[i].cnt = 0
    /\ File \in SUBSET Sector
    /\ \A i : i \in Named <=> \E e \in Slot : slots[e].name \in Name /\ slots[e].inode = i
    /\ \A i \in Sector : i \in File <=> i \in Named \/ inodes[i].cnt # 0
    /\ \A i \in Sector : DataOf[i] = IF inodes[i].cnt # 0 THEN inodes[i].data ELSE disk[i].data

\* It follows of the types alone.
LEMMA StateFacts ==
    ASSUME TypeOK, InodesOK, StoreOK
    PROVE  Derived
<1>1. \A i \in Sector : inodes[i] = NotOpen <=> inodes[i].cnt = 0 BY Unlike DEF InodesOK
<1>2. \A i : i \in Named <=> \E e \in Slot : slots[e].name \in Name /\ slots[e].inode = i BY DEF Named
<1>3. ASSUME NEW i \in Named PROVE i \in Sector
  <2>1. PICK e \in Slot : slots[e].inode = i BY <1>2
  <2> QED BY <2>1 DEF TypeOK
<1>4. DiskFine(disk) BY BlocksOfZeros DEF DiskFine, TypeOK, StoreOK, FREE_MAP_SECTOR
<1>5. \A i \in Sector : DataOf[i] = IF inodes[i].cnt # 0 THEN inodes[i].data ELSE disk[i].data
  BY <1>1 DEF DataOf, InodeData
<1>6. File \in SUBSET Sector BY <1>3 DEF File
<1>7. \A i \in Sector : i \in File <=> i \in Named \/ inodes[i].cnt # 0 BY <1>1 DEF File
<1> QED BY <1>1, <1>2, <1>4, <1>5, <1>6, <1>7 DEF Derived, StoreFine, TypeOK, StoreOK

\* What is changed about the files is about i0 only.
FilesStep(i0) ==
    /\ \A j \in File' : j # i0 => /\ j \in File /\ DataOf'[j] = DataOf[j] /\ Held'[j] = Held[j]
                                  /\ Untouched(disk, disk', map', j, DataOf[j])
    /\ \A j \in File : j # i0 => j \in File'
    /\ i0 \in File' => /\ FileSound(map', disk', i0, DataOf'[i0], Held'[i0])
                       /\ \A j \in File : j # i0 =>
                            Owned(disk', i0, DataOf'[i0]) \cap Owned(disk, j, DataOf[j]) = {}
\* No sector is lost by it.
AccountStep(i0) ==
    ~failed' =>
        /\ ~failed
        /\ \A s \in map' \ Reserved : s \notin map =>
                i0 \in File' /\ s \in {i0} \cup Sectors(disk', DataOf'[i0])
        /\ i0 \in File => \A s \in {i0} \cup Sectors(disk, DataOf[i0]) :
                s \in map' => i0 \in File' /\ s \in {i0} \cup Sectors(disk', DataOf'[i0])

\* A step about one file keeps all of them.
LEMMA FilesStepped ==
    ASSUME TypeOK, InodesOK, StoreOK, FilesOK, AccountedOK, TypeOK', InodesOK', StoreOK',
           NEW i0, FilesStep(i0), AccountStep(i0)
    PROVE  FilesOK' /\ AccountedOK'
<1>1. StoreFine(map, disk) /\ File \in SUBSET Sector /\ FilesFine(map, disk, File, DataOf, Held)
  BY StateFacts DEF FilesOK, Derived
<1>2. StoreFine(map', disk') /\ File' \in SUBSET Sector
  <2>1. Derived' BY StateFacts, PTL
  <2> QED BY <2>1 DEF Derived
<1>3. /\ \A j \in File' : j # i0 => /\ j \in File /\ DataOf'[j] = DataOf[j] /\ Held'[j] = Held[j]
                                    /\ Untouched(disk, disk', map', j, DataOf[j])
      /\ \A j \in File : j # i0 => j \in File'
      /\ i0 \in File' => /\ FileSound(map', disk', i0, DataOf'[i0], Held'[i0])
                         /\ \A j \in File : j # i0 =>
                            Owned(disk', i0, DataOf'[i0]) \cap Owned(disk, j, DataOf[j]) = {}
  BY DEF FilesStep
<1> DEFINE mq == map' dsk == disk' G == File' data2 == DataOf' cont2 == Held'
<1>4. StoreFine(mq, dsk) /\ G \in SUBSET Sector BY <1>2
<1>5. \A j \in G : j # i0 => /\ j \in File /\ data2[j] = DataOf[j] /\ cont2[j] = Held[j]
                             /\ Untouched(disk, dsk, mq, j, DataOf[j])
  BY <1>3
<1>6. i0 \in G => /\ FileSound(mq, dsk, i0, data2[i0], cont2[i0])
                  /\ \A j \in G : j # i0 => Owned(dsk, i0, data2[i0]) \cap Owned(disk, j, DataOf[j]) = {}
  BY <1>3
<1>7. AccountStep(i0) <=>
        (~failed' =>
        /\ ~failed
        /\ \A s \in mq \ Reserved : s \notin map =>
                i0 \in G /\ s \in {i0} \cup Sectors(dsk, data2[i0])
        /\ i0 \in File => \A s \in {i0} \cup Sectors(disk, DataOf[i0]) :
                s \in mq => i0 \in G /\ s \in {i0} \cup Sectors(dsk, data2[i0]))
  BY DEF AccountStep
<1>8. \A j \in File : j # i0 => j \in G BY <1>3
<1>9. FilesOK' <=> FilesFine(mq, dsk, G, data2, cont2) BY DEF FilesOK
<1>10. AccountedOK' <=> (~failed' => Accounted(mq, dsk, G, data2)) BY DEF AccountedOK
<1> HIDE DEF mq, dsk, G, data2, cont2
<1>11. /\ FilesFine(mq, dsk, G, data2, cont2)
       /\ \A j \in G : j # i0 => Sectors(dsk, data2[j]) = Sectors(disk, DataOf[j])
  <2>1. OneChanged(disk, File, DataOf, Held, mq, dsk, G, data2, cont2, i0)
    BY ONLY <1>5, <1>6 DEF OneChanged
  <2> QED BY ONLY <1>1, <1>4, <2>1, FilesFrame, SMTT(60)
<1>12. ASSUME ~failed', NEW s \in mq \ Reserved PROVE \E i \in G : s \in {i} \cup Sectors(dsk, data2[i])
  <2>1. CASE s \notin map BY <1>7, <1>12, <2>1
  <2>2. CASE s \in map
    <3>1. \E i \in File : s \in {i} \cup Sectors(disk, DataOf[i]) BY <1>7, <1>12, <2>2 DEF AccountedOK, Accounted
    <3>2. PICK i \in File : s \in {i} \cup Sectors(disk, DataOf[i]) BY <3>1
    <3>3. CASE i = i0 BY <1>7, <1>12, <3>2, <3>3
    <3>4. CASE i # i0 BY <1>8, <1>11, <3>2, <3>4
    <3> QED BY <3>3, <3>4
  <2> QED BY <2>1, <2>2
<1>13. ~failed' => Accounted(mq, dsk, G, data2) BY <1>12 DEF Accounted
<1> QED BY <1>9, <1>10, <1>11, <1>13

\* OpenCount, of the sets of handles.
LEMMA OpenCountHandles ==
    OpenCount <=> \A i \in Sector : /\ Cardinality(Handles(i)) = inodes[i].cnt
                                   /\ Cardinality(Denying(i)) = inodes[i].deny
BY DEF OpenCount, Handles, Denying

\* No content a file should hold is the one that is lost.
LEMMA ContentKnown == TypeOK => \A i \in Sector : content[i] # Lost
<1> SUFFICES ASSUME TypeOK, NEW i \in Sector, content[i] = Lost PROVE FALSE
  OBVIOUS
<1>1. content[i] \in Seq(Contents) BY DEF TypeOK
<1>2. Len(Lost) = 1 /\ Lost[1] = System BY DEF Lost
<1>3. System \in Contents
  <2>1. PICK s \in Seq(Contents) : s = Lost BY <1>1
  <2>2. Len(s) = 1 BY <1>2, <2>1
  <2>3. s[1] \in Contents BY <2>2
  <2> QED BY <1>2, <2>1, <2>3
<1> QED BY <1>3 DEF Contents, System, Zeros, Data

\* The directory has entries.
LEMMA SlotNat == Cardinality(Name) \in Nat /\ Slot \in SUBSET Nat /\ 0 \in Slot
<1>1. Cardinality(Name) \in Nat BY NameAssumption, FS_CardinalityType
<1> QED BY <1>1 DEF Slot

\* lookup() finds an entry of that name, of a file.
LEMMA Found ==
    ASSUME TypeOK, NEW name \in Name, Lookup(name) # {}
    PROVE  LET e == Min(Lookup(name)) IN
           e \in Slot /\ e # 0 /\ slots[e].name = name /\ slots[e].inode \in Named /\ slots[e].inode \in Sector
<1> DEFINE S == Lookup(name)
           e == Min(S)
<1>1. S \in SUBSET Nat /\ S # {} BY SlotNat DEF Lookup
<1>2. \E m \in S : \A n \in S : m <= n
  <2> HIDE DEF S
  <2> QED BY <1>1, LeastNatural
<1>3. e \in S BY <1>2 DEF Min
<1> HIDE DEF e
<1>4. e \in Slot /\ e # 0 /\ slots[e].name = name BY <1>3 DEF Lookup
<1>5. slots[e].inode \in Named /\ slots[e].inode \in Sector BY <1>4 DEF Named, TypeOK
<1> QED BY <1>4, <1>5 DEF e

\* There is always an unused entry: there are more entries than names.
LEMMA FreeSlotFound ==
    ASSUME TypeOK, DirectoryOK
    PROVE  FreeSlot \in Slot /\ slots[FreeSlot] = Unused
<1> DEFINE S == {e \in Slot : slots[e] = Unused}
           E == 1 .. Cardinality(Name) + 1
           h == [e \in E |-> slots[e].name]
<1>1. S # {}
  <2> SUFFICES ASSUME \A e \in Slot : slots[e] # Unused PROVE FALSE
    OBVIOUS
  <2>1. Cardinality(Name) \in Nat /\ IsFiniteSet(Name) BY SlotNat, NameAssumption
  <2>2. \A e \in E : e \in Slot /\ e # 0 BY <2>1 DEF Slot
  <2>3. h \in [E -> Name] BY <2>2 DEF DirectoryOK
  <2>4. IsFiniteSet(E) /\ Cardinality(E) = Cardinality(Name) + 1 BY <2>1, FS_Interval
  <2>5. Cardinality(Name) < Cardinality(E) BY <2>1, <2>4
  <2>6. \A e, f \in E : e # f => h[e] # h[f] BY <2>2, <2>3 DEF DirectoryOK
  <2> HIDE DEF E, h
  <2>7. \E e, f \in E : e # f /\ h[e] = h[f] BY <2>1, <2>3, <2>4, <2>5, FS_PigeonHole
  <2> QED BY <2>6, <2>7
<1>2. S \in SUBSET Nat BY SlotNat
<1>3. \E m \in S : \A n \in S : m <= n
  <2> HIDE DEF S
  <2> QED BY <1>1, <1>2, LeastNatural
<1>4. Min(S) \in S BY <1>3 DEF Min
<1> QED BY <1>4 DEF FreeSlot

\* The memory of a struct file that is handed out is not in use.
LEMMA FileMemoryFree ==
    ASSUME TypeOK, NEW c \in FileMemory
    PROVE  c \in StructFile /\ files[c] = Freed
<1> DEFINE used == Range(file_array) \cup {b \in StructFile : files[b] # Freed}
           fresh == StructFile \ used
<1>1. Range(file_array) \subseteq StructFile
  <2>1. file_array \in Seq(StructFile) BY DEF TypeOK
  <2> QED BY <2>1 DEF Range
<1>2. CASE c \in used /\ files[c] = Freed BY <1>1, <1>2
<1>3. CASE fresh # {} /\ c = Min(fresh)
  <2>1. fresh \in SUBSET Nat BY BoundAssumption DEF StructFile
  <2>2. \E m \in fresh : \A n \in fresh : m <= n
    <3> HIDE DEF fresh
    <3> QED BY <1>3, <2>1, LeastNatural
  <2>3. c \in fresh BY <1>3, <2>2 DEF Min
  <2> QED BY <2>3
<1>4. (c \in used /\ files[c] = Freed) \/ (fresh # {} /\ c = Min(fresh))
  BY DEF FileMemory
<1> QED BY <1>2, <1>3, <1>4

\* do_format() leaves a sound store.
LEMMA FilesInit == Init => FilesInv
<1> SUFFICES ASSUME Init PROVE FilesInv
  OBVIOUS
<1>1. Reserved \subseteq Sector /\ 0 \in Reserved /\ LastSector \in Nat
  BY DiskAssumption, CapacityNat DEF Reserved, Sector
<1>2. \A e \in Slot : slots[e] = Unused \/ (slots[e] = Parent /\ e = 0) BY DEF Init
<1>3. TypeOK
  <2>1. disk \in [Sector -> Block] BY DEF Init, Block
  <2>2. Unused \in [name : Name \cup {"", ".."}, inode : Sector]
        /\ Parent \in [name : Name \cup {"", ".."}, inode : Sector]
    BY <1>1 DEF Unused, Parent, Sector, Reserved
  <2>3. slots \in [Slot -> [name : Name \cup {"", ".."}, inode : Sector]] BY <2>2 DEF Init
  <2>4. inodes \in [Sector -> InMemory] BY Unlike DEF Init, NoInodes
  <2>5. files \in [StructFile -> {Freed} \cup InUse] BY DEF Init, NoFiles
  <2>6. file_array \in Seq(StructFile) /\ opened \in Seq(Sector) /\ Len(opened) = Len(file_array) BY DEF Init
  <2>7. content \in [Sector -> Seq(Contents)] /\ cut = {} BY DEF Init
  <2> QED BY <1>1, <2>1, <2>3, <2>4, <2>5, <2>6, <2>7 DEF TypeOK, Init
<1>4. \A e \in Slot : slots[e].name \notin Name BY <1>2, Unlike
<1>5. DirectoryOK BY <1>2, <1>4 DEF DirectoryOK
<1>6. \A i \in Sector : inodes[i] = NotOpen BY DEF Init, NoInodes
<1>7. InodesOK BY <1>6, Unlike DEF InodesOK
<1>8. \A c \in StructFile : files[c] = Freed BY DEF Init, NoFiles
<1>9. HandlesOK BY <1>8 DEF HandlesOK
<1>10. OpenCount
  <2> SUFFICES ASSUME NEW i \in Sector
               PROVE  /\ Cardinality(Handles(i)) = inodes[i].cnt
                      /\ Cardinality(Denying(i)) = inodes[i].deny
    BY OpenCountHandles
  <2>1. Handles(i) = {} /\ Denying(i) = {} BY <1>8 DEF Handles, Denying
  <2> QED BY <1>6, <2>1, Unlike, FS_EmptySet
<1>11. DescriptorKept /\ DescriptorsOK
  <2>1. DOMAIN file_array = {} BY DEF Init
  <2> QED BY <2>1 DEF DescriptorKept, DescriptorsOK
<1>12. File = {} BY <1>4, <1>6 DEF File, Named
<1>13. FilesOK BY <1>12 DEF FilesOK, FilesFine
<1>14. AccountedOK BY DEF AccountedOK, Accounted, Init
<1>15. StoreOK BY <1>1 DEF StoreOK, Init, FREE_MAP_SECTOR
<1> QED BY <1>3, <1>5, <1>7, <1>9, <1>10, <1>11, <1>13, <1>14, <1>15 DEF FilesInv

\* What a file is on the disk has the type it has in memory.
LEMMA FileFacts ==
    ASSUME TypeOK, InodesOK, StoreOK, FilesOK, NEW i \in File
    PROVE  /\ DataOf[i] \in FileData /\ DataOf[i] \in [length : Nat, blocks : Blocks]
           /\ FileSound(map, disk, i, DataOf[i], Held[i])
           /\ i \in map \ Reserved /\ i # 0 /\ i \in Sector
<1>1. FileSound(map, disk, i, DataOf[i], Held[i]) BY DEF FilesOK, FilesFine
<1>2. DataOf[i] \in FileData /\ i \in map \ Reserved BY <1>1 DEF FileSound, FileBody
<1>3. i # 0 /\ i \in Sector
  <2>1. map \in SUBSET Sector BY DEF TypeOK
  <2> QED BY <1>2, <2>1 DEF Reserved
<1>4. DataOf[i] \in [length : Nat, blocks : Blocks] BY <1>2, CapacityNat DEF FileData
<1> QED BY <1>1, <1>2, <1>3, <1>4

\* There are finitely many struct files.
LEMMA HandlesFinite ==
    \A i : /\ IsFiniteSet(Handles(i)) /\ Cardinality(Handles(i)) \in Nat
          /\ IsFiniteSet(Denying(i)) /\ Cardinality(Denying(i)) \in Nat
          /\ Cardinality(Denying(i)) <= Cardinality(Handles(i))
<1> SUFFICES ASSUME NEW i
             PROVE  /\ IsFiniteSet(Handles(i)) /\ Cardinality(Handles(i)) \in Nat
                    /\ IsFiniteSet(Denying(i)) /\ Cardinality(Denying(i)) \in Nat
                    /\ Cardinality(Denying(i)) <= Cardinality(Handles(i))
  OBVIOUS
<1>1. IsFiniteSet(StructFile) BY BoundAssumption, FS_Interval DEF StructFile
<1>2. Handles(i) \subseteq StructFile /\ Denying(i) \subseteq Handles(i) BY DEF Handles, Denying
<1>3. IsFiniteSet(Handles(i)) BY <1>1, <1>2, FS_Subset
<1> QED BY <1>2, <1>3, FS_Subset, FS_CardinalityType

\* The calls that change neither the store nor what the files are.
LEMMA FilesUnchanged ==
    ASSUME FilesOK, AccountedOK, map' = map, disk' = disk, File' = File, failed' = failed,
           \A i \in File : DataOf'[i] = DataOf[i] /\ Held'[i] = Held[i]
    PROVE  FilesOK' /\ AccountedOK'
<1>1. FilesOK' <=> FilesFine(map, disk, File, DataOf', Held') BY DEF FilesOK
<1>2. AccountedOK' <=> (~failed => Accounted(map, disk, File, DataOf')) BY DEF AccountedOK
<1>3. FilesFine(map, disk, File, DataOf', Held') BY DEF FilesOK, FilesFine
<1>4. ~failed => Accounted(map, disk, File, DataOf') BY DEF AccountedOK, Accounted
<1> QED BY <1>1, <1>2, <1>3, <1>4

\* What is held of a file whose content is not changed.
LEMMA HeldUnchanged ==
    ASSUME content' = content, cut' = cut PROVE \A i : Held'[i] = Held[i]
BY DEF Held

\* Inode i has one more opener, who denies writes if w.
Counted(i, w, open) ==
    /\ open \in [Sector -> InMemory]
    /\ \A j \in Sector : j # i => open[j] = inodes[j]
    /\ open[i].cnt = inodes[i].cnt + 1 /\ inodes[i].cnt \in Nat
    /\ open[i].deny = inodes[i].deny + (IF w THEN 1 ELSE 0) /\ inodes[i].deny \in Nat
    /\ open[i].data = DataOf[i]
    /\ open[i].removed = FALSE

\* inode_open(), and inode_deny_write() after it.
LEMMA InodeOpening ==
    ASSUME FilesInv, NEW i \in Named, NEW open, open = InodeOpened(i)
    PROVE  Counted(i, FALSE, open) /\ Counted(i, TRUE, [open EXCEPT ![i].deny = @ + 1])
<1>1. TypeOK /\ InodesOK /\ StoreOK /\ FilesOK BY DEF FilesInv
<1>2. /\ \A j \in Sector : inodes[j] = NotOpen <=> inodes[j].cnt = 0
      /\ \A j \in Sector : DataOf[j] = IF inodes[j].cnt # 0 THEN inodes[j].data ELSE disk[j].data
  BY <1>1, StateFacts DEF Derived
<1>3. i \in File BY DEF File
<1>4. i \in Sector /\ i # 0 /\ DataOf[i] \in [length : Nat, blocks : Blocks]
  BY <1>1, <1>3, FileFacts
<1>5. inodes \in [Sector -> InMemory] BY <1>1 DEF TypeOK
<1>6. inodes[i].cnt # 0 => inodes[i].removed = FALSE BY <1>1, <1>4, <1>5 DEF InodesOK, InMemory
<1>7. PICK n \in InMemory :
        /\ open = [inodes EXCEPT ![i] = n]
        /\ n.cnt = inodes[i].cnt + 1 /\ inodes[i].cnt \in Nat
        /\ n.deny = inodes[i].deny /\ inodes[i].deny \in Nat
        /\ n.data = DataOf[i] /\ n.removed = FALSE
  <2>1. CASE inodes[i] # NotOpen
    <3> DEFINE n == [cnt |-> inodes[i].cnt + 1, deny |-> inodes[i].deny,
                     removed |-> inodes[i].removed, data |-> inodes[i].data]
    <3>1. inodes[i] \in InMemory BY <1>4, <1>5
    <3>2. [inodes[i] EXCEPT !.cnt = inodes[i].cnt + 1] = n BY <3>1 DEF InMemory
    <3>3. open = [inodes EXCEPT ![i] = n]
      <4>1. open = [inodes EXCEPT ![i].cnt = @ + 1] BY <2>1 DEF InodeOpened
      <4> HIDE DEF n
      <4> QED BY <1>5, <3>2, <4>1
    <3>4. /\ n \in InMemory /\ n.cnt = inodes[i].cnt + 1 /\ inodes[i].cnt \in Nat
          /\ n.deny = inodes[i].deny /\ inodes[i].deny \in Nat
          /\ n.data = inodes[i].data /\ n.removed = inodes[i].removed
      BY <3>1 DEF InMemory
    <3> HIDE DEF n
    <3> QED BY <1>2, <1>4, <1>6, <2>1, <3>3, <3>4
  <2>2. CASE inodes[i] = NotOpen
    <3> DEFINE n == [cnt |-> 1, deny |-> 0, removed |-> FALSE, data |-> disk[i].data]
    <3>1. open = [inodes EXCEPT ![i] = n] BY <2>2 DEF InodeOpened
    <3>2. DataOf[i] = disk[i].data /\ inodes[i].cnt = 0 /\ inodes[i].deny = 0 BY <1>2, <1>4, <2>2, Unlike
    <3>3. n \in InMemory /\ n.cnt = 1 /\ n.deny = 0 /\ n.removed = FALSE /\ n.data = disk[i].data
      BY <1>4, <3>2 DEF InMemory
    <3>4. /\ n.cnt = inodes[i].cnt + 1 /\ inodes[i].cnt \in Nat
          /\ n.deny = inodes[i].deny /\ inodes[i].deny \in Nat
          /\ n.data = DataOf[i]
      BY <3>2, <3>3
    <3> HIDE DEF n
    <3> QED BY <3>1, <3>3, <3>4
  <2> QED BY <2>1, <2>2
<1>8. open[i] = n /\ open \in [Sector -> InMemory] /\ \A j \in Sector : j # i => open[j] = inodes[j]
  BY <1>4, <1>5, <1>7
<1>9. Counted(i, FALSE, open) BY <1>7, <1>8 DEF Counted
<1> DEFINE m == [n EXCEPT !.deny = @ + 1]
<1>10. /\ m \in InMemory /\ m.cnt = n.cnt /\ m.deny = n.deny + 1
       /\ m.data = n.data /\ m.removed = n.removed
  BY DEF InMemory
<1>11. [open EXCEPT ![i].deny = @ + 1] = [open EXCEPT ![i] = m] BY <1>4, <1>8
<1> HIDE DEF m
<1>12. Counted(i, TRUE, [open EXCEPT ![i] = m]) BY <1>4, <1>7, <1>8, <1>10 DEF Counted
<1> QED BY <1>9, <1>11, <1>12

\* A file structure on inode i is made in memory c that was free, with or without
\* a descriptor that points to it.
LEMMA Opening ==
    ASSUME FilesInv, NEW i \in Named, NEW c \in StructFile, files[c] = Freed,
           NEW p \in Nat, NEW w \in BOOLEAN, Counted(i, w, inodes'),
           files' = [files EXCEPT ![c] = [inode |-> i, pos |-> p, deny |-> w]],
           \/ file_array' = Append(file_array, c) /\ opened' = Append(opened, i)
           \/ file_array' = file_array /\ opened' = opened,
           UNCHANGED <<store, halted, content, cut, failed, full, stale>>
    PROVE  FilesInv'
<1>1. TypeOK /\ InodesOK /\ StoreOK /\ HandlesOK /\ OpenCount /\ DescriptorKept /\ DescriptorsOK
      /\ FilesOK /\ AccountedOK /\ DirectoryOK
  BY DEF FilesInv
<1>2. /\ \A j \in Sector : inodes[j] = NotOpen <=> inodes[j].cnt = 0
      /\ \A j \in Sector : j \in File <=> j \in Named \/ inodes[j].cnt # 0
      /\ \A j \in Sector : DataOf[j] = IF inodes[j].cnt # 0 THEN inodes[j].data ELSE disk[j].data
      /\ File \in SUBSET Sector
  BY <1>1, StateFacts DEF Derived
<1>3. i \in File BY DEF File
<1>4. i \in Sector /\ i # 0 /\ DataOf[i] \in [length : Nat, blocks : Blocks]
  BY <1>1, <1>3, FileFacts
<1>5. inodes \in [Sector -> InMemory] BY <1>1 DEF TypeOK
<1>6. UNCHANGED <<map, disk, slots, halted, content, cut, failed, full, stale>> BY DEF store
<1>7. /\ \A j \in Sector : j # i => inodes'[j] = inodes[j]
      /\ inodes'[i].cnt = inodes[i].cnt + 1 /\ inodes[i].cnt \in Nat
      /\ inodes'[i].deny = inodes[i].deny + (IF w THEN 1 ELSE 0) /\ inodes[i].deny \in Nat
      /\ inodes'[i].data = DataOf[i]
      /\ inodes'[i].removed = FALSE
      /\ inodes' \in [Sector -> InMemory]
  BY DEF Counted
<1>8. Named' = Named BY <1>6 DEF Named
<1>9. /\ files' \in [StructFile -> {Freed} \cup InUse]
      /\ files'[c] = [inode |-> i, pos |-> p, deny |-> w] /\ files'[c] # Freed
      /\ \A b \in StructFile : b # c => files'[b] = files[b]
  <2>1. [inode |-> i, pos |-> p, deny |-> w] \in InUse BY <1>4 DEF InUse
  <2> QED BY <1>1, <2>1, Unlike DEF TypeOK
<1>10. /\ file_array \in Seq(StructFile) /\ opened \in Seq(Sector) /\ Len(opened) = Len(file_array)
       /\ file_array' \in Seq(StructFile) /\ opened' \in Seq(Sector)
       /\ Len(opened') = Len(file_array')
       /\ \A fd \in DOMAIN file_array' :
            IF fd \in DOMAIN file_array
            THEN file_array'[fd] = file_array[fd] /\ opened'[fd] = opened[fd] /\ file_array[fd] \in StructFile
            ELSE file_array'[fd] = c /\ opened'[fd] = i /\ fd = Len(file_array) + 1
  <2>1. file_array \in Seq(StructFile) /\ opened \in Seq(Sector) /\ Len(opened) = Len(file_array)
    BY <1>1 DEF TypeOK
  <2>2. CASE file_array' = file_array /\ opened' = opened
    <3>1. \A fd \in DOMAIN file_array : file_array[fd] \in StructFile BY <2>1
    <3> QED BY <2>1, <2>2, <3>1
  <2>3. CASE file_array' = Append(file_array, c) /\ opened' = Append(opened, i)
    <3>1. file_array' \in Seq(StructFile) /\ opened' \in Seq(Sector) BY <1>4, <2>1, <2>3
    <3>2. Len(file_array') = Len(file_array) + 1 /\ Len(opened') = Len(opened) + 1 /\ Len(file_array) \in Nat
      BY <2>1, <2>3
    <3>3. DOMAIN file_array = 1 .. Len(file_array) /\ DOMAIN file_array' = 1 .. Len(file_array')
      BY <2>1, <3>1
    <3>4. file_array'[Len(file_array) + 1] = c /\ opened'[Len(file_array) + 1] = i
      BY <1>4, <2>1, <2>3
    <3>5. ASSUME NEW fd \in DOMAIN file_array
          PROVE  file_array'[fd] = file_array[fd] /\ opened'[fd] = opened[fd] /\ file_array[fd] \in StructFile
      <4>1. fd \in 1 .. Len(file_array) /\ fd \in 1 .. Len(opened) BY <2>1, <3>3
      <4> QED BY <2>1, <2>3, <3>2, <4>1
    <3>6. \A fd \in DOMAIN file_array' : fd \in DOMAIN file_array \/ fd = Len(file_array) + 1
      BY <3>2, <3>3
    <3> QED BY <2>1, <3>1, <3>2, <3>4, <3>5, <3>6
  <2> QED BY <2>2, <2>3
<1>11. TypeOK' BY <1>1, <1>6, <1>7, <1>9, <1>10 DEF TypeOK
<1>12. DirectoryOK' BY <1>1, <1>6 DEF DirectoryOK
<1>13. InodesOK'
  <2>1. \A j \in Sector : inodes'[j].cnt = 0 => inodes'[j] = NotOpen BY <1>1, <1>7 DEF InodesOK
  <2>2. \A j \in Sector : inodes'[j].cnt # 0 => (inodes'[j].removed <=> j \notin Named)
    BY <1>1, <1>7 DEF InodesOK
  <2> QED BY <1>8, <2>1, <2>2 DEF InodesOK
<1>14. HandlesOK'
  <2> SUFFICES ASSUME NEW b \in StructFile, files'[b] # Freed
               PROVE  inodes'[files'[b].inode].cnt # 0
    BY DEF HandlesOK
  <2>1. CASE b = c BY <1>7, <1>9, <2>1
  <2>2. CASE b # c
    <3>1. files'[b] = files[b] /\ files[b] # Freed BY <1>9, <2>2
    <3>2. inodes[files[b].inode].cnt # 0 /\ files[b].inode \in Sector
      BY <1>1, <3>1 DEF HandlesOK, TypeOK, InUse
    <3> QED BY <1>7, <3>1, <3>2
  <2> QED BY <2>1, <2>2
<1>15. OpenCount'
  <2>1. ASSUME NEW j \in Sector
        PROVE  Cardinality(Handles(j)') = inodes'[j].cnt /\ Cardinality(Denying(j)') = inodes'[j].deny
    <3>1. Cardinality(Handles(j)) = inodes[j].cnt /\ Cardinality(Denying(j)) = inodes[j].deny
      BY <1>1, OpenCountHandles
    <3>2. CASE j # i
      <4>1. Handles(j)' = Handles(j) BY <1>9, <3>2 DEF Handles
      <4>2. Denying(j)' = Denying(j)
        <5>1. \A b \in Handles(j) : files'[b] = files[b] BY <1>9, <3>2, <4>1 DEF Handles
        <5> QED BY <4>1, <5>1 DEF Denying
      <4> QED BY <1>7, <3>1, <3>2, <4>1, <4>2
    <3>3. CASE j = i
      <4>1. Handles(j)' = Handles(j) \cup {c} BY <1>9, <3>3 DEF Handles
      <4>2. c \notin Handles(j) /\ c \notin Denying(j) BY DEF Handles, Denying
      <4>3. Cardinality(Handles(j)') = Cardinality(Handles(j)) + 1 BY <4>1, <4>2, HandlesFinite, FS_AddElement
      <4>4. \A b \in Handles(j) : files'[b] = files[b] BY <1>9, <4>2 DEF Handles
      <4>5. Denying(j)' = IF w THEN Denying(j) \cup {c} ELSE Denying(j)
        <5>1. files'[c].deny = w BY <1>9
        <5> QED BY <4>1, <4>4, <5>1 DEF Denying
      <4>6. Cardinality(Denying(j)') = Cardinality(Denying(j)) + (IF w THEN 1 ELSE 0)
        <5>1. CASE w BY <4>2, <4>5, <5>1, HandlesFinite, FS_AddElement
        <5>2. CASE ~w BY <4>5, <5>2, HandlesFinite
        <5> QED BY <5>1, <5>2
      <4> QED BY <1>7, <3>1, <3>3, <4>3, <4>6
    <3> QED BY <3>2, <3>3
  <2> QED BY ONLY <2>1 DEF OpenCount, Handles, Denying
<1>16. ~stale => \A fd \in DOMAIN file_array : opened[fd] # 0 => file_array[fd] # c
  BY <1>1 DEF DescriptorKept, Behind
<1>17. DescriptorKept'
  <2>1. ASSUME ~stale', NEW fd \in DOMAIN file_array', opened'[fd] # 0
        PROVE  files'[file_array'[fd]] # Freed /\ files'[file_array'[fd]].inode = opened'[fd]
    <3>1. ~stale BY <1>6, <2>1
    <3>2. CASE fd \notin DOMAIN file_array BY <1>9, <1>10, <3>2
    <3>3. CASE fd \in DOMAIN file_array
      <4>1. file_array'[fd] = file_array[fd] /\ opened'[fd] = opened[fd] /\ file_array[fd] \in StructFile
        BY <1>10, <3>3
      <4>2. file_array[fd] # c BY <1>16, <2>1, <3>1, <3>3, <4>1
      <4>3. files'[file_array[fd]] = files[file_array[fd]] BY <1>9, <4>1, <4>2
      <4> QED BY <1>1, <2>1, <3>1, <3>3, <4>1, <4>3 DEF DescriptorKept, Behind
    <3> QED BY <3>2, <3>3
  <2> QED BY ONLY <2>1 DEF DescriptorKept, Behind
<1>18. DescriptorsOK'
  <2>1. ASSUME ~stale', NEW fd \in DOMAIN file_array', NEW gd \in DOMAIN file_array',
               opened'[fd] # 0, opened'[gd] # 0, file_array'[fd] = file_array'[gd]
        PROVE  fd = gd
    <3>1. ~stale BY <1>6, <2>1
    <3> QED BY <1>1, <1>10, <1>16, <2>1, <3>1 DEF DescriptorsOK
  <2> QED BY ONLY <2>1 DEF DescriptorsOK
<1>19. FilesOK' /\ AccountedOK'
  <2>1. /\ File' \in SUBSET Sector
        /\ \A j \in Sector : j \in File' <=> j \in Named' \/ inodes'[j].cnt # 0
        /\ \A j \in Sector : DataOf'[j] = IF inodes'[j].cnt # 0 THEN inodes'[j].data ELSE disk'[j].data
    <3>1. StoreOK' BY <1>1, <1>6 DEF StoreOK
    <3>2. Derived' BY <1>11, <1>13, <3>1, StateFacts, PTL
    <3> QED BY <3>2 DEF Derived
  <2>2. File' = File
    <3>1. i \in Named /\ i \in Named' BY <1>8
    <3>2. ASSUME NEW j \in Sector PROVE j \in File' <=> j \in File
      <4>1. CASE j = i BY ONLY <1>2, <1>4, <2>1, <3>1, <4>1
      <4>2. CASE j # i
        <5>1. inodes'[j] = inodes[j] BY <1>7, <3>2, <4>2
        <5>2. j \in File' <=> j \in Named' \/ inodes'[j].cnt # 0 BY <2>1, <3>2
        <5>3. j \in File <=> j \in Named \/ inodes[j].cnt # 0 BY <1>2, <3>2
        <5> QED BY ONLY <1>8, <5>1, <5>2, <5>3
      <4> QED BY <4>1, <4>2
    <3> QED BY ONLY <1>2, <2>1, <3>2
  <2>3. \A j \in File : DataOf'[j] = DataOf[j] BY <1>2, <1>4, <1>6, <1>7, <2>1
  <2>4. \A j \in File : Held'[j] = Held[j] BY <1>6, HeldUnchanged
  <2> QED BY <1>1, <1>6, <2>2, <2>3, <2>4, FilesUnchanged
<1>20. StoreOK' BY <1>1, <1>6 DEF StoreOK
<1> QED BY <1>11, <1>12, <1>13, <1>14, <1>15, <1>17, <1>18, <1>19, <1>20 DEF FilesInv

\* sys_open().
LEMMA OpenStep ==
    ASSUME FilesInv, NEW name \in Name, sys_open(name)
    PROVE  FilesInv'
<1>1. TypeOK /\ Lookup(name) # {} BY DEF FilesInv, sys_open
<1>2. PICK c \in FileMemory :
        LET i == slots[Min(Lookup(name))].inode
        IN  /\ inodes' = InodeOpened(i)
            /\ files' = [files EXCEPT ![c] = [inode |-> i, pos |-> 0, deny |-> FALSE]]
            /\ file_array' = Append(file_array, c)
            /\ opened' = Append(opened, i)
  BY DEF sys_open
<1>3. c \in StructFile /\ files[c] = Freed BY <1>1, FileMemoryFree
<1>4. PICK i : i = slots[Min(Lookup(name))].inode OBVIOUS
<1>5. i \in Named BY <1>1, <1>4, Found
<1>6. UNCHANGED <<store, halted, content, cut, failed, full, stale>> BY DEF sys_open
<1>7. /\ inodes' = InodeOpened(i)
      /\ files' = [files EXCEPT ![c] = [inode |-> i, pos |-> 0, deny |-> FALSE]]
      /\ file_array' = Append(file_array, c)
      /\ opened' = Append(opened, i)
  BY <1>2, <1>4
<1>8. Counted(i, FALSE, inodes') BY <1>5, <1>7, InodeOpening
<1>9. 0 \in Nat /\ FALSE \in BOOLEAN OBVIOUS
<1> QED BY ONLY FilesInv, <1>3, <1>5, <1>6, <1>7, <1>8, <1>9, Opening

\* As many deny writes to a file as have it open, or fewer.
LEMMA LoadStep ==
    ASSUME FilesInv, NEW name \in Name, load(name)
    PROVE  FilesInv'
<1>1. TypeOK /\ InodesOK /\ StoreOK /\ FilesOK /\ OpenCount /\ Lookup(name) # {} BY DEF FilesInv, load
<1>2. PICK c \in FileMemory, size \in LoadSizes, program \in BOOLEAN :
        LET i == slots[Min(Lookup(name))].inode
            open == InodeOpened(i)
        IN  /\ program => Executable(open[i].data)
            /\ files' = [files EXCEPT ![c] =
                          [inode |-> i, pos |-> Least(size, open[i].data.length), deny |-> program]]
            /\ inodes' = IF program THEN [open EXCEPT ![i].deny = @ + 1] ELSE open
            /\ halted' = IF inodes'[i].deny <= inodes'[i].cnt THEN halted ELSE "deny"
  BY DEF load
<1>3. c \in StructFile /\ files[c] = Freed BY <1>1, FileMemoryFree
<1>4. PICK i : i = slots[Min(Lookup(name))].inode OBVIOUS
<1>5. i \in Named BY <1>1, <1>4, Found
<1>6. PICK open : open = InodeOpened(i) OBVIOUS
<1>7. PICK p : p = Least(size, open[i].data.length) OBVIOUS
<1>8. /\ inodes' = IF program THEN [open EXCEPT ![i].deny = @ + 1] ELSE open
      /\ files' = [files EXCEPT ![c] = [inode |-> i, pos |-> p, deny |-> program]]
      /\ halted' = IF inodes'[i].deny <= inodes'[i].cnt THEN halted ELSE "deny"
  BY <1>2, <1>4, <1>6, <1>7
<1>9. Counted(i, FALSE, open) /\ Counted(i, TRUE, [open EXCEPT ![i].deny = @ + 1])
  BY <1>5, <1>6, InodeOpening
<1>10. Counted(i, program, inodes')
  <2>1. CASE program = TRUE BY <1>8, <1>9, <2>1
  <2>2. CASE program = FALSE BY <1>8, <1>9, <2>2
  <2> QED BY <2>1, <2>2
<1>11. i \in Sector /\ DataOf[i].length \in Nat
  <2>1. i \in File BY <1>5 DEF File
  <2> QED BY <1>1, <2>1, FileFacts
<1>12. p \in Nat
  <2>1. open[i].data.length \in Nat BY <1>9, <1>11 DEF Counted
  <2>2. size \in Nat BY SizeAssumption
  <2> QED BY <1>7, <2>1, <2>2 DEF Least
<1>13. halted' = halted
  <2>1. inodes[i].deny <= inodes[i].cnt BY <1>1, <1>11, OpenCountHandles, HandlesFinite
  <2>2. /\ inodes'[i].cnt = inodes[i].cnt + 1 /\ inodes[i].cnt \in Nat
        /\ inodes'[i].deny = inodes[i].deny + (IF program THEN 1 ELSE 0) /\ inodes[i].deny \in Nat
    BY <1>10 DEF Counted
  <2>3. inodes'[i].deny <= inodes'[i].cnt BY <2>1, <2>2
  <2> QED BY <1>8, <2>3
<1>14. UNCHANGED <<store, content, cut, failed, full, stale>> /\ file_array' = file_array /\ opened' = opened
  BY DEF load, history
<1> QED BY ONLY FilesInv, <1>3, <1>5, <1>8, <1>10, <1>12, <1>13, <1>14, program \in BOOLEAN, Opening

\* sys_close(), and sys_read(), which ends like it.
LEMMA CloseStep ==
    ASSUME FilesInv, NEW fd \in DOMAIN file_array, sys_close(fd)
    PROVE  FilesInv'
<1>1. TypeOK /\ InodesOK /\ StoreOK /\ HandlesOK /\ OpenCount /\ DescriptorKept /\ DescriptorsOK
      /\ FilesOK /\ AccountedOK /\ DirectoryOK
  BY DEF FilesInv
<1>2. Derived BY <1>1, StateFacts
<1>3. PICK c : c = file_array[fd] OBVIOUS
<1>4. c \in StructFile
  <2>1. file_array \in Seq(StructFile) BY <1>1 DEF TypeOK
  <2> QED BY <1>3, <2>1
<1>5. files[c] # Freed BY <1>3 DEF sys_close, Usable, Behind
<1>6. files[c] \in InUse BY <1>1, <1>4, <1>5 DEF TypeOK
<1>7. PICK i : i = files[c].inode OBVIOUS
<1>8. i \in Sector /\ inodes[i].cnt # 0 /\ files[c].deny \in BOOLEAN
  BY <1>1, <1>4, <1>5, <1>6, <1>7 DEF HandlesOK, InUse
<1>9. inodes \in [Sector -> InMemory] BY <1>1 DEF TypeOK
<1>10. i \in File BY <1>2, <1>8 DEF Derived
<1>11. /\ DataOf[i] \in FileData /\ FileSound(map, disk, i, DataOf[i], Held[i])
       /\ i \in map \ Reserved /\ i # 0
  BY <1>1, <1>10, FileFacts
<1>12. DataOf[i] = inodes[i].data BY <1>2, <1>8 DEF Derived
<1> DEFINE gone == {i} \cup Sectors(disk, DataOf[i])
           last == inodes[i].cnt = 1
           freed == last /\ inodes[i].removed
           allowed == IF files[c].deny THEN 1 ELSE 0
\* Its handles.
<1>27. /\ c \in Handles(i) /\ (c \in Denying(i) <=> files[c].deny)
       /\ Cardinality(Handles(i)) = inodes[i].cnt /\ Cardinality(Denying(i)) = inodes[i].deny
       /\ inodes[i].cnt \in Nat /\ inodes[i].deny \in Nat /\ inodes[i].deny <= inodes[i].cnt
       /\ files[c].deny => inodes[i].deny # 0
  <2>1. c \in Handles(i) /\ (c \in Denying(i) <=> files[c].deny) BY <1>4, <1>5, <1>7 DEF Handles, Denying
  <2>2. Cardinality(Handles(i)) = inodes[i].cnt /\ Cardinality(Denying(i)) = inodes[i].deny
    BY <1>1, <1>8, OpenCountHandles
  <2>3. c \in Denying(i) => Cardinality(Denying(i)) # 0 BY HandlesFinite, FS_EmptySet
  <2> QED BY <2>1, <2>2, <2>3, HandlesFinite
<1>13. /\ inodes' = IF last THEN [inodes EXCEPT ![i] = NotOpen]
                  ELSE [inodes EXCEPT ![i].cnt = @ - 1, ![i].deny = @ - allowed]
       /\ freed => /\ map' = map \ gone
                   /\ halted' = IF gone \subseteq map THEN halted ELSE "release"
                   /\ content' = [content EXCEPT ![i] = <<>>]
       /\ ~freed => map' = map /\ halted' = halted /\ content' = content
       /\ files' = [files EXCEPT ![c] = Freed]
  <2>1. FileClose(c) BY <1>3 DEF sys_close
  <2>4. ~(files[c].deny /\ inodes[i].deny \notin 1 .. inodes[i].cnt) BY <1>27
  <2>2. InodeClose(i, allowed) /\ files' = [files EXCEPT ![c] = Freed]
    BY <1>7, <2>1, <2>4 DEF FileClose, FileFreed
  <2>3. inodes' = IF last THEN [inodes EXCEPT ![i] = NotOpen]
                  ELSE [inodes EXCEPT ![i].cnt = @ - 1, ![i].deny = @ - allowed]
    BY <2>2 DEF InodeClose, LastClose
  <2>5. gone = {i} \cup Sectors(disk, inodes[i].data) BY <1>12
  <2>6. IF freed
        THEN /\ map' = map \ gone
             /\ halted' = IF gone \subseteq map THEN halted ELSE "release"
             /\ content' = [content EXCEPT ![i] = <<>>]
        ELSE UNCHANGED <<map, halted, content>>
    <3> HIDE DEF gone
    <3> QED BY ONLY <2>2, <2>5 DEF InodeClose, LastClose
  <2> HIDE DEF gone
  <2> QED BY <2>2, <2>3, <2>6
<1>14. /\ disk' = disk /\ slots' = slots /\ file_array' = file_array /\ failed' = failed /\ full' = full
       /\ cut' = cut
       /\ stale' = (stale \/ opened[fd] = 0)
       /\ opened' = [opened EXCEPT ![fd] = 0]
  BY DEF sys_close, Used, Done
\* The sectors of the file, apart from those of others.
<1>15. /\ gone \subseteq Owned(disk, i, DataOf[i])
       /\ Owned(disk, i, DataOf[i]) \subseteq map \ Reserved
       /\ \A j \in File : j # i => /\ Owned(disk, j, DataOf[j]) \subseteq map \ Reserved
                                   /\ Owned(disk, i, DataOf[i]) \cap Owned(disk, j, DataOf[j]) = {}
  <2>1. StoreFine(map, disk) /\ FilesFine(map, disk, File, DataOf, Held)
    BY <1>1, <1>2 DEF Derived, FilesOK
  <2> QED BY <1>10, <2>1, FilesTaken
<1> HIDE DEF gone
<1>16. Reserved \subseteq map /\ map \in SUBSET Sector BY <1>1 DEF StoreOK, TypeOK
<1>17. /\ map' \in SUBSET Sector /\ Reserved \subseteq map' /\ halted' = halted
       /\ \A s \in map : s \notin gone => s \in map'
       /\ ~freed => map' = map
       /\ freed => map' = map \ gone
       /\ map' \subseteq map
  <2>1. gone \subseteq map /\ \A s \in Reserved : s \notin gone BY <1>15
  <2>2. CASE freed BY <1>13, <1>16, <2>1, <2>2
  <2>3. CASE ~freed BY <1>13, <1>16, <2>3
  <2> QED BY <2>2, <2>3
<1>18. content' \in [Sector -> Seq(Contents)] /\ (\A j \in Sector : j # i => Held'[j] = Held[j])
       /\ (~freed => content' = content /\ Held'[i] = Held[i])
  <2>1. content \in [Sector -> Seq(Contents)] BY <1>1 DEF TypeOK
  <2>2. CASE freed
    <3>1. content' = [content EXCEPT ![i] = <<>>] /\ <<>> \in Seq(Contents) BY <1>13, <2>2
    <3> QED BY <1>14, <2>1, <2>2, <3>1 DEF Held
  <2>3. CASE ~freed BY <1>13, <1>14, <2>1, <2>3 DEF Held
  <2> QED BY <2>2, <2>3
\* The inode.
<1>19. /\ inodes' \in [Sector -> InMemory]
       /\ \A j \in Sector : j # i => inodes'[j] = inodes[j]
       /\ inodes'[i].cnt = inodes[i].cnt - 1 /\ inodes[i].cnt \in Nat /\ inodes'[i].cnt \in Nat
       /\ ~last => inodes'[i].deny = inodes[i].deny - allowed
       /\ last => inodes'[i] = NotOpen
       /\ last <=> inodes'[i].cnt = 0
       /\ ~last => inodes'[i].data = inodes[i].data /\ inodes'[i].removed = inodes[i].removed
  <2>1. inodes[i] \in InMemory /\ inodes[i].cnt \in Nat BY <1>8, <1>9 DEF InMemory
  <2>2. CASE last
    <3>1. inodes' = [inodes EXCEPT ![i] = NotOpen] BY <1>13, <2>2
    <3>2. inodes'[i] = NotOpen /\ NotOpen \in InMemory /\ NotOpen.cnt = 0 BY <1>8, <1>9, <3>1, Unlike
    <3>3. inodes' \in [Sector -> InMemory] /\ \A j \in Sector : j # i => inodes'[j] = inodes[j]
      BY <1>9, <3>1, <3>2
    <3> QED BY <2>1, <2>2, <3>2, <3>3
  <2>3. CASE ~last
    <3>1. inodes' = [inodes EXCEPT ![i].cnt = @ - 1, ![i].deny = @ - allowed] BY <1>13, <2>3
    <3>2. inodes[i].cnt - 1 \in Nat /\ inodes[i].cnt - 1 # 0 /\ inodes[i].deny - allowed \in Nat
      BY <1>8, <1>27, <2>1, <2>3
    <3>3. /\ inodes'[i] = [inodes[i] EXCEPT !.cnt = @ - 1, !.deny = @ - allowed]
          /\ \A j \in Sector : j # i => inodes'[j] = inodes[j]
          /\ inodes' = [inodes EXCEPT ![i] = inodes'[i]]
      <4> HIDE DEF allowed, last
      <4> QED BY <1>8, <1>9, <3>1
    <3>4. inodes'[i] = [cnt |-> inodes[i].cnt - 1, deny |-> inodes[i].deny - allowed,
                        removed |-> inodes[i].removed, data |-> inodes[i].data]
      <4> HIDE DEF allowed, last
      <4> QED BY <2>1, <3>3 DEF InMemory
    <3>5. inodes'[i] \in InMemory
      <4> HIDE DEF allowed, last
      <4> QED BY <2>1, <3>2, <3>4 DEF InMemory
    <3>6. inodes' \in [Sector -> InMemory] BY <1>9, <3>3, <3>5
    <3>7. inodes'[i].cnt = inodes[i].cnt - 1 /\ inodes'[i].deny = inodes[i].deny - allowed
          /\ inodes'[i].data = inodes[i].data /\ inodes'[i].removed = inodes[i].removed
      BY <3>4
    <3> QED BY <2>1, <2>3, <3>2, <3>3, <3>6, <3>7
  <2> QED BY <2>2, <2>3
<1>20. /\ files' \in [StructFile -> {Freed} \cup InUse]
       /\ files'[c] = Freed /\ \A b \in StructFile : b # c => files'[b] = files[b]
  BY <1>1, <1>4, <1>13 DEF TypeOK
<1>21. /\ opened' \in Seq(Sector) /\ Len(opened') = Len(opened)
       /\ opened'[fd] = 0 /\ \A gd \in DOMAIN file_array : gd # fd => opened'[gd] = opened[gd]
  <2>1. file_array \in Seq(StructFile) /\ opened \in Seq(Sector) /\ Len(opened) = Len(file_array) BY <1>1 DEF TypeOK
  <2>2. DOMAIN file_array = 1 .. Len(opened) BY <2>1
  <2> QED BY <1>14, <2>1, <2>2, ZeroIsSector
<1>22. TypeOK' BY <1>1, <1>14, <1>17, <1>18, <1>19, <1>20, <1>21 DEF TypeOK
<1>23. DirectoryOK' BY <1>1, <1>14 DEF DirectoryOK
<1>24. Named' = Named BY <1>14 DEF Named
<1>25. InodesOK'
  <2>1. \A j \in Sector : inodes'[j].cnt = 0 => inodes'[j] = NotOpen BY <1>1, <1>19 DEF InodesOK
  <2>2. \A j \in Sector : inodes'[j].cnt # 0 => (inodes'[j].removed <=> j \notin Named)
    BY <1>1, <1>8, <1>19 DEF InodesOK
  <2> QED BY <1>24, <2>1, <2>2 DEF InodesOK
<1>26. StoreOK' BY <1>1, <1>14, <1>17 DEF StoreOK
<1>28. /\ Handles(i)' = Handles(i) \ {c} /\ Denying(i)' = Denying(i) \ {c}
       /\ \A j \in Sector : j # i => Handles(j)' = Handles(j) /\ Denying(j)' = Denying(j)
  <2>1. Handles(i)' = Handles(i) \ {c} BY <1>20 DEF Handles
  <2>2. \A b \in Handles(i) \ {c} : files'[b] = files[b] BY <1>20 DEF Handles
  <2>3. Denying(i)' = Denying(i) \ {c} BY <2>1, <2>2 DEF Denying
  <2>4. ASSUME NEW j \in Sector, j # i PROVE Handles(j)' = Handles(j) /\ Denying(j)' = Denying(j)
    <3>1. c \notin Handles(j) BY <1>7, <2>4 DEF Handles
    <3>2. Handles(j)' = Handles(j) BY <1>7, <1>20, <2>4 DEF Handles
    <3>3. \A b \in Handles(j) : files'[b] = files[b] BY <1>20, <3>1 DEF Handles
    <3> QED BY <3>2, <3>3 DEF Denying
  <2> QED BY <2>1, <2>3, <2>4
<1>29. /\ IsFiniteSet(Handles(i)') /\ Cardinality(Handles(i)') = inodes'[i].cnt
       /\ Cardinality(Denying(i)') = inodes'[i].deny
  <2>1. Cardinality(Handles(i) \ {c}) = Cardinality(Handles(i)) - 1 /\ IsFiniteSet(Handles(i) \ {c})
    BY <1>27, HandlesFinite, FS_RemoveElement
  <2>2. Cardinality(Denying(i) \ {c}) = Cardinality(Denying(i)) - allowed
    <3>1. CASE files[c].deny BY <1>27, <3>1, HandlesFinite, FS_RemoveElement
    <3>2. CASE ~files[c].deny
      <4>1. Denying(i) \ {c} = Denying(i) BY <1>27, <3>2
      <4> QED BY <3>2, <4>1, HandlesFinite
    <3> QED BY <3>1, <3>2
  <2>3. CASE last
    <3>1. Handles(i) \ {c} = {} BY <1>27, <2>1, <2>3, FS_EmptySet
    <3>2. Denying(i) \ {c} = {} BY <3>1 DEF Denying
    <3>3. inodes'[i].deny = 0 BY <1>19, <2>3, Unlike
    <3> QED BY <1>8, <1>19, <1>27, <1>28, <2>1, <3>2, <3>3, FS_EmptySet
  <2>4. CASE ~last BY <1>8, <1>19, <1>27, <1>28, <2>1, <2>2, <2>4
  <2> QED BY <2>3, <2>4
<1>30. OpenCount'
  <2>1. ASSUME NEW j \in Sector
        PROVE  Cardinality(Handles(j)') = inodes'[j].cnt /\ Cardinality(Denying(j)') = inodes'[j].deny
    <3>1. Cardinality(Handles(j)) = inodes[j].cnt /\ Cardinality(Denying(j)) = inodes[j].deny
      BY <1>1, OpenCountHandles
    <3>2. CASE j = i BY <1>29, <3>2
    <3>3. CASE j # i BY <1>19, <1>28, <3>1, <3>3
    <3> QED BY <3>2, <3>3
  <2> QED BY ONLY <2>1 DEF OpenCount, Handles, Denying
<1>31. HandlesOK'
  <2>1. ASSUME NEW b \in StructFile, files'[b] # Freed
        PROVE  inodes'[files'[b].inode].cnt # 0
    <3>1. b # c /\ files'[b] = files[b] /\ files[b] # Freed BY <1>20, <2>1
    <3>2. inodes[files[b].inode].cnt # 0 /\ files[b].inode \in Sector
      BY <1>1, <3>1 DEF HandlesOK, TypeOK, InUse
    <3>3. CASE files[b].inode = i
      <4>1. b \in Handles(i)' BY <1>28, <3>1, <3>3 DEF Handles
      <4>2. inodes'[i].cnt # 0 BY <1>29, <4>1, FS_EmptySet
      <4> QED BY <3>1, <3>3, <4>2
    <3>4. CASE files[b].inode # i BY <1>19, <3>1, <3>2, <3>4
    <3> QED BY <3>3, <3>4
  <2> QED BY ONLY <2>1 DEF HandlesOK
\* The descriptors.
<1>32. DescriptorKept'
  <2>1. ASSUME ~stale', NEW gd \in DOMAIN file_array', opened'[gd] # 0
        PROVE  files'[file_array'[gd]] # Freed /\ files'[file_array'[gd]].inode = opened'[gd]
    <3>1. ~stale /\ opened[fd] # 0 BY <1>14, <2>1
    <3>2. gd \in DOMAIN file_array /\ file_array' = file_array BY <1>14
    <3>3. gd # fd /\ opened'[gd] = opened[gd] BY <1>21, <2>1, <3>2
    <3>4. file_array[gd] # c BY <1>1, <1>3, <2>1, <3>1, <3>2, <3>3 DEF DescriptorsOK
    <3>5. file_array[gd] \in StructFile
      <4>1. file_array \in Seq(StructFile) BY <1>1 DEF TypeOK
      <4> QED BY <3>2, <4>1
    <3>6. files[file_array[gd]] # Freed /\ files[file_array[gd]].inode = opened[gd]
      BY <1>1, <2>1, <3>1, <3>2, <3>3 DEF DescriptorKept, Behind
    <3> QED BY <1>20, <3>2, <3>3, <3>4, <3>5, <3>6
  <2> QED BY ONLY <2>1 DEF DescriptorKept, Behind
<1>33. DescriptorsOK'
  <2>1. ASSUME ~stale', NEW gd \in DOMAIN file_array', NEW hd \in DOMAIN file_array',
               opened'[gd] # 0, opened'[hd] # 0, file_array'[gd] = file_array'[hd]
        PROVE  gd = hd
    <3>1. ~stale BY <1>14, <2>1
    <3>2. gd \in DOMAIN file_array /\ hd \in DOMAIN file_array /\ file_array' = file_array BY <1>14
    <3>3. gd # fd /\ hd # fd BY <1>21, <2>1
    <3> QED BY <1>1, <1>21, <2>1, <3>1, <3>2, <3>3 DEF DescriptorsOK
  <2> QED BY ONLY <2>1 DEF DescriptorsOK
\* The files.
<1>34. /\ \A j : j \in File' => j \in Sector
       /\ \A j \in Sector : j \in File' <=> j \in Named \/ inodes'[j].cnt # 0
       /\ \A j \in Sector : DataOf'[j] = IF inodes'[j].cnt # 0 THEN inodes'[j].data ELSE disk[j].data
  <2>1. Derived' BY <1>22, <1>25, <1>26, StateFacts, PTL
  <2> QED BY <1>14, <1>24, <2>1 DEF Derived
<1>35. \A j \in Sector : j # i => (j \in File' <=> j \in File) /\ DataOf'[j] = DataOf[j]
  BY <1>2, <1>19, <1>34 DEF Derived
<1>36. i \in File' => /\ ~freed
                      /\ FileSound(map', disk', i, DataOf'[i], Held'[i])
                      /\ Owned(disk', i, DataOf'[i]) \subseteq Owned(disk, i, DataOf[i])
                      /\ Sectors(disk', DataOf'[i]) = Sectors(disk, DataOf[i])
  <2> SUFFICES ASSUME i \in File'
               PROVE  /\ ~freed
                      /\ FileSound(map', disk', i, DataOf'[i], Held'[i])
                      /\ Owned(disk', i, DataOf'[i]) \subseteq Owned(disk, i, DataOf[i])
                      /\ Sectors(disk', DataOf'[i]) = Sectors(disk, DataOf[i])
    OBVIOUS
  <2>1. ~freed BY <1>1, <1>8, <1>19, <1>34 DEF InodesOK
  <2>2. map' = map /\ Held'[i] = Held[i] /\ disk' = disk BY <1>14, <1>17, <1>18, <2>1
  <2>3. CASE inodes'[i].cnt # 0
    <3>1. DataOf'[i] = DataOf[i] BY <1>8, <1>12, <1>19, <1>34, <2>3
    <3> QED BY <1>11, <2>1, <2>2, <3>1
  <2>4. CASE inodes'[i].cnt = 0
    <3>1. DataOf'[i] = disk[i].data BY <1>8, <1>34, <2>4
    <3>2. DiskFine(disk) /\ 0 \in map BY <1>2, <1>16, ZeroReserved DEF Derived, StoreFine
    <3>3. /\ FileSound(map, disk, i, disk[i].data, Held[i])
          /\ Owned(disk, i, disk[i].data) \subseteq Owned(disk, i, DataOf[i])
          /\ Sectors(disk, disk[i].data) = Sectors(disk, DataOf[i])
      BY <1>11, <3>2, FileReloaded
    <3> QED BY <2>1, <2>2, <3>1, <3>3
  <2> QED BY <2>3, <2>4
<1>37. FilesStep(i)
  <2>1. ASSUME NEW j \in File', j # i
        PROVE  /\ j \in File /\ DataOf'[j] = DataOf[j] /\ Held'[j] = Held[j]
               /\ Untouched(disk, disk', map', j, DataOf[j])
    <3>1. j \in Sector /\ j \in File BY <1>34, <1>35, <2>1
    <3>2. \A s \in Owned(disk, j, DataOf[j]) : s \in map /\ s \notin gone BY <1>15, <2>1, <3>1
    <3> QED BY <1>14, <1>17, <1>18, <1>35, <2>1, <3>1, <3>2 DEF Untouched
  <2>2. \A j \in File : j # i => j \in File' BY <1>2, <1>35 DEF Derived
  <2>3. i \in File' => \A j \in File : j # i =>
                            Owned(disk', i, DataOf'[i]) \cap Owned(disk, j, DataOf[j]) = {}
    BY <1>15, <1>36
  <2> QED BY <1>36, <2>1, <2>2, <2>3 DEF FilesStep
<1>38. AccountStep(i)
  <2>1. ASSUME NEW s \in gone, s \in map' PROVE i \in File' /\ s \in {i} \cup Sectors(disk', DataOf'[i])
    <3>1. ~freed BY <1>17, <2>1
    <3>2. i \in File'
      <4>1. CASE last BY <1>1, <1>8, <1>34, <3>1, <4>1 DEF InodesOK
      <4>2. CASE ~last BY <1>8, <1>19, <1>34, <4>2
      <4> QED BY <4>1, <4>2
    <3> QED BY <1>36, <2>1, <3>2 DEF gone
  <2>2. \A s \in {i} \cup Sectors(disk, DataOf[i]) :
                s \in map' => i \in File' /\ s \in {i} \cup Sectors(disk', DataOf'[i])
    BY <2>1 DEF gone
  <2> QED BY <1>14, <1>17, <2>2 DEF AccountStep
<1>39. FilesOK' /\ AccountedOK'
  BY <1>1, <1>22, <1>25, <1>26, <1>37, <1>38, FilesStepped
<1> QED BY <1>22, <1>23, <1>25, <1>26, <1>30, <1>31, <1>32, <1>33, <1>39 DEF FilesInv

\* What depends on nothing that a call changes.
LEMMA MemoryUnchanged ==
    ASSUME TypeOK, DirectoryOK, InodesOK, HandlesOK, OpenCount, DescriptorKept, DescriptorsOK,
           UNCHANGED <<slots, inodes, files, file_array, opened>>, stale => stale', stale' \in BOOLEAN
    PROVE  DirectoryOK' /\ InodesOK' /\ HandlesOK' /\ OpenCount' /\ DescriptorKept' /\ DescriptorsOK'
<1>1. slots' = slots /\ inodes' = inodes /\ files' = files /\ file_array' = file_array /\ opened' = opened
  OBVIOUS
<1>2. DirectoryOK' BY <1>1 DEF DirectoryOK
<1>3. Named' = Named BY <1>1 DEF Named
<1>4. InodesOK' BY <1>1, <1>3 DEF InodesOK
<1>5. HandlesOK' BY <1>1 DEF HandlesOK
<1>6. OpenCount' BY <1>1 DEF OpenCount
<1>7. ~stale' => ~stale OBVIOUS
<1>8. DescriptorKept' BY <1>1, <1>7 DEF DescriptorKept, Behind
<1>9. DescriptorsOK' BY <1>1, <1>7 DEF DescriptorsOK
<1> QED BY <1>2, <1>4, <1>5, <1>6, <1>8, <1>9

\* A call that changes nothing but whether the machine runs, and whether a
\* descriptor has been used too often.
LEMMA NothingChanged ==
    ASSUME FilesInv, UNCHANGED <<map, disk, slots, inodes, files, file_array, opened, content, cut, failed, full>>,
           halted' \in {halted, "undefined", "filesize"}, stale' \in BOOLEAN, stale => stale'
    PROVE  FilesInv'
<1>1. TypeOK /\ InodesOK /\ StoreOK /\ HandlesOK /\ OpenCount /\ DescriptorKept /\ DescriptorsOK
      /\ FilesOK /\ AccountedOK /\ DirectoryOK
  BY DEF FilesInv
<1>2. UNCHANGED <<map, disk, slots, inodes, files, file_array, opened, content, cut, failed, full>>
      /\ halted' \in {halted, "undefined", "filesize"} /\ stale' \in BOOLEAN /\ (stale => stale')
  OBVIOUS
<1>3. DirectoryOK' /\ InodesOK' /\ HandlesOK' /\ OpenCount' /\ DescriptorKept' /\ DescriptorsOK'
  BY <1>1, <1>2, MemoryUnchanged
<1>4. TypeOK' BY <1>1, <1>2 DEF TypeOK
<1>5. StoreOK' BY <1>1, <1>2 DEF StoreOK
<1>6. File' = File /\ DataOf' = DataOf /\ Held' = Held BY <1>2 DEF File, Named, DataOf, InodeData, Held
<1>7. FilesOK' /\ AccountedOK' BY <1>1, <1>2, <1>6, FilesUnchanged
<1> QED BY <1>3, <1>4, <1>5, <1>7 DEF FilesInv

\* The calls that leave everything as it is, or only stop the machine.
LEMMA UnchangedStep ==
    ASSUME FilesInv,
           \/ \E fd \in DOMAIN file_array : Undefined(fd) \/ sys_filesize(fd)
           \/ sys_filesize_unopened
           \/ UNCHANGED vars
    PROVE  FilesInv'
<1>1. stale \in BOOLEAN BY DEF FilesInv, TypeOK
<1>2. CASE \E fd \in DOMAIN file_array : Undefined(fd) \/ sys_filesize(fd)
  <2>1. PICK fd \in DOMAIN file_array : Undefined(fd) \/ sys_filesize(fd) BY <1>2
  <2>2. /\ UNCHANGED <<map, disk, slots, inodes, files, file_array, opened, content, cut, failed, full>>
        /\ halted' \in {halted, "undefined", "filesize"} /\ stale' = (stale \/ opened[fd] = 0)
    BY <2>1 DEF Undefined, sys_filesize, Used, store, memory
  <2>3. stale' \in BOOLEAN /\ (stale => stale') BY <1>1, <2>2
  <2> QED BY <2>2, <2>3, NothingChanged
<1>3. CASE sys_filesize_unopened
  <2>1. UNCHANGED <<map, disk, slots, inodes, files, file_array, opened, content, cut, failed, full, stale>>
        /\ halted' = "filesize"
    BY <1>3 DEF sys_filesize_unopened, store, memory, history
  <2> QED BY <1>1, <2>1, NothingChanged
<1>4. CASE UNCHANGED vars
  <2>1. UNCHANGED <<map, disk, slots, inodes, files, file_array, opened, content, cut, failed, full, halted, stale>>
    BY <1>4 DEF vars, store, memory, history
  <2> QED BY <1>1, <2>1, NothingChanged
<1> QED BY <1>2, <1>3, <1>4

\* filesys_remove(): an inode that is open keeps its sectors.
LEMMA RemoveStep ==
    ASSUME FilesInv, NEW name \in Name, filesys_remove(name)
    PROVE  FilesInv'
<1>1. TypeOK /\ InodesOK /\ StoreOK /\ HandlesOK /\ OpenCount /\ DescriptorKept /\ DescriptorsOK
      /\ FilesOK /\ AccountedOK /\ DirectoryOK
  BY DEF FilesInv
<1>2. Derived BY <1>1, StateFacts
<1>3. PICK e : e = Min(Lookup(name)) OBVIOUS
<1>4. PICK i : i = slots[e].inode OBVIOUS
<1>5. e \in Slot /\ e # 0 /\ slots[e].name = name /\ i \in Named /\ i \in Sector
  <2>1. Lookup(name) # {} BY DEF filesys_remove
  <2> QED BY <1>1, <1>3, <1>4, <2>1, Found
<1>6. i \in File BY <1>5 DEF File
<1>7. /\ DataOf[i] \in FileData /\ FileSound(map, disk, i, DataOf[i], Held[i])
      /\ i \in map \ Reserved /\ i # 0
  BY <1>1, <1>6, FileFacts
<1> DEFINE gone == {i} \cup Sectors(disk, DataOf[i])
           closed == inodes[i].cnt = 0
<1>8. inodes \in [Sector -> InMemory] /\ slots \in [Slot -> [name : Name \cup {"", ".."}, inode : Sector]]
      /\ content \in [Sector -> Seq(Contents)]
  BY <1>1 DEF TypeOK
<1>9. /\ slots' = [slots EXCEPT ![e] = Unused]
      /\ closed => /\ map' = map \ gone
                   /\ halted' = IF gone \subseteq map THEN halted ELSE "release"
                   /\ content' = [content EXCEPT ![i] = <<>>]
                   /\ inodes' = inodes
      /\ ~closed => /\ inodes' = [inodes EXCEPT ![i].removed = TRUE]
                    /\ map' = map /\ halted' = halted /\ content' = content
  <2>1. closed <=> inodes[i] = NotOpen BY <1>2, <1>5 DEF Derived
  <2>2. closed => gone = {i} \cup Sectors(disk, disk[i].data) BY <1>2, <1>5 DEF Derived
  <2>3. /\ slots' = [slots EXCEPT ![e] = Unused]
        /\ inodes[i] = NotOpen =>
              /\ map' = map \ ({i} \cup Sectors(disk, disk[i].data))
              /\ halted' = IF ({i} \cup Sectors(disk, disk[i].data)) \subseteq map THEN halted ELSE "release"
              /\ content' = [content EXCEPT ![i] = <<>>]
              /\ inodes' = inodes
        /\ inodes[i] # NotOpen =>
              /\ inodes' = [inodes EXCEPT ![i].removed = TRUE]
              /\ map' = map /\ halted' = halted /\ content' = content
    BY <1>3, <1>4 DEF filesys_remove
  <2> HIDE DEF gone, closed
  <2> QED BY <2>1, <2>2, <2>3
<1>10. UNCHANGED <<disk, files, file_array, opened, cut, failed, full, stale>> BY DEF filesys_remove
<1>11. /\ gone \subseteq Owned(disk, i, DataOf[i])
       /\ Owned(disk, i, DataOf[i]) \subseteq map \ Reserved
       /\ \A j \in File : j # i => /\ Owned(disk, j, DataOf[j]) \subseteq map \ Reserved
                                   /\ Owned(disk, i, DataOf[i]) \cap Owned(disk, j, DataOf[j]) = {}
  <2>1. StoreFine(map, disk) /\ FilesFine(map, disk, File, DataOf, Held)
    BY <1>1, <1>2 DEF Derived, FilesOK
  <2> QED BY <1>6, <2>1, FilesTaken
<1> HIDE DEF gone
<1>12. Reserved \subseteq map /\ map \in SUBSET Sector BY <1>1 DEF StoreOK, TypeOK
<1>13. /\ map' \in SUBSET Sector /\ Reserved \subseteq map' /\ halted' = halted
       /\ \A s \in map : s \notin gone => s \in map'
       /\ ~closed => map' = map
       /\ closed => map' = map \ gone
       /\ map' \subseteq map
  <2>1. gone \subseteq map /\ \A s \in Reserved : s \notin gone BY <1>11
  <2>2. CASE closed BY <1>9, <1>12, <2>1, <2>2
  <2>3. CASE ~closed BY <1>9, <1>12, <2>3
  <2> QED BY <2>2, <2>3
<1>14. content' \in [Sector -> Seq(Contents)] /\ (\A j \in Sector : j # i => Held'[j] = Held[j])
       /\ (~closed => Held'[i] = Held[i])
  <2>1. CASE closed
    <3>1. content' = [content EXCEPT ![i] = <<>>] /\ <<>> \in Seq(Contents) BY <1>9, <2>1
    <3> QED BY <1>8, <1>10, <2>1, <3>1 DEF Held
  <2>2. CASE ~closed BY <1>8, <1>9, <1>10, <2>2 DEF Held
  <2> QED BY <2>1, <2>2
<1>15. /\ inodes' \in [Sector -> InMemory]
       /\ \A j \in Sector : j # i => inodes'[j] = inodes[j]
       /\ \A j \in Sector : inodes'[j].cnt = inodes[j].cnt /\ inodes'[j].deny = inodes[j].deny
                            /\ inodes'[j].data = inodes[j].data
       /\ closed => inodes' = inodes
       /\ ~closed => inodes'[i].removed = TRUE
  <2>1. CASE closed BY <1>8, <1>9, <2>1
  <2>2. CASE ~closed
    <3>1. inodes' = [inodes EXCEPT ![i].removed = TRUE] BY <1>9, <2>2
    <3>2. inodes'[i] = [inodes[i] EXCEPT !.removed = TRUE] /\ \A j \in Sector : j # i => inodes'[j] = inodes[j]
      BY <1>5, <1>8, <3>1
    <3>3. inodes[i] \in InMemory BY <1>5, <1>8
    <3>4. inodes'[i] = [cnt |-> inodes[i].cnt, deny |-> inodes[i].deny, removed |-> TRUE, data |-> inodes[i].data]
      BY <3>2, <3>3 DEF InMemory
    <3>5. inodes'[i] \in InMemory BY <3>3, <3>4 DEF InMemory
    <3>6. inodes' \in [Sector -> InMemory] BY <1>8, <3>1, <3>2, <3>5
    <3> QED BY <2>2, <3>2, <3>4, <3>6
  <2> QED BY <2>1, <2>2
<1>16. /\ slots' \in [Slot -> [name : Name \cup {"", ".."}, inode : Sector]]
       /\ slots'[e] = Unused /\ \A f \in Slot : f # e => slots'[f] = slots[f]
  <2>1. Unused \in [name : Name \cup {"", ".."}, inode : Sector] BY ZeroIsSector DEF Unused
  <2> QED BY <1>5, <1>8, <1>9, <2>1
<1>17. TypeOK' BY <1>1, <1>10, <1>13, <1>14, <1>15, <1>16 DEF TypeOK
<1>18. DirectoryOK'
  <2>1. \A f \in Slot : slots'[f].name \in Name => f # e /\ slots'[f] = slots[f] BY <1>16, Unlike
  <2>2. \A f \in Slot : \/ slots'[f] = Unused
                        \/ slots'[f] = Parent /\ f = 0
                        \/ slots'[f].name \in Name
    BY <1>1, <1>16 DEF DirectoryOK
  <2>3. \A f, g \in Slot : slots'[f].name \in Name /\ slots'[g].name \in Name /\ f # g =>
            /\ slots'[f].inode # slots'[g].inode
            /\ f # 0 /\ g # 0 => slots'[f].name # slots'[g].name
    BY <1>1, <2>1 DEF DirectoryOK
  <2> QED BY ONLY <2>2, <2>3 DEF DirectoryOK
<1>19. \A j : j \in Named' <=> j \in Named /\ j # i
  <2>1. \A j : j \in Named' <=> \E f \in Slot : slots'[f].name \in Name /\ slots'[f].inode = j
    BY DEF Named
  <2>2. \A j : j \in Named <=> \E f \in Slot : slots[f].name \in Name /\ slots[f].inode = j
    BY DEF Named
  <2>3. \A f \in Slot : slots'[f].name \in Name => f # e /\ slots'[f] = slots[f] BY <1>16, Unlike
  <2>4. \A f \in Slot : f # e /\ slots[f].name \in Name => slots[f].inode # i
    BY <1>1, <1>4, <1>5 DEF DirectoryOK
  <2>5. ASSUME NEW j, j \in Named' PROVE j \in Named /\ j # i
    <3>1. PICK f \in Slot : slots'[f].name \in Name /\ slots'[f].inode = j BY <2>1, <2>5
    <3> QED BY <2>2, <2>3, <2>4, <3>1
  <2>6. ASSUME NEW j, j \in Named, j # i PROVE j \in Named'
    <3>1. PICK f \in Slot : slots[f].name \in Name /\ slots[f].inode = j BY <2>2, <2>6
    <3>2. f # e BY <1>4, <2>6, <3>1
    <3> QED BY <1>16, <2>1, <3>1, <3>2
  <2> QED BY <2>5, <2>6
<1>20. InodesOK'
  <2>1. \A j \in Sector : inodes'[j].cnt = 0 => inodes'[j] = NotOpen BY <1>1, <1>15 DEF InodesOK
  <2>2. \A j \in Sector : inodes'[j].cnt # 0 => (inodes'[j].removed <=> j \notin Named')
    <3> SUFFICES ASSUME NEW j \in Sector, inodes'[j].cnt # 0 PROVE inodes'[j].removed <=> j \notin Named'
      OBVIOUS
    <3>1. CASE j = i BY <1>15, <1>19, <3>1
    <3>2. CASE j # i BY <1>1, <1>15, <1>19, <3>2 DEF InodesOK
    <3> QED BY <3>1, <3>2
  <2> QED BY ONLY <2>1, <2>2 DEF InodesOK
<1>21. StoreOK' BY <1>1, <1>10, <1>13 DEF StoreOK
<1>22. HandlesOK'
  <2>1. ASSUME NEW b \in StructFile, files'[b] # Freed PROVE inodes'[files'[b].inode].cnt # 0
    <3>1. files[b].inode \in Sector /\ files' = files BY <1>1, <1>10, <2>1 DEF TypeOK, InUse
    <3> QED BY <1>1, <1>15, <2>1, <3>1 DEF HandlesOK
  <2> QED BY ONLY <2>1 DEF HandlesOK
<1>23. OpenCount'
  <2>1. \A j : Handles(j)' = Handles(j) /\ Denying(j)' = Denying(j) BY <1>10 DEF Handles, Denying
  <2>2. \A j \in Sector : Cardinality(Handles(j)') = inodes'[j].cnt /\ Cardinality(Denying(j)') = inodes'[j].deny
    BY <1>1, <1>15, <2>1, OpenCountHandles
  <2> QED BY ONLY <2>2 DEF OpenCount, Handles, Denying
<1>24. DescriptorKept' /\ DescriptorsOK'
  BY <1>1, <1>10 DEF DescriptorKept, DescriptorsOK, Behind
<1>25. /\ \A j : j \in File' => j \in Sector
       /\ \A j \in Sector : j \in File' <=> j \in Named' \/ inodes'[j].cnt # 0
       /\ \A j \in Sector : DataOf'[j] = IF inodes'[j].cnt # 0 THEN inodes'[j].data ELSE disk[j].data
  <2>1. Derived' BY <1>17, <1>20, <1>21, StateFacts, PTL
  <2> QED BY <1>10, <2>1 DEF Derived
<1>26. \A j \in Sector : DataOf'[j] = DataOf[j] /\ (j # i => (j \in File' <=> j \in File))
  BY <1>2, <1>15, <1>19, <1>25 DEF Derived
<1>27. i \in File' <=> ~closed BY <1>5, <1>15, <1>19, <1>25
<1>28. FilesStep(i)
  <2>1. ASSUME NEW j \in File', j # i
        PROVE  /\ j \in File /\ DataOf'[j] = DataOf[j] /\ Held'[j] = Held[j]
               /\ Untouched(disk, disk', map', j, DataOf[j])
    <3>1. j \in Sector /\ j \in File BY <1>25, <1>26, <2>1
    <3>2. \A s \in Owned(disk, j, DataOf[j]) : s \in map /\ s \notin gone BY <1>11, <2>1, <3>1
    <3> QED BY <1>10, <1>13, <1>14, <1>26, <2>1, <3>1, <3>2 DEF Untouched
  <2>2. \A j \in File : j # i => j \in File' BY <1>2, <1>26 DEF Derived
  <2>3. i \in File' => FileSound(map', disk', i, DataOf'[i], Held'[i])
    BY <1>5, <1>7, <1>10, <1>13, <1>14, <1>26, <1>27
  <2>4. i \in File' => \A j \in File : j # i =>
                            Owned(disk', i, DataOf'[i]) \cap Owned(disk, j, DataOf[j]) = {}
    BY <1>5, <1>10, <1>11, <1>26
  <2> QED BY <2>1, <2>2, <2>3, <2>4 DEF FilesStep
<1>29. AccountStep(i)
  <2>1. ASSUME NEW s \in gone, s \in map' PROVE i \in File' /\ s \in {i} \cup Sectors(disk', DataOf'[i])
    <3>1. i \in File' BY <1>13, <1>27, <2>1
    <3> QED BY <1>5, <1>10, <1>26, <2>1, <3>1 DEF gone
  <2>2. \A s \in {i} \cup Sectors(disk, DataOf[i]) :
                s \in map' => i \in File' /\ s \in {i} \cup Sectors(disk', DataOf'[i])
    BY <2>1 DEF gone
  <2> QED BY <1>10, <1>13, <2>2 DEF AccountStep
<1>30. FilesOK' /\ AccountedOK'
  BY <1>1, <1>17, <1>20, <1>21, <1>28, <1>29, FilesStepped
<1> QED BY <1>17, <1>18, <1>20, <1>21, <1>22, <1>23, <1>24, <1>30 DEF FilesInv

\* The machine boots again: what is left of a file is what its directory entry and
\* the disk say.
LEMMA RebootStep ==
    ASSUME FilesInv, Reboot
    PROVE  FilesInv'
<1>1. TypeOK /\ InodesOK /\ StoreOK /\ HandlesOK /\ OpenCount /\ DescriptorKept /\ DescriptorsOK
      /\ FilesOK /\ AccountedOK /\ DirectoryOK
  BY DEF FilesInv
<1>2. Derived BY <1>1, StateFacts
<1>3. /\ inodes' = NoInodes /\ files' = NoFiles /\ file_array' = <<>> /\ opened' = <<>>
      /\ halted' = IF disk[FREE_MAP_SECTOR] = System THEN "no" ELSE "panic"
      /\ content' = [i \in Sector |-> IF \E e \in Slot : slots[e].inode = i THEN content[i] ELSE <<>>]
      /\ failed' = (failed \/ \E i \in Sector : inodes[i] # NotOpen /\ inodes[i].removed)
      /\ UNCHANGED <<map, disk, slots, cut, full, stale>>
  BY DEF Reboot, store
<1>4. \A i \in Sector : inodes'[i] = NotOpen BY <1>3 DEF NoInodes
<1>5. \A c \in StructFile : files'[c] = Freed BY <1>3 DEF NoFiles
<1>6. TypeOK'
  <2>1. inodes' \in [Sector -> InMemory] BY <1>3, Unlike DEF NoInodes
  <2>2. files' \in [StructFile -> {Freed} \cup InUse] BY <1>3 DEF NoFiles
  <2>3. content' \in [Sector -> Seq(Contents)]
    <3>1. content \in [Sector -> Seq(Contents)] BY <1>1 DEF TypeOK
    <3>2. <<>> \in Seq(Contents) OBVIOUS
    <3> QED BY <1>3, <3>1, <3>2
  <2>4. file_array' \in Seq(StructFile) /\ opened' \in Seq(Sector) /\ Len(opened') = Len(file_array') BY <1>3
  <2>5. failed' \in BOOLEAN BY <1>1, <1>3 DEF TypeOK
  <2> QED BY <1>1, <1>3, <2>1, <2>2, <2>3, <2>4, <2>5 DEF TypeOK
<1>7. DirectoryOK' BY <1>1, <1>3 DEF DirectoryOK
<1>8. InodesOK' BY <1>4, Unlike DEF InodesOK
<1>9. HandlesOK' BY <1>5 DEF HandlesOK
<1>10. OpenCount'
  <2>1. ASSUME NEW i \in Sector
        PROVE  Cardinality(Handles(i)') = inodes'[i].cnt /\ Cardinality(Denying(i)') = inodes'[i].deny
    <3>1. Handles(i)' = {} /\ Denying(i)' = {} BY <1>5 DEF Handles, Denying
    <3> QED BY <1>4, <3>1, Unlike, FS_EmptySet
  <2> QED BY ONLY <2>1 DEF OpenCount, Handles, Denying
<1>11. DescriptorKept' /\ DescriptorsOK'
  <2>1. DOMAIN file_array' = {} BY <1>3
  <2> QED BY <2>1 DEF DescriptorKept, DescriptorsOK
<1>12. StoreOK' BY <1>1, <1>3 DEF StoreOK
<1>13. Named' = Named BY <1>3 DEF Named
<1>14. /\ \A j \in File' : j \in Sector /\ j \in Named
       /\ \A j \in Named : j \in File'
       /\ \A j \in Sector : DataOf'[j] = disk[j].data
  <2>1. Derived' BY <1>6, <1>8, <1>12, StateFacts, PTL
  <2>2. \A j \in Sector : inodes'[j].cnt = 0 BY <1>4, Unlike
  <2>3. \A j \in Sector : j \in Named => j \in File' BY <1>13, <2>1 DEF Derived
  <2>4. \A j \in Named : j \in File BY DEF File
  <2>5. \A j \in Named : j \in Sector BY <1>2, <2>4 DEF Derived
  <2> QED BY <1>3, <1>13, <2>1, <2>2, <2>3, <2>5 DEF Derived
\* A file that is named is what it is on the disk.
<1>15. ASSUME NEW j \in Named
       PROVE  /\ j \in File
              /\ FileSound(map, disk, j, DataOf'[j], Held'[j])
              /\ Owned(disk, j, DataOf'[j]) \subseteq Owned(disk, j, DataOf[j])
              /\ Sectors(disk, DataOf'[j]) = Sectors(disk, DataOf[j])
  <2>1. j \in File BY DEF File
  <2>2. FileSound(map, disk, j, DataOf[j], Held[j]) /\ j \in Sector BY <1>1, <2>1, FileFacts
  <2>3. DiskFine(disk) /\ 0 \in map BY <1>1, <1>2, ZeroReserved DEF Derived, StoreFine
  <2>4. /\ FileSound(map, disk, j, disk[j].data, Held[j])
        /\ Owned(disk, j, disk[j].data) \subseteq Owned(disk, j, DataOf[j])
        /\ Sectors(disk, disk[j].data) = Sectors(disk, DataOf[j])
    BY <2>2, <2>3, FileReloaded
  <2>5. \E e \in Slot : slots[e].inode = j BY <1>2 DEF Derived
  <2>6. Held'[j] = Held[j] BY <1>3, <2>2, <2>5 DEF Held
  <2>7. DataOf'[j] = disk[j].data BY <1>14, <2>2
  <2> QED BY <2>1, <2>4, <2>6, <2>7
<1>16. FilesOK'
  <2>1. FilesFine(map, disk, File, DataOf, Held) BY <1>1 DEF FilesOK
  <2>2. \A j \in File' : FileSound(map, disk, j, DataOf'[j], Held'[j]) BY <1>14, <1>15
  <2>3. ASSUME NEW j \in File', NEW k \in File', j # k
        PROVE  Owned(disk, j, DataOf'[j]) \cap Owned(disk, k, DataOf'[k]) = {}
    <3>1. j \in Named /\ k \in Named BY <1>14
    <3>2. Owned(disk, j, DataOf[j]) \cap Owned(disk, k, DataOf[k]) = {}
      BY <1>15, <2>1, <2>3, <3>1 DEF FilesFine
    <3> QED BY <1>15, <3>1, <3>2
  <2>4. FilesFine(map, disk, File', DataOf', Held') BY <2>2, <2>3 DEF FilesFine
  <2>5. FilesOK' <=> FilesFine(map', disk', File', DataOf', Held') BY DEF FilesOK
  <2> QED BY <1>3, <2>4, <2>5
<1>17. AccountedOK'
  <2>1. ASSUME ~failed', NEW s \in map \ Reserved PROVE \E i \in File' : s \in {i} \cup Sectors(disk, DataOf'[i])
    <3>1. ~failed /\ \A i \in Sector : inodes[i] # NotOpen => ~inodes[i].removed BY <1>3, <2>1
    <3>2. PICK i \in File : s \in {i} \cup Sectors(disk, DataOf[i])
      BY <1>1, <2>1, <3>1 DEF AccountedOK, Accounted
    <3>3. i \in Named BY <1>1, <1>2, <3>1 DEF Derived, InodesOK
    <3> QED BY <1>14, <1>15, <3>2, <3>3
  <2>2. ~failed' => Accounted(map, disk, File', DataOf') BY <2>1 DEF Accounted
  <2>3. AccountedOK' <=> (~failed' => Accounted(map', disk', File', DataOf')) BY DEF AccountedOK
  <2> QED BY <1>3, <2>2, <2>3
<1> QED BY <1>6, <1>7, <1>8, <1>9, <1>10, <1>11, <1>12, <1>16, <1>17 DEF FilesInv

\* filesys_create(), with all the ways in which it fails.
LEMMA CreateStep ==
    ASSUME FilesInv, NEW name \in Name, NEW size \in CreateSizes, sys_create(name, size)
    PROVE  FilesInv'
<1>1. TypeOK /\ InodesOK /\ StoreOK /\ HandlesOK /\ OpenCount /\ DescriptorKept /\ DescriptorsOK
      /\ FilesOK /\ AccountedOK /\ DirectoryOK
  BY DEF FilesInv
<1>2. Derived BY <1>1, StateFacts
<1>3. PICK i : i = Lowest([map |-> map]) OBVIOUS
<1>4. i \in Sector \ map
  <2>1. map \in SUBSET Sector /\ map # Sector BY <1>1 DEF TypeOK, sys_create
  <2>2. ~Full([map |-> map]) /\ [map |-> map].map = map BY <2>1 DEF Full
  <2> QED BY <1>3, <2>1, <2>2, LowestFree
<1>5. PICK r : r = [map |-> map \cup {i}, disk |-> disk, blocks |-> Unallocated, ok |-> TRUE, full |-> full]
  OBVIOUS
<1>6. r = Fresh(map \cup {i}) BY <1>5 DEF Fresh
<1>7. PICK q : q = Reserve(r, size) OBVIOUS
<1>8. PICK e : e = [length |-> size, blocks |-> q.blocks] OBVIOUS
<1>9. PICK new : new = IF q.ok THEN [q.disk EXCEPT ![i] = Inode(e)] ELSE q.disk OBVIOUS
<1>10. size \in Int /\ full \in BOOLEAN BY <1>1, SizeAssumption DEF TypeOK
<1>11. StoreFine(map, disk) BY <1>2 DEF Derived
<1>12. Created(map, disk, i, full, size, q, e, new)
  <2>1. CASE size \in Nat
    BY ONLY <1>4, <1>5, <1>7, <1>8, <1>9, <1>10, <1>11, <2>1, FileCreated, Zenon
  <2>2. CASE size < 0
    <3>1. q = [r EXCEPT !.ok = FALSE] BY <1>7, <2>2 DEF Reserve
    <3>2. q.map = map \cup {i} /\ q.ok = FALSE /\ q.full = full /\ new = disk BY <1>5, <1>9, <3>1
    <3> QED BY <1>4, <1>10, <1>11, <3>2 DEF Created, StoreFine
  <2> QED BY <1>10, <2>1, <2>2
<1> DEFINE added == q.ok /\ MayAdd(name)
<1>13. /\ map' = IF added \/ halted' # "no" THEN q.map ELSE q.map \ {i}
       /\ disk' = new
       /\ slots' = IF added THEN [slots EXCEPT ![FreeSlot] = [name |-> name, inode |-> i]] ELSE slots
       /\ content' = IF added THEN [content EXCEPT ![i] = [k \in 1 .. size |-> Zeros]] ELSE content
       /\ cut' = IF added THEN cut \ {i} ELSE cut
       /\ failed' = (failed \/ (~added /\ map' # map))
       /\ full' = q.full
       /\ halted' = IF size < 0 THEN "length" ELSE Asserted(r, size)
  BY <1>3, <1>6, <1>7, <1>8, <1>9 DEF sys_create
<1>14. UNCHANGED <<inodes, files, file_array, opened, stale>> BY DEF sys_create, memory
<1>15. /\ q.map \in SUBSET Sector /\ map \cup {i} \subseteq q.map /\ DiskFine(new) /\ q.full \in BOOLEAN
       /\ q.ok \in BOOLEAN
       /\ new[0] = disk[0] \/ (new[0] = Zeros /\ q.full)
       /\ q.full # full => q.full
       /\ \A s \in map \ Reserved : new[s] = disk[s]
  BY <1>12 DEF Created
<1>16. q.ok => /\ size <= Capacity
               /\ new[i] = Inode(e)
               /\ FileSound(q.map, new, i, e, [k \in 1 .. size |-> Zeros])
               /\ Owned(new, i, e) \cap map = {}
               /\ \A s \in q.map \ map : s \in {i} \cup Sectors(new, e)
  BY ONLY <1>12 DEF Created
<1> HIDE DEF added
<1>17. added => q.ok /\ Lookup(name) = {} /\ size \in Nat
  <2>1. size < 0 => ~q.ok
    <3>1. size < 0 => q = [r EXCEPT !.ok = FALSE] BY <1>7 DEF Reserve
    <3> QED BY <1>5, <3>1
  <2>2. size < 0 \/ size \in Nat BY <1>10
  <2> QED BY <2>1, <2>2 DEF added, MayAdd
<1>18. Reserved \subseteq map /\ map \in SUBSET Sector /\ i \notin Reserved /\ i \in Sector
  BY <1>1, <1>4 DEF StoreOK, TypeOK
<1>19. \A j \in File : j \in map \ Reserved /\ j # i
  <2> SUFFICES ASSUME NEW j \in File PROVE j \in map \ Reserved /\ j # i
    OBVIOUS
  <2>1. j \in map \ Reserved BY <1>1, FileFacts
  <2> QED BY <1>4, <2>1
<1>20. /\ map' \in SUBSET Sector /\ Reserved \subseteq map' /\ \A s \in map : s \in map'
       /\ halted' \in {"no", "length", "capacity"}
  <2>1. map' \in SUBSET Sector /\ \A s \in map : s \in map' BY <1>4, <1>13, <1>15
  <2>2. halted' \in {"no", "length", "capacity"} BY <1>13 DEF Asserted, sys_create, Runs
  <2> QED BY <1>18, <2>1, <2>2
\* The directory.
<1>21. PICK f : f = FreeSlot OBVIOUS
<1>22. f \in Slot /\ slots[f] = Unused BY <1>1, <1>21, FreeSlotFound
<1>23. slots \in [Slot -> [name : Name \cup {"", ".."}, inode : Sector]] BY <1>1 DEF TypeOK
<1>24. /\ slots' \in [Slot -> [name : Name \cup {"", ".."}, inode : Sector]]
       /\ \A g \in Slot : g # f => slots'[g] = slots[g]
       /\ added => slots'[f].name = name /\ slots'[f].inode = i
       /\ ~added => slots' = slots
  <2>1. CASE added
    <3>1. slots' = [slots EXCEPT ![f] = [name |-> name, inode |-> i]] BY <1>13, <1>21, <2>1
    <3>2. [name |-> name, inode |-> i] \in [name : Name \cup {"", ".."}, inode : Sector] BY <1>18
    <3> QED BY <1>22, <1>23, <2>1, <3>1, <3>2
  <2>2. CASE ~added BY <1>13, <1>23, <2>2
  <2> QED BY <2>1, <2>2
<1>25. \A j : j \in Named' <=> j \in Named \/ (added /\ j = i)
  <2>1. \A j : j \in Named' <=> \E g \in Slot : slots'[g].name \in Name /\ slots'[g].inode = j
    BY DEF Named
  <2>2. \A j : j \in Named <=> \E g \in Slot : slots[g].name \in Name /\ slots[g].inode = j
    BY DEF Named
  <2>3. CASE ~added BY <1>24, <2>1, <2>2, <2>3
  <2>4. CASE added
    <3>1. ASSUME NEW j, j \in Named PROVE j \in Named'
      <4>1. PICK g \in Slot : slots[g].name \in Name /\ slots[g].inode = j BY <2>2, <3>1
      <4>2. g # f BY <1>22, <4>1, Unlike
      <4> QED BY <1>24, <2>1, <4>1, <4>2
    <3>2. i \in Named' BY <1>22, <1>24, <2>1, <2>4
    <3>3. ASSUME NEW j, j \in Named' PROVE j \in Named \/ j = i
      <4>1. PICK g \in Slot : slots'[g].name \in Name /\ slots'[g].inode = j BY <2>1, <3>3
      <4>2. CASE g = f BY <1>24, <2>4, <4>1, <4>2
      <4>3. CASE g # f BY <1>24, <2>2, <4>1, <4>3
      <4> QED BY <4>2, <4>3
    <3> QED BY <2>4, <3>1, <3>2, <3>3
  <2> QED BY <2>3, <2>4
<1>26. i \notin Named /\ i \notin File BY <1>19 DEF File
<1>27. DirectoryOK'
  <2>1. CASE ~added BY <1>1, <1>24, <2>1 DEF DirectoryOK
  <2>2. CASE added
    <3>1. \A g \in Slot : \/ slots'[g] = Unused
                          \/ slots'[g] = Parent /\ g = 0
                          \/ slots'[g].name \in Name
      BY <1>1, <1>24, <2>2 DEF DirectoryOK
    <3>2. \A g \in Slot : slots[g].name \in Name => slots[g].inode # i
      BY <1>26 DEF Named
    <3>3. \A g \in Slot : g # 0 => slots[g].name # name
      BY <1>17, <2>2 DEF Lookup
    <3>4. \A g, h \in Slot : slots'[g].name \in Name /\ slots'[h].name \in Name /\ g # h =>
            /\ slots'[g].inode # slots'[h].inode
            /\ g # 0 /\ h # 0 => slots'[g].name # slots'[h].name
      BY <1>1, <1>24, <2>2, <3>2, <3>3 DEF DirectoryOK
    <3> QED BY ONLY <3>1, <3>4 DEF DirectoryOK
  <2> QED BY <2>1, <2>2
<1>28. TypeOK'
  <2>1. content' \in [Sector -> Seq(Contents)] /\ cut' \in SUBSET Sector
    <3>1. content \in [Sector -> Seq(Contents)] /\ cut \in SUBSET Sector BY <1>1 DEF TypeOK
    <3>2. CASE added
      <4>1. Zeros \in Contents BY DEF Contents
      <4>2. [k \in 1 .. size |-> Zeros] \in Seq(Contents) BY <1>17, <3>2, <4>1
      <4> QED BY <1>13, <3>1, <3>2, <4>2
    <3>3. CASE ~added BY <1>13, <3>1, <3>3
    <3> QED BY <3>2, <3>3
  <2>2. disk' \in [Sector -> Block] BY <1>13, <1>15 DEF DiskFine
  <2>3. failed' \in BOOLEAN /\ full' \in BOOLEAN BY <1>1, <1>13, <1>15 DEF TypeOK
  <2> QED BY <1>1, <1>14, <1>20, <1>24, <2>1, <2>2, <2>3 DEF TypeOK
<1>29. InodesOK'
  <2>1. \A j \in Sector : inodes[j].cnt # 0 => j \in File BY <1>2 DEF Derived
  <2>2. \A j \in Sector : inodes[j].cnt # 0 => (inodes[j].removed <=> j \notin Named')
    BY <1>1, <1>25, <1>26, <2>1 DEF InodesOK
  <2> QED BY <1>1, <1>14, <2>2 DEF InodesOK
<1>30. StoreOK'
  <2>1. disk'[0] \in {System, Zeros} /\ (~full' => disk'[0] = System)
    BY <1>1, <1>10, <1>13, <1>15 DEF StoreOK, FREE_MAP_SECTOR
  <2>2. halted' = "panic" => full' BY <1>1, <1>10, <1>13, <1>15, <1>20 DEF StoreOK
  <2> QED BY <1>1, <1>20, <2>1, <2>2 DEF StoreOK, FREE_MAP_SECTOR
<1>31. HandlesOK' BY <1>1, <1>14 DEF HandlesOK
<1>32. OpenCount' BY <1>1, <1>14 DEF OpenCount
<1>33. DescriptorKept' /\ DescriptorsOK' BY <1>1, <1>14 DEF DescriptorKept, DescriptorsOK, Behind
\* The files.
<1>34. /\ \A j : j \in File' => j \in Sector
       /\ \A j \in Sector : j \in File' <=> j \in Named' \/ inodes[j].cnt # 0
       /\ \A j \in Sector : DataOf'[j] = IF inodes[j].cnt # 0 THEN inodes[j].data ELSE new[j].data
  <2>1. Derived' BY <1>28, <1>29, <1>30, StateFacts, PTL
  <2> QED BY <1>13, <1>14, <2>1 DEF Derived
<1>35. \A j \in Sector : j # i => (j \in File' <=> j \in File)
  BY <1>2, <1>25, <1>34 DEF Derived
<1>36. \A j \in File : DataOf'[j] = DataOf[j] BY <1>2, <1>15, <1>19, <1>34 DEF Derived
<1>37. i \in File' <=> added BY <1>2, <1>18, <1>25, <1>26, <1>34 DEF Derived
<1>38. added => DataOf'[i] = e
  <2>1. inodes[i].cnt = 0 BY <1>2, <1>18, <1>26 DEF Derived
  <2> QED BY <1>16, <1>17, <1>18, <1>34, <2>1 DEF Inode
<1>39. \A j \in File : Owned(disk, j, DataOf[j]) \subseteq map \ Reserved
  <2>1. FilesFine(map, disk, File, DataOf, Held) BY <1>1 DEF FilesOK
  <2> QED BY <1>11, <2>1, FilesTaken
<1>40. added => Held'[i] = [k \in 1 .. size |-> Zeros]
  <2>1. content \in [Sector -> Seq(Contents)] BY <1>1 DEF TypeOK
  <2> QED BY <1>13, <1>18, <2>1 DEF Held
<1>41. \A j \in Sector : j # i => Held'[j] = Held[j]
  <2>1. content \in [Sector -> Seq(Contents)] BY <1>1 DEF TypeOK
  <2> QED BY <1>13, <2>1 DEF Held
<1>42. FilesStep(i)
  <2>1. ASSUME NEW j \in File', j # i
        PROVE  /\ j \in File /\ DataOf'[j] = DataOf[j] /\ Held'[j] = Held[j]
               /\ Untouched(disk, disk', map', j, DataOf[j])
    <3>1. j \in Sector /\ j \in File BY <1>34, <1>35, <2>1
    <3>2. \A s \in Owned(disk, j, DataOf[j]) : s \in map \ Reserved BY <1>39, <3>1
    <3> QED BY <1>13, <1>15, <1>20, <1>36, <1>41, <2>1, <3>1, <3>2 DEF Untouched
  <2>2. \A j \in File : j # i => j \in File' BY <1>2, <1>35 DEF Derived
  <2>3. i \in File' => FileSound(map', disk', i, DataOf'[i], Held'[i])
    BY <1>13, <1>16, <1>17, <1>37, <1>38, <1>40
  <2>4. i \in File' => \A j \in File : j # i =>
                            Owned(disk', i, DataOf'[i]) \cap Owned(disk, j, DataOf[j]) = {}
    BY <1>13, <1>16, <1>17, <1>37, <1>38, <1>39
  <2> QED BY <2>1, <2>2, <2>3, <2>4 DEF FilesStep
<1>43. AccountStep(i)
  <2>1. ASSUME ~failed', NEW s \in map' \ Reserved, s \notin map
        PROVE  i \in File' /\ s \in {i} \cup Sectors(disk', DataOf'[i])
    <3>1. added BY <1>13, <2>1
    <3> QED BY <1>13, <1>16, <1>17, <1>37, <1>38, <2>1, <3>1
  <2>2. ~failed' => ~failed BY <1>13
  <2> QED BY <1>26, <2>1, <2>2 DEF AccountStep
<1>44. FilesOK' /\ AccountedOK'
  BY <1>1, <1>28, <1>29, <1>30, <1>42, <1>43, FilesStepped
<1> QED BY <1>27, <1>28, <1>29, <1>30, <1>31, <1>32, <1>33, <1>44 DEF FilesInv

\* A write through the file structure c on file i, of which q is left of the
\* reservation, longer the inode, new the disk, end the offset and after the content.
Writing(c, i, q, longer, end, new, after) ==
    /\ Overwritten(map, disk, i, DataOf[i], full, q, longer, new, after)
    /\ end \in Nat
    /\ map' = q.map /\ disk' = new /\ full' = q.full /\ halted' \in {halted, "capacity"}
    /\ inodes' = [inodes EXCEPT ![i].data = longer]
    /\ files' = [files EXCEPT ![c].pos = end]
    /\ content' \in [Sector -> Seq(Contents)] /\ cut' \in SUBSET Sector
    /\ Held'[i] = after /\ \A j \in Sector : j # i => Held'[j] = Held[j]
    /\ failed' = (failed \/ (~q.ok /\ q.map # map) \/ longer.length < DataOf[i].length)

\* What is written is what the file should hold.
LEMMA PromiseKept ==
    ASSUME TypeOK, NEW i \in Sector, NEW pos \in Nat, NEW size \in Nat, NEW v \in Value
    PROVE  /\ Promised(i, pos, size, v) \in Seq(Contents)
           /\ i \notin cut => Promised(i, pos, size, v) = Promise(Held[i], pos, pos + size, v)
<1>1. PICK old : old = content[i] OBVIOUS
<1>2. old \in Seq(Contents) /\ Len(old) \in Nat /\ (\A k \in 1 .. Len(old) : old[k] \in Contents) /\ old # Lost
  <2>1. content[i] \in Seq(Contents) BY DEF TypeOK
  <2>2. content[i] # Lost BY ContentKnown
  <2> QED BY ONLY <1>1, <2>1, <2>2
<1>3. PICK n \in Nat : n = pos + size OBVIOUS
<1>4. PICK m \in Nat : m = Max({Len(old), n}) BY <1>2, <1>3, MaxOfTwo
<1>5. PICK p : p = [k \in 1 .. m |-> IF k \in pos + 1 .. n THEN Data(v) ELSE IF k <= Len(old) THEN old[k] ELSE Zeros]
  OBVIOUS
<1>6. p = Promised(i, pos, size, v) BY <1>1, <1>3, <1>4, <1>5 DEF Promised
<1>7. \A k \in 1 .. m : p[k] \in Contents
  <2>1. Data(v) \in Contents /\ Zeros \in Contents BY DEF Contents
  <2>2. ASSUME NEW k \in 1 .. m PROVE k <= Len(old) => old[k] \in Contents BY <1>2
  <2> QED BY <1>5, <2>1, <2>2
<1>8. p \in Seq(Contents)
  <2>1. p \in [1 .. m -> Contents] BY <1>5, <1>7
  <2> QED BY <2>1
<1>9. ASSUME i \notin cut PROVE p = Promise(Held[i], pos, n, v)
  <2>1. Held[i] = old BY <1>1, <1>9 DEF Held
  <2> QED BY <1>2, <1>4, <1>5, <2>1 DEF Promise
<1> QED BY <1>3, <1>6, <1>8, <1>9

\* inode_write_at(): within the file, past its end, and on a disk that fills up.
LEMMA WriteMade ==
    ASSUME FilesInv, NEW c, NEW size \in WriteSizes, NEW v \in Value, FileWrite(c, size, v),
           files[c].inode \in File, inodes[files[c].inode].cnt # 0, files[c].pos \in Nat
    PROVE  \E q, longer, end, new, after : Writing(c, files[c].inode, q, longer, end, new, after)
<1>1. TypeOK /\ InodesOK /\ StoreOK /\ FilesOK BY DEF FilesInv
<1>2. Derived BY <1>1, StateFacts
<1> DEFINE i == files[c].inode
           d == inodes[i].data
           pos == files[c].pos
           n == pos + size
           r == [Fresh(map) EXCEPT !.blocks = d.blocks]
           past == n <= 0 \/ n > d.length
           q == IF past THEN Reserve(r, n) ELSE r
           longer == [length |-> IF past /\ q.ok THEN n ELSE d.length, blocks |-> q.blocks]
           mid == IF past /\ q.ok THEN [q.disk EXCEPT ![i] = Inode(longer)] ELSE q.disk
           wrote == q.ok /\ size > 0
           end == IF wrote THEN n ELSE pos
           new == Overlaid(mid, q.blocks, pos, end, v)
           other == longer.length # d.length
           after == IF wrote THEN Promise(Held[i], pos, n, v) ELSE IF other THEN Lost ELSE Held[i]
<1>19. /\ map' = q.map /\ disk' = new
       /\ inodes' = [inodes EXCEPT ![i].data = longer]
       /\ files' = [files EXCEPT ![c].pos = end]
       /\ content' = IF wrote THEN [content EXCEPT ![i] = Promised(i, pos, size, v)] ELSE content
       /\ cut' = IF ~wrote /\ other THEN cut \cup {i} ELSE cut
       /\ failed' = (failed \/ (~q.ok /\ q.map # map) \/ longer.length < d.length)
       /\ full' = q.full /\ halted' = IF past THEN Asserted(r, n) ELSE halted
  BY DEF FileWrite, Extends, WrittenInode, Overlaid
<1>6. i \in File /\ i \in Sector /\ inodes[i].cnt # 0 /\ pos \in Nat /\ i = files[c].inode BY <1>2 DEF Derived
<1> HIDE DEF i
<1>3. d = DataOf[i] BY <1>2, <1>6 DEF Derived
<1>7. size \in Int /\ n \in Int /\ n = pos + size BY <1>6, SizeAssumption
<1>10. r = [map |-> map, disk |-> disk, blocks |-> d.blocks, ok |-> TRUE, full |-> full]
  <2>1. PICK f : f = Fresh(map) OBVIOUS
  <2>2. f = [map |-> map, disk |-> disk, blocks |-> Unallocated, ok |-> TRUE, full |-> full]
    BY <2>1 DEF Fresh
  <2>3. r = [f EXCEPT !.blocks = d.blocks] BY <2>1
  <2> HIDE DEF r, d
  <2> QED BY <2>2, <2>3
<1>11. r.map = map /\ r.disk = disk /\ r.blocks = d.blocks /\ r.ok = TRUE /\ r.full = full BY <1>10
<1>34. halted' \in {halted, "capacity"} BY <1>19 DEF Asserted
<1> HIDE DEF d, pos, n, r
<1>12. past <=> n <= 0 \/ n > d.length OBVIOUS
<1> HIDE DEF past
<1>13. q = IF past THEN Reserve(r, n) ELSE r OBVIOUS
<1> HIDE DEF q
<1>14. longer = [length |-> IF past /\ q.ok THEN n ELSE d.length, blocks |-> q.blocks] OBVIOUS
<1>15. mid = IF past /\ q.ok THEN [q.disk EXCEPT ![i] = Inode(longer)] ELSE q.disk OBVIOUS
<1>16. wrote <=> q.ok /\ size > 0 OBVIOUS
<1>17. end = IF wrote THEN n ELSE pos OBVIOUS
<1>18. new = Overlaid(mid, q.blocks, pos, end, v) OBVIOUS
<1>20. other <=> longer.length # d.length OBVIOUS
<1>21. PICK old : old = Held[i] OBVIOUS
<1>22. after = IF wrote THEN Promise(old, pos, n, v) ELSE IF other THEN Lost ELSE old BY <1>21
<1>23. longer.length = (IF past /\ q.ok THEN n ELSE d.length) /\ longer.blocks = q.blocks BY <1>14
<1> HIDE DEF longer, mid
<1>24. wrote \in BOOLEAN /\ other \in BOOLEAN BY <1>16, <1>20
<1> HIDE DEF wrote, other, end, new, after
<1>25. wrote => size \in Nat /\ n \in Nat /\ n > pos BY <1>6, <1>7, <1>16
<1>26. end \in Nat BY <1>6, <1>17, <1>25
\* What the history says of the file after it.
<1>27. /\ content' \in [Sector -> Seq(Contents)] /\ cut' \in SUBSET Sector
       /\ Held'[i] = after /\ \A j \in Sector : j # i => Held'[j] = Held[j]
  <2>1. content \in [Sector -> Seq(Contents)] /\ cut \in SUBSET Sector BY <1>1 DEF TypeOK
  <2>2. \A j \in Sector : /\ Held[j] = IF j \in cut THEN Lost ELSE content[j]
                          /\ Held'[j] = IF j \in cut' THEN Lost ELSE content'[j]
    BY DEF Held
  <2>3. CASE wrote
    <3>1. PICK p : p = Promised(i, pos, size, v) OBVIOUS
    <3>2. content' = [content EXCEPT ![i] = p] /\ cut' = cut BY <1>19, <2>3, <3>1
    <3>3. p \in Seq(Contents) /\ (i \notin cut => p = Promise(Held[i], pos, pos + size, v))
      <4>1. pos \in Nat BY <1>6 DEF pos
      <4> QED BY <1>1, <1>6, <1>25, <2>3, <3>1, <4>1, PromiseKept
    <3>4. content' \in [Sector -> Seq(Contents)] /\ content'[i] = p /\ \A j \in Sector : j # i => content'[j] = content[j]
      BY <1>6, <2>1, <3>2, <3>3
    <3>5. after = Promise(Held[i], pos, pos + size, v) BY <1>7, <1>21, <1>22, <2>3
    <3>6. i \in cut => after = Lost BY <1>6, <2>2, <3>5 DEF Promise
    <3>7. Held'[i] = after BY <1>6, <2>2, <3>2, <3>3, <3>4, <3>5, <3>6
    <3> QED BY <2>1, <2>2, <3>2, <3>4, <3>7
  <2>4. CASE ~wrote
    <3>1. content' = content /\ cut' = (IF other THEN cut \cup {i} ELSE cut) /\ after = IF other THEN Lost ELSE old
      BY <1>19, <1>22, <2>4
    <3> QED BY <1>6, <1>21, <2>1, <2>2, <3>1
  <2> QED BY <2>3, <2>4
<1>5. FileSound(map, disk, i, d, old) /\ d \in [length : Nat, blocks : Blocks] /\ d.length \in Nat /\ d.length <= Capacity
  <2>1. d \in FileData /\ d \in [length : Nat, blocks : Blocks] /\ FileSound(map, disk, i, d, old)
    BY <1>1, <1>3, <1>6, <1>21, FileFacts
  <2>2. d.length \in 0 .. Capacity BY <2>1 DEF FileData
  <2> QED BY <2>1, <2>2, CapacityNat
<1>9. full \in BOOLEAN /\ StoreFine(map, disk) BY <1>1, <1>2 DEF TypeOK, Derived
<1>8. pos \in Nat BY <1>6 DEF pos
\* Whatever is written to, nothing is overlaid where nothing is written.
<1>28. ASSUME ~wrote, mid \in [Sector -> Block] PROVE new = mid
  <2>1. pos .. end - 1 = {} BY <1>8, <1>17, <1>28
  <2>2. new = [s \in Sector |-> mid[s]] BY <1>18, <2>1 DEF Overlaid
  <2> QED BY <1>28, <2>2
<1>35. DiskFine(disk) /\ disk \in [Sector -> Block] BY <1>9 DEF StoreFine, DiskFine
<1>29. Overwritten(map, disk, i, d, full, q, longer, new, after)
  <2>1. CASE ~past
    <3>1. q = r /\ q.ok = TRUE /\ 0 < n /\ n <= d.length BY <1>5, <1>7, <1>11, <1>12, <1>13, <2>1
    <3>2. longer = d BY <1>5, <1>11, <1>14, <2>1, <3>1
    <3>3. mid = disk BY <1>11, <1>15, <2>1, <3>1
    <3>4. CASE wrote
      <4>1. pos \in Nat /\ n \in Nat /\ pos <= n /\ end = n BY <1>8, <1>17, <1>25, <3>4
      <4>2. new = Overlaid(disk, d.blocks, pos, n, v) BY <1>11, <1>18, <3>1, <3>3, <4>1
      <4>3. after = Promise(old, pos, n, v) BY <1>22, <3>4
      <4>4. q = [map |-> map, disk |-> disk, blocks |-> d.blocks, ok |-> TRUE, full |-> full] BY <1>10, <3>1
      <4>5. Overwritten(map, disk, i, d, full, q, d, new, after)
        BY ONLY <1>5, <1>6, <1>9, <3>1, <4>1, <4>2, <4>3, <4>4, v \in Value, FileWrittenWithin, Zenon
      <4> QED BY <3>2, <4>5
    <3>5. CASE ~wrote
      <4>1. new = disk BY <1>28, <1>35, <3>3, <3>5
      <4>2. after = old BY <1>20, <1>22, <3>2, <3>5
      <4>3. q.map = map /\ q.full = full /\ q.ok \in BOOLEAN BY <1>11, <3>1
      <4>4. Overwritten(map, disk, i, d, full, q, d, disk, old)
        BY ONLY <1>5, <1>9, <4>3, FileUnwritten, Zenon
      <4> QED BY <3>2, <4>1, <4>2, <4>4
    <3> QED BY <3>4, <3>5
  <2>2. CASE past /\ n < 0
    <3>1. q = [r EXCEPT !.ok = FALSE] BY <1>13, <2>2 DEF Reserve
    <3>2. q.ok = FALSE /\ q.map = map /\ q.full = full /\ q.disk = disk /\ q.blocks = d.blocks BY <1>10, <3>1
    <3>3. longer = d BY <1>5, <1>14, <3>2
    <3>4. mid = disk /\ ~wrote BY <1>15, <1>16, <3>2
    <3>5. new = disk BY <1>28, <1>35, <3>4
    <3>6. after = old BY <1>20, <1>22, <3>3, <3>4
    <3>7. Overwritten(map, disk, i, d, full, q, d, disk, old)
      <4>1. q.map = map /\ q.full = full /\ q.ok \in BOOLEAN BY <3>2
      <4> QED BY ONLY <1>5, <1>9, <4>1, FileUnwritten, Zenon
    <3> QED BY <3>3, <3>5, <3>6, <3>7
  <2>3. CASE past /\ n >= 0
    <3>1. n \in Nat /\ q = Reserve(r, n) BY <1>7, <1>13, <2>3
    <3>2. Reserving(map, disk, i, d, old, r, full, n, q)
      BY ONLY <1>5, <1>6, <1>9, <1>10, <3>1, WriteReserves, Zenon
    <3>3. DiskFine(q.disk) /\ q.disk \in [Sector -> Block] BY <3>2 DEF Reserving, DiskFine
    <3>4. CASE q.ok
      <4>1. longer = [length |-> n, blocks |-> q.blocks] BY <1>14, <2>3, <3>4
      <4>2. mid = [q.disk EXCEPT ![i] = Inode(longer)] BY <1>15, <2>3, <3>4
      <4>3. CASE wrote
        <5>1. pos \in Nat /\ n \in Nat /\ end = n /\ d.length < n BY <1>5, <1>8, <1>12, <1>17, <1>25, <2>3, <4>3
        <5>2. new = Overlaid(mid, q.blocks, pos, n, v) BY <1>18, <5>1
        <5>3. after = Promise(old, pos, n, v) BY <1>22, <4>3
        <5> QED BY ONLY <1>5, <1>6, <1>9, <1>10, <3>1, <3>4, <4>1, <4>2, <5>1, <5>2, <5>3, v \in Value,
                   FileWrittenPast, ZenonT(180)
      <4>4. CASE ~wrote
        <5>1. after = IF n # d.length THEN Lost ELSE old BY <1>20, <1>22, <1>23, <2>3, <3>4, <4>4
        <5>2. after \in {old, Lost} /\ (n # d.length => after = Lost) BY <5>1
        <5>3. Overwritten(map, disk, i, d, full, q, longer, mid, after)
          <6>1. StoreFine(map, disk) /\ i \in Sector /\ FileSound(map, disk, i, d, old) /\ full \in BOOLEAN
            BY <1>5, <1>6, <1>9
          <6> QED BY ONLY <6>1, <1>10, <3>1, <3>4, <4>1, <4>2, <5>2, FileCut, ZenonT(120)
        <5>4. mid \in [Sector -> Block]
          <6>1. DiskFine(mid) BY ONLY <5>3 DEF Overwritten
          <6> QED BY <6>1 DEF DiskFine
        <5>5. new = mid BY <1>28, <4>4, <5>4
        <5> QED BY <5>3, <5>5
      <4> QED BY <4>3, <4>4
    <3>5. CASE ~q.ok
      <4>1. longer = [length |-> d.length, blocks |-> q.blocks] BY <1>14, <3>5
      <4>2. mid = q.disk /\ ~wrote BY <1>15, <1>16, <3>5
      <4>3. new = q.disk BY <1>28, <3>3, <4>2
      <4>4. after = old BY <1>20, <1>22, <1>23, <3>5, <4>2
      <4>5. Overwritten(map, disk, i, d, full, q, longer, q.disk, old)
        BY ONLY <1>5, <1>6, <1>9, <1>10, <3>1, <3>5, <4>1, FileWriteFailed, Zenon
      <4> QED BY <4>3, <4>4, <4>5
    <3> QED BY <3>4, <3>5
  <2> QED BY <1>7, <2>1, <2>2, <2>3
<1>30. Writing(c, i, q, longer, end, new, after)
  BY <1>3, <1>19, <1>26, <1>27, <1>29, <1>34 DEF Writing
<1> QED BY <1>6, <1>30

\* sys_write() to a file that is written to.
LEMMA WriteThrough ==
    ASSUME FilesInv, NEW fd \in DOMAIN file_array, NEW size \in WriteSizes, NEW v \in Value,
           sys_write(fd, size, v), inodes[Behind(fd).inode].deny = 0
    PROVE  FilesInv'
<1>1. TypeOK /\ InodesOK /\ StoreOK /\ HandlesOK /\ OpenCount /\ DescriptorKept /\ DescriptorsOK
      /\ FilesOK /\ AccountedOK /\ DirectoryOK
  BY DEF FilesInv
<1>2. Derived BY <1>1, StateFacts
<1>3. PICK c : c = file_array[fd] OBVIOUS
<1>4. c \in StructFile
  <2>1. file_array \in Seq(StructFile) BY <1>1 DEF TypeOK
  <2> QED BY <1>3, <2>1
<1>5. files[c] # Freed BY <1>3 DEF sys_write, Usable, Behind
<1>6. files \in [StructFile -> {Freed} \cup InUse] /\ files[c] \in InUse
  BY <1>1, <1>4, <1>5 DEF TypeOK
<1>7. PICK i : i = files[c].inode OBVIOUS
<1>8. i \in Sector /\ inodes[i].cnt # 0 /\ files[c].pos \in Nat /\ files[c].deny \in BOOLEAN
  BY <1>1, <1>4, <1>5, <1>6, <1>7 DEF HandlesOK, InUse
<1>9. inodes \in [Sector -> InMemory] BY <1>1 DEF TypeOK
<1>10. i \in File BY <1>2, <1>8 DEF Derived
<1>11. DataOf[i] = inodes[i].data BY <1>2, <1>8 DEF Derived
<1>12. \E q, longer, end, new, after : Writing(c, i, q, longer, end, new, after)
  <2>1. FileWrite(c, size, v) BY <1>3 DEF sys_write
  <2> QED BY <1>7, <1>8, <1>10, <2>1, WriteMade
<1>13. PICK q, longer, end, new, after : Writing(c, i, q, longer, end, new, after) BY <1>12
<1>14. PICK d : d = DataOf[i] OBVIOUS
<1>15. /\ Overwritten(map, disk, i, d, full, q, longer, new, after)
       /\ end \in Nat
       /\ map' = q.map /\ disk' = new /\ full' = q.full /\ halted' \in {halted, "capacity"}
       /\ inodes' = [inodes EXCEPT ![i].data = longer]
       /\ files' = [files EXCEPT ![c].pos = end]
       /\ content' \in [Sector -> Seq(Contents)] /\ cut' \in SUBSET Sector
       /\ Held'[i] = after /\ \A j \in Sector : j # i => Held'[j] = Held[j]
       /\ failed' = (failed \/ (~q.ok /\ q.map # map) \/ longer.length < d.length)
  BY <1>13, <1>14 DEF Writing
<1>16. /\ stale' = (stale \/ opened[fd] = 0)
       /\ UNCHANGED <<slots, file_array, opened>>
  BY DEF sys_write, Used
<1>17. /\ q.map \in SUBSET Sector /\ map \subseteq q.map /\ DiskFine(new) /\ q.full \in BOOLEAN
       /\ q.ok \in BOOLEAN
       /\ new[0] = disk[0] \/ (new[0] = Zeros /\ q.full)
       /\ q.full # full => q.full
       /\ \A s \in map \ Reserved : s \notin Owned(disk, i, d) => new[s] = disk[s]
       /\ FileSound(q.map, new, i, longer, after)
       /\ Owned(new, i, longer) \subseteq Owned(disk, i, d) \cup (q.map \ map)
       /\ d.length <= longer.length => Sectors(disk, d) \subseteq Sectors(new, longer)
       /\ q.ok => \A s \in q.map \ map : s \in Sectors(new, longer)
  BY ONLY <1>15 DEF Overwritten
<1>18. FileBody(q.map, new, i, longer, after) BY <1>17 DEF FileSound
<1>19. longer \in [length : Nat, blocks : Blocks] /\ longer.length \in Nat
  <2>1. longer \in FileData BY <1>18 DEF FileBody
  <2>2. longer.length \in Nat /\ longer \in [length : Nat, blocks : Blocks] BY <2>1, CapacityNat DEF FileData
  <2> QED BY <1>17, <2>2
\* The inode and the file structure.
<1>21. /\ inodes' \in [Sector -> InMemory]
       /\ \A j \in Sector : j # i => inodes'[j] = inodes[j]
       /\ \A j \in Sector : /\ inodes'[j].cnt = inodes[j].cnt /\ inodes'[j].deny = inodes[j].deny
                               /\ inodes'[j].removed = inodes[j].removed
       /\ inodes'[i].data = longer
  <2>1. inodes[i] \in InMemory BY <1>8, <1>9
  <2>2. /\ inodes'[i] = [inodes[i] EXCEPT !.data = longer]
        /\ \A j \in Sector : j # i => inodes'[j] = inodes[j]
    BY <1>8, <1>9, <1>15
  <2>3. inodes'[i] = [cnt |-> inodes[i].cnt, deny |-> inodes[i].deny, removed |-> inodes[i].removed, data |-> longer]
    BY <2>1, <2>2 DEF InMemory
  <2>4. inodes'[i] \in InMemory BY <1>19, <2>1, <2>3 DEF InMemory
  <2>5. inodes' \in [Sector -> InMemory] BY <1>9, <1>15, <2>2, <2>4
  <2> QED BY <2>2, <2>3, <2>5
<1>22. /\ files' \in [StructFile -> {Freed} \cup InUse]
       /\ \A b \in StructFile : b # c => files'[b] = files[b]
       /\ files'[c] = [inode |-> i, pos |-> end, deny |-> files[c].deny]
       /\ \A b \in StructFile : files'[b] = Freed <=> files[b] = Freed
       /\ \A b \in StructFile :
            files[b] # Freed => files'[b].inode = files[b].inode /\ files'[b].deny = files[b].deny
  <2>1. files'[c] = [files[c] EXCEPT !.pos = end] /\ \A b \in StructFile : b # c => files'[b] = files[b]
    BY <1>4, <1>6, <1>15
  <2>2. files'[c] = [inode |-> i, pos |-> end, deny |-> files[c].deny] BY <1>6, <1>7, <2>1 DEF InUse
  <2>3. files'[c] \in InUse BY <1>8, <1>15, <2>2 DEF InUse
  <2>4. files' \in [StructFile -> {Freed} \cup InUse] BY <1>6, <1>15, <2>1, <2>3
  <2>6. [inode |-> i, pos |-> end, deny |-> files[c].deny] # Freed BY Unlike, Zenon
  <2>7. files'[c].inode = i /\ files'[c].deny = files[c].deny BY <2>2
  <2>5. files'[c] # Freed /\ files'[c].inode = files[c].inode BY ONLY <1>7, <2>2, <2>6, <2>7
  <2> QED BY <1>5, <2>1, <2>2, <2>4, <2>5, <2>7
<1>24. TypeOK'
  <2>1. disk' \in [Sector -> Block] /\ map' \in SUBSET Sector /\ full' \in BOOLEAN BY <1>15, <1>17 DEF DiskFine
  <2>2. failed' \in BOOLEAN /\ stale' \in BOOLEAN BY <1>1, <1>15, <1>16 DEF TypeOK
  <2> QED BY <1>1, <1>15, <1>16, <1>21, <1>22, <2>1, <2>2 DEF TypeOK
<1>25. DirectoryOK' BY <1>1, <1>16 DEF DirectoryOK
<1>26. Named' = Named BY <1>16 DEF Named
<1>27. InodesOK'
  <2>1. \A j \in Sector : inodes'[j].cnt = 0 => inodes'[j] = NotOpen BY <1>1, <1>8, <1>21 DEF InodesOK
  <2>2. \A j \in Sector : inodes'[j].cnt # 0 => (inodes'[j].removed <=> j \notin Named)
    BY <1>1, <1>21 DEF InodesOK
  <2> QED BY <1>26, <2>1, <2>2 DEF InodesOK
<1>28. StoreOK'
  <2>1. disk'[0] \in {System, Zeros} /\ (~full' => disk'[0] = System)
    BY <1>1, <1>15, <1>17 DEF StoreOK, FREE_MAP_SECTOR, TypeOK
  <2>2. halted' = "panic" => full' BY <1>1, <1>15, <1>17 DEF StoreOK, TypeOK
  <2>3. Reserved \subseteq map' BY <1>1, <1>15, <1>17 DEF StoreOK
  <2>4. halted' \in {"no", "undefined", "panic", "capacity", "length", "filesize"} BY <1>1, <1>15 DEF StoreOK
  <2> QED BY <2>1, <2>2, <2>3, <2>4 DEF StoreOK, FREE_MAP_SECTOR
<1>29. HandlesOK'
  <2>1. ASSUME NEW b \in StructFile, files'[b] # Freed PROVE inodes'[files'[b].inode].cnt # 0
    <3>1. files[b] # Freed /\ files'[b].inode = files[b].inode BY <1>22, <2>1
    <3>2. files[b] \in InUse BY <1>6, <3>1
    <3>3. PICK j \in Sector : j = files[b].inode BY <3>2 DEF InUse
    <3>4. inodes[j].cnt # 0 BY <1>1, <3>1, <3>3 DEF HandlesOK
    <3> QED BY <1>21, <3>1, <3>3, <3>4
  <2> QED BY ONLY <2>1 DEF HandlesOK
<1>30. OpenCount'
  <2>1. ASSUME NEW j \in Sector
        PROVE  Cardinality(Handles(j)') = inodes'[j].cnt /\ Cardinality(Denying(j)') = inodes'[j].deny
    <3>1. Handles(j)' = Handles(j) BY <1>22 DEF Handles
    <3>2. Denying(j)' = Denying(j) BY <1>22, <3>1 DEF Denying, Handles
    <3>3. Cardinality(Handles(j)) = inodes[j].cnt /\ Cardinality(Denying(j)) = inodes[j].deny
      BY <1>1, OpenCountHandles
    <3> QED BY <1>21, <3>1, <3>2, <3>3
  <2> QED BY ONLY <2>1 DEF OpenCount, Handles, Denying
<1>31. DescriptorKept'
  <2>1. ASSUME ~stale', NEW gd \in DOMAIN file_array', opened'[gd] # 0
        PROVE  files'[file_array'[gd]] # Freed /\ files'[file_array'[gd]].inode = opened'[gd]
    <3>1. gd \in DOMAIN file_array /\ opened[gd] # 0 /\ ~stale BY <1>16, <2>1
    <3>2. files[file_array[gd]] # Freed /\ files[file_array[gd]].inode = opened[gd]
      BY <1>1, <3>1 DEF DescriptorKept, Behind
    <3>3. file_array[gd] \in StructFile
      <4>1. file_array \in Seq(StructFile) BY <1>1 DEF TypeOK
      <4> QED BY <3>1, <4>1
    <3> QED BY <1>16, <1>22, <3>2, <3>3
  <2> QED BY ONLY <2>1 DEF DescriptorKept, Behind
<1>32. DescriptorsOK'
  <2>1. ~stale' => ~stale BY <1>16
  <2> QED BY <1>1, <1>16, <2>1 DEF DescriptorsOK
\* The files.
<1>33. /\ \A j : j \in File' => j \in Sector
       /\ \A j \in Sector : j \in File' <=> j \in Named \/ inodes'[j].cnt # 0
       /\ \A j \in Sector : DataOf'[j] = IF inodes'[j].cnt # 0 THEN inodes'[j].data ELSE new[j].data
  <2>1. Derived' BY <1>24, <1>27, <1>28, StateFacts, PTL
  <2> QED BY <1>15, <1>26, <2>1 DEF Derived
<1>34. \A j \in Sector : j \in File' <=> j \in File BY <1>2, <1>21, <1>33 DEF Derived
<1>35. i \in File' /\ DataOf'[i] = longer
  <2>1. inodes'[i].cnt # 0 BY <1>8, <1>21
  <2> QED BY <1>8, <1>10, <1>21, <1>33, <1>34, <2>1
<1>36. /\ Owned(disk, i, d) \subseteq map \ Reserved
       /\ \A j \in File : j # i => /\ Owned(disk, j, DataOf[j]) \subseteq map \ Reserved
                                   /\ Owned(disk, i, d) \cap Owned(disk, j, DataOf[j]) = {}
                                   /\ j \notin Owned(disk, i, d) /\ j \in map \ Reserved
  <2>1. StoreFine(map, disk) /\ FilesFine(map, disk, File, DataOf, Held)
    BY <1>1, <1>2 DEF Derived, FilesOK
  <2>2. Owned(disk, i, d) \subseteq map \ Reserved
    BY <1>10, <1>14, <2>1, FilesTaken
  <2>3. ASSUME NEW j \in File, j # i
        PROVE  /\ Owned(disk, j, DataOf[j]) \subseteq map \ Reserved
               /\ Owned(disk, i, d) \cap Owned(disk, j, DataOf[j]) = {}
               /\ j \notin Owned(disk, i, d) /\ j \in map \ Reserved
    BY <1>10, <1>14, <2>1, <2>3, FilesTaken
  <2> QED BY <2>2, <2>3
<1>37. FilesStep(i)
  <2>1. ASSUME NEW j \in File', j # i
        PROVE  /\ j \in File /\ DataOf'[j] = DataOf[j] /\ Held'[j] = Held[j]
               /\ Untouched(disk, disk', map', j, DataOf[j])
    <3>1. j \in Sector /\ j \in File BY <1>33, <1>34, <2>1
    <3>2. \A s \in Owned(disk, j, DataOf[j]) : s \in map \ Reserved /\ s \notin Owned(disk, i, d)
      BY <1>36, <2>1, <3>1
    <3>3. \A s \in Owned(disk, j, DataOf[j]) : disk'[s] = disk[s] /\ s \in map' BY <1>15, <1>17, <3>2
    <3>4. new[j] = disk[j] BY <1>17, <1>36, <2>1, <3>1
    <3>5. DataOf'[j] = DataOf[j] BY <1>2, <1>21, <1>33, <2>1, <3>1, <3>4 DEF Derived
    <3>6. Held'[j] = Held[j] BY <1>15, <2>1, <3>1
    <3> QED BY <3>1, <3>3, <3>5, <3>6 DEF Untouched
  <2>2. \A j \in File : j # i => j \in File' BY <1>2, <1>34 DEF Derived
  <2>3. FileSound(map', disk', i, DataOf'[i], Held'[i]) BY <1>15, <1>17, <1>35
  <2>4. \A j \in File : j # i => Owned(disk', i, DataOf'[i]) \cap Owned(disk, j, DataOf[j]) = {}
    BY <1>15, <1>17, <1>35, <1>36
  <2> QED BY <2>1, <2>2, <2>3, <2>4 DEF FilesStep
<1>38. AccountStep(i)
  <2>1. ASSUME ~failed', NEW s \in map', s \notin map PROVE s \in Sectors(disk', DataOf'[i])
    <3>1. q.ok BY <1>15, <2>1
    <3> QED BY <1>15, <1>17, <1>35, <2>1, <3>1
  <2>2. ~failed' => \A s \in {i} \cup Sectors(disk, DataOf[i]) : s \in {i} \cup Sectors(disk', DataOf'[i])
    <3>1. d.length \in Nat
      <4>1. inodes[i] \in InMemory BY <1>8, <1>9
      <4> QED BY <1>11, <1>14, <4>1 DEF InMemory
    <3>2. ASSUME ~failed' PROVE d.length <= longer.length
      <4>1. ~(longer.length < d.length) BY <1>15, <3>2
      <4> QED BY <1>19, <3>1, <4>1
    <3> QED BY <1>14, <1>15, <1>17, <1>35, <3>2
  <2>3. ~failed' => ~failed BY <1>15
  <2> QED BY <1>35, <2>1, <2>2, <2>3 DEF AccountStep
<1>39. FilesOK' /\ AccountedOK'
  BY <1>1, <1>24, <1>27, <1>28, <1>37, <1>38, FilesStepped
<1> QED BY <1>24, <1>25, <1>27, <1>28, <1>29, <1>30, <1>31, <1>32, <1>39 DEF FilesInv

\* sys_write().
LEMMA WriteStep ==
    ASSUME FilesInv, NEW fd \in DOMAIN file_array, NEW size \in WriteSizes, NEW v \in Value,
           sys_write(fd, size, v)
    PROVE  FilesInv'
<1>1. CASE inodes[Behind(fd).inode].deny = 0 BY <1>1, WriteThrough
<1>2. CASE inodes[Behind(fd).inode].deny # 0
  <2>1. /\ UNCHANGED <<map, disk, slots, inodes, files, file_array, opened, content, cut, failed, full>>
        /\ halted' = halted /\ stale' = (stale \/ opened[fd] = 0)
    BY <1>2 DEF sys_write, Used
  <2>2. stale' \in BOOLEAN /\ (stale => stale') BY <2>1 DEF FilesInv, TypeOK
  <2> QED BY <2>1, <2>2, NothingChanged
<1> QED BY <1>1, <1>2

-----------------------------------------------------------------------------

\* Every step keeps the invariant.
LEMMA FilesNext ==
    ASSUME FilesInv, [Next]_vars
    PROVE  FilesInv'
<1>1. ASSUME NEW name \in Name, NEW size \in CreateSizes, sys_create(name, size) PROVE FilesInv'
  BY <1>1, CreateStep
<1>2. ASSUME NEW name \in Name, sys_open(name) PROVE FilesInv' BY <1>2, OpenStep
<1>3. ASSUME NEW name \in Name, filesys_remove(name) PROVE FilesInv' BY <1>3, RemoveStep
<1>4. ASSUME NEW fd \in DOMAIN file_array, NEW size \in WriteSizes, NEW v \in Value, sys_write(fd, size, v)
      PROVE  FilesInv'
  BY <1>4, WriteStep
<1>5. ASSUME NEW fd \in DOMAIN file_array, sys_read(fd) PROVE FilesInv' BY <1>5, CloseStep DEF sys_read
<1>6. ASSUME NEW fd \in DOMAIN file_array, sys_close(fd) PROVE FilesInv' BY <1>6, CloseStep
<1>7. ASSUME NEW name \in Name, load(name) PROVE FilesInv' BY <1>7, LoadStep
<1>8. CASE Reboot BY <1>8, RebootStep
<1>9. CASE \/ \E fd \in DOMAIN file_array : Undefined(fd) \/ sys_filesize(fd)
           \/ sys_filesize_unopened
           \/ UNCHANGED vars
  BY <1>9, UnchangedStep
<1> QED BY <1>1, <1>2, <1>3, <1>4, <1>5, <1>6, <1>7, <1>8, <1>9 DEF Next

\* The inductive invariant holds in every state: the types, the directory, the open
\* inodes and struct files, and every file's tree of blocks on the disk.
THEOREM FilesInvariant == Spec => []FilesInv
<1>1. Init => FilesInv BY FilesInit
<1>2. FilesInv /\ [Next]_vars => FilesInv' BY FilesNext
<1> QED BY <1>1, <1>2, PTL DEF Spec

\* What FilesInv says of one file's sectors.
LEMMA FileOfInv ==
    ASSUME FilesInv, NEW i \in File
    PROVE  /\ i \in Sector /\ Taken(i) = {i} \cup Sectors(disk, DataOf[i])
           /\ DataOf[i] = InodeData(i)
           /\ FileSound(map, disk, i, InodeData(i), Held[i])
           /\ StoreFine(map, disk) /\ FilesFine(map, disk, File, DataOf, Held)
<1>1. TypeOK /\ InodesOK /\ StoreOK /\ FilesOK BY DEF FilesInv
<1>2. i \in Sector /\ FileSound(map, disk, i, DataOf[i], Held[i]) BY <1>1, FileFacts
<1>3. DataOf[i] = InodeData(i) BY <1>2 DEF DataOf
<1>4. StoreFine(map, disk) BY <1>1, StateFacts DEF Derived
<1> QED BY <1>1, <1>2, <1>3, <1>4 DEF Taken, FilesOK

\* SectorsOnce, of the trees of the files: the sectors of a file are counted along
\* its places.
LEMMA InvSectorsOnce ==
    ASSUME FilesInv
    PROVE  SectorsOnce
<1>1. ASSUME NEW i \in File
      PROVE  /\ Taken(i) \subseteq map \ Reserved
             /\ Cardinality(Taken(i)) = 1 + InodeData(i).length + Cardinality(IndexSectors(disk, InodeData(i)))
  <2>1. /\ Taken(i) = {i} \cup Sectors(disk, DataOf[i]) /\ DataOf[i] = InodeData(i)
        /\ FileSound(map, disk, i, InodeData(i), Held[i])
        /\ StoreFine(map, disk) /\ FilesFine(map, disk, File, DataOf, Held)
    BY FileOfInv
  <2>2. {i} \cup Sectors(disk, DataOf[i]) \subseteq map \ Reserved BY <2>1, FilesTaken
  <2>3. map \in SUBSET Sector /\ DiskFine(disk) BY <2>1 DEF StoreFine
  <2>4. Cardinality({i} \cup Sectors(disk, InodeData(i)))
            = 1 + InodeData(i).length + Cardinality(IndexSectors(disk, InodeData(i)))
    BY <2>1, <2>3, FileCount
  <2> QED BY <2>1, <2>2, <2>4
<1>2. ASSUME NEW i \in File, NEW j \in File, i # j PROVE Taken(i) \cap Taken(j) = {}
  <2>1. /\ Taken(i) = {i} \cup Sectors(disk, DataOf[i]) /\ Taken(j) = {j} \cup Sectors(disk, DataOf[j])
        /\ StoreFine(map, disk) /\ FilesFine(map, disk, File, DataOf, Held)
    BY FileOfInv
  <2>2. /\ {i} \cup Sectors(disk, DataOf[i]) \subseteq Owned(disk, i, DataOf[i])
        /\ Owned(disk, j, DataOf[j]) \cap Owned(disk, i, DataOf[i]) = {}
    BY <1>2, <2>1, FilesTaken
  <2>3. {j} \cup Sectors(disk, DataOf[j]) \subseteq Owned(disk, j, DataOf[j]) BY <2>1, FilesTaken
  <2> QED BY <2>1, <2>2, <2>3
<1> QED BY <1>1, <1>2 DEF SectorsOnce

\* NoLeak, of what the free map accounts for.
LEMMA InvNoLeak ==
    ASSUME FilesInv
    PROVE  NoLeak
<1> SUFFICES ASSUME ~failed PROVE map = Reserved \cup UNION {Taken(i) : i \in File}
  BY DEF NoLeak
<1>1. Reserved \subseteq map BY DEF FilesInv, StoreOK
<1>2. ASSUME NEW s \in map \ Reserved PROVE \E i \in File : s \in Taken(i)
  <2>1. PICK i \in File : s \in {i} \cup Sectors(disk, DataOf[i])
    BY <1>2 DEF FilesInv, AccountedOK, Accounted
  <2> QED BY <2>1, FileOfInv
<1>3. ASSUME NEW i \in File PROVE Taken(i) \subseteq map
  BY InvSectorsOnce DEF SectorsOnce
<1> QED BY <1>1, <1>2, <1>3

\* FileKept, of the sectors index_to_sector() finds.
LEMMA InvFileKept ==
    ASSUME FilesInv
    PROVE  FileKept
<1> SUFFICES ASSUME NEW i \in File \ cut PROVE ReadAll(i) = content[i]
  BY DEF FileKept
<1>1. PICK d : d = InodeData(i) OBVIOUS
<1>7. content[i] # Lost /\ Held[i] = content[i]
  <2>1. i \in File /\ i \in Sector /\ i \notin cut BY FileOfInv
  <2> QED BY <2>1, ContentKnown DEF Held, FilesInv
<1>2. FileBody(map, disk, i, d, content[i]) BY <1>1, <1>7, FileOfInv DEF FileSound
<1>3. content[i] = [k \in 1 .. d.length |-> disk[Tree(disk, d.blocks)[Leaf(k - 1)]]]
  BY <1>2, <1>7 DEF FileBody, Kept
<1>4. d.length \in 0 .. Capacity /\ Capacity \in Nat BY <1>2, CapacityNat DEF FileBody, FileData
<1>5. ASSUME NEW k \in 1 .. d.length
      PROVE  SectorAt(disk, d.blocks, k - 1) = Tree(disk, d.blocks)[Leaf(k - 1)]
  <2>1. k - 1 \in 0 .. Capacity - 1 BY <1>4
  <2> QED BY <2>1, SectorAtTree
<1>6. ReadAll(i) = [k \in 1 .. d.length |-> disk[SectorAt(disk, d.blocks, k - 1)]] BY <1>1 DEF ReadAll
<1> QED BY <1>3, <1>5, <1>6

\* No sector belongs to two files or twice to one, and none that a file has is free
\* (inode_reserve(), inode_close()), whatever the disk and the files are.
THEOREM FilesSectorsOnce == Spec => []SectorsOnce
BY FilesInvariant, InvSectorsOnce, PTL

\* No sector is lost but by a call that failed half way, a write of no bytes that
\* emptied a file, or a shutdown with a removed file open (free_map_release()).
THEOREM FilesNoLeak == Spec => []NoLeak
BY FilesInvariant, InvNoLeak, PTL

\* A file reads as what was written to it, zeros where nothing was (inode_read_at(),
\* inode_write_at(), index_to_sector()), unless a write of no bytes has changed its
\* length: of such a file nothing is claimed but that its blocks are its own.
THEOREM FilesFileKept == Spec => []FileKept
BY FilesInvariant, InvFileKept, PTL

\* A descriptor is the file it was opened on until it is read or closed, unless one
\* was used after that (sys_open(), sys_read(), sys_close()).
THEOREM FilesDescriptorKept == Spec => []DescriptorKept
<1>1. FilesInv => DescriptorKept BY DEF FilesInv
<1> QED BY <1>1, FilesInvariant, PTL

\* An inode is open as often as there are struct files on it, and denies writes as
\* often as there are programs among them (inode_open(), inode_close(), file_deny_write()).
THEOREM FilesOpenCount == Spec => []OpenCount
<1>1. FilesInv => OpenCount BY DEF FilesInv
<1> QED BY <1>1, FilesInvariant, PTL

\* Nothing releases a free sector or allows writes nobody denied, so two of the
\* kernel's assertions never stop it, and the free map's inode is overwritten only
\* when no sector was left for an indirect block (free_map_release(),
\* inode_allow_write(), free_map_open()).  The assertions on a size below zero, on a
\* length past the longest and on a descriptor nobody opened do stop it, and are
\* among the steps.
THEOREM FilesBootsAgain == Spec => []BootsAgain
<1>1. FilesInv => BootsAgain BY DEF FilesInv, StoreOK, BootsAgain
<1> QED BY <1>1, FilesInvariant, PTL

=============================================================================
