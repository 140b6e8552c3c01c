--------------------------- MODULE BufferCacheProofs ---------------------------
(* The buffer cache is a disk, whatever the number of its slots, of sectors   *)
(* and of threads: TypeOK and CacheCoherent are invariants, and every step    *)
(* is a step of Disk.                                                         *)
EXTENDS BufferCache, TLAPS

\* Where a thread is in its call, and which call that is.
CallInv == \A t \in Thread :
    /\ pc[t] = "out" <=> call[t] = NoCall
    /\ pc[t] \in {"flush", "fill"} => call[t].op \in {"read", "write"}
    /\ pc[t] = "closing" => call[t].op = "close"

\* A thread that flushes for an eviction has missed its sector; the slot is
\* there to be written, or claimed.
MissInv == \A t \in Thread :
    /\ pc[t] = "flush" => /\ MustFlush(slot[t])
                          /\ \A i \in Slot : ~Holds(i, call[t].sector)
    /\ pc[t] = "fill" => Holds(slot[t], call[t].sector) /\ ~dirty[slot[t]]

\* A close has nothing left to write behind it.
CloseInv == \A t \in Thread :
    pc[t] = "closing" => \A i \in Slot : i < slot[t] => ~MustFlush(i)

IInv == TypeOK /\ CallInv /\ MissInv /\ CloseInv /\ CacheCoherent

-----------------------------------------------------------------------------
\* What a sector holds is in a slot that is not being filled, or on the disk.
LEMMA ContentCases ==
    \A s \in Sector :
        \/ \E i \in Slot : Holds(i, s) /\ ~Filling(i) /\ Content[s] = buffer[i]
        \/ /\ \A i \in Slot : Holds(i, s) => Filling(i)
           /\ Content[s] = disk[s]
  BY DEF Content

\* A call has an operation; one that reads or writes has a sector.
LEMMA CallFields ==
    \A c \in D!Call : /\ c.op \in {"read", "write", "close"}
                      /\ c.sector \in Sector
                      /\ c.op = "write" => c.value \in Value
                      /\ c # NoCall
  BY NoCallAssumption DEF D!Call

\* The hand stays within the cache.
LEMMA AtInSlot == TypeOK => \A d \in 0 .. BUFFER_CACHE_SIZE : At(d) \in Slot
<1> SUFFICES ASSUME TypeOK, NEW d \in 0 .. BUFFER_CACHE_SIZE PROVE At(d) \in Slot
  OBVIOUS
<1>1. clock \in Int /\ clock + d \in Int
  BY SizeAssumption DEF TypeOK, Slot
<1>2. \A k \in Int : k % BUFFER_CACHE_SIZE \in Slot
  BY SizeAssumption DEF Slot
<1> QED
  BY <1>1, <1>2 DEF At

-----------------------------------------------------------------------------
THEOREM InitIInv == Init => IInv
<1> SUFFICES ASSUME Init PROVE IInv
  OBVIOUS
<1>1. (CHOOSE s \in Sector : TRUE) \in Sector /\ (CHOOSE v \in Value : TRUE) \in Value
  BY ZeroAssumption
<1>2. TypeOK
  BY <1>1, SizeAssumption DEF Init, Booted, TypeOK, Slot
<1>3. CallInv /\ MissInv /\ CloseInv /\ CacheCoherent
  BY DEF Init, Booted, CallInv, MissInv, CloseInv, CacheCoherent
<1> QED
  BY <1>2, <1>3 DEF IInv

\* Whoever is past lock_acquire() has the lock: there is one such thread.
LEMMA OneInside ==
    ASSUME TypeOK, NEW t \in Thread, NEW u \in Thread,
           pc[u] \in {"flush", "fill", "closing"},
           LockFree \/ pc[t] \in {"flush", "fill", "closing"}
    PROVE  lock # Nobody /\ t = u
  BY NobodyAssumption DEF TypeOK, LockFree

THEOREM BeginIInv == ASSUME IInv, NEW t \in Thread, NEW c \in D!Call, Begin(t, c)
                     PROVE  IInv'
<1> USE DEF IInv
<1>0. c # NoCall /\ pc[t] = "out"
  BY CallFields DEF Begin, CallInv
<1>1. TypeOK'
  BY <1>0 DEF Begin, TypeOK, cache
<1>2. CallInv'
  BY <1>0 DEF Begin, CallInv, TypeOK
<1>3. MissInv'
  BY <1>0 DEF Begin, MissInv, TypeOK, cache, MustFlush, Holds
<1>4. CloseInv'
  BY <1>0 DEF Begin, CloseInv, TypeOK, cache, MustFlush
<1>5. CacheCoherent'
  BY <1>0 DEF Begin, CacheCoherent, TypeOK, cache, Filling
<1> QED
  BY <1>1, <1>2, <1>3, <1>4, <1>5

\* A thread that gets the lock: what it may find of the others.
LEMMA NobodyInside == ASSUME TypeOK, LockFree, NEW t \in Thread
                      PROVE  pc[t] \in {"out", "in"}
  BY NobodyAssumption DEF TypeOK, LockFree

\* The copy leaves what it changes in its types.
LEMMA CopyTypes ==
    ASSUME TypeOK, NEW t \in Thread, NEW i \in Slot, NEW bytes \in Value,
           call[t] \in D!Call, call[t].op = "write" => call[t].value \in Value,
           Copy(t, i, bytes)
    PROVE  /\ buffer' \in [Slot -> Value] /\ dirty' \in [Slot -> BOOLEAN]
           /\ access' \in [Slot -> BOOLEAN] /\ result' \in [Thread -> Value \cup {NoValue}]
           /\ call' \in [Thread -> D!Call \cup {NoCall}]
           /\ pc' = [pc EXCEPT ![t] = "out"] /\ slot' = [slot EXCEPT ![t] = 0]
<1>1. CASE call[t].op = "write"
  BY <1>1 DEF TypeOK, Copy, Returns
<1>2. CASE call[t].op # "write"
  BY <1>2 DEF TypeOK, Copy, Returns
<1> QED
  BY <1>1, <1>2

THEOREM EnterIInv == ASSUME IInv, NEW t \in Thread, Enter(t)
                     PROVE  IInv'
<1> USE DEF IInv
<1>0. /\ pc[t] = "in" /\ call[t] \in D!Call /\ call[t].op \in {"read", "write"}
      /\ call[t].sector \in Sector /\ (call[t].op = "write" => call[t].value \in Value)
      /\ \A u \in Thread : pc[u] \in {"out", "in"}
      /\ \A i \in Slot : ~Filling(i)
  BY CallFields, NobodyInside DEF Enter, CallInv, TypeOK, Filling
<1>1. ASSUME NEW i \in Hit(call[t].sector), Copy(t, i, buffer[i]),
             UNCHANGED <<disk, occupied, disk_sector, clock, lock>>
      PROVE  IInv'
  <2>0. i \in Slot
    BY DEF Hit
  <2>1. TypeOK'
    <3>1. buffer[i] \in Value
      BY <2>0 DEF TypeOK
    <3>2. /\ buffer' \in [Slot -> Value] /\ dirty' \in [Slot -> BOOLEAN]
          /\ access' \in [Slot -> BOOLEAN] /\ result' \in [Thread -> Value \cup {NoValue}]
          /\ call' \in [Thread -> D!Call \cup {NoCall}]
          /\ pc' = [pc EXCEPT ![t] = "out"] /\ slot' = [slot EXCEPT ![t] = 0]
      BY <1>0, <1>1, <2>0, <3>1, CopyTypes
    <3> QED
      BY <1>0, <1>1, <3>2, SizeAssumption DEF TypeOK
  <2>2. CallInv'
    BY <1>0, <1>1 DEF CallInv, Copy, Returns, TypeOK
  <2>3. MissInv' /\ CloseInv'
    BY <1>0, <1>1 DEF MissInv, CloseInv, Copy, Returns, TypeOK
  <2>4. CacheCoherent'
    BY <1>0, <1>1, <2>0 DEF CacheCoherent, Copy, Returns, TypeOK, Filling
  <2> QED
    BY <2>1, <2>2, <2>3, <2>4
<1>2. ASSUME NEW v \in Slot, MustFlush(v), Hit(call[t].sector) = {}, clock' = v, lock' = t,
             access' \in [Slot -> BOOLEAN],
             slot' = [slot EXCEPT ![t] = v], pc' = [pc EXCEPT ![t] = "flush"],
             UNCHANGED <<disk, buffer, call, result, occupied, disk_sector, dirty>>
      PROVE  IInv'
  <2>1. TypeOK'
    BY <1>0, <1>2, SizeAssumption DEF TypeOK, Slot, MustFlush
  <2>2. CallInv'
    BY <1>0, <1>2 DEF CallInv, TypeOK
  <2>3. MissInv' /\ CloseInv'
    BY <1>0, <1>2 DEF MissInv, CloseInv, TypeOK, Hit, Holds, MustFlush
  <2>4. CacheCoherent'
    BY <1>0, <1>2 DEF CacheCoherent, TypeOK, Filling
  <2> QED
    BY <2>1, <2>2, <2>3, <2>4
<1>3. ASSUME NEW v \in Slot, ~MustFlush(v), Hit(call[t].sector) = {}, clock' = v, lock' = t,
             access' \in [Slot -> BOOLEAN], Claim(t, v),
             UNCHANGED <<disk, buffer, call, result>>
      PROVE  IInv'
  <2>1. TypeOK'
    <3>1. v \in 0 .. BUFFER_CACHE_SIZE
      BY SizeAssumption DEF Slot
    <3> QED
      BY <1>0, <1>3, <3>1 DEF TypeOK, Claim
  <2>2. CallInv'
    BY <1>0, <1>3 DEF CallInv, TypeOK, Claim
  <2>3. MissInv' /\ CloseInv'
    BY <1>0, <1>3 DEF MissInv, CloseInv, TypeOK, Hit, Holds, MustFlush, Claim
  <2>4. CacheCoherent'
    BY <1>0, <1>3 DEF CacheCoherent, TypeOK, Filling, Claim, Hit, Holds
  <2> QED
    BY <2>1, <2>2, <2>3, <2>4
<1>4. CASE \E i \in Hit(call[t].sector) : Copy(t, i, buffer[i])
                /\ UNCHANGED <<disk, occupied, disk_sector, clock, lock>>
  BY <1>1, <1>4
<1>5. CASE \E d \in 0 .. BUFFER_CACHE_SIZE :
             /\ Hit(call[t].sector) = {} /\ lock' = t
             /\ access' = [i \in Slot |-> access[i] /\ ~Passed(i, d)]
             /\ clock' = At(d)
             /\ \/ /\ MustFlush(At(d))
                   /\ slot' = [slot EXCEPT ![t] = At(d)]
                   /\ pc' = [pc EXCEPT ![t] = "flush"]
                   /\ UNCHANGED <<occupied, disk_sector, dirty>>
                \/ /\ ~MustFlush(At(d))
                   /\ Claim(t, At(d))
             /\ UNCHANGED <<disk, buffer, call, result>>
  <2> PICK d \in 0 .. BUFFER_CACHE_SIZE :
             /\ Hit(call[t].sector) = {} /\ lock' = t
             /\ access' = [i \in Slot |-> access[i] /\ ~Passed(i, d)]
             /\ clock' = At(d)
             /\ \/ /\ MustFlush(At(d))
                   /\ slot' = [slot EXCEPT ![t] = At(d)]
                   /\ pc' = [pc EXCEPT ![t] = "flush"]
                   /\ UNCHANGED <<occupied, disk_sector, dirty>>
                \/ /\ ~MustFlush(At(d))
                   /\ Claim(t, At(d))
             /\ UNCHANGED <<disk, buffer, call, result>>
    BY <1>5
  <2>1. At(d) \in Slot
    BY AtInSlot
  <2>2. access' \in [Slot -> BOOLEAN]
    BY DEF TypeOK
  <2> QED
    BY <1>2, <1>3, <2>1, <2>2
<1> QED
  BY <1>4, <1>5 DEF Enter

THEOREM FlushIInv == ASSUME IInv, NEW t \in Thread, Flush(t)
                     PROVE  IInv'
<1> USE DEF IInv
<1>0. /\ pc[t] = "flush" /\ lock = t /\ slot[t] \in Slot /\ MustFlush(slot[t])
      /\ call[t] \in D!Call /\ call[t].op \in {"read", "write"} /\ call[t].sector \in Sector
      /\ \A i \in Slot : ~Holds(i, call[t].sector)
  BY CallFields DEF Flush, TypeOK, MissInv, CallInv
<1>1. \A u \in Thread : u # t => pc[u] \in {"out", "in"}
  BY <1>0 DEF TypeOK
<1>2. TypeOK'
  BY <1>0, SizeAssumption DEF Flush, Claim, TypeOK, Slot
<1>3. CallInv'
  BY <1>0 DEF CallInv, TypeOK, Flush, Claim
<1>4. MissInv' /\ CloseInv'
  BY <1>0, <1>1 DEF MissInv, CloseInv, TypeOK, Flush, Claim, Holds
<1>5. CacheCoherent'
  BY <1>0, <1>1 DEF CacheCoherent, TypeOK, Flush, Claim, Holds, Filling, MustFlush
<1> QED
  BY <1>2, <1>3, <1>4, <1>5

THEOREM FillIInv == ASSUME IInv, NEW t \in Thread, Fill(t)
                    PROVE  IInv'
<1> USE DEF IInv
<1>0. /\ pc[t] = "fill" /\ lock = t /\ slot[t] \in Slot /\ Holds(slot[t], call[t].sector)
      /\ call[t] \in D!Call /\ call[t].op \in {"read", "write"} /\ call[t].sector \in Sector
      /\ call[t].op = "write" => call[t].value \in Value
      /\ ~dirty[slot[t]]
  BY CallFields DEF Fill, TypeOK, MissInv, CallInv
<1>1. \A u \in Thread : u # t => pc[u] \in {"out", "in"}
  BY <1>0 DEF TypeOK
<1>2. TypeOK'
  <2>1. disk[disk_sector[slot[t]]] \in Value
    BY <1>0 DEF TypeOK
  <2>2. Copy(t, slot[t], disk[disk_sector[slot[t]]])
    BY DEF Fill
  <2>3. /\ buffer' \in [Slot -> Value] /\ dirty' \in [Slot -> BOOLEAN]
        /\ access' \in [Slot -> BOOLEAN] /\ result' \in [Thread -> Value \cup {NoValue}]
        /\ call' \in [Thread -> D!Call \cup {NoCall}]
        /\ pc' = [pc EXCEPT ![t] = "out"] /\ slot' = [slot EXCEPT ![t] = 0]
    BY <1>0, <2>1, <2>2, CopyTypes
  <2> QED
    BY <1>0, <1>1, <2>3, SizeAssumption DEF Fill, TypeOK
<1>3. CallInv'
  BY <1>0 DEF CallInv, TypeOK, Fill, Copy, Returns
<1>4. MissInv' /\ CloseInv'
  BY <1>0, <1>1 DEF MissInv, CloseInv, TypeOK, Fill, Copy, Returns
<1>5. CacheCoherent'
  BY <1>0, <1>1 DEF CacheCoherent, TypeOK, Fill, Copy, Returns, Holds, Filling
<1> QED
  BY <1>2, <1>3, <1>4, <1>5

THEOREM CloseEnterIInv == ASSUME IInv, NEW t \in Thread, CloseEnter(t)
                          PROVE  IInv'
<1> USE DEF IInv
<1>0. /\ pc[t] = "in" /\ call[t].op = "close"
      /\ \A u \in Thread : pc[u] \in {"out", "in"}
  BY NobodyInside DEF CloseEnter
<1>1. TypeOK'
  BY <1>0, SizeAssumption DEF CloseEnter, cache, TypeOK
<1>2. CallInv'
  BY <1>0 DEF CallInv, TypeOK, CloseEnter
<1>3. MissInv' /\ CloseInv'
  BY <1>0 DEF MissInv, CloseInv, TypeOK, CloseEnter, Slot
<1>4. CacheCoherent'
  BY <1>0 DEF CacheCoherent, TypeOK, CloseEnter, cache, Filling
<1> QED
  BY <1>1, <1>2, <1>3, <1>4

THEOREM CloseSlotIInv == ASSUME IInv, NEW t \in Thread, CloseSlot(t)
                         PROVE  IInv'
<1> USE DEF IInv
<1>0. /\ pc[t] = "closing" /\ call[t].op = "close" /\ lock = t
      /\ slot[t] \in Slot /\ slot'[t] = slot[t] + 1 /\ slot'[t] \in 0 .. BUFFER_CACHE_SIZE
      /\ \A u \in Thread : u # t => pc[u] \in {"out", "in"}
  BY SizeAssumption DEF CloseSlot, CallInv, TypeOK, Slot
<1>1. TypeOK'
  BY <1>0 DEF CloseSlot, TypeOK
<1>2. CallInv'
  BY <1>0 DEF CallInv, TypeOK, CloseSlot
<1>3. MissInv'
  BY <1>0 DEF MissInv, TypeOK, CloseSlot
<1>4. CloseInv'
  <2>1. ~(occupied'[slot[t]] /\ dirty'[slot[t]])
    BY <1>0 DEF CloseSlot, MustFlush, TypeOK
  <2>2. ASSUME NEW i \in Slot, i < slot[t] PROVE ~(occupied'[i] /\ dirty'[i])
    BY <1>0, <2>2 DEF CloseSlot, CloseInv, MustFlush, TypeOK
  <2>3. \A i \in Slot : i < slot'[t] => i < slot[t] \/ i = slot[t]
    BY <1>0 DEF Slot
  <2>4. \A u \in Thread : pc'[u] = "closing" => u = t
    BY <1>0 DEF CloseSlot
  <2> QED
    BY <2>1, <2>2, <2>3, <2>4 DEF CloseInv, MustFlush
<1>5. CacheCoherent'
  BY <1>0 DEF CacheCoherent, TypeOK, CloseSlot, MustFlush, Filling
<1> QED
  BY <1>1, <1>2, <1>3, <1>4, <1>5

THEOREM CloseDoneIInv == ASSUME IInv, NEW t \in Thread, CloseDone(t)
                         PROVE  IInv'
<1> USE DEF IInv
<1>0. /\ pc[t] = "closing" /\ lock = t
      /\ \A u \in Thread : u # t => pc[u] \in {"out", "in"}
  BY DEF CloseDone, TypeOK
<1>1. TypeOK'
  BY <1>0, SizeAssumption DEF CloseDone, Returns, cache, TypeOK
<1>2. CallInv'
  BY <1>0 DEF CallInv, TypeOK, CloseDone, Returns
<1>3. MissInv' /\ CloseInv'
  BY <1>0 DEF MissInv, CloseInv, TypeOK, CloseDone, Returns
<1>4. CacheCoherent'
  BY <1>0 DEF CacheCoherent, TypeOK, CloseDone, Returns, cache, Filling
<1> QED
  BY <1>1, <1>2, <1>3, <1>4

THEOREM StopIInv == ASSUME IInv, Stop PROVE IInv'
<1>1. (CHOOSE s \in Sector : TRUE) \in Sector /\ (CHOOSE v \in Value : TRUE) \in Value
  BY ZeroAssumption
<1>2. TypeOK'
  BY <1>1, SizeAssumption DEF Stop, IInv, TypeOK, Slot
<1>3. (CallInv /\ MissInv /\ CloseInv /\ CacheCoherent)'
  BY DEF Stop, CallInv, MissInv, CloseInv, CacheCoherent
<1> QED
  BY <1>2, <1>3 DEF IInv

THEOREM StutterIInv == IInv /\ UNCHANGED vars => IInv'
<1> SUFFICES ASSUME IInv, UNCHANGED vars PROVE IInv'
  OBVIOUS
<1>1. TypeOK'
  BY DEF IInv, TypeOK, vars, cache
<1>2. CallInv' /\ MissInv' /\ CloseInv' /\ CacheCoherent'
  BY DEF IInv, CallInv, MissInv, CloseInv, CacheCoherent, Filling, Holds, MustFlush, vars, cache
<1> QED
  BY <1>1, <1>2 DEF IInv

THEOREM NextIInv == IInv /\ [Next]_vars => IInv'
<1> SUFFICES ASSUME IInv, [Next]_vars PROVE IInv'
  OBVIOUS
<1>1. ASSUME NEW t \in Thread, NEW c \in D!Call, Begin(t, c) PROVE IInv'
  BY <1>1, BeginIInv
<1>2. ASSUME NEW t \in Thread, Step(t) PROVE IInv'
  BY <1>2, EnterIInv, FlushIInv, FillIInv, CloseEnterIInv, CloseSlotIInv, CloseDoneIInv DEF Step
<1> QED
  BY <1>1, <1>2, StopIInv, StutterIInv DEF Next

\* TypeOK is an invariant: only the thread that holds the lock evicts, fills
\* or closes, and the ASSERTs on the slot to write hold.
THEOREM TypeCorrect == Spec => []TypeOK
<1>1. IInv => TypeOK
  BY DEF IInv
<1> QED
  BY <1>1, InitIInv, NextIInv, PTL DEF Spec

\* CacheCoherent is an invariant: one slot per sector, and a clean slot holds
\* what the disk holds.
THEOREM Coherent == Spec => []CacheCoherent
<1>1. IInv => CacheCoherent
  BY DEF IInv
<1> QED
  BY <1>1, InitIInv, NextIInv, PTL DEF Spec

-----------------------------------------------------------------------------
\* Where the value of a sector is.
ContentFacts ==
    /\ Content \in [Sector -> Value]
    /\ \A s \in Sector, i \in Slot : Holds(i, s) /\ ~Filling(i) => Content[s] = buffer[i]
    /\ \A s \in Sector : (\A i \in Slot : Holds(i, s) => Filling(i)) => Content[s] = disk[s]

LEMMA ContentKnown == IInv => ContentFacts
<1> SUFFICES ASSUME IInv PROVE ContentFacts
  OBVIOUS
<1>1. \A s \in Sector, i \in Slot : Holds(i, s) /\ ~Filling(i) => Content[s] = buffer[i]
  <2> SUFFICES ASSUME NEW s \in Sector, NEW i \in Slot, Holds(i, s), ~Filling(i)
               PROVE  Content[s] = buffer[i]
    OBVIOUS
  <2>1. \A j \in Slot : Holds(j, s) => j = i
    BY DEF IInv, CacheCoherent, Holds
  <2> QED
    BY <2>1, ContentCases
<1>2. \A s \in Sector : (\A i \in Slot : Holds(i, s) => Filling(i)) => Content[s] = disk[s]
  BY ContentCases
<1>3. \A s \in Sector : Content[s] \in Value
  BY ContentCases DEF IInv, TypeOK
<1>4. Content = [s \in Sector |-> Content[s]]
  BY DEF Content
<1> QED
  BY <1>1, <1>2, <1>3, <1>4 DEF ContentFacts

LEMMA ContentKnownNext == IInv' => ContentFacts'
  BY ContentKnown, PTL

\* One function is another with one value replaced.
LEMMA ContentUpdated ==
    ASSUME Content \in [Sector -> Value], Content' \in [Sector -> Value],
           NEW s \in Sector, NEW v,
           Content'[s] = v, \A r \in Sector \ {s} : Content'[r] = Content[r]
    PROVE  Content' = [Content EXCEPT ![s] = v]
  OBVIOUS

\* A step that moves no bytes moves no content.
LEMMA ContentStays ==
    ASSUME UNCHANGED <<disk, occupied, disk_sector, buffer>>,
           \A i \in Slot : Filling(i)' <=> Filling(i)
    PROVE  Content' = Content
  BY DEF Content, Holds

THEOREM BeginRefines == ASSUME IInv, NEW t \in Thread, NEW c \in D!Call, Begin(t, c)
                        PROVE  D!Invoke(t, c)
<1>1. pc[t] = "out"
  BY DEF IInv, CallInv, Begin
<1>2. \A i \in Slot : Filling(i)' <=> Filling(i)
  BY <1>1 DEF Begin, Filling, IInv, TypeOK
<1>3. Content' = Content
  BY <1>2, ContentStays DEF Begin, cache
<1> QED
  BY <1>3 DEF Begin, D!Invoke

\* The copy into or out of the slot that holds the sector is the read or the
\* write.
LEMMA CopyRefines ==
    ASSUME IInv, IInv', NEW t \in Thread, NEW i \in Slot,
           call[t] \in D!Call, call[t].op \in {"read", "write"},
           Holds(i, call[t].sector),
           \A j \in Slot : j # i => ~Filling(j),
           \A j \in Slot : ~Filling(j)',
           UNCHANGED <<disk, occupied, disk_sector>>,
           Copy(t, i, Content[call[t].sector])
    PROVE  D!Read(t) \/ D!Write(t)
<1> DEFINE s == call[t].sector
<1>1. s \in Sector /\ call[t] # NoCall /\ ContentFacts /\ ContentFacts'
  BY CallFields, ContentKnown, ContentKnownNext
<1>2. \A r \in Sector, j \in Slot : Holds(j, r)' <=> Holds(j, r)
  BY DEF Holds
<1>3. Content'[s] = buffer'[i]
  BY <1>1, <1>2 DEF ContentFacts
<1>4. ASSUME NEW r \in Sector, r # s PROVE Content'[r] = Content[r]
  <2>1. CASE \E j \in Slot : Holds(j, r)
    <3>1. PICK j \in Slot : Holds(j, r)
      BY <2>1
    <3>2. j # i
      BY <3>1, <1>4 DEF Holds
    <3>3. buffer'[j] = buffer[j]
      BY <3>2 DEF Copy, IInv, TypeOK
    <3> QED
      BY <3>1, <3>2, <3>3, <1>1, <1>2 DEF ContentFacts
  <2>2. CASE \A j \in Slot : ~Holds(j, r)
    BY <2>2, <1>1, <1>2 DEF ContentFacts
  <2> QED
    BY <2>1, <2>2
<1>5. CASE call[t].op = "read"
  <2>1. buffer'[i] = Content[s]
    BY <1>5 DEF Copy, IInv, TypeOK
  <2>2. Content' = [Content EXCEPT ![s] = Content[s]]
    BY <1>1, <1>3, <1>4, <2>1, ContentUpdated DEF ContentFacts
  <2>3. Content' = Content
    BY <2>2, <1>1 DEF ContentFacts
  <2> QED
    BY <1>1, <1>5, <2>3 DEF Copy, Returns, D!Read, D!Return
<1>6. CASE call[t].op = "write"
  <2>1. buffer'[i] = call[t].value
    BY <1>6 DEF Copy, IInv, TypeOK
  <2>2. Content' = [Content EXCEPT ![s] = call[t].value]
    BY <1>1, <1>3, <1>4, <2>1, ContentUpdated DEF ContentFacts
  <2> QED
    BY <1>1, <1>6, <2>2 DEF Copy, Returns, D!Write, D!Return
<1> QED
  BY <1>5, <1>6

\* A slot taken for another sector held nothing the disk does not hold.
LEMMA ClaimRefines ==
    ASSUME IInv, IInv', NEW t \in Thread, NEW v \in Slot,
           call[t] \in D!Call,
           \A j \in Slot : ~Holds(j, call[t].sector),
           \A j \in Slot : ~Filling(j),
           \A r \in Sector : r # disk_sector[v] => disk'[r] = disk[r],
           occupied[v] => disk'[disk_sector[v]] = buffer[v],
           ~occupied[v] => disk' = disk,
           UNCHANGED buffer,
           Claim(t, v)
    PROVE  Content' = Content
<1> DEFINE s == call[t].sector
<1>1. s \in Sector /\ ContentFacts /\ ContentFacts'
  BY CallFields, ContentKnown, ContentKnownNext
<1>2. Filling(v)'
  BY DEF Filling, Claim, IInv, TypeOK
<1>3. \A j \in Slot : j # v => ~Filling(j)'
  BY DEF Filling, Claim, IInv, TypeOK
<1>4. \A r \in Sector, j \in Slot : j # v => (Holds(j, r)' <=> Holds(j, r))
  BY DEF Holds, Claim, IInv, TypeOK
<1>5. ASSUME NEW r \in Sector PROVE Content'[r] = Content[r]
  <2>1. CASE \E j \in Slot : j # v /\ Holds(j, r)
    BY <2>1, <1>1, <1>3, <1>4 DEF ContentFacts
  <2>2. CASE \A j \in Slot : j # v => ~Holds(j, r)
    <3>1. Content'[r] = disk'[r]
      BY <2>2, <1>1, <1>2, <1>4 DEF ContentFacts
    <3>2. CASE Holds(v, r)
      BY <3>1, <3>2, <1>1 DEF ContentFacts, Holds
    <3>3. CASE ~Holds(v, r)
      <4>1. Content[r] = disk[r]
        BY <3>3, <2>2, <1>1 DEF ContentFacts
      <4>2. disk'[r] = disk[r]
        BY <3>3 DEF Holds
      <4> QED
        BY <3>1, <4>1, <4>2
    <3> QED
      BY <3>2, <3>3
  <2> QED
    BY <2>1, <2>2
<1> QED
  BY <1>1, <1>5 DEF ContentFacts

THEOREM EnterRefines == ASSUME IInv, IInv', NEW t \in Thread, Enter(t)
                        PROVE  D!Read(t) \/ D!Write(t) \/ UNCHANGED D!vars
<1>0. /\ pc[t] = "in" /\ call[t] \in D!Call /\ call[t].op \in {"read", "write"}
      /\ call[t].sector \in Sector
      /\ \A u \in Thread : pc[u] \in {"out", "in"}
      /\ \A i \in Slot : ~Filling(i)
  BY CallFields, NobodyInside DEF Enter, IInv, CallInv, TypeOK, Filling
<1>1. CASE \E i \in Hit(call[t].sector) : Copy(t, i, buffer[i])
                /\ UNCHANGED <<disk, occupied, disk_sector, clock, lock>>
  <2> PICK i \in Hit(call[t].sector) : Copy(t, i, buffer[i])
                /\ UNCHANGED <<disk, occupied, disk_sector, clock, lock>>
    BY <1>1
  <2>1. i \in Slot /\ Holds(i, call[t].sector)
    BY DEF Hit
  <2>2. Content[call[t].sector] = buffer[i]
    BY <1>0, <2>1, ContentKnown DEF ContentFacts
  <2>3. \A j \in Slot : ~Filling(j)'
    BY <1>0 DEF Filling, Copy, Returns, IInv, TypeOK
  <2> QED
    BY <1>0, <2>1, <2>2, <2>3, CopyRefines
<1>2. ASSUME NEW v \in Slot, MustFlush(v), pc' = [pc EXCEPT ![t] = "flush"],
             UNCHANGED <<disk, buffer, call, result, occupied, disk_sector, dirty>>
      PROVE  UNCHANGED D!vars
  <2>1. \A i \in Slot : Filling(i)' <=> Filling(i)
    BY <1>0, <1>2 DEF Filling, IInv, TypeOK
  <2> QED
    BY <1>2, <2>1, ContentStays DEF D!vars
<1>3. ASSUME NEW v \in Slot, ~MustFlush(v), Hit(call[t].sector) = {}, Claim(t, v),
             UNCHANGED <<disk, buffer, call, result>>
      PROVE  UNCHANGED D!vars
  <2>1. occupied[v] => disk'[disk_sector[v]] = buffer[v]
    BY <1>0, <1>3 DEF MustFlush, IInv, CacheCoherent
  <2>2. \A j \in Slot : ~Holds(j, call[t].sector)
    BY <1>3 DEF Hit
  <2>3. Content' = Content
    BY <1>0, <1>3, <2>1, <2>2, ClaimRefines
  <2> QED
    BY <1>3, <2>3 DEF D!vars
<1>4. CASE Hit(call[t].sector) = {} /\ ~\E i \in Hit(call[t].sector) : Copy(t, i, buffer[i])
  <2>1. PICK d \in 0 .. BUFFER_CACHE_SIZE :
             /\ \/ /\ MustFlush(At(d))
                   /\ pc' = [pc EXCEPT ![t] = "flush"]
                   /\ UNCHANGED <<occupied, disk_sector, dirty>>
                \/ /\ ~MustFlush(At(d))
                   /\ Claim(t, At(d))
             /\ UNCHANGED <<disk, buffer, call, result>>
    BY <1>4 DEF Enter
  <2>2. At(d) \in Slot
    BY AtInSlot DEF IInv
  <2> QED
    BY <1>2, <1>3, <1>4, <2>1, <2>2
<1> QED
  BY <1>1, <1>4 DEF Enter

THEOREM FlushRefines == ASSUME IInv, IInv', NEW t \in Thread, Flush(t)
                        PROVE  \E s \in Sector : D!Save(s)
<1> DEFINE v == slot[t]
           s == disk_sector[v]
<1>0. /\ pc[t] = "flush" /\ lock = t /\ v \in Slot /\ occupied[v] /\ s \in Sector
      /\ call[t] \in D!Call
      /\ \A i \in Slot : ~Holds(i, call[t].sector)
  BY DEF Flush, IInv, TypeOK, MissInv, CallInv
<1>1. \A i \in Slot : ~Filling(i)
  BY <1>0 DEF IInv, TypeOK, Filling
<1>2. disk' = [disk EXCEPT ![s] = buffer[v]] /\ disk \in [Sector -> Value]
  BY DEF Flush, IInv, TypeOK
<1>3. Content' = Content
  BY <1>0, <1>1, <1>2, ClaimRefines DEF Flush
<1>4. Content[s] = buffer[v]
  BY <1>0, <1>1, ContentKnown DEF ContentFacts, Holds
<1> QED
  BY <1>0, <1>2, <1>3, <1>4 DEF D!Save, Flush

THEOREM FillRefines == ASSUME IInv, IInv', NEW t \in Thread, Fill(t)
                       PROVE  D!Read(t) \/ D!Write(t)
<1> DEFINE v == slot[t]
<1>0. /\ pc[t] = "fill" /\ lock = t /\ v \in Slot /\ Holds(v, call[t].sector)
      /\ call[t] \in D!Call /\ call[t].op \in {"read", "write"} /\ call[t].sector \in Sector
  BY CallFields DEF Fill, IInv, TypeOK, MissInv, CallInv
<1>1. \A u \in Thread : u # t => pc[u] \in {"out", "in"}
  BY <1>0 DEF IInv, TypeOK
<1>2. \A j \in Slot : j # v => ~Filling(j)
  BY <1>1 DEF Filling
<1>3. \A j \in Slot : ~Filling(j)'
  BY <1>1 DEF Filling, Fill, Copy, Returns, IInv, TypeOK
<1>4. Content[call[t].sector] = disk[disk_sector[v]]
  <2>1. \A j \in Slot : Holds(j, call[t].sector) => j = v
    BY <1>0 DEF IInv, CacheCoherent, Holds
  <2>2. Filling(v) /\ disk_sector[v] = call[t].sector
    BY <1>0 DEF Filling, Holds
  <2> QED
    BY <1>0, <2>1, <2>2, ContentKnown DEF ContentFacts
<1> QED
  BY <1>0, <1>2, <1>3, <1>4, CopyRefines DEF Fill

THEOREM CloseSlotRefines == ASSUME IInv, IInv', NEW t \in Thread, CloseSlot(t)
                            PROVE  (\E s \in Sector : D!Save(s)) \/ UNCHANGED D!vars
<1> DEFINE v == slot[t]
           s == disk_sector[v]
<1>0. /\ pc[t] = "closing" /\ lock = t /\ v \in Slot /\ s \in Sector
      /\ disk \in [Sector -> Value]
  BY SizeAssumption DEF CloseSlot, IInv, TypeOK, Slot
<1>1. \A i \in Slot : ~Filling(i) /\ ~Filling(i)'
  BY <1>0 DEF IInv, TypeOK, Filling, CloseSlot
<1>2. CASE MustFlush(v)
  <2>1. disk' = [disk EXCEPT ![s] = buffer[v]]
    BY <1>2 DEF CloseSlot
  <2>2. \A i \in Slot, r \in Sector : Holds(i, r)' <=> Holds(i, r)
    BY DEF Holds, CloseSlot
  <2>3. ContentFacts /\ ContentFacts'
    BY ContentKnown, ContentKnownNext
  <2>4. Content[s] = buffer[v] /\ Holds(v, s)
    BY <1>0, <1>1, <1>2, <2>3 DEF ContentFacts, MustFlush, Holds
  <2>5. ASSUME NEW r \in Sector PROVE Content'[r] = Content[r]
    <3>1. CASE \E i \in Slot : Holds(i, r)
      BY <3>1, <1>1, <2>2, <2>3 DEF ContentFacts, CloseSlot
    <3>2. CASE \A i \in Slot : ~Holds(i, r)
      <4>1. Content[r] = disk[r] /\ Content'[r] = disk'[r]
        BY <3>2, <2>2, <2>3 DEF ContentFacts
      <4>2. r # s
        BY <3>2, <2>4, <1>0
      <4> QED
        BY <4>1, <4>2, <2>1, <1>0
    <3> QED
      BY <3>1, <3>2
  <2>6. Content' = Content
    BY <2>3, <2>5 DEF ContentFacts
  <2> QED
    BY <1>0, <2>1, <2>4, <2>6 DEF D!Save, CloseSlot
<1>3. CASE ~MustFlush(v)
  BY <1>1, <1>3, ContentStays DEF CloseSlot, D!vars
<1> QED
  BY <1>2, <1>3

THEOREM CloseDoneRefines == ASSUME IInv, NEW t \in Thread, CloseDone(t)
                            PROVE  D!Close(t)
<1>0. /\ pc[t] = "closing" /\ lock = t /\ slot[t] = BUFFER_CACHE_SIZE
      /\ call[t] # NoCall /\ call[t].op = "close"
      /\ \A u \in Thread : u # t => pc[u] \in {"out", "in"}
  BY DEF CloseDone, IInv, TypeOK, CallInv
<1>1. \A i \in Slot : ~Filling(i) /\ ~Filling(i)'
  BY <1>0 DEF Filling, CloseDone, Returns, IInv, TypeOK
<1>2. Content' = Content
  BY <1>1, ContentStays DEF CloseDone, cache
<1>3. \A i \in Slot : i < slot[t]
  BY <1>0, SizeAssumption DEF Slot
<1>4. \A i \in Slot, s \in Sector : Holds(i, s) => buffer[i] = disk[s]
  BY <1>0, <1>1, <1>3 DEF IInv, CloseInv, CacheCoherent, MustFlush, Holds
<1>5. \A s \in Sector : Content[s] = disk[s]
  BY <1>4, ContentCases
<1>6. disk = Content
  BY <1>5, ContentKnown DEF ContentFacts, IInv, TypeOK
<1> QED
  BY <1>0, <1>2, <1>6 DEF CloseDone, Returns, D!Close, D!Return

THEOREM StopRefines == ASSUME IInv, IInv', Stop PROVE D!Stop
<1>1. \A i \in Slot, s \in Sector : ~Holds(i, s)'
  BY DEF Stop, Holds
<1>2. \A s \in Sector : Content'[s] = disk'[s]
  BY <1>1, ContentKnownNext DEF ContentFacts
<1>3. Content' = disk
  BY <1>2, ContentKnownNext DEF ContentFacts, IInv, TypeOK, Stop
<1> QED
  BY <1>3 DEF Stop, D!Stop

THEOREM NextRefines == IInv /\ IInv' /\ [Next]_vars => [D!Next]_(D!vars)
<1> SUFFICES ASSUME IInv, IInv', [Next]_vars PROVE [D!Next]_(D!vars)
  OBVIOUS
<1>1. ASSUME NEW t \in Thread, NEW c \in D!Call, Begin(t, c) PROVE D!Next
  BY <1>1, BeginRefines DEF D!Next
<1>2. ASSUME NEW t \in Thread, CloseEnter(t) PROVE UNCHANGED D!vars
  <2>1. \A i \in Slot : Filling(i)' <=> Filling(i)
    BY <1>2 DEF CloseEnter, Filling, IInv, TypeOK
  <2> QED
    BY <1>2, <2>1, ContentStays DEF CloseEnter, cache, D!vars
<1>3. ASSUME NEW t \in Thread, Step(t) PROVE [D!Next]_(D!vars)
  BY <1>2, <1>3, EnterRefines, FlushRefines, FillRefines, CloseSlotRefines, CloseDoneRefines
     DEF Step, D!Next
<1>4. ASSUME UNCHANGED vars PROVE UNCHANGED D!vars
  <2>1. \A i \in Slot : Filling(i)' <=> Filling(i)
    BY <1>4 DEF Filling, vars
  <2> QED
    BY <1>4, <2>1, ContentStays DEF vars, cache, D!vars
<1> QED
  BY <1>1, <1>3, <1>4, StopRefines DEF Next, D!Next

THEOREM InitRefines == Init => D!Init
<1> SUFFICES ASSUME Init PROVE D!Init
  OBVIOUS
<1>1. IInv
  BY InitIInv
<1>2. \A s \in Sector : Content[s] = disk[s]
  BY <1>1, ContentKnown DEF Init, Booted, ContentFacts, Holds
<1>3. Content = disk
  BY <1>1, <1>2, ContentKnown DEF ContentFacts, IInv, TypeOK
<1> QED
  BY <1>1, <1>3, ContentKnown DEF ContentFacts, D!Init, Init, Booted

\* StorageRefined holds of every behaviour: the cache reads and writes as the
\* disk would, saves everything when it is closed, and what a stopped machine
\* keeps was once written.
THEOREM CacheIsDisk == Spec => StorageRefined
<1>1. Spec => []IInv
  BY InitIInv, NextIInv, PTL DEF Spec
<1> QED
  BY <1>1, InitRefines, NextRefines, PTL DEF Spec, StorageRefined, D!Spec

=============================================================================
