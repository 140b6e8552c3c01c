------------------------------ MODULE BufferCache ------------------------------
(* The buffer cache of the Lab3 file system (filesys/cache.c): a fixed number *)
(* of slots over the disk, one lock around every operation, eviction by the   *)
(* clock algorithm, write-back of dirty slots at eviction and at close only.  *)
(*                                                                            *)
(* A thread gives the processor up where it waits for the lock or for the     *)
(* disk: a step is what it does between two such points, the transfer it      *)
(* waited for included.  The machine may stop between any two steps.          *)
EXTENDS Integers

CONSTANTS
    BUFFER_CACHE_SIZE,
    Thread,
    Sector,
    Value,
    Calls,          \* Calls[t]: the operations thread t calls
    Nobody, NoCall, NoValue

ASSUME SizeAssumption == BUFFER_CACHE_SIZE \in Nat \ {0}
ASSUME NobodyAssumption == Nobody \notin Thread
ASSUME ZeroAssumption == Sector # {} /\ Value # {}

VARIABLES
    disk,           \* disk[s]: what the device holds
    occupied, disk_sector, buffer, dirty, access,   \* cache[i].occupied, ...
    clock,          \* the hand
    lock,           \* the holder of buffer_cache_lock
    pc,             \* pc[t]: where t is in its call
    slot,           \* slot[t]: the slot t evicts, fills or flushes
    call, result    \* as in Disk
cache == <<occupied, disk_sector, buffer, dirty, access>>
vars == <<disk, cache, clock, lock, pc, slot, call, result>>

Slot == 0 .. BUFFER_CACHE_SIZE - 1

\* What is read and written through the cache.
Filling(i) == \E t \in Thread : pc[t] = "fill" /\ slot[t] = i
Holds(i, s) == occupied[i] /\ disk_sector[i] = s
Content == [s \in Sector |->
    IF \E i \in Slot : Holds(i, s) /\ ~Filling(i)
    THEN buffer[CHOOSE i \in Slot : Holds(i, s) /\ ~Filling(i)]
    ELSE disk[s]]

D == INSTANCE Disk WITH content <- Content, durable <- disk

ASSUME NoCallAssumption == NoCall \notin D!Call

-----------------------------------------------------------------------------
\* buffer_cache_lookup().
Hit(s) == {i \in Slot : Holds(i, s)}

\* The clock algorithm: how far the hand goes, and where it takes a slot.  A
\* slot it passes loses its access bit, so that after one round the slot it
\* started from is taken.
At(d) == (clock + d) % BUFFER_CACHE_SIZE
Passes(d) == \A e \in 0 .. d - 1 : occupied[At(e)] /\ access[At(e)]
HandStops(d) == /\ Passes(d)
                /\ d = BUFFER_CACHE_SIZE \/ ~Passes(d + 1)
Passed(i, d) == \E e \in 0 .. d - 1 : i = At(e)

\* Faulty: evicts without a look at the dirty bit.
NeverDirty(i) == FALSE
\* What an eviction or a close has to write.
MustFlush(i) == occupied[i] /\ dirty[i]

\* Faulty: no lock.
NoLock == TRUE
\* lock_acquire() returns.
LockFree == lock = Nobody

Returns(t) ==
    /\ call' = [call EXCEPT ![t] = NoCall]
    /\ pc' = [pc EXCEPT ![t] = "out"]
    /\ slot' = [slot EXCEPT ![t] = 0]

\* The copy to or from the slot that ends buffer_cache_read() and
\* buffer_cache_write().  What the slot holds before it is in bytes.
Copy(t, i, bytes) ==
    /\ IF call[t].op = "write"
       THEN /\ buffer' = [buffer EXCEPT ![i] = call[t].value]
            /\ dirty' = [dirty EXCEPT ![i] = TRUE]
            /\ UNCHANGED result
       ELSE /\ buffer' = [buffer EXCEPT ![i] = bytes]
            /\ result' = [result EXCEPT ![t] = bytes]
            /\ UNCHANGED dirty
    /\ access' = [access EXCEPT ![i] = TRUE]
    /\ Returns(t)

\* The slot gets its new sector before it gets its bytes.
Claim(t, i) ==
    /\ occupied' = [occupied EXCEPT ![i] = TRUE]
    /\ disk_sector' = [disk_sector EXCEPT ![i] = call[t].sector]
    /\ dirty' = [dirty EXCEPT ![i] = FALSE]
    /\ slot' = [slot EXCEPT ![t] = i]
    /\ pc' = [pc EXCEPT ![t] = "fill"]

-----------------------------------------------------------------------------
Begin(t, c) ==
    /\ call[t] = NoCall /\ c.op \in Calls[t]
    /\ call' = [call EXCEPT ![t] = c]
    /\ pc' = [pc EXCEPT ![t] = "in"]
    /\ result' = [result EXCEPT ![t] = NoValue]
    /\ UNCHANGED <<disk, cache, clock, lock, slot>>

\* Gets the lock and looks the sector up.  A hit is served at once; a miss
\* moves the hand, and takes its slot unless that must be written back first.
Enter(t) ==
    /\ pc[t] = "in" /\ LockFree /\ call[t].op # "close"
    /\ \/ /\ \E i \in Hit(call[t].sector) : Copy(t, i, buffer[i])
          /\ UNCHANGED <<disk, occupied, disk_sector, clock, lock>>
       \/ /\ Hit(call[t].sector) = {}
          /\ \E d \in 0 .. BUFFER_CACHE_SIZE :
             /\ HandStops(d)
             /\ access' = [i \in Slot |-> access[i] /\ ~Passed(i, d)]
             /\ clock' = At(d)
             /\ \/ /\ MustFlush(At(d))
                   /\ slot' = [slot EXCEPT ![t] = At(d)]
                   /\ pc' = [pc EXCEPT ![t] = "flush"]
                   /\ UNCHANGED <<occupied, disk_sector, dirty>>
                \/ /\ ~MustFlush(At(d))
                   /\ Claim(t, At(d))
          /\ lock' = t
          /\ UNCHANGED <<disk, buffer, call, result>>

\* buffer_cache_flush() for the eviction.
Flush(t) ==
    /\ pc[t] = "flush"
    /\ disk' = [disk EXCEPT ![disk_sector[slot[t]]] = buffer[slot[t]]]
    /\ Claim(t, slot[t])
    /\ UNCHANGED <<buffer, access, clock, lock, call, result>>

\* Faulty: the miss path returns without lock_release().
FillKeepsLock(t) ==
    /\ pc[t] = "fill"
    /\ Copy(t, slot[t], disk[disk_sector[slot[t]]])
    /\ UNCHANGED <<disk, occupied, disk_sector, clock, lock>>
\* block_read() into the slot, the copy, and the release of the lock.
Fill(t) ==
    /\ pc[t] = "fill"
    /\ Copy(t, slot[t], disk[disk_sector[slot[t]]])
    /\ lock' = Nobody
    /\ UNCHANGED <<disk, occupied, disk_sector, clock>>

\* buffer_cache_close() ...
CloseEnter(t) ==
    /\ pc[t] = "in" /\ LockFree /\ call[t].op = "close"
    /\ lock' = t
    /\ slot' = [slot EXCEPT ![t] = 0]
    /\ pc' = [pc EXCEPT ![t] = "closing"]
    /\ UNCHANGED <<disk, cache, clock, call, result>>

\* ... goes through the slots, one write at a time ...
CloseSlot(t) ==
    /\ pc[t] = "closing" /\ slot[t] < BUFFER_CACHE_SIZE
    /\ \/ /\ MustFlush(slot[t])
          /\ disk' = [disk EXCEPT ![disk_sector[slot[t]]] = buffer[slot[t]]]
          /\ dirty' = [dirty EXCEPT ![slot[t]] = FALSE]
       \/ /\ ~MustFlush(slot[t])
          /\ UNCHANGED <<disk, dirty>>
    /\ slot' = [slot EXCEPT ![t] = @ + 1]
    /\ UNCHANGED <<occupied, disk_sector, buffer, access, clock, lock, pc, call, result>>

\* ... and releases the lock.
CloseDone(t) ==
    /\ pc[t] = "closing" /\ slot[t] = BUFFER_CACHE_SIZE
    /\ lock' = Nobody
    /\ Returns(t)
    /\ UNCHANGED <<disk, cache, clock, result>>

\* The memory after a boot: static variables are zero, buffer_cache_init().
Booted ==
    /\ occupied = [i \in Slot |-> FALSE]
    /\ disk_sector = [i \in Slot |-> CHOOSE s \in Sector : TRUE]
    /\ buffer = [i \in Slot |-> CHOOSE v \in Value : TRUE]
    /\ dirty = [i \in Slot |-> FALSE]
    /\ access = [i \in Slot |-> FALSE]
    /\ clock = 0
    /\ lock = Nobody
    /\ pc = [t \in Thread |-> "out"]
    /\ slot = [t \in Thread |-> 0]
    /\ call = [t \in Thread |-> NoCall]
    /\ result = [t \in Thread |-> NoValue]

\* The machine stops, by a PANIC or for want of power, and boots.
Stop ==
    /\ occupied' = [i \in Slot |-> FALSE]
    /\ disk_sector' = [i \in Slot |-> CHOOSE s \in Sector : TRUE]
    /\ buffer' = [i \in Slot |-> CHOOSE v \in Value : TRUE]
    /\ dirty' = [i \in Slot |-> FALSE]
    /\ access' = [i \in Slot |-> FALSE]
    /\ clock' = 0
    /\ lock' = Nobody
    /\ pc' = [t \in Thread |-> "out"]
    /\ slot' = [t \in Thread |-> 0]
    /\ call' = [t \in Thread |-> NoCall]
    /\ result' = [t \in Thread |-> NoValue]
    /\ UNCHANGED disk

Init ==
    /\ disk \in [Sector -> Value]
    /\ Booted

Step(t) == Enter(t) \/ Flush(t) \/ Fill(t) \/ CloseEnter(t) \/ CloseSlot(t) \/ CloseDone(t)

Next == (\E t \in Thread : (\E c \in D!Call : Begin(t, c)) \/ Step(t)) \/ Stop

Spec == Init /\ [][Next]_vars
\* The disk answers; the waiters of the lock are taken in turn, so that one
\* that finds the lock free again and again gets it.
FairSpec ==
    /\ Spec
    /\ \A t \in Thread : /\ WF_vars(Flush(t) \/ Fill(t) \/ CloseSlot(t) \/ CloseDone(t))
                          /\ SF_vars(Enter(t) \/ CloseEnter(t))

-----------------------------------------------------------------------------
\* Types, and what the ASSERTs of buffer_cache_flush() and
\* buffer_cache_evict() say: only the holder of the lock gets that far, one
\* thread at a time, and what an eviction flushes is a slot in use.
TypeOK ==
    /\ disk \in [Sector -> Value]
    /\ occupied \in [Slot -> BOOLEAN]
    /\ disk_sector \in [Slot -> Sector]
    /\ buffer \in [Slot -> Value]
    /\ dirty \in [Slot -> BOOLEAN]
    /\ access \in [Slot -> BOOLEAN]
    /\ clock \in Slot
    /\ lock \in Thread \cup {Nobody}
    /\ pc \in [Thread -> {"out", "in", "flush", "fill", "closing"}]
    /\ slot \in [Thread -> 0 .. BUFFER_CACHE_SIZE]
    /\ call \in [Thread -> D!Call \cup {NoCall}]
    /\ result \in [Thread -> Value \cup {NoValue}]
    /\ \A t \in Thread :
        /\ pc[t] \in {"flush", "fill", "closing"} => lock = t
        /\ pc[t] \in {"flush", "fill"} => slot[t] \in Slot /\ occupied[slot[t]]

\* However calls meet, no sector is in two slots, and a slot that is neither
\* dirty nor being filled has what the disk has: losing it loses nothing.
CacheCoherent ==
    /\ \A i, j \in Slot : occupied[i] /\ occupied[j] /\ disk_sector[i] = disk_sector[j] => i = j
    /\ \A i \in Slot : occupied[i] /\ ~dirty[i] /\ ~Filling(i) => buffer[i] = disk[disk_sector[i]]

\* The cache is a disk: what is read is what was last written, whatever was
\* evicted in between; a close returns when all of it is saved; a machine
\* that stops keeps for each sector the last value saved.
StorageRefined == D!Spec

\* Every call on the cache returns.
CallReturns == \A t \in Thread : call[t] # NoCall ~> call[t] = NoCall

=============================================================================
