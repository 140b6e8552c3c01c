---------------------------- MODULE KernelProofs ----------------------------
(***************************************************************************)
(* Proofs about the Lab2 kernel, for any finite set of threads, any        *)
(* semaphores, locks and conditions, and any range of priorities.          *)
(*                                                                         *)
(* The lists: insertion keeps a list sorted and its members distinct, and  *)
(* popping takes the greatest one.                                         *)
(*                                                                         *)
(* The types: each variable keeps its type, and each thread is at a point  *)
(* that the call it is inside of has.                                      *)
(*                                                                         *)
(* The locks: the holder is written outside the atomic operations on the   *)
(* lock's semaphore, so the invariant counts the threads on either side of *)
(* those writes (Between) as owners; a semaphore of value 1 then has none, *)
(* which is what makes the next semaphore_down() safe.                     *)
(*                                                                         *)
(* Which thread is on which list: the links of a thread agree with its     *)
(* state and with the point it has reached, the lists stay in priority     *)
(* order, semaphore_up() wakes a waiter of the highest priority and no     *)
(* wakeup is lost.  thread_create() needs its own part, since it unblocks  *)
(* a thread that others could have touched meanwhile (ChildUntouched).     *)
(***************************************************************************)
EXTENDS KernelSafety, FiniteSetTheorems, TLAPS

\* Every nonempty set of naturals has a least element: the segments 0..k of
\* its elements are finite, and strict inclusion is well founded on them.
LEMMA LeastNatural ==
    ASSUME NEW S \in SUBSET Nat, S # {}
    PROVE  \E m \in S : \A n \in S : m <= n
<1> DEFINE Segments == {0 .. k : k \in S}
<1>1. Segments \subseteq FiniteSubsetsOf(Nat)
  <2> SUFFICES ASSUME NEW k \in S PROVE 0 .. k \in FiniteSubsetsOf(Nat)
    OBVIOUS
  <2>1. IsFiniteSet(0 .. k) BY FS_Interval
  <2> QED BY <2>1 DEF FiniteSubsetsOf
<1>2. Segments # {} OBVIOUS
<1>3. \E x \in Segments : \A y \in Segments : ~(<<y, x>> \in StrictSubsetOrdering(Nat))
  <2> HIDE DEF Segments
  <2> QED BY <1>1, <1>2, FS_StrictSubsetOrderingWellFounded, WFMin
<1>4. PICK m \in S : \A n \in S : ~(<<0 .. n, 0 .. m>> \in StrictSubsetOrdering(Nat))
  BY <1>3
<1>5. ASSUME NEW n \in S, n < m PROVE FALSE
  <2>1. 0 .. n \subseteq 0 .. m BY <1>5
  <2>2. m \in 0 .. m /\ m \notin 0 .. n BY <1>5
  <2>3. <<0 .. n, 0 .. m>> \in StrictSubsetOrdering(Nat)
    BY <2>1, <2>2 DEF StrictSubsetOrdering
  <2> QED BY <1>4, <2>3
<1> QED BY <1>5

-----------------------------------------------------------------------------
\* list_insert_ordered() always finds a place.
LEMMA InsertIndexExists ==
    ASSUME NEW S, NEW list \in Seq(S), NEW e, NEW pri
    PROVE  \E k \in 1 .. Len(list) + 1 : IsInsertIndex(k, list, e, pri)
<1> DEFINE Later == {k \in 1 .. Len(list) : Before(e, list[k], pri)}
<1>1. CASE Later = {}
  <2>1. IsInsertIndex(Len(list) + 1, list, e, pri) BY <1>1 DEF IsInsertIndex
  <2> QED BY <2>1
<1>2. CASE Later # {}
  <2>1. PICK m \in Later : \A n \in Later : m <= n
    <3>1. Later \in SUBSET Nat OBVIOUS
    <3> HIDE DEF Later
    <3> QED BY <3>1, <1>2, LeastNatural
  <2>2. IsInsertIndex(m, list, e, pri) BY <2>1 DEF IsInsertIndex
  <2> QED BY <2>1, <2>2
<1> QED BY <1>1, <1>2

\* list_insert_ordered() links the element in at such a place.
LEMMA InsertOrderedIsInsert ==
    ASSUME NEW S, NEW list \in Seq(S), NEW e \in S, NEW pri
    PROVE  \E k \in 1 .. Len(list) + 1 :
               /\ IsInsertIndex(k, list, e, pri)
               /\ InsertOrdered(list, e, pri) = InsertBefore(k, list, e)
BY InsertIndexExists DEF InsertOrdered

LEMMA InsertOrderedType ==
    ASSUME NEW S, NEW list \in Seq(S), NEW e \in S, NEW pri
    PROVE  /\ InsertOrdered(list, e, pri) \in Seq(S)
           /\ Len(InsertOrdered(list, e, pri)) = Len(list) + 1
           /\ InsertOrdered(list, e, pri) # << >>
<1>1. PICK k \in 1 .. Len(list) + 1 : InsertOrdered(list, e, pri) = InsertBefore(k, list, e)
  BY InsertOrderedIsInsert
<1>2. InsertBefore(k, list, e) \in [1 .. Len(list) + 1 -> S] BY DEF InsertBefore
<1> QED BY <1>1, <1>2

\* The new element joins the members and no other does.
LEMMA InsertOrderedMembers ==
    ASSUME NEW S, NEW list \in Seq(S), NEW e \in S, NEW pri
    PROVE  Members(InsertOrdered(list, e, pri)) = Members(list) \cup {e}
<1>1. PICK k \in 1 .. Len(list) + 1 : InsertOrdered(list, e, pri) = InsertBefore(k, list, e)
  BY InsertOrderedIsInsert
<1> DEFINE new == InsertBefore(k, list, e)
<1>2. new \in [1 .. Len(list) + 1 -> S] /\ Len(new) = Len(list) + 1
  BY DEF InsertBefore
<1>3. ASSUME NEW x \in Members(new) PROVE x \in Members(list) \cup {e}
  <2>1. PICK i \in 1 .. Len(list) + 1 : x = new[i] BY <1>2, <1>3 DEF Members
  <2>2. CASE i < k
    <3>1. x = list[i] /\ i \in 1 .. Len(list) BY <2>1, <2>2 DEF InsertBefore
    <3> QED BY <3>1 DEF Members
  <2>3. CASE i = k BY <2>1, <2>3 DEF InsertBefore
  <2>4. CASE i > k
    <3>1. x = list[i - 1] /\ i - 1 \in 1 .. Len(list) BY <2>1, <2>4 DEF InsertBefore
    <3> QED BY <3>1 DEF Members
  <2> QED BY <2>2, <2>3, <2>4
<1>4. e \in Members(new)
  <2>1. new[k] = e BY DEF InsertBefore
  <2> QED BY <1>2, <2>1 DEF Members
<1>5. ASSUME NEW x \in Members(list) PROVE x \in Members(new)
  <2>1. PICK i \in 1 .. Len(list) : list[i] = x BY <1>5 DEF Members
  <2>2. CASE i < k
    <3>1. new[i] = x BY <2>1, <2>2 DEF InsertBefore
    <3> QED BY <1>2, <3>1 DEF Members
  <2>3. CASE i >= k
    <3>1. new[i + 1] = x BY <2>1, <2>3 DEF InsertBefore
    <3> QED BY <1>2, <3>1 DEF Members
  <2> QED BY <2>2, <2>3
<1> QED BY <1>1, <1>3, <1>4, <1>5

\* A list on which the element is not yet stays free of repetitions.
LEMMA InsertOrderedLinear ==
    ASSUME NEW S, NEW list \in Seq(S), NEW e \in S, NEW pri,
           Linear(list), e \notin Members(list)
    PROVE  Linear(InsertOrdered(list, e, pri))
<1>1. PICK k \in 1 .. Len(list) + 1 : InsertOrdered(list, e, pri) = InsertBefore(k, list, e)
  BY InsertOrderedIsInsert
<1> DEFINE new == InsertBefore(k, list, e)
<1>2. Len(new) = Len(list) + 1 BY DEF InsertBefore
<1>3. \A i \in 1 .. Len(list) : list[i] # e BY DEF Members
<1>4. ASSUME NEW i \in 1 .. Len(new), NEW j \in 1 .. Len(new), i < j, new[i] = new[j]
      PROVE FALSE
  <2>1. CASE j < k BY <1>2, <1>4, <2>1 DEF InsertBefore, Linear
  <2>2. CASE j = k BY <1>2, <1>3, <1>4, <2>2 DEF InsertBefore
  <2>3. CASE j > k /\ i = k BY <1>2, <1>3, <1>4, <2>3 DEF InsertBefore
  <2>4. CASE j > k /\ i < k
    <3>1. new[i] = list[i] /\ new[j] = list[j - 1] BY <1>2, <1>4, <2>4 DEF InsertBefore
    <3>2. i \in 1 .. Len(list) /\ j - 1 \in 1 .. Len(list) /\ i # j - 1
      BY <1>2, <1>4, <2>4
    <3> QED BY <1>4, <3>1, <3>2 DEF Linear
  <2>5. CASE j > k /\ i > k
    <3>1. new[i] = list[i - 1] /\ new[j] = list[j - 1] BY <1>2, <1>4, <2>5 DEF InsertBefore
    <3>2. i - 1 \in 1 .. Len(list) /\ j - 1 \in 1 .. Len(list) /\ i - 1 # j - 1
      BY <1>2, <1>4, <2>5
    <3> QED BY <1>4, <3>1, <3>2 DEF Linear
  <2> QED BY <2>1, <2>2, <2>3, <2>4, <2>5, <1>2
<1> QED BY <1>1, <1>2, <1>4 DEF Linear

\* A sorted list stays sorted: everything from the place on has a smaller
\* priority, everything before it a priority at least as great.
LEMMA InsertOrderedSorted ==
    ASSUME NEW S, NEW list \in Seq(S), NEW e \in S, NEW pri \in [S -> Int],
           Sorted(list, pri)
    PROVE  Sorted(InsertOrdered(list, e, pri), pri)
<1>1. PICK k \in 1 .. Len(list) + 1 :
          /\ IsInsertIndex(k, list, e, pri)
          /\ InsertOrdered(list, e, pri) = InsertBefore(k, list, e)
  BY InsertOrderedIsInsert
<1> DEFINE new == InsertBefore(k, list, e)
<1>2. Len(new) = Len(list) + 1 BY DEF InsertBefore
<1>3. \A i \in 1 .. Len(list) : list[i] \in S /\ pri[list[i]] \in Int
  OBVIOUS
<1>4. \A i \in 1 .. k - 1 : pri[list[i]] >= pri[e]
  BY <1>1, <1>3 DEF IsInsertIndex, Before
<1>5. \A i \in k .. Len(list) : pri[list[i]] <= pri[e]
  <2> SUFFICES ASSUME NEW i \in k .. Len(list) PROVE pri[list[i]] <= pri[e]
    OBVIOUS
  <2>1. pri[list[k]] < pri[e] BY <1>1, <1>3 DEF IsInsertIndex, Before
  <2>2. pri[list[i]] <= pri[list[k]] BY <1>3 DEF Sorted
  <2> QED BY <1>3, <2>1, <2>2
<1>6. ASSUME NEW i \in 1 .. Len(new), NEW j \in 1 .. Len(new), i < j
      PROVE  pri[new[i]] >= pri[new[j]]
  <2>1. CASE j < k
    <3>1. new[i] = list[i] /\ new[j] = list[j] BY <1>2, <1>6, <2>1 DEF InsertBefore
    <3>2. i \in 1 .. Len(list) /\ j \in 1 .. Len(list) BY <1>2, <1>6, <2>1
    <3> QED BY <1>6, <3>1, <3>2 DEF Sorted
  <2>2. CASE j = k BY <1>2, <1>4, <1>6, <2>2 DEF InsertBefore
  <2>3. CASE j > k /\ i = k BY <1>2, <1>5, <1>6, <2>3 DEF InsertBefore
  <2>4. CASE j > k /\ i < k
    <3>1. new[i] = list[i] /\ new[j] = list[j - 1] BY <1>2, <1>6, <2>4 DEF InsertBefore
    <3>2. pri[list[i]] >= pri[e] /\ pri[list[j - 1]] <= pri[e]
      BY <1>2, <1>4, <1>5, <1>6, <2>4
    <3>3. i \in 1 .. Len(list) /\ j - 1 \in 1 .. Len(list) BY <1>2, <1>6, <2>4
    <3> QED BY <1>3, <3>1, <3>2, <3>3
  <2>5. CASE j > k /\ i > k
    <3>1. new[i] = list[i - 1] /\ new[j] = list[j - 1] BY <1>2, <1>6, <2>5 DEF InsertBefore
    <3>2. i - 1 \in 1 .. Len(list) /\ j - 1 \in 1 .. Len(list) /\ i - 1 < j - 1
      BY <1>2, <1>6, <2>5
    <3> QED BY <3>1, <3>2 DEF Sorted
  <2> QED BY <1>2, <2>1, <2>2, <2>3, <2>4, <2>5
<1> QED BY <1>1, <1>2, <1>6 DEF Sorted

-----------------------------------------------------------------------------
\* list_pop_front() leaves the rest of the list in order.
LEMMA AfterPopType ==
    ASSUME NEW S, NEW list \in Seq(S)
    PROVE  AfterPop(list) \in Seq(S)
BY DEF AfterPop

LEMMA AfterPopOrder ==
    ASSUME NEW S, NEW list \in Seq(S), NEW pri
    PROVE  /\ Linear(list) => Linear(AfterPop(list))
           /\ Sorted(list, pri) => Sorted(AfterPop(list), pri)
<1>1. CASE list = << >> BY <1>1 DEF AfterPop, Linear, Sorted
<1>2. CASE list # << >>
  <2>1. /\ Len(AfterPop(list)) = Len(list) - 1
        /\ \A i \in 1 .. Len(list) - 1 : AfterPop(list)[i] = list[i + 1]
    BY <1>2 DEF AfterPop
  <2>2. \A i, j \in 1 .. Len(list) - 1 : i + 1 \in 1 .. Len(list) /\ (i < j => i + 1 < j + 1)
    OBVIOUS
  <2>3. Linear(list) => Linear(AfterPop(list))
    <3> SUFFICES ASSUME Linear(list), NEW i \in 1 .. Len(list) - 1, NEW j \in 1 .. Len(list) - 1,
                        list[i + 1] = list[j + 1]
                 PROVE  i = j
      BY <2>1 DEF Linear
    <3> QED BY <2>2 DEF Linear
  <2>4. Sorted(list, pri) => Sorted(AfterPop(list), pri)
    <3> SUFFICES ASSUME Sorted(list, pri), NEW i \in 1 .. Len(list) - 1, NEW j \in 1 .. Len(list) - 1,
                        i < j
                 PROVE  pri[list[i + 1]] >= pri[list[j + 1]]
      BY <2>1 DEF Sorted
    <3> QED BY <2>2 DEF Sorted
  <2> QED BY <2>3, <2>4
<1> QED BY <1>1, <1>2

\* It removes the front, and no other occurrence of it is left.
LEMMA AfterPopMembers ==
    ASSUME NEW S, NEW list \in Seq(S), list # << >>, Linear(list)
    PROVE  /\ Head(list) \in Members(list)
           /\ Members(AfterPop(list)) = Members(list) \ {Head(list)}
<1>1. /\ Len(AfterPop(list)) = Len(list) - 1
      /\ \A i \in 1 .. Len(list) - 1 : AfterPop(list)[i] = list[i + 1]
      /\ Head(list) = list[1]
      /\ Len(list) \in Nat /\ Len(list) > 0
  BY DEF AfterPop
<1>2. Head(list) \in Members(list) BY <1>1 DEF Members
<1>3. ASSUME NEW x \in Members(AfterPop(list)) PROVE x \in Members(list) /\ x # Head(list)
  <2>1. PICK i \in 1 .. Len(list) - 1 : x = list[i + 1] BY <1>1 DEF Members
  <2>2. i + 1 \in 1 .. Len(list) /\ i + 1 # 1 /\ 1 \in 1 .. Len(list) BY <1>1
  <2> QED BY <1>1, <2>1, <2>2 DEF Members, Linear
<1>4. ASSUME NEW x \in Members(list), x # Head(list) PROVE x \in Members(AfterPop(list))
  <2>1. PICK i \in 1 .. Len(list) : x = list[i] BY DEF Members
  <2>2. i - 1 \in 1 .. Len(list) - 1 BY <1>1, <1>4, <2>1
  <2>3. AfterPop(list)[i - 1] = x BY <1>1, <2>1, <2>2
  <2> QED BY <1>1, <2>2, <2>3 DEF Members
<1> QED BY <1>2, <1>3, <1>4

\* Of a sorted list it takes an element none of the others exceeds.
LEMMA HeadIsGreatest ==
    ASSUME NEW S, NEW list \in Seq(S), NEW pri \in [S -> Int],
           list # << >>, Sorted(list, pri)
    PROVE  \A x \in Members(list) : pri[x] <= pri[Head(list)]
<1> SUFFICES ASSUME NEW i \in 1 .. Len(list) PROVE pri[list[i]] <= pri[Head(list)]
  BY DEF Members
<1>1. Head(list) = list[1] /\ 1 \in 1 .. Len(list) /\ Len(list) \in Nat OBVIOUS
<1>2. list[1] \in S /\ list[i] \in S OBVIOUS
<1> QED BY <1>1, <1>2 DEF Sorted

-----------------------------------------------------------------------------
\* The facts about the constants used throughout.
LEMMA ConstantFacts ==
    /\ Main \in Thread /\ Idle \in Thread /\ Main # Idle
    /\ PriMin \in Priority /\ PriDefault \in Priority /\ Priority \subseteq Int
    /\ TimeSlice \in Nat \ {0}
    /\ Thread \subseteq Semas /\ Lock \subseteq Semas /\ Sem \subseteq Semas
    /\ Semas = Sem \cup Lock \cup Thread
    /\ Sem \cap Lock = {} /\ Sem \cap Thread = {} /\ Lock \cap Thread = {}
    /\ TidLock \in Lock
    /\ \A c \in Cond : LockOf[c] \in Lock /\ LockOf[c] # TidLock
    /\ Nil \notin Semas /\ Nil \notin Cond
    /\ \A x \in Cond : x \notin Thread
BY ThreadAssumption, PriorityAssumption, MonitorAssumption DEF Priority

-----------------------------------------------------------------------------
(* The scheduling effects keep the types.                                  *)

\* The outcome of a thread switch, or of no switch, from statuses st: the
\* types hold, no thread is freed and the running thread is not free.
Switched(st) ==
    /\ status' \in [Thread -> Status]
    /\ ready_list' \in Seq(Thread)
    /\ current' \in Thread
    /\ thread_ticks' \in 0 .. TimeSlice - 1
    /\ \A t \in Thread : status'[t] = "FREE" => st[t] = "FREE"
    /\ status'[current'] # "FREE"

\* schedule(): the next thread is a thread, and the lists stay lists.
LEMMA ScheduleType ==
    ASSUME NEW st \in [Thread -> Status], NEW ready \in Seq(Thread),
           Schedule(st, ready)
    PROVE  Switched(st)
<1>1. NextThreadToRun(ready) \in Thread BY ConstantFacts DEF NextThreadToRun
<1>2. AfterPop(ready) \in Seq(Thread) BY AfterPopType
<1> QED BY <1>1, <1>2, ConstantFacts DEF Schedule, Status, Switched

\* thread_yield() in whatever state its caller has prepared.
LEMMA YieldFromType ==
    ASSUME ThreadTypeOK, NEW st \in [Thread -> Status], NEW ready \in Seq(Thread),
           YieldFrom(st, ready)
    PROVE  Switched(st)
<1> DEFINE st2 == [st EXCEPT ![current] = "READY"]
           ready2 == IF current = Idle THEN ready
                     ELSE InsertOrdered(ready, current, priority)
<1>1. st2 \in [Thread -> Status] /\ \A t \in Thread : st2[t] = "FREE" => st[t] = "FREE"
  BY DEF Status, ThreadTypeOK
<1>2. ready2 \in Seq(Thread) BY InsertOrderedType DEF ThreadTypeOK
<1>3. Schedule(st2, ready2) BY DEF YieldFrom
<1>4. Switched(st2) BY <1>1, <1>2, <1>3, ScheduleType
<1> QED BY <1>1, <1>4 DEF Switched

\* thread_yield().
LEMMA ThreadYieldType ==
    ASSUME ThreadTypeOK, ThreadYield
    PROVE  Switched(status)
BY YieldFromType DEF ThreadYield, ThreadTypeOK

\* thread_block().
LEMMA ThreadBlockType ==
    ASSUME ThreadTypeOK, ThreadBlock
    PROVE  Switched(status)
<1> DEFINE st2 == [status EXCEPT ![current] = "BLOCKED"]
<1>1. st2 \in [Thread -> Status] /\ \A t \in Thread : st2[t] = "FREE" => status[t] = "FREE"
  BY DEF Status, ThreadTypeOK
<1>2. Schedule(st2, ready_list) /\ ready_list \in Seq(Thread)
  BY DEF ThreadBlock, ThreadTypeOK
<1>3. Switched(st2) BY <1>1, <1>2, ScheduleType
<1> QED BY <1>1, <1>3 DEF Switched

\* The loop of semaphore_down(), whichever way it goes.
LEMMA DownType ==
    ASSUME TypeOK, CallOK, NEW s \in Semas, SemaphoreTake(s) \/ SemaphoreSleep(s)
    PROVE  ThreadTypeOK' /\ SemaTypeOK' /\ Switched(status)
<1>1. CASE SemaphoreTake(s)
  BY <1>1 DEF SemaphoreTake, TypeOK, CallOK, ThreadTypeOK, SemaTypeOK, threadVars, Switched
<1>2. CASE SemaphoreSleep(s)
  <2>1. InsertOrdered(waiters[s], current, priority) \in Seq(Thread)
    BY InsertOrderedType DEF TypeOK, ThreadTypeOK, SemaTypeOK
  <2>2. SemaTypeOK' BY <1>2, <2>1 DEF SemaphoreSleep, SemaTypeOK, TypeOK
  <2>3. Switched(status) BY <1>2, ThreadBlockType DEF SemaphoreSleep, TypeOK
  <2>4. ThreadTypeOK' BY <1>2, <2>3 DEF SemaphoreSleep, ThreadTypeOK, TypeOK, Switched
  <2> QED BY <2>2, <2>3, <2>4
<1> QED BY <1>1, <1>2

\* What semaphore_up() hands to thread_yield() has the right types.
LEMMA WakeType ==
    ASSUME TypeOK, NEW s \in Semas
    PROVE  /\ StatusAfterWake(s) \in [Thread -> Status]
           /\ ReadyAfterWake(s) \in Seq(Thread)
           /\ \A t \in Thread : StatusAfterWake(s)[t] = "FREE" => status[t] = "FREE"
           /\ SemaphoreWake(s) => SemaTypeOK'
<1>1. waiters[s] # << >> => Head(waiters[s]) \in Thread BY DEF TypeOK, SemaTypeOK
<1>2. ReadyAfterWake(s) \in Seq(Thread)
  BY <1>1, InsertOrderedType DEF ReadyAfterWake, TypeOK, ThreadTypeOK
<1>3. AfterPop(waiters[s]) \in Seq(Thread) BY AfterPopType DEF TypeOK, SemaTypeOK
<1>4. SemaphoreWake(s) => SemaTypeOK' BY <1>3 DEF SemaphoreWake, TypeOK, SemaTypeOK
<1> QED BY <1>1, <1>2, <1>4 DEF StatusAfterWake, TypeOK, ThreadTypeOK, Status

\* semaphore_up().
LEMMA UpType ==
    ASSUME TypeOK, NEW s \in Semas, SemaphoreUp(s)
    PROVE  ThreadTypeOK' /\ SemaTypeOK' /\ Switched(status)
<1>1. ThreadTypeOK BY DEF TypeOK
<1>2. /\ StatusAfterWake(s) \in [Thread -> Status] /\ ReadyAfterWake(s) \in Seq(Thread)
      /\ \A t \in Thread : StatusAfterWake(s)[t] = "FREE" => status[t] = "FREE"
      /\ SemaTypeOK'
  BY WakeType DEF SemaphoreUp
<1>3. YieldFrom(StatusAfterWake(s), ReadyAfterWake(s)) /\ priority' = priority
  BY DEF SemaphoreUp
<1> HIDE DEF SemaTypeOK
<1>4. Switched(StatusAfterWake(s)) BY <1>1, <1>2, <1>3, YieldFromType
<1>5. Switched(status) BY <1>2, <1>4 DEF Switched
<1> QED BY <1>1, <1>2, <1>3, <1>5 DEF ThreadTypeOK, Switched

-----------------------------------------------------------------------------
(* The call state.                                                         *)

\* A step that leaves a thread's call state alone and does not free it.
LEMMA FrameCall ==
    ASSUME CallOK, NEW t \in Thread,
           pc'[t] = pc[t], target'[t] = target[t],
           task'[t] = task[t], arg'[t] = arg[t],
           status'[t] = "FREE" => status[t] = "FREE" \/ pc[t] = "run"
    PROVE  ThreadCallOK(t)'
BY DEF CallOK, ThreadCallOK

\* The threads that do not run keep their call state.
OthersKeep ==
    \A t \in Thread \ {current} :
        pc'[t] = pc[t] /\ target'[t] = target[t] /\ task'[t] = task[t] /\ arg'[t] = arg[t]

\* A step of the running thread that moves its own call state only and frees
\* nobody.
LEMMA OwnCall ==
    ASSUME TypeOK, CallOK, OthersKeep, Switched(status),
           ThreadTypeOK', SemaTypeOK', MonitorTypeOK', CallTypeOK', panic' \in Panic,
           NEW t \in Thread, t = current, ThreadCallOK(t)'
    PROVE  TypeOK' /\ CallOK'
<1>1. ASSUME NEW u \in Thread \ {current} PROVE ThreadCallOK(u)'
  BY FrameCall DEF OthersKeep, Switched
<1>2. status'[current'] # "FREE" BY DEF Switched
<1> QED BY <1>1, <1>2 DEF TypeOK, CallOK

\* A step that changes no call state and frees nobody.
LEMMA NoCall ==
    ASSUME TypeOK, CallOK, UNCHANGED <<pc, target, task, arg, pri_arg>>, Switched(status),
           ThreadTypeOK', SemaTypeOK', MonitorTypeOK', panic' \in Panic
    PROVE  TypeOK' /\ CallOK'
<1>1. ASSUME NEW u \in Thread PROVE ThreadCallOK(u)'
  BY FrameCall DEF Switched
<1>2. status'[current'] # "FREE" BY DEF Switched
<1> QED BY <1>1, <1>2 DEF TypeOK, CallOK, CallTypeOK

\* What type correctness says of the running thread.
LEMMA SelfType ==
    ASSUME TypeOK, CallOK
    PROVE  /\ current \in Thread /\ ThreadCallOK(current) /\ status[current] # "FREE"
           /\ pc[current] \in Point /\ target[current] \in Semas \cup {Nil}
           /\ task[current] \in Task /\ arg[current] \in Thread \cup Cond \cup {Nil}
BY DEF TypeOK, CallOK, ThreadTypeOK, CallTypeOK

\* semaphore_down() in each of the calls that make it.
LEMMA DownStep ==
    ASSUME TypeOK, CallOK, NEW s \in Semas, Down(s), current # Idle,
           UNCHANGED <<monitorVars, task, arg, pri_arg, panic>>,
           \/ pc[current] = "run" /\ s \in Sem \cup (Lock \ {TidLock})
           \/ pc[current] \in {"enter", "down"} /\ s = target[current]
    PROVE  TypeOK' /\ CallOK'
<1>1. ThreadTypeOK' /\ SemaTypeOK' /\ Switched(status) BY DownType DEF Down
<1>2. MonitorTypeOK' /\ panic' \in Panic BY DEF TypeOK, MonitorTypeOK, monitorVars
<1>0. PICK self0 \in Thread : self0 = current BY SelfType
<1>3. /\ self0 \in Thread /\ ThreadCallOK(self0) /\ task[self0] \in Task
      /\ s \in Thread => task[self0] = "wait" /\ s = self0
  BY <1>0, SelfType, ConstantFacts DEF ThreadCallOK
<1>4. PICK p \in Point, q \in Semas \cup {Nil} :
          /\ Goto(p, q)
          /\ \/ s \in Sem /\ p = "run" /\ q = Nil
             \/ s \in Lock /\ p = "taken" /\ q = s
             \/ s \in Thread /\ p = "enter" /\ q = LockOf[arg[self0]]
             \/ p = "down" /\ q = s
  BY <1>0, <1>3, ConstantFacts DEF Down, AfterDown, self, Point, ThreadCallOK
<1>5. /\ pc' = [pc EXCEPT ![self0] = p] /\ target' = [target EXCEPT ![self0] = q]
      /\ task' = task /\ arg' = arg /\ pri_arg' = pri_arg
  BY <1>0, <1>4 DEF Goto, self
<1>6. CallTypeOK' BY <1>5 DEF TypeOK, CallTypeOK
<1>7. OthersKeep BY <1>0, <1>5 DEF TypeOK, CallTypeOK, OthersKeep
<1>8. pc'[self0] = p /\ target'[self0] = q /\ task'[self0] = task[self0] /\ arg'[self0] = arg[self0]
  BY <1>3, <1>5 DEF TypeOK, CallTypeOK
<1>9. ThreadCallOK(self0)'
  BY <1>0, <1>1, <1>3, <1>4, <1>8, ConstantFacts, SelfType DEF ThreadCallOK, Switched, Point, Task
<1> QED BY <1>0, <1>1, <1>2, <1>3, <1>6, <1>7, <1>9, OwnCall

\* The running thread, as a rigid name, moves to point p of call k.
LEMMA OwnStep ==
    ASSUME TypeOK, CallOK, NEW c \in Thread, c = current,
           NEW p \in Point, NEW q \in Semas \cup {Nil},
           NEW k \in Task, NEW a \in Thread \cup Cond \cup {Nil},
           Goto(p, q), SetTask(k, a), pri_arg' \in [Thread -> Priority],
           ThreadTypeOK', SemaTypeOK', MonitorTypeOK', panic' \in Panic,
           Switched(status)
    PROVE  /\ pc'[c] = p /\ target'[c] = q /\ task'[c] = k /\ arg'[c] = a
           /\ ThreadCallOK(c)' => TypeOK' /\ CallOK'
<1>1. /\ pc' = [pc EXCEPT ![c] = p] /\ target' = [target EXCEPT ![c] = q]
      /\ task' = [task EXCEPT ![c] = k] /\ arg' = [arg EXCEPT ![c] = a]
  BY DEF Goto, SetTask, self
<1>2. CallTypeOK' BY <1>1 DEF TypeOK, CallTypeOK
<1>3. OthersKeep BY <1>1 DEF TypeOK, CallTypeOK, OthersKeep
<1>4. pc'[c] = p /\ target'[c] = q /\ task'[c] = k /\ arg'[c] = a
  BY <1>1 DEF TypeOK, CallTypeOK
<1> QED BY <1>2, <1>3, <1>4, OwnCall

LEMMA SameTaskIs ==
    ASSUME TypeOK, SameTask PROVE SetTask(task[current], arg[current])
BY DEF SameTask, SetTask, self, TypeOK, CallTypeOK

\* A step that leaves the scheduler, or the semaphores, or the monitors alone.
LEMMA Untouched ==
    ASSUME TypeOK, CallOK
    PROVE  /\ UNCHANGED threadVars => ThreadTypeOK' /\ Switched(status)
           /\ UNCHANGED semaVars => SemaTypeOK'
           /\ UNCHANGED monitorVars => MonitorTypeOK'
<1>1. UNCHANGED threadVars => ThreadTypeOK' /\ Switched(status)
  BY DEF threadVars, TypeOK, CallOK, ThreadTypeOK, Switched
<1>2. UNCHANGED semaVars => SemaTypeOK' BY DEF semaVars, TypeOK, SemaTypeOK
<1>3. UNCHANGED monitorVars => MonitorTypeOK' BY DEF monitorVars, TypeOK, MonitorTypeOK
<1> QED BY <1>1, <1>2, <1>3

-----------------------------------------------------------------------------
(* One lemma per action: TypeOK /\ CallOK is inductive.                    *)

LEMMA InnerUpStep ==
    ASSUME TypeOK, CallOK, InnerUp PROVE TypeOK' /\ CallOK'
<1>1. PICK c \in Thread : c = current BY SelfType
<1>2. pc[c] = "up" /\ target[c] \in Semas /\ c # Idle
  BY <1>1, SelfType DEF InnerUp, At, self, ThreadCallOK
<1>3. ThreadTypeOK' /\ SemaTypeOK' /\ Switched(status)
  BY <1>1, <1>2, UpType DEF InnerUp, self
<1>4. MonitorTypeOK' /\ panic' \in Panic /\ pri_arg' \in [Thread -> Priority] /\ SetTask(task[c], arg[c])
  BY <1>1, SameTaskIs, Untouched DEF InnerUp, TypeOK, CallTypeOK, SameTask
<1>5. PICK p \in Point, q \in Semas \cup {Nil} :
          /\ Goto(p, q)
          /\ \/ task[c] = "none" /\ p = "run" /\ q = Nil
             \/ task[c] = "wait" /\ p = "enter" /\ q = c
             \/ task[c] = "create" /\ p = "unblock" /\ q = Nil
             \/ task[c] = "broadcast" /\ p = "signals" /\ q = Nil
  BY <1>1, ConstantFacts DEF InnerUp, self, Point
<1>6. task[c] \in Task /\ arg[c] \in Thread \cup Cond \cup {Nil} BY <1>1, SelfType
<1>7. /\ pc'[c] = p /\ target'[c] = q /\ task'[c] = task[c] /\ arg'[c] = arg[c]
      /\ ThreadCallOK(c)' => TypeOK' /\ CallOK'
  BY <1>1, <1>3, <1>4, <1>5, <1>6, OwnStep
<1>8. ThreadCallOK(c)'
  BY <1>1, <1>2, <1>3, <1>5, <1>6, <1>7, SelfType, ConstantFacts
     DEF ThreadCallOK, Switched, Point, Task
<1> QED BY <1>7, <1>8

LEMMA LockTakenStep ==
    ASSUME TypeOK, CallOK, LockTaken PROVE TypeOK' /\ CallOK'
<1>1. PICK c \in Thread : c = current BY SelfType
<1>2. pc[c] = "taken" /\ target[c] \in Lock /\ c # Idle
  BY <1>1, SelfType DEF LockTaken, At, self, ThreadCallOK
<1>3. ThreadTypeOK' /\ SemaTypeOK' /\ Switched(status)
  BY Untouched DEF LockTaken
<1>4. MonitorTypeOK' /\ panic' \in Panic /\ pri_arg' \in [Thread -> Priority]
  BY <1>1, <1>2 DEF LockTaken, SetHolder, self, TypeOK, MonitorTypeOK, CallTypeOK
<1>5. PICK p \in Point, q \in Semas \cup {Nil}, k \in Task, a \in Thread \cup Cond \cup {Nil} :
          /\ Goto(p, q) /\ SetTask(k, a)
          /\ \/ task[c] = "create" /\ p = "tid" /\ q = target[c] /\ k = task[c] /\ a = arg[c]
             \/ task[c] # "create" /\ p = "run" /\ q = Nil /\ k = "none" /\ a = Nil
  BY <1>1, <1>2, SelfType, SameTaskIs, ConstantFacts DEF LockTaken, self, Point, Task
<1>6. /\ pc'[c] = p /\ target'[c] = q /\ task'[c] = k /\ arg'[c] = a
      /\ ThreadCallOK(c)' => TypeOK' /\ CallOK'
  BY <1>1, <1>3, <1>4, <1>5, OwnStep
<1>7. ThreadCallOK(c)'
  BY <1>1, <1>2, <1>3, <1>5, <1>6, SelfType, ConstantFacts
     DEF ThreadCallOK, Switched, Point, Task
<1> QED BY <1>6, <1>7

LEMMA LockTryAcquireStep ==
    ASSUME TypeOK, CallOK, NEW l \in Lock \ {TidLock}, LockTryAcquire(l) PROVE TypeOK' /\ CallOK'
<1>1. PICK c \in Thread : c = current BY SelfType
<1>2. pc[c] = "run" /\ c # Idle /\ task[c] = "none" /\ l \in Semas
  BY <1>1, SelfType, ConstantFacts DEF LockTryAcquire, AtUser, At, self, ThreadCallOK
<1>3. ThreadTypeOK' /\ SemaTypeOK' /\ Switched(status)
  BY <1>2, DownType DEF LockTryAcquire
<1>4. MonitorTypeOK' /\ panic' \in Panic /\ pri_arg' \in [Thread -> Priority] /\ SetTask(task[c], arg[c])
  BY <1>1, SameTaskIs, Untouched DEF LockTryAcquire, TypeOK, CallTypeOK, SameTask
<1>5. Goto("taken", l) /\ "taken" \in Point BY DEF LockTryAcquire, Point
<1>6. task[c] \in Task /\ arg[c] \in Thread \cup Cond \cup {Nil} BY <1>1, SelfType
<1>7. /\ pc'[c] = "taken" /\ target'[c] = l /\ task'[c] = task[c] /\ arg'[c] = arg[c]
      /\ ThreadCallOK(c)' => TypeOK' /\ CallOK'
  BY <1>1, <1>2, <1>3, <1>4, <1>5, <1>6, OwnStep
<1>8. ThreadCallOK(c)'
  BY <1>1, <1>2, <1>3, <1>7, SelfType, ConstantFacts
     DEF ThreadCallOK, Switched, Point, Task
<1> QED BY <1>7, <1>8

LEMMA LockReleaseStep ==
    ASSUME TypeOK, CallOK, NEW l \in Lock, LockRelease(l) PROVE TypeOK' /\ CallOK'
<1>1. PICK c \in Thread : c = current BY SelfType
<1>2. pc[c] = "run" /\ c # Idle /\ task[c] = "none" /\ l \in Semas
  BY <1>1, SelfType, ConstantFacts DEF LockRelease, AtUser, At, self, ThreadCallOK
<1>3. ThreadTypeOK' /\ SemaTypeOK' /\ Switched(status)
  BY Untouched DEF LockRelease
<1>4. /\ MonitorTypeOK' /\ panic' \in Panic /\ pri_arg' \in [Thread -> Priority]
      /\ SetTask(task[c], arg[c])
  BY <1>1, SameTaskIs DEF LockRelease, ClearHolder, TypeOK, MonitorTypeOK, CallTypeOK, SameTask
<1>5. Goto("up", l) /\ "up" \in Point BY DEF LockRelease, Point
<1>6. task[c] \in Task /\ arg[c] \in Thread \cup Cond \cup {Nil} BY <1>1, SelfType
<1>7. /\ pc'[c] = "up" /\ target'[c] = l /\ task'[c] = task[c] /\ arg'[c] = arg[c]
      /\ ThreadCallOK(c)' => TypeOK' /\ CallOK'
  BY <1>1, <1>2, <1>3, <1>4, <1>5, <1>6, OwnStep
<1>8. ThreadCallOK(c)'
  BY <1>1, <1>2, <1>3, <1>7, SelfType, ConstantFacts
     DEF ThreadCallOK, Switched, Point, Task
<1> QED BY <1>7, <1>8

LEMMA AllocateTidStep ==
    ASSUME TypeOK, CallOK, AllocateTid PROVE TypeOK' /\ CallOK'
<1>1. PICK c \in Thread : c = current BY SelfType
<1>2. pc[c] = "tid" /\ c # Idle /\ task[c] = "create" /\ TidLock \in Semas
  BY <1>1, SelfType, ConstantFacts DEF AllocateTid, At, self, ThreadCallOK
<1>3. ThreadTypeOK' /\ SemaTypeOK' /\ Switched(status)
  BY Untouched DEF AllocateTid
<1>4. /\ MonitorTypeOK' /\ panic' \in Panic /\ pri_arg' \in [Thread -> Priority]
      /\ SetTask(task[c], arg[c])
  BY <1>1, SameTaskIs DEF AllocateTid, ClearHolder, TypeOK, MonitorTypeOK, CallTypeOK, SameTask
<1>5. Goto("up", TidLock) /\ "up" \in Point BY DEF AllocateTid, Point
<1>6. task[c] \in Task /\ arg[c] \in Thread \cup Cond \cup {Nil} BY <1>1, SelfType
<1>7. /\ pc'[c] = "up" /\ target'[c] = TidLock /\ task'[c] = task[c] /\ arg'[c] = arg[c]
      /\ ThreadCallOK(c)' => TypeOK' /\ CallOK'
  BY <1>1, <1>2, <1>3, <1>4, <1>5, <1>6, OwnStep
<1>8. ThreadCallOK(c)'
  BY <1>1, <1>2, <1>3, <1>7, SelfType, ConstantFacts
     DEF ThreadCallOK, Switched, Point, Task
<1> QED BY <1>7, <1>8

LEMMA CondvarWaitStep ==
    ASSUME TypeOK, CallOK, NEW d \in Cond, CondvarWait(d) PROVE TypeOK' /\ CallOK'
<1>1. PICK c \in Thread : c = current BY SelfType
<1>2. pc[c] = "run" /\ c # Idle /\ task[c] = "none" /\ LockOf[d] \in Semas /\ LockOf[d] \in Lock
  BY <1>1, SelfType, ConstantFacts DEF CondvarWait, AtUser, At, self, ThreadCallOK
<1>3. ThreadTypeOK' /\ Switched(status)
  BY Untouched DEF CondvarWait
<1>4. SemaTypeOK' 
  BY <1>1, ConstantFacts DEF CondvarWait, CondvarEnqueue, SemaphoreInit, TypeOK, SemaTypeOK
<1>5. MonitorTypeOK'
  <2>1. holder' \in [Lock -> Thread \cup {Nil}]
    BY DEF CondvarWait, ClearHolder, TypeOK, MonitorTypeOK
  <2>2. cond_waiters' \in [Cond -> Seq(Thread)]
    BY <1>1 DEF CondvarWait, CondvarEnqueue, TypeOK, MonitorTypeOK
  <2> QED BY <2>1, <2>2 DEF MonitorTypeOK
<1>6. panic' \in Panic /\ pri_arg' \in [Thread -> Priority]
  BY DEF CondvarWait, TypeOK, CallTypeOK
<1>7. Goto("up", LockOf[d]) /\ SetTask("wait", d) /\ "up" \in Point /\ "wait" \in Task
  BY DEF CondvarWait, Point, Task
<1>8. /\ pc'[c] = "up" /\ target'[c] = LockOf[d] /\ task'[c] = "wait" /\ arg'[c] = d
      /\ ThreadCallOK(c)' => TypeOK' /\ CallOK'
  BY <1>1, <1>2, <1>3, <1>4, <1>5, <1>6, <1>7, OwnStep
<1>9. ThreadCallOK(c)'
  BY <1>1, <1>2, <1>3, <1>8, SelfType, ConstantFacts
     DEF ThreadCallOK, Switched, Point, Task
<1> QED BY <1>8, <1>9

\* Sorting the waiters and taking the first keeps a list of threads.
LEMMA CondvarTakeType ==
    ASSUME TypeOK, NEW d \in Cond, NEW w \in Thread, CondvarTake(d, w)
    PROVE  cond_waiters' \in [Cond -> Seq(Thread)]
<1> DEFINE list == cond_waiters[d]
<1>1. list \in Seq(Thread) /\ list # << >> BY DEF CondvarTake, TypeOK, MonitorTypeOK
<1>2. PICK q \in [1 .. Len(list) -> 1 .. Len(list)] :
          cond_waiters' = [cond_waiters EXCEPT ![d] = Tail(Arranged(list, q))]
  BY DEF CondvarTake, StableOrders
<1>3. Arranged(list, q) \in [1 .. Len(list) -> Thread] /\ Len(list) \in Nat /\ Len(list) # 0
  BY <1>1 DEF Arranged
<1>4. Arranged(list, q) \in Seq(Thread) /\ Len(Arranged(list, q)) = Len(list)
  BY <1>3
<1>5. Tail(Arranged(list, q)) \in Seq(Thread)
  BY <1>3, <1>4
<1> QED BY <1>2, <1>5 DEF TypeOK, MonitorTypeOK

\* condvar_signal() and the loop body of condvar_broadcast().
LEMMA SignalStep ==
    ASSUME TypeOK, CallOK, NEW d \in Cond, NEW w \in Thread, CondvarTake(d, w), Goto("up", w),
           \/ pc[current] = "run" /\ current # Idle
           \/ pc[current] = "signals",
           UNCHANGED <<threadVars, semaVars, holder, task, arg, pri_arg, panic>>
    PROVE  TypeOK' /\ CallOK'
<1>1. PICK c \in Thread : c = current BY SelfType
<1>2. c # Idle /\ (pc[c] = "run" => task[c] = "none") /\ w \in Semas
      /\ (pc[c] = "signals" => task[c] = "broadcast")
  BY <1>1, SelfType, ConstantFacts DEF ThreadCallOK, Task
<1>3. ThreadTypeOK' /\ SemaTypeOK' /\ Switched(status)
  BY Untouched
<1>4. MonitorTypeOK' BY CondvarTakeType DEF TypeOK, MonitorTypeOK
<1>5. panic' \in Panic /\ pri_arg' \in [Thread -> Priority] /\ SetTask(task[c], arg[c])
  BY <1>1, SameTaskIs DEF TypeOK, CallTypeOK, SameTask
<1>6. /\ task[c] \in Task /\ arg[c] \in Thread \cup Cond \cup {Nil} /\ "up" \in Point
  BY <1>1, SelfType DEF Point
<1>7. /\ pc'[c] = "up" /\ target'[c] = w /\ task'[c] = task[c] /\ arg'[c] = arg[c]
      /\ ThreadCallOK(c)' => TypeOK' /\ CallOK'
  BY <1>1, <1>2, <1>3, <1>4, <1>5, <1>6, OwnStep
<1>8. ThreadCallOK(c)'
  BY <1>1, <1>2, <1>3, <1>7, SelfType, ConstantFacts
     DEF ThreadCallOK, Switched, Point, Task
<1> QED BY <1>7, <1>8

LEMMA CondvarBroadcastStep ==
    ASSUME TypeOK, CallOK, NEW d \in Cond, CondvarBroadcast(d) PROVE TypeOK' /\ CallOK'
<1>1. PICK c \in Thread : c = current BY SelfType
<1>2. pc[c] = "run" /\ c # Idle /\ task[c] = "none"
  BY <1>1, SelfType DEF CondvarBroadcast, AtUser, At, self, ThreadCallOK
<1>3. ThreadTypeOK' /\ SemaTypeOK' /\ MonitorTypeOK' /\ Switched(status)
  BY Untouched DEF CondvarBroadcast
<1>4. /\ panic' \in Panic /\ pri_arg' \in [Thread -> Priority]
      /\ Goto("signals", Nil) /\ SetTask("broadcast", d)
      /\ "signals" \in Point /\ "broadcast" \in Task
  BY DEF CondvarBroadcast, TypeOK, CallTypeOK, Point, Task
<1>5. /\ pc'[c] = "signals" /\ target'[c] = Nil /\ task'[c] = "broadcast" /\ arg'[c] = d
      /\ ThreadCallOK(c)' => TypeOK' /\ CallOK'
  BY <1>1, <1>3, <1>4, OwnStep
<1>6. ThreadCallOK(c)'
  BY <1>1, <1>2, <1>3, <1>5, SelfType, ConstantFacts
     DEF ThreadCallOK, Switched, Point, Task
<1> QED BY <1>5, <1>6

LEMMA BroadcastDoneStep ==
    ASSUME TypeOK, CallOK, BroadcastDone PROVE TypeOK' /\ CallOK'
<1>1. PICK c \in Thread : c = current BY SelfType
<1>2. pc[c] = "signals" /\ c # Idle
  BY <1>1, SelfType DEF BroadcastDone, At, self, ThreadCallOK
<1>3. ThreadTypeOK' /\ SemaTypeOK' /\ MonitorTypeOK' /\ Switched(status)
  BY Untouched DEF BroadcastDone
<1>4. /\ panic' \in Panic /\ pri_arg' \in [Thread -> Priority]
      /\ Goto("run", Nil) /\ SetTask("none", Nil)
      /\ "run" \in Point /\ "none" \in Task
  BY DEF BroadcastDone, TypeOK, CallTypeOK, Point, Task
<1>5. /\ pc'[c] = "run" /\ target'[c] = Nil /\ task'[c] = "none" /\ arg'[c] = Nil
      /\ ThreadCallOK(c)' => TypeOK' /\ CallOK'
  BY <1>1, <1>3, <1>4, OwnStep
<1>6. ThreadCallOK(c)'
  BY <1>1, <1>2, <1>3, <1>5, SelfType, ConstantFacts
     DEF ThreadCallOK, Switched, Point, Task
<1> QED BY <1>5, <1>6

LEMMA ThreadCreateStep ==
    ASSUME TypeOK, CallOK, NEW child \in Thread, NEW p \in Priority, ThreadCreate(child, p)
    PROVE  TypeOK' /\ CallOK'
<1>1. PICK c \in Thread : c = current BY SelfType
<1>2. pc[c] = "run" /\ c # Idle /\ task[c] = "none" /\ child # Idle
  BY <1>1, SelfType DEF ThreadCreate, AtUser, At, self, ThreadCallOK
<1>3. SemaTypeOK' /\ MonitorTypeOK' BY Untouched DEF ThreadCreate
<1>4. ThreadTypeOK' /\ Switched(status)
  BY DEF ThreadCreate, InitThread, TypeOK, CallOK, ThreadTypeOK, Switched, Status
<1>5. /\ panic' \in Panic /\ pri_arg' \in [Thread -> Priority]
      /\ Goto("enter", TidLock) /\ SetTask("create", child)
      /\ "enter" \in Point /\ "create" \in Task /\ TidLock \in Semas
  BY ConstantFacts DEF ThreadCreate, self, TypeOK, CallTypeOK, Point, Task
<1>6. /\ pc'[c] = "enter" /\ target'[c] = TidLock /\ task'[c] = "create" /\ arg'[c] = child
      /\ ThreadCallOK(c)' => TypeOK' /\ CallOK'
  BY <1>1, <1>3, <1>4, <1>5, OwnStep
<1>7. ThreadCallOK(c)'
  BY <1>1, <1>2, <1>4, <1>6, SelfType, ConstantFacts
     DEF ThreadCallOK, Switched, Point, Task
<1> QED BY <1>6, <1>7

LEMMA UnblockChildStep ==
    ASSUME TypeOK, CallOK, UnblockChild PROVE TypeOK' /\ CallOK'
<1>1. PICK c \in Thread : c = current BY SelfType
<1>2. pc[c] = "unblock" /\ c # Idle /\ arg[c] \in Thread
  BY <1>1, SelfType DEF UnblockChild, At, self, ThreadCallOK, Task
<1>3. SemaTypeOK' /\ MonitorTypeOK' BY Untouched DEF UnblockChild
<1>4. ThreadTypeOK' /\ Switched(status)
  <2>1. ThreadUnblock(arg[c]) BY <1>1 DEF UnblockChild, self
  <2>2. InsertOrdered(ready_list, arg[c], priority) \in Seq(Thread)
    BY <1>2, InsertOrderedType DEF TypeOK, ThreadTypeOK
  <2> QED BY <1>2, <2>1, <2>2
          DEF ThreadUnblock, TypeOK, CallOK, ThreadTypeOK, Switched, Status
<1>5. /\ panic' \in Panic /\ pri_arg' \in [Thread -> Priority]
      /\ Goto("check", Nil) /\ SetTask("none", Nil)
      /\ "check" \in Point /\ "none" \in Task
  BY DEF UnblockChild, TypeOK, CallTypeOK, Point, Task
<1>6. /\ pc'[c] = "check" /\ target'[c] = Nil /\ task'[c] = "none" /\ arg'[c] = Nil
      /\ ThreadCallOK(c)' => TypeOK' /\ CallOK'
  BY <1>1, <1>3, <1>4, <1>5, OwnStep
<1>7. ThreadCallOK(c)'
  BY <1>1, <1>2, <1>4, <1>6, SelfType, ConstantFacts
     DEF ThreadCallOK, Switched, Point, Task
<1> QED BY <1>6, <1>7

\* thread_set_priority() and list_empty() after it: no call is entered or left.
LEMMA PlainStep ==
    ASSUME TypeOK, CallOK, NEW p \in {"run", "check", "front"}, Goto(p, Nil), SameTask,
           pc[current] \in {"run", "check", "front"}, current # Idle,
           pri_arg' \in [Thread -> Priority], panic' \in Panic,
           ThreadTypeOK', Switched(status), UNCHANGED <<semaVars, monitorVars>>
    PROVE  TypeOK' /\ CallOK'
<1>1. PICK c \in Thread : c = current BY SelfType
<1>2. task[c] = "none" BY <1>1, SelfType DEF ThreadCallOK
<1>3. SemaTypeOK' /\ MonitorTypeOK' BY Untouched
<1>4. SetTask(task[c], arg[c]) /\ task[c] \in Task /\ arg[c] \in Thread \cup Cond \cup {Nil}
      /\ p \in Point
  BY <1>1, SelfType, SameTaskIs DEF Point
<1>5. /\ pc'[c] = p /\ target'[c] = Nil /\ task'[c] = task[c] /\ arg'[c] = arg[c]
      /\ ThreadCallOK(c)' => TypeOK' /\ CallOK'
  BY <1>1, <1>3, <1>4, OwnStep
<1>6. ThreadCallOK(c)'
  BY <1>1, <1>2, <1>5, SelfType, ConstantFacts DEF ThreadCallOK, Switched, Point
<1> QED BY <1>5, <1>6

LEMMA ThreadSetPriorityStep ==
    ASSUME TypeOK, CallOK, NEW p \in Priority, ThreadSetPriority(p)
    PROVE  TypeOK' /\ CallOK'
<1>1. ThreadTypeOK' /\ Switched(status) /\ pri_arg' \in [Thread -> Priority]
  BY DEF ThreadSetPriority, self, TypeOK, CallOK, ThreadTypeOK, CallTypeOK, Switched
<1>2. /\ pc[current] = "run" /\ current # Idle /\ Goto("check", Nil) /\ SameTask
      /\ panic' \in Panic /\ UNCHANGED <<semaVars, monitorVars>>
  BY DEF ThreadSetPriority, AtUser, At, self, TypeOK
<1> QED BY <1>1, <1>2, PlainStep

LEMMA CheckReadyStep ==
    ASSUME TypeOK, CallOK, CheckReady PROVE TypeOK' /\ CallOK'
<1>1. ThreadTypeOK' /\ Switched(status) BY Untouched DEF CheckReady
<1>2. /\ pc[current] = "check" /\ current # Idle /\ SameTask
      /\ panic' \in Panic /\ UNCHANGED <<semaVars, monitorVars>>
      /\ pri_arg' \in [Thread -> Priority]
  BY SelfType DEF CheckReady, At, self, SameTask, TypeOK, CallTypeOK, ThreadCallOK
<1>3. PICK p \in {"run", "front"} : Goto(p, Nil) BY DEF CheckReady
<1> QED BY <1>1, <1>2, <1>3, PlainStep

LEMMA CheckFrontStep ==
    ASSUME TypeOK, CallOK, CheckFront PROVE TypeOK' /\ CallOK'
<1>1. /\ pc[current] = "front" /\ current # Idle /\ SameTask
      /\ UNCHANGED <<semaVars, monitorVars, priority>>
  BY SelfType DEF CheckFront, At, self, SameTask, ThreadCallOK
<1>2. CASE ready_list = << >>
  <2>1. ThreadTypeOK' /\ Switched(status)
    BY <1>2, Untouched DEF CheckFront, threadVars
  <2>2. UNCHANGED <<pc, target, task, arg, pri_arg>> /\ panic' \in Panic
    BY <1>2 DEF CheckFront, Panic
  <2> QED BY <1>1, <2>1, <2>2, Untouched, NoCall
<1>3. CASE ready_list # << >>
  <2>1. Switched(status)
    BY <1>3, ThreadYieldType
       DEF CheckFront, TypeOK, CallOK, ThreadTypeOK, Switched
  <2>2. ThreadTypeOK' BY <1>1, <2>1 DEF TypeOK, ThreadTypeOK, Switched
  <2>3. Goto("run", Nil) /\ panic' \in Panic /\ pri_arg' \in [Thread -> Priority]
    BY <1>3, ConstantFacts DEF CheckFront, TypeOK, CallTypeOK, self
  <2> QED BY <1>1, <2>1, <2>2, <2>3, PlainStep
<1> QED BY <1>2, <1>3

\* thread_yield() and the interrupt that may call it.
LEMMA YieldStep ==
    ASSUME TypeOK, CallOK, Yield \/ Tick PROVE TypeOK' /\ CallOK'
<1>1. CASE Yield
  <2>1. Switched(status) /\ priority' = priority BY <1>1, ThreadYieldType DEF Yield, TypeOK
  <2>2. ThreadTypeOK' BY <2>1 DEF TypeOK, ThreadTypeOK, Switched
  <2> QED BY <1>1, <2>1, <2>2, Untouched, NoCall DEF Yield, callVars, TypeOK
<1>2. CASE Tick
  <2>1. Switched(status) /\ priority' = priority
    <3>1. CASE ThreadYield /\ UNCHANGED priority
      BY <3>1, ThreadYieldType DEF TypeOK
    <3>2. CASE /\ thread_ticks + 1 < TimeSlice /\ thread_ticks' = thread_ticks + 1
               /\ UNCHANGED <<status, priority, ready_list, current>>
      BY <3>2, ConstantFacts DEF TypeOK, CallOK, ThreadTypeOK, Switched
    <3> QED BY <1>2, <3>1, <3>2 DEF Tick, ThreadTick
  <2>2. ThreadTypeOK' BY <2>1 DEF TypeOK, ThreadTypeOK, Switched
  <2> QED BY <1>2, <2>1, <2>2, Untouched, NoCall DEF Tick, callVars, TypeOK
<1> QED BY <1>1, <1>2

LEMMA IdleBlockStep ==
    ASSUME TypeOK, CallOK, IdleBlock PROVE TypeOK' /\ CallOK'
<1>1. Switched(status) /\ priority' = priority BY ThreadBlockType DEF IdleBlock, TypeOK
<1>2. ThreadTypeOK' BY <1>1 DEF TypeOK, ThreadTypeOK, Switched
<1> QED BY <1>1, <1>2, Untouched, NoCall DEF IdleBlock, callVars, TypeOK

\* thread_exit() frees a thread that is in no call.
LEMMA ExitStep ==
    ASSUME TypeOK, CallOK, Exit PROVE TypeOK' /\ CallOK'
<1> DEFINE st == [status EXCEPT ![current] = IF current = Main THEN "DYING" ELSE "FREE"]
<1>1. /\ st \in [Thread -> Status] /\ pc[current] = "run" /\ priority' = priority
      /\ \A t \in Thread : st[t] = "FREE" => status[t] = "FREE" \/ pc[t] = "run"
  BY DEF Exit, AtUser, At, self, TypeOK, ThreadTypeOK, Status
<1>2. Schedule(st, ready_list) /\ ready_list \in Seq(Thread)
  BY DEF Exit, ThreadExit, TypeOK, ThreadTypeOK
<1>3. Switched(st) BY <1>1, <1>2, ScheduleType
<1>4. ThreadTypeOK' BY <1>1, <1>3 DEF TypeOK, ThreadTypeOK, Switched
<1>5. SemaTypeOK' /\ MonitorTypeOK' BY Untouched DEF Exit
<1>6. UNCHANGED <<pc, target, task, arg, pri_arg, panic>> BY DEF Exit, callVars
<1>7. ASSUME NEW t \in Thread PROVE ThreadCallOK(t)'
  BY <1>1, <1>3, <1>6, FrameCall DEF Switched
<1> QED BY <1>3, <1>4, <1>5, <1>6, <1>7 DEF TypeOK, CallOK, CallTypeOK, Switched

\* semaphore_try_down(), and semaphore_up() by a client or by an interrupt.
LEMMA TryDownStep ==
    ASSUME TypeOK, CallOK, NEW s \in Sem, SemaphoreTryDown(s) PROVE TypeOK' /\ CallOK'
<1>1. ThreadTypeOK' /\ SemaTypeOK' /\ Switched(status)
  BY DownType, ConstantFacts DEF SemaphoreTryDown
<1> QED BY <1>1, Untouched, NoCall DEF SemaphoreTryDown, callVars, TypeOK

LEMMA RaiseStep ==
    ASSUME TypeOK, CallOK, NEW s \in Sem, SemaphoreRaise(s) PROVE TypeOK' /\ CallOK'
<1>1. ThreadTypeOK' /\ SemaTypeOK' /\ Switched(status)
  BY UpType, ConstantFacts DEF SemaphoreRaise
<1> QED BY <1>1, Untouched, NoCall DEF SemaphoreRaise, callVars, TypeOK

LEMMA InterruptUpStep ==
    ASSUME TypeOK, CallOK, NEW s \in Sem, InterruptUp(s) PROVE TypeOK' /\ CallOK'
<1>1. /\ StatusAfterWake(s) \in [Thread -> Status] /\ ReadyAfterWake(s) \in Seq(Thread)
      /\ \A t \in Thread : StatusAfterWake(s)[t] = "FREE" => status[t] = "FREE"
      /\ SemaTypeOK'
  BY WakeType, ConstantFacts DEF InterruptUp
<1>2. /\ status' = StatusAfterWake(s) /\ ready_list' = ReadyAfterWake(s)
      /\ UNCHANGED <<priority, current, thread_ticks>> /\ panic' \in Panic
      /\ UNCHANGED <<monitorVars, pc, target, task, arg, pri_arg>>
  BY DEF InterruptUp, callVars, Panic
<1>3. ThreadTypeOK' /\ Switched(status)
  BY <1>1, <1>2 DEF TypeOK, CallOK, ThreadTypeOK, Switched
<1> QED BY <1>1, <1>2, <1>3, Untouched, NoCall

\* Initially.
LEMMA InitOK == Init => TypeOK /\ CallOK
<1> SUFFICES ASSUME Init PROVE TypeOK /\ CallOK OBVIOUS
<1>1. ThreadTypeOK BY ConstantFacts DEF Init, ThreadInit, ThreadTypeOK, Status
<1>2. SemaTypeOK BY DEF Init, SemaTypeOK
<1>3. MonitorTypeOK BY DEF Init, MonitorTypeOK
<1>4. CallTypeOK BY ConstantFacts DEF Init, CallTypeOK, Point, Task
<1>5. CallOK
  <2>1. ASSUME NEW t \in Thread PROVE ThreadCallOK(t)
    <3>1. pc[t] = "run" /\ target[t] = Nil /\ task[t] = "none" BY DEF Init
    <3> QED BY <3>1 DEF ThreadCallOK, Point
  <2>2. status[current] = "RUNNING" BY ConstantFacts DEF Init, ThreadInit
  <2> QED BY <2>1, <2>2 DEF CallOK
<1> QED BY <1>1, <1>2, <1>3, <1>4, <1>5 DEF Init, TypeOK, Panic

LEMMA NextOK == TypeOK /\ CallOK /\ [Next]_vars => TypeOK' /\ CallOK'
<1> SUFFICES ASSUME TypeOK, CallOK, [Next]_vars PROVE TypeOK' /\ CallOK'
  OBVIOUS
<1>1. CASE SemaphoreCall
  <2>1. PICK s \in Sem : SemaphoreDown(s) \/ SemaphoreTryDown(s) \/ SemaphoreRaise(s)
    BY <1>1 DEF SemaphoreCall
  <2>2. SemaphoreDown(s) => TypeOK' /\ CallOK'
    BY DownStep, ConstantFacts DEF SemaphoreDown, AtUser, At, self
  <2> QED BY <2>1, <2>2, TryDownStep, RaiseStep
<1>2. CASE LockCall
  <2>1. PICK l \in Lock \ {TidLock} : LockAcquire(l) \/ LockTryAcquire(l) \/ LockRelease(l)
    BY <1>2 DEF LockCall
  <2>2. LockAcquire(l) => TypeOK' /\ CallOK'
    BY DownStep, ConstantFacts DEF LockAcquire, AtUser, At, self
  <2> QED BY <2>1, <2>2, LockTryAcquireStep, LockReleaseStep
<1>3. CASE CondvarCall
  <2>1. PICK d \in Cond : CondvarWait(d) \/ CondvarSignal(d) \/ CondvarBroadcast(d)
    BY <1>3 DEF CondvarCall
  <2>2. CondvarSignal(d) => TypeOK' /\ CallOK'
    BY SignalStep DEF CondvarSignal, AtUser, At, self
  <2> QED BY <2>1, <2>2, CondvarWaitStep, CondvarBroadcastStep
<1>4. CASE ThreadCall
  BY <1>4, ThreadCreateStep, ThreadSetPriorityStep, YieldStep, ExitStep DEF ThreadCall
<1>5. CASE Continue
  <2>1. EnterDown \/ ResumeDown => TypeOK' /\ CallOK'
    <3> SUFFICES ASSUME EnterDown \/ ResumeDown PROVE TypeOK' /\ CallOK' OBVIOUS
    <3>1. pc[current] \in {"enter", "down"} /\ Down(target[current])
          /\ UNCHANGED <<monitorVars, task, arg, pri_arg, panic>>
      BY DEF EnterDown, ResumeDown, At, self
    <3>2. target[current] \in Semas /\ current # Idle
      BY <3>1, SelfType DEF ThreadCallOK
    <3> QED BY <3>1, <3>2, DownStep
  <2>2. BroadcastNext => TypeOK' /\ CallOK'
    <3> SUFFICES ASSUME BroadcastNext PROVE TypeOK' /\ CallOK' OBVIOUS
    <3>1. arg[current] \in Cond
      BY SelfType DEF BroadcastNext, At, self, ThreadCallOK, Task
    <3> QED BY <3>1, SignalStep DEF BroadcastNext, At, self
  <2> QED BY <1>5, <2>1, <2>2, InnerUpStep, LockTakenStep, BroadcastDoneStep,
             AllocateTidStep, UnblockChildStep, CheckReadyStep, CheckFrontStep,
             IdleBlockStep DEF Continue
<1>6. CASE Interrupt BY <1>6, YieldStep, InterruptUpStep DEF Interrupt
<1>7. CASE UNCHANGED vars
  BY <1>7, Untouched, NoCall DEF vars, callVars, TypeOK
<1> QED BY <1>1, <1>2, <1>3, <1>4, <1>5, <1>6, <1>7 DEF Next

\* Every variable of the kernel keeps its type, and every thread is at a point
\* that the call it is inside of has.
THEOREM TypeCorrect == Spec => [](TypeOK /\ CallOK)
<1>1. Init => TypeOK /\ CallOK BY InitOK
<1>2. (TypeOK /\ CallOK) /\ [Next]_vars => (TypeOK /\ CallOK)' BY NextOK
<1> QED BY <1>1, <1>2, PTL DEF Spec

-----------------------------------------------------------------------------
\* Mutual exclusion.

\* The inductive invariant.
MutexInv == HolderOK /\ MutualExclusion

\* Steps that move no thread into, through or out of a lock.
LEMMA MutexFrame ==
    ASSUME MutexInv, holder' = holder,
           \A l \in Lock : value'[l] = value[l],
           \A t \in Thread, l \in Lock : Between(t, l)' <=> Between(t, l),
           \A t \in Thread : pc'[t] = "tid" <=> pc[t] = "tid"
    PROVE  MutexInv'
<1>1. \A l \in Lock : Owners(l)' = Owners(l) BY DEF Owners, Holds
<1>2. HolderOK' BY DEF MutexInv, HolderOK, Holds
<1>3. MutualExclusion' BY <1>1 DEF MutexInv, MutualExclusion
<1> QED BY <1>2, <1>3 DEF MutexInv

\* So do those that change no call state and no lock's semaphore.
LEMMA MutexNoCall ==
    ASSUME MutexInv, UNCHANGED <<holder, pc, target>>, \A l \in Lock : value'[l] = value[l]
    PROVE  MutexInv'
<1>1. \A t \in Thread, l \in Lock : Between(t, l)' <=> Between(t, l) BY DEF Between
<1> QED BY <1>1, MutexFrame

\* And those after which the running thread, in no lock before, is in none.
LEMMA MutexMove ==
    ASSUME TypeOK, MutexInv, holder' = holder, \A l \in Lock : value'[l] = value[l],
           NEW p \in Point, NEW q, Goto(p, q), p # "tid", pc[current] # "tid",
           p \in {"taken", "up"} => q \notin Lock,
           pc[current] \in {"taken", "up"} => target[current] \notin Lock
    PROVE  MutexInv'
<1>1. PICK c \in Thread : c = current BY DEF TypeOK, ThreadTypeOK
<1>2. pc' = [pc EXCEPT ![c] = p] /\ target' = [target EXCEPT ![c] = q]
  BY <1>1 DEF Goto, self
<1>3. \A t \in Thread \ {c} : pc'[t] = pc[t] /\ target'[t] = target[t]
  BY <1>2 DEF TypeOK, CallTypeOK
<1>4. pc'[c] = p /\ target'[c] = q BY <1>2 DEF TypeOK, CallTypeOK
<1>5. \A t \in Thread, l \in Lock : Between(t, l)' <=> Between(t, l)
  BY <1>1, <1>3, <1>4 DEF Between
<1>6. \A t \in Thread : pc'[t] = "tid" <=> pc[t] = "tid" BY <1>1, <1>3, <1>4
<1> QED BY <1>5, <1>6, MutexFrame

\* semaphore_down() of a lock's semaphore lets the running thread in.
LEMMA MutexTake ==
    ASSUME TypeOK, MutexInv, NEW l \in Lock, SemaphoreTake(l), Goto("taken", l),
           holder' = holder, pc[current] \in {"run", "enter", "down"}
    PROVE  MutexInv'
<1>1. PICK c \in Thread : c = current BY DEF TypeOK, ThreadTypeOK
<1>2. pc' = [pc EXCEPT ![c] = "taken"] /\ target' = [target EXCEPT ![c] = l]
  BY <1>1 DEF Goto, self
<1>3. \A t \in Thread \ {c} : pc'[t] = pc[t] /\ target'[t] = target[t]
  BY <1>2 DEF TypeOK, CallTypeOK
<1>4. pc'[c] = "taken" /\ target'[c] = l BY <1>2 DEF TypeOK, CallTypeOK
<1>5. Owners(l) = {} /\ value[l] = 1 /\ l \in Semas
  BY ConstantFacts DEF SemaphoreTake, MutexInv, MutualExclusion
<1>6. /\ value'[l] = 0
      /\ \A k \in Lock \ {l} : value'[k] = value[k]
  BY <1>5, ConstantFacts DEF SemaphoreTake, TypeOK, SemaTypeOK
<1>7. Owners(l)' = {c} BY <1>1, <1>3, <1>4, <1>5 DEF Owners, Between, Holds
<1>8. \A k \in Lock \ {l} : Owners(k)' = Owners(k)
  BY <1>1, <1>3, <1>4 DEF Owners, Between, Holds
<1>9. MutualExclusion' BY <1>6, <1>7, <1>8 DEF MutexInv, MutualExclusion
<1>10. HolderOK'
  BY <1>1, <1>3, <1>4, <1>5 DEF MutexInv, HolderOK, Owners, Between, Holds
<1> QED BY <1>9, <1>10 DEF MutexInv

\* semaphore_up() of a lock's semaphore lets it out.
LEMMA MutexUp ==
    ASSUME TypeOK, MutexInv, NEW l \in Lock, SemaphoreWake(l),
           pc[current] = "up", target[current] = l, holder' = holder,
           NEW p, NEW q, Goto(p, q), p \notin {"taken", "up", "tid"}
    PROVE  MutexInv'
<1>1. PICK c \in Thread : c = current BY DEF TypeOK, ThreadTypeOK
<1>2. pc' = [pc EXCEPT ![c] = p] /\ target' = [target EXCEPT ![c] = q]
  BY <1>1 DEF Goto, self
<1>3. \A t \in Thread \ {c} : pc'[t] = pc[t] /\ target'[t] = target[t]
  BY <1>2 DEF TypeOK, CallTypeOK
<1>4. pc'[c] = p /\ target'[c] = q BY <1>2 DEF TypeOK, CallTypeOK
<1>5. c \in Owners(l) /\ ~Holds(c, l) /\ l \in Semas
  BY <1>1, ConstantFacts DEF Owners, Between, MutexInv, HolderOK
<1>6. Owners(l) = {c} /\ value[l] = 0 BY <1>5 DEF MutexInv, MutualExclusion, Owners
<1>7. /\ value'[l] = 1
      /\ \A k \in Lock \ {l} : value'[k] = value[k]
  BY <1>6, <1>5, ConstantFacts DEF SemaphoreWake, TypeOK, SemaTypeOK
<1>8. Owners(l)' = {} BY <1>1, <1>3, <1>4, <1>5, <1>6 DEF Owners, Between, Holds
<1>9. \A k \in Lock \ {l} : Owners(k)' = Owners(k)
  BY <1>1, <1>3, <1>4 DEF Owners, Between, Holds
<1>10. MutualExclusion' BY <1>7, <1>8, <1>9 DEF MutexInv, MutualExclusion
<1>11. HolderOK'
  BY <1>1, <1>3, <1>4 DEF MutexInv, HolderOK, Between, Holds
<1> QED BY <1>10, <1>11 DEF MutexInv

\* The holder is recorded: the owner stays the owner.
LEMMA MutexTaken ==
    ASSUME TypeOK, CallOK, MutexInv, LockTaken PROVE MutexInv'
<1>1. PICK c \in Thread : c = current BY SelfType
<1>2. PICK l \in Lock : target[c] = l
  BY <1>1, SelfType DEF LockTaken, At, self, ThreadCallOK
<1>3. pc[c] = "taken" /\ (l = TidLock => task[c] = "create")
      /\ (task[c] = "create" => l = TidLock)
  BY <1>1, <1>2, SelfType DEF LockTaken, At, self, ThreadCallOK
<1>4. PICK p, q : p \in {"run", "tid"} /\ Goto(p, q) /\ (p = "tid" <=> l = TidLock)
  BY <1>1, <1>3, <1>2 DEF LockTaken, self
<1>5. /\ pc' = [pc EXCEPT ![c] = p] /\ target' = [target EXCEPT ![c] = q]
      /\ holder' = [holder EXCEPT ![l] = c] /\ value' = value
  BY <1>1, <1>4, <1>2 DEF LockTaken, Goto, SetHolder, self, semaVars
<1>6. \A t \in Thread \ {c} : pc'[t] = pc[t] /\ target'[t] = target[t]
  BY <1>5 DEF TypeOK, CallTypeOK
<1>7. pc'[c] = p BY <1>5 DEF TypeOK, CallTypeOK
<1>8. holder'[l] = c /\ \A k \in Lock \ {l} : holder'[k] = holder[k]
  BY <1>3, <1>5 DEF TypeOK, MonitorTypeOK
<1>9. Owners(l) = {c} BY <1>3, <1>2 DEF Owners, Between, MutexInv, MutualExclusion
<1>10. Owners(l)' = {c} BY <1>3, <1>4, <1>6, <1>7, <1>8, <1>9 DEF Owners, Between, Holds
<1>11. \A k \in Lock \ {l} : Owners(k)' = Owners(k)
  BY <1>3, <1>4, <1>6, <1>7, <1>8, <1>2 DEF Owners, Between, Holds
<1>12. MutualExclusion' BY <1>5, <1>9, <1>10, <1>11 DEF MutexInv, MutualExclusion
<1>13. HolderOK'
  BY <1>3, <1>4, <1>6, <1>7, <1>8, <1>9, ConstantFacts
     DEF MutexInv, HolderOK, Owners, Between, Holds
<1> QED BY <1>12, <1>13 DEF MutexInv

\* lock_release() before its semaphore_up(): the holder is no longer recorded,
\* and still the owner.
LEMMA MutexRelease ==
    ASSUME TypeOK, MutexInv, NEW l \in Lock, Holds(current, l), ClearHolder(l), Goto("up", l),
           \A k \in Lock : value'[k] = value[k],
           pc[current] = "tid" <=> l = TidLock, pc[current] \notin {"taken", "up"}
    PROVE  MutexInv'
<1>1. PICK c \in Thread : c = current BY DEF TypeOK, ThreadTypeOK
<1>2. /\ pc' = [pc EXCEPT ![c] = "up"] /\ target' = [target EXCEPT ![c] = l]
      /\ holder' = [holder EXCEPT ![l] = Nil]
  BY <1>1 DEF Goto, ClearHolder, self
<1>3. \A t \in Thread \ {c} : pc'[t] = pc[t] /\ target'[t] = target[t]
  BY <1>2 DEF TypeOK, CallTypeOK
<1>4. pc'[c] = "up" /\ target'[c] = l BY <1>2 DEF TypeOK, CallTypeOK
<1>5. /\ holder'[l] = Nil /\ \A k \in Lock \ {l} : holder'[k] = holder[k]
      /\ \A t \in Thread : t # Nil
  BY <1>2, ConstantFacts DEF TypeOK, MonitorTypeOK
<1>6. Owners(l) = {c} BY <1>1 DEF Owners, MutexInv, MutualExclusion
<1>7. Owners(l)' = {c} BY <1>3, <1>4, <1>5, <1>6 DEF Owners, Between, Holds
<1>8. \A k \in Lock \ {l} : Owners(k)' = Owners(k)
  BY <1>1, <1>3, <1>4, <1>5 DEF Owners, Between, Holds
<1>9. MutualExclusion' BY <1>6, <1>7, <1>8 DEF MutexInv, MutualExclusion
<1>10. HolderOK'
  BY <1>1, <1>3, <1>4, <1>5, <1>6, ConstantFacts
     DEF MutexInv, HolderOK, Owners, Between, Holds
<1> QED BY <1>9, <1>10 DEF MutexInv

\* semaphore_down() in each of its calls.
LEMMA MutexDown ==
    ASSUME TypeOK, CallOK, MutexInv, NEW s \in Semas, Down(s), holder' = holder,
           pc[current] \in {"run", "enter", "down"},
           s \in Thread => arg[current] \in Cond
    PROVE  MutexInv'
<1>0. SemaphoreTake(s) => AfterDown(s)
  BY DEF Down, SemaphoreSleep, SemaphoreTake, TypeOK, SemaTypeOK
<1>1. CASE s \in Lock /\ SemaphoreTake(s)
  <2>1. Goto("taken", s) BY <1>0, <1>1, ConstantFacts DEF AfterDown
  <2> QED BY <1>1, <2>1, MutexTake
<1>2. CASE s \notin Lock /\ SemaphoreTake(s)
  <2>1. \A l \in Lock : value'[l] = value[l]
    BY <1>2, ConstantFacts DEF SemaphoreTake, TypeOK, SemaTypeOK
  <2>2. PICK p, q : p \in {"run", "enter"} /\ Goto(p, q)
    BY <1>0, <1>2 DEF AfterDown
  <2> QED BY <2>1, <2>2, MutexMove DEF Point
<1>3. CASE SemaphoreSleep(s)
  <2>1. value' = value /\ Goto("down", s)
    BY <1>3 DEF Down, SemaphoreSleep, SemaphoreTake, TypeOK, SemaTypeOK
  <2> QED BY <2>1, MutexMove DEF Point
<1> QED BY <1>1, <1>2, <1>3 DEF Down

LEMMA MutexNext == TypeOK /\ CallOK /\ MutexInv /\ [Next]_vars => MutexInv'
<1> SUFFICES ASSUME TypeOK, CallOK, MutexInv, [Next]_vars PROVE MutexInv'
  OBVIOUS
<1>0. \A l \in Lock, t \in Thread \cup Sem : l # t BY ConstantFacts
<1>1. CASE SemaphoreCall
  <2>1. PICK s \in Sem : SemaphoreDown(s) \/ SemaphoreTryDown(s) \/ SemaphoreRaise(s)
    BY <1>1 DEF SemaphoreCall
  <2>2. SemaphoreDown(s) => MutexInv'
    BY MutexDown, ConstantFacts DEF SemaphoreDown, AtUser, At, self, monitorVars
  <2>3. CASE SemaphoreTryDown(s) \/ SemaphoreRaise(s)
    <3>1. \A l \in Lock : value'[l] = value[l]
      BY <2>3, <1>0, ConstantFacts DEF SemaphoreTryDown, SemaphoreTake, SemaphoreRaise,
         SemaphoreUp, SemaphoreWake, TypeOK, SemaTypeOK
    <3> QED BY <2>3, <3>1, MutexNoCall
            DEF SemaphoreTryDown, SemaphoreRaise, callVars, monitorVars
  <2> QED BY <2>1, <2>2, <2>3
<1>2. CASE LockCall
  <2>1. PICK l \in Lock \ {TidLock} : LockAcquire(l) \/ LockTryAcquire(l) \/ LockRelease(l)
    BY <1>2 DEF LockCall
  <2>2. LockAcquire(l) => MutexInv'
    BY MutexDown, ConstantFacts DEF LockAcquire, AtUser, At, self, monitorVars
  <2>3. LockTryAcquire(l) => MutexInv'
    BY MutexTake DEF LockTryAcquire, AtUser, At, self, monitorVars
  <2>4. LockRelease(l) => MutexInv'
    BY MutexRelease DEF LockRelease, AtUser, At, self, semaVars
  <2> QED BY <2>1, <2>2, <2>3, <2>4
<1>3. CASE CondvarCall
  <2>1. PICK d \in Cond : CondvarWait(d) \/ CondvarSignal(d) \/ CondvarBroadcast(d)
    BY <1>3 DEF CondvarCall
  <2>2. CASE CondvarWait(d)
    <3>1. \A l \in Lock : value'[l] = value[l]
      BY <2>2, <1>0, SelfType, ConstantFacts
         DEF CondvarWait, CondvarEnqueue, SemaphoreInit, TypeOK, SemaTypeOK
    <3> QED BY <2>2, <3>1, MutexRelease, ConstantFacts DEF CondvarWait, AtUser, At, self
  <2>3. CASE CondvarSignal(d)
    <3>1. PICK w \in Thread : Goto("up", w) BY <2>3 DEF CondvarSignal
    <3> QED BY <2>3, <3>1, <1>0, MutexMove DEF CondvarSignal, AtUser, At, self, semaVars, Point
  <2>4. CondvarBroadcast(d) => MutexInv'
    BY MutexMove DEF CondvarBroadcast, AtUser, At, self, semaVars, monitorVars, Point
  <2> QED BY <2>1, <2>2, <2>3, <2>4
<1>4. CASE ThreadCall
  <2>1. ASSUME NEW t \in Thread, NEW p \in Priority, ThreadCreate(t, p) PROVE MutexInv'
    BY <2>1, MutexMove DEF ThreadCreate, AtUser, At, self, semaVars, monitorVars, Point
  <2>2. ASSUME NEW p \in Priority, ThreadSetPriority(p) PROVE MutexInv'
    BY <2>2, MutexMove DEF ThreadSetPriority, AtUser, At, self, semaVars, monitorVars, Point
  <2>3. Yield \/ Exit => MutexInv'
    BY MutexNoCall DEF Yield, Exit, callVars, semaVars, monitorVars
  <2> QED BY <1>4, <2>1, <2>2, <2>3 DEF ThreadCall
<1>5. CASE Continue
  <2>1. CASE EnterDown \/ ResumeDown
    <3>1. pc[current] \in {"enter", "down"} /\ Down(target[current]) /\ holder' = holder
      BY <2>1 DEF EnterDown, ResumeDown, At, self, monitorVars
    <3>2. /\ target[current] \in Semas
          /\ target[current] \in Thread => arg[current] \in Cond
      BY <3>1, SelfType DEF ThreadCallOK
    <3> QED BY <3>1, <3>2, MutexDown
  <2>2. CASE InnerUp
    <3>1. /\ pc[current] = "up" /\ SemaphoreWake(target[current]) /\ holder' = holder
          /\ target[current] \in Semas
      BY <2>2, SelfType DEF InnerUp, SemaphoreUp, At, self, monitorVars, ThreadCallOK
    <3>2. PICK p, q : p \in {"run", "enter", "unblock", "signals"} /\ Goto(p, q)
      BY <2>2 DEF InnerUp
    <3>3. CASE target[current] \in Lock
      <4>1. PICK l \in Lock : target[current] = l BY <3>3
      <4> QED BY <3>1, <3>2, <4>1, MutexUp
    <3>4. CASE target[current] \notin Lock
      <4>1. \A l \in Lock : value'[l] = value[l]
        BY <3>1, <3>4, ConstantFacts DEF SemaphoreWake, TypeOK, SemaTypeOK
      <4> QED BY <3>1, <3>2, <3>4, <4>1, MutexMove DEF Point
    <3> QED BY <3>3, <3>4
  <2>3. LockTaken => MutexInv' BY MutexTaken
  <2>4. CASE BroadcastNext
    <3>1. PICK w \in Thread : Goto("up", w) BY <2>4 DEF BroadcastNext
    <3> QED BY <2>4, <3>1, <1>0, MutexMove DEF BroadcastNext, At, self, semaVars, Point
  <2>5. BroadcastDone => MutexInv'
    BY MutexMove DEF BroadcastDone, At, self, semaVars, monitorVars, Point
  <2>6. CASE AllocateTid
    <3>1. pc[current] = "tid" /\ Holds(current, TidLock) /\ TidLock \in Lock
      BY <2>6, SelfType, ConstantFacts DEF AllocateTid, At, self, MutexInv, HolderOK
    <3> QED BY <2>6, <3>1, MutexRelease DEF AllocateTid, semaVars
  <2>7. UnblockChild => MutexInv'
    BY MutexMove DEF UnblockChild, At, self, semaVars, monitorVars, Point
  <2>8. CheckReady => MutexInv'
    <3> SUFFICES ASSUME CheckReady PROVE MutexInv' OBVIOUS
    <3>1. PICK p \in {"run", "front"} : Goto(p, Nil) BY DEF CheckReady
    <3> QED BY <3>1, MutexMove DEF CheckReady, At, self, semaVars, monitorVars, Point
  <2>9. CheckFront => MutexInv'
    <3> SUFFICES ASSUME CheckFront PROVE MutexInv' OBVIOUS
    <3>1. CASE Goto("run", Nil)
      BY <3>1, MutexMove DEF CheckFront, At, self, semaVars, monitorVars, Point
    <3>2. CASE UNCHANGED <<pc, target>>
      BY <3>2, MutexNoCall DEF CheckFront, semaVars, monitorVars
    <3> QED BY <3>1, <3>2 DEF CheckFront
  <2>10. IdleBlock => MutexInv'
    BY MutexNoCall DEF IdleBlock, callVars, semaVars, monitorVars
  <2> QED BY <1>5, <2>1, <2>2, <2>3, <2>4, <2>5, <2>6, <2>7, <2>8, <2>9, <2>10 DEF Continue
<1>6. CASE Interrupt
  <2>1. Tick => MutexInv' BY MutexNoCall DEF Tick, callVars, semaVars, monitorVars
  <2>2. ASSUME NEW s \in Sem, InterruptUp(s) PROVE MutexInv'
    <3>1. \A l \in Lock : value'[l] = value[l]
      BY <2>2, <1>0, ConstantFacts DEF InterruptUp, SemaphoreWake, TypeOK, SemaTypeOK
    <3> QED BY <2>2, <3>1, MutexNoCall DEF InterruptUp, callVars, monitorVars
  <2> QED BY <1>6, <2>1, <2>2 DEF Interrupt
<1>7. CASE UNCHANGED vars
  BY <1>7, MutexNoCall DEF vars, callVars, semaVars, monitorVars
<1> QED BY <1>1, <1>2, <1>3, <1>4, <1>5, <1>6, <1>7 DEF Next

LEMMA MutexInit == Init => MutexInv
<1> SUFFICES ASSUME Init PROVE MutexInv OBVIOUS
<1>1. \A t \in Thread : pc[t] = "run" BY DEF Init
<1>2. \A t \in Thread, l \in Lock : ~Holds(t, l) BY ConstantFacts DEF Init, Holds
<1>3. \A l \in Lock : Owners(l) = {} /\ value[l] = 1
  BY <1>1, <1>2 DEF Init, Owners, Between
<1> QED BY <1>1, <1>2, <1>3, ConstantFacts DEF MutexInv, HolderOK, MutualExclusion, Between

\* At most one thread is between the semaphore_down() and the semaphore_up() of
\* a lock, and the value of the lock's semaphore says whether there is one.
THEOREM Mutex == Spec => []MutualExclusion
<1>1. (TypeOK /\ CallOK) /\ MutexInv /\ [Next]_vars => MutexInv' BY MutexNext
<1>2. MutexInv => MutualExclusion BY DEF MutexInv
<1> QED BY <1>1, <1>2, MutexInit, TypeCorrect, PTL DEF Spec

-----------------------------------------------------------------------------
\* Which thread is on which list.

\* Thread t sleeps inside semaphore_down(s).
Waits(t, s) == status[t] = "BLOCKED" /\ pc[t] = "down" /\ target[t] = s

ReadyOK == ReadyListOK /\ Sorted(ready_list, priority)

WaitersOK(s) ==
    /\ Linear(waiters[s])
    /\ Members(waiters[s]) = {t \in Thread : Waits(t, s)}
    /\ Sorted(waiters[s], priority)

\* The inductive invariant.
ListInv ==
    /\ ReadyOK
    /\ \A s \in Semas : WaitersOK(s)
    /\ ChildUntouched

\* No ready thread has a higher priority than the running one.
TopRuns == \A t \in Members(ready_list) : priority[t] <= priority[current]

LEMMA ListInvIs == ListInv <=> ElemInOneList /\ QueuesSorted /\ ChildUntouched
BY DEF ListInv, ReadyOK, WaitersOK, Waits, ElemInOneList, QueuesSorted

-----------------------------------------------------------------------------
(* The thread switch.                                                      *)

\* A list of exactly the threads that st calls ready, in order.
ReadyFor(ready, st) ==
    /\ Linear(ready)
    /\ Sorted(ready, priority)
    /\ Members(ready) = {t \in Thread \ {Idle} : st[t] = "READY"}

\* Sorted() looks at the priorities of the members only.
LEMMA SortedFrame ==
    ASSUME NEW list \in Seq(Thread), NEW p, NEW q, Sorted(list, p),
           \A t \in Members(list) : q[t] = p[t]
    PROVE  Sorted(list, q)
BY DEF Sorted, Members

\* schedule() keeps the ready list right, changes nobody's being blocked but
\* the idle thread's, and picks a thread no ready one exceeds.
LEMMA ScheduleLists ==
    ASSUME ThreadTypeOK, NEW st \in [Thread -> Status], NEW ready \in Seq(Thread),
           ReadyFor(ready, st), \A t \in Thread : st[t] # "RUNNING",
           Schedule(st, ready), priority' = priority
    PROVE  /\ ReadyOK'
           /\ \A t \in Thread \ {Idle} : status'[t] = "BLOCKED" <=> st[t] = "BLOCKED"
           /\ TopRuns'
<1> DEFINE next == NextThreadToRun(ready)
<1>1. /\ current' = next /\ ready_list' = AfterPop(ready)
      /\ status' = [st EXCEPT ![next] = "RUNNING"]
  BY DEF Schedule
<1>2. Linear(AfterPop(ready)) /\ Sorted(AfterPop(ready), priority)
  BY AfterPopOrder DEF ReadyFor
<1>3. priority \in [Thread -> Int] BY ConstantFacts DEF ThreadTypeOK
<1>4. CASE ready = << >>
  <2>1. next = Idle /\ AfterPop(ready) = << >> BY <1>4 DEF NextThreadToRun, AfterPop
  <2>2. Members(ready) = {} /\ Members(ready_list') = {} BY <1>1, <1>4, <2>1 DEF Members
  <2>3. \A t \in Thread \ {Idle} : st[t] # "READY" BY <2>2 DEF ReadyFor
  <2>4. /\ \A t \in Thread \ {Idle} : status'[t] = st[t]
        /\ status'[Idle] = "RUNNING"
    BY <1>1, <2>1, ConstantFacts
  <2> QED BY <1>1, <1>2, <2>1, <2>2, <2>3, <2>4, ConstantFacts DEF ReadyOK, ReadyListOK, TopRuns
<1>5. CASE ready # << >>
  <2>1. next = Head(ready) BY <1>5 DEF NextThreadToRun
  <2>2. next \in Members(ready) /\ Members(AfterPop(ready)) = Members(ready) \ {next}
    BY <1>5, <2>1, AfterPopMembers DEF ReadyFor
  <2>3. next \in Thread \ {Idle} /\ st[next] = "READY" BY <2>2 DEF ReadyFor
  <2>4. /\ \A t \in Thread \ {next} : status'[t] = st[t]
        /\ status'[next] = "RUNNING"
    BY <1>1, <2>3
  <2> HIDE DEF next
  <2>5. Members(ready_list') = {t \in Thread \ {Idle} : status'[t] = "READY"}
    BY <1>1, <2>2, <2>3, <2>4 DEF ReadyFor
  <2>6. {t \in Thread : status'[t] = "RUNNING"} = {current'}
    BY <1>1, <2>3, <2>4
  <2>7. \A t \in Members(ready) : priority[t] <= priority[next]
    BY <1>3, <1>5, <2>1, HeadIsGreatest DEF ReadyFor
  <2> QED BY <1>1, <1>2, <2>2, <2>3, <2>4, <2>5, <2>6, <2>7
          DEF ReadyOK, ReadyListOK, TopRuns
<1> QED BY <1>4, <1>5

\* thread_yield(), after its caller has made some threads ready.
LEMMA YieldLists ==
    ASSUME ThreadTypeOK, NEW st \in [Thread -> Status], NEW ready \in Seq(Thread),
           ReadyFor(ready, st), {t \in Thread : st[t] = "RUNNING"} = {current},
           YieldFrom(st, ready), priority' = priority
    PROVE  /\ ReadyOK'
           /\ \A t \in Thread \ {Idle} : status'[t] = "BLOCKED" <=> st[t] = "BLOCKED"
           /\ TopRuns'
<1> DEFINE st2 == [st EXCEPT ![current] = "READY"]
           ready2 == IF current = Idle THEN ready
                     ELSE InsertOrdered(ready, current, priority)
<1>1. current \in Thread /\ priority \in [Thread -> Int] /\ st[current] = "RUNNING"
  BY ConstantFacts DEF ThreadTypeOK
<1>2. st2 \in [Thread -> Status] /\ \A t \in Thread : st2[t] # "RUNNING"
  BY <1>1 DEF Status
<1>3. current \notin Members(ready) BY <1>1 DEF ReadyFor
<1>4. ready2 \in Seq(Thread) BY <1>1, InsertOrderedType
<1>5. Linear(ready2) /\ Sorted(ready2, priority)
  BY <1>1, <1>3, InsertOrderedLinear, InsertOrderedSorted DEF ReadyFor
<1>6. Members(ready2) = IF current = Idle THEN Members(ready) ELSE Members(ready) \cup {current}
  <2>1. Members(InsertOrdered(ready, current, priority)) = Members(ready) \cup {current}
    BY <1>1, InsertOrderedMembers
  <2> QED BY <2>1
<1>7. \A t \in Thread \ {current} : st2[t] = st[t] OBVIOUS
<1>8. st2[current] = "READY" BY <1>1
<1>9. Schedule(st2, ready2) BY DEF YieldFrom
<1>10. \A t \in Thread : st2[t] = "BLOCKED" <=> st[t] = "BLOCKED" BY <1>1, <1>7, <1>8
<1> HIDE DEF st2, ready2
<1>11. ReadyFor(ready2, st2)
  BY <1>1, <1>3, <1>5, <1>6, <1>7, <1>8 DEF ReadyFor
<1> QED BY <1>2, <1>4, <1>9, <1>10, <1>11, ScheduleLists

\* The ready list a thread that gives up the processor leaves behind.
LEMMA LeaveLists ==
    ASSUME ThreadTypeOK, ReadyOK, NEW x \in Status \ {"READY", "RUNNING"},
           Schedule([status EXCEPT ![current] = x], ready_list), priority' = priority
    PROVE  /\ ReadyOK'
           /\ \A t \in Thread \ {Idle, current} :
                  status'[t] = "BLOCKED" <=> status[t] = "BLOCKED"
           /\ current # Idle => (status'[current] = "BLOCKED" <=> x = "BLOCKED")
           /\ TopRuns'
<1> DEFINE st == [status EXCEPT ![current] = x]
<1>1. current \in Thread /\ status[current] = "RUNNING" /\ ready_list \in Seq(Thread)
  BY DEF ThreadTypeOK, ReadyOK, ReadyListOK
<1>2. st \in [Thread -> Status] /\ st[current] = x /\ \A t \in Thread \ {current} : st[t] = status[t]
  BY <1>1 DEF ThreadTypeOK
<1>3. Schedule(st, ready_list) OBVIOUS
<1> HIDE DEF st
<1>4. \A t \in Thread : st[t] # "RUNNING" BY <1>1, <1>2 DEF ReadyOK, ReadyListOK
<1>5. ReadyFor(ready_list, st) BY <1>1, <1>2 DEF ReadyOK, ReadyListOK, ReadyFor
<1> QED BY <1>1, <1>2, <1>3, <1>4, <1>5, ScheduleLists

-----------------------------------------------------------------------------
(* Steps that put nobody on a waiters list and take nobody off.            *)

\* The running thread is nobody's waiter and on no list.
LEMMA RunningFacts ==
    ASSUME TypeOK, CallOK, ListInv
    PROVE  /\ current \in Thread /\ status[current] = "RUNNING"
           /\ \A t \in Thread : status[t] = "RUNNING" => t = current
           /\ \A s \in Semas : ~Waits(current, s)
           /\ priority \in [Thread -> Int] /\ ready_list \in Seq(Thread)
           /\ ReadyFor(ready_list, status) /\ ThreadTypeOK
           /\ \A t \in Thread : pc[t] # "run" => t # Idle /\ status[t] # "FREE"
BY ConstantFacts DEF TypeOK, ThreadTypeOK, CallOK, ThreadCallOK, ListInv, ReadyOK,
   ReadyListOK, ReadyFor, Waits

\* A thread that is neither the running one nor the idle one, and is blocked
\* after the step as it was before, waits where it did.
LEMMA WaitsFrame ==
    ASSUME TypeOK, CallOK, CallOK', ListInv, OthersKeep,
           NEW t \in Thread, t # current,
           t # Idle => (status'[t] = "BLOCKED" <=> status[t] = "BLOCKED"),
           NEW s
    PROVE  Waits(t, s)' <=> Waits(t, s)
BY ConstantFacts DEF OthersKeep, Waits, CallOK, ThreadCallOK

\* The waiters of a semaphore whose list no one joins or leaves.
LEMMA WaitersFrame ==
    ASSUME TypeOK, NEW s \in Semas, WaitersOK(s), waiters'[s] = waiters[s],
           \A t \in Thread : Waits(t, s)' <=> Waits(t, s),
           \A t \in Thread : Waits(t, s) => priority'[t] = priority[t]
    PROVE  WaitersOK(s)'
<1>1. waiters[s] \in Seq(Thread) BY DEF TypeOK, SemaTypeOK
<1>2. Sorted(waiters[s], priority') BY <1>1, SortedFrame DEF WaitersOK
<1> QED BY <1>2 DEF WaitersOK

\* No call of thread_create() is entered, and its child is left alone.
CreatesKeep ==
    task'[current] = "create" => task[current] = "create" /\ arg'[current] = arg[current]

LEMMA ChildFrame ==
    ASSUME TypeOK, CallOK, ListInv, OthersKeep, CreatesKeep,
           \A t \in Thread \ {Idle} :
               status[t] = "BLOCKED" /\ pc[t] = "run" => status'[t] = "BLOCKED"
    PROVE  ChildUntouched'
<1> SUFFICES ASSUME NEW t \in Thread, task'[t] = "create"
             PROVE  /\ status'[arg'[t]] = "BLOCKED" /\ pc'[arg'[t]] = "run"
                    /\ \A u \in Thread : task'[u] = "create" /\ arg'[u] = arg'[t] => u = t
  BY DEF ChildUntouched
<1>1. \A u \in Thread : task'[u] = "create" => task[u] = "create" /\ arg'[u] = arg[u]
  BY DEF OthersKeep, CreatesKeep
<1>2. /\ arg[t] \in Thread \ {Idle} /\ status[arg[t]] = "BLOCKED" /\ pc[arg[t]] = "run"
      /\ \A u \in Thread : task[u] = "create" /\ arg[u] = arg[t] => u = t
  BY <1>1 DEF ListInv, ChildUntouched, CallOK, ThreadCallOK
<1>3. arg[t] # current BY <1>2, RunningFacts
<1> QED BY <1>1, <1>2, <1>3 DEF OthersKeep

\* A step that changes no waiters list, blocks nobody and wakes nobody.
LEMMA ListFrame ==
    ASSUME TypeOK, CallOK, CallOK', ListInv, ReadyOK', waiters' = waiters,
           OthersKeep, CreatesKeep,
           \A t \in Thread \ {Idle} : status'[t] = "BLOCKED" <=> status[t] = "BLOCKED",
           \A t \in Thread : status[t] = "BLOCKED" => priority'[t] = priority[t]
    PROVE  ListInv'
<1>1. ASSUME NEW s \in Semas PROVE WaitersOK(s)'
  <2>1. ASSUME NEW t \in Thread PROVE Waits(t, s)' <=> Waits(t, s)
    <3>1. CASE t # current BY <3>1, WaitsFrame
    <3>2. CASE t = current /\ t # Idle BY <3>2, RunningFacts DEF Waits
    <3>3. CASE t = Idle BY <3>3, ConstantFacts DEF Waits, CallOK, ThreadCallOK
    <3> QED BY <3>1, <3>2, <3>3
  <2>2. WaitersOK(s) /\ \A t \in Thread : Waits(t, s) => priority'[t] = priority[t]
    BY DEF ListInv, Waits
  <2> QED BY <2>1, <2>2, WaitersFrame
<1>2. ChildUntouched' BY ChildFrame
<1> QED BY <1>1, <1>2 DEF ListInv

\* A step of the running thread that leaves the scheduler alone.
LEMMA OwnLists ==
    ASSUME TypeOK, CallOK, CallOK', ListInv, UNCHANGED <<threadVars, waiters>>,
           OthersKeep, CreatesKeep
    PROVE  ListInv'
<1>1. ReadyOK' BY DEF threadVars, ListInv, ReadyOK, ReadyListOK
<1> QED BY <1>1, ListFrame DEF threadVars

-----------------------------------------------------------------------------
(* Sleeping and waking.                                                    *)

\* What Goto() and SameTask do to the others.
LEMMA GotoKeeps ==
    ASSUME TypeOK, NEW p, NEW q, Goto(p, q), UNCHANGED <<task, arg>>
    PROVE  OthersKeep /\ CreatesKeep /\ pc'[current] = p /\ target'[current] = q
<1>1. pc' = [pc EXCEPT ![current] = p] /\ target' = [target EXCEPT ![current] = q]
  BY DEF Goto, self
<1> QED BY <1>1 DEF TypeOK, CallTypeOK, ThreadTypeOK, OthersKeep, CreatesKeep

\* So do Goto() and SetTask().
LEMMA CallKeeps ==
    ASSUME TypeOK, NEW p, NEW q, NEW k, NEW a, Goto(p, q), SetTask(k, a)
    PROVE  /\ OthersKeep
           /\ pc'[current] = p /\ target'[current] = q
           /\ task'[current] = k /\ arg'[current] = a
<1>1. /\ pc' = [pc EXCEPT ![current] = p] /\ target' = [target EXCEPT ![current] = q]
      /\ task' = [task EXCEPT ![current] = k] /\ arg' = [arg EXCEPT ![current] = a]
  BY DEF Goto, SetTask, self
<1> QED BY <1>1 DEF TypeOK, CallTypeOK, ThreadTypeOK, OthersKeep

\* semaphore_down() with value 0.
LEMMA SleepLists ==
    ASSUME TypeOK, CallOK, CallOK', ListInv, NEW s \in Semas, SemaphoreSleep(s), current # Idle,
           Goto("down", s), UNCHANGED <<task, arg>>
    PROVE  ListInv' /\ TopRuns'
<1>1. PICK c \in Thread : c = current BY RunningFacts
<1>2. /\ status[c] = "RUNNING" /\ c # Idle /\ priority' = priority /\ priority \in [Thread -> Int]
      /\ Schedule([status EXCEPT ![current] = "BLOCKED"], ready_list)
      /\ waiters' = [waiters EXCEPT ![s] = InsertOrdered(@, c, priority)]
      /\ waiters \in [Semas -> Seq(Thread)]
  BY <1>1, RunningFacts DEF SemaphoreSleep, ThreadBlock, TypeOK, SemaTypeOK
<1>3. /\ ReadyOK'
      /\ \A t \in Thread \ {Idle, c} : status'[t] = "BLOCKED" <=> status[t] = "BLOCKED"
      /\ status'[c] = "BLOCKED"
      /\ TopRuns'
  BY <1>1, <1>2, LeaveLists, RunningFacts DEF ListInv, Status
<1>4. OthersKeep /\ CreatesKeep /\ pc'[c] = "down" /\ target'[c] = s
  BY <1>1, GotoKeeps
<1>5. \A t \in Thread \ {c}, r \in Semas : Waits(t, r)' <=> Waits(t, r)
  BY <1>1, <1>3, <1>4, WaitsFrame
<1>6. \A r \in Semas : ~Waits(c, r) /\ (Waits(c, r)' <=> r = s)
  BY <1>1, <1>3, <1>4, RunningFacts DEF Waits
<1>7. ASSUME NEW r \in Semas \ {s} PROVE WaitersOK(r)'
  <2>1. waiters'[r] = waiters[r] /\ WaitersOK(r) BY <1>2 DEF ListInv
  <2> QED BY <1>2, <1>5, <1>6, <2>1, WaitersFrame
<1>8. WaitersOK(s)'
  <2>1. /\ waiters[s] \in Seq(Thread) /\ waiters'[s] = InsertOrdered(waiters[s], c, priority)
        /\ WaitersOK(s)
    BY <1>2 DEF ListInv
  <2>2. c \notin Members(waiters[s]) BY <1>6, <2>1 DEF WaitersOK
  <2>3. Linear(waiters'[s]) /\ Sorted(waiters'[s], priority)
    BY <1>2, <2>1, <2>2, InsertOrderedLinear, InsertOrderedSorted DEF WaitersOK
  <2>4. Members(waiters'[s]) = Members(waiters[s]) \cup {c} BY <2>1, InsertOrderedMembers
  <2>5. Members(waiters'[s]) = {t \in Thread : Waits(t, s)'}
    BY <1>5, <1>6, <2>1, <2>4 DEF WaitersOK
  <2> QED BY <1>2, <2>3, <2>5 DEF WaitersOK
<1>9. ChildUntouched'
  <2>1. \A t \in Thread \ {Idle} :
            status[t] = "BLOCKED" /\ pc[t] = "run" => status'[t] = "BLOCKED"
    BY <1>3
  <2> QED BY <1>4, <2>1, ChildFrame
<1> QED BY <1>3, <1>7, <1>8, <1>9 DEF ListInv

\* What semaphore_up() makes of the waiter at the front of the list.
LEMMA WakeFacts ==
    ASSUME TypeOK, CallOK, ListInv, NEW s \in Semas, waiters[s] # << >>
    PROVE  LET h == Head(waiters[s]) IN
           /\ h \in Thread \ {Idle, current} /\ Waits(h, s)
           /\ h \in Members(waiters[s])
           /\ Members(AfterPop(waiters[s])) = Members(waiters[s]) \ {h}
           /\ \A t \in Members(waiters[s]) : priority[t] <= priority[h]
<1> DEFINE h == Head(waiters[s])
<1>1. waiters[s] \in Seq(Thread) /\ WaitersOK(s) BY DEF TypeOK, SemaTypeOK, ListInv
<1>2. h \in Members(waiters[s]) /\ Members(AfterPop(waiters[s])) = Members(waiters[s]) \ {h}
  BY <1>1, AfterPopMembers DEF WaitersOK
<1>3. h \in Thread /\ Waits(h, s) BY <1>1, <1>2 DEF WaitersOK
<1>4. h # Idle /\ h # current BY <1>3, RunningFacts DEF Waits
<1>5. \A t \in Members(waiters[s]) : priority[t] <= priority[h]
  BY <1>1, HeadIsGreatest, RunningFacts DEF WaitersOK
<1> QED BY <1>2, <1>3, <1>4, <1>5

\* The statuses and the ready list it hands to thread_yield().
LEMMA WakeReady ==
    ASSUME TypeOK, CallOK, ListInv, NEW s \in Semas
    PROVE  /\ ReadyFor(ReadyAfterWake(s), StatusAfterWake(s))
           /\ {t \in Thread : StatusAfterWake(s)[t] = "RUNNING"} = {current}
           /\ \A t \in Thread : StatusAfterWake(s)[t] = "BLOCKED" <=>
                  status[t] = "BLOCKED" /\ (waiters[s] # << >> => t # Head(waiters[s]))
<1>1. CASE waiters[s] = << >>
  BY <1>1, RunningFacts DEF StatusAfterWake, ReadyAfterWake
<1>2. CASE waiters[s] # << >>
  <2>1. PICK h \in Thread \ {Idle, current} : h = Head(waiters[s]) /\ status[h] = "BLOCKED"
    BY <1>2, WakeFacts DEF Waits
  <2> DEFINE st == [status EXCEPT ![h] = "READY"]
  <2>2. StatusAfterWake(s) = st /\ ReadyAfterWake(s) = InsertOrdered(ready_list, h, priority)
    BY <1>2, <2>1 DEF StatusAfterWake, ReadyAfterWake
  <2>3. st[h] = "READY" /\ \A t \in Thread \ {h} : st[t] = status[t]
    BY <2>1 DEF TypeOK, ThreadTypeOK
  <2> HIDE DEF st
  <2>4. h \notin Members(ready_list) BY <2>1, RunningFacts DEF ReadyFor
  <2>5. ReadyFor(InsertOrdered(ready_list, h, priority), st)
    <3>1. /\ Linear(InsertOrdered(ready_list, h, priority))
          /\ Sorted(InsertOrdered(ready_list, h, priority), priority)
          /\ Members(InsertOrdered(ready_list, h, priority)) = Members(ready_list) \cup {h}
      BY <2>4, RunningFacts, InsertOrderedLinear, InsertOrderedSorted, InsertOrderedMembers
         DEF ReadyFor
    <3> QED BY <2>1, <2>3, <3>1, RunningFacts DEF ReadyFor
  <2>6. {t \in Thread : st[t] = "RUNNING"} = {current} BY <2>1, <2>3, RunningFacts
  <2> QED BY <1>2, <2>1, <2>2, <2>3, <2>5, <2>6
<1> QED BY <1>1, <1>2

\* semaphore_up(), however the processor is given away at its end.
LEMMA WakeLists ==
    ASSUME TypeOK, CallOK, CallOK', ListInv, NEW s \in Semas, SemaphoreWake(s),
           ReadyOK', priority' = priority, OthersKeep, CreatesKeep,
           \A t \in Thread \ {Idle} :
               status'[t] = "BLOCKED" <=> StatusAfterWake(s)[t] = "BLOCKED"
    PROVE  ListInv'
<1>1. CASE waiters[s] = << >>
  <2>1. waiters' = waiters
    BY <1>1 DEF SemaphoreWake, AfterPop, TypeOK, SemaTypeOK
  <2>2. \A t \in Thread \ {Idle} : status'[t] = "BLOCKED" <=> status[t] = "BLOCKED"
    BY <1>1, WakeReady
  <2> QED BY <2>1, <2>2, ListFrame
<1>2. CASE waiters[s] # << >>
  <2>1. PICK h \in Thread \ {Idle, current} :
            /\ h = Head(waiters[s]) /\ Waits(h, s)
            /\ Members(AfterPop(waiters[s])) = Members(waiters[s]) \ {h}
    BY <1>2, WakeFacts
  <2>2. \A t \in Thread \ {Idle} :
            status'[t] = "BLOCKED" <=> status[t] = "BLOCKED" /\ t # h
    BY <1>2, <2>1, WakeReady
  <2>3. \A t \in Thread \ {h}, r \in Semas : Waits(t, r)' <=> Waits(t, r)
    <3> SUFFICES ASSUME NEW t \in Thread \ {h}, NEW r \in Semas
                 PROVE  Waits(t, r)' <=> Waits(t, r)
      OBVIOUS
    <3>1. CASE t # current BY <2>2, <3>1, WaitsFrame
    <3>2. CASE t = current /\ t # Idle BY <2>2, <3>2, RunningFacts DEF Waits
    <3>3. CASE t = Idle BY <3>3, ConstantFacts DEF Waits, CallOK, ThreadCallOK
    <3> QED BY <3>1, <3>2, <3>3
  <2>4. \A r \in Semas : ~Waits(h, r)' /\ (Waits(h, r) => r = s)
    BY <2>1, <2>2 DEF Waits
  <2>5. waiters' = [waiters EXCEPT ![s] = AfterPop(@)] /\ waiters \in [Semas -> Seq(Thread)]
    BY DEF SemaphoreWake, TypeOK, SemaTypeOK
  <2>6. ASSUME NEW r \in Semas \ {s} PROVE WaitersOK(r)'
    <3>1. waiters'[r] = waiters[r] /\ WaitersOK(r) BY <2>5 DEF ListInv
    <3> QED BY <2>3, <2>4, <3>1, WaitersFrame
  <2>7. WaitersOK(s)'
    <3>1. waiters'[s] = AfterPop(waiters[s]) /\ waiters[s] \in Seq(Thread) /\ WaitersOK(s)
      BY <2>5 DEF ListInv
    <3>2. Linear(waiters'[s]) /\ Sorted(waiters'[s], priority)
      BY <3>1, AfterPopOrder DEF WaitersOK
    <3>3. Members(waiters'[s]) = {t \in Thread : Waits(t, s)'}
      BY <2>1, <2>3, <2>4, <3>1 DEF WaitersOK
    <3> QED BY <3>2, <3>3 DEF WaitersOK
  <2>8. ChildUntouched'
    <3>1. \A t \in Thread \ {Idle} :
              status[t] = "BLOCKED" /\ pc[t] = "run" => status'[t] = "BLOCKED"
      BY <2>1, <2>2 DEF Waits
    <3> QED BY <3>1, ChildFrame
  <2> QED BY <2>6, <2>7, <2>8 DEF ListInv
<1> QED BY <1>1, <1>2

\* semaphore_up() by a thread: the lists, and who runs after it.
LEMMA UpLists ==
    ASSUME TypeOK, CallOK, CallOK', ListInv, NEW s \in Semas, SemaphoreUp(s),
           OthersKeep, CreatesKeep
    PROVE  /\ ListInv'
           /\ TopRuns'
<1>1. /\ StatusAfterWake(s) \in [Thread -> Status] /\ ReadyAfterWake(s) \in Seq(Thread)
      /\ YieldFrom(StatusAfterWake(s), ReadyAfterWake(s)) /\ priority' = priority
      /\ SemaphoreWake(s) /\ ThreadTypeOK
  BY WakeType DEF SemaphoreUp, TypeOK
<1>2. /\ ReadyOK'
      /\ \A t \in Thread \ {Idle} :
             status'[t] = "BLOCKED" <=> StatusAfterWake(s)[t] = "BLOCKED"
      /\ TopRuns'
  BY <1>1, WakeReady, YieldLists
<1> QED BY <1>1, <1>2, WakeLists

-----------------------------------------------------------------------------
(* Who runs.                                                               *)

\* What thread_create() and thread_set_priority() will find at the front.
WillYield == ready_list # << >> /\ priority[Head(ready_list)] >= pri_arg[current]

\* The priority that thread_create() compares is that of the thread it made.
ChildPriority == \A t \in Thread : task[t] = "create" => priority[arg[t]] = pri_arg[t]

RunsInv == HighestRuns /\ DecisionOK /\ ChildPriority

LEMMA RunsInvIs ==
    ASSUME TypeOK
    PROVE  RunsInv <=> /\ panic = "none" => TopRuns \/ (Deciding /\ WillYield)
                       /\ ChildPriority
BY DEF RunsInv, HighestRuns, DecisionOK, TopRuns, WillYield, Members, self, TypeOK, ThreadTypeOK

\* Calls of thread_create() keep their child and its priority.
LEMMA ChildPriorityFrame ==
    ASSUME TypeOK, CallOK, ListInv, ChildPriority, OthersKeep, CreatesKeep,
           \A t \in Thread : status[t] = "BLOCKED" => priority'[t] = priority[t],
           \A t \in Thread : task'[t] = "create" => pri_arg'[t] = pri_arg[t]
    PROVE  ChildPriority'
<1> SUFFICES ASSUME NEW t \in Thread, task'[t] = "create"
             PROVE  priority'[arg'[t]] = pri_arg'[t]
  BY DEF ChildPriority
<1>1. task[t] = "create" /\ arg'[t] = arg[t] BY DEF OthersKeep, CreatesKeep
<1>2. arg[t] \in Thread /\ status[arg[t]] = "BLOCKED"
  BY <1>1 DEF ListInv, ChildUntouched, CallOK, ThreadCallOK
<1> QED BY <1>1, <1>2 DEF ChildPriority

\* After a thread switch the running thread is the highest.
LEMMA SwitchRuns ==
    ASSUME TypeOK, TypeOK', CallOK, ListInv, RunsInv, TopRuns', priority' = priority,
           OthersKeep, CreatesKeep,
           \A t \in Thread : task'[t] = "create" => pri_arg'[t] = pri_arg[t]
    PROVE  RunsInv'
<1>1. ChildPriority' BY ChildPriorityFrame DEF RunsInv
<1>2. TypeOK' /\ (panic' = "none" => TopRuns' \/ (Deciding' /\ WillYield')) OBVIOUS
<1> QED BY <1>1, <1>2, RunsInvIs, PTL

-----------------------------------------------------------------------------
(* One lemma per kind of action.                                           *)

KernelInv == ListInv /\ RunsInv

\* A step of the running thread, not on its way to a decision, that leaves the
\* scheduler alone.
LEMMA OwnInv ==
    ASSUME TypeOK, CallOK, TypeOK', CallOK', KernelInv, panic = "none",
           UNCHANGED <<threadVars, waiters, pri_arg>>,
           pc[current] \notin {"check", "front"}, OthersKeep, CreatesKeep
    PROVE  KernelInv'
<1>1. ListInv' BY OwnLists DEF KernelInv
<1>2. TopRuns BY RunsInvIs DEF KernelInv, Deciding, self
<1>3. TopRuns' /\ priority' = priority BY <1>2 DEF TopRuns, threadVars
<1>4. RunsInv' BY <1>3, SwitchRuns DEF KernelInv
<1> QED BY <1>1, <1>4 DEF KernelInv

\* One that moves to a point of the call it is in, or of none.
LEMMA GotoInv ==
    ASSUME TypeOK, CallOK, TypeOK', CallOK', KernelInv, panic = "none",
           UNCHANGED <<threadVars, waiters, pri_arg>>,
           pc[current] \notin {"check", "front"},
           NEW p, NEW q, Goto(p, q),
           \/ UNCHANGED <<task, arg>>
           \/ \E k \in Task \ {"create"} : \E a : SetTask(k, a)
    PROVE  KernelInv'
<1>1. OthersKeep /\ CreatesKeep
  <2>1. CASE UNCHANGED <<task, arg>> BY <2>1, GotoKeeps
  <2>2. CASE \E k \in Task \ {"create"} : \E a : SetTask(k, a)
    BY <2>2, CallKeeps DEF CreatesKeep
  <2> QED BY <2>1, <2>2
<1> QED BY <1>1, OwnInv

\* semaphore_down(), from where it is called or where it is resumed.
LEMMA DownInv ==
    ASSUME TypeOK, CallOK, TypeOK', CallOK', KernelInv, panic = "none",
           NEW s \in Semas, Down(s), current # Idle,
           UNCHANGED <<task, arg, pri_arg>>, pc[current] \notin {"check", "front"}
    PROVE  KernelInv'
<1>1. CASE SemaphoreTake(s) /\ AfterDown(s)
  <2>1. PICK p, q : Goto(p, q) BY <1>1 DEF AfterDown
  <2>2. UNCHANGED <<threadVars, waiters>> BY <1>1 DEF SemaphoreTake
  <2> QED BY <2>1, <2>2, GotoInv
<1>2. CASE SemaphoreSleep(s) /\ Goto("down", s)
  <2>1. ListInv' /\ TopRuns' BY <1>2, SleepLists DEF KernelInv
  <2>2. OthersKeep /\ CreatesKeep BY <1>2, GotoKeeps
  <2>3. priority' = priority BY <1>2 DEF SemaphoreSleep
  <2> QED BY <2>1, <2>2, <2>3, SwitchRuns DEF KernelInv
<1> QED BY <1>1, <1>2 DEF Down

\* semaphore_up(), called by a thread.
LEMMA UpInv ==
    ASSUME TypeOK, CallOK, TypeOK', CallOK', KernelInv,
           NEW s \in Semas, SemaphoreUp(s), OthersKeep, CreatesKeep, UNCHANGED pri_arg
    PROVE  KernelInv'
<1>1. ListInv' /\ TopRuns' BY UpLists DEF KernelInv
<1>2. priority' = priority BY DEF SemaphoreUp
<1> QED BY <1>1, <1>2, SwitchRuns DEF KernelInv

\* A step that leaves every call state alone.
LEMMA SameCalls ==
    ASSUME UNCHANGED <<pc, target, task, arg>> PROVE OthersKeep /\ CreatesKeep
BY DEF OthersKeep, CreatesKeep

\* thread_yield() with nobody woken.
LEMMA YieldInv ==
    ASSUME TypeOK, CallOK, TypeOK', CallOK', KernelInv, ThreadYield, priority' = priority,
           waiters' = waiters, OthersKeep, CreatesKeep,
           \A t \in Thread : task'[t] = "create" => pri_arg'[t] = pri_arg[t]
    PROVE  KernelInv'
<1>1. /\ YieldFrom(status, ready_list) /\ status \in [Thread -> Status]
      /\ ReadyFor(ready_list, status) /\ ready_list \in Seq(Thread) /\ ThreadTypeOK
      /\ {t \in Thread : status[t] = "RUNNING"} = {current}
  BY RunningFacts DEF ThreadYield, TypeOK, ThreadTypeOK, KernelInv, ListInv, ReadyOK, ReadyListOK
<1>2. /\ ReadyOK' /\ TopRuns'
      /\ \A t \in Thread \ {Idle} : status'[t] = "BLOCKED" <=> status[t] = "BLOCKED"
  BY <1>1, YieldLists
<1>3. ListInv' BY <1>2, ListFrame DEF KernelInv
<1> QED BY <1>2, <1>3, SwitchRuns DEF KernelInv

\* thread_exit(), and the idle thread's thread_block().
LEMMA LeaveInv ==
    ASSUME TypeOK, CallOK, TypeOK', CallOK', KernelInv, Exit \/ IdleBlock
    PROVE  KernelInv'
<1>1. PICK c \in Thread : c = current BY RunningFacts DEF KernelInv
<1>2. /\ waiters' = waiters /\ priority' = priority /\ pri_arg' = pri_arg
      /\ UNCHANGED <<pc, target, task, arg>>
  BY DEF Exit, IdleBlock, semaVars, callVars
<1>3. PICK x \in {"DYING", "FREE", "BLOCKED"} :
          /\ Schedule([status EXCEPT ![current] = x], ready_list)
          /\ x = "BLOCKED" => c = Idle
  BY <1>1 DEF Exit, ThreadExit, IdleBlock, ThreadBlock, self
<1>4. x \in Status \ {"READY", "RUNNING"} BY DEF Status
<1>5. /\ ReadyOK' /\ TopRuns'
      /\ \A t \in Thread \ {Idle, c} : status'[t] = "BLOCKED" <=> status[t] = "BLOCKED"
      /\ c # Idle => (status'[c] = "BLOCKED" <=> x = "BLOCKED")
  BY <1>1, <1>2, <1>3, <1>4, LeaveLists DEF TypeOK, KernelInv, ListInv
<1>6. \A t \in Thread \ {Idle} : status'[t] = "BLOCKED" <=> status[t] = "BLOCKED"
  BY <1>1, <1>3, <1>5, RunningFacts DEF KernelInv
<1>7. OthersKeep /\ CreatesKeep BY <1>2, SameCalls
<1>8. ListInv' BY <1>2, <1>5, <1>6, <1>7, ListFrame DEF KernelInv
<1> QED BY <1>2, <1>5, <1>7, <1>8, SwitchRuns DEF KernelInv

\* thread_tick().
LEMMA TickInv ==
    ASSUME TypeOK, CallOK, TypeOK', CallOK', KernelInv, Tick
    PROVE  KernelInv'
<1>1. /\ panic = "none" /\ panic' = panic /\ UNCHANGED <<pc, target, task, arg>>
      /\ pri_arg' = pri_arg /\ waiters' = waiters
  BY DEF Tick, callVars, semaVars
<1>2. OthersKeep /\ CreatesKeep BY <1>1, SameCalls
<1>3. CASE ThreadYield /\ UNCHANGED priority BY <1>1, <1>2, <1>3, YieldInv
<1>4. CASE UNCHANGED <<status, priority, ready_list, current>>
  <2>1. ReadyOK' BY <1>4 DEF KernelInv, ListInv, ReadyOK, ReadyListOK
  <2>2. ListInv' BY <1>1, <1>2, <1>4, <2>1, ListFrame DEF KernelInv
  <2>3. ChildPriority' BY <1>1, <1>2, <1>4, ChildPriorityFrame DEF KernelInv, RunsInv
  <2>4. HighestRuns' /\ DecisionOK'
    BY <1>1, <1>4 DEF KernelInv, RunsInv, HighestRuns, DecisionOK, Deciding, self
  <2> QED BY <2>2, <2>3, <2>4 DEF KernelInv, RunsInv
<1> QED BY <1>3, <1>4 DEF Tick, ThreadTick

\* semaphore_up() by an interrupt handler: the waiter is woken, then the
\* kernel stops.
LEMMA InterruptUpInv ==
    ASSUME TypeOK, CallOK, TypeOK', CallOK', KernelInv, NEW s \in Semas, InterruptUp(s)
    PROVE  KernelInv'
<1>1. /\ SemaphoreWake(s) /\ status' = StatusAfterWake(s) /\ ready_list' = ReadyAfterWake(s)
      /\ UNCHANGED <<priority, current, pri_arg, pc, target, task, arg>>
      /\ panic' = "intr_context"
  BY DEF InterruptUp, callVars
<1>2. OthersKeep /\ CreatesKeep BY <1>1, SameCalls
<1>3. ReadyOK' BY <1>1, WakeReady DEF KernelInv, ReadyOK, ReadyListOK, ReadyFor
<1>4. ListInv' BY <1>1, <1>2, <1>3, WakeLists DEF KernelInv
<1>5. ChildPriority' BY <1>1, <1>2, ChildPriorityFrame DEF KernelInv, RunsInv
<1>6. HighestRuns' /\ DecisionOK' BY <1>1 DEF HighestRuns, DecisionOK
<1> QED BY <1>4, <1>5, <1>6 DEF KernelInv, RunsInv

\* Nobody sleeps on the waiter of a running thread: condvar_wait() makes it anew
\* over an empty list.
LEMMA OwnWaiterEmpty ==
    ASSUME TypeOK, CallOK, ListInv
    PROVE  waiters[current] = << >>
<1>1. PICK c \in Thread : c = current /\ c \in Semas BY RunningFacts, ConstantFacts
<1>2. waiters[c] \in Seq(Thread) /\ Members(waiters[c]) = {t \in Thread : Waits(t, c)}
  BY <1>1 DEF TypeOK, SemaTypeOK, ListInv, WaitersOK
<1>3. ASSUME NEW t \in Thread, Waits(t, c) PROVE FALSE
  <2>1. target[t] = c /\ pc[t] = "down" /\ ThreadCallOK(t) BY <1>3 DEF Waits, CallOK
  <2>2. task[t] = "wait" /\ arg[t] \in Cond BY <1>1, <2>1 DEF ThreadCallOK
  <2>3. t = c BY <1>1, <2>1, <2>2, ConstantFacts DEF ThreadCallOK
  <2> QED BY <1>1, <1>3, <2>3, RunningFacts
<1>4. Members(waiters[c]) = {} BY <1>2, <1>3
<1>5. \A i \in 1 .. Len(waiters[c]) : waiters[c][i] \in Members(waiters[c])
  BY DEF Members
<1> QED BY <1>1, <1>2, <1>4, <1>5

LEMMA CondvarWaitInv ==
    ASSUME TypeOK, CallOK, TypeOK', CallOK', KernelInv, NEW d \in Cond, CondvarWait(d)
    PROVE  KernelInv'
<1>1. waiters' = waiters
  BY OwnWaiterEmpty, ConstantFacts, RunningFacts
     DEF CondvarWait, CondvarEnqueue, SemaphoreInit, KernelInv, TypeOK, SemaTypeOK
<1>2. /\ panic = "none" /\ UNCHANGED <<threadVars, pri_arg>> /\ pc[current] = "run"
      /\ Goto("up", LockOf[d]) /\ SetTask("wait", d) /\ "wait" \in Task \ {"create"}
  BY DEF CondvarWait, AtUser, At, self, Task
<1> QED BY <1>1, <1>2, GotoInv

\* thread_create() up to allocate_tid(): the page was nobody's.
LEMMA ThreadCreateInv ==
    ASSUME TypeOK, CallOK, TypeOK', CallOK', KernelInv,
           NEW child \in Thread, NEW p \in Priority, ThreadCreate(child, p)
    PROVE  KernelInv'
<1>1. PICK c \in Thread : c = current BY RunningFacts DEF KernelInv
<1>2. /\ panic = "none" /\ pc[c] = "run" /\ child # Idle /\ status[child] = "FREE"
      /\ status' = [status EXCEPT ![child] = "BLOCKED"]
      /\ priority' = [priority EXCEPT ![child] = p]
      /\ pri_arg' = [pri_arg EXCEPT ![c] = p]
      /\ UNCHANGED <<ready_list, current, waiters>>
      /\ Goto("enter", TidLock) /\ SetTask("create", child)
  BY <1>1 DEF ThreadCreate, InitThread, AtUser, At, self, semaVars
<1>3. child # c /\ pc[child] = "run"
  BY <1>1, <1>2, RunningFacts DEF KernelInv, CallOK, ThreadCallOK
<1>4. /\ \A t \in Thread \ {child} : status'[t] = status[t] /\ priority'[t] = priority[t]
      /\ status'[child] = "BLOCKED" /\ priority'[child] = p
      /\ \A t \in Thread \ {c} : pri_arg'[t] = pri_arg[t]
      /\ pri_arg'[c] = p
  BY <1>2 DEF TypeOK, ThreadTypeOK, CallTypeOK
<1>5. OthersKeep /\ task'[c] = "create" /\ arg'[c] = child /\ pc'[c] = "enter"
  BY <1>1, <1>2, CallKeeps
<1>6. ReadyOK' /\ TopRuns'
  <2>1. child \notin Members(ready_list) BY <1>2, RunningFacts DEF KernelInv, ReadyFor
  <2>2. ReadyFor(ready_list, status) /\ ready_list \in Seq(Thread)
    BY RunningFacts DEF KernelInv
  <2>3. Sorted(ready_list, priority')
    <3>1. \A t \in Members(ready_list) : priority'[t] = priority[t]
      BY <1>4, <2>1, <2>2 DEF ReadyFor
    <3> QED BY <2>2, <3>1, SortedFrame DEF ReadyFor
  <2>4. TopRuns BY <1>1, <1>2, RunsInvIs DEF KernelInv, Deciding, self
  <2>5. TopRuns' BY <1>1, <1>2, <1>3, <1>4, <2>1, <2>2, <2>4 DEF TopRuns, ReadyFor
  <2>6. {t \in Thread : status'[t] = "RUNNING"} = {current'}
    BY <1>1, <1>2, <1>3, <1>4, RunningFacts DEF KernelInv
  <2>7. Members(ready_list) = {t \in Thread \ {Idle} : status'[t] = "READY"}
    BY <1>2, <1>4, <2>2 DEF ReadyFor
  <2> QED BY <1>2, <2>2, <2>3, <2>5, <2>6, <2>7 DEF ReadyOK, ReadyListOK, ReadyFor
<1>7. ASSUME NEW s \in Semas PROVE WaitersOK(s)'
  <2>1. \A t \in Thread : Waits(t, s)' <=> Waits(t, s)
    BY <1>1, <1>2, <1>3, <1>4, <1>5, RunningFacts DEF Waits, KernelInv, OthersKeep
  <2>2. \A t \in Thread : Waits(t, s) => priority'[t] = priority[t]
    BY <1>2, <1>4 DEF Waits
  <2> QED BY <1>2, <2>1, <2>2, WaitersFrame DEF KernelInv, ListInv
<1>8. \A t \in Thread \ {c} : task'[t] = "create" =>
          /\ task[t] = "create" /\ arg'[t] = arg[t] /\ arg[t] \in Thread \ {child, c}
          /\ status[arg[t]] = "BLOCKED" /\ pc[arg[t]] = "run"
          /\ \A u \in Thread : task[u] = "create" /\ arg[u] = arg[t] => u = t
  BY <1>1, <1>2, <1>5, RunningFacts
     DEF KernelInv, ListInv, ChildUntouched, CallOK, ThreadCallOK, OthersKeep
<1>9. ChildUntouched'
  BY <1>1, <1>3, <1>4, <1>5, <1>8 DEF ChildUntouched, OthersKeep
<1>10. ChildPriority'
  BY <1>1, <1>4, <1>5, <1>8 DEF ChildPriority, KernelInv, RunsInv
<1>11. RunsInv' BY <1>6, <1>10, RunsInvIs, PTL
<1> QED BY <1>6, <1>7, <1>9, <1>11 DEF KernelInv, ListInv

\* thread_create() unblocks its child, whose priority it is about to compare.
LEMMA UnblockChildInv ==
    ASSUME TypeOK, CallOK, TypeOK', CallOK', KernelInv, UnblockChild
    PROVE  KernelInv'
<1>1. PICK c \in Thread : c = current BY RunningFacts DEF KernelInv
<1>2. task[c] = "create" /\ pc[c] = "unblock" /\ arg[c] \in Thread \ {Idle}
  BY <1>1, SelfType DEF UnblockChild, At, self, ThreadCallOK, Task
<1>3. PICK child \in Thread \ {Idle} : child = arg[c] BY <1>2
<1>4. /\ status[child] = "BLOCKED" /\ pc[child] = "run" /\ child # c
      /\ \A u \in Thread : task[u] = "create" /\ arg[u] = child => u = c
      /\ priority[child] = pri_arg[c]
  BY <1>1, <1>2, <1>3, RunningFacts
     DEF KernelInv, ListInv, ChildUntouched, RunsInv, ChildPriority
<1>5. /\ status' = [status EXCEPT ![child] = "READY"]
      /\ ready_list' = InsertOrdered(ready_list, child, priority)
      /\ UNCHANGED <<priority, current, waiters, pri_arg, panic>>
      /\ Goto("check", Nil) /\ SetTask("none", Nil)
  BY <1>1, <1>3 DEF UnblockChild, ThreadUnblock, self, semaVars
<1>6. status'[child] = "READY" /\ \A t \in Thread \ {child} : status'[t] = status[t]
  BY <1>5 DEF TypeOK, ThreadTypeOK
<1>7. OthersKeep /\ task'[c] = "none" /\ pc'[c] = "check"
  BY <1>1, <1>5, CallKeeps
<1>8. /\ Linear(ready_list') /\ Sorted(ready_list', priority)
      /\ Members(ready_list') = Members(ready_list) \cup {child}
      /\ ready_list' # << >> /\ ready_list' \in Seq(Thread)
  <2>1. child \notin Members(ready_list) BY <1>4, RunningFacts DEF KernelInv, ReadyFor
  <2> QED BY <1>5, <2>1, RunningFacts, InsertOrderedLinear, InsertOrderedSorted,
             InsertOrderedMembers, InsertOrderedType DEF KernelInv, ReadyFor
<1>9. ReadyOK'
  <2>1. Members(ready_list') = {t \in Thread \ {Idle} : status'[t] = "READY"}
    BY <1>3, <1>6, <1>8, RunningFacts DEF KernelInv, ReadyFor
  <2>2. {t \in Thread : status'[t] = "RUNNING"} = {current'}
    BY <1>1, <1>4, <1>5, <1>6, RunningFacts DEF KernelInv
  <2> QED BY <1>5, <1>8, <2>1, <2>2 DEF ReadyOK, ReadyListOK
<1>10. ASSUME NEW s \in Semas PROVE WaitersOK(s)'
  <2>1. \A t \in Thread : Waits(t, s)' <=> Waits(t, s)
    BY <1>1, <1>4, <1>6, <1>7, RunningFacts DEF Waits, KernelInv, OthersKeep
  <2> QED BY <1>5, <2>1, WaitersFrame DEF KernelInv, ListInv
<1>11. \A t \in Thread : task'[t] = "create" =>
          /\ t # c /\ task[t] = "create" /\ arg'[t] = arg[t]
          /\ arg[t] \in Thread \ {child, c}
          /\ status[arg[t]] = "BLOCKED" /\ pc[arg[t]] = "run"
          /\ \A u \in Thread : task[u] = "create" /\ arg[u] = arg[t] => u = t
  BY <1>1, <1>4, <1>7, RunningFacts
     DEF KernelInv, ListInv, ChildUntouched, CallOK, ThreadCallOK, OthersKeep
<1>12. ChildUntouched'
  BY <1>1, <1>6, <1>7, <1>11 DEF ChildUntouched, OthersKeep
<1>13. ChildPriority'
  BY <1>5, <1>11 DEF ChildPriority, KernelInv, RunsInv
<1>14. Deciding' /\ WillYield'
  <2>1. priority[Head(ready_list')] >= priority[child]
    BY <1>8, HeadIsGreatest, RunningFacts DEF KernelInv
  <2> QED BY <1>1, <1>4, <1>5, <1>7, <1>8, <2>1 DEF Deciding, WillYield, self
<1>15. RunsInv' BY <1>13, <1>14, RunsInvIs, PTL
<1> QED BY <1>9, <1>10, <1>12, <1>15 DEF KernelInv, ListInv

\* thread_set_priority() changes a priority that no list is sorted by; if it
\* leaves a ready thread higher, that one is at the front.
LEMMA SetPriorityInv ==
    ASSUME TypeOK, CallOK, TypeOK', CallOK', KernelInv, NEW p \in Priority, ThreadSetPriority(p)
    PROVE  KernelInv'
<1>1. PICK c \in Thread : c = current BY RunningFacts DEF KernelInv
<1>2. /\ panic = "none" /\ pc[c] = "run" /\ task[c] = "none"
      /\ UNCHANGED <<status, ready_list, current, waiters>>
      /\ priority' = [priority EXCEPT ![c] = p] /\ pri_arg' = [pri_arg EXCEPT ![c] = p]
      /\ Goto("check", Nil) /\ UNCHANGED <<task, arg>>
  BY <1>1, SelfType
     DEF ThreadSetPriority, AtUser, At, self, semaVars, SameTask, ThreadCallOK
<1>3. /\ priority'[c] = p /\ pri_arg'[c] = p
      /\ \A t \in Thread \ {c} : priority'[t] = priority[t] /\ pri_arg'[t] = pri_arg[t]
  BY <1>2 DEF TypeOK, ThreadTypeOK, CallTypeOK
<1>4. OthersKeep /\ CreatesKeep /\ pc'[c] = "check" BY <1>1, <1>2, GotoKeeps
<1>5. /\ ReadyFor(ready_list, status) /\ ready_list \in Seq(Thread) /\ c \notin Members(ready_list)
      /\ priority \in [Thread -> Int] /\ p \in Int /\ status[c] = "RUNNING"
  BY <1>1, RunningFacts, ConstantFacts DEF KernelInv, ReadyFor
<1>6. \A t \in Members(ready_list) : priority'[t] = priority[t] BY <1>3, <1>5 DEF ReadyFor
<1>7. ReadyOK'
  <2>1. Sorted(ready_list, priority') BY <1>5, <1>6, SortedFrame DEF ReadyFor
  <2> QED BY <1>2, <2>1 DEF KernelInv, ListInv, ReadyOK, ReadyListOK
<1>8. ListInv'
  <2>1. \A t \in Thread : status[t] = "BLOCKED" => priority'[t] = priority[t]
    BY <1>3, <1>5
  <2> QED BY <1>2, <1>4, <1>7, <2>1, ListFrame DEF KernelInv
<1>9. TopRuns' \/ (Deciding' /\ WillYield')
  <2>1. CASE ready_list = << >> BY <1>2, <2>1 DEF TopRuns, Members
  <2>2. CASE ready_list # << >>
    <3>1. PICK h \in Members(ready_list) :
              h = Head(ready_list) /\ \A t \in Members(ready_list) : priority[t] <= priority[h]
      BY <1>5, <2>2, HeadIsGreatest, AfterPopMembers DEF ReadyFor
    <3>2. CASE priority[h] >= p
      BY <1>1, <1>2, <1>3, <1>4, <1>6, <2>2, <3>1, <3>2 DEF Deciding, WillYield, self
    <3>3. CASE priority[h] < p
      <4>1. ASSUME NEW t \in Members(ready_list) PROVE priority'[t] <= p
        <5>1. t \in Thread /\ h \in Thread BY <1>5 DEF ReadyFor
        <5> QED BY <1>5, <1>6, <3>1, <3>3, <5>1
      <4> QED BY <1>1, <1>2, <1>3, <4>1 DEF TopRuns
    <3>4. h \in Thread BY <1>5 DEF ReadyFor
    <3> QED BY <1>5, <3>2, <3>3, <3>4
  <2> QED BY <2>1, <2>2
<1>10. ChildPriority'
  <2>1. \A t \in Thread : task'[t] = "create" => t # c BY <1>2
  <2> QED BY <1>3, <1>4, <1>5, <2>1, ChildPriorityFrame DEF KernelInv, RunsInv
<1>11. RunsInv' BY <1>9, <1>10, RunsInvIs, PTL
<1> QED BY <1>8, <1>11 DEF KernelInv

\* The two looks at the ready list: nothing but the point changes.
LEMMA LookInv ==
    ASSUME TypeOK, CallOK, TypeOK', CallOK', KernelInv, panic' = "none",
           NEW p \in {"run", "front"}, Goto(p, Nil), UNCHANGED <<task, arg>>,
           UNCHANGED <<threadVars, waiters>>,
           \A t \in Thread : task'[t] = "create" => pri_arg'[t] = pri_arg[t],
           TopRuns \/ (p = "front" /\ WillYield /\ pri_arg' = pri_arg)
    PROVE  KernelInv'
<1>1. OthersKeep /\ CreatesKeep /\ pc'[current] = p BY GotoKeeps
<1>2. ListInv' BY <1>1, OwnLists DEF KernelInv
<1>3. ChildPriority' BY <1>1, ChildPriorityFrame DEF threadVars, KernelInv, RunsInv
<1>4. TopRuns => TopRuns' BY DEF TopRuns, threadVars
<1>5. p = "front" /\ WillYield /\ pri_arg' = pri_arg => Deciding' /\ WillYield'
  BY <1>1 DEF Deciding, WillYield, threadVars, self
<1>6. RunsInv' BY <1>3, <1>4, <1>5, RunsInvIs, PTL
<1> QED BY <1>2, <1>6 DEF KernelInv

LEMMA CheckReadyInv ==
    ASSUME TypeOK, CallOK, TypeOK', CallOK', KernelInv, CheckReady
    PROVE  KernelInv'
<1>1. /\ panic = "none" /\ panic' = "none" /\ UNCHANGED <<threadVars, waiters, task, arg, pri_arg>>
      /\ Goto(IF ready_list = << >> THEN "run" ELSE "front", Nil)
  BY DEF CheckReady, At, semaVars
<1>2. TopRuns \/ WillYield BY <1>1, RunsInvIs DEF KernelInv
<1>3. CASE ready_list = << >>
  <2>1. TopRuns BY <1>3 DEF TopRuns, Members
  <2> QED BY <1>1, <1>3, <2>1, LookInv
<1>4. CASE ready_list # << >> BY <1>1, <1>2, <1>4, LookInv
<1> QED BY <1>3, <1>4

LEMMA CheckFrontInv ==
    ASSUME TypeOK, CallOK, TypeOK', CallOK', KernelInv, CheckFront
    PROVE  KernelInv'
<1>1. PICK c \in Thread : c = current BY RunningFacts DEF KernelInv
<1>2. /\ panic = "none" /\ pc[c] = "front" /\ task[c] = "none"
      /\ UNCHANGED <<waiters, task, arg, priority>>
  BY <1>1, SelfType DEF CheckFront, At, self, semaVars, ThreadCallOK
<1>3. CASE ready_list = << >>
  <2>1. UNCHANGED <<status, ready_list, current, thread_ticks, pc, target, pri_arg>>
        /\ panic' = "list_front"
    BY <1>3 DEF CheckFront
  <2>2. OthersKeep /\ CreatesKeep BY <1>2, <2>1, SameCalls
  <2>3. ListInv' BY <1>2, <2>1, <2>2, OwnLists DEF KernelInv, threadVars
  <2>4. ChildPriority' BY <1>2, <2>1, <2>2, ChildPriorityFrame DEF KernelInv, RunsInv
  <2>5. HighestRuns' /\ DecisionOK' BY <2>1 DEF HighestRuns, DecisionOK
  <2> QED BY <2>3, <2>4, <2>5 DEF KernelInv, RunsInv
<1>4. CASE ready_list # << >>
  <2>1. /\ Goto("run", Nil) /\ pri_arg' = [pri_arg EXCEPT ![c] = PriMin] /\ panic' = panic
        /\ IF priority[Head(ready_list)] >= pri_arg[c]
           THEN ThreadYield ELSE UNCHANGED <<status, ready_list, current, thread_ticks>>
    BY <1>1, <1>4 DEF CheckFront, self
  <2>2. \A t \in Thread : task'[t] = "create" => pri_arg'[t] = pri_arg[t]
    BY <1>2, <2>1 DEF TypeOK, CallTypeOK
  <2>3. CASE ThreadYield
    <3>1. OthersKeep /\ CreatesKeep BY <1>2, <2>1, GotoKeeps
    <3> QED BY <1>2, <2>2, <2>3, <3>1, YieldInv
  <2>4. CASE /\ ~(priority[Head(ready_list)] >= pri_arg[c])
             /\ UNCHANGED <<status, ready_list, current, thread_ticks>>
    <3>1. TopRuns BY <1>1, <1>2, <2>4, RunsInvIs DEF KernelInv, WillYield
    <3> QED BY <1>2, <2>1, <2>2, <2>4, <3>1, LookInv DEF threadVars
  <2> QED BY <2>1, <2>3, <2>4
<1> QED BY <1>3, <1>4

-----------------------------------------------------------------------------
LEMMA KernelInit == Init => KernelInv
<1> SUFFICES ASSUME Init PROVE KernelInv OBVIOUS
<1>0. TypeOK /\ CallOK BY InitOK
<1>1. /\ status = [t \in Thread |-> IF t = Main THEN "RUNNING"
                                    ELSE IF t = Idle THEN "READY" ELSE "FREE"]
      /\ ready_list = << >> /\ current = Main /\ waiters = [s \in Semas |-> << >>]
      /\ \A t \in Thread : task[t] = "none"
  BY DEF Init, ThreadInit
<1>2. Members(<< >>) = {} /\ Linear(<< >>) /\ Sorted(<< >>, priority)
  BY DEF Members, Linear, Sorted
<1>3. ReadyOK BY <1>1, <1>2, ConstantFacts DEF ReadyOK, ReadyListOK
<1>4. ASSUME NEW s \in Semas PROVE WaitersOK(s) BY <1>1, <1>2 DEF WaitersOK, Waits
<1>5. TopRuns BY <1>1, <1>2 DEF TopRuns
<1>6. ChildUntouched /\ ChildPriority BY <1>1 DEF ChildUntouched, ChildPriority
<1>7. RunsInv BY <1>0, <1>5, <1>6, RunsInvIs
<1> QED BY <1>3, <1>4, <1>6, <1>7 DEF KernelInv, ListInv

\* The steps in which the running thread moves on inside its call.
LEMMA ContinueInv ==
    ASSUME TypeOK, CallOK, TypeOK', CallOK', KernelInv, Continue
    PROVE  KernelInv'
<1>1. CASE EnterDown \/ ResumeDown
  <2>1. /\ panic = "none" /\ pc[current] \in {"enter", "down"} /\ Down(target[current])
        /\ UNCHANGED <<task, arg, pri_arg>>
    BY <1>1 DEF EnterDown, ResumeDown, At, self
  <2>2. target[current] \in Semas /\ current # Idle BY <2>1, SelfType DEF ThreadCallOK
  <2> QED BY <2>1, <2>2, DownInv
<1>2. CASE InnerUp
  <2>1. /\ pc[current] = "up" /\ SemaphoreUp(target[current]) /\ UNCHANGED <<task, arg, pri_arg>>
        /\ \E p, q : Goto(p, q)
    BY <1>2 DEF InnerUp, At, self
  <2>2. target[current] \in Semas BY <2>1, SelfType DEF ThreadCallOK
  <2>3. OthersKeep /\ CreatesKeep BY <2>1, GotoKeeps
  <2> QED BY <2>1, <2>2, <2>3, UpInv
<1>3. CASE LockTaken
  <2>1. /\ panic = "none" /\ pc[current] = "taken" /\ UNCHANGED <<threadVars, waiters, pri_arg>>
        /\ \E p, q : Goto(p, q)
        /\ SameTask \/ SetTask("none", Nil)
    BY <1>3 DEF LockTaken, At, self, semaVars
  <2> QED BY <2>1, GotoInv DEF SameTask, Task
<1>4. CASE BroadcastNext \/ BroadcastDone \/ AllocateTid
  <2>1. /\ panic = "none" /\ pc[current] \in {"signals", "tid"}
        /\ UNCHANGED <<threadVars, waiters, pri_arg>>
        /\ \E p, q : Goto(p, q)
        /\ UNCHANGED <<task, arg>> \/ SetTask("none", Nil)
    BY <1>4 DEF BroadcastNext, BroadcastDone, AllocateTid, At, self, semaVars
  <2> QED BY <2>1, GotoInv DEF Task
<1> QED BY <1>1, <1>2, <1>3, <1>4, UnblockChildInv, CheckReadyInv, CheckFrontInv, LeaveInv
        DEF Continue

LEMMA KernelNext ==
    TypeOK /\ CallOK /\ KernelInv /\ [Next]_vars => KernelInv'
<1> SUFFICES ASSUME TypeOK, CallOK, KernelInv, [Next]_vars PROVE KernelInv'
  OBVIOUS
<1>0. TypeOK' /\ CallOK' BY NextOK
<1>1. CASE SemaphoreCall
  <2>1. PICK s \in Sem : SemaphoreDown(s) \/ SemaphoreTryDown(s) \/ SemaphoreRaise(s)
    BY <1>1 DEF SemaphoreCall
  <2>2. s \in Semas BY ConstantFacts
  <2>3. CASE SemaphoreDown(s)
    BY <1>0, <2>2, <2>3, DownInv DEF SemaphoreDown, AtUser, At, self
  <2>4. CASE SemaphoreTryDown(s)
    <3>1. /\ panic = "none" /\ pc[current] = "run"
          /\ UNCHANGED <<threadVars, waiters, pri_arg, pc, target, task, arg>>
      BY <2>4 DEF SemaphoreTryDown, SemaphoreTake, AtUser, At, self, callVars
    <3> QED BY <1>0, <3>1, SameCalls, OwnInv
  <2>5. CASE SemaphoreRaise(s)
    <3>1. SemaphoreUp(s) /\ UNCHANGED <<pri_arg, pc, target, task, arg>>
      BY <2>5 DEF SemaphoreRaise, callVars
    <3> QED BY <1>0, <2>2, <3>1, SameCalls, UpInv
  <2> QED BY <2>1, <2>3, <2>4, <2>5
<1>2. CASE LockCall
  <2>1. PICK l \in Lock : LockAcquire(l) \/ LockTryAcquire(l) \/ LockRelease(l)
    BY <1>2 DEF LockCall
  <2>2. l \in Semas BY ConstantFacts
  <2>3. CASE LockAcquire(l)
    BY <1>0, <2>2, <2>3, DownInv DEF LockAcquire, AtUser, At, self
  <2>4. CASE LockTryAcquire(l) \/ LockRelease(l)
    <3>1. /\ panic = "none" /\ pc[current] = "run"
          /\ UNCHANGED <<threadVars, waiters, pri_arg, task, arg>>
          /\ \E p, q : Goto(p, q)
      BY <2>4 DEF LockTryAcquire, LockRelease, SemaphoreTake, AtUser, At, self, semaVars
    <3> QED BY <1>0, <3>1, GotoInv
  <2> QED BY <2>1, <2>3, <2>4
<1>3. CASE CondvarCall
  <2>1. PICK d \in Cond : CondvarWait(d) \/ CondvarSignal(d) \/ CondvarBroadcast(d)
    BY <1>3 DEF CondvarCall
  <2>2. CASE CondvarSignal(d) \/ CondvarBroadcast(d)
    <3>1. /\ panic = "none" /\ pc[current] = "run"
          /\ UNCHANGED <<threadVars, waiters, pri_arg>>
          /\ \E p, q : Goto(p, q)
          /\ UNCHANGED <<task, arg>> \/ SetTask("broadcast", d)
      BY <2>2 DEF CondvarSignal, CondvarBroadcast, AtUser, At, self, semaVars
    <3> QED BY <1>0, <3>1, GotoInv DEF Task
  <2> QED BY <1>0, <2>1, <2>2, CondvarWaitInv
<1>4. CASE ThreadCall
  <2>1. CASE Yield
    <3>1. ThreadYield /\ priority' = priority
          /\ UNCHANGED <<waiters, pri_arg, pc, target, task, arg>>
      BY <2>1 DEF Yield, semaVars, callVars
    <3> QED BY <1>0, <3>1, SameCalls, YieldInv
  <2> QED BY <1>0, <1>4, <2>1, ThreadCreateInv, SetPriorityInv, LeaveInv DEF ThreadCall
<1>5. CASE Continue BY <1>0, <1>5, ContinueInv
<1>6. CASE Interrupt BY <1>0, <1>6, TickInv, InterruptUpInv, ConstantFacts DEF Interrupt
<1>7. CASE UNCHANGED vars
  <2>1. UNCHANGED <<threadVars, waiters, pc, target, task, arg, pri_arg, panic>>
    BY <1>7 DEF vars, semaVars, callVars
  <2>2. ListInv' BY <1>0, <2>1, SameCalls, OwnLists DEF KernelInv
  <2>3. RunsInv'
    BY <2>1 DEF KernelInv, RunsInv, HighestRuns, DecisionOK, ChildPriority, Deciding, self,
                threadVars
  <2> QED BY <2>2, <2>3 DEF KernelInv
<1> QED BY <1>1, <1>2, <1>3, <1>4, <1>5, <1>6, <1>7 DEF Next

\* Links and states agree, the lists are in order and the highest thread runs.
THEOREM ListsAgree == Spec => []ElemInOneList
<1>1. Init => TypeOK /\ CallOK /\ KernelInv BY InitOK, KernelInit
<1>2. TypeOK /\ CallOK /\ KernelInv /\ [Next]_vars => (TypeOK /\ CallOK /\ KernelInv)'
  BY NextOK, KernelNext
<1>3. KernelInv => ElemInOneList BY ListInvIs DEF KernelInv
<1> QED BY <1>1, <1>2, <1>3, PTL DEF Spec

\* Outside the two decisions of thread_create() and thread_set_priority() no
\* ready thread has a higher priority than the running one.
THEOREM HighestPriorityRuns == Spec => []HighestRuns
<1>1. Init => TypeOK /\ CallOK /\ KernelInv BY InitOK, KernelInit
<1>2. TypeOK /\ CallOK /\ KernelInv /\ [Next]_vars => (TypeOK /\ CallOK /\ KernelInv)'
  BY NextOK, KernelNext
<1>3. KernelInv => HighestRuns BY DEF KernelInv, RunsInv
<1> QED BY <1>1, <1>2, <1>3, PTL DEF Spec

-----------------------------------------------------------------------------
(* Wakeups: every step does one of four things to the semaphores.          *)

\* Nothing, but to make the waiter of the running thread anew.
Quiet == /\ waiters' = waiters /\ pc[current] # "down"
         /\ \A s \in Semas : waiters[s] # << >> => value'[s] = value[s]

\* A thread inside the loop of semaphore_down() is at its own semaphore.
AtLoop(s) == pc[current] = "down" => target[current] = s

Takes(s) == SemaphoreTake(s) /\ AtLoop(s)
Sleeps(s) == SemaphoreSleep(s) /\ AtLoop(s)
Wakes(s) == SemaphoreWake(s) /\ pc[current] # "down"

SemaStep ==
    /\ OthersKeep
    /\ Quiet \/ \E s \in Semas : Takes(s) \/ Sleeps(s) \/ Wakes(s)

LEMMA SemaSteps ==
    ASSUME TypeOK, CallOK, ListInv, Next PROVE SemaStep
<1>1. ASSUME NEW s \in Semas, Down(s), AtLoop(s), UNCHANGED <<task, arg>> PROVE SemaStep
  <2>1. \E p, q : Goto(p, q) BY <1>1 DEF Down, AfterDown
  <2>2. OthersKeep BY <1>1, <2>1, GotoKeeps
  <2> QED BY <1>1, <2>2 DEF Down, SemaStep, Takes, Sleeps
<1>2. ASSUME UNCHANGED <<waiters, value>>, pc[current] # "down", NEW p, NEW q, Goto(p, q),
             NEW k, NEW a, SetTask(k, a) \/ UNCHANGED <<task, arg>>
      PROVE  SemaStep
  <2>1. OthersKeep BY <1>2, CallKeeps, GotoKeeps
  <2> QED BY <1>2, <2>1 DEF SemaStep, Quiet
<1>3. ASSUME UNCHANGED <<pc, target, task, arg>>, pc[current] # "down",
             \/ UNCHANGED <<waiters, value>>
             \/ \E s \in Semas : SemaphoreTake(s) \/ SemaphoreWake(s)
      PROVE  SemaStep
  BY <1>3, SameCalls DEF SemaStep, Quiet, Takes, Wakes, AtLoop
<1>4. CASE SemaphoreCall
  <2>1. PICK s \in Sem : SemaphoreDown(s) \/ SemaphoreTryDown(s) \/ SemaphoreRaise(s)
    BY <1>4 DEF SemaphoreCall
  <2>2. s \in Semas /\ pc[current] = "run"
    BY <2>1, ConstantFacts DEF SemaphoreDown, SemaphoreTryDown, SemaphoreRaise, AtUser, At, self
  <2>3. CASE SemaphoreDown(s) BY <1>1, <2>2, <2>3 DEF SemaphoreDown, AtLoop
  <2>4. CASE SemaphoreTryDown(s) \/ SemaphoreRaise(s)
    BY <1>3, <2>2, <2>4 DEF SemaphoreTryDown, SemaphoreRaise, SemaphoreUp, callVars
  <2> QED BY <2>1, <2>3, <2>4
<1>5. CASE LockCall
  <2>1. PICK l \in Lock : LockAcquire(l) \/ LockTryAcquire(l) \/ LockRelease(l)
    BY <1>5 DEF LockCall
  <2>2. l \in Semas /\ pc[current] = "run"
    BY <2>1, ConstantFacts DEF LockAcquire, LockTryAcquire, LockRelease, AtUser, At, self
  <2>3. CASE LockAcquire(l) BY <1>1, <2>2, <2>3 DEF LockAcquire, AtLoop
  <2>4. CASE LockTryAcquire(l)
    <3>1. OthersKeep BY <2>4, GotoKeeps DEF LockTryAcquire
    <3> QED BY <2>2, <2>4, <3>1 DEF LockTryAcquire, SemaStep, Takes, AtLoop
  <2>5. CASE LockRelease(l) BY <1>2, <2>2, <2>5 DEF LockRelease, semaVars
  <2> QED BY <2>1, <2>3, <2>4, <2>5
<1>6. CASE CondvarCall
  <2>1. PICK d \in Cond : CondvarWait(d) \/ CondvarSignal(d) \/ CondvarBroadcast(d)
    BY <1>6 DEF CondvarCall
  <2>2. pc[current] = "run"
    BY <2>1 DEF CondvarWait, CondvarSignal, CondvarBroadcast, AtUser, At, self
  <2>3. CASE CondvarWait(d)
    <3>1. OthersKeep BY <2>3, CallKeeps DEF CondvarWait
    <3>2. waiters' = waiters /\ \A s \in Semas \ {current} : value'[s] = value[s]
      BY <2>3, OwnWaiterEmpty, RunningFacts, ConstantFacts
         DEF CondvarWait, CondvarEnqueue, SemaphoreInit, TypeOK, SemaTypeOK
    <3> QED BY <2>2, <3>1, <3>2, OwnWaiterEmpty DEF SemaStep, Quiet
  <2>4. CASE CondvarSignal(d) BY <1>2, <2>2, <2>4 DEF CondvarSignal, semaVars
  <2>5. CASE CondvarBroadcast(d) BY <1>2, <2>2, <2>5 DEF CondvarBroadcast, semaVars
  <2> QED BY <2>1, <2>3, <2>4, <2>5
<1>7. CASE ThreadCall
  <2>1. ASSUME NEW t \in Thread, NEW p \in Priority, ThreadCreate(t, p) PROVE SemaStep
    BY <1>2, <2>1 DEF ThreadCreate, AtUser, At, self, semaVars
  <2>2. ASSUME NEW p \in Priority, ThreadSetPriority(p) PROVE SemaStep
    BY <1>2, <2>2 DEF ThreadSetPriority, AtUser, At, self, semaVars, SameTask
  <2>3. CASE Yield \/ Exit
    BY <1>3, <2>3 DEF Yield, Exit, AtUser, At, self, semaVars, callVars
  <2> QED BY <1>7, <2>1, <2>2, <2>3 DEF ThreadCall
<1>8. CASE Continue
  <2>1. CASE EnterDown \/ ResumeDown
    <3>1. /\ pc[current] \in {"enter", "down"} /\ Down(target[current])
          /\ UNCHANGED <<task, arg>>
      BY <2>1 DEF EnterDown, ResumeDown, At, self
    <3>2. target[current] \in Semas BY <3>1, SelfType DEF ThreadCallOK
    <3> QED BY <1>1, <3>1, <3>2 DEF AtLoop
  <2>2. CASE InnerUp
    <3>1. /\ pc[current] = "up" /\ SemaphoreUp(target[current]) /\ UNCHANGED <<task, arg>>
          /\ \E p, q : Goto(p, q)
      BY <2>2 DEF InnerUp, At, self
    <3>2. target[current] \in Semas BY <3>1, SelfType DEF ThreadCallOK
    <3>3. OthersKeep BY <3>1, GotoKeeps
    <3> QED BY <3>1, <3>2, <3>3 DEF SemaStep, SemaphoreUp, Wakes
  <2>3. CASE LockTaken
    BY <1>2, <2>3 DEF LockTaken, At, self, semaVars, SameTask
  <2>4. CASE BroadcastNext \/ BroadcastDone \/ AllocateTid
    BY <1>2, <2>4 DEF BroadcastNext, BroadcastDone, AllocateTid, At, self, semaVars
  <2>5. CASE UnblockChild \/ CheckReady
    BY <1>2, <2>5 DEF UnblockChild, CheckReady, At, self, semaVars
  <2>6. CASE CheckFront
    <3>1. CASE ready_list = << >> BY <1>3, <2>6, <3>1 DEF CheckFront, At, self, semaVars
    <3>2. CASE ready_list # << >> BY <1>2, <2>6, <3>2 DEF CheckFront, At, self, semaVars
    <3> QED BY <3>1, <3>2
  <2>7. CASE IdleBlock BY <1>3, <2>7 DEF IdleBlock, At, self, semaVars, callVars
  <2> QED BY <1>8, <2>1, <2>2, <2>3, <2>4, <2>5, <2>6, <2>7 DEF Continue
<1>9. CASE Interrupt
  <2>1. CASE Tick BY <1>3, <2>1 DEF Tick, self, semaVars, callVars
  <2>2. ASSUME NEW s \in Sem, InterruptUp(s) PROVE SemaStep
    BY <1>3, <2>2, ConstantFacts DEF InterruptUp, self, callVars
  <2> QED BY <1>9, <2>1, <2>2 DEF Interrupt
<1> QED BY <1>4, <1>5, <1>6, <1>7, <1>8, <1>9 DEF Next

\* A woken thread that is not running stays so: it could only be blocked again
\* by being put on a waiters list.
LEMMA WokenStays ==
    ASSUME TypeOK, ListInv, ListInv', OthersKeep, NEW s \in Semas,
           NEW t \in Woken(s), t # current, waiters'[s] = waiters[s] \/ t \notin Members(waiters'[s])
    PROVE  t \in Woken(s)'
<1>1. t \in Thread /\ ~Waits(t, s) /\ pc'[t] = "down" /\ target'[t] = s
  BY DEF Woken, Waits, OthersKeep
<1>2. t \notin Members(waiters'[s]) BY <1>1 DEF ListInv, WaitersOK
<1>3. ~Waits(t, s)' BY <1>1, <1>2 DEF ListInv, WaitersOK
<1> QED BY <1>1, <1>3 DEF Waits, Woken

\* A semaphore no thread is woken from or takes a unit of.
LEMMA WakeupFrame ==
    ASSUME TypeOK, ListInv, ListInv', OthersKeep, NEW s \in Semas,
           waiters'[s] = waiters[s], waiters[s] # << >> => value'[s] = value[s],
           current \notin Woken(s),
           waiters[s] # << >> => value[s] <= Cardinality(Woken(s))
    PROVE  waiters'[s] # << >> => value'[s] <= Cardinality(Woken(s)')
<1>1. Woken(s) \subseteq Woken(s)' BY WokenStays
<1>2. IsFiniteSet(Woken(s)') BY ThreadAssumption, FS_Subset DEF Woken
<1>3. Cardinality(Woken(s)) <= Cardinality(Woken(s)') /\ Cardinality(Woken(s)') \in Nat
  BY <1>1, <1>2, FS_Subset, FS_CardinalityType
<1>4. IsFiniteSet(Woken(s)) BY ThreadAssumption, FS_Subset DEF Woken
<1>5. Cardinality(Woken(s)) \in Nat /\ value[s] \in Nat
  BY <1>4, FS_CardinalityType DEF TypeOK, SemaTypeOK
<1> QED BY <1>3, <1>5

\* A unit taken: by a woken thread, which then is one no more, or by another.
LEMMA WakeupTake ==
    ASSUME TypeOK, ListInv, ListInv', OthersKeep, NEW s \in Semas, SemaphoreTake(s),
           waiters[s] # << >> => value[s] <= Cardinality(Woken(s))
    PROVE  waiters'[s] # << >> => value'[s] <= Cardinality(Woken(s)')
<1>1. value[s] \in Nat /\ waiters'[s] = waiters[s] /\ value'[s] = value[s] - 1
  BY DEF SemaphoreTake, TypeOK, SemaTypeOK
<1>2. Woken(s) \ {current} \subseteq Woken(s)' BY <1>1, WokenStays
<1>3. IsFiniteSet(Woken(s)) /\ IsFiniteSet(Woken(s)')
  BY ThreadAssumption, FS_Subset DEF Woken
<1>4. /\ Cardinality(Woken(s) \ {current}) <= Cardinality(Woken(s)')
      /\ Cardinality(Woken(s)) - 1 <= Cardinality(Woken(s) \ {current})
      /\ Cardinality(Woken(s)) \in Nat /\ Cardinality(Woken(s)') \in Nat
      /\ Cardinality(Woken(s) \ {current}) \in Nat
  BY <1>2, <1>3, FS_Subset, FS_RemoveElement, FS_CardinalityType
<1> QED BY <1>1, <1>4

\* A unit added while others wait: its thread is woken.
LEMMA WakeupWake ==
    ASSUME TypeOK, CallOK, ListInv, ListInv', OthersKeep, NEW s \in Semas, Wakes(s),
           waiters[s] # << >> => value[s] <= Cardinality(Woken(s))
    PROVE  waiters'[s] # << >> => value'[s] <= Cardinality(Woken(s)')
<1> SUFFICES ASSUME waiters'[s] # << >> PROVE value'[s] <= Cardinality(Woken(s)')
  OBVIOUS
<1>1. /\ value[s] \in Nat /\ waiters'[s] = AfterPop(waiters[s]) /\ value'[s] = value[s] + 1
      /\ waiters[s] # << >>
  BY DEF Wakes, SemaphoreWake, TypeOK, SemaTypeOK, AfterPop
<1>2. PICK h \in Thread \ {Idle, current} :
          /\ Waits(h, s) /\ Members(AfterPop(waiters[s])) = Members(waiters[s]) \ {h}
  BY <1>1, WakeFacts
<1>3. h \notin Woken(s) /\ current \notin Woken(s) BY <1>2 DEF Woken, Waits, Wakes
<1>4. \A t \in Woken(s) : t \notin Members(waiters'[s])
  BY <1>1, <1>2 DEF Woken, ListInv, WaitersOK, Waits
<1>5. h \in Woken(s)'
  <2>1. pc'[h] = "down" /\ target'[h] = s BY <1>2 DEF Waits, OthersKeep
  <2>2. ~Waits(h, s)' BY <1>1, <1>2 DEF ListInv, WaitersOK
  <2> QED BY <2>1, <2>2 DEF Waits, Woken
<1>6. Woken(s) \cup {h} \subseteq Woken(s)' BY <1>3, <1>4, <1>5, WokenStays
<1>7. IsFiniteSet(Woken(s)) /\ IsFiniteSet(Woken(s)')
  BY ThreadAssumption, FS_Subset DEF Woken
<1>8. /\ Cardinality(Woken(s) \cup {h}) <= Cardinality(Woken(s)')
      /\ Cardinality(Woken(s)) + 1 = Cardinality(Woken(s) \cup {h})
      /\ Cardinality(Woken(s)) \in Nat /\ Cardinality(Woken(s)') \in Nat
  BY <1>3, <1>6, <1>7, FS_Subset, FS_AddElement, FS_CardinalityType
<1> QED BY <1>1, <1>8

LEMMA WakeupNext ==
    TypeOK /\ CallOK /\ KernelInv /\ KernelInv' /\ NoLostWakeup /\ [Next]_vars => NoLostWakeup'
<1> SUFFICES ASSUME TypeOK, CallOK, KernelInv, KernelInv', NoLostWakeup, Next, NEW s \in Semas
             PROVE  waiters'[s] # << >> => value'[s] <= Cardinality(Woken(s)')
  <2>1. UNCHANGED vars /\ NoLostWakeup => NoLostWakeup'
    BY DEF NoLostWakeup, Woken, vars, threadVars, semaVars, callVars
  <2> QED BY <2>1 DEF NoLostWakeup
<1>1. SemaStep /\ ListInv /\ ListInv' BY SemaSteps DEF KernelInv
<1>2. waiters[s] # << >> => value[s] <= Cardinality(Woken(s)) BY DEF NoLostWakeup
<1>3. CASE Quiet
  <2>1. current \notin Woken(s) BY <1>3 DEF Quiet, Woken
  <2> QED BY <1>1, <1>2, <1>3, <2>1, WakeupFrame DEF Quiet, SemaStep
<1>4. ASSUME NEW r \in Semas, Takes(r) \/ Sleeps(r) \/ Wakes(r), r # s
      PROVE  waiters'[s] # << >> => value'[s] <= Cardinality(Woken(s)')
  <2>1. current \notin Woken(s) BY <1>4 DEF Takes, Sleeps, Wakes, AtLoop, Woken
  <2>2. waiters'[s] = waiters[s] /\ value'[s] = value[s]
    BY <1>4 DEF Takes, Sleeps, Wakes, SemaphoreTake, SemaphoreSleep, SemaphoreWake,
                TypeOK, SemaTypeOK
  <2> QED BY <1>1, <1>2, <2>1, <2>2, WakeupFrame DEF SemaStep
<1>5. CASE Takes(s) BY <1>1, <1>2, <1>5, WakeupTake DEF SemaStep, Takes
<1>6. CASE Sleeps(s)
  <2>1. value'[s] = 0 BY <1>6 DEF Sleeps, SemaphoreSleep
  <2>2. IsFiniteSet(Woken(s)') BY ThreadAssumption, FS_Subset DEF Woken
  <2>3. Cardinality(Woken(s)') \in Nat BY <2>2, FS_CardinalityType
  <2> QED BY <2>1, <2>3
<1>7. CASE Wakes(s) BY <1>1, <1>2, <1>7, WakeupWake DEF SemaStep
<1> QED BY <1>1, <1>3, <1>4, <1>5, <1>6, <1>7 DEF SemaStep

\* While threads sleep on a semaphore each unit of its value is matched by a
\* thread already on its way to take it.
THEOREM NoWakeupLost == Spec => []NoLostWakeup
<1>1. Init => TypeOK /\ CallOK /\ KernelInv /\ NoLostWakeup
  BY InitOK, KernelInit DEF Init, NoLostWakeup
<1>2. TypeOK /\ CallOK /\ KernelInv /\ NoLostWakeup /\ [Next]_vars
      => (TypeOK /\ CallOK /\ KernelInv /\ NoLostWakeup)'
  BY NextOK, KernelNext, WakeupNext
<1> QED BY <1>1, <1>2, PTL DEF Spec

\* semaphore_up() wakes a waiter that no other one exceeds.
THEOREM HighestWoken == Spec => WakesHighest
<1> DEFINE Highest == \A s \in Semas : \A t \in Members(waiters[s]) \ Members(waiters'[s]) :
                          \A u \in Members(waiters'[s]) : priority[t] >= priority[u]
<1>1. Init => TypeOK /\ CallOK /\ KernelInv BY InitOK, KernelInit
<1>2. TypeOK /\ CallOK /\ KernelInv /\ [Next]_vars => (TypeOK /\ CallOK /\ KernelInv)'
  BY NextOK, KernelNext
<1>3. ASSUME TypeOK, CallOK, KernelInv, Next PROVE Highest
  <2> SUFFICES ASSUME NEW s \in Semas, NEW t \in Members(waiters[s]), t \notin Members(waiters'[s]),
                      NEW u \in Members(waiters'[s])
               PROVE  priority[t] >= priority[u]
    OBVIOUS
  <2>1. SemaStep /\ ListInv BY <1>3, SemaSteps DEF KernelInv
  <2>2. waiters'[s] # waiters[s] OBVIOUS
  <2>3. PICK r \in Semas : Sleeps(r) \/ Wakes(r)
    BY <2>1, <2>2 DEF SemaStep, Quiet, Takes, SemaphoreTake
  <2>4. waiters \in [Semas -> Seq(Thread)] /\ current \in Thread
    BY <1>3 DEF TypeOK, SemaTypeOK, ThreadTypeOK
  <2>5. r = s BY <2>2, <2>3, <2>4 DEF Sleeps, Wakes, SemaphoreSleep, SemaphoreWake
  <2>6. ~Sleeps(s)
    <3>1. Sleeps(s) => waiters'[s] = InsertOrdered(waiters[s], current, priority)
      BY <2>4 DEF Sleeps, SemaphoreSleep
    <3> QED BY <2>4, <3>1, InsertOrderedMembers
  <2>7. waiters'[s] = AfterPop(waiters[s]) /\ waiters[s] # << >>
    BY <2>2, <2>3, <2>4, <2>5, <2>6 DEF Wakes, SemaphoreWake, AfterPop
  <2>8. /\ t = Head(waiters[s]) /\ u \in Members(waiters[s]) /\ t \in Thread /\ u \in Thread
        /\ \A v \in Members(waiters[s]) : priority[v] <= priority[Head(waiters[s])]
    BY <1>3, <2>1, <2>7, WakeFacts DEF ListInv, WaitersOK
  <2>9. priority[t] \in Int /\ priority[u] \in Int BY <1>3, <2>1, <2>8, RunningFacts
  <2> QED BY <2>8, <2>9
<1>4. TypeOK /\ CallOK /\ KernelInv /\ [Next]_vars => [Highest]_vars BY <1>3
<1> QED BY <1>1, <1>2, <1>4, PTL DEF Spec, WakesHighest

-----------------------------------------------------------------------------
(* The condition variables: no signal is lost, and with the locks they are *)
(* a Mesa monitor.                                                         *)
(*                                                                         *)
(* A waiter is in one of three places from condvar_wait() until it has     *)
(* consumed its signal: on the condition's list, in the hands of one       *)
(* signaller, or raised.  The invariant follows it from each to the next.  *)
(*                                                                         *)
(* For the monitor the invariant adds that the owner of a lock stays the   *)
(* owner until it has raised the semaphore, so that nobody can signal a    *)
(* thread that has not yet given up its lock (MonitorInv).                 *)

-----------------------------------------------------------------------------
(* Taking the first of the sorted waiters.                                 *)

\* Rearranging a list and removing its first element leaves the others.
LEMMA RearrangedTail ==
    ASSUME NEW S, NEW list \in Seq(S), list # << >>, Linear(list),
           NEW q \in [1 .. Len(list) -> 1 .. Len(list)],
           \A i, j \in 1 .. Len(list) : q[i] = q[j] => i = j
    PROVE  LET sorted == Arranged(list, q) IN
           /\ Head(sorted) \in Members(list)
           /\ Linear(Tail(sorted))
           /\ Members(Tail(sorted)) = Members(list) \ {Head(sorted)}
<1> DEFINE n == Len(list)
           sorted == Arranged(list, q)
           rest == Tail(sorted)
<1>1. n \in Nat /\ n > 0 /\ \A i \in 1 .. n : list[i] \in S OBVIOUS
<1>2. sorted \in Seq(S) /\ Len(sorted) = n /\ \A i \in 1 .. n : sorted[i] = list[q[i]]
  BY <1>1 DEF Arranged
<1> HIDE DEF sorted
<1>3. /\ Head(sorted) = list[q[1]]
      /\ rest \in Seq(S) /\ Len(rest) = n - 1
      /\ \A i \in 1 .. n - 1 : rest[i] = sorted[i + 1]
  BY <1>1, <1>2
<1> HIDE DEF rest
<1>4. \A i \in 1 .. n - 1 : i + 1 \in 1 .. n /\ i + 1 # 1 /\ rest[i] = list[q[i + 1]]
  BY <1>1, <1>2, <1>3
<1>5. 1 \in 1 .. n /\ q[1] \in 1 .. n BY <1>1
<1>6. \A j \in 1 .. n : \E i \in 1 .. n : q[i] = j
  <2>1. q \in Injection(1 .. n, 1 .. n) BY DEF Injection, IsInjective
  <2>2. IsFiniteSet(1 .. n) BY <1>1, FS_Interval
  <2>3. q \in Surjection(1 .. n, 1 .. n) BY <2>1, <2>2, FS_Injection
  <2> QED BY <2>3 DEF Surjection
<1>7. Head(sorted) \in Members(list) BY <1>3, <1>5 DEF Members
<1>8. Linear(rest)
  <2> SUFFICES ASSUME NEW i \in 1 .. n - 1, NEW j \in 1 .. n - 1, rest[i] = rest[j]
               PROVE  i = j
    BY <1>3 DEF Linear
  <2>0. list[q[i + 1]] = list[q[j + 1]] /\ q[i + 1] \in 1 .. n /\ q[j + 1] \in 1 .. n
    BY <1>4
  <2>1. q[i + 1] = q[j + 1] BY <2>0 DEF Linear
  <2>2. i + 1 = j + 1 BY <1>4, <2>1
  <2> QED BY <2>2
<1>9. Members(rest) \subseteq Members(list) \ {Head(sorted)}
  <2>1. ASSUME NEW i \in 1 .. n - 1 PROVE rest[i] \in Members(list) \ {Head(sorted)}
    <3>1. q[i + 1] \in 1 .. n /\ q[i + 1] # q[1] BY <1>4, <1>5
    <3>2. list[q[i + 1]] \in Members(list) BY <3>1 DEF Members
    <3>3. list[q[i + 1]] # list[q[1]] BY <1>5, <3>1 DEF Linear
    <3> QED BY <1>3, <1>4, <3>2, <3>3
  <2>2. \A x \in Members(rest) : \E i \in 1 .. n - 1 : x = rest[i] BY <1>3 DEF Members
  <2> QED BY <2>1, <2>2
<1>10. Members(list) \ {Head(sorted)} \subseteq Members(rest)
  <2> SUFFICES ASSUME NEW j \in 1 .. n, list[j] # Head(sorted)
               PROVE  list[j] \in Members(rest)
    BY DEF Members
  <2>1. PICK i \in 1 .. n : q[i] = j BY <1>6
  <2>2. i # 1 BY <1>3, <2>1
  <2>3. i - 1 \in 1 .. n - 1 /\ (i - 1) + 1 = i BY <1>1, <2>2
  <2>4. rest[i - 1] = list[j] BY <1>4, <2>1, <2>3
  <2> QED BY <1>3, <2>3, <2>4 DEF Members
<1> QED BY <1>7, <1>8, <1>9, <1>10 DEF rest, sorted

\* Appending a new element.
LEMMA AppendedList ==
    ASSUME NEW S, NEW list \in Seq(S), NEW e \in S, Linear(list), e \notin Members(list)
    PROVE  /\ Linear(Append(list, e))
           /\ Members(Append(list, e)) = Members(list) \cup {e}
<1> DEFINE n == Len(list)
           longer == Append(list, e)
<1>1. /\ n \in Nat /\ Len(longer) = n + 1 /\ longer[n + 1] = e
      /\ \A i \in 1 .. n : longer[i] = list[i] /\ list[i] \in Members(list)
  BY DEF Members
<1> HIDE DEF longer
<1>2. \A i \in 1 .. n + 1 : i = n + 1 \/ i \in 1 .. n BY <1>1
<1>3. Linear(longer) BY <1>1, <1>2 DEF Linear
<1>4. Members(longer) \subseteq Members(list) \cup {e}
  <2>1. \A x \in Members(longer) : \E i \in 1 .. n + 1 : x = longer[i] BY <1>1 DEF Members
  <2> QED BY <1>1, <1>2, <2>1
<1>5. Members(list) \cup {e} \subseteq Members(longer)
  <2>1. \A x \in Members(list) : \E i \in 1 .. n : x = list[i] BY DEF Members
  <2>2. \A i \in 1 .. n + 1 : longer[i] \in Members(longer) BY <1>1 DEF Members
  <2> QED BY <1>1, <2>1, <2>2
<1> QED BY <1>3, <1>4, <1>5 DEF longer

\* condvar_signal() takes one waiter off the list and keeps the others.
LEMMA CondvarTakeFacts ==
    ASSUME TypeOK, NEW d \in Cond, NEW w \in Thread, CondvarTake(d, w), Linear(cond_waiters[d])
    PROVE  /\ w \in Members(cond_waiters[d])
           /\ Linear(cond_waiters'[d])
           /\ Members(cond_waiters'[d]) = Members(cond_waiters[d]) \ {w}
           /\ \A e \in Cond \ {d} : cond_waiters'[e] = cond_waiters[e]
<1> DEFINE list == cond_waiters[d]
<1>1. list \in Seq(Thread) /\ list # << >> BY DEF CondvarTake, TypeOK, MonitorTypeOK
<1>0. PICK key \in WaiterKeys(d) : \E q \in StableOrders(list, key) :
          /\ w = Head(Arranged(list, q))
          /\ cond_waiters' = [cond_waiters EXCEPT ![d] = Tail(Arranged(list, q))]
  BY DEF CondvarTake
<1>2. PICK q \in StableOrders(list, key) :
          /\ w = Head(Arranged(list, q))
          /\ cond_waiters' = [cond_waiters EXCEPT ![d] = Tail(Arranged(list, q))]
  BY <1>0
<1>3. q \in [1 .. Len(list) -> 1 .. Len(list)] BY DEF StableOrders
<1>4. ASSUME NEW i \in 1 .. Len(list), NEW j \in 1 .. Len(list), q[i] = q[j], i < j
      PROVE  FALSE
  <2>1. q[i] \in 1 .. Len(list) /\ Len(list) \in Nat BY <1>1, <1>3
  <2>2. list[q[i]] \in Members(list) BY <2>1 DEF Members
  <2>3. key[list[q[i]]] \in Int
    BY <2>2, ConstantFacts, MonitorAssumption DEF WaiterKeys
  <2> QED BY <1>4, <2>1, <2>3 DEF StableOrders
<1>5. \A i, j \in 1 .. Len(list) : q[i] = q[j] => i = j
  <2> SUFFICES ASSUME NEW i \in 1 .. Len(list), NEW j \in 1 .. Len(list), q[i] = q[j]
               PROVE  i = j
    OBVIOUS
  <2>1. i \in Nat /\ j \in Nat BY <1>1
  <2>2. ~(i < j) /\ ~(j < i) BY <1>4
  <2> QED BY <2>1, <2>2
<1> HIDE DEF list
<1>6. /\ Head(Arranged(list, q)) \in Members(list)
      /\ Linear(Tail(Arranged(list, q)))
      /\ Members(Tail(Arranged(list, q))) = Members(list) \ {Head(Arranged(list, q))}
  BY <1>1, <1>3, <1>5, RearrangedTail DEF list
<1>7. /\ cond_waiters'[d] = Tail(Arranged(list, q))
      /\ \A e \in Cond \ {d} : cond_waiters'[e] = cond_waiters[e]
  BY <1>2 DEF TypeOK, MonitorTypeOK
<1> QED BY <1>2, <1>6, <1>7 DEF list

-----------------------------------------------------------------------------
(* Where a waiter is.                                                      *)

\* Thread u has taken the waiter of t and is about to raise it.
Signals(u, t) == pc[u] = "up" /\ target[u] = t

Queued(t) == t \in Members(cond_waiters[arg[t]])

\* The three places, and that nobody signals a thread that does not wait.
WaiterOK(t) ==
    /\ AwaitsSignal(t) =>
           \/ Queued(t) /\ value[t] = 0 /\ \A u \in Thread : ~Signals(u, t)
           \/ ~Queued(t) /\ value[t] = 1 /\ \A u \in Thread : ~Signals(u, t)
           \/ /\ ~Queued(t) /\ value[t] = 0
              /\ \E u \in Thread : \A v \in Thread : Signals(v, t) <=> v = u
    /\ ~AwaitsSignal(t) => \A u \in Thread : ~Signals(u, t)

CondOK(c) ==
    /\ Linear(cond_waiters[c])
    /\ \A t \in Members(cond_waiters[c]) : t \in Thread /\ AwaitsSignal(t) /\ arg[t] = c

\* The inductive invariant.
SignalInv == (\A t \in Thread : WaiterOK(t)) /\ (\A c \in Cond : CondOK(c))

LEMMA SignalInvIs == TypeOK /\ SignalInv => NoLostSignal
<1> SUFFICES ASSUME TypeOK, SignalInv PROVE NoLostSignal OBVIOUS
<1>1. ASSUME NEW t \in Thread, AwaitsSignal(t)
      PROVE  Cardinality({u \in Thread : pc[u] = "up" /\ target[u] = t}) + value[t]
             + (IF t \in Members(cond_waiters[arg[t]]) THEN 1 ELSE 0) = 1
  <2> DEFINE signaller == {u \in Thread : pc[u] = "up" /\ target[u] = t}
  <2>1. CASE \A u \in Thread : ~Signals(u, t)
    <3>1. signaller = {} BY <2>1 DEF Signals
    <3>2. Cardinality(signaller) = 0 BY <3>1, FS_EmptySet
    <3> HIDE DEF signaller
    <3>3. value[t] = IF Queued(t) THEN 0 ELSE 1 BY <1>1, <2>1 DEF SignalInv, WaiterOK
    <3> QED BY <3>2, <3>3 DEF Queued, signaller
  <2>2. CASE \E u \in Thread : \A v \in Thread : Signals(v, t) <=> v = u
    <3>1. PICK u \in Thread : signaller = {u} BY <2>2 DEF Signals
    <3>2. Cardinality(signaller) = 1 BY <3>1, FS_Singleton
    <3> HIDE DEF signaller
    <3>3. value[t] = 0 /\ ~Queued(t) BY <1>1, <2>2 DEF SignalInv, WaiterOK
    <3> QED BY <3>2, <3>3 DEF Queued, signaller
  <2> QED BY <1>1, <2>1, <2>2 DEF SignalInv, WaiterOK
<1>2. \A c \in Cond :
        /\ Linear(cond_waiters[c])
        /\ \A t \in Members(cond_waiters[c]) : AwaitsSignal(t) /\ arg[t] = c
  BY DEF SignalInv, CondOK
<1> QED BY <1>1, <1>2 DEF NoLostSignal

-----------------------------------------------------------------------------
(* The steps, as far as waiters can see them.                              *)

\* A step that changes no place of any waiter.
Unseen(c) ==
    /\ cond_waiters' = cond_waiters
    /\ \A t \in Thread : value'[t] = value[t]
    /\ \A t \in Thread : Signals(c, t)' <=> Signals(c, t)
    /\ AwaitsSignal(c)' <=> AwaitsSignal(c)
    /\ AwaitsSignal(c) => arg'[c] = arg[c]

\* The running thread, which neither waits nor signals, joins the waiters of d.
Joins(c, d) ==
    /\ ~AwaitsSignal(c) /\ AwaitsSignal(c)' /\ arg'[c] = d
    /\ \A t \in Thread : ~Signals(c, t) /\ ~Signals(c, t)'
    /\ value'[c] = 0 /\ \A t \in Thread \ {c} : value'[t] = value[t]
    /\ cond_waiters' = [cond_waiters EXCEPT ![d] = Append(@, c)]

\* It takes the waiter of w off the list of d.
TakesWaiter(c, d, w) ==
    /\ ~AwaitsSignal(c) /\ ~AwaitsSignal(c)'
    /\ \A t \in Thread : ~Signals(c, t) /\ (Signals(c, t)' <=> t = w)
    /\ value' = value
    /\ CondvarTake(d, w)

\* It raises the semaphore of w.
Raises(c, w) ==
    /\ ~AwaitsSignal(c) /\ ~AwaitsSignal(c)'
    /\ \A t \in Thread : (Signals(c, t) <=> t = w) /\ ~Signals(c, t)'
    /\ value'[w] = value[w] + 1 /\ \A t \in Thread \ {w} : value'[t] = value[t]
    /\ cond_waiters' = cond_waiters

\* It has its signal and goes on.
Consumes(c) ==
    /\ AwaitsSignal(c) /\ ~AwaitsSignal(c)'
    /\ \A t \in Thread : ~Signals(c, t) /\ ~Signals(c, t)'
    /\ value[c] > 0 /\ \A t \in Thread \ {c} : value'[t] = value[t]
    /\ cond_waiters' = cond_waiters

SignalKinds ==
    /\ OthersKeep
    /\ \E c \in Thread :
           /\ c = current
           /\ \/ Unseen(c)
              \/ \E d \in Cond : Joins(c, d)
              \/ \E d \in Cond, w \in Thread : TakesWaiter(c, d, w)
              \/ \E w \in Thread : Raises(c, w)
              \/ Consumes(c)

\* What the others see of one another stays.
LEMMA OthersSignals ==
    ASSUME OthersKeep
    PROVE  \A t \in Thread \ {current} :
               /\ AwaitsSignal(t)' <=> AwaitsSignal(t)
               /\ arg'[t] = arg[t]
               /\ \A u \in Thread : Signals(t, u)' <=> Signals(t, u)
BY DEF OthersKeep, AwaitsSignal, Signals

\* A waiter that stays where it is.
LEMMA WaiterFrame ==
    ASSUME NEW t \in Thread, WaiterOK(t), AwaitsSignal(t)' <=> AwaitsSignal(t),
           AwaitsSignal(t) => value'[t] = value[t] /\ (Queued(t)' <=> Queued(t)),
           \A u \in Thread : Signals(u, t)' <=> Signals(u, t)
    PROVE  WaiterOK(t)'
<1>1. CASE ~AwaitsSignal(t) BY <1>1 DEF WaiterOK
<1>2. CASE AwaitsSignal(t) /\ \A u \in Thread : ~Signals(u, t) BY <1>2 DEF WaiterOK
<1>3. CASE AwaitsSignal(t) /\ \E u \in Thread : Signals(u, t)
  <2>1. ~Queued(t) /\ value[t] = 0 BY <1>3 DEF WaiterOK
  <2>2. PICK u \in Thread : \A v \in Thread : Signals(v, t) <=> v = u BY <1>3 DEF WaiterOK
  <2>3. \A v \in Thread : Signals(v, t)' <=> v = u BY <2>2
  <2> QED BY <1>3, <2>1, <2>3 DEF WaiterOK
<1> QED BY <1>1, <1>2, <1>3

LEMMA UnseenInv ==
    ASSUME TypeOK, SignalInv, OthersKeep, NEW c \in Thread, c = current, Unseen(c)
    PROVE  SignalInv'
<1>1. \A t \in Thread :
         /\ AwaitsSignal(t)' <=> AwaitsSignal(t)
         /\ AwaitsSignal(t) => arg'[t] = arg[t]
         /\ \A u \in Thread : Signals(t, u)' <=> Signals(t, u)
  BY OthersSignals DEF Unseen
<1>2. \A t \in Thread : AwaitsSignal(t) => (Queued(t)' <=> Queued(t))
  BY <1>1 DEF Unseen, Queued
<1>3. ASSUME NEW t \in Thread PROVE WaiterOK(t)'
  BY <1>1, <1>2, WaiterFrame DEF SignalInv, Unseen
<1>4. ASSUME NEW e \in Cond PROVE CondOK(e)'
  BY <1>1 DEF SignalInv, CondOK, Unseen
<1> QED BY <1>3, <1>4 DEF SignalInv

\* A thread that waits does so for a condition, and can be on its list only.
LEMMA WaiterFacts ==
    ASSUME TypeOK, CallOK, SignalInv, NEW t \in Thread
    PROVE  /\ AwaitsSignal(t) => arg[t] \in Cond
           /\ \A c \in Cond : t \in Members(cond_waiters[c]) => Queued(t) /\ AwaitsSignal(t) /\ arg[t] = c
BY DEF CallOK, ThreadCallOK, AwaitsSignal, SignalInv, CondOK, Queued

LEMMA JoinsInv ==
    ASSUME TypeOK, CallOK, SignalInv, OthersKeep, NEW c \in Thread, c = current,
           NEW d \in Cond, Joins(c, d)
    PROVE  SignalInv'
<1>2. cond_waiters[d] \in Seq(Thread) BY DEF TypeOK, MonitorTypeOK
<1>3. c \notin Members(cond_waiters[d]) BY WaiterFacts DEF Joins
<1>4. /\ cond_waiters'[d] = Append(cond_waiters[d], c)
      /\ \A e \in Cond \ {d} : cond_waiters'[e] = cond_waiters[e]
  BY DEF Joins, TypeOK, MonitorTypeOK
<1>5. /\ Members(cond_waiters'[d]) = Members(cond_waiters[d]) \cup {c}
      /\ Linear(cond_waiters'[d])
  BY <1>2, <1>3, <1>4, AppendedList DEF SignalInv, CondOK
<1>6. /\ \A t \in Thread \ {c} :
             /\ AwaitsSignal(t)' <=> AwaitsSignal(t)
             /\ arg'[t] = arg[t] /\ value'[t] = value[t]
      /\ \A u, t \in Thread : Signals(u, t)' <=> Signals(u, t)
  BY OthersSignals DEF Joins
<1>7. ASSUME NEW t \in Thread \ {c} PROVE WaiterOK(t)'
  <2>1. ASSUME AwaitsSignal(t) PROVE Queued(t)' <=> Queued(t)
    <3>1. arg[t] \in Cond /\ arg'[t] = arg[t] BY <1>6, <2>1, WaiterFacts
    <3>2. CASE arg[t] = d BY <1>5, <3>1, <3>2 DEF Queued
    <3>3. CASE arg[t] # d BY <1>4, <3>1, <3>3 DEF Queued
    <3> QED BY <3>2, <3>3
  <2> QED BY <1>6, <2>1, WaiterFrame DEF SignalInv
<1>8. WaiterOK(c)'
  <2>1. \A u \in Thread : ~Signals(u, c)' BY <1>6 DEF SignalInv, WaiterOK, Joins
  <2>2. value'[c] = 0 /\ arg'[c] = d BY DEF Joins
  <2>3. Queued(c)' BY <1>5, <2>2 DEF Queued
  <2>4. AwaitsSignal(c)' BY DEF Joins
  <2> QED BY <2>1, <2>2, <2>3, <2>4 DEF WaiterOK
<1>9. ASSUME NEW e \in Cond PROVE CondOK(e)'
  <2>1. \A t \in Members(cond_waiters[e]) :
            t \in Thread \ {c} /\ AwaitsSignal(t)' /\ arg'[t] = e
    BY <1>6 DEF SignalInv, CondOK, Joins
  <2>2. c \in Thread /\ AwaitsSignal(c)' /\ arg'[c] = d BY DEF Joins
  <2>3. Linear(cond_waiters[e]) BY DEF SignalInv, CondOK
  <2> QED BY <1>4, <1>5, <2>1, <2>2, <2>3 DEF CondOK
<1> QED BY <1>7, <1>8, <1>9 DEF SignalInv

LEMMA TakesWaiterInv ==
    ASSUME TypeOK, CallOK, SignalInv, OthersKeep, NEW c \in Thread, c = current,
           NEW d \in Cond, NEW w \in Thread, TakesWaiter(c, d, w)
    PROVE  SignalInv'
<1>2. /\ w \in Members(cond_waiters[d])
      /\ Linear(cond_waiters'[d])
      /\ Members(cond_waiters'[d]) = Members(cond_waiters[d]) \ {w}
      /\ \A e \in Cond \ {d} : cond_waiters'[e] = cond_waiters[e]
  BY CondvarTakeFacts DEF TakesWaiter, SignalInv, CondOK
<1>3. AwaitsSignal(w) /\ arg[w] = d /\ Queued(w) /\ w # c
  BY <1>2, WaiterFacts DEF TakesWaiter
<1>4. value[w] = 0 /\ \A u \in Thread : ~Signals(u, w)
  BY <1>3 DEF SignalInv, WaiterOK
<1>5. /\ \A t \in Thread : AwaitsSignal(t)' <=> AwaitsSignal(t)
      /\ \A t \in Thread : AwaitsSignal(t) => arg'[t] = arg[t]
      /\ value' = value
      /\ \A t \in Thread \ {w}, u \in Thread : Signals(u, t)' <=> Signals(u, t)
      /\ \A u \in Thread : Signals(u, w)' <=> u = c
  BY <1>4, OthersSignals DEF TakesWaiter
<1>6. ASSUME NEW t \in Thread \ {w} PROVE WaiterOK(t)'
  <2>1. AwaitsSignal(t) => (Queued(t)' <=> Queued(t))
    BY <1>2, <1>5, WaiterFacts DEF Queued
  <2> QED BY <1>5, <2>1, WaiterFrame DEF SignalInv
<1>7. WaiterOK(w)'
  <2>1. ~Queued(w)' BY <1>2, <1>3, <1>5 DEF Queued
  <2> QED BY <1>3, <1>4, <1>5, <2>1 DEF WaiterOK
<1>8. ASSUME NEW e \in Cond PROVE CondOK(e)'
  <2>1. Members(cond_waiters'[e]) \subseteq Members(cond_waiters[e]) /\ Linear(cond_waiters'[e])
    BY <1>2 DEF SignalInv, CondOK
  <2> QED BY <1>5, <2>1 DEF SignalInv, CondOK
<1> QED BY <1>6, <1>7, <1>8 DEF SignalInv

LEMMA RaisesInv ==
    ASSUME TypeOK, CallOK, SignalInv, OthersKeep, NEW c \in Thread, c = current,
           NEW w \in Thread, Raises(c, w)
    PROVE  SignalInv'
<1>2. Signals(c, w) BY DEF Raises
<1>3. /\ AwaitsSignal(w) /\ ~Queued(w) /\ value[w] = 0 /\ w # c
      /\ \A v \in Thread : Signals(v, w) => v = c
  BY <1>2 DEF SignalInv, WaiterOK, Raises
<1>4. /\ \A t \in Thread : AwaitsSignal(t)' <=> AwaitsSignal(t)
      /\ \A t \in Thread : AwaitsSignal(t) => arg'[t] = arg[t]
      /\ value'[w] = 1 /\ \A t \in Thread \ {w} : value'[t] = value[t]
      /\ \A t \in Thread \ {w}, u \in Thread : Signals(u, t)' <=> Signals(u, t)
      /\ \A u \in Thread : ~Signals(u, w)'
  BY <1>3, OthersSignals DEF Raises
<1>5. \A t \in Thread : AwaitsSignal(t) => (Queued(t)' <=> Queued(t))
  BY <1>4 DEF Queued, Raises
<1>6. ASSUME NEW t \in Thread \ {w} PROVE WaiterOK(t)'
  BY <1>4, <1>5, WaiterFrame DEF SignalInv
<1>7. WaiterOK(w)' BY <1>3, <1>4, <1>5 DEF WaiterOK
<1>8. ASSUME NEW e \in Cond PROVE CondOK(e)' BY <1>4 DEF SignalInv, CondOK, Raises
<1> QED BY <1>6, <1>7, <1>8 DEF SignalInv

LEMMA ConsumesInv ==
    ASSUME TypeOK, CallOK, SignalInv, OthersKeep, NEW c \in Thread, c = current, Consumes(c)
    PROVE  SignalInv'
<1>2. ~Queued(c) /\ \A u \in Thread : ~Signals(u, c)
  BY DEF SignalInv, WaiterOK, Consumes
<1>3. /\ \A t \in Thread \ {c} : /\ AwaitsSignal(t)' <=> AwaitsSignal(t)
                                 /\ arg'[t] = arg[t] /\ value'[t] = value[t]
      /\ \A u, t \in Thread : Signals(u, t)' <=> Signals(u, t)
      /\ ~AwaitsSignal(c)'
  BY OthersSignals DEF Consumes
<1>4. ASSUME NEW t \in Thread \ {c} PROVE WaiterOK(t)'
  <2>1. Queued(t)' <=> Queued(t) BY <1>3 DEF Queued, Consumes
  <2> QED BY <1>3, <2>1, WaiterFrame DEF SignalInv
<1>5. WaiterOK(c)' BY <1>2, <1>3 DEF WaiterOK
<1>6. ASSUME NEW e \in Cond PROVE CondOK(e)'
  <2>1. c \notin Members(cond_waiters[e]) BY <1>2, WaiterFacts
  <2> QED BY <1>3, <2>1 DEF SignalInv, CondOK, Consumes
<1> QED BY <1>4, <1>5, <1>6 DEF SignalInv

LEMMA SignalKindsInv ==
    ASSUME TypeOK, CallOK, SignalInv, SignalKinds PROVE SignalInv'
BY UnseenInv, JoinsInv, TakesWaiterInv, RaisesInv, ConsumesInv DEF SignalKinds

-----------------------------------------------------------------------------
(* Each action is such a step.                                             *)

\* The point the running thread is at, and the one it goes to.
LEMMA OwnPoint ==
    ASSUME TypeOK, NEW c \in Thread, c = current, NEW p, NEW q, Goto(p, q)
    PROVE  pc'[c] = p /\ target'[c] = q
BY DEF Goto, self, TypeOK, CallTypeOK

\* A thread that is not inside condvar_wait() and raises no waiter.
Apart(c) == ~AwaitsSignal(c) /\ \A t \in Thread : ~Signals(c, t)

LEMMA ApartStep ==
    ASSUME TypeOK, OthersKeep, NEW c \in Thread, c = current, Apart(c), Apart(c)',
           cond_waiters' = cond_waiters, \A t \in Thread : value'[t] = value[t]
    PROVE  SignalKinds
BY DEF SignalKinds, Unseen, Apart

\* semaphore_down(): only that of a thread's own waiter is seen.
LEMMA DownKinds ==
    ASSUME TypeOK, CallOK, CallOK', NEW s \in Semas, Down(s), current # Idle,
           UNCHANGED <<monitorVars, task, arg>>,
           \/ pc[current] = "run" /\ s \in Sem \cup (Lock \ {TidLock})
           \/ pc[current] \in {"enter", "down"} /\ s = target[current]
    PROVE  SignalKinds
<1>1. PICK c \in Thread : c = current BY SelfType
<1>2. OthersKeep
  <2>1. \E p, q : Goto(p, q) BY DEF Down, AfterDown
  <2> QED BY <2>1, GotoKeeps
<1>3. /\ cond_waiters' = cond_waiters /\ task'[c] = task[c] /\ arg'[c] = arg[c]
      /\ ThreadCallOK(c) /\ ThreadCallOK(c)'
      /\ pc[c] \in {"run", "enter", "down"}
  BY <1>1 DEF monitorVars, CallOK
<1>4. SemaphoreTake(s) => AfterDown(s) /\ value'[s] = value[s] - 1
  BY DEF Down, SemaphoreSleep, SemaphoreTake, TypeOK, SemaTypeOK
<1>5. /\ \A t \in Semas \ {s} : value'[t] = value[t]
      /\ SemaphoreSleep(s) => value' = value /\ Goto("down", s)
  BY DEF Down, SemaphoreSleep, SemaphoreTake, TypeOK, SemaTypeOK
<1>6. CASE s \notin Thread
  <2>1. \A t \in Thread : value'[t] = value[t] BY <1>5, <1>6, ConstantFacts
  <2>2. Apart(c)
    BY <1>1, <1>3, <1>6, ConstantFacts DEF Apart, AwaitsSignal, Signals
  <2>3. pc'[c] \in {"run", "taken"} \/ (pc'[c] = "down" /\ target'[c] = s)
    <3>1. \/ Goto("run", Nil) \/ Goto("taken", s) \/ Goto("down", s)
      BY <1>6 DEF Down, AfterDown
    <3> QED BY <1>1, <3>1, OwnPoint
  <2>4. Apart(c)' BY <1>6, <2>3 DEF Apart, AwaitsSignal, Signals
  <2> QED BY <1>1, <1>2, <1>3, <2>1, <2>2, <2>4, ApartStep
<1>7. CASE s \in Thread
  <2>1. /\ s = c /\ pc[c] \in {"enter", "down"} /\ target[c] = c /\ task[c] = "wait"
        /\ arg[c] \in Cond
    BY <1>1, <1>3, <1>7, ConstantFacts DEF ThreadCallOK
  <2>2. AwaitsSignal(c) /\ \A t \in Thread : ~Signals(c, t)
    BY <2>1 DEF AwaitsSignal, Signals
  <2>3. CASE SemaphoreSleep(s) /\ Goto("down", s)
    <3>1. pc'[c] = "down" /\ target'[c] = c /\ value' = value
      BY <1>1, <1>5, <2>1, <2>3, OwnPoint
    <3>2. AwaitsSignal(c)' /\ \A t \in Thread : ~Signals(c, t)'
      BY <1>3, <2>1, <3>1 DEF AwaitsSignal, Signals
    <3>3. Unseen(c) BY <1>3, <2>2, <3>1, <3>2 DEF Unseen
    <3> QED BY <1>1, <1>2, <3>3 DEF SignalKinds
  <2>4. CASE SemaphoreTake(s) /\ AfterDown(s)
    <3>1. Goto("enter", LockOf[arg[c]]) BY <1>1, <1>7, <2>4, ConstantFacts DEF AfterDown, self
    <3>2. pc'[c] = "enter" /\ target'[c] = LockOf[arg[c]] BY <1>1, <3>1, OwnPoint
    <3>3. LockOf[arg[c]] \in Lock BY <2>1, ConstantFacts
    <3>4. ~AwaitsSignal(c)' /\ \A t \in Thread : ~Signals(c, t)'
      BY <3>2, <3>3, ConstantFacts DEF AwaitsSignal, Signals
    <3>5. Consumes(c)
      BY <1>3, <1>5, <2>1, <2>2, <2>4, <3>4, ConstantFacts DEF Consumes, SemaphoreTake
    <3> QED BY <1>1, <1>2, <3>5 DEF SignalKinds
  <2> QED BY <2>3, <2>4 DEF Down
<1> QED BY <1>6, <1>7

\* semaphore_up() inside another call: condvar_signal()'s is seen.
LEMMA InnerUpKinds == ASSUME TypeOK, CallOK, CallOK', InnerUp PROVE SignalKinds
<1>1. PICK c \in Thread : c = current BY SelfType
<1>2. /\ cond_waiters' = cond_waiters /\ UNCHANGED <<task, arg>>
      /\ ThreadCallOK(c) /\ ThreadCallOK(c)' /\ pc[c] = "up"
  BY <1>1 DEF InnerUp, At, self, monitorVars, CallOK
<1>3. PICK s \in Semas : s = target[c] BY <1>1, <1>2, SelfType DEF ThreadCallOK
<1>4. OthersKeep
  <2>1. \E p, q : Goto(p, q) BY DEF InnerUp
  <2> QED BY <1>2, <2>1, GotoKeeps
<1>5. /\ value'[s] = value[s] + 1 /\ \A t \in Semas \ {s} : value'[t] = value[t]
  BY <1>1, <1>3 DEF InnerUp, SemaphoreUp, SemaphoreWake, self, TypeOK, SemaTypeOK
<1>6. /\ task'[c] = task[c] /\ arg'[c] = arg[c]
      /\ task[c] = "wait" => pc'[c] = "enter" /\ target'[c] = c
      /\ task[c] # "wait" => pc'[c] \in {"run", "unblock", "signals"}
  BY <1>1, <1>2, OwnPoint DEF InnerUp, self
<1>7. CASE s \notin Thread
  <2>1. \A t \in Thread : value'[t] = value[t] BY <1>5, <1>7, ConstantFacts
  <2>2. \A t \in Thread : ~Signals(c, t) /\ ~Signals(c, t)'
    BY <1>3, <1>6, <1>7 DEF Signals
  <2>3. AwaitsSignal(c)' <=> AwaitsSignal(c) BY <1>2, <1>6 DEF AwaitsSignal
  <2>4. Unseen(c) BY <1>2, <1>6, <2>1, <2>2, <2>3 DEF Unseen
  <2> QED BY <1>1, <1>4, <2>4 DEF SignalKinds
<1>8. CASE s \in Thread
  <2>1. task[c] # "wait" BY <1>2, <1>3, <1>8, ConstantFacts DEF ThreadCallOK
  <2>2. ~AwaitsSignal(c) /\ ~AwaitsSignal(c)' BY <1>6, <2>1 DEF AwaitsSignal
  <2>3. \A t \in Thread : (Signals(c, t) <=> t = s) /\ ~Signals(c, t)'
    BY <1>2, <1>3, <1>6, <2>1 DEF Signals
  <2>4. Raises(c, s) BY <1>2, <1>5, <2>2, <2>3, ConstantFacts DEF Raises
  <2> QED BY <1>1, <1>4, <1>8, <2>4 DEF SignalKinds
<1> QED BY <1>7, <1>8

LEMMA CondvarWaitKinds ==
    ASSUME TypeOK, CallOK, CallOK', NEW d \in Cond, CondvarWait(d) PROVE SignalKinds
<1>1. PICK c \in Thread : c = current BY SelfType
<1>2. OthersKeep /\ pc'[c] = "up" /\ target'[c] = LockOf[d] /\ task'[c] = "wait" /\ arg'[c] = d
  BY <1>1, CallKeeps DEF CondvarWait
<1>3. pc[c] = "run" BY <1>1 DEF CondvarWait, AtUser, At, self
<1>4. ~AwaitsSignal(c) /\ AwaitsSignal(c)' BY <1>2, <1>3 DEF AwaitsSignal
<1>5. \A t \in Thread : ~Signals(c, t) /\ ~Signals(c, t)'
  BY <1>2, <1>3, ConstantFacts DEF Signals
<1>6. /\ value' = [value EXCEPT ![c] = 0]
      /\ cond_waiters' = [cond_waiters EXCEPT ![d] = Append(@, c)]
  BY <1>1 DEF CondvarWait, CondvarEnqueue, SemaphoreInit
<1>7. value'[c] = 0 /\ \A t \in Thread \ {c} : value'[t] = value[t]
  BY <1>6, ConstantFacts DEF TypeOK, SemaTypeOK
<1>8. Joins(c, d) BY <1>2, <1>4, <1>5, <1>6, <1>7 DEF Joins
<1> QED BY <1>1, <1>2, <1>8 DEF SignalKinds

\* condvar_signal() and the loop body of condvar_broadcast().
LEMMA TakeKinds ==
    ASSUME TypeOK, CallOK, CallOK', NEW d \in Cond, NEW w \in Thread,
           CondvarTake(d, w), Goto("up", w), UNCHANGED <<semaVars, task, arg>>,
           pc[current] \in {"run", "signals"}
    PROVE  SignalKinds
<1>1. PICK c \in Thread : c = current BY SelfType
<1>2. OthersKeep /\ pc'[c] = "up" /\ target'[c] = w /\ task'[c] = task[c]
  BY <1>1, GotoKeeps
<1>3. ThreadCallOK(c) /\ pc[c] \in {"run", "signals"} BY <1>1 DEF CallOK
<1>4. task[c] # "wait" BY <1>3 DEF ThreadCallOK
<1>5. ~AwaitsSignal(c) /\ ~AwaitsSignal(c)' BY <1>2, <1>4 DEF AwaitsSignal
<1>6. \A t \in Thread : ~Signals(c, t) /\ (Signals(c, t)' <=> t = w)
  BY <1>2, <1>3 DEF Signals
<1>7. TakesWaiter(c, d, w) BY <1>5, <1>6 DEF TakesWaiter, semaVars
<1> QED BY <1>1, <1>2, <1>7 DEF SignalKinds

\* The other steps of the running thread: it stays apart.
LEMMA MoveKinds ==
    ASSUME TypeOK, CallOK, CallOK', NEW p, NEW q, Goto(p, q), OthersKeep,
           cond_waiters' = cond_waiters, \A t \in Thread : value'[t] = value[t],
           pc[current] \in {"run", "taken", "tid", "signals", "check", "front", "unblock"},
           p \in {"up", "enter", "down"} => q \notin Thread /\ task'[current] # "wait"
    PROVE  SignalKinds
<1>1. PICK c \in Thread : c = current BY SelfType
<1>2. pc'[c] = p /\ target'[c] = q BY <1>1, OwnPoint
<1>3. Apart(c) BY <1>1 DEF Apart, AwaitsSignal, Signals
<1>4. Apart(c)' BY <1>1, <1>2 DEF Apart, AwaitsSignal, Signals
<1> QED BY <1>1, <1>3, <1>4, ApartStep

\* So it is when its call state does not change.
LEMMA StayKinds ==
    ASSUME TypeOK, CallOK, UNCHANGED <<pc, target, task, arg, cond_waiters>>,
           \A t \in Thread : value'[t] = value[t]
    PROVE  SignalKinds
<1>1. PICK c \in Thread : c = current BY SelfType
<1>2. OthersKeep BY SameCalls
<1>3. Unseen(c) BY DEF Unseen, AwaitsSignal, Signals
<1> QED BY <1>1, <1>2, <1>3 DEF SignalKinds

LEMMA ContinueKinds == ASSUME TypeOK, CallOK, CallOK', Continue PROVE SignalKinds
<1>0. ThreadCallOK(current) /\ current \in Thread BY SelfType
<1>1. CASE EnterDown \/ ResumeDown
  <2>1. /\ pc[current] \in {"enter", "down"} /\ Down(target[current])
        /\ UNCHANGED <<monitorVars, task, arg>>
    BY <1>1 DEF EnterDown, ResumeDown, At, self
  <2>2. target[current] \in Semas /\ current # Idle BY <2>1, SelfType DEF ThreadCallOK
  <2> QED BY <2>1, <2>2, DownKinds
<1>2. CASE LockTaken
  <2>1. /\ pc[current] = "taken" /\ cond_waiters' = cond_waiters /\ value' = value
        /\ \E p \in {"tid", "run"} : \E q : Goto(p, q)
        /\ SameTask \/ SetTask("none", Nil)
    BY <1>2 DEF LockTaken, At, self, semaVars
  <2>2. OthersKeep BY <2>1, GotoKeeps, CallKeeps DEF SameTask
  <2> QED BY <2>1, <2>2, MoveKinds
<1>3. CASE BroadcastNext
  <2>1. PICK w \in Thread : CondvarTake(arg[current], w) /\ Goto("up", w)
    BY <1>3 DEF BroadcastNext, self
  <2>2. pc[current] = "signals" /\ UNCHANGED <<semaVars, task, arg>>
    BY <1>3 DEF BroadcastNext, At, self
  <2>3. arg[current] \in Cond BY <1>0, <2>2, SelfType DEF ThreadCallOK, Task
  <2> QED BY <2>1, <2>2, <2>3, TakeKinds
<1>4. CASE BroadcastDone \/ CheckReady \/ UnblockChild
  <2>1. /\ pc[current] \in {"signals", "check", "unblock"}
        /\ cond_waiters' = cond_waiters /\ value' = value
        /\ \E p \in {"run", "front", "check"} : \E q : Goto(p, q)
        /\ UNCHANGED <<task, arg>> \/ SetTask("none", Nil)
    BY <1>4 DEF BroadcastDone, CheckReady, UnblockChild, At, self, semaVars, monitorVars
  <2>2. OthersKeep BY <2>1, GotoKeeps, CallKeeps
  <2> QED BY <2>1, <2>2, MoveKinds
<1>5. CASE AllocateTid
  <2>1. /\ pc[current] = "tid" /\ cond_waiters' = cond_waiters /\ value' = value
        /\ Goto("up", TidLock) /\ UNCHANGED <<task, arg>>
    BY <1>5 DEF AllocateTid, At, self, semaVars
  <2>2. task'[current] # "wait" BY <1>0, <2>1 DEF ThreadCallOK
  <2>3. OthersKeep BY <2>1, GotoKeeps
  <2> QED BY <2>1, <2>2, <2>3, MoveKinds, ConstantFacts
<1>6. CASE CheckFront
  <2>1. /\ pc[current] = "front" /\ cond_waiters' = cond_waiters /\ value' = value
        /\ UNCHANGED <<task, arg>>
        /\ UNCHANGED <<pc, target>> \/ Goto("run", Nil)
    BY <1>6 DEF CheckFront, At, self, semaVars, monitorVars
  <2>2. CASE UNCHANGED <<pc, target>> BY <2>1, <2>2, StayKinds
  <2>3. CASE Goto("run", Nil)
    <3>1. OthersKeep BY <2>1, <2>3, GotoKeeps
    <3> QED BY <2>1, <2>3, <3>1, MoveKinds
  <2> QED BY <2>1, <2>2, <2>3
<1>7. CASE IdleBlock
  BY <1>7, StayKinds DEF IdleBlock, callVars, semaVars, monitorVars
<1> QED BY <1>1, <1>2, <1>3, <1>4, <1>5, <1>6, <1>7, InnerUpKinds DEF Continue

LEMMA NextKinds == ASSUME TypeOK, CallOK, CallOK', [Next]_vars PROVE SignalKinds
<1>0. /\ ThreadCallOK(current) /\ current \in Thread
      /\ pc[current] = "run" /\ current # Idle => task[current] # "wait"
  BY SelfType DEF ThreadCallOK
<1>1. CASE SemaphoreCall
  <2>1. PICK s \in Sem : SemaphoreDown(s) \/ SemaphoreTryDown(s) \/ SemaphoreRaise(s)
    BY <1>1 DEF SemaphoreCall
  <2>2. CASE SemaphoreDown(s)
    BY <2>2, DownKinds, ConstantFacts DEF SemaphoreDown, AtUser, At, self
  <2>3. CASE SemaphoreTryDown(s) \/ SemaphoreRaise(s)
    <3>1. \A t \in Thread : value'[t] = value[t]
      BY <2>3, ConstantFacts DEF SemaphoreTryDown, SemaphoreTake, SemaphoreRaise,
         SemaphoreUp, SemaphoreWake, TypeOK, SemaTypeOK
    <3> QED BY <2>3, <3>1, StayKinds
            DEF SemaphoreTryDown, SemaphoreRaise, callVars, monitorVars
  <2> QED BY <2>1, <2>2, <2>3
<1>2. CASE LockCall
  <2>1. PICK l \in Lock \ {TidLock} : LockAcquire(l) \/ LockTryAcquire(l) \/ LockRelease(l)
    BY <1>2 DEF LockCall
  <2>2. CASE LockAcquire(l)
    BY <2>2, DownKinds, ConstantFacts DEF LockAcquire, AtUser, At, self
  <2>3. CASE LockTryAcquire(l) \/ LockRelease(l)
    <3>1. /\ pc[current] = "run" /\ current # Idle /\ cond_waiters' = cond_waiters
          /\ Goto("taken", l) \/ Goto("up", l)
          /\ UNCHANGED <<task, arg>>
      BY <2>3 DEF LockTryAcquire, LockRelease, AtUser, At, self, monitorVars
    <3>2. \A t \in Thread : value'[t] = value[t]
      BY <2>3, ConstantFacts DEF LockTryAcquire, LockRelease, SemaphoreTake, semaVars,
         TypeOK, SemaTypeOK
    <3>3. OthersKeep /\ l \notin Thread BY <3>1, GotoKeeps, ConstantFacts
    <3> QED BY <1>0, <3>1, <3>2, <3>3, MoveKinds
  <2> QED BY <2>1, <2>2, <2>3
<1>3. CASE CondvarCall
  <2>1. PICK d \in Cond : CondvarWait(d) \/ CondvarSignal(d) \/ CondvarBroadcast(d)
    BY <1>3 DEF CondvarCall
  <2>2. CASE CondvarSignal(d)
    <3>1. PICK w \in Thread : CondvarTake(d, w) /\ Goto("up", w)
      BY <2>2 DEF CondvarSignal
    <3> QED BY <2>2, <3>1, TakeKinds DEF CondvarSignal, AtUser, At, self
  <2>3. CASE CondvarBroadcast(d)
    <3>1. /\ pc[current] = "run" /\ cond_waiters' = cond_waiters /\ value' = value
          /\ Goto("signals", Nil) /\ SetTask("broadcast", d)
      BY <2>3 DEF CondvarBroadcast, AtUser, At, self, semaVars, monitorVars
    <3>2. OthersKeep BY <3>1, CallKeeps
    <3> QED BY <3>1, <3>2, MoveKinds
  <2> QED BY <2>1, <2>2, <2>3, CondvarWaitKinds
<1>4. CASE ThreadCall
  <2>1. ASSUME NEW t \in Thread, NEW p \in Priority, ThreadCreate(t, p) PROVE SignalKinds
    <3>1. /\ pc[current] = "run" /\ cond_waiters' = cond_waiters /\ value' = value
          /\ Goto("enter", TidLock) /\ SetTask("create", t)
      BY <2>1 DEF ThreadCreate, AtUser, At, self, semaVars, monitorVars
    <3>2. OthersKeep /\ task'[current] = "create" BY <3>1, CallKeeps
    <3> QED BY <3>1, <3>2, MoveKinds, ConstantFacts
  <2>2. ASSUME NEW p \in Priority, ThreadSetPriority(p) PROVE SignalKinds
    <3>1. /\ pc[current] = "run" /\ cond_waiters' = cond_waiters /\ value' = value
          /\ Goto("check", Nil) /\ UNCHANGED <<task, arg>>
      BY <2>2 DEF ThreadSetPriority, SameTask, AtUser, At, self, semaVars, monitorVars
    <3>2. OthersKeep BY <3>1, GotoKeeps
    <3> QED BY <3>1, <3>2, MoveKinds
  <2>3. CASE Yield \/ Exit
    BY <2>3, StayKinds DEF Yield, Exit, callVars, semaVars, monitorVars
  <2> QED BY <1>4, <2>1, <2>2, <2>3 DEF ThreadCall
<1>5. CASE Continue BY <1>5, ContinueKinds
<1>6. CASE Interrupt
  <2>1. CASE Tick BY <2>1, StayKinds DEF Tick, callVars, semaVars, monitorVars
  <2>2. ASSUME NEW s \in Sem, InterruptUp(s) PROVE SignalKinds
    <3>1. \A t \in Thread : value'[t] = value[t]
      BY <2>2, ConstantFacts DEF InterruptUp, SemaphoreWake, TypeOK, SemaTypeOK
    <3> QED BY <2>2, <3>1, StayKinds DEF InterruptUp, callVars, monitorVars
  <2> QED BY <1>6, <2>1, <2>2 DEF Interrupt
<1>7. CASE UNCHANGED vars
  BY <1>7, StayKinds DEF vars, callVars, semaVars, monitorVars
<1> QED BY <1>1, <1>2, <1>3, <1>4, <1>5, <1>6, <1>7 DEF Next

LEMMA SignalInit == Init => SignalInv
<1> SUFFICES ASSUME Init PROVE SignalInv OBVIOUS
<1>1. \A t \in Thread : ~AwaitsSignal(t) /\ \A u \in Thread : ~Signals(u, t)
  BY DEF Init, AwaitsSignal, Signals
<1>2. \A c \in Cond : cond_waiters[c] = << >> BY DEF Init
<1>3. \A c \in Cond : Linear(cond_waiters[c]) /\ Members(cond_waiters[c]) = {}
  BY <1>2 DEF Linear, Members
<1> QED BY <1>1, <1>3 DEF SignalInv, WaiterOK, CondOK

LEMMA SignalNext == TypeOK /\ CallOK /\ SignalInv /\ [Next]_vars => SignalInv'
BY NextOK, NextKinds, SignalKindsInv

\* A thread in condvar_wait() that has not consumed its signal is on the
\* condition's list, or one signaller is about to raise it, or it was raised.
THEOREM NoSignalLost == Spec => []NoLostSignal
<1>1. Init => TypeOK /\ CallOK /\ SignalInv BY InitOK, SignalInit
<1>2. TypeOK /\ CallOK /\ SignalInv /\ [Next]_vars => (TypeOK /\ CallOK /\ SignalInv)'
  BY NextOK, SignalNext
<1>3. TypeOK /\ CallOK /\ SignalInv => NoLostSignal BY SignalInvIs
<1> QED BY <1>1, <1>2, <1>3, PTL DEF Spec

\* With every waiter asleep the first one has a priority none exceeds.
LEMMA TakesHighest ==
    ASSUME TypeOK, NEW d \in Cond, NEW w \in Thread, CondvarTake(d, w),
           \A u \in Members(cond_waiters[d]) : Asleep(u),
           NEW u \in Members(cond_waiters'[d])
    PROVE  priority[w] >= priority[u]
<1> DEFINE list == cond_waiters[d]
           n == Len(list)
<1>1. list \in Seq(Thread) /\ list # << >> /\ n \in Nat /\ n > 0
  BY DEF CondvarTake, TypeOK, MonitorTypeOK
<1>2. PICK key \in WaiterKeys(d) : \E q \in StableOrders(list, key) :
          /\ w = Head(Arranged(list, q))
          /\ cond_waiters' = [cond_waiters EXCEPT ![d] = Tail(Arranged(list, q))]
  BY DEF CondvarTake
<1>3. PICK q \in StableOrders(list, key) :
          /\ w = Head(Arranged(list, q))
          /\ cond_waiters' = [cond_waiters EXCEPT ![d] = Tail(Arranged(list, q))]
  BY <1>2
<1>4. /\ q \in [1 .. n -> 1 .. n]
      /\ \A i, j \in 1 .. n : i < j => \/ key[list[q[i]]] > key[list[q[j]]]
                                       \/ key[list[q[i]]] = key[list[q[j]]]
  BY DEF StableOrders
<1>5. \A t \in Members(list) : key[t] = priority[t] /\ key[t] \in Int
  BY ConstantFacts, MonitorAssumption DEF WaiterKeys
<1>6. cond_waiters'[d] = Tail(Arranged(list, q)) BY <1>3 DEF TypeOK, MonitorTypeOK
<1> HIDE DEF list, n
<1>7. \A i \in 1 .. n : list[q[i]] \in Members(list) /\ list[q[i]] \in Thread
  BY <1>1, <1>4 DEF Members, n
<1>8. /\ Arranged(list, q) \in Seq(Thread) /\ Len(Arranged(list, q)) = n
      /\ \A i \in 1 .. n : Arranged(list, q)[i] = list[q[i]]
  BY <1>1, <1>7 DEF Arranged, n
<1>9. w = list[q[1]] BY <1>1, <1>3, <1>8
<1>10. PICK i \in 1 .. n - 1 : u = Tail(Arranged(list, q))[i]
  <2>1. Len(Tail(Arranged(list, q))) = n - 1 BY <1>1, <1>8
  <2> QED BY <1>6, <2>1 DEF Members
<1>11. u = list[q[i + 1]] /\ i + 1 \in 1 .. n /\ 1 < i + 1 BY <1>1, <1>8, <1>10
<1>12. key[list[q[1]]] > key[list[q[i + 1]]] \/ key[list[q[1]]] = key[list[q[i + 1]]]
  <2>1. 1 \in 1 .. n BY <1>1
  <2> QED BY <1>4, <1>11, <2>1
<1> QED BY <1>1, <1>5, <1>7, <1>9, <1>11, <1>12

\* condvar_signal() takes a waiter that no other one exceeds, provided that
\* every waiter has gone to sleep on its semaphore.
THEOREM HighestSignalled == Spec => SignalsHighestAsleep
<1> DEFINE Highest ==
        \A c \in Cond : \A t \in Members(cond_waiters[c]) \ Members(cond_waiters'[c]) :
            (\A u \in Members(cond_waiters[c]) : Asleep(u)) =>
                \A u \in Members(cond_waiters'[c]) : priority[t] >= priority[u]
<1>1. Init => TypeOK /\ CallOK /\ SignalInv BY InitOK, SignalInit
<1>2. TypeOK /\ CallOK /\ SignalInv /\ [Next]_vars => (TypeOK /\ CallOK /\ SignalInv)'
  BY NextOK, SignalNext
<1>3. ASSUME TypeOK, CallOK, SignalInv, Next PROVE Highest
  <2> SUFFICES ASSUME NEW d \in Cond, NEW t \in Members(cond_waiters[d]),
                      t \notin Members(cond_waiters'[d]),
                      \A u \in Members(cond_waiters[d]) : Asleep(u),
                      NEW u \in Members(cond_waiters'[d])
               PROVE  priority[t] >= priority[u]
    OBVIOUS
  <2>1. CallOK' /\ SignalKinds BY <1>3, NextOK, NextKinds
  <2>2. cond_waiters \in [Cond -> Seq(Thread)] /\ Linear(cond_waiters[d])
    BY <1>3 DEF TypeOK, MonitorTypeOK, SignalInv, CondOK
  <2>3. cond_waiters'[d] # cond_waiters[d] OBVIOUS
  <2>4. PICK c \in Thread : c = current /\ ((\E e \in Cond : Joins(c, e))
                            \/ \E e \in Cond, w \in Thread : TakesWaiter(c, e, w))
    BY <2>1, <2>3 DEF SignalKinds, Unseen, Raises, Consumes
  <2>5. ~ \E e \in Cond : Joins(c, e)
    <3> SUFFICES ASSUME NEW e \in Cond, Joins(c, e) PROVE FALSE OBVIOUS
    <3>1. e = d /\ cond_waiters'[d] = Append(cond_waiters[d], c)
      BY <2>2, <2>3 DEF Joins
    <3>2. c \notin Members(cond_waiters[d])
      BY <1>3, WaiterFacts DEF Joins
    <3> QED BY <2>2, <3>1, <3>2, AppendedList
  <2>6. PICK e \in Cond, w \in Thread : TakesWaiter(c, e, w) BY <2>4, <2>5
  <2>7. CondvarTake(e, w) /\ Linear(cond_waiters[e])
    BY <1>3, <2>6 DEF TakesWaiter, SignalInv, CondOK
  <2>8. /\ e = d
        /\ Members(cond_waiters'[d]) = Members(cond_waiters[d]) \ {w}
    BY <1>3, <2>3, <2>7, CondvarTakeFacts
  <2>9. t = w BY <2>8
  <2> QED BY <1>3, <2>7, <2>8, <2>9, TakesHighest
<1>4. TypeOK /\ CallOK /\ SignalInv /\ [Next]_vars => [Highest]_vars BY <1>3
<1> QED BY <1>1, <1>2, <1>4, PTL DEF Spec, SignalsHighestAsleep

-----------------------------------------------------------------------------
(* What the abstract monitor shows of a state.                             *)

\* One of Owners(l), WaitingAt[d], NotifiedOf[d], thread by thread.
Owns(t, l) == Holds(t, l) \/ Between(t, l)

WaitsAt(t, d) == t \in Members(cond_waiters[d]) /\ pc[t] # "up"

NotifiedAt(t, d) ==
    /\ task[t] = "wait" /\ arg[t] = d /\ pc[t] \in {"enter", "down"}
    /\ t \notin Members(cond_waiters[d])

\* The value of OwnerOf for a set of owners.
OneOf(S) == IF S = {} THEN Nil ELSE CHOOSE t \in S : TRUE

LEMMA OwnerOfIs ==
    /\ OwnerOf = [l \in Lock |-> OneOf(Owners(l))]
    /\ OwnerOf' = [l \in Lock |-> OneOf(Owners(l)')]
BY DEF OwnerOf, OneOf

LEMMA OneOfIs == OneOf({}) = Nil /\ \A t : OneOf({t}) = t
<1>1. ASSUME NEW t PROVE OneOf({t}) = t BY DEF OneOf
<1> QED BY <1>1 DEF OneOf

LEMMA OwnersAre ==
    \A l \in Lock : /\ Owners(l) = {t \in Thread : Owns(t, l)}
                    /\ Owners(l)' = {t \in Thread : Owns(t, l)'}
BY DEF Owners, Owns

LEMMA NotifiedIs ==
    /\ NotifiedOf = [d \in Cond |-> {t \in Thread : NotifiedAt(t, d)}]
    /\ NotifiedOf' = [d \in Cond |-> {t \in Thread : NotifiedAt(t, d)'}]
BY DEF NotifiedOf, NotifiedAt

LEMMA WaitingIs ==
    ASSUME SignalInv, SignalInv'
    PROVE  /\ WaitingAt = [d \in Cond |-> {t \in Thread : WaitsAt(t, d)}]
           /\ WaitingAt' = [d \in Cond |-> {t \in Thread : WaitsAt(t, d)'}]
<1>1. \A d \in Cond : {t \in Members(cond_waiters[d]) : pc[t] # "up"}
                      = {t \in Thread : WaitsAt(t, d)}
  BY DEF SignalInv, CondOK, WaitsAt
<1>2. \A d \in Cond : {t \in Members(cond_waiters'[d]) : pc'[t] # "up"}
                      = {t \in Thread : WaitsAt(t, d)'}
  BY DEF SignalInv, CondOK, WaitsAt
<1> QED BY <1>1, <1>2 DEF WaitingAt

\* A thread outside condvar_wait(), or past its signal, is in neither set.
LEMMA Elsewhere ==
    ASSUME SignalInv, SignalInv', NEW c \in Thread
    PROVE  /\ (task[c] # "wait" \/ pc[c] \notin {"enter", "down"}) =>
                  \A d \in Cond : ~WaitsAt(c, d) /\ ~NotifiedAt(c, d)
           /\ (task'[c] # "wait" \/ pc'[c] \notin {"enter", "down"}) =>
                  \A d \in Cond : ~WaitsAt(c, d)' /\ ~NotifiedAt(c, d)'
<1>1. \A d \in Cond : WaitsAt(c, d) => AwaitsSignal(c) /\ pc[c] # "up"
  BY DEF SignalInv, CondOK, WaitsAt
<1>2. \A d \in Cond : WaitsAt(c, d)' => AwaitsSignal(c)' /\ pc'[c] # "up"
  BY DEF SignalInv, CondOK, WaitsAt
<1>3. \A d \in Cond : NotifiedAt(c, d)' => task'[c] = "wait" /\ pc'[c] \in {"enter", "down"}
  BY DEF NotifiedAt
<1> QED BY <1>1, <1>2, <1>3 DEF AwaitsSignal, NotifiedAt

-----------------------------------------------------------------------------
(* The abstract steps, in these terms.                                     *)

AbstractStep == [Abstract!Next]_(Abstract!vars)

SameOwners == \A l \in Lock : Owners(l)' = Owners(l)
OthersOwners(l) == \A k \in Lock \ {l} : Owners(k)' = Owners(k)
SameWaiting == \A t \in Thread, d \in Cond : WaitsAt(t, d)' <=> WaitsAt(t, d)
SameNotified == \A t \in Thread, d \in Cond : NotifiedAt(t, d)' <=> NotifiedAt(t, d)

LEMMA Unchanged ==
    /\ SameOwners => OwnerOf' = OwnerOf
    /\ SignalInv /\ SignalInv' /\ SameWaiting => WaitingAt' = WaitingAt
    /\ SameNotified => NotifiedOf' = NotifiedOf
<1>1. SameOwners => OwnerOf' = OwnerOf BY OwnerOfIs DEF SameOwners
<1>2. SignalInv /\ SignalInv' /\ SameWaiting => WaitingAt' = WaitingAt
  BY WaitingIs DEF SameWaiting
<1>3. SameNotified => NotifiedOf' = NotifiedOf BY NotifiedIs DEF SameNotified
<1> QED BY <1>1, <1>2, <1>3

\* The owner of one lock changes.
LEMMA OwnerChanges ==
    ASSUME NEW l \in Lock, OthersOwners(l)
    PROVE  OwnerOf' = [OwnerOf EXCEPT ![l] = OneOf(Owners(l)')]
BY OwnerOfIs DEF OthersOwners

\* The owner the abstract monitor shows.
LEMMA OwnerIs ==
    ASSUME NEW l \in Lock
    PROVE  /\ Owners(l) = {} => OwnerOf[l] = Nil
           /\ \A t : Owners(l) = {t} => OwnerOf[l] = t
BY OwnerOfIs, OneOfIs

LEMMA StillStep ==
    ASSUME SignalInv, SignalInv', SameOwners, SameWaiting, SameNotified
    PROVE  AbstractStep
BY Unchanged DEF AbstractStep, Abstract!vars

LEMMA AcquireStep ==
    ASSUME SignalInv, SignalInv', NEW c \in Thread, NEW l \in Lock,
           Owners(l) = {}, Owners(l)' = {c}, OthersOwners(l), SameWaiting, SameNotified,
           \A d \in Cond : ~WaitsAt(c, d) /\ ~NotifiedAt(c, d)
    PROVE  AbstractStep
<1>1. OwnerOf[l] = Nil /\ OwnerOf' = [OwnerOf EXCEPT ![l] = c]
  BY OwnerChanges, OwnerIs, OneOfIs
<1>2. Abstract!Outside(c)
  <2>1. \A d \in Cond : c \notin WaitingAt[d] /\ c \notin NotifiedOf[d]
    BY WaitingIs, NotifiedIs
  <2> QED BY <2>1 DEF Abstract!Outside
<1>3. Abstract!Acquire(c, l) BY <1>1, <1>2, Unchanged DEF Abstract!Acquire
<1> QED BY <1>3 DEF AbstractStep, Abstract!Next

LEMMA ReleaseStep ==
    ASSUME SignalInv, SignalInv', NEW c \in Thread, NEW l \in Lock,
           Owners(l) = {c}, Owners(l)' = {}, OthersOwners(l), SameWaiting, SameNotified
    PROVE  AbstractStep
<1>1. OwnerOf[l] = c /\ OwnerOf' = [OwnerOf EXCEPT ![l] = Nil]
  BY OwnerChanges, OwnerIs, OneOfIs
<1>3. Abstract!Release(c, l) BY <1>1, Unchanged DEF Abstract!Release
<1> QED BY <1>3 DEF AbstractStep, Abstract!Next

LEMMA WaitStep ==
    ASSUME SignalInv, SignalInv', NEW c \in Thread, NEW e \in Cond, LockOf[e] \in Lock,
           Owners(LockOf[e]) = {c}, Owners(LockOf[e])' = {}, OthersOwners(LockOf[e]),
           \A t \in Thread, d \in Cond : WaitsAt(t, d)' <=> WaitsAt(t, d) \/ (t = c /\ d = e),
           SameNotified
    PROVE  AbstractStep
<1>1. OwnerOf[LockOf[e]] = c /\ OwnerOf' = [OwnerOf EXCEPT ![LockOf[e]] = Nil]
  BY OwnerChanges, OwnerIs, OneOfIs
<1>2. WaitingAt' = [WaitingAt EXCEPT ![e] = @ \cup {c}]
  <2>1. \A d \in Cond : {t \in Thread : WaitsAt(t, d)'}
                        = {t \in Thread : WaitsAt(t, d)} \cup (IF d = e THEN {c} ELSE {})
    OBVIOUS
  <2> QED BY <2>1, WaitingIs
<1>3. Abstract!Wait(c, e) BY <1>1, <1>2, Unchanged DEF Abstract!Wait
<1> QED BY <1>3 DEF AbstractStep, Abstract!Next

LEMMA ReturnStep ==
    ASSUME SignalInv, SignalInv', NEW c \in Thread, NEW e \in Cond, LockOf[e] \in Lock,
           Owners(LockOf[e]) = {}, Owners(LockOf[e])' = {c}, OthersOwners(LockOf[e]),
           NotifiedAt(c, e),
           \A t \in Thread, d \in Cond :
               NotifiedAt(t, d)' <=> NotifiedAt(t, d) /\ ~(t = c /\ d = e),
           SameWaiting
    PROVE  AbstractStep
<1>1. OwnerOf[LockOf[e]] = Nil /\ OwnerOf' = [OwnerOf EXCEPT ![LockOf[e]] = c]
  BY OwnerChanges, OwnerIs, OneOfIs
<1>2. c \in NotifiedOf[e] /\ NotifiedOf' = [NotifiedOf EXCEPT ![e] = @ \ {c}] BY NotifiedIs
<1>3. Abstract!Return(c, e) BY <1>1, <1>2, Unchanged DEF Abstract!Return
<1> QED BY <1>3 DEF AbstractStep, Abstract!Next

LEMMA NotifyStep ==
    ASSUME SignalInv, SignalInv', NEW c \in Thread, NEW w \in Thread, NEW e \in Cond,
           LockOf[e] \in Lock, Owners(LockOf[e]) = {c}, c # w, SameOwners,
           WaitsAt(w, e),
           \A t \in Thread, d \in Cond :
               /\ WaitsAt(t, d)' <=> WaitsAt(t, d) /\ ~(t = w /\ d = e)
               /\ NotifiedAt(t, d)' <=> NotifiedAt(t, d) \/ (t = w /\ d = e)
    PROVE  AbstractStep
<1>1. OwnerOf[LockOf[e]] = c /\ c # Nil BY OwnerIs, ConstantFacts
<1>2. w \in WaitingAt[e] /\ WaitingAt' = [WaitingAt EXCEPT ![e] = @ \ {w}] BY WaitingIs
<1>3. NotifiedOf' = [NotifiedOf EXCEPT ![e] = @ \cup {w}] BY NotifiedIs
<1>4. Abstract!Signal(w, e) BY <1>1, <1>2, <1>3, Unchanged DEF Abstract!Signal
<1> QED BY <1>4 DEF AbstractStep, Abstract!Next

-----------------------------------------------------------------------------
(* What ties the signals to the locks.                                     *)

\* A thread about to give up its lock inside condvar_wait() is on the list
\* still: a signaller would own the same lock. condvar_broadcast() holds the
\* lock to its end.
MonitorOK(t) ==
    /\ task[t] = "wait" /\ pc[t] = "up" => Queued(t)
    /\ task[t] = "broadcast" => Holds(t, LockOf[arg[t]])

\* The inductive invariant.
MonitorInv == MutexInv /\ SignalInv /\ \A t \in Thread : MonitorOK(t)

MonitorStep == (\A t \in Thread : MonitorOK(t)') /\ AbstractStep

OthersHold == \A t \in Thread \ {current}, l \in Lock : Holds(t, l)' <=> Holds(t, l)

LEMMA OthersMonitor ==
    ASSUME TypeOK, CallOK, MonitorInv, OthersKeep, OthersHold, NEW c \in Thread, c = current,
           \A t \in Thread \ {c} : task[t] = "wait" /\ pc[t] = "up" /\ Queued(t) => Queued(t)',
           MonitorOK(c)'
    PROVE  \A t \in Thread : MonitorOK(t)'
<1> SUFFICES ASSUME NEW t \in Thread, t # c PROVE MonitorOK(t)' OBVIOUS
<1>1. task'[t] = task[t] /\ arg'[t] = arg[t] /\ pc'[t] = pc[t] BY DEF OthersKeep
<1>2. task[t] = "wait" /\ pc[t] = "up" => Queued(t)' BY DEF MonitorInv, MonitorOK
<1>3. ASSUME task[t] = "broadcast" PROVE Holds(t, LockOf[arg[t]])'
  <2>1. arg[t] \in Cond BY <1>3 DEF CallOK, ThreadCallOK
  <2>2. LockOf[arg[t]] \in Lock BY <2>1, ConstantFacts
  <2>3. Holds(t, LockOf[arg[t]]) BY <1>3 DEF MonitorInv, MonitorOK
  <2> QED BY <1>1, <2>2, <2>3 DEF OthersHold, Holds
<1> QED BY <1>1, <1>2, <1>3 DEF MonitorOK

\* Owners change only with what the running thread owns.
LEMMA OwnersStep ==
    ASSUME OthersKeep, OthersHold, NEW c \in Thread, c = current, NEW l \in Lock,
           \A k \in Lock \ {l} : Owns(c, k)' <=> Owns(c, k)
    PROVE  /\ OthersOwners(l)
           /\ (Owns(c, l)' <=> Owns(c, l)) => SameOwners
           /\ Owners(l) = {c} /\ ~Owns(c, l)' => Owners(l)' = {}
           /\ Owners(l) = {} /\ Owns(c, l)' => Owners(l)' = {c}
<1>1. \A t \in Thread \ {c}, k \in Lock : Owns(t, k)' <=> Owns(t, k)
  BY DEF OthersKeep, OthersHold, Owns, Between
<1>2. \A t \in Thread, k \in Lock \ {l} : Owns(t, k)' <=> Owns(t, k) BY <1>1
<1>3. OthersOwners(l) BY <1>2, OwnersAre DEF OthersOwners
<1>4. ASSUME Owns(c, l)' <=> Owns(c, l) PROVE SameOwners
  <2>1. \A t \in Thread, k \in Lock : Owns(t, k)' <=> Owns(t, k) BY <1>1, <1>2, <1>4
  <2> QED BY <2>1, OwnersAre DEF SameOwners
<1>5. ASSUME Owners(l) = {c}, ~Owns(c, l)' PROVE Owners(l)' = {}
  <2>1. \A t \in Thread : ~Owns(t, l)' BY <1>1, <1>5, OwnersAre
  <2> QED BY <2>1, OwnersAre
<1>6. ASSUME Owners(l) = {}, Owns(c, l)' PROVE Owners(l)' = {c}
  <2>1. \A t \in Thread : Owns(t, l)' <=> t = c BY <1>1, <1>6, OwnersAre
  <2> QED BY <2>1, OwnersAre
<1> QED BY <1>3, <1>4, <1>5, <1>6

LEMMA OwnerFacts ==
    ASSUME MutexInv, NEW l \in Lock
    PROVE  /\ \A c \in Thread : Owns(c, l) => Owners(l) = {c}
           /\ value[l] > 0 => Owners(l) = {}
<1>1. ASSUME NEW c \in Thread, Owns(c, l) PROVE Owners(l) = {c}
  BY <1>1, OwnersAre DEF MutexInv, MutualExclusion
<1>2. value[l] = IF Owners(l) = {} THEN 1 ELSE 0 BY DEF MutexInv, MutualExclusion
<1> QED BY <1>1, <1>2

\* Nobody else's place in the monitor changes while the lists stay.
LEMMA OthersView ==
    ASSUME OthersKeep, NEW c \in Thread, c = current, cond_waiters' = cond_waiters
    PROVE  /\ \A t \in Thread \ {c}, d \in Cond :
                  (WaitsAt(t, d)' <=> WaitsAt(t, d)) /\ (NotifiedAt(t, d)' <=> NotifiedAt(t, d))
           /\ \A t \in Thread \ {c} : Queued(t) => Queued(t)'
BY DEF OthersKeep, WaitsAt, NotifiedAt, Queued

LEMMA StillHere ==
    ASSUME TypeOK, CallOK, MonitorInv, SignalInv', OthersKeep, OthersHold,
           NEW c \in Thread, c = current, cond_waiters' = cond_waiters,
           \A l \in Lock : Owns(c, l)' <=> Owns(c, l),
           \A d \in Cond : (WaitsAt(c, d)' <=> WaitsAt(c, d))
                           /\ (NotifiedAt(c, d)' <=> NotifiedAt(c, d)),
           MonitorOK(c)'
    PROVE  MonitorStep
<1>1. SameWaiting /\ SameNotified BY OthersView DEF SameWaiting, SameNotified
<1>2. SameOwners BY OwnersStep, ConstantFacts
<1>3. AbstractStep BY <1>1, <1>2, StillStep DEF MonitorInv
<1>4. \A t \in Thread : MonitorOK(t)' BY OthersView, OthersMonitor
<1> QED BY <1>3, <1>4 DEF MonitorStep

\* The steps that touch no lock and no list: the thread stays where it is ...
LEMMA MonitorStays ==
    ASSUME TypeOK, CallOK, MonitorInv, SignalInv',
           UNCHANGED <<holder, cond_waiters, pc, target, task, arg>>
    PROVE  MonitorStep
<1>1. PICK c \in Thread : c = current BY SelfType
<1>2. OthersKeep /\ OthersHold BY SameCalls DEF OthersHold, Holds
<1>3. MonitorOK(c)' BY DEF MonitorInv, MonitorOK, Queued, Holds
<1>4. \A l \in Lock : Owns(c, l)' <=> Owns(c, l) BY DEF Owns, Between, Holds
<1>5. \A d \in Cond : (WaitsAt(c, d)' <=> WaitsAt(c, d))
                      /\ (NotifiedAt(c, d)' <=> NotifiedAt(c, d))
  BY DEF WaitsAt, NotifiedAt
<1> QED BY <1>1, <1>2, <1>3, <1>4, <1>5, StillHere

\* ... or moves, outside condvar_wait() or between its points.
LEMMA MonitorMoves ==
    ASSUME TypeOK, CallOK, MonitorInv, SignalInv', OthersKeep,
           UNCHANGED <<holder, cond_waiters>>, NEW p, NEW q, Goto(p, q),
           p \in {"taken", "up"} => q \notin Lock,
           pc[current] \in {"taken", "up"} => target[current] \notin Lock,
           \/ task[current] # "wait" /\ task'[current] # "wait"
           \/ /\ {pc[current], p} \subseteq {"enter", "down"}
              /\ UNCHANGED <<task, arg>>,
           task'[current] = "broadcast" => holder[LockOf[arg'[current]]] = current
    PROVE  MonitorStep
<1>1. PICK c \in Thread : c = current BY SelfType
<1>2. pc'[c] = p /\ target'[c] = q BY <1>1, OwnPoint
<1>3. OthersHold BY DEF OthersHold, Holds
<1>4. MonitorOK(c)' BY <1>1, <1>2 DEF MonitorOK, Holds
<1>5. \A l \in Lock : Owns(c, l)' <=> Owns(c, l)
  BY <1>1, <1>2 DEF Owns, Between, Holds
<1>6. \A d \in Cond : (WaitsAt(c, d)' <=> WaitsAt(c, d))
                      /\ (NotifiedAt(c, d)' <=> NotifiedAt(c, d))
  <2>1. CASE task[c] # "wait" /\ task'[c] # "wait" BY <2>1, Elsewhere DEF MonitorInv
  <2>2. CASE {pc[c], p} \subseteq {"enter", "down"} /\ UNCHANGED <<task, arg>>
    BY <1>2, <2>2 DEF WaitsAt, NotifiedAt
  <2> QED BY <1>1, <2>1, <2>2
<1> QED BY <1>1, <1>3, <1>4, <1>5, <1>6, StillHere

\* The semaphore of a lock is taken: Acquire, or Return from condvar_wait().
LEMMA MonitorTakes ==
    ASSUME TypeOK, CallOK, CallOK', MonitorInv, SignalInv', OthersKeep,
           UNCHANGED <<holder, cond_waiters, task, arg>>,
           NEW l \in Lock, SemaphoreTake(l), Goto("taken", l),
           \/ pc[current] = "run" /\ current # Idle
           \/ pc[current] \in {"enter", "down"} /\ target[current] = l
    PROVE  MonitorStep
<1>1. PICK c \in Thread : c = current BY SelfType
<1>2. pc'[c] = "taken" /\ target'[c] = l BY <1>1, OwnPoint
<1>3. OthersHold BY DEF OthersHold, Holds
<1>4. /\ ThreadCallOK(c) /\ ThreadCallOK(c)' /\ l \notin Thread
      /\ task'[c] = task[c] /\ arg'[c] = arg[c]
  BY <1>1, ConstantFacts DEF CallOK
<1>5. MonitorOK(c)' BY <1>2, <1>4 DEF MonitorOK, ThreadCallOK
<1>6. \A t \in Thread : MonitorOK(t)' BY <1>1, <1>3, <1>5, OthersView, OthersMonitor
<1>7. Owners(l) = {} BY OwnerFacts DEF SemaphoreTake, MonitorInv
<1>8. /\ \A k \in Lock \ {l} : Owns(c, k)' <=> Owns(c, k)
      /\ Owns(c, l)'
  BY <1>1, <1>2 DEF Owns, Between, Holds
<1>9. OthersOwners(l) /\ Owners(l)' = {c} BY <1>1, <1>3, <1>7, <1>8, OwnersStep
<1>10. \A d \in Cond : ~WaitsAt(c, d)' /\ ~NotifiedAt(c, d)'
  BY <1>2, Elsewhere DEF MonitorInv
<1>11. CASE task[c] # "wait"
  <2>1. \A d \in Cond : ~WaitsAt(c, d) /\ ~NotifiedAt(c, d)
    BY <1>11, Elsewhere DEF MonitorInv
  <2>2. SameWaiting /\ SameNotified
    BY <1>1, <1>10, <2>1, OthersView DEF SameWaiting, SameNotified
  <2>3. AbstractStep BY <1>7, <1>9, <2>1, <2>2, AcquireStep DEF MonitorInv
  <2> QED BY <1>6, <2>3 DEF MonitorStep
<1>12. CASE task[c] = "wait"
  <2>1. pc[c] \in {"enter", "down"} /\ target[c] = l BY <1>1, <1>4, <1>12 DEF ThreadCallOK
  <2>2. arg[c] \in Cond /\ l = LockOf[arg[c]]
    BY <1>4, <1>12, <2>1 DEF ThreadCallOK
  <2>3. ~AwaitsSignal(c) BY <1>4, <2>1 DEF AwaitsSignal
  <2>4. \A d \in Cond : c \notin Members(cond_waiters[d])
    BY <2>3, WaiterFacts DEF MonitorInv
  <2>5. \A d \in Cond : ~WaitsAt(c, d) /\ (NotifiedAt(c, d) <=> d = arg[c])
    BY <1>12, <2>1, <2>4 DEF WaitsAt, NotifiedAt
  <2>6. SameWaiting BY <1>1, <1>10, <2>5, OthersView DEF SameWaiting
  <2>7. \A t \in Thread, d \in Cond :
            NotifiedAt(t, d)' <=> NotifiedAt(t, d) /\ ~(t = c /\ d = arg[c])
    BY <1>1, <1>10, <2>5, OthersView
  <2>8. AbstractStep BY <1>7, <1>9, <2>2, <2>5, <2>6, <2>7, ReturnStep DEF MonitorInv
  <2> QED BY <1>6, <2>8 DEF MonitorStep
<1> QED BY <1>11, <1>12

\* It is raised: Release, or Wait for the thread that stands on the list.
LEMMA MonitorGives ==
    ASSUME TypeOK, CallOK, CallOK', MonitorInv, SignalInv', OthersKeep,
           UNCHANGED <<holder, cond_waiters, task, arg>>,
           NEW l \in Lock, pc[current] = "up", target[current] = l,
           NEW p, NEW q, Goto(p, q), p \notin {"taken", "up"},
           task[current] = "wait" => p = "enter"
    PROVE  MonitorStep
<1>1. PICK c \in Thread : c = current BY SelfType
<1>2. pc'[c] = p /\ target'[c] = q BY <1>1, OwnPoint
<1>3. OthersHold BY DEF OthersHold, Holds
<1>4. /\ ThreadCallOK(c) /\ l \notin Thread
      /\ task'[c] = task[c] /\ arg'[c] = arg[c]
  BY <1>1, ConstantFacts DEF CallOK
<1>5. MonitorOK(c)' BY <1>1, <1>2, <1>4 DEF MonitorOK, ThreadCallOK
<1>6. \A t \in Thread : MonitorOK(t)' BY <1>1, <1>3, <1>5, OthersView, OthersMonitor
<1>7. Owns(c, l) /\ ~Holds(c, l)
  BY <1>1 DEF Owns, Between, MonitorInv, MutexInv, HolderOK
<1>8. Owners(l) = {c} BY <1>7, OwnerFacts DEF MonitorInv
<1>9. /\ \A k \in Lock \ {l} : Owns(c, k)' <=> Owns(c, k)
      /\ ~Owns(c, l)'
  BY <1>1, <1>2, <1>7 DEF Owns, Between, Holds
<1>10. OthersOwners(l) /\ Owners(l)' = {} BY <1>1, <1>3, <1>8, <1>9, OwnersStep
<1>11. \A d \in Cond : ~WaitsAt(c, d) /\ ~NotifiedAt(c, d)
  BY <1>1, Elsewhere DEF MonitorInv
<1>12. CASE task[c] # "wait"
  <2>1. \A d \in Cond : ~WaitsAt(c, d)' /\ ~NotifiedAt(c, d)'
    BY <1>4, <1>12, Elsewhere DEF MonitorInv
  <2>2. SameWaiting /\ SameNotified
    BY <1>1, <1>11, <2>1, OthersView DEF SameWaiting, SameNotified
  <2>3. AbstractStep BY <1>8, <1>10, <2>2, ReleaseStep DEF MonitorInv
  <2> QED BY <1>6, <2>3 DEF MonitorStep
<1>13. CASE task[c] = "wait"
  <2>1. arg[c] \in Cond /\ l = LockOf[arg[c]] /\ pc'[c] = "enter"
    BY <1>1, <1>2, <1>4, <1>13 DEF ThreadCallOK
  <2>2. c \in Members(cond_waiters[arg[c]])
    BY <1>1, <1>13 DEF MonitorInv, MonitorOK, Queued
  <2>3. \A d \in Cond : c \in Members(cond_waiters[d]) => d = arg[c]
    BY WaiterFacts DEF MonitorInv
  <2>4. \A d \in Cond : ~NotifiedAt(c, d)' /\ (WaitsAt(c, d)' <=> d = arg[c])
    BY <1>4, <2>1, <2>2, <2>3 DEF WaitsAt, NotifiedAt
  <2>5. SameNotified BY <1>1, <1>11, <2>4, OthersView DEF SameNotified
  <2>6. \A t \in Thread, d \in Cond :
            WaitsAt(t, d)' <=> WaitsAt(t, d) \/ (t = c /\ d = arg[c])
    BY <1>1, <1>11, <2>4, OthersView
  <2>7. AbstractStep BY <1>8, <1>10, <2>1, <2>5, <2>6, WaitStep DEF MonitorInv
  <2> QED BY <1>6, <2>7 DEF MonitorStep
<1> QED BY <1>12, <1>13

\* The holder is recorded or cleared, the owner stays.
LEMMA MonitorRecords ==
    ASSUME TypeOK, CallOK, CallOK', MonitorInv, SignalInv', OthersKeep,
           cond_waiters' = cond_waiters, NEW l \in Lock,
           pc[current] = "taken", target[current] = l, SetHolder(l),
           NEW p \in {"run", "tid"}, NEW q, Goto(p, q), task'[current] \in {"none", "create"}
    PROVE  MonitorStep
<1>1. PICK c \in Thread : c = current BY SelfType
<1>2. pc'[c] = p /\ target'[c] = q BY <1>1, OwnPoint
<1>3. /\ holder'[l] = c /\ \A k \in Lock \ {l} : holder'[k] = holder[k]
  BY <1>1 DEF SetHolder, TypeOK, MonitorTypeOK
<1>4. Owns(c, l) BY <1>1 DEF Owns, Between
<1>5. Owners(l) = {c} BY <1>4, OwnerFacts DEF MonitorInv
<1>6. OthersHold BY <1>1, <1>3, <1>5, OwnersAre DEF OthersHold, Holds, Owns
<1>7. \A k \in Lock : Owns(c, k)' <=> Owns(c, k)
  BY <1>1, <1>2, <1>3, <1>4 DEF Owns, Between, Holds
<1>8. MonitorOK(c)' BY <1>1, <1>2 DEF MonitorOK
<1>9. \A d \in Cond : (WaitsAt(c, d)' <=> WaitsAt(c, d))
                      /\ (NotifiedAt(c, d)' <=> NotifiedAt(c, d))
  BY <1>1, <1>2, Elsewhere DEF MonitorInv
<1> QED BY <1>1, <1>6, <1>7, <1>8, <1>9, StillHere

LEMMA ClearsFacts ==
    ASSUME TypeOK, MutexInv, NEW c \in Thread, c = current, NEW l \in Lock,
           Holds(c, l), ClearHolder(l), Goto("up", l), pc[c] \notin {"taken", "up"}
    PROVE  /\ OthersHold
           /\ \A k \in Lock : Owns(c, k)' <=> Owns(c, k)
<1>2. pc'[c] = "up" /\ target'[c] = l BY OwnPoint
<1>3. /\ holder'[l] = Nil /\ \A k \in Lock \ {l} : holder'[k] = holder[k]
      /\ \A t \in Thread : t # Nil
  BY ConstantFacts DEF ClearHolder, TypeOK, MonitorTypeOK
<1>5. Owners(l) = {c} BY OwnerFacts DEF Owns
<1>6. OthersHold BY <1>3, <1>5, OwnersAre DEF OthersHold, Holds, Owns
<1>7. \A k \in Lock : Owns(c, k)' <=> Owns(c, k)
  BY <1>2, <1>3 DEF Owns, Between, Holds
<1> QED BY <1>6, <1>7

LEMMA MonitorClears ==
    ASSUME TypeOK, CallOK, CallOK', MonitorInv, SignalInv', OthersKeep,
           cond_waiters' = cond_waiters, NEW l \in Lock, Holds(current, l),
           ClearHolder(l), Goto("up", l), pc[current] \in {"run", "tid"},
           task'[current] \in {"none", "create"}
    PROVE  MonitorStep
<1>1. PICK c \in Thread : c = current BY SelfType
<1>2. pc'[c] = "up" BY <1>1, OwnPoint
<1>3. OthersHold /\ \A k \in Lock : Owns(c, k)' <=> Owns(c, k)
  BY <1>1, ClearsFacts DEF MonitorInv
<1>4. MonitorOK(c)' BY <1>1, <1>2 DEF MonitorOK
<1>5. \A d \in Cond : (WaitsAt(c, d)' <=> WaitsAt(c, d))
                      /\ (NotifiedAt(c, d)' <=> NotifiedAt(c, d))
  BY <1>1, <1>2, Elsewhere DEF MonitorInv
<1> QED BY <1>1, <1>3, <1>4, <1>5, StillHere

\* condvar_wait() up to its semaphore_up(): on the list, and the owner still.
LEMMA MonitorJoins ==
    ASSUME TypeOK, CallOK, CallOK', MonitorInv, SignalInv', NEW d \in Cond, CondvarWait(d)
    PROVE  MonitorStep
<1>1. PICK c \in Thread : c = current BY SelfType
<1>2. /\ OthersKeep /\ pc'[c] = "up" /\ target'[c] = LockOf[d]
      /\ task'[c] = "wait" /\ arg'[c] = d
  BY <1>1, CallKeeps DEF CondvarWait
<1>3. /\ pc[c] = "run" /\ Holds(c, LockOf[d]) /\ ClearHolder(LockOf[d])
      /\ Goto("up", LockOf[d]) /\ LockOf[d] \in Lock
  BY <1>1, ConstantFacts DEF CondvarWait, AtUser, At, self
<1>4. OthersHold /\ \A k \in Lock : Owns(c, k)' <=> Owns(c, k)
  BY <1>1, <1>3, ClearsFacts DEF MonitorInv
<1>5. /\ cond_waiters'[d] = Append(cond_waiters[d], c)
      /\ \A e \in Cond \ {d} : cond_waiters'[e] = cond_waiters[e]
  BY <1>1 DEF CondvarWait, CondvarEnqueue, TypeOK, MonitorTypeOK
<1>6. c \notin Members(cond_waiters[d])
  BY <1>3, WaiterFacts DEF MonitorInv, AwaitsSignal
<1>7. Members(cond_waiters'[d]) = Members(cond_waiters[d]) \cup {c}
  BY <1>5, <1>6, AppendedList DEF MonitorInv, SignalInv, CondOK, TypeOK, MonitorTypeOK
<1>8. \A t \in Thread \ {c}, e \in Cond :
          t \in Members(cond_waiters'[e]) <=> t \in Members(cond_waiters[e])
  BY <1>5, <1>7
<1>9. \A t \in Thread \ {c}, e \in Cond :
          (WaitsAt(t, e)' <=> WaitsAt(t, e)) /\ (NotifiedAt(t, e)' <=> NotifiedAt(t, e))
  BY <1>1, <1>2, <1>8 DEF OthersKeep, WaitsAt, NotifiedAt
<1>10. \A e \in Cond : (WaitsAt(c, e)' <=> WaitsAt(c, e))
                       /\ (NotifiedAt(c, e)' <=> NotifiedAt(c, e))
  BY <1>2, <1>3, Elsewhere DEF MonitorInv
<1>11. SameWaiting /\ SameNotified BY <1>9, <1>10 DEF SameWaiting, SameNotified
<1>12. SameOwners BY <1>1, <1>2, <1>3, <1>4, OwnersStep
<1>13. MonitorOK(c)' BY <1>2, <1>7 DEF MonitorOK, Queued
<1>14. \A t \in Thread \ {c} : task[t] = "wait" /\ Queued(t) => Queued(t)'
  BY <1>1, <1>2, <1>8 DEF OthersKeep, Queued, CallOK, ThreadCallOK
<1>15. \A t \in Thread : MonitorOK(t)'
  BY <1>1, <1>2, <1>4, <1>13, <1>14, OthersMonitor
<1> QED BY <1>11, <1>12, <1>15, StillStep DEF MonitorStep, MonitorInv

\* condvar_signal() takes a waiter off the list: the abstract Signal.
LEMMA MonitorSignals ==
    ASSUME TypeOK, CallOK, CallOK', MonitorInv, SignalInv', NEW d \in Cond, NEW w \in Thread,
           CondvarTake(d, w), Goto("up", w), UNCHANGED <<semaVars, holder, task, arg>>,
           Holds(current, LockOf[d]), pc[current] \in {"run", "signals"}
    PROVE  MonitorStep
<1>1. PICK c \in Thread : c = current BY SelfType
<1>2. OthersKeep /\ pc'[c] = "up" /\ target'[c] = w /\ UNCHANGED <<holder, task, arg>>
  BY <1>1, GotoKeeps, OwnPoint
<1>3. /\ Holds(c, LockOf[d]) /\ pc[c] \in {"run", "signals"} /\ LockOf[d] \in Lock
      /\ ThreadCallOK(c) /\ w \notin Lock /\ \A l \in Lock : w # l
  BY <1>1, ConstantFacts DEF CallOK
<1>4. task[c] # "wait" BY <1>3 DEF ThreadCallOK
<1>5. Owners(LockOf[d]) = {c} BY <1>3, OwnerFacts DEF Owns, MonitorInv
<1>6. /\ w \in Members(cond_waiters[d])
      /\ Members(cond_waiters'[d]) = Members(cond_waiters[d]) \ {w}
      /\ \A e \in Cond \ {d} : cond_waiters'[e] = cond_waiters[e]
  BY CondvarTakeFacts DEF MonitorInv, SignalInv, CondOK
<1>7. AwaitsSignal(w) /\ arg[w] = d /\ w # c /\ ThreadCallOK(w)
  BY <1>4, <1>6, WaiterFacts DEF MonitorInv, AwaitsSignal, CallOK
<1>8. pc[w] # "up"
  <2>1. pc[w] = "up" => Owns(w, LockOf[d])
    BY <1>7 DEF AwaitsSignal, ThreadCallOK, Owns, Between
  <2> QED BY <1>3, <1>5, <1>7, <2>1, OwnersAre
<1>9. WaitsAt(w, d) BY <1>6, <1>8 DEF WaitsAt
<1>10. \A e \in Cond : w \in Members(cond_waiters[e]) => e = d
  BY <1>7, WaiterFacts DEF MonitorInv
<1>11. \A t \in Thread, e \in Cond :
           t \in Members(cond_waiters'[e])
           <=> t \in Members(cond_waiters[e]) /\ ~(t = w /\ e = d)
  BY <1>6
<1>12. \A e \in Cond : /\ ~WaitsAt(c, e) /\ ~NotifiedAt(c, e)
                        /\ ~WaitsAt(c, e)' /\ ~NotifiedAt(c, e)'
  BY <1>2, <1>3, Elsewhere DEF MonitorInv
<1>13. \A t \in Thread \ {c} : pc'[t] = pc[t] /\ task'[t] = task[t] /\ arg'[t] = arg[t]
  BY <1>1, <1>2 DEF OthersKeep
<1>14. \A t \in Thread, e \in Cond : WaitsAt(t, e)' <=> WaitsAt(t, e) /\ ~(t = w /\ e = d)
  BY <1>11, <1>12, <1>13 DEF WaitsAt
<1>15. \A t \in Thread, e \in Cond :
           NotifiedAt(t, e)' <=> NotifiedAt(t, e) \/ (t = w /\ e = d)
  BY <1>7, <1>8, <1>11, <1>12, <1>13 DEF NotifiedAt, AwaitsSignal
<1>16. OthersHold BY <1>2 DEF OthersHold, Holds
<1>17. \A l \in Lock : Owns(c, l)' <=> Owns(c, l)
  BY <1>2, <1>3 DEF Owns, Between, Holds
<1>18. SameOwners BY <1>1, <1>2, <1>3, <1>16, <1>17, OwnersStep
<1>19. AbstractStep
  BY <1>3, <1>5, <1>7, <1>9, <1>14, <1>15, <1>18, NotifyStep DEF MonitorInv
<1>20. MonitorOK(c)'
  BY <1>1, <1>2, <1>3, <1>4 DEF MonitorOK, MonitorInv, Holds
<1>21. \A t \in Thread \ {c} : task[t] = "wait" /\ pc[t] = "up" /\ Queued(t) => Queued(t)'
  BY <1>8, <1>11, <1>13 DEF Queued, CallOK, ThreadCallOK
<1>22. \A t \in Thread : MonitorOK(t)'
  BY <1>1, <1>2, <1>16, <1>20, <1>21, OthersMonitor
<1> QED BY <1>19, <1>22 DEF MonitorStep

-----------------------------------------------------------------------------
(* Each action is one of these steps.                                      *)

LEMMA MonitorDown ==
    ASSUME TypeOK, CallOK, CallOK', MonitorInv, SignalInv', NEW s \in Semas, Down(s),
           current # Idle, UNCHANGED <<monitorVars, task, arg>>,
           \/ pc[current] = "run" /\ s \in Sem \cup (Lock \ {TidLock})
           \/ pc[current] \in {"enter", "down"} /\ s = target[current]
    PROVE  MonitorStep
<1>1. PICK c \in Thread : c = current BY SelfType
<1>2. /\ OthersKeep /\ UNCHANGED <<holder, cond_waiters, task, arg>>
      /\ ThreadCallOK(c) /\ pc[c] \in {"run", "enter", "down"}
  <2>1. \E p, q : Goto(p, q) BY DEF Down, AfterDown
  <2> QED BY <1>1, <2>1, GotoKeeps DEF monitorVars, CallOK
<1>3. task[c] # "broadcast" /\ (pc[c] = "run" => task[c] = "none")
  BY <1>2 DEF ThreadCallOK
<1>4. SemaphoreTake(s) => AfterDown(s)
  BY DEF Down, SemaphoreSleep, SemaphoreTake, TypeOK, SemaTypeOK
<1>5. CASE s \in Lock /\ SemaphoreTake(s)
  <2>1. Goto("taken", s) BY <1>4, <1>5, ConstantFacts DEF AfterDown
  <2> QED BY <1>2, <1>5, <2>1, MonitorTakes
<1>6. CASE s \in Sem /\ SemaphoreTake(s)
  <2>1. Goto("run", Nil) BY <1>4, <1>6, ConstantFacts DEF AfterDown
  <2>2. task[c] # "wait" BY <1>1, <1>2, <1>3, <1>6, ConstantFacts DEF ThreadCallOK
  <2> QED BY <1>1, <1>2, <1>3, <2>1, <2>2, MonitorMoves
<1>7. CASE s \in Thread /\ SemaphoreTake(s)
  <2>1. PICK q : Goto("enter", q) BY <1>4, <1>7, ConstantFacts DEF AfterDown
  <2>2. pc[c] \in {"enter", "down"} BY <1>1, <1>7, ConstantFacts
  <2> QED BY <1>1, <1>2, <1>3, <2>1, <2>2, MonitorMoves
<1>8. CASE SemaphoreSleep(s)
  <2>1. Goto("down", s) BY <1>8 DEF Down, SemaphoreSleep, SemaphoreTake, TypeOK, SemaTypeOK
  <2> QED BY <1>1, <1>2, <1>3, <2>1, MonitorMoves
<1> QED BY <1>5, <1>6, <1>7, <1>8, ConstantFacts DEF Down

\* The other steps of a thread outside condvar_wait() and outside any lock.
LEMMA MonitorOther ==
    ASSUME TypeOK, CallOK, MonitorInv, SignalInv', OthersKeep,
           UNCHANGED <<holder, cond_waiters>>, NEW p, NEW q, Goto(p, q),
           p \notin {"taken", "up"},
           pc[current] \in {"run", "tid", "unblock", "check", "front", "signals"},
           task'[current] \in {"none", "create"}
    PROVE  MonitorStep
<1>1. task[current] # "wait" BY SelfType DEF ThreadCallOK
<1> QED BY <1>1, MonitorMoves

LEMMA MonitorInner ==
    ASSUME TypeOK, CallOK, CallOK', MonitorInv, SignalInv', InnerUp PROVE MonitorStep
<1>1. PICK c \in Thread : c = current BY SelfType
<1>2. /\ UNCHANGED <<holder, cond_waiters, task, arg>> /\ ThreadCallOK(c) /\ pc[c] = "up"
      /\ target[c] \in Semas
  BY <1>1, SelfType DEF InnerUp, At, self, monitorVars, CallOK, ThreadCallOK
<1>3. PICK p, q : /\ Goto(p, q) /\ p \in {"run", "enter", "unblock", "signals"}
                  /\ task[c] = "wait" => p = "enter"
  BY <1>1 DEF InnerUp, self
<1>4. OthersKeep BY <1>2, <1>3, GotoKeeps
<1>5. CASE target[c] \in Lock
  <2>1. PICK l \in Lock : target[c] = l BY <1>5
  <2> QED BY <1>1, <1>2, <1>3, <1>4, <2>1, MonitorGives
<1>6. CASE target[c] \notin Lock
  <2>1. task[c] # "wait" BY <1>2, <1>6, ConstantFacts DEF ThreadCallOK
  <2>2. task[c] = "broadcast" => holder[LockOf[arg[c]]] = c
    BY DEF MonitorInv, MonitorOK, Holds
  <2> QED BY <1>1, <1>2, <1>3, <1>4, <1>6, <2>1, <2>2, MonitorMoves
<1> QED BY <1>5, <1>6

LEMMA MonitorContinue ==
    ASSUME TypeOK, CallOK, CallOK', MonitorInv, SignalInv', Continue PROVE MonitorStep
<1>1. PICK c \in Thread : c = current BY SelfType
<1>2. ThreadCallOK(c) /\ target[c] \in Semas \cup {Nil} /\ task[c] \in Task
  BY <1>1, SelfType
<1>3. CASE EnterDown \/ ResumeDown
  <2>1. /\ pc[current] \in {"enter", "down"} /\ Down(target[current])
        /\ UNCHANGED <<monitorVars, task, arg>>
    BY <1>3 DEF EnterDown, ResumeDown, At, self
  <2>2. target[current] \in Semas /\ current # Idle BY <2>1, SelfType DEF ThreadCallOK
  <2> QED BY <2>1, <2>2, MonitorDown
<1>4. CASE LockTaken
  <2>1. PICK l \in Lock : target[c] = l
    BY <1>1, <1>2, <1>4 DEF LockTaken, At, self, ThreadCallOK
  <2>2. /\ pc[current] = "taken" /\ cond_waiters' = cond_waiters /\ SetHolder(l)
        /\ SameTask \/ SetTask("none", Nil)
    BY <1>1, <1>4, <2>1 DEF LockTaken, At, self
  <2>3. PICK p, q : p \in {"run", "tid"} /\ Goto(p, q) BY <1>4 DEF LockTaken
  <2>4. OthersKeep BY <2>2, <2>3, GotoKeeps, CallKeeps DEF SameTask
  <2>5. task'[c] \in {"none", "create"}
    BY <1>1, <1>4, <2>2 DEF LockTaken, SameTask, SetTask, self, TypeOK, CallTypeOK
  <2> QED BY <1>1, <2>1, <2>2, <2>3, <2>4, <2>5, MonitorRecords
<1>5. CASE BroadcastNext
  <2>1. PICK w \in Thread : CondvarTake(arg[c], w) /\ Goto("up", w)
    BY <1>1, <1>5 DEF BroadcastNext, self
  <2>2. pc[c] = "signals" /\ UNCHANGED <<semaVars, holder, task, arg>>
    BY <1>1, <1>5 DEF BroadcastNext, At, self
  <2>3. PICK d \in Cond : d = arg[c] BY <1>2, <2>2 DEF ThreadCallOK, Task
  <2>4. Holds(c, LockOf[d])
    BY <1>2, <2>2, <2>3 DEF ThreadCallOK, Task, MonitorInv, MonitorOK
  <2> QED BY <1>1, <2>1, <2>2, <2>3, <2>4, MonitorSignals
<1>6. CASE BroadcastDone \/ UnblockChild
  <2>1. /\ pc[current] \in {"signals", "unblock"} /\ UNCHANGED <<holder, cond_waiters>>
        /\ SetTask("none", Nil)
    BY <1>6 DEF BroadcastDone, UnblockChild, At, self, monitorVars
  <2>2. PICK p, q : p \in {"run", "check"} /\ Goto(p, q) BY <1>6 DEF BroadcastDone, UnblockChild
  <2>3. OthersKeep /\ task'[current] = "none" BY <1>1, <2>1, <2>2, CallKeeps
  <2> QED BY <2>1, <2>2, <2>3, MonitorOther
<1>7. CASE CheckReady
  <2>1. pc[c] = "check" /\ UNCHANGED <<holder, cond_waiters, task, arg>>
    BY <1>1, <1>7 DEF CheckReady, At, self, monitorVars
  <2>2. PICK p \in {"run", "front"} : Goto(p, Nil) BY <1>7 DEF CheckReady
  <2>3. OthersKeep /\ task[c] = "none" BY <1>2, <2>1, <2>2, GotoKeeps DEF ThreadCallOK
  <2> QED BY <1>1, <2>1, <2>2, <2>3, MonitorOther
<1>8. CASE AllocateTid
  <2>1. /\ pc[c] = "tid" /\ UNCHANGED <<cond_waiters, task, arg>>
        /\ Goto("up", TidLock) /\ ClearHolder(TidLock)
    BY <1>1, <1>8 DEF AllocateTid, At, self
  <2>2. Holds(c, TidLock) /\ TidLock \in Lock
    BY <2>1, ConstantFacts DEF MonitorInv, MutexInv, HolderOK
  <2>3. OthersKeep /\ task[c] = "create" BY <1>2, <2>1, GotoKeeps DEF ThreadCallOK
  <2> QED BY <1>1, <2>1, <2>2, <2>3, MonitorClears
<1>9. CASE CheckFront
  <2>1. /\ pc[c] = "front" /\ UNCHANGED <<holder, cond_waiters, task, arg>>
        /\ UNCHANGED <<pc, target>> \/ Goto("run", Nil)
    BY <1>1, <1>9 DEF CheckFront, At, self, monitorVars
  <2>2. CASE UNCHANGED <<pc, target>> BY <2>1, <2>2, MonitorStays
  <2>3. CASE Goto("run", Nil)
    <3>1. OthersKeep /\ task[c] = "none" BY <1>2, <2>1, <2>3, GotoKeeps DEF ThreadCallOK
    <3> QED BY <1>1, <2>1, <2>3, <3>1, MonitorOther
  <2> QED BY <2>1, <2>2, <2>3
<1>10. CASE IdleBlock
  BY <1>10, MonitorStays DEF IdleBlock, callVars, monitorVars
<1> QED BY <1>3, <1>4, <1>5, <1>6, <1>7, <1>8, <1>9, <1>10, MonitorInner DEF Continue

LEMMA MonitorNext ==
    ASSUME TypeOK, CallOK, CallOK', MonitorInv, SignalInv', [Next]_vars PROVE MonitorStep
<1>1. PICK c \in Thread : c = current BY SelfType
<1>2. /\ ThreadCallOK(c)
      /\ pc[c] = "run" => task[c] = "none"
  BY <1>1, SelfType DEF ThreadCallOK
<1>3. CASE SemaphoreCall
  <2>1. PICK s \in Sem : SemaphoreDown(s) \/ SemaphoreTryDown(s) \/ SemaphoreRaise(s)
    BY <1>3 DEF SemaphoreCall
  <2>2. CASE SemaphoreDown(s)
    BY <2>2, MonitorDown, ConstantFacts DEF SemaphoreDown, AtUser, At, self
  <2>3. CASE SemaphoreTryDown(s) \/ SemaphoreRaise(s)
    BY <2>3, MonitorStays DEF SemaphoreTryDown, SemaphoreRaise, callVars, monitorVars
  <2> QED BY <2>1, <2>2, <2>3
<1>4. CASE LockCall
  <2>1. PICK l \in Lock \ {TidLock} : LockAcquire(l) \/ LockTryAcquire(l) \/ LockRelease(l)
    BY <1>4 DEF LockCall
  <2>2. CASE LockAcquire(l)
    BY <2>2, MonitorDown, ConstantFacts DEF LockAcquire, AtUser, At, self
  <2>3. CASE LockTryAcquire(l)
    <3>1. /\ pc[current] = "run" /\ current # Idle /\ SemaphoreTake(l) /\ Goto("taken", l)
          /\ UNCHANGED <<holder, cond_waiters, task, arg>>
      BY <2>3 DEF LockTryAcquire, AtUser, At, self, monitorVars
    <3>2. OthersKeep BY <3>1, GotoKeeps
    <3> QED BY <3>1, <3>2, MonitorTakes
  <2>4. CASE LockRelease(l)
    <3>1. /\ pc[c] = "run" /\ Holds(c, l) /\ ClearHolder(l) /\ Goto("up", l)
          /\ UNCHANGED <<cond_waiters, task, arg>>
      BY <1>1, <2>4 DEF LockRelease, AtUser, At, self
    <3>2. OthersKeep /\ task[c] = "none" BY <1>2, <3>1, GotoKeeps
    <3> QED BY <1>1, <3>1, <3>2, MonitorClears
  <2> QED BY <2>1, <2>2, <2>3, <2>4
<1>5. CASE CondvarCall
  <2>1. PICK d \in Cond : CondvarWait(d) \/ CondvarSignal(d) \/ CondvarBroadcast(d)
    BY <1>5 DEF CondvarCall
  <2>2. CASE CondvarSignal(d)
    <3>1. PICK w \in Thread : CondvarTake(d, w) /\ Goto("up", w)
      BY <2>2 DEF CondvarSignal
    <3> QED BY <2>2, <3>1, MonitorSignals DEF CondvarSignal, AtUser, At, self
  <2>3. CASE CondvarBroadcast(d)
    <3>1. /\ pc[c] = "run" /\ UNCHANGED <<holder, cond_waiters>> /\ Holds(c, LockOf[d])
          /\ Goto("signals", Nil) /\ SetTask("broadcast", d)
      BY <1>1, <2>3 DEF CondvarBroadcast, AtUser, At, self, monitorVars
    <3>2. OthersKeep /\ task'[c] = "broadcast" /\ arg'[c] = d BY <1>1, <3>1, CallKeeps
    <3> QED BY <1>1, <1>2, <3>1, <3>2, MonitorMoves DEF Holds
  <2> QED BY <2>1, <2>2, <2>3, MonitorJoins
<1>6. CASE ThreadCall
  <2>1. ASSUME NEW t \in Thread, NEW p \in Priority, ThreadCreate(t, p) PROVE MonitorStep
    <3>1. /\ pc[c] = "run" /\ UNCHANGED <<holder, cond_waiters>>
          /\ Goto("enter", TidLock) /\ SetTask("create", t)
      BY <1>1, <2>1 DEF ThreadCreate, AtUser, At, self, monitorVars
    <3>2. OthersKeep /\ task'[c] = "create" BY <1>1, <3>1, CallKeeps
    <3> QED BY <1>1, <3>1, <3>2, MonitorOther
  <2>2. ASSUME NEW p \in Priority, ThreadSetPriority(p) PROVE MonitorStep
    <3>1. /\ pc[c] = "run" /\ UNCHANGED <<holder, cond_waiters, task, arg>>
          /\ Goto("check", Nil)
      BY <1>1, <2>2 DEF ThreadSetPriority, SameTask, AtUser, At, self, monitorVars
    <3>2. OthersKeep /\ task'[c] = "none" BY <1>2, <3>1, GotoKeeps
    <3> QED BY <1>1, <3>1, <3>2, MonitorOther
  <2>3. CASE Yield \/ Exit
    BY <2>3, MonitorStays DEF Yield, Exit, callVars, monitorVars
  <2> QED BY <1>6, <2>1, <2>2, <2>3 DEF ThreadCall
<1>7. CASE Continue BY <1>7, MonitorContinue
<1>8. CASE Interrupt
  BY <1>8, MonitorStays DEF Interrupt, Tick, InterruptUp, callVars, monitorVars
<1>9. CASE UNCHANGED vars
  BY <1>9, MonitorStays DEF vars, callVars, monitorVars
<1> QED BY <1>3, <1>4, <1>5, <1>6, <1>7, <1>8, <1>9 DEF Next

LEMMA MonitorInit == Init => MonitorInv /\ Abstract!Init
<1> SUFFICES ASSUME Init PROVE MonitorInv /\ Abstract!Init OBVIOUS
<1>1. MutexInv /\ SignalInv BY MutexInit, SignalInit
<1>2. \A t \in Thread : pc[t] = "run" /\ task[t] = "none" BY DEF Init
<1>3. \A t \in Thread : MonitorOK(t) BY <1>2 DEF MonitorOK
<1>4. \A l \in Lock : Owners(l) = {}
  BY <1>2, ConstantFacts DEF Init, Owners, Between, Holds
<1>5. OwnerOf = [l \in Lock |-> Nil] BY <1>4, OwnerOfIs, OneOfIs
<1>6. WaitingAt = [d \in Cond |-> {}]
  <2>1. \A d \in Cond : cond_waiters[d] = << >> BY DEF Init
  <2>2. \A d \in Cond : Members(cond_waiters[d]) = {} BY <2>1 DEF Members
  <2> QED BY <2>2 DEF WaitingAt
<1>7. NotifiedOf = [d \in Cond |-> {}] BY <1>2 DEF NotifiedOf
<1> QED BY <1>1, <1>3, <1>5, <1>6, <1>7 DEF MonitorInv, Abstract!Init

\* The kernel implements the abstract monitor: whatever the scheduler does
\* between the semaphore operations, a lock has one owner, condvar_wait() gives
\* it up and joins the waiters in one step, and a signal reaches one of them.
THEOREM MonitorImplemented == Spec => MonitorRefined
<1> DEFINE Inv == TypeOK /\ CallOK /\ MonitorInv
<1>1. Init => Inv /\ Abstract!Init BY InitOK, MonitorInit
<1>2. Inv /\ [Next]_vars => Inv' /\ [Abstract!Next]_(Abstract!vars)
  <2> SUFFICES ASSUME Inv, [Next]_vars PROVE Inv' /\ [Abstract!Next]_(Abstract!vars) OBVIOUS
  <2>1. TypeOK' /\ CallOK' BY NextOK
  <2>2. MutexInv' /\ SignalInv' BY MutexNext, SignalNext DEF MonitorInv
  <2>3. MonitorStep BY <2>1, <2>2, MonitorNext
  <2> QED BY <2>1, <2>2, <2>3 DEF MonitorStep, AbstractStep, MonitorInv
<1> QED BY <1>1, <1>2, PTL DEF Spec, MonitorRefined, Abstract!Spec

=============================================================================
