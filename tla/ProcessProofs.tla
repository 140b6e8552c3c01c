---------------------------- MODULE ProcessProofs ----------------------------
(* Proofs about Process for every number of programs: a thread is in one      *)
(* place at a time, process_execute() returns after the load, and             *)
(* process_wait() after the program, unless it was early.                     *)
(*                                                                            *)
(* Only the initial thread ever waits for a semaphore.  The value of "load"   *)
(* is raised once, by its program, and that of "exit" at most once by every   *)
(* thread that exits.                                                         *)
EXTENDS Process, FiniteSetTheorems, TLAPS

MainPc == {"execute", "loading", "wait", "waiting", "asleep", "exit", "exiting", "die", "dead"}
ChildPc == {"load", "loaded", "malloc", "init", "user", "exit", "exiting", "die", "dead"}
\* What global_sema may point to.
Pointer == {<<"exit", k>> : k \in Child} \cup {NULL}

In(q) == {q[i] : i \in 1 .. Len(q)}
Distinct(q) == \A i, j \in 1 .. Len(q) : q[i] = q[j] => i = j

Typed ==
    /\ runs \in 0 .. Runs /\ run \in 0 .. runs
    /\ current \in Thread \cup {Idle}
    /\ ready \in Seq(Thread)
    /\ disk \subseteq Child
    /\ pc \in [Thread -> MainPc \cup ChildPc]
    /\ pc[Main] \in MainPc /\ \A k \in Child : pc[k] \in ChildPc
    /\ success \in [Child -> BOOLEAN]
    /\ value \in [Sema -> Nat]
    /\ waiters \in [Sema -> Seq(Thread)]
    /\ made \subseteq Sema
    /\ global_sema \in Pointer
    /\ arg \in [Thread -> Pointer]
    /\ panic \in BOOLEAN /\ early \in BOOLEAN

Gone == {"dead", "asleep"}
Alive(t) == Started(t) /\ pc[t] \notin Gone
Waiting == {s \in Sema : waiters[s] # <<>>}

\* Where the threads are: each list holds a thread once, nobody is in two
\* places, and who is in one has started and is not gone.
Placed ==
    /\ Distinct(ready)
    /\ \A s \in Sema : waiters[s] \in {<<>>, <<Main>>}
    /\ \A s1, s2 \in Waiting : s1 = s2
    /\ Waiting # {} => /\ current # Main /\ Main \notin In(ready)
                       /\ pc[Main] \in {"loading", "waiting"}
    /\ current \notin In(ready) /\ current \notin disk /\ In(ready) \cap disk = {}
    /\ \A t \in Thread : Alive(t) <=> \/ t = current \/ t \in In(ready) \/ t \in disk
                                      \/ t = Main /\ Waiting # {}

\* A program that has not started is at its first step.
Unstarted == \A k \in Child : k > run => pc[k] = "load"

\* Which semaphores are made, or pointed to.  Who waits for one waits for one
\* that is made.
Before == {"load", "loaded", "malloc"}
Making ==
    /\ \A k \in Child : <<"load", k>> \in made <=> k <= run
    /\ \A k \in Child : <<"exit", k>> \in made \cup {global_sema} => pc[k] \notin Before
    /\ \A k \in Child : pc[k] = "init" => global_sema # NULL
    /\ Waiting \subseteq made
    /\ \A s \in Sema : value[s] > 0 => s \in made
    /\ pc[Main] # "execute" => run > 0 \/ pc[Main] \in {"exit", "exiting", "die", "dead"}

\* How often each has been raised.
Exited == {t \in Thread : pc[t] \in {"die", "dead"}}
Raises ==
    /\ \A k \in Child : value[<<"load", k>>] <= 1
    /\ \A k \in Child : value[<<"load", k>>] > 0 => pc[k] \notin {"load", "loaded"}
    /\ \A k \in Child : value[<<"exit", k>>] <= Cardinality(Exited)

\* Main waits on the semaphore of its run, those before it have ended, and
\* who raises that semaphore is the program of the run.
Waits ==
    ~early =>
       /\ pc[Main] \in {"loading", "wait", "waiting"} =>
             /\ \A k \in 1 .. run - 1 : pc[k] \in {"die", "dead"}
             /\ value[<<"exit", run>>] > 0 => pc[run] \in {"die", "dead"}
       /\ pc[Main] = "waiting" => arg[Main] = <<"exit", run>> /\ arg[Main] \in made

IInv == Typed /\ Placed /\ Unstarted /\ Making /\ Raises /\ LoadedFirst /\ Waits /\ WaitsForExit

-----------------------------------------------------------------------------
\* What the operations on a list do to its members.
LEMMA AppendMembers ==
    ASSUME NEW S, NEW q \in Seq(S), NEW x \in S
    PROVE  /\ Append(q, x) \in Seq(S)
           /\ In(Append(q, x)) = In(q) \cup {x}
           /\ Distinct(q) /\ x \notin In(q) => Distinct(Append(q, x))
<1> DEFINE n == Len(q)
           new == Append(q, x)
<1>1. new \in Seq(S) /\ Len(new) = n + 1 /\ n \in Nat
  OBVIOUS
<1>2. \A i \in 1 .. n + 1 : new[i] = IF i = n + 1 THEN x ELSE q[i]
  OBVIOUS
<1>3. 1 .. n + 1 = (1 .. n) \cup {n + 1}
  BY <1>1
<1> HIDE DEF new, n
<1>4. In(new) = In(q) \cup {x}
  BY <1>1, <1>2, <1>3 DEF In, n
<1>5. ASSUME Distinct(q), x \notin In(q) PROVE Distinct(new)
  BY <1>1, <1>2, <1>3, <1>5 DEF In, Distinct, n
<1> QED
  BY <1>1, <1>4, <1>5 DEF new

LEMMA TailMembers ==
    ASSUME NEW S, NEW q \in Seq(S), q # <<>>, Distinct(q)
    PROVE  /\ Tail(q) \in Seq(S) /\ Head(q) \in S /\ Head(q) \in In(q)
           /\ In(Tail(q)) = In(q) \ {Head(q)}
           /\ Distinct(Tail(q))
<1> DEFINE n == Len(q)
           new == Tail(q)
<1>1. new \in Seq(S) /\ n \in Nat \ {0} /\ Len(new) = n - 1 /\ Head(q) = q[1] /\ q[1] \in S
  OBVIOUS
<1>2. \A i \in 1 .. n - 1 : new[i] = q[i + 1] /\ i + 1 \in 1 .. n
  OBVIOUS
<1>3. \A i \in 1 .. n : i = 1 \/ (i - 1 \in 1 .. n - 1 /\ q[i] = new[i - 1])
  OBVIOUS
<1> HIDE DEF new, n
<1>4. q[1] \in In(q)
  BY <1>1 DEF In, n
<1>5. In(new) = In(q) \ {q[1]}
  <2>1. ASSUME NEW i \in 1 .. n - 1 PROVE new[i] \in In(q) /\ new[i] # q[1]
    BY <1>1, <1>2 DEF In, Distinct, n
  <2>2. ASSUME NEW y \in In(q), y # q[1] PROVE y \in In(new)
    BY <1>1, <1>3, <2>2 DEF In, n
  <2> QED
    BY <1>1, <2>1, <2>2 DEF In
<1>6. Distinct(new)
  BY <1>1, <1>2 DEF Distinct, n
<1> QED
  BY <1>1, <1>4, <1>5, <1>6 DEF new

LEMMA EmptyMembers == In(<<>>) = {} /\ Distinct(<<>>)
BY DEF In, Distinct

\* schedule(): who runs next was ready, and is not any more.
LEMMA ScheduleEffect ==
    ASSUME ready \in Seq(Thread), Distinct(ready), Schedule(ready)
    PROVE  /\ ready' \in Seq(Thread) /\ Distinct(ready)'
           /\ current' \in Thread \cup {Idle}
           /\ \/ current' = Idle /\ In(ready) = {} /\ In(ready)' = {}
              \/ current' \in In(ready) /\ In(ready)' = In(ready) \ {current'}
<1>1. CASE ready = <<>>
  BY <1>1, EmptyMembers DEF Schedule, In, Distinct
<1>2. CASE ready # <<>>
  <2>1. current' = Head(ready) /\ ready' = Tail(ready)
    BY <1>2 DEF Schedule
  <2>2. In(ready)' = In(Tail(ready)) /\ (Distinct(ready)' <=> Distinct(Tail(ready)))
    BY <2>1 DEF In, Distinct
  <2>3. /\ Tail(ready) \in Seq(Thread) /\ Head(ready) \in Thread
        /\ Head(ready) \in In(ready)
        /\ In(Tail(ready)) = In(ready) \ {Head(ready)} /\ Distinct(Tail(ready))
    BY <1>2, TailMembers
  <2> QED
    BY <2>1, <2>2, <2>3
<1> QED
  BY <1>1, <1>2

-----------------------------------------------------------------------------
LEMMA InitIInv == Init => IInv
<1> SUFFICES ASSUME Init PROVE IInv
  OBVIOUS
<1>1. Waiting = {}
  BY DEF Init, Waiting
<1>2. Typed
  <2>1. /\ runs \in 0 .. Runs /\ run \in 0 .. runs /\ current \in Thread \cup {Idle}
        /\ ready \in Seq(Thread) /\ disk \subseteq Child
    BY RunsAssumption DEF Init, Thread
  <2>2. /\ pc \in [Thread -> MainPc \cup ChildPc]
        /\ pc[Main] \in MainPc /\ \A k \in Child : pc[k] \in ChildPc
    BY DEF Init, Thread, Child, Main, MainPc, ChildPc
  <2>3. /\ value \in [Sema -> Nat] /\ waiters \in [Sema -> Seq(Thread)]
        /\ success \in [Child -> BOOLEAN]
    BY DEF Init
  <2>4. /\ made \subseteq Sema /\ global_sema \in Pointer
        /\ arg \in [Thread -> Pointer] /\ panic \in BOOLEAN /\ early \in BOOLEAN
    BY DEF Init, Pointer
  <2> QED
    BY <2>1, <2>2, <2>3, <2>4 DEF Typed
<1>3. Placed
  BY <1>1, EmptyMembers DEF Init, Placed, Alive, Gone, Started, Thread, Child, Main, Idle
<1>4. Unstarted /\ Making /\ LoadedFirst
  BY <1>1, RunsAssumption DEF Init, Unstarted, Making, Before, LoadedFirst, Thread, Child, Main, Sema, NULL
<1>5. Raises
  <2>1. Exited = {}
    BY DEF Init, Exited, Thread, Main, Child
  <2> QED
    BY <2>1, FS_EmptySet DEF Init, Raises, Child, Sema
<1>6. Waits /\ WaitsForExit
  BY DEF Init, Waits, WaitsForExit, Thread, Main, Child
<1> QED
  BY <1>2, <1>3, <1>4, <1>5, <1>6 DEF IInv

\* Who runs has started and is not dead, and is in no list.
LEMMA Running ==
    ASSUME IInv, NEW t \in Thread, current = t
    PROVE  /\ t # Idle /\ Alive(t) /\ t \notin In(ready) /\ t \notin disk
           /\ t = Main => Waiting = {}
           /\ t \in Child => t \in 1 .. run
BY RunsAssumption DEF IInv, Placed, Typed, Alive, Gone, Started, Thread, Child, Main, Idle

\* Two semaphores of each program, all different.
LEMMA SemaphoresAre ==
    /\ \A k \in Child : <<"load", k>> \in Sema /\ <<"exit", k>> \in Sema
    /\ \A k, m \in Child : <<"load", k>> # <<"exit", m>>
    /\ \A k, m \in Child : <<"load", k>> = <<"load", m>> => k = m
    /\ \A k, m \in Child : <<"exit", k>> = <<"exit", m>> => k = m
    /\ \A k \in Child : <<"exit", k>> # NULL /\ <<"load", k>> # NULL
    /\ NULL \notin Sema
    /\ \A s \in Sema : \E k \in Child : s = <<"load", k>> \/ s = <<"exit", k>>
    /\ \A s \in Pointer : s # NULL => s \in Sema /\ \E k \in Child : s = <<"exit", k>>
BY DEF Sema, NULL, Pointer

\* semaphore_up() on a semaphore, by the running thread: its waiter is Main.
LEMMA UpEffect ==
    ASSUME IInv, NEW s \in Sema, Up(s)
    PROVE  /\ waiters' \in [Sema -> Seq(Thread)] /\ waiters'[s] = <<>>
           /\ \A r \in Sema : r # s => waiters'[r] = waiters[r]
           /\ Waiting' = Waiting \ {s}
           /\ ready' \in Seq(Thread)
           /\ In(ready)' = In(ready) \cup (IF s \in Waiting THEN {Main} ELSE {})
           /\ Distinct(ready)'
           /\ value' \in [Sema -> Nat] /\ value'[s] = value[s] + 1
           /\ \A r \in Sema : r # s => value'[r] = value[r]
<1> USE DEF IInv
<1>1. waiters[s] \in {<<>>, <<Main>>} /\ waiters \in [Sema -> Seq(Thread)] /\ Main \in Thread
  BY DEF Placed, Typed, Thread
<1>2. value' \in [Sema -> Nat] /\ value'[s] = value[s] + 1 /\ \A r \in Sema : r # s => value'[r] = value[r]
  BY DEF Typed, Up
<1>3. waiters'[s] = <<>> /\ waiters' \in [Sema -> Seq(Thread)] /\ \A r \in Sema : r # s => waiters'[r] = waiters[r]
  <2>1. Tail(<<Main>>) = <<>>
    OBVIOUS
  <2> QED
    BY <1>1, <2>1 DEF Up
<1>4. Waiting' = Waiting \ {s}
  BY <1>3 DEF Waiting
<1>5. CASE s \in Waiting
  <2>1. ready' = Append(ready, Main)
    BY <1>1, <1>5 DEF Up, Waiting
  <2>2. Main \notin In(ready) /\ ready \in Seq(Thread) /\ Distinct(ready)
    BY <1>5 DEF Placed, Typed
  <2>3. /\ Append(ready, Main) \in Seq(Thread) /\ In(Append(ready, Main)) = In(ready) \cup {Main}
        /\ Distinct(Append(ready, Main))
    BY <1>1, <2>2, AppendMembers
  <2>4. In(ready)' = In(Append(ready, Main)) /\ (Distinct(ready)' <=> Distinct(Append(ready, Main)))
    BY <2>1 DEF In, Distinct
  <2> QED
    BY <1>2, <1>3, <1>4, <1>5, <2>1, <2>3, <2>4
<1>6. CASE s \notin Waiting
  <2>1. ready' = ready
    BY <1>6 DEF Up, Waiting
  <2>2. In(ready)' = In(ready) /\ Distinct(ready)' /\ ready' \in Seq(Thread)
    BY <2>1 DEF In, Distinct, Placed, Typed
  <2> QED
    BY <1>2, <1>3, <1>4, <1>6, <2>2
<1> QED
  BY <1>5, <1>6

\* thread_exit() of a thread, or a step of the child k, that leaves lists and
\* processor alone.
LEMMA StayPlaced ==
    ASSUME IInv, UNCHANGED <<threads, waiters, run>>,
           NEW t \in Thread, NEW l \in (MainPc \cup ChildPc) \ Gone,
           current = t, pc' = [pc EXCEPT ![t] = l]
    PROVE  Placed'
<1> USE DEF IInv
<1>1. Waiting' = Waiting /\ In(ready)' = In(ready) /\ (Distinct(ready)' <=> Distinct(ready))
  BY DEF threads, Waiting, In, Distinct
<1>2. \A u \in Thread : Alive(u)' <=> Alive(u)
  BY Running DEF Alive, Gone, Started, Typed
<1>3. Waiting # {} => t # Main
  BY Running
<1>4. pc'[Main] = IF t = Main THEN l ELSE pc[Main]
  BY DEF Typed, Thread
<1> QED
  BY <1>1, <1>2, <1>3, <1>4 DEF Placed, threads

LEMMA StepExecute == IInv /\ Execute => IInv'
<1> SUFFICES ASSUME IInv, Execute PROVE IInv'
  OBVIOUS
<1> USE RunsAssumption DEF IInv
<1> DEFINE k == run + 1
           s == <<"load", k>>
<1>1. /\ Main \in Thread /\ current = Main /\ pc[Main] = "execute" /\ run' = run + 1
      /\ k \in Child /\ k \in Thread /\ k # Main /\ s \in Sema /\ k \in 1 .. runs /\ run \in Nat
  BY DEF Execute, At, Typed, Thread, Child, Main, Sema
<1>2. pc' = [pc EXCEPT ![Main] = "loading"] /\ pc[k] = "load"
  BY <1>1 DEF Execute, Goto, Unstarted
<1>3. /\ value' = [value EXCEPT ![s] = 0] /\ waiters' = [waiters EXCEPT ![s] = <<>>]
      /\ made' = made \cup {s}
  BY DEF Execute, Made
<1>4. s \notin made /\ waiters[s] = <<>> /\ waiters' = waiters
  BY <1>1, <1>3 DEF Making, Waiting, Typed
<1>5. k \notin In(ready) /\ k # current /\ k \notin disk /\ ~Alive(k) /\ Main \notin In(ready)
  BY <1>1, Running DEF Placed, Alive, Gone, Started, Main
<1>6. ready' \in Seq(Thread) /\ In(ready)' = In(ready) \cup {k} /\ Distinct(ready)'
  <2>1. ready' = Append(ready, k) /\ ready \in Seq(Thread) /\ Distinct(ready)
    BY DEF Execute, Typed, Placed
  <2>2. /\ Append(ready, k) \in Seq(Thread) /\ In(Append(ready, k)) = In(ready) \cup {k}
        /\ Distinct(Append(ready, k))
    BY <1>1, <1>5, <2>1, AppendMembers
  <2> QED
    BY <2>1, <2>2 DEF In, Distinct
<1>7. Waiting' = Waiting /\ Waiting = {}
  BY <1>1, <1>4, Running DEF Waiting
<1>8. UNCHANGED <<runs, current, disk, success, global_sema, arg, panic, early>>
  BY DEF Execute
<1> HIDE DEF k, s
<1>a. Typed'
  <2>1. runs' \in 0 .. Runs /\ run' \in 0 .. runs'
    BY <1>1, <1>8 DEF Typed, k
  <2>2. pc' \in [Thread -> MainPc \cup ChildPc] /\ pc'[Main] \in MainPc
        /\ \A j \in Child : pc'[j] \in ChildPc
    BY <1>1, <1>2 DEF Typed, MainPc, Main, Child
  <2>3. value' \in [Sema -> Nat] /\ made' \subseteq Sema
    BY <1>1, <1>3 DEF Typed
  <2> QED
    BY <1>4, <1>6, <1>8, <2>1, <2>2, <2>3 DEF Typed
<1>b. Placed'
  <2>1. \A t \in Thread : Alive(t)' <=> Alive(t) \/ t = k
    BY <1>1, <1>2 DEF Alive, Gone, Started, Typed, Thread, Child, Main, k
  <2>2. pc'[Main] = "loading"
    BY <1>1, <1>2 DEF Typed
  <2> QED
    BY <1>1, <1>4, <1>5, <1>6, <1>7, <1>8, <2>1, <2>2 DEF Placed
<1>c. Unstarted'
  BY <1>1, <1>2 DEF Unstarted, Typed, Child, Main
<1>d. Making'
  <2>1. pc'[Main] # "execute" => run' > 0
    BY <1>1
  <2>2. \A j \in Child : pc'[j] = pc[j]
    BY <1>1, <1>2 DEF Typed, Child, Main
  <2>3. \A j \in Child : <<"load", j>> = s <=> j = k
    BY DEF s
  <2>4. \A j \in Child : <<"exit", j>> # s
    BY DEF s
  <2>5. \A j \in Child : j <= run + 1 <=> j <= run \/ j = k
    BY <1>1 DEF k, Child
  <2>6. \A j \in Child : <<"exit", j>> \in made' \cup {global_sema'} => pc'[j] \notin Before
    BY <1>3, <1>8, <2>2, <2>4 DEF Making
  <2>7. \A j \in Child : pc'[j] = "init" => global_sema' # NULL
    BY <1>8, <2>2 DEF Making
  <2> QED
    BY <1>1, <1>3, <1>7, <2>1, <2>3, <2>5, <2>6, <2>7 DEF Making, Typed
<1>e. Raises'
  <2>1. Exited' = Exited
    BY <1>1, <1>2 DEF Exited, Typed
  <2>2. \A j \in Child : pc'[j] = pc[j]
    BY <1>1, <1>2 DEF Typed, Child, Main
  <2>3. \A j \in Child : <<"exit", j>> # s /\ <<"exit", j>> \in Sema /\ <<"load", j>> \in Sema
    BY SemaphoresAre DEF s
  <2>4. \A r \in Sema : value'[r] = IF r = s THEN 0 ELSE value[r]
    BY <1>1, <1>3 DEF Typed
  <2>5. \A j \in Child : value'[<<"load", j>>] \in {0, value[<<"load", j>>]}
    BY <2>3, <2>4
  <2>6. \A j \in Child : value'[<<"exit", j>>] = value[<<"exit", j>>]
    BY <2>3, <2>4
  <2>7. Cardinality(Exited') = Cardinality(Exited)
    BY <2>1
  <2> QED
    BY <2>2, <2>5, <2>6, <2>7 DEF Raises
<1>f. LoadedFirst'
  BY <1>1, <1>2 DEF LoadedFirst, Typed
<1>g. Waits'
  <2>1. SUFFICES ASSUME ~early
                 PROVE  /\ \A j \in 1 .. run : pc'[j] \in {"die", "dead"}
                        /\ value'[<<"exit", k>>] = 0
                        /\ pc'[Main] # "waiting"
    BY <1>1, <1>8 DEF Waits, k
  <2>2. \A j \in 1 .. run : pc'[j] \in {"die", "dead"}
    BY <1>1, <1>2, <2>1 DEF WaitsForExit, Typed, Main
  <2>3. <<"exit", k>> \notin made /\ <<"exit", k>> \in Sema
    BY <1>1, <1>2, SemaphoresAre DEF Making, Before
  <2>4. value'[<<"exit", k>>] = 0
    <3>1. value[<<"exit", k>>] = 0
      <4>1. ~(value[<<"exit", k>>] > 0) /\ value[<<"exit", k>>] \in Nat
        BY <2>3 DEF Making, Typed
      <4> QED
        BY <4>1
    <3> QED
      BY <1>1, <1>3, <2>3, <3>1, SemaphoresAre DEF Typed, s
  <2> QED
    BY <1>1, <1>2, <2>2, <2>4 DEF Typed
<1>h. WaitsForExit'
  BY <1>1, <1>2 DEF WaitsForExit, Typed
<1> QED
  BY <1>a, <1>b, <1>c, <1>d, <1>e, <1>f, <1>g, <1>h

\* A program does not go back behind its load, nor a thread that has ended.
Forward ==
    /\ \A k \in Child : pc'[k] \in {"load", "loaded"} => pc[k] \in {"load", "loaded"}
    /\ \A t \in Thread : pc[t] \in {"die", "dead"} => pc'[t] \in {"die", "dead"}

\* On the way out of thread_exit().
Leaving == {"exit", "exiting", "die", "dead"}

LEMMA ThreadsFinite ==
    ASSUME NEW T \in SUBSET Thread
    PROVE  IsFiniteSet(T) /\ Cardinality(T) \in 0 .. Runs + 1
<1>1. Thread = 0 .. Runs
  BY RunsAssumption DEF Thread, Child, Main
<1>2. IsFiniteSet(Thread) /\ Cardinality(Thread) = Runs + 1
  BY <1>1, FS_Interval, RunsAssumption
<1>3. IsFiniteSet(T) /\ Cardinality(T) <= Runs + 1
  BY <1>2, FS_Subset
<1>4. Cardinality(T) \in Nat
  BY <1>3, FS_CardinalityType
<1> QED
  BY <1>3, <1>4, RunsAssumption

\* Where no semaphore is raised.
LEMMA RaisesKept ==
    ASSUME IInv, Forward,
           \A s \in Sema : value'[s] \in Nat /\ value'[s] <= value[s]
    PROVE  Raises'
<1> USE DEF IInv
<1>1. Cardinality(Exited) <= Cardinality(Exited')
  <2>1. Exited \subseteq Exited'
    BY DEF Exited, Forward
  <2>2. IsFiniteSet(Exited')
    BY ThreadsFinite DEF Exited
  <2> QED
    BY <2>1, <2>2, FS_Subset
<1>2. \A k \in Child : <<"load", k>> \in Sema /\ <<"exit", k>> \in Sema
  BY SemaphoresAre
<1>3. Cardinality(Exited) \in Nat /\ Cardinality(Exited') \in Nat
  <2>1. Exited \in SUBSET Thread /\ Exited' \in SUBSET Thread
    BY DEF Exited
  <2> QED
    BY <2>1, ThreadsFinite, RunsAssumption
<1>4. value \in [Sema -> Nat]
  BY DEF Typed
<1>5. ASSUME NEW k \in Child
      PROVE  /\ value'[<<"load", k>>] <= 1
             /\ value'[<<"load", k>>] > 0 => pc'[k] \notin {"load", "loaded"}
             /\ value'[<<"exit", k>>] <= Cardinality(Exited')
  <2> DEFINE l == <<"load", k>>
             e == <<"exit", k>>
  <2>1. l \in Sema /\ e \in Sema
    BY <1>2
  <2>2. /\ value[l] \in Nat /\ value[e] \in Nat /\ value'[l] \in Nat /\ value'[e] \in Nat
        /\ value'[l] <= value[l] /\ value'[e] <= value[e]
    <3> HIDE DEF l, e
    <3> QED
      BY <1>4, <2>1
  <2>3. /\ value[l] <= 1 /\ value[e] <= Cardinality(Exited)
        /\ value[l] > 0 => pc[k] \notin {"load", "loaded"}
    BY DEF Raises
  <2>4. pc'[k] \in {"load", "loaded"} => pc[k] \in {"load", "loaded"}
    BY DEF Forward
  <2> HIDE DEF l, e
  <2>5. value'[l] <= 1 /\ (value'[l] > 0 => pc'[k] \notin {"load", "loaded"})
    BY <2>2, <2>3, <2>4
  <2>6. value'[e] <= Cardinality(Exited')
    BY <1>1, <1>3, <2>2, <2>3
  <2> QED
    BY <2>5, <2>6 DEF l, e
<1> QED
  BY <1>5 DEF Raises

\* Steps that Main does not take, or takes on its way out.
LEMMA OrderKept ==
    ASSUME IInv, Forward, UNCHANGED <<run, early>>,
           \/ UNCHANGED <<pc[Main], arg[Main]>>
           \/ pc'[Main] \in Leaving \cup {"asleep"},
           made \subseteq made',
           /\ pc[Main] \in {"loading", "wait", "waiting"} /\ ~early
              /\ value'[<<"exit", run>>] > 0
           => value[<<"exit", run>>] > 0 \/ pc'[run] \in {"die", "dead"}
    PROVE  LoadedFirst' /\ Waits' /\ WaitsForExit'
<1> USE RunsAssumption DEF IInv
<1>1. CASE pc'[Main] \in Leaving \cup {"asleep"}
  BY <1>1 DEF Leaving, LoadedFirst, Waits, WaitsForExit
<1>2. CASE UNCHANGED <<pc[Main], arg[Main]>>
  <2>1. 1 .. run \subseteq Child /\ Child \subseteq Thread
    BY DEF Typed, Child, Thread
  <2>2. pc[Main] \in {"loading", "wait", "waiting"} => run \in Child
    BY DEF Making, Typed, Child
  <2>3. LoadedFirst'
    BY <1>2, <2>2 DEF LoadedFirst, Forward
  <2>4. WaitsForExit'
    BY <1>2, <2>1 DEF WaitsForExit, Forward
  <2>5. Waits'
    <3>1. SUFFICES ASSUME ~early
                   PROVE  /\ pc[Main] \in {"loading", "wait", "waiting"} =>
                                /\ \A k \in 1 .. run - 1 : pc'[k] \in {"die", "dead"}
                                /\ value'[<<"exit", run>>] > 0 => pc'[run] \in {"die", "dead"}
                          /\ pc[Main] = "waiting" => arg[Main] = <<"exit", run>> /\ arg[Main] \in made'
      BY <1>2 DEF Waits
    <3>2. ASSUME pc[Main] \in {"loading", "wait", "waiting"}
          PROVE  \A k \in 1 .. run - 1 : pc'[k] \in {"die", "dead"}
      <4>1. \A k \in 1 .. run - 1 : pc[k] \in {"die", "dead"} /\ k \in Thread
        BY <2>1, <3>1, <3>2 DEF Waits, Typed
      <4> QED
        BY <4>1 DEF Forward
    <3>3. ASSUME pc[Main] \in {"loading", "wait", "waiting"}, value'[<<"exit", run>>] > 0
          PROVE  pc'[run] \in {"die", "dead"}
      <4>1. pc[run] \in {"die", "dead"} \/ pc'[run] \in {"die", "dead"}
        BY <3>1, <3>3 DEF Waits
      <4> QED
        BY <2>1, <2>2, <3>3, <4>1 DEF Forward
    <3> QED
      BY <3>1, <3>2, <3>3 DEF Waits
  <2> QED
    BY <2>3, <2>4, <2>5
<1> QED
  BY <1>1, <1>2

LEMMA MakingKept ==
    ASSUME IInv, UNCHANGED <<run, made>>, Waiting' \subseteq made,
           \A s \in Sema : value'[s] > 0 => s \in made,
           \A k \in Child : pc'[k] \in Before => pc[k] \in Before,
           \/ /\ global_sema' = global_sema
              /\ \A k \in Child : pc'[k] = "init" => pc[k] = "init"
           \/ \E k \in Child : global_sema' = <<"exit", k>> /\ pc'[k] \notin Before,
           pc[Main] = "execute" => pc'[Main] \in {"execute", "exit"},
           pc[Main] \in Leaving => pc'[Main] \in Leaving
    PROVE  Making'
<1> USE RunsAssumption DEF IInv
<1>1. \A k \in Child : (<<"load", k>> \in made' <=> k <= run')
  BY DEF Making
<1>2. \A k \in Child : <<"exit", k>> \in made' => pc'[k] \notin Before
  BY DEF Making
<1>3. pc'[Main] # "execute" => run' > 0 \/ pc'[Main] \in {"exit", "exiting", "die", "dead"}
  BY DEF Making, Leaving
<1>4. /\ \A k \in Child : global_sema' = <<"exit", k>> => pc'[k] \notin Before
      /\ \A k \in Child : pc'[k] = "init" => global_sema' # NULL
  BY SemaphoresAre DEF Making
<1> QED
  BY <1>1, <1>2, <1>3, <1>4 DEF Making

\* Steps of one thread that touch no semaphore and no list: the next point of
\* its code is not before its load, nor past the making of its semaphore.
LEMMA OwnStep ==
    ASSUME IInv, NEW t \in Thread, NEW l, current = t,
           UNCHANGED <<runs, threads, run, semas, early>>,
           pc' = [pc EXCEPT ![t] = l],
           IF l = "init" THEN global_sema' = <<"exit", t>> ELSE global_sema' = global_sema,
           \/ t \in Child /\ pc[t] = "load" /\ l = "loaded"
           \/ t \in Child /\ pc[t] = "malloc" /\ l = "init"
           \/ t \in Child /\ pc[t] = "user" /\ l = "exit"
           \/ t \in Child /\ pc[t] = "exit" /\ l = "exiting"
           \/ t = Main /\ pc[t] = "execute" /\ l = "exit"
           \/ t = Main /\ pc[t] = "exit" /\ l = "exiting",
           t # Main => arg'[Main] = arg[Main]
    PROVE  Placed' /\ Unstarted' /\ Making' /\ Raises' /\ LoadedFirst' /\ Waits' /\ WaitsForExit'
<1> USE DEF IInv
<1>1. /\ Main \in Thread /\ Main \notin Child /\ Child \subseteq Thread
      /\ l \in (MainPc \cup ChildPc) \ Gone
  BY DEF Main, Thread, Child, MainPc, ChildPc, Gone
<1>2. \A u \in Thread : pc'[u] = IF u = t THEN l ELSE pc[u]
  BY DEF Typed
<1>3. Placed'
  BY <1>1, StayPlaced DEF semas
<1>4. Unstarted'
  <2>1. t \in Child => t <= run
    BY Running DEF Typed, Child
  <2> QED
    BY <1>1, <1>2, <2>1, RunsAssumption DEF Unstarted, Typed, Child
<1>5. Forward
  BY <1>1, <1>2 DEF Forward
<1>6. Making'
  <2>1. Waiting' \subseteq made /\ \A s \in Sema : value'[s] > 0 => s \in made
    BY DEF Making, Waiting, semas
  <2>2. /\ \A k \in Child : pc'[k] \in Before => pc[k] \in Before
        /\ \/ /\ global_sema' = global_sema
              /\ \A k \in Child : pc'[k] = "init" => pc[k] = "init"
           \/ \E k \in Child : global_sema' = <<"exit", k>> /\ pc'[k] \notin Before
    BY <1>1, <1>2 DEF Before
  <2>3. /\ pc[Main] = "execute" => pc'[Main] \in {"execute", "exit"}
        /\ pc[Main] \in Leaving => pc'[Main] \in Leaving
    BY <1>1, <1>2 DEF Leaving
  <2> QED
    BY <2>1, <2>2, <2>3, MakingKept DEF semas
<1>7. Raises'
  BY <1>5, RaisesKept DEF semas, Typed
<1>8. LoadedFirst' /\ Waits' /\ WaitsForExit'
  <2>1. UNCHANGED <<pc[Main], arg[Main]>> \/ pc'[Main] \in Leaving
    BY <1>1, <1>2 DEF Leaving
  <2> QED
    BY <1>5, <2>1, OrderKept DEF semas
<1> QED
  BY <1>3, <1>4, <1>6, <1>7, <1>8

LEMMA StepOwn ==
    ASSUME IInv, NEW k \in Child, Load(k) \/ Malloc(k) \/ User(k)
    PROVE  IInv'
<1> USE DEF IInv
<1>0. k \in Thread /\ k # Main /\ Main \in Thread
  BY DEF Thread, Child, Main
<1>1. CASE Load(k)
  <2>1. /\ current = k /\ pc[k] = "load" /\ pc' = [pc EXCEPT ![k] = "loaded"]
        /\ UNCHANGED <<runs, threads, run, semas, global_sema, arg, panic, early>>
        /\ success' \in [Child -> BOOLEAN]
    BY <1>1 DEF Load, At, Goto, Typed
  <2>2. Typed'
    BY <1>0, <2>1 DEF Typed, threads, semas, ChildPc
  <2> QED
    BY <1>0, <2>1, <2>2, OwnStep
<1>2. CASE Malloc(k)
  <2>1. /\ current = k /\ pc[k] = "malloc" /\ pc' = [pc EXCEPT ![k] = "init"]
        /\ UNCHANGED <<runs, threads, run, success, semas, arg, panic, early>>
        /\ global_sema' = <<"exit", k>>
    BY <1>2 DEF Malloc, At, Goto
  <2>2. Typed'
    BY <1>0, <2>1 DEF Typed, threads, semas, ChildPc, Pointer
  <2> QED
    BY <1>0, <2>1, <2>2, OwnStep
<1>3. CASE User(k)
  <2>1. /\ current = k /\ pc[k] = "user" /\ pc' = [pc EXCEPT ![k] = "exit"]
        /\ UNCHANGED <<runs, threads, run, success, semas, global_sema, arg, panic, early>>
    BY <1>3 DEF User, At, Goto
  <2>2. Typed'
    BY <1>0, <2>1 DEF Typed, threads, semas, ChildPc
  <2> QED
    BY <1>0, <2>1, <2>2, OwnStep
<1> QED
  BY <1>1, <1>2, <1>3

LEMMA StepShutdown == IInv /\ Shutdown => IInv'
<1> SUFFICES ASSUME IInv, Shutdown PROVE IInv'
  OBVIOUS
<1> USE DEF IInv
<1>0. Main \in Thread /\ Main \notin Child
  BY DEF Thread, Main, Child
<1>1. /\ current = Main /\ pc[Main] = "execute" /\ pc' = [pc EXCEPT ![Main] = "exit"]
      /\ UNCHANGED <<runs, threads, run, success, semas, global_sema, arg, panic, early>>
  BY DEF Shutdown, At, Goto
<1>2. Typed'
  BY <1>0, <1>1 DEF Typed, threads, semas, MainPc
<1> QED
  BY <1>0, <1>1, <1>2, OwnStep

LEMMA StepExit ==
    ASSUME IInv, NEW t \in Thread, Exit(t)
    PROVE  IInv'
<1> USE DEF IInv
<1>0. /\ Main \in Thread /\ Main \notin Child /\ (t = Main \/ t \in Child)
  BY DEF Thread, Main, Child
<1>1. /\ current = t /\ pc[t] = "exit" /\ pc' = [pc EXCEPT ![t] = "exiting"]
      /\ arg' = [arg EXCEPT ![t] = global_sema]
      /\ UNCHANGED <<runs, threads, run, success, semas, global_sema, panic, early>>
  BY DEF Exit, At, Goto
<1>2. Typed'
  BY <1>0, <1>1 DEF Typed, threads, semas, MainPc, ChildPc
<1>3. t # Main => arg'[Main] = arg[Main]
  BY <1>0, <1>1 DEF Typed
<1> QED
  BY <1>0, <1>1, <1>2, <1>3, OwnStep

\* process_wait() reads the pointer.
LEMMA StepWait == IInv /\ Wait => IInv'
<1> SUFFICES ASSUME IInv, Wait PROVE IInv'
  OBVIOUS
<1> USE DEF IInv
<1>0. Main \in Thread /\ Main \notin Child /\ Child \subseteq Thread
  BY DEF Thread, Main, Child
<1>1. /\ current = Main /\ pc[Main] = "wait" /\ pc' = [pc EXCEPT ![Main] = "waiting"]
      /\ arg' = [arg EXCEPT ![Main] = global_sema]
      /\ early' = (early \/ global_sema # <<"exit", run>> \/ global_sema \notin made)
      /\ UNCHANGED <<runs, threads, run, success, semas, global_sema, panic>>
  BY DEF Wait, At, Goto
<1>2. Typed'
  BY <1>0, <1>1 DEF Typed, threads, semas, MainPc
<1>3. \A u \in Thread : pc'[u] = IF u = Main THEN "waiting" ELSE pc[u]
  BY <1>1 DEF Typed
<1>4. Placed'
  BY <1>0, <1>1, StayPlaced DEF MainPc, Gone, semas
<1>5. Unstarted'
  BY <1>0, <1>1, <1>3 DEF Unstarted
<1>6. Making'
  BY <1>0, <1>1, <1>3 DEF Making, Waiting, semas
<1>7. Raises'
  <2>1. Forward
    BY <1>0, <1>1, <1>3 DEF Forward
  <2> QED
    BY <1>1, <2>1, RaisesKept DEF semas, Typed
<1>8. LoadedFirst'
  <2>1. run \in Child
    BY <1>1, RunsAssumption DEF Making, Typed, Child
  <2> QED
    BY <1>0, <1>1, <1>3, <2>1 DEF LoadedFirst
<1>9. Waits'
  <2>1. SUFFICES ASSUME ~early'
                 PROVE  /\ \A k \in 1 .. run - 1 : pc'[k] \in {"die", "dead"}
                        /\ value[<<"exit", run>>] > 0 => pc'[run] \in {"die", "dead"}
                        /\ arg'[Main] = <<"exit", run>> /\ arg'[Main] \in made
    BY <1>1 DEF Waits, semas
  <2>2. run \in Child /\ 1 .. run \subseteq Child
    BY <1>1, RunsAssumption DEF Making, Typed, Child
  <2>3. ~early /\ global_sema = <<"exit", run>> /\ global_sema \in made
    BY <1>1, <2>1
  <2>4. \A k \in 1 .. run - 1 : k \in Child /\ pc[k] \in {"die", "dead"}
    BY <1>1, <2>2, <2>3 DEF Waits, Child
  <2>5. arg'[Main] = global_sema
    BY <1>0, <1>1 DEF Typed
  <2> QED
    BY <1>0, <1>1, <1>3, <2>2, <2>3, <2>4, <2>5 DEF Waits
<1>a. WaitsForExit'
  BY <1>0, <1>3 DEF WaitsForExit
<1> QED
  BY <1>2, <1>4, <1>5, <1>6, <1>7, <1>8, <1>9, <1>a

-----------------------------------------------------------------------------
\* Steps that pass the processor on and change no value and no program
\* counter: what is to be seen is that everybody is in one place still.
LEMMA ScheduleOnly ==
    ASSUME IInv, UNCHANGED <<runs, pc, run, success, value, made, global_sema, arg, panic, early>>,
           Typed', Waiting' \subseteq made
    PROVE  Unstarted' /\ Making' /\ Raises' /\ LoadedFirst' /\ Waits' /\ WaitsForExit'
<1> USE DEF IInv
<1>1. Unstarted' /\ Making'
  BY DEF Unstarted, Making
<1>2. Raises'
  <2>1. Exited' = Exited
    BY DEF Exited
  <2>2. Cardinality(Exited') = Cardinality(Exited)
    BY <2>1
  <2> QED
    BY <2>2 DEF Raises
<1>3. LoadedFirst' /\ Waits' /\ WaitsForExit'
  BY DEF LoadedFirst, Waits, WaitsForExit
<1> QED
  BY <1>1, <1>2, <1>3

LEMMA StepLoadBlocks ==
    ASSUME IInv, NEW k \in Child, LoadBlocks(k)
    PROVE  IInv'
<1> USE DEF IInv
<1>0. k \in Thread /\ k # Main /\ Main \in Thread
  BY DEF Thread, Child, Main
<1>1. /\ current = k /\ disk' = disk \cup {k} /\ Schedule(ready)
      /\ UNCHANGED <<runs, pc, run, success, semas, global_sema, arg, panic, early>>
  BY DEF LoadBlocks, At
<1>2. /\ ready' \in Seq(Thread) /\ Distinct(ready)' /\ current' \in Thread \cup {Idle}
      /\ \/ current' = Idle /\ In(ready) = {} /\ In(ready)' = {}
         \/ current' \in In(ready) /\ In(ready)' = In(ready) \ {current'}
  BY <1>1, ScheduleEffect DEF Typed, Placed
<1>3. Typed'
  BY <1>1, <1>2 DEF Typed, semas
<1>4. Waiting' = Waiting /\ waiters' = waiters
  BY <1>1 DEF Waiting, semas
<1>5. Placed'
  <2>1. \A t \in Thread : Alive(t)' <=> Alive(t)
    BY <1>1 DEF Alive, Gone, Started
  <2>2. Idle \notin Thread /\ k # Idle
    BY RunsAssumption DEF Idle, Thread, Main, Child
  <2>3. Alive(k) /\ k \notin In(ready) /\ k \notin disk
    BY <1>0, <1>1, Running
  <2>4. Idle \notin disk
    BY <2>2, <1>0 DEF Typed, Thread
  <2> QED
    BY <1>0, <1>1, <1>2, <1>4, <2>1, <2>2, <2>3, <2>4 DEF Placed
<1> QED
  BY <1>1, <1>3, <1>4, <1>5, ScheduleOnly DEF Making, semas

LEMMA StepDiskDone ==
    ASSUME IInv, NEW k \in Child, DiskDone(k)
    PROVE  IInv'
<1> USE DEF IInv
<1>0. k \in Thread /\ k # Main /\ Main \in Thread
  BY DEF Thread, Child, Main
<1>1. /\ k \in disk /\ disk' = disk \ {k} /\ ready' = Append(ready, k) /\ current' = current
      /\ UNCHANGED <<runs, pc, run, success, semas, global_sema, arg, panic, early>>
  BY DEF DiskDone
<1>2. ready' \in Seq(Thread) /\ In(ready)' = In(ready) \cup {k} /\ Distinct(ready)'
  <2>1. k \notin In(ready) /\ Distinct(ready) /\ ready \in Seq(Thread)
    BY <1>1 DEF Placed, Typed
  <2>2. /\ Append(ready, k) \in Seq(Thread) /\ In(Append(ready, k)) = In(ready) \cup {k}
        /\ Distinct(Append(ready, k))
    BY <1>0, <2>1, AppendMembers
  <2> QED
    BY <1>1, <2>2 DEF In, Distinct
<1>3. Typed'
  BY <1>1, <1>2 DEF Typed, semas
<1>4. Waiting' = Waiting /\ waiters' = waiters
  BY <1>1 DEF Waiting, semas
<1>5. Placed'
  <2>1. \A t \in Thread : Alive(t)' <=> Alive(t)
    BY <1>1 DEF Alive, Gone, Started
  <2> QED
    BY <1>0, <1>1, <1>2, <1>4, <2>1 DEF Placed
<1> QED
  BY <1>1, <1>3, <1>4, <1>5, ScheduleOnly DEF Making, semas

LEMMA StepTick == IInv /\ Tick => IInv'
<1> SUFFICES ASSUME IInv, Tick PROVE IInv'
  OBVIOUS
<1> USE DEF IInv
<1> DEFINE q == Tail(ready)
<1>1. /\ ready # <<>> /\ current # Idle /\ current' = Head(ready) /\ ready' = Append(q, current)
      /\ UNCHANGED <<runs, disk, pc, run, success, semas, global_sema, arg, panic, early>>
  BY DEF Tick
<1>2. PICK c \in Thread : c = current
  BY <1>1 DEF Typed
<1>3. /\ q \in Seq(Thread) /\ Distinct(q) /\ In(q) = In(ready) \ {Head(ready)}
      /\ Head(ready) \in Thread /\ Head(ready) \in In(ready)
  BY <1>1, TailMembers DEF Typed, Placed
<1>4. c \notin In(ready) /\ c \notin disk /\ (c = Main => Waiting = {}) /\ Alive(c)
  BY <1>2, Running
<1> HIDE DEF q
<1>5. ready' \in Seq(Thread) /\ In(ready)' = In(q) \cup {c} /\ Distinct(ready)'
  <2>1. /\ Append(q, c) \in Seq(Thread) /\ In(Append(q, c)) = In(q) \cup {c}
        /\ Distinct(Append(q, c))
    BY <1>3, <1>4, AppendMembers
  <2> QED
    BY <1>1, <1>2, <2>1 DEF In, Distinct
<1>6. Typed'
  BY <1>1, <1>3, <1>5 DEF Typed, semas
<1>7. Waiting' = Waiting /\ waiters' = waiters
  BY <1>1 DEF Waiting, semas
<1>8. Placed'
  <2>1. \A t \in Thread : Alive(t)' <=> Alive(t)
    BY <1>1 DEF Alive, Gone, Started
  <2>2. Main \in Thread
    BY DEF Thread
  <2>3. current' # c
    BY <1>1, <1>3, <1>4
  <2> QED
    BY <1>1, <1>2, <1>3, <1>4, <1>5, <1>7, <2>1, <2>2, <2>3 DEF Placed
<1> QED
  BY <1>1, <1>6, <1>7, <1>8, ScheduleOnly DEF Making, semas

LEMMA StepIdleBlocks == IInv /\ IdleBlocks => IInv'
<1> SUFFICES ASSUME IInv, IdleBlocks PROVE IInv'
  OBVIOUS
<1> USE DEF IInv
<1>1. /\ current = Idle /\ Schedule(ready)
      /\ UNCHANGED <<runs, disk, pc, run, success, semas, global_sema, arg, panic, early>>
  BY DEF IdleBlocks
<1>2. /\ ready' \in Seq(Thread) /\ Distinct(ready)' /\ current' \in Thread \cup {Idle}
      /\ \/ current' = Idle /\ In(ready) = {} /\ In(ready)' = {}
         \/ current' \in In(ready) /\ In(ready)' = In(ready) \ {current'}
  BY <1>1, ScheduleEffect DEF Typed, Placed
<1>3. Typed'
  BY <1>1, <1>2 DEF Typed, semas
<1>4. Waiting' = Waiting /\ waiters' = waiters
  BY <1>1 DEF Waiting, semas
<1>5. Placed'
  <2>1. \A t \in Thread : Alive(t)' <=> Alive(t)
    BY <1>1 DEF Alive, Gone, Started
  <2>2. Idle \notin Thread
    BY RunsAssumption DEF Idle, Thread, Main, Child
  <2>3. Idle \notin disk /\ Main \in Thread
    BY <2>2 DEF Typed, Thread
  <2> QED
    BY <1>1, <1>2, <1>4, <2>1, <2>2, <2>3 DEF Placed
<1> QED
  BY <1>1, <1>3, <1>4, <1>5, ScheduleOnly DEF Making, semas

\* The thread is gone.
LEMMA StepDie ==
    ASSUME IInv, NEW t \in Thread, Die(t)
    PROVE  IInv'
<1> USE DEF IInv
<1>0. Main \in Thread /\ Main \notin Child /\ Child \subseteq Thread /\ (t = Main \/ t \in Child)
  BY DEF Thread, Child, Main
<1>1. /\ current = t /\ pc[t] = "die" /\ Schedule(ready) /\ pc' = [pc EXCEPT ![t] = "dead"]
      /\ UNCHANGED <<runs, disk, run, success, semas, global_sema, arg, panic, early>>
  BY DEF Die, At, Goto
<1>2. /\ ready' \in Seq(Thread) /\ Distinct(ready)' /\ current' \in Thread \cup {Idle}
      /\ \/ current' = Idle /\ In(ready) = {} /\ In(ready)' = {}
         \/ current' \in In(ready) /\ In(ready)' = In(ready) \ {current'}
  BY <1>1, ScheduleEffect DEF Typed, Placed
<1>3. \A u \in Thread : pc'[u] = IF u = t THEN "dead" ELSE pc[u]
  BY <1>1 DEF Typed
<1>4. Typed'
  BY <1>0, <1>1, <1>2 DEF Typed, semas, MainPc, ChildPc
<1>5. Waiting' = Waiting /\ waiters' = waiters
  BY <1>1 DEF Waiting, semas
<1>6. t \notin In(ready) /\ t \notin disk /\ (t = Main => Waiting = {}) /\ Alive(t)
  BY <1>1, Running
<1>7. Placed'
  <2>1. \A u \in Thread : Alive(u)' <=> Alive(u) /\ u # t
    BY <1>1, <1>3 DEF Alive, Gone, Started
  <2>2. Idle \notin Thread
    BY RunsAssumption DEF Idle, Thread, Main, Child
  <2>3. Idle \notin disk
    BY <2>2, <1>0 DEF Typed
  <2> QED
    BY <1>0, <1>1, <1>2, <1>3, <1>5, <1>6, <2>1, <2>2, <2>3 DEF Placed
<1>8. Unstarted'
  BY <1>0, <1>1, <1>3 DEF Unstarted
<1>9. Forward
  BY <1>0, <1>1, <1>3 DEF Forward
<1>a. Making'
  <2>1. Waiting' \subseteq made /\ \A s \in Sema : value'[s] > 0 => s \in made
    BY <1>1, <1>5 DEF Making, semas
  <2>2. /\ \A k \in Child : pc'[k] \in Before => pc[k] \in Before
        /\ \A k \in Child : pc'[k] = "init" => pc[k] = "init"
    BY <1>0, <1>1, <1>3 DEF Before
  <2>3. /\ pc[Main] = "execute" => pc'[Main] \in {"execute", "exit"}
        /\ pc[Main] \in Leaving => pc'[Main] \in Leaving
    BY <1>0, <1>1, <1>3 DEF Leaving
  <2> QED
    BY <1>1, <2>1, <2>2, <2>3, MakingKept DEF semas
<1>b. Raises'
  BY <1>1, <1>9, RaisesKept DEF semas, Typed
<1>c. LoadedFirst' /\ Waits' /\ WaitsForExit'
  <2>1. UNCHANGED <<pc[Main], arg[Main]>> \/ pc'[Main] \in Leaving
    BY <1>0, <1>1, <1>3 DEF Leaving
  <2> QED
    BY <1>1, <1>9, <2>1, OrderKept DEF semas
<1> QED
  BY <1>4, <1>7, <1>8, <1>a, <1>b, <1>c

-----------------------------------------------------------------------------
\* The steps that use a semaphore.

\* Main blocks in semaphore_down().
LEMMA BlockPlaced ==
    ASSUME IInv, NEW s \in made, current = Main, pc[Main] \in {"loading", "waiting"},
           waiters' = [waiters EXCEPT ![s] = Append(@, Main)], Schedule(ready),
           UNCHANGED <<runs, disk, pc, run, success, value, made, global_sema, arg, panic, early>>
    PROVE  IInv'
<1> USE DEF IInv
<1>0. s \in Sema /\ Main \in Thread /\ Main \notin Child /\ Child \subseteq Thread
  BY DEF Typed, Thread, Child, Main
<1>1. Waiting = {} /\ Main \notin In(ready) /\ Main \notin disk /\ Alive(Main)
  BY <1>0, Running
<1>2. /\ ready' \in Seq(Thread) /\ Distinct(ready)' /\ current' \in Thread \cup {Idle}
      /\ \/ current' = Idle /\ In(ready) = {} /\ In(ready)' = {}
         \/ current' \in In(ready) /\ In(ready)' = In(ready) \ {current'}
  BY ScheduleEffect DEF Typed, Placed
<1>3. waiters' \in [Sema -> Seq(Thread)] /\ waiters'[s] = <<Main>>
      /\ \A r \in Sema : r # s => waiters'[r] = <<>>
  <2>1. waiters[s] = <<>> /\ Append(<<>>, Main) = <<Main>> /\ <<Main>> \in Seq(Thread)
    BY <1>0, <1>1 DEF Waiting
  <2>2. \A r \in Sema : waiters[r] = <<>>
    BY <1>1 DEF Waiting
  <2> QED
    BY <1>0, <2>1, <2>2 DEF Typed
<1>4. Waiting' = {s}
  <2>1. <<Main>> # <<>>
    OBVIOUS
  <2> QED
    BY <1>0, <1>3, <2>1 DEF Waiting
<1>5. Typed'
  BY <1>2, <1>3 DEF Typed
<1>6. Placed'
  <2>1. \A t \in Thread : Alive(t)' <=> Alive(t)
    BY DEF Alive, Gone, Started
  <2>2. Idle \notin Thread /\ Main # Idle
    BY RunsAssumption DEF Idle, Thread, Main, Child
  <2>3. Idle \notin disk
    BY <2>2, <1>0 DEF Typed
  <2>4. \A r \in Sema : waiters'[r] \in {<<>>, <<Main>>}
    BY <1>3
  <2> QED
    BY <1>0, <1>1, <1>2, <1>4, <2>1, <2>2, <2>3, <2>4 DEF Placed
<1> QED
  BY <1>4, <1>5, <1>6, ScheduleOnly

\* Main gets past semaphore_down(), or does not look.
LEMMA MainGoesOn ==
    ASSUME IInv, NEW l \in {"wait", "execute"}, current = Main,
           l = "wait" => pc[Main] = "loading" /\ pc[run] \notin {"load", "loaded"},
           l = "execute" => pc[Main] = "waiting" /\ (~early => pc[run] \in {"die", "dead"}),
           pc' = [pc EXCEPT ![Main] = l],
           value' \in [Sema -> Nat], \A r \in Sema : value'[r] <= value[r],
           UNCHANGED <<runs, threads, run, success, waiters, made, global_sema, arg, panic, early>>
    PROVE  IInv'
<1> USE DEF IInv
<1>0. Main \in Thread /\ Main \notin Child /\ Child \subseteq Thread
  BY DEF Thread, Child, Main
<1>1. \A u \in Thread : pc'[u] = IF u = Main THEN l ELSE pc[u]
  BY DEF Typed
<1>2. Typed'
  BY <1>0 DEF Typed, threads, MainPc
<1>3. Placed'
  BY <1>0, StayPlaced DEF MainPc, Gone
<1>4. Unstarted'
  BY <1>0, <1>1 DEF Unstarted
<1>5. run \in Child
  BY RunsAssumption DEF Making, Typed, Child
<1>6. Making'
  <2>1. \A s \in Sema : value'[s] > 0 => s \in made
    <3>1. \A r \in Sema : value[r] \in Nat /\ value'[r] \in Nat /\ value'[r] <= value[r]
      BY DEF Typed
    <3> QED
      BY <3>1 DEF Making
  <2>2. Waiting' \subseteq made
    BY DEF Waiting, Making
  <2>3. run > 0
    BY <1>5 DEF Child
  <2>4. \A k \in Child : pc'[k] = pc[k]
    BY <1>0, <1>1
  <2> QED
    BY <2>1, <2>2, <2>3, <2>4 DEF Making
<1>7. Raises'
  <2>1. Forward
    BY <1>0, <1>1 DEF Forward
  <2> QED
    BY <2>1, RaisesKept
<1>8. LoadedFirst'
  BY <1>0, <1>1, <1>5 DEF LoadedFirst
<1>9. Waits'
  <2>1. SUFFICES ASSUME ~early, l = "wait"
                 PROVE  /\ \A k \in 1 .. run - 1 : pc'[k] \in {"die", "dead"}
                        /\ value'[<<"exit", run>>] > 0 => pc'[run] \in {"die", "dead"}
    BY <1>0, <1>1 DEF Waits
  <2>2. 1 .. run - 1 \subseteq Child
    BY <1>5, RunsAssumption DEF Child
  <2>3. \A k \in 1 .. run - 1 : pc[k] \in {"die", "dead"}
    BY <2>1 DEF Waits
  <2>4. value'[<<"exit", run>>] > 0 => value[<<"exit", run>>] > 0
    <3>1. <<"exit", run>> \in Sema
      BY <1>5, SemaphoresAre
    <3>2. \A r \in Sema : value[r] \in Nat /\ value'[r] \in Nat /\ value'[r] <= value[r]
      BY DEF Typed
    <3> QED
      BY <3>1, <3>2
  <2>5. value[<<"exit", run>>] > 0 => pc[run] \in {"die", "dead"}
    BY <2>1 DEF Waits
  <2> QED
    BY <1>0, <1>1, <1>5, <2>2, <2>3, <2>4, <2>5
<1>a. WaitsForExit'
  <2>1. SUFFICES ASSUME ~early, l = "execute"
                 PROVE  \A k \in 1 .. run : pc'[k] \in {"die", "dead"}
    BY <1>0, <1>1 DEF WaitsForExit
  <2>2. \A k \in 1 .. run - 1 : pc[k] \in {"die", "dead"}
    BY <2>1 DEF Waits
  <2>3. 1 .. run = (1 .. run - 1) \cup {run} /\ 1 .. run \subseteq Child
    BY <1>5, RunsAssumption DEF Child
  <2>4. \A k \in 1 .. run : pc[k] \in {"die", "dead"}
    BY <2>1, <2>2, <2>3
  <2> QED
    BY <1>0, <1>1, <2>3, <2>4
<1> QED
  BY <1>2, <1>3, <1>4, <1>6, <1>7, <1>8, <1>9, <1>a

LEMMA StepExecuteDown == IInv /\ ExecuteDown => IInv'
<1> SUFFICES ASSUME IInv, ExecuteDown PROVE IInv'
  OBVIOUS
<1> USE DEF IInv
<1> DEFINE s == <<"load", run>>
<1>1. /\ current = Main /\ pc[Main] = "loading" /\ Down(Main, s, "wait")
      /\ UNCHANGED <<runs, run, success, made, global_sema, arg, panic, early>>
  BY DEF ExecuteDown, At
<1>2. run \in Child /\ s \in Sema /\ s \in made
  BY <1>1, RunsAssumption, SemaphoresAre DEF Making, Typed, Child
<1>3. CASE value[s] > 0
  <2>1. /\ value' = [value EXCEPT ![s] = @ - 1] /\ pc' = [pc EXCEPT ![Main] = "wait"]
        /\ UNCHANGED <<threads, waiters>>
    BY <1>1, <1>3 DEF Down, Goto
  <2>2. value' \in [Sema -> Nat] /\ \A r \in Sema : value'[r] <= value[r]
    <3> HIDE DEF s
    <3> QED
      BY <1>2, <1>3, <2>1 DEF Typed
  <2>3. pc[run] \notin {"load", "loaded"}
    BY <1>2, <1>3 DEF Raises
  <2> QED
    BY <1>1, <2>1, <2>2, <2>3, MainGoesOn
<1>4. CASE ~(value[s] > 0)
  <2>1. /\ waiters' = [waiters EXCEPT ![s] = Append(@, Main)] /\ Schedule(ready)
        /\ UNCHANGED <<pc, value, disk>>
    BY <1>1, <1>4 DEF Down
  <2> QED
    BY <1>1, <1>2, <2>1, BlockPlaced
<1> QED
  BY <1>3, <1>4

LEMMA StepWaitDown == IInv /\ WaitDown => IInv'
<1> SUFFICES ASSUME IInv, WaitDown PROVE IInv'
  OBVIOUS
<1> USE DEF IInv
<1> DEFINE s == arg[Main]
<1>1. /\ current = Main /\ pc[Main] = "waiting"
      /\ UNCHANGED <<runs, run, success, global_sema, arg, early>>
  BY DEF WaitDown, At
<1>2. run \in Child /\ Main \in Thread
  BY <1>1, RunsAssumption DEF Making, Typed, Child, Thread
<1>3. ~early => s = <<"exit", run>> /\ s \in made
  BY <1>1 DEF Waits
<1>4. CASE s \in made /\ Down(Main, s, "execute") /\ UNCHANGED <<made, panic>>
  <2>1. s \in Sema
    BY <1>4 DEF Typed
  <2>2. CASE value[s] > 0
    <3>1. /\ value' = [value EXCEPT ![s] = @ - 1] /\ pc' = [pc EXCEPT ![Main] = "execute"]
          /\ UNCHANGED <<threads, waiters>>
      BY <1>4, <2>2 DEF Down, Goto
    <3>2. value' \in [Sema -> Nat] /\ \A r \in Sema : value'[r] <= value[r]
      <4> HIDE DEF s
      <4> QED
        BY <2>1, <2>2, <3>1 DEF Typed
    <3>3. ~early => pc[run] \in {"die", "dead"}
      BY <1>1, <1>3, <2>2 DEF Waits
    <3> QED
      BY <1>1, <1>4, <3>1, <3>2, <3>3, MainGoesOn
  <2>3. CASE ~(value[s] > 0)
    <3>1. /\ waiters' = [waiters EXCEPT ![s] = Append(@, Main)] /\ Schedule(ready)
          /\ UNCHANGED <<pc, value, disk>>
      BY <1>4, <2>3 DEF Down
    <3> QED
      BY <1>1, <1>4, <3>1, BlockPlaced
  <2> QED
    BY <2>2, <2>3
<1>5. CASE s \notin made /\ panic' = TRUE /\ UNCHANGED <<threads, pc, semas>>
  <2>1. Typed'
    BY <1>1, <1>5 DEF Typed, threads, semas
  <2>2. Placed'
    BY <1>1, <1>5 DEF Placed, threads, semas, In, Distinct, Waiting, Alive, Gone, Started
  <2>3. Unstarted' /\ Making' /\ LoadedFirst' /\ Waits' /\ WaitsForExit'
    BY <1>1, <1>5 DEF Unstarted, Making, LoadedFirst, Waits, WaitsForExit, semas, Waiting
  <2>4. Raises'
    <3>1. Forward
      BY <1>5 DEF Forward
    <3> QED
      BY <1>5, <3>1, RaisesKept DEF semas, Typed
  <2> QED
    BY <2>1, <2>2, <2>3, <2>4
<1>6. CASE s \notin made /\ pc' = [pc EXCEPT ![Main] = "execute"] /\ UNCHANGED <<threads, semas, panic>>
  <2>1. early
    BY <1>3, <1>6
  <2>2. value' \in [Sema -> Nat] /\ \A r \in Sema : value'[r] <= value[r]
    BY <1>6 DEF semas, Typed
  <2> QED
    BY <1>1, <1>6, <2>1, <2>2, MainGoesOn DEF semas
<1>7. CASE /\ s \notin made /\ pc' = [pc EXCEPT ![Main] = "asleep"] /\ Schedule(ready)
           /\ UNCHANGED <<disk, semas, panic>>
  <2>0. Main \notin Child /\ Child \subseteq Thread
    BY DEF Thread, Main, Child
  <2>1. \A u \in Thread : pc'[u] = IF u = Main THEN "asleep" ELSE pc[u]
    BY <1>7 DEF Typed
  <2>2. /\ ready' \in Seq(Thread) /\ Distinct(ready)' /\ current' \in Thread \cup {Idle}
        /\ \/ current' = Idle /\ In(ready) = {} /\ In(ready)' = {}
           \/ current' \in In(ready) /\ In(ready)' = In(ready) \ {current'}
    BY <1>7, ScheduleEffect DEF Typed, Placed
  <2>3. Typed'
    BY <1>1, <1>2, <1>7, <2>0, <2>2 DEF Typed, semas, MainPc
  <2>4. Waiting' = Waiting /\ waiters' = waiters /\ Waiting = {} /\ Main \notin In(ready)
    BY <1>1, <1>2, <1>7, Running DEF Waiting, semas
  <2>5. Placed'
    <3>1. \A u \in Thread : Alive(u)' <=> Alive(u) /\ u # Main
      BY <1>1, <2>1 DEF Alive, Gone, Started
    <3>2. Idle \notin Thread
      BY RunsAssumption DEF Idle, Thread, Main, Child
    <3>3. Idle \notin disk /\ Main \notin disk
      BY <2>0, <3>2 DEF Typed
    <3> QED
      BY <1>1, <1>2, <1>7, <2>2, <2>4, <3>1, <3>2, <3>3 DEF Placed
  <2>6. Unstarted' /\ Forward
    BY <1>1, <1>2, <2>0, <2>1 DEF Unstarted, Forward
  <2>7. Making'
    <3>1. \A j \in Child : pc'[j] = pc[j]
      BY <2>0, <2>1
    <3>2. run > 0
      BY <1>2 DEF Child
    <3> QED
      BY <1>1, <1>7, <2>4, <3>1, <3>2 DEF Making, semas
  <2>8. Raises'
    BY <1>7, <2>6, RaisesKept DEF semas, Typed
  <2>9. LoadedFirst' /\ Waits' /\ WaitsForExit'
    BY <1>1, <1>2, <1>7, <2>1, <2>6, OrderKept DEF semas
  <2> QED
    BY <2>3, <2>5, <2>6, <2>7, <2>8, <2>9
<1> QED
  BY <1>4, <1>5, <1>6, <1>7 DEF WaitDown, Goto

\* The semaphore global_sema points to by now is set, though it be in use.
LEMMA StepInitExit ==
    ASSUME IInv, NEW k \in Child, InitExit(k)
    PROVE  IInv'
<1> USE DEF IInv
<1> DEFINE s == global_sema
           l == IF success[k] THEN "user" ELSE "exit"
<1>0. Main \in Thread /\ Main \notin Child /\ Child \subseteq Thread
  BY DEF Thread, Child, Main
<1>1. /\ current = k /\ pc[k] = "init"
      /\ pc' = [t \in Thread |-> IF t = k THEN l
                                 ELSE IF t \in Range(waiters[s]) THEN "asleep" ELSE pc[t]]
      /\ value' = [value EXCEPT ![s] = 0] /\ waiters' = [waiters EXCEPT ![s] = <<>>]
      /\ made' = made \cup {s}
      /\ UNCHANGED <<runs, threads, run, success, global_sema, arg, panic, early>>
  BY DEF InitExit, At, Made
<1>2. l \in {"user", "exit"}
  OBVIOUS
<1>3. s \in Sema /\ \A j \in Child : <<"load", j>> # s
  <2>1. s # NULL /\ s \in Pointer
    BY <1>1 DEF Making, Typed
  <2> QED
    BY <2>1, SemaphoresAre
<1>4. Range(waiters[s]) = IF s \in Waiting THEN {Main} ELSE {}
  <2>1. waiters[s] \in {<<>>, <<Main>>}
    BY <1>3 DEF Placed
  <2>2. Range(<<>>) = {} /\ Range(<<Main>>) = {Main}
    BY DEF Range
  <2> QED
    BY <1>3, <2>1, <2>2 DEF Waiting
<1> HIDE DEF s, l
<1>5. \A r \in Sema : /\ value'[r] = IF r = s THEN 0 ELSE value[r]
                      /\ waiters'[r] = IF r = s THEN <<>> ELSE waiters[r]
  BY <1>1 DEF Typed
<1>6. \A u \in Thread : pc'[u] = IF u = k THEN l
                                 ELSE IF u = Main /\ s \in Waiting THEN "asleep" ELSE pc[u]
  <2> SUFFICES ASSUME NEW u \in Thread
               PROVE  pc'[u] = IF u = k THEN l
                               ELSE IF u = Main /\ s \in Waiting THEN "asleep" ELSE pc[u]
    OBVIOUS
  <2>1. pc'[u] = IF u = k THEN l ELSE IF u \in Range(waiters[s]) THEN "asleep" ELSE pc[u]
    BY <1>1, Zenon
  <2>2. u \in Range(waiters[s]) <=> u = Main /\ s \in Waiting
    BY <1>4
  <2> QED
    BY <2>1, <2>2
<1>7. value' \in [Sema -> Nat] /\ \A r \in Sema : value'[r] \in Nat /\ value'[r] <= value[r]
  <2>1. value \in [Sema -> Nat]
    BY DEF Typed
  <2>2. value' \in [Sema -> Nat]
    BY <1>1, <2>1
  <2> QED
    BY <1>5, <2>1, <2>2
<1>8. Waiting' = Waiting \ {s}
  BY <1>5 DEF Waiting
<1>9. Typed'
  <2>1. \A u \in Thread : pc'[u] \in MainPc \cup ChildPc
    BY <1>2, <1>6 DEF Typed, MainPc, ChildPc
  <2>2. pc'[Main] \in MainPc /\ \A j \in Child : pc'[j] \in ChildPc
    BY <1>0, <1>2, <1>6 DEF Typed, MainPc, ChildPc
  <2>3. pc' \in [Thread -> MainPc \cup ChildPc]
    BY <1>1, <2>1
  <2>4. waiters' \in [Sema -> Seq(Thread)] /\ made' \subseteq Sema
    BY <1>1, <1>3 DEF Typed
  <2> QED
    BY <1>0, <1>1, <1>7, <2>2, <2>3, <2>4 DEF Typed, threads
<1>a. Placed'
  <2>1. /\ k \in Thread /\ k # Main /\ k \notin In(ready) /\ k \notin disk /\ Alive(k)
    BY <1>0, <1>1, Running
  <2>2. \A u \in Thread : Alive(u)' <=> Alive(u) /\ (u = Main => s \notin Waiting)
    BY <1>0, <1>1, <1>2, <1>6, <2>1 DEF Alive, Gone, Started
  <2>3. In(ready)' = In(ready) /\ (Distinct(ready)' <=> Distinct(ready)) /\ current' = current /\ disk' = disk
    BY <1>1 DEF threads, In, Distinct
  <2>4. \A r \in Sema : waiters'[r] \in {<<>>, <<Main>>}
    BY <1>5 DEF Placed
  <2>5. Main \notin disk
    BY <1>0 DEF Typed
  <2>6. CASE s \in Waiting
    <3>1. Waiting = {s} /\ Waiting' = {}
      BY <1>8, <2>6 DEF Placed
    <3>2. Main \notin In(ready) /\ current # Main
      BY <2>6 DEF Placed
    <3> QED
      BY <1>0, <2>1, <2>2, <2>3, <2>4, <2>5, <2>6, <3>1, <3>2 DEF Placed
  <2>7. CASE s \notin Waiting
    <3>1. Waiting' = Waiting /\ pc'[Main] = pc[Main]
      BY <1>0, <1>6, <1>8, <2>1, <2>7
    <3> QED
      BY <1>0, <2>1, <2>2, <2>3, <2>4, <2>7, <3>1 DEF Placed
  <2> QED
    BY <2>6, <2>7
<1>b. Unstarted'
  <2>1. k \in 1 .. run
    BY <1>0, <1>1, Running
  <2> QED
    BY <1>0, <1>1, <1>6, <2>1, RunsAssumption DEF Unstarted, Typed, Child
<1>c. Forward
  <2>1. s \in Waiting => pc[Main] \in {"loading", "waiting"}
    BY DEF Placed
  <2> QED
    BY <1>0, <1>1, <1>2, <1>6, <2>1 DEF Forward
<1>d. Making'
  <2>1. \A j \in Child : /\ pc'[j] \in Before => pc[j] \in Before
                         /\ pc'[j] = "init" => pc[j] = "init"
    BY <1>0, <1>2, <1>6 DEF Before
  <2>2. \A r \in Sema : value'[r] > 0 => r \in made'
    BY <1>1, <1>5 DEF Making
  <2>3. pc'[Main] = pc[Main] \/ (pc'[Main] = "asleep" /\ pc[Main] \in {"loading", "waiting"})
    BY <1>0, <1>6 DEF Placed
  <2>4. \A j \in Child : (<<"load", j>> \in made' <=> j <= run')
    BY <1>1, <1>3 DEF Making
  <2>5. \A j \in Child : <<"exit", j>> \in made' \cup {global_sema'} => pc'[j] \notin Before
    BY <1>1, <2>1 DEF Making, s
  <2>6. \A j \in Child : pc'[j] = "init" => global_sema' # NULL
    BY <1>1, <2>1 DEF Making
  <2>7. Waiting' \subseteq made'
    BY <1>1, <1>8 DEF Making
  <2>8. pc'[Main] # "execute" => run' > 0 \/ pc'[Main] \in {"exit", "exiting", "die", "dead"}
    BY <1>1, <2>3 DEF Making
  <2> QED
    BY <2>2, <2>4, <2>5, <2>6, <2>7, <2>8 DEF Making
<1>e. Raises'
  BY <1>7, <1>c, RaisesKept
<1>f. LoadedFirst' /\ Waits' /\ WaitsForExit'
  <2>1. /\ UNCHANGED <<pc[Main], arg[Main]>> \/ pc'[Main] \in Leaving \cup {"asleep"}
        /\ made \subseteq made'
    BY <1>0, <1>1, <1>6
  <2>2. pc[Main] \in {"loading", "wait", "waiting"} => run \in Child
    BY RunsAssumption DEF Making, Typed, Child
  <2>3. pc[Main] \in {"loading", "wait", "waiting"} /\ value'[<<"exit", run>>] > 0
        => value[<<"exit", run>>] > 0
    <3>1. run \in Child => <<"exit", run>> \in Sema
      BY SemaphoresAre
    <3> QED
      BY <1>5, <2>2, <3>1
  <2> QED
    BY <1>1, <1>c, <2>1, <2>3, OrderKept
<1> QED
  BY <1>9, <1>a, <1>b, <1>d, <1>e, <1>f

\* semaphore_up() by a thread that goes on: Main, if it waits, is ready.
LEMMA UpPlaced ==
    ASSUME IInv, NEW t \in Thread, NEW s \in Sema, NEW l \in (MainPc \cup ChildPc) \ Gone,
           current = t, Up(s), pc' = [pc EXCEPT ![t] = l], UNCHANGED <<current, disk, run>>
    PROVE  Placed'
<1> USE DEF IInv
<1>1. /\ waiters'[s] = <<>> /\ \A r \in Sema : r # s => waiters'[r] = waiters[r]
      /\ Waiting' = Waiting \ {s}
      /\ In(ready)' = In(ready) \cup (IF s \in Waiting THEN {Main} ELSE {})
      /\ Distinct(ready)'
  BY UpEffect
<1>2. \A u \in Thread : pc'[u] = IF u = t THEN l ELSE pc[u]
  BY DEF Typed
<1>3. /\ t \notin In(ready) /\ t \notin disk /\ (t = Main => Waiting = {}) /\ Alive(t)
      /\ Main \in Thread
  BY Running DEF Thread
<1>4. \A u \in Thread : Alive(u)' <=> Alive(u)
  BY <1>2, <1>3 DEF Alive, Gone, Started
<1>5. \A r \in Sema : waiters'[r] \in {<<>>, <<Main>>}
  BY <1>1 DEF Placed
<1>6. Main \notin disk
  BY DEF Typed, Main, Child
<1>7. CASE s \in Waiting
  <2>1. Waiting = {s} /\ Waiting' = {} /\ In(ready)' = In(ready) \cup {Main}
    BY <1>1, <1>7 DEF Placed
  <2>2. t # Main
    BY <1>3, <1>7
  <2> QED
    BY <1>1, <1>2, <1>3, <1>4, <1>5, <1>6, <2>1, <2>2 DEF Placed
<1>8. CASE s \notin Waiting
  <2>1. Waiting' = Waiting /\ In(ready)' = In(ready)
    BY <1>1, <1>8
  <2>2. Waiting # {} => pc'[Main] = pc[Main]
    BY <1>2, <1>3
  <2> QED
    BY <1>1, <1>4, <1>5, <2>1, <2>2 DEF Placed
<1> QED
  BY <1>7, <1>8

\* The load is over: raised once, from zero.
LEMMA StepLoadUp ==
    ASSUME IInv, NEW k \in Child, LoadUp(k)
    PROVE  IInv'
<1> USE DEF IInv
<1> DEFINE s == <<"load", k>>
<1>0. /\ Main \in Thread /\ Main \notin Child /\ Child \subseteq Thread
  BY DEF Thread, Child, Main
<1>1. /\ s \in Sema /\ \A j \in Child : (<<"load", j>> = s <=> j = k) /\ <<"exit", j>> # s
  BY SemaphoresAre
<1>2. /\ current = k /\ pc[k] = "loaded" /\ pc' = [pc EXCEPT ![k] = "malloc"] /\ Up(s)
      /\ UNCHANGED <<runs, current, disk, run, success, made, global_sema, arg, panic, early>>
  BY DEF LoadUp, At, Goto
<1>3. value[s] = 0 /\ s \in made
  <2>1. ~(value[s] > 0) /\ value[s] \in Nat
    BY <1>1, <1>2 DEF Raises, Typed
  <2>2. k \in 1 .. run
    BY <1>0, <1>2, Running
  <2>3. k <= run
    BY <2>2
  <2> QED
    BY <2>1, <2>3 DEF Making
<1> HIDE DEF s
<1>4. /\ waiters' \in [Sema -> Seq(Thread)] /\ Waiting' = Waiting \ {s}
      /\ ready' \in Seq(Thread)
      /\ value' \in [Sema -> Nat] /\ value'[s] = value[s] + 1
      /\ \A r \in Sema : r # s => value'[r] = value[r]
  BY <1>1, <1>2, UpEffect
<1>5. \A u \in Thread : pc'[u] = IF u = k THEN "malloc" ELSE pc[u]
  BY <1>2 DEF Typed
<1>6. Typed'
  BY <1>0, <1>2, <1>4 DEF Typed, ChildPc
<1>7. Placed'
  <2>1. k \in Thread /\ "malloc" \in (MainPc \cup ChildPc) \ Gone
    BY <1>0 DEF ChildPc, Gone
  <2> QED
    BY <1>1, <1>2, <2>1, UpPlaced
<1>8. Unstarted'
  <2>1. k \in 1 .. run
    BY <1>0, <1>2, Running
  <2> QED
    BY <1>0, <1>2, <1>5, <2>1, RunsAssumption DEF Unstarted, Typed, Child
<1>9. Forward
  BY <1>0, <1>2, <1>5 DEF Forward
<1>a. Making'
  <2>1. Waiting' \subseteq made /\ \A r \in Sema : value'[r] > 0 => r \in made
    BY <1>3, <1>4 DEF Making
  <2>2. /\ pc'[Main] = pc[Main] /\ \A j \in Child : pc'[j] \in Before => pc[j] \in Before
        /\ \A j \in Child : pc'[j] = "init" => pc[j] = "init"
    BY <1>0, <1>2, <1>5 DEF Before
  <2> QED
    BY <1>2, <2>1, <2>2, MakingKept
<1>b. Raises'
  <2>1. Exited' = Exited
    BY <1>0, <1>2, <1>5 DEF Exited
  <2>2. Cardinality(Exited') = Cardinality(Exited)
    BY <2>1
  <2>3. \A j \in Child : value'[<<"exit", j>>] = value[<<"exit", j>>]
    BY <1>1, <1>4, SemaphoresAre
  <2>4. \A j \in Child : j # k => value'[<<"load", j>>] = value[<<"load", j>>] /\ pc'[j] = pc[j]
    BY <1>0, <1>1, <1>4, <1>5, SemaphoresAre
  <2>5. value'[<<"load", k>>] = 1 /\ pc'[k] = "malloc"
    BY <1>0, <1>3, <1>4, <1>5 DEF s
  <2> QED
    BY <2>2, <2>3, <2>4, <2>5 DEF Raises
<1>c. LoadedFirst' /\ Waits' /\ WaitsForExit'
  <2>1. pc'[Main] = pc[Main] /\ arg'[Main] = arg[Main] /\ made \subseteq made'
    BY <1>0, <1>2, <1>5
  <2>2. pc[Main] \in {"loading", "wait", "waiting"} => run \in Child
    BY RunsAssumption DEF Making, Typed, Child
  <2>3. pc[Main] \in {"loading", "wait", "waiting"} /\ value'[<<"exit", run>>] > 0
        => value[<<"exit", run>>] > 0
    BY <1>1, <1>4, <2>2, SemaphoresAre
  <2> QED
    BY <1>2, <1>9, <2>1, <2>3, OrderKept
<1> QED
  BY <1>6, <1>7, <1>8, <1>a, <1>b, <1>c

\* thread_exit() past its semaphore: what holds of the steps that end in "die".
LEMMA EndStep ==
    ASSUME IInv, NEW t \in Thread, current = t, pc[t] = "exiting",
           pc' = [pc EXCEPT ![t] = "die"],
           UNCHANGED <<runs, current, disk, run, success, made, global_sema, arg, early>>,
           \A r \in Sema : value'[r] \in Nat /\ (value'[r] <= value[r] \/ (r = arg[t] /\ value'[r] = value[r] + 1)),
           \A r \in Sema : value'[r] > 0 => r \in made,
           Waiting' \subseteq made
    PROVE  Unstarted' /\ Making' /\ Raises' /\ LoadedFirst' /\ Waits' /\ WaitsForExit'
<1> USE DEF IInv
<1>0. Main \in Thread /\ Main \notin Child /\ Child \subseteq Thread /\ (t = Main \/ t \in Child)
  BY DEF Thread, Child, Main
<1>1. \A u \in Thread : pc'[u] = IF u = t THEN "die" ELSE pc[u]
  BY DEF Typed
<1>2. Unstarted'
  BY <1>0, <1>1 DEF Unstarted
<1>3. Forward
  BY <1>0, <1>1 DEF Forward
<1>4. Making'
  <2>1. /\ pc[Main] = "execute" => pc'[Main] \in {"execute", "exit"}
        /\ pc[Main] \in Leaving => pc'[Main] \in Leaving
        /\ \A j \in Child : pc'[j] \in Before => pc[j] \in Before
        /\ \A j \in Child : pc'[j] = "init" => pc[j] = "init"
    BY <1>0, <1>1 DEF Before, Leaving
  <2> QED
    BY <2>1, MakingKept
<1>5. \A k \in Child : arg[t] # <<"load", k>>
  <2>1. arg[t] \in Pointer
    BY DEF Typed
  <2> QED
    BY <2>1, SemaphoresAre DEF Pointer
<1>6. Raises'
  <2>1. Cardinality(Exited') = Cardinality(Exited) + 1 /\ Cardinality(Exited) \in Nat
    <3>1. t \notin Exited /\ Exited' = Exited \cup {t} /\ Exited \in SUBSET Thread
      BY <1>1 DEF Exited
    <3>2. IsFiniteSet(Exited) /\ Cardinality(Exited) \in Nat
      BY <3>1, ThreadsFinite, RunsAssumption
    <3> QED
      BY <3>1, <3>2, FS_AddElement
  <2>2. ASSUME NEW k \in Child
        PROVE  /\ value'[<<"load", k>>] <= 1
               /\ value'[<<"load", k>>] > 0 => pc'[k] \notin {"load", "loaded"}
               /\ value'[<<"exit", k>>] <= Cardinality(Exited')
    <3> DEFINE e == <<"exit", k>>
               m == <<"load", k>>
    <3>1. e \in Sema /\ m \in Sema /\ m # arg[t]
      BY <1>5, SemaphoresAre
    <3>2. /\ value[m] <= 1 /\ (value[m] > 0 => pc[k] \notin {"load", "loaded"})
          /\ value[e] <= Cardinality(Exited)
      BY DEF Raises
    <3> HIDE DEF e, m
    <3>3. value[m] \in Nat /\ value[e] \in Nat
      BY <3>1 DEF Typed
    <3>4. value'[m] <= value[m] /\ value'[m] \in Nat /\ value'[e] \in Nat /\ value'[e] <= value[e] + 1
      BY <3>1, <3>3
    <3>5. pc'[k] \in {"load", "loaded"} => pc[k] \in {"load", "loaded"}
      BY <1>3 DEF Forward
    <3>6. value'[m] <= 1 /\ (value'[m] > 0 => pc'[k] \notin {"load", "loaded"})
      BY <3>2, <3>3, <3>4, <3>5
    <3>7. value'[e] <= Cardinality(Exited')
      BY <2>1, <3>2, <3>3, <3>4
    <3> QED
      BY <3>6, <3>7 DEF e, m
  <2> QED
    BY <2>2 DEF Raises
<1>7. UNCHANGED <<pc[Main], arg[Main]>> \/ pc'[Main] \in Leaving
  BY <1>0, <1>1 DEF Leaving
\* The semaphore of the run is raised by no program before it: they have all
\* ended.
<1>8. /\ pc[Main] \in {"loading", "wait", "waiting"} /\ ~early
         /\ value'[<<"exit", run>>] > 0
      => value[<<"exit", run>>] > 0 \/ pc'[run] \in {"die", "dead"}
  <2>1. SUFFICES ASSUME pc[Main] \in {"loading", "wait", "waiting"}, ~early,
                        value'[<<"exit", run>>] > 0, ~(value[<<"exit", run>>] > 0)
                 PROVE  pc'[run] \in {"die", "dead"}
    OBVIOUS
  <2>2. t \in 1 .. run
    <3>1. t # Main
      BY <2>1
    <3> QED
      BY <1>0, <3>1, Running
  <2>3. t \notin 1 .. run - 1
    BY <2>1 DEF Waits
  <2>4. t = run
    BY <2>2, <2>3 DEF Typed
  <2> QED
    BY <1>1, <2>4
<1>9. LoadedFirst' /\ Waits' /\ WaitsForExit'
  BY <1>3, <1>7, <1>8, OrderKept
<1> QED
  BY <1>2, <1>4, <1>6, <1>9

LEMMA StepExitUp ==
    ASSUME IInv, NEW t \in Thread, ExitUp(t)
    PROVE  IInv'
<1> USE DEF IInv
<1> DEFINE s == arg[t]
<1>0. /\ Main \in Thread /\ Main \notin Child /\ Child \subseteq Thread /\ (t = Main \/ t \in Child)
      /\ "die" \in (MainPc \cup ChildPc) \ Gone /\ "die" \in MainPc /\ "die" \in ChildPc
  BY DEF Thread, Child, Main, MainPc, ChildPc, Gone
<1>1. /\ current = t /\ pc[t] = "exiting"
      /\ UNCHANGED <<runs, run, success, global_sema, arg, early>>
  BY DEF ExitUp, At
<1>2. value \in [Sema -> Nat] /\ (\A r \in Sema : value[r] > 0 => r \in made) /\ Waiting \subseteq made
  BY DEF Typed, Making
<1>3. CASE s \in made /\ Up(s) /\ pc' = [pc EXCEPT ![t] = "die"] /\ UNCHANGED <<current, disk, made, panic>>
  <2> HIDE DEF s
  <2>0. s \in Sema
    BY <1>3 DEF Typed
  <2>1. /\ waiters' \in [Sema -> Seq(Thread)] /\ Waiting' = Waiting \ {s}
        /\ ready' \in Seq(Thread)
        /\ value' \in [Sema -> Nat] /\ value'[s] = value[s] + 1
        /\ \A r \in Sema : r # s => value'[r] = value[r]
    BY <1>3, <2>0, UpEffect
  <2>2. Typed'
    BY <1>0, <1>1, <1>3, <2>1 DEF Typed
  <2>3. Placed'
    BY <1>0, <1>1, <1>3, <2>0, UpPlaced
  <2>4. /\ \A r \in Sema : value'[r] \in Nat /\ (value'[r] <= value[r] \/ (r = s /\ value'[r] = value[r] + 1))
        /\ \A r \in Sema : value'[r] > 0 => r \in made
        /\ Waiting' \subseteq made
    <3>1. ASSUME NEW r \in Sema
          PROVE  /\ value'[r] \in Nat /\ (value'[r] <= value[r] \/ (r = s /\ value'[r] = value[r] + 1))
                 /\ value'[r] > 0 => r \in made
      <4>1. CASE r = s
        BY <1>2, <1>3, <2>0, <2>1, <4>1
      <4>2. CASE r # s
        BY <1>2, <2>1, <4>2
      <4> QED
        BY <4>1, <4>2
    <3> QED
      BY <1>2, <2>1, <3>1
  <2> QED
    BY <1>1, <1>3, <2>2, <2>3, <2>4, EndStep DEF s
<1>4. CASE s \notin made /\ panic' = TRUE /\ UNCHANGED <<threads, pc, semas>>
  <2>1. Typed'
    BY <1>1, <1>4 DEF Typed, threads, semas
  <2>2. Placed'
    BY <1>1, <1>4 DEF Placed, threads, semas, In, Distinct, Waiting, Alive, Gone, Started
  <2>3. Unstarted' /\ Making' /\ LoadedFirst' /\ Waits' /\ WaitsForExit'
    BY <1>1, <1>4 DEF Unstarted, Making, LoadedFirst, Waits, WaitsForExit, semas, Waiting
  <2>4. Raises'
    <3>1. Forward
      BY <1>4 DEF Forward
    <3> QED
      BY <1>4, <3>1, RaisesKept DEF semas, Typed
  <2> QED
    BY <2>1, <2>2, <2>3, <2>4
<1>5. CASE s \notin made /\ pc' = [pc EXCEPT ![t] = "die"] /\ UNCHANGED <<threads, semas, panic>>
  <2>1. Typed'
    BY <1>0, <1>1, <1>5 DEF Typed, threads, semas
  <2>2. Placed'
    BY <1>0, <1>1, <1>5, StayPlaced DEF semas
  <2>3. /\ \A r \in Sema : value'[r] \in Nat /\ (value'[r] <= value[r] \/ (r = s /\ value'[r] = value[r] + 1))
        /\ \A r \in Sema : value'[r] > 0 => r \in made
        /\ Waiting' \subseteq made
    BY <1>2, <1>5 DEF semas, Waiting
  <2> QED
    BY <1>1, <1>5, <2>1, <2>2, <2>3, EndStep DEF threads, semas
<1> QED
  BY <1>3, <1>4, <1>5 DEF ExitUp, Goto

-----------------------------------------------------------------------------
LEMMA NextIInv == IInv /\ [Next]_vars => IInv'
<1> SUFFICES ASSUME IInv, [Next]_vars PROVE IInv'
  OBVIOUS
<1>1. CASE MainStep
  BY <1>1, StepExecute, StepExecuteDown, StepWait, StepWaitDown, StepShutdown DEF MainStep
<1>2. ASSUME NEW k \in Child, LoadBlocks(k) \/ DiskDone(k) \/ ChildStep(k) PROVE IInv'
  BY <1>2, StepLoadBlocks, StepDiskDone, StepOwn, StepLoadUp, StepInitExit DEF ChildStep
<1>3. ASSUME NEW t \in Thread, ExitStep(t) PROVE IInv'
  BY <1>3, StepExit, StepExitUp, StepDie DEF ExitStep
<1>4. CASE Tick \/ IdleBlocks
  BY <1>4, StepTick, StepIdleBlocks
<1>5. CASE UNCHANGED vars
  <2>1. UNCHANGED <<runs, pc, run, success, value, made, global_sema, arg, panic, early,
                    ready, current, disk, waiters>>
    BY <1>5 DEF vars, threads, semas
  <2>2. Typed' /\ Placed'
    BY <2>1 DEF IInv, Typed, Placed, In, Distinct, Waiting, Alive, Gone, Started
  <2>3. Waiting' \subseteq made
    BY <2>1 DEF IInv, Making, Waiting
  <2> QED
    BY <2>1, <2>2, <2>3, ScheduleOnly DEF IInv
<1> QED
  BY <1>1, <1>2, <1>3, <1>4, <1>5 DEF Next

LEMMA Invariant == Spec => []IInv
<1>1. Init => IInv
  BY InitIInv
<1>2. IInv /\ [Next]_vars => IInv'
  BY NextIInv
<1> QED
  BY <1>1, <1>2, PTL DEF Spec

\* process_execute() returns when the program is loaded, or could not be, for
\* every number of programs.
THEOREM LoadAwaited == Spec => []LoadedFirst
<1>1. IInv => LoadedFirst
  BY DEF IInv
<1> QED
  BY <1>1, Invariant, PTL

\* process_wait() returns when the program has ended, unless it was early, for
\* every number of programs: no two of them run at a time.
THEOREM ExitAwaited == Spec => []WaitsForExit
<1>1. IInv => WaitsForExit
  BY DEF IInv
<1> QED
  BY <1>1, Invariant, PTL


-----------------------------------------------------------------------------
\* A list that holds its members once counts each of them once.
LEMMA CountInList ==
    ASSUME NEW S, NEW q \in Seq(S), Distinct(q), NEW t
    PROVE  Cardinality({i \in DOMAIN q : q[i] = t}) = IF t \in In(q) THEN 1 ELSE 0
<1> DEFINE C == {i \in DOMAIN q : q[i] = t}
<1>1. DOMAIN q = 1 .. Len(q)
  OBVIOUS
<1>2. CASE t \in In(q)
  <2>1. PICK i \in 1 .. Len(q) : q[i] = t
    BY <1>2 DEF In
  <2>2. C = {i}
    BY <1>1, <2>1 DEF Distinct
  <2> QED
    BY <1>2, <2>2, FS_Singleton
<1>3. CASE t \notin In(q)
  <2>1. C = {}
    BY <1>1, <1>3 DEF In
  <2> QED
    BY <1>3, <2>1, FS_EmptySet
<1> QED
  BY <1>2, <1>3

\* Type correctness, for every number of programs: a thread that has started
\* and has not ended runs, is ready, waits for the disk or for one semaphore,
\* in one of these places only and there once; no value is ever above the
\* number of threads.
THEOREM TypeCorrect == Spec => []TypeOK
<1>1. IInv => TypeOK
  <2> SUFFICES ASSUME IInv PROVE TypeOK
    OBVIOUS
  <2> USE RunsAssumption DEF IInv
  <2>1. run \in 0 .. runs /\ current \in Thread \cup {Idle} /\ global_sema \in Sema \cup {NULL}
    BY SemaphoresAre DEF Typed
  <2>2. ASSUME NEW s \in Sema PROVE value[s] \in 0 .. Runs + 1
    <3>1. value[s] \in Nat
      BY DEF Typed
    <3>2. Exited \in SUBSET Thread
      BY DEF Exited
    <3>3. Cardinality(Exited) \in 0 .. Runs + 1
      BY <3>2, ThreadsFinite
    <3>4. PICK k \in Child : s = <<"load", k>> \/ s = <<"exit", k>>
      BY SemaphoresAre
    <3>5. value[s] <= 1 \/ value[s] <= Cardinality(Exited)
      BY <3>4 DEF Raises
    <3> QED
      BY <3>1, <3>3, <3>5
  <2>3. ASSUME NEW t \in Thread PROVE Times(t) = IF Started(t) /\ pc[t] \notin {"dead", "asleep"} THEN 1 ELSE 0
    <3> DEFINE inReady == {i \in DOMAIN ready : ready[i] = t}
               inWaiters == {p \in Sema \X (1 .. Runs + 1) :
                                p[2] \in DOMAIN waiters[p[1]] /\ waiters[p[1]][p[2]] = t}
               isCurrent == {x \in {current} : x = t}
               inDisk == {x \in disk : x = t}
    <3>1. Cardinality(inReady) = IF t \in In(ready) THEN 1 ELSE 0
      BY CountInList DEF Typed, Placed
    <3>2. Cardinality(inWaiters) = IF t = Main /\ Waiting # {} THEN 1 ELSE 0
      <4>1. CASE t = Main /\ Waiting # {}
        <5>1. PICK s \in Waiting : TRUE
          BY <4>1
        <5>2. s \in Sema /\ waiters[s] = <<Main>> /\ \A r \in Sema : r # s => waiters[r] = <<>>
          BY <5>1 DEF Placed, Waiting
        <5>3. inWaiters = {<<s, 1>>}
          <6>1. <<s, 1>> \in inWaiters
            BY <4>1, <5>2
          <6>2. ASSUME NEW p \in inWaiters PROVE p = <<s, 1>>
            <7>1. p[1] \in Sema /\ p[2] \in 1 .. Runs + 1 /\ p = <<p[1], p[2]>> /\ p[2] \in DOMAIN waiters[p[1]]
              OBVIOUS
            <7>2. p[1] = s
              BY <5>2, <7>1
            <7>3. p[2] = 1
              BY <5>2, <7>1, <7>2
            <7> QED
              BY <7>1, <7>2, <7>3
          <6> QED
            BY <6>1, <6>2
        <5> QED
          BY <4>1, <5>3, FS_Singleton
      <4>2. CASE ~(t = Main /\ Waiting # {})
        <5>1. inWaiters = {}
          <6> SUFFICES ASSUME NEW p \in inWaiters PROVE FALSE
            OBVIOUS
          <6>1. p[1] \in Sema /\ p[2] \in DOMAIN waiters[p[1]] /\ waiters[p[1]][p[2]] = t
            OBVIOUS
          <6>2. waiters[p[1]] = <<Main>>
            BY <6>1 DEF Placed
          <6>3. t = Main /\ p[1] \in Waiting
            BY <6>1, <6>2 DEF Waiting
          <6> QED
            BY <4>2, <6>3
        <5> QED
          BY <4>2, <5>1, FS_EmptySet
      <4> QED
        BY <4>1, <4>2
    <3>3. Cardinality(isCurrent) = IF t = current THEN 1 ELSE 0
      <4>1. isCurrent = IF t = current THEN {t} ELSE {}
        OBVIOUS
      <4> QED
        BY <4>1, FS_Singleton, FS_EmptySet
    <3>4. Cardinality(inDisk) = IF t \in disk THEN 1 ELSE 0
      <4>1. inDisk = IF t \in disk THEN {t} ELSE {}
        OBVIOUS
      <4> QED
        BY <4>1, FS_Singleton, FS_EmptySet
    <3>5. Times(t) = Cardinality(inReady) + Cardinality(inWaiters) + Cardinality(isCurrent) + Cardinality(inDisk)
      BY DEF Times
    <3> HIDE DEF inReady, inWaiters, isCurrent, inDisk
    <3>6. Alive(t) <=> \/ t = current \/ t \in In(ready) \/ t \in disk
                       \/ t = Main /\ Waiting # {}
      BY DEF Placed
    <3>7. /\ ~(t = current /\ t \in In(ready)) /\ ~(t = current /\ t \in disk)
          /\ ~(t \in In(ready) /\ t \in disk)
          /\ t = Main /\ Waiting # {} => t # current /\ t \notin In(ready) /\ t \notin disk
      BY DEF Placed, Typed, Main, Child
    <3> QED
      BY <3>1, <3>2, <3>3, <3>4, <3>5, <3>6, <3>7 DEF Alive, Gone
  <2> QED
    BY <2>1, <2>2, <2>3 DEF TypeOK
<1> QED
  BY <1>1, Invariant, PTL

=============================================================================
