--------------------------------- MODULE Process ---------------------------------
(* User processes of the Lab3 kernel (userprog/process.c): the initial thread *)
(* runs the programs of the command line one after the other, each in a       *)
(* thread of its own, and waits for it with two semaphores: the one that says *)
(* the program is loaded, and global_sema, which each process makes anew and  *)
(* which is raised by whoever exits.                                          *)
(*                                                                            *)
(* All threads have the same priority: the processor goes round, and a thread *)
(* loses it at a tick, between any two of its steps, or where it blocks.  A   *)
(* step is what runs with interrupts off, or one access to shared memory.     *)
EXTENDS Integers, FiniteSets, SequencesExt

CONSTANTS Runs      \* the programs of the command line, at most

ASSUME RunsAssumption == Runs \in Nat

Child == 1 .. Runs
Main == 0
Thread == {Main} \cup Child
Idle == -1
NULL == <<>>
\* The semaphore on which run k's load is awaited, and the one it makes.
Sema == {"load", "exit"} \X Child

VARIABLES
    runs,           \* the programs of this boot
    current, ready, disk,   \* who runs, the ready list, who waits for the disk
    pc,
    run,            \* the run Main is in
    success,        \* success[k]: load() found and read the program
    value, waiters, \* of each semaphore
    made,           \* the semaphores that semaphore_init() has made
    global_sema,
    arg,            \* arg[t]: the semaphore pointer t has read
    panic,          \* an ASSERT has failed
    early           \* history: Main read global_sema before its child had made it
threads == <<current, ready, disk>>
semas == <<value, waiters, made>>
vars == <<runs, threads, pc, run, success, semas, global_sema, arg, panic, early>>

-----------------------------------------------------------------------------
\* schedule(): the head of the ready list, or the idle thread.
Schedule(q) ==
    /\ current' = IF q = <<>> THEN Idle ELSE Head(q)
    /\ ready' = IF q = <<>> THEN q ELSE Tail(q)

At(t, l) == current = t /\ pc[t] = l /\ ~panic
Goto(t, l) == pc' = [pc EXCEPT ![t] = l]

\* semaphore_init() by t.
Made(s, n) ==
    /\ value' = [value EXCEPT ![s] = n]
    /\ waiters' = [waiters EXCEPT ![s] = <<>>]
    /\ made' = made \cup {s}

\* semaphore_down(): a thread that finds zero blocks, and looks again when it
\* is woken.
Down(t, s, l) ==
    \/ /\ value[s] > 0
       /\ value' = [value EXCEPT ![s] = @ - 1]
       /\ Goto(t, l)
       /\ UNCHANGED <<threads, waiters>>
    \/ /\ value[s] = 0
       /\ waiters' = [waiters EXCEPT ![s] = Append(@, t)]
       /\ Schedule(ready)
       /\ UNCHANGED <<pc, value, disk>>

\* Faulty: the waiter stays in the list.
UpKeeps(s) ==
    /\ ready' = IF waiters[s] = <<>> THEN ready ELSE Append(ready, Head(waiters[s]))
    /\ value' = [value EXCEPT ![s] = @ + 1]
    /\ UNCHANGED waiters
\* semaphore_up(): the first waiter is made ready; it runs no sooner than the
\* value is raised, since no priority is above another.
Up(s) ==
    /\ ready' = IF waiters[s] = <<>> THEN ready ELSE Append(ready, Head(waiters[s]))
    /\ waiters' = [waiters EXCEPT ![s] = IF @ = <<>> THEN @ ELSE Tail(@)]
    /\ value' = [value EXCEPT ![s] = @ + 1]

-----------------------------------------------------------------------------
\* The initial thread.

\* Faulty: the semaphore starts at one.
ExecuteRaised ==
    /\ At(Main, "execute")
    /\ Made(<<"load", run + 1>>, 1)
    /\ run' = run + 1
    /\ ready' = Append(ready, run + 1)
    /\ Goto(Main, "loading")
    /\ UNCHANGED <<runs, current, disk, success, global_sema, arg, panic, early>>
\* run_task() for the next program: process_execute() makes the semaphore and
\* the thread ...
Execute ==
    /\ At(Main, "execute") /\ run < runs
    /\ Made(<<"load", run + 1>>, 0)
    /\ run' = run + 1
    /\ ready' = Append(ready, run + 1)
    /\ Goto(Main, "loading")
    /\ UNCHANGED <<runs, current, disk, success, global_sema, arg, panic, early>>

\* ... and waits for the load.
ExecuteDown ==
    /\ At(Main, "loading")
    /\ Down(Main, <<"load", run>>, "wait")
    /\ UNCHANGED <<runs, run, success, made, global_sema, arg, panic, early>>

\* process_wait() reads the pointer ...
Wait ==
    /\ At(Main, "wait")
    /\ arg' = [arg EXCEPT ![Main] = global_sema]
    /\ early' = (early \/ global_sema # <<"exit", run>> \/ global_sema \notin made)
    /\ Goto(Main, "waiting")
    /\ UNCHANGED <<runs, threads, run, success, semas, global_sema, panic>>

\* ... and waits on what it points to: nothing yet, a semaphore that malloc()
\* has given and nothing has set, or one that is made.  What nothing has set may
\* fail, let it pass, or take it into a list that semaphore_init() makes empty.
WaitDown ==
    /\ At(Main, "waiting")
    /\ \/ /\ arg[Main] \in made
          /\ Down(Main, arg[Main], "execute")
          /\ UNCHANGED <<made, panic>>
       \/ /\ arg[Main] \notin made
          /\ panic' = TRUE
          /\ UNCHANGED <<threads, pc, semas>>
       \/ /\ arg[Main] \notin made /\ arg[Main] # NULL
          /\ Goto(Main, "execute")
          /\ UNCHANGED <<threads, semas, panic>>
       \/ /\ arg[Main] \notin made /\ arg[Main] # NULL
          /\ Goto(Main, "asleep")
          /\ Schedule(ready)
          /\ UNCHANGED <<disk, semas, panic>>
    /\ UNCHANGED <<runs, run, success, global_sema, arg, early>>

\* The end of main(): shutdown() returns, and thread_exit().
Shutdown ==
    /\ At(Main, "execute") /\ run = runs
    /\ Goto(Main, "exit")
    /\ UNCHANGED <<runs, threads, run, success, semas, global_sema, arg, panic, early>>

-----------------------------------------------------------------------------
\* start_process().

\* load() waits for the disk.
LoadBlocks(k) ==
    /\ At(k, "load")
    /\ disk' = disk \cup {k}
    /\ Schedule(ready)
    /\ UNCHANGED <<runs, pc, run, success, semas, global_sema, arg, panic, early>>

\* The disk's interrupt, or the timer's for a wait that sleeps.
DiskDone(k) ==
    /\ k \in disk /\ ~panic
    /\ disk' = disk \ {k}
    /\ ready' = Append(ready, k)
    /\ UNCHANGED <<runs, current, pc, run, success, semas, global_sema, arg, panic, early>>

Load(k) ==
    /\ At(k, "load")
    /\ success' \in {success, [success EXCEPT ![k] = TRUE]}
    /\ Goto(k, "loaded")
    /\ UNCHANGED <<runs, threads, run, semas, global_sema, arg, panic, early>>

\* The parent may go on ...
LoadUp(k) ==
    /\ At(k, "loaded")
    /\ Up(<<"load", k>>)
    /\ Goto(k, "malloc")
    /\ UNCHANGED <<runs, current, disk, run, success, made, global_sema, arg, panic, early>>

\* ... before it has the semaphore to wait on ...
Malloc(k) ==
    /\ At(k, "malloc")
    /\ global_sema' = <<"exit", k>>
    /\ Goto(k, "init")
    /\ UNCHANGED <<runs, threads, run, success, semas, arg, panic, early>>

\* Faulty: the semaphore is raised from the start.
InitExitRaised(k) ==
    /\ At(k, "init")
    /\ Made(global_sema, 1)
    /\ pc' = [t \in Thread |-> IF t = k THEN IF success[k] THEN "user" ELSE "exit"
                               ELSE IF t \in Range(waiters[global_sema]) THEN "asleep"
                               ELSE pc[t]]
    /\ UNCHANGED <<runs, threads, run, success, global_sema, arg, panic, early>>
\* ... with the value it has then.  The pointer is read again: after an early
\* wait it may be another program's, and who sleeps there does so for ever.
InitExit(k) ==
    /\ At(k, "init")
    /\ Made(global_sema, 0)
    /\ pc' = [t \in Thread |-> IF t = k THEN IF success[k] THEN "user" ELSE "exit"
                               ELSE IF t \in Range(waiters[global_sema]) THEN "asleep"
                               ELSE pc[t]]
    /\ UNCHANGED <<runs, threads, run, success, global_sema, arg, panic, early>>

\* The program ends: exit(), or an exception.
User(k) ==
    /\ At(k, "user")
    /\ Goto(k, "exit")
    /\ UNCHANGED <<runs, threads, run, success, semas, global_sema, arg, panic, early>>

-----------------------------------------------------------------------------
\* thread_exit(), of any thread: process_exit() reads the pointer ...
Exit(t) ==
    /\ At(t, "exit")
    /\ arg' = [arg EXCEPT ![t] = global_sema]
    /\ Goto(t, "exiting")
    /\ UNCHANGED <<runs, threads, run, success, semas, global_sema, panic, early>>

\* Faulty: only the exit of a program that was loaded raises it.
ExitUpLoaded(t) ==
    /\ At(t, "exiting") /\ arg[t] \in made
    /\ \/ /\ (t \in Child => success[t])
          /\ Up(arg[t])
       \/ /\ t \in Child /\ ~success[t]
          /\ UNCHANGED <<ready, value, waiters>>
    /\ Goto(t, "die")
    /\ UNCHANGED <<runs, current, disk, made, panic, run, success, global_sema, arg, early>>
\* ... and raises what it points to, which may fail if nothing has set it ...
ExitUp(t) ==
    /\ At(t, "exiting")
    /\ \/ /\ arg[t] \in made
          /\ Up(arg[t])
          /\ Goto(t, "die")
          /\ UNCHANGED <<current, disk, made, panic>>
       \/ /\ arg[t] \notin made
          /\ panic' = TRUE
          /\ UNCHANGED <<threads, pc, semas>>
       \/ /\ arg[t] \notin made /\ arg[t] # NULL
          /\ Goto(t, "die")
          /\ UNCHANGED <<threads, semas, panic>>
    /\ UNCHANGED <<runs, run, success, global_sema, arg, early>>

\* ... and the thread is gone.
Die(t) ==
    /\ At(t, "die")
    /\ Schedule(ready)
    /\ Goto(t, "dead")
    /\ UNCHANGED <<runs, disk, run, success, semas, global_sema, arg, panic, early>>

\* The tick that ends the time slice.
Tick ==
    /\ current # Idle /\ ready # <<>> /\ ~panic
    /\ current' = Head(ready)
    /\ ready' = Append(Tail(ready), current)
    /\ UNCHANGED <<runs, disk, pc, run, success, semas, global_sema, arg, panic, early>>

\* The idle thread gives way.
IdleBlocks ==
    /\ current = Idle /\ ready # <<>> /\ ~panic
    /\ Schedule(ready)
    /\ UNCHANGED <<runs, disk, pc, run, success, semas, global_sema, arg, panic, early>>

-----------------------------------------------------------------------------
Init ==
    /\ runs \in 0 .. Runs
    /\ current = Main /\ ready = <<>> /\ disk = {}
    /\ pc = [t \in Thread |-> IF t = Main THEN "execute" ELSE "load"]
    /\ run = 0
    /\ success = [k \in Child |-> FALSE]
    /\ value = [s \in Sema |-> 0]
    /\ waiters = [s \in Sema |-> <<>>]
    /\ made = {}
    /\ global_sema = NULL
    /\ arg = [t \in Thread |-> NULL]
    /\ panic = FALSE /\ early = FALSE

MainStep == Execute \/ ExecuteDown \/ Wait \/ WaitDown \/ Shutdown
ChildStep(k) == Load(k) \/ LoadUp(k) \/ Malloc(k) \/ InitExit(k) \/ User(k)
ExitStep(t) == Exit(t) \/ ExitUp(t) \/ Die(t)

Next ==
    \/ MainStep
    \/ \E k \in Child : LoadBlocks(k) \/ DiskDone(k) \/ ChildStep(k)
    \/ \E t \in Thread : ExitStep(t)
    \/ Tick \/ IdleBlocks

Spec == Init /\ [][Next]_vars
\* The timer ticks and the disk answers; a thread that has the processor again
\* and again takes its next step, a load ends and a program too.
FairSpec ==
    /\ Spec
    /\ WF_vars(Tick) /\ WF_vars(IdleBlocks)
    /\ SF_vars(MainStep)
    /\ \A k \in Child : WF_vars(DiskDone(k)) /\ SF_vars(ChildStep(k))
    /\ \A t \in Thread : SF_vars(ExitStep(t))

-----------------------------------------------------------------------------
\* Where thread t is, as a multiset: who has started and is neither dead nor
\* asleep for ever is in one of the places a thread can be in.
Started(t) == t = Main \/ t <= run
Times(t) ==
    Cardinality({i \in DOMAIN ready : ready[i] = t})
    + Cardinality({p \in Sema \X (1 .. Runs + 1) :
                      p[2] \in DOMAIN waiters[p[1]] /\ waiters[p[1]][p[2]] = t})
    + Cardinality({x \in {current} : x = t}) + Cardinality({x \in disk : x = t})

\* Types; a thread that runs, is ready or waits is in one of these places only.
TypeOK ==
    /\ run \in 0 .. runs
    /\ current \in Thread \cup {Idle}
    /\ global_sema \in Sema \cup {NULL}
    /\ \A s \in Sema : value[s] \in 0 .. Runs + 1
    /\ \A t \in Thread : Times(t) = IF Started(t) /\ pc[t] \notin {"dead", "asleep"} THEN 1 ELSE 0

\* process_execute() returns when the program is loaded, or could not be.
LoadedFirst ==
    pc[Main] \in {"wait", "waiting"} => pc[run] \notin {"load", "loaded"}

\* process_wait() returns when the program has ended, and no two programs run at
\* a time: "Run PROG and wait for it to complete" (init.c:368), unless the parent
\* was early.  start_process() lets it go on (process.c:247) before it has made
\* the semaphore to wait on (:250), so that it may find the program before's.
WaitsForExit ==
    pc[Main] = "execute" /\ ~early => \A k \in 1 .. run : pc[k] \in {"die", "dead"}

\* Every boot comes to its end, unless process_wait() was early; the kernel
\* stops on no ASSERT about semaphores before, unless no program was run.
BootEnds == <>(early \/ pc[Main] = "dead" \/ (panic /\ runs = 0))

=============================================================================
