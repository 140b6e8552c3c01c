------------------------------- MODULE Threads -------------------------------
(***************************************************************************)
(* The thread system of the Lab2 kernel (threads/thread.c): one processor, *)
(* a ready list kept in priority order, and the step every switch takes.   *)
(*                                                                         *)
(* A thread is its page: it is FREE until thread_create() takes it and     *)
(* again once thread_schedule_tail() has freed the page of an exited one.  *)
(* The operators below are effects: they constrain the primed variables of *)
(* this module and leave the program counters to module Kernel.            *)
(***************************************************************************)
EXTENDS PriorityList, FiniteSets

CONSTANTS Thread,      \* all threads the machine has pages for
          Main,        \* initial_thread, never freed
          Idle,        \* idle_thread, never on the ready list
          PriMin, PriMax, PriDefault,
          TimeSlice    \* TIME_SLICE: ticks a thread runs before it must yield

ASSUME ThreadAssumption ==
    /\ IsFiniteSet(Thread)
    /\ Main \in Thread
    /\ Idle \in Thread
    /\ Main # Idle

ASSUME PriorityAssumption ==
    /\ PriMin \in Int
    /\ PriMax \in Int
    /\ PriDefault \in PriMin .. PriMax
    /\ TimeSlice \in Nat \ {0}

Priority == PriMin .. PriMax

\* enum thread_status, and FREE for a page no thread occupies.
Status == {"FREE", "RUNNING", "READY", "BLOCKED", "DYING"}

VARIABLES status,        \* struct thread.status
          priority,      \* struct thread.priority
          ready_list,    \* threads ready to run, front first
          current,       \* the thread whose stack the processor is on
          thread_ticks   \* timer ticks since the last switch

threadVars == <<status, priority, ready_list, current, thread_ticks>>

ThreadTypeOK ==
    /\ status \in [Thread -> Status]
    /\ priority \in [Thread -> Priority]
    /\ ready_list \in Seq(Thread)
    /\ current \in Thread
    /\ thread_ticks \in 0 .. TimeSlice - 1

-----------------------------------------------------------------------------
\* next_thread_to_run(): the front of the ready list, or the idle thread.
NextThreadToRun(ready) == IF ready = << >> THEN Idle ELSE Head(ready)

\* schedule() and thread_schedule_tail(): take the next thread off the ready
\* list, mark it running and start its time slice. `st' and `ready' are the
\* statuses and the ready list the caller leaves behind.
Schedule(st, ready) ==
    LET next == NextThreadToRun(ready) IN
    /\ current' = next
    /\ status' = [st EXCEPT ![next] = "RUNNING"]
    /\ ready_list' = AfterPop(ready)
    /\ thread_ticks' = 0

\* thread_block().
ThreadBlock == Schedule([status EXCEPT ![current] = "BLOCKED"], ready_list)

\* thread_yield(), from statuses `st' and ready list `ready': the running
\* thread goes back to the ready list unless it is the idle thread.
YieldFrom(st, ready) ==
    Schedule([st EXCEPT ![current] = "READY"],
             IF current = Idle THEN ready ELSE InsertOrdered(ready, current, priority))

ThreadYield == YieldFrom(status, ready_list)

\* thread_unblock(t): t becomes ready and the running thread is not preempted.
ThreadUnblock(t) ==
    /\ status' = [status EXCEPT ![t] = "READY"]
    /\ ready_list' = InsertOrdered(ready_list, t, priority)
    /\ UNCHANGED <<priority, current, thread_ticks>>

\* thread_exit(): the next thread frees the page of the dying one, except
\* that of the initial thread.
ThreadExit ==
    Schedule([status EXCEPT ![current] = IF current = Main THEN "DYING" ELSE "FREE"],
             ready_list)

\* init_thread(): a free page becomes a blocked thread.
InitThread(t, p) ==
    /\ status[t] = "FREE"
    /\ status' = [status EXCEPT ![t] = "BLOCKED"]
    /\ priority' = [priority EXCEPT ![t] = p]

\* Faulty: the slice ends one tick late.
ThreadTickLate ==
    \/ thread_ticks + 1 > TimeSlice /\ ThreadYield /\ UNCHANGED priority
    \/ /\ thread_ticks + 1 <= TimeSlice
       /\ thread_ticks' = thread_ticks + 1
       /\ UNCHANGED <<status, priority, ready_list, current>>

\* thread_tick(): count the tick and, at the end of the slice, yield on the
\* way out of the interrupt.
ThreadTick ==
    \/ /\ thread_ticks + 1 >= TimeSlice
       /\ ThreadYield
       /\ UNCHANGED priority
    \/ /\ thread_ticks + 1 < TimeSlice
       /\ thread_ticks' = thread_ticks + 1
       /\ UNCHANGED <<status, priority, ready_list, current>>

\* After thread_start(): the initial thread runs, the idle thread has given
\* up the processor inside its only semaphore_up() without going on the list.
ThreadInit ==
    /\ status = [t \in Thread |-> IF t = Main THEN "RUNNING"
                                  ELSE IF t = Idle THEN "READY" ELSE "FREE"]
    /\ priority = [t \in Thread |-> IF t = Main THEN PriDefault ELSE PriMin]
    /\ ready_list = << >>
    /\ current = Main
    /\ thread_ticks = 0

-----------------------------------------------------------------------------
\* struct thread's single `elem' links a thread into the ready list exactly
\* when it is ready; the idle thread never appears there.
ReadyListOK ==
    /\ Linear(ready_list)
    /\ Members(ready_list) = {t \in Thread \ {Idle} : status[t] = "READY"}
    /\ {t \in Thread : status[t] = "RUNNING"} = {current}
=============================================================================
