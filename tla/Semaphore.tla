------------------------------ MODULE Semaphore ------------------------------
(***************************************************************************)
(* Counting semaphores of the Lab2 kernel (threads/semaphore.c). Every     *)
(* operation runs with interrupts off, so each effect below is one step.   *)
(* Waiting threads are kept in priority order; semaphore_up() moves the    *)
(* first one to the ready list before it increments, and then yields.      *)
(***************************************************************************)
EXTENDS Threads

CONSTANT Semas   \* every semaphore of the kernel

VARIABLES value,    \* struct semaphore.value
          waiters   \* struct semaphore.waiters, front first

semaVars == <<value, waiters>>

SemaTypeOK ==
    /\ value \in [Semas -> Nat]
    /\ waiters \in [Semas -> Seq(Thread)]

-----------------------------------------------------------------------------
\* Faulty: threads wait in order of arrival.
SemaphoreSleepAtBack(s) ==
    /\ value[s] = 0
    /\ waiters' = [waiters EXCEPT ![s] = Append(@, current)]
    /\ ThreadBlock
    /\ UNCHANGED <<value, priority>>

\* semaphore_down(): the loop body when the value is zero. The thread sleeps
\* and evaluates the loop condition again when it is next scheduled.
SemaphoreSleep(s) ==
    /\ value[s] = 0
    /\ waiters' = [waiters EXCEPT ![s] = InsertOrdered(@, current, priority)]
    /\ ThreadBlock
    /\ UNCHANGED <<value, priority>>

\* semaphore_down() leaving its loop, and semaphore_try_down() succeeding.
SemaphoreTake(s) ==
    /\ value[s] > 0
    /\ value' = [value EXCEPT ![s] = @ - 1]
    /\ UNCHANGED <<waiters, threadVars>>

\* The thread semaphore_up() unblocks, as the statuses and the ready list it
\* leaves behind.
StatusAfterWake(s) ==
    IF waiters[s] = << >> THEN status ELSE [status EXCEPT ![Head(waiters[s])] = "READY"]

ReadyAfterWake(s) ==
    IF waiters[s] = << >> THEN ready_list
    ELSE InsertOrdered(ready_list, Head(waiters[s]), priority)

\* Faulty: a thread is woken only when the value rises from zero.
SemaphoreWakeAtZero(s) ==
    /\ waiters' = [waiters EXCEPT ![s] = IF value[s] = 0 THEN AfterPop(@) ELSE @]
    /\ value' = [value EXCEPT ![s] = @ + 1]

\* Faulty: the woken thread stays on the list (list_front for list_pop_front).
SemaphoreWakeAndKeep(s) ==
    /\ value' = [value EXCEPT ![s] = @ + 1]
    /\ UNCHANGED waiters

\* semaphore_up() up to its call of thread_yield().
SemaphoreWake(s) ==
    /\ waiters' = [waiters EXCEPT ![s] = AfterPop(@)]
    /\ value' = [value EXCEPT ![s] = @ + 1]

\* Faulty: no yield after waking a thread that may be of higher priority.
SemaphoreUpNoYield(s) ==
    /\ SemaphoreWake(s)
    /\ status' = StatusAfterWake(s)
    /\ ready_list' = ReadyAfterWake(s)
    /\ UNCHANGED <<priority, current, thread_ticks>>

\* semaphore_up().
SemaphoreUp(s) ==
    /\ SemaphoreWake(s)
    /\ YieldFrom(StatusAfterWake(s), ReadyAfterWake(s))
    /\ UNCHANGED priority

\* semaphore_init(s, v).
SemaphoreInit(s, v) ==
    /\ value' = [value EXCEPT ![s] = v]
    /\ waiters' = [waiters EXCEPT ![s] = << >>]
=============================================================================
