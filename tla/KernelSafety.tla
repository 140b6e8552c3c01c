---------------------------- MODULE KernelSafety ----------------------------
(***************************************************************************)
(* What the Lab2 kernel promises its threads.                              *)
(***************************************************************************)
EXTENDS Kernel

\* struct thread has one `elem' (threads/thread.h): a thread is on the ready
\* list exactly when it is ready, and on the waiters list of a semaphore
\* exactly when it is blocked inside semaphore_down() on it, never twice.
ElemInOneList ==
    /\ ReadyListOK
    /\ \A s \in Semas :
        /\ Linear(waiters[s])
        /\ Members(waiters[s]) =
               {t \in Thread : status[t] = "BLOCKED" /\ pc[t] = "down" /\ target[t] = s}

\* list_insert_ordered() needs lists that are sorted already: no priority may
\* change while its thread is on a list.
QueuesSorted ==
    /\ Sorted(ready_list, priority)
    /\ \A s \in Semas : Sorted(waiters[s], priority)

\* Between list_empty() and thread_yield() of thread_create() and
\* thread_set_priority() a thread that should run may still be waiting.
Deciding == pc[self] \in {"check", "front"}

\* Everywhere else the running thread has a priority no ready thread exceeds.
HighestRuns ==
    panic = "none" /\ ~Deciding =>
        \A i \in 1 .. Len(ready_list) : priority[ready_list[i]] <= priority[self]

\* Thread t has taken the semaphore of lock l and not become its recorded
\* holder yet, or is the holder no longer and has still to raise it.
Between(t, l) == pc[t] \in {"taken", "up"} /\ target[t] = l

\* Threads between the semaphore_down() and the semaphore_up() of lock l.
Owners(l) == {t \in Thread : Holds(t, l) \/ Between(t, l)}

\* A lock is free and unowned, or taken and owned by one thread: lock_acquire()
\* and lock_release() write the holder outside the atomic semaphore operations.
MutualExclusion ==
    \A l \in Lock :
        /\ \A t, u \in Owners(l) : t = u
        /\ value[l] = IF Owners(l) = {} THEN 1 ELSE 0

\* Threads a semaphore_up(s) has made ready that have not yet evaluated the
\* loop condition of semaphore_down() again.
Woken(s) == {t \in Thread : status[t] # "BLOCKED" /\ pc[t] = "down" /\ target[t] = s}

\* No lost wakeup: while threads sleep on s, each unit of its value is matched
\* by a thread on its way to take it, although another may take it first.
NoLostWakeup ==
    \A s \in Semas : waiters[s] # << >> => value[s] <= Cardinality(Woken(s))

\* A thread inside condvar_wait() whose signal it has not consumed.
AwaitsSignal(t) ==
    /\ task[t] = "wait"
    /\ \/ pc[t] = "up"
       \/ pc[t] \in {"enter", "down"} /\ target[t] = t

\* No lost signal: such a thread is on the condition's list, or one signaller
\* has taken its waiter and is about to raise it, or the waiter was raised.
NoLostSignal ==
    /\ \A t \in Thread : AwaitsSignal(t) =>
        LET queued    == t \in Members(cond_waiters[arg[t]])
            signaller == {u \in Thread : pc[u] = "up" /\ target[u] = t}
        IN  Cardinality(signaller) + value[t] + (IF queued THEN 1 ELSE 0) = 1
    /\ \A c \in Cond :
        /\ Linear(cond_waiters[c])
        /\ \A t \in Members(cond_waiters[c]) : AwaitsSignal(t) /\ arg[t] = c

\* thread_create() unblocks the thread it made, once: until then it is blocked
\* on no list and its creator is the only one to refer to it.
ChildUntouched ==
    \A t \in Thread : task[t] = "create" =>
        /\ status[arg[t]] = "BLOCKED"
        /\ pc[arg[t]] = "run"
        /\ \A u \in Thread : task[u] = "create" /\ arg[u] = arg[t] => u = t

\* Which calls thread t can be inside of at each of its points: the parts of
\* its call state that the steps of a call rely on.
ThreadCallOK(t) ==
    /\ target[t] # Nil <=> pc[t] \in {"enter", "down", "taken", "tid", "up"}
    /\ pc[t] \in {"taken", "tid"} => target[t] \in Lock
    /\ pc[t] \in {"enter", "down"} /\ target[t] \in Thread => task[t] = "wait"
    /\ pc[t] \in {"run", "check", "front"} => task[t] = "none"
    /\ pc[t] = "tid" => task[t] = "create"
    /\ pc[t] \in {"enter", "down", "taken"} /\ target[t] = TidLock => task[t] = "create"
    /\ task[t] = "none" => pc[t] \in Point \ {"tid", "unblock", "signals"}
    /\ task[t] = "wait" =>
           /\ arg[t] \in Cond
           /\ pc[t] \in {"up", "enter", "down", "taken"}
           /\ target[t] \in {t, LockOf[arg[t]]}
           /\ pc[t] \in {"up", "taken"} => target[t] = LockOf[arg[t]]
    /\ task[t] = "create" =>
           /\ arg[t] \in Thread \ {Idle}
           /\ pc[t] \in {"enter", "down", "taken", "tid", "up", "unblock"}
           /\ pc[t] # "unblock" => target[t] = TidLock
    /\ task[t] = "broadcast" =>
           /\ arg[t] \in Cond
           /\ pc[t] \in {"up", "signals"}
           /\ pc[t] = "up" => target[t] \in Thread
    /\ status[t] = "FREE" \/ t = Idle => pc[t] = "run"

\* So it is for every thread, and a thread that runs has not been freed.
CallOK ==
    /\ \A t \in Thread : ThreadCallOK(t)
    /\ status[current] # "FREE"

\* What surrounds the critical sections: a thread on its way into or out of a
\* lock is not its recorded holder, and tid_lock is held to number a thread.
HolderOK ==
    \A t \in Thread :
        /\ \A l \in Lock : Between(t, l) => ~Holds(t, l)
        /\ pc[t] = "tid" <=> Holds(t, TidLock)

\* While it decides whether to yield, the running thread is either still the
\* highest or will find a thread at the front that makes it yield.
DecisionOK ==
    panic = "none" /\ Deciding =>
        \/ \A i \in 1 .. Len(ready_list) : priority[ready_list[i]] <= priority[self]
        \/ ready_list # << >> /\ priority[Head(ready_list)] >= pri_arg[self]

-----------------------------------------------------------------------------
\* The kernel implements MonitorSpec: a lock is owned from the decrement of its
\* semaphore to the increment, and a thread waits from the increment that gives
\* the lock up until a signaller takes its waiter off the condition's list.
OwnerOf == [l \in Lock |-> IF Owners(l) = {} THEN Nil ELSE CHOOSE t \in Owners(l) : TRUE]

WaitingAt == [c \in Cond |-> {t \in Members(cond_waiters[c]) : pc[t] # "up"}]

NotifiedOf ==
    [c \in Cond |-> {t \in Thread : /\ task[t] = "wait" /\ arg[t] = c
                                    /\ pc[t] \in {"enter", "down"}
                                    /\ t \notin Members(cond_waiters[c])}]

Abstract == INSTANCE MonitorSpec
    WITH owner <- OwnerOf, waiting <- WaitingAt, notified <- NotifiedOf

MonitorRefined == Abstract!Spec

-----------------------------------------------------------------------------
\* semaphore_up() wakes a waiter of the highest priority.
WakesHighest ==
    [][\A s \in Semas : \A t \in Members(waiters[s]) \ Members(waiters'[s]) :
           \A u \in Members(waiters'[s]) : priority[t] >= priority[u]]_vars

\* condvar_signal() takes a waiter of the highest priority (the comment of
\* tests/threads/priority-condvar.c), if every waiter has gone to sleep on its
\* semaphore; between lock_release() and that, condvar_less_func() finds none.
SignalsHighestAsleep ==
    [][\A c \in Cond : \A t \in Members(cond_waiters[c]) \ Members(cond_waiters'[c]) :
           (\A u \in Members(cond_waiters[c]) : Asleep(u)) =>
               \A u \in Members(cond_waiters'[c]) : priority[t] >= priority[u]]_vars

-----------------------------------------------------------------------------
\* No ready thread, nor the running one, has a higher priority than t.
Top(t) ==
    /\ status[t] = "READY" /\ t # Idle
    /\ \A u \in Members(ready_list) \cup {current} : priority[u] <= priority[t]

\* A ready thread of the highest priority gets the processor, however many of
\* its own priority there are: equals take turns of a time slice.
RoundRobin ==
    \A t \in Thread : Top(t) ~> (current = t \/ ~Top(t) \/ panic # "none")
=============================================================================
