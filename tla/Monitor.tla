------------------------------- MODULE Monitor -------------------------------
(***************************************************************************)
(* Locks and condition variables of the Lab2 kernel (threads/lock.c,       *)
(* threads/condvar.c) as effects on the semaphores they are made of.       *)
(* The semaphore of lock l is the element l of Semas, the `waiter' that    *)
(* condvar_wait() keeps on the stack of thread t is the element t.         *)
(***************************************************************************)
EXTENDS Semaphore

CONSTANTS Sem,        \* semaphores used as such
          Lock,       \* locks
          TidLock,    \* tid_lock of thread.c
          Cond,       \* condition variables
          LockOf,     \* the single lock a condition variable is used with
          Nil,        \* the null pointer
          Garbage     \* what may lie where condvar_less_func() expects a priority

ASSUME MonitorAssumption ==
    /\ Semas = Sem \cup Lock \cup Thread
    /\ Sem \cap Lock = {} /\ Sem \cap Thread = {} /\ Lock \cap Thread = {}
    /\ TidLock \in Lock
    /\ LockOf \in [Cond -> Lock \ {TidLock}]
    /\ Nil \notin Semas \cup Cond
    /\ Cond \cap Semas = {}
    /\ Garbage \subseteq Int

VARIABLES holder,        \* struct lock.holder
          cond_waiters   \* struct condvar.waiters: owners of the waiters, front first

monitorVars == <<holder, cond_waiters>>

MonitorTypeOK ==
    /\ holder \in [Lock -> Thread \cup {Nil}]
    /\ cond_waiters \in [Cond -> Seq(Thread)]

-----------------------------------------------------------------------------
\* lock_acquire() after semaphore_down().
SetHolder(l) == holder' = [holder EXCEPT ![l] = current]

\* lock_release() before semaphore_up().
ClearHolder(l) == holder' = [holder EXCEPT ![l] = Nil]

\* condvar_wait() up to its call of lock_release(): a fresh semaphore of
\* value 0 goes to the back of the condition's list.
CondvarEnqueue(c) ==
    /\ SemaphoreInit(current, 0)
    /\ cond_waiters' = [cond_waiters EXCEPT ![c] = Append(@, current)]

\* condvar_less_func() compares the priorities of the threads asleep on two
\* waiters. A thread that has not reached its semaphore_down() is not on its
\* waiter's list: list_max() then returns the list's tail and the priority
\* is whatever lies in front of the semaphore on that thread's stack.
Asleep(t) == waiters[t] # << >>

WaiterKeys(c) ==
    {key \in [Members(cond_waiters[c]) -> Priority \cup Garbage] :
        \A t \in Members(cond_waiters[c]) : Asleep(t) => key[t] = priority[t]}

\* Faulty: the first waiter in order of arrival is taken.
CondvarTakeOldest(c, w) ==
    /\ cond_waiters[c] # << >>
    /\ w = Head(cond_waiters[c])
    /\ cond_waiters' = [cond_waiters EXCEPT ![c] = Tail(@)]

\* Faulty: the waiter stays on the list (list_front for list_pop_front).
CondvarTakeAndKeep(c, w) ==
    /\ cond_waiters[c] # << >>
    /\ w = Head(cond_waiters[c])
    /\ UNCHANGED cond_waiters

\* condvar_signal() up to its call of semaphore_up(): sort the waiters, take
\* the first. w is the thread whose waiter is taken.
CondvarTake(c, w) ==
    /\ cond_waiters[c] # << >>
    /\ \E key \in WaiterKeys(c) : \E q \in StableOrders(cond_waiters[c], key) :
           LET sorted == Arranged(cond_waiters[c], q) IN
           /\ w = Head(sorted)
           /\ cond_waiters' = [cond_waiters EXCEPT ![c] = Tail(sorted)]
=============================================================================
