------------------------------- MODULE Kernel -------------------------------
(***************************************************************************)
(* The Lab2 kernel: threads that call the scheduler, semaphores, locks and *)
(* condition variables on one processor, preempted by the timer wherever   *)
(* interrupts are on.                                                      *)
(*                                                                         *)
(* A step is a stretch of code between two points at which the timer can   *)
(* interrupt with a visible difference. pc names the point a thread has    *)
(* reached:                                                                *)
(*   run      in code of its own, in no call                               *)
(*   enter    about to call semaphore_down(target)                         *)
(*   down     inside the loop of semaphore_down(target), interrupts off    *)
(*   taken    in lock_acquire(target), past semaphore_down                 *)
(*   tid      in allocate_tid(), holding tid_lock                          *)
(*   up       about to call semaphore_up(target)                           *)
(*   unblock  in thread_create(), about to unblock the new thread          *)
(*   check    in thread_create() or thread_set_priority(), before          *)
(*            list_empty(&ready_list)                                      *)
(*   front    there, before list_front(&ready_list)                        *)
(*   signals  at the loop condition of condvar_broadcast()                 *)
(* task is the outer call, if any, and arg its argument.                   *)
(*                                                                         *)
(* Clients keep the contracts the code asserts or documents: they release  *)
(* and wait with locks they hold, acquire locks they do not, use one lock  *)
(* per condition, and exit holding none.                                   *)
(***************************************************************************)
EXTENDS Monitor

CONSTANTS MaxValue,   \* bound: clients do not raise a semaphore beyond this
          IrqSem      \* semaphores that only an interrupt handler raises

ASSUME KernelAssumption == IrqSem \subseteq Sem /\ MaxValue \in Nat

VARIABLES pc, target, task, arg,
          pri_arg,   \* the priority a pending call compares the ready list with
          panic      \* the assertion that stopped the kernel, or "none"

callVars == <<pc, target, task, arg, pri_arg>>
vars == <<threadVars, semaVars, monitorVars, callVars, panic>>

Point == {"run", "enter", "down", "taken", "tid", "up", "unblock", "check",
          "front", "signals"}
Task == {"none", "wait", "create", "broadcast"}

CallTypeOK ==
    /\ pc \in [Thread -> Point]
    /\ target \in [Thread -> Semas \cup {Nil}]
    /\ task \in [Thread -> Task]
    /\ arg \in [Thread -> Thread \cup Cond \cup {Nil}]
    /\ pri_arg \in [Thread -> Priority]

Panic == {"none", "list_front", "intr_context"}

TypeOK ==
    /\ ThreadTypeOK
    /\ SemaTypeOK
    /\ MonitorTypeOK
    /\ CallTypeOK
    /\ panic \in Panic

self == current
At(p) == panic = "none" /\ pc[self] = p
AtUser == At("run") /\ self # Idle
Holds(t, l) == holder[l] = t

\* The running thread moves to point p with semaphore s at hand.
Goto(p, s) ==
    /\ pc' = [pc EXCEPT ![self] = p]
    /\ target' = [target EXCEPT ![self] = s]

\* The running thread leaves the outer call it was in, or enters one.
SetTask(k, a) ==
    /\ task' = [task EXCEPT ![self] = k]
    /\ arg' = [arg EXCEPT ![self] = a]

SameTask == UNCHANGED <<task, arg>>

Init ==
    /\ ThreadInit
    /\ value \in [Semas -> {0, 1}]
    /\ \A l \in Lock : value[l] = 1
    /\ \A s \in Thread \cup IrqSem : value[s] = 0
    /\ waiters = [s \in Semas |-> << >>]
    /\ holder = [l \in Lock |-> Nil]
    /\ cond_waiters = [c \in Cond |-> << >>]
    /\ pc = [t \in Thread |-> "run"]
    /\ target = [t \in Thread |-> Nil]
    /\ task = [t \in Thread |-> "none"]
    /\ arg = [t \in Thread |-> Nil]
    /\ pri_arg = [t \in Thread |-> PriMin]
    /\ panic = "none"

-----------------------------------------------------------------------------
(* semaphore_down(). What follows it depends on what the semaphore is.     *)

AfterDown(s) ==
    \/ s \in Sem /\ Goto("run", Nil)
    \/ s \in Lock /\ Goto("taken", s)
    \/ s \in Thread /\ Goto("enter", LockOf[arg[self]])

\* One evaluation of the loop condition of semaphore_down(s), up to the next
\* thread switch or the return.
Down(s) ==
    \/ SemaphoreTake(s) /\ AfterDown(s)
    \/ SemaphoreSleep(s) /\ Goto("down", s)

\* semaphore_down() called by a client.
SemaphoreDown(s) ==
    /\ AtUser
    /\ Down(s)
    /\ UNCHANGED <<monitorVars, task, arg, pri_arg, panic>>

\* semaphore_down() called by lock_acquire() or condvar_wait().
EnterDown ==
    /\ At("enter")
    /\ Down(target[self])
    /\ UNCHANGED <<monitorVars, task, arg, pri_arg, panic>>

\* Faulty: the loop of semaphore_down() is a plain test, so that a woken
\* thread takes a unit without looking.
ResumeDownUnchecked ==
    /\ At("down")
    /\ value' = [value EXCEPT ![target[self]] = @ - 1]
    /\ AfterDown(target[self])
    /\ UNCHANGED <<waiters, threadVars, monitorVars, task, arg, pri_arg, panic>>

\* A thread scheduled again inside the loop, interrupts still off.
ResumeDown ==
    /\ At("down")
    /\ Down(target[self])
    /\ UNCHANGED <<monitorVars, task, arg, pri_arg, panic>>

\* semaphore_try_down() called by a client, the successful case: the other
\* one changes nothing.
SemaphoreTryDown(s) ==
    /\ AtUser
    /\ SemaphoreTake(s)
    /\ UNCHANGED <<monitorVars, callVars, panic>>

-----------------------------------------------------------------------------
(* semaphore_up().                                                         *)

\* semaphore_up() called by a client.
SemaphoreRaise(s) ==
    /\ AtUser
    /\ s \notin IrqSem
    /\ value[s] < MaxValue
    /\ SemaphoreUp(s)
    /\ UNCHANGED <<monitorVars, callVars, panic>>

\* semaphore_up() called by lock_release() or condvar_signal(), and the
\* point its caller goes on from.
InnerUp ==
    /\ At("up")
    /\ SemaphoreUp(target[self])
    /\ \/ task[self] = "none" /\ Goto("run", Nil)
       \/ task[self] = "wait" /\ Goto("enter", self)
       \/ task[self] = "create" /\ Goto("unblock", Nil)
       \/ task[self] = "broadcast" /\ Goto("signals", Nil)
    /\ UNCHANGED <<monitorVars, task, arg, pri_arg, panic>>

\* semaphore_up() called by a device's interrupt handler, which raises the
\* semaphore a request's thread sleeps on: the thread_yield() at its end
\* asserts that it is not in an interrupt.
InterruptUp(s) ==
    /\ panic = "none"
    /\ pc[self] # "down"
    /\ s \in IrqSem
    /\ waiters[s] # << >>
    /\ SemaphoreWake(s)
    /\ status' = StatusAfterWake(s)
    /\ ready_list' = ReadyAfterWake(s)
    /\ panic' = "intr_context"
    /\ UNCHANGED <<priority, current, thread_ticks, monitorVars, callVars>>

-----------------------------------------------------------------------------
(* Locks.                                                                  *)

\* lock_acquire() up to the first switch or the return of semaphore_down().
LockAcquire(l) ==
    /\ AtUser
    /\ ~Holds(self, l)
    /\ Down(l)
    /\ UNCHANGED <<monitorVars, task, arg, pri_arg, panic>>

\* lock_acquire() records the holder; its caller goes on.
LockTaken ==
    /\ At("taken")
    /\ SetHolder(target[self])
    /\ \/ task[self] = "create" /\ Goto("tid", target[self]) /\ SameTask
       \/ task[self] # "create" /\ Goto("run", Nil) /\ SetTask("none", Nil)
    /\ UNCHANGED <<threadVars, semaVars, cond_waiters, pri_arg, panic>>

\* lock_try_acquire() when the lock is free; the holder is recorded later.
LockTryAcquire(l) ==
    /\ AtUser
    /\ ~Holds(self, l)
    /\ SemaphoreTake(l)
    /\ Goto("taken", l)
    /\ UNCHANGED <<monitorVars, task, arg, pri_arg, panic>>

\* lock_release() up to its call of semaphore_up().
LockRelease(l) ==
    /\ AtUser
    /\ Holds(self, l)
    /\ ClearHolder(l)
    /\ Goto("up", l)
    /\ UNCHANGED <<threadVars, semaVars, cond_waiters, task, arg, pri_arg, panic>>

-----------------------------------------------------------------------------
(* Condition variables.                                                    *)

\* condvar_wait() up to the semaphore_up() of lock_release().
CondvarWait(c) ==
    /\ AtUser
    /\ Holds(self, LockOf[c])
    /\ CondvarEnqueue(c)
    /\ ClearHolder(LockOf[c])
    /\ Goto("up", LockOf[c])
    /\ SetTask("wait", c)
    /\ UNCHANGED <<threadVars, pri_arg, panic>>

\* condvar_signal() with a waiter, up to semaphore_up().
CondvarSignal(c) ==
    /\ AtUser
    /\ Holds(self, LockOf[c])
    /\ \E w \in Thread : CondvarTake(c, w) /\ Goto("up", w)
    /\ UNCHANGED <<threadVars, semaVars, holder, task, arg, pri_arg, panic>>

\* condvar_broadcast(): its loop signals until no waiter is left.
CondvarBroadcast(c) ==
    /\ AtUser
    /\ Holds(self, LockOf[c])
    /\ Goto("signals", Nil)
    /\ SetTask("broadcast", c)
    /\ UNCHANGED <<threadVars, semaVars, monitorVars, pri_arg, panic>>

BroadcastNext ==
    /\ At("signals")
    /\ \E w \in Thread : CondvarTake(arg[self], w) /\ Goto("up", w)
    /\ UNCHANGED <<threadVars, semaVars, holder, task, arg, pri_arg, panic>>

BroadcastDone ==
    /\ At("signals")
    /\ cond_waiters[arg[self]] = << >>
    /\ Goto("run", Nil)
    /\ SetTask("none", Nil)
    /\ UNCHANGED <<threadVars, semaVars, monitorVars, pri_arg, panic>>

-----------------------------------------------------------------------------
(* Threads.                                                                *)

\* thread_create(): a page for the new thread, then allocate_tid() acquires
\* tid_lock.
ThreadCreate(child, p) ==
    /\ AtUser
    /\ child # Idle
    /\ InitThread(child, p)
    /\ UNCHANGED <<ready_list, current, thread_ticks, semaVars, monitorVars, panic>>
    /\ Goto("enter", TidLock)
    /\ SetTask("create", child)
    /\ pri_arg' = [pri_arg EXCEPT ![self] = p]

\* allocate_tid() numbers the thread and starts to release tid_lock.
AllocateTid ==
    /\ At("tid")
    /\ ClearHolder(TidLock)
    /\ Goto("up", TidLock)
    /\ UNCHANGED <<threadVars, semaVars, cond_waiters, task, arg, pri_arg, panic>>

\* thread_create() unblocks the new thread.
UnblockChild ==
    /\ At("unblock")
    /\ ThreadUnblock(arg[self])
    /\ Goto("check", Nil)
    /\ SetTask("none", Nil)
    /\ UNCHANGED <<semaVars, monitorVars, pri_arg, panic>>

\* thread_set_priority() up to its look at the ready list.
ThreadSetPriority(p) ==
    /\ AtUser
    /\ priority' = [priority EXCEPT ![self] = p]
    /\ pri_arg' = [pri_arg EXCEPT ![self] = p]
    /\ Goto("check", Nil)
    /\ SameTask
    /\ UNCHANGED <<status, ready_list, current, thread_ticks, semaVars, monitorVars, panic>>

\* list_empty(&ready_list) in thread_create() and thread_set_priority().
CheckReady ==
    /\ At("check")
    /\ Goto(IF ready_list = << >> THEN "run" ELSE "front", Nil)
    /\ UNCHANGED <<threadVars, semaVars, monitorVars, task, arg, pri_arg, panic>>

\* list_front(&ready_list) there, which asserts that the list is not empty,
\* and thread_yield() if a thread of at least the same priority is first.
CheckFront ==
    /\ At("front")
    /\ UNCHANGED <<semaVars, monitorVars, task, arg, priority>>
    /\ \/ /\ ready_list = << >>
          /\ panic' = "list_front"
          /\ UNCHANGED <<status, ready_list, current, thread_ticks, pc, target, pri_arg>>
       \/ /\ ready_list # << >>
          /\ IF priority[Head(ready_list)] >= pri_arg[self]
             THEN ThreadYield
             ELSE UNCHANGED <<status, ready_list, current, thread_ticks>>
          /\ Goto("run", Nil)
          /\ pri_arg' = [pri_arg EXCEPT ![self] = PriMin]
          /\ UNCHANGED panic

\* thread_yield() called by a client, timer_sleep()'s loop among them.
Yield ==
    /\ AtUser
    /\ ThreadYield
    /\ UNCHANGED <<priority, semaVars, monitorVars, callVars, panic>>

\* thread_exit(), called or on return from the thread's function.
Exit ==
    /\ AtUser
    /\ \A l \in Lock : ~Holds(self, l)
    /\ ThreadExit
    /\ UNCHANGED <<priority, semaVars, monitorVars, callVars, panic>>

\* One round of the loop of idle().
IdleBlock ==
    /\ At("run")
    /\ self = Idle
    /\ ThreadBlock
    /\ UNCHANGED <<priority, semaVars, monitorVars, callVars, panic>>

\* The timer interrupt, wherever interrupts are on.
Tick ==
    /\ panic = "none"
    /\ pc[self] # "down"
    /\ ThreadTick
    /\ UNCHANGED <<semaVars, monitorVars, callVars, panic>>

-----------------------------------------------------------------------------
SemaphoreCall == \E s \in Sem :
    SemaphoreDown(s) \/ SemaphoreTryDown(s) \/ SemaphoreRaise(s)

LockCall == \E l \in Lock \ {TidLock} :
    LockAcquire(l) \/ LockTryAcquire(l) \/ LockRelease(l)

CondvarCall == \E c \in Cond :
    CondvarWait(c) \/ CondvarSignal(c) \/ CondvarBroadcast(c)

ThreadCall ==
    \/ \E t \in Thread, p \in Priority : ThreadCreate(t, p)
    \/ \E p \in Priority : ThreadSetPriority(p)
    \/ Yield
    \/ Exit

\* The steps inside calls, which a thread takes whenever it has the processor.
Continue ==
    \/ EnterDown \/ ResumeDown \/ InnerUp \/ LockTaken
    \/ BroadcastNext \/ BroadcastDone
    \/ AllocateTid \/ UnblockChild \/ CheckReady \/ CheckFront
    \/ IdleBlock

Interrupt == Tick \/ \E s \in Sem : InterruptUp(s)

Next == SemaphoreCall \/ LockCall \/ CondvarCall \/ ThreadCall \/ Continue \/ Interrupt

Spec == Init /\ [][Next]_vars

\* The timer ticks for ever, and a tick that falls where interrupts are off is
\* delivered when they come on. A slice is long against the steps of a call, so
\* a thread that gets the processor again and again gets on with its call.
\* Clients may compute forever.
FairSpec ==
    /\ Spec
    /\ \A t \in Thread : SF_vars(current = t /\ Continue)
    /\ SF_vars(Tick)
=============================================================================
