--------------------------------- MODULE Alarm ---------------------------------
(* The alarm clock of Lab1: timer_sleep() blocks the caller, and the timer    *)
(* interrupt walks the list of all threads and makes every blocked thread     *)
(* whose wakeup time has come ready.  A blocked thread that never slept has   *)
(* wakeup time 0: the walk also unblocks threads that wait for a semaphore,   *)
(* the idle thread and threads still being created, and their list element    *)
(* then is on two lists.                                                      *)
(*                                                                            *)
(* A step is what runs without an interrupt between; the timer interrupt is   *)
(* Tick.                                                                      *)
EXTENDS IntrusiveList, Sequences, SequencesExt

CONSTANTS
    Thread,         \* = Elem: the elem members of the threads
    Main, Idle,
    Fresh,          \* threads thread_create() has not made yet
    Sema,           \* semaphores: used as locks, but for
    Signal,         \* those any thread may raise, up to 1
    SleepTicks,     \* Bound: the arguments of timer_sleep()
    TIME_SLICE,
    Nothing

Ready == "ready"
ASSUME NamesAssumption == Elem = Thread /\ ListName = Sema \cup {Ready} /\ {Nothing, Ready} \cap Sema = {}
ASSUME ThreadAssumption == IsFiniteSet(Thread) /\ {Main, Idle} \subseteq Thread /\ Main # Idle
ASSUME SignalAssumption == Signal \subseteq Sema
ASSUME FreshAssumption == Fresh \subseteq Thread \ {Main, Idle}
ASSUME SleepAssumption == SleepTicks \subseteq Nat

VARIABLES
    links,          \* the pointers of the ready list, waiters lists and elem members
    all,            \* the threads of all_list, in order
    status,
    current,
    remaining,      \* remaining[t]: wakeupTime - ticks, 0 once that is past
    thread_ticks,
    pc,             \* pc[t]: where t runs or is to run on
    waitsFor,       \* waitsFor[t]: the semaphore whose semaphore_down() t is in
    value,
    holds,          \* holds[t]: the locks t has downed and not upped
    panic,          \* the assertion that stopped the kernel
    stray           \* history: a tick has unblocked a thread that was not asleep
vars == <<links, all, status, current, remaining, thread_ticks, pc, waitsFor, value, holds, panic, stray>>

\* The pointers once those threads of q that are in S, in the order of q, have
\* been put on the ready list.
ReadyAfter(lk, q, S) ==
    LET after[i \in 0 .. Len(q)] ==
            IF i = 0 THEN lk
            ELSE IF q[i] \in S THEN list_push_back(after[i - 1], Ready, q[i]) ELSE after[i - 1]
    IN  after[Len(q)]

Alive(n) == n \in Thread /\ status[n] \notin {"unborn", "dead"}

-----------------------------------------------------------------------------
\* schedule(), once the running thread has got its new status and list: lk and
\* st are the links and statuses it leaves.  The dispatched thread returns
\* from its own schedule(): to its code, or to the loop of semaphore_down().
\* A list spoilt earlier may hand out what is no thread, the exiting thread
\* itself, or a thread that has no stack yet: the kernel stops.
Schedule(lk, st, at) ==
    LET front == list_front(lk, Ready)
        empty == list_empty(lk, Ready)
        next  == IF empty THEN Idle ELSE front
        lost  == CASE ~Alive(next) -> "is_thread"
                   [] Alive(next) /\ st[next] = "dead" -> "NOT_REACHED"
                   [] Alive(next) /\ st[next] # "dead" /\ at[next] = "half" -> "no_stack"
                   [] OTHER -> "none"
    IN  /\ panic' = lost
        /\ links' = IF empty \/ lost # "none" THEN lk ELSE list_remove(lk, front)
        /\ IF lost = "none"
           THEN /\ current' = next
                /\ status' = [st EXCEPT ![next] = "running"]
                /\ pc' = [at EXCEPT ![next] = IF @ = "asleep" THEN "run" ELSE @]
           ELSE UNCHANGED current /\ status' = st /\ pc' = at
        /\ thread_ticks' = 0

\* Faulty: the thread goes back to the front of the ready list.
YieldToFront(lk) ==
    IF current = Idle THEN lk ELSE list_insert(lk, list_front(lk, Ready), current)
\* What thread_yield() makes of the ready list.
YieldLinks(lk) ==
    IF current = Idle THEN lk ELSE list_push_back(lk, Ready, current)

\* Faulty: wakes a tick late.
DueLate(t) == remaining[t] = 0
\* t->wakeupTime <= timer_ticks(), ticks being one more than before.
Due(t) == remaining[t] <= 1

\* The blocked threads wake_sleeping_threads() unblocks, the pointers its walk
\* of all_list leaves, and the statuses.
Woken == {t \in Range(all) : status[t] = "blocked" /\ Due(t)}
WokenLinks == ReadyAfter(links, all, Woken)
WokenStatus == [t \in Thread |-> IF t \in Woken THEN "ready" ELSE status[t]]

\* The timer interrupt.  Interrupts are off while a dispatched thread is still
\* in semaphore_down(); the halted idle thread goes on after one.
Tick ==
    /\ panic = "none"
    /\ waitsFor[current] = Nothing
    /\ remaining' = [t \in Thread |-> IF remaining[t] > 0 THEN remaining[t] - 1 ELSE 0]
    /\ LET at == IF current = Idle THEN [pc EXCEPT ![Idle] = "loop"] ELSE pc IN
       IF thread_ticks + 1 >= TIME_SLICE
       THEN Schedule(YieldLinks(WokenLinks), [WokenStatus EXCEPT ![current] = "ready"], at)
       ELSE /\ links' = WokenLinks
            /\ status' = WokenStatus
            /\ thread_ticks' = thread_ticks + 1
            /\ pc' = at
            /\ UNCHANGED <<current, panic>>
    /\ stray' = (stray \/ \E t \in Woken \ {Idle} : pc[t] # "asleep")
    /\ UNCHANGED <<all, waitsFor, value, holds>>

-----------------------------------------------------------------------------
\* The running thread's own steps.
Runs(t, at) == panic = "none" /\ current = t /\ pc[t] = at /\ waitsFor[t] = Nothing

\* timer_sleep() computes the wakeup time, with interrupts on ...
SleepBegin(t) ==
    /\ t # Idle /\ Runs(t, "run")
    /\ \E n \in SleepTicks : remaining' = [remaining EXCEPT ![t] = n]
    /\ pc' = [pc EXCEPT ![t] = "to_sleep"]
    /\ UNCHANGED <<links, all, status, current, thread_ticks, waitsFor, value, holds, panic, stray>>

\* ... and then blocks.
Sleep(t) ==
    /\ Runs(t, "to_sleep")
    /\ Schedule(links, [status EXCEPT ![t] = "blocked"], [pc EXCEPT ![t] = "asleep"])
    /\ UNCHANGED <<all, remaining, waitsFor, value, holds, stray>>

\* idle() blocks, and halts when it is dispatched again.
IdleBlock ==
    /\ Runs(Idle, "loop")
    /\ Schedule(links, [status EXCEPT ![Idle] = "blocked"], [pc EXCEPT ![Idle] = "halted"])
    /\ UNCHANGED <<all, remaining, waitsFor, value, holds, stray>>

\* Faulty: if in place of while.
DownOnce(t, s) ==
    /\ panic = "none" /\ current = t
    /\ \/ /\ Runs(t, "run") /\ t # Idle /\ s \notin holds[t] /\ value[s] = 0
          /\ waitsFor' = [waitsFor EXCEPT ![t] = s]
          /\ Schedule(list_push_back(links, s, t), [status EXCEPT ![t] = "blocked"], pc)
          /\ UNCHANGED <<value, holds>>
       \/ /\ waitsFor[t] = s \/ (Runs(t, "run") /\ t # Idle /\ s \notin holds[t] /\ value[s] > 0)
          /\ value' = [value EXCEPT ![s] = @ - 1]
          /\ holds' = [holds EXCEPT ![t] = @ \cup ({s} \ Signal)]
          /\ waitsFor' = [waitsFor EXCEPT ![t] = Nothing]
          /\ UNCHANGED <<links, status, current, thread_ticks, pc, panic>>
    /\ UNCHANGED <<all, remaining, stray>>

\* One round of the loop of semaphore_down(): on entry, or after a dispatch.
Down(t, s) ==
    /\ panic = "none" /\ current = t
    /\ waitsFor[t] = s \/ (Runs(t, "run") /\ t # Idle /\ s \notin holds[t])
    /\ \/ /\ value[s] = 0
          /\ waitsFor' = [waitsFor EXCEPT ![t] = s]
          /\ Schedule(list_push_back(links, s, t), [status EXCEPT ![t] = "blocked"], pc)
          /\ UNCHANGED <<value, holds>>
       \/ /\ value[s] > 0
          /\ value' = [value EXCEPT ![s] = @ - 1]
          /\ holds' = [holds EXCEPT ![t] = @ \cup ({s} \ Signal)]
          /\ waitsFor' = [waitsFor EXCEPT ![t] = Nothing]
          /\ UNCHANGED <<links, status, current, thread_ticks, pc, panic>>
    /\ UNCHANGED <<all, remaining, stray>>

\* semaphore_up(): thread_unblock() asserts that what it gets is a blocked
\* thread, and the value is raised only after that.
Up(t, s) ==
    /\ Runs(t, "run") /\ t # Idle
    /\ s \in holds[t] \/ (s \in Signal /\ value[s] = 0)
    /\ LET n == list_front(links, s) IN
       \/ /\ list_empty(links, s)
          /\ UNCHANGED <<links, status, panic>>
          /\ value' = [value EXCEPT ![s] = @ + 1]
       \/ /\ ~list_empty(links, s) /\ Alive(n) /\ status[n] = "blocked"
          /\ links' = list_push_back(list_remove(links, n), Ready, n)
          /\ status' = [status EXCEPT ![n] = "ready"]
          /\ value' = [value EXCEPT ![s] = @ + 1]
          /\ UNCHANGED panic
       \/ /\ ~list_empty(links, s) /\ ~(Alive(n) /\ status[n] = "blocked")
          /\ panic' = IF Alive(n) THEN "THREAD_BLOCKED" ELSE "is_thread"
          /\ UNCHANGED <<links, status, value>>
    /\ holds' = [holds EXCEPT ![t] = @ \ {s}]
    /\ UNCHANGED <<all, current, remaining, thread_ticks, pc, waitsFor, stray>>

\* thread_create() puts the new thread on all_list, blocked ...
CreateBegin(t, child) ==
    /\ t # Idle /\ Runs(t, "run")
    /\ status[child] = "unborn"
    /\ all' = Append(all, child)
    /\ status' = [status EXCEPT ![child] = "blocked"]
    /\ pc' = [pc EXCEPT ![t] = "to_unblock", ![child] = "half"]
    /\ UNCHANGED <<links, current, remaining, thread_ticks, waitsFor, value, holds, panic, stray>>

\* ... and unblocks it when its stack is made, interrupts having been on in
\* between.
CreateEnd(t, child) ==
    /\ Runs(t, "to_unblock") /\ pc[child] = "half"
    /\ pc' = [pc EXCEPT ![t] = "run", ![child] = "run"]
    /\ IF status[child] = "blocked"
       THEN /\ links' = list_push_back(links, Ready, child)
            /\ status' = [status EXCEPT ![child] = "ready"]
            /\ UNCHANGED panic
       ELSE panic' = "THREAD_BLOCKED" /\ UNCHANGED <<links, status>>
    /\ UNCHANGED <<all, current, remaining, thread_ticks, waitsFor, value, holds, stray>>

\* thread_exit(); the thread that runs next frees the page.
Exit(t) ==
    /\ t \notin {Main, Idle} /\ Runs(t, "run") /\ holds[t] = {}
    /\ \E i \in DOMAIN all : all[i] = t /\ all' = RemoveAt(all, i)
    /\ Schedule(links, [status EXCEPT ![t] = "dead"], pc)
    /\ UNCHANGED <<remaining, waitsFor, value, holds, stray>>

-----------------------------------------------------------------------------
\* After thread_start(): the main thread runs, the idle thread has blocked, the
\* threads that are not fresh are ready in the order they were made.  What was
\* alone on the ready list and taken from it still points to its ends.
Old == Thread \ (Fresh \cup {Main, Idle})
Init ==
    \E order \in Bijection(1 .. Cardinality(Old), Old) :
        /\ all = <<Main, Idle>> \o order
        /\ LET taken == [next |-> [EmptyLinks.next EXCEPT ![Main] = TailOf(Ready), ![Idle] = TailOf(Ready)],
                         prev |-> [EmptyLinks.prev EXCEPT ![Main] = HeadOf(Ready), ![Idle] = HeadOf(Ready)]]
           IN  links = ReadyAfter(taken, order, Old)
        /\ status = [t \in Thread |-> CASE t = Main -> "running" [] t = Idle -> "blocked"
                                        [] t \in Fresh -> "unborn" [] OTHER -> "ready"]
        /\ current = Main
        /\ remaining = [t \in Thread |-> 0]
        /\ thread_ticks = 0
        /\ pc = [t \in Thread |-> IF t = Idle THEN "halted" ELSE "run"]
        /\ waitsFor = [t \in Thread |-> Nothing]
        /\ value = [s \in Sema |-> IF s \in Signal THEN 0 ELSE 1]
        /\ holds = [t \in Thread |-> {}]
        /\ panic = "none"
        /\ stray = FALSE

Next == \/ Tick
        \/ IdleBlock
        \/ \E t \in Thread : SleepBegin(t) \/ Sleep(t) \/ Exit(t)
        \/ \E t \in Thread, s \in Sema : Down(t, s) \/ Up(t, s)
        \/ \E t \in Thread, child \in Fresh : CreateBegin(t, child) \/ CreateEnd(t, child)

Spec == Init /\ [][Next]_vars
\* The loop of semaphore_down(), after a dispatch: interrupts are off.
DownAgain == \E s \in Sema : waitsFor[current] = s /\ Down(current, s)
\* The timer keeps interrupting, and code runs on that no thread can hold up:
\* idle() when it is dispatched, and what runs with interrupts off.
FairSpec == Spec /\ WF_vars(Tick) /\ WF_vars(IdleBlock) /\ WF_vars(DownAgain)

-----------------------------------------------------------------------------
Asleep(t) == status[t] = "blocked" /\ pc[t] = "asleep"

\* As long as the ticks have woken sleepers only, the pointers are right: the
\* ready list holds the ready threads, each once, whatever ticks came between
\* the steps of timer_sleep(), thread_create() and the idle loop.
ReadyListIntact ==
    ~stray => \E S \in {{t \in Thread : status[t] = "ready"}, {t \in Thread \ {Idle} : status[t] = "ready"}} :
        IsListOf(links, Ready, S)

\* A sleeper is then woken at the tick its time comes, neither before nor later.
AlarmExact == [][~stray => \A t \in Thread :
    Asleep(t) => (status'[t] # "blocked" <=> Tick /\ remaining'[t] = 0)]_vars

\* And every sleeper gets the processor again.
SleeperRuns == \A t \in Thread \ {Idle} : Asleep(t) ~> current = t \/ stray

\* A semaphore used as a lock excludes, however often its waiters are woken
\* by the timer instead of by semaphore_up(): semaphore_down() looks again.
SemaphoreExcludes == \A s \in Sema, t, u \in Thread :
    s \in holds[t] /\ s \in holds[u] => t = u

\* However threads end up on two lists, the ends of a list stay its ends, so
\* that the assertion of list_insert(), is_interior (before) || is_tail (before),
\* holds at every insertion.
EndsIntact == \A L \in ListName : /\ links.next[TailOf(L)] = NULL
                                  /\ links.prev[HeadOf(L)] = NULL
                                  /\ links.prev[TailOf(L)] # NULL

-----------------------------------------------------------------------------
\* What the comments say and the timer's walk breaks.

\* ASSERT (t->status == THREAD_BLOCKED) (thread.c:285).
UnblocksBlocked == panic # "THREAD_BLOCKED"

=============================================================================
