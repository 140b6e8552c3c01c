------------------------------ MODULE CpuScheduler ------------------------------
(* The CPU schedulers of Assignment5 (scheduler.c): first come first served,  *)
(* which is Assignment4's, round robin, and priorities without and with       *)
(* preemption.  The simulator calls one function at every event of a tick and *)
(* runs what sim_dispatch() gave it last.  It is a library: its actions here  *)
(* are external, and a thread's length and transfers, which it draws at       *)
(* random, are choices.                                                       *)
(*                                                                            *)
(* A tick: the arrivals, sim_ready(), the switch to what was dispatched, the  *)
(* device, the processor.                                                     *)
EXTENDS Integers, FiniteSets, SequencesExt

CONSTANTS
    Thread,
    None,
    Quantum,        \* the quanta tried
    Priority,       \* the priorities tried: functions on Thread; 0 is highest
    Memory,         \* what the threads' nodes may hold: functions on Thread
    LastArrival,    \* bound: every thread has arrived at this time
    MaxUsed,        \* bound: the longest thread
    MaxIo,          \* bound: the longest transfer
    MaxClock        \* bound: the simulator is stopped at this time

ASSUME NoneAssumption == None \notin Thread
ASSUME ThreadAssumption == IsFiniteSet(Thread)
ASSUME QuantumAssumption == Quantum \subseteq Nat \ {0}
ASSUME PriorityAssumption == Priority \subseteq [Thread -> Nat]

\* The fields of a node that the callbacks write.  list_create() sets none: a
\* node has in them what its memory held when malloc() gave it.
Times == [arival : Int, finish : Int, io_burst_start : Int, io_burst_end : Int,
          first_cpu_burst_start : Int, first_cpu_burst_end : Int, second_cpu_burst_start : Int]
ASSUME MemoryAssumption == Memory \subseteq [Thread -> Times]

VARIABLES
    \* scheduler.c
    algo, quan, ticks_on_cpu,
    current_thread,
    ready,          \* queue, or ready_list from its last node to its first
    stat,           \* the times in the thread's node of all_threads_list
    \* the simulator
    clock, phase,
    arrived, finished, prio,
    new_cpu,        \* what sim_dispatch() was called with since the last switch
    cpu, used,      \* the thread on the processor; ticks it has had there
    io, ioq, done,  \* the one on the device, those in line, ticks it has had
    asked,          \* the threads that have asked for their transfer
    \* history
    memory,         \* what the nodes held at first
    served,         \* the thread the device has served in this tick
    waited,         \* waited[t]: ticks it was on neither
    turn,           \* turn[t]: ticks since it became ready
    ran, byIo,      \* ticks since the dispatch; whether that was io_complete()'s
    displaced,      \* the thread io_complete() took off in this tick
    overrun         \* such a thread has ended or asked for a transfer

sched == <<algo, quan, ticks_on_cpu, current_thread, ready, stat>>
sim == <<clock, phase, arrived, finished, prio, new_cpu, cpu, used, io, ioq, done, asked>>
history == <<memory, served, waited, turn, ran, byIo, displaced, overrun>>
vars == <<sched, sim, history>>

ByPriority == algo \in {"NON_PREEMPTIVE_PRIORITY", "PREEMPTIVE_PRIORITY"}
Preemptive == algo = "PREEMPTIVE_PRIORITY"

-----------------------------------------------------------------------------
\* queue_sort(): threads of one priority keep their order.
Place(q, t) ==
    LET n == Cardinality({i \in DOMAIN q : prio[q[i]] <= prio[t]})
    IN  SubSeq(q, 1, n) \o <<t>> \o SubSeq(q, n + 1, Len(q))
Sorted(q) ==
    LET sorted[n \in 0 .. Len(q)] == IF n = 0 THEN <<>> ELSE Place(sorted[n - 1], q[n])
    IN  IF ByPriority THEN sorted[Len(q)] ELSE q

\* Faulty: the list is served from the end where it grows.
EnqueueFirst(q, t) == <<t>> \o q
\* queue_enqueue(); list_insert_beginning(), of a list served from its end.
Enqueue(q, t) == Append(q, t)

\* Faulty: sim_dispatch() is not called.
DispatchSilent(t, io_done) ==
    /\ current_thread' = t
    /\ ran' = 0
    /\ byIo' = io_done
    /\ UNCHANGED new_cpu
\* current_thread = t; sim_dispatch(t).
Dispatch(t, io_done) ==
    /\ current_thread' = t
    /\ new_cpu' = t
    /\ ran' = 0
    /\ byIo' = io_done

\* The times of the thread t that the processor goes to in the next tick.  They
\* are read by the stats() of Assignment4, and kept for its algorithm.
Starts(t) ==
    IF algo # "FIRST_COME_FIRST_SERVED" THEN stat
    ELSE [stat EXCEPT
           ![t].first_cpu_burst_start =
              IF @ = 0 /\ stat[t].first_cpu_burst_end = 0 THEN clock + 1 ELSE @,
           ![t].second_cpu_burst_start = clock + 1]

\* A thread that leaves the processor is followed by the head of the sorted
\* queue, if there is one.  ticks_on_cpu is round robin's; priorities leave it.
DispatchHead ==
    \/ /\ ready = <<>>
       /\ current_thread' = None
       /\ UNCHANGED <<ready, ticks_on_cpu, new_cpu, ran, byIo>>
    \/ /\ ready # <<>>
       /\ Dispatch(Head(Sorted(ready)), FALSE)
       /\ ready' = Tail(Sorted(ready))
       /\ ticks_on_cpu' = IF ByPriority THEN ticks_on_cpu ELSE 0
Started == IF ready = <<>> THEN stat ELSE Starts(Head(Sorted(ready)))

-----------------------------------------------------------------------------
\* The callbacks.

\* With preemption, t takes the processor from the current thread ...
Beats(t) == Preemptive /\ current_thread # None /\ prio[t] < prio[current_thread]
\* Faulty: the current thread is forgotten.
PutBackForgotten == ready
\* ... which goes back to the queue.
PutBack == Enqueue(ready, current_thread)

\* With priorities, the next sim_ready() dispatches.
sys_exec(t) ==
    /\ \/ /\ ByPriority /\ Beats(t)
          /\ ready' = Sorted(Enqueue(PutBack, t))
          /\ current_thread' = None
          /\ UNCHANGED <<ticks_on_cpu, new_cpu, ran, byIo>>
       \/ /\ ByPriority /\ ~Beats(t)
          /\ ready' = Sorted(Enqueue(ready, t))
          /\ UNCHANGED <<current_thread, ticks_on_cpu, new_cpu, ran, byIo>>
       \/ /\ ~ByPriority /\ current_thread = None
          /\ Dispatch(t, FALSE)
          /\ ticks_on_cpu' = 0
          /\ UNCHANGED ready
       \/ /\ ~ByPriority /\ current_thread # None
          /\ ready' = Enqueue(ready, t)
          /\ UNCHANGED <<current_thread, new_cpu, ticks_on_cpu, ran, byIo>>
    /\ stat' = [stat EXCEPT
                 ![t].arival = clock,
                 ![t].first_cpu_burst_start =
                    IF ~ByPriority /\ current_thread = None THEN clock ELSE @]
    /\ UNCHANGED <<algo, quan>>

\* Faulty: one tick less.
QuantumOverEarly == ticks_on_cpu + 1 >= quan
QuantumOver == ticks_on_cpu >= quan

\* Round robin puts a thread that had its quantum at the back; priorities give
\* a free processor to the head of the queue.
sim_ready ==
    /\ \/ /\ algo = "ROUND_ROBIN"
          /\ \/ /\ ready # <<>> /\ QuantumOver
                /\ Dispatch(Head(PutBack), FALSE)
                /\ ready' = Tail(PutBack)
             \/ /\ ready = <<>> \/ ~QuantumOver
                /\ UNCHANGED <<current_thread, new_cpu, ready, ran, byIo>>
          /\ LET ticks == IF QuantumOver THEN 0 ELSE ticks_on_cpu
             IN  ticks_on_cpu' = IF current_thread' = None THEN ticks ELSE ticks + 1
       \/ /\ ByPriority /\ current_thread = None
          /\ DispatchHead
       \/ /\ algo = "FIRST_COME_FIRST_SERVED" \/ (ByPriority /\ current_thread # None)
          /\ UNCHANGED <<current_thread, new_cpu, ready, ticks_on_cpu, ran, byIo>>
    /\ UNCHANGED <<algo, quan, stat>>

sys_read(t) ==
    /\ DispatchHead
    /\ stat' = [Started EXCEPT ![t].first_cpu_burst_end = clock]
    /\ UNCHANGED <<algo, quan>>

sys_write(t) ==
    /\ DispatchHead
    /\ stat' = [Started EXCEPT ![t].first_cpu_burst_end = clock]
    /\ UNCHANGED <<algo, quan>>

\* Faulty: the processor is left idle while threads are ready.
sys_exit_idle(t) ==
    /\ current_thread' = None
    /\ stat' = [stat EXCEPT ![t].finish = clock]
    /\ UNCHANGED <<algo, quan, ready, ticks_on_cpu, new_cpu, ran, byIo>>
sys_exit(t) ==
    /\ DispatchHead
    /\ stat' = [Started EXCEPT
                 ![t].finish = clock,
                 ![t].first_cpu_burst_end = IF stat[t].io_burst_start = 0 THEN clock ELSE @]
    /\ UNCHANGED <<algo, quan>>

io_starting(t) ==
    /\ stat' = [stat EXCEPT ![t].io_burst_start = clock]
    /\ UNCHANGED <<algo, quan, ticks_on_cpu, current_thread, ready>>

\* ticks_on_cpu stays what the last thread left.
io_complete(t) ==
    /\ \/ /\ current_thread = None
          /\ Dispatch(t, TRUE)
          /\ UNCHANGED <<ready, displaced>>
       \/ /\ Beats(t)
          /\ ready' = PutBack
          /\ displaced' = current_thread
          /\ Dispatch(t, TRUE)
       \/ /\ current_thread # None /\ ~Beats(t)
          /\ ready' = Sorted(Enqueue(ready, t))
          /\ UNCHANGED <<current_thread, new_cpu, displaced, ran, byIo>>
    /\ stat' = [stat EXCEPT
                 ![t].io_burst_end = clock,
                 ![t].second_cpu_burst_start =
                    IF algo = "FIRST_COME_FIRST_SERVED" /\ current_thread = None
                    THEN clock + 1 ELSE @]
    /\ UNCHANGED <<algo, quan, ticks_on_cpu>>

\* Faulty: a thread without a transfer is taken to have had one.
WaitingTimeAsIo(t) ==
    LET n == stat[t]
    IN  (n.finish - n.arival + 1) - (used[t] + n.io_burst_end - n.io_burst_start + 1)
\* The waiting time stats() reports: io_burst_start is taken to be zero for a
\* thread that had no transfer.
WaitingTime(t) ==
    LET n == stat[t]
        io_time == IF n.io_burst_start = 0 THEN 0 ELSE n.io_burst_end - n.io_burst_start + 1
    IN  (n.finish - n.arival + 1) - (used[t] + io_time)

\* The one of Assignment4, the sum of the waits between the times it has kept.
WaitingTimeFirstCome(t) ==
    LET n == stat[t]
    IN  (n.first_cpu_burst_start - n.arival)
        + IF n.io_burst_start = 0 THEN 0
          ELSE (n.io_burst_start - n.first_cpu_burst_end - 1)
               + (n.second_cpu_burst_start - n.io_burst_end - 1)

-----------------------------------------------------------------------------
\* The simulator.
Live == arrived \ finished

Arrive(t) ==
    /\ phase = "arrivals" /\ t \notin arrived
    /\ arrived' = arrived \cup {t}
    /\ sys_exec(t)
    /\ UNCHANGED <<clock, phase, finished, prio, cpu, used, io, ioq, done, asked,
                   memory, served, waited, turn, displaced, overrun>>

Ready ==
    /\ phase = "arrivals"
    /\ clock = LastArrival => arrived = Thread
    /\ sim_ready
    /\ phase' = "switch"
    /\ UNCHANGED <<clock, arrived, finished, prio, cpu, used, io, ioq, done, asked,
                   memory, served, waited, turn, displaced, overrun>>

Switch ==
    /\ phase = "switch"
    /\ cpu' = IF new_cpu = None THEN cpu ELSE new_cpu
    /\ new_cpu' = None
    /\ phase' = "device"
    /\ UNCHANGED <<sched, clock, arrived, finished, prio, used, io, ioq, done, asked, history>>

\* A transfer that begins has its first tick at once.
Device ==
    /\ phase = "device"
    /\ \/ /\ io = None /\ ioq = <<>>
          /\ phase' = "cpu"
          /\ UNCHANGED <<sched, io, ioq, done, served>>
       \/ /\ io = None /\ ioq # <<>>
          /\ io' = Head(ioq)
          /\ ioq' = Tail(ioq)
          /\ done' = 1
          /\ served' = Head(ioq)
          /\ phase' = "transfer"
          /\ io_starting(Head(ioq))
       \/ /\ io # None
          /\ done' = done + 1
          /\ served' = io
          /\ phase' = "transfer"
          /\ UNCHANGED <<sched, io, ioq>>
    /\ UNCHANGED <<clock, arrived, finished, prio, new_cpu, cpu, used, asked,
                   memory, waited, turn, ran, byIo, displaced, overrun>>

Transfer ==
    /\ phase = "transfer"
    /\ phase' = "cpu"
    /\ \/ /\ done < MaxIo
          /\ UNCHANGED <<sched, new_cpu, io, ran, byIo, displaced>>
       \/ /\ io_complete(io)
          /\ io' = None
    /\ UNCHANGED <<clock, arrived, finished, prio, cpu, used, ioq, done, asked,
                   memory, served, waited, turn, overrun>>

\* One thread has had one tick, or none has: the end of the tick.
Tick(t) ==
    /\ clock' = clock + 1
    /\ phase' = "arrivals"
    /\ served' = None
    /\ displaced' = None
    /\ waited' = [u \in Thread |->
          IF u \in Live \ {t, served} THEN waited[u] + 1 ELSE waited[u]]
    /\ turn' = [u \in Thread |-> IF u \in Range(ready) /\ u \in Range(ready')
                                 THEN turn[u] + 1 ELSE 0]
    /\ UNCHANGED <<arrived, prio, io, done, memory>>

Idle ==
    /\ phase = "cpu" /\ cpu = None
    /\ Live # {} \/ arrived # Thread
    /\ clock < MaxClock
    /\ UNCHANGED <<sched, finished, new_cpu, cpu, used, ioq, asked, ran, byIo, overrun>>
    /\ Tick(None)

\* The thread goes on, or asks for its one transfer, or ends: a transfer comes
\* after its first tick and before its last.
Cpu ==
    /\ phase = "cpu" /\ cpu # None
    /\ clock < MaxClock
    /\ used' = [used EXCEPT ![cpu] = @ + 1]
    /\ \/ /\ used'[cpu] < MaxUsed \/ cpu \in finished
          /\ ran' = ran + 1
          /\ UNCHANGED <<sched, finished, new_cpu, cpu, ioq, asked, byIo, overrun>>
          /\ Tick(cpu)
       \/ /\ used'[cpu] < MaxUsed /\ cpu \notin finished \cup asked
          /\ sys_read(cpu) \/ sys_write(cpu)
          /\ ioq' = Append(ioq, cpu)
          /\ asked' = asked \cup {cpu}
          /\ Tick(cpu)
          /\ cpu' = None
          /\ overrun' = (overrun \/ cpu = displaced)
          /\ UNCHANGED finished
       \/ /\ cpu \notin finished
          /\ sys_exit(cpu)
          /\ finished' = finished \cup {cpu}
          /\ Tick(cpu)
          /\ cpu' = None
          /\ overrun' = (overrun \/ cpu = displaced)
          /\ UNCHANGED <<ioq, asked>>

Init ==
    /\ algo \in {"FIRST_COME_FIRST_SERVED", "ROUND_ROBIN", "NON_PREEMPTIVE_PRIORITY",
                 "PREEMPTIVE_PRIORITY"}
    /\ quan \in IF algo = "ROUND_ROBIN" THEN Quantum ELSE {0}
    /\ prio \in IF ByPriority THEN Priority ELSE {[t \in Thread |-> 0]}
    /\ ticks_on_cpu = 0
    /\ current_thread = None
    /\ ready = <<>>
    /\ memory \in Memory
    /\ stat = memory
    /\ clock = 0 /\ phase = "arrivals"
    /\ arrived = {} /\ finished = {}
    /\ new_cpu = None /\ cpu = None
    /\ used = [t \in Thread |-> 0]
    /\ io = None /\ ioq = <<>> /\ done = 0 /\ asked = {}
    /\ served = None
    /\ waited = [t \in Thread |-> 0]
    /\ turn = [t \in Thread |-> 0]
    /\ ran = 0 /\ byIo = FALSE
    /\ displaced = None /\ overrun = FALSE

Next ==
    \/ \E t \in Thread : Arrive(t)
    \/ Ready \/ Switch \/ Device \/ Transfer \/ Idle \/ Cpu

Spec == Init /\ [][Next]_vars
\* The simulator goes on until every thread has ended.
FairSpec == Spec /\ WF_vars(Next)

-----------------------------------------------------------------------------
\* In how many places a thread is.
Places(t) ==
    Cardinality({i \in DOMAIN ready : ready[i] = t})
    + Cardinality({i \in DOMAIN ioq : ioq[i] = t})
    + Cardinality({p \in {"current", "io"} :
                     IF p = "current" THEN current_thread = t ELSE io = t})

\* Whatever order the callbacks come in, a thread that has arrived and not
\* ended is current, ready, in line for the device or on it, in one of these
\* places and once, and one that has ended is in none, as long as no thread
\* ended or asked for a transfer in the tick io_complete() took it off in.
OnePlace == ~overrun => \A t \in Thread : Places(t) = IF t \in Live THEN 1 ELSE 0

\* The simulator runs the thread the scheduler takes for current.  The two part
\* only where io_complete() dispatches, until the switch of the next tick.
CurrentRuns ==
    ~overrun /\ phase \in {"device", "transfer", "cpu"}
    => \/ cpu = current_thread
       \/ cpu \in {None, displaced} /\ new_cpu = current_thread

\* The processor is never left idle while a thread is ready, and with
\* preemption no ready thread is of higher priority than the current one.
RightOneRuns ==
    IF current_thread = None
    THEN phase # "arrivals" => ready = <<>>
    ELSE Preemptive => \A t \in Range(ready) : prio[current_thread] <= prio[t]

\* A thread that gets the processor is of no lower priority than those that
\* stay in the queue, and has been ready for longer than those of its own.
DispatchOrder ==
    [][current_thread' # current_thread /\ current_thread' # None
       => \A t \in Range(ready') :
             /\ ByPriority => prio[current_thread'] <= prio[t]
             /\ ~overrun /\ {t, current_thread'} \subseteq Range(ready)
                /\ prio[t] = prio[current_thread'] => turn[t] <= turn[current_thread']]_vars

\* sim_ready() of a round robin takes a thread off after its quantum and no
\* sooner, unless io_complete() had dispatched it, and each of the others has
\* the processor for at most a quantum while a thread is ready.
QuantumKept ==
    [][algo = "ROUND_ROBIN" =>
        /\ phase = "arrivals" /\ phase' = "switch" /\ current_thread' # current_thread
           => ran >= quan \/ byIo
        /\ \A t \in Range(ready) : turn[t] <= (Cardinality(Thread) - 1) * quan]_vars

\* The waiting time of stats() is the number of ticks in which the thread was
\* there and neither ran nor had the device, if it had a transfer or its node's
\* memory happened to hold a zero for the start of one: else what it held passes
\* for the start of a transfer that never was (scheduler.c:514), which :493 does
\* not say.  So is Assignment4's if it held zeros for the first ticks on the
\* processor too, but for a thread for which these began and ended at time zero:
\* the second ones overwrite them.
StatsExact ==
    ~overrun => \A t \in finished : t \in asked \/ memory[t].io_burst_start = 0 =>
        /\ WaitingTime(t) = waited[t]
        /\ /\ algo = "FIRST_COME_FIRST_SERVED"
           /\ memory[t].first_cpu_burst_start = 0 /\ memory[t].first_cpu_burst_end = 0
           => \/ WaitingTimeFirstCome(t) = waited[t]
              \/ stat[t].arival = 0 /\ stat[t].io_burst_start = 1

\* scheduler.h of sys_exit(): the thread should never again be scheduled.
NeverAgain == {current_thread, new_cpu} \cap finished = {}

\* Every thread ends.
EveryThreadEnds == <>(overrun \/ finished = Thread)

=============================================================================
