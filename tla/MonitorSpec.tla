----------------------------- MODULE MonitorSpec -----------------------------
(***************************************************************************)
(* What the comments of threads/lock.c and threads/condvar.c promise, with *)
(* no scheduler and no semaphores: a lock has at most one owner, waiting   *)
(* gives the lock up and joins the waiters in one step, a signal chooses   *)
(* one of the threads waiting at that moment, and a thread returns from    *)
(* its wait owning the lock again. The monitor is a Mesa one: others may   *)
(* own the lock between the signal and the return.                         *)
(***************************************************************************)
CONSTANTS Thread, Lock, Cond, LockOf, Nil

VARIABLES owner,      \* the thread that owns each lock, or Nil
          waiting,    \* threads waiting for a signal of each condition
          notified    \* threads signalled that do not own the lock again yet

vars == <<owner, waiting, notified>>

Outside(t) == \A c \in Cond : t \notin waiting[c] \cup notified[c]

Init ==
    /\ owner = [l \in Lock |-> Nil]
    /\ waiting = [c \in Cond |-> {}]
    /\ notified = [c \in Cond |-> {}]

Acquire(t, l) ==
    /\ owner[l] = Nil
    /\ Outside(t)
    /\ owner' = [owner EXCEPT ![l] = t]
    /\ UNCHANGED <<waiting, notified>>

Release(t, l) ==
    /\ owner[l] = t
    /\ owner' = [owner EXCEPT ![l] = Nil]
    /\ UNCHANGED <<waiting, notified>>

Wait(t, c) ==
    /\ owner[LockOf[c]] = t
    /\ owner' = [owner EXCEPT ![LockOf[c]] = Nil]
    /\ waiting' = [waiting EXCEPT ![c] = @ \cup {t}]
    /\ UNCHANGED notified

Signal(t, c) ==
    /\ owner[LockOf[c]] \notin {Nil, t}
    /\ t \in waiting[c]
    /\ waiting' = [waiting EXCEPT ![c] = @ \ {t}]
    /\ notified' = [notified EXCEPT ![c] = @ \cup {t}]
    /\ UNCHANGED owner

Return(t, c) ==
    /\ owner[LockOf[c]] = Nil
    /\ t \in notified[c]
    /\ owner' = [owner EXCEPT ![LockOf[c]] = t]
    /\ notified' = [notified EXCEPT ![c] = @ \ {t}]
    /\ UNCHANGED waiting

Next == \E t \in Thread :
    \/ \E l \in Lock : Acquire(t, l) \/ Release(t, l)
    \/ \E c \in Cond : Wait(t, c) \/ Signal(t, c) \/ Return(t, c)

Spec == Init /\ [][Next]_vars
=============================================================================
