------------------------------ MODULE MCKernel ------------------------------
(* Small instances of the Lab2 kernel for TLC.                             *)
EXTENDS KernelSafety, TLC

CONSTANTS s1, irq, tidLock, l1, c1, main, idle, t1, t2, nil

\* Threads created at run time are interchangeable.
Symmetry == Permutations(Thread \ {Main, Idle})

MCSemas == Sem \cup Lock \cup Thread
\* Below, between and above the priorities of two waiters.
MCGarbage == PriMin - 1 .. PriMax + 1

MCLockOf == [c \in Cond |-> l1]
=============================================================================
