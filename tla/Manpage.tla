------------------------------- MODULE Manpage -------------------------------
(* Assignment3/manpage.c: one thread per paragraph of a page, chained by    *)
(* semaphores.  Which thread gets which paragraph is the library's choice   *)
(* (getParagraphId() of manpage.a, known by its header).                    *)
EXTENDS Integers, Sequences

CONSTANT NumParagraphs      \* 7 in the code
ASSUME NumParagraphsAssumption == NumParagraphs \in Nat \ {0}

Paragraph == 0 .. NumParagraphs - 1
\* Threads are numbered in the order manpage() creates and joins them.
Thread == Paragraph

VARIABLES
    pid,        \* pid[t]: the paragraph of a thread, NumParagraphs while unknown
    pc,         \* pc[t]: what the thread does next
    sems,
    destroyed,  \* the semaphores manpage() has destroyed
    joined,     \* how many threads manpage() has joined
    page        \* the paragraphs shown so far
vars == <<pid, pc, sems, destroyed, joined, page>>

Go(t, from, to) == pc[t] = from /\ pc' = [pc EXCEPT ![t] = to]

\* The threads are created before the first is joined; one that has not been
\* created yet is one that has not taken a step.
Init == /\ pid = [t \in Thread |-> NumParagraphs]
        /\ pc = [t \in Thread |-> "start"]
        /\ sems = [p \in Paragraph |-> 0]
        /\ destroyed = {}
        /\ joined = 0
        /\ page = <<>>

getParagraphId(t) ==
    /\ Go(t, "start", "wait")
    /\ \E p \in Paragraph : (\A u \in Thread : pid[u] # p) /\ pid' = [pid EXCEPT ![t] = p]
    /\ UNCHANGED <<sems, destroyed, joined, page>>

\* Faulty: every paragraph but the second waits, off by one.
WaitLate(t) ==
    /\ Go(t, "wait", "show")
    /\ sems' = IF pid[t] > 1 THEN [sems EXCEPT ![pid[t] - 1] = @ - 1] ELSE sems
    /\ pid[t] > 1 => sems[pid[t] - 1] > 0
    /\ UNCHANGED <<pid, destroyed, joined, page>>

Wait(t) ==
    /\ Go(t, "wait", "show")
    /\ pid[t] > 0 => sems[pid[t] - 1] > 0
    /\ sems' = IF pid[t] > 0 THEN [sems EXCEPT ![pid[t] - 1] = @ - 1] ELSE sems
    /\ UNCHANGED <<pid, destroyed, joined, page>>

showParagraph(t) ==
    /\ Go(t, "show", "post")
    /\ page' = Append(page, pid[t])
    /\ UNCHANGED <<pid, sems, destroyed, joined>>

\* Faulty: the last paragraph but one does not raise its semaphore.
PostShort(t) ==
    /\ Go(t, "post", "exited")
    /\ sems' = IF pid[t] < NumParagraphs - 2 THEN [sems EXCEPT ![pid[t]] = @ + 1] ELSE sems
    /\ UNCHANGED <<pid, destroyed, joined, page>>

Post(t) ==
    /\ Go(t, "post", "exited")
    /\ sems' = IF pid[t] < NumParagraphs - 1 THEN [sems EXCEPT ![pid[t]] = @ + 1] ELSE sems
    /\ UNCHANGED <<pid, destroyed, joined, page>>

\* pthread_join() of the next thread, then sem_destroy() of the semaphore
\* with its number.  The C library's sem_destroy() leaves the value alone.
JoinAndDestroy ==
    /\ joined < NumParagraphs
    /\ pc[joined] = "exited"
    /\ destroyed' = destroyed \cup {joined}
    /\ joined' = joined + 1
    /\ UNCHANGED <<pid, pc, sems, page>>

Next == \/ \E t \in Thread : getParagraphId(t) \/ Wait(t) \/ showParagraph(t) \/ Post(t)
        \/ JoinAndDestroy

Spec == Init /\ [][Next]_vars
\* Threads run on, the main one included.
FairSpec == /\ Spec
            /\ WF_vars(JoinAndDestroy)
            /\ \A t \in Thread : WF_vars(getParagraphId(t) \/ Wait(t) \/ showParagraph(t) \/ Post(t))

-----------------------------------------------------------------------------
\* The page is shown in order (manpage.h:20-22), whoever shows each paragraph
\* and however its thread is delayed.
InOrder == \A i \in 1 .. Len(page) : page[i] = i - 1

\* The whole page is shown and manpage() returns.
PageShown == <>(joined = NumParagraphs /\ Len(page) = NumParagraphs)
=============================================================================
