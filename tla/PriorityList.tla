---------------------------- MODULE PriorityList ----------------------------
(***************************************************************************)
(* The intrusive lists of lib/kernel/list.c as the scheduler uses them: a  *)
(* list is the sequence of its elements from front to back, and the        *)
(* comparator of the Lab2 kernel (thread_less_func, sema_less_func) says   *)
(* that an element goes before another one of strictly smaller priority.   *)
(* `pri' is the function from elements to priorities.                      *)
(***************************************************************************)
EXTENDS Integers, Sequences

\* Faulty: an element goes before those of its own priority too.
BeforeOrEqual(a, b, pri) == pri[a] >= pri[b]

\* thread_less_func(a, b): the comparator given to list_insert_ordered().
Before(a, b, pri) == pri[a] > pri[b]

\* Index before which list_insert_ordered() stops: the first element the new
\* one goes before, or one past the end.
IsInsertIndex(k, list, e, pri) ==
    /\ k \in 1 .. Len(list) + 1
    /\ \A i \in 1 .. k - 1 : ~Before(e, list[i], pri)
    /\ k <= Len(list) => Before(e, list[k], pri)

\* list_insert(): e is linked in just before position k.
InsertBefore(k, list, e) ==
    [i \in 1 .. Len(list) + 1 |->
        IF i < k THEN list[i] ELSE IF i = k THEN e ELSE list[i - 1]]

\* list_insert_ordered(list, e, less).
InsertOrdered(list, e, pri) ==
    InsertBefore(CHOOSE k \in 1 .. Len(list) + 1 : IsInsertIndex(k, list, e, pri),
                 list, e)

\* What is left of a list after list_pop_front(); the empty list stays empty.
AfterPop(list) == IF list = << >> THEN << >> ELSE Tail(list)

\* The members of a list.
Members(list) == {list[i] : i \in 1 .. Len(list)}

\* No element occurs twice: an element is one set of links.
Linear(list) == \A i, j \in 1 .. Len(list) : list[i] = list[j] => i = j

\* Highest priority first.
Sorted(list, pri) ==
    \A i, j \in 1 .. Len(list) : i < j => pri[list[i]] >= pri[list[j]]

\* list_sort() is a stable merge sort: q arranges the indices of the list so
\* that keys do not increase and equal keys keep their order.
StableOrders(list, key) ==
    {q \in [1 .. Len(list) -> 1 .. Len(list)] :
        \A i, j \in 1 .. Len(list) :
            i < j => \/ key[list[q[i]]] > key[list[q[j]]]
                     \/ key[list[q[i]]] = key[list[q[j]]] /\ q[i] < q[j]}

\* The list rearranged by q.
Arranged(list, q) == [i \in 1 .. Len(list) |-> list[q[i]]]
=============================================================================
