----------------------------- MODULE IntrusiveList -----------------------------
(* lib/kernel/list.c: doubly linked lists whose links live inside their      *)
(* elements.  An element does not know which list it is on, and one that is  *)
(* put on a second list takes part of the first with it, so lists are        *)
(* modelled by their pointers and not by sequences.                          *)
EXTENDS Integers, FiniteSets

CONSTANTS Elem, ListName, NULL

HeadOf(L) == <<L, "head">>
TailOf(L) == <<L, "tail">>
ASSUME NodeAssumption ==
    \A L \in ListName : {HeadOf(L), TailOf(L)} \cap Elem = {} /\ NULL \notin Elem \cup {HeadOf(L), TailOf(L)}
Node == Elem \cup {HeadOf(L) : L \in ListName} \cup {TailOf(L) : L \in ListName}

\* The links of an empty list and of an element zeroed or never inserted.
EmptyLinks ==
    [next |-> [n \in Node |-> IF n \in {HeadOf(L) : L \in ListName} THEN TailOf(n[1]) ELSE NULL],
     prev |-> [n \in Node |-> IF n \in {TailOf(L) : L \in ListName} THEN HeadOf(n[1]) ELSE NULL]]

\* Faulty: the link back from before is forgotten.
list_insert_forward(m, before, elem) ==
    [next |-> [m.next EXCEPT ![elem] = before, ![m.prev[before]] = elem],
     prev |-> [m.prev EXCEPT ![elem] = m.prev[before]]]
\* Faulty: the link forward is written to before itself.
list_insert_after(m, before, elem) ==
    [next |-> [m.next EXCEPT ![elem] = before, ![before] = elem],
     prev |-> [m.prev EXCEPT ![elem] = m.prev[before], ![before] = elem]]

\* Assignments in the order of the code: elem may itself be before's
\* predecessor, when it is inserted where it already is.
list_insert(m, before, elem) ==
    [next |-> [m.next EXCEPT ![elem] = before, ![m.prev[before]] = elem],
     prev |-> [m.prev EXCEPT ![elem] = m.prev[before], ![before] = elem]]

list_push_back(m, L, elem) == list_insert(m, TailOf(L), elem)

\* The removed element keeps its links.
list_remove(m, elem) ==
    LET next == [m.next EXCEPT ![m.prev[elem]] = m.next[elem]]
    IN  [next |-> next, prev |-> [m.prev EXCEPT ![next[elem]] = m.prev[elem]]]

list_empty(m, L) == m.next[HeadOf(L)] = TailOf(L)
list_front(m, L) == m.next[HeadOf(L)]

\* The n-th node of a walk from the head, and of one back from the tail.
Forward(m, L, n) ==
    LET at[i \in Nat] == IF i = 0 THEN HeadOf(L)
                         ELSE IF at[i - 1] = TailOf(L) THEN TailOf(L) ELSE m.next[at[i - 1]]
    IN  at[n]
Backward(m, L, n) ==
    LET at[i \in Nat] == IF i = 0 THEN TailOf(L)
                         ELSE IF at[i - 1] = HeadOf(L) THEN HeadOf(L) ELSE m.prev[at[i - 1]]
    IN  at[n]

Found(m, L) == {Forward(m, L, n) : n \in 1 .. Cardinality(Elem)} \cap Elem

\* L holds the elements of S, each once, in both directions.
IsListOf(m, L, S) ==
    LET k == Cardinality(S) IN
    /\ S = {Forward(m, L, n) : n \in 1 .. k}
    /\ Forward(m, L, k + 1) = TailOf(L)
    /\ \A n \in 0 .. k + 1 : Backward(m, L, n) = Forward(m, L, k + 1 - n)
=============================================================================
