------------------------------- MODULE Cartman -------------------------------
(* The junction manager of Assignment3/cartman.c.  Critical sections of a   *)
(* circular railway join neighbouring junctions; a cart crosses one only    *)
(* while it holds the binary semaphores of both its ends.                   *)
(*                                                                          *)
(* The simulator (cartman.a, known by its header) calls arrive(), which     *)
(* returns when the cart's thread has called cross(), and depart() when the *)
(* cart is across.  It ends the program when one of the calls reserve(),    *)
(* cross(), release() breaks the rules cartman.h states; the model goes on, *)
(* and Contracts says that this never happens.                              *)
EXTENDS Integers

CONSTANTS
    Cart,
    NumJunctions,   \* 5 in the code: enum junction
    entry,          \* The junction each cart arrives at.
    None

Junction == 0 .. NumJunctions - 1

ASSUME NumJunctionsAssumption == NumJunctions \in Nat /\ NumJunctions >= 2
ASSUME EntryAssumption == entry \in [Cart -> Junction]
ASSUME NoneAssumption == None \notin Cart

VARIABLES
    sems,       \* sems[j]: the value of a junction's semaphore
    reserved,   \* reserved[j]: the cart the simulator has j reserved for
    pc          \* pc[c]: the call the thread working for cart c makes next
vars == <<sems, reserved, pc>>

-----------------------------------------------------------------------------
\* The other end of the section that starts at j, and of the one that ends
\* at j: two tests of the code, which must be inverses.
After(j) == IF j < NumJunctions - 1 THEN j + 1 ELSE 0
\* Faulty: the other end is the junction itself.
BeforeItself(j) == IF j > 0 THEN j ELSE NumJunctions - 1
Before(j) == IF j > 0 THEN j - 1 ELSE NumJunctions - 1

\* The junction the simulator hands to depart().
exit(c) == After(entry[c])

\* The calls a cart's thread makes, in order.
Pc == {"away", "wait_entry", "wait_exit", "reserve_entry", "reserve_exit", "cross",
       "crossing", "release_exit", "release_entry", "post_exit", "post_entry", "gone"}

Call(c, from, to) == pc[c] = from /\ pc' = [pc EXCEPT ![c] = to]

SemWait(j) == sems[j] > 0 /\ sems' = [sems EXCEPT ![j] = @ - 1]
SemPost(j) == sems' = [sems EXCEPT ![j] = @ + 1]

-----------------------------------------------------------------------------
Init == /\ sems = [j \in Junction |-> 1]
        /\ reserved = [j \in Junction |-> None]
        /\ pc = [c \in Cart |-> "away"]

\* Any number of carts may be in arrive() at once.
arrive(c) == Call(c, "away", "wait_entry") /\ UNCHANGED <<sems, reserved>>

WaitEntry(c) == /\ Call(c, "wait_entry", "wait_exit")
                /\ SemWait(entry[c])
                /\ UNCHANGED reserved

\* Faulty: the second junction is not waited for.
WaitExitSkipped(c) == Call(c, "wait_exit", "reserve_entry") /\ UNCHANGED <<sems, reserved>>
WaitExit(c) == /\ Call(c, "wait_exit", "reserve_entry")
               /\ SemWait(After(entry[c]))
               /\ UNCHANGED reserved

ReserveEntry(c) == /\ Call(c, "reserve_entry", "reserve_exit")
                   /\ reserved' = [reserved EXCEPT ![entry[c]] = c]
                   /\ UNCHANGED sems

ReserveExit(c) == /\ Call(c, "reserve_exit", "cross")
                  /\ reserved' = [reserved EXCEPT ![After(entry[c])] = c]
                  /\ UNCHANGED sems

\* cross() starts the cart on its way and returns: arrive() is over.
cross(c) == Call(c, "cross", "crossing") /\ UNCHANGED <<sems, reserved>>

\* The cart is across: the simulator calls depart() with its exit.
depart(c) == Call(c, "crossing", "release_exit") /\ UNCHANGED <<sems, reserved>>

ReleaseExit(c) == /\ Call(c, "release_exit", "release_entry")
                  /\ reserved' = [reserved EXCEPT ![exit(c)] = None]
                  /\ UNCHANGED sems

ReleaseEntry(c) == /\ Call(c, "release_entry", "post_exit")
                   /\ reserved' = [reserved EXCEPT ![Before(exit(c))] = None]
                   /\ UNCHANGED sems

PostExit(c) == /\ Call(c, "post_exit", "post_entry")
               /\ SemPost(exit(c))
               /\ UNCHANGED reserved

\* Faulty: depart() posts one semaphore.
PostEntrySkipped(c) == Call(c, "post_entry", "gone") /\ UNCHANGED <<sems, reserved>>
PostEntry(c) == /\ Call(c, "post_entry", "gone")
                /\ SemPost(Before(exit(c)))
                /\ UNCHANGED reserved

Step(c) == \/ arrive(c) \/ WaitEntry(c) \/ WaitExit(c)
           \/ ReserveEntry(c) \/ ReserveExit(c) \/ cross(c) \/ depart(c)
           \/ ReleaseExit(c) \/ ReleaseEntry(c) \/ PostExit(c) \/ PostEntry(c)

Next == \E c \in Cart : Step(c)

Spec == Init /\ [][Next]_vars
\* A started thread runs on, and the simulator brings every cart along.
FairSpec == Spec /\ \A c \in Cart : WF_vars(Step(c))

-----------------------------------------------------------------------------
\* The cart holds the semaphore of j.
Owns(c, j) ==
    \/ j = entry[c] /\ pc[c] \notin {"away", "wait_entry", "gone"}
    \/ j = exit(c) /\ pc[c] \notin {"away", "wait_entry", "wait_exit", "post_entry", "gone"}

TypeOK == /\ sems \in [Junction -> 0 .. 1]
          /\ reserved \in [Junction -> Cart \cup {None}]
          /\ pc \in [Cart -> Pc]

\* No call of the simulator is refused (cartman.h:17-45): a junction is free
\* when it is reserved, a cart crosses between two junctions it has reserved
\* while no other cart is on a section that touches them, and releases what
\* is its own.
Contracts == \A c \in Cart :
    LET ends == {entry[c], exit(c)} IN
    /\ pc[c] = "reserve_entry" => reserved[entry[c]] = None
    /\ pc[c] = "reserve_exit" => reserved[exit(c)] = None
    /\ pc[c] = "cross" => \A j \in ends : reserved[j] = c
    /\ pc[c] = "crossing" => \A d \in Cart \ {c} :
           pc[d] = "crossing" => {entry[d], exit(d)} \cap ends = {}
    /\ pc[c] = "release_exit" => reserved[exit(c)] = c
    /\ pc[c] = "release_entry" => reserved[Before(exit(c))] = c

\* No permit is lost or made: a junction's semaphore is down exactly while
\* one cart holds it, whatever the order in which carts arrive and depart.
Accounted == \A j \in Junction :
    /\ sems[j] = 1 <=> \A c \in Cart : ~Owns(c, j)
    /\ \A c, d \in Cart : Owns(c, j) /\ Owns(d, j) => c = d

\* A cart at every junction holds it and waits for the next one (cartman.c:36,
\* :46): no semaphore is up, and no cart is left that would post one.
RingClosed == \A j \in Junction : \E c \in Cart : entry[c] = j /\ pc[c] = "wait_exit"

\* The closed ring is the only way to stop: unless every junction is held by
\* a cart that waits for the next one, each cart crosses in the end, however
\* the carts arrive, and no departure leaves a junction closed.
StopsOnlyInRing == \A c \in Cart : <>(pc[c] = "gone" \/ RingClosed)

\* Every cart crosses, as the deadlock test expects (check.sh:57-63 counts
\* the simulator's "PASS All carts crossed safely").  It does not hold: the
\* ring closes when a cart at each junction has taken its first semaphore.
EveryCartCrosses == \A c \in Cart : <>(pc[c] = "gone")
=============================================================================
