---------------------------- MODULE CartmanProofs ----------------------------
(* Proofs about Cartman for every ring of two junctions or more and every   *)
(* set of carts, whatever the order in which they arrive.                   *)
EXTENDS Cartman, TLAPS

\* The simulator has j reserved for c.
HasReserved(c, j) ==
    \/ /\ j = entry[c]
       /\ pc[c] \in {"reserve_exit", "cross", "crossing", "release_exit", "release_entry"}
    \/ j = exit(c) /\ pc[c] \in {"cross", "crossing", "release_exit"}

ReservedMatches == \A j \in Junction, c \in Cart : reserved[j] = c <=> HasReserved(c, j)

\* The inductive invariant: reservations follow the semaphores.
IInv == TypeOK /\ Accounted /\ ReservedMatches

\* The two tests of the code, junction < 4 and junction > 0, undo each
\* other: depart() reaches the junction that arrive() took first.
LEMMA Ends ==
    ASSUME NEW c \in Cart
    PROVE  /\ entry[c] \in Junction
           /\ exit(c) \in Junction
           /\ exit(c) # entry[c]
           /\ exit(c) = After(entry[c])
           /\ Before(exit(c)) = entry[c]
<1>1. entry[c] \in Junction
  BY EntryAssumption
<1>2. exit(c) = After(entry[c])
  BY DEF exit
<1> QED
  BY <1>1, <1>2, NumJunctionsAssumption DEF Junction, After, Before

LEMMA InitIInv == Init => IInv
<1> SUFFICES ASSUME Init PROVE IInv
  OBVIOUS
<1>1. TypeOK
  BY DEF Init, TypeOK, Pc
<1>2. Accounted
  BY DEF Init, Accounted, Owns
<1>3. ReservedMatches
  BY NoneAssumption DEF Init, ReservedMatches, HasReserved
<1> QED
  BY <1>1, <1>2, <1>3 DEF IInv

LEMMA NextIInv == IInv /\ [Next]_vars => IInv'
<1> SUFFICES ASSUME IInv, [Next]_vars PROVE IInv'
  OBVIOUS
<1> USE DEF IInv
<1>1. ASSUME NEW c \in Cart, Step(c) PROVE IInv'
  <2> DEFINE e == entry[c]
             x == exit(c)
  <2>0. e \in Junction /\ x \in Junction /\ x # e /\ After(entry[c]) = x /\ Before(x) = e
    BY Ends
  <2>1. CASE arrive(c) \/ cross(c) \/ depart(c)
    <3>1. TypeOK'
      BY <2>1 DEF TypeOK, arrive, cross, depart, Call, Pc
    <3>2. Accounted'
      BY <2>1 DEF TypeOK, arrive, cross, depart, Call, Accounted, Owns, exit
    <3>3. ReservedMatches'
      BY <2>1 DEF TypeOK, arrive, cross, depart, Call, ReservedMatches, HasReserved, exit
    <3> QED
      BY <3>1, <3>2, <3>3
  <2>2. CASE WaitEntry(c)
    <3>1. TypeOK'
      BY <2>0, <2>2 DEF TypeOK, WaitEntry, Call, SemWait, Pc
    <3>2. Accounted'
      BY <2>0, <2>2 DEF TypeOK, WaitEntry, Call, SemWait, Accounted, Owns, exit
    <3>3. ReservedMatches'
      BY <2>2 DEF TypeOK, WaitEntry, Call, ReservedMatches, HasReserved, exit
    <3> QED
      BY <3>1, <3>2, <3>3
  <2>3. CASE WaitExit(c)
    <3>1. TypeOK'
      BY <2>0, <2>3 DEF TypeOK, WaitExit, Call, SemWait, Pc
    <3>2. Accounted'
      BY <2>0, <2>3 DEF TypeOK, WaitExit, Call, SemWait, Accounted, Owns, exit
    <3>3. ReservedMatches'
      BY <2>3 DEF TypeOK, WaitExit, Call, ReservedMatches, HasReserved, exit
    <3> QED
      BY <3>1, <3>2, <3>3
  <2>4. CASE ReserveEntry(c) \/ ReserveExit(c)
    <3>1. TypeOK'
      BY <2>0, <2>4 DEF TypeOK, ReserveEntry, ReserveExit, Call, Pc
    <3>2. Accounted'
      BY <2>4 DEF TypeOK, ReserveEntry, ReserveExit, Call, Accounted, Owns, exit
    <3>3. ReservedMatches'
      BY <2>0, <2>4, NoneAssumption DEF TypeOK, ReserveEntry, ReserveExit, Call,
           Accounted, Owns, ReservedMatches, HasReserved, exit
    <3> QED
      BY <3>1, <3>2, <3>3
  <2>5. CASE ReleaseExit(c) \/ ReleaseEntry(c)
    <3>1. TypeOK'
      BY <2>0, <2>5 DEF TypeOK, ReleaseEntry, ReleaseExit, Call, Pc
    <3>2. Accounted'
      BY <2>5 DEF TypeOK, ReleaseEntry, ReleaseExit, Call, Accounted, Owns, exit
    <3>3. ReservedMatches'
      BY <2>0, <2>5, NoneAssumption DEF TypeOK, ReleaseEntry, ReleaseExit, Call,
           ReservedMatches, HasReserved, exit
    <3> QED
      BY <3>1, <3>2, <3>3
  <2>6. CASE PostExit(c) \/ PostEntry(c)
    <3>1. TypeOK'
      BY <2>0, <2>6 DEF TypeOK, PostExit, PostEntry, Call, SemPost, Pc, Accounted, Owns
    <3>2. Accounted'
      BY <2>0, <2>6 DEF TypeOK, PostExit, PostEntry, Call, SemPost, Accounted, Owns, exit
    <3>3. ReservedMatches'
      BY <2>6 DEF TypeOK, PostExit, PostEntry, Call, ReservedMatches, HasReserved, exit
    <3> QED
      BY <3>1, <3>2, <3>3
  <2> QED
    BY <1>1, <2>1, <2>2, <2>3, <2>4, <2>5, <2>6 DEF Step
<1>2. CASE UNCHANGED vars
  BY <1>2 DEF vars, TypeOK, Accounted, Owns, ReservedMatches, HasReserved, exit
<1> QED
  BY <1>1, <1>2 DEF Next

\* Contracts follows: a cart that is about to reserve a junction owns it.
LEMMA IInvContracts == IInv => Contracts
<1> SUFFICES ASSUME IInv, NEW c \in Cart PROVE
      LET ends == {entry[c], exit(c)} IN
      /\ pc[c] = "reserve_entry" => reserved[entry[c]] = None
      /\ pc[c] = "reserve_exit" => reserved[exit(c)] = None
      /\ pc[c] = "cross" => \A j \in ends : reserved[j] = c
      /\ pc[c] = "crossing" => \A d \in Cart \ {c} :
             pc[d] = "crossing" => {entry[d], exit(d)} \cap ends = {}
      /\ pc[c] = "release_exit" => reserved[exit(c)] = c
      /\ pc[c] = "release_entry" => reserved[Before(exit(c))] = c
  BY DEF Contracts
<1>1. \A d \in Cart : /\ entry[d] \in Junction /\ exit(d) \in Junction
                      /\ exit(d) # entry[d] /\ Before(exit(d)) = entry[d]
  BY Ends
<1>2. \A d \in Cart, j \in Junction : HasReserved(d, j) => Owns(d, j)
  BY DEF HasReserved, Owns
<1>3. ASSUME NEW j \in Junction, Owns(c, j), ~HasReserved(c, j)
      PROVE  reserved[j] = None
  <2>1. ASSUME NEW d \in Cart, reserved[j] = d PROVE FALSE
    <3>1. HasReserved(d, j)
      BY <2>1 DEF IInv, ReservedMatches
    <3>2. c = d
      BY <3>1, <1>2, <1>3 DEF IInv, Accounted
    <3> QED
      BY <3>1, <3>2, <1>3
  <2> QED
    BY <2>1 DEF IInv, TypeOK
<1>4. pc[c] = "reserve_entry" => reserved[entry[c]] = None
  BY <1>1, <1>3 DEF Owns, HasReserved
<1>5. pc[c] = "reserve_exit" => reserved[exit(c)] = None
  BY <1>1, <1>3 DEF Owns, HasReserved
<1>6. pc[c] = "cross" => reserved[entry[c]] = c /\ reserved[exit(c)] = c
  BY <1>1 DEF IInv, ReservedMatches, HasReserved
<1>7. ASSUME pc[c] = "crossing", NEW d \in Cart \ {c}, pc[d] = "crossing"
      PROVE  {entry[d], exit(d)} \cap {entry[c], exit(c)} = {}
  <2>1. \A j \in {entry[c], exit(c)} : reserved[j] = c
    BY <1>1, <1>7 DEF IInv, ReservedMatches, HasReserved
  <2>2. \A j \in {entry[d], exit(d)} : reserved[j] = d
    BY <1>1, <1>7 DEF IInv, ReservedMatches, HasReserved
  <2> QED
    BY <2>1, <2>2
<1>8. pc[c] = "release_exit" => reserved[exit(c)] = c
  BY <1>1 DEF IInv, ReservedMatches, HasReserved
<1>9. pc[c] = "release_entry" => reserved[Before(exit(c))] = c
  BY <1>1 DEF IInv, ReservedMatches, HasReserved
<1> QED
  BY <1>4, <1>5, <1>6, <1>7, <1>8, <1>9

\* No permit of a junction is lost or made, in whatever order carts arrive at it
\* and depart from it (arrive(), depart()).
THEOREM PermitsKept == Spec => []Accounted
<1>1. IInv => Accounted
  BY DEF IInv
<1> QED
  BY <1>1, InitIInv, NextIInv, PTL DEF Spec

\* The simulator never refuses a call of the manager, whatever the number of
\* junctions, carts and simultaneous arrivals (cartThreadFunc(), depart()).
THEOREM CartsSafe == Spec => [](TypeOK /\ Accounted /\ Contracts)
<1>1. IInv => TypeOK /\ Accounted
  BY DEF IInv
<1> QED
  BY <1>1, InitIInv, NextIInv, IInvContracts, PTL DEF Spec
=============================================================================
