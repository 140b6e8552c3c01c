------------------------------ MODULE MCCartman ------------------------------
(* Small instances of the junction manager for TLC.                         *)
EXTENDS Cartman, TLC

CONSTANTS c1, c2, c3, c4, c5, c6

\* One cart at each junction, as in the simulator's deadlock test, and a
\* second one at the junction where the ring closes.
MCEntry == c1 :> 0 @@ c2 :> 1 @@ c3 :> 2 @@ c4 :> 3 @@ c5 :> 4 @@ c6 :> 4
=============================================================================
