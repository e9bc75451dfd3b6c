----------------------------- MODULE MCRefresher -----------------------------
(***************************************************************************)
(* The small instances on which TLC checks Refresher.                      *)
(***************************************************************************)
EXTENDS Refresher, TLC

Symmetry == Permutations(Flight) \cup Permutations(Worker)
=============================================================================
