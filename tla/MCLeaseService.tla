--------------------------- MODULE MCLeaseService ---------------------------
(***************************************************************************)
(* The small instances on which TLC checks LeaseService.                   *)
(***************************************************************************)
EXTENDS LeaseService, TLC

Symmetry == Permutations(Account) \cup Permutations(Worker) \cup Permutations(Request)
=============================================================================
