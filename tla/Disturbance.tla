---------------------------- MODULE Disturbance ----------------------------
(* What the models of a machine share: the accounts, and a bound on what      *)
(* happens to it from outside.                                                *)
EXTENDS Naturals

CONSTANTS Account,
          None,      \* no account, no token
          MaxTrouble \* bound: disturbances in a behaviour; each module says which

VARIABLE trouble     \* disturbances so far

Disturb == trouble < MaxTrouble /\ trouble' = trouble + 1
Calm == UNCHANGED trouble
=============================================================================
