---------------------------- MODULE MCUsagePoller ----------------------------
(***************************************************************************)
(* The small instances on which TLC checks UsagePoller, and the cooldown   *)
(* book through it.                                                        *)
(***************************************************************************)
EXTENDS UsagePoller

\* What a sweep can read of an account.
MCReading ==
  {{[util |-> u[w], at |-> t[w]] : w \in WindowName} :
     u \in [WindowName -> {"ok", "full"}], t \in [WindowName -> 0 .. Horizon]}

\* Every window lasts two ticks, except the weekly one where there is one.
MCLength == [w \in WindowName |-> IF w = "weekly" THEN 3 ELSE 2]
=============================================================================
