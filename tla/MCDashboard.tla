----------------------------- MODULE MCDashboard -----------------------------
(* Two accounts whose ids share their first characters.                     *)
EXTENDS DashboardPage

MCAlike == [a \in Account |-> "p"]
=============================================================================
