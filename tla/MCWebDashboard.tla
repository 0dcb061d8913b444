--------------------------- MODULE MCWebDashboard ---------------------------
(* Bounds for model checking WebDashboard.                                 *)
EXTENDS WebDashboard

Bounds(clicks, started, restarts, losses, tabs) ==
  [clicks |-> clicks, jobs |-> started, restarts |-> restarts, losses |-> losses, tabs |-> tabs]
MCBudgets == {Bounds(2, 1, 0, 1, 0), Bounds(0, 1, 1, 1, 1)}
=============================================================================
