---------------------------- MODULE MCDashboard ----------------------------
(***************************************************************************)
(* Model values and small instances for checking Dashboard.                *)
(***************************************************************************)
EXTENDS Dashboard, TLC

CONSTANTS c1, c2

TwoCalls == {c1, c2}
FirstIsHigh == {c1}
AllOrHigh == {Calls, High}
=============================================================================
