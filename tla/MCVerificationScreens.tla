----------------------- MODULE MCVerificationScreens -----------------------
(***************************************************************************)
(* Model values and small instances for checking VerificationScreens.      *)
(***************************************************************************)
EXTENDS VerificationScreens, TLC

CONSTANTS p1, p2, k1

TwoPanels == {p1, p2}

\* Two citizens who opened the page without a call share one call id.
AllStandalone == [p \in Panels |-> "standalone"]

OneCode == {k1}

PanelSymmetry == Permutations(Panels)
=============================================================================
