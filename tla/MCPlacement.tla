----------------------------- MODULE MCPlacement -----------------------------
(* Placement with two desktops; which is the console's makes no difference   *)
(* to a window.                                                              *)
EXTENDS Placement, TLC

CONSTANTS console, away
TwoDesks == {console, away}
DesksAlike == Permutations(Desk)
=============================================================================
