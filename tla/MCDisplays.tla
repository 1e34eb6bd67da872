----------------------------- MODULE MCDisplays -----------------------------
(* Displays with three of them, which the session's clipboard lies between:  *)
(* a chain from one display through the session to each of two others.       *)
EXTENDS Displays

CONSTANTS d1, d2, d3, t1, t2
ThreeDisplays == {d1, d2, d3}
TwoTexts == {t1, t2}
=============================================================================
