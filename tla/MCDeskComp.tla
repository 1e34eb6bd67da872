----------------------------- MODULE MCDeskComp -----------------------------
(* sg-deskcomp with an animated window and a plain one; DirectOnTop.cfg has  *)
(* three plain ones.                                                        *)
EXTENDS DeskComp

CONSTANTS editor, popup, game
Two == {editor, popup}
Three == {editor, popup, game}
NoneFramed == {}
JustEditor == {editor}
=============================================================================
