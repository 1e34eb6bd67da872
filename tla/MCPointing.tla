----------------------------- MODULE MCPointing -----------------------------
(* Pointing with a program's Wayland window, an X11 program with a bar and a *)
(* lock screen.  The programs both take a pen, the X11 one because Xwayland  *)
(* does.                                                                     *)
EXTENDS Pointing

CONSTANTS wayland, office, lockScreen, left, f1
Natives == {wayland}
Linuxes == {office}
Programs == {wayland, office}
LockScreens == {lockScreen}
Windows == {wayland, office, lockScreen}
=============================================================================
