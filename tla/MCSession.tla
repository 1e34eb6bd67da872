------------------------------ MODULE MCSession ------------------------------
(* Session at the smallest size at which its cases meet: a remote            *)
(* connection, a viewer and a lock screen; a lock service and a second       *)
(* connection of it; a program of the session.                               *)
EXTENDS Session

CONSTANTS c1, c2, c3, w1, w2, s1
MCClient == {c1, c2, c3}
MCWatcher == {w1, w2}
MCSessionWatcher == {s1}
=============================================================================
