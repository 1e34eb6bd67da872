---------------------------- MODULE MCConnections ----------------------------
(* Two connections at a time, each of which may be any number of them in turn.*)
EXTENDS Connections

CONSTANTS c1, c2
Two == {c1, c2}
=============================================================================
