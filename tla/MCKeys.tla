------------------------------- MODULE MCKeys -------------------------------
(* Keys with two keys that may be consumed and two that may not, and a      *)
(* window of each kind.                                                     *)
EXTENDS Keys

CONSTANTS l, tab, a, super, program, desktop, elevated, lockScreen
MCKey == {l, tab, a, super}
MCReserved == {l, tab}
Programs == {program}
ElevatedOnes == {elevated}
LockScreens == {lockScreen}
=============================================================================
