-------------------------------- MODULE Modes --------------------------------
(***************************************************************************)
(* What the compositor's lock promises, with nothing said of how: at any   *)
(* time the console is in one of four modes, and the session is either at  *)
(* the console or away on a Remote Desktop output.  lock.c implements it   *)
(* with three booleans and six entry points; Session and Isolation are     *)
(* both shown to implement it.                                             *)
(***************************************************************************)
VARIABLES
  mode,   \* "open", "locked", "secure" (a consent prompt), "sas" (the security screen)
  away    \* Remote Desktop has the session

modesVars == <<mode, away>>

Init == mode = "open" /\ away = FALSE

\* From any mode, and always into a real lock.
Lock == mode' = "locked" /\ UNCHANGED away

\* A prompt and the security screen come up over the open session only:
\* never over a lock, never over one another.
Prompt == mode = "open" /\ mode' = "secure" /\ UNCHANGED away
SecurityScreen == mode = "open" /\ mode' = "sas" /\ UNCHANGED away

\* Whatever is up comes down.
Open == mode' = "open" /\ UNCHANGED away

\* The session is opened where it is going, but never from under a prompt.
Take == ~away /\ mode # "secure" /\ away' = TRUE /\ mode' = "open"

\* The session comes back locked, whatever mode it was in.
GiveBack == away /\ away' = FALSE /\ mode' = "locked"

Next == Lock \/ Prompt \/ SecurityScreen \/ Open \/ Take \/ GiveBack

Spec == Init /\ [][Next]_modesVars
=============================================================================
