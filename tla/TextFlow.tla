------------------------------ MODULE TextFlow ------------------------------
(***************************************************************************)
(* What the clipboards of the elevated displays promise (elevated.c's      *)
(* opening comment), with nothing said of selections and sources: what the *)
(* session offers reaches an elevated display by the user's own input on   *)
(* it and in no other way, is what the session offered at that moment, and *)
(* is there no longer than the session offers it.                          *)
(***************************************************************************)
CONSTANTS Display, Text, Nothing

VARIABLES
  offered,  \* the text the session offers, or Nothing
  foreign   \* per display, the text there that is not its own programs'

Init == offered = Nothing /\ foreign = [d \in Display |-> Nothing]

\* The session's clipboard changes, or a display or its selection goes.
Change ==
  /\ offered' \in Text \cup {Nothing}
  /\ foreign' \in [Display -> Text \cup {Nothing}]
  /\ \A d \in Display : foreign'[d] # Nothing => foreign'[d] = foreign[d] /\ offered' = offered

\* The user presses a key or a button on one of the display's windows.
UserInput(d) == foreign' = [foreign EXCEPT ![d] = offered] /\ UNCHANGED offered

Next == Change \/ \E d \in Display : UserInput(d)

Spec == Init /\ [][Next]_<<offered, foreign>>
=============================================================================
