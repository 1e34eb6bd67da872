-------------------------------- MODULE Keys --------------------------------
(***************************************************************************)
(* What becomes of the keys of the console's keyboard (seat.c): some the   *)
(* compositor consumes, press and release; some move the focus first and   *)
(* have their press held back; all others go to the window that has the    *)
(* keyboard, which is told on entering which keys are down.                *)
(*                                                                         *)
(* Which modifiers are down is not modelled: a press comes with what it    *)
(* asks for (how).  Nor are the windows, beyond the kinds the keys tell    *)
(* apart; the focus may move at any time to one the lock allows.  While    *)
(* the session is away the remote user types on a keyboard of its own,     *)
(* which is not modelled: knows speaks of the console's keys.              *)
(***************************************************************************)
EXTENDS Naturals, FiniteSets

CONSTANTS
  Key, NoKey,
  Reserved,      \* keys the compositor consumes with some modifiers: L, Delete, ...
  Tab,           \* ... and Tab
  MaxConsumed,   \* CG_MAX_CONSUMED
  Program,       \* the session's windows, but for ...
  Desktop,       \* ... the shell's desktop
  Elevated,      \* an elevated program's windows
  LockScreen,    \* privileged windows
  NoWindow,
  AllowVtSwitch  \* server->allow_vt_switch

Window == Program \cup {Desktop} \cup Elevated \cup LockScreen

ASSUME NothingIsNothing == NoKey \notin Key /\ NoWindow \notin Window
ASSUME KindsOfWindow ==
  /\ Desktop \notin Program /\ Elevated \cap LockScreen = {}
  /\ (Program \cup {Desktop}) \cap (Elevated \cup LockScreen) = {}
\* The list has a slot for every key of a keyboard that can get into it: L, the
\* two Deletes, Backspace, three volume keys and Tab.
ASSUME SlotsSuffice ==
  /\ Tab \in Reserved /\ Reserved \subseteq Key
  /\ IsFiniteSet(Reserved) /\ MaxConsumed \in Nat /\ Cardinality(Reserved) <= MaxConsumed

VARIABLES
  down,      \* keyboard->keycodes: the keys that are down
  consumed,  \* consumed_keys
  switchKey, \* seat->switch_keycode
  heldPress, \* seat->held_press_keycode
  focus,     \* the window with the keyboard
  knows,     \* the keys that window was told are down, and not since told are up
  locked,    \* the isolation is engaged
  remote,    \* Remote Desktop has the session
  missed,    \* history: a press or a release has been dropped while it had
  withheld   \* history: the keys down whose press went to a virtual terminal

vars == <<down, consumed, switchKey, heldPress, focus, knows, locked, remote, missed, withheld>>

TypeOK ==
  /\ down \subseteq Key
  /\ consumed \in [1..MaxConsumed -> Key \cup {NoKey}]
  /\ switchKey \in Key \cup {NoKey} /\ heldPress \in Key \cup {NoKey}
  /\ focus \in Window \cup {NoWindow}
  /\ knows \subseteq Key
  /\ locked \in BOOLEAN /\ remote \in BOOLEAN
  /\ missed \in BOOLEAN /\ withheld \subseteq Key

Init ==
  /\ down = {} /\ consumed = [i \in 1..MaxConsumed |-> NoKey]
  /\ switchKey = NoKey /\ heldPress = NoKey
  /\ focus = NoWindow /\ knows = {}
  /\ locked = FALSE /\ remote = FALSE
  /\ missed = FALSE /\ withheld = {}

----------------------------------------------------------------------------
(* The consumed keys.                                                      *)

Slots(k) == {i \in 1..MaxConsumed : consumed[i] = k}

FirstSlot(k) == CHOOSE i \in Slots(k) : \A j \in Slots(k) : i <= j

mark_consumed(k) ==
  consumed' = IF Slots(NoKey) = {} THEN consumed ELSE [consumed EXCEPT ![FirstSlot(NoKey)] = k]

\* Mutant: the entry found stays in the list.
Take_Keeps(k) == Slots(k) # {} /\ UNCHANGED consumed

\* take_consumed_release, when it finds the key.
Take(k) == Slots(k) # {} /\ consumed' = [consumed EXCEPT ![FirstSlot(k)] = NoKey]

----------------------------------------------------------------------------
(* The focus.                                                              *)

Allowed == IF locked THEN LockScreen ELSE Window

\* wlr_seat_keyboard_notify_enter from seat_set_focus: the window is told of
\* the keys that are down, but for the one that moved the focus.
Enter(w, skip) == focus' = w /\ knows' = down' \ {skip}

\* The keyboard taken from every window.
Clear == focus' = NoWindow /\ knows' = {}

\* lock_engage on an open console: isolate.
isolate == locked' = TRUE /\ (Clear \/ \E w \in LockScreen : Enter(w, NoKey))

\* What the window knows once a held press has gone to it, ahead of the event.
Told == IF heldPress = NoKey \/ focus = NoWindow THEN knows ELSE knows \cup {heldPress}

Stays(known) == UNCHANGED <<focus, locked>> /\ knows' = known

----------------------------------------------------------------------------
(* handle_key_event, for a key of the console.                             *)

\* Mutant: a reserved key that does nothing is not marked.
PressReserved_Unmarked(k) ==
  /\ k \in Reserved \ {Tab}
  /\ UNCHANGED consumed
  /\ Stays(Told) \/ (~locked /\ isolate)
  /\ heldPress' = NoKey
  /\ UNCHANGED switchKey

\* A reserved key: Win+L and Ctrl+Alt+Del may lock; the volume keys and the
\* shell's reload key do nothing here.
PressReserved(k) ==
  /\ k \in Reserved \ {Tab}
  /\ mark_consumed(k)
  /\ Stays(Told) \/ (~locked /\ isolate)
  /\ heldPress' = NoKey
  /\ UNCHANGED switchKey

\* Mutant: the session has the focus at once, on the press.
PressSwitch_AtOnce(k) ==
  /\ k = Tab /\ focus \in Elevated
  /\ mark_consumed(k)
  /\ switchKey' = NoKey
  /\ \E w \in Program \cup {Desktop} : Enter(w, NoKey)
  /\ UNCHANGED locked
  /\ heldPress' = NoKey

\* Alt+Tab in an elevated window: the switch comes with Tab's release.
PressSwitch(k) ==
  /\ k = Tab /\ focus \in Elevated
  /\ mark_consumed(k)
  /\ switchKey' = k
  /\ Stays(Told)
  /\ heldPress' = NoKey

\* Mutant: the key counts as consumed, as it is not sent at once.
PressShell_Consumed(k) ==
  /\ focus \in Program
  /\ mark_consumed(k)
  /\ Enter(Desktop, k)
  /\ heldPress' = k
  /\ UNCHANGED <<switchKey, locked>>

\* One of the shell's keys in a Linux program's window: session_x11_super.
PressShell(k) ==
  /\ focus \in Program
  /\ Enter(Desktop, k)
  /\ heldPress' = k
  /\ UNCHANGED <<consumed, switchKey, locked>>

\* Any other key goes to the window.
PressPlain(k) ==
  /\ Stays(IF focus = NoWindow THEN {} ELSE Told \cup {k})
  /\ heldPress' = NoKey
  /\ UNCHANGED <<consumed, switchKey>>

\* Mutant: taken back at the console without locking.
PressAway_Open(k) ==
  /\ \/ /\ k \in Reserved \ {Tab}
        /\ remote' = FALSE
        /\ mark_consumed(k)
        /\ Stays(knows)
        /\ UNCHANGED missed
     \/ missed' = TRUE /\ UNCHANGED <<consumed, focus, knows, locked, remote>>
  /\ UNCHANGED <<switchKey, heldPress, withheld>>

\* Remote Desktop has the session: Ctrl+Alt+Del takes it back, locked; every
\* other key is dropped.
PressAway(k) ==
  /\ \/ /\ k \in Reserved \ {Tab}
        /\ remote' = FALSE
        /\ mark_consumed(k)
        /\ IF locked THEN Stays(knows) ELSE isolate
        /\ UNCHANGED missed
     \/ missed' = TRUE /\ UNCHANGED <<consumed, focus, knows, locked, remote>>
  /\ UNCHANGED <<switchKey, heldPress, withheld>>

\* handle_keybinding: the console goes to another virtual terminal.
PressVtSwitch(k) ==
  /\ AllowVtSwitch /\ k \notin Reserved
  /\ Stays(Told)
  /\ heldPress' = NoKey
  /\ withheld' = withheld \cup {k}
  /\ UNCHANGED <<consumed, switchKey>>

Press(k) ==
  /\ k \notin down
  /\ down' = down \cup {k}
  /\ \/ remote /\ PressAway(k)
     \/ ~remote /\ UNCHANGED <<remote, missed>>
        /\ \/ PressVtSwitch(k)
           \/ /\ PressReserved(k) \/ PressSwitch(k) \/ PressShell(k) \/ PressPlain(k)
              /\ UNCHANGED withheld

\* elevated_focus_session.
FocusSession ==
  \/ Stays(Told)
  \/ /\ ~locked /\ UNCHANGED locked
     /\ \E w \in (Program \cup {Desktop}) \ {focus} : Enter(w, NoKey)

\* The release of a key whose press was consumed.
ReleaseConsumed(k) ==
  /\ Take(k)
  /\ \/ switchKey = k /\ switchKey' = NoKey /\ FocusSession
     \/ switchKey # k /\ UNCHANGED switchKey /\ Stays(Told)
  /\ heldPress' = NoKey

ReleaseSent(k) ==
  /\ Slots(k) = {}
  /\ Stays(Told \ {k})
  /\ heldPress' = NoKey
  /\ UNCHANGED <<consumed, switchKey>>

Release(k) ==
  /\ k \in down
  /\ down' = down \ {k}
  /\ withheld' = withheld \ {k}
  /\ UNCHANGED remote
  /\ \/ remote /\ missed' = TRUE /\ UNCHANGED <<consumed, switchKey, heldPress, focus, knows, locked>>
     \/ ~remote /\ UNCHANGED missed /\ (ReleaseConsumed(k) \/ ReleaseSent(k))

----------------------------------------------------------------------------
(* Everything else that moves the focus: windows that open, close or take  *)
(* a click, the lock and its end, Remote Desktop taking the session.       *)

KeysStay == UNCHANGED <<down, consumed, switchKey, heldPress, missed, withheld>>

FocusMoves ==
  /\ KeysStay /\ UNCHANGED <<locked, remote>>
  /\ Clear \/ \E w \in Allowed \ {focus} : Enter(w, NoKey)

Lock == KeysStay /\ UNCHANGED remote /\ ~locked /\ isolate

\* unisolate.
unisolate == locked' = FALSE /\ (Clear \/ \E w \in Window \ LockScreen : Enter(w, NoKey))

Unlock == KeysStay /\ UNCHANGED remote /\ locked /\ unisolate

RemoteTake ==
  /\ KeysStay
  /\ ~remote /\ remote' = TRUE
  /\ IF locked THEN unisolate ELSE Stays(knows)

RemoteGiveBack ==
  /\ KeysStay
  /\ remote /\ remote' = FALSE
  /\ IF locked THEN Stays(knows) ELSE isolate

Next ==
  \/ \E k \in Key : Press(k) \/ Release(k)
  \/ FocusMoves \/ Lock \/ Unlock \/ RemoteTake \/ RemoteGiveBack

Spec == Init /\ [][Next]_vars

----------------------------------------------------------------------------
(* Properties.                                                             *)

\* seat.c: "A consumed press must take its release with it": a key in the
\* list is one whose release is still to come, so no entry is left to
\* swallow the release of a later press.
Consumed == {k \in Key : Slots(k) # {}}
ConsumedDown == Consumed \subseteq down

\* What is put off to a later event waits for one that comes: the switch to
\* the session for the release of a Tab that is in the list, the press held
\* back for a key that is still down.  Left behind, the one would take the
\* focus away, the other press a key, at an event that has nothing to do with it.
SwitchPending == switchKey # NoKey => switchKey \in Consumed
HeldDown == heldPress # NoKey => heldPress \in down

\* The list holds keys that are down, and what is put off waits for them,
\* through locks, prompts, moves of the focus and Remote Desktop taking the
\* session and returning it between any two events.  It is so as long as the
\* list has a slot for every key that can be consumed (SlotsSuffice) and no key
\* event has fallen while the session was away: one that does is dropped
\* (seat.c:663), and the entry of a key that came up then stays.
KeysSound == TypeOK /\ (~missed => ConsumedDown /\ SwitchPending /\ HeldDown)

\* No window "gets a release for a key it never saw pressed" (seat.c):
\* through every move of the focus between the two, though the shell's keys
\* reach the desktop after the focus did, and whoever had the session in
\* between, unless an event was dropped then.  Not of a virtual terminal's key:
\* its press is withheld and its release sent (seat.c:702).
ReleaseKnown ==
  [][\A k \in Key \ withheld :
       Release(k) /\ ~missed /\ ~remote /\ focus # NoWindow /\ Slots(k) = {} => k \in Told]_vars

\* No window goes on believing a key down that is not, unless it is one the
\* compositor consumes, or an event was dropped while the session was away.
NoneStuck == knows \ Reserved \subseteq down
NoStuckKey == ~missed => NoneStuck

\* seat.c: the session that an Alt+Tab in an elevated window goes to "must not
\* be handed a Tab it will never see released".
TabNotHanded ==
  [][(Press(Tab) \/ Release(Tab)) /\ focus \in Elevated /\ focus' \in Program \cup {Desktop}
       => Tab \notin knows']_vars

\* While Remote Desktop has the session the console's keyboard "reaches
\* nothing, except Ctrl+Alt+Del, which gives the session back to the console
\* -- locked" (seat.c), whatever was held back or to be switched when it was
\* taken.
ConsoleDeaf ==
  [][remote /\ (\E k \in Key : Press(k) \/ Release(k))
       => IF remote' THEN UNCHANGED <<focus, knows>> ELSE locked' /\ focus' \notin Window \ LockScreen]_vars
=============================================================================
