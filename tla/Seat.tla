-------------------------------- MODULE Seat --------------------------------
(***************************************************************************)
(* The pointing half of the seat: the windows it points at, the devices    *)
(* and the user's hand, what seat.c and decor.c keep of them, and what is  *)
(* to hold of it all.  Pointing says how it changes.                       *)
(***************************************************************************)
EXTENDS Naturals, FiniteSets

CONSTANTS
  View,      \* the windows
  Native,    \* programs' Wayland windows, which ask to be moved (wayland_app_is)
  Linux,     \* X11 windows with a bar drawn by the compositor (decorated)
  Privileged,\* the lock service's windows: seen under the lock
  PenAware,  \* windows that accept tablet-v2: Xwayland's, for one
  Button,    \* a mouse's buttons
  Finger,    \* touch ids
  MaxMapped, \* bound: how many windows are mapped at a time
  MaxHeld,   \* bound: how much the user presses at a time
  None       \* no window

ASSUME WindowsAreDistinct ==
  /\ Native \cup Linux \cup Privileged \cup PenAware \subseteq View
  /\ MaxMapped \in Nat /\ MaxHeld \in Nat
  /\ Native \cap Linux = {} /\ Privileged \cap (Native \cup Linux) = {} /\ None \notin View

ASSUME PenIsNoButton == {"tip", "barrel"} \cap Button = {}

\* Whatever presses a button of the pointer: a mouse's, a pen's tip, a pen's barrel.
Source == Button \cup {"tip", "barrel"}
Device == {"mouse", "tablet"}

VARIABLES
  mapped,    \* the windows that are mapped
  devices,   \* the pointing devices that are plugged in
  hand,      \* held: what the user presses; fingers: those on the screen
  seat,      \* the seat's idea of it all
  pen,       \* the pen's cg_tablet_tool and tool_v2
  points     \* the seat's touch points, each with the window it began on

SeatTypeOK ==
  /\ mapped \subseteq View /\ devices \subseteq Device
  /\ hand \in [held : SUBSET Source, fingers : SUBSET Finger]
  /\ seat \in [focus : View \cup {None}, counted : SUBSET Source, grab : View \cup {None},
               press : Linux \cup {None}, lastBar : Linux \cup {None},
               hidden : BOOLEAN, shown : BOOLEAN]
  /\ pen \in [focus : PenAware \cup {None}, down : BOOLEAN, pointer : BOOLEAN]
  /\ points \in [Finger -> View \cup {None}]

-----------------------------------------------------------------------------
(* A window is dragged only while it is there and the seat counts a button   *)
(* as down, through every order of presses, releases, requests, locks and    *)
(* windows going (seat.c:1253, wayland_app.c:402).                           *)
GrabBacked == seat.grab # None => seat.grab \in mapped /\ seat.counted # {}

(* What is remembered of a press on a bar names a bar that is there, however *)
(* the window goes: they are pointers (decor.c:969).                         *)
PressLive == seat.press \in (mapped \cap Linux) \cup {None} /\ seat.lastBar \in (mapped \cap Linux) \cup {None}

(* A pen whose tip went down as the mouse's button is over no program as a   *)
(* pen until the tip comes up (seat.c:1428).                                 *)
PenIsOneThing == pen.pointer => pen.focus = None

(* A stroke stays with the program it began on, over whatever it leads and   *)
(* whatever comes in front, until it ends or the program's surface goes      *)
(* (seat.c:1432).                                                            *)
StrokeStays ==
  [][pen.down /\ pen.focus # None /\ pen'.focus \notin {pen.focus, None} => ~pen'.down]_pen

(* A pointer that is not drawn is noted as hidden by a finger, the one thing *)
(* cursor_show_after_touch looks at, or nothing that points is plugged in:   *)
(* whatever hid it, a later event can know (seat.c:941).                     *)
HidingNoted == ~seat.shown => seat.hidden \/ devices = {}

(* Between them the grab, the press and the hidden pointer are backed by the *)
(* windows, the buttons, the note and the devices there are, whichever of    *)
(* them go.                                                                  *)
SeatSound == SeatTypeOK /\ GrabBacked /\ PressLive /\ HidingNoted
=============================================================================
