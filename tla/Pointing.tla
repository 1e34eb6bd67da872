------------------------------ MODULE Pointing ------------------------------
(***************************************************************************)
(* What mice, fingers and pens do to the seat (seat.c, the input half of    *)
(* decor.c and the grabs of elevated.c and wayland_app.c): which buttons    *)
(* the seat counts as down, which window is dragged, which title bar is     *)
(* pressed, whom a pen draws on, which window is given the keyboard by a    *)
(* click or a tap, and whether the pointer is drawn.                        *)
(*                                                                         *)
(* There are no coordinates: an event lands on a spot, which is a window,   *)
(* the bar of one or nothing at all, and whatever could be on top may be.   *)
(* What the user's hand holds down is kept apart from what the seat thinks  *)
(* it does, for they come to differ.                                        *)
(***************************************************************************)
EXTENDS Seat

VARIABLES
  locked,    \* lock.locked
  remote     \* server->remote

vars == <<mapped, locked, remote, devices, hand, seat, pen, points>>

NoPen == [focus |-> None, down |-> FALSE, pointer |-> FALSE]

Init ==
  /\ mapped = {} /\ locked = FALSE /\ remote = FALSE /\ devices = Device
  /\ hand = [held |-> {}, fingers |-> {}]
  /\ seat = [focus |-> None, counted |-> {}, grab |-> None, press |-> None,
             lastBar |-> None, hidden |-> FALSE, shown |-> TRUE]
  /\ pen = NoPen
  /\ points = [f \in Finger |-> None]

(* lock_view_allowed, and what may be seen: a lock disables the windows that *)
(* are not privileged, a prompt's dimming lies over them.                    *)
lock_view_allowed(v) == ~locked \/ v \in Privileged
Spot == {[view |-> None, bar |-> FALSE]}
        \cup [view : {v \in mapped : lock_view_allowed(v)}, bar : {FALSE}]
        \cup [view : {v \in mapped \cap Linux : lock_view_allowed(v)}, bar : {TRUE}]

desktop_view_at(spot) == IF ~spot.bar /\ lock_view_allowed(spot.view) THEN spot.view ELSE None

-----------------------------------------------------------------------------
(* The pointer's picture.                                                   *)

\* Mutant: the picture goes, and nothing remembers to bring it back.
cursor_hide_for_touch_Forgets(s) == IF s.hidden THEN s ELSE [s EXCEPT !.shown = FALSE]
cursor_hide_for_touch(s) == IF s.hidden THEN s ELSE [s EXCEPT !.hidden = TRUE, !.shown = FALSE]
cursor_show_after_touch(s) == IF ~s.hidden THEN s ELSE [s EXCEPT !.hidden = FALSE, !.shown = TRUE]

(* update_capabilities: drawn if there is a device that points, and not      *)
(* otherwise, whatever cursor_hidden_by_touch says.                          *)
update_capabilities(s, present) == [s EXCEPT !.shown = present # {}]

-----------------------------------------------------------------------------
(* Motion and focus.                                                        *)

\* Both grabs let go when no button is down any more, and both take the motion else.
grab_motion(s) == IF s.counted = {} THEN [s EXCEPT !.grab = None] ELSE s

process_cursor_motion(s) == grab_motion(cursor_show_after_touch(s))

(* seat_set_focus ends in a motion of the pointer, to nowhere.              *)
seat_set_focus(s, v) ==
  IF v = None \/ v = s.focus \/ ~lock_view_allowed(v) THEN s
  ELSE process_cursor_motion([s EXCEPT !.focus = v])

press_cursor_button(s, spot) == seat_set_focus(s, desktop_view_at(spot))

-----------------------------------------------------------------------------
(* A button of the pointer.                                                 *)

\* On a bar: the second of two quick presses on the bar itself maximizes, any other is
\* remembered, and so is which bar it was if it was not on one of the bar's buttons.
BarPressed(s, v) ==
  LET f == seat_set_focus(s, v) IN
  {[f EXCEPT !.press = v],
   [f EXCEPT !.press = v, !.lastBar = v]}
  \cup (IF s.lastBar = v THEN {[f EXCEPT !.press = None, !.lastBar = None]} ELSE {})

BarReleased(s) == [s EXCEPT !.press = None]

WindowPressed(s, b, spot) == press_cursor_button([s EXCEPT !.counted = @ \cup {b}], spot)

\* Mutant: the release of a button lets go of no window.
WindowReleased_KeepsGrab(s, b) == [s EXCEPT !.counted = @ \ {b}]
WindowReleased(s, b) == [s EXCEPT !.grab = None, !.counted = @ \ {b}]

(* seat_pointer_button, after decor_button: any release ends a press on a    *)
(* bar, and goes no further.  The outcomes there can be.                     *)
seat_pointer_button(s, b, pressed, spot) ==
  IF pressed THEN IF spot.bar THEN BarPressed(s, spot.view) ELSE {WindowPressed(s, b, spot)}
  ELSE {IF s.press # None THEN BarReleased(s) ELSE WindowReleased(s, b)}

\* What the user's hand does with a button, and whether that presses it.
Pressing(b) == b \notin hand.held
Hold(b) ==
  /\ Pressing(b) => Cardinality(hand.held) + Cardinality(hand.fingers) < MaxHeld
  /\ hand' = [hand EXCEPT !.held = IF Pressing(b) THEN @ \cup {b} ELSE @ \ {b}]

Move ==
  /\ "mouse" \in devices /\ ~remote
  /\ seat' = process_cursor_motion(seat)
  /\ UNCHANGED <<mapped, locked, remote, devices, hand, pen, points>>

\* Mutant: a press does not bring the pointer back.
MouseButton_KeepsHidden(b, spot) ==
  /\ "mouse" \in devices /\ Hold(b)
  /\ IF remote THEN seat' = seat ELSE seat' \in seat_pointer_button(seat, b, Pressing(b), spot)
  /\ UNCHANGED <<mapped, locked, remote, devices, pen, points>>

(* handle_cursor_button: while the session is away the console's are ignored, *)
(* the release of one that went down before that included.                    *)
MouseButton(b, spot) ==
  /\ "mouse" \in devices /\ Hold(b)
  /\ IF remote THEN seat' = seat
     ELSE seat' \in seat_pointer_button(cursor_show_after_touch(seat), b, Pressing(b), spot)
  /\ UNCHANGED <<mapped, locked, remote, devices, pen, points>>
\* handle_cursor_axis.
Wheel ==
  /\ "mouse" \in devices /\ ~remote
  /\ seat' = cursor_show_after_touch(seat)
  /\ UNCHANGED <<mapped, locked, remote, devices, hand, pen, points>>

-----------------------------------------------------------------------------
(* Fingers.  While the session is away they are not heard at all: one lifted *)
(* then leaves its point behind.                                            *)

Points == {f \in Finger : points[f] # None}

TouchDown(f, spot) ==
  LET view == desktop_view_at(spot)
      s == cursor_hide_for_touch(seat) IN
  /\ f \notin hand.fingers /\ Cardinality(hand.held) + Cardinality(hand.fingers) < MaxHeld
  /\ hand' = [hand EXCEPT !.fingers = @ \cup {f}]
  /\ IF remote THEN UNCHANGED <<seat, points>>
     ELSE /\ points' = IF view # None THEN [points EXCEPT ![f] = view] ELSE points
          /\ seat' = IF view # None /\ Points \cup {f} = {f} THEN press_cursor_button(s, spot) ELSE s
  /\ UNCHANGED <<mapped, locked, remote, devices, pen>>

TouchUp(f) ==
  /\ f \in hand.fingers /\ hand' = [hand EXCEPT !.fingers = @ \ {f}]
  /\ points' = IF remote THEN points ELSE [points EXCEPT ![f] = None]
  /\ UNCHANGED <<mapped, locked, remote, devices, seat, pen>>

-----------------------------------------------------------------------------
(* Pens.                                                                    *)

\* Mutant: a stroke goes to whatever the pen is over.
tablet_tool_to_program_Wanders(spot) ==
  LET view == desktop_view_at(spot) IN
  IF pen.pointer THEN [taken |-> FALSE, focus |-> pen.focus]
  ELSE IF view \in PenAware THEN [taken |-> TRUE, focus |-> view]
  ELSE [taken |-> FALSE, focus |-> None]

\* Mutant: a pen over nothing that takes one is not told to leave what it was over.
tablet_tool_to_program_Stays(spot) ==
  LET view == desktop_view_at(spot) IN
  IF pen.pointer THEN [taken |-> FALSE, focus |-> pen.focus]
  ELSE IF pen.down /\ pen.focus # None THEN [taken |-> TRUE, focus |-> pen.focus]
  ELSE IF view \in PenAware THEN [taken |-> TRUE, focus |-> view]
  ELSE [taken |-> FALSE, focus |-> pen.focus]

(* Whether the program under the pen takes it as one, and which: the mouse's *)
(* press keeps it a mouse, a stroke stays where it began.                    *)
tablet_tool_to_program(spot) ==
  LET view == desktop_view_at(spot) IN
  IF pen.pointer THEN [taken |-> FALSE, focus |-> pen.focus]
  ELSE IF pen.down /\ pen.focus # None THEN [taken |-> TRUE, focus |-> pen.focus]
  ELSE IF view \in PenAware THEN [taken |-> TRUE, focus |-> view]
  ELSE [taken |-> FALSE, focus |-> None]

\* Mutant: the picture is left to the program the pen comes to.
Entering_Leaves(s, to) == s

\* A program the pen comes to begins with the default picture.
Entering(s, to) == IF to.focus \notin {None, pen.focus} THEN [s EXCEPT !.shown = TRUE] ELSE s

\* The seat after the pen has moved to there.
PenMoved(spot) ==
  LET to == tablet_tool_to_program(spot) IN
  IF to.taken THEN Entering(seat, to) ELSE process_cursor_motion(seat)

(* handle_tablet_tool_axis, and _proximity coming into range.  A tip or a    *)
(* button that comes with the latter does all that it would have done.       *)
PenMove(spot) ==
  /\ "tablet" \in devices
  /\ IF remote THEN UNCHANGED <<pen, seat>>
     ELSE /\ pen' = [pen EXCEPT !.focus = tablet_tool_to_program(spot).focus]
          /\ seat' = PenMoved(spot)
  /\ UNCHANGED <<mapped, locked, remote, devices, hand, points>>

PenAway ==
  /\ hand.held \cap {"tip", "barrel"} = {}
  /\ pen' = IF remote THEN pen ELSE [pen EXCEPT !.focus = None]
  /\ UNCHANGED <<mapped, locked, remote, devices, hand, seat, points>>

\* The tip where a program takes the pen: down is a click too.
StrokeTip(pressed, spot, to) ==
  /\ pen' = [pen EXCEPT !.focus = to.focus, !.down = pressed]
  /\ seat' = IF pressed THEN press_cursor_button(Entering(seat, to), spot) ELSE Entering(seat, to)

\* The tip where none does: the mouse's left button.
PointerTip(pressed, spot, to) ==
  /\ pen' = [pen EXCEPT !.focus = to.focus, !.pointer = pressed]
  /\ seat' \in seat_pointer_button(process_cursor_motion(seat), "tip", pressed, spot)

PenTip(spot) ==
  LET to == tablet_tool_to_program(spot) IN
  /\ "tablet" \in devices /\ Hold("tip")
  /\ IF remote THEN UNCHANGED <<pen, seat>>
     ELSE IF to.taken THEN StrokeTip(Pressing("tip"), spot, to) ELSE PointerTip(Pressing("tip"), spot, to)
  /\ UNCHANGED <<mapped, locked, remote, devices, points>>

(* handle_tablet_tool_button: the pen's, for a program the pen is over, the  *)
(* pointer's else.                                                           *)
PenBarrel(spot) ==
  /\ "tablet" \in devices /\ Hold("barrel")
  /\ IF remote \/ (pen.focus # None /\ ~pen.pointer) THEN seat' = seat
     ELSE seat' \in seat_pointer_button(seat, "barrel", Pressing("barrel"), spot)
  /\ UNCHANGED <<mapped, locked, remote, devices, pen, points>>

-----------------------------------------------------------------------------
(* Windows.                                                                 *)

NativeRequestMove(v) == v \in Native /\ seat.counted # {}

(* begin_grab: an X11 window's, which must have the keyboard as well.       *)
begin_grab(v) == v \notin Native \cup Privileged /\ seat.counted # {} /\ seat.focus = v

RequestMove(v) ==
  /\ v \in mapped /\ (NativeRequestMove(v) \/ begin_grab(v))
  /\ seat' = [seat EXCEPT !.grab = v]
  /\ UNCHANGED <<mapped, locked, remote, devices, hand, pen, points>>

Map(v) ==
  /\ v \notin mapped /\ Cardinality(mapped) < MaxMapped /\ mapped' = mapped \cup {v}
  /\ seat' = seat_set_focus(seat, v)
  /\ UNCHANGED <<locked, remote, devices, hand, pen, points>>

\* Mutant: the press on its bar outlives the bar.
decor_destroy_KeepsPress(s, v) == IF s.lastBar = v THEN [s EXCEPT !.lastBar = None] ELSE s

\* The whole of press is cleared if it was this bar that was pressed.
decor_destroy(s, v) ==
  LET t == IF s.press = v THEN [s EXCEPT !.press = None, !.lastBar = None] ELSE s IN
  IF t.lastBar = v THEN [t EXCEPT !.lastBar = None] ELSE t

(* view_unmap: the drag ends, and the keyboard goes to the window in front,  *)
(* whichever that is, or to nothing if that is hidden.                       *)
view_unmap(s, v, next) ==
  LET t == IF s.grab = v THEN [s EXCEPT !.grab = None] ELSE s IN
  IF t.focus # v THEN t ELSE seat_set_focus([t EXCEPT !.focus = None], next)

(* Its surface may go with it: a finger's point goes then, and the pen is    *)
(* sent away, with its tip down if it is.                                    *)
Unmap(v) ==
  /\ v \in mapped /\ mapped' = mapped \ {v}
  /\ \E next \in IF mapped' = {} THEN {None} ELSE mapped' :
       seat' = view_unmap(decor_destroy(seat, v), v, next)
  /\ \/ UNCHANGED <<pen, points>>
     \/ /\ pen' = IF pen.focus = v THEN [pen EXCEPT !.focus = None] ELSE pen
        /\ points' = [f \in Finger |-> IF points[f] = v THEN None ELSE points[f]]
  /\ UNCHANGED <<locked, remote, devices, hand>>

-----------------------------------------------------------------------------
(* The lock, Remote Desktop and the devices.                                *)

\* The keyboard taken from whoever has it, and given to one of these if there are any.
FocusGoesTo(views) ==
  LET s == [seat EXCEPT !.focus = None] IN
  seat' \in IF views = {} THEN {s} ELSE {process_cursor_motion([s EXCEPT !.focus = v]) : v \in views}

isolate == locked' = TRUE /\ FocusGoesTo(mapped \cap Privileged)
unisolate == locked' = FALSE /\ FocusGoesTo(mapped \ Privileged)

Lock == ~locked /\ isolate /\ UNCHANGED <<mapped, remote, devices, hand, pen, points>>
Unlock == locked /\ unisolate /\ UNCHANGED <<mapped, remote, devices, hand, pen, points>>

remote_attach ==
  /\ ~remote /\ remote' = TRUE
  /\ IF locked THEN unisolate ELSE UNCHANGED <<locked, seat>>
  /\ UNCHANGED <<mapped, devices, hand, pen, points>>

remote_detach ==
  /\ remote /\ remote' = FALSE
  /\ IF locked THEN UNCHANGED <<locked, seat>> ELSE isolate
  /\ UNCHANGED <<mapped, devices, hand, pen, points>>

(* A device that goes has let go of everything first, and takes its pen      *)
(* along.                                                                   *)
Plug(d) ==
  /\ devices' = IF d \in devices THEN devices \ {d} ELSE devices \cup {d}
  /\ \/ d = "mouse" /\ hand.held \cap Button = {} /\ pen' = pen
     \/ d = "tablet" /\ hand.held \cap {"tip", "barrel"} = {} /\ pen' = NoPen
  /\ seat' = update_capabilities(seat, devices')
  /\ UNCHANGED <<mapped, locked, remote, hand, points>>

Next ==
  \/ Move \/ Wheel \/ PenAway \/ Lock \/ Unlock \/ remote_attach \/ remote_detach
  \/ \E d \in Device : Plug(d)
  \/ \E f \in Finger : TouchUp(f)
  \/ \E v \in View : RequestMove(v) \/ Map(v) \/ Unmap(v)
  \/ \E spot \in Spot :
       \/ PenMove(spot) \/ PenTip(spot) \/ PenBarrel(spot)
       \/ \E b \in Button : MouseButton(b, spot)
       \/ \E f \in Finger : TouchDown(f, spot)

Spec == Init /\ [][Next]_vars

-----------------------------------------------------------------------------
(* Properties, besides those of Seat.                                       *)

\* A pen that moves to there stays within the program it is drawing on or hovers over.
WithinProgram(spot) ==
  LET to == tablet_tool_to_program(spot) IN to.taken /\ to.focus = pen.focus

\* The user has pointed: moved the mouse, pressed or let go a button of it, turned its
\* wheel, or brought a pen to where it was not.
Pointed ==
  \/ Move \/ Wheel
  \/ ~remote /\ hand'.held \cap Button # hand.held \cap Button
  \/ ~remote /\ \E spot \in Spot : PenMove(spot) /\ ~WithinProgram(spot)

(* What points shows the pointer: it is drawn once the user has.  A finger,  *)
(* a program's window under a pen, a device plugged in or pulled out, a      *)
(* window that opened and a lock may each have come in between.  seat.h:53   *)
(* says so of any motion of a pen; of one within the program it already is   *)
(* in it does not hold, for that sets no picture (seat.c:1446).              *)
PointerShows == [][seat'.shown \/ ~Pointed]_vars
=============================================================================
