------------------------------ MODULE Placement ------------------------------
(***************************************************************************)
(* Where one window of a user's program is put, and what moves it: its own *)
(* requests, the user's drags, and the desktop changing under it           *)
(* (wayland_app.c, view.c, decor.c, xwayland.c, elevated.c).  The window   *)
(* is of one of four kinds, which share the fields of cg_view and little   *)
(* code: the session's shell, Wine's desktop window, is one of them.       *)
(* Other windows matter to it in nothing that is modelled here.            *)
(*                                                                         *)
(* A position is a place of a desktop, a size what it was made for; pixels *)
(* are not modelled.  A desktop is the console or the output of Remote     *)
(* Desktop, which has the console's size: view_layout_box's answer for a   *)
(* user's window.  What a window is told to be (want) and what it is (has) differ *)
(* until it commits.                                                       *)
(***************************************************************************)
CONSTANTS
  Desk,      \* the desktops there can be
  Nowhere    \* no desktop

ASSUME NowhereIsNoDesk == Nowhere \notin Desk

Kind == {"native", "x11", "shell", "elevated"}

\* Sizes: the program's own, which fits a desktop or fits none, that of the work
\* area and that of the whole desktop.
Size == {"own", "huge", "work", "full"}

\* Places on a desktop: its origin (of the work area, under the title bar if
\* there is one), its centre, where the user put the window, and where its
\* program did.
Place == {"corner", "centre", "moved", "asked"}

Box == [on : Desk, at : Place, size : Size]
NoBox == [on |-> Nowhere, at |-> "centre", size |-> "own"]
NoClip == <<Nowhere, "centre", Nowhere>>

VARIABLES
  kind,   \* which of the four
  view,   \* the window, with the desktop it lives on now
  drag,   \* grab_view: the pointer moves it, or resizes it from grab_box
  bar,    \* its title bar is pressed, and moves it: press.decor, press.moving
  held    \* wlr_seat.pointer_state.button_count # 0

vars == <<kind, view, drag, bar, held>>

NoDrag == [what |-> "none", edge |-> "far", on |-> Nowhere, at |-> "centre"]

TypeOK ==
  /\ kind \in Kind /\ bar \in BOOLEAN /\ held \in BOOLEAN
  /\ view \in [desk : Desk, stage : {"new", "configured", "mapped"}, on : Desk, at : Place, has : Size, want : Size,
               maximized : BOOLEAN, userPlaced : BOOLEAN, restore : Box \cup {NoBox},
               fullscreen : BOOLEAN, windowed : Box \cup {NoBox}, wantMax : BOOLEAN, wantFull : BOOLEAN,
               clip : (Desk \X Place \X Desk) \cup {NoClip}]
  /\ drag \in [what : {"none", "move", "resize"}, edge : {"near", "far"},
               on : Desk \cup {Nowhere}, at : Place]

Init ==
  /\ kind \in Kind
  /\ \E d \in Desk :
     view = [desk |-> d, stage |-> "new", on |-> d, at |-> "corner", has |-> "own", want |-> "own",
             maximized |-> FALSE, userPlaced |-> FALSE, restore |-> NoBox,
             fullscreen |-> FALSE, windowed |-> NoBox, wantMax |-> FALSE, wantFull |-> FALSE, clip |-> NoClip]
  /\ drag = NoDrag /\ bar = FALSE /\ held = FALSE

mapped == view.stage = "mapped"

ExceedsLayout(size) == size = "huge"
ExceedsWork(size) == size \in {"huge", "full"}

----------------------------------------------------------------------------
(* A native Wayland window (wayland_app.c).                                *)

\* Mutant: the clip is left alone while the user's own place is.
update_clip_NotMoved(v) ==
  IF v.userPlaced THEN v ELSE [v EXCEPT !.clip = IF v.fullscreen THEN NoClip ELSE <<v.on, v.at, v.desk>>]

\* update_clip: what it is made out from.
update_clip(v) == [v EXCEPT !.clip = IF v.fullscreen THEN NoClip ELSE <<v.on, v.at, v.desk>>]

place(v, on, at) == update_clip([v EXCEPT !.on = on, !.at = at])
centre(v) == place(v, v.desk, "centre")
BoxOf(v) == [on |-> v.on, at |-> v.at, size |-> v.has]
TwoThirds(d) == [on |-> d, at |-> "centre", size |-> "own"]

Maximized(v) ==
  place([v EXCEPT !.restore = IF v.maximized THEN @ ELSE BoxOf(v), !.maximized = TRUE, !.want = "work"],
        v.desk, "corner")

Unmaximized(v) ==
  IF ~v.maximized THEN v
  ELSE LET r == IF v.restore = NoBox THEN TwoThirds(v.desk) ELSE v.restore
       IN [place([v EXCEPT !.maximized = FALSE, !.restore = r, !.want = r.size], r.on, r.at)
             EXCEPT !.userPlaced = TRUE]

set_maximized(v, on) == IF on THEN Maximized(v) ELSE Unmaximized(v)

GoFullscreen(v) ==
  place([v EXCEPT !.windowed = BoxOf(v), !.fullscreen = TRUE, !.want = "full"], v.desk, "corner")

LeaveFullscreen(v) ==
  LET w == [v EXCEPT !.fullscreen = FALSE]
  IN IF v.maximized THEN [Maximized(w) EXCEPT !.restore = v.restore]
     ELSE IF v.windowed # NoBox
       THEN place([w EXCEPT !.want = v.windowed.size], v.windowed.on, v.windowed.at)
       ELSE centre([w EXCEPT !.want = "own"])

set_fullscreen(v, on) ==
  IF on = v.fullscreen THEN v ELSE IF on THEN GoFullscreen(v) ELSE LeaveFullscreen(v)

\* wayland_app_place: mapped, or the desktop changed.
wayland_app_place(v0) ==
  LET v == IF v0.wantFull THEN [v0 EXCEPT !.wantFull = FALSE, !.fullscreen = TRUE] ELSE v0
      m == Maximized([v EXCEPT !.wantMax = FALSE, !.maximized = FALSE])
      kept == IF v.restore = NoBox THEN m.restore ELSE v.restore
  IN IF v.fullscreen THEN place([v EXCEPT !.want = "full"], v.desk, "corner")
     ELSE IF v.wantMax \/ v.maximized \/ (~v.userPlaced /\ ExceedsWork(v.has))
       THEN [m EXCEPT !.restore = IF kept.size # "own" THEN TwoThirds(v.desk) ELSE kept]
     ELSE IF ~v.userPlaced THEN centre(v) ELSE update_clip(v)

\* The first commit: what the program asked for before it comes with it.
InitialCommit(max, full) ==
  /\ kind = "native" /\ view.stage = "new"
  /\ view' = [view EXCEPT
       !.stage = "configured",
       !.want = IF full \/ view.wantFull THEN "full" ELSE IF max \/ view.wantMax THEN "work" ELSE "own",
       !.wantFull = @ \/ full,
       !.wantMax = @ \/ (max /\ ~full /\ ~view.wantFull)]
  /\ UNCHANGED <<kind, drag, bar, held>>

\* handle_request_maximize: before it maps, remembered.
NativeRequestMaximize(on) ==
  /\ kind = "native" /\ view.stage # "new"
  /\ view' = IF mapped THEN set_maximized(view, on) ELSE [view EXCEPT !.wantMax = on]
  /\ UNCHANGED <<kind, drag, bar, held>>

wayland_app_request_fullscreen(on) ==
  /\ kind = "native" /\ view.stage # "new"
  /\ view' = IF mapped THEN set_fullscreen(view, on) ELSE [view EXCEPT !.wantFull = on]
  /\ UNCHANGED <<kind, drag, bar, held>>

\* wayland_app_commit, of a new size.
wayland_app_commit(v, size) ==
  LET w == [v EXCEPT !.has = size]
  IN IF size = v.has THEN v
     ELSE IF drag.what = "resize"
       THEN place(w, drag.on, IF drag.edge = "near" /\ v.userPlaced THEN "moved" ELSE drag.at)
     ELSE IF ~v.maximized /\ ~v.fullscreen /\ ~v.userPlaced THEN centre(w)
     ELSE place(w, v.on, v.at)

\* handle_request_move: one dragged off its maximized place is restored first.
NativeRequestMove ==
  /\ kind = "native" /\ mapped /\ ~view.fullscreen /\ held
  /\ view' = IF view.maximized THEN place(Unmaximized(view), view.desk, "moved") ELSE view
  /\ drag' = [NoDrag EXCEPT !.what = "move"]
  /\ UNCHANGED <<kind, bar, held>>

NativeRequestResize(edge) ==
  /\ kind = "native" /\ mapped /\ ~view.fullscreen /\ ~view.maximized /\ held
  /\ drag' = [what |-> "resize", edge |-> edge, on |-> view.on, at |-> view.at]
  /\ UNCHANGED <<kind, view, bar, held>>

\* wayland_app_grab_motion.
wayland_app_grab_motion(v) ==
  [IF drag.what = "move" THEN place(v, v.desk, "moved") ELSE [v EXCEPT !.want = "own"] EXCEPT !.userPlaced = TRUE]

----------------------------------------------------------------------------
(* The session's X11 windows, with the compositor's title bar, and those   *)
(* of elevated displays (view.c, xwayland.c, decor.c, elevated.c).         *)

\* view_move_to, move_view.
MoveTo(v, on, at) == [v EXCEPT !.on = on, !.at = at]

\* view_position, of an X11 window: the shell's is the screen, at its origin.
view_position(v) ==
  IF kind = "shell" THEN MoveTo(v, v.desk, "corner")
  ELSE IF v.userPlaced THEN v
  ELSE IF ~ExceedsLayout(v.has) THEN MoveTo(v, v.desk, "centre")
  ELSE [MoveTo(v, v.desk, "corner") EXCEPT !.maximized = TRUE, !.want = "work",
          !.restore = IF v.maximized THEN @ ELSE TwoThirds(v.desk)]

\* Mutant: a window that is not maximized stays where it was.
elevated_view_place_Stays(v) ==
  IF v.maximized THEN [MoveTo(v, v.desk, "corner") EXCEPT !.want = "full"] ELSE v

\* elevated_view_place: in the same place of the new desktop.
elevated_view_place(v) ==
  IF v.maximized THEN [MoveTo(v, v.desk, "corner") EXCEPT !.want = "full"]
  ELSE MoveTo(v, v.desk, v.at)

\* handle_request_maximize, handle_session_request_maximize.  The program's
\* size is the one it was given last.
XRequestMaximize(on) ==
  /\ \/ kind = "elevated"
     \/ kind \in {"x11", "shell"} /\ mapped
  /\ on # view.maximized
  /\ view' = IF on
       THEN [MoveTo(view, view.desk, "corner") EXCEPT
               !.restore = [on |-> view.on, at |-> view.at, size |-> view.want], !.maximized = TRUE,
               !.want = IF kind = "elevated" THEN "full" ELSE "work"]
       ELSE [MoveTo(view, view.restore.on, view.restore.at) EXCEPT
               !.maximized = FALSE, !.want = view.restore.size]
  /\ UNCHANGED <<kind, drag, bar, held>>

\* toggle_maximize: the title bar's button, or a double click on the bar.
toggle_maximize ==
  /\ kind = "x11" /\ mapped
  /\ view' = [IF ~view.maximized
       THEN [MoveTo(view, view.desk, "corner") EXCEPT
               !.restore = [on |-> view.on, at |-> view.at, size |-> view.want], !.maximized = TRUE,
               !.want = "work"]
       ELSE [MoveTo(view, view.restore.on, view.restore.at) EXCEPT
               !.maximized = FALSE, !.want = view.restore.size]
       EXCEPT !.userPlaced = TRUE]
  /\ bar' = FALSE
  /\ UNCHANGED <<kind, drag, held>>

\* handle_xwayland_surface_request_configure: the size it asks for, and where
\* the compositor has it.
XRequestConfigure(size) ==
  /\ kind \in {"x11", "shell"}
  /\ view' = LET v == [view EXCEPT !.want = size] IN IF mapped THEN view_position(v) ELSE v
  /\ UNCHANGED <<kind, drag, bar, held>>

\* handle_request_configure, of an elevated window: where it asks to be, on a
\* desktop it may have left; a maximized one stays.
ElevatedRequestConfigure(size, on) ==
  /\ kind = "elevated" /\ ~view.maximized
  /\ view' = LET v == [view EXCEPT !.want = size] IN IF mapped THEN MoveTo(v, on, "asked") ELSE v
  /\ UNCHANGED <<kind, drag, bar, held>>

\* handle_set_geometry, of an elevated window: its X server says where it is, of
\* a menu's own move, or of an order of the compositor's that came before others.
ElevatedSetGeometry(on) ==
  /\ kind = "elevated" /\ mapped
  /\ \E at \in {"asked", "corner", view.at, view.restore.at} : view' = MoveTo(view, on, at)
  /\ UNCHANGED <<kind, drag, bar, held>>

\* begin_grab: the focused window, while a button is held.
begin_grab(what, edge) ==
  /\ kind # "native" /\ mapped /\ ~view.maximized /\ held
  /\ drag' = IF what = "move" THEN [NoDrag EXCEPT !.what = "move"]
             ELSE [what |-> "resize", edge |-> edge, on |-> view.on, at |-> view.at]
  /\ UNCHANGED <<kind, view, bar, held>>

\* Mutant: a drag is not noted as the user's doing.
elevated_grab_motion_NotPlaced(v) ==
  IF drag.what = "resize" THEN [v EXCEPT !.want = "own", !.at = IF drag.edge = "near" THEN "moved" ELSE drag.at, !.on = drag.on]
  ELSE MoveTo(v, v.desk, "moved")

\* elevated_grab_motion.
elevated_grab_motion(v) ==
  [IF drag.what = "resize"
     THEN [MoveTo(v, drag.on, IF drag.edge = "near" THEN "moved" ELSE drag.at) EXCEPT !.want = "own"]
     ELSE MoveTo(v, v.desk, "moved")
   EXCEPT !.userPlaced = TRUE]

\* decor_button on the bar: the press is the compositor's, and is not counted;
\* what another button moves goes on.
BarPress ==
  /\ kind = "x11" /\ mapped /\ ~bar
  /\ bar' = TRUE
  /\ UNCHANGED <<kind, view, drag, held>>

\* decor_motion: the window follows, restored if it is maximized.
decor_motion(v) ==
  [MoveTo(v, v.desk, "moved") EXCEPT
     !.maximized = FALSE, !.userPlaced = TRUE, !.want = IF v.maximized THEN v.restore.size ELSE @]

----------------------------------------------------------------------------
(* The window's life, the pointer and the desktop.                         *)

\* Mutant: the drag goes on when the window is unmapped.
Unmap_KeepsDrag ==
  /\ mapped
  /\ view' = [view EXCEPT !.stage = "new", !.clip = NoClip]
  /\ UNCHANGED <<kind, drag, bar, held>>

\* view_unmap, and decor_destroy before it.
Unmap ==
  /\ mapped
  /\ view' = [view EXCEPT !.stage = "new", !.clip = NoClip]
  /\ drag' = NoDrag /\ bar' = FALSE
  /\ UNCHANGED <<kind, held>>

\* What the program commits: the size it was told, or its own where it may choose.
Obeys(size) == IF view.want = "own" THEN size \in {"own", "huge"} ELSE size = view.want

\* view_map, with decor_create and elevated_view_mapped.  An X program has the
\* size it made its window with.
Map(size) ==
  /\ view.stage = (IF kind = "native" THEN "configured" ELSE "new") /\ Obeys(size)
  /\ \E at \in {"asked", "centre"} :
       LET v == [view EXCEPT !.stage = "mapped", !.has = size, !.want = size]
       IN view' = CASE kind = "native" -> wayland_app_place([v EXCEPT !.want = view.want])
                    [] kind \in {"x11", "shell"} -> view_position(v)
                    [] kind = "elevated" -> MoveTo(v, v.desk, at)
  /\ UNCHANGED <<kind, drag, bar, held>>

\* A commit of another size; an X11 window's only has its bar drawn again.
Commit(size) ==
  /\ mapped /\ Obeys(size) /\ size # view.has
  /\ view' = IF kind = "native" THEN wayland_app_commit(view, size) ELSE [view EXCEPT !.has = size]
  /\ UNCHANGED <<kind, drag, bar, held>>

\* The taskbar or the program minimizes it: a grab ends, a press on its bar
\* does not.
Minimize ==
  /\ mapped /\ drag # NoDrag
  /\ drag' = NoDrag
  /\ UNCHANGED <<kind, view, bar, held>>

\* A button pressed on some window, and let go.  A release while the bar is
\* pressed is the bar's, whichever button it is of; any other ends a grab, while
\* another button may still be down.
Press == ~held /\ held' = TRUE /\ UNCHANGED <<kind, view, drag, bar>>
Release ==
  /\ held \/ bar
  /\ bar' = FALSE
  /\ IF bar THEN UNCHANGED <<drag, held>> ELSE drag' = NoDrag /\ held' \in BOOLEAN
  /\ UNCHANGED <<kind, view>>

\* process_cursor_motion, of a pointer that drags: what is grabbed takes the
\* motion before the bar does.
Motion ==
  /\ drag # NoDrag \/ bar
  /\ IF drag # NoDrag /\ held
       THEN /\ view' = IF kind = "native" THEN wayland_app_grab_motion(view) ELSE elevated_grab_motion(view)
            /\ UNCHANGED drag
       ELSE /\ view' = IF bar THEN decor_motion(view) ELSE view
            /\ drag' = NoDrag
  /\ UNCHANGED <<kind, bar, held>>

\* view_position_all, for a window on the list.
view_position_all(v) ==
  CASE kind = "native" -> wayland_app_place(v)
    [] kind \in {"x11", "shell"} -> view_position(v)
    [] kind = "elevated" -> elevated_view_place(v)

\* The layout changes: a resolution, or Remote Desktop takes or returns the
\* session.
DeskChange(d) ==
  /\ d # view.desk
  /\ view' = LET v == [view EXCEPT !.desk = d] IN IF mapped THEN view_position_all(v) ELSE v
  /\ UNCHANGED <<kind, drag, bar, held>>

----------------------------------------------------------------------------
NativeRequests ==
  \E on \in BOOLEAN :
    \/ \E full \in BOOLEAN : InitialCommit(on, full)
    \/ NativeRequestMaximize(on) \/ wayland_app_request_fullscreen(on)

XRequests ==
  \/ \E on \in BOOLEAN : XRequestMaximize(on)
  \/ \E size \in {"own", "huge"} :
       XRequestConfigure(size) \/ \E d \in Desk : ElevatedRequestConfigure(size, d)
  \/ \E d \in Desk : ElevatedSetGeometry(d)

Drags ==
  \/ NativeRequestMove \/ \E edge \in {"near", "far"} : NativeRequestResize(edge) \/ begin_grab("resize", edge)
  \/ begin_grab("move", "far") \/ BarPress \/ toggle_maximize
  \/ Press \/ Release \/ Motion

Commits == \E size \in Size : Commit(size)
DeskChanges == \E d \in Desk : DeskChange(d)

Next ==
  \/ NativeRequests \/ XRequests \/ Drags \/ Commits \/ DeskChanges
  \/ Unmap \/ Minimize \/ \E size \in Size : Map(size)

Spec == Init /\ [][Next]_vars

----------------------------------------------------------------------------
(* Properties.                                                             *)

\* A native window's surface is cut off at the taskbar of the desktop it is on
\* now, from where it is now, unless it is full screen: through every request,
\* drag, commit and change of the desktop.
ClipKept ==
  kind = "native" /\ mapped =>
    view.clip = IF view.fullscreen THEN NoClip ELSE <<view.on, view.at, view.desk>>

Windowed == mapped /\ ~view.maximized /\ ~view.fullscreen

\* Where the user put a window with the pointer, it stays: neither its own new
\* size, nor what an X11 program asks for, nor another desktop places it again;
\* an elevated one is in the same place of the new desktop.  Not the shell's,
\* which is the screen.  (A request to be maximized that came before the window
\* mapped full screen is still owed.)
UserPlaceKept ==
  [][Windowed /\ view.at = "moved" /\ drag.what # "resize" /\ ~view.wantMax /\ kind # "shell"
       /\ (Commits \/ DeskChanges \/ \E size \in {"own", "huge"} : XRequestConfigure(size))
     => view'.at = "moved" /\ (view'.on = view.on \/ kind = "elevated")]_vars

\* When the user's desktop becomes another (Remote Desktop's output and back,
\* another resolution), a window the user has not put anywhere goes along; so
\* do an elevated one, and a native one that is maximized or full screen,
\* wherever the user had them; and the shell's is at the new desktop's origin.
\* An X11 window that the user moved or maximized by its title bar is said
\* nothing of: view_position leaves it where it is.
DeskFollowed ==
  [][mapped /\ DeskChanges =>
       /\ \/ ~view.userPlaced \/ kind \in {"shell", "elevated"}
          \/ kind = "native" /\ (view.maximized \/ view.fullscreen)
          => view'.on = view'.desk
       /\ kind = "shell" => view'.at = "corner"]_vars

\* What is grabbed is a window on the screen, by a button that is held; and only
\* a session's X11 window is dragged by a title bar.
DragAlive ==
  /\ drag # NoDrag => mapped /\ held
  /\ bar => mapped /\ kind = "x11"

\* Through requests, drags, late commits and unmaps in any order, and another
\* desktop in between, the window is cut off where it is and no drag goes on
\* without it.
WindowSound == TypeOK /\ ClipKept /\ DragAlive
=============================================================================
