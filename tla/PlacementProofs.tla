--------------------------- MODULE PlacementProofs ---------------------------
(***************************************************************************)
(* What holds of a window's place, for any desktops.  Fine says of a       *)
(* window, before it is known what becomes of it, what every function that *)
(* places it needs and keeps; Cut, that a native one is cut off where it   *)
(* is, which every function that places one makes true.                    *)
(***************************************************************************)
EXTENDS Placement, TLAPS

ViewType ==
  [desk : Desk, stage : {"new", "configured", "mapped"}, on : Desk, at : Place, has : Size, want : Size,
   maximized : BOOLEAN, userPlaced : BOOLEAN, restore : Box \cup {NoBox},
   fullscreen : BOOLEAN, windowed : Box \cup {NoBox}, wantMax : BOOLEAN, wantFull : BOOLEAN,
   clip : (Desk \X Place \X Desk) \cup {NoClip}]

(* What the user moved, or may come back to where it was moved, is         *)
(* remembered as the user's.                                               *)
Fine(v) ==
  /\ v \in ViewType
  /\ "moved" \in {v.at, v.restore.at, v.windowed.at} => v.userPlaced

Cut(v) == v.clip = IF v.fullscreen THEN NoClip ELSE <<v.on, v.at, v.desk>>

Stays(t, v) == t.stage = v.stage /\ t.desk = v.desk /\ (v.userPlaced => t.userPlaced)

WindowInv ==
  /\ kind \in Kind /\ Fine(view)
  /\ kind = "native" /\ mapped => Cut(view) /\ ~view.wantFull
  /\ kind # "native" => (view.maximized => view.restore \in Box)

DragInv ==
  /\ bar \in BOOLEAN /\ held \in BOOLEAN
  /\ drag \in [what : {"none", "move", "resize"}, edge : {"near", "far"},
               on : Desk \cup {Nowhere}, at : Place]
  /\ drag.what = "resize" => drag.on \in Desk /\ (drag.at = "moved" => view.userPlaced)
  /\ drag # NoDrag => mapped /\ held
  /\ bar => mapped /\ kind = "x11"

Inv == WindowInv /\ DragInv

LEMMA InvIsSound == Inv => WindowSound
BY DEF Inv, WindowInv, DragInv, Fine, ViewType, Cut, WindowSound, TypeOK, ClipKept, DragAlive

LEMMA BoxesAre ==
  /\ NoBox.on = Nowhere /\ NoBox.at = "centre" /\ NoBox.size = "own" /\ NoBox \notin Box
  /\ \A d \in Desk : /\ TwoThirds(d) \in Box
                     /\ TwoThirds(d).on = d /\ TwoThirds(d).at = "centre" /\ TwoThirds(d).size = "own"
  /\ \A b \in Box : b.on \in Desk /\ b.at \in Place /\ b.size \in Size
  /\ \A v \in ViewType : /\ BoxOf(v) \in Box
                         /\ BoxOf(v).on = v.on /\ BoxOf(v).at = v.at /\ BoxOf(v).size = v.has
<1>1. NoBox.on = Nowhere /\ NoBox.at = "centre" /\ NoBox.size = "own"
  BY DEF NoBox
<1>2. \A b \in Box : b.on \in Desk /\ b.at \in Place /\ b.size \in Size
  BY DEF Box
<1>3. NoBox \notin Box
  BY <1>1, <1>2, NowhereIsNoDesk
<1>4. ASSUME NEW d \in Desk
      PROVE  TwoThirds(d) \in Box /\ TwoThirds(d).on = d /\ TwoThirds(d).at = "centre" /\ TwoThirds(d).size = "own"
  BY DEF TwoThirds, Box, Place, Size
<1>5. ASSUME NEW v \in ViewType
      PROVE  BoxOf(v) \in Box /\ BoxOf(v).on = v.on /\ BoxOf(v).at = v.at /\ BoxOf(v).size = v.has
  BY DEF BoxOf, Box, ViewType
<1> QED BY <1>1, <1>2, <1>3, <1>4, <1>5

----------------------------------------------------------------------------
(* A native window.                                                        *)

LEMMA PlaceIs ==
  ASSUME NEW v, Fine(v), NEW on \in Desk, NEW at \in Place, at = "moved" => v.userPlaced
  PROVE  LET t == place(v, on, at)
         IN  /\ Fine(t) /\ Cut(t) /\ Stays(t, v) /\ t.on = on /\ t.at = at
             /\ t.maximized = v.maximized /\ t.fullscreen = v.fullscreen /\ t.restore = v.restore
             /\ t.wantFull = v.wantFull /\ t.userPlaced = v.userPlaced
BY DEF Fine, ViewType, Cut, Stays, place, update_clip

LEMMA MaximizedIs ==
  ASSUME NEW v, Fine(v)
  PROVE  LET t == Maximized(v)
         IN  /\ Fine(t) /\ Cut(t) /\ Stays(t, v) /\ t.on = v.desk /\ t.restore \in {v.restore, BoxOf(v)}
             /\ t.fullscreen = v.fullscreen /\ t.wantFull = v.wantFull /\ t.userPlaced = v.userPlaced
<1> DEFINE w == [v EXCEPT !.restore = IF v.maximized THEN @ ELSE BoxOf(v), !.maximized = TRUE, !.want = "work"]
<1>1. v \in ViewType /\ BoxOf(v) \in Box /\ BoxOf(v).at = v.at
  BY BoxesAre DEF Fine
<1>2. /\ Fine(w) /\ Stays(w, v) /\ w.restore \in {v.restore, BoxOf(v)} /\ w.fullscreen = v.fullscreen
      /\ w.wantFull = v.wantFull /\ w.userPlaced = v.userPlaced /\ w.desk = v.desk
  <2> DEFINE r == IF v.maximized THEN v.restore ELSE BoxOf(v)
             u == [v EXCEPT !.restore = r, !.maximized = TRUE, !.want = "work"]
  <2>1. w = u /\ r \in Box \cup {NoBox} /\ r \in {v.restore, BoxOf(v)}
    BY <1>1 DEF ViewType
  <2> HIDE DEF r
  <2>2. u \in ViewType
    BY <1>1, <2>1 DEF ViewType, Size
  <2>3. /\ u.restore = r /\ u.at = v.at /\ u.windowed = v.windowed /\ u.stage = v.stage /\ u.desk = v.desk
        /\ u.fullscreen = v.fullscreen /\ u.wantFull = v.wantFull /\ u.userPlaced = v.userPlaced
    BY <1>1 DEF ViewType
  <2> HIDE DEF u
  <2> QED BY <1>1, <2>1, <2>2, <2>3 DEF Fine, Stays
<1>3. Maximized(v) = place(w, v.desk, "corner")
  BY DEF Maximized
<1>4. v.desk \in Desk /\ "corner" \in Place
  BY <1>1 DEF ViewType, Place
<1> HIDE DEF w
<1> QED BY <1>2, <1>3, <1>4, PlaceIs DEF Stays

LEMMA UnmaximizedIs ==
  ASSUME NEW v, Fine(v), Cut(v)
  PROVE  LET t == Unmaximized(v)
         IN  Fine(t) /\ Cut(t) /\ Stays(t, v) /\ t.wantFull = v.wantFull /\ (v.maximized => t.userPlaced)
<1> DEFINE r == IF v.restore = NoBox THEN TwoThirds(v.desk) ELSE v.restore
           w == [v EXCEPT !.maximized = FALSE, !.restore = r, !.want = r.size]
           p == place(w, r.on, r.at)
<1>1. v \in ViewType /\ v.desk \in Desk
  BY DEF Fine, ViewType
<1>2. r \in Box /\ r.on \in Desk /\ r.at \in Place /\ r.size \in Size /\ (r.at = "moved" => v.userPlaced)
  BY <1>1, BoxesAre DEF Fine, ViewType
<1> HIDE DEF r
<1>3. Fine(w) /\ Stays(w, v) /\ w.wantFull = v.wantFull /\ w.userPlaced = v.userPlaced
  BY <1>1, <1>2 DEF Fine, ViewType, Stays
<1> HIDE DEF w
<1>4. Fine(p) /\ Cut(p) /\ Stays(p, w) /\ p.wantFull = w.wantFull
  BY <1>2, <1>3, PlaceIs
<1>5. Unmaximized(v) = IF ~v.maximized THEN v ELSE [p EXCEPT !.userPlaced = TRUE]
  BY DEF Unmaximized, p, w, r
<1> HIDE DEF p
<1>6. LET t == [p EXCEPT !.userPlaced = TRUE] IN Fine(t) /\ Cut(t) /\ Stays(t, p) /\ t.wantFull = p.wantFull /\ t.userPlaced
  BY <1>4 DEF Fine, ViewType, Cut, Stays
<1> QED BY <1>3, <1>4, <1>5, <1>6 DEF Stays

LEMMA FullscreenIs ==
  ASSUME NEW v, Fine(v), Cut(v), NEW on \in BOOLEAN
  PROVE  LET t == set_fullscreen(v, on)
         IN  Fine(t) /\ Cut(t) /\ Stays(t, v) /\ t.wantFull = v.wantFull
<1>1. v \in ViewType /\ v.desk \in Desk /\ {"corner", "centre"} \subseteq Place
  BY DEF Fine, ViewType, Place
<1>2. LET t == GoFullscreen(v) IN Fine(t) /\ Cut(t) /\ Stays(t, v) /\ t.wantFull = v.wantFull
  <2> DEFINE w == [v EXCEPT !.windowed = BoxOf(v), !.fullscreen = TRUE, !.want = "full"]
  <2>1. BoxOf(v) \in Box /\ BoxOf(v).at = v.at
    BY <1>1, BoxesAre
  <2>2. Fine(w) /\ Stays(w, v) /\ w.wantFull = v.wantFull
    BY <1>1, <2>1 DEF Fine, ViewType, Stays, Size
  <2> HIDE DEF w
  <2>3. GoFullscreen(v) = place(w, v.desk, "corner")
    BY DEF GoFullscreen, w
  <2> QED BY <1>1, <2>2, <2>3, PlaceIs DEF Stays
<1>3. LET t == LeaveFullscreen(v) IN Fine(t) /\ Cut(t) /\ Stays(t, v) /\ t.wantFull = v.wantFull
  <2> DEFINE w == [v EXCEPT !.fullscreen = FALSE]
  <2>1. Fine(w) /\ Stays(w, v) /\ w.wantFull = v.wantFull /\ w.desk = v.desk
    BY <1>1 DEF Fine, ViewType, Stays
  <2>2. CASE v.maximized
    <3> DEFINE m == Maximized(w)
    <3>1. Fine(m) /\ Cut(m) /\ Stays(m, w) /\ m.wantFull = w.wantFull /\ m.userPlaced = w.userPlaced
      BY <2>1, MaximizedIs
    <3>2. LeaveFullscreen(v) = [m EXCEPT !.restore = v.restore]
      BY <2>2 DEF LeaveFullscreen
    <3>3. w.userPlaced = v.userPlaced
      BY <1>1 DEF ViewType
    <3> HIDE DEF m, w
    <3> QED BY <1>1, <2>1, <3>1, <3>2, <3>3 DEF Fine, ViewType, Cut, Stays
  <2>3. CASE ~v.maximized /\ v.windowed # NoBox
    <3> DEFINE u == [w EXCEPT !.want = v.windowed.size]
    <3>1. v.windowed \in Box /\ v.windowed.on \in Desk /\ v.windowed.at \in Place /\ v.windowed.size \in Size
      BY <1>1, <2>3, BoxesAre DEF ViewType
    <3>2. Fine(u) /\ Stays(u, v) /\ u.wantFull = v.wantFull /\ (v.windowed.at = "moved" => u.userPlaced)
      BY <1>1, <2>1, <3>1 DEF Fine, ViewType, Stays
    <3>3. LeaveFullscreen(v) = place(u, v.windowed.on, v.windowed.at)
      BY <2>3 DEF LeaveFullscreen
    <3> HIDE DEF u
    <3> QED BY <3>1, <3>2, <3>3, PlaceIs DEF Stays
  <2>4. CASE ~v.maximized /\ v.windowed = NoBox
    <3> DEFINE u == [w EXCEPT !.want = "own"]
    <3>1. Fine(u) /\ Stays(u, v) /\ u.wantFull = v.wantFull /\ u.desk = v.desk
      BY <1>1, <2>1 DEF Fine, ViewType, Stays, Size
    <3>2. LeaveFullscreen(v) = place(u, u.desk, "centre")
      BY <2>4 DEF LeaveFullscreen, centre
    <3> HIDE DEF u
    <3> QED BY <1>1, <3>1, <3>2, PlaceIs DEF Stays
  <2> QED BY <2>2, <2>3, <2>4
<1> QED BY <1>2, <1>3 DEF set_fullscreen, Stays

LEMMA MaximizeIs ==
  ASSUME NEW v, Fine(v), Cut(v), NEW on \in BOOLEAN
  PROVE  LET t == set_maximized(v, on)
         IN  Fine(t) /\ Cut(t) /\ Stays(t, v) /\ t.wantFull = v.wantFull
BY MaximizedIs, UnmaximizedIs DEF set_maximized

(* wayland_app_place, of any window: placed, on the desktop that is there   *)
(* now, or left where the user put it.                                     *)
LEMMA AppPlaceIs ==
  ASSUME NEW v0, Fine(v0)
  PROVE  LET t == wayland_app_place(v0)
         IN  /\ Fine(t) /\ Cut(t) /\ Stays(t, v0) /\ ~t.wantFull
             /\ ~v0.userPlaced \/ v0.maximized \/ v0.fullscreen => t.on = v0.desk
             /\ v0.userPlaced /\ ~v0.maximized /\ ~v0.fullscreen /\ ~v0.wantMax /\ ~v0.wantFull
                  => t.on = v0.on /\ t.at = v0.at
<1> DEFINE v == IF v0.wantFull THEN [v0 EXCEPT !.wantFull = FALSE, !.fullscreen = TRUE] ELSE v0
           x == [v EXCEPT !.wantMax = FALSE, !.maximized = FALSE]
           m == Maximized(x)
           kept == IF v.restore = NoBox THEN m.restore ELSE v.restore
           r == IF kept.size # "own" THEN TwoThirds(v.desk) ELSE kept
           full == [v EXCEPT !.want = "full"]
<1>1. /\ Fine(v) /\ Stays(v, v0) /\ ~v.wantFull /\ v.on = v0.on /\ v.at = v0.at /\ v.maximized = v0.maximized
      /\ v.userPlaced = v0.userPlaced /\ v.wantMax = v0.wantMax
      /\ v.fullscreen = (v0.fullscreen \/ v0.wantFull)
      /\ v.desk \in Desk /\ {"corner", "centre"} \subseteq Place /\ v0.desk = v.desk
  <2>1. v0 \in ViewType /\ v0.desk \in Desk /\ {"corner", "centre"} \subseteq Place
    BY DEF Fine, ViewType, Place
  <2>2. CASE v0.wantFull
    <3>1. v = [v0 EXCEPT !.wantFull = FALSE, !.fullscreen = TRUE]
      BY <2>2
    <3>2. v \in ViewType
      BY <2>1, <3>1 DEF ViewType
    <3> QED BY <2>1, <2>2, <3>1, <3>2 DEF Fine, ViewType, Stays
  <2>3. CASE ~v0.wantFull
    <3>1. v = v0
      BY <2>3
    <3> HIDE DEF v
    <3> QED BY <2>1, <2>3, <3>1 DEF Fine, ViewType, Stays
  <2> QED BY <2>2, <2>3
<1>2. wayland_app_place(v0) =
        IF v.fullscreen THEN place(full, v.desk, "corner")
        ELSE IF v.wantMax \/ v.maximized \/ (~v.userPlaced /\ ExceedsWork(v.has)) THEN [m EXCEPT !.restore = r]
        ELSE IF ~v.userPlaced THEN place(v, v.desk, "centre") ELSE update_clip(v)
  BY DEF wayland_app_place, centre
<1> HIDE DEF v
<1>3. Fine(full) /\ Stays(full, v) /\ ~full.wantFull
  BY <1>1 DEF Fine, ViewType, Stays, Size
<1>4. LET t == place(full, v.desk, "corner") IN Fine(t) /\ Cut(t) /\ Stays(t, v) /\ ~t.wantFull /\ t.on = v.desk
  <2> HIDE DEF full
  <2> QED BY <1>1, <1>3, PlaceIs DEF Stays
<1>5. LET t == [m EXCEPT !.restore = r] IN Fine(t) /\ Cut(t) /\ Stays(t, v) /\ ~t.wantFull /\ t.on = v.desk
  <2>1. Fine(x) /\ Stays(x, v) /\ ~x.wantFull /\ x.desk = v.desk /\ x.userPlaced = v.userPlaced /\ x.at = v.at
    <3>1. x \in ViewType
      BY <1>1 DEF Fine, ViewType
    <3>2. /\ x.at = v.at /\ x.restore = v.restore /\ x.windowed = v.windowed /\ x.userPlaced = v.userPlaced
          /\ x.stage = v.stage /\ x.desk = v.desk /\ x.wantFull = v.wantFull
      BY <1>1 DEF Fine, ViewType
    <3> HIDE DEF x
    <3> QED BY <1>1, <3>1, <3>2 DEF Fine, Stays
  <2>2. BoxOf(x) \in Box /\ BoxOf(x).at = x.at
    BY <2>1, BoxesAre DEF Fine
  <2> HIDE DEF x
  <2>3. /\ Fine(m) /\ Cut(m) /\ Stays(m, x) /\ ~m.wantFull /\ m.on = v.desk /\ m.userPlaced = x.userPlaced
        /\ m.restore \in {x.restore, BoxOf(x)}
    BY <2>1, MaximizedIs
  <2> HIDE DEF m
  <2>4. r \in Box \cup {NoBox} /\ (r.at = "moved" => v.userPlaced)
    <3>1. kept \in Box \cup {NoBox} /\ (kept.at = "moved" => v.userPlaced)
      BY <1>1, <2>1, <2>3 DEF Fine, ViewType
    <3> HIDE DEF kept
    <3> QED BY <1>1, <3>1, BoxesAre
  <2> HIDE DEF r
  <2> QED BY <2>1, <2>3, <2>4 DEF Fine, ViewType, Cut, Stays
<1>6. LET t == place(v, v.desk, "centre") IN Fine(t) /\ Cut(t) /\ Stays(t, v) /\ ~t.wantFull /\ t.on = v.desk
  BY <1>1, PlaceIs
<1>7. LET t == update_clip(v)
      IN  Fine(t) /\ Cut(t) /\ Stays(t, v) /\ ~t.wantFull /\ t.on = v.on /\ t.at = v.at
  BY <1>1 DEF Fine, ViewType, Cut, Stays, update_clip
<1> HIDE DEF m, r, full
<1> QED BY <1>1, <1>2, <1>4, <1>5, <1>6, <1>7 DEF Stays

(* A commit of another size, wherever the drag that brought it began.      *)
LEMMA CommitIs ==
  ASSUME NEW v, Fine(v), Cut(v), NEW size \in Size,
         drag.what = "resize" => drag.on \in Desk /\ drag.at \in Place /\ (drag.at = "moved" => v.userPlaced)
  PROVE  LET t == wayland_app_commit(v, size)
         IN  /\ Fine(t) /\ Cut(t) /\ Stays(t, v) /\ t.wantFull = v.wantFull
             /\ v.userPlaced /\ drag.what # "resize" => t.on = v.on /\ t.at = v.at
<1> DEFINE w == [v EXCEPT !.has = size]
           at == IF drag.edge = "near" /\ v.userPlaced THEN "moved" ELSE drag.at
<1>1. v \in ViewType /\ v.on \in Desk /\ v.at \in Place /\ v.desk \in Desk /\ {"moved", "centre"} \subseteq Place
  BY DEF Fine, ViewType, Place
<1>2. /\ Fine(w) /\ Stays(w, v) /\ w.wantFull = v.wantFull /\ w.desk = v.desk /\ w.userPlaced = v.userPlaced
      /\ (v.at = "moved" => w.userPlaced)
  BY <1>1 DEF Fine, ViewType, Stays
<1>3. wayland_app_commit(v, size) =
        IF size = v.has THEN v
        ELSE IF drag.what = "resize" THEN place(w, drag.on, at)
        ELSE IF ~v.maximized /\ ~v.fullscreen /\ ~v.userPlaced THEN place(w, w.desk, "centre")
        ELSE place(w, v.on, v.at)
  BY DEF wayland_app_commit, centre
<1>4. drag.what = "resize" => drag.on \in Desk /\ at \in Place /\ (at = "moved" => w.userPlaced)
  BY <1>1, <1>2
<1> HIDE DEF w, at
<1>5. CASE size = v.has
  <2>1. wayland_app_commit(v, size) = v
    BY <1>3, <1>5
  <2> QED BY <2>1 DEF Stays
<1>6. CASE size # v.has /\ drag.what = "resize"
  <2>1. wayland_app_commit(v, size) = place(w, drag.on, at)
    BY <1>3, <1>6
  <2> QED BY <1>2, <1>4, <1>6, <2>1, PlaceIs DEF Stays
<1>7. CASE size # v.has /\ drag.what # "resize" /\ ~v.maximized /\ ~v.fullscreen /\ ~v.userPlaced
  <2>1. wayland_app_commit(v, size) = place(w, w.desk, "centre")
    BY <1>3, <1>7
  <2> QED BY <1>1, <1>2, <1>7, <2>1, PlaceIs DEF Stays
<1>8. CASE size # v.has /\ drag.what # "resize" /\ (v.maximized \/ v.fullscreen \/ v.userPlaced)
  <2> DEFINE p == place(w, v.on, v.at)
  <2>1. wayland_app_commit(v, size) = p
    BY <1>3, <1>8
  <2>2. Fine(p) /\ Cut(p) /\ Stays(p, w) /\ p.on = v.on /\ p.at = v.at /\ p.wantFull = w.wantFull
    BY <1>1, <1>2, PlaceIs
  <2> HIDE DEF p
  <2> QED BY <1>2, <2>1, <2>2 DEF Stays
<1> QED BY <1>5, <1>6, <1>7, <1>8

LEMMA AppMotionIs ==
  ASSUME NEW v, Fine(v), Cut(v)
  PROVE  LET t == wayland_app_grab_motion(v)
         IN  Fine(t) /\ Cut(t) /\ Stays(t, v) /\ t.wantFull = v.wantFull
<1>1. v \in ViewType /\ "moved" \in Place /\ "own" \in Size
  BY DEF Fine, Place, Size
<1>2. CASE drag.what = "move"
  <2>1. wayland_app_grab_motion(v) = [place(v, v.desk, "moved") EXCEPT !.userPlaced = TRUE]
    BY <1>2 DEF wayland_app_grab_motion
  <2> DEFINE clip == IF v.fullscreen THEN NoClip ELSE <<v.desk, "moved", v.desk>>
             t == [v EXCEPT !.on = v.desk, !.at = "moved", !.clip = clip, !.userPlaced = TRUE]
  <2>2. clip \in (Desk \X Place \X Desk) \cup {NoClip}
    BY <1>1 DEF ViewType
  <2>3. wayland_app_grab_motion(v) = t
    BY <1>1, <2>1 DEF place, update_clip, ViewType
  <2>4. /\ t \in ViewType /\ t.stage = v.stage /\ t.desk = v.desk /\ t.userPlaced /\ t.wantFull = v.wantFull
        /\ t.fullscreen = v.fullscreen /\ t.on = v.desk /\ t.at = "moved" /\ t.clip = clip
    <3> HIDE DEF clip
    <3> QED BY <1>1, <2>2 DEF ViewType
  <2> HIDE DEF t
  <2> QED BY <2>3, <2>4 DEF Fine, Cut, Stays
<1>3. CASE drag.what # "move"
  <2> DEFINE t == [[v EXCEPT !.want = "own"] EXCEPT !.userPlaced = TRUE]
  <2>1. wayland_app_grab_motion(v) = t
    BY <1>3 DEF wayland_app_grab_motion
  <2>2. /\ t \in ViewType /\ t.stage = v.stage /\ t.desk = v.desk /\ t.userPlaced /\ t.wantFull = v.wantFull
        /\ t.fullscreen = v.fullscreen /\ t.on = v.on /\ t.at = v.at /\ t.clip = v.clip
    BY <1>1 DEF ViewType
  <2> HIDE DEF t
  <2> QED BY <2>1, <2>2 DEF Fine, Cut, Stays
<1> QED BY <1>2, <1>3

----------------------------------------------------------------------------
(* An X11 window, of the session or elevated: one that is maximized has a  *)
(* place to come back to.                                                  *)
XFine(v) == Fine(v) /\ (v.maximized => v.restore \in Box)

(* What a function changes of one comes to this.                           *)
LEMMA MovedIs ==
  ASSUME NEW v, XFine(v), NEW t \in ViewType,
         t.stage = v.stage, t.desk = v.desk, t.windowed = v.windowed, v.userPlaced => t.userPlaced,
         "moved" \in {t.at, t.restore.at} => t.userPlaced, t.maximized => t.restore \in Box
  PROVE  XFine(t) /\ Stays(t, v)
BY DEF XFine, Fine, Stays

LEMMA PositionIs ==
  ASSUME NEW v, XFine(v)
  PROVE  LET t == view_position(v)
         IN  /\ XFine(t) /\ Stays(t, v)
             /\ kind = "shell" => t.on = v.desk /\ t.at = "corner"
             /\ kind # "shell" => IF v.userPlaced THEN t = v ELSE t.on = v.desk
<1>1. v \in ViewType /\ v.desk \in Desk /\ {"corner", "centre"} \subseteq Place /\ "work" \in Size
  BY DEF XFine, Fine, ViewType, Place, Size
<1>0. CASE kind = "shell"
  <2> DEFINE t == [v EXCEPT !.on = v.desk, !.at = "corner"]
  <2>1. view_position(v) = t
    BY <1>0 DEF view_position, MoveTo
  <2>2. /\ t \in ViewType /\ t.stage = v.stage /\ t.desk = v.desk /\ t.windowed = v.windowed /\ t.on = v.desk
        /\ t.at = "corner" /\ t.restore = v.restore /\ t.userPlaced = v.userPlaced /\ t.maximized = v.maximized
    BY <1>1 DEF ViewType
  <2> HIDE DEF t
  <2>3. XFine(t) /\ Stays(t, v)
    BY <2>2, MovedIs DEF XFine, Fine
  <2> QED BY <1>0, <2>1, <2>2, <2>3
<1>2. CASE kind # "shell" /\ v.userPlaced
  BY <1>2 DEF view_position, Stays
<1>3. CASE kind # "shell" /\ ~v.userPlaced /\ ~ExceedsLayout(v.has)
  <2> DEFINE t == [v EXCEPT !.on = v.desk, !.at = "centre"]
  <2>1. view_position(v) = t
    BY <1>3 DEF view_position, MoveTo
  <2>2. /\ t \in ViewType /\ t.stage = v.stage /\ t.desk = v.desk /\ t.windowed = v.windowed /\ t.on = v.desk
        /\ t.at = "centre" /\ t.restore = v.restore /\ t.userPlaced = v.userPlaced /\ t.maximized = v.maximized
    BY <1>1 DEF ViewType
  <2> HIDE DEF t
  <2>3. XFine(t) /\ Stays(t, v)
    BY <2>2, MovedIs DEF XFine, Fine
  <2> QED BY <1>3, <2>1, <2>2, <2>3
<1>4. CASE kind # "shell" /\ ~v.userPlaced /\ ExceedsLayout(v.has)
  <2> DEFINE r == IF v.maximized THEN v.restore ELSE TwoThirds(v.desk)
  <2>1. r \in Box /\ r.at # "moved"
    BY <1>1, <1>4, BoxesAre DEF XFine, Fine
  <2>2. view_position(v) = [v EXCEPT !.on = v.desk, !.at = "corner", !.maximized = TRUE, !.want = "work",
                              !.restore = r]
    BY <1>1, <1>4 DEF view_position, MoveTo, ViewType
  <2> HIDE DEF r
  <2> DEFINE t == [v EXCEPT !.on = v.desk, !.at = "corner", !.maximized = TRUE, !.want = "work", !.restore = r]
  <2>3. /\ t \in ViewType /\ t.stage = v.stage /\ t.desk = v.desk /\ t.windowed = v.windowed
        /\ t.on = v.desk /\ t.at = "corner" /\ t.restore = r /\ t.userPlaced = v.userPlaced
    BY <1>1, <2>1 DEF ViewType
  <2>4. view_position(v) = t
    BY <2>2
  <2> HIDE DEF t
  <2>5. XFine(t) /\ Stays(t, v)
    BY <2>1, <2>3, MovedIs
  <2> QED BY <1>4, <2>3, <2>4, <2>5
<1> QED BY <1>0, <1>2, <1>3, <1>4

LEMMA ElevatedPlaceIs ==
  ASSUME NEW v, XFine(v)
  PROVE  LET t == elevated_view_place(v)
         IN  XFine(t) /\ Stays(t, v) /\ t.on = v.desk /\ (~v.maximized => t.at = v.at)
BY DEF XFine, Fine, ViewType, Stays, Place, Size, elevated_view_place, MoveTo

LEMMA ElevatedMotionIs ==
  ASSUME NEW v, XFine(v),
         drag.what = "resize" => drag.on \in Desk /\ drag.at \in Place
  PROVE  LET t == elevated_grab_motion(v) IN XFine(t) /\ Stays(t, v)
<1>1. v \in ViewType /\ "moved" \in Place /\ "own" \in Size
  BY DEF XFine, Fine, Place, Size
<1>2. CASE drag.what = "resize"
  <2> DEFINE at == IF drag.edge = "near" THEN "moved" ELSE drag.at
  <2>1. at \in Place
    BY <1>1, <1>2
  <2>2. elevated_grab_motion(v) = [v EXCEPT !.on = drag.on, !.at = at, !.want = "own", !.userPlaced = TRUE]
    BY <1>1, <1>2 DEF elevated_grab_motion, MoveTo, ViewType
  <2> HIDE DEF at
  <2> DEFINE t == [v EXCEPT !.on = drag.on, !.at = at, !.want = "own", !.userPlaced = TRUE]
  <2>3. /\ t \in ViewType /\ t.stage = v.stage /\ t.desk = v.desk /\ t.windowed = v.windowed
        /\ t.userPlaced /\ t.maximized = v.maximized /\ t.restore = v.restore
    BY <1>1, <1>2, <2>1 DEF ViewType
  <2>4. elevated_grab_motion(v) = t
    BY <2>2
  <2> HIDE DEF t
  <2> QED BY <2>3, <2>4, MovedIs DEF XFine
<1>3. CASE drag.what # "resize"
  <2> DEFINE t == [v EXCEPT !.on = v.desk, !.at = "moved", !.userPlaced = TRUE]
  <2>1. elevated_grab_motion(v) = t
    BY <1>1, <1>3 DEF elevated_grab_motion, MoveTo, ViewType
  <2>2. /\ t \in ViewType /\ t.stage = v.stage /\ t.desk = v.desk /\ t.windowed = v.windowed
        /\ t.userPlaced /\ t.maximized = v.maximized /\ t.restore = v.restore
    BY <1>1 DEF ViewType
  <2> HIDE DEF t
  <2> QED BY <2>1, <2>2, MovedIs DEF XFine
<1> QED BY <1>2, <1>3

LEMMA BarMotionIs ==
  ASSUME NEW v, XFine(v)
  PROVE  LET t == decor_motion(v) IN XFine(t) /\ Stays(t, v)
<1> DEFINE want == IF v.maximized THEN v.restore.size ELSE v.want
<1>1. v \in ViewType /\ "moved" \in Place
  BY DEF XFine, Fine, Place
<1>2. want \in Size
  BY <1>1, BoxesAre DEF XFine, ViewType
<1>3. decor_motion(v) = [v EXCEPT !.on = v.desk, !.at = "moved", !.maximized = FALSE, !.userPlaced = TRUE,
                           !.want = want]
  BY <1>1 DEF decor_motion, MoveTo, ViewType
<1> HIDE DEF want
<1> DEFINE t == [v EXCEPT !.on = v.desk, !.at = "moved", !.maximized = FALSE, !.userPlaced = TRUE, !.want = want]
<1>4. /\ t \in ViewType /\ t.stage = v.stage /\ t.desk = v.desk /\ t.windowed = v.windowed
      /\ t.userPlaced /\ ~t.maximized
  BY <1>1, <1>2 DEF ViewType
<1>5. decor_motion(v) = t
  BY <1>3
<1> HIDE DEF t
<1> QED BY <1>4, <1>5, MovedIs

(* Maximized and back, whoever asks.                                       *)
XMaximized(v, size) ==
  [MoveTo(v, v.desk, "corner") EXCEPT
     !.restore = [on |-> v.on, at |-> v.at, size |-> v.want], !.maximized = TRUE, !.want = size]
XRestored(v) ==
  [MoveTo(v, v.restore.on, v.restore.at) EXCEPT !.maximized = FALSE, !.want = v.restore.size]

LEMMA XMaximizeIs ==
  ASSUME NEW v, XFine(v)
  PROVE  /\ \A size \in Size : XFine(XMaximized(v, size)) /\ Stays(XMaximized(v, size), v)
         /\ v.maximized => XFine(XRestored(v)) /\ Stays(XRestored(v), v)
<1>1. v \in ViewType /\ "corner" \in Place
  BY DEF XFine, Fine, Place
<1>2. ASSUME NEW size \in Size
      PROVE  XFine(XMaximized(v, size)) /\ Stays(XMaximized(v, size), v)
  <2> DEFINE r == [on |-> v.on, at |-> v.at, size |-> v.want]
  <2>1. r \in Box /\ r.at = v.at
    BY <1>1 DEF ViewType, Box
  <2>2. XMaximized(v, size) = [v EXCEPT !.on = v.desk, !.at = "corner", !.restore = r, !.maximized = TRUE,
                                 !.want = size]
    BY <1>1 DEF XMaximized, MoveTo, ViewType
  <2> HIDE DEF r
  <2> DEFINE t == [v EXCEPT !.on = v.desk, !.at = "corner", !.restore = r, !.maximized = TRUE, !.want = size]
  <2>3. /\ t \in ViewType /\ t.stage = v.stage /\ t.desk = v.desk /\ t.windowed = v.windowed
        /\ t.at = "corner" /\ t.restore = r /\ t.userPlaced = v.userPlaced
    BY <1>1, <2>1 DEF ViewType
  <2>4. XMaximized(v, size) = t
    BY <2>2
  <2> HIDE DEF t
  <2> QED BY <2>1, <2>3, <2>4, MovedIs DEF XFine, Fine
<1>3. ASSUME v.maximized
      PROVE  XFine(XRestored(v)) /\ Stays(XRestored(v), v)
  <2> DEFINE on == v.restore.on
             at == v.restore.at
             size == v.restore.size
  <2>1. on \in Desk /\ at \in Place /\ size \in Size /\ (at = "moved" => v.userPlaced)
    BY <1>3, BoxesAre DEF XFine, Fine
  <2>2. XRestored(v) = [v EXCEPT !.on = on, !.at = at, !.maximized = FALSE, !.want = size]
    BY <1>1 DEF XRestored, MoveTo, ViewType
  <2> HIDE DEF on, at, size
  <2> DEFINE t == [v EXCEPT !.on = on, !.at = at, !.maximized = FALSE, !.want = size]
  <2>3. /\ t \in ViewType /\ t.stage = v.stage /\ t.desk = v.desk /\ t.windowed = v.windowed
        /\ t.at = at /\ t.restore = v.restore /\ t.userPlaced = v.userPlaced /\ ~t.maximized
    BY <1>1, <2>1 DEF ViewType
  <2>4. XRestored(v) = t
    BY <2>2
  <2> HIDE DEF t
  <2> QED BY <2>1, <2>3, <2>4, MovedIs DEF XFine, Fine
<1> QED BY <1>2, <1>3

----------------------------------------------------------------------------
(* Every step.                                                             *)

(* What is dragged goes on being dragged when its window only changes.     *)
LEMMA DragGoesOn ==
  ASSUME DragInv, held' = held, bar' = bar, drag' = drag, kind' = kind, Stays(view', view)
  PROVE  DragInv'
BY DEF DragInv, Stays, mapped

LEMMA DragEnds ==
  ASSUME held' \in BOOLEAN, drag' = NoDrag, bar' \in BOOLEAN, bar' => mapped' /\ kind' = "x11"
  PROVE  DragInv'
BY DEF DragInv, NoDrag, Place

LEMMA InitHolds == Init => Inv
<1> SUFFICES ASSUME Init PROVE Inv
  OBVIOUS
<1>1. PICK d \in Desk :
        view = [desk |-> d, stage |-> "new", on |-> d, at |-> "corner", has |-> "own", want |-> "own",
                maximized |-> FALSE, userPlaced |-> FALSE, restore |-> NoBox,
                fullscreen |-> FALSE, windowed |-> NoBox, wantMax |-> FALSE, wantFull |-> FALSE, clip |-> NoClip]
  BY DEF Init
<1>2. view \in ViewType /\ view.at = "corner" /\ view.restore = NoBox /\ view.windowed = NoBox
      /\ view.stage = "new" /\ ~view.maximized
  BY <1>1 DEF ViewType, Place, Size
<1>3. Fine(view)
  BY <1>2, BoxesAre DEF Fine
<1>4. WindowInv
  BY <1>2, <1>3 DEF Init, WindowInv, mapped
<1>5. DragInv
  BY DEF Init, DragInv, NoDrag, Place
<1> QED BY <1>4, <1>5 DEF Inv

LEMMA NativeRequestsKeep == Inv /\ NativeRequests => Inv'
<1> SUFFICES ASSUME Inv, NativeRequests PROVE Inv'
  OBVIOUS
<1>1. kind = "native" /\ kind' = kind /\ drag' = drag /\ bar' = bar /\ held' = held
  BY DEF NativeRequests, InitialCommit, NativeRequestMaximize, wayland_app_request_fullscreen
<1>2. Fine(view) /\ view \in ViewType /\ (mapped => Cut(view) /\ ~view.wantFull)
  BY <1>1 DEF Inv, WindowInv, Fine
<1>3. ASSUME NEW max \in BOOLEAN, NEW full \in BOOLEAN, InitialCommit(max, full)
      PROVE  Inv'
  <2> DEFINE want == IF full \/ view.wantFull THEN "full" ELSE IF max \/ view.wantMax THEN "work" ELSE "own"
             wantFull == view.wantFull \/ full
             wantMax == view.wantMax \/ (max /\ ~full /\ ~view.wantFull)
  <2>1. want \in Size /\ wantFull \in BOOLEAN /\ wantMax \in BOOLEAN
    BY <1>2 DEF Size, ViewType
  <2>2. view' = [view EXCEPT !.stage = "configured", !.want = want, !.wantFull = wantFull, !.wantMax = wantMax]
    BY <1>3 DEF InitialCommit
  <2> HIDE DEF want, wantFull, wantMax
  <2>3. /\ view' \in ViewType /\ view'.stage = "configured" /\ view'.at = view.at /\ view'.restore = view.restore
        /\ view'.windowed = view.windowed /\ view'.userPlaced = view.userPlaced
    BY <1>2, <2>1, <2>2 DEF ViewType
  <2>4. ~mapped /\ drag = NoDrag /\ ~bar
    BY <1>3 DEF InitialCommit, mapped, Inv, DragInv
  <2>5. DragInv'
    BY <1>1, <2>4, DragEnds DEF Inv, DragInv
  <2>6. WindowInv'
    BY <1>1, <1>2, <2>3 DEF Inv, WindowInv, Fine, mapped
  <2> QED BY <2>5, <2>6 DEF Inv
<1>4. ASSUME Fine(view'), Stays(view', view), mapped => Cut(view') /\ ~view'.wantFull
      PROVE  Inv'
  BY <1>1, <1>4, DragGoesOn DEF Inv, WindowInv, Stays, mapped
<1>5. ASSUME NEW on \in BOOLEAN, NativeRequestMaximize(on)
      PROVE  Inv'
  <2>1. CASE mapped
    BY <1>2, <1>4, <1>5, <2>1, MaximizeIs DEF NativeRequestMaximize
  <2>2. CASE ~mapped
    <3>1. view' = [view EXCEPT !.wantMax = on]
      BY <1>5, <2>2 DEF NativeRequestMaximize
    <3>2. Fine(view') /\ Stays(view', view)
      BY <1>2, <3>1 DEF Fine, ViewType, Stays
    <3> QED BY <1>4, <2>2, <3>2
  <2> QED BY <2>1, <2>2
<1>6. ASSUME NEW on \in BOOLEAN, wayland_app_request_fullscreen(on)
      PROVE  Inv'
  <2>1. CASE mapped
    BY <1>2, <1>4, <1>6, <2>1, FullscreenIs DEF wayland_app_request_fullscreen
  <2>2. CASE ~mapped
    <3>1. view' = [view EXCEPT !.wantFull = on]
      BY <1>6, <2>2 DEF wayland_app_request_fullscreen
    <3>2. Fine(view') /\ Stays(view', view)
      BY <1>2, <3>1 DEF Fine, ViewType, Stays
    <3> QED BY <1>4, <2>2, <3>2
  <2> QED BY <2>1, <2>2
<1> QED BY <1>3, <1>5, <1>6 DEF NativeRequests

(* Of a window that is not native, what is shown of it is not cut off.     *)
LEMMA XKeeps ==
  ASSUME Inv, kind # "native", kind' = kind, XFine(view'), Stays(view', view),
         held' = held, bar' = bar, drag' = drag
  PROVE  Inv'
BY DragGoesOn DEF Inv, WindowInv, XFine

LEMMA XIsFine == Inv /\ kind # "native" => XFine(view)
BY DEF Inv, WindowInv, XFine

LEMMA XRequestsKeep == Inv /\ XRequests => Inv'
<1> SUFFICES ASSUME Inv, XRequests PROVE Inv'
  OBVIOUS
<1>1. kind # "native" /\ kind' = kind /\ drag' = drag /\ bar' = bar /\ held' = held
  BY DEF XRequests, XRequestMaximize, XRequestConfigure, ElevatedRequestConfigure, ElevatedSetGeometry
<1>2. XFine(view) /\ view \in ViewType /\ {"own", "huge", "work", "full"} \subseteq Size
  BY <1>1, XIsFine DEF XFine, Fine, Size
<1>3. ASSUME NEW on \in BOOLEAN, XRequestMaximize(on)
      PROVE  Inv'
  <2> DEFINE size == IF kind = "elevated" THEN "full" ELSE "work"
  <2>1. CASE on
    <3>1. view' = XMaximized(view, size)
      BY <1>3, <2>1 DEF XRequestMaximize, XMaximized
    <3> QED BY <1>1, <1>2, <3>1, XMaximizeIs, XKeeps
  <2>2. CASE ~on
    <3>1. view.maximized
      BY <1>2, <1>3, <2>2 DEF XRequestMaximize, ViewType
    <3>2. view' = XRestored(view)
      BY <1>3, <2>2 DEF XRequestMaximize, XRestored
    <3> QED BY <1>1, <1>2, <3>1, <3>2, XMaximizeIs, XKeeps
  <2> QED BY <2>1, <2>2
<1>4. ASSUME NEW size \in Size
      PROVE  LET v == [view EXCEPT !.want = size] IN XFine(v) /\ Stays(v, view) /\ v.desk = view.desk
  BY <1>2 DEF XFine, Fine, ViewType, Stays
<1>5. ASSUME NEW size \in Size, XRequestConfigure(size)
      PROVE  Inv'
  <2> DEFINE v == [view EXCEPT !.want = size]
  <2>1. view' = IF mapped THEN view_position(v) ELSE v
    BY <1>5 DEF XRequestConfigure
  <2>2. XFine(v) /\ Stays(v, view)
    BY <1>4
  <2> HIDE DEF v
  <2> QED BY <1>1, <2>1, <2>2, PositionIs, XKeeps DEF Stays
<1>6. ASSUME NEW size \in Size, NEW on \in Desk, ElevatedRequestConfigure(size, on)
      PROVE  Inv'
  <2> DEFINE v == [view EXCEPT !.want = size]
             t == [v EXCEPT !.on = on, !.at = "asked"]
  <2>1. view' = IF mapped THEN t ELSE v
    BY <1>6 DEF ElevatedRequestConfigure, MoveTo
  <2>2. XFine(v) /\ Stays(v, view)
    BY <1>4
  <2> HIDE DEF v
  <2>3. XFine(t) /\ Stays(t, v)
    BY <2>2 DEF XFine, Fine, ViewType, Stays, Place
  <2> HIDE DEF t
  <2> QED BY <1>1, <2>1, <2>2, <2>3, XKeeps DEF Stays
<1>7. ASSUME NEW on \in Desk, ElevatedSetGeometry(on)
      PROVE  Inv'
  <2>1. PICK at \in {"asked", "corner", view.at, view.restore.at} : view' = MoveTo(view, on, at)
    BY <1>7 DEF ElevatedSetGeometry
  <2>2. at \in Place /\ (at = "moved" => view.userPlaced)
    <3>1. view.at \in Place /\ view.restore.at \in Place
      BY <1>2, BoxesAre DEF ViewType, Place
    <3> QED BY <1>2, <2>1, <3>1 DEF XFine, Fine, Place
  <2> DEFINE t == [view EXCEPT !.on = on, !.at = at]
  <2>3. view' = t
    BY <2>1 DEF MoveTo
  <2>4. /\ t \in ViewType /\ t.stage = view.stage /\ t.desk = view.desk /\ t.windowed = view.windowed
        /\ t.at = at /\ t.restore = view.restore /\ t.userPlaced = view.userPlaced /\ t.maximized = view.maximized
    BY <1>2, <2>2 DEF ViewType
  <2> HIDE DEF t
  <2>5. XFine(t) /\ Stays(t, view)
    BY <1>2, <2>2, <2>4, MovedIs DEF XFine, Fine
  <2> QED BY <1>1, <2>3, <2>5, XKeeps
<1> QED BY <1>2, <1>3, <1>5, <1>6, <1>7 DEF XRequests

(* The view's part of what a drag does.                                    *)
LEMMA MotionIs ==
  ASSUME Inv, drag # NoDrag,
         view' = IF kind = "native" THEN wayland_app_grab_motion(view) ELSE elevated_grab_motion(view)
  PROVE  /\ Stays(view', view)
         /\ kind = "native" => Fine(view') /\ Cut(view') /\ ~view'.wantFull
         /\ kind # "native" => XFine(view')
<1>1. mapped /\ (kind # "native" => XFine(view))
      /\ (kind = "native" => Fine(view) /\ Cut(view) /\ ~view.wantFull)
      /\ (drag.what = "resize" => drag.on \in Desk /\ drag.at \in Place)
  BY XIsFine DEF Inv, WindowInv, DragInv
<1>2. CASE kind = "native"
  <2>1. view' = wayland_app_grab_motion(view)
    BY <1>2
  <2> QED BY <1>1, <1>2, <2>1, AppMotionIs
<1>3. CASE kind # "native"
  <2>1. view' = elevated_grab_motion(view)
    BY <1>3
  <2> QED BY <1>1, <1>3, <2>1, ElevatedMotionIs
<1> QED BY <1>2, <1>3

LEMMA DragsKeep == Inv /\ Drags => Inv'
<1> SUFFICES ASSUME Inv, Drags PROVE Inv'
  OBVIOUS
<1>1. kind' = kind /\ kind \in Kind /\ held \in BOOLEAN /\ Fine(view)
  BY DEF Drags, NativeRequestMove, NativeRequestResize, begin_grab, BarPress, toggle_maximize, Press, Release,
         Motion, Inv, WindowInv, DragInv
<1>2. view \in ViewType /\ "moved" \in Place
  BY <1>1 DEF Fine, Place
<1>3. ASSUME view' = view, DragInv'
      PROVE  Inv'
  BY <1>1, <1>3 DEF Inv, WindowInv, mapped
<1>4. ASSUME view' = view, mapped, held, held' = held, bar' = bar,
             drag' = [NoDrag EXCEPT !.what = "move"]
      PROVE  Inv'
  <2>1. DragInv'
    BY <1>1, <1>4 DEF Inv, DragInv, NoDrag, Place, mapped
  <2> QED BY <1>3, <1>4, <2>1
<1>5. ASSUME NEW edge \in {"near", "far"}, view' = view, mapped, held, held' = held, bar' = bar,
             drag' = [what |-> "resize", edge |-> edge, on |-> view.on, at |-> view.at]
      PROVE  Inv'
  <2>1. DragInv'
    BY <1>1, <1>2, <1>5 DEF Inv, DragInv, NoDrag, ViewType, Fine, mapped
  <2> QED BY <1>3, <1>5, <2>1
<1>6. ASSUME NativeRequestMove
      PROVE  Inv'
  <2>1. kind = "native" /\ mapped /\ Cut(view) /\ ~view.wantFull
    BY <1>6 DEF NativeRequestMove, Inv, WindowInv
  <2>2. CASE view.maximized
    <3> DEFINE u == Unmaximized(view)
               t == place(u, view.desk, "moved")
    <3>1. Fine(u) /\ Stays(u, view) /\ ~u.wantFull /\ u.userPlaced
      BY <1>1, <2>1, <2>2, UnmaximizedIs
    <3> HIDE DEF u
    <3>2. Fine(t) /\ Cut(t) /\ Stays(t, u) /\ ~t.wantFull
      <4>1. view.desk \in Desk
        BY <1>2 DEF ViewType
      <4> QED BY <1>2, <3>1, <4>1, PlaceIs
    <3>3. view' = t
      BY <1>6, <2>2 DEF NativeRequestMove, u
    <3> HIDE DEF t
    <3>4. DragInv'
      BY <1>1, <1>6, <2>1, <3>1, <3>2, <3>3 DEF NativeRequestMove, Inv, DragInv, NoDrag, Place, Stays, mapped
    <3>5. WindowInv'
      BY <1>1, <2>1, <3>2, <3>3 DEF WindowInv
    <3> QED BY <3>4, <3>5 DEF Inv
  <2>3. CASE ~view.maximized
    BY <1>4, <1>6, <2>1, <2>3 DEF NativeRequestMove
  <2> QED BY <2>2, <2>3
<1>7. ASSUME NEW edge \in {"near", "far"}, NativeRequestResize(edge)
      PROVE  Inv'
  BY <1>5, <1>7 DEF NativeRequestResize
<1>8. ASSUME NEW what \in {"move", "resize"}, NEW edge \in {"near", "far"}, begin_grab(what, edge)
      PROVE  Inv'
  <2>1. CASE what = "move"
    BY <1>4, <1>8, <2>1 DEF begin_grab
  <2>2. CASE what = "resize"
    BY <1>5, <1>8, <2>2 DEF begin_grab
  <2> QED BY <2>1, <2>2
<1>9. ASSUME BarPress
      PROVE  Inv'
  <2>1. DragInv'
    BY <1>1, <1>9 DEF BarPress, Inv, DragInv, mapped
  <2> QED BY <1>3, <1>9, <2>1 DEF BarPress
<1>10. ASSUME toggle_maximize
       PROVE  Inv'
  <2> DEFINE t == IF ~view.maximized THEN XMaximized(view, "work") ELSE XRestored(view)
  <2>1. view' = [t EXCEPT !.userPlaced = TRUE]
    BY <1>10 DEF toggle_maximize, XMaximized, XRestored
  <2>2. kind = "x11" /\ bar' = FALSE /\ drag' = drag /\ held' = held
    BY <1>10 DEF toggle_maximize
  <2>3. XFine(t) /\ Stays(t, view)
    BY <2>2, XIsFine, XMaximizeIs DEF Size
  <2> HIDE DEF t
  <2>4. XFine(view') /\ Stays(view', view)
    BY <2>1, <2>3 DEF XFine, Fine, ViewType, Stays
  <2>5. DragInv'
    BY <1>1, <2>2, <2>4 DEF Inv, DragInv, Stays, mapped
  <2> QED BY <1>1, <2>2, <2>4, <2>5 DEF Inv, WindowInv, XFine
<1>11. ASSUME Press
       PROVE  Inv'
  <2>1. DragInv'
    BY <1>1, <1>11 DEF Press, Inv, DragInv, mapped
  <2> QED BY <1>3, <1>11, <2>1 DEF Press
<1>12. ASSUME Release
       PROVE  Inv'
  <2>1. DragInv'
    <3>1. CASE bar
      BY <1>1, <1>12, <3>1 DEF Release, Inv, DragInv, mapped
    <3>2. CASE ~bar
      BY <1>12, <3>2, DragEnds DEF Release
    <3> QED BY <3>1, <3>2
  <2> QED BY <1>3, <1>12, <2>1 DEF Release
<1>13. ASSUME Motion
       PROVE  Inv'
  <2>1. bar' = bar /\ held' = held /\ (bar => mapped /\ kind = "x11")
    BY <1>13 DEF Motion, Inv, DragInv
  <2>2. CASE drag # NoDrag /\ held
    <3>1. /\ drag' = drag
          /\ view' = IF kind = "native" THEN wayland_app_grab_motion(view) ELSE elevated_grab_motion(view)
      BY <1>13, <2>2 DEF Motion
    <3>2. /\ Stays(view', view)
          /\ kind = "native" => Fine(view') /\ Cut(view') /\ ~view'.wantFull
          /\ kind # "native" => XFine(view')
      BY <2>2, <3>1, MotionIs
    <3>3. DragInv'
      BY <1>1, <2>1, <3>1, <3>2, DragGoesOn DEF Inv
    <3> QED BY <1>1, <3>2, <3>3 DEF Inv, WindowInv, XFine
  <2>3. CASE ~(drag # NoDrag /\ held)
    <3>1. drag' = NoDrag /\ view' = IF bar THEN decor_motion(view) ELSE view
      BY <1>13, <2>3 DEF Motion
    <3>2. CASE bar
      <4>1. XFine(view') /\ Stays(view', view)
        BY <2>1, <3>1, <3>2, XIsFine, BarMotionIs
      <4>2. DragInv'
        BY <1>1, <2>1, <3>1, <4>1, DragEnds DEF Inv, DragInv, Stays, mapped
      <4> QED BY <1>1, <2>1, <3>2, <4>1, <4>2 DEF Inv, WindowInv, XFine
    <3>3. CASE ~bar
      <4>1. DragInv'
        BY <1>1, <2>1, <3>1, <3>3, DragEnds DEF Inv, DragInv
      <4> QED BY <1>3, <3>1, <3>3, <4>1
    <3> QED BY <3>2, <3>3
  <2> QED BY <2>2, <2>3
<1> QED BY <1>6, <1>7, <1>8, <1>9, <1>10, <1>11, <1>12, <1>13 DEF Drags

LEMMA CommitsKeep == Inv /\ Commits => Inv'
<1> SUFFICES ASSUME Inv, NEW size \in Size, Commit(size)
             PROVE  Inv'
  BY DEF Commits
<1>1. kind' = kind /\ drag' = drag /\ bar' = bar /\ held' = held /\ mapped
  BY DEF Commit
<1>2. CASE kind = "native"
  <2>1. view' = wayland_app_commit(view, size) /\ Fine(view) /\ Cut(view) /\ ~view.wantFull
    BY <1>1, <1>2 DEF Commit, Inv, WindowInv
  <2>2. drag.what = "resize" => drag.on \in Desk /\ drag.at \in Place /\ (drag.at = "moved" => view.userPlaced)
    BY DEF Inv, DragInv
  <2>3. Fine(view') /\ Cut(view') /\ Stays(view', view) /\ ~view'.wantFull
    BY <2>1, <2>2, CommitIs
  <2> QED BY <1>1, <1>2, <2>3, DragGoesOn DEF Inv, WindowInv
<1>3. CASE kind # "native"
  <2>1. view' = [view EXCEPT !.has = size] /\ XFine(view)
    BY <1>3, XIsFine DEF Commit
  <2>2. XFine(view') /\ Stays(view', view)
    BY <2>1 DEF XFine, Fine, ViewType, Stays
  <2> QED BY <1>1, <1>3, <2>2, XKeeps
<1> QED BY <1>2, <1>3

(* The desktop, and what is done of it, with the place the window had.     *)
LEMMA DeskIs ==
  ASSUME Inv, NEW d \in Desk, DeskChange(d)
  PROVE  LET v == [view EXCEPT !.desk = d]
         IN  /\ view' = IF mapped THEN view_position_all(v) ELSE v
             /\ Fine(v) /\ (kind # "native" => XFine(v))
             /\ v.desk = d /\ v.stage = view.stage /\ v.userPlaced = view.userPlaced /\ v.on = view.on /\ v.at = view.at
             /\ v.maximized = view.maximized /\ v.fullscreen = view.fullscreen
             /\ v.wantMax = view.wantMax /\ v.wantFull = view.wantFull
<1> DEFINE v == [view EXCEPT !.desk = d]
<1>1. view' = IF mapped THEN view_position_all(v) ELSE v
  BY DEF DeskChange
<1>2. Fine(view) /\ (kind # "native" => XFine(view))
  BY XIsFine DEF Inv, WindowInv
<1>3. /\ v \in ViewType /\ v.restore = view.restore /\ v.windowed = view.windowed
      /\ v.desk = d /\ v.stage = view.stage /\ v.userPlaced = view.userPlaced /\ v.on = view.on /\ v.at = view.at
      /\ v.maximized = view.maximized /\ v.fullscreen = view.fullscreen
      /\ v.wantMax = view.wantMax /\ v.wantFull = view.wantFull
  BY <1>2 DEF Fine, ViewType
<1> HIDE DEF v
<1>4. Fine(v) /\ (kind # "native" => XFine(v))
  BY <1>2, <1>3 DEF Fine, XFine
<1> QED BY <1>1, <1>3, <1>4 DEF v

LEMMA DeskChangesKeep == Inv /\ DeskChanges => Inv'
<1> SUFFICES ASSUME Inv, NEW d \in Desk, DeskChange(d)
             PROVE  Inv'
  BY DEF DeskChanges
<1> DEFINE v == [view EXCEPT !.desk = d]
<1>1. kind' = kind /\ drag' = drag /\ bar' = bar /\ held' = held /\ kind \in Kind
  BY DEF DeskChange, Inv, WindowInv
<1>2. /\ view' = IF mapped THEN view_position_all(v) ELSE v
      /\ Fine(v) /\ (kind # "native" => XFine(v))
      /\ v.stage = view.stage /\ v.userPlaced = view.userPlaced
  BY DeskIs
<1> HIDE DEF v
<1>3. /\ view'.stage = view.stage /\ (view.userPlaced => view'.userPlaced) /\ Fine(view')
      /\ kind = "native" /\ mapped => Cut(view') /\ ~view'.wantFull
      /\ kind # "native" => XFine(view')
  <2>1. CASE ~mapped
    BY <1>2, <2>1
  <2>2. CASE mapped /\ kind = "native"
    <3>1. view' = wayland_app_place(v)
      BY <1>2, <2>2 DEF view_position_all
    <3> QED BY <1>2, <2>2, <3>1, AppPlaceIs DEF Stays
  <2>3. CASE mapped /\ kind \in {"x11", "shell"}
    <3>1. view' = view_position(v)
      BY <1>2, <2>3 DEF view_position_all
    <3> QED BY <1>2, <2>3, <3>1, PositionIs DEF Stays, XFine
  <2>4. CASE mapped /\ kind = "elevated"
    <3>1. view' = elevated_view_place(v)
      BY <1>2, <2>4 DEF view_position_all
    <3> QED BY <1>2, <2>4, <3>1, ElevatedPlaceIs DEF Stays, XFine
  <2> QED BY <1>1, <2>1, <2>2, <2>3, <2>4 DEF Kind
<1>4. DragInv'
  BY <1>1, <1>3 DEF Inv, DragInv, mapped
<1>5. WindowInv'
  BY <1>1, <1>3 DEF Inv, WindowInv, XFine, mapped
<1> QED BY <1>4, <1>5 DEF Inv

LEMMA LifeKeeps ==
  ASSUME Inv, Unmap \/ Minimize \/ \E size \in Size : Map(size)
  PROVE  Inv'
<1>1. kind \in Kind /\ Fine(view) /\ view \in ViewType /\ held \in BOOLEAN
  BY DEF Inv, WindowInv, DragInv, Fine
<1>2. ASSUME Unmap
      PROVE  Inv'
  <2>1. kind' = kind /\ drag' = NoDrag /\ ~bar' /\ bar' \in BOOLEAN /\ held' = held /\ view' = [view EXCEPT !.stage = "new", !.clip = NoClip]
    BY <1>2 DEF Unmap
  <2>2. /\ view' \in ViewType /\ view'.stage = "new" /\ view'.at = view.at /\ view'.restore = view.restore
        /\ view'.windowed = view.windowed /\ view'.userPlaced = view.userPlaced /\ view'.maximized = view.maximized
    BY <1>1, <2>1 DEF ViewType
  <2>3. WindowInv'
    BY <1>1, <2>1, <2>2 DEF Inv, WindowInv, Fine, mapped
  <2> QED BY <1>1, <2>1, <2>3, DragEnds DEF Inv
<1>3. ASSUME Minimize
      PROVE  Inv'
  BY <1>1, <1>3, DragEnds DEF Minimize, Inv, DragInv, WindowInv, mapped
<1>4. ASSUME NEW size \in Size, Map(size)
      PROVE  Inv'
  <2>1. kind' = kind /\ drag' = drag /\ bar' = bar /\ held' = held /\ ~mapped
    BY <1>4 DEF Map, mapped
  <2>2. DragInv'
    BY <1>1, <2>1, DragEnds DEF Inv, DragInv
  <2> DEFINE v == [view EXCEPT !.stage = "mapped", !.has = size, !.want = size]
  <2>3. Fine(v) /\ (kind # "native" => XFine(v)) /\ v.desk \in Desk
    <3>1. /\ v \in ViewType /\ v.at = view.at /\ v.restore = view.restore /\ v.windowed = view.windowed
          /\ v.userPlaced = view.userPlaced /\ v.maximized = view.maximized /\ v.desk \in Desk
      BY <1>1 DEF ViewType
    <3> HIDE DEF v
    <3> QED BY <1>1, <3>1, XIsFine DEF XFine, Fine
  <2>4. PICK at \in {"asked", "centre"} :
          view' = CASE kind = "native" -> wayland_app_place([v EXCEPT !.want = view.want])
                    [] kind \in {"x11", "shell"} -> view_position(v)
                    [] kind = "elevated" -> MoveTo(v, v.desk, at)
    BY <1>4 DEF Map
  <2> HIDE DEF v
  <2>5. CASE kind = "native"
    <3> DEFINE u == [v EXCEPT !.want = view.want]
    <3>1. Fine(u)
      BY <1>1, <2>3 DEF Fine, ViewType
    <3>2. view' = wayland_app_place(u)
      BY <2>4, <2>5
    <3> HIDE DEF u
    <3> QED BY <1>1, <2>1, <2>2, <2>5, <3>1, <3>2, AppPlaceIs DEF Inv, WindowInv
  <2>6. CASE kind \in {"x11", "shell"}
    <3>1. view' = view_position(v)
      BY <2>4, <2>6
    <3> QED BY <1>1, <2>1, <2>2, <2>3, <2>6, <3>1, PositionIs DEF Inv, WindowInv, XFine
  <2>7. CASE kind = "elevated"
    <3>1. view' = [v EXCEPT !.on = v.desk, !.at = at]
      BY <2>4, <2>7 DEF MoveTo
    <3>2. XFine(view')
      BY <2>3, <2>7, <3>1 DEF XFine, Fine, ViewType, Place
    <3> QED BY <1>1, <2>1, <2>2, <2>7, <3>2 DEF Inv, WindowInv, XFine
  <2> QED BY <1>1, <2>5, <2>6, <2>7 DEF Kind
<1> QED BY <1>2, <1>3, <1>4

LEMMA InvKept == Inv /\ [Next]_vars => Inv'
<1> SUFFICES ASSUME Inv, [Next]_vars PROVE Inv'
  OBVIOUS
<1>1. CASE Next
  BY <1>1, NativeRequestsKeep, XRequestsKeep, DragsKeep, CommitsKeep, DeskChangesKeep, LifeKeeps DEF Next
<1>2. CASE UNCHANGED vars
  BY <1>2 DEF vars, Inv, WindowInv, DragInv, mapped
<1> QED BY <1>1, <1>2

----------------------------------------------------------------------------
(* Through any requests, drags, commits and changes of the desktop, a      *)
(* native window is cut off at the taskbar of the desktop it is on, where  *)
(* it is now, and no drag goes on without its window.                      *)
THEOREM WindowStaysSound == Spec => []WindowSound
<1>1. Inv => WindowSound
  BY InvIsSound
<1> QED BY <1>1, InitHolds, InvKept, PTL DEF Spec

(* Where the user put a window, it stays.                                  *)
THEOREM UserPlaceStays == Spec => UserPlaceKept
<1> DEFINE Asked == \E size \in {"own", "huge"} : XRequestConfigure(size)
           Kept == Windowed /\ view.at = "moved" /\ drag.what # "resize" /\ ~view.wantMax /\ kind # "shell"
                     /\ (Commits \/ DeskChanges \/ Asked)
                   => view'.at = "moved" /\ (view'.on = view.on \/ kind = "elevated")
<1>1. Inv /\ [Next]_vars => [Kept]_vars
  <2> SUFFICES ASSUME Inv, Windowed, view.at = "moved", drag.what # "resize", ~view.wantMax,
                      kind # "shell", Commits \/ DeskChanges \/ Asked
               PROVE  view'.at = "moved" /\ (view'.on = view.on \/ kind = "elevated")
    OBVIOUS
  <2>1. /\ mapped /\ ~view.maximized /\ ~view.fullscreen /\ view.userPlaced /\ Fine(view) /\ view \in ViewType
        /\ kind \in Kind
        /\ kind = "native" => Cut(view) /\ ~view.wantFull
        /\ kind # "native" => XFine(view)
    BY XIsFine DEF Windowed, Inv, WindowInv, Fine
  <2>2. ASSUME NEW size \in Size, Commit(size)
        PROVE  view'.at = view.at /\ view'.on = view.on
    <3>1. CASE kind = "native"
      BY <2>1, <2>2, <3>1, CommitIs DEF Commit
    <3>2. CASE kind # "native"
      BY <2>1, <2>2, <3>2 DEF Commit, ViewType
    <3> QED BY <3>1, <3>2
  <2>3. ASSUME NEW d \in Desk, DeskChange(d)
        PROVE  view'.at = view.at /\ (view'.on = view.on \/ kind = "elevated")
    <3> DEFINE v == [view EXCEPT !.desk = d]
    <3>1. /\ view' = view_position_all(v) /\ Fine(v) /\ (kind # "native" => XFine(v))
          /\ v.userPlaced /\ v.on = view.on /\ v.at = view.at
          /\ ~v.maximized /\ ~v.fullscreen /\ ~v.wantMax /\ v.wantFull = view.wantFull
      BY <2>1, <2>3, DeskIs
    <3> HIDE DEF v
    <3>2. CASE kind = "native"
      <4>1. view' = wayland_app_place(v)
        BY <3>1, <3>2 DEF view_position_all
      <4> QED BY <2>1, <3>1, <3>2, <4>1, AppPlaceIs
    <3>3. CASE kind = "x11"
      <4>1. view' = view_position(v)
        BY <3>1, <3>3 DEF view_position_all
      <4> QED BY <3>1, <3>3, <4>1, PositionIs
    <3>4. CASE kind = "elevated"
      <4>1. view' = elevated_view_place(v)
        BY <3>1, <3>4 DEF view_position_all
      <4> QED BY <3>1, <3>4, <4>1, ElevatedPlaceIs
    <3> QED BY <2>1, <3>2, <3>3, <3>4 DEF Kind
  <2>4. ASSUME NEW size \in {"own", "huge"}, XRequestConfigure(size)
        PROVE  view'.at = view.at /\ view'.on = view.on
    <3> DEFINE v == [view EXCEPT !.want = size]
    <3>1. view' = view_position(v)
      BY <2>1, <2>4 DEF XRequestConfigure
    <3>2. XFine(v) /\ v.userPlaced /\ v.on = view.on /\ v.at = view.at
      BY <2>1, <2>4 DEF XRequestConfigure, XFine, Fine, ViewType, Size
    <3> HIDE DEF v
    <3> QED BY <3>1, <3>2, PositionIs
  <2> QED BY <2>2, <2>3, <2>4 DEF Commits, DeskChanges
<1> HIDE DEF Kept
<1>2. Spec => [][Kept]_vars
  BY <1>1, InitHolds, InvKept, PTL DEF Spec
<1> QED BY <1>2 DEF Kept, UserPlaceKept

(* When the desktop becomes another, a window the user has put nowhere, an *)
(* elevated one and a native one that fills the desktop go along, and the  *)
(* shell's is at the new one's origin.                                     *)
THEOREM DeskIsFollowed == Spec => DeskFollowed
<1> DEFINE Follows == \/ ~view.userPlaced \/ kind \in {"shell", "elevated"}
                      \/ kind = "native" /\ (view.maximized \/ view.fullscreen)
           Goes == mapped /\ DeskChanges =>
                     /\ Follows => view'.on = view'.desk
                     /\ kind = "shell" => view'.at = "corner"
<1>1. Inv /\ [Next]_vars => [Goes]_vars
  <2> SUFFICES ASSUME Inv, mapped, NEW d \in Desk, DeskChange(d)
               PROVE  (Follows => view'.on = view'.desk) /\ (kind = "shell" => view'.at = "corner")
    BY DEF DeskChanges
  <2> DEFINE v == [view EXCEPT !.desk = d]
  <2>1. /\ view' = view_position_all(v) /\ Fine(v) /\ (kind # "native" => XFine(v)) /\ kind \in Kind
        /\ v.userPlaced = view.userPlaced /\ v.maximized = view.maximized /\ v.fullscreen = view.fullscreen
    BY DeskIs DEF Inv, WindowInv
  <2> HIDE DEF v
  <2>2. CASE kind = "native"
    <3>1. view' = wayland_app_place(v)
      BY <2>1, <2>2 DEF view_position_all
    <3> QED BY <2>1, <2>2, <3>1, AppPlaceIs DEF Stays
  <2>3. CASE kind \in {"x11", "shell"}
    <3>1. view' = view_position(v)
      BY <2>1, <2>3 DEF view_position_all
    <3> QED BY <2>1, <2>3, <3>1, PositionIs DEF Stays
  <2>4. CASE kind = "elevated"
    <3>1. view' = elevated_view_place(v)
      BY <2>1, <2>4 DEF view_position_all
    <3> QED BY <2>1, <2>4, <3>1, ElevatedPlaceIs DEF Stays
  <2> QED BY <2>1, <2>2, <2>3, <2>4 DEF Kind
<1> HIDE DEF Goes
<1>2. Spec => [][Goes]_vars
  BY <1>1, InitHolds, InvKept, PTL DEF Spec
<1> QED BY <1>2 DEF Goes, DeskFollowed
=============================================================================
