------------------------------ MODULE DeskComp ------------------------------
(***************************************************************************)
(* sg-deskcomp: an X client that draws the windows of Wine's desktop in the *)
(* X server's place.  The server and the programs go on while it works, and *)
(* it learns of what they did from a queue of events, each of which may be  *)
(* out of date by the time it is read.  What it keeps is a list of entries, *)
(* in the order it draws them: one for each window, and a ghost for each    *)
(* picture it keeps to animate a window that has closed or gone.            *)
(*                                                                         *)
(* The server is external (x, stack, desk, queue), the rest is              *)
(* sg-deskcomp.c.  Pixels, shadows, blur, the wobble and the animated       *)
(* background are not modelled; an area that must be drawn again is the     *)
(* fact that some must.                                                     *)
(***************************************************************************)
EXTENDS Integers, FiniteSets, SequencesExt

CONSTANTS
  Window,    \* X windows' ids
  Framed,    \* windows with a frame, which are animated and can be minimized
  None,      \* no window
  Frames,    \* bound: the frames an animation takes
  MaxQueue,  \* bound: the events waiting
  MaxGhosts  \* bound: the ghosts at a time

ASSUME Bounds == None \notin Window /\ Framed \subseteq Window /\ {Frames, MaxQueue, MaxGhosts} \subseteq Nat /\ Frames > 0

\* Where a window is and how large: minimized, or as large as one of the sizes of the desktop,
\* the smaller of which is any window's on the larger.
Sizes == {"small", "large"}
Geom == {"off"} \cup Sizes
Covers(geom, size) == geom \in {"large", size}
SameSize(g, h) == g = h \/ {g, h} = {"off", "small"}

VARIABLES
  x,         \* the server's windows
  stack,     \* the desktop's children, the lowest first
  desk,      \* the size of the desktop, or "gone"
  queue,     \* the events sent to sg-deskcomp and not yet read
  pc,        \* where its main loop is
  adding,    \* the entry add_window has begun, while pc is "add"
  comp       \* wins; todo, the children attach has still to add; direct; canvas, mapped or not; owed,
             \* some area to draw; dw and dh as size; and of the frames since the whole was last to
             \* draw, what the last drew and whether a ghost's end swapped windows in one

vars == <<x, stack, desk, queue, pc, adding, comp>>

NoWindow == [at |-> "none", mapped |-> FALSE, geom |-> "small", redirected |-> FALSE]
Entry == [id : Window, mapped : BOOLEAN, managed : BOOLEAN, geom : Geom,
          pict : {"none", "current", "stale"}, ghost : BOOLEAN, anim : 0..Frames]
Event == [what : {"create", "destroy", "map", "unmap", "leave"}, of : Window]
         \cup [what : {"configure"}, of : Window, geom : Geom]
         \cup [what : {"resize"}, size : Sizes] \cup {[what |-> "gone"]}

TypeOK ==
  /\ x \in [Window -> [at : {"none", "child", "away"}, mapped : BOOLEAN, geom : Geom, redirected : BOOLEAN]]
  /\ stack \in Seq(Window) /\ IsInjective(stack)
  /\ desk \in {"gone", "small", "large"} /\ queue \in Seq(Event)
  /\ pc \in {"detached", "attach", "adopt", "poll", "events", "add", "paint"}
  /\ adding \in Entry \cup {None}
  /\ comp \in [wins : Seq(Entry), todo : Seq(Window), direct : Window \cup {None}, canvas : BOOLEAN, owed : BOOLEAN,
                size : Sizes, drawn : Seq(Window), swapped : BOOLEAN]

NoComp == [wins |-> <<>>, todo |-> <<>>, direct |-> None, canvas |-> FALSE, owed |-> FALSE, size |-> "small",
           drawn |-> <<>>, swapped |-> FALSE]
Init ==
  /\ x = [v \in Window |-> NoWindow] /\ stack = <<>> /\ desk = "small" /\ queue = <<>>
  /\ pc = "detached" /\ adding = None /\ comp = NoComp

\* The elements of s at the places I, those with a lower key first and otherwise in their order.
Prior(key, i, j) == key[i] < key[j] \/ (key[i] = key[j] /\ i < j)
Rank(I, key, i) == Cardinality({j \in I : Prior(key, j, i)})
InOrder(s, I, key) == [k \in 1..Cardinality(I) |-> s[CHOOSE i \in I : Rank(I, key, i) = k - 1]]
Picked(s, I) == InOrder(s, I, [i \in I |-> 0])
Without(s, e) == Picked(s, {i \in DOMAIN s : s[i] # e})

Ghosts(wins) == {i \in DOMAIN wins : wins[i].ghost}
find(wins, v) == \E i \in DOMAIN wins : wins[i].id = v /\ ~wins[i].ghost
The(wins, v) == wins[CHOOSE i \in DOMAIN wins : wins[i].id = v /\ ~wins[i].ghost]
Put(wins, e) == [i \in DOMAIN wins |-> IF wins[i].id = e.id /\ ~wins[i].ghost THEN e ELSE wins[i]]

-----------------------------------------------------------------------------
(* The X server and the programs.  Nothing is sent before the desktop's      *)
(* events have been asked for, nor about windows that have left it.          *)

Listening == pc # "detached"
Send(e) == /\ Len(queue) < MaxQueue
           /\ queue' = IF Listening THEN Append(queue, e) ELSE queue
Of(what, v) == [what |-> what, of |-> v]

\* The pixmap behind the picture sg-deskcomp took is not the window's any more.
Stale(v) == comp' = [comp EXCEPT !.wins = [i \in DOMAIN @ |->
              IF @[i].id = v /\ @[i].pict = "current" THEN [@[i] EXCEPT !.pict = "stale"] ELSE @[i]]]
Adding(v) == IF pc = "add" THEN adding.id = v ELSE FALSE
Mine == UNCHANGED <<desk, pc, adding>>

\* An id nobody remembers stands for a new one.
XCreate(v) ==
  /\ desk # "gone" /\ x[v].at = "none" /\ v # comp.direct /\ ~Adding(v) /\ v \notin ToSet(comp.todo)
  /\ \A i \in DOMAIN comp.wins : comp.wins[i].id # v
  /\ \A i \in DOMAIN queue : "of" \in DOMAIN queue[i] => queue[i].of # v
  /\ \E g \in Geom \ {"off"} : x' = [x EXCEPT ![v] = [NoWindow EXCEPT !.at = "child", !.geom = g]]
  /\ stack' = Append(stack, v) /\ Send(Of("create", v)) /\ UNCHANGED comp /\ Mine

XDestroy(v) ==
  /\ x[v].at # "none" /\ x' = [x EXCEPT ![v] = NoWindow] /\ stack' = Without(stack, v)
  /\ IF x[v].at = "child" THEN Send(Of("destroy", v)) ELSE UNCHANGED queue
  /\ Stale(v) /\ Mine

\* It is reparented into another window, which unmaps it first.
XLeave(v) ==
  /\ x[v].at = "child" /\ ~x[v].mapped /\ x' = [x EXCEPT ![v].at = "away", ![v].geom = "small"] /\ stack' = Without(stack, v)
  /\ Send(Of("leave", v)) /\ UNCHANGED comp /\ Mine

XMap(v) ==
  /\ x[v].at = "child" /\ x' = [x EXCEPT ![v].mapped = ~@]
  /\ Send(Of(IF x[v].mapped THEN "unmap" ELSE "map", v)) /\ Stale(v) /\ UNCHANGED stack /\ Mine

XConfigure(v, g) ==
  /\ x[v].at = "child" /\ g # x[v].geom /\ (g = "off" => v \in Framed) /\ x' = [x EXCEPT ![v].geom = g]
  /\ Send([what |-> "configure", of |-> v, geom |-> g])
  /\ IF SameSize(g, x[v].geom) THEN UNCHANGED comp ELSE Stale(v)
  /\ UNCHANGED stack /\ Mine

XRaise(v) ==
  /\ x[v].at = "child" /\ Last(stack) # v /\ stack' = Append(Without(stack, v), v)
  /\ Send([what |-> "configure", of |-> v, geom |-> x[v].geom]) /\ UNCHANGED <<x, comp>> /\ Mine

\* Bound: a desktop only grows.
XDesktop ==
  /\ \/ desk = "gone" /\ pc = "detached" /\ desk' = "small" /\ UNCHANGED queue
     \/ desk = "small" /\ desk' = "large" /\ Send([what |-> "resize", size |-> "large"])
     \/ desk # "gone" /\ stack = <<>> /\ pc # "attach" /\ desk' = "gone" /\ Send([what |-> "gone"])
  /\ UNCHANGED <<x, stack, pc, adding, comp>>

Programs ==
  \/ XDesktop
  \/ \E v \in Window : XCreate(v) \/ XDestroy(v) \/ XLeave(v) \/ XMap(v) \/ XRaise(v)
                       \/ \E g \in Geom : XConfigure(v, g)

-----------------------------------------------------------------------------
(* Entries and their pictures.                                              *)

(* get_pictures: the pixmap of a window that is mapped, ours and redirected. *)
(* d is the window the server draws itself, y its windows.                  *)
get_pictures(e, d, y) ==
  [e EXCEPT !.pict = IF e.mapped /\ e.managed /\ e.id # d /\ y[e.id].mapped /\ y[e.id].redirected
                     THEN "current" ELSE "none"]

(* restack: the server's order now, a window's ghosts above it, and those of *)
(* windows that are gone above all.                                         *)
Place(v) == IF v \in ToSet(stack) THEN CHOOSE i \in DOMAIN stack : stack[i] = v ELSE Len(stack) + 1
restack(wins) ==
  InOrder(wins, DOMAIN wins, [i \in DOMAIN wins |->
    2 * Place(wins[i].id) + IF wins[i].ghost /\ wins[i].id \in ToSet(stack) THEN 1 ELSE 0])

(* forget: the last entry takes the place of the one that goes.             *)
forget(wins, i) == [j \in 1..Len(wins) - 1 |-> wins[IF j = i THEN Len(wins) ELSE j]]
Forgotten(wins, v) == forget(wins, CHOOSE i \in DOMAIN wins : wins[i].id = v /\ ~wins[i].ghost)

\* An area to draw, or the whole: what the last frame drew is not the question any more.
Owing(c, some) == IF some THEN [c EXCEPT !.owed = TRUE, !.drawn = <<>>] ELSE c
OwingAll(c, some) == IF some THEN [Owing(c, TRUE) EXCEPT !.swapped = FALSE] ELSE c

make_ghost(e) == [e EXCEPT !.ghost = TRUE, !.pict = "stale", !.anim = Frames]
Animated(e) == e.id \in Framed /\ Cardinality(Ghosts(comp.wins)) < MaxGhosts

\* What add_window reads first, and what it does to the window then.
NewEntry(v) == [id |-> v, mapped |-> x[v].mapped, managed |-> FALSE, geom |-> x[v].geom,
                pict |-> "none", ghost |-> FALSE, anim |-> 0]
Redirect(v) == IF x[v].at = "none" THEN x ELSE [x EXCEPT ![v].redirected = TRUE]
Added(e, y) == get_pictures([e EXCEPT !.managed = y[e.id].redirected], comp.direct, y)

-----------------------------------------------------------------------------
(* Taking the desktop and giving it up.  It does not go while it is taken:   *)
(* setup_canvas would read a size nobody wrote.                             *)

Size == IF desk = "gone" THEN Sizes ELSE {desk}
setup_canvas(c, size) == [OwingAll(c, TRUE) EXCEPT !.canvas = TRUE, !.size = size]

Attach ==
  /\ pc = "detached" /\ desk # "gone" /\ pc' = "attach" /\ UNCHANGED <<x, stack, desk, queue, adding, comp>>

(* The children of that moment are added one after the other, the server    *)
(* and the programs going on, and nothing is read before the last.          *)
attach ==
  /\ pc = "attach" /\ pc' = "adopt" /\ UNCHANGED <<x, stack, desk, queue, adding>>
  /\ comp' = [setup_canvas(NoComp, desk) EXCEPT !.todo = stack]

(* add_window, up to the redirection and from it on.                        *)
Addable(v) == ~find(comp.wins, v) /\ x[v].at # "none"

Adopt ==
  /\ pc = "adopt" /\ UNCHANGED <<x, stack, desk, queue>>
  /\ IF comp.todo = <<>>
     THEN pc' = "events" /\ comp' = [comp EXCEPT !.wins = restack(@)] /\ UNCHANGED adding
     ELSE LET v == Head(comp.todo) IN
          /\ IF Addable(v) THEN pc' = "add" /\ adding' = NewEntry(v) ELSE UNCHANGED <<pc, adding>>
          /\ comp' = [comp EXCEPT !.todo = Tail(@)]

add_window ==
  /\ pc = "add" /\ adding' = None /\ UNCHANGED <<stack, desk, queue>>
  /\ x' = Redirect(adding.id) /\ pc' = IF comp.todo = <<>> THEN "events" ELSE "adopt"
  /\ LET wins == Append(comp.wins, Added(adding, x')) IN
     comp' = [Owing(comp, adding.mapped /\ x'[adding.id].redirected) EXCEPT
                !.wins = IF comp.todo = <<>> THEN restack(wins) ELSE wins]

-----------------------------------------------------------------------------
(* The events, one at a time until none is left.                            *)

Read(what) == pc \in {"poll", "events"} /\ queue # <<>> /\ Head(queue).what = what /\ queue' = Tail(queue)
Drawn(wins) == comp' = [Owing(comp, TRUE) EXCEPT !.wins = wins]
Then(at) == pc' = at /\ UNCHANGED <<x, stack, desk, adding>>
Known == find(comp.wins, Head(queue).of)
Its == The(comp.wins, Head(queue).of)

OnGone == Read("gone") /\ comp' = NoComp /\ Then("detached")

OnResize ==
  /\ Read("resize") /\ Then("events")
  /\ IF Head(queue).size = comp.size THEN UNCHANGED comp
     ELSE \E size \in Size : comp' = setup_canvas(comp, size)

\* Mutant: a window attach has added already is added again.
OnCreate_Again ==
  /\ Read("create") /\ UNCHANGED <<x, stack, desk>>
  /\ LET v == Head(queue).of IN
     IF x[v].at = "none"
     THEN pc' = "events" /\ comp' = [comp EXCEPT !.wins = restack(@)] /\ UNCHANGED adding
     ELSE pc' = "add" /\ adding' = NewEntry(v) /\ UNCHANGED comp

OnCreate ==
  /\ Read("create") /\ UNCHANGED <<x, stack, desk>>
  /\ LET v == Head(queue).of IN
     IF Addable(v) THEN pc' = "add" /\ adding' = NewEntry(v) /\ UNCHANGED comp
     ELSE pc' = "events" /\ comp' = [comp EXCEPT !.wins = restack(@)] /\ UNCHANGED adding

\* Mutant: the area it had is not drawn again.
OnDestroy_NoDamage ==
  /\ \/ Read("destroy") \/ Read("leave")
  /\ Then("events") /\ comp' = IF Known THEN [comp EXCEPT !.wins = Forgotten(@, Head(queue).of)] ELSE comp
OnDestroy ==
  /\ \/ Read("destroy") \/ Read("leave")
  /\ Then("events") /\ IF Known THEN Drawn(Forgotten(comp.wins, Head(queue).of)) ELSE UNCHANGED comp

OnMap ==
  /\ Read("map") /\ Then("events")
  /\ IF ~Known THEN UNCHANGED comp
     ELSE LET e == get_pictures([Its EXCEPT !.mapped = TRUE], comp.direct, x) IN
          Drawn(restack(Put(comp.wins, IF Animated(e) /\ e.geom # "off" THEN [e EXCEPT !.anim = Frames] ELSE e)))

OnUnmap ==
  /\ Read("unmap") /\ Then("events")
  /\ IF ~Known THEN UNCHANGED comp
     ELSE LET gone == Put(comp.wins, [Its EXCEPT !.mapped = FALSE, !.pict = "none"]) IN
          Drawn(IF Animated(Its) /\ Its.pict # "none" /\ Its.geom # "off"
                THEN restack(Append(gone, make_ghost(Its))) ELSE gone)

Resized(e, g) == ~SameSize(e.geom, g)
on_configure ==
  /\ Read("configure") /\ Then("events")
  /\ IF ~Known THEN UNCHANGED comp
     ELSE LET e == Its
              g == Head(queue).geom
              leaves == g = "off" /\ e.geom # "off" /\ e.mapped /\ e.pict # "none" /\ Animated(e)
              f == [e EXCEPT !.geom = g, !.pict = IF leaves THEN "none" ELSE @]
              h == IF (Resized(e, g) \/ f.pict = "none") /\ e.mapped THEN get_pictures(f, comp.direct, x) ELSE f
              k == IF e.geom = "off" /\ g # "off" /\ Animated(e) THEN [h EXCEPT !.anim = Frames] ELSE h
          IN Drawn(restack(Put(comp.wins, k) \o IF leaves THEN <<make_ghost(e)>> ELSE <<>>))

Events == OnGone \/ OnResize \/ OnCreate \/ OnDestroy \/ OnMap \/ OnUnmap \/ on_configure

-----------------------------------------------------------------------------
(* The screen: one window drawn by the server, or a frame of all of them.   *)

CoversAll(e) == e.managed /\ Covers(e.geom, comp.size) /\ e.anim = 0

\* The topmost window there is to see, if it can have the screen.  A window one pixel wide, which
\* is passed over, is not modelled, nor are translucent ones and the wobble.
Top == LET up == {i \in DOMAIN comp.wins : comp.wins[i].mapped /\ ~comp.wins[i].ghost} IN
       IF up = {} THEN None
       ELSE LET e == comp.wins[CHOOSE i \in up : \A j \in up : j <= i] IN IF CoversAll(e) THEN e.id ELSE None

\* Mutant: it counts as direct until its picture has been taken.
Undirect_Stale(c, y) ==
  IF ~find(c.wins, c.direct) THEN c.wins
  ELSE LET e == The(c.wins, c.direct) IN
       Put(c.wins, get_pictures([e EXCEPT !.managed = y[e.id].redirected], c.direct, y))

\* The direct window is redirected again and its picture taken.
Undirect(c, y) ==
  IF ~find(c.wins, c.direct) THEN c.wins
  ELSE LET e == The(c.wins, c.direct) IN
       Put(c.wins, get_pictures([e EXCEPT !.managed = y[e.id].redirected], None, y))

\* Mutant: the canvas stays hidden.
Directed_NoCanvas(c, wins, top) ==
  [OwingAll(c, c.direct # None) EXCEPT !.direct = top, !.canvas = @ /\ top = None,
     !.wins = IF top = None THEN wins ELSE Put(wins, [The(wins, top) EXCEPT !.pict = "none"])]

Directed(c, wins, top) ==
  [OwingAll(c, c.direct # None) EXCEPT !.direct = top, !.canvas = top = None,
     !.wins = IF top = None THEN wins ELSE Put(wins, [The(wins, top) EXCEPT !.pict = "none"])]

check_direct ==
  /\ pc \in {"poll", "events"} /\ queue = <<>> /\ pc' = "paint" /\ UNCHANGED <<stack, desk, queue, adding>>
  /\ IF Top = comp.direct THEN UNCHANGED <<x, comp>>
     ELSE LET d == comp.direct
              y == IF d = None THEN x ELSE Redirect(d)
          IN /\ x' = IF Top = None THEN y ELSE [y EXCEPT ![Top].redirected = FALSE]
             /\ comp' = Directed(comp, IF d = None THEN comp.wins ELSE Undirect(comp, y), Top)

\* draw_window: a ghost goes when its animation is over.
Shown(e) == (e.mapped \/ e.ghost) /\ e.pict # "none"
Over(e) == e.ghost /\ e.anim <= 1
\* Mutant: time does not pass for it.
draw_window_Forever(e) == e
draw_window(e) == IF Shown(e) /\ e.anim > 0 THEN [e EXCEPT !.anim = @ - 1] ELSE e

\* The first ghost that is over leaves its place to the last entry, which is drawn there, and so
\* on until there is none.
EndFirst(wins) ==
  LET over == {i \in DOMAIN wins : Over(wins[i])}
  IN IF over = {} THEN wins ELSE forget(wins, CHOOSE i \in over : \A j \in over : i <= j)
Ended(wins) ==
  LET after[n \in 0..MaxGhosts] == IF n = 0 THEN wins ELSE EndFirst(after[n - 1]) IN after[MaxGhosts]

Frame ==
  LET wins == restack(comp.wins)
      left == Ended(wins)
      next == [i \in DOMAIN left |-> draw_window(left[i])]
      seen == Picked(left, {i \in DOMAIN left : LET e == left[i] IN Shown(e) /\ ~e.ghost /\ (e.geom # "off" \/ e.anim > 1)})
  IN [comp EXCEPT !.wins = next, !.owed = \E i \in DOMAIN next : Shown(next[i]) /\ next[i].anim > 0,
                  !.drawn = [i \in DOMAIN seen |-> seen[i].id], !.swapped = @ \/ left # Picked(wins, {i \in DOMAIN wins : ~Over(wins[i])})]

paint ==
  /\ pc = "paint" /\ pc' = "poll" /\ UNCHANGED <<x, stack, desk, queue, adding>>
  /\ comp' = IF comp.direct # None THEN [Owing(comp, TRUE) EXCEPT !.owed = FALSE] ELSE IF comp.owed THEN Frame ELSE comp

Loop == Attach \/ attach \/ Adopt \/ add_window \/ Events \/ check_direct \/ paint
Next == Programs \/ Loop
Spec == Init /\ [][Next]_vars

\* sg-deskcomp is a loop that waits for nothing but events and has a step to take whenever there
\* is a desktop: WF_vars(Loop), by what only its steps do, which TLC evaluates much faster.
Moves == pc' # pc \/ Len(queue') < Len(queue)
FairSpec == Spec /\ ([]<><<Moves>>_vars \/ <>[](pc = "detached" /\ desk = "gone"))

-----------------------------------------------------------------------------
(* What it is for.                                                          *)

\* Every event has been read and the screen drawn since.
Quiet == pc = "poll" /\ queue = <<>>
Children == {v \in Window : x[v].at = "child"}

(* With nothing left to read, the entries are the desktop's windows, each    *)
(* once, as the server has them: whatever the events said that was out of   *)
(* date when it was read, and whenever the window came.                     *)
Bookkept == Quiet =>
  /\ comp.size = desk \/ desk = "gone"
  /\ \A i, j \in DOMAIN comp.wins \ Ghosts(comp.wins) : comp.wins[i].id = comp.wins[j].id => i = j
  /\ \A v \in Window :
       /\ find(comp.wins, v) <=> v \in Children
       /\ v \in Children => LET e == The(comp.wins, v) IN e.managed /\ e.mapped = x[v].mapped /\ e.geom = x[v].geom

(* Whatever goes between an event and the reading of it, what is kept is of  *)
(* its kind and, once all is read, what there is (sg-deskcomp.c:2211).       *)
ListSound == TypeOK /\ Bookkept

(* Each window has its way to the screen, whatever was resized, mapped or    *)
(* full screen before: one that has it to itself is the server's to draw,   *)
(* each other is redirected and its picture, if it is mapped, the one the   *)
(* server keeps now; and while none has it to itself, the canvas is there.  *)
(* Whether anything covers that one is DirectIsOnTop's and CanvasHidden's.  *)
WaysCurrent == Quiet =>
  /\ comp.direct = None => comp.canvas
  /\ \A v \in Children :
       IF v = comp.direct THEN ~x[v].redirected
       ELSE x[v].redirected /\ (x[v].mapped => The(comp.wins, v).pict = "current")

(* When nothing is owed, the last frame drew the windows the desktop has, in *)
(* the server's order: no way an order or a window changes leaves the screen *)
(* as it was.  Once a frame in which a ghost ended has drawn windows in      *)
(* another order, nothing is said until all is drawn again (see README).    *)
ScreenIsServers == Quiet /\ comp.direct = None /\ ~comp.owed /\ ~comp.swapped =>
  comp.drawn = Picked(stack, {i \in DOMAIN stack : x[stack[i]].mapped /\ x[stack[i]].geom # "off"})

(* The window that has the screen to itself has none above it: src/          *)
(* sg-deskcomp.c:2078, "until another window comes above it".               *)
DirectIsOnTop == Quiet /\ comp.direct # None =>
  \A i, j \in DOMAIN stack : stack[i] = comp.direct /\ j > i => ~x[stack[j]].mapped \/ x[stack[j]].geom = "off"

(* While a window has the screen to itself the canvas is hidden: src/        *)
(* sg-deskcomp.c:2079, "the canvas is hidden and the window no longer       *)
(* redirected".                                                             *)
CanvasHidden == Quiet /\ comp.direct # None => ~comp.canvas

(* Once the programs rest, so does the screen: everything is drawn and no    *)
(* ghost is left on it.                                                     *)
Settles == <>[](queue = <<>>) => <>[](~comp.owed /\ (Ghosts(comp.wins) = {} \/ comp.direct # None))
=============================================================================
