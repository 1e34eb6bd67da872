------------------------------- MODULE Displays -------------------------------
(***************************************************************************)
(* Elevated programs' displays (elevated.c): an X server handed over by    *)
(* the broker is adopted, becomes ready, and goes; and the clipboards, one *)
(* hidden seat per display, between which proxy sources carry text.        *)
(*                                                                         *)
(* A data source lives in a slot of the heap.  That wlroots destroys the   *)
(* selection a seat had when it is given another, and the one of a seat    *)
(* that is destroyed, is external; everything that follows from it within  *)
(* the same call is what proxy_handle_inner_destroy makes of it.           *)
(***************************************************************************)
EXTENDS Naturals, FiniteSets

CONSTANTS
  Display,   \* adoptions, each of an X server of its own
  Session,   \* the session's own seat
  Text,      \* what may be copied: texts,
  Image,     \* or something that has no text
  Nothing,
  MaxSource

Seat == Display \cup {Session}
Slot == 1..MaxSource
NoSource == 0

ASSUME SessionIsNoDisplay == Session \notin Display
ASSUME DisplaysAreFinite == IsFiniteSet(Display)
ASSUME ContentsDiffer == Image \notin Text /\ Nothing \notin Text \cup {Image}
\* A selection for each seat, and the two sources of a copy being made.
ASSUME SlotsSuffice == MaxSource \in Nat /\ MaxSource > Cardinality(Display) + 2

VARIABLES
  life,       \* per display: "none", "adopted" (waiting for its number), "ready"
  fds,        \* the broker's descriptors of it that are open here
  xwm,        \* its window manager: "none", "up", "gone" by its connection, "freed twice"
  source,     \* the heap of data sources
  selection   \* per seat: wlr_seat.selection_source

clipboard == <<source, selection>>
vars == <<life, fds, xwm, clipboard>>

Free == [kind |-> "free", content |-> Nothing, inner |-> NoSource, target |-> Session]
Source ==
  [kind : {"free", "real", "proxy"}, content : Text \cup {Image, Nothing},
   inner : Slot \cup {NoSource}, target : Seat]

TypeOK ==
  /\ life \in [Display -> {"none", "adopted", "ready"}]
  /\ fds \in [Display -> SUBSET {"wl", "wm", "ready"}]
  /\ xwm \in [Display -> {"none", "up", "gone", "freed twice"}]
  /\ source \in [Slot -> Source]
  /\ selection \in [Seat -> Slot \cup {NoSource}]

Init ==
  /\ life = [d \in Display |-> "none"]
  /\ fds = [d \in Display |-> {}]
  /\ xwm = [d \in Display |-> "none"]
  /\ source = [i \in Slot |-> Free]
  /\ selection = [s \in Seat |-> NoSource]

----------------------------------------------------------------------------
(* Sources.  h stands for the heap and the selections: [src, sel].         *)

AsIs == [src |-> source, sel |-> selection]
ClipboardIs(h) == source' = h.src /\ selection' = h.sel

FreeSlot(h) == CHOOSE i \in Slot : h.src[i].kind = "free"

\* Mutant: the seat a proxy was for keeps it when what it wraps is gone.
Destroy_KeepsProxy(h, i) ==
  [src |-> [k \in Slot |-> IF k = i THEN Free
                           ELSE IF h.src[k].inner = i THEN [h.src[k] EXCEPT !.inner = NoSource]
                           ELSE h.src[k]],
   sel |-> [s \in Seat |-> IF h.sel[s] = i THEN NoSource ELSE h.sel[s]]]

\* wlr_data_source_destroy, with proxy_handle_inner_destroy of the proxies of
\* it: each is freed with the selection it is, which destroys those of it in
\* turn.  No chain is longer: a display's proxy is of the session's, which is
\* of a display's own source.
Destroy(h, i) ==
  LET Falling(set) == {p \in Slot : /\ h.src[p].kind = "proxy" /\ h.src[p].inner \in set
                                    /\ h.sel[h.src[p].target] = p}
      gone == {i} \cup Falling({i}) \cup Falling(Falling({i}))
  IN [src |-> [k \in Slot |-> IF k \in gone THEN Free
                              ELSE IF h.src[k].inner \in gone THEN [h.src[k] EXCEPT !.inner = NoSource]
                              ELSE h.src[k]],
      sel |-> [s \in Seat |-> IF h.sel[s] \in gone THEN NoSource ELSE h.sel[s]]]

\* wlr_seat_set_selection.
SetSelection(h, seat, i) ==
  IF h.sel[seat] \in {i, NoSource} THEN [h EXCEPT !.sel[seat] = i]
  ELSE LET g == Destroy(h, h.sel[seat]) IN [g EXCEPT !.sel[seat] = i]

\* A program's new source becomes the selection of the seat.
Copied(h, seat, what) ==
  LET i == FreeSlot(h)
      g == [h EXCEPT !.src[i] = [Free EXCEPT !.kind = "real", !.content = what]]
  IN SetSelection(g, seat, i)

\* as_proxy: what the source wraps, if it is a proxy.
Wrapped(h, i) == IF i # NoSource /\ h.src[i].kind = "proxy" THEN h.src[i].inner ELSE NoSource

\* What is offered: a proxy has the text types of the source it wraps.
Content(h, i) == IF i = NoSource THEN Nothing ELSE h.src[i].content

\* proxy_create, and the proxy becomes the selection of the seat; nothing
\* happens when the source has no text.
Proxied(h, inner, target) ==
  IF Content(h, inner) \notin Text THEN h
  ELSE LET p == FreeSlot(h)
           g == [h EXCEPT !.src[p] = [kind |-> "proxy", content |-> Content(h, inner),
                                      inner |-> inner, target |-> target]]
       IN SetSelection(g, target, p)

----------------------------------------------------------------------------
(* What is copied and pasted.                                              *)

\* A program of the session copies (handle_request_set_selection, seat.c).
SessionCopies(what) ==
  /\ ClipboardIs(Copied(AsIs, Session, what))
  /\ UNCHANGED <<life, fds, xwm>>

\* It exits, or clears the clipboard.
SessionDrops ==
  /\ selection[Session] # NoSource /\ source[selection[Session]].kind = "real"
  /\ ClipboardIs(Destroy(AsIs, selection[Session]))
  /\ UNCHANGED <<life, fds, xwm>>

\* Mutant: what an elevated program copies is offered to the other displays too.
handle_clip_request_set_selection_ToAll(d, what) ==
  LET h == Copied(AsIs, d, what)
      g == Proxied(h, h.sel[d], Session)
      other == CHOOSE o \in Display : o # d
  IN IF life[other] = "none" THEN g ELSE Proxied(g, g.sel[Session], other)

\* handle_clip_request_set_selection: the elevated program's source, then a
\* proxy of it for the session.
handle_clip_request_set_selection(d, what) ==
  LET h == Copied(AsIs, d, what)
  IN Proxied(h, h.sel[d], Session)

DisplayCopies(d, what) ==
  /\ xwm[d] = "up"
  /\ ClipboardIs(handle_clip_request_set_selection(d, what))
  /\ UNCHANGED <<life, fds, xwm>>

\* Its source goes without another (a NULL source).
DisplayDrops(d) ==
  /\ xwm[d] = "up" /\ selection[d] # NoSource
  /\ ClipboardIs(SetSelection(AsIs, d, NoSource))
  /\ UNCHANGED <<life, fds, xwm>>

\* elevated_user_input: a key or a button pressed on a window of the display.
elevated_user_input(d) ==
  LET src == selection[Session]
      cur == selection[d]
  IN IF \/ src = NoSource
        \/ Wrapped(AsIs, cur) = src                            \* offered before
        \/ Wrapped(AsIs, src) # NoSource /\ Wrapped(AsIs, src) = cur  \* from this display
       THEN AsIs
       ELSE Proxied(AsIs, src, d)

UserInput(d) ==
  /\ life[d] = "ready"
  /\ ClipboardIs(elevated_user_input(d))
  /\ UNCHANGED <<life, fds, xwm>>

----------------------------------------------------------------------------
(* A display's life.                                                       *)

\* elevated_adopt, all of whose steps succeed.
Adopt(d) ==
  /\ life[d] = "none"
  /\ life' = [life EXCEPT ![d] = "adopted"]
  /\ fds' = [fds EXCEPT ![d] = {"wl", "wm", "ready"}]
  /\ UNCHANGED <<xwm, clipboard>>

\* Mutant: the client's connection is all that is closed.
AdoptFails_ClosesClient(d, at) ==
  /\ life[d] = "none"
  /\ fds' = [fds EXCEPT ![d] = IF at = "client" THEN {} ELSE {"ready"}]
  /\ UNCHANGED <<life, xwm, clipboard>>

\* ... or one that fails: no client for the connection, no shell or seat or
\* memory, no window manager, no event source.  The client is destroyed where
\* there is one, and everything with it; at the last step nothing closes the
\* window manager's connection, which the X server's record holds already.
AdoptFails(d, at) ==
  /\ life[d] = "none"
  /\ fds' = [fds EXCEPT ![d] = IF at = "source" THEN {"wm"} ELSE {}]
  /\ UNCHANGED <<life, xwm, clipboard>>

\* Mutant: a window manager that destroyed itself is destroyed again.
elevated_destroy_Twice(d) ==
  /\ life' = [life EXCEPT ![d] = "none"]
  /\ fds' = [fds EXCEPT ![d] = IF xwm[d] = "none" THEN {"wm"} ELSE {}]
  /\ xwm' = [xwm EXCEPT ![d] = IF @ = "gone" THEN "freed twice" ELSE "none"]
  /\ ClipboardIs(SetSelection(AsIs, d, NoSource))

\* Mutant: the clipboard seat is not destroyed.
elevated_destroy_KeepsSeat(d) ==
  /\ life' = [life EXCEPT ![d] = "none"]
  /\ fds' = [fds EXCEPT ![d] = IF xwm[d] = "none" THEN {"wm"} ELSE {}]
  /\ xwm' = [xwm EXCEPT ![d] = "none"]
  /\ UNCHANGED clipboard

\* elevated_destroy, by the destruction of its client.  A window manager that
\* never connected leaves its descriptor open.
elevated_destroy(d) ==
  /\ life' = [life EXCEPT ![d] = "none"]
  /\ fds' = [fds EXCEPT ![d] = IF xwm[d] = "none" THEN {"wm"} ELSE {}]
  /\ xwm' = [xwm EXCEPT ![d] = "none"]
  /\ ClipboardIs(SetSelection(AsIs, d, NoSource))

\* handle_client_destroy: the X server exits.
ClientGone(d) == life[d] # "none" /\ elevated_destroy(d)

\* handle_ready, once a whole line or the end of the pipe has been read: the
\* number is taken and the window manager connects,
Ready(d) ==
  /\ life[d] = "adopted"
  /\ life' = [life EXCEPT ![d] = "ready"]
  /\ fds' = [fds EXCEPT ![d] = @ \ {"ready"}]
  /\ xwm' = [xwm EXCEPT ![d] = "up"]
  /\ UNCHANGED clipboard

\* ... or it is no number, or the window manager cannot connect.
NeverReady(d) == life[d] = "adopted" /\ elevated_destroy(d)

\* The window manager's connection hangs up: wlroots' xwm destroys itself,
\* and the sources of the display's programs with it.
WindowManagerGone(d) ==
  /\ xwm[d] = "up"
  /\ xwm' = [xwm EXCEPT ![d] = "gone"]
  /\ fds' = [fds EXCEPT ![d] = @ \ {"wm"}]
  /\ ClipboardIs(IF selection[d] # NoSource /\ source[selection[d]].kind = "real"
                   THEN SetSelection(AsIs, d, NoSource) ELSE AsIs)
  /\ UNCHANGED life

----------------------------------------------------------------------------
Clipboards ==
  \/ \E what \in Text \cup {Image} :
       SessionCopies(what) \/ \E d \in Display : DisplayCopies(d, what)
  \/ SessionDrops
  \/ \E d \in Display : DisplayDrops(d) \/ UserInput(d)

Lives ==
  \E d \in Display :
    \/ Adopt(d) \/ ClientGone(d) \/ Ready(d) \/ NeverReady(d) \/ WindowManagerGone(d)
    \/ \E at \in {"client", "parts", "xwayland", "source"} : AdoptFails(d, at)

Next == Clipboards \/ Lives

Spec == Init /\ [][Next]_vars

----------------------------------------------------------------------------
(* Properties.                                                             *)

\* Every proxy there is is the selection of the seat it was made for, and
\* wraps the selection another seat has now: none is left behind when a
\* source, a selection or a display goes, from within whatever call, and none
\* refers to a source or a seat that is gone.
ProxiesCurrent ==
  \A p \in Slot : source[p].kind = "proxy" =>
    /\ selection[source[p].target] = p
    /\ \E s \in Seat \ {source[p].target} : selection[s] # NoSource /\ selection[s] = source[p].inner

\* The text of an elevated display whose programs and seat are gone is not
\* offered to the session any more.
NothingOutlives ==
  /\ \A d \in Display : life[d] = "none" => selection[d] = NoSource
  /\ \A i \in Slot : source[i].kind = "real" => \E s \in Seat : selection[s] = i

\* The session's text reaches an elevated display by the user's input on it
\* only, and stays no longer than the session offers it.
F == INSTANCE TextFlow WITH
  offered <- IF Content(AsIs, selection[Session]) \in Text THEN Content(AsIs, selection[Session]) ELSE Nothing,
  foreign <- [d \in Display |->
    IF Wrapped(AsIs, selection[d]) # NoSource THEN Content(AsIs, selection[d]) ELSE Nothing]
ImplementsTextFlow == F!Spec

\* A display that is gone, or never came to be, has left none of the
\* descriptors of its connection and its readiness pipe open.
DescriptorsClosed == \A d \in Display : life[d] = "none" => fds[d] \subseteq {"wm"}

\* Whichever of the display's two connections closes first, its window
\* manager is destroyed once.
FreedOnce == \A d \in Display : xwm[d] # "freed twice"

\* Whatever step of adopting it fails and whichever end goes first, what was
\* made of a display is taken down, all of it and once.
TornDownOnce == TypeOK /\ NothingOutlives /\ DescriptorsClosed /\ FreedOnce
=============================================================================
