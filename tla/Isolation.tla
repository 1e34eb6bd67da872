------------------------------ MODULE Isolation ------------------------------
(***************************************************************************)
(* The lock's isolation: which windows are shown and which has the         *)
(* keyboard and the pointer, through every change of mode and everything   *)
(* the windows do meanwhile -- open, close, minimize, come forward, take a *)
(* click, be held back for the taskbar (lock.c, view.c, seat.c,            *)
(* session_x11.c, elevated.c, wayland_app.c).                              *)
(*                                                                         *)
(* Each action is one handler of the event loop, run to its end.  The      *)
(* exception is a privileged client going: its windows are destroyed one   *)
(* after the other (dying), and no other handler runs in between.  A focus *)
(* on a surface whose window is gone is no focus: seat_get_focus finds no  *)
(* window in it.  Where the pointer is, is not modelled: it may be over    *)
(* any window that is shown, or captured by a move that keeps its focus.   *)
(***************************************************************************)
EXTENDS LockMode, Sequences, Naturals, SequencesExt

CONSTANTS
  View, NoView,
  Owner,       \* the privileged client a view belongs to, or None: the session's
  Unmanaged,   \* override-redirect windows: menus, tooltips
  Dialog,      \* views with a parent: view_is_primary is false
  Elevated,    \* windows of an elevated program's display
  Program,     \* Linux programs' X11 windows, which the taskbar frames
  Desktop,     \* the shell's desktop window
  Unfocusable, \* X11 windows that do not want the focus
  Together     \* bound: the sets of windows that may be open, or minimized, at a time

ASSUME NoViewIsNoView == NoView \notin View
ASSUME OwnerType == Owner \in [View -> Client \cup {None}]
ASSUME KindsOfView ==
  /\ UNION {Unmanaged, Dialog, Elevated, Program, Desktop, Unfocusable} \subseteq View
  /\ \A v \in UNION {Unmanaged, Elevated, Program, Desktop, Unfocusable} : Owner[v] = None
  /\ Program \cap (Unmanaged \cup Dialog \cup Elevated \cup Desktop) = {}

VARIABLES
  views,      \* server->views, the front first: the windows that are mapped
  visible,    \* those whose scene node is enabled
  minimized,  \* view->minimized
  held,       \* the holds of session_x11.c
  keyboard,   \* the view with the keyboard, or NoView
  pointer,    \* the view with the pointer, or NoView
  dying       \* windows of a client being destroyed, still to go

windowVars == <<views, visible, minimized, held, keyboard, pointer, dying>>
vars == <<modeVars, privileged, remote, windowVars>>

Mapped == ToSet(views)

TypeOK ==
  /\ LockModeTypeOK
  /\ views \in Seq(View) /\ IsInjective(views)
  /\ visible \subseteq Mapped /\ held \subseteq Mapped \cap Program
  /\ minimized \subseteq View
  /\ keyboard \in Mapped \cup {NoView}
  /\ pointer \in Mapped \cup {NoView}
  /\ dying \subseteq Mapped

Init ==
  /\ LockModeInit
  /\ views = <<>>
  /\ visible = {} /\ minimized = {} /\ held = {} /\ dying = {}
  /\ keyboard = NoView /\ pointer = NoView

----------------------------------------------------------------------------
(* The list of views.                                                      *)

\* The first view of the list in the set: a set of one, or {NoView}.
FirstOf(list, set) ==
  LET first == {i \in DOMAIN list : list[i] \in set /\ \A j \in 1..i-1 : list[j] \notin set}
  IN IF first = {} THEN {NoView} ELSE {list[i] : i \in first}

Without(list, v) ==
  IF v \in ToSet(list) THEN RemoveAt(list, CHOOSE i \in DOMAIN list : list[i] = v) ELSE list

----------------------------------------------------------------------------
(* The focus.                                                              *)

\* lock_view_is_privileged, lock_view_allowed: the views of these clients,
\* and those that may be seen and have the input, locked or not.
PrivilegedViews(clients) == {v \in View : Owner[v] \in clients}
AllowedViews(isLocked, clients) == IF isLocked THEN PrivilegedViews(clients) ELSE View

\* Mutant: what the lock allows is not asked.
Focus_Unchecked(f, v, allowed) ==
  IF v \in {NoView, f.keyboard} \cup Unfocusable THEN f
  ELSE [views |-> IF v \in Dialog \cup Elevated THEN <<v>> \o Without(f.views, v) ELSE f.views,
        keyboard |-> v]

\* seat_set_focus, on a list and a keyboard focus.
Focus(f, v, allowed) ==
  IF v \in {NoView, f.keyboard} \cup Unfocusable \/ v \notin allowed THEN f
  ELSE [views |-> IF v \in Dialog \cup Elevated THEN <<v>> \o Without(f.views, v) ELSE f.views,
        keyboard |-> v]

\* The keyboard is cleared first.
Cleared == [views |-> views, keyboard |-> NoView]
AsIs == [views |-> views, keyboard |-> keyboard]

FocusIs(f) == views' = f.views /\ keyboard' = f.keyboard

\* process_cursor_motion, at the end of a seat_set_focus that moved it: the
\* pointer goes to what is under it, unless a move or resize keeps it.
PointerFollows(before, moved, shown, allowed) ==
  pointer' \in IF moved THEN {before, NoView} \cup (shown \cap allowed) ELSE {before}

----------------------------------------------------------------------------
(* lock.c.                                                                 *)

\* Mutant: the session's window keeps the keyboard when no other is there to take it.
isolate_KeepsKeyboard(clients) ==
  LET mine == PrivilegedViews(clients)
  IN /\ visible' = IF secure' THEN visible ELSE Mapped \cap mine
     /\ \E lock_view \in FirstOf(views, mine) :
          /\ FocusIs(Focus(AsIs, lock_view, mine))
          /\ PointerFollows(NoView, keyboard' # keyboard, visible', mine)
     /\ UNCHANGED <<minimized, held>>

\* isolate, once the flags are set.
isolate(clients) ==
  LET mine == PrivilegedViews(clients)
  IN /\ visible' = IF secure' THEN visible ELSE Mapped \cap mine
     /\ \E lock_view \in FirstOf(views, mine) :
          /\ FocusIs(Focus(Cleared, lock_view, mine))
          /\ PointerFollows(NoView, keyboard' # NoView, visible', mine)
     /\ UNCHANGED <<minimized, held>>

\* Mutant: every window is shown again, minimized or not.
unisolate_ShowsAll ==
  /\ OpenFlags
  /\ visible' = Mapped
  /\ \E v \in FirstOf(views, View \ (PrivilegedViews(privileged) \cup minimized)) :
       FocusIs(Focus(Cleared, v, View))
  /\ UNCHANGED <<minimized, held>>

\* Mutant: the front window has the keyboard, minimized or not.
unisolate_FocusesMinimized ==
  /\ OpenFlags
  /\ visible' = Mapped \ minimized
  /\ \E v \in FirstOf(views, View \ PrivilegedViews(privileged)) :
       FocusIs(Focus(Cleared, v, View))
  /\ UNCHANGED <<minimized, held>>

\* unisolate; the pointer is left to the caller.
unisolate ==
  /\ OpenFlags
  /\ visible' = Mapped \ minimized
  /\ \E v \in FirstOf(views, View \ (PrivilegedViews(privileged) \cup minimized)) :
       FocusIs(Focus(Cleared, v, View))
  /\ UNCHANGED <<minimized, held>>

\* Mutant: a prompt that becomes a lock hides nothing.
lock_engage_OnlyDimmed(clients) ==
  /\ EngageFlags
  /\ \/ ~locked /\ isolate(clients)
     \/ locked /\ UNCHANGED <<views, visible, minimized, held, keyboard, pointer>>

lock_engage(clients) ==
  /\ EngageFlags
  /\ \/ ~locked /\ isolate(clients)
     \/ /\ locked /\ ~sas /\ secure   \* hide_unprivileged
        /\ visible' = visible \cap PrivilegedViews(clients)
        /\ UNCHANGED <<views, minimized, held, keyboard, pointer>>
     \/ /\ locked /\ (sas \/ ~secure)
        /\ UNCHANGED <<views, visible, minimized, held, keyboard, pointer>>

\* LOCK, Win+L, and Ctrl+Alt+Del with no lock service watching.
Lock == lock_engage(privileged) /\ UNCHANGED <<privileged, remote, dying>>

\* lock_secure_engage.
Prompt == SecureFlags /\ isolate(privileged) /\ UNCHANGED <<privileged, remote, dying>>

\* lock_sas_engage.
SecurityScreen == SasFlags /\ isolate(privileged) /\ UNCHANGED <<privileged, remote, dying>>

\* lock_release, lock_secure_release and lock_sas_action.
Unlock ==
  /\ locked
  /\ unisolate
  /\ PointerFollows(pointer, keyboard' # NoView, visible', View)
  /\ UNCHANGED <<privileged, remote, dying>>

\* remote_attach.
RemoteTake ==
  /\ ~remote /\ ~secure
  /\ remote' = TRUE
  /\ \/ locked /\ unisolate
     \/ ~locked /\ UNCHANGED <<modeVars, views, visible, minimized, held, keyboard>>
  /\ pointer' = NoView
  /\ UNCHANGED <<privileged, dying>>

\* A privileged client is destroyed: it leaves the list of privileged
\* clients, its windows go next.
DestroyClient(c) ==
  /\ privileged' = privileged \ {c}
  /\ dying' = {v \in Mapped : Owner[v] = c}

\* Mutant: the session comes back as it was when a connection took it.
RemoteGiveBack_AsItWas(c) ==
  /\ remote
  /\ remote' = FALSE
  /\ IF c = None THEN lock_engage(privileged) /\ UNCHANGED <<privileged, dying>>
     ELSE DestroyClient(c) /\ UNCHANGED <<modeVars, views, visible, minimized, held, keyboard, pointer>>

\* remote_detach: locked first, then the remote connection goes, if the
\* session was taken with one.
RemoteGiveBack(c) ==
  /\ remote
  /\ remote' = FALSE
  /\ lock_engage(privileged)
  /\ IF c = None THEN UNCHANGED <<privileged, dying>> ELSE DestroyClient(c)

\* A privileged client's connection closes; the remote connection's (gives
\* is TRUE) gives the session back, when it is off the list already.
ClientGone(c, gives) ==
  /\ c \in privileged
  /\ DestroyClient(c)
  /\ IF gives
       THEN remote /\ remote' = FALSE /\ lock_engage(privileged \ {c})
       ELSE UNCHANGED <<modeVars, remote, views, visible, minimized, held, keyboard, pointer>>

----------------------------------------------------------------------------
(* view.c.                                                                 *)

Allowed == AllowedViews(locked, privileged)

\* view_map, with lock_view_mapped; then session_x11_hold, when the taskbar
\* is framing programs' windows.
Map(v, hold) ==
  LET shows == (v \in Allowed \/ secure) /\ v \notin minimized
      shown == visible \cup (IF shows THEN {v} ELSE {})
      f == [views |-> <<v>> \o views, keyboard |-> keyboard]
  IN /\ v \notin Mapped /\ \E some \in Together : Mapped \cup minimized \cup {v} \subseteq some
     /\ Owner[v] \in privileged \cup {None}
     /\ hold => v \in Program
     /\ FocusIs(IF v \in Unmanaged THEN f ELSE Focus(f, v, Allowed))
     /\ PointerFollows(pointer, keyboard' # keyboard, shown, Allowed)
     /\ visible' = IF hold THEN shown \ {v} ELSE shown
     /\ held' = IF hold THEN held \cup {v} ELSE held
     /\ UNCHANGED <<modeVars, privileged, remote, minimized, dying>>

\* view_unmap: the keyboard goes to the first managed window left, if that
\* one may have it.
Unmapped(v) ==
  LET f == [views |-> Without(views, v), keyboard |-> IF keyboard = v THEN NoView ELSE keyboard]
  IN IF keyboard = v
       THEN {Focus(f, next, Allowed) : next \in FirstOf(f.views, View \ Unmanaged)}
       ELSE {f}

\* view_destroy, once unmapped: the first window left, of any kind.
Destroyed(f) == {Focus(f, prev, Allowed) : prev \in FirstOf(f.views, View)}

\* The window v leaves the screen with the focus going as f says.
Leave(v, f) ==
  /\ FocusIs(f)
  /\ visible' = visible \ {v}
  /\ held' = held \ {v}
  /\ PointerFollows(IF pointer = v THEN NoView ELSE pointer,
                    keyboard' \notin {keyboard, NoView}, visible', Allowed)
  /\ UNCHANGED <<modeVars, privileged, remote>>

Unmap(v) ==
  /\ v \in Mapped
  /\ \E f \in Unmapped(v) : Leave(v, f)
  /\ UNCHANGED <<minimized, dying>>

Destroy(v) ==
  /\ v \notin Mapped
  /\ Owner[v] \in privileged \cup {None}
  /\ \E f \in Destroyed(AsIs) :
       FocusIs(f) /\ PointerFollows(pointer, keyboard' # keyboard, visible, Allowed)
  /\ minimized' = minimized \ {v}
  /\ UNCHANGED <<modeVars, privileged, remote, visible, held, dying>>

\* The next window of a client being destroyed goes.
Teardown(v) ==
  /\ v \in dying
  /\ \E f \in UNION {Destroyed(g) : g \in Unmapped(v)} : Leave(v, f)
  /\ minimized' = minimized \ {v}
  /\ dying' = dying \ {v}

----------------------------------------------------------------------------
(* The user, the taskbar and the programs themselves.                      *)

\* elevated_focus_session: the first of the session's windows among these.
SessionsFront(shown) == FirstOf(views, shown \ (Elevated \cup PrivilegedViews(privileged)))

\* The focus moves to v; the windows stay as they are.
Refocus(v) ==
  /\ FocusIs(Focus(AsIs, v, Allowed))
  /\ PointerFollows(pointer, keyboard' # keyboard, visible', Allowed)
  /\ UNCHANGED <<modeVars, privileged, remote, held, dying>>

\* Mutant: whether the window may be seen is not asked.
Restored_Anyway(v) ==
  IF v \in minimized \cap Mapped THEN visible \cup {v} ELSE visible

\* view_restore and its like: shown again when it may be.
Restored(v) ==
  IF v \notin minimized THEN visible
  ELSE IF v \in Mapped \cap Allowed THEN visible \cup {v} ELSE visible \ {v}

\* session_x11_minimize, wayland_app_minimize, view_minimize of elevated.c.
Minimize(v) ==
  /\ v \in Mapped \ minimized
  /\ Owner[v] = None
  /\ minimized' = minimized \cup {v}
  /\ visible' = visible \ {v}
  /\ \E w \in IF keyboard = v THEN SessionsFront(visible' \ minimized') ELSE {NoView} : Refocus(w)

\* view_restore: the program takes its window back from the taskbar itself.
Restore(v) ==
  /\ v \in minimized
  /\ minimized' = minimized \ {v}
  /\ visible' = Restored(v)
  /\ UNCHANGED <<modeVars, privileged, remote, views, held, keyboard, pointer, dying>>

\* session_x11_activate, wayland_app_activate; elevated_activate and the
\* request of an elevated window itself, which may be override-redirect.
Activate(v) ==
  /\ v \in Mapped \ ((Unmanaged \ Elevated) \cup Desktop)
  /\ Owner[v] = None
  /\ minimized' = minimized \ {v}
  /\ visible' = Restored(v)
  /\ Refocus(v)

\* session_x11_desktop_front, and session_x11_super, for the shell's keys.
DesktopFront ==
  /\ UNCHANGED <<visible, minimized>>
  /\ \E v \in FirstOf(views, Desktop) : Refocus(v)

\* Alt+Tab out of an elevated window, on the Tab's release.
SwitchToSession ==
  /\ UNCHANGED <<visible, minimized>>
  /\ \E v \in SessionsFront(visible \ minimized) : Refocus(v)

\* press_cursor_button, on the window under the pointer; decor_button.
Click(v) ==
  /\ v \in (visible \cap Allowed) \ Unmanaged
  /\ UNCHANGED <<visible, minimized>>
  /\ Refocus(v)

\* process_cursor_motion.
Motion ==
  /\ PointerFollows(pointer, TRUE, visible, Allowed)
  /\ UNCHANGED <<modeVars, privileged, remote, views, visible, minimized, held, keyboard, dying>>

\* Mutant: the timer of a window that may not be seen does nothing.
HoldExpire_OnlyShown(v) ==
  /\ v \in held \cap Allowed
  /\ held' = held \ {v}
  /\ visible' = IF v \in Allowed \ minimized THEN visible \cup {v} ELSE visible \ {v}
  /\ UNCHANGED <<modeVars, privileged, remote, views, minimized, keyboard, pointer, dying>>

\* hold_expired.
HoldExpire(v) ==
  /\ v \in held
  /\ held' = held \ {v}
  /\ visible' = IF v \in Allowed \ minimized THEN visible \cup {v} ELSE visible \ {v}
  /\ UNCHANGED <<modeVars, privileged, remote, views, minimized, keyboard, pointer, dying>>

ConnectPrivileged(c) ==
  /\ c \notin privileged
  /\ privileged' = privileged \cup {c}
  /\ UNCHANGED <<modeVars, remote, windowVars>>

----------------------------------------------------------------------------
Modal ==
  \/ Lock \/ Prompt \/ SecurityScreen \/ Unlock
  \/ RemoteTake
  \/ \E c \in privileged \cup {None} : RemoteGiveBack(c)
  \/ \E c \in Client, gives \in BOOLEAN : ClientGone(c, gives)
  \/ \E c \in Client : ConnectPrivileged(c)

Windows ==
  \/ \E v \in View :
       \/ \E hold \in BOOLEAN : Map(v, hold)
       \/ Unmap(v) \/ Destroy(v)
       \/ Minimize(v) \/ Restore(v) \/ Activate(v) \/ Click(v) \/ HoldExpire(v)
  \/ DesktopFront \/ SwitchToSession \/ Motion

Next ==
  \/ dying = {} /\ (Modal \/ Windows)
  \/ \E v \in View : Teardown(v)

\* A client's destruction runs to its end.  A hold's timer, once armed, stays
\* ready until the event loop dispatches it; that it cannot in the middle of a
\* client's destruction is no reason to pass it over, hence SF.
Fairness ==
  /\ \A v \in View : Owner[v] # None => WF_vars(Teardown(v))
  /\ \A v \in Program : SF_vars(dying = {} /\ HoldExpire(v))

Spec == Init /\ [][Next]_vars
FairSpec == Spec /\ Fairness

----------------------------------------------------------------------------
(* Properties.                                                             *)

Privileged == PrivilegedViews(privileged)

\* While the isolation is engaged, for a lock, a prompt or the security
\* screen, no window of the session has the keyboard or the pointer: not one
\* that opens meanwhile, not by a window that had them closing, not by the
\* taskbar's commands.  The windows of a privileged client that is being
\* destroyed may still have them until they are.
InputIsolated ==
  locked => {keyboard, pointer} \subseteq {NoView} \cup Privileged \cup dying

\* Under a lock and the security screen no window of the session is shown,
\* those a prompt only dimmed and those opened over them included.
ScreenIsolated == locked /\ ~secure => visible \subseteq Privileged \cup dying

\* Both, of windows that are there: nothing unmapped is shown or has the input.
Isolated == TypeOK /\ InputIsolated /\ ScreenIsolated

\* With the console open every window is where the user left it: shown
\* unless minimized or held back for the taskbar, whatever was opened,
\* closed, minimized or restored while it was locked.
AllBack ==
  ~locked => \A v \in Mapped \ held : v \in visible <=> v \notin minimized

\* Opening the console gives the keyboard to a window of the session that
\* the user can see, or to none: never back to the lock screen's own.
KeyboardAfterUnlock ==
  [][locked /\ ~locked' =>
       keyboard' \in {NoView} \cup (visible' \ PrivilegedViews(privileged'))]_vars

\* With windows, focus and clients that come and go, the mode still changes
\* as the abstract lock says: no handler that shows or hides windows leaves
\* the flags in a state that is none of the four, or ends a lock on its way.
M == INSTANCE Modes WITH mode <- Mode, away <- remote
ImplementsModes == M!Spec

\* A window held back for the taskbar is not held for good, locked or not.
HoldsEnd == \A v \in Program : v \in held ~> v \notin held
=============================================================================
