# A verification of sg-compositor

sg-compositor is the Wayland compositor of Stained Glass OS: cage (a kiosk
compositor on wlroots), grown into the machine session's desktop. Besides the
windows of the session's programs it runs the console's security: the lock, the
consent prompt for elevated programs, the Ctrl+Alt+Del screen, Remote Desktop
taking the session over or viewing it, and displays of their own for elevated
programs. It is one process with one event loop. Nothing in it runs in
parallel, and everything in it is interleaved: each handler runs to its end, and
between two handlers any client, any connection, any timer and the user may act.

Beside it runs sg-deskcomp, an X client that draws the session's X11 windows.

The modules here model the handlers of these loops, one action each; TLC checks
them on small instances, and tlapm proves theorems about them for all.

## The parts

| Part | Code | State | Operations | What makes it right |
|---|---|---|---|---|
| Lock and modes | `lock.c` | `locked`, `secure`, `sas`; the privileged clients | engage, release, prompt, security screen, and what ends each | the three flags are four modes; a lock is ended only by its own password; nobody drawing a screen is told of another |
| Control socket | `lock.c` `handle_control_connection` | the connections kept: `WATCH`, `SESSION`, `INHIBIT` | one command per connection | every watcher knows what is; each connection is answered; no descriptor is closed twice |
| Remote Desktop, console shadow | `lock.c`, `seat.c` | `remote`, `remote_client`, `shadow_client`, the remote output | take, give back, view, be cut off | one party at most; always given back, always locked |
| Views | `view.c`, `xwayland.c`, `xdg_shell.c` | the list of mapped views, each one's scene node, `minimized`; where each is | map, unmap, destroy, place | nothing shown or focused that the lock forbids; all back afterwards; each on the desktop the user looks at |
| Seat: keys | `seat.c` | `consumed_keys`, `switch_keycode`, `held_press_keycode` | each key event | a press and its release go the same way |
| Seat: pointer, touch, pens | `seat.c` | focus, grabs, touch points | motion, buttons, touch | clicks reach what is allowed; a move ends with its window |
| Native programs | `wayland_app.c` | per window: maximized, full screen, the boxes to go back to, the move or resize going on | configure, maximize, full screen, move, resize, commit | stays where the user put it; is cut off at the taskbar it is above |
| Taskbar's side | `session_x11.c`, `wayland_app.c` | `holds`, `last_list_ms` | list, hold, minimize, activate, close | a held window is let go |
| Elevated displays | `elevated.c` | a list of displays, each with an X server's connections and a hidden seat for its clipboard | adopt, ready, destroy; copy, paste on input | torn down once; text crosses by the user's input only |
| Outputs | `output.c` | per output: enabled, in the layout, `powered_off` | plug, unplug, configure, power, wake | a dark screen that has its place is lit by the next input |
| Capture for everyone | `public_capture.c` | copies waiting for a frame; render locks | copy, commit, destroy | black under a lock; the render lock balanced |
| Idle inhibition | `idle_inhibit_v1.c`, `lock.c` | inhibitors, `control_inhibitors` | create, destroy | inhibited exactly while someone asks |
| Title bars, backdrop | `decor.c`, `backdrop.c` | drawn buffers; what is remembered of a press | draw, press, drag | what is remembered names a bar that is there |
| sg-deskcomp | `sg-deskcomp.c` | the X windows it paints, their pictures and animations, the window drawn by X itself | X events, frames | a program of its own, always behind the server: its list and the screen come to be the server's |
| Start-up | `cage.c` | everything above, created in order | run the primary program | ends when it ends |

How they interact: the mode (`locked`) is asked by `view.c` on every map and
focus change, by `seat.c` on every click and motion, by `output.c` and
`public_capture.c`; changing it calls back into the views (shown, hidden) and
the seat (focus cleared, given). `lock.c` is called by the control socket, by
the reserved keys, and by destroy listeners of the connections it adopted. The
focus is moved by almost everything, and each move changes which keys a window
has been told of. Remote Desktop engages and ends the lock, and adds or destroys
an output. What is hard in all of it is order: connections that close without
the loop having noticed, a client whose privileges go before its windows do, a
timer that fires in another mode than it was armed in, a key pressed in one mode
and released in the next. `PROJECT.json` lists each such hazard at its line.

## The modules

| Module | Models | Checked by | Proved in |
|---|---|---|---|
| `Modes` | the abstract lock: four modes, the session away or not | (as the property `ImplementsModes` of `Session` and of `Isolation`) | |
| `LockMode` | the flags of `struct cg_lock` and what each entry point does to them | | |
| `Session` | control socket, privileged socket, reserved keys, watchers, Remote Desktop and shadow; EXTENDS `LockMode` | `MCSession.cfg`, `PromptWatch.cfg` | `SessionProofs` |
| `Isolation` | windows, visibility, focus and pointer under the modes; EXTENDS `LockMode` | `MCIsolation.cfg` | `IsolationProofs` |
| `Keys` | the path of each key of the console's keyboard | `MCKeys.cfg` | `SeatProofs` |
| `Connections` | the life of a control connection and of its descriptors; idle inhibition | `MCConnections.cfg` | `ConnectionsProofs` |
| `Outputs` | screens, display power, configurations, the remote output, copies of a screen | `MCOutputs.cfg` | `OutputsProofs` |
| `TextFlow` | the abstract clipboard of the elevated displays | (as the property `ImplementsTextFlow`) | |
| `Displays` | the life of an elevated display; the clipboard proxies between displays | `MCDisplays.cfg` | `DisplaysProofs` |
| `Placement` | where one window is, through requests, drags, commits and another desktop | `MCPlacement.cfg` | `PlacementProofs` |
| `Seat` | the state of `Pointing`, and what is to hold of it | | |
| `Pointing` | mouse, finger and pen against windows, locks and grabs; EXTENDS `Seat` | `MCPointing.cfg` | `SeatProofs` |
| `DeskComp` | sg-deskcomp's list, pictures and frames against the X server | `MCDeskComp.cfg`, `DirectOnTop.cfg`, `CanvasOverDirect.cfg` | `DeskCompProofs` |

`LockMode` holds what `Session` and `Isolation` share, so that both read the
flags from the same translation. `Session` leaves the windows out and asks who
may change the mode and who is told; `Isolation` leaves the askers out and lets
the modes change whenever the code allows. The later modules take of the mode
what they ask of it: open or not, a prompt or a lock, away or not. An operator
that translates a function of the source bears its name.

**Session.** Commands (`CmdLock` ...) are given by a peer that passed the check
of its uid; who that is, is not modelled. A peer hangs up whenever it likes
(`HangUp`) and is then in `gone` until the loop dispatches its descriptor
(`ReapWatcher`, `ReapClient`) or a send to it fails (`TellWatchers`,
`lock_session_update`), which is where the stale lists of the real code come
from. `heard` and `belief` stand outside the compositor: what the lock service
last read, and what a program makes of all it read. A destroy listener runs
within the step that destroys its client (`DestroyClients`).

**Isolation.** `views` is `server->views`, so it holds mapped windows only,
front first, and the order is the code's: a map goes to the front, a focus
moves only dialogs and elevated windows there. `Focus` is `seat_set_focus` as a
function of list and keyboard, so that handlers which call it twice
(`Teardown`: `view_unmap`, then `view_destroy`) compose it. What a window is
(override-redirect, dialog, elevated, ...) is a constant set. The pointer's
position is not modelled: `PointerFollows` allows any window in sight. What
activates a window (`Activate`) is the taskbar or the window's own request, and
neither asks whether it is override-redirect. `dying` holds the windows of a
client whose destruction has begun; nothing else runs until they are gone.
`Together` is a bound of the runs alone: which windows may be open or minimized
at one time. The theorems do not depend on it.

**Keys.** A press comes with a choice of what the key asks for with the
modifiers now down, so modifiers need no state. `knows` is what the focused
window was told: the keys in the `enter` event, then each key sent. The focus
moves in any way the mode allows between two events. `missed` and `withheld`
record what the code does not: that a key event fell while the session was away,
and which keys' presses went to a virtual terminal.

**Connections.** The compositor has one thread, so `serving` is the connection
it waits for; while there is one, nothing of the compositor's runs and the peers
do. A request carries nothing, one descriptor or three, and `fds` follows them
from `Brought` through adopting, refusing and `CleanUp` to closed, kept or lost.
A watcher's socket holds `Room` messages, and one that is full is let go by the
send that fails (`send_watchers`). `holds` is `control_inhibitors`, `inhibited`
what the idle notifier was told last.

**Outputs.** `enabled`, `layout` and `powered_off` are the three notions of "on"
that the code keeps; a commit may fail for an output in `Flaky`. A configuration
is applied head by head and stops at the first that fails (`ConfigApply`), which
leaves what came before it. A copy (`frame`) is bound to an output, and waits for
its next commit holding a render lock; `frame_handle_commit`, the output's
destruction and the client's each end it.

**Displays, TextFlow.** A data source is a slot of a small heap, so that a
source that is freed and used again would show as one that is somebody else's.
`Destroy` is what `wlr_data_source_destroy` sets off: listeners of proxies that
wrap proxies, each taking the selection of its seat down. Adopting has a step at
which it fails, and what is undone then is what `elevated_destroy` finds set.
`TextFlow` says what a user may count on: text reaches an elevated display by
input on that display, and leaves it when the session no longer offers it. Its
`offered` is the text the session's selection leads to, its `foreign` what a
display's selection leads to if that is a proxy.

**Placement.** One window, of any of four kinds that share `struct cg_view`:
a native program's, a session's X11 one, the shell's (Wine's desktop window, an
X11 one that is the screen), an elevated one. `view` holds what it has been told
(`want`) and what it has committed (`has`), so that an answer may come late;
`restore` and `windowed` are the two boxes it can go back to. `desk` is the
user's desktop now, `on` the one the window is on. What moves it is kept in two
places, as in the code: `drag` is `grab_view`, `bar` decor.c's press, and with
both the grab takes the motion. An elevated window's X server says where it is by
`set_geometry` (`ElevatedSetGeometry`): a place the program chose, or an echo of
an earlier order. The last branch of `view_position` (`view.c:197`) is for views
that are neither native nor of the session's Xwayland, of which there are none
that come to it.

**Pointing.** An event lands on a spot: a window, the bar of one, or nothing.
`hand` is what the user holds down, `seat.counted` what the seat counts, and
they differ: under Remote Desktop, after a pen out of reach, or with a press that
went to a program as a pen's. `seat.press` and `seat.lastBar` are decor.c's
pointers. Devices are plugged in and out.

**DeskComp.** The X server and the programs (`Programs`) go on while sg-deskcomp
reads one event at a time; `x` and `stack` are the server's windows, `queue` the
events not read, `comp` what sg-deskcomp keeps. An event names a window that may
be gone, mapped or moved by now: a request about it fails, and `trapped` is the
test of it. `pc` cuts the loop where the server may be asked again: between
adding a window and asking for its state, between one window and the next when it
takes a desktop on (`attach`, `Adopt`; `comp.todo` holds what `XQueryTree` named),
before `check_direct`, before `paint`. Areas of damage are not modelled: `owed`
says that some area is to be drawn. A frame draws the damaged area only
(`sg-deskcomp.c:1902`), so one in which a ghost's end put the list in another order
(`swapped`) may leave windows drawn in that order until the whole screen is owed
(`OwingAll`); `ScreenIsServers` says nothing in between. `check_direct` passes over
windows one pixel wide (`w > 1`), and the model has none.

## The runs

Passing:

* `session` (`MCSession`, 75,168 states): three clients, a lock service and a
  second connection of it, a program. Three clients are a remote connection, one
  that tries to be the viewer, and a lock screen; with two connections of a lock
  service one is told of a mode as the other begins to watch, or has gone.
  `WatchersCurrent` is of what each heard last: `Fits` takes the name of the mode
  it came to while it watched, and the general answer of `WATCH` for one that has
  just begun (but see `prompt_watch`). `RemoteLost` and `ImplementsModes` are
  checked here as well.
* `isolation` (336,172 states): the desktop, a program's window, a menu and a
  lock screen, the four kinds of window the list, the hold and the focus treat
  differently; or a program's window, an elevated one, a lock screen and a prompt
  (a dialog, which a focus brings to the front). These are the two sets of
  `Together`, so that at most four windows are open at a time and all six are met
  in one behaviour. Lock screen and prompt are of two clients, either of which may
  go, the one as the other's windows have the focus. That the modes implement
  `Modes` is checked here and proved.
* `keys` (218,675 states): two keys that may be reserved (Tab and another), two
  that may not, a list of two slots, a window of each kind, virtual terminals, and
  Remote Desktop taking the session and giving it back between any two key
  events. `KeysSound`: a key on the list of consumed keys is down, and so is what
  the held press and the switch to the session wait for, as long as no key event
  was dropped (`missed`). A list that is too short for its keys is not met:
  `SlotsSuffice` (below).
* `connections` (8,762 states): two connections, each of which may be any number
  of them one after the other, and sockets of two messages: one to be full with
  and one to go on with. With three connections the invariants hold too (275,000
  states); the liveness properties take too long there. Two are enough for one
  to be adopted and one refused, or one to dawdle as the other waits.
* `outputs` (174,019 states): the built-in screen, a monitor whose commits may
  fail, the remote output, and two copies. One screen that fails and one that
  does not are needed for a configuration that stops half-way; two copies for
  the render lock to be counted.
* `displays` (152,285 states): three displays and the session between them: a
  chain of proxies is between two of them, and the third has its own or none as it
  is torn down; two texts and something that is none. `SlotsSuffice`: there is
  always a free slot, since a seat has one selection and every source is one.
* `placement` (2,669,632 states): one window of each kind, two desktops.
  Positions are those the code tells apart: the corner, the centre, where the
  user put it, where a program put it. The two desktops are symmetric.
* `pointing` (2,054,236 states): a native program, an X11 program with a bar, a
  lock screen; a button, a finger, a pen. At most two windows are mapped
  (`MaxMapped`) and two things held (`MaxHeld`) at a time, which is enough for
  one of each pair to be released or to go first. `PointerShows` is of the mouse and
  of a pen that comes to where it was not; of a pen that stays within its program
  the code does not keep it (see "Seen").
* `deskcomp` (1,443,961 states): a framed window and a plain one, two events
  behind (`MaxQueue`), animations of two frames (`Frames`: one begun, one to go
  on with), one ghost (`MaxGhosts`). Two events are enough for the first to be
  out of date through the second.

The invariants `SessionSound`, `CopiesSound`, `TornDownOnce`, `WindowSound`, `SeatSound`,
`ConnectionsSound`, `ListSound`, `KeysSound` and `Isolated` are conjunctions: the
types of the module's variables, and the named parts that belong together, each
stated and explained where it is defined.

`keys` and its theorems have no more reserved keys than slots. That is the code's case by
count only: eight slots (`CG_MAX_CONSUMED`), and eight keys of a common layout
that can be consumed; `SlotsSuffice` states it.

Violations, each a sentence of the source that the code does not keep. They use
the instances of the passing runs, but for sg-deskcomp's, which need fewer
events and other windows.

* `prompt_watch`: of a prompt "watchers are told "secure", so the lock service does
  not put up a lock screen" (`lock.h:20`). One that begins to watch under it is
  answered "OK locked" (`lock.c:588`).
* `canvas_over_direct` (two windows): while X draws a window straight to the screen
  "the canvas is hidden" (`sg-deskcomp.c:2079`). When the desktop changes size a new
  canvas is mapped, above it (`setup_canvas`), and `check_direct` finds the same
  window on top and returns.
* `direct_on_top` (three plain windows): the window X draws straight to the
  screen stays so "until another window comes above it" (`sg-deskcomp.c:2078`).
  `forget` moves the topmost entry down into the place of the one that goes, and
  `check_direct` looks for the topmost window before `paint` puts the list in
  order again: when a window below closes, a full-screen window under another
  is made the direct one, and the one above is not to be seen.

## Seen, and in no run

What follows came up while the modules were written. Each is excluded from the
properties by a condition that names it, or the modules do not reach it.

The lock and the session:

* "RELEASE -- not UNLOCK -- ends it" (`lock.h:23`): UNLOCK ends a prompt too
  (`lock.c:574`).
* A refused REMOTE leaves its connection adopted, and its closing then ends the
  session that was away before (`lock.c:803`).
* Descriptors that come with WATCH, SESSION or INHIBIT are never closed: those
  commands return before the common clean-up. Any request with one descriptor,
  while a remote connection is there, loses it (`lock.c:803`, and `Disposed`).
* "With no lock service watching there is no one to draw it, so it locks"
  (`lock.c:1001`). A lock service that has exited is on the list until the loop
  has seen it: Ctrl+Alt+Del before that brings up a security screen nobody draws
  (`lock.c:1009`).
* A privileged window closes under the lock, and no window has the keyboard
  though the lock screen is there (`view.c:257`).
* `unisolate` shows a window that `session_x11.c` holds back (`lock.c:980`
  against `session_x11.c:104`); `unisolate` and `view_destroy` may give the
  keyboard to an override-redirect window (`lock.c:984`, `view.c:332` against
  `view.c:309`).

Keys, pointer, pen:

* A reserved key's release dropped while the session is away stays in the list
  of consumed keys (`seat.c:663`). The press of a virtual terminal key is
  withheld, its release sent (`seat.c:702`). The lock screen that Win+L brings
  up is told that L is down and never that it came up (`seat.c:2168` against
  `seat.c:481`). Two keyboards share one list (`seat.c:494`).
* The pointer that a finger hid is shown again by "the mouse, a touchpad or the pen
  moving" (`seat.h:53`, `test/touchcursor-gate.sh:6`). A pen that moves over a
  program it is already in sets no picture, and the pointer stays hidden
  (`seat.c:1446`).
* "A finger on the screen: no pointer" (`seat.c:1000`,
  `test/touchcursor-gate.sh:5`). A finger on a window that has not the keyboard gives
  it, and the change of focus moves the pointer by nothing, which shows it again
  (`seat.c:1019`, `2181`). A window that opens and a lock do so too.
* Once a pen has entered a program the pointer is drawn and still noted as hidden
  (`seat.c:1452`), so that the next finger does not hide it (`seat.c:946`):
  `PointerShows` is of what is drawn, not of the note.
* `decor_button` takes any button's release while a press is remembered; a double
  press with two buttons leaves `press.moving`, and a press on one of the bar's
  buttons then drags the window.
* The console's releases are dropped while the session is away, so what was down
  when it went stays counted.
* A stroke begun before the lock goes on sending motion to the program under it;
  one whose program goes with the tip lifted leaves `is_down`; a pen's barrel
  pressed on a bar may be released over a program.

Windows:

* A Linux program's window the user has moved stays at the console's coordinates
  when Remote Desktop takes the session, and so does one maximized by its bar
  (`view.c:170`; the comment at `view.c:168` says that it stays where the user put
  it, "moved or maximized"). `DeskFollowed` is of native windows that fill the
  desktop and of X11 ones the user has put nowhere.
* The echo of an earlier order of the compositor's, or of the program's own request,
  moves an elevated window back from where it has been dragged or placed since
  (`elevated.c:667`).
* A native window mapped full screen keeps a stale wish to be maximized; a
  request for full screen between the first commit and the map is never told; a
  minimize during a resize leaves it told "resizing"; maximized while full
  screen it loses the size to go back to; either during a drag does not end the
  drag. X11 restore boxes are coordinates of the desktop that was.

Outputs:

* "A screen that is off is an output disabled in place -- it stays in the layout"
  (`output.c:360`). A configuration may take a screen that display power turned off
  out of the layout, and the next input still lights it, with none of the desktop
  (`output.c:412`). `DarkIsWakeable` is of screens that have their place.
* "The output a Remote Desktop session is captured from is never turned off"
  (`output.c:364`). With `-m last` a monitor plugged in turns it off
  (`output.c:337`).
* "Never a layout with every display off" (`output.c:446`). The layout asked for is
  checked; one that fails after its first head is left as it is, which may be
  with every display off and none for input to wake (`output.c:465`).
* With `-m last` an output that display power turned off is not turned off again by
  the one plugged in, and the next input lights it beside that one (`output.c:337`).

Displays, sg-deskcomp:

* The window manager's descriptor is not closed if a display dies before it is
  ready. An X server that cannot be allocated after the clipboard seat was
  created takes links apart that were never set.
* A ghost that ends within a frame moves the topmost entry down for that frame,
  and what the frame drew in that order stays until it is drawn again; a window
  reparented away stays redirected, and one that comes back
  counts as not managed and is never drawn; the canvas is set up with a size
  never written if the desktop is gone by then.

## Fairness

`Session`: weak fairness of `ReapWatcher` and `ReapClient` for each peer. libwayland's
loop dispatches every descriptor that is ready, and a closed one stays ready.
No command, key or hang-up is fair: nobody has to do anything.

`Isolation`: weak fairness of `Teardown`, which is the rest of a call that has
begun; strong fairness of a hold's expiry. The timer is armed once and its
descriptor stays ready, so the loop dispatches it; only the model's splitting of
a client's destruction disables the action in between, over and over.

`Connections`: strong fairness of `accept` and of the handlers of kept
connections, for each connection, since the loop handles every ready descriptor
before it looks for more and is held up by others in between; weak fairness of
`Timeout`, which is the receive timeout of a second the code sets. No peer has
to send, read or hang up.

`Outputs`: weak fairness of each output's `Frame`: a screen that is on goes on
committing frames, and a copy that waits has asked for one
(`wlr_output_update_needs_frame`).

`DeskComp`: the loop goes on as long as there is a desktop. It waits for events
only, and paints by itself while something moves. Nothing is assumed of the
programs: `Settles` is about those that come to rest.

`Keys`, `Displays`, `Placement` and `Pointing` state safety only.

## What is proved

`SessionProofs`, for any set of clients and watchers, from `NoneIsNoClient` (the
absence of a client is not a client) and `PeersDisjoint` (a connection is of one
kind):

* the invariant `Inv` (`Invariance`), that is `SessionSound` (`TypeOK`,
  `FlagsExclusive` and `OneParty`), `SessionBeliefs` and `WatchersCurrent`
  together, and each by name;
* the action properties `GivenBackLocked` and `LockEndsByUnlock`;
* `SessionImplementsModes`: every step is a step of `Modes` or changes nothing
  it speaks of.

The conjunction is inductive as it stands, and no single conjunct is: that the
belief of a program is right after a step needs that it was what had been told
(`SessionBeliefs`), that a watcher freed is one that was gone needs the types,
that the session given back leaves no viewer needs `OneParty`, and what may be
announced needs `FlagsExclusive`. The argument is in `Handled`: nearly all
handlers move flags and parties, announce the mode, and close connections;
`HandledKeepsInv` shows once that such a step keeps the invariant, from lemmas
on the telling (`UpdateTypes`, `HearsNow`, `StillThere`), and each handler is
then shown to be such a step. `StepsOfModes` reduces every handler to one of
seven effects on the flags; the action properties and the refinement follow from
it and the invariant.

`IsolationProofs`, for any clients and windows, from `NoneIsNoClient`,
`NoViewIsNoView`, `OwnerType` and `KindsOfView` (each kind of window is a set of
windows, and those of the session belong to no privileged client):
`AlwaysIsolated`, and its parts `InputStaysIsolated` and `ScreenStaysIsolated`;
what the user finds afterwards, `EveryWindowIsBack` and `KeyboardComesBack`; and
`IsolationImplementsModes`.

`Isolated` is inductive as it stands; neither half would be without the types,
since a focus is given away through the list, and what is shown or has the input
must be on it. All but the modal handlers are one shape of step, `WindowStep`:
the list loses some windows at most, and what is shown or has the input
afterwards was so before or is allowed to; `WindowStepKeeps` says once that such
a step keeps the isolation. What sets the mode is another, `ModeStep` with
`ClientsStep`. A privileged client's destruction is a third (`TeardownKeeps`),
in which the focus is handed on while its windows go one by one. Under them lie
two lemmas on the list: `WithoutKeeps` (a list keeps its other windows when one
is taken out) and `FocusKeeps`.

`AllBack` needs more than `Isolated`: the flags (`FlagsExclusive`, since a lock
that ends must not end in a prompt's mode), and of its types that each window is
on the list once, without which one that leaves might still be on it
(`WithoutAt`). With the
console open a handler changes what is shown, held or minimized of one window at
most (`OneChanges`), and opening it shows all that are not minimized
(`UnisolateGivesBack`). That is the invariant `Inv`. The console is opened by
`unisolate` only (`ModalSteps`), from which `KeyboardAfterUnlock` follows; and each
modal handler has one of the effects of `Modes` on the flags, all others have
none.

`SeatProofs` is about `Keys` and about `Pointing`, the two halves of `seat.c`. It
extends the one and takes the other as `P`, since both have an `Init` and a
`Lock` of their own; what `Pointing` is to keep true is stated in `Seat`, which
both it and `SeatProofs` extend.

Keys: for any keyboard and any windows, from `NothingIsNothing`,
`KindsOfWindow` and `SlotsSuffice`. The invariant is the types and, until a key
event was dropped while the session was away (`missed`), `ListInv`: no key twice in
the list of consumed keys, nothing on it that is not reserved and down, the held
press down, a switch to the session put off for a key on the list, no key stuck
(`ListStaysSound`, `NoKeyStaysStuck`), and every key down and neither consumed,
held nor withheld known to the window that has the keyboard, from which
`ReleasesAreKnown` follows. That the list never overflows is counted: a list
without repetition is no longer than the set it is drawn from. After a dropped
event the code does not keep what they say, nor does it for a virtual terminal's
key (see "Seen"). `TabIsNotHanded` and `ConsoleIsDeaf` hold before and after, and
rest on `FocusAllowed`, that the keyboard is never where the mode forbids it.

Mice, fingers and pens: from `WindowsAreDistinct`, `SeatStaysSound`, `PenStaysOneThing`,
`StrokesStay` and `MotionShowsPointer`. Every function the handlers are composed of takes a sound seat
(`Sound`: a grab, a press and the last bar name windows that are there, a grab
has a button the seat counts, and a pointer not shown is hidden by a finger or
has no device) to a sound one.

`ConnectionsProofs`, from `Bounds`: `ConnectionsStaySound`, its parts
`DescriptorsClosedOnce` and `HoldsStayMatched`, and `BroughtIsDisposed`. A command
is a composition of functions on the server and its connections, and so is the
proof: `Fits` is what the two agree on, and each part is shown to keep it. The
invariant adds that the connection being served still waits for its answer. The
holds are matched by cardinalities of the set of connections that hold.

`OutputsProofs`, from `RemoteIsOutput` and `CopiesAreFinite`: `DarkStaysWakeable`
and `CopiesStaySound`. The invariant says that the list names each
output once, the remote one only while remote; that what is on, placed or off is
in it; and that each output's render lock counts the copies that wait for it.
That a dark output can be woken is inductive by itself.

`PlacementProofs`, from `NowhereIsNoDesk`: `WindowStaysSound`, `UserPlaceStays` and
`DeskIsFollowed`. Two conditions on a window carry it. `Fine`: what the user moved,
or what may yet come back to where the user moved it, is remembered as the
user's. `Cut`: a window above the taskbar is cut off at it, which every function
that places a window makes true anew and the rest leave alone. `DeskIsFollowed` goes by the kind of
window, through `view_position_all` alone.

`DisplaysProofs`, from `SessionIsNoDisplay`, `ContentsDiffer`, `SlotsSuffice` and
`DisplaysAreFinite`: `ProxiesStayCurrent`, `TakenDownOnce`, and
`DisplaysImplementTextFlow`, that every step is one of `TextFlow` or changes nothing
it speaks of. The invariant is about the heap: each seat with a selection has one
of its own, each source is one seat's, each proxy is that of its display and wraps
what it should. Within a handler it holds but for one source that has no seat yet
(`SoundBut`), and `Destroy`, `SetSelection`, `Copied` and `Proxied` each keep it. A
slot is always free, since sources are as many as seats at most, and no chain of
proxies is longer than `Destroy` follows.

`DeskCompProofs`, from `Bounds`, for any windows and however far sg-deskcomp is
behind: `Sound`, `WaysStayCurrent` and `ScreenHolds`. What they say holds when there is
nothing left to read; in between the list is out of date, and the invariant has
to say how. It looks at the list as the set of its live entries, one for a window
at most (`Listed`), so that what `restack` and `forget` do to the order matters to
one conjunct only, and at the queue through what it still says of a window:

* `Phases` and `Desktops`: what is there in each phase of the loop; a desktop that
  is gone says so last, and its new size is on its way until it is known.
* `Accounted`: a window of the desktop has an entry, or will be heard of before
  anything else is said of it (`FirstCreate`); one that left is in the list only
  while the queue says that it left.
* `Agreed`: where an entry differs from the server's window, the last that the
  queue says of the matter is as the server has it (`LastSays`).
* `Pictured`: a picture that is missing or stale will be taken anew: an event on
  its window, of a map or of another size (`Resizes`), is in the queue.
* `Screen`: with nothing owed, the last frame is right about each window of which
  there is nothing to read, and about the order of any two of them.

TLC checked this invariant in `deskcomp`'s instance, at all its states, before it
was proved. Each event is shown to keep it in three parts: what the program on the
server's side adds to the queue (`ToldKeeps`, `ServerKeeps`), what reading an
event takes from it (`ReadKeeps`, `UnknownKeeps`, `KnownKeeps`), and what is left
alone (`ScreenStays`). Under them lie lemmas on lists in another order: `InOrderIs`,
that sorting by a key gives each element once and in the key's order, from
`RankMonotone`; `Rearranged`, that a list in another order has the same live
entries; and `SameOrder`, that two subsequences of a list with the same elements
are the same. A frame (`FrameShows`) ends ghosts one after the other: `Ended` is a
recursive function, and `Steps`, from the least number at which it would fail
(`Least`), stands for the induction that the prover cannot take from the library.

Only model-checked: `RemoteLost`, `HoldsEnd`, `Answered`, `CopiesAnswered` and
`Settles`, which are liveness and out of the prover's reach. All other properties
of the passing runs are proved.
None of the modules has a RECURSIVE operator.

## What is left out

Peers' uids. What is drawn: title bars, backdrop, shadows, blur, the wobble,
cursor images, the shadow's frame. Coordinates: places stand for them. X11's own
focus and stacking; popups and their grabs. Keyboard groups, repeat, virtual and
second keyboards (`seat.c` has one list of consumed keys for all); drag icons,
pointer constraints, tablet pads, virtual pointers. The bytes of a text on its
way through a pipe. Opacity, shapes, settings and the animated background of
sg-deskcomp, and its restart: its desktop only grows. XWINDOWS, XKILL and XCLOSE.
Start-up (`cage.c`), which creates the parts in a fixed order. Allocation
failures, but for those of adopting a display. `PROJECT.json` says of every part
whether it is modelled, and why not.

## The plan

All safety properties the runs check are proved. What is left:

1. `Compositor`: `Session` and `Isolation` composed over one `LockMode`, so that
   what a program believes is related to what is on the screen; both implement
   `Modes` already, by theorems.
2. A second keyboard in `Keys`: the one hazard (`seat.c:494`) no property covers.
3. The list of displays and the taskbar's list of windows.
