------------------------------- MODULE Outputs -------------------------------
(***************************************************************************)
(* The screens: monitors that come and go, what a program of the session   *)
(* configures, display power, the output of a remote session, and the      *)
(* copies of a screen that programs wait for (output.c, public_capture.c,  *)
(* remote_attach and remote_detach of lock.c).                             *)
(*                                                                         *)
(* A commit to an output is tried by the backend and may fail; which ones  *)
(* may is a constant, so that what failures break can be told from the     *)
(* rest.  wlroots' output manager hands over a configuration with a head   *)
(* for every output there is.                                              *)
(***************************************************************************)
EXTENDS Naturals, Sequences, FiniteSets, SequencesExt

CONSTANTS
  Output,     \* the outputs there may be
  Remote,     \* ... of which the headless one of a remote session
  NoOutput,
  Flaky,      \* those whose commits may fail
  Copy        \* frames of the public screen capture

ASSUME CopiesAreFinite == IsFiniteSet(Copy)
ASSUME RemoteIsOutput == Remote \in Output /\ NoOutput \notin Output /\ Flaky \subseteq Output

VARIABLES
  outputs,      \* server->outputs, the newest first
  output_mode,  \* "extend" or "last": the command line's, for good
  enabled,      \* wlr_output->enabled
  layout,       \* the outputs in the layout
  powered_off,  \* cg_output.powered_off
  mode,         \* the lock: "open", "locked", or "secure" for a prompt
  remote,       \* server->remote
  bound,        \* frame.output
  waiting,      \* the frames with the client's buffer, and a commit listener
  locks,        \* wlroots' count of what forbids direct scanout, per output
  pictured      \* the frames whose client the last step gave the screen's picture

screens == <<outputs, enabled, layout, powered_off>>
copies == <<bound, waiting, locks>>
vars == <<screens, output_mode, mode, remote, copies, pictured>>

Present == ToSet(outputs)

TypeOK ==
  /\ outputs \in Seq(Output) /\ Len(outputs) = Cardinality(Present)
  /\ output_mode \in {"extend", "last"}
  /\ enabled \subseteq Present /\ layout \subseteq Present /\ powered_off \subseteq Present
  /\ mode \in {"open", "locked", "secure"}
  /\ remote \in BOOLEAN
  /\ bound \in [Copy -> Output \cup {NoOutput}]
  /\ waiting \subseteq Copy
  /\ locks \in [Output -> 0..Cardinality(Copy)]
  /\ pictured \subseteq Copy

Init ==
  /\ outputs = <<>> /\ enabled = {} /\ layout = {} /\ powered_off = {}
  /\ output_mode \in {"extend", "last"}
  /\ mode = "open" /\ remote = FALSE
  /\ bound = [f \in Copy |-> NoOutput]
  /\ waiting = {}
  /\ locks = [o \in Output |-> 0]
  /\ pictured = {}

\* wlr_output_commit_state, for each of some outputs: those that take it.
Commits(set) == {set \ failed : failed \in SUBSET (set \cap Flaky)}

----------------------------------------------------------------------------
(* Copies of the screen.                                                   *)

WaitingOn(o) == {f \in waiting : bound[f] = o}

\* Mutant: a copy that is over keeps the output rendering.
frame_stop_KeepsLock(o, set) == waiting' = waiting \ set /\ UNCHANGED locks

\* frame_stop, for some frames that wait for the output o.
frame_stop(o, set) ==
  /\ waiting' = waiting \ set
  /\ locks' = [locks EXCEPT ![o] = @ - Cardinality(set \cap waiting)]

\* Mutant: a frame outlives the output it is of.
frame_handle_output_destroy_KeepsOutput(o) ==
  /\ frame_stop(o, WaitingOn(o))
  /\ UNCHANGED bound

\* frame_handle_output_destroy, for every frame of the output.
frame_handle_output_destroy(o) ==
  /\ frame_stop(o, WaitingOn(o))
  /\ bound' = [f \in Copy |-> IF bound[f] = o THEN NoOutput ELSE bound[f]]

\* capture: a frame is asked for; one of an output that is off is failed at
\* once and stays without an output.
Capture(f, o) ==
  /\ bound[f] = NoOutput /\ f \notin waiting /\ o \in Present
  /\ bound' = [bound EXCEPT ![f] = IF o \in enabled THEN o ELSE NoOutput]
  /\ pictured' = {}
  /\ UNCHANGED <<screens, output_mode, mode, remote, waiting, locks>>

\* frame_copy, with a buffer that fits; a frame may be copied again later.
FrameCopy(f) ==
  /\ f \notin waiting
  /\ pictured' = {}
  /\ IF bound[f] = NoOutput
       THEN UNCHANGED <<waiting, locks>>
       ELSE waiting' = waiting \cup {f} /\ locks' = [locks EXCEPT ![bound[f]] = @ + 1]
  /\ UNCHANGED <<screens, output_mode, mode, remote, bound>>

\* frame_resource_destroy: by its client, or with it.
FrameDestroy(f) ==
  /\ bound[f] # NoOutput
  /\ frame_stop(bound[f], {f})
  /\ bound' = [bound EXCEPT ![f] = NoOutput]
  /\ pictured' = {}
  /\ UNCHANGED <<screens, output_mode, mode, remote>>

\* Mutant: black for a lock, but not for a prompt.
fill_PromptShown(set) == IF mode = "locked" THEN {} ELSE set

\* fill: the frames of the set that are given the picture, the others are
\* painted black.  secure_now is read when the picture is.
fill(set) == IF mode # "open" THEN {} ELSE set

\* Mutant: a copy waits until it may be given the picture.
frame_handle_commit_WhenOpen(o) ==
  LET done == IF mode = "open" THEN WaitingOn(o) ELSE {}
  IN frame_stop(o, done) /\ pictured' = done

\* frame_handle_commit, of the frames that wait for the output.  Filling a
\* buffer may fail: the output has another size by now, the client's memory
\* is gone.
frame_handle_commit(o) ==
  /\ frame_stop(o, WaitingOn(o))
  /\ \E done \in SUBSET WaitingOn(o) : pictured' = fill(done)

\* handle_output_frame, and a commit that succeeds.
Frame(o) ==
  /\ o \in enabled
  /\ frame_handle_commit(o)
  /\ UNCHANGED <<screens, output_mode, mode, remote, bound>>

----------------------------------------------------------------------------
(* Monitors.                                                               *)

\* output_disable of one that is on: the layout goes without it even when
\* the commit fails.  Of one that is off: nothing, it keeps its place.
output_disable(o) ==
  {[on |-> enabled \ gone, in |-> IF o \in enabled THEN layout \ {o} ELSE layout]
     : gone \in Commits({o} \cap enabled)}

\* handle_new_output.  With -m last the one before goes off.
Plug(o) ==
  /\ outputs' = <<o>> \o outputs
  /\ \E before \in IF output_mode = "last" /\ outputs # <<>>
                     THEN output_disable(Head(outputs))
                     ELSE {[on |-> enabled, in |-> layout]} :
       \E lit \in Commits({o}) :
         enabled' = before.on \cup lit /\ layout' = before.in \cup lit
  /\ UNCHANGED powered_off

\* The list without one of it.
Without(o) == RemoveAt(outputs, CHOOSE i \in DOMAIN outputs : outputs[i] = o)

\* output_destroy.  With -m last the one plugged in before is turned on.
Unplug(o) ==
  LET left == Without(o)
  IN /\ outputs' = left
     /\ \E lit \in IF output_mode = "last" /\ left # <<>> THEN Commits({Head(left)}) ELSE {{}} :
          enabled' = (enabled \ {o}) \cup lit /\ layout' = (layout \ {o}) \cup lit
     /\ powered_off' = powered_off \ {o}
     /\ frame_handle_output_destroy(o)

NewOutput(o) ==
  /\ o \notin Present \cup {Remote}
  /\ Plug(o)
  /\ pictured' = {}
  /\ UNCHANGED <<output_mode, mode, remote, copies>>

OutputGone(o) ==
  /\ o \in Present \ {Remote}
  /\ Unplug(o)
  /\ pictured' = {}
  /\ UNCHANGED <<output_mode, mode, remote>>

\* remote_attach: the headless output comes first, the session's windows
\* follow, the lock is released.
RemoteAttach ==
  /\ ~remote /\ mode # "secure"
  /\ Plug(Remote)
  /\ remote' = TRUE /\ mode' = "open"
  /\ pictured' = {}
  /\ UNCHANGED <<output_mode, copies>>

\* remote_detach.
RemoteDetach ==
  /\ remote
  /\ remote' = FALSE /\ mode' = "locked"
  /\ Unplug(Remote)
  /\ pictured' = {}
  /\ UNCHANGED output_mode

----------------------------------------------------------------------------
(* Configuration and power.                                                *)

\* What output_config_apply refuses before it touches anything, for a test
\* (handle_output_manager_test) as for the real thing.
ConfigAllowed(asked, privileged) ==
  /\ mode = "open" \/ privileged
  /\ asked # {}

\* output_apply_config, of one head after the other.
Configured(on, off) ==
  /\ enabled' = (enabled \ off) \cup on
  /\ layout' = (layout \ off) \cup on

\* handle_output_manager_apply: head after head, in the client's order, up to
\* the first that fails; nothing is undone.  These were turned on, these off.
ConfigApply(on, off, privileged) ==
  /\ on \cap off = {}
  /\ \/ on \cup off = Present /\ ConfigAllowed(on, privileged)
     \/ \E failed \in (Present \ (on \cup off)) \cap Flaky : ConfigAllowed(on \cup {failed}, privileged)
  /\ Configured(on, off)
  /\ pictured' = {}
  /\ UNCHANGED <<outputs, powered_off, output_mode, mode, remote, copies>>

\* Mutant: turning it off is remembered even where the commit failed, and
\* turning it on forgotten.
output_set_power_Optimistic(o, on) ==
  /\ IF on THEN o \in powered_off ELSE o \in enabled
  /\ ~(~on /\ remote /\ o = Remote)
  /\ \E took \in Commits({o}) :
       enabled' = IF on THEN enabled \cup took ELSE enabled \ took
  /\ powered_off' = IF on THEN powered_off \ {o} ELSE powered_off \cup {o}

\* output_set_power.
output_set_power(o, on) ==
  /\ IF on THEN o \in powered_off ELSE o \in enabled
  /\ ~(~on /\ remote /\ o = Remote)
  /\ \E took \in Commits({o}) :
       /\ enabled' = IF on THEN enabled \cup took ELSE enabled \ took
       /\ powered_off' = IF on THEN powered_off \ took ELSE powered_off \cup took

\* handle_output_power_set_mode: swayidle's wlopm, or any program.
SetPower(o, on) ==
  /\ output_set_power(o, on)
  /\ pictured' = {}
  /\ UNCHANGED <<outputs, layout, output_mode, mode, remote, copies>>

\* Any input: seat_notify_activity, output_power_wake.
Activity ==
  /\ \E took \in Commits(powered_off) :
       enabled' = enabled \cup took /\ powered_off' = powered_off \ took
  /\ pictured' = {}
  /\ UNCHANGED <<outputs, layout, output_mode, mode, remote, copies>>

\* The lock's own steps; Session says when.
ChangeMode ==
  /\ mode' \in {"open", "locked"} \cup (IF mode = "open" THEN {"secure"} ELSE {})
  /\ pictured' = {}
  /\ UNCHANGED <<screens, output_mode, remote, copies>>

----------------------------------------------------------------------------
Next ==
  \/ \E o \in Output : NewOutput(o) \/ OutputGone(o) \/ Frame(o)
  \/ \E o \in Output, on \in BOOLEAN : SetPower(o, on)
  \/ \E on, off \in SUBSET Present : ConfigApply(on, off, mode # "open")
  \/ RemoteAttach \/ RemoteDetach
  \/ Activity \/ ChangeMode
  \/ \E f \in Copy, o \in Output : Capture(f, o)
  \/ \E f \in Copy : FrameCopy(f) \/ FrameDestroy(f)

Spec == Init /\ [][Next]_vars

\* A copy asks for a frame (wlr_output_update_needs_frame), and an output
\* that is on gets its frame events; a commit that fails is tried again.
FairSpec == Spec /\ \A o \in Output : WF_vars(Frame(o))

----------------------------------------------------------------------------
(* Properties.                                                             *)

\* A screen that is dark and has its place in the layout was turned off by
\* display power, so the next input lights it: whatever commits fail, and
\* whatever was plugged in and out or configured meanwhile.
DarkIsWakeable == layout \ enabled \subseteq powered_off

\* The render lock is held once for each copy that waits, and by none else:
\* it is given back once, whether the copy is done, fails, is destroyed or
\* loses its output.
LocksBalanced == \A o \in Present : locks[o] = Cardinality(WaitingOn(o))

\* No frame refers to an output that is gone, and none waits for it.
CopiesBound ==
  /\ \A f \in Copy : bound[f] \in Present \cup {NoOutput}
  /\ \A f \in waiting : bound[f] # NoOutput

\* A program is given no picture of the screen under a lock or a prompt,
\* though it asked before it came up.
NoSecretCopied == pictured # {} => mode = "open"

\* Copies of the screen, through locks, outputs and clients that go in any
\* order: balanced, bound to what is there, and black when they must be.
CopiesSound == TypeOK /\ LocksBalanced /\ CopiesBound /\ NoSecretCopied

\* A copy is answered unless the screen it is of is off, and then once it is on.
CopiesAnswered ==
  \A f \in Copy : f \in waiting ~> (f \notin waiting \/ bound[f] \notin enabled)
=============================================================================
