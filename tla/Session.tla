------------------------------- MODULE Session -------------------------------
(***************************************************************************)
(* The control socket, the privileged socket and the reserved keys: who    *)
(* may put the console in which mode, who has taken the session or views   *)
(* it from afar, and what the connections that watch are told (lock.c,     *)
(* seat.c).  Each action is one handler of the event loop, run to its end. *)
(* A peer may close its end of a connection at any time; the loop notices  *)
(* later, in a handler of its own.                                         *)
(***************************************************************************)
EXTENDS LockMode

CONSTANTS
  Watcher,         \* WATCH connections: the lock service
  SessionWatcher   \* SESSION connections: the session's own programs

ASSUME PeersDisjoint ==
  /\ Watcher \cap SessionWatcher = {}
  /\ (Client \cup {None}) \cap (Watcher \cup SessionWatcher) = {}

VARIABLES
  remoteClient,    \* server->remote_client, or None
  shadowClient,    \* server->shadow_client, or None
  shadowControl,   \* server->shadow_control
  watchers,        \* lock->watchers
  sessionWatchers, \* lock->session_watchers
  told,            \* told_locked, told_remote, told_shadow
  heard,           \* the last thing each WATCH connection was sent
  belief,          \* what each SESSION connection makes of what it was sent
  gone             \* peers that hung up and that the loop has not noticed yet

sessionVars == <<remoteClient, shadowClient, shadowControl, watchers,
                 sessionWatchers, told, heard, belief, gone>>
vars == <<modeVars, privileged, remote, sessionVars>>

Told == [locked : BOOLEAN, remote : BOOLEAN, shadow : BOOLEAN]
Nothing == [locked |-> FALSE, remote |-> FALSE, shadow |-> FALSE]
\* What WATCH is answered, and the events that follow.
Replies == {"OK unlocked", "OK locked"}
Heard == {"nothing", "unlocked", "locked", "secure", "sas", "released"} \cup Replies

TypeOK ==
  /\ LockModeTypeOK
  /\ remoteClient \in Client \cup {None}
  /\ shadowClient \in Client \cup {None}
  /\ shadowControl \in BOOLEAN
  /\ watchers \subseteq Watcher
  /\ sessionWatchers \subseteq SessionWatcher
  /\ told \in Told
  /\ heard \in [Watcher -> Heard]
  /\ belief \in [SessionWatcher -> Told]
  /\ gone \subseteq Client \cup Watcher \cup SessionWatcher

Init ==
  /\ LockModeInit
  /\ remoteClient = None /\ shadowClient = None /\ shadowControl = FALSE
  /\ watchers = {} /\ sessionWatchers = {}
  /\ told = Nothing
  /\ heard = [w \in Watcher |-> "nothing"]
  /\ belief = [w \in SessionWatcher |-> Nothing]
  /\ gone = {}

----------------------------------------------------------------------------
(* Telling the watchers.  A send to a connection whose peer is gone fails, *)
(* and the watcher is freed there and then.                                *)

\* What the session is, after the step.
Now == [locked |-> SessionLocked', remote |-> remote', shadow |-> shadowClient' # None]

\* What a session watcher that knew b knows once told of what changed.
Hears(b) ==
  [locked |-> IF Now.locked # told.locked THEN Now.locked ELSE b.locked,
   remote |-> IF Now.remote # told.remote THEN Now.remote ELSE b.remote,
   shadow |-> IF Now.shadow # told.shadow THEN Now.shadow ELSE b.shadow]

\* lock_session_update.
lock_session_update ==
  LET dropped == IF Now = told THEN {} ELSE sessionWatchers \cap gone
  IN /\ told' = Now
     /\ sessionWatchers' = sessionWatchers \ dropped
     /\ belief' = [w \in SessionWatcher |-> IF w \in dropped THEN Nothing
                                            ELSE IF w \in sessionWatchers \ gone THEN Hears(belief[w])
                                            ELSE belief[w]]

\* send_watchers on lock->watchers.
TellWatchers(event) ==
  /\ watchers' = watchers \ gone
  /\ heard' = [w \in Watcher |-> IF w \in watchers \ gone THEN event
                                 ELSE IF w \in watchers THEN "nothing" ELSE heard[w]]

\* The connections closed by a step: the watchers it freed and the clients
\* it destroyed.
Closed(clients) ==
  gone' = gone \ (clients \cup ((watchers \cup sessionWatchers)
                                  \ (watchers' \cup sessionWatchers')))

\* notify_watchers.
notify_watchers(event) == TellWatchers(event) /\ lock_session_update

\* The parties to the session are as they were.
SameParties == UNCHANGED <<privileged, remote, remoteClient, shadowClient, shadowControl>>

\* No mode change: only the session watchers may have something to hear.
QuietUpdate == UNCHANGED <<watchers, heard>> /\ lock_session_update

----------------------------------------------------------------------------
(* The entry points of lock.c, flags and watchers together.                *)

\* Mutant: a lock already engaged returns before anyone is told.
lock_engage_SilentOver ==
  /\ EngageFlags
  /\ IF locked THEN UNCHANGED <<watchers, heard, sessionWatchers, told, belief>>
               ELSE notify_watchers("locked")

\* Mutant: only the session's programs are told that a screen became a lock.
lock_engage_QuietOver ==
  /\ EngageFlags
  /\ IF locked THEN QuietUpdate ELSE notify_watchers("locked")

lock_engage ==
  /\ EngageFlags
  /\ IF SessionLocked THEN QuietUpdate ELSE notify_watchers("locked")

lock_release ==
  \/ /\ locked
     /\ OpenFlags
     /\ notify_watchers("unlocked")
  \/ /\ ~locked
     /\ UNCHANGED modeVars
     /\ QuietUpdate

lock_sas_engage ==
  \/ locked /\ UNCHANGED modeVars /\ QuietUpdate
  \/ ~locked /\ watchers = {} /\ lock_engage
  \/ /\ ~locked /\ watchers # {}
     /\ SasFlags
     /\ notify_watchers("sas")

\* The client goes, with its destroy listeners: privileged_destroy, and
\* handle_shadow_client_destroy when it was the viewer.
DestroyClients(clients) ==
  /\ privileged' = privileged \ clients
  /\ IF shadowClient \in clients
       THEN shadowClient' = None /\ shadowControl' = FALSE
       ELSE UNCHANGED <<shadowClient, shadowControl>>

\* Mutant: the session comes back as it was.
remote_detach_NoLock ==
  /\ remote' = FALSE
  /\ remoteClient' = None
  /\ DestroyClients({remoteClient} \cap Client)
  /\ UNCHANGED modeVars
  /\ QuietUpdate
  /\ Closed({remoteClient})

\* remote_detach, while remote: the session comes back, locked, and the
\* remote connection, if there is one, is destroyed.
remote_detach ==
  /\ remote' = FALSE
  /\ remoteClient' = None
  /\ DestroyClients({remoteClient} \cap Client)
  /\ lock_engage
  /\ Closed({remoteClient})

----------------------------------------------------------------------------
(* Commands on the control socket, from a peer that may give them.         *)

ConnectPrivileged(c) ==
  /\ c \notin privileged
  /\ privileged' = privileged \cup {c}
  /\ UNCHANGED <<modeVars, remote, sessionVars>>

CmdLock ==
  /\ SameParties
  /\ lock_engage
  /\ Closed({})

CmdUnlock ==
  /\ SameParties
  /\ lock_release
  /\ Closed({})

CmdSecure ==
  /\ SameParties
  /\ SecureFlags
  /\ notify_watchers("secure")
  /\ Closed({})

\* Mutant: RELEASE ends whatever is engaged.
CmdRelease_AnyLock ==
  /\ locked
  /\ SameParties
  /\ OpenFlags
  /\ notify_watchers("released")
  /\ Closed({})

CmdRelease ==
  /\ locked /\ secure
  /\ SameParties
  /\ OpenFlags
  /\ notify_watchers("released")
  /\ Closed({})

\* lock_sas_action: cancel, taskmgr and signout differ only in the helper run.
CmdSas ==
  /\ locked /\ sas
  /\ SameParties
  /\ OpenFlags
  /\ notify_watchers("unlocked")
  /\ Closed({})

\* WATCH: told at once where things stand.
CmdWatch(w) ==
  /\ w \notin watchers
  /\ watchers' = watchers \cup {w}
  /\ heard' = [heard EXCEPT ![w] = IF locked THEN "OK locked" ELSE "OK unlocked"]
  /\ UNCHANGED <<modeVars, privileged, remote, remoteClient, shadowClient,
                 shadowControl, sessionWatchers, told, belief, gone>>

\* SESSION: told what the others were last told.
CmdSession(w) ==
  /\ w \notin sessionWatchers
  /\ sessionWatchers' = sessionWatchers \cup {w}
  /\ belief' = [belief EXCEPT ![w] = told]
  /\ UNCHANGED <<modeVars, privileged, remote, remoteClient, shadowClient,
                 shadowControl, watchers, told, heard, gone>>

\* REMOTE refused: shadowed, a second remote connection, or remote_attach
\* failing with the console's session still here (the client just adopted is
\* let go again).  None of them leaves a trace.  Under a prompt with the
\* session already away, though, the connection stays adopted.
CmdRemoteUnderPrompt(c) ==
  /\ shadowClient = None /\ remoteClient = None
  /\ remote /\ secure
  /\ c \notin privileged
  /\ privileged' = privileged \cup {c}
  /\ remoteClient' = c
  /\ UNCHANGED <<modeVars, remote, shadowClient, shadowControl, watchers,
                 sessionWatchers, told, heard, belief, gone>>

\* Mutant: a connection is adopted with no descriptor to adopt it from.
CmdRemote_NoDescriptor(c) ==
  /\ shadowClient = None /\ ~secure
  /\ remoteClient = None /\ c \notin privileged
  /\ privileged' = privileged \cup {c}
  /\ remoteClient' = c
  /\ remote' = TRUE
  /\ UNCHANGED <<shadowClient, shadowControl>>
  /\ IF remote THEN UNCHANGED modeVars /\ QuietUpdate ELSE lock_release
  /\ Closed({})

\* Mutant: taken from under a prompt too.
CmdRemote_UnderPrompt(c) ==
  /\ shadowClient = None /\ c = None
  /\ remote' = TRUE
  /\ UNCHANGED <<privileged, remoteClient, shadowClient, shadowControl>>
  /\ IF remote THEN UNCHANGED modeVars /\ QuietUpdate ELSE lock_release
  /\ Closed({})

\* REMOTE accepted, with (c) or without (None) a connection to adopt.
CmdRemote(c) ==
  /\ shadowClient = None
  /\ ~secure
  /\ \/ c = None /\ UNCHANGED <<privileged, remoteClient>>
     \/ /\ c # None /\ remoteClient = None /\ c \notin privileged
        /\ privileged' = privileged \cup {c}
        /\ remoteClient' = c
  /\ remote' = TRUE
  /\ UNCHANGED <<shadowClient, shadowControl>>
  /\ IF remote THEN UNCHANGED modeVars /\ QuietUpdate ELSE lock_release
  /\ Closed({})

CmdLocal == remote /\ remote_detach

\* Mutant: busy only with a connection, not with the session away.
CmdShadow_WhileAway(c, control) ==
  /\ shadowClient = None /\ remoteClient = None
  /\ c \notin privileged
  /\ privileged' = privileged \cup {c}
  /\ shadowClient' = c
  /\ shadowControl' = control
  /\ UNCHANGED <<modeVars, remote, remoteClient>>
  /\ QuietUpdate
  /\ Closed({})

\* SHADOW view|control.
CmdShadow(c, control) ==
  /\ shadowClient = None /\ remoteClient = None /\ ~remote
  /\ c \notin privileged
  /\ privileged' = privileged \cup {c}
  /\ shadowClient' = c
  /\ shadowControl' = control
  /\ UNCHANGED <<modeVars, remote, remoteClient>>
  /\ QuietUpdate
  /\ Closed({})

----------------------------------------------------------------------------
(* Reserved keys.  src is "console", or the privileged client whose        *)
(* virtual keyboard the key came from: a view-only viewer has none.        *)

MayType(c) == c \in privileged /\ (c = shadowClient => shadowControl)

KeyWinL(src) ==
  /\ src = "console" => ~remote
  /\ SameParties
  /\ lock_engage
  /\ Closed({})

\* Ctrl+Alt+Del: any keyboard but the viewer's own ends a console shadow
\* first; at the console it takes the session back when it is away.
KeySas(src) ==
  LET viewer == IF src = shadowClient THEN {} ELSE {shadowClient} \cap Client
  IN \/ /\ src = "console" /\ remote
        /\ remote' = FALSE
        /\ remoteClient' = None
        /\ DestroyClients(viewer \cup ({remoteClient} \cap Client))
        /\ lock_engage
        /\ Closed(viewer \cup {remoteClient})
     \/ /\ src = "console" => ~remote
        /\ DestroyClients(viewer)
        /\ UNCHANGED <<remote, remoteClient>>
        /\ lock_sas_engage
        /\ Closed(viewer)

----------------------------------------------------------------------------
(* Connections closing.                                                    *)

\* The peer exits or closes its end.
HangUp(p) ==
  /\ p \in (privileged \cup watchers \cup sessionWatchers) \ gone
  /\ gone' = gone \cup {p}
  /\ UNCHANGED <<modeVars, privileged, remote, remoteClient, shadowClient, shadowControl,
                 watchers, sessionWatchers, told, heard, belief>>

\* handle_watcher_event.
ReapWatcher(w) ==
  /\ w \in gone \cap (watchers \cup sessionWatchers)
  /\ watchers' = watchers \ {w}
  /\ sessionWatchers' = sessionWatchers \ {w}
  /\ heard' = [x \in Watcher |-> IF x = w THEN "nothing" ELSE heard[x]]
  /\ belief' = [x \in SessionWatcher |-> IF x = w THEN Nothing ELSE belief[x]]
  /\ gone' = gone \ {w}
  /\ UNCHANGED <<modeVars, privileged, remote, remoteClient, shadowClient, shadowControl, told>>

\* Mutant: the remote connection is forgotten and the session stays away.
ReapClient_StaysAway(c) ==
  /\ c \in gone \cap privileged
  /\ DestroyClients({c})
  /\ remoteClient' = IF c = remoteClient THEN None ELSE remoteClient
  /\ UNCHANGED <<modeVars, remote>>
  /\ QuietUpdate
  /\ Closed({c})

\* The loop finds a privileged client's connection closed and destroys it:
\* privileged_destroy, then handle_remote_client_destroy (which gives the
\* session back, locked) or handle_shadow_client_destroy.
ReapClient(c) ==
  /\ c \in gone \cap privileged
  /\ DestroyClients({c})
  /\ IF c = remoteClient
       THEN /\ remoteClient' = None
            /\ remote' = FALSE
            /\ IF remote THEN lock_engage ELSE UNCHANGED modeVars /\ QuietUpdate
       ELSE /\ UNCHANGED <<modeVars, remote, remoteClient>>
            /\ QuietUpdate
  /\ Closed({c})

----------------------------------------------------------------------------
Commands ==
  \/ CmdLock \/ CmdUnlock \/ CmdSecure \/ CmdRelease \/ CmdSas
  \/ \E w \in Watcher : CmdWatch(w)
  \/ \E w \in SessionWatcher : CmdSession(w)
  \/ \E c \in Client : CmdRemoteUnderPrompt(c)
  \/ \E c \in Client \cup {None} : CmdRemote(c)
  \/ CmdLocal
  \/ \E c \in Client, control \in BOOLEAN : CmdShadow(c, control)

Keys ==
  \/ KeyWinL("console") \/ KeySas("console")
  \/ \E c \in Client : MayType(c) /\ (KeyWinL(c) \/ KeySas(c))

Connections ==
  \/ \E c \in Client : ConnectPrivileged(c)
  \/ \E p \in Client \cup Watcher \cup SessionWatcher : HangUp(p)
  \/ \E w \in Watcher \cup SessionWatcher : ReapWatcher(w)
  \/ \E c \in Client : ReapClient(c)

Next == Commands \/ Keys \/ Connections

\* The event loop dispatches every descriptor that is ready, so a closed
\* connection is noticed in the end.  Nothing else need ever happen.
Fairness ==
  /\ \A w \in Watcher \cup SessionWatcher : WF_vars(ReapWatcher(w))
  /\ \A c \in Client : WF_vars(ReapClient(c))

Spec == Init /\ [][Next]_vars
FairSpec == Spec /\ Fairness

----------------------------------------------------------------------------
(* Properties.                                                             *)

\* Every program following the session (SESSION) that is still there knows
\* whether the user locked it, whether Remote Desktop has it and whether it
\* is viewed: no path through lock.c changes one of the three and returns
\* without lock_session_update, the early returns of lock_engage included.
Actual == [locked |-> SessionLocked, remote |-> remote, shadow |-> shadowClient # None]
SessionBeliefs ==
  /\ told = Actual
  /\ \A w \in sessionWatchers \ gone : belief[w] = Actual

\* What a lock service may last have heard in each mode.  An event names the
\* mode; the answer to WATCH says no more than whether anything is engaged.
Fits(event) ==
  \/ event \in {"unlocked", "released", "OK unlocked"} /\ ~locked
  \/ event \in {"locked", "secure", "sas"} /\ Mode = event
  \/ event = "OK locked" /\ locked

\* A lock service is told of every change of mode while it watches, by the
\* event of the mode the console came to: one told "secure" or "sas" hears
\* "locked" when that becomes a lock, and none told "locked" is left under a
\* prompt.  What a service that begins to watch under a prompt is answered is
\* not the prompt's name: see PromptSaidSecure.
WatchersCurrent == \A w \in watchers \ gone : Fits(heard[w])

\* lock.h of a prompt: "watchers are told "secure", so the lock service does
\* not put up a lock screen".  So it is of a service that watched when the
\* prompt came; one that restarts under it is answered "OK locked".
PromptSaidSecure ==
  Mode = "secure" => \A w \in watchers \ gone : heard[w] = "secure"

\* One party at most has the session from afar: a viewer never while it is
\* away, a remote connection only while it is; and whoever it is holds its
\* privileges for as long.  REMOTE, SHADOW, LOCAL, the keys and the destroy
\* listeners all have to keep to this.
OneParty ==
  /\ remote => shadowClient = None
  /\ remoteClient # None => remote /\ remoteClient \in privileged
  /\ shadowClient # None => shadowClient \in privileged
  /\ shadowControl => shadowClient # None

\* What is on record of the console is of its kind and consistent: a mode that
\* exists and parties that are there, after any commands, keys and hang-ups.
SessionSound == TypeOK /\ FlagsExclusive /\ OneParty

\* However the session comes back from Remote Desktop -- LOCAL, Ctrl+Alt+Del
\* at the console, the connection closing, under a prompt or the security
\* screen or neither -- it comes back really locked, in the same step.
GivenBackLocked == [][remote /\ ~remote' => SessionLocked']_vars

\* The user's lock ends by UNLOCK, or by REMOTE (which follows the user's
\* password), and by nothing else: not RELEASE and not SAS, even when the
\* lock began as a prompt or a security screen they might have ended.
LockEndsByUnlock ==
  [][SessionLocked /\ ~SessionLocked' =>
       CmdUnlock \/ \E c \in Client \cup {None} : CmdRemote(c)]_vars

\* The session does not stay away after its remote connection is lost: it
\* comes back, locked.
RemoteLost == remote /\ remoteClient \in gone ~> ~remote /\ SessionLocked

\* The detailed protocol implements the abstract lock.
M == INSTANCE Modes WITH mode <- Mode, away <- remote
ImplementsModes == M!Spec
=============================================================================
