---------------------------- MODULE SessionProofs ----------------------------
(***************************************************************************)
(* Theorems about Session, for every set of clients and watchers: its      *)
(* safety properties, and that it implements Modes.                        *)
(*                                                                         *)
(* Almost every handler comes down to the same thing (Handled): it moves   *)
(* the flags and the parties, tells the watchers, and closes connections.  *)
(* So that such a step keeps the invariant is proved once, and what is     *)
(* left to show of each handler is that it is such a step.                 *)
(***************************************************************************)
EXTENDS Session, TLAPS

Inv == TypeOK /\ FlagsExclusive /\ OneParty /\ SessionBeliefs /\ WatchersCurrent

\* The lock service is told of the mode the console is in, or the mode is as
\* it was; the session's programs are told of what changed for them.
Announced ==
  \/ \E event \in Heard : notify_watchers(event) /\ Fits(event)'
  \/ QuietUpdate /\ UNCHANGED modeVars

\* The parties after the step are of the right type, and one at most.
PartiesOK ==
  /\ LockModeTypeOK
  /\ remoteClient \in Client \cup {None}
  /\ shadowClient \in Client \cup {None}
  /\ shadowControl \in BOOLEAN
  /\ OneParty

Handled(clients) ==
  /\ PartiesOK' /\ FlagsExclusive'
  /\ Announced
  /\ Closed(clients)

Peer == Client \cup {None}

----------------------------------------------------------------------------
(* Telling the watchers.                                                   *)

(* What is told, and what the programs make of it, stay of the right type. *)
LEMMA UpdateTypes ==
  ASSUME TypeOK, LockModeTypeOK', lock_session_update
  PROVE  /\ told' \in Told
         /\ sessionWatchers' \subseteq sessionWatchers
         /\ belief' \in [SessionWatcher -> Told]
<1>1. Now \in Told
  BY DEF LockModeTypeOK, Now, Told, SessionLocked
<1>2. ASSUME NEW b \in Told PROVE Hears(b) \in Told
  BY <1>1, <1>2 DEF TypeOK, Hears, Told
<1>3. Nothing \in Told
  BY DEF Nothing, Told
<1>4. told' \in Told /\ sessionWatchers' \subseteq sessionWatchers
  BY <1>1 DEF lock_session_update, TypeOK
<1>5. ASSUME NEW w \in SessionWatcher PROVE belief[w] \in Told
  BY <1>5 DEF TypeOK
<1>6. belief' \in [SessionWatcher -> Told]
  BY <1>2, <1>3, <1>5 DEF lock_session_update
<1>. QED BY <1>4, <1>6

(* A program that knew what was told knows, once told, what is.            *)
LEMMA HearsNow ==
  ASSUME told \in Told, LockModeTypeOK'
  PROVE  Hears(told) = Now
<1>1. Now \in Told
  BY DEF LockModeTypeOK, Now, Told, SessionLocked
<1>. QED BY <1>1 DEF Hears, Told

(* A watcher that is on a list and not known to be gone after the step was *)
(* so before it: closing takes it off its list.                            *)
LEMMA StillThere ==
  ASSUME TypeOK, NEW clients \in SUBSET Peer, Closed(clients),
         watchers' \subseteq watchers, sessionWatchers' \subseteq sessionWatchers,
         NEW w \in (watchers' \cup sessionWatchers') \ gone'
  PROVE  w \notin gone
<1>1. w \notin clients
  BY PeersDisjoint DEF TypeOK, Peer
<1>2. w \notin (watchers \cup sessionWatchers) \ (watchers' \cup sessionWatchers')
  OBVIOUS
<1>. QED BY <1>1, <1>2 DEF Closed

(* The lists of watchers only lose watchers, and what they hear keeps its  *)
(* type, when all are told.                                                *)
LEMMA AnnouncedTypes ==
  ASSUME TypeOK, LockModeTypeOK', Announced
  PROVE  /\ watchers' \subseteq watchers
         /\ heard' \in [Watcher -> Heard]
         /\ lock_session_update
<1>1. CASE QuietUpdate
  BY <1>1 DEF QuietUpdate, TypeOK
<1>2. ASSUME NEW event \in Heard, notify_watchers(event)
      PROVE  /\ watchers' \subseteq watchers
             /\ heard' \in [Watcher -> Heard]
             /\ lock_session_update
  <2>1. "nothing" \in Heard
    BY DEF Heard
  <2>2. ASSUME NEW w \in Watcher PROVE heard[w] \in Heard
    BY DEF TypeOK
  <2>. QED BY <1>2, <2>1, <2>2 DEF notify_watchers, TellWatchers
<1>. QED BY <1>1, <1>2 DEF Announced

(* A step that is Handled keeps the invariant.                             *)
LEMMA HandledKeepsInv ==
  ASSUME Inv, NEW clients \in SUBSET Peer, Handled(clients)
  PROVE  Inv'
<1>. USE DEF Inv, Handled
<1>1. /\ watchers' \subseteq watchers
      /\ heard' \in [Watcher -> Heard]
      /\ lock_session_update
  BY AnnouncedTypes DEF PartiesOK
<1>2. /\ told' \in Told
      /\ sessionWatchers' \subseteq sessionWatchers
      /\ belief' \in [SessionWatcher -> Told]
  BY <1>1, UpdateTypes DEF PartiesOK
<1>3. TypeOK'
  BY <1>1, <1>2 DEF TypeOK, PartiesOK, Closed
<1>4. ASSUME NEW w \in (watchers' \cup sessionWatchers') \ gone' PROVE w \notin gone
  BY <1>1, <1>2, StillThere
<1>5. SessionBeliefs'
  <2>1. told' = Actual'
    BY <1>1 DEF lock_session_update, Now, Actual
  <2>2. ASSUME NEW w \in sessionWatchers' \ gone' PROVE belief'[w] = told'
    <3>1. w \in sessionWatchers \ gone /\ w \in SessionWatcher
      BY <1>2, <1>4 DEF TypeOK
    <3>2. belief[w] = told
      BY <3>1 DEF SessionBeliefs
    <3>3. Hears(told) = Now
      BY HearsNow DEF TypeOK, PartiesOK
    <3>. QED BY <1>1, <3>1, <3>2, <3>3 DEF lock_session_update
  <2>. QED BY <2>1, <2>2 DEF SessionBeliefs
<1>6. WatchersCurrent'
  <2>1. SUFFICES ASSUME NEW w \in watchers' \ gone' PROVE Fits(heard[w])'
    BY DEF WatchersCurrent
  <2>2. w \in watchers \ gone /\ w \in Watcher
    BY <1>1, <1>4 DEF TypeOK
  <2>3. CASE QuietUpdate /\ UNCHANGED modeVars
    <3>1. Fits(heard[w])
      BY <2>2 DEF WatchersCurrent
    <3>. QED BY <2>3, <3>1 DEF QuietUpdate, modeVars, Fits, Mode
  <2>4. ASSUME NEW event \in Heard, notify_watchers(event), Fits(event)'
        PROVE  Fits(heard[w])'
    <3>1. heard'[w] = event
      BY <2>2, <2>4 DEF notify_watchers, TellWatchers
    <3>. QED BY <2>4, <3>1
  <2>. QED BY <2>3, <2>4 DEF Announced
<1>. QED BY <1>3, <1>5, <1>6 DEF PartiesOK

----------------------------------------------------------------------------
(* The entry points of lock.c.                                             *)

FlagsOK == locked \in BOOLEAN /\ secure \in BOOLEAN /\ sas \in BOOLEAN /\ FlagsExclusive

(* Whatever was engaged, the session ends up really locked.                *)
LEMMA EngageFlagsLock ==
  ASSUME FlagsOK, EngageFlags
  PROVE  FlagsOK' /\ SessionLocked'
<1>. USE DEF FlagsOK, FlagsExclusive, SessionLocked
<1>1. CASE locked /\ sas /\ sas' = FALSE /\ UNCHANGED <<locked, secure>>
  BY <1>1
<1>2. CASE locked /\ ~sas /\ secure /\ secure' = FALSE /\ UNCHANGED <<locked, sas>>
  BY <1>2
<1>3. CASE SessionLocked /\ UNCHANGED modeVars
  BY <1>3 DEF modeVars
<1>4. CASE ~locked /\ locked' = TRUE /\ UNCHANGED <<secure, sas>>
  BY <1>4
<1>. QED BY <1>1, <1>2, <1>3, <1>4 DEF EngageFlags

\* lock_engage leaves a real lock, and everyone told of it.
LEMMA EngageLocks ==
  ASSUME FlagsOK, lock_engage
  PROVE  FlagsOK' /\ SessionLocked' /\ Announced
<1>1. FlagsOK' /\ SessionLocked'
  BY EngageFlagsLock DEF lock_engage
<1>2. CASE SessionLocked
  <2>1. QuietUpdate
    BY <1>2 DEF lock_engage
  <2>2. UNCHANGED modeVars
    BY <1>2 DEF lock_engage, EngageFlags, SessionLocked, modeVars
  <2>. QED BY <1>1, <2>1, <2>2 DEF Announced
<1>3. CASE ~SessionLocked
  <2>1. notify_watchers("locked") /\ "locked" \in Heard
    BY <1>3 DEF lock_engage, Heard
  <2>2. Fits("locked")'
    BY <1>1 DEF Fits, SessionLocked, Mode
  <2>. QED BY <1>1, <2>1, <2>2 DEF Announced
<1>. QED BY <1>1, <1>2, <1>3

\* unisolate opens the console, which both its announcements fit.
LEMMA OpenFlagsOpen ==
  ASSUME OpenFlags
  PROVE  FlagsOK' /\ Fits("unlocked")' /\ Fits("released")' /\ {"unlocked", "released"} \subseteq Heard
BY DEF FlagsOK, FlagsExclusive, OpenFlags, Fits, Heard

\* lock_release leaves the console open, and everyone told of it.
LEMMA ReleaseOpens ==
  ASSUME FlagsOK, lock_release
  PROVE  FlagsOK' /\ ~locked' /\ Announced
<1>1. CASE locked
  BY <1>1, OpenFlagsOpen DEF lock_release, Announced, OpenFlags
<1>2. CASE ~locked
  BY <1>2 DEF lock_release, Announced, FlagsOK, FlagsExclusive, modeVars
<1>. QED BY <1>1, <1>2

\* lock_secure_engage puts the console under a prompt, as announced.
LEMMA SecureFlagsPrompt ==
  ASSUME FlagsOK, SecureFlags
  PROVE  FlagsOK' /\ Fits("secure")' /\ "secure" \in Heard
BY DEF FlagsOK, FlagsExclusive, SecureFlags, Fits, Heard, Mode

\* lock_sas_engage puts up the security screen, as announced.
LEMMA SasFlagsScreen ==
  ASSUME FlagsOK, SasFlags
  PROVE  FlagsOK' /\ Fits("sas")' /\ "sas" \in Heard
BY DEF FlagsOK, FlagsExclusive, SasFlags, Fits, Heard, Mode

\* Whatever lock_sas_engage does, everyone is told of it.
LEMMA SasAnnounced ==
  ASSUME FlagsOK, lock_sas_engage
  PROVE  FlagsOK' /\ Announced
<1>1. CASE locked /\ UNCHANGED modeVars /\ QuietUpdate
  BY <1>1 DEF Announced, FlagsOK, FlagsExclusive, modeVars
<1>2. CASE lock_engage
  BY <1>2, EngageLocks
<1>3. CASE SasFlags /\ notify_watchers("sas")
  BY <1>3, SasFlagsScreen DEF Announced
<1>. QED BY <1>1, <1>2, <1>3 DEF lock_sas_engage

----------------------------------------------------------------------------
(* The handlers.                                                           *)

(* A handler that leaves the parties as they are.                          *)
LEMMA SamePartiesHandled ==
  ASSUME Inv, SameParties, FlagsOK', Announced, Closed({})
  PROVE  Inv'
<1>1. PartiesOK'
  BY DEF Inv, TypeOK, LockModeTypeOK, SameParties, PartiesOK, FlagsOK, OneParty
<1>2. Handled({})
  BY <1>1 DEF Handled, FlagsOK
<1>. QED BY <1>2, HandledKeepsInv

\* The invariant speaks of the flags.
LEMMA InvFlags == Inv => FlagsOK
BY DEF Inv, TypeOK, LockModeTypeOK, FlagsOK

\* The commands that change the mode only.
LEMMA CommandsKeepInv ==
  ASSUME Inv, CmdLock \/ CmdUnlock \/ CmdSecure \/ CmdRelease \/ CmdSas
  PROVE  Inv'
<1>. USE InvFlags
<1>1. CASE CmdLock
  BY <1>1, EngageLocks, SamePartiesHandled DEF CmdLock
<1>2. CASE CmdUnlock
  BY <1>2, ReleaseOpens, SamePartiesHandled DEF CmdUnlock
<1>3. CASE CmdSecure
  BY <1>3, SecureFlagsPrompt, SamePartiesHandled DEF CmdSecure, Announced
<1>4. CASE CmdRelease
  BY <1>4, OpenFlagsOpen, SamePartiesHandled DEF CmdRelease, Announced
<1>5. CASE CmdSas
  BY <1>5, OpenFlagsOpen, SamePartiesHandled DEF CmdSas, Announced
<1>. QED BY <1>1, <1>2, <1>3, <1>4, <1>5

(* REMOTE: with no viewer there, the connection adopted is one of the      *)
(* clients, and the session is away afterwards.                            *)
LEMMA RemoteKeepsInv ==
  ASSUME Inv, NEW c \in Client \cup {None}, CmdRemote(c)
  PROVE  Inv'
<1>1. FlagsOK' /\ Announced
  <2>1. CASE remote
    BY <2>1, InvFlags DEF CmdRemote, Announced, FlagsOK, FlagsExclusive, modeVars
  <2>2. CASE ~remote
    BY <2>2, InvFlags, ReleaseOpens DEF CmdRemote
  <2>. QED BY <2>1, <2>2
<1>2. /\ privileged' \subseteq Client
      /\ remoteClient' \in Client \cup {None}
      /\ remoteClient' # None => remoteClient' \in privileged'
  BY DEF CmdRemote, Inv, TypeOK, LockModeTypeOK, OneParty
<1>3. PartiesOK'
  BY <1>1, <1>2 DEF CmdRemote, Inv, TypeOK, FlagsOK, LockModeTypeOK, OneParty, PartiesOK
<1>4. Handled({})
  BY <1>1, <1>3 DEF CmdRemote, Handled, FlagsOK
<1>. QED BY <1>4, HandledKeepsInv

\* SHADOW: the viewer is a privileged client, with no one else there.
LEMMA ShadowKeepsInv ==
  ASSUME Inv, NEW c \in Client, NEW control \in BOOLEAN, CmdShadow(c, control)
  PROVE  Inv'
<1>1. FlagsOK' /\ Announced
  BY InvFlags DEF CmdShadow, Announced, FlagsOK, FlagsExclusive, modeVars
<1>2. PartiesOK'
  BY <1>1, NoneIsNoClient DEF CmdShadow, Inv, TypeOK, FlagsOK, LockModeTypeOK, OneParty, PartiesOK
<1>3. Handled({})
  BY <1>1, <1>2 DEF CmdShadow, Handled, FlagsOK
<1>. QED BY <1>3, HandledKeepsInv

(* What is left of the parties once some of the clients are destroyed.     *)
LEMMA Destroying ==
  ASSUME Inv, NEW clients, DestroyClients(clients)
  PROVE  /\ privileged' = privileged \ clients /\ privileged' \subseteq Client
         /\ shadowClient' \in Client \cup {None}
         /\ shadowControl' \in BOOLEAN
         /\ shadowControl' => shadowClient' # None
         /\ shadowClient' # None => shadowClient' = shadowClient /\ shadowClient' \in privileged'
BY DEF DestroyClients, Inv, TypeOK, LockModeTypeOK, OneParty

(* The session given back: no one has it any more.                         *)
LEMMA GiveBackKeepsInv ==
  ASSUME Inv, NEW clients \in SUBSET Peer,
         remote' = FALSE, remoteClient' = None,
         DestroyClients(clients \cap Client), FlagsOK', Announced, Closed(clients)
  PROVE  Inv'
<1>1. PartiesOK'
  BY Destroying DEF PartiesOK, FlagsOK, LockModeTypeOK, OneParty
<1>2. Handled(clients)
  BY <1>1 DEF Handled, FlagsOK
<1>. QED BY <1>2, HandledKeepsInv

\* LOCAL, and all that gives the session back as it does.
LEMMA DetachKeepsInv ==
  ASSUME Inv, remote_detach
  PROVE  Inv'
<1>1. FlagsOK' /\ Announced
  BY InvFlags, EngageLocks DEF remote_detach
<1>2. {remoteClient} \in SUBSET Peer
  BY DEF Inv, TypeOK, Peer
<1>. QED BY <1>1, <1>2, GiveBackKeepsInv DEF remote_detach

\* Win+L locks, from whichever keyboard.
LEMMA WinLKeepsInv ==
  ASSUME Inv, NEW src, KeyWinL(src)
  PROVE  Inv'
BY InvFlags, EngageLocks, SamePartiesHandled DEF KeyWinL

(* Ctrl+Alt+Del takes the session back, or ends the view of it and brings  *)
(* up the security screen.                                                 *)
LEMMA SasKeyKeepsInv ==
  ASSUME Inv, NEW src, KeySas(src)
  PROVE  Inv'
<1>. DEFINE viewer == IF src = shadowClient THEN {} ELSE {shadowClient} \cap Client
<1>1. viewer \in SUBSET Peer /\ viewer \cap Client = viewer
  BY DEF Peer
<1>2. CASE remote /\ src = "console"
  <2>1. /\ remote' = FALSE /\ remoteClient' = None
        /\ DestroyClients(viewer \cup ({remoteClient} \cap Client))
        /\ lock_engage
        /\ Closed(viewer \cup {remoteClient})
    BY <1>2 DEF KeySas
  <2>2. FlagsOK' /\ Announced
    BY <2>1, InvFlags, EngageLocks
  <2>3. /\ viewer \cup {remoteClient} \in SUBSET Peer
        /\ (viewer \cup {remoteClient}) \cap Client = viewer \cup ({remoteClient} \cap Client)
    BY <1>1 DEF Inv, TypeOK, Peer
  <2>. QED BY <2>1, <2>2, <2>3, GiveBackKeepsInv
<1>3. CASE ~(remote /\ src = "console")
  <2>1. /\ DestroyClients(viewer)
        /\ UNCHANGED <<remote, remoteClient>>
        /\ lock_sas_engage
        /\ Closed(viewer)
    BY <1>3 DEF KeySas
  <2>2. FlagsOK' /\ Announced
    BY <2>1, InvFlags, SasAnnounced
  <2>3. remoteClient # None => viewer = {} \/ remoteClient \notin viewer
    BY DEF Inv, OneParty
  <2>4. PartiesOK'
    BY <2>1, <2>2, <2>3, Destroying
       DEF PartiesOK, FlagsOK, LockModeTypeOK, OneParty, Inv, TypeOK
  <2>5. Handled(viewer)
    BY <2>1, <2>2, <2>4 DEF Handled, FlagsOK
  <2>. QED BY <1>1, <2>5, HandledKeepsInv
<1>. QED BY <1>2, <1>3

\* A privileged client's connection is found closed.
LEMMA ReapClientKeepsInv ==
  ASSUME Inv, NEW c \in Client, ReapClient(c)
  PROVE  Inv'
<1>1. {c} \in SUBSET Peer /\ {c} \cap Client = {c}
  BY DEF Peer
<1>2. CASE c = remoteClient
  <2>1. remote
    BY <1>2, NoneIsNoClient DEF Inv, OneParty
  <2>2. FlagsOK' /\ Announced
    BY <1>2, <2>1, InvFlags, EngageLocks DEF ReapClient
  <2>. QED BY <1>1, <1>2, <2>2, GiveBackKeepsInv DEF ReapClient
<1>3. CASE c # remoteClient
  <2>1. FlagsOK' /\ Announced
    BY <1>3, InvFlags DEF ReapClient, Announced, FlagsOK, FlagsExclusive, modeVars
  <2>2. PartiesOK'
    BY <1>3, <2>1, Destroying
       DEF ReapClient, PartiesOK, FlagsOK, LockModeTypeOK, OneParty, Inv, TypeOK
  <2>3. Handled({c})
    BY <2>1, <2>2 DEF ReapClient, Handled, FlagsOK
  <2>. QED BY <1>1, <2>3, HandledKeepsInv
<1>. QED BY <1>2, <1>3

(* Connections made, lost, and noticed lost, of those that watch.          *)
LEMMA ConnectKeepsInv ==
  ASSUME Inv, NEW c \in Client, ConnectPrivileged(c) \/ CmdRemoteUnderPrompt(c)
  PROVE  Inv'
<1>1. CASE ConnectPrivileged(c)
  BY <1>1 DEF ConnectPrivileged, Inv, TypeOK, LockModeTypeOK, FlagsExclusive, OneParty,
     SessionBeliefs, Actual, SessionLocked, WatchersCurrent, Fits, Mode, modeVars, sessionVars
<1>2. CASE CmdRemoteUnderPrompt(c)
  BY <1>2 DEF CmdRemoteUnderPrompt, Inv, TypeOK, LockModeTypeOK, FlagsExclusive, OneParty,
     SessionBeliefs, Actual, SessionLocked, WatchersCurrent, Fits, Mode, modeVars
<1>. QED BY <1>1, <1>2

\* A lock service begins to watch, and hears how things stand.
LEMMA WatchKeepsInv ==
  ASSUME Inv, NEW w \in Watcher, CmdWatch(w)
  PROVE  Inv'
<1>. DEFINE answer == IF locked THEN "OK locked" ELSE "OK unlocked"
<1>1. heard' \in [Watcher -> Heard]
  BY DEF CmdWatch, Inv, TypeOK, Heard, Replies
<1>2. TypeOK' /\ FlagsExclusive' /\ OneParty' /\ SessionBeliefs'
  BY <1>1 DEF CmdWatch, Inv, TypeOK, LockModeTypeOK, FlagsExclusive, OneParty,
     SessionBeliefs, Actual, SessionLocked, modeVars
<1>3. WatchersCurrent'
  <2>1. SUFFICES ASSUME NEW x \in watchers' \ gone' PROVE Fits(heard[x])'
    BY DEF WatchersCurrent
  <2>2. CASE x = w
    <3>1. heard'[x] = answer
      BY <2>2 DEF CmdWatch, Inv, TypeOK
    <3>. QED BY <3>1 DEF CmdWatch, Fits, modeVars
  <2>3. CASE x # w
    <3>1. x \in watchers \ gone /\ heard'[x] = heard[x]
      BY <2>3 DEF CmdWatch, Inv, TypeOK
    <3>. QED BY <3>1 DEF CmdWatch, Inv, WatchersCurrent, Fits, Mode, modeVars
  <2>. QED BY <2>2, <2>3
<1>. QED BY <1>2, <1>3 DEF Inv

\* A program begins to follow the session, and knows what was told.
LEMMA FollowKeepsInv ==
  ASSUME Inv, NEW w \in SessionWatcher, CmdSession(w)
  PROVE  Inv'
<1>1. TypeOK' /\ FlagsExclusive' /\ OneParty' /\ WatchersCurrent'
  BY DEF CmdSession, Inv, TypeOK, LockModeTypeOK, FlagsExclusive, OneParty,
     WatchersCurrent, Fits, Mode, modeVars
<1>2. SessionBeliefs'
  BY DEF CmdSession, Inv, TypeOK, SessionBeliefs, Actual, SessionLocked, modeVars
<1>. QED BY <1>1, <1>2 DEF Inv

\* A peer that hangs up is no longer one that must be told.
LEMMA HangUpKeepsInv ==
  ASSUME Inv, NEW p \in Client \cup Watcher \cup SessionWatcher, HangUp(p)
  PROVE  Inv'
BY DEF HangUp, Inv, TypeOK, LockModeTypeOK, FlagsExclusive, OneParty, SessionBeliefs, Actual,
   SessionLocked, WatchersCurrent, Fits, Mode, modeVars

\* A watcher's connection is found closed.
LEMMA ReapWatcherKeepsInv ==
  ASSUME Inv, NEW w \in Watcher \cup SessionWatcher, ReapWatcher(w)
  PROVE  Inv'
<1>1. heard' \in [Watcher -> Heard] /\ belief' \in [SessionWatcher -> Told]
  BY DEF ReapWatcher, Inv, TypeOK, Heard, Nothing, Told
<1>2. TypeOK' /\ FlagsExclusive' /\ OneParty'
  BY <1>1 DEF ReapWatcher, Inv, TypeOK, LockModeTypeOK, FlagsExclusive, OneParty, modeVars
<1>3. ASSUME NEW x \in (watchers' \cup sessionWatchers') \ gone'
      PROVE  x # w /\ x \notin gone
  BY PeersDisjoint DEF ReapWatcher, Inv, TypeOK
<1>4. SessionBeliefs'
  BY <1>3 DEF ReapWatcher, Inv, TypeOK, SessionBeliefs, Actual, SessionLocked, modeVars
<1>5. WatchersCurrent'
  <2>1. SUFFICES ASSUME NEW x \in watchers' \ gone' PROVE Fits(heard[x])'
    BY DEF WatchersCurrent
  <2>2. x \in watchers \ gone /\ heard'[x] = heard[x]
    BY <1>3 DEF ReapWatcher, Inv, TypeOK
  <2>. QED BY <2>2 DEF ReapWatcher, Inv, WatchersCurrent, Fits, Mode, modeVars
<1>. QED BY <1>2, <1>4, <1>5 DEF Inv

----------------------------------------------------------------------------
(* The invariant.                                                          *)

\* No one is connected and nothing is engaged at first.
LEMMA InitInv == Init => Inv
<1>. SUFFICES ASSUME Init PROVE Inv
  OBVIOUS
<1>1. TypeOK
  BY DEF Init, LockModeInit, Nothing, Heard, Told, TypeOK, LockModeTypeOK
<1>2. FlagsExclusive /\ OneParty /\ WatchersCurrent
  BY DEF Init, LockModeInit, FlagsExclusive, OneParty, WatchersCurrent
<1>3. Actual = Nothing
  <2>1. SessionLocked = FALSE /\ (shadowClient # None) = FALSE
    BY DEF Init, LockModeInit, SessionLocked
  <2>. QED BY <2>1 DEF Init, LockModeInit, Actual, Nothing
<1>4. SessionBeliefs
  BY <1>3 DEF Init, SessionBeliefs
<1>. QED BY <1>1, <1>2, <1>4 DEF Inv

\* The invariant is about the variables of Session only.
LEMMA StutterKeepsInv == Inv /\ UNCHANGED vars => Inv'
<1>. SUFFICES ASSUME Inv, UNCHANGED vars PROVE Inv'
  OBVIOUS
<1>1. TypeOK' /\ FlagsExclusive' /\ OneParty' /\ SessionBeliefs'
  BY DEF vars, sessionVars, modeVars, Inv, TypeOK, LockModeTypeOK, FlagsExclusive, OneParty,
     SessionBeliefs, Actual, SessionLocked
<1>2. WatchersCurrent'
  BY DEF vars, sessionVars, modeVars, Inv, WatchersCurrent, Fits, Mode
<1>. QED BY <1>1, <1>2 DEF Inv

\* Every handler keeps the invariant.
LEMMA NextKeepsInv == Inv /\ [Next]_vars => Inv'
<1>. SUFFICES ASSUME Inv, [Next]_vars PROVE Inv'
  OBVIOUS
<1>1. CASE Commands
  BY <1>1, CommandsKeepInv, WatchKeepsInv, FollowKeepsInv, ConnectKeepsInv, RemoteKeepsInv,
     DetachKeepsInv, ShadowKeepsInv DEF Commands, CmdLocal
<1>2. CASE Keys
  BY <1>2, WinLKeepsInv, SasKeyKeepsInv DEF Keys
<1>3. CASE Connections
  BY <1>3, ConnectKeepsInv, HangUpKeepsInv, ReapWatcherKeepsInv, ReapClientKeepsInv DEF Connections
<1>4. CASE UNCHANGED vars
  BY <1>4, StutterKeepsInv
<1>. QED BY <1>1, <1>2, <1>3, <1>4 DEF Next

\* The conjunction of Session's invariants is inductive: it needs nothing
\* added to it to be kept by every step.
THEOREM Invariance == Spec => []Inv
<1>. QED BY InitInv, NextKeepsInv, PTL DEF Spec

\* The three flags of cg_lock and all else keep their types, are a mode, and
\* whoever is on record as having the session has it.
THEOREM RecordStaysSound == Spec => []SessionSound
<1>1. Inv => SessionSound
  BY DEF Inv, SessionSound
<1>. QED BY <1>1, Invariance, PTL

\* cg_lock.secure and cg_lock.sas are never set together, nor without locked.
THEOREM FlagsAreModes == Spec => []FlagsExclusive
<1>1. Inv => FlagsExclusive
  BY DEF Inv
<1>. QED BY <1>1, Invariance, PTL

\* A remote connection and a viewer never have the session together, and
\* whichever has it is on the list of privileged clients.
THEOREM OnePartyAtMost == Spec => []OneParty
<1>1. Inv => OneParty
  BY DEF Inv
<1>. QED BY <1>1, Invariance, PTL

\* The programs of the session are told of every change that is theirs to know.
THEOREM ProgramsKnow == Spec => []SessionBeliefs
<1>1. Inv => SessionBeliefs
  BY DEF Inv
<1>. QED BY <1>1, Invariance, PTL

\* The last thing a lock service was sent fits the mode of the console.
THEOREM LockServiceKnows == Spec => []WatchersCurrent
<1>1. Inv => WatchersCurrent
  BY DEF Inv
<1>. QED BY <1>1, Invariance, PTL

----------------------------------------------------------------------------
(* What a step may do to the lock and to the session being away.           *)

\* The step is given by what each handler does to the flags: the same six
\* ways Modes knows, whoever asked.
Locks == EngageFlags /\ UNCHANGED remote
Opens == OpenFlags /\ UNCHANGED remote
GivesBack == remote /\ remote' = FALSE /\ EngageFlags
Takes == ~remote /\ ~secure /\ remote' = TRUE /\ (OpenFlags \/ (~locked /\ UNCHANGED modeVars))
Prompts == SecureFlags /\ UNCHANGED remote
Screens == SasFlags /\ UNCHANGED remote
Leaves == UNCHANGED <<modeVars, remote>>

\* What lock_engage does to the flags.
LEMMA EngageIsLock == ASSUME lock_engage PROVE EngageFlags
BY DEF lock_engage

\* What lock_sas_engage does to the flags.
LEMMA SasIs ==
  ASSUME lock_sas_engage
  PROVE  EngageFlags \/ SasFlags \/ UNCHANGED modeVars
BY EngageIsLock DEF lock_sas_engage

\* What lock_release does to the flags.
LEMMA ReleaseIs ==
  ASSUME lock_release
  PROVE  (locked /\ OpenFlags) \/ (~locked /\ UNCHANGED modeVars)
BY DEF lock_release

\* Every way a step of Session may change the modes, and which of them end
\* the user's own lock.
LEMMA StepsOfModes ==
  ASSUME Inv, [Next]_vars
  PROVE  \/ Locks \/ Prompts \/ Screens \/ GivesBack \/ Leaves
         \/ Opens /\ (SessionLocked => CmdUnlock)
         \/ Takes /\ \E c \in Client \cup {None} : CmdRemote(c)
<1>. DEFINE Goal == \/ Locks \/ Prompts \/ Screens \/ GivesBack \/ Leaves
                    \/ Opens /\ (SessionLocked => CmdUnlock)
                    \/ Takes /\ \E c \in Client \cup {None} : CmdRemote(c)
<1>1. ASSUME CmdLock PROVE Goal
  BY <1>1, EngageIsLock DEF CmdLock, SameParties, Locks
<1>2. ASSUME CmdUnlock PROVE Goal
  BY <1>2, ReleaseIs DEF CmdUnlock, SameParties, Opens, Leaves
<1>3. ASSUME CmdSecure PROVE Goal
  BY <1>3 DEF CmdSecure, SameParties, Prompts
<1>4. ASSUME CmdRelease \/ CmdSas PROVE Goal
  BY <1>4 DEF CmdRelease, CmdSas, SameParties, Opens, SessionLocked
<1>5. ASSUME NEW c \in Client \cup {None}, CmdRemote(c) PROVE Goal
  <2>1. CASE remote
    BY <1>5, <2>1 DEF CmdRemote, Leaves
  <2>2. CASE ~remote
    BY <1>5, <2>2, ReleaseIs DEF CmdRemote, Takes
  <2>. QED BY <2>1, <2>2
<1>6. ASSUME CmdLocal PROVE Goal
  BY <1>6, EngageIsLock DEF CmdLocal, remote_detach, GivesBack
<1>7. ASSUME NEW src, KeyWinL(src) \/ KeySas(src) PROVE Goal
  <2>1. CASE KeyWinL(src)
    BY <2>1, EngageIsLock DEF KeyWinL, SameParties, Locks
  <2>2. CASE KeySas(src) /\ remote /\ src = "console"
    BY <2>2, EngageIsLock DEF KeySas, GivesBack
  <2>3. CASE KeySas(src) /\ ~(remote /\ src = "console")
    BY <2>3, SasIs DEF KeySas, Locks, Screens, Leaves
  <2>. QED BY <1>7, <2>1, <2>2, <2>3
<1>8. ASSUME NEW c \in Client, ReapClient(c) PROVE Goal
  <2>1. c = remoteClient => remote
    BY NoneIsNoClient DEF Inv, OneParty
  <2>. QED BY <1>8, <2>1, EngageIsLock DEF ReapClient, GivesBack, Leaves
<1>9. ASSUME NEW c \in Client,
             \/ CmdRemoteUnderPrompt(c) \/ ConnectPrivileged(c)
             \/ \E control \in BOOLEAN : CmdShadow(c, control)
      PROVE  Goal
  BY <1>9 DEF CmdRemoteUnderPrompt, ConnectPrivileged, CmdShadow, Leaves
<1>10. ASSUME NEW w, CmdWatch(w) \/ CmdSession(w) \/ ReapWatcher(w) \/ HangUp(w) PROVE Goal
  BY <1>10 DEF CmdWatch, CmdSession, ReapWatcher, HangUp, Leaves
<1>11. ASSUME UNCHANGED vars PROVE Goal
  BY <1>11 DEF vars, Leaves
<1>. QED BY <1>1, <1>2, <1>3, <1>4, <1>5, <1>6, <1>7, <1>8, <1>9, <1>10, <1>11
         DEF Next, Commands, Keys, Connections

\* However Remote Desktop gives the session back, it comes back locked.
THEOREM ComesBackLocked == Spec => GivenBackLocked
<1>1. ASSUME Inv, [Next]_vars, remote, ~remote' PROVE SessionLocked'
  <2>1. GivesBack
    BY <1>1, StepsOfModes DEF Locks, Opens, Takes, Prompts, Screens, Leaves
  <2>. QED BY <1>1, <2>1, InvFlags, EngageFlagsLock DEF GivesBack
<1>2. Inv /\ [Next]_vars => [remote /\ ~remote' => SessionLocked']_vars
  BY <1>1
<1>. QED BY <1>2, Invariance, PTL DEF Spec, GivenBackLocked

\* The user's own lock is ended by UNLOCK and by REMOTE, and by nothing else.
THEOREM OnlyUnlockEndsALock == Spec => LockEndsByUnlock
<1>. DEFINE ByPassword == CmdUnlock \/ \E c \in Client \cup {None} : CmdRemote(c)
<1>1. ASSUME Inv, [Next]_vars, SessionLocked, ~SessionLocked' PROVE ByPassword
  <2>1. ~(Locks \/ GivesBack)
    BY <1>1, InvFlags, EngageFlagsLock DEF Locks, GivesBack
  <2>2. ~(Prompts \/ Screens)
    BY <1>1 DEF Prompts, Screens, SecureFlags, SasFlags, SessionLocked
  <2>3. ~Leaves
    <3>1. Leaves => locked' = locked /\ secure' = secure /\ sas' = sas
      BY DEF Leaves, modeVars
    <3>. QED BY <1>1, <3>1 DEF SessionLocked
  <2>. QED BY <1>1, <2>1, <2>2, <2>3, StepsOfModes
<1>2. Inv /\ [Next]_vars => [SessionLocked /\ ~SessionLocked' => ByPassword]_vars
  BY <1>1
<1>. QED BY <1>2, Invariance, PTL DEF Spec, LockEndsByUnlock

----------------------------------------------------------------------------
(* Session implements Modes.                                               *)

\* The mode of Modes, by the flags.
LEMMA ModeOf ==
  ASSUME FlagsOK
  PROVE  /\ Mode = "open" <=> ~locked
         /\ Mode = "locked" <=> SessionLocked
         /\ Mode = "secure" <=> secure
         /\ Mode = "sas" <=> sas
BY DEF FlagsOK, FlagsExclusive, Mode, SessionLocked

\* ... and after the step.
LEMMA ModeOfNext ==
  ASSUME FlagsOK'
  PROVE  /\ Mode' = "open" <=> ~locked'
         /\ Mode' = "locked" <=> SessionLocked'
         /\ Mode' = "secure" <=> secure'
         /\ Mode' = "sas" <=> sas'
BY DEF FlagsOK, FlagsExclusive, Mode, SessionLocked

\* What a step of Session does to the flags is a step of Modes.
LEMMA StepImplementsModes ==
  ASSUME Inv, [Next]_vars
  PROVE  [M!Next]_(M!modesVars)
<1>1. FlagsOK /\ FlagsOK'
  BY InvFlags, NextKeepsInv DEF FlagsOK, Inv, TypeOK, LockModeTypeOK
<1>. USE DEF M!Next, M!modesVars
<1>2. CASE Locks
  BY <1>1, <1>2, EngageFlagsLock, ModeOfNext DEF Locks, M!Lock
<1>3. CASE Prompts
  BY <1>1, <1>3, ModeOf, ModeOfNext DEF Prompts, SecureFlags, M!Prompt
<1>4. CASE Screens
  BY <1>1, <1>4, ModeOf, ModeOfNext DEF Screens, SasFlags, M!SecurityScreen
<1>5. CASE GivesBack
  BY <1>1, <1>5, EngageFlagsLock, ModeOfNext DEF GivesBack, M!GiveBack
<1>6. CASE Leaves
  BY <1>6 DEF Leaves, modeVars, Mode
<1>7. CASE Opens
  BY <1>1, <1>7, ModeOfNext DEF Opens, OpenFlags, M!Open
<1>8. CASE Takes
  <2>1. (locked' = FALSE) \/ (~locked /\ locked' = locked)
    BY <1>8 DEF Takes, OpenFlags, modeVars
  <2>2. Mode' = "open"
    BY <1>1, <2>1, ModeOfNext
  <2>3. Mode # "secure"
    BY <1>1, <1>8, ModeOf DEF Takes
  <2>4. M!Take
    BY <1>8, <2>2, <2>3 DEF Takes, M!Take
  <2>. QED BY <2>4
<1>. QED BY <1>2, <1>3, <1>4, <1>5, <1>6, <1>7, <1>8, StepsOfModes

\* lock.c's six entry points, as the control socket, the keys and the
\* connections use them, implement the abstract lock: every handler is one
\* step of Modes or changes nothing that Modes speaks of.
THEOREM SessionImplementsModes == Spec => ImplementsModes
<1>1. Init => M!Init
  BY DEF Init, LockModeInit, Mode, M!Init
<1>2. Inv /\ [Next]_vars => [M!Next]_(M!modesVars)
  BY StepImplementsModes
<1>. QED BY <1>1, <1>2, Invariance, PTL DEF Spec, ImplementsModes, M!Spec

=============================================================================
