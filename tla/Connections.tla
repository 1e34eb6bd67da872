----------------------------- MODULE Connections -----------------------------
(***************************************************************************)
(* The connections of the control socket (lock.c) and what holds idle off   *)
(* (idle_inhibit_v1.c): who is served when, which connections stay open,    *)
(* and what becomes of the descriptors that come with a request.  The       *)
(* compositor has one thread: while it waits, a second at most, for a       *)
(* request, it does nothing else.  What the commands do to the console's    *)
(* mode is Session's; here a lock is on or off and a session away or not.   *)
(* WATCH is SESSION with another list and is left out.  A request's         *)
(* descriptors go one way together; more than three are closed as they      *)
(* come.                                                                    *)
(***************************************************************************)
EXTENDS Naturals, FiniteSets

CONSTANTS
  Conn,   \* connections
  None,   \* no connection
  Room    \* bound: the messages a watcher's socket holds unread

ASSUME Bounds == None \notin Conn /\ IsFiniteSet(Conn) /\ Room \in Nat \ {0}

VARIABLES
  conn,     \* [phase, hungUp, unread, heard, fds] of each connection
  serving,  \* the connection handle_control_connection waits for
  server    \* [locked, remote, remoteClient, shadowClient, holds, inhibitors, inhibited]

vars == <<conn, serving, server>>

Disposal == {"none", "here", "closed", "adopted", "lost", "twice"}
TypeOK ==
  /\ conn \in [Conn -> [phase : {"none", "waiting", "session", "inhibit", "closed"}, hungUp : BOOLEAN,
                        unread : 0..Room, heard : BOOLEAN, fds : Disposal]]
  /\ serving \in Conn \cup {None}
  /\ server \in [locked : BOOLEAN, remote : BOOLEAN, remoteClient : Conn \cup {None}, shadowClient : Conn \cup {None},
                 holds : 0..Cardinality(Conn), inhibitors : BOOLEAN, inhibited : BOOLEAN]

Unused == [phase |-> "none", hungUp |-> FALSE, unread |-> 0, heard |-> FALSE, fds |-> "none"]
Init ==
  /\ conn = [c \in Conn |-> Unused] /\ serving = None
  /\ server = [locked |-> FALSE, remote |-> FALSE, remoteClient |-> None, shadowClient |-> None,
               holds |-> 0, inhibitors |-> FALSE, inhibited |-> FALSE]

-----------------------------------------------------------------------------
(* The peers.                                                               *)

\* A connection closed at both ends may be another one, once no client lives on what it brought.
Connect(c) ==
  /\ conn[c].phase = "none" \/ (conn[c].phase = "closed" /\ conn[c].hungUp /\ conn[c].fds # "adopted")
  /\ conn' = [conn EXCEPT ![c] = [Unused EXCEPT !.phase = "waiting"]] /\ UNCHANGED <<serving, server>>

HangUp(c) ==
  /\ conn[c].phase # "none" /\ ~conn[c].hungUp
  /\ conn' = [conn EXCEPT ![c].hungUp = TRUE, ![c].unread = 0] /\ UNCHANGED <<serving, server>>

ReadAll(c) ==
  /\ conn[c].unread > 0 /\ conn' = [conn EXCEPT ![c].unread = 0] /\ UNCHANGED <<serving, server>>

-----------------------------------------------------------------------------
(* Telling the watchers, and the holds on idle.                             *)

Full(k) == k.hungUp \/ k.unread = Room
Told(k, locked) == [k EXCEPT !.unread = @ + 1, !.heard = locked]

\* Mutant: one whose socket is full misses the event and is kept.
send_watchers_Skip(conns, locked) ==
  [c \in Conn |-> IF conns[c].phase # "session" \/ conns[c].unread = Room THEN conns[c]
                  ELSE IF conns[c].hungUp THEN [conns[c] EXCEPT !.phase = "closed"] ELSE Told(conns[c], locked)]
send_watchers(conns, locked) ==
  [c \in Conn |-> IF conns[c].phase # "session" THEN conns[c]
                  ELSE IF Full(conns[c]) THEN [conns[c] EXCEPT !.phase = "closed"] ELSE Told(conns[c], locked)]

\* The console locked or opened: whoever watches is told of a change.
Tells(s, locked, conns) == IF locked = s.locked THEN conns ELSE send_watchers(conns, locked)

idle_inhibit_v1_check_active(s) == [s EXCEPT !.inhibited = s.inhibitors \/ s.holds > 0]
handle_idle_inhibitor_v1_new ==
  /\ serving = None /\ ~server.inhibitors /\ server' = idle_inhibit_v1_check_active([server EXCEPT !.inhibitors = TRUE])
  /\ UNCHANGED <<conn, serving>>
handle_destroy ==
  /\ serving = None /\ server.inhibitors /\ server' = idle_inhibit_v1_check_active([server EXCEPT !.inhibitors = FALSE])
  /\ UNCHANGED <<conn, serving>>

\* Mutant: a hang-up is not noticed.
handle_inhibit_event_Deaf(c) == FALSE /\ UNCHANGED vars
handle_inhibit_event(c) ==
  /\ serving = None /\ conn[c].phase = "inhibit" /\ conn[c].hungUp
  /\ conn' = [conn EXCEPT ![c].phase = "closed"]
  /\ server' = idle_inhibit_v1_check_active([server EXCEPT !.holds = @ - 1]) /\ UNCHANGED serving

handle_watcher_event(c) ==
  /\ serving = None /\ conn[c].phase = "session" /\ conn[c].hungUp
  /\ conn' = [conn EXCEPT ![c].phase = "closed"] /\ UNCHANGED <<serving, server>>

-----------------------------------------------------------------------------
(* One request.  n descriptors come with it, one, or three (two are as good *)
(* as three but to ELEVATED): one is in passed_fd, more in fds.  ours says whether the clean-up still finds them there.             *)

Brings == {0, 1, 3}
Close(fds) == IF fds = "here" THEN "closed" ELSE "twice"

\* The remote connection is closed, its descriptor with it.
Without(s, conns) ==
  IF s.remoteClient = None THEN conns ELSE [conns EXCEPT ![s.remoteClient].fds = "closed"]

\* Mutant: what is in fds is not closed.
CleanUp_OnlyPassed(s, conns, c, n, ours) ==
  IF ~ours \/ n # 1 THEN conns
  ELSE IF s.remoteClient # None THEN IF s.remote THEN conns ELSE Without(s, conns)
  ELSE [conns EXCEPT ![c].fds = Close(@)]

CleanUp(s, conns, c, n, ours) ==
  IF ~ours \/ n = 0 THEN conns
  ELSE IF n = 1 /\ s.remoteClient # None THEN IF s.remote THEN conns ELSE Without(s, conns)
  ELSE [conns EXCEPT ![c].fds = Close(@)]

\* The common end: what was not adopted is dealt with, the connection answered and closed.
\* What nobody has any more is lost.
Lose(k) == IF k.fds = "here" THEN [k EXCEPT !.fds = "lost"] ELSE k
Ends(conns, c) == [conns EXCEPT ![c] = [Lose(@) EXCEPT !.phase = "closed"]]
Answer(s, conns, c, n, ours) ==
  LET after == IF n = 1 /\ ours /\ s.remoteClient # None /\ ~s.remote THEN [s EXCEPT !.remoteClient = None] ELSE s
  IN server' = after /\ conn' = Ends(CleanUp(s, conns, c, n, ours), c)

accept(c) ==
  /\ serving = None /\ conn[c].phase = "waiting" /\ serving' = c /\ UNCHANGED <<conn, server>>

\* c's request, with n descriptors; the rest of the step is the command's.
Requests(c, n) == serving = c /\ serving' = None /\ (conn[c].fds = "none")
Brought(c, n) == IF n = 0 THEN conn ELSE [conn EXCEPT ![c].fds = "here"]

\* Mutant: there is no limit to the wait.
Timeout_Never(c) == FALSE /\ UNCHANGED vars
\* A second has passed: an empty request, which is no command.
Timeout(c) == Requests(c, 0) /\ Answer(server, conn, c, 0, TRUE)

\* A command that is refused, unknown or only asks.
Refused(c) == \E n \in Brings : Requests(c, n) /\ Answer(server, Brought(c, n), c, n, TRUE)

\* A connection that is not closed with the answer, unless it cannot be sent.
Kept(k, as) == [Lose(k) EXCEPT !.phase = IF k.hungUp THEN "closed" ELSE as]

\* SESSION keeps its connection, if it can be told where things are.
CmdSession(c) == \E n \in Brings :
  LET here == Brought(c, n) IN
  /\ Requests(c, n) /\ UNCHANGED server
  /\ conn' = [here EXCEPT ![c] = [Kept(@, "session") EXCEPT !.unread = IF conn[c].hungUp THEN 0 ELSE 1,
                                                       !.heard = server.locked]]

\* Mutant: the idle notifier is not told.
Inhibited_Ignored(s) == s
Inhibited(s) == idle_inhibit_v1_check_active(s)

\* INHIBIT keeps its connection too; one that cannot be answered is let go like any other.
CmdInhibit(c) == \E n \in Brings :
  LET here == Brought(c, n)
      held == Inhibited([server EXCEPT !.holds = @ + 1])
  IN /\ Requests(c, n)
     /\ server' = IF conn[c].hungUp THEN idle_inhibit_v1_check_active([held EXCEPT !.holds = @ - 1]) ELSE held
     /\ conn' = [here EXCEPT ![c] = Kept(@, "inhibit")]

CmdLock(c) == \E n \in Brings, locked \in BOOLEAN :
  /\ Requests(c, n)
  /\ Answer([server EXCEPT !.locked = locked], Tells(server, locked, Brought(c, n)), c, n, TRUE)

\* What remote_attach does, if it can: the session opens where it goes.
remote_attach(s) == IF s.remote THEN s ELSE [s EXCEPT !.remote = TRUE, !.locked = FALSE]

\* adopt_remote_client: what becomes of the descriptor.
adopt_remote_client(s, fds) == IF s.remoteClient # None THEN Close(fds) ELSE "adopted"

CmdRemote(c) == \E n \in Brings, moved \in BOOLEAN :
  LET here == Brought(c, n)
      adopts == n = 1 /\ server.remoteClient = None
      withClient == IF adopts THEN [server EXCEPT !.remoteClient = c] ELSE server
      conns == IF n = 1 THEN [here EXCEPT ![c].fds = adopt_remote_client(server, @)] ELSE here
      after == IF moved THEN remote_attach(withClient) ELSE withClient
  IN /\ Requests(c, n) /\ server.shadowClient = None
     /\ IF n = 1 /\ ~adopts THEN Answer(server, conns, c, n, FALSE)
        ELSE Answer(after, Tells(server, after.locked, conns), c, n, ~moved \/ n = 3)

\* Mutant: the clean-up takes it for a refused one.
CmdShadow_Keeps(c) ==
  /\ Requests(c, 1)
  /\ IF server.shadowClient # None \/ server.remote
     THEN Answer(server, [Brought(c, 1) EXCEPT ![c].fds = Close(@)], c, 1, TRUE)
     ELSE Answer([server EXCEPT !.shadowClient = c], [Brought(c, 1) EXCEPT ![c].fds = "adopted"], c, 1, TRUE)
CmdShadow(c) ==
  /\ Requests(c, 1)
  /\ IF server.shadowClient # None \/ server.remoteClient # None \/ server.remote
     THEN Answer(server, [Brought(c, 1) EXCEPT ![c].fds = Close(@)], c, 1, FALSE)
     ELSE Answer([server EXCEPT !.shadowClient = c], [Brought(c, 1) EXCEPT ![c].fds = "adopted"], c, 1, FALSE)

\* elevated_adopt takes all three or closes all three.
CmdElevated(c) == \E fds \in {"adopted", "closed"} :
  Requests(c, 3) /\ Answer(server, [Brought(c, 3) EXCEPT ![c].fds = fds], c, 3, FALSE)

\* remote_detach: the session comes back locked and the remote connection is closed.
remote_detach(s) == IF s.remote THEN [s EXCEPT !.remote = FALSE, !.remoteClient = None, !.locked = TRUE] ELSE s
Detached(s, conns) == IF s.remote THEN Tells(s, TRUE, Without(s, conns)) ELSE conns
CmdLocal(c) == \E n \in Brings :
  Requests(c, n) /\ Answer(remote_detach(server), Detached(server, Brought(c, n)), c, n, TRUE)

Served(c) == \/ Refused(c) \/ CmdSession(c) \/ CmdInhibit(c) \/ CmdLock(c)
             \/ CmdRemote(c) \/ CmdShadow(c) \/ CmdElevated(c) \/ CmdLocal(c)

-----------------------------------------------------------------------------
(* The clients and displays made of what was passed go.                     *)

handle_remote_client_destroy ==
  /\ serving = None /\ server.remoteClient # None /\ UNCHANGED serving
  /\ server' = [remote_detach(server) EXCEPT !.remoteClient = None]
  /\ conn' = Detached(server, Without(server, conn))
handle_shadow_client_destroy ==
  /\ serving = None /\ server.shadowClient # None /\ UNCHANGED serving
  /\ server' = [server EXCEPT !.shadowClient = None] /\ conn' = [conn EXCEPT ![server.shadowClient].fds = "closed"]
DisplayEnds(c) ==
  /\ serving = None /\ conn[c].fds = "adopted" /\ c \notin {server.remoteClient, server.shadowClient}
  /\ conn' = [conn EXCEPT ![c].fds = "closed"] /\ UNCHANGED <<serving, server>>

Peers == \E c \in Conn : Connect(c) \/ HangUp(c) \/ ReadAll(c)
Loop(c) == accept(c) \/ Timeout(c) \/ Served(c) \/ handle_watcher_event(c) \/ handle_inhibit_event(c)
Next ==
  \/ Peers \/ handle_idle_inhibitor_v1_new \/ handle_destroy
  \/ handle_remote_client_destroy \/ handle_shadow_client_destroy
  \/ \E c \in Conn : Loop(c) \/ DisplayEnds(c)
Spec == Init /\ [][Next]_vars

\* The loop handles every descriptor that is ready before it looks for more, so one that stays
\* ready is handled though others are served in between; nobody makes a peer send a request.
FairSpec == Spec /\ \A c \in Conn : /\ SF_vars(accept(c)) /\ WF_vars(Timeout(c))
                                     /\ SF_vars(handle_inhibit_event(c)) /\ SF_vars(handle_watcher_event(c))

-----------------------------------------------------------------------------
(* What it is for.                                                          *)

(* Idle is held off while, and only while, a connection or a surface holds   *)
(* it: the count, the connections and what the notifier was told agree,     *)
(* whichever of them go first or cannot be answered.                        *)
HoldsMatch ==
  /\ server.holds = Cardinality({c \in Conn : conn[c].phase = "inhibit"})
  /\ server.inhibited = (server.inhibitors \/ server.holds > 0)

(* A watcher that is still connected has been sent how things are: one that  *)
(* does not read is let go, not left with what was.                         *)
WatchersUpToDate == \A c \in Conn : conn[c].phase = "session" => conn[c].heard = server.locked

(* No descriptor is closed a second time, or closed when a client has it:    *)
(* between them adopting, refusing and cleaning up do it once.              *)
ClosedOnce == \A c \in Conn :
  /\ conn[c].fds # "twice"
  /\ c \in {server.remoteClient, server.shadowClient} => conn[c].fds = "adopted"

(* What is kept of the connections agrees with what they were told and gave, *)
(* whoever hangs up, does not read, or goes with what it brought.           *)
ConnectionsSound == TypeOK /\ HoldsMatch /\ WatchersUpToDate /\ ClosedOnce

(* Whatever came with a request is closed or has an owner when it has been   *)
(* answered.  A connection that is kept loses it, and so does a request     *)
(* that comes with one descriptor while a remote connection is there (see   *)
(* README): the step that loses one is one of these, the one that would have *)
(* been kept but cannot be answered among them.                             *)
Disposed == [][\A c \in Conn : conn[c].fds # "lost" /\ conn'[c].fds = "lost" =>
                 \/ conn'[c].phase \in {"session", "inhibit"} \/ conn[c].hungUp
                 \/ server.remoteClient # None]_vars

(* Every connection is answered or closed, though another may be waited for  *)
(* first and none may ever send a thing; and a hold on idle ends with the   *)
(* connection that asked for it.                                            *)
Answered == \A c \in Conn :
  /\ conn[c].phase = "waiting" ~> conn[c].phase # "waiting"
  /\ conn[c].phase = "inhibit" /\ conn[c].hungUp ~> conn[c].phase # "inhibit"
=============================================================================
