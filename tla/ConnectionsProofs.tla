-------------------------- MODULE ConnectionsProofs --------------------------
(***************************************************************************)
(* What holds of the control socket's connections and of the descriptors   *)
(* they bring, for any number of connections and any size of a watcher's   *)
(* socket.  Fits says of a server and of its connections that they agree;  *)
(* the parts a command is made of are shown to keep it one by one, and a   *)
(* command is their composition.                                           *)
(***************************************************************************)
EXTENDS Connections, FiniteSetTheorems, TLAPS

ConnType == [phase : {"none", "waiting", "session", "inhibit", "closed"}, hungUp : BOOLEAN,
             unread : 0..Room, heard : BOOLEAN, fds : Disposal]
ServerType == [locked : BOOLEAN, remote : BOOLEAN, remoteClient : Conn \cup {None}, shadowClient : Conn \cup {None},
               holds : Nat, inhibitors : BOOLEAN, inhibited : BOOLEAN]

Holding(conns) == {c \in Conn : conns[c].phase = "inhibit"}
HoldsFit(s, conns) ==
  /\ s.holds = Cardinality(Holding(conns))
  /\ s.inhibited = (s.inhibitors \/ s.holds > 0)
WatchersFit(s, conns) == \A c \in Conn : conns[c].phase = "session" => conns[c].heard = s.locked
OwnersFit(s, conns) ==
  /\ \A c \in Conn : /\ conns[c].fds # "twice"
                     /\ c \in {s.remoteClient, s.shadowClient} => conns[c].fds = "adopted"
                     /\ conns[c].phase = "none" => conns[c].fds = "none"
  /\ s.remoteClient # None => s.shadowClient = None

Fits(s, conns) ==
  /\ s \in ServerType /\ conns \in [Conn -> ConnType]
  /\ HoldsFit(s, conns) /\ WatchersFit(s, conns) /\ OwnersFit(s, conns)

(* The connection served has not been answered yet.                        *)
Inv == /\ Fits(server, conn)
       /\ serving \in Conn \cup {None}
       /\ serving # None => conn[serving].phase = "waiting"

----------------------------------------------------------------------------
(* The invariant implies the property.                                     *)

LEMMA HoldingFinite ==
  ASSUME NEW conns
  PROVE  /\ IsFiniteSet(Holding(conns)) /\ Cardinality(Holding(conns)) \in Nat
         /\ Cardinality(Holding(conns)) <= Cardinality(Conn) /\ Cardinality(Conn) \in Nat
<1>1. Holding(conns) \in SUBSET Conn /\ IsFiniteSet(Conn)
  BY Bounds DEF Holding
<1> HIDE DEF Holding
<1> QED BY <1>1, FS_Subset, FS_CardinalityType

LEMMA InvSound == Inv => ConnectionsSound
<1> SUFFICES ASSUME Inv PROVE ConnectionsSound
  OBVIOUS
<1>1. Fits(server, conn)
  BY DEF Inv
<1>2. HoldsMatch /\ WatchersUpToDate /\ ClosedOnce
  BY <1>1 DEF Fits, HoldsFit, WatchersFit, OwnersFit, Holding, HoldsMatch, WatchersUpToDate, ClosedOnce
<1>3. server.holds \in 0..Cardinality(Conn)
  BY <1>1, HoldingFinite DEF Fits, HoldsFit
<1>4. TypeOK
  BY <1>1, <1>3 DEF Fits, Inv, TypeOK, ServerType, ConnType
<1> QED BY <1>2, <1>4 DEF ConnectionsSound

----------------------------------------------------------------------------
(* The parts of a command.                                                 *)

(* Nothing of the holds changes where the same connections hold.           *)
LEMMA HoldsStay ==
  ASSUME NEW s, NEW t, NEW conns, NEW others, HoldsFit(s, conns),
         t.holds = s.holds, t.inhibitors = s.inhibitors, t.inhibited = s.inhibited,
         \A c \in Conn : others[c].phase = "inhibit" <=> conns[c].phase = "inhibit"
  PROVE  HoldsFit(t, others)
<1>1. Holding(others) = Holding(conns)
  BY DEF Holding
<1> QED BY <1>1 DEF HoldsFit

(* One connection is put in another's place.                               *)
LEMMA PutFits ==
  ASSUME NEW s, NEW conns, Fits(s, conns), NEW c \in Conn, NEW k \in ConnType,
         k.phase = "inhibit" <=> conns[c].phase = "inhibit",
         k.phase = "session" => k.heard = s.locked,
         k.fds # "twice",
         c \in {s.remoteClient, s.shadowClient} => k.fds = "adopted",
         k.phase = "none" => k.fds = "none"
  PROVE  Fits(s, [conns EXCEPT ![c] = k])
<1> DEFINE new == [conns EXCEPT ![c] = k]
<1>1. conns \in [Conn -> ConnType] /\ new \in [Conn -> ConnType]
  BY DEF Fits
<1>2. \A d \in Conn : new[d] = IF d = c THEN k ELSE conns[d]
  BY <1>1
<1> HIDE DEF new
<1>3. HoldsFit(s, new)
  BY <1>2, HoldsStay DEF Fits
<1>4. WatchersFit(s, new) /\ OwnersFit(s, new)
  BY <1>2 DEF Fits, WatchersFit, OwnersFit
<1> QED BY <1>1, <1>3, <1>4 DEF Fits, new

(* What becomes of its descriptors.                                        *)
LEMMA FdsFit ==
  ASSUME NEW s, NEW conns, Fits(s, conns), NEW c \in Conn, conns[c].phase # "none",
         c \notin {s.remoteClient, s.shadowClient}, NEW fds \in Disposal \ {"twice"}
  PROVE  /\ Fits(s, [conns EXCEPT ![c].fds = fds])
         /\ \A d \in Conn : /\ [conns EXCEPT ![c].fds = fds][d].phase = conns[d].phase
                            /\ [conns EXCEPT ![c].fds = fds][d].hungUp = conns[d].hungUp
                            /\ [conns EXCEPT ![c].fds = fds][d].fds = IF d = c THEN fds ELSE conns[d].fds
<1>1. conns \in [Conn -> ConnType]
  BY DEF Fits
<1> DEFINE k == [conns[c] EXCEPT !.fds = fds]
<1>2. k \in ConnType /\ k.phase = conns[c].phase /\ k.heard = conns[c].heard /\ k.hungUp = conns[c].hungUp /\ k.fds = fds
  BY <1>1 DEF ConnType
<1>3. [conns EXCEPT ![c].fds = fds] = [conns EXCEPT ![c] = k]
  OBVIOUS
<1> HIDE DEF k
<1>4. k.phase = "session" => k.heard = s.locked
  BY <1>2 DEF Fits, WatchersFit
<1>5. Fits(s, [conns EXCEPT ![c] = k])
  BY <1>2, <1>4, PutFits
<1> QED BY <1>1, <1>2, <1>3, <1>5

LEMMA BroughtFits ==
  ASSUME Inv, NEW c \in Conn, NEW n \in Brings, Requests(c, n)
  PROVE  /\ Fits(server, Brought(c, n)) /\ Brought(c, n)[c].phase = "waiting"
         /\ c \notin {server.remoteClient, server.shadowClient}
         /\ Brought(c, n)[c].fds = (IF n = 0 THEN "none" ELSE "here")
         /\ Brought(c, n)[c].hungUp = conn[c].hungUp
<1>1. Fits(server, conn) /\ conn[c].phase = "waiting" /\ conn[c].fds = "none"
  BY Bounds DEF Inv, Requests
<1>2. c \notin {server.remoteClient, server.shadowClient}
  BY <1>1 DEF Fits, OwnersFit
<1>3. "here" \in Disposal \ {"twice"}
  BY DEF Disposal
<1> QED BY <1>1, <1>2, <1>3, FdsFit DEF Brought

(* The watchers told that the console is locked or open now.               *)
LEMMA TellsFit ==
  ASSUME NEW s, NEW conns, Fits(s, conns), NEW locked \in BOOLEAN
  PROVE  /\ Fits([s EXCEPT !.locked = locked], Tells(s, locked, conns))
         /\ \A c \in Conn : /\ Tells(s, locked, conns)[c].fds = conns[c].fds
                            /\ Tells(s, locked, conns)[c].hungUp = conns[c].hungUp
                            /\ conns[c].phase # "session" => Tells(s, locked, conns)[c].phase = conns[c].phase
<1> DEFINE new == Tells(s, locked, conns)
           t == [s EXCEPT !.locked = locked]
<1>1. s \in ServerType /\ conns \in [Conn -> ConnType]
  BY DEF Fits
<1>2. /\ t \in ServerType /\ t.locked = locked /\ t.holds = s.holds /\ t.inhibitors = s.inhibitors
      /\ t.inhibited = s.inhibited /\ t.remoteClient = s.remoteClient /\ t.shadowClient = s.shadowClient
  BY <1>1 DEF ServerType
<1>3. ASSUME NEW c \in Conn
      PROVE  /\ new[c] \in ConnType /\ new[c].fds = conns[c].fds /\ new[c].hungUp = conns[c].hungUp
             /\ conns[c].phase # "session" => new[c] = conns[c]
             /\ conns[c].phase = "session" => new[c].phase \in {"session", "closed"}
             /\ new[c].phase = "session" => new[c].heard = locked
  <2>1. CASE locked = s.locked
    <3>1. new = conns
      BY <2>1 DEF Tells
    <3> QED BY <1>1, <2>1, <3>1 DEF Fits, WatchersFit, ConnType
  <2>2. CASE locked # s.locked
    <3>1. new[c] = IF conns[c].phase # "session" THEN conns[c]
                   ELSE IF Full(conns[c]) THEN [conns[c] EXCEPT !.phase = "closed"] ELSE Told(conns[c], locked)
      BY <2>2 DEF Tells, send_watchers
    <3>2. conns[c] \in ConnType
      BY <1>1
    <3> HIDE DEF new
    <3>3. CASE conns[c].phase # "session"
      BY <3>1, <3>2, <3>3
    <3>4. CASE conns[c].phase = "session" /\ Full(conns[c])
      BY <3>1, <3>2, <3>4 DEF ConnType
    <3>5. CASE conns[c].phase = "session" /\ ~Full(conns[c])
      <4>1. conns[c].unread + 1 \in 0..Room
        BY <3>2, <3>5, Bounds DEF ConnType, Full
      <4>2. new[c] = [conns[c] EXCEPT !.unread = conns[c].unread + 1, !.heard = locked]
        BY <3>1, <3>5 DEF Told
      <4> QED BY <3>2, <3>5, <4>1, <4>2 DEF ConnType
    <3> QED BY <3>3, <3>4, <3>5
  <2> QED BY <2>1, <2>2
<1>4. new \in [Conn -> ConnType]
  <2>1. CASE locked = s.locked
    BY <1>1, <2>1 DEF Tells
  <2>2. CASE locked # s.locked
    <3>1. new = [c \in Conn |-> new[c]]
      BY <2>2 DEF Tells, send_watchers
    <3> HIDE DEF new
    <3> QED BY <1>3, <3>1
  <2> QED BY <2>1, <2>2
<1> HIDE DEF new, t
<1>5. HoldsFit(t, new)
  <2>1. \A c \in Conn : new[c].phase = "inhibit" <=> conns[c].phase = "inhibit"
    BY <1>3
  <2> QED BY <1>2, <2>1, HoldsStay DEF Fits
<1>6. WatchersFit(t, new)
  BY <1>2, <1>3 DEF WatchersFit
<1>7. OwnersFit(t, new)
  <2>1. \A c \in Conn : new[c].fds = conns[c].fds /\ (new[c].phase = "none" => conns[c].phase = "none")
    BY <1>3
  <2> QED BY <1>2, <2>1 DEF Fits, OwnersFit
<1>8. Fits(t, new)
  BY <1>2, <1>4, <1>5, <1>6, <1>7 DEF Fits
<1> QED BY <1>3, <1>8 DEF new, t

(* What Fits does not speak of may change.                                 *)
LEMMA SameFits ==
  ASSUME NEW s, NEW conns, Fits(s, conns), NEW t \in ServerType,
         t.locked = s.locked, t.holds = s.holds, t.inhibitors = s.inhibitors, t.inhibited = s.inhibited,
         t.remoteClient \in {s.remoteClient, None}, t.shadowClient \in {s.shadowClient, None}
  PROVE  Fits(t, conns)
<1>1. HoldsFit(t, conns)
  BY HoldsStay DEF Fits
<1>2. WatchersFit(t, conns) /\ OwnersFit(t, conns)
  BY Bounds DEF Fits, WatchersFit, OwnersFit
<1> QED BY <1>1, <1>2 DEF Fits

(* The remote connection is closed.                                        *)
LEMMA WithoutFits ==
  ASSUME NEW s, NEW conns, Fits(s, conns)
  PROVE  /\ Fits([s EXCEPT !.remoteClient = None], Without(s, conns))
         /\ \A c \in Conn : /\ Without(s, conns)[c].phase = conns[c].phase
                            /\ Without(s, conns)[c].hungUp = conns[c].hungUp
                            /\ Without(s, conns)[c].fds = IF c = s.remoteClient THEN "closed" ELSE conns[c].fds
<1> DEFINE t == [s EXCEPT !.remoteClient = None]
<1>1. s \in ServerType
  BY DEF Fits
<1>2. /\ t \in ServerType /\ t.locked = s.locked /\ t.holds = s.holds /\ t.inhibitors = s.inhibitors
      /\ t.inhibited = s.inhibited /\ t.remoteClient = None /\ t.shadowClient = s.shadowClient
  BY <1>1 DEF ServerType
<1> HIDE DEF t
<1>3. Fits(t, conns)
  BY <1>2, SameFits
<1>4. CASE s.remoteClient = None
  BY <1>3, <1>4, Bounds DEF Without, t
<1>5. CASE s.remoteClient # None
  <2>1. /\ s.remoteClient \in Conn /\ s.shadowClient = None /\ conns[s.remoteClient].phase # "none"
        /\ "closed" \in Disposal \ {"twice"}
    BY <1>1, <1>5 DEF Fits, OwnersFit, ServerType, Disposal
  <2>2. s.remoteClient \notin {t.remoteClient, t.shadowClient}
    BY <1>2, <1>5, <2>1
  <2> DEFINE new == [conns EXCEPT ![s.remoteClient].fds = "closed"]
  <2>3. Without(s, conns) = new
    BY <1>5 DEF Without
  <2>4. /\ Fits(t, new)
        /\ \A c \in Conn : /\ new[c].phase = conns[c].phase /\ new[c].hungUp = conns[c].hungUp
                           /\ new[c].fds = IF c = s.remoteClient THEN "closed" ELSE conns[c].fds
    BY <1>3, <2>1, <2>2, FdsFit
  <2> HIDE DEF new
  <2> QED BY <2>3, <2>4 DEF t
<1> QED BY <1>4, <1>5

(* The connection is answered and closed.                                  *)
LEMMA EndsFit ==
  ASSUME NEW s, NEW conns, Fits(s, conns), NEW c \in Conn, conns[c].phase = "waiting"
  PROVE  Fits(s, Ends(conns, c))
<1> DEFINE k == [Lose(conns[c]) EXCEPT !.phase = "closed"]
<1>1. conns[c] \in ConnType /\ conns[c].fds # "twice" /\ (c \in {s.remoteClient, s.shadowClient} => conns[c].fds = "adopted")
  BY DEF Fits, OwnersFit
<1>2. Lose(conns[c]) \in ConnType /\ Lose(conns[c]).fds = IF conns[c].fds = "here" THEN "lost" ELSE conns[c].fds
  BY <1>1 DEF Lose, ConnType, Disposal
<1>3. k \in ConnType /\ k.phase = "closed" /\ k.fds = Lose(conns[c]).fds
  BY <1>2 DEF ConnType
<1>4. Ends(conns, c) = [conns EXCEPT ![c] = k]
  BY DEF Ends
<1> HIDE DEF k
<1>5. /\ k \in ConnType /\ k.phase = "closed" /\ k.fds # "twice"
      /\ c \in {s.remoteClient, s.shadowClient} => k.fds = "adopted"
  BY <1>1, <1>2, <1>3
<1>6. Fits(s, [conns EXCEPT ![c] = k])
  BY <1>5, PutFits
<1> QED BY <1>4, <1>6

(* What was not adopted is closed with the answer.                         *)
LEMMA AnswerFits ==
  ASSUME NEW s, NEW conns, Fits(s, conns), NEW c \in Conn, conns[c].phase = "waiting",
         NEW n \in Brings, NEW ours,
         ours /\ n # 0 => conns[c].fds = "here" \/ (n = 1 /\ s.remoteClient # None),
         Answer(s, conns, c, n, ours)
  PROVE  Fits(server', conn')
<1> DEFINE after == IF n = 1 /\ ours /\ s.remoteClient # None /\ ~s.remote THEN [s EXCEPT !.remoteClient = None] ELSE s
           cleaned == CleanUp(s, conns, c, n, ours)
<1>1. server' = after /\ conn' = Ends(cleaned, c)
  BY DEF Answer
<1>2. Fits(after, cleaned) /\ cleaned[c].phase = "waiting"
  <2>1. CASE ~ours \/ n = 0
    <3>1. cleaned = conns /\ after = s
      BY <2>1 DEF CleanUp
    <3> QED BY <3>1
  <2>2. CASE ours /\ n = 1 /\ s.remoteClient # None
    <3>1. CASE s.remote
      <4>1. cleaned = conns /\ after = s
        BY <2>2, <3>1 DEF CleanUp
      <4> QED BY <4>1
    <3>2. CASE ~s.remote
      <4>1. cleaned = Without(s, conns) /\ after = [s EXCEPT !.remoteClient = None]
        BY <2>2, <3>2 DEF CleanUp
      <4> QED BY <4>1, WithoutFits
    <3> QED BY <3>1, <3>2
  <2>3. CASE ours /\ n # 0 /\ ~(n = 1 /\ s.remoteClient # None)
    <3>1. conns[c].fds = "here"
      BY <2>3
    <3>2. cleaned = [conns EXCEPT ![c].fds = "closed"] /\ after = s
      BY <2>3, <3>1 DEF CleanUp, Close
    <3>3. c \notin {s.remoteClient, s.shadowClient} /\ "closed" \in Disposal \ {"twice"}
      BY <3>1 DEF Fits, OwnersFit, Disposal
    <3>4. /\ Fits(s, [conns EXCEPT ![c].fds = "closed"])
          /\ [conns EXCEPT ![c].fds = "closed"][c].phase = "waiting"
      BY <3>3, FdsFit
    <3> HIDE DEF cleaned, after
    <3> QED BY <3>2, <3>4
  <2> QED BY <2>1, <2>2, <2>3
<1> HIDE DEF after, cleaned
<1> QED BY <1>1, <1>2, EndsFit

(* The connection is made the remote one, or the viewer's, if there is     *)
(* neither.                                                                *)
LEMMA AdoptFits ==
  ASSUME NEW s, NEW conns, Fits(s, conns), NEW c \in Conn, conns[c].phase # "none",
         s.remoteClient = None, s.shadowClient = None,
         NEW t \in {[s EXCEPT !.remoteClient = c], [s EXCEPT !.shadowClient = c]}
  PROVE  Fits(t, [conns EXCEPT ![c].fds = "adopted"])
<1> DEFINE new == [conns EXCEPT ![c].fds = "adopted"]
<1>1. s \in ServerType /\ c # None
  BY Bounds DEF Fits
<1>2. /\ t \in ServerType /\ t.locked = s.locked /\ t.holds = s.holds /\ t.inhibitors = s.inhibitors
      /\ t.inhibited = s.inhibited /\ {t.remoteClient, t.shadowClient} \subseteq {c, None}
      /\ None \in {t.remoteClient, t.shadowClient}
  BY <1>1 DEF ServerType
<1>3. Fits(s, new) /\ new[c].fds = "adopted"
  <2>1. "adopted" \in Disposal \ {"twice"} /\ c \notin {s.remoteClient, s.shadowClient}
    BY <1>1 DEF Disposal
  <2> QED BY <2>1, FdsFit
<1> HIDE DEF new
<1>4. HoldsFit(t, new)
  BY <1>2, <1>3, HoldsStay DEF Fits
<1>5. WatchersFit(t, new) /\ OwnersFit(t, new)
  BY <1>1, <1>2, <1>3, Bounds DEF Fits, WatchersFit, OwnersFit
<1> QED BY <1>2, <1>3, <1>4, <1>5 DEF Fits, new

(* The session comes back, if it is away.                                  *)
LEMMA DetachFits ==
  ASSUME NEW s, NEW conns, Fits(s, conns)
  PROVE  /\ Fits(remote_detach(s), Detached(s, conns))
         /\ \A c \in Conn : conns[c].phase = "waiting" /\ c # s.remoteClient =>
              Detached(s, conns)[c].phase = "waiting" /\ Detached(s, conns)[c].fds = conns[c].fds
<1>1. CASE ~s.remote
  BY <1>1 DEF remote_detach, Detached
<1>2. CASE s.remote
  <2> DEFINE u == [s EXCEPT !.remoteClient = None]
             left == Without(s, conns)
             t == [s EXCEPT !.remote = FALSE, !.remoteClient = None, !.locked = TRUE]
  <2>1. /\ Fits(u, left)
        /\ \A c \in Conn : /\ left[c].phase = conns[c].phase
                           /\ left[c].fds = IF c = s.remoteClient THEN "closed" ELSE conns[c].fds
    BY WithoutFits
  <2>2. s \in ServerType
    BY DEF Fits
  <2>3. u.locked = s.locked
    BY <2>2 DEF ServerType
  <2>4. Tells(s, TRUE, left) = Tells(u, TRUE, left)
    BY <2>3 DEF Tells
  <2>5. /\ t \in ServerType /\ t.locked = [u EXCEPT !.locked = TRUE].locked /\ t.holds = [u EXCEPT !.locked = TRUE].holds
        /\ t.inhibitors = [u EXCEPT !.locked = TRUE].inhibitors /\ t.inhibited = [u EXCEPT !.locked = TRUE].inhibited
        /\ t.remoteClient = None /\ t.shadowClient = [u EXCEPT !.locked = TRUE].shadowClient
    BY <2>2 DEF ServerType
  <2>6. remote_detach(s) = t /\ Detached(s, conns) = Tells(u, TRUE, left)
    BY <1>2, <2>4 DEF remote_detach, Detached
  <2> HIDE DEF u, left, t
  <2>7. \A locked \in BOOLEAN :
           /\ Fits([u EXCEPT !.locked = locked], Tells(u, locked, left))
           /\ \A c \in Conn : /\ Tells(u, locked, left)[c].fds = left[c].fds
                              /\ left[c].phase # "session" => Tells(u, locked, left)[c].phase = left[c].phase
    BY <2>1, TellsFit
  <2>8. Fits(t, Tells(u, TRUE, left))
    BY <2>5, <2>7, SameFits
  <2> QED BY <2>1, <2>6, <2>7, <2>8
<1> QED BY <1>1, <1>2

----------------------------------------------------------------------------
(* The commands.                                                           *)

LEMMA RefusedKeeps ==
  ASSUME Inv, NEW c \in Conn, Refused(c) \/ Timeout(c)
  PROVE  Inv'
<1>1. PICK n \in Brings : Requests(c, n) /\ Answer(server, Brought(c, n), c, n, TRUE)
  BY DEF Refused, Timeout, Brings, Brought
<1>2. Fits(server', conn')
  <2> DEFINE here == Brought(c, n)
  <2>1. Fits(server, here) /\ here[c].phase = "waiting" /\ (n # 0 => here[c].fds = "here")
    BY <1>1, BroughtFits
  <2>2. Answer(server, here, c, n, TRUE)
    BY <1>1
  <2> HIDE DEF here
  <2>3. TRUE /\ n # 0 => here[c].fds = "here" \/ (n = 1 /\ server.remoteClient # None)
    BY <2>1
  <2> QED BY <2>1, <2>2, <2>3, AnswerFits
<1> QED BY <1>1, <1>2 DEF Inv, Requests

LEMMA KeptIs ==
  ASSUME NEW k \in ConnType, k.fds \in {"none", "here"}, NEW as \in {"session", "inhibit"}
  PROVE  /\ Kept(k, as) \in ConnType /\ Kept(k, as).fds \in {"none", "lost"}
         /\ Kept(k, as).phase = IF k.hungUp THEN "closed" ELSE as
<1>1. Lose(k) \in ConnType /\ Lose(k).fds \in {"none", "lost"}
  BY DEF Lose, ConnType, Disposal
<1> QED BY <1>1 DEF Kept, ConnType

LEMMA SessionKeeps ==
  ASSUME Inv, NEW c \in Conn, CmdSession(c)
  PROVE  Inv'
<1>1. PICK n \in Brings :
        /\ Requests(c, n) /\ UNCHANGED server
        /\ conn' = [Brought(c, n) EXCEPT ![c] = [Kept(@, "session") EXCEPT !.unread = IF conn[c].hungUp THEN 0 ELSE 1,
                                                                         !.heard = server.locked]]
  BY DEF CmdSession
<1> DEFINE here == Brought(c, n)
           was == Kept(here[c], "session")
           k == [was EXCEPT !.unread = IF conn[c].hungUp THEN 0 ELSE 1, !.heard = server.locked]
<1>2. Fits(server, here) /\ here[c].phase = "waiting" /\ c \notin {server.remoteClient, server.shadowClient}
      /\ here[c].fds \in {"none", "here"}
  BY <1>1, BroughtFits
<1>3. conn' = [here EXCEPT ![c] = k]
  BY <1>1
<1>4. here[c] \in ConnType /\ server.locked \in BOOLEAN /\ {0, 1} \subseteq 0..Room
  BY <1>2, Bounds DEF Fits, ServerType
<1>5. was \in ConnType /\ was.phase \in {"closed", "session"} /\ was.fds \in {"none", "lost"}
  BY <1>2, <1>4, KeptIs
<1> HIDE DEF was
<1>6. k \in ConnType /\ k.phase \in {"closed", "session"} /\ k.heard = server.locked /\ k.fds = was.fds
  BY <1>4, <1>5 DEF ConnType
<1> HIDE DEF here, k
<1>7. Fits(server, conn')
  <2>1. /\ k \in ConnType /\ (k.phase = "inhibit" <=> here[c].phase = "inhibit") /\ k.fds # "twice" /\ k.phase # "none"
        /\ (k.phase = "session" => k.heard = server.locked)
    BY <1>2, <1>5, <1>6
  <2> QED BY <1>2, <1>3, <2>1, PutFits
<1> QED BY <1>1, <1>7 DEF Inv, Requests

LEMMA LockKeeps ==
  ASSUME Inv, NEW c \in Conn, CmdLock(c)
  PROVE  Inv'
<1>1. PICK n \in Brings, locked \in BOOLEAN :
        Requests(c, n) /\ Answer([server EXCEPT !.locked = locked], Tells(server, locked, Brought(c, n)), c, n, TRUE)
  BY DEF CmdLock
<1> DEFINE here == Brought(c, n)
           told == Tells(server, locked, here)
<1>2. Fits(server, here) /\ here[c].phase = "waiting" /\ here[c].fds = IF n = 0 THEN "none" ELSE "here"
  BY <1>1, BroughtFits
<1> HIDE DEF here
<1>3. Fits([server EXCEPT !.locked = locked], told) /\ told[c].phase = "waiting" /\ told[c].fds = here[c].fds
  BY <1>2, TellsFit
<1> HIDE DEF told
<1>4. Answer([server EXCEPT !.locked = locked], told, c, n, TRUE)
  BY <1>1 DEF told, here
<1>5. Fits(server', conn')
  BY <1>2, <1>3, <1>4, AnswerFits
<1> QED BY <1>1, <1>5 DEF Inv, Requests

LEMMA LocalKeeps ==
  ASSUME Inv, NEW c \in Conn, CmdLocal(c)
  PROVE  Inv'
<1>1. PICK n \in Brings : Requests(c, n) /\ Answer(remote_detach(server), Detached(server, Brought(c, n)), c, n, TRUE)
  BY DEF CmdLocal
<1> DEFINE here == Brought(c, n)
           back == Detached(server, here)
<1>2. /\ Fits(server, here) /\ here[c].phase = "waiting" /\ here[c].fds = IF n = 0 THEN "none" ELSE "here"
      /\ c # server.remoteClient
  BY <1>1, BroughtFits
<1> HIDE DEF here
<1>3. Fits(remote_detach(server), back) /\ back[c].phase = "waiting" /\ back[c].fds = here[c].fds
  BY <1>2, DetachFits
<1> HIDE DEF back
<1>4. Answer(remote_detach(server), back, c, n, TRUE)
  BY <1>1 DEF back, here
<1>5. Fits(server', conn')
  BY <1>2, <1>3, <1>4, AnswerFits
<1> QED BY <1>1, <1>5 DEF Inv, Requests

LEMMA ElevatedKeeps ==
  ASSUME Inv, NEW c \in Conn, CmdElevated(c)
  PROVE  Inv'
<1>1. PICK fds \in {"adopted", "closed"} :
        Requests(c, 3) /\ Answer(server, [Brought(c, 3) EXCEPT ![c].fds = fds], c, 3, FALSE)
  BY DEF CmdElevated
<1>2. 3 \in Brings /\ fds \in Disposal \ {"twice"}
  BY DEF Brings, Disposal
<1>3. Fits(server, Brought(c, 3)) /\ Brought(c, 3)[c].phase = "waiting" /\ c \notin {server.remoteClient, server.shadowClient}
  BY <1>1, <1>2, BroughtFits
<1>4. Fits(server, [Brought(c, 3) EXCEPT ![c].fds = fds]) /\ [Brought(c, 3) EXCEPT ![c].fds = fds][c].phase = "waiting"
  BY <1>2, <1>3, FdsFit
<1>5. Fits(server', conn')
  BY <1>1, <1>2, <1>4, AnswerFits
<1> QED BY <1>1, <1>5 DEF Inv, Requests

LEMMA ShadowKeeps ==
  ASSUME Inv, NEW c \in Conn, CmdShadow(c)
  PROVE  Inv'
<1> DEFINE here == Brought(c, 1)
<1>1. Requests(c, 1) /\ 1 \in Brings
  BY DEF CmdShadow, Brings
<1>2. /\ Fits(server, here) /\ here[c].phase = "waiting" /\ here[c].fds = "here"
      /\ c \notin {server.remoteClient, server.shadowClient}
  BY <1>1, BroughtFits
<1>3. conn \in [Conn -> ConnType] /\ here \in [Conn -> ConnType]
  BY <1>2 DEF Inv, Fits
<1>4. CASE server.shadowClient # None \/ server.remoteClient # None \/ server.remote
  <2>1. Answer(server, [here EXCEPT ![c].fds = "closed"], c, 1, FALSE)
    BY <1>2, <1>4 DEF CmdShadow, Close
  <2>2. "closed" \in Disposal \ {"twice"}
    BY DEF Disposal
  <2> HIDE DEF here
  <2>3. Fits(server, [here EXCEPT ![c].fds = "closed"]) /\ [here EXCEPT ![c].fds = "closed"][c].phase = "waiting"
    BY <1>2, <2>2, FdsFit
  <2>4. Fits(server', conn')
    BY <1>1, <2>1, <2>3, AnswerFits
  <2> QED BY <1>1, <2>4 DEF Inv, Requests
<1>5. CASE ~(server.shadowClient # None \/ server.remoteClient # None \/ server.remote)
  <2> DEFINE t == [server EXCEPT !.shadowClient = c]
             new == [here EXCEPT ![c].fds = "adopted"]
  <2>1. Answer(t, new, c, 1, FALSE)
    BY <1>5 DEF CmdShadow
  <2> HIDE DEF here
  <2>2. Fits(t, new)
    BY <1>2, <1>5, AdoptFits
  <2>3. new[c].phase = "waiting"
    BY <1>2, <1>3 DEF ConnType
  <2> HIDE DEF t, new
  <2>4. Fits(server', conn')
    BY <1>1, <2>1, <2>2, <2>3, AnswerFits
  <2> QED BY <1>1, <2>4 DEF Inv, Requests
<1> QED BY <1>4, <1>5

LEMMA RemoteKeeps ==
  ASSUME Inv, NEW c \in Conn, CmdRemote(c)
  PROVE  Inv'
<1>1. PICK n \in Brings, moved \in BOOLEAN :
        LET here == Brought(c, n)
            adopts == n = 1 /\ server.remoteClient = None
            withClient == IF adopts THEN [server EXCEPT !.remoteClient = c] ELSE server
            conns == IF n = 1 THEN [here EXCEPT ![c].fds = adopt_remote_client(server, @)] ELSE here
            after == IF moved THEN remote_attach(withClient) ELSE withClient
        IN /\ Requests(c, n) /\ server.shadowClient = None
           /\ IF n = 1 /\ ~adopts THEN Answer(server, conns, c, n, FALSE)
              ELSE Answer(after, Tells(server, after.locked, conns), c, n, ~moved \/ n = 3)
  BY DEF CmdRemote
<1> DEFINE here == Brought(c, n)
           adopts == n = 1 /\ server.remoteClient = None
           withClient == IF adopts THEN [server EXCEPT !.remoteClient = c] ELSE server
           conns == IF n = 1 THEN [here EXCEPT ![c].fds = adopt_remote_client(server, @)] ELSE here
           after == IF moved THEN remote_attach(withClient) ELSE withClient
<1>2. /\ Fits(server, here) /\ here[c].phase = "waiting" /\ here[c].fds = IF n = 0 THEN "none" ELSE "here"
      /\ c \notin {server.remoteClient, server.shadowClient}
  BY <1>1, BroughtFits
<1>3. server \in ServerType /\ c # None /\ here \in [Conn -> ConnType]
  BY <1>2, Bounds DEF Fits
<1>4. CASE n = 1 /\ ~adopts
  <2>1. Answer(server, [here EXCEPT ![c].fds = "closed"], c, n, FALSE)
    <3>1. Answer(server, conns, c, n, FALSE)
      BY <1>1, <1>4
    <3>2. adopt_remote_client(server, here[c].fds) = "closed"
      BY <1>2, <1>4 DEF adopt_remote_client, Close
    <3>3. conns = [here EXCEPT ![c].fds = "closed"]
      BY <1>4, <3>2
    <3> QED BY <3>1, <3>3
  <2>2. "closed" \in Disposal \ {"twice"}
    BY DEF Disposal
  <2> HIDE DEF here
  <2>3. Fits(server, [here EXCEPT ![c].fds = "closed"]) /\ [here EXCEPT ![c].fds = "closed"][c].phase = "waiting"
    BY <1>2, <2>2, FdsFit
  <2>4. Fits(server', conn')
    BY <1>1, <2>1, <2>3, AnswerFits
  <2> QED BY <1>1, <2>4 DEF Inv, Requests
<1>5. CASE ~(n = 1 /\ ~adopts)
  <2>1. Answer(after, Tells(server, after.locked, conns), c, n, ~moved \/ n = 3) /\ server.shadowClient = None
    BY <1>1, <1>5
  <2>2. /\ Fits(withClient, conns) /\ conns[c].phase = "waiting"
        /\ n = 3 => conns[c].fds = "here"
        /\ n = 1 => withClient.remoteClient # None
        /\ withClient.locked = server.locked
    <3>1. CASE adopts
      <4>1. /\ withClient = [server EXCEPT !.remoteClient = c] /\ conns = [here EXCEPT ![c].fds = "adopted"]
            /\ n = 1 /\ server.remoteClient = None
        BY <3>1 DEF adopt_remote_client
      <4>2. withClient.remoteClient = c /\ withClient.locked = server.locked /\ conns[c].phase = "waiting"
        BY <1>2, <1>3, <4>1 DEF ServerType, ConnType
      <4> HIDE DEF here
      <4>3. Fits([server EXCEPT !.remoteClient = c], [here EXCEPT ![c].fds = "adopted"])
        BY <1>2, <2>1, <4>1, AdoptFits
      <4> QED BY <1>3, <4>1, <4>2, <4>3
    <3>2. CASE ~adopts
      <4>1. withClient = server /\ conns = here /\ n # 1
        BY <1>5, <3>2
      <4> QED BY <1>2, <4>1
    <3> QED BY <3>1, <3>2
  <2> HIDE DEF here, adopts, withClient, conns
  <2>3. /\ after.locked \in BOOLEAN /\ after \in ServerType
        /\ after.holds = withClient.holds /\ after.inhibitors = withClient.inhibitors /\ after.inhibited = withClient.inhibited
        /\ after.remoteClient = withClient.remoteClient /\ after.shadowClient = withClient.shadowClient
    <3>1. withClient \in ServerType
      BY <2>2 DEF Fits
    <3> QED BY <3>1 DEF remote_attach, ServerType
  <2> DEFINE told == Tells(withClient, after.locked, conns)
             between == [withClient EXCEPT !.locked = after.locked]
  <2>4. told = Tells(server, after.locked, conns)
    BY <2>2 DEF Tells
  <2> HIDE DEF after
  <2>5. Fits(between, told) /\ told[c].phase = "waiting" /\ told[c].fds = conns[c].fds
    <3>1. \A locked \in BOOLEAN :
            /\ Fits([withClient EXCEPT !.locked = locked], Tells(withClient, locked, conns))
            /\ Tells(withClient, locked, conns)[c].fds = conns[c].fds
            /\ Tells(withClient, locked, conns)[c].phase = conns[c].phase
      BY <2>2, TellsFit
    <3> QED BY <2>2, <2>3, <3>1
  <2>6. /\ between.locked = after.locked /\ between.holds = after.holds /\ between.inhibitors = after.inhibitors
        /\ between.inhibited = after.inhibited /\ between.remoteClient = after.remoteClient
        /\ between.shadowClient = after.shadowClient
    BY <2>2, <2>3 DEF Fits, ServerType
  <2> HIDE DEF told, between
  <2>7. Fits(after, told)
    BY <2>3, <2>5, <2>6, SameFits
  <2>8. (~moved \/ n = 3) /\ n # 0 => told[c].fds = "here" \/ (n = 1 /\ after.remoteClient # None)
    BY <2>2, <2>3, <2>5 DEF Brings
  <2>9. Answer(after, told, c, n, ~moved \/ n = 3)
    BY <2>1, <2>4
  <2>10. Fits(server', conn')
    BY <2>5, <2>7, <2>8, <2>9, AnswerFits
  <2> QED BY <1>1, <2>10 DEF Inv, Requests
<1> QED BY <1>4, <1>5

(* The notifier is told what is counted.                                   *)
LEMMA CheckActive ==
  ASSUME NEW s \in ServerType
  PROVE  /\ idle_inhibit_v1_check_active(s) \in ServerType
         /\ idle_inhibit_v1_check_active(s).inhibited = (s.inhibitors \/ s.holds > 0)
         /\ idle_inhibit_v1_check_active(s).holds = s.holds
         /\ idle_inhibit_v1_check_active(s).inhibitors = s.inhibitors
         /\ idle_inhibit_v1_check_active(s).locked = s.locked
         /\ idle_inhibit_v1_check_active(s).remoteClient = s.remoteClient
         /\ idle_inhibit_v1_check_active(s).shadowClient = s.shadowClient
BY DEF idle_inhibit_v1_check_active, ServerType

(* Another number of holds, or surface that holds, and those who hold.     *)
LEMMA CountedFits ==
  ASSUME NEW s, NEW conns, Fits(s, conns), NEW c \in Conn, NEW k \in ConnType,
         c \in {s.remoteClient, s.shadowClient} => k.fds = "adopted",
         k.fds # "twice", k.phase \notin {"none", "session"},
         NEW t \in ServerType, t.locked = s.locked, t.remoteClient = s.remoteClient, t.shadowClient = s.shadowClient,
         t.holds = Cardinality(Holding([conns EXCEPT ![c] = k]))
  PROVE  Fits(idle_inhibit_v1_check_active(t), [conns EXCEPT ![c] = k])
<1> DEFINE u == idle_inhibit_v1_check_active(t)
           new == [conns EXCEPT ![c] = k]
<1>1. s \in ServerType /\ conns \in [Conn -> ConnType] /\ new \in [Conn -> ConnType]
  BY DEF Fits
<1>2. \A d \in Conn : new[d] = IF d = c THEN k ELSE conns[d]
  BY <1>1
<1>3. /\ u \in ServerType /\ u.holds = t.holds /\ u.inhibitors = t.inhibitors /\ u.locked = s.locked
      /\ u.remoteClient = s.remoteClient /\ u.shadowClient = s.shadowClient
      /\ u.inhibited = (t.inhibitors \/ t.holds > 0)
  BY CheckActive
<1> HIDE DEF u, new
<1>4. HoldsFit(u, new)
  BY <1>3 DEF HoldsFit, new
<1>5. WatchersFit(u, new) /\ OwnersFit(u, new)
  BY <1>2, <1>3 DEF Fits, WatchersFit, OwnersFit
<1> QED BY <1>1, <1>3, <1>4, <1>5 DEF Fits, new, u

LEMMA InhibitKeeps ==
  ASSUME Inv, NEW c \in Conn, CmdInhibit(c)
  PROVE  Inv'
<1>1. PICK n \in Brings :
        LET here == Brought(c, n)
            held == Inhibited([server EXCEPT !.holds = @ + 1])
        IN /\ Requests(c, n)
           /\ server' = IF conn[c].hungUp THEN idle_inhibit_v1_check_active([held EXCEPT !.holds = @ - 1]) ELSE held
           /\ conn' = [here EXCEPT ![c] = Kept(@, "inhibit")]
  BY DEF CmdInhibit
<1> DEFINE here == Brought(c, n)
           k == Kept(here[c], "inhibit")
           new == [here EXCEPT ![c] = k]
<1>2. /\ Fits(server, here) /\ here[c].phase = "waiting" /\ c \notin {server.remoteClient, server.shadowClient}
      /\ here[c].fds \in {"none", "here"} /\ here[c].hungUp = conn[c].hungUp
  BY <1>1, BroughtFits
<1>3. /\ here \in [Conn -> ConnType] /\ server \in ServerType /\ server.holds \in Nat
      /\ server.holds = Cardinality(Holding(here)) /\ server.inhibitors \in BOOLEAN
  BY <1>2 DEF Fits, ServerType, HoldsFit
<1>4. k \in ConnType /\ k.fds # "twice" /\ k.phase = IF conn[c].hungUp THEN "closed" ELSE "inhibit"
  BY <1>2, <1>3, KeptIs
<1>5. conn' = new
  BY <1>1
<1> HIDE DEF here, k
<1> DEFINE more == [server EXCEPT !.holds = server.holds + 1]
           held == Inhibited(more)
           same == [held EXCEPT !.holds = held.holds - 1]
<1>6. /\ more \in ServerType /\ more.holds = server.holds + 1 /\ more.locked = server.locked
      /\ more.remoteClient = server.remoteClient /\ more.shadowClient = server.shadowClient
  BY <1>3 DEF ServerType
<1>7. server' = IF conn[c].hungUp THEN idle_inhibit_v1_check_active(same) ELSE held
  BY <1>1
<1> HIDE DEF more
<1>8. /\ held = idle_inhibit_v1_check_active(more)
      /\ same \in ServerType /\ same.holds = server.holds /\ same.locked = server.locked
      /\ same.remoteClient = server.remoteClient /\ same.shadowClient = server.shadowClient
  <2>1. held = idle_inhibit_v1_check_active(more)
    BY DEF Inhibited
  <2>2. /\ held \in ServerType /\ held.locked = server.locked /\ held.holds = server.holds + 1
        /\ held.remoteClient = server.remoteClient /\ held.shadowClient = server.shadowClient
    BY <1>6, <2>1, CheckActive
  <2> HIDE DEF held
  <2>3. held.holds - 1 = server.holds
    BY <1>3, <2>2
  <2> QED BY <1>3, <2>1, <2>2, <2>3 DEF ServerType
<1> HIDE DEF held, same
<1>9. Fits(server', new)
  <2>1. CASE conn[c].hungUp
    <3>1. server' = idle_inhibit_v1_check_active(same)
      BY <1>7, <2>1
    <3>2. Holding(new) = Holding(here)
      BY <1>2, <1>3, <1>4, <2>1 DEF Holding
    <3>3. same.holds = Cardinality(Holding(new)) /\ k.phase = "closed"
      BY <1>3, <1>4, <1>8, <2>1, <3>2
    <3> QED BY <1>2, <1>4, <1>8, <3>1, <3>3, CountedFits
  <2>2. CASE ~conn[c].hungUp
    <3>1. server' = idle_inhibit_v1_check_active(more)
      BY <1>7, <1>8, <2>2
    <3>2. Holding(new) = Holding(here) \cup {c} /\ c \notin Holding(here)
      BY <1>2, <1>3, <1>4, <2>2 DEF Holding
    <3>3. Cardinality(Holding(new)) = server.holds + 1
      <4>1. Cardinality(Holding(here) \cup {c}) = Cardinality(Holding(here)) + 1
        BY <3>2, HoldingFinite, FS_AddElement
      <4> QED BY <1>3, <3>2, <4>1
    <3>4. more.holds = Cardinality(Holding(new)) /\ k.phase = "inhibit"
      BY <1>4, <1>6, <2>2, <3>3
    <3> QED BY <1>2, <1>4, <1>6, <3>1, <3>4, CountedFits
  <2> QED BY <2>1, <2>2
<1> QED BY <1>1, <1>5, <1>9 DEF Inv, Requests

----------------------------------------------------------------------------
(* What else the loop does, and the peers.                                 *)

LEMMA InhibitEventKeeps ==
  ASSUME Inv, NEW c \in Conn, handle_inhibit_event(c)
  PROVE  Inv'
<1> DEFINE k == [conn[c] EXCEPT !.phase = "closed"]
           new == [conn EXCEPT ![c] = k]
<1>1. /\ serving' = None /\ conn[c].phase = "inhibit" /\ conn' = new
      /\ server' = idle_inhibit_v1_check_active([server EXCEPT !.holds = @ - 1])
  BY DEF handle_inhibit_event
<1>2. Fits(server, conn)
  BY DEF Inv
<1>3. /\ conn \in [Conn -> ConnType] /\ server \in ServerType /\ server.holds \in Nat
      /\ server.holds = Cardinality(Holding(conn)) /\ server.inhibitors \in BOOLEAN
      /\ conn[c].fds # "twice" /\ (c \in {server.remoteClient, server.shadowClient} => conn[c].fds = "adopted")
  BY <1>2 DEF Fits, ServerType, HoldsFit, OwnersFit
<1>4. k \in ConnType /\ k.fds = conn[c].fds /\ k.phase = "closed"
  BY <1>3 DEF ConnType
<1> HIDE DEF k
<1>5. Holding(new) = Holding(conn) \ {c} /\ c \in Holding(conn)
  BY <1>1, <1>3, <1>4 DEF Holding
<1>6. server.holds - 1 \in Nat /\ Cardinality(Holding(new)) = server.holds - 1
  <2>1. Cardinality(Holding(new)) = server.holds - 1 /\ Cardinality(Holding(new)) \in Nat
    <3>1. IsFiniteSet(Holding(conn)) /\ IsFiniteSet(Holding(conn) \ {c})
      BY HoldingFinite, FS_RemoveElement
    <3>2. Cardinality(Holding(conn) \ {c}) = Cardinality(Holding(conn)) - 1
      BY <1>5, <3>1, FS_RemoveElement
    <3>3. Cardinality(Holding(conn) \ {c}) \in Nat
      BY <3>1, FS_CardinalityType
    <3> QED BY <1>3, <1>5, <3>2, <3>3
  <2> QED BY <2>1
<1> DEFINE t == [server EXCEPT !.holds = server.holds - 1]
<1>7. /\ t \in ServerType /\ t.holds = server.holds - 1 /\ t.locked = server.locked
      /\ t.remoteClient = server.remoteClient /\ t.shadowClient = server.shadowClient
  BY <1>3, <1>6 DEF ServerType
<1>8. server' = idle_inhibit_v1_check_active(t)
  BY <1>1
<1> HIDE DEF t
<1>9. Fits(server', new)
  BY <1>2, <1>3, <1>4, <1>6, <1>7, <1>8, CountedFits
<1> QED BY <1>1, <1>9 DEF Inv

(* A surface that holds idle off comes or goes.                            *)
LEMMA InhibitorKeeps ==
  ASSUME Inv, handle_idle_inhibitor_v1_new \/ handle_destroy
  PROVE  Inv'
<1>1. PICK b \in BOOLEAN : server' = idle_inhibit_v1_check_active([server EXCEPT !.inhibitors = b])
  BY DEF handle_idle_inhibitor_v1_new, handle_destroy
<1>2. Fits(server, conn) /\ UNCHANGED <<conn, serving>>
  BY DEF Inv, handle_idle_inhibitor_v1_new, handle_destroy
<1> DEFINE t == [server EXCEPT !.inhibitors = b]
<1>3. /\ t \in ServerType /\ t.holds = server.holds /\ t.inhibitors = b /\ t.locked = server.locked
      /\ t.remoteClient = server.remoteClient /\ t.shadowClient = server.shadowClient
  BY <1>2 DEF Fits, ServerType
<1> HIDE DEF t
<1>4. /\ server' \in ServerType /\ server'.holds = server.holds /\ server'.locked = server.locked
      /\ server'.remoteClient = server.remoteClient /\ server'.shadowClient = server.shadowClient
      /\ server'.inhibited = (server'.inhibitors \/ server'.holds > 0)
  BY <1>1, <1>3, CheckActive DEF t
<1>5. Fits(server', conn)
  BY <1>2, <1>4 DEF Fits, HoldsFit, WatchersFit, OwnersFit
<1> QED BY <1>2, <1>5 DEF Inv

LEMMA WatcherEventKeeps ==
  ASSUME Inv, NEW c \in Conn, handle_watcher_event(c)
  PROVE  Inv'
<1> DEFINE k == [conn[c] EXCEPT !.phase = "closed"]
<1>1. serving' = None /\ conn[c].phase = "session" /\ conn' = [conn EXCEPT ![c] = k] /\ server' = server
  BY DEF handle_watcher_event
<1>2. Fits(server, conn)
  BY DEF Inv
<1>3. /\ conn[c] \in ConnType /\ conn[c].fds # "twice"
      /\ c \in {server.remoteClient, server.shadowClient} => conn[c].fds = "adopted"
  BY <1>2 DEF Fits, OwnersFit
<1>4. k \in ConnType /\ k.fds = conn[c].fds /\ k.phase = "closed"
  BY <1>3 DEF ConnType
<1> HIDE DEF k
<1>5. Fits(server, [conn EXCEPT ![c] = k])
  BY <1>1, <1>2, <1>3, <1>4, PutFits
<1> QED BY <1>1, <1>5 DEF Inv

(* A descriptor whose client goes is closed.                               *)
LEMMA EndKeeps ==
  ASSUME Inv, handle_remote_client_destroy \/ handle_shadow_client_destroy \/ \E c \in Conn : DisplayEnds(c)
  PROVE  Inv'
<1>1. Fits(server, conn) /\ server \in ServerType /\ "closed" \in Disposal \ {"twice"}
  BY DEF Inv, Fits, Disposal
<1>2. CASE handle_remote_client_destroy
  <2> DEFINE u == [server EXCEPT !.remoteClient = None]
             left == Without(server, conn)
             back == remote_detach(server)
  <2>1. /\ serving' = None /\ server' = [back EXCEPT !.remoteClient = None]
        /\ conn' = IF server.remote THEN Tells(server, TRUE, Without(server, left)) ELSE left
    BY <1>2 DEF handle_remote_client_destroy, Detached
  <2>2. Fits(u, left)
    BY <1>1, WithoutFits
  <2>3. CASE ~server.remote
    BY <2>1, <2>2, <2>3 DEF Inv, remote_detach
  <2>4. CASE server.remote
    <3>1. Without(server, left) = left
      <4>1. server.remoteClient \in Conn /\ conn \in [Conn -> ConnType]
        BY <1>1, <1>2 DEF handle_remote_client_destroy, ServerType, Fits
      <4>2. left = [conn EXCEPT ![server.remoteClient].fds = "closed"]
        BY <1>2 DEF Without, handle_remote_client_destroy
      <4>3. left[server.remoteClient].fds = "closed"
        BY <4>1, <4>2 DEF ConnType
      <4>4. Without(server, left) = [left EXCEPT ![server.remoteClient].fds = "closed"]
        BY <1>2 DEF Without, handle_remote_client_destroy
      <4>5. left \in [Conn -> ConnType] /\ [left[server.remoteClient] EXCEPT !.fds = "closed"] = left[server.remoteClient]
        <5>1. left \in [Conn -> ConnType]
          BY <2>2 DEF Fits
        <5> HIDE DEF left
        <5> QED BY <4>1, <4>3, <5>1 DEF ConnType
      <4> HIDE DEF left
      <4> QED BY <4>1, <4>4, <4>5
    <3>2. u.locked = server.locked
      BY <1>1 DEF ServerType
    <3>3. Tells(server, TRUE, left) = Tells(u, TRUE, left)
      BY <3>2 DEF Tells
    <3> DEFINE t == [back EXCEPT !.remoteClient = None]
               between == [u EXCEPT !.locked = TRUE]
    <3>4. /\ t \in ServerType /\ t.locked = between.locked /\ t.holds = between.holds
          /\ t.inhibitors = between.inhibitors /\ t.inhibited = between.inhibited
          /\ t.remoteClient = None /\ t.shadowClient = between.shadowClient
      BY <1>1, <2>4 DEF ServerType, remote_detach
    <3> HIDE DEF t, u, left, back
    <3>5. \A locked \in BOOLEAN : Fits([u EXCEPT !.locked = locked], Tells(u, locked, left))
      BY <2>2, TellsFit
    <3>6. Fits(between, Tells(u, TRUE, left))
      BY <3>5
    <3> HIDE DEF between
    <3>7. Fits(t, Tells(u, TRUE, left))
      BY <3>4, <3>6, SameFits
    <3>8. server' = t /\ conn' = Tells(u, TRUE, left)
      BY <2>1, <2>4, <3>1, <3>3 DEF t
    <3> QED BY <2>1, <3>7, <3>8 DEF Inv
  <2> QED BY <2>3, <2>4
<1>3. CASE handle_shadow_client_destroy
  <2> DEFINE t == [server EXCEPT !.shadowClient = None]
  <2>1. /\ serving' = None /\ server' = t /\ conn' = [conn EXCEPT ![server.shadowClient].fds = "closed"]
        /\ server.shadowClient \in Conn
    BY <1>1, <1>3 DEF handle_shadow_client_destroy, ServerType
  <2>2. /\ t \in ServerType /\ t.locked = server.locked /\ t.holds = server.holds /\ t.inhibitors = server.inhibitors
        /\ t.inhibited = server.inhibited /\ t.remoteClient = server.remoteClient /\ t.shadowClient = None
    BY <1>1 DEF ServerType
  <2> HIDE DEF t
  <2>3. Fits(t, conn)
    BY <1>1, <2>2, SameFits
  <2>4. server.shadowClient \notin {t.remoteClient, t.shadowClient} /\ conn[server.shadowClient].phase # "none"
    BY <1>1, <2>1, <2>2, Bounds DEF Fits, OwnersFit
  <2>5. Fits(t, [conn EXCEPT ![server.shadowClient].fds = "closed"])
    BY <1>1, <2>1, <2>3, <2>4, FdsFit
  <2> QED BY <2>1, <2>5 DEF Inv
<1>4. ASSUME NEW c \in Conn, DisplayEnds(c) PROVE Inv'
  <2>1. /\ serving' = None /\ server' = server /\ conn' = [conn EXCEPT ![c].fds = "closed"]
        /\ c \notin {server.remoteClient, server.shadowClient} /\ conn[c].phase # "none"
    BY <1>1, <1>4 DEF DisplayEnds, Fits, OwnersFit
  <2>2. Fits(server, [conn EXCEPT ![c].fds = "closed"])
    BY <1>1, <2>1, FdsFit
  <2> QED BY <2>1, <2>2 DEF Inv
<1> QED BY <1>2, <1>3, <1>4

LEMMA PeersKeep ==
  ASSUME Inv, NEW c \in Conn, Connect(c) \/ HangUp(c) \/ ReadAll(c)
  PROVE  Inv'
<1>1. /\ Fits(server, conn) /\ conn \in [Conn -> ConnType] /\ conn[c] \in ConnType /\ 0 \in 0..Room
      /\ conn[c].phase = "session" => conn[c].heard = server.locked
      /\ conn[c].fds # "twice" /\ (conn[c].phase = "none" => conn[c].fds = "none")
      /\ c \in {server.remoteClient, server.shadowClient} => conn[c].fds = "adopted"
  BY Bounds DEF Inv, Fits, WatchersFit, OwnersFit
<1>2. CASE Connect(c)
  <2> DEFINE k == [Unused EXCEPT !.phase = "waiting"]
  <2>1. conn' = [conn EXCEPT ![c] = k] /\ UNCHANGED <<serving, server>> /\ serving # c
        /\ c \notin {server.remoteClient, server.shadowClient} /\ conn[c].phase # "inhibit"
    BY <1>1, <1>2, Bounds DEF Connect, Inv
  <2>2. k \in ConnType /\ k.phase = "waiting" /\ k.fds = "none"
    BY <1>1 DEF Unused, ConnType, Disposal
  <2> HIDE DEF k
  <2>3. Fits(server, [conn EXCEPT ![c] = k])
    BY <1>1, <2>1, <2>2, PutFits
  <2> QED BY <1>1, <2>1, <2>3 DEF Inv
<1>3. CASE HangUp(c) \/ ReadAll(c)
  <2>1. PICK b \in BOOLEAN : conn' = [conn EXCEPT ![c] = [conn[c] EXCEPT !.hungUp = b, !.unread = 0]]
    <3>1. CASE HangUp(c)
      BY <3>1 DEF HangUp
    <3>2. CASE ReadAll(c)
      <4>1. [conn[c] EXCEPT !.unread = 0] = [conn[c] EXCEPT !.hungUp = conn[c].hungUp, !.unread = 0]
            /\ conn[c].hungUp \in BOOLEAN
        BY <1>1 DEF ConnType
      <4>2. conn' = [conn EXCEPT ![c] = [conn[c] EXCEPT !.unread = 0]]
        BY <3>2 DEF ReadAll
      <4> QED BY <4>1, <4>2
    <3> QED BY <1>3, <3>1, <3>2
  <2> DEFINE k == [conn[c] EXCEPT !.hungUp = b, !.unread = 0]
  <2>2. k \in ConnType /\ k.phase = conn[c].phase /\ k.fds = conn[c].fds /\ k.heard = conn[c].heard
    BY <1>1 DEF ConnType
  <2> HIDE DEF k
  <2>3. conn' = [conn EXCEPT ![c] = k] /\ UNCHANGED <<serving, server>>
    BY <1>3, <2>1 DEF HangUp, ReadAll, k
  <2>4. Fits(server, [conn EXCEPT ![c] = k])
    BY <1>1, <2>2, PutFits
  <2> QED BY <1>1, <2>2, <2>3, <2>4 DEF Inv
<1> QED BY <1>2, <1>3

LEMMA AcceptKeeps ==
  ASSUME Inv, NEW c \in Conn, accept(c)
  PROVE  Inv'
BY DEF Inv, accept

LEMMA NextKeeps == Inv /\ [Next]_vars => Inv'
<1> SUFFICES ASSUME Inv, [Next]_vars PROVE Inv'
  OBVIOUS
<1>1. ASSUME NEW c \in Conn, Served(c) PROVE Inv'
  BY <1>1, RefusedKeeps, SessionKeeps, InhibitKeeps, LockKeeps, RemoteKeeps, ShadowKeeps, ElevatedKeeps, LocalKeeps
     DEF Served
<1>2. ASSUME NEW c \in Conn, Loop(c) PROVE Inv'
  BY <1>1, <1>2, AcceptKeeps, RefusedKeeps, WatcherEventKeeps, InhibitEventKeeps DEF Loop
<1>3. CASE UNCHANGED vars
  BY <1>3 DEF vars, Inv
<1> QED BY <1>2, <1>3, PeersKeep, InhibitorKeeps, EndKeeps DEF Next, Peers

LEMMA InitInv == Init => Inv
<1> SUFFICES ASSUME Init PROVE Inv
  OBVIOUS
<1>1. conn = [c \in Conn |-> Unused] /\ serving = None
  BY DEF Init
<1>2. Unused \in ConnType /\ Unused.phase = "none" /\ Unused.fds = "none"
  BY Bounds DEF Unused, ConnType, Disposal
<1>3. /\ server \in ServerType /\ server.holds = 0 /\ ~server.inhibitors /\ ~server.inhibited
      /\ server.remoteClient = None /\ server.shadowClient = None
  BY DEF Init, ServerType
<1> HIDE DEF Unused
<1>4. conn \in [Conn -> ConnType] /\ \A c \in Conn : conn[c] = Unused
  BY <1>1, <1>2
<1>5. Holding(conn) = {}
  BY <1>2, <1>4 DEF Holding
<1>6. HoldsFit(server, conn)
  <2>1. Cardinality(Holding(conn)) = 0
    BY <1>5, FS_EmptySet
  <2>2. server.inhibited = FALSE /\ server.inhibitors = FALSE /\ server.holds = 0
    BY DEF Init
  <2>3. ~(server.holds > 0)
    BY <2>2
  <2> QED BY <2>1, <2>2, <2>3, Zenon DEF HoldsFit
<1>7. WatchersFit(server, conn) /\ OwnersFit(server, conn)
  BY <1>2, <1>3, <1>4, Bounds DEF WatchersFit, OwnersFit
<1> QED BY <1>1, <1>3, <1>4, <1>6, <1>7 DEF Inv, Fits

----------------------------------------------------------------------------
(* The theorems.                                                           *)

(* For any connections: types, and what is counted, told, closed and owned *)
(* agrees, whoever hangs up, does not read, or goes with what it brought.  *)
THEOREM ConnectionsStaySound == Spec => []ConnectionsSound
<1>1. Init => Inv BY InitInv
<1>2. Inv /\ [Next]_vars => Inv' BY NextKeeps
<1>3. Inv => ConnectionsSound BY InvSound
<1> QED BY <1>1, <1>2, <1>3, PTL DEF Spec

(* No descriptor is closed twice, or closed while a client has it.         *)
THEOREM DescriptorsClosedOnce == Spec => []ClosedOnce
<1>1. ConnectionsSound => ClosedOnce BY DEF ConnectionsSound
<1> QED BY <1>1, ConnectionsStaySound, PTL

(* Idle is held off while something holds it, and the notifier knows.      *)
THEOREM HoldsStayMatched == Spec => []HoldsMatch
<1>1. ConnectionsSound => HoldsMatch BY DEF ConnectionsSound
<1> QED BY <1>1, ConnectionsStaySound, PTL

----------------------------------------------------------------------------
(* What is lost.                                                           *)

Lost(conns) == {c \in Conn : conns[c].fds = "lost"}

(* The clean-up leaves nothing of a request's to be lost, unless a remote  *)
(* connection stands where it looks.                                       *)
LEMMA AnswerLoses ==
  ASSUME NEW s, NEW conns \in [Conn -> ConnType], NEW c \in Conn, NEW n \in Brings, NEW ours,
         s.remoteClient \in Conn \cup {None},
         conns[c].fds = "here" => ours /\ n # 0 /\ s.remoteClient = None,
         Answer(s, conns, c, n, ours)
  PROVE  Lost(conn') \subseteq Lost(conns)
<1> DEFINE cleaned == CleanUp(s, conns, c, n, ours)
<1>1. conn' = Ends(cleaned, c)
  BY DEF Answer
<1>2. /\ cleaned \in [Conn -> ConnType]
      /\ Lost(cleaned) \subseteq Lost(conns) /\ cleaned[c].fds # "here"
  <2>1. ASSUME NEW d \in Conn, NEW fds \in {"closed", "twice"}
        PROVE  LET new == [conns EXCEPT ![d].fds = fds]
               IN  /\ new \in [Conn -> ConnType] /\ Lost(new) \subseteq Lost(conns)
                   /\ new[d].fds = fds /\ \A e \in Conn \ {d} : new[e] = conns[e]
    <3> DEFINE k == [conns[d] EXCEPT !.fds = fds]
               new == [conns EXCEPT ![d] = k]
    <3>1. k \in ConnType /\ k.fds = fds
      BY DEF ConnType, Disposal
    <3> HIDE DEF k
    <3>2. new \in [Conn -> ConnType] /\ new[d] = k /\ \A e \in Conn \ {d} : new[e] = conns[e]
      BY <3>1
    <3>3. Lost(new) \subseteq Lost(conns)
      BY <3>1, <3>2 DEF Lost
    <3> QED BY <3>1, <3>2, <3>3 DEF k
  <2>2. CASE ~ours \/ n = 0
    <3>1. cleaned = conns
      BY <2>2 DEF CleanUp
    <3> QED BY <2>2, <3>1
  <2>3. CASE ours /\ n = 1 /\ s.remoteClient # None
    <3>1. cleaned = IF s.remote THEN conns ELSE [conns EXCEPT ![s.remoteClient].fds = "closed"]
      BY <2>3 DEF CleanUp, Without
    <3> DEFINE other == [conns EXCEPT ![s.remoteClient].fds = "closed"]
    <3>2. conns[c].fds # "here" /\ s.remoteClient \in Conn
      BY <2>3
    <3>3. /\ other \in [Conn -> ConnType] /\ Lost(other) \subseteq Lost(conns) /\ other[s.remoteClient].fds = "closed"
          /\ \A e \in Conn \ {s.remoteClient} : other[e] = conns[e]
      BY <2>1, <3>2
    <3> HIDE DEF cleaned, other
    <3>4. other[c].fds # "here"
      BY <3>2, <3>3
    <3> QED BY <3>1, <3>2, <3>3, <3>4 DEF other
  <2>4. CASE ours /\ n # 0 /\ ~(n = 1 /\ s.remoteClient # None)
    BY <2>1, <2>4 DEF CleanUp, Close
  <2> QED BY <2>2, <2>3, <2>4 DEF CleanUp
<1> HIDE DEF cleaned
<1>3. Lost(Ends(cleaned, c)) \subseteq Lost(cleaned)
  <2> DEFINE k == [Lose(cleaned[c]) EXCEPT !.phase = "closed"]
  <2>1. cleaned[c] \in ConnType /\ Lose(cleaned[c]) = cleaned[c]
    BY <1>2 DEF Lose
  <2>2. k.fds = cleaned[c].fds
    BY <2>1 DEF ConnType
  <2>3. Ends(cleaned, c) = [cleaned EXCEPT ![c] = k]
    BY DEF Ends
  <2> HIDE DEF k
  <2> QED BY <1>2, <2>2, <2>3 DEF Lost
<1> QED BY <1>1, <1>2, <1>3

(* A request that is answered and closed loses nothing, unless a remote     *)
(* connection is there or another answer is.                               *)
LEMMA ServedLoses ==
  ASSUME Inv, server.remoteClient = None, NEW c \in Conn,
         Refused(c) \/ Timeout(c) \/ CmdLock(c) \/ CmdRemote(c) \/ CmdShadow(c) \/ CmdElevated(c) \/ CmdLocal(c)
  PROVE  Lost(conn') \subseteq Lost(conn)
<1>1. ASSUME NEW n \in Brings, Requests(c, n)
      PROVE  /\ Brought(c, n) \in [Conn -> ConnType] /\ Lost(Brought(c, n)) \subseteq Lost(conn)
             /\ Fits(server, Brought(c, n)) /\ Brought(c, n)[c].fds = IF n = 0 THEN "none" ELSE "here"
  <2>1. Fits(server, Brought(c, n)) /\ Brought(c, n)[c].fds = IF n = 0 THEN "none" ELSE "here"
    BY <1>1, BroughtFits
  <2>2. \A d \in Conn \ {c} : Brought(c, n)[d] = conn[d]
    BY DEF Inv, Fits, Brought
  <2> QED BY <2>1, <2>2 DEF Fits, Lost
<1>2. ASSUME NEW conns \in [Conn -> ConnType], NEW fds \in {"adopted", "closed"}
      PROVE  LET new == [conns EXCEPT ![c].fds = fds]
             IN  new \in [Conn -> ConnType] /\ Lost(new) \subseteq Lost(conns) /\ new[c].fds = fds
  <2> DEFINE k == [conns[c] EXCEPT !.fds = fds]
             new == [conns EXCEPT ![c] = k]
  <2>1. k \in ConnType /\ k.fds = fds
    BY DEF ConnType, Disposal
  <2> HIDE DEF k
  <2>2. new \in [Conn -> ConnType] /\ new[c] = k /\ \A e \in Conn \ {c} : new[e] = conns[e]
    BY <2>1
  <2>3. Lost(new) \subseteq Lost(conns)
    BY <2>1, <2>2 DEF Lost
  <2> QED BY <2>1, <2>2, <2>3 DEF k
<1>3. server \in ServerType
  BY DEF Inv, Fits
<1>4. ASSUME Refused(c) \/ Timeout(c) PROVE Lost(conn') \subseteq Lost(conn)
  <2>1. PICK n \in Brings : Requests(c, n) /\ Answer(server, Brought(c, n), c, n, TRUE)
    BY <1>4 DEF Refused, Timeout, Brings, Brought
  <2>2. Lost(conn') \subseteq Lost(Brought(c, n))
    BY <1>1, <2>1, AnswerLoses
  <2> QED BY <1>1, <2>1, <2>2
<1>5. ASSUME NEW s, NEW n \in Brings, NEW locked \in BOOLEAN, NEW ours, NEW here, Fits(server, here),
             Lost(here) \subseteq Lost(conn), s.remoteClient \in Conn \cup {None},
             here[c].fds = "here" => ours /\ n # 0 /\ s.remoteClient = None,
             Answer(s, Tells(server, locked, here), c, n, ours)
      PROVE  Lost(conn') \subseteq Lost(conn)
  <2> DEFINE new == Tells(server, locked, here)
  <2>1. new \in [Conn -> ConnType] /\ \A d \in Conn : new[d].fds = here[d].fds
    <3>1. Fits([server EXCEPT !.locked = locked], new) /\ \A d \in Conn : new[d].fds = here[d].fds
      BY <1>5, TellsFit
    <3> HIDE DEF new
    <3> QED BY <3>1 DEF Fits
  <2>2. Answer(s, new, c, n, ours)
    BY <1>5
  <2> HIDE DEF new
  <2>3. Lost(conn') \subseteq Lost(new)
    BY <1>5, <2>1, <2>2, AnswerLoses
  <2> QED BY <1>5, <2>1, <2>3 DEF Lost
<1>6. ASSUME CmdLock(c) PROVE Lost(conn') \subseteq Lost(conn)
  <2>1. PICK n \in Brings, locked \in BOOLEAN :
          Requests(c, n) /\ Answer([server EXCEPT !.locked = locked], Tells(server, locked, Brought(c, n)), c, n, TRUE)
    BY <1>6 DEF CmdLock
  <2>2. [server EXCEPT !.locked = locked].remoteClient = None
    BY <1>3 DEF ServerType
  <2>3. Brought(c, n)[c].fds = "here" => n # 0
    BY <1>1, <2>1
  <2> QED BY <1>1, <1>5, <2>1, <2>2, <2>3
<1>7. ASSUME CmdElevated(c) PROVE Lost(conn') \subseteq Lost(conn)
  <2>1. PICK fds \in {"adopted", "closed"} :
          Requests(c, 3) /\ Answer(server, [Brought(c, 3) EXCEPT ![c].fds = fds], c, 3, FALSE)
    BY <1>7 DEF CmdElevated
  <2>2. 3 \in Brings
    BY DEF Brings
  <2>3. Lost(conn') \subseteq Lost([Brought(c, 3) EXCEPT ![c].fds = fds])
    BY <1>1, <1>2, <2>1, <2>2, AnswerLoses
  <2> QED BY <1>1, <1>2, <2>1, <2>2, <2>3
<1>8. ASSUME CmdShadow(c) PROVE Lost(conn') \subseteq Lost(conn)
  <2>1. 1 \in Brings /\ Requests(c, 1) /\ Brought(c, 1)[c].fds = "here"
    BY <1>1, <1>8 DEF CmdShadow, Brings
  <2>2. Close(Brought(c, 1)[c].fds) = "closed"
    BY <2>1 DEF Close
  <2>3. PICK s \in {server, [server EXCEPT !.shadowClient = c]}, fds \in {"adopted", "closed"} :
          Answer(s, [Brought(c, 1) EXCEPT ![c].fds = fds], c, 1, FALSE)
    <3>1. CASE server.shadowClient # None \/ server.remoteClient # None \/ server.remote
      <4>1. Answer(server, [Brought(c, 1) EXCEPT ![c].fds = "closed"], c, 1, FALSE)
        BY <1>8, <2>2, <3>1 DEF CmdShadow
      <4> QED BY <4>1
    <3>2. CASE ~(server.shadowClient # None \/ server.remoteClient # None \/ server.remote)
      <4>1. Answer([server EXCEPT !.shadowClient = c], [Brought(c, 1) EXCEPT ![c].fds = "adopted"], c, 1, FALSE)
        BY <1>8, <3>2 DEF CmdShadow
      <4> QED BY <4>1
    <3> QED BY <3>1, <3>2
  <2>4. s.remoteClient = None
    BY <1>3, <2>3 DEF ServerType
  <2>5. Lost(conn') \subseteq Lost([Brought(c, 1) EXCEPT ![c].fds = fds])
    BY <1>1, <1>2, <2>1, <2>3, <2>4, AnswerLoses
  <2> QED BY <1>1, <1>2, <2>1, <2>5
<1>9. ASSUME CmdLocal(c) PROVE Lost(conn') \subseteq Lost(conn)
  <2>1. PICK n \in Brings : Requests(c, n) /\ Answer(remote_detach(server), Detached(server, Brought(c, n)), c, n, TRUE)
    BY <1>9 DEF CmdLocal
  <2>2. PICK locked \in BOOLEAN : Detached(server, Brought(c, n)) = Tells(server, locked, Brought(c, n))
    BY <1>3 DEF Detached, Tells, Without, ServerType
  <2>3. remote_detach(server).remoteClient = None
    BY <1>3 DEF remote_detach, ServerType
  <2>4. Brought(c, n)[c].fds = "here" => n # 0
    BY <1>1, <2>1
  <2>5. Answer(remote_detach(server), Tells(server, locked, Brought(c, n)), c, n, TRUE)
    BY <2>1, <2>2
  <2> QED BY <1>1, <1>5, <2>1, <2>3, <2>4, <2>5
<1>10. ASSUME CmdRemote(c) PROVE Lost(conn') \subseteq Lost(conn)
  <2>1. PICK n \in Brings, moved \in BOOLEAN :
          LET here == Brought(c, n)
              withClient == IF n = 1 THEN [server EXCEPT !.remoteClient = c] ELSE server
              conns == IF n = 1 THEN [here EXCEPT ![c].fds = "adopted"] ELSE here
              after == IF moved THEN remote_attach(withClient) ELSE withClient
          IN /\ Requests(c, n)
             /\ Answer(after, Tells(server, after.locked, conns), c, n, ~moved \/ n = 3)
    BY <1>10 DEF CmdRemote, adopt_remote_client
  <2> DEFINE here == Brought(c, n)
             withClient == IF n = 1 THEN [server EXCEPT !.remoteClient = c] ELSE server
             conns == IF n = 1 THEN [here EXCEPT ![c].fds = "adopted"] ELSE here
             after == IF moved THEN remote_attach(withClient) ELSE withClient
  <2>2. Requests(c, n) /\ Answer(after, Tells(server, after.locked, conns), c, n, ~moved \/ n = 3)
    BY <2>1
  <2>3. after.locked \in BOOLEAN /\ after.remoteClient = IF n = 1 THEN c ELSE None
    BY <1>3 DEF remote_attach, ServerType
  <2>4. /\ Fits(server, conns) /\ Lost(conns) \subseteq Lost(conn)
        /\ conns[c].fds = "here" => n \in Brings \ {0, 1}
    <3>1. here[c].phase # "none" /\ c \notin {server.remoteClient, server.shadowClient} /\ Fits(server, here)
          /\ here[c].fds = (IF n = 0 THEN "none" ELSE "here")
      BY <2>2, BroughtFits
    <3>2. CASE n = 1
      <4>1. "adopted" \in Disposal \ {"twice"}
        BY DEF Disposal
      <4> HIDE DEF here
      <4>2. Fits(server, [here EXCEPT ![c].fds = "adopted"])
        BY <3>1, <4>1, FdsFit
      <4>3. /\ Lost([here EXCEPT ![c].fds = "adopted"]) \subseteq Lost(here)
            /\ [here EXCEPT ![c].fds = "adopted"][c].fds = "adopted"
        BY <1>2, <3>1 DEF Fits
      <4> QED BY <1>1, <2>2, <3>2, <4>2, <4>3 DEF here
    <3>3. CASE n # 1
      BY <1>1, <2>2, <3>1, <3>3
    <3> QED BY <3>2, <3>3
  <2>5. conns[c].fds = "here" => (~moved \/ n = 3) /\ n # 0 /\ after.remoteClient = None
    BY <2>3, <2>4 DEF Brings
  <2> HIDE DEF conns, after
  <2> QED BY <1>5, <2>2, <2>3, <2>4, <2>5
<1> QED BY <1>4, <1>6, <1>7, <1>8, <1>9, <1>10

LEMMA StepLoses ==
  ASSUME Inv, [Next]_vars, server.remoteClient = None, NEW c \in Conn,
         conn[c].fds # "lost", conn'[c].fds = "lost", conn'[c].phase \notin {"session", "inhibit"}
  PROVE  conn[c].hungUp
<1>1. conn \in [Conn -> ConnType] /\ server \in ServerType
  BY DEF Inv, Fits
<1>2. ~(Lost(conn') \subseteq Lost(conn))
  BY DEF Lost
<1>3. ASSUME NEW k \in Conn, NEW r, conn' = [conn EXCEPT ![k] = r], r.fds = "lost" => conn[k].fds = "lost" PROVE FALSE
  BY <1>1, <1>2, <1>3 DEF Lost
<1>4. ASSUME \A d \in Conn : conn'[d].fds \in {conn[d].fds, "closed", "none"} PROVE FALSE
  BY <1>4
<1>5. ASSUME NEW k \in Conn, Connect(k) \/ HangUp(k) \/ ReadAll(k) PROVE FALSE
  BY <1>1, <1>4, <1>5 DEF Connect, HangUp, ReadAll, Unused, ConnType
<1>6. ASSUME NEW k \in Conn, DisplayEnds(k) \/ handle_watcher_event(k) \/ handle_inhibit_event(k) PROVE FALSE
  BY <1>1, <1>4, <1>6 DEF DisplayEnds, handle_watcher_event, handle_inhibit_event, ConnType
<1>7. ASSUME handle_shadow_client_destroy PROVE FALSE
  BY <1>1, <1>4, <1>7 DEF handle_shadow_client_destroy, ConnType
<1>8. ASSUME NEW k \in Conn, CmdSession(k) \/ CmdInhibit(k) PROVE conn[c].hungUp
  <2>1. PICK n \in Brings, as \in {"session", "inhibit"} :
          /\ Requests(k, n)
          /\ \/ conn' = [Brought(k, n) EXCEPT ![k] = Kept(@, as)]
             \/ conn' = [Brought(k, n) EXCEPT ![k] = [Kept(@, as) EXCEPT !.unread = IF conn[k].hungUp THEN 0 ELSE 1,
                                                                         !.heard = server.locked]]
    BY <1>8 DEF CmdSession, CmdInhibit
  <2> DEFINE here == Brought(k, n)
             kept == Kept(here[k], as)
  <2>2. here \in [Conn -> ConnType] /\ here[k].fds \in {"none", "here"} /\ here[k].hungUp = conn[k].hungUp
    BY <2>1, BroughtFits DEF Fits
  <2>3. \A d \in Conn \ {k} : here[d] = conn[d]
    BY <1>1 DEF Brought
  <2> HIDE DEF here
  <2>4. kept \in ConnType /\ kept.phase = IF conn[k].hungUp THEN "closed" ELSE as
    <3>1. here[k] \in ConnType
      BY <2>2
    <3>2. Kept(here[k], as) \in ConnType /\ Kept(here[k], as).phase = IF here[k].hungUp THEN "closed" ELSE as
      BY <2>2, <3>1, KeptIs
    <3> QED BY <2>2, <3>2
  <2>5. PICK r : conn' = [here EXCEPT ![k] = r] /\ r.phase = kept.phase
    <3>1. [kept EXCEPT !.unread = IF conn[k].hungUp THEN 0 ELSE 1, !.heard = server.locked].phase = kept.phase
      BY <2>4 DEF ConnType
    <3> QED BY <2>1, <3>1 DEF here
  <2>6. k = c
    BY <2>2, <2>3, <2>5
  <2> QED BY <2>2, <2>4, <2>5, <2>6
<1>9. ASSUME NEW k \in Conn, accept(k) PROVE FALSE
  BY <1>9 DEF accept
<1> QED BY <1>2, <1>5, <1>6, <1>7, <1>8, <1>9, ServedLoses
        DEF Next, Peers, Loop, Served, handle_idle_inhibitor_v1_new, handle_destroy, handle_remote_client_destroy, vars

(* A request's descriptors are lost only by those that keep their          *)
(* connection, and while there is a remote connection.                     *)
THEOREM BroughtIsDisposed == Spec => Disposed
<1> DEFINE Loses == \A c \in Conn : conn[c].fds # "lost" /\ conn'[c].fds = "lost" =>
                      \/ conn'[c].phase \in {"session", "inhibit"} \/ conn[c].hungUp
                      \/ server.remoteClient # None
<1>1. Inv /\ [Next]_vars => [Loses]_vars
  BY StepLoses
<1>2. Init => Inv BY InitInv
<1>3. Inv /\ [Next]_vars => Inv' BY NextKeeps
<1> QED BY <1>1, <1>2, <1>3, PTL DEF Spec, Disposed
=============================================================================
