------------------------------ MODULE LockMode ------------------------------
(***************************************************************************)
(* The state of struct cg_lock that every other part of the compositor     *)
(* reads -- the three mode flags, the list of privileged clients, whether  *)
(* the session is away -- and the effect on the flags of each entry point  *)
(* of lock.c.  Session adds who is told and who may ask, Isolation adds    *)
(* the windows and the focus.                                              *)
(***************************************************************************)
CONSTANTS
  Client,       \* wl_clients that may come in as privileged ones
  None          \* no client

ASSUME NoneIsNoClient == None \notin Client

VARIABLES
  locked,       \* cg_lock.locked: the isolation is engaged
  secure,       \* cg_lock.secure: ... for a consent prompt
  sas,          \* cg_lock.sas: ... for the security screen
  privileged,   \* cg_lock.privileged
  remote        \* cg_server.remote: Remote Desktop has the session

modeVars == <<locked, secure, sas>>

LockModeTypeOK ==
  /\ locked \in BOOLEAN /\ secure \in BOOLEAN /\ sas \in BOOLEAN
  /\ privileged \subseteq Client
  /\ remote \in BOOLEAN

LockModeInit ==
  /\ locked = FALSE /\ secure = FALSE /\ sas = FALSE
  /\ privileged = {}
  /\ remote = FALSE

Mode == IF ~locked THEN "open"
        ELSE IF secure THEN "secure"
        ELSE IF sas THEN "sas" ELSE "locked"

\* session_locked: the lock as the session's own programs see it.
SessionLocked == locked /\ ~secure /\ ~sas

----------------------------------------------------------------------------
(* The flags after each entry point.                                       *)

\* lock_engage: a prompt or the security screen becomes a real lock.
EngageFlags ==
  \/ locked /\ sas /\ sas' = FALSE /\ UNCHANGED <<locked, secure>>
  \/ locked /\ ~sas /\ secure /\ secure' = FALSE /\ UNCHANGED <<locked, sas>>
  \/ SessionLocked /\ UNCHANGED modeVars
  \/ ~locked /\ locked' = TRUE /\ UNCHANGED <<secure, sas>>

\* lock_secure_engage, when it does not refuse.
SecureFlags == ~locked /\ secure' = TRUE /\ locked' = TRUE /\ UNCHANGED sas

\* lock_sas_engage with a lock service watching.
SasFlags == ~locked /\ sas' = TRUE /\ locked' = TRUE /\ UNCHANGED secure

\* unisolate.
OpenFlags == locked' = FALSE /\ secure' = FALSE /\ sas' = FALSE

\* A prompt and the security screen are never up together, and neither
\* without the isolation: the three flags encode exactly the four modes.
FlagsExclusive == (secure => locked /\ ~sas) /\ (sas => locked)
=============================================================================
