------------------------------ MODULE Passwords ------------------------------
(***************************************************************************)
(* The password of one identity: logins with it and changes of it, as      *)
(* READ COMMITTED transactions over credentials, password_credentials and  *)
(* sessions (SessionStore explains what that means).                       *)
(*                                                                         *)
(*   login   POST /auth/login     login                                    *)
(*   change  PUT /auth/password   rotatePasswordForSubject                 *)
(*                                                                         *)
(* A credential stands for its row and its secret, which are inserted      *)
(* together and never updated but for revoked_at; to know a password is to *)
(* name the credential it belongs to. Logouts, and the locks refreshes     *)
(* hold, are left out: RefreshTokens has the sessions and tokens a change  *)
(* ends in full.                                                           *)
(***************************************************************************)
EXTENDS Naturals, FiniteSets

CONSTANTS
  Clients,      \* connections of the pool
  Credentials,  \* every credential that may be created; a bound
  Sessions,     \* every session that may be created; a bound
  None

ASSUME PasswordsAssumption == None \notin Credentials

VARIABLES
  credential,  \* committed credentials: "absent", "active" or "revoked"
  session,     \* committed sessions: "absent", "active" or why terminated
  openedWith,  \* the credential a session's login was verified against
  tx           \* the request each client serves

vars == <<credential, session, openedWith, tx>>

Request ==
  [ at     : {"idle", "open", "revoke", "insert", "endSessions", "commit"},
    op     : {"none", "login", "change"},
    cred   : Credentials \cup {None},  \* the credential it has verified
    before : SUBSET Sessions,     \* sessions active when it arrived
    held   : SUBSET Credentials,  \* rows locked
    revoked : SUBSET Credentials, \* uncommitted: revoked_at set,
    minted : SUBSET Credentials,  \*   credentials inserted,
    opened : SUBSET Sessions,     \*   sessions inserted,
    ended  : SUBSET Sessions ]    \*   terminated_at set

NoRequest ==
  [ at |-> "idle", op |-> "none", cred |-> None, before |-> {}, held |-> {},
    revoked |-> {}, minted |-> {}, opened |-> {}, ended |-> {} ]

(* terminated_at and termination_reason taken together, as in SessionStore. *)
SessionStates == {"absent", "active", "PASSWORD_CHANGE"}

Active(k) == credential[k] = "active"
ActiveSessions == {s \in Sessions : session[s] = "active"}
Others(c) == Clients \ {c}
Free(c, k) == \A d \in Others(c) : k \notin tx[d].held

Stored == <<credential, session, openedWith>>

-----------------------------------------------------------------------------
(* login *)

(***************************************************************************)
(* The active credential is read and its secret compared, all before BEGIN *)
(* and without a lock. bcrypt then takes its time.                         *)
(***************************************************************************)
BeginLogin(c, k) ==
  /\ tx[c].at = "idle"
  /\ Active(k)
  /\ tx' = [tx EXCEPT ![c] = [NoRequest EXCEPT !.at = "open", !.op = "login",
                                               !.cred = k]]
  /\ UNCHANGED Stored

(* A password that was replaced, or never was one, is refused before BEGIN. *)
RefusePassword(c, k) ==
  /\ tx[c].at = "idle"
  /\ ~Active(k)
  /\ UNCHANGED vars

(* BEGIN and createSessionWithRefreshToken. *)
OpenSession(c, s) ==
  /\ tx[c].at = "open"
  /\ session[s] = "absent" /\ \A d \in Clients : s \notin tx[d].opened
  /\ tx' = [tx EXCEPT ![c].at = "commit", ![c].opened = {s}]
  /\ UNCHANGED Stored

-----------------------------------------------------------------------------
(* change *)

(* The active credential is read, without a lock, and compared. *)
BeginChange(c, k) ==
  /\ tx[c].at = "idle"
  /\ Active(k)
  /\ tx' = [tx EXCEPT ![c] = [NoRequest EXCEPT !.at = "revoke", !.op = "change",
                                               !.cred = k,
                                               !.before = ActiveSessions]]
  /\ UNCHANGED Stored

(* revokeCredential, whose UPDATE finds no row if another change was first: *)
(* its outcome is not looked at.                                            *)
RevokeCredential(c) ==
  LET k == tx[c].cred IN
  /\ tx[c].at = "revoke"
  /\ \/ /\ ~Active(k)
        /\ tx' = [tx EXCEPT ![c].at = "insert"]
     \/ /\ Active(k) /\ Free(c, k)
        /\ tx' = [tx EXCEPT ![c].at = "insert", ![c].held = {k},
                            ![c].revoked = {k}]
  /\ UNCHANGED Stored

(***************************************************************************)
(* The unique index on active credentials waits for whoever has inserted   *)
(* one, or has revoked one, and has not committed.                         *)
(***************************************************************************)
StillActive(c) == {k \in Credentials : Active(k)} \ tx[c].revoked
IndexDecided(c) ==
  \A d \in Others(c) :
    tx[d].minted = {} /\ tx[d].revoked \cap StillActive(c) = {}

(* A new credential is a row with a secret of its own. *)
FreshCredentials ==
  {n \in Credentials : credential[n] = "absent"
                       /\ \A d \in Clients : n \notin tx[d].minted}

(* Mutant of InsertCredential: there is no unique index. *)
InsertUnchecked(c, n) ==
  /\ tx[c].at = "insert"
  /\ n \in FreshCredentials
  /\ tx' = [tx EXCEPT ![c].at = "endSessions", ![c].minted = {n}]
  /\ UNCHANGED Stored

(* createPasswordCredential and its secret. *)
InsertCredential(c, n) ==
  /\ tx[c].at = "insert"
  /\ IndexDecided(c) /\ StillActive(c) = {}
  /\ n \in FreshCredentials
  /\ tx' = [tx EXCEPT ![c].at = "endSessions", ![c].minted = {n}]
  /\ UNCHANGED Stored

(* The index refuses the row: ROLLBACK, and the error handler answers 500. *)
RefuseChange(c) ==
  /\ tx[c].at = "insert"
  /\ IndexDecided(c) /\ StillActive(c) # {}
  /\ tx' = [tx EXCEPT ![c] = NoRequest]
  /\ UNCHANGED Stored

(* Mutant of EndSessions: only those opened with the changed password. *)
EndSessionsOfCredential(c) ==
  /\ tx[c].at = "endSessions"
  /\ tx' = [tx EXCEPT ![c].at = "commit",
                      ![c].ended = {s \in ActiveSessions :
                                      openedWith[s] = tx[c].cred}]
  /\ UNCHANGED Stored

(* revokeAllSessionsForIdentity ends the sessions that are committed now. *)
EndSessions(c) ==
  /\ tx[c].at = "endSessions"
  /\ tx' = [tx EXCEPT ![c].at = "commit", ![c].ended = ActiveSessions]
  /\ UNCHANGED Stored

-----------------------------------------------------------------------------
(* Mutant of TerminationReason: the one that a logout everywhere passes. *)
ReasonOfLogout == "USER_LOGOUT"

(* termination_reason of the sessions a change ends. *)
TerminationReason == "PASSWORD_CHANGE"

(* COMMIT: what the request has written becomes visible, its locks go. *)
Commit(c) ==
  /\ tx[c].at = "commit"
  /\ credential' = [k \in Credentials |->
                      IF k \in tx[c].minted THEN "active"
                      ELSE IF k \in tx[c].revoked THEN "revoked"
                      ELSE credential[k]]
  /\ session' = [s \in Sessions |->
                   IF s \in tx[c].opened THEN "active"
                   ELSE IF s \in tx[c].ended THEN TerminationReason
                   ELSE session[s]]
  /\ openedWith' = [s \in Sessions |-> IF s \in tx[c].opened THEN tx[c].cred
                                       ELSE openedWith[s]]
  /\ tx' = [tx EXCEPT ![c] = NoRequest]

(* Mutant of Abort: the client goes back to the pool without a ROLLBACK. *)
AbortKeepingLocks(c) ==
  /\ tx[c].at # "idle"
  /\ tx' = [tx EXCEPT ![c].at = "idle"]
  /\ UNCHANGED Stored

(* A statement fails or the process is lost: ROLLBACK. *)
Abort(c) ==
  /\ tx[c].at # "idle"
  /\ tx' = [tx EXCEPT ![c] = NoRequest]
  /\ UNCHANGED Stored

-----------------------------------------------------------------------------
(* The identity has been registered with some credential. *)
Init ==
  /\ \E k \in Credentials :
       credential = [n \in Credentials |-> IF n = k THEN "active" ELSE "absent"]
  /\ session = [s \in Sessions |-> "absent"]
  /\ openedWith = [s \in Sessions |-> None]
  /\ tx = [c \in Clients |-> NoRequest]

(* Requests only start while ids are left for them; a bound. *)
Busy(op) == Cardinality({c \in Clients : tx[c].op = op})
RoomForLogin == Cardinality({s \in Sessions : session[s] = "absent"}) > Busy("login")
RoomForChange ==
  Cardinality({k \in Credentials : credential[k] = "absent"}) > Busy("change")

Begin(c) ==
  \E k \in Credentials : \/ RefusePassword(c, k)
                         \/ RoomForLogin /\ BeginLogin(c, k)
                         \/ RoomForChange /\ BeginChange(c, k)

Step(c) ==
  \/ RevokeCredential(c) \/ RefuseChange(c) \/ EndSessions(c) \/ Commit(c)
  \/ \E n \in Credentials : InsertCredential(c, n)
  \/ \E s \in Sessions : OpenSession(c, s)

Next == \E c \in Clients : Begin(c) \/ Step(c) \/ Abort(c)

Spec == Init /\ [][Next]_vars

(* Waiters for a row or an index entry are served in order of arrival. *)
(* Nothing is assumed of Abort: these requests never deadlock.         *)
FairSpec == Spec /\ \A c \in Clients : SF_vars(Step(c))

-----------------------------------------------------------------------------
(***************************************************************************)
(* The types of rows and requests. Only password changes end sessions      *)
(* here, and the row of each that was ended says so.                       *)
(***************************************************************************)
TypeOK ==
  /\ credential \in [Credentials -> {"absent", "active", "revoked"}]
  /\ session \in [Sessions -> SessionStates]
  /\ openedWith \in [Sessions -> Credentials \cup {None}]
  /\ tx \in [Clients -> Request]

(***************************************************************************)
(* The identity always has exactly one active credential: changes that     *)
(* race or fail halfway leave it neither without a password nor with two.  *)
(***************************************************************************)
OneActiveCredential ==
  \E k \in Credentials : Active(k) /\ \A n \in Credentials : Active(n) => n = k

(***************************************************************************)
(* Of changes that were all verified against one password only one         *)
(* succeeds, and it replaces that password: none is overwritten by a       *)
(* change that never knew it.                                              *)
(***************************************************************************)
ChangeReplacesVerified ==
  [][credential' # credential =>
       \E c \in Clients : /\ tx[c].op = "change" /\ tx'[c].at = "idle"
                          /\ Active(tx[c].cred)
                          /\ credential'[tx[c].cred] = "revoked"]_vars

(***************************************************************************)
(* A change that succeeds has ended every session that was active when it  *)
(* arrived, those a stale login had opened with an older password included,*)
(* and recorded the change as the reason.                                  *)
(***************************************************************************)
ChangeEndsSessions ==
  [][\A c \in Clients :
       credential' # credential /\ tx[c].op = "change" /\ tx'[c].at = "idle" =>
         \A s \in tx[c].before : session'[s] = "PASSWORD_CHANGE"]_vars

(***************************************************************************)
(* The inductive invariant behind them: what each request has locked,      *)
(* inserted and seen is still so when it commits. A change past its INSERT *)
(* holds the one active credential, so that no second one is there; the    *)
(* sessions it has seen are active only if it is going to end them.        *)
(***************************************************************************)
RequestShape(c) ==
  LET x == tx[c] IN
  /\ x.at = "idle" => x = NoRequest
  /\ x.op = "none" => x.at = "idle"
  /\ x.op = "login" => /\ x.at \in {"open", "commit"} /\ x.cred # None
                       /\ x.before = {} /\ x.held = {} /\ x.minted = {}
                       /\ x.ended = {}
  /\ x.op = "change" => /\ x.at \in {"revoke", "insert", "endSessions", "commit"}
                        /\ x.cred # None /\ x.opened = {}
  /\ x.at = "open" => x.opened = {}
  /\ x.at = "revoke" => x.held = {}
  /\ x.at \in {"revoke", "insert"} => x.minted = {} /\ x.ended = {}
  /\ x.revoked = x.held /\ x.held \subseteq {x.cred}

CredentialsReady(c) ==
  LET x == tx[c] IN
  /\ \A k \in x.held : Active(k)
  /\ \A n \in x.minted : credential[n] = "absent"
  /\ x.op = "change" /\ x.at \in {"endSessions", "commit"} =>
       \E k, n \in Credentials : x.held = {k} /\ x.minted = {n}

SessionsReady(c) ==
  LET x == tx[c] IN
  /\ \A s \in x.opened : session[s] = "absent"
  /\ \A s \in x.before \cup x.ended : session[s] # "absent"
  /\ x.at = "commit" =>
       \A s \in x.before : session[s] = "active" => s \in x.ended

Apart(c, d) ==
  tx[c].held \cap tx[d].held = {} /\ tx[c].opened \cap tx[d].opened = {}

Consistent ==
  /\ OneActiveCredential
  /\ \A c \in Clients : RequestShape(c) /\ CredentialsReady(c) /\ SessionsReady(c)
  /\ \A c, d \in Clients : c # d => Apart(c, d)

(* Every request ends, without PostgreSQL having to break a deadlock. *)
RequestsEnd ==
  \A c \in Clients : tx[c].at # "idle" ~> tx[c].at = "idle"

-----------------------------------------------------------------------------
(***************************************************************************)
(* INV-CRED-3, not kept by the code: "any credential change must           *)
(* immediately invalidate all active sessions". A login that has read the  *)
(* old password before the change commits opens its session after the      *)
(* change has ended those there were.                                      *)
(***************************************************************************)
NoSessionOfOldPassword ==
  \A s \in Sessions : session[s] = "active" => Active(openedWith[s])

=============================================================================
