--------------------------- MODULE RefreshTokens ---------------------------
(***************************************************************************)
(* The requests that create, rotate and kill refresh tokens, as the        *)
(* transactions they are: one action per statement that locks a row or     *)
(* picks its rows, so that any two requests interleave wherever PostgreSQL *)
(* lets them.                                                              *)
(*                                                                         *)
(*   refresh    POST /tokens/refresh      refreshSessionTokens             *)
(*   login      POST /auth/login          createSessionWithRefreshToken    *)
(*   logout     DELETE /sessions/current  terminateSessionAndTokens        *)
(*   logoutAll  DELETE /sessions          terminateIdentitySessions        *)
(*   password   PUT /auth/password        revokeAllSessionsForIdentity     *)
(*                                                                         *)
(* Abstracted: the credential rows (a login or a password change here has  *)
(* already verified the password; changes of one identity's password are   *)
(* serialised by the credential row and the loser fails), the audit rows,  *)
(* sessions.last_token_issued_at, and the raw token behind its hash.       *)
(***************************************************************************)
EXTENDS SessionStore

-----------------------------------------------------------------------------
(* refreshSessionTokens *)

(* Refreshes of session s that could still insert a token; a bound: *)
(* a refresh only starts while an id is left for it.                *)
RefreshesOn(s) == {c \in Clients : tx[c].op = "refresh" /\ tx[c].sess = s}
RoomFor(s) ==
  Cardinality(TokensOf(s) \ issued) > Cardinality(RefreshesOn(s))

(***************************************************************************)
(* POST /tokens/refresh with a token some client was given: the latest one *)
(* or any older one (a retry whose first answer was lost, a stolen copy).  *)
(* A token without a row is refused with no change of state.               *)
(***************************************************************************)
BeginRefresh(c, t) ==
  /\ "refresh" \in Workload
  /\ tx[c].at = "idle"
  /\ t \in issued
  /\ Spent(t) \/ RoomFor(SessionOf[t])
  /\ tx' = [tx EXCEPT ![c] =
              [NoTransaction EXCEPT !.at = "lockToken", !.op = "refresh",
                 !.tok = t, !.sess = SessionOf[t],
                 !.who = OwnerOf[SessionOf[t]]]]
  /\ UNCHANGED <<tables, expired, granted>>

(* Mutant of LockToken: the SELECT has no FOR UPDATE. *)
ReadTokenUnlocked(c) ==
  /\ tx[c].at = "lockToken"
  /\ LET misuse == Spent(tx[c].tok) IN
     tx' = [tx EXCEPT ![c].at = IF misuse THEN "terminate" ELSE "rotate",
                      ![c].pending = IF misuse THEN {tx[c].sess} ELSE {}]
  /\ UNCHANGED <<tables, expired, granted>>

(* Mutant of LockToken: FOR UPDATE OF rt, no lock on the session. *)
LockTokenAlone(c) ==
  /\ tx[c].at = "lockToken"
  /\ Free(c, tx[c].tok)
  /\ LET misuse == Spent(tx[c].tok) IN
     tx' = [tx EXCEPT ![c].at = IF misuse THEN "terminate" ELSE "rotate",
                      ![c].pending = IF misuse THEN {tx[c].sess} ELSE {},
                      ![c].held = {tx[c].tok}]
  /\ UNCHANGED <<tables, expired, granted>>

(***************************************************************************)
(* SELECT ... FROM refresh_tokens rt JOIN sessions s JOIN identities i     *)
(* FOR UPDATE names no table, so it locks the row of each: rt, s, then i.  *)
(***************************************************************************)
LockToken(c) ==
  /\ tx[c].at = "lockToken"
  /\ Free(c, tx[c].tok)
  /\ tx' = [tx EXCEPT ![c].at = "lockSession",
                      ![c].held = @ \cup {tx[c].tok}]
  /\ UNCHANGED <<tables, expired, granted>>

LockSession(c) ==
  /\ tx[c].at = "lockSession"
  /\ Free(c, tx[c].sess)
  /\ tx' = [tx EXCEPT ![c].at = "lockIdentity",
                      ![c].held = @ \cup {tx[c].sess}]
  /\ UNCHANGED <<tables, expired, granted>>

(* With the last lock the row is returned, as it is now, and judged. *)
(* sessions.terminated_at is not selected.                           *)
LockIdentity(c) ==
  /\ tx[c].at = "lockIdentity"
  /\ Free(c, tx[c].who) /\ Unshared(c, tx[c].who)
  /\ LET misuse == Spent(tx[c].tok) IN
     tx' = [tx EXCEPT ![c].at = IF misuse THEN "terminate" ELSE "rotate",
                      ![c].pending = IF misuse THEN {tx[c].sess} ELSE {},
                      ![c].held = @ \cup {tx[c].who}]
  /\ UNCHANGED <<tables, expired, granted>>

(* Mutant of Rotate: the old token is not marked used. *)
RotateUnmarked(c, n) ==
  /\ tx[c].at = "rotate"
  /\ n \in FreshTokens(tx[c].sess)
  /\ tx' = [tx EXCEPT ![c].at = "commit", ![c].minted = {n}]
  /\ UNCHANGED <<tables, expired, granted>>

(* createRefreshToken with replacesTokenId: mark the old row used, *)
(* insert the new one, link them.                                  *)
Rotate(c, n) ==
  /\ tx[c].at = "rotate"
  /\ n \in FreshTokens(tx[c].sess)
  /\ ~ActiveIndexConflict(c, tx[c].sess)
  /\ tx' = [tx EXCEPT ![c].at = "commit", ![c].used = {tx[c].tok},
                      ![c].minted = {n}]
  /\ UNCHANGED <<tables, expired, granted>>

-----------------------------------------------------------------------------
(* terminateSessionAndTokens, for a refresh that found misuse, a logout *)
(* and each session of a logoutAll.                                     *)

(* A client acts on a session with the access token it was granted. *)
BeginLogout(c, s) ==
  /\ "logout" \in Workload
  /\ tx[c].at = "idle"
  /\ s \in granted
  /\ tx' = [tx EXCEPT ![c] =
              [NoTransaction EXCEPT !.at = "terminate", !.op = "logout",
                                    !.pending = {s}]]
  /\ UNCHANGED <<tables, expired, granted>>

ActiveSessions(i) == {s \in Sessions : OwnerOf[s] = i /\ session[s] = "active"}

(* The sessions are listed once, by a plain SELECT, before the loop. *)
BeginLogoutAll(c, i) ==
  /\ "logoutAll" \in Workload
  /\ tx[c].at = "idle"
  /\ \E s \in granted : OwnerOf[s] = i
  /\ ActiveSessions(i) # {}
  /\ tx' = [tx EXCEPT ![c] =
              [NoTransaction EXCEPT !.at = "terminate", !.op = "logoutAll",
                                    !.pending = ActiveSessions(i)]]
  /\ UNCHANGED <<tables, expired, granted>>

(* Mutant of RevokeSession: WHERE selects the tokens of the identity. *)
RevokeOfIdentity(c, s) ==
  /\ tx[c].at = "terminate"
  /\ s \in tx[c].pending
  /\ tx' = [tx EXCEPT ![c].at = "revoke", ![c].sess = s,
                      ![c].pending = @ \ {s},
                      ![c].todo = {t \in issued \ revoked :
                                     OwnerOf[SessionOf[t]] = OwnerOf[s]}]
  /\ UNCHANGED <<tables, expired, granted>>

(* revokeRefreshTokensForSession starts: its UPDATE picks its rows. *)
RevokeSession(c, s) ==
  /\ tx[c].at = "terminate"
  /\ s \in tx[c].pending
  /\ tx' = [tx EXCEPT ![c].at = "revoke", ![c].sess = s,
                      ![c].pending = @ \ {s},
                      ![c].todo = (TokensOf(s) \cap issued) \ revoked]
  /\ UNCHANGED <<tables, expired, granted>>

(* An UPDATE locks and writes one more row. The row may have been revoked *)
(* while the UPDATE waited for it: revoking it again is no change.        *)
RevokeToken(c, t) ==
  /\ tx[c].at = "revoke"
  /\ t \in tx[c].todo
  /\ Free(c, t)
  /\ tx' = [tx EXCEPT ![c].todo = @ \ {t}, ![c].held = @ \cup {t},
                      ![c].revoked = @ \cup {t}]
  /\ UNCHANGED <<tables, expired, granted>>

(* The UPDATE of sessions starts: of the one session (terminateSession) *)
(* or of all the identity's (revokeAllSessionsForIdentity).             *)
ToEnd(c) ==
  IF tx[c].op = "password" THEN ActiveSessions(tx[c].who)
  ELSE {s \in Sessions : s = tx[c].sess /\ session[s] = "active"}

StartEnding(c) ==
  /\ tx[c].at = "revoke"
  /\ tx[c].todo = {}
  /\ tx' = [tx EXCEPT ![c].at = "end", ![c].todo = ToEnd(c)]
  /\ UNCHANGED <<tables, expired, granted>>

(* Mutant of EndSession: the UPDATE has no terminated_at IS NULL. *)
EndSessionAgain(c, s) ==
  /\ tx[c].at = "end"
  /\ s \in tx[c].todo
  /\ Free(c, s)
  /\ tx' = [tx EXCEPT ![c].todo = @ \ {s}, ![c].held = @ \cup {s},
                      ![c].ended = @ \cup {s}]
  /\ UNCHANGED <<tables, expired, granted>>

(* terminated_at IS NULL is evaluated again once the row is locked. *)
EndSession(c, s) ==
  /\ tx[c].at = "end"
  /\ s \in tx[c].todo
  /\ Free(c, s)
  /\ tx' = [tx EXCEPT ![c].todo = @ \ {s}, ![c].held = @ \cup {s},
                      ![c].ended = IF Terminated(s) THEN @ ELSE @ \cup {s}]
  /\ UNCHANGED <<tables, expired, granted>>

FinishEnding(c) ==
  /\ tx[c].at = "end"
  /\ tx[c].todo = {}
  /\ tx' = [tx EXCEPT ![c].at = IF tx[c].pending = {} THEN "commit"
                                ELSE "terminate"]
  /\ UNCHANGED <<tables, expired, granted>>

-----------------------------------------------------------------------------
(* login: the password was verified before BEGIN. *)

BeginLogin(c, s) ==
  /\ "login" \in Workload
  /\ tx[c].at = "idle"
  /\ session[s] = "absent"
  /\ \A d \in Clients : ~(tx[d].op = "login" /\ tx[d].sess = s)
  /\ tx' = [tx EXCEPT ![c] =
              [NoTransaction EXCEPT !.at = "open", !.op = "login",
                                    !.sess = s, !.who = OwnerOf[s]]]
  /\ UNCHANGED <<tables, expired, granted>>

(* createSessionWithRefreshToken: the foreign key of the new sessions row *)
(* locks the identity FOR KEY SHARE.                                      *)
OpenSession(c, n) ==
  /\ tx[c].at = "open"
  /\ n \in FreshTokens(tx[c].sess)
  /\ Free(c, tx[c].who)
  /\ tx' = [tx EXCEPT ![c].at = "commit", ![c].share = {tx[c].who},
                      ![c].opened = {tx[c].sess}, ![c].minted = {n}]
  /\ UNCHANGED <<tables, expired, granted>>

-----------------------------------------------------------------------------
(* changePassword: inserting the new credential locks the identity FOR KEY *)
(* SHARE; bcrypt runs; then revokeAllSessionsForIdentity.                  *)

BeginPassword(c, i) ==
  /\ "password" \in Workload
  /\ tx[c].at = "idle"
  /\ \E s \in granted : OwnerOf[s] = i
  /\ \A d \in Clients : ~(tx[d].op = "password" /\ tx[d].who = i)
  /\ tx' = [tx EXCEPT ![c] =
              [NoTransaction EXCEPT !.at = "keyShare", !.op = "password",
                                    !.who = i]]
  /\ UNCHANGED <<tables, expired, granted>>

InsertCredential(c) ==
  /\ tx[c].at = "keyShare"
  /\ Free(c, tx[c].who)
  /\ tx' = [tx EXCEPT ![c].at = "revokeAll", ![c].share = {tx[c].who}]
  /\ UNCHANGED <<tables, expired, granted>>

(* Every token of every active session, the revoked ones included. *)
RevokeIdentity(c) ==
  /\ tx[c].at = "revokeAll"
  /\ tx' = [tx EXCEPT ![c].at = "revoke",
                      ![c].todo = {t \in issued :
                                SessionOf[t] \in ActiveSessions(tx[c].who)}]
  /\ UNCHANGED <<tables, expired, granted>>

-----------------------------------------------------------------------------
(* Mutant of Commit: the access token carries the refresh token as sid. *)
CommitWithWrongSid(c) ==
  /\ tx[c].at = "commit"
  /\ Apply(c)
  /\ granted' = granted \cup tx[c].used
  /\ UNCHANGED expired

(* COMMIT. After a rotation the handler issues an access token whose sid is *)
(* the session; after a misuse it answers 401.                              *)
Commit(c) ==
  /\ tx[c].at = "commit"
  /\ Apply(c)
  /\ granted' = IF tx[c].op = "refresh" /\ tx[c].used # {}
                THEN granted \cup {tx[c].sess} ELSE granted
  /\ UNCHANGED expired

(* A token's 30 days pass. *)
Expire(t) ==
  /\ "expiry" \in Workload
  /\ Live(t) /\ t \notin expired
  /\ expired' = expired \cup {t}
  /\ UNCHANGED <<tables, granted, tx>>

-----------------------------------------------------------------------------
Init ==
  /\ session = [s \in Sessions |-> "absent"]
  /\ issued = {} /\ used = {} /\ revoked = {} /\ expired = {}
  /\ succ = [t \in Tokens |-> None]
  /\ granted = {}
  /\ tx = [c \in Clients |-> NoTransaction]

Begin(c) ==
  \/ \E t \in Tokens : BeginRefresh(c, t)
  \/ \E s \in Sessions : BeginLogout(c, s) \/ BeginLogin(c, s)
  \/ \E i \in Identities : BeginLogoutAll(c, i) \/ BeginPassword(c, i)

Step(c) ==
  \/ LockToken(c) \/ LockSession(c) \/ LockIdentity(c)
  \/ InsertCredential(c) \/ RevokeIdentity(c)
  \/ StartEnding(c) \/ FinishEnding(c) \/ Commit(c)
  \/ \E t \in Tokens : Rotate(c, t) \/ RevokeToken(c, t) \/ OpenSession(c, t)
  \/ \E s \in Sessions : RevokeSession(c, s) \/ EndSession(c, s)

Next ==
  \/ \E c \in Clients : Begin(c) \/ Step(c) \/ Abort(c)
  \/ \E t \in Tokens : Expire(t)

Spec == Init /\ [][Next]_vars

-----------------------------------------------------------------------------
(* Fairness. *)

(***************************************************************************)
(* Row locks are queued in order of arrival, so a client whose statement   *)
(* can run again and again does run; PostgreSQL resolves deadlocks.        *)
(***************************************************************************)
Fairness ==
  \A c \in Clients : /\ SF_vars(Step(c))
                     /\ WF_vars(Deadlocked(c) /\ Abort(c))

FairSpec == Spec /\ Fairness

-----------------------------------------------------------------------------
(* Properties. *)

TypeOK ==
  /\ session \in [Sessions -> SessionStates]
  /\ issued \in SUBSET Tokens
  /\ used \in SUBSET Tokens
  /\ revoked \in SUBSET Tokens
  /\ expired \in SUBSET Tokens
  /\ succ \in [Tokens -> Tokens \cup {None}]
  /\ granted \in SUBSET Sessions
  /\ tx \in [Clients -> Transaction]

(***************************************************************************)
(* A refresh token is exchanged at most once, by whatever number of        *)
(* concurrent refreshes present it (the comment of findRefreshTokenByHash: *)
(* A rotates, B detects the reuse): the successor of a token never changes *)
(* and a token gets one only while neither used nor revoked.               *)
(***************************************************************************)
ExchangedOnce ==
  [][\A t \in Tokens :
       succ'[t] # succ[t] => succ[t] = None /\ t \notin used \cup revoked]_vars

(***************************************************************************)
(* When a refresh detects misuse (and its session was not already          *)
(* terminated) no token of the session survives, those issued by refreshes *)
(* that ran at the same time included, and none is issued later.           *)
(***************************************************************************)
ReuseKillsSession ==
  \A s \in Sessions : session[s] = "TOKEN_REUSE" =>
    \A t \in TokensOf(s) : ~Live(t)

(***************************************************************************)
(* The row a terminated session keeps is the one of the first termination: *)
(* of a logout, a password change and a misuse that race, one wins and the *)
(* others leave terminated_at and termination_reason alone.                *)
(***************************************************************************)
TerminationIsFinal ==
  [][\A s \in Sessions : Terminated(s) => session'[s] = session[s]]_vars

(***************************************************************************)
(* A session that is active can be continued: it has exactly one active    *)
(* refresh token, whatever rotations and half-done terminations interleave *)
(* on it.                                                                  *)
(***************************************************************************)
ActiveSessionHasOneToken ==
  \A s \in Sessions : session[s] = "active" =>
    \E t \in TokensOf(s) : /\ Live(t)
                          /\ \A u \in TokensOf(s) : Live(u) => u = t

(***************************************************************************)
(* The partial unique index is what migration 012 calls it, defense in     *)
(* depth: a rotation never runs into it (the request would fail with 500). *)
(***************************************************************************)
IndexNeverFires ==
  \A c \in Clients :
    tx[c].at = "rotate" => ~ActiveIndexConflict(c, tx[c].sess)

FirstToken(t) == t \in issued /\ \A v \in Tokens : succ[v] # t

(***************************************************************************)
(* The tokens of a session are one chain of rotations, from the token of   *)
(* the login to the latest: no token has two predecessors, only one has    *)
(* none, and the used ones are those that were replaced. Reuse detection   *)
(* is only as good as this lineage (migration 011).                        *)
(***************************************************************************)
OneLineage ==
  /\ \A t \in Tokens : t \in used <=> succ[t] # None
  /\ \A t, u \in used : succ[t] = succ[u] => t = u
  /\ \A t, u \in Tokens :
       FirstToken(t) /\ FirstToken(u) /\ SessionOf[t] = SessionOf[u] => t = u

(***************************************************************************)
(* Seen through the committed rows alone every request is a single step of *)
(* TokenLedger, or none: no rotation, reuse or termination is ever seen    *)
(* half done, and none acts on rows that another has changed meanwhile.    *)
(***************************************************************************)
Ledger == INSTANCE TokenLedger
ImplementsLedger == Ledger!Spec

(* Every request ends: it is answered, or PostgreSQL aborts it as the *)
(* victim of a deadlock. No request waits for ever.                   *)
RequestsEnd ==
  \A c \in Clients : tx[c].at # "idle" ~> tx[c].at = "idle"

-----------------------------------------------------------------------------
(***************************************************************************)
(* Why the properties hold: the inductive invariant of RefreshTokensProofs.*)
(***************************************************************************)

(* What each request is about, and how far it has come. *)
RequestShape(c) ==
  LET x == tx[c] IN
  /\ x.at = "idle" => x = NoTransaction
  /\ x.at \in {"lockToken", "lockSession", "lockIdentity", "rotate"} =>
       x.op = "refresh"
  /\ x.at \in {"keyShare", "revokeAll"} => x.op = "password"
  /\ x.at = "open" => x.op = "login"
  /\ x.op = "refresh" => /\ x.tok \in issued
                         /\ x.sess = SessionOf[x.tok]
                         /\ x.who = OwnerOf[x.sess]
                         /\ x.pending \subseteq {x.sess}
  /\ x.op = "login" => /\ x.at \in {"open", "commit"}
                       /\ x.sess \in Sessions /\ session[x.sess] = "absent"
                       /\ x.who = OwnerOf[x.sess]
  /\ x.op = "password" => x.who \in Identities /\ x.at # "terminate"
                          /\ x.pending = {}
  /\ \A s \in x.pending : session[s] # "absent"

(* The locks a request has by now, and that it only writes what it locked. *)
RowsLocked(c) ==
  LET x == tx[c] IN
  /\ x.op = "refresh" /\ x.at # "lockToken" => x.tok \in x.held
  /\ x.op = "refresh" /\ x.at \notin {"lockToken", "lockSession"} =>
       x.sess \in x.held
  /\ x.used \cup x.revoked \cup x.ended \subseteq x.held

(* A rotation: the token presented is still good, the new one is new. *)
RotationReady(c) ==
  LET x == tx[c] IN
  /\ x.at = "rotate" \/ x.used # {} => x.tok \notin used \cup revoked
  /\ x.used # {} => /\ x.op = "refresh" /\ x.at = "commit"
                    /\ x.used = {x.tok}
                    /\ x.revoked = {} /\ x.ended = {}
  /\ x.minted # {} => /\ x.used # {} \/ x.op = "login"
                      /\ x.at = "commit"
                      /\ \E n \in TokensOf(x.sess) \ issued : x.minted = {n}
  /\ x.used # {} \/ x.opened # {} => x.minted # {}
  /\ x.opened # {} => x.op = "login" /\ x.opened = {x.sess}
  /\ x.op = "login" => x.used = {} /\ x.revoked = {} /\ x.ended = {}
  /\ x.op = "login" /\ x.at = "commit" => x.opened = {x.sess}

(* A termination: no token is revoked whose session does not end with it. *)
EndingReady(c) ==
  LET x == tx[c]
      gone == {s \in Sessions : Terminated(s) \/ s \in x.ended}
  IN
  /\ x.at \in {"lockToken", "lockSession", "lockIdentity", "rotate", "open",
              "keyShare", "revokeAll"} => x.revoked = {} /\ x.ended = {}
  /\ x.revoked \subseteq issued
  /\ \A s \in x.ended : session[s] = "active"
  /\ x.op = "refresh" => x.ended \subseteq {x.sess}
  /\ x.at \notin {"revoke", "end"} => x.todo = {}
  /\ x.at = "revoke" =>
       /\ x.todo \subseteq issued
       /\ x.op # "password" =>
            /\ x.sess \in Sessions /\ session[x.sess] # "absent"
            /\ \A t \in x.todo : SessionOf[t] = x.sess
            /\ \A t \in x.revoked : SessionOf[t] \in gone \cup {x.sess}
       /\ x.op = "password" =>
            \A t \in x.todo \cup x.revoked : OwnerOf[SessionOf[t]] = x.who
  /\ x.at = "end" =>
       /\ x.todo \subseteq Sessions
       /\ x.op # "password" => x.todo \subseteq {x.sess}
       /\ \A s \in x.todo : session[s] # "absent"
       /\ \A t \in x.revoked : SessionOf[t] \in gone \cup x.todo
  /\ x.at \notin {"revoke", "end"} =>
       \A t \in x.revoked : SessionOf[t] \in gone

(* A misuse: every token the session has is revoked or about to be, and *)
(* so is the end of the session.                                        *)
MisuseCovers(c) ==
  LET x == tx[c] IN
  x.op = "refresh" /\ x.used = {} =>
    /\ x.at \in {"terminate", "revoke", "end", "commit"} => Spent(x.tok)
    /\ \A t \in x.revoked : SessionOf[t] = x.sess
    /\ x.at = "revoke" =>
         TokensOf(x.sess) \cap issued \subseteq revoked \cup x.revoked \cup x.todo
    /\ x.at \in {"end", "commit"} \/ x.ended # {} =>
         TokensOf(x.sess) \cap issued \subseteq revoked \cup x.revoked
    /\ x.at = "end" => x.sess \in x.todo \cup x.ended \/ Terminated(x.sess)
    /\ x.at = "commit" => x.sess \in x.ended \/ Terminated(x.sess)

(* Two requests never share a locked row, a new token or a new session. *)
Apart(c, d) ==
  /\ tx[c].held \cap tx[d].held = {}
  /\ tx[c].minted \cap tx[d].minted = {}
  /\ tx[c].op = "login" /\ tx[d].op = "login" => tx[c].sess # tx[d].sess

(* The committed rows. *)
TablesConsistent ==
  /\ used \subseteq issued /\ revoked \subseteq issued
  /\ \A t \in issued : session[SessionOf[t]] # "absent"
  /\ \A s \in granted : session[s] # "absent"
  /\ \A t \in used : succ[t] \in issued /\ SessionOf[succ[t]] = SessionOf[t]
  /\ \A t, u \in Tokens :
       Live(t) /\ Live(u) /\ SessionOf[t] = SessionOf[u] => t = u

Consistent ==
  /\ TablesConsistent
  /\ \A c \in Clients : /\ RequestShape(c) /\ RowsLocked(c)
                        /\ RotationReady(c) /\ EndingReady(c)
                        /\ MisuseCovers(c)
  /\ \A c, d \in Clients : c # d => Apart(c, d)

-----------------------------------------------------------------------------
(* Promised by the documents, not kept by the code. *)

(***************************************************************************)
(* INV-SESSION-3: a session that has been terminated never becomes valid   *)
(* again: no refresh token is issued for it any more (the tests of logout  *)
(* and password change: a refresh afterwards answers 401).                 *)
(***************************************************************************)
TerminatedGetsNoToken ==
  [][\A t \in issued' \ issued : ~Terminated(SessionOf[t])]_vars

(***************************************************************************)
(* INV-TOKEN-3: reuse of a refresh token revokes the session. A refresh    *)
(* that has found misuse does not end, by any answer, while the session    *)
(* goes on. Stated of a run without failures.                              *)
(***************************************************************************)
FoundMisuse(c) ==
  /\ tx[c].op = "refresh" /\ tx[c].used = {}
  /\ tx[c].at \in {"terminate", "revoke", "end", "commit"}

MisuseAlwaysRevokes ==
  [][\A c \in Clients :
       FoundMisuse(c) /\ tx'[c].at = "idle" =>
         session'[SessionOf[tx[c].tok]] # "active"]_vars

=============================================================================
