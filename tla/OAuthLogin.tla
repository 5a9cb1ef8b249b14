------------------------------ MODULE OAuthLogin ------------------------------
(***************************************************************************)
(* POST /auth/oauth/google: login with an account of an external provider, *)
(* as READ COMMITTED transactions over identities, external_identities and *)
(* sessions (SessionStore explains what that means).                       *)
(*                                                                         *)
(* An account stands for a pair (provider, provider_subject). An identity  *)
(* is only ever inserted together with the row that binds it to an account,*)
(* so link has both. Nothing in the service sets                           *)
(* external_identities.deleted_at: a binding stays. The audit events and   *)
(* the second client they need are in ConnectionPool, the session's tokens *)
(* and the lock a refresh has on the identity in RefreshTokens.            *)
(***************************************************************************)
EXTENDS Naturals, FiniteSets

CONSTANTS
  Clients,     \* connections of the pool
  Accounts,    \* external accounts
  Identities,  \* every identity that may be created; a bound
  Sessions,    \* every session that may be created; a bound
  None

ASSUME OAuthAssumption == None \notin Accounts \cup Identities

VARIABLES
  link,      \* the account an identity is bound to; None if there is no such row
  owner,     \* sessions.identity_id; None if there is no such row
  provenBy,  \* the account whose assertion a session was opened for
  refused,   \* accounts some login was refused for by the unique index
  tx         \* the request each client serves

vars == <<link, owner, provenBy, refused, tx>>
tables == <<link, owner, provenBy>>

Request ==
  [ at      : {"idle", "link", "open", "commit"},
    account : Accounts \cup {None},
    who     : Identities \cup {None},
    minted  : SUBSET Identities,  \* uncommitted: identities and bindings,
    opened  : SUBSET Sessions ]   \*   sessions inserted

NoRequest ==
  [ at |-> "idle", account |-> None, who |-> None, minted |-> {}, opened |-> {} ]

-----------------------------------------------------------------------------
(* What a client may present: an ID token, as far as verify looks at it. *)
Assertions ==
  [ signed : BOOLEAN,  \* by one of Google's keys, and not expired
    ours   : BOOLEAN,  \* aud is our client id
    google : BOOLEAN,  \* iss is one of Google's two names
    sub    : Accounts \cup {None} ]

Verified(t) == t.signed /\ t.ours /\ t.google /\ t.sub # None

(* Mutant of Known: WHERE provider = $1, without the subject. *)
KnownToProvider(a) == {i \in Identities : link[i] # None}

Known(a) == {i \in Identities : link[i] = a}

FreshIdentities ==
  {i \in Identities : link[i] = None /\ \A c \in Clients : tx[c].who # i}
FreshSessions ==
  {s \in Sessions : owner[s] = None /\ \A c \in Clients : s \notin tx[c].opened}

(* A login only starts while ids are left for it; a bound. *)
RoomFor(a) ==
  /\ Cardinality({s \in Sessions : owner[s] = None})
       > Cardinality({c \in Clients : tx[c].at # "idle"})
  /\ Known(a) # {} \/ FreshIdentities # {}

(* verify throws: AuthenticationFailedError, before a client is taken. *)
RefuseAssertion(c, t) ==
  /\ tx[c].at = "idle"
  /\ ~Verified(t)
  /\ UNCHANGED vars

(***************************************************************************)
(* BEGIN, and findExternalIdentity, which locks nothing. An account that   *)
(* has an identity goes on with it, another one with a new identity.       *)
(***************************************************************************)
Resolve(c, t) ==
  /\ tx[c].at = "idle"
  /\ Verified(t) /\ RoomFor(t.sub)
  /\ \E i \in IF Known(t.sub) # {} THEN Known(t.sub) ELSE FreshIdentities :
       tx' = [tx EXCEPT ![c] =
                [NoRequest EXCEPT !.at = IF Known(t.sub) # {} THEN "open"
                                         ELSE "link",
                                  !.account = t.sub, !.who = i]]
  /\ UNCHANGED <<tables, refused>>

(* The unique index waits for an uncommitted binding of the same account. *)
LinkDecided(c) ==
  \A d \in Clients \ {c} :
    tx[d].account = tx[c].account => tx[d].minted = {}

(* Mutant of Link: there is no unique index. *)
LinkUnchecked(c) ==
  /\ tx[c].at = "link"
  /\ tx' = [tx EXCEPT ![c].at = "open", ![c].minted = {tx[c].who}]
  /\ UNCHANGED <<tables, refused>>

(* createExternalIdentity. *)
Link(c) ==
  /\ tx[c].at = "link"
  /\ LinkDecided(c) /\ Known(tx[c].account) = {}
  /\ tx' = [tx EXCEPT ![c].at = "open", ![c].minted = {tx[c].who}]
  /\ UNCHANGED <<tables, refused>>

(* Mutant of RefuseLink: the binding is taken to exist before it commits. *)
RefuseUndecided(c) ==
  /\ tx[c].at = "link"
  /\ ~LinkDecided(c) \/ Known(tx[c].account) # {}
  /\ tx' = [tx EXCEPT ![c] = NoRequest]
  /\ refused' = refused \cup {tx[c].account}
  /\ UNCHANGED tables

(* The index refuses the row: ROLLBACK and AuthenticationFailedError. *)
RefuseLink(c) ==
  /\ tx[c].at = "link"
  /\ LinkDecided(c) /\ Known(tx[c].account) # {}
  /\ tx' = [tx EXCEPT ![c] = NoRequest]
  /\ refused' = refused \cup {tx[c].account}
  /\ UNCHANGED tables

(* createSessionWithRefreshToken, for the identity found or created. *)
OpenSession(c, s) ==
  /\ tx[c].at = "open"
  /\ s \in FreshSessions
  /\ tx' = [tx EXCEPT ![c].at = "commit", ![c].opened = {s}]
  /\ UNCHANGED <<tables, refused>>

(* Mutant of Commit: the session is given the external account's id. *)
CommitForAccount(c) ==
  /\ tx[c].at = "commit"
  /\ link' = [i \in Identities |-> IF i \in tx[c].minted THEN tx[c].account
                                   ELSE link[i]]
  /\ owner' = [s \in Sessions |-> IF s \in tx[c].opened THEN tx[c].account
                                  ELSE owner[s]]
  /\ provenBy' = [s \in Sessions |-> IF s \in tx[c].opened THEN tx[c].account
                                     ELSE provenBy[s]]
  /\ tx' = [tx EXCEPT ![c] = NoRequest]
  /\ UNCHANGED refused

Commit(c) ==
  /\ tx[c].at = "commit"
  /\ link' = [i \in Identities |-> IF i \in tx[c].minted THEN tx[c].account
                                   ELSE link[i]]
  /\ owner' = [s \in Sessions |-> IF s \in tx[c].opened THEN tx[c].who
                                  ELSE owner[s]]
  /\ provenBy' = [s \in Sessions |-> IF s \in tx[c].opened THEN tx[c].account
                                     ELSE provenBy[s]]
  /\ tx' = [tx EXCEPT ![c] = NoRequest]
  /\ UNCHANGED refused

(* Mutant of Abort: the client goes back to the pool without a ROLLBACK. *)
AbortKeepingRows(c) ==
  /\ tx[c].at # "idle"
  /\ tx' = [tx EXCEPT ![c].at = "idle"]
  /\ UNCHANGED <<tables, refused>>

(* A statement fails or the process is lost: ROLLBACK. *)
Abort(c) ==
  /\ tx[c].at # "idle"
  /\ tx' = [tx EXCEPT ![c] = NoRequest]
  /\ UNCHANGED <<tables, refused>>

-----------------------------------------------------------------------------
Init ==
  /\ link = [i \in Identities |-> None]
  /\ owner = [s \in Sessions |-> None]
  /\ provenBy = [s \in Sessions |-> None]
  /\ refused = {}
  /\ tx = [c \in Clients |-> NoRequest]

Begin(c) == \E t \in Assertions : RefuseAssertion(c, t) \/ Resolve(c, t)

Step(c) ==
  \/ Link(c) \/ RefuseLink(c) \/ Commit(c)
  \/ \E s \in Sessions : OpenSession(c, s)

Next == \E c \in Clients : Begin(c) \/ Step(c) \/ Abort(c)

Spec == Init /\ [][Next]_vars

(* Waiters for an index entry are served when it is decided. *)
FairSpec == Spec /\ \A c \in Clients : SF_vars(Step(c))

-----------------------------------------------------------------------------
TypeOK ==
  /\ link \in [Identities -> Accounts \cup {None}]
  /\ owner \in [Sessions -> Identities \cup {None}]
  /\ provenBy \in [Sessions -> Accounts \cup {None}]
  /\ refused \subseteq Accounts
  /\ tx \in [Clients -> Request]

(***************************************************************************)
(* INV-OAUTH-2: however many first logins of one account race, it ends up  *)
(* with one identity.                                                      *)
(***************************************************************************)
OneIdentityPerAccount ==
  \A i, j \in Identities : link[i] = link[j] /\ link[i] # None => i = j

(***************************************************************************)
(* INV-OAUTH-3: a session belongs to the identity of the account that was  *)
(* proven for it, never to another's, and never to one that a rollback     *)
(* took back.                                                              *)
(***************************************************************************)
SessionOfProvenAccount ==
  \A s \in Sessions : owner[s] # None => link[owner[s]] = provenBy[s]

(***************************************************************************)
(* A login that lost the race of first logins can be repeated: the account *)
(* it was refused for has an identity, for good. Nobody is refused for a   *)
(* binding that is rolled back.                                            *)
(***************************************************************************)
RefusedCanRetry == \A a \in refused : Known(a) # {}

(***************************************************************************)
(* Seen through the committed rows each request is one step of             *)
(* ExternalAccounts or none: an identity appears with its account and its  *)
(* first session, and an account keeps its identity (createExternalIdentity*)
(* "partial state is impossible").                                         *)
(***************************************************************************)
Directory ==
  INSTANCE ExternalAccounts WITH
    identityOf <- [a \in Accounts |-> IF Known(a) = {} THEN None
                                      ELSE CHOOSE i \in Known(a) : TRUE],
    sessionsOf <- [i \in Identities |-> {s \in Sessions : owner[s] = i}]
ImplementsDirectory == Directory!Spec

(***************************************************************************)
(* The inductive invariant behind them. What a request has found is still  *)
(* so when it commits: a returning account has the identity found, a new   *)
(* identity is nobody else's, and a binding that went in is of an account  *)
(* that no other request is binding and no row binds.                      *)
(***************************************************************************)
RequestShape(c) ==
  /\ tx[c].at = "idle" => tx[c] = NoRequest
  /\ tx[c].at # "idle" => tx[c].account # None /\ tx[c].who # None
  /\ tx[c].minted \subseteq {tx[c].who}
  /\ tx[c].at # "commit" => tx[c].opened = {}
  /\ tx[c].at = "commit" => \E s \in Sessions : tx[c].opened = {s}
  /\ \A s \in tx[c].opened : owner[s] = None

BindingReady(c) ==
  /\ tx[c].at = "link" => tx[c].minted = {} /\ link[tx[c].who] = None
  /\ tx[c].at \in {"open", "commit"} /\ tx[c].minted = {} =>
       link[tx[c].who] = tx[c].account
  /\ tx[c].minted # {} =>
       link[tx[c].who] = None /\ Known(tx[c].account) = {}

Apart(c, d) ==
  /\ tx[c].who = tx[d].who /\ tx[c].who # None => link[tx[c].who] # None
  /\ tx[c].minted # {} /\ tx[d].minted # {} => tx[c].account # tx[d].account
  /\ tx[c].opened \cap tx[d].opened = {}

TablesConsistent ==
  /\ OneIdentityPerAccount /\ SessionOfProvenAccount /\ RefusedCanRetry
  /\ \A s \in Sessions : owner[s] # None => provenBy[s] # None

Consistent ==
  /\ TablesConsistent
  /\ \A c \in Clients : RequestShape(c) /\ BindingReady(c)
  /\ \A c, d \in Clients : c # d => Apart(c, d)

(* Every login ends, without PostgreSQL having to break a deadlock. *)
RequestsEnd ==
  \A c \in Clients : tx[c].at # "idle" ~> tx[c].at = "idle"

=============================================================================
