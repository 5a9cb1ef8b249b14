# A model of the auth identity service

TLA+ modules, TLC runs and TLAPS proofs for the authentication service in this
repository: an Express application over one PostgreSQL database that registers
identities, verifies e-mail addresses, logs users in by password or by an OAuth
assertion, rotates refresh tokens and ends sessions. Paths below are relative
to the repository root.

The service keeps no state of its own. Everything that matters happens between
concurrent PostgreSQL transactions, at READ COMMITTED (every handler opens its
transaction with a bare `BEGIN`), on rows that some statements lock and others
only read. That is where tests do not reach (`npm test` runs in band, one
request at a time) and what the models are about.

## 1. Inventory

| component | code | state | operations | interacts with |
|---|---|---|---|---|
| Refresh token rotation | `src/domain/refresh-tokens.service.ts`, `src/repos/refresh-tokens.repo.ts`, migrations 004, 011, 012 | `refresh_tokens` (used, revoked, expiry, successor) | exchange a token; detect misuse | sessions and identities (row locks of the join), session termination, access tokens, audit |
| Session creation and termination | `src/domain/session-*.ts`, `identity-session-termination.service.ts`, `src/repos/sessions.repo.ts`, `src/handlers/sessions.logout*.ts` | `sessions` (terminated_at, reason) | open, end one, end all of an identity | refresh tokens, audit |
| Access tokens | `src/domain/access-token.service.ts`, `src/middleware/authenticate-access-token.ts` | none (signed, 15 minutes) | issue, authenticate | logout, logout of all, password change |
| Passwords | `src/handlers/auth.login.ts`, `auth.password.change.ts`, `src/domain/password-rotation.service.ts`, `src/repos/*credentials.repo.ts`, migration 013 | `credentials`, `password_credentials` | login, change | sessions, refresh tokens |
| Registration | `src/domain/register-with-password.ts`, `src/handlers/auth.register.ts` | `identities`, `identity_identifiers` | register | verification, audit, e-mail |
| E-mail verification | `src/domain/email-verification.ts`, `src/repos/verifications.repo.ts`, `identity-identifiers.repo.ts`, migration 014 | `verifications`, `verified_at` | (re)send, confirm | audit, e-mail |
| OAuth login | `src/domain/oauth/`, `src/repos/external-identities.repo.ts`, migration 015 | `external_identities` | authenticate | identities, sessions |
| Audit log | `src/domain/audit/`, `src/repos/audit-logs.repo.ts`, migration 016 | `audit_logs`, append only | emit | every transaction; the pool |
| Connection pool | `src/db.ts`, every handler, `GET /health/db` | idle clients, waiting requests | connect, query, release | everything |
| Migration runner | `src/run-migrations.ts`, `db/migrations/` | `schema_migrations`, the schema | run | the database |
| Server lifecycle | `src/server.ts`, `src/env.ts`, `src/db.ts` | starting, listening, closing or not there | start, drain, forced exit, loss of the database | the pool, open transactions |
| HTTP surface | `src/app.ts`, `src/middleware/`, `src/errors.ts`, `src/schemas/` | none | route, validate, map errors | handlers |
| E-mail delivery | `src/infra/email/` | none | send after commit, errors swallowed | registration, verification |

What is hard, component by component, and what makes it correct:

* **Rotation.** Any number of requests may present the same token or tokens of
  the same session. Row locks are taken one at a time and in different orders by
  different requests; UPDATEs pick their rows in a snapshot and then wait;
  PostgreSQL breaks deadlocks by failing one of the requests, and a failed
  request is rolled back and not retried. Correct: a token is exchanged at most
  once; misuse leaves the session without a live token; an active session has
  exactly one; the rotations of a session form a chain.
* **Termination.** One session or all of an identity's, listed before they are
  ended, against rotations and other terminations. Correct: whoever ends a
  session first is who ended it; no token is revoked whose session goes on; a
  terminated session gets no new token (it can: section 5).
* **Pool and audit.** Each audit event is a `pool.query`, awaited while the
  request already holds a client and row locks. Correct: clients are neither
  lost nor shared, no wake-up is lost, every request is answered (with fewer
  requests than clients: section 5).
* **Passwords.** Login reads and verifies before its transaction begins; two
  changes of one password race. Correct: always one active credential; no
  change overwrites one it never knew; no session outlives the password it was
  opened with (it can: section 5).
* **Verification.** Resends race with each other and with confirmations.
  Correct: a token is used once; an unverified address has exactly one active
  token; a row is never both used and invalidated; the answer never depends on
  what exists (it can: section 5).
* **OAuth, registration.** Two first-time requests for one account or address;
  a failure between the identity and what makes it reachable. Correct: one
  identity for it, no half of one, a session only for the account that was
  proven, and whoever lost the race can come again.
* **Migrations.** Two deployments at once; a crash between a script and its
  record. Correct: every script is applied once, in order, and exit status 0
  means all of them. A script and its record are one transaction (two scripts
  are not: section 5).
* **E-mail.** Handed over after the commit, its failure swallowed. Correct: no
  link to a row that is not there; a lost mail can be asked for again.
* **Server.** A signal while the pool is exhausted; a lost connection; a
  restart. Correct: the process ends, and the next one has a whole pool.

## 2. The modules

| module | what it is |
|---|---|
| `SessionStore` | the tables `sessions` and `refresh_tokens`, transactions, row locks, commit, deadlock and rollback |
| `RefreshTokens` | the requests over them: one action per statement that locks or picks rows; properties and the inductive invariant |
| `TokenLedger` | the abstract specification: each request one atomic step on the committed rows |
| `RefreshTokensProofs` | the invariant and what follows from it, proved |
| `TokenLedgerProofs` | that `RefreshTokens` implements `TokenLedger`, proved |
| `ConnectionPool` | pg's pool under handlers that emit audit events inside their transactions |
| `Accounts` | registration, resend and confirmation over `identity_identifiers` and `verifications` |
| `AccountsProofs` | the invariant of `Accounts`, that it implements `AddressBook`, and that it never deadlocks, proved |
| `AddressBook` | the abstract specification of an e-mail address's life, which `Accounts` implements |
| `Passwords` | logins with and changes of one identity's password, over `credentials` and `sessions` |
| `PasswordsProofs` | the invariant of `Passwords`, and that it never deadlocks, proved |
| `OAuthLogin` | logins with external accounts over `identities`, `external_identities` and `sessions` |
| `ExternalAccounts` | the abstract specification of `OAuthLogin`: accounts are given an identity once, and sessions |
| `OAuthLoginProofs` | the invariant of `OAuthLogin`, and that it implements `ExternalAccounts`, proved |
| `Server` | the life of the process, around the requests of `ConnectionPool` |
| `ServerProofs` | the invariant of `Server` and of the pool in it, proved |
| `Migrations` | runs of `run-migrations.ts`, concurrent and repeated |
| `SchemaHistory` | the abstract specification of `Migrations`: script after script, each with its row |
| `MigrationsProofs` | the invariant of `Migrations`, and that it implements `SchemaHistory`, proved |
| `MCRefreshTokens`, `MCServer`, `MCConnectionPool`, `MCAccounts` | instances for TLC |

### SessionStore and RefreshTokens

The committed rows are the variables `session` (per session "absent", "active",
or its termination reason), `issued`, `used`, `revoked`, `expired` and `succ`
(`replaced_by_token_id`). `tx[c]` is the transaction of pool client `c`: the
statement it is at, the rows it has locked (`held`, and `share` for the FOR KEY
SHARE lock a foreign key takes on the identity), the rows its current UPDATE
has picked and still has to lock (`todo`), and its uncommitted writes. A
statement that locks several rows is several actions, so that every lock wait
is an interleaving point; a statement that waits for nobody is folded into the
one before or after it.

| code | actions |
|---|---|
| `findRefreshTokenByHash` (SELECT ... JOIN ... FOR UPDATE) | `BeginRefresh`, `LockToken`, `LockSession`, `LockIdentity`; the last judges the row as it is then |
| `createRefreshToken` with a token to replace | `Rotate` |
| `revokeRefreshTokensForSession` | `RevokeSession` (the snapshot), `RevokeToken` (each row) |
| `terminateSession` | `StartEnding`, `EndSession` (`terminated_at IS NULL` evaluated again under the lock), `FinishEnding` |
| `logoutCurrentSession`, `logoutAllSessions` | `BeginLogout`, `BeginLogoutAll`, then the same |
| `revokeAllSessionsForIdentity` in a password change | `BeginPassword`, `InsertCredential`, `RevokeIdentity`, then `RevokeToken`, `StartEnding`, ... |
| `createSessionWithRefreshToken` in a login | `BeginLogin`, `OpenSession` |
| COMMIT and the access token of a refresh | `Commit` |
| any failing statement, a deadlock victim, a lost connection; `catch { ROLLBACK }` | `Abort` |
| 30 days pass | `Expire` |

What PostgreSQL does is modelled from its documented READ COMMITTED behaviour,
as the comment of `SessionStore` lists it: a statement's snapshot, lock waits,
the re-evaluation of the WHERE clause after a wait, no row added to an UPDATE
that was inserted meanwhile, the order of row locks left open, detection of
cycles of waits with any member as the victim.

### TokenLedger

Five steps on committed rows: `Open`, `Exchange`, `Reuse`, `Terminate`,
`Expire`. It says what a reader of the tables can rely on: `Reuse` kills all
tokens of the session in one step, `Exchange` turns the only live token into
the next. It also says, in two loose places, what one cannot rely on: an
exchange does not ask whether the session is terminated, and `Terminate` may
leave a token of a session it ends. Both are what the code does.

### ConnectionPool

`pc[r]` is where request `r` is, `idle` the number of idle clients, `queue` the
requests waiting for one. `Acquire` and `GiveBack` are pg's (external to the
repository): an idle client or a place in a FIFO queue, without timeout, as
`new Pool({connectionString})` leaves it. `Arrive` ... `Release` are the
handlers' common skeleton: `connect`, `BEGIN` and the locking statements, audit
events each on a second client, COMMIT or ROLLBACK, `finally release`. `Probe`
and `EndProbe` are `GET /health/db`, one `pool.query` without a transaction.

### Server

`Server` extends `ConnectionPool` with what `server.ts` does around it. `Start`
and `Ready` (or `StartFails`) are `env.ts`, `checkDbConnection` and `app.listen`;
`Accept` and `Serve` are the pool's steps while the process listens or closes
(connections that are kept alive bring requests until they are closed);
`Signal` calls `server.close`, whose callback is `Drained` and whose timer is
`ForceExit`. `LoseDatabase`: `db.ts` registers no `'error'` listener on the pool, nor
the handlers on their clients, so that a lost connection is an uncaught
exception. Every way out is `Exit`: requests and pool are gone, and PostgreSQL
rolls back. What that does to the rows is `Abort` in the other modules.

### Accounts and AddressBook

The committed rows are `identifier` (per identity "absent", "unverified" or
"verified"; the identity, its identifier and its credential are inserted
together) and `verification` ("absent", "active", "used", "invalidated");
`expired` is what the clock has done, `mailed` the verifications whose token has
left in a mail, which is where a confirmation has it from. `tx[c]` is as in
`SessionStore`.

| code | actions |
|---|---|
| `registerWithPassword` | `BeginRegister` (the identity), `InsertIdentifier` or `RefuseDuplicate` (the unique index decides) |
| `initiateEmailVerification` | `BeginResend` (the reads), `PickActive` and `Invalidate` (the UPDATE, snapshot and rows), `InsertVerification` or `RefuseVerification` (the index decides) |
| `confirmEmailVerification` | `BeginConfirm`, `LockVerification` (FOR UPDATE, judged, marked used), `MarkVerified` |
| COMMIT and, after it, the mail, handed over or lost; any failure | `Commit`, `AfterMailing`; `Abort` |
| 24 hours pass | `Expire` |

An INSERT under a partial unique index waits for every transaction that has
inserted an equal row, or ended the one that stands in the way, and has not
committed; `EmailDecided` and `TokenDecided` are that wait. `AddressBook` has
three steps: `Register` takes an address nobody has, `Resend` replaces the
active token in one step, `Confirm` uses the active token. That a `Resend` is
possible for a verified address is what the code does: it asks without a lock.

### Passwords

`credential[k]` is "absent", "active" or "revoked"; a credential also stands for
its secret, so that to know a password is to name a credential. `session[s]` is "absent",
"active" or the reason it was terminated for, which here is always the change of
the password (`TerminationReason`). `openedWith[s]`, which no column holds,
remembers the credential a session's login verified. A login is `BeginLogin`
(everything before BEGIN) and `OpenSession`; a change is `BeginChange` (reads
and compare), `RevokeCredential` (which may find nothing), `InsertCredential` or
`RefuseChange` (the index of migration 013 decides), `EndSessions`. The sessions
are one step each here; what a change does to them and their refresh tokens row
by row is in `RefreshTokens`.

### OAuthLogin and ExternalAccounts

An account stands for (provider, provider_subject). `link[i]` is the account
identity `i` is bound to, `owner[s]` the identity of session `s`; `provenBy[s]`
remembers the account whose assertion the session was opened for, and `refused`
the accounts a login was refused for by the unique index. `Assertions` is what
an ID token is to the verifier: signed and not expired, for our client id, from
one of Google's issuers, with a subject; `Verified` asks for all of it.

| code | actions |
|---|---|
| `GoogleOAuthVerifier.verify` throws | `RefuseAssertion` |
| `authenticate`: BEGIN, `findExternalIdentity` (no lock), `createIdentity` | `Resolve` |
| `createExternalIdentity` | `Link` or `RefuseLink` (the index of migration 015 decides, after waiting for an uncommitted equal row) |
| `createSessionWithRefreshToken` | `OpenSession` |
| COMMIT; any failure, ROLLBACK | `Commit`; `Abort` |

The refinement maps an account to the identity whose committed row names it
(`identityOf`) and an identity to its committed sessions. `ExternalAccounts` has
two steps: `FirstLogin` makes identity, binding and session appear at once,
`Login` adds a session to the identity the account has.

### Migrations and SchemaHistory

A script is a number, its place in the order of file names. `applied` is what
the schema shows, `recorded` the rows of `schema_migrations`, `runner[r]` where a
run is and whether its open transaction has run the script. `Check` is the
SELECT (outside any transaction) and BEGIN; `RunScript` a script in the runner's
transaction; `RunOwnCommit` one of those with a COMMIT of their own (015, 016),
which ends that transaction, so that `Record` commits by itself; `RunAgain` a
script that has been applied and fails; `RecordAgain` one that does not fail
(012, `IF NOT EXISTS`) and whose row then meets the primary key; `Fail` any other
failure, and a killed process. `SchemaHistory` has `Advance` (script and row
together), `Slip` (a self-committing script without its row) and `CatchUp`.

## 3. Runs

| run | instance | shows |
|---|---|---|
| `rotation` | 2 clients, 2 sessions of one identity, 3 + 1 tokens, all requests and failures (1,139,654 states) | `TypeOK`, `ExchangedOnce`, `ReuseKillsSession`, `OneLineage`, `IndexNeverFires`, `ActiveSessionHasOneToken`, `TerminationIsFinal`, the inductive invariant `Consistent`, and refinement of `TokenLedger` |
| `request_liveness` | 2 clients, 2 sessions of one identity, 3 + 1 tokens, all requests, no failures, no expiry (139,810 states) | `RequestsEnd` under fairness |
| `logout_race` | 2 clients, 1 session, 4 tokens | violation of `TerminatedGetsNoToken` (5.1) |
| `reuse_victim` | 2 clients, 1 session, 3 tokens, no failures | violation of `MisuseAlwaysRevokes` (5.2) |
| `server` | 3 requests or health checks, 3 clients, at most 2 events each, two requests on one row; any number of stops and starts (13,086 states) | `ServerTypeOK`, `ClientsConserved`, `QueueSound`, `AnsweredUnlessExhausted` and `StopsAfterSignal` under fairness |
| `pool_exhaustion` | 2 requests, 2 clients | violation of `RequestsAnswered` (5.5) |
| `accounts` | 2 clients, 2 identities with one address, 3 + 1 verifications, all requests, failures, expiry, lost mails (35,671 states) | `TypeOK`, `UnverifiedHasOneToken`, `EndedByOne`, `MailedTokensExist`, `TerminalStateIsFinal`, refinement of `AddressBook`, `RequestsEnd` under fairness |
| `resend_race` | as `accounts` | violation of `ResendSucceeds` (5.3) |
| `passwords` | 2 clients, 3 credentials, 2 sessions, failures (7,566 states) | `TypeOK`, `OneActiveCredential`, the inductive invariant `Consistent`, `ChangeReplacesVerified`, `ChangeEndsSessions`, `RequestsEnd` under fairness |
| `login_race` | 2 clients, 2 credentials, 2 sessions | violation of `NoSessionOfOldPassword` (5.4) |
| `oauth` | 3 clients, 2 accounts, 3 identities, 3 sessions, good and bad assertions, failures (17,719 states) | `TypeOK`, `OneIdentityPerAccount`, `SessionOfProvenAccount`, `RefusedCanRetry`, the inductive invariant `Consistent`, refinement of `ExternalAccounts`, `RequestsEnd` under fairness |
| `migrations` | 3 runners, 5 scripts of which one is repeatable and two commit by themselves, 3 failures (47,955 states) | `TypeOK`, `ExitZeroMeansMigrated`, `OnlyOwnCommitsTear`, refinement of `SchemaHistory`, `EventuallyMigrated` under fairness |

**Bounds.** Tokens and sessions are identities that are used up; `RoomFor` lets
a request start only while an unused id is left for it, so a run never ends in
the middle of a request for lack of ids. In `rotation`, three tokens of one
session are the login's, one rotation that grants an access token, and one
rotation that races with a misuse of the first token, a logout or a password
change; two sessions are what an identity-wide termination needs to be half
done. The violation runs have a fourth token, for the rotation after the race.
Two clients are enough for every pairwise race, and the guards, locks and index
conflicts of the code relate two transactions at a time; that nothing new
appears with more clients, sessions or tokens (or requests, runners, scripts) is
what the proofs show, for every safety property of every passing run. `request_liveness` needs the third token for the deadlock of a misuse
with a rotation, and the second session for a logout everywhere that waits for
one session with another's rows locked. An expired token is treated as a used
one, so nothing expires there; it has no failures because these only free what is
waited for. `DrawInOrder` takes the place of symmetry: unused ids of a session
are taken in a fixed order, which removes no step, only which id it draws.
`Workload` says which requests, and whether failures and expiry, a run has. In `accounts`, three verifications of one identity are the
registration's and two resends', enough for two resends to race with a
confirmation of the first; the second identity has the same address, so that
registrations collide. In `passwords`, three credentials allow two changes, in
sequence or racing, and two sessions one login before and one across a change.
In `server`, as many requests as clients are the least that stands still, and a
third request can wait while two do. In `oauth`, three clients are two first
logins of one account and a login with the other, or with the first again. In
`migrations`, a repeatable script between two that are not, and two that commit
by themselves at the end, are the scripts from 011 on in small; three failures
are one for each runner. The symmetric sets are the clients and, within their
session, the tokens; no temporal property other than box properties is checked
under symmetry.

**Fairness** (`FairSpec`, only for liveness). PostgreSQL queues waiters for a
row, so a client whose statement is possible again and again gets to run it:
strong fairness of each client's `Step`. It detects deadlocks after
`deadlock_timeout`: weak fairness of `Abort` while the client is in a cycle.
In `Accounts` and `Passwords` nothing is assumed of `Abort`: their requests take
their locks in an order that cannot close a cycle, as the theorems `NoDeadlock`
show for any number of them and `RequestsEnd` confirms. Nothing is assumed of requests: none need begin, and no other failure is
assumed to happen. For the pool: strong fairness of a request's `Step`, for the
same reasons; the FIFO queue is modelled, not assumed. For the server: also weak
fairness of `ForceExit`, because a timer goes off; nothing is assumed of `Drained`, of
starts or of signals. For the migrations: weak fairness of each runner's `Step`,
which includes that a run that has ended is started again, as a deployment that
failed is; no failure need happen. In `OAuthLogin` the waiters for an index entry
are served as in `Accounts`.

## 4. Proofs

All theorems hold for every value of the constants that the module's assumption
allows, finite or infinite; only the requests in `ConnectionPool` have to be
finitely many, for they are counted. Every safety property that a passing run
checks, every box action property and every refinement is one of the theorems.

### RefreshTokens

Clients, identities, sessions and tokens are any sets, under `StoreAssumption`
alone (each session has an owner, each token a session, ids of different kinds
differ, `None` is none of them).

* `RefreshTokensProofs!Invariant`: `Spec => [](TypeOK /\ Consistent)`.
* From it: `TypeCorrect`, `TransactionsStayConsistent`, `ReuseKills`, `SingleUse`, `Lineage`,
  `RotationNeverConflicts`, `TerminationFinal`, `ActiveHasToken`.
* `TokenLedgerProofs!Refinement`: `Spec => ImplementsLedger`.

The argument. None of the properties is inductive: what makes them true is in
the transactions. `Consistent` says of each transaction how far it has come
(`RequestShape`), that it only writes what it has locked and that a refresh
past its locks holds the token and the session (`RowsLocked`), that a rotation
under way still has a good old token and a fresh new one (`RotationReady`),
that a termination under way will end every session it has revoked a token of
(`EndingReady`), and that a misuse under way has all the session's tokens
revoked or on its list (`MisuseCovers`). Two transactions never hold the same
row (`Apart`); this is what turns "still" into an invariant: nobody else can
have changed a row one holds. `ReuseKillsSession`, for instance, needs
`MisuseCovers` at the commit of the misuse and, against a token inserted later,
`RotationReady`: the rotation would need a token that is neither used nor
revoked, and there is none left.

The proof is one lemma per action (`...Inv`); the actions that only touch
their own transaction go through `LocalStep`, the commit through `CommitCases`
(it rotates, opens, or terminates), and `IdleOK` and `CommitOthers` for the
transaction that ended and for the ones that go on. The refinement needs no
further invariant: a commit is one of the ledger's steps by `CommitCases`, and
everything else stutters.

### OAuthLogin

Clients, accounts, identities and sessions are any sets; `OAuthAssumption` says
that `None` is neither an account nor an identity.

* `OAuthLoginProofs!Invariant`: `Spec => [](TypeOK /\ Consistent)`.
* From it: `TypeCorrect`, `RequestsStayConsistent`, `SingleIdentity`,
  `SessionsProven`, `RefusedReturns`.
* `OAuthLoginProofs!Refinement`: `Spec => ImplementsDirectory`.

The argument. `OneIdentityPerAccount` is not inductive: a login that has found
no identity commits one later. `Consistent` adds what a login may rely on when
it does: the identity it has is bound to its account, or is new, bound to
nothing and, once its binding is inserted, the account has none either
(`BindingReady`); and two logins share an identity only if it is bound already,
never the account of a binding under way, never a session (`Apart`). `Link` has
to wait for the index to make the last true: with `LinkUnchecked` it fails. A
COMMIT then does one of two things (`CommitCases`): it binds a new identity to
an account that has none (`Binds`), or adds a session to an identity that is
bound (`Returns`); `CommitOthers` shows that the others keep what they rely on.
For the refinement `Chosen` shows that the identity the mapping chooses for an
account is the one that is bound to it, before and after a step; `Binds` is then
`FirstLogin` (`BindsMaps`), `Returns` is `Login` (`ReturnsMaps`), and every
other action stutters.

### Accounts

Clients, identities, verifications and addresses are any sets;
`AccountsAssumption` says that every identity has an address and every
verification an identity, and that their ids and `None` differ.

* `AccountsProofs!Invariant`: `Spec => [](TypeOK /\ Consistent)`.
* From it: `TypeCorrect`, `OneToken`, `EndsActiveOnly`, `MailedExist`,
  `TerminalFinal`.
* `AccountsProofs!Refinement`: `Spec => ImplementsBook`.
* `AccountsProofs!NoDeadlock`: `Spec => []WaitsAhead`.

The argument. `UnverifiedHasOneToken` is not inductive: a resend commits a token
it inserted earlier, and whether another one is active by then is decided in
between. `Consistent` says that what a transaction is going to end is active and
locked by it (`RowsReady`), so that nobody else ends it; that a resend which has
inserted its token has ended every other one of the identity, and a confirmation
that has used a token has verified the identity, or found it verified
(`TokenReady`); and that no two transactions insert for one address or one
identity (`Apart`), which the waits for the two unique indexes make true. A
COMMIT then is a registration, a resend, a confirmation or nothing
(`CommitCases`: `Registers`, `Resends`, `Confirms`, `Refuses`), which are the
steps of `AddressBook`, and `CommitOthers` shows that the others keep what they
rely on. (`Consistent` was checked with TLC at the bounds of run `accounts` too,
before it was proved; the run does not list it.)

`NoDeadlock` reads the guards that wait as a relation (`WaitsFor`;
`WaitsAreGuards` says that who waits for nobody passes them) and gives each
transaction a rank by how far it has come. Every wait is for a smaller rank,
hence no cycle, of any length. It needs a second invariant, `WaitInv`: an
identity has at most one active verification, verified or not, so that a resend
has one row to wait for and holds none while it does; and a confirmation that
wants the identifier holds its verification only.

### Passwords

Clients, credentials and sessions are any sets; `PasswordsAssumption` says that
`None` is no credential.

* `PasswordsProofs!Invariant`: `Spec => [](TypeOK /\ Consistent)`.
* From it: `TypeCorrect`, `RequestsStayConsistent`, `OneCredential`,
  `ReplacesVerified`, `EndsSessions`, `NoDeadlock`.

The argument. A change past its INSERT has the one active credential locked and
revoked (`CredentialsReady`); there is one such credential and locks exclude
each other (`Apart`), so there is one such change (`SoleChange`). What it
commits replaces the credential it verified (`CommitCases`), for the row it
locked is the one it had read. `SessionsReady` carries what the change saw on
arrival to its COMMIT: a session seen then is still active only if it is on the
list of those to end. For `NoDeadlock`: whoever is waited for holds the active
credential (`AwaitedHolds`), so nobody waits for someone who waits.

### Server and ConnectionPool

Requests are any finite set, `PoolSize` any positive number.

* `ServerProofs!Invariant`: `ServerSpec => []IInv`, where `IInv` is `PoolInv` (the
  count, the queue), `EventsLeft` and the process's state.
* From it: `TypeCorrect`, `Conserved`, `QueueIsSound`, `FewerNeverStandStill`.

The argument counts: a place uses 0, 1 or 2 clients (`Uses`), and when one
request moves, the clients taken change by the difference (`CountMove`). `Acquire`
takes an idle client or puts the request into the queue (`AcquireKeeps`);
`GiveBack` moves two requests, the one that leaves its client and the head of the
queue that gets it, and the count stays (`GiveBackKeeps`). The queue holds who
waits, once each (`Enqueue`, `Dequeue`, `NotQueued`). `EventsLeft` is needed for
types: a request that records an event has one left, so that the counter does
not go below zero. `FewerNeverStandStill` is the other side of 5.5: with fewer
requests than clients, when no client is idle somebody has two, and will give
one back. That the pool then answers everybody is liveness, and TLC's.

### Migrations

Runs are any set, `N` any positive number of scripts; `MigrationsAssumption` says
that no script with a COMMIT of its own succeeds twice, as 015 and 016 do not.

* `MigrationsProofs!Invariant`: `Spec => []IInv`.
* From it: `TypeCorrect`, `ExitZero`, `OwnCommitsTear`.
* `MigrationsProofs!Refinement`: `Spec => ImplementsHistory`.

The argument. A run at a script has seen or made the rows of all scripts before
it (`RunnerOK`), so that a script is applied only when all before it are recorded
(`TablesOK`); rows are never taken away, so no run spoils what another has seen
(`OnlyOne`). Therefore, when a script is applied that was not, the tables agree
and hold exactly the scripts before it (`NextToApply`), and a script without its
row is the last one (`LastApplied`): these are the steps of `SchemaHistory`. A run
whose script another run has committed meanwhile changes nothing. `IInv` was
checked with TLC at the bounds of run `migrations`, and `EventsLeft` and the count
at those of `server`.

### Only model-checked

Liveness, which is out of TLAPS's reach: `RequestsEnd` in each module,
`RequestsAnswered`, `AnsweredUnlessExhausted`, `StopsAfterSignal` and
`EventuallyMigrated`. The theorems `NoDeadlock` and `FewerNeverStandStill` are the
part of it that is safety: whom a request waits for, and that the waits end
somewhere. That a request which waits for nobody has a step is read off the
actions (`WaitsAreGuards` has their guards), since ENABLED is out of reach as
well. The violations of section 5 are TLC's counterexamples.

## 5. What the runs found

1. **A logout can miss a token** (`logout_race`). The UPDATE that revokes the
   session's tokens picks them when it starts. If a refresh of the session is
   under way, it waits for it, and the token that refresh inserts is not among
   those picked. The session is then terminated and has a live token, and
   `refreshSessionTokens` does not look at `sessions.terminated_at`: the
   terminated session is refreshed on. `docs/domain-invariants.md:151`
   (INV-SESSION-3) excludes this.
2. **Detected misuse can be forgotten** (`reuse_victim`). The refresh that
   detected it and a refresh with the live token deadlock (each has what the
   other wants); if PostgreSQL picks the first, it rolls back and the session
   goes on. `docs/domain-invariants.md:191` (INV-TOKEN-3) promises immediate
   revocation.
3. **A resend can fail, for an existing unverified address only**
   (`resend_race`). The second of two concurrent resends does not see the
   verification the first inserted; its own INSERT meets the index of active
   verifications and the answer is 500. `docs/testing-strategy.md:30`: "Resend
   verification always returns success", and INV-VERIFY-BEH-5
   (`docs/domain-invariants.md:303`).
4. **A session can outlive its password** (`login_race`). `auth.login.ts` reads
   and compares before BEGIN, without a lock; a change that commits meanwhile
   ends the sessions there are, and the login opens one more from the old
   password. INV-CRED-3 (`docs/domain-invariants.md:107`).
5. **The pool can starve itself** (`pool_exhaustion`). As many concurrent
   requests as pool clients, each waiting for one more client for its audit
   event. `src/domain/audit/audit.service.ts:27`: "Audit must never affect auth
   behavior".

Remarks that need no run:

* `src/repos/refresh-tokens.repo.ts:18` says only the token's row is locked, but
  `FOR UPDATE` without `OF` locks the joined session and identity too. `LockSession`
  and `LockIdentity` model what is locked, and the proof of `ReuseKillsSession`
  depends on the session's lock.
* Registering an address twice leaves IDENTITY_CREATED in the audit log for an
  identity that is rolled back: the event is committed on another connection
  (`src/domain/register-with-password.ts:27`). `docs/database-design.md:27` calls
  the log immutable security facts.
* "Run migration transactionally" (`src/run-migrations.ts:37`) is not what happens
  to 015 and 016. A failure between their COMMIT and the INSERT into
  `schema_migrations` makes every later run fail on them ("already exists"): the
  second half of `EventuallyMigrated` is there because of it, and
  `OnlyOwnCommitsTear` says that nothing else is torn.
* "All failures collapse to AuthenticationFailedError"
  (`src/domain/password-rotation.service.ts:27`): a change that loses the race
  fails at the unique index instead, and `RefuseChange` is answered with 500.
* In the standstill of 5.5 `GET /health/db` is not answered either, while
  `GET /health` is.

## 6. Not modelled, and the plan

Left out on purpose: routing, validation and status codes (stateless), cookie
or body delivery of tokens, signatures and hashes (a token is its row, an
assertion is signed or not), expiry of access tokens (taken as valid for ever:
more behaviours, not fewer), what happens to a mail once it is handed over,
`sessions.last_token_issued_at` (observational; the row is locked already when it
is written), contents of audit events, the key set that `jose` fetches and
caches, a raw password or token behind its hash, wrong e-mail addresses and
unknown tokens (answered without a change of state). Service principals have a
table (migration 007) and no code.

Every component that keeps state or changes it is modelled, and every safety
property of a passing run is proved. What the plan has left, in this order:

1. `RefreshTokens`: who can deadlock. A logout, a login and a rotation of other
   sessions should never be part of a cycle of waits; 5.2 needs a misuse or a
   termination of the whole identity. `WaitsFor` and `Rank` of `AccountsProofs` are
   the pattern.
2. `ConnectionPool`: that the queue is served in the order of arrival, as an
   action property.
