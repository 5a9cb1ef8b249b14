------------------------------ MODULE Accounts ------------------------------
(***************************************************************************)
(* Registration by e-mail and password, and the verification of the        *)
(* address: the tables identities, identity_identifiers and verifications, *)
(* as READ COMMITTED transactions (SessionStore explains what that means). *)
(*                                                                         *)
(*   register   POST /auth/register                registerWithPassword    *)
(*   resend     POST /verifications/email          initiateEmailVerification *)
(*   confirm    POST /verifications/email/confirm  confirmEmailVerification  *)
(*                                                                         *)
(* An identity is inserted together with its identifier, its credential    *)
(* and its first verification, so one row stands for them all. Ids are     *)
(* used up as they are created; each belongs to its parent for ever.       *)
(* Abstracted: the password, and the raw token behind its hash.            *)
(***************************************************************************)
EXTENDS Naturals, FiniteSets

CONSTANTS
  Clients,        \* connections of the pool
  Identities,     \* every identity that may be created; a bound
  Verifications,  \* every verification that may be created; a bound
  EmailOf,        \* the address of an identity, up to case
  IdentityOf,     \* verifications.identity_id
  None

ASSUME AccountsAssumption ==
  /\ DOMAIN EmailOf = Identities
  /\ IdentityOf \in [Verifications -> Identities]
  /\ None \notin Identities \cup Verifications
  /\ Identities \cap Verifications = {}

VARIABLES
  identifier,    \* verified_at of committed identity_identifiers rows
  verification,  \* used_at and invalidated_at of committed verifications
  expired,       \* verifications whose 24 hours are over
  mailed,        \* verifications whose token was mailed
  tx             \* the transaction each client runs

vars == <<identifier, verification, expired, mailed, tx>>

Steps == {"idle", "identifier", "pick", "invalidate", "lock", "verify", "commit"}

Transaction ==
  [ at          : Steps,
    op          : {"none", "register", "resend", "confirm"},
    who         : Identities \cup {None},
    tok         : Verifications \cup {None},  \* the token presented
    todo        : SUBSET Verifications,       \* rows the UPDATE still visits
    held        : SUBSET (Identities \cup Verifications),
    inserted    : SUBSET Identities,          \* uncommitted: rows inserted,
    minted      : SUBSET Verifications,       \*   rows inserted,
    used        : SUBSET Verifications,       \*   used_at set,
    invalidated : SUBSET Verifications,       \*   invalidated_at set,
    verified    : SUBSET Identities ]         \*   verified_at set

NoTransaction ==
  [ at |-> "idle", op |-> "none", who |-> None, tok |-> None, todo |-> {},
    held |-> {}, inserted |-> {}, minted |-> {}, used |-> {},
    invalidated |-> {}, verified |-> {} ]

Others(c) == Clients \ {c}
Free(c, x) == \A d \in Others(c) : x \notin tx[d].held
TokensFor(i) == {v \in Verifications : IdentityOf[v] = i}
Active(v) == verification[v] = "active"

FreshTokens(i) ==
  {v \in TokensFor(i) : verification[v] = "absent"
                        /\ \A d \in Clients : v \notin tx[d].minted}

-----------------------------------------------------------------------------
(* register *)

(* createIdentity. Its audit event is a transaction of its own. *)
BeginRegister(c, i) ==
  /\ tx[c].at = "idle"
  /\ identifier[i] = "absent"
  /\ \A d \in Clients : ~(tx[d].op = "register" /\ tx[d].who = i)
  /\ tx' = [tx EXCEPT ![c] =
              [NoTransaction EXCEPT !.at = "identifier", !.op = "register",
                                    !.who = i]]
  /\ UNCHANGED <<identifier, verification, expired, mailed>>

SameEmail(i) == {j \in Identities : EmailOf[j] = EmailOf[i]}

(* The unique index on lower(value) waits for an uncommitted equal address. *)
EmailDecided(c, i) ==
  \A d \in Others(c) : tx[d].inserted \cap SameEmail(i) = {}
EmailTaken(i) == \E j \in SameEmail(i) : identifier[j] # "absent"

(* The address is new: identifier, credential and verification go in. *)
InsertIdentifier(c, v) ==
  /\ tx[c].at = "identifier"
  /\ EmailDecided(c, tx[c].who) /\ ~EmailTaken(tx[c].who)
  /\ v \in FreshTokens(tx[c].who)
  /\ tx' = [tx EXCEPT ![c].at = "commit", ![c].inserted = {tx[c].who},
                      ![c].minted = {v}]
  /\ UNCHANGED <<identifier, verification, expired, mailed>>

(* The address is taken: ROLLBACK and RegistrationFailedError. *)
RefuseDuplicate(c) ==
  /\ tx[c].at = "identifier"
  /\ EmailDecided(c, tx[c].who) /\ EmailTaken(tx[c].who)
  /\ tx' = [tx EXCEPT ![c] = NoTransaction]
  /\ UNCHANGED <<identifier, verification, expired, mailed>>

-----------------------------------------------------------------------------
(* resend *)

(* A resend only starts while an id is left for it; a bound. *)
RoomFor(i) ==
  Cardinality({v \in TokensFor(i) : verification[v] = "absent"})
    > Cardinality({c \in Clients : tx[c].op = "resend" /\ tx[c].who = i})

(* An unknown or verified address is answered with no change of state. *)
BeginResend(c, i) ==
  /\ tx[c].at = "idle"
  /\ identifier[i] = "unverified"
  /\ RoomFor(i)
  /\ tx' = [tx EXCEPT ![c] =
              [NoTransaction EXCEPT !.at = "pick", !.op = "resend",
                                    !.who = i]]
  /\ UNCHANGED <<identifier, verification, expired, mailed>>

(* invalidateActiveVerification: its UPDATE picks its rows ... *)
PickActive(c) ==
  /\ tx[c].at = "pick"
  /\ tx' = [tx EXCEPT ![c].at = "invalidate",
                      ![c].todo = {v \in TokensFor(tx[c].who) : Active(v)}]
  /\ UNCHANGED <<identifier, verification, expired, mailed>>

(* Mutant of Invalidate: the WHERE clause is not evaluated again. *)
InvalidateAnyway(c, v) ==
  /\ tx[c].at = "invalidate" /\ v \in tx[c].todo
  /\ Free(c, v)
  /\ tx' = [tx EXCEPT ![c].todo = @ \ {v}, ![c].held = @ \cup {v},
                      ![c].invalidated = @ \cup {v}]
  /\ UNCHANGED <<identifier, verification, expired, mailed>>

(* ... and locks each, looking again whether it is still active. *)
Invalidate(c, v) ==
  /\ tx[c].at = "invalidate" /\ v \in tx[c].todo
  /\ Free(c, v)
  /\ tx' = [tx EXCEPT ![c].todo = @ \ {v}, ![c].held = @ \cup {v},
                      ![c].invalidated = IF Active(v) THEN @ \cup {v} ELSE @]
  /\ UNCHANGED <<identifier, verification, expired, mailed>>

(* Verifications of c's identity that are active as far as c is concerned. *)
StillActive(c) ==
  {v \in TokensFor(tx[c].who) : Active(v)} \ tx[c].invalidated

(***************************************************************************)
(* The unique index on active verifications waits for whoever has inserted *)
(* one, or is about to end one, and has not committed.                     *)
(***************************************************************************)
TokenDecided(c) ==
  \A d \in Others(c) :
    /\ tx[d].minted \cap TokensFor(tx[c].who) = {}
    /\ (tx[d].used \cup tx[d].invalidated) \cap StillActive(c) = {}

(* Mutant of InsertVerification: there is no unique index. *)
InsertUnchecked(c, v) ==
  /\ tx[c].at = "invalidate" /\ tx[c].todo = {}
  /\ v \in FreshTokens(tx[c].who)
  /\ tx' = [tx EXCEPT ![c].at = "commit", ![c].minted = {v}]
  /\ UNCHANGED <<identifier, verification, expired, mailed>>

(* Mutant of InsertVerification: the mail is sent at once. *)
InsertAndMail(c, v) ==
  /\ tx[c].at = "invalidate" /\ tx[c].todo = {}
  /\ TokenDecided(c) /\ StillActive(c) = {}
  /\ v \in FreshTokens(tx[c].who)
  /\ tx' = [tx EXCEPT ![c].at = "commit", ![c].minted = {v}]
  /\ mailed' = mailed \cup {v}
  /\ UNCHANGED <<identifier, verification, expired>>

InsertVerification(c, v) ==
  /\ tx[c].at = "invalidate" /\ tx[c].todo = {}
  /\ TokenDecided(c) /\ StillActive(c) = {}
  /\ v \in FreshTokens(tx[c].who)
  /\ tx' = [tx EXCEPT ![c].at = "commit", ![c].minted = {v}]
  /\ UNCHANGED <<identifier, verification, expired, mailed>>

(* The index refuses the row: ROLLBACK, and the error handler answers 500. *)
RefuseVerification(c) ==
  /\ tx[c].at = "invalidate" /\ tx[c].todo = {}
  /\ TokenDecided(c) /\ StillActive(c) # {}
  /\ tx' = [tx EXCEPT ![c] = NoTransaction]
  /\ UNCHANGED <<identifier, verification, expired, mailed>>

-----------------------------------------------------------------------------
(* confirm *)

(* Mutant of BeginConfirm: the identifier is looked up by the wrong id. *)
BeginConfirmById(c, v) ==
  /\ tx[c].at = "idle"
  /\ v \in mailed
  /\ tx' = [tx EXCEPT ![c] =
              [NoTransaction EXCEPT !.at = "lock", !.op = "confirm",
                                    !.tok = v, !.who = v]]
  /\ UNCHANGED <<identifier, verification, expired, mailed>>

(* A token comes from a mail; an unknown one is answered with no change. *)
BeginConfirm(c, v) ==
  /\ tx[c].at = "idle"
  /\ v \in mailed
  /\ tx' = [tx EXCEPT ![c] =
              [NoTransaction EXCEPT !.at = "lock", !.op = "confirm",
                                    !.tok = v, !.who = IdentityOf[v]]]
  /\ UNCHANGED <<identifier, verification, expired, mailed>>

(* Mutant of LockVerification: the SELECT has no FOR UPDATE. *)
ReadVerification(c) ==
  /\ tx[c].at = "lock"
  /\ LET good == Active(tx[c].tok) /\ tx[c].tok \notin expired IN
     tx' = [tx EXCEPT ![c].at = IF good THEN "verify" ELSE "commit",
                      ![c].used = IF good THEN {tx[c].tok} ELSE {}]
  /\ UNCHANGED <<identifier, verification, expired, mailed>>

(* SELECT ... FOR UPDATE; a token that is good is marked used. *)
LockVerification(c) ==
  /\ tx[c].at = "lock"
  /\ Free(c, tx[c].tok)
  /\ LET good == Active(tx[c].tok) /\ tx[c].tok \notin expired IN
     tx' = [tx EXCEPT ![c].at = IF good THEN "verify" ELSE "commit",
                      ![c].held = {tx[c].tok},
                      ![c].used = IF good THEN {tx[c].tok} ELSE {}]
  /\ UNCHANGED <<identifier, verification, expired, mailed>>

(* markIdentifierVerified, which changes nothing if it is verified. *)
MarkVerified(c) ==
  LET i == tx[c].who IN
  /\ tx[c].at = "verify"
  /\ \/ /\ identifier[i] = "verified"
        /\ tx' = [tx EXCEPT ![c].at = "commit"]
     \/ /\ identifier[i] = "unverified" /\ Free(c, i)
        /\ tx' = [tx EXCEPT ![c].at = "commit", ![c].held = @ \cup {i},
                            ![c].verified = {i}]
  /\ UNCHANGED <<identifier, verification, expired, mailed>>

-----------------------------------------------------------------------------
(***************************************************************************)
(* After the commit, and after the client is released, the handler hands   *)
(* the mail with a new token to the queue; that it fails is only logged. A *)
(* mail that takes its time is a confirmation that comes later.            *)
(***************************************************************************)
AfterMailing(new) == {mailed, mailed \cup new}

(* COMMIT. *)
Commit(c) ==
  /\ tx[c].at = "commit"
  /\ identifier' = [i \in Identities |->
                      IF i \in tx[c].verified THEN "verified"
                      ELSE IF i \in tx[c].inserted THEN "unverified"
                      ELSE identifier[i]]
  /\ verification' = [v \in Verifications |->
                        IF v \in tx[c].minted THEN "active"
                        ELSE IF v \in tx[c].used THEN "used"
                        ELSE IF v \in tx[c].invalidated THEN "invalidated"
                        ELSE verification[v]]
  /\ mailed' \in AfterMailing(tx[c].minted)
  /\ tx' = [tx EXCEPT ![c] = NoTransaction]
  /\ UNCHANGED expired

(* Mutant of Abort: the client goes back to the pool without a ROLLBACK. *)
AbortKeepingLocks(c) ==
  /\ tx[c].at # "idle"
  /\ tx' = [tx EXCEPT ![c].at = "idle"]
  /\ UNCHANGED <<identifier, verification, expired, mailed>>

(* A statement fails or the process is lost: ROLLBACK. *)
Abort(c) ==
  /\ tx[c].at # "idle"
  /\ tx' = [tx EXCEPT ![c] = NoTransaction]
  /\ UNCHANGED <<identifier, verification, expired, mailed>>

Expire(v) ==
  /\ Active(v) /\ v \notin expired
  /\ expired' = expired \cup {v}
  /\ UNCHANGED <<identifier, verification, mailed, tx>>

-----------------------------------------------------------------------------
Init ==
  /\ identifier = [i \in Identities |-> "absent"]
  /\ verification = [v \in Verifications |-> "absent"]
  /\ expired = {} /\ mailed = {}
  /\ tx = [c \in Clients |-> NoTransaction]

Begin(c) ==
  \/ \E i \in Identities : BeginRegister(c, i) \/ BeginResend(c, i)
  \/ \E v \in Verifications : BeginConfirm(c, v)

Step(c) ==
  \/ RefuseDuplicate(c) \/ PickActive(c) \/ RefuseVerification(c)
  \/ LockVerification(c) \/ MarkVerified(c) \/ Commit(c)
  \/ \E v \in Verifications :
       InsertIdentifier(c, v) \/ Invalidate(c, v) \/ InsertVerification(c, v)

Next ==
  \/ \E c \in Clients : Begin(c) \/ Step(c) \/ Abort(c)
  \/ \E v \in Verifications : Expire(v)

Spec == Init /\ [][Next]_vars

(***************************************************************************)
(* Waiters for a row or an index entry are served in order of arrival.     *)
(* Nothing is assumed of Abort: these requests never deadlock.             *)
(***************************************************************************)
FairSpec == Spec /\ \A c \in Clients : SF_vars(Step(c))

-----------------------------------------------------------------------------
TypeOK ==
  /\ identifier \in [Identities -> {"absent", "unverified", "verified"}]
  /\ verification \in
       [Verifications -> {"absent", "active", "used", "invalidated"}]
  /\ expired \subseteq Verifications
  /\ mailed \subseteq Verifications
  /\ tx \in [Clients -> Transaction]

(***************************************************************************)
(* Whoever has not verified the address can still do so, or ask again:     *)
(* there is exactly one active verification, whatever resends and          *)
(* confirmations of it interleave or fail halfway (INV-VERIFY-BEH-6).      *)
(***************************************************************************)
UnverifiedHasOneToken ==
  \A i \in Identities : identifier[i] = "unverified" =>
    \E v \in TokensFor(i) : /\ Active(v)
                           /\ \A w \in TokensFor(i) : Active(w) => w = v

(***************************************************************************)
(* A verification reaches one terminal state (migration 014): a token that *)
(* a resend has invalidated is never used, one that was used is never      *)
(* invalidated or used again, in whatever order the two get to its row.    *)
(***************************************************************************)
TerminalStateIsFinal ==
  [][\A v \in Verifications :
       verification[v] \in {"used", "invalidated"} =>
         verification'[v] = verification[v]]_vars

(* Two transactions never end the same verification: the CHECK of migration *)
(* 014 never has to refuse one of them with 500.                            *)
EndedByOne ==
  \A c \in Clients : \A v \in tx[c].used \cup tx[c].invalidated : Active(v)

(***************************************************************************)
(* "SIDE EFFECT (after commit)": a link that was mailed leads to a row,    *)
(* and the row to a registered address. No mail goes out with a token that *)
(* a rollback takes back.                                                  *)
(***************************************************************************)
MailedTokensExist ==
  \A v \in mailed :
    verification[v] # "absent" /\ identifier[IdentityOf[v]] # "absent"

(***************************************************************************)
(* Seen through the committed rows each request is one step of AddressBook *)
(* or none: an address has one identity, a resend replaces the active      *)
(* token in one step, an address is verified by the active token only.     *)
(***************************************************************************)
Book == INSTANCE AddressBook
ImplementsBook == Book!Spec

(***************************************************************************)
(* The inductive invariant behind them. A transaction ends only rows it    *)
(* holds, which nobody else can have ended (RowsReady); a resend past its  *)
(* INSERT has every active token of its identity on its list (TokenReady); *)
(* two transactions never insert for one address or one identity (Apart).  *)
(***************************************************************************)
RequestShape(c) ==
  LET x == tx[c] IN
  /\ x.at = "idle" => x = NoTransaction
  /\ x.op = "none" => x.at = "idle"
  /\ x.op = "register" =>
       /\ x.at \in {"identifier", "commit"} /\ x.who # None
       /\ x.held = {} /\ x.used = {} /\ x.invalidated = {} /\ x.verified = {}
       /\ IF x.at = "identifier" THEN x.inserted = {} /\ x.minted = {}
          ELSE x.inserted = {x.who} /\ \E v \in TokensFor(x.who) : x.minted = {v}
  /\ x.op = "resend" =>
       /\ x.at \in {"pick", "invalidate", "commit"} /\ x.who # None
       /\ x.inserted = {} /\ x.used = {} /\ x.verified = {}
       /\ x.todo \cup x.held \subseteq TokensFor(x.who)
       /\ IF x.at # "commit" THEN x.minted = {}
          ELSE \E v \in TokensFor(x.who) : x.minted = {v}
  /\ x.op = "confirm" =>
       /\ x.at \in {"lock", "verify", "commit"}
       /\ x.tok # None /\ x.who = IdentityOf[x.tok]
       /\ x.inserted = {} /\ x.minted = {} /\ x.invalidated = {}
       /\ x.at = "lock" => x.held = {} /\ x.used = {}
       /\ x.at = "verify" => x.used = {x.tok}
       /\ x.at # "commit" => x.verified = {}
       /\ x.used \in {{}, {x.tok}}
       /\ x.verified \subseteq {x.who} /\ (x.used = {} => x.verified = {})

RowsReady(c) ==
  LET x == tx[c] IN
  /\ \A v \in x.used \cup x.invalidated : Active(v) /\ v \in x.held
  /\ \A v \in x.minted : verification[v] = "absent"
  /\ \A i \in x.inserted : \A j \in SameEmail(i) : identifier[j] = "absent"

TokenReady(c) ==
  LET x == tx[c] IN
  /\ x.op \in {"resend", "confirm"} => identifier[x.who] # "absent"
  /\ x.op = "resend" /\ x.at = "commit" => StillActive(c) = {}
  /\ x.op = "confirm" /\ x.at = "commit" /\ x.used # {} =>
       x.verified = {x.who} \/ identifier[x.who] = "verified"

Apart(c, d) ==
  LET x == tx[c]  y == tx[d] IN
  /\ x.held \cap y.held = {}
  /\ x.op = "register" /\ y.op = "register" => x.who # y.who
  /\ \A v \in x.minted, w \in y.minted : IdentityOf[v] # IdentityOf[w]
  /\ \A i \in x.inserted, j \in y.inserted : EmailOf[i] # EmailOf[j]

TablesConsistent ==
  /\ UnverifiedHasOneToken /\ MailedTokensExist
  /\ \A v \in Verifications :
       verification[v] # "absent" => identifier[IdentityOf[v]] # "absent"

Consistent ==
  /\ TablesConsistent
  /\ \A c \in Clients : RequestShape(c) /\ RowsReady(c) /\ TokenReady(c)
  /\ \A c, d \in Clients : c # d => Apart(c, d)

(* Every request ends, without PostgreSQL having to break a deadlock. *)
RequestsEnd ==
  \A c \in Clients : tx[c].at # "idle" ~> tx[c].at = "idle"

-----------------------------------------------------------------------------
(* Promised by the documents, not kept by the code. *)

(***************************************************************************)
(* "Resend verification always returns success" (testing-strategy.md): no  *)
(* resend comes to an INSERT that the index of active verifications will   *)
(* refuse. Two concurrent resends of one address do.                       *)
(***************************************************************************)
ResendSucceeds ==
  \A c \in Clients :
    tx[c].at = "invalidate" /\ tx[c].todo = {} /\ TokenDecided(c) =>
      StillActive(c) = {}

=============================================================================
