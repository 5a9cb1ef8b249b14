---------------------------- MODULE SessionStore ----------------------------
(***************************************************************************)
(* The tables sessions and refresh_tokens of the auth service as its       *)
(* transactions see them: the committed rows, and for every pool client    *)
(* the transaction it runs (the step it is at, the rows it has locked, the *)
(* writes it has made and not committed).                                  *)
(*                                                                         *)
(* Every handler opens its transaction with a bare BEGIN, so PostgreSQL    *)
(* runs it at READ COMMITTED:                                              *)
(*   - a statement picks its rows in a snapshot of what is committed when  *)
(*     it starts (plus the transaction's own writes);                      *)
(*   - it then locks those rows one by one, waiting for a transaction that *)
(*     holds a conflicting lock, and re-evaluates its WHERE clause on the  *)
(*     row as it is once the lock is granted;                              *)
(*   - a row another transaction inserted meanwhile is never added;        *)
(*   - locks are released and writes become visible at COMMIT, together.   *)
(*                                                                         *)
(* A session row knows its owner and a token row its session from birth    *)
(* and for ever, so both are constant functions: creating a row is picking *)
(* an unused id that has the right parent.                                 *)
(***************************************************************************)
EXTENDS Naturals, FiniteSets

CONSTANTS
  Clients,     \* connections of the pool, each serving one request at a time
  Identities,
  Sessions,    \* every session id that may be created; a bound
  Tokens,      \* every refresh token id that may be created; a bound
  OwnerOf,     \* sessions.identity_id
  SessionOf,   \* refresh_tokens.session_id
  Workload,    \* the requests, "failure" and "expiry" that a run has
  None

Requests == {"login", "refresh", "logout", "logoutAll", "password"}

ASSUME StoreAssumption ==
  /\ OwnerOf \in [Sessions -> Identities]
  /\ SessionOf \in [Tokens -> Sessions]
  /\ Workload \subseteq Requests \cup {"failure", "expiry"}
  /\ None \notin Tokens \cup Sessions \cup Identities
  /\ Tokens \cap Sessions = {} /\ Tokens \cap Identities = {}
  /\ Sessions \cap Identities = {}

(***************************************************************************)
(* Values of sessions.terminated_at and termination_reason taken together: *)
(* a row that is not terminated is "active".                               *)
(***************************************************************************)
Reasons == {"USER_LOGOUT", "TOKEN_REUSE", "PASSWORD_CHANGE"}
SessionStates == {"absent", "active"} \cup Reasons

VARIABLES
  session,  \* committed sessions rows
  issued,   \* committed refresh_tokens rows
  used,     \*   ... with used_at set
  revoked,  \*   ... with revoked_at set
  expired,  \*   ... with expires_at in the past
  succ,     \*   ... and their replaced_by_token_id
  granted,  \* sessions for which a client was handed an access token
  tx        \* the transaction each client runs

tables == <<session, issued, used, revoked, succ>>
vars == <<session, issued, used, revoked, expired, succ, granted, tx>>

-----------------------------------------------------------------------------
(* Transactions. *)

Steps == {"idle", "lockToken", "lockSession", "lockIdentity", "rotate",
          "terminate", "keyShare", "revokeAll", "revoke", "end", "open",
          "commit"}

Rows == Tokens \cup Sessions \cup Identities

Transaction ==
  [ at      : Steps,
    op      : Requests \cup {"none"},
    tok     : Tokens \cup {None},        \* the refresh token presented
    sess    : Sessions \cup {None},      \* the session being worked on
    who     : Identities \cup {None},    \* the identity whose sessions end
    pending : SUBSET Sessions,           \* sessions still to be ended
    todo    : SUBSET (Tokens \cup Sessions),  \* rows the UPDATE still visits
    held    : SUBSET Rows,               \* rows locked for update
    share   : SUBSET Identities,         \* identities locked FOR KEY SHARE
    minted  : SUBSET Tokens,             \* uncommitted: rows inserted,
    used    : SUBSET Tokens,             \*   used_at set,
    revoked : SUBSET Tokens,             \*   revoked_at set,
    opened  : SUBSET Sessions,           \*   sessions inserted,
    ended   : SUBSET Sessions ]          \*   terminated_at set

NoTransaction ==
  [ at |-> "idle", op |-> "none", tok |-> None, sess |-> None, who |-> None,
    pending |-> {}, todo |-> {}, held |-> {}, share |-> {}, minted |-> {},
    used |-> {}, revoked |-> {}, opened |-> {}, ended |-> {} ]

(* No other client holds row x, in the mode an UPDATE or FOR UPDATE needs. *)
Free(c, x) == \A d \in Clients \ {c} : x \notin tx[d].held

(* FOR UPDATE on an identity also waits for FOR KEY SHARE holders. *)
Unshared(c, i) == \A d \in Clients \ {c} : i \notin tx[d].share

(* Mutant of Spent: revoked_at is not looked at. *)
SpentUnlessRevoked(t) == t \in used \cup expired

(* A token a refresh must treat as misuse: used, revoked or expired. *)
Spent(t) == t \in used \cup revoked \cup expired

(* "Active" in the sense of uniq_active_refresh_token_per_session. *)
Live(t) == t \in issued /\ t \notin used \cup revoked

Terminated(s) == session[s] \in Reasons

TokensOf(s) == {t \in Tokens : SessionOf[t] = s}

(* The ids randomUUID has not produced yet, uncommitted rows included. *)
FreshTokens(s) ==
  {t \in TokensOf(s) \ issued : \A d \in Clients : t \notin tx[d].minted}

(***************************************************************************)
(* Would inserting an active token for session s, in the transaction of    *)
(* client c, run into uniq_active_refresh_token_per_session: a committed   *)
(* active row other than the one c replaces, or another transaction's row. *)
(***************************************************************************)
ActiveIndexConflict(c, s) ==
  \/ \E t \in TokensOf(s) : Live(t) /\ t # tx[c].tok
  \/ \E d \in Clients \ {c} : tx[d].minted \cap TokensOf(s) # {}

-----------------------------------------------------------------------------
(* The end of a transaction. *)

ReasonOf(op) == CASE op = "refresh"  -> "TOKEN_REUSE"
                  [] op = "password" -> "PASSWORD_CHANGE"
                  [] OTHER           -> "USER_LOGOUT"

(* COMMIT: the writes become visible and the locks are released. *)
Apply(c) ==
  /\ session' = [s \in Sessions |->
                   IF s \in tx[c].ended THEN ReasonOf(tx[c].op)
                   ELSE IF s \in tx[c].opened THEN "active" ELSE session[s]]
  /\ issued'  = issued \cup tx[c].minted
  /\ used'    = used \cup tx[c].used
  /\ revoked' = revoked \cup tx[c].revoked
  /\ succ'    = [t \in Tokens |->
                   IF t \in tx[c].used THEN CHOOSE n \in tx[c].minted : TRUE
                   ELSE succ[t]]
  /\ tx'      = [tx EXCEPT ![c] = NoTransaction]

(***************************************************************************)
(* Client c, waiting for a row, can only be let through by a client of S:  *)
(* every row its statement still has to lock is held by one of them.       *)
(***************************************************************************)
Stuck(c, S) ==
  LET heldIn(x)   == \E d \in S \ {c} : x \in tx[d].held
      sharedIn(x) == \E d \in S \ {c} : x \in tx[d].share
  IN \/ tx[c].at = "lockToken"    /\ heldIn(tx[c].tok)
     \/ tx[c].at = "lockSession"  /\ heldIn(tx[c].sess)
     \/ /\ tx[c].at = "lockIdentity"
        /\ heldIn(tx[c].who) \/ sharedIn(tx[c].who)
     \/ tx[c].at \in {"keyShare", "open"} /\ heldIn(tx[c].who)
     \/ /\ tx[c].at \in {"revoke", "end"}
        /\ tx[c].todo # {}
        /\ \A x \in tx[c].todo : heldIn(x)

(* A cycle of waits: deadlock_timeout later PostgreSQL aborts one of them. *)
Deadlocked(c) ==
  \E S \in SUBSET Clients : c \in S /\ \A d \in S : Stuck(d, S)

(* Mutant of Abort: the client goes back to the pool without a ROLLBACK. *)
AbortKeepingLocks(c) ==
  /\ tx[c].at # "idle"
  /\ Deadlocked(c) \/ "failure" \in Workload
  /\ tx' = [tx EXCEPT ![c].at = "idle"]
  /\ UNCHANGED <<tables, expired, granted>>

(***************************************************************************)
(* ROLLBACK: a statement failed (PostgreSQL chose the transaction as the   *)
(* victim of a deadlock, or the connection or the process was lost); the   *)
(* handler's catch rolls back and rethrows.                                *)
(***************************************************************************)
Abort(c) ==
  /\ tx[c].at # "idle"
  /\ Deadlocked(c) \/ "failure" \in Workload
  /\ tx' = [tx EXCEPT ![c] = NoTransaction]
  /\ UNCHANGED <<tables, expired, granted>>

=============================================================================
