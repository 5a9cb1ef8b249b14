---------------------------- MODULE PasswordsProofs ----------------------------
(***************************************************************************)
(* The safety of Passwords, for any number of clients, credentials and     *)
(* sessions.                                                               *)
(*                                                                         *)
(* IInv is inductive. A step that is not a COMMIT changes the record of    *)
(* one client only (LocalStep). A COMMIT opens the session of a login, or  *)
(* replaces the active credential and ends sessions (Opens, Replaces,      *)
(* CommitCases). While it has not committed, a change that replaces the    *)
(* active credential has its row locked, so no other has (SoleChange).     *)
(***************************************************************************)
EXTENDS Passwords, TLAPS

USE PasswordsAssumption

IInv == TypeOK /\ Consistent

(* The conjuncts of Consistent about one client. *)
ClientOK(c) == RequestShape(c) /\ CredentialsReady(c) /\ SessionsReady(c)

(* What the invariant says of one client. *)
LEMMA TxType ==
  ASSUME IInv, NEW c \in Clients
  PROVE  /\ tx \in [Clients -> Request] /\ tx[c] \in Request
         /\ ClientOK(c)
         /\ \A d \in Clients : c # d => Apart(c, d) /\ Apart(d, c)
BY DEF IInv, TypeOK, Consistent, ClientOK

LEMMA NoRequestType == NoRequest \in Request
BY DEF NoRequest, Request

LEMMA InitInv == Init => IInv
<1> SUFFICES ASSUME Init PROVE IInv
  OBVIOUS
<1>1. PICK k \in Credentials :
        credential = [n \in Credentials |-> IF n = k THEN "active" ELSE "absent"]
  BY DEF Init
<1>2. TypeOK
  BY <1>1, NoRequestType DEF Init, TypeOK, SessionStates
<1>3. OneActiveCredential
  BY <1>1 DEF OneActiveCredential, Active
<1>4. ASSUME NEW c \in Clients PROVE ClientOK(c)
  BY DEF Init, ClientOK, RequestShape, CredentialsReady, SessionsReady, NoRequest
<1>5. ASSUME NEW c \in Clients, NEW d \in Clients PROVE Apart(c, d)
  BY DEF Init, Apart, NoRequest
<1> QED BY <1>2, <1>3, <1>4, <1>5 DEF IInv, Consistent, ClientOK

(* A step that changes the record of client c alone. *)
LEMMA LocalStep ==
  ASSUME IInv, NEW c \in Clients, NEW y \in Request,
         tx' = [tx EXCEPT ![c] = y], UNCHANGED Stored,
         ClientOK(c)',
         \A d \in Clients \ {c} : Apart(c, d)' /\ Apart(d, c)'
  PROVE  IInv'
<1>1. tx' \in [Clients -> Request] /\ \A d \in Clients \ {c} : tx'[d] = tx[d]
  BY DEF IInv, TypeOK
<1>2. credential' = credential /\ session' = session /\ openedWith' = openedWith
  BY DEF Stored
<1>3. TypeOK'
  BY <1>1, <1>2 DEF IInv, TypeOK
<1>4. OneActiveCredential'
  BY <1>2 DEF IInv, Consistent, OneActiveCredential, Active
<1>5. ASSUME NEW d \in Clients PROVE ClientOK(d)'
  <2>1. CASE d = c
    BY <2>1
  <2>2. CASE d # c
    <3>1. tx'[d] = tx[d] /\ ClientOK(d)
      BY <1>1, <2>2, TxType
    <3> QED BY <3>1, <1>2
            DEF ClientOK, RequestShape, CredentialsReady, SessionsReady, Active
  <2> QED BY <2>1, <2>2
<1>6. ASSUME NEW d \in Clients, NEW e \in Clients, d # e PROVE Apart(d, e)'
  <2>1. CASE d = c
    BY <1>6, <2>1
  <2>2. CASE e = c
    BY <1>6, <2>2
  <2>3. CASE d # c /\ e # c
    <3>1. tx'[d] = tx[d] /\ tx'[e] = tx[e] /\ Apart(d, e)
      BY <1>1, <1>6, <2>3, TxType
    <3> QED BY <3>1 DEF Apart
  <2> QED BY <2>1, <2>2, <2>3
<1> QED BY <1>3, <1>4, <1>5, <1>6 DEF IInv, Consistent, ClientOK

(* A request is over without a commit. *)
LEMMA ClearInv ==
  ASSUME IInv, NEW c \in Clients, tx' = [tx EXCEPT ![c] = NoRequest],
         UNCHANGED Stored
  PROVE  IInv'
<1>1. tx'[c] = NoRequest
  BY TxType
<1>2. ClientOK(c)'
  BY <1>1 DEF ClientOK, RequestShape, CredentialsReady, SessionsReady, NoRequest
<1>3. ASSUME NEW d \in Clients \ {c} PROVE Apart(c, d)' /\ Apart(d, c)'
  BY <1>1 DEF Apart, NoRequest
<1> QED BY <1>2, <1>3, NoRequestType, LocalStep

LEMMA BeginLoginInv ==
  ASSUME IInv, NEW c \in Clients, NEW k \in Credentials, BeginLogin(c, k)
  PROVE  IInv'
<1> DEFINE y == [NoRequest EXCEPT !.at = "open", !.op = "login", !.cred = k]
<1>1. y \in Request
  BY DEF NoRequest, Request
<1>2. tx' = [tx EXCEPT ![c] = y] /\ UNCHANGED Stored
  BY DEF BeginLogin
<1>3. tx'[c] = y
  BY <1>2, TxType
<1>4. ClientOK(c)'
  BY <1>3 DEF ClientOK, RequestShape, CredentialsReady, SessionsReady, NoRequest
<1>5. ASSUME NEW d \in Clients \ {c} PROVE Apart(c, d)' /\ Apart(d, c)'
  BY <1>3 DEF Apart, NoRequest
<1> QED BY <1>1, <1>2, <1>4, <1>5, LocalStep

(* The sessions it sees active are not absent. *)
LEMMA BeginChangeInv ==
  ASSUME IInv, NEW c \in Clients, NEW k \in Credentials, BeginChange(c, k)
  PROVE  IInv'
<1> DEFINE y == [NoRequest EXCEPT !.at = "revoke", !.op = "change", !.cred = k,
                                  !.before = ActiveSessions]
<1>1. y \in Request
  BY DEF NoRequest, Request, ActiveSessions
<1>2. tx' = [tx EXCEPT ![c] = y] /\ UNCHANGED Stored
  BY DEF BeginChange
<1>3. tx'[c] = y /\ session' = session
  BY <1>2, TxType DEF Stored
<1>4. ClientOK(c)'
  BY <1>3 DEF ClientOK, RequestShape, CredentialsReady, SessionsReady, NoRequest,
              ActiveSessions
<1>5. ASSUME NEW d \in Clients \ {c} PROVE Apart(c, d)' /\ Apart(d, c)'
  BY <1>3 DEF Apart, NoRequest
<1> QED BY <1>1, <1>2, <1>4, <1>5, LocalStep

LEMMA OpenSessionInv ==
  ASSUME IInv, NEW c \in Clients, NEW s \in Sessions, OpenSession(c, s)
  PROVE  IInv'
<1> DEFINE x == tx[c]
           y == [x EXCEPT !.at = "commit", !.opened = {s}]
<1>1. x \in Request /\ x.at = "open" /\ ClientOK(c)
  BY TxType DEF OpenSession
<1>2. tx' = [tx EXCEPT ![c] = y] /\ UNCHANGED Stored
  BY TxType DEF OpenSession, Request
<1>3. /\ y \in Request /\ y.at = "commit" /\ y.opened = {s} /\ y.op = x.op
      /\ y.cred = x.cred /\ y.before = x.before /\ y.held = x.held
      /\ y.revoked = x.revoked /\ y.minted = x.minted /\ y.ended = x.ended
  BY <1>1 DEF Request
<1>4. tx'[c] = y /\ \A d \in Clients \ {c} : tx'[d] = tx[d]
  BY <1>2, TxType
<1> HIDE DEF y
<1>5. /\ session' = session /\ credential' = credential /\ session[s] = "absent"
      /\ \A d \in Clients : s \notin tx[d].opened
  BY <1>2 DEF OpenSession, Stored
<1>6. ClientOK(c)'
  <2>1. x.op = "login"
    BY <1>1 DEF ClientOK, RequestShape, Request
  <2> QED BY <1>1, <1>3, <1>4, <1>5, <2>1
          DEF ClientOK, RequestShape, CredentialsReady, SessionsReady, Active,
              NoRequest
<1>7. ASSUME NEW d \in Clients \ {c} PROVE Apart(c, d)' /\ Apart(d, c)'
  <2>1. Apart(c, d)
    BY TxType
  <2> QED BY <2>1, <1>3, <1>4, <1>5 DEF Apart
<1> QED BY <1>2, <1>3, <1>6, <1>7, LocalStep

(* The credential is locked if it is still active, by nobody else. *)
LEMMA RevokeInv ==
  ASSUME IInv, NEW c \in Clients, RevokeCredential(c)
  PROVE  IInv'
<1> DEFINE x == tx[c]
           H == IF Active(x.cred) THEN {x.cred} ELSE {}
           y == [x EXCEPT !.at = "insert", !.held = H, !.revoked = H]
<1>1. x \in Request /\ x.at = "revoke" /\ ClientOK(c)
  BY TxType DEF RevokeCredential
<1>2. /\ x.op = "change" /\ x.cred \in Credentials /\ x.held = {}
      /\ x.revoked = {} /\ x.minted = {} /\ x.ended = {}
  BY <1>1 DEF ClientOK, RequestShape, Request
<1>3. tx' = [tx EXCEPT ![c] = y] /\ UNCHANGED Stored
  <2>1. UNCHANGED Stored /\ tx \in [Clients -> Request]
    BY TxType DEF RevokeCredential
  <2>2. CASE Active(x.cred)
    BY <2>1, <2>2 DEF RevokeCredential, Request
  <2>3. CASE ~Active(x.cred)
    <3>1. y = [x EXCEPT !.at = "insert"]
      BY <1>1, <1>2, <2>3 DEF Request
    <3>2. tx' = [tx EXCEPT ![c].at = "insert"]
      BY <2>3 DEF RevokeCredential
    <3> QED BY <2>1, <3>1, <3>2
  <2> QED BY <2>2, <2>3
<1>4. /\ y \in Request /\ y.at = "insert" /\ y.opened = x.opened /\ y.op = x.op
      /\ y.cred = x.cred /\ y.before = x.before /\ y.held = H
      /\ y.revoked = H /\ y.minted = x.minted /\ y.ended = x.ended
  BY <1>1, <1>2 DEF Request
<1>5. tx'[c] = y /\ \A d \in Clients \ {c} : tx'[d] = tx[d]
  BY <1>3, TxType
<1>6. /\ session' = session /\ credential' = credential
      /\ \A k \in H : Active(k) /\ Free(c, k)
  BY <1>3 DEF RevokeCredential, Stored
<1> HIDE DEF y
<1>7. ClientOK(c)'
  <2>1. H \subseteq {x.cred}
    OBVIOUS
  <2> HIDE DEF H
  <2> QED BY <1>1, <1>2, <1>4, <1>5, <1>6, <2>1
          DEF ClientOK, RequestShape, CredentialsReady, SessionsReady, Active
<1>8. ASSUME NEW d \in Clients \ {c} PROVE Apart(c, d)' /\ Apart(d, c)'
  <2>1. Apart(c, d) /\ H \cap tx[d].held = {}
    BY <1>6, TxType DEF Free, Others
  <2> HIDE DEF H
  <2> QED BY <2>1, <1>4, <1>5 DEF Apart
<1> QED BY <1>3, <1>4, <1>7, <1>8, LocalStep

(* The index finds no active credential but the one the change has revoked, *)
(* which is there: some credential is active.                                *)
LEMMA InsertInv ==
  ASSUME IInv, NEW c \in Clients, NEW n \in Credentials, InsertCredential(c, n)
  PROVE  IInv'
<1> DEFINE x == tx[c]
           y == [x EXCEPT !.at = "endSessions", !.minted = {n}]
<1>1. /\ x \in Request /\ x.at = "insert" /\ ClientOK(c)
      /\ StillActive(c) = {} /\ credential[n] = "absent"
  BY TxType DEF InsertCredential, FreshCredentials
<1>2. tx' = [tx EXCEPT ![c] = y] /\ UNCHANGED Stored
  BY TxType DEF InsertCredential, Request
<1>3. /\ y \in Request /\ y.at = "endSessions" /\ y.opened = x.opened
      /\ y.op = x.op /\ y.cred = x.cred /\ y.before = x.before
      /\ y.held = x.held /\ y.revoked = x.revoked /\ y.minted = {n}
      /\ y.ended = x.ended
  BY <1>1 DEF Request
<1>4. tx'[c] = y /\ \A d \in Clients \ {c} : tx'[d] = tx[d]
  BY <1>2, TxType
<1>5. session' = session /\ credential' = credential
  BY <1>2 DEF Stored
<1> HIDE DEF y
<1>6. PICK k \in Credentials : x.held = {k}
  <2>1. PICK k \in Credentials : Active(k)
    BY DEF IInv, Consistent, OneActiveCredential
  <2>2. k \in x.revoked
    BY <1>1, <2>1 DEF StillActive
  <2> QED BY <1>1, <2>2 DEF ClientOK, RequestShape
<1>7. ClientOK(c)'
  <2>1. x.op = "change"
    BY <1>1 DEF ClientOK, RequestShape, Request
  <2>2. RequestShape(c)'
    BY <1>1, <1>3, <1>4, <2>1 DEF ClientOK, RequestShape
  <2>3. CredentialsReady(c)'
    BY <1>1, <1>3, <1>4, <1>5, <1>6 DEF ClientOK, CredentialsReady, Active
  <2>4. SessionsReady(c)'
    BY <1>1, <1>3, <1>4, <1>5 DEF ClientOK, SessionsReady
  <2> QED BY <2>2, <2>3, <2>4 DEF ClientOK
<1>8. ASSUME NEW d \in Clients \ {c} PROVE Apart(c, d)' /\ Apart(d, c)'
  <2>1. Apart(c, d)
    BY TxType
  <2> QED BY <2>1, <1>3, <1>4 DEF Apart
<1> QED BY <1>2, <1>3, <1>7, <1>8, LocalStep

(* It is going to end every session that is active, those it saw included. *)
LEMMA EndSessionsInv ==
  ASSUME IInv, NEW c \in Clients, EndSessions(c)
  PROVE  IInv'
<1> DEFINE x == tx[c]
           y == [x EXCEPT !.at = "commit", !.ended = ActiveSessions]
<1>1. x \in Request /\ x.at = "endSessions" /\ ClientOK(c)
  BY TxType DEF EndSessions
<1>2. tx' = [tx EXCEPT ![c] = y] /\ UNCHANGED Stored
  BY TxType DEF EndSessions, Request
<1>3. /\ y \in Request /\ y.at = "commit" /\ y.opened = x.opened
      /\ y.op = x.op /\ y.cred = x.cred /\ y.before = x.before
      /\ y.held = x.held /\ y.revoked = x.revoked /\ y.minted = x.minted
      /\ y.ended = ActiveSessions
  BY <1>1 DEF Request, ActiveSessions
<1>4. tx'[c] = y /\ \A d \in Clients \ {c} : tx'[d] = tx[d]
  BY <1>2, TxType
<1>5. session' = session /\ credential' = credential
  BY <1>2 DEF Stored
<1> HIDE DEF y
<1>6. x.op = "change" /\ x.before \subseteq Sessions
  BY <1>1 DEF ClientOK, RequestShape, Request
<1>7. ClientOK(c)'
  BY <1>1, <1>3, <1>4, <1>5, <1>6
     DEF ClientOK, RequestShape, CredentialsReady, SessionsReady, Active,
         ActiveSessions
<1>8. ASSUME NEW d \in Clients \ {c} PROVE Apart(c, d)' /\ Apart(d, c)'
  <2>1. Apart(c, d)
    BY TxType
  <2> QED BY <2>1, <1>3, <1>4 DEF Apart
<1> QED BY <1>2, <1>3, <1>7, <1>8, LocalStep

-----------------------------------------------------------------------------
(* What a commit does: it opens the session of a login ...                 *)
Opens(c) ==
  /\ tx[c].op = "login" /\ tx[c].cred \in Credentials
  /\ credential' = credential
  /\ session' = [s \in Sessions |-> IF s \in tx[c].opened THEN "active"
                                    ELSE session[s]]
  /\ openedWith' = [s \in Sessions |-> IF s \in tx[c].opened THEN tx[c].cred
                                       ELSE openedWith[s]]

(* ... or replaces the active credential k by n and ends sessions. *)
Replaces(c, k, n) ==
  /\ tx[c].op = "change" /\ tx[c].cred = k /\ tx[c].held = {k}
  /\ Active(k) /\ \A m \in Credentials : Active(m) => m = k
  /\ credential[n] = "absent"
  /\ credential' = [credential EXCEPT ![n] = "active", ![k] = "revoked"]
  /\ session' = [s \in Sessions |-> IF s \in tx[c].ended THEN "PASSWORD_CHANGE"
                                    ELSE session[s]]
  /\ openedWith' = openedWith

LEMMA CommitCases ==
  ASSUME IInv, NEW c \in Clients, Commit(c)
  PROVE  /\ tx' = [tx EXCEPT ![c] = NoRequest]
         /\ Opens(c) \/ \E k, n \in Credentials : Replaces(c, k, n)
<1> DEFINE x == tx[c]
<1>1. /\ x \in Request /\ x.at = "commit" /\ ClientOK(c)
      /\ credential \in [Credentials -> {"absent", "active", "revoked"}]
      /\ openedWith \in [Sessions -> Credentials \cup {None}]
  BY TxType DEF Commit, IInv, TypeOK
<1>2. CASE x.op = "login"
  <2>1. /\ x.minted = {} /\ x.revoked = {} /\ x.ended = {}
        /\ x.cred \in Credentials
    BY <1>1, <1>2 DEF ClientOK, RequestShape, Request
  <2>2. credential' = credential
    BY <1>1, <2>1 DEF Commit
  <2> QED BY <1>2, <2>1, <2>2 DEF Commit, Opens
<1>3. CASE x.op = "change"
  <2>1. PICK k, n \in Credentials : x.held = {k} /\ x.minted = {n}
    BY <1>1, <1>3 DEF ClientOK, CredentialsReady
  <2>2. /\ x.cred = k /\ x.revoked = {k} /\ x.opened = {}
        /\ Active(k) /\ credential[n] = "absent"
    BY <1>1, <1>3, <2>1 DEF ClientOK, RequestShape, CredentialsReady
  <2>3. \A m \in Credentials : Active(m) => m = k
    BY <2>2 DEF IInv, Consistent, OneActiveCredential
  <2>4. credential' = [credential EXCEPT ![n] = "active", ![k] = "revoked"]
    <3>1. n # k
      BY <2>2 DEF Active
    <3> QED BY <1>1, <2>1, <2>2, <3>1 DEF Commit
  <2>5. openedWith' = openedWith
    BY <1>1, <2>2 DEF Commit
  <2>6. session' = [s \in Sessions |-> IF s \in x.ended THEN "PASSWORD_CHANGE"
                                       ELSE session[s]]
    BY <2>2 DEF Commit, TerminationReason
  <2> QED BY <1>3, <2>1, <2>2, <2>3, <2>4, <2>5, <2>6 DEF Commit, Replaces
<1> QED BY <1>1, <1>2, <1>3 DEF ClientOK, RequestShape, Request, Commit

(* No second change has anything uncommitted: each needs the active row. *)
LEMMA SoleChange ==
  ASSUME IInv, NEW c \in Clients, NEW k \in Credentials, NEW n \in Credentials,
         Replaces(c, k, n), NEW d \in Clients \ {c}
  PROVE  tx[d].held = {} /\ tx[d].minted = {}
         /\ ~(tx[d].op = "change" /\ tx[d].at \in {"endSessions", "commit"})
<1>1. tx[d] \in Request /\ ClientOK(d) /\ Apart(c, d)
  BY TxType
<1>2. tx[d].held = {}
  BY <1>1 DEF ClientOK, CredentialsReady, Apart, Replaces, Request
<1>3. ~(tx[d].op = "change" /\ tx[d].at \in {"endSessions", "commit"})
  BY <1>1, <1>2 DEF ClientOK, CredentialsReady
<1>4. tx[d].minted = {}
  BY <1>1, <1>3 DEF ClientOK, RequestShape, Request, NoRequest
<1> QED BY <1>2, <1>3, <1>4

LEMMA CommitTables ==
  ASSUME IInv, NEW c \in Clients, Commit(c)
  PROVE  /\ TypeOK' /\ OneActiveCredential'
         /\ tx'[c] = NoRequest /\ \A d \in Clients \ {c} : tx'[d] = tx[d]
<1>1. /\ tx' = [tx EXCEPT ![c] = NoRequest]
      /\ Opens(c) \/ \E k, n \in Credentials : Replaces(c, k, n)
  BY CommitCases
<1>2. tx' \in [Clients -> Request]
  BY <1>1, TxType, NoRequestType
<1>3. ASSUME Opens(c) PROVE TypeOK' /\ OneActiveCredential'
  BY <1>2, <1>3
     DEF Opens, IInv, TypeOK, SessionStates, Consistent,
         OneActiveCredential, Active
<1>4. ASSUME \E k, n \in Credentials : Replaces(c, k, n)
      PROVE  TypeOK' /\ OneActiveCredential'
  <2>1. PICK k, n \in Credentials : Replaces(c, k, n)
    BY <1>4
  <2>2. TypeOK'
    BY <1>2, <2>1 DEF Replaces, IInv, TypeOK, SessionStates
  <2>3. n # k /\ credential \in [Credentials -> {"absent", "active", "revoked"}]
    BY <2>1 DEF Replaces, Active, IInv, TypeOK
  <2>4. \A m \in Credentials : credential'[m] = "active" <=> m = n
    BY <2>1, <2>3 DEF Replaces, Active
  <2> QED BY <2>2, <2>4 DEF OneActiveCredential, Active
<1> QED BY <1>1, <1>3, <1>4, TxType

(* Committed sessions stay committed, and new ones were nobody else's. *)
LEMMA CommitOthers ==
  ASSUME IInv, NEW c \in Clients, Commit(c), NEW d \in Clients \ {c},
         tx'[d] = tx[d]
  PROVE  ClientOK(d)'
<1> DEFINE z == tx[d]
<1>1. /\ z \in Request /\ ClientOK(d) /\ ClientOK(c) /\ Apart(c, d)
      /\ session \in [Sessions -> SessionStates]
  BY TxType DEF IInv, TypeOK, SessionStates
<1>2. RequestShape(d)'
  BY <1>1 DEF ClientOK, RequestShape
<1>3. CASE Opens(c)
  <2>1. /\ credential' = credential
        /\ \A s \in Sessions : session'[s] = IF s \in tx[c].opened THEN "active"
                                             ELSE session[s]
    BY <1>3 DEF Opens
  <2>2. \A s \in tx[c].opened : session[s] = "absent" /\ s \notin z.opened
    BY <1>1 DEF ClientOK, SessionsReady, Apart
  <2>3. CredentialsReady(d)'
    BY <1>1, <2>1 DEF ClientOK, CredentialsReady, Active
  <2>4. SessionsReady(d)'
    BY <1>1, <2>1, <2>2 DEF ClientOK, SessionsReady, Request
  <2> QED BY <1>2, <2>3, <2>4 DEF ClientOK
<1>4. CASE \E k, n \in Credentials : Replaces(c, k, n)
  <2>1. PICK k, n \in Credentials : Replaces(c, k, n)
    BY <1>4
  <2>2. /\ z.held = {} /\ z.minted = {}
        /\ ~(z.op = "change" /\ z.at \in {"endSessions", "commit"})
    BY <2>1, SoleChange
  <2>3. CredentialsReady(d)'
    BY <2>2 DEF CredentialsReady
  <2>4. \A s \in Sessions : session'[s] = IF s \in tx[c].ended THEN "PASSWORD_CHANGE"
                                          ELSE session[s]
    BY <2>1 DEF Replaces
  <2>5. \A s \in tx[c].ended : session[s] # "absent"
    BY <1>1 DEF ClientOK, SessionsReady
  <2>6. SessionsReady(d)'
    BY <1>1, <2>4, <2>5 DEF ClientOK, SessionsReady, Request
  <2> QED BY <1>2, <2>3, <2>6 DEF ClientOK
<1> QED BY <1>3, <1>4, CommitCases

LEMMA CommitInv ==
  ASSUME IInv, NEW c \in Clients, Commit(c)
  PROVE  IInv'
<1>1. /\ TypeOK' /\ OneActiveCredential'
      /\ tx'[c] = NoRequest /\ \A d \in Clients \ {c} : tx'[d] = tx[d]
  BY CommitTables
<1>2. ASSUME NEW d \in Clients PROVE ClientOK(d)'
  <2>1. CASE d = c
    BY <1>1, <2>1
       DEF ClientOK, RequestShape, CredentialsReady, SessionsReady, NoRequest
  <2>2. CASE d # c
    BY <1>1, <2>2, CommitOthers
  <2> QED BY <2>1, <2>2
<1>3. ASSUME NEW d \in Clients, NEW e \in Clients, d # e PROVE Apart(d, e)'
  <2>1. CASE d = c \/ e = c
    BY <1>1, <2>1 DEF Apart, NoRequest
  <2>2. CASE d # c /\ e # c
    <3>1. tx'[d] = tx[d] /\ tx'[e] = tx[e] /\ Apart(d, e)
      BY <1>1, <1>3, <2>2, TxType
    <3> QED BY <3>1 DEF Apart
  <2> QED BY <2>1, <2>2
<1> QED BY <1>1, <1>2, <1>3 DEF IInv, Consistent, ClientOK

-----------------------------------------------------------------------------
LEMMA StutterInv == ASSUME IInv, UNCHANGED vars PROVE IInv'
BY DEF vars, IInv, TypeOK, Consistent, OneActiveCredential, Active,
       RequestShape, CredentialsReady, SessionsReady, Apart

LEMMA NextInv ==
  ASSUME IInv, [Next]_vars PROVE IInv'
<1>1. ASSUME NEW c \in Clients, NEW k \in Credentials, RefusePassword(c, k)
      PROVE  IInv'
  BY <1>1, StutterInv DEF RefusePassword
<1>2. ASSUME NEW c \in Clients, NEW k \in Credentials, BeginLogin(c, k)
      PROVE  IInv'
  BY <1>2, BeginLoginInv
<1>3. ASSUME NEW c \in Clients, NEW k \in Credentials, BeginChange(c, k)
      PROVE  IInv'
  BY <1>3, BeginChangeInv
<1>4. ASSUME NEW c \in Clients, NEW s \in Sessions, OpenSession(c, s)
      PROVE  IInv'
  BY <1>4, OpenSessionInv
<1>5. ASSUME NEW c \in Clients, RevokeCredential(c) PROVE IInv'
  BY <1>5, RevokeInv
<1>6. ASSUME NEW c \in Clients, NEW n \in Credentials, InsertCredential(c, n)
      PROVE  IInv'
  BY <1>6, InsertInv
<1>7. ASSUME NEW c \in Clients, RefuseChange(c) PROVE IInv'
  BY <1>7, ClearInv DEF RefuseChange
<1>8. ASSUME NEW c \in Clients, EndSessions(c) PROVE IInv'
  BY <1>8, EndSessionsInv
<1>9. ASSUME NEW c \in Clients, Commit(c) PROVE IInv'
  BY <1>9, CommitInv
<1>10. ASSUME NEW c \in Clients, Abort(c) PROVE IInv'
  BY <1>10, ClearInv DEF Abort
<1> QED BY <1>1, <1>2, <1>3, <1>4, <1>5, <1>6, <1>7, <1>8, <1>9, <1>10,
           StutterInv DEF Next, Begin, Step

(* The inductive invariant: what the code's statements, locks and index    *)
(* leave of concurrent logins and changes.                                 *)
THEOREM Invariant == Spec => []IInv
BY InitInv, NextInv, PTL DEF Spec

(* Tables and requests keep their types; the row of a session that a change *)
(* has ended records the change as the reason.                              *)
THEOREM TypeCorrect == Spec => []TypeOK
<1>1. IInv => TypeOK
  BY DEF IInv
<1> QED BY <1>1, Invariant, PTL

(* What a login or change has locked, inserted and seen is still so when it *)
(* commits, whatever the others commit meanwhile.                           *)
THEOREM RequestsStayConsistent == Spec => []Consistent
<1>1. IInv => Consistent
  BY DEF IInv
<1> QED BY <1>1, Invariant, PTL

(* rotatePasswordForSubject never leaves the identity without a password,  *)
(* or with two, however many changes race or fail halfway.                 *)
THEOREM OneCredential == Spec => []OneActiveCredential
<1>1. IInv => OneActiveCredential
  BY DEF IInv, Consistent
<1> QED BY <1>1, Invariant, PTL

(* Only a COMMIT changes the stored rows. *)
LEMMA OnlyCommits ==
  ASSUME [Next]_vars, credential' # credential
  PROVE  \E c \in Clients : Commit(c)
BY DEF Next, Begin, Step, vars, Stored, RefusePassword, BeginLogin,
       BeginChange, OpenSession, RevokeCredential, InsertCredential,
       RefuseChange, EndSessions, Abort

(* A change only replaces the password it was verified against: of several *)
(* that know one password only one succeeds.                               *)
THEOREM ReplacesVerified == Spec => ChangeReplacesVerified
<1>1. ASSUME IInv, [Next]_vars, credential' # credential
      PROVE  \E c \in Clients : /\ tx[c].op = "change" /\ tx'[c].at = "idle"
                                /\ Active(tx[c].cred)
                                /\ credential'[tx[c].cred] = "revoked"
  <2>1. PICK c \in Clients : Commit(c)
    BY <1>1, OnlyCommits
  <2>2. PICK k, n \in Credentials : Replaces(c, k, n)
    BY <1>1, <2>1, CommitCases DEF Opens
  <2>3. tx'[c].at = "idle"
    BY <1>1, <2>1, CommitTables DEF NoRequest
  <2>4. credential'[k] = "revoked"
    BY <1>1, <2>2 DEF Replaces, IInv, TypeOK
  <2> QED BY <2>2, <2>3, <2>4 DEF Replaces
<1>2. IInv /\ [Next]_vars =>
        [credential' # credential =>
           \E c \in Clients : /\ tx[c].op = "change" /\ tx'[c].at = "idle"
                              /\ Active(tx[c].cred)
                              /\ credential'[tx[c].cred] = "revoked"]_vars
  BY <1>1
<1> QED BY <1>2, Invariant, PTL DEF Spec, ChangeReplacesVerified

(* A change that succeeds leaves none of the sessions active that were     *)
(* active when it arrived.                                                 *)
THEOREM EndsSessions == Spec => ChangeEndsSessions
<1>1. ASSUME IInv, [Next]_vars, NEW c \in Clients,
             credential' # credential /\ tx[c].op = "change"
             /\ tx'[c].at = "idle"
      PROVE  \A s \in tx[c].before : session'[s] = "PASSWORD_CHANGE"
  <2>1. PICK b \in Clients : Commit(b)
    BY <1>1, OnlyCommits
  <2>2. tx[c] \in Request /\ ClientOK(c)
    BY <1>1, TxType
  <2>3. b = c
    <3>1. tx[c].at # "idle"
      BY <1>1, <2>2 DEF ClientOK, RequestShape
    <3> QED BY <1>1, <2>1, <3>1, CommitTables
  <2>4. PICK k, n \in Credentials : Replaces(c, k, n)
    BY <1>1, <2>1, <2>3, CommitCases DEF Opens
  <2>5. /\ tx[c].at = "commit" /\ tx[c].before \subseteq Sessions
        /\ session \in [Sessions -> SessionStates]
    BY <1>1, <2>1, <2>2, <2>3 DEF Commit, Request, IInv, TypeOK
  <2> SUFFICES ASSUME NEW s \in tx[c].before
               PROVE  session'[s] = "PASSWORD_CHANGE"
    OBVIOUS
  <2>6. session'[s] = IF s \in tx[c].ended THEN "PASSWORD_CHANGE" ELSE session[s]
    BY <2>4, <2>5 DEF Replaces
  <2>7. session[s] \in SessionStates /\ session[s] # "absent"
        /\ (session[s] = "active" => s \in tx[c].ended)
    BY <2>2, <2>5 DEF ClientOK, SessionsReady
  <2> QED BY <2>6, <2>7 DEF SessionStates
<1>2. IInv /\ [Next]_vars =>
        [\A c \in Clients :
           credential' # credential /\ tx[c].op = "change"
             /\ tx'[c].at = "idle" =>
               \A s \in tx[c].before : session'[s] = "PASSWORD_CHANGE"]_vars
  BY <1>1
<1> QED BY <1>2, Invariant, PTL DEF Spec, ChangeEndsSessions

-----------------------------------------------------------------------------
(***************************************************************************)
(* No deadlock. c waits for d in WaitsFor(c, d): the guards of c's next    *)
(* statement, read as whom they wait for (WaitsAreGuards). Whoever is      *)
(* waited for has revoked the one active credential, or replaced it, and   *)
(* waits for nobody: waits never form a chain, let alone a cycle.          *)
(***************************************************************************)
WaitsFor(c, d) ==
  LET x == tx[c]  y == tx[d] IN
  /\ c # d
  /\ \/ x.at = "revoke" /\ Active(x.cred) /\ x.cred \in y.held
     \/ /\ x.at = "insert"
        /\ y.minted # {} \/ y.revoked \cap StillActive(c) # {}

NobodyWaitsForAWaiter ==
  \A c, d, e \in Clients : ~(WaitsFor(c, d) /\ WaitsFor(d, e))

(* Whoever waits for nobody passes the guards that wait. *)
LEMMA WaitsAreGuards ==
  ASSUME NEW c \in Clients, \A d \in Clients : ~WaitsFor(c, d)
  PROVE  /\ tx[c].at = "revoke" /\ Active(tx[c].cred) => Free(c, tx[c].cred)
         /\ tx[c].at = "insert" => IndexDecided(c)
BY DEF WaitsFor, Free, IndexDecided, Others

(* Whoever is waited for holds the active credential ... *)
LEMMA AwaitedHolds ==
  ASSUME IInv, NEW c \in Clients, NEW d \in Clients, WaitsFor(c, d)
  PROVE  /\ \E k \in Credentials : tx[d].held = {k} /\ Active(k)
         /\ tx[d].revoked = tx[d].held
<1>1. RequestShape(d) /\ CredentialsReady(d) /\ tx[d] \in Request
  BY DEF IInv, TypeOK, Consistent
<1>2. tx[d].held # {}
  <2>1. CASE tx[d].minted # {}
    BY <1>1, <2>1 DEF RequestShape, CredentialsReady, Request, NoRequest
  <2>2. CASE tx[d].minted = {}
    BY <1>1, <2>2 DEF WaitsFor, RequestShape
  <2> QED BY <2>1, <2>2
<1>3. PICK k : k \in tx[d].held
  BY <1>2
<1>4. k \in Credentials /\ Active(k)
  BY <1>1, <1>3 DEF CredentialsReady, Request
<1>5. tx[d].held = {k} /\ tx[d].revoked = tx[d].held
  BY <1>1, <1>3 DEF RequestShape
<1> QED BY <1>4, <1>5

(***************************************************************************)
(* Logins and changes of a password never deadlock, however many there     *)
(* are: what revokeCredential and the unique index make a change wait for  *)
(* is a change that goes on.                                               *)
(***************************************************************************)
THEOREM NoDeadlock == Spec => []NobodyWaitsForAWaiter
<1>1. IInv => NobodyWaitsForAWaiter
  <2> SUFFICES ASSUME IInv, NEW c \in Clients, NEW d \in Clients,
                      NEW e \in Clients, WaitsFor(c, d), WaitsFor(d, e)
               PROVE  FALSE
    BY DEF NobodyWaitsForAWaiter
  <2>1. PICK k \in Credentials : tx[d].held = {k} /\ Active(k)
    BY AwaitedHolds
  <2>2. PICK n \in Credentials : tx[e].held = {n} /\ Active(n)
    BY AwaitedHolds
  <2>3. k = n
    BY <2>1, <2>2 DEF IInv, Consistent, OneActiveCredential
  <2>4. d # e
    BY DEF WaitsFor
  <2> QED BY <2>1, <2>2, <2>3, <2>4 DEF IInv, Consistent, Apart
<1> QED BY <1>1, Invariant, PTL

=============================================================================
