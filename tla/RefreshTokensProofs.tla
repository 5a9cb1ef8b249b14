------------------------- MODULE RefreshTokensProofs -------------------------
(***************************************************************************)
(* The safety of RefreshTokens, for any number of clients, identities,     *)
(* sessions and tokens and any workload.                                   *)
(*                                                                         *)
(* IInv is inductive. A step that is not a COMMIT changes the record of    *)
(* one client only: LocalStep reduces it to that client's conjuncts, and   *)
(* one lemma per action proves them. A COMMIT changes the tables in one of *)
(* three ways (CommitCases), and whatever another client relies on is in   *)
(* a row that client holds (CommitOthers). The theorems follow from IInv   *)
(* and the same three cases.                                               *)
(***************************************************************************)
EXTENDS RefreshTokens, TLAPS

USE StoreAssumption DEF Requests

(* The conjuncts of Consistent about one client. *)
ClientOK(c) ==
  /\ RequestShape(c) /\ RowsLocked(c) /\ RotationReady(c)
  /\ EndingReady(c) /\ MisuseCovers(c)

IInv == TypeOK /\ Consistent

(* A step that changes the record of client c alone. *)
LEMMA LocalStep ==
  ASSUME IInv, NEW c \in Clients,
         UNCHANGED tables, UNCHANGED <<expired, granted>>,
         tx' \in [Clients -> Transaction],
         \A d \in Clients \ {c} : tx'[d] = tx[d],
         ClientOK(c)',
         \A d \in Clients \ {c} : Apart(c, d)'
  PROVE  IInv'
<1>1. TypeOK'
  BY DEF IInv, TypeOK, tables
<1>2. TablesConsistent'
  BY DEF IInv, Consistent, TablesConsistent, tables, Live
<1>3. ASSUME NEW d \in Clients PROVE ClientOK(d)'
  <2>1. CASE d = c
    BY <2>1
  <2>2. CASE d # c
    <3>1. tx'[d] = tx[d]
      BY <2>2
    <3>2. ClientOK(d)
      BY DEF IInv, Consistent, ClientOK
    <3>3. RequestShape(d)'
      BY <3>1, <3>2 DEF ClientOK, RequestShape, tables
    <3>4. RowsLocked(d)'
      BY <3>1, <3>2 DEF ClientOK, RowsLocked, tables
    <3>5. RotationReady(d)'
      BY <3>1, <3>2 DEF ClientOK, RotationReady, tables
    <3>6. EndingReady(d)'
      BY <3>1, <3>2 DEF ClientOK, EndingReady, tables, Terminated
    <3>7. MisuseCovers(d)'
      BY <3>1, <3>2 DEF ClientOK, MisuseCovers, tables, Spent, Terminated
    <3> QED BY <3>3, <3>4, <3>5, <3>6, <3>7 DEF ClientOK
  <2> QED BY <2>1, <2>2
<1>4. ASSUME NEW d \in Clients, NEW e \in Clients, d # e PROVE Apart(d, e)'
  <2>1. CASE d = c
    BY <2>1, <1>4
  <2>2. CASE e = c
    BY <2>2, <1>4 DEF Apart
  <2>3. CASE d # c /\ e # c
    BY <2>3, <1>4 DEF IInv, Consistent, Apart
  <2> QED BY <2>1, <2>2, <2>3
<1> QED BY <1>1, <1>2, <1>3, <1>4 DEF IInv, Consistent, ClientOK

(* What the invariant says of one client. *)
LEMMA TxType ==
  ASSUME IInv, NEW c \in Clients
  PROVE  tx \in [Clients -> Transaction] /\ tx[c] \in Transaction /\ ClientOK(c)
BY DEF IInv, TypeOK, Consistent, ClientOK

(* A refresh starts with nothing locked and nothing written. *)
LEMMA BeginRefreshInv ==
  ASSUME IInv, NEW c \in Clients, NEW t \in Tokens, BeginRefresh(c, t)
  PROVE  IInv'
<1> DEFINE x == tx[c]
           y == [NoTransaction EXCEPT !.at = "lockToken", !.op = "refresh",
                                      !.tok = t, !.sess = SessionOf[t],
                                      !.who = OwnerOf[SessionOf[t]]]
<1>1. x \in Transaction /\ ClientOK(c) /\ tx \in [Clients -> Transaction]
  BY TxType
<1>2. tx' = [tx EXCEPT ![c] = y]
  BY <1>1 DEF BeginRefresh, Transaction
<1>3. /\ t \in issued /\ SessionOf[t] \in Sessions
      /\ OwnerOf[SessionOf[t]] \in Identities
  BY <1>1
     DEF ClientOK, RequestShape, EndingReady, RotationReady, BeginRefresh,
         IInv, TypeOK, Consistent, TablesConsistent
<1>4. y \in Transaction
  BY <1>1, <1>3 DEF Transaction, Steps, Rows, NoTransaction
<1>5. /\ tx'[c] = y /\ tx' \in [Clients -> Transaction]
      /\ \A d \in Clients \ {c} : tx'[d] = tx[d]
  BY <1>1, <1>2, <1>4
<1> HIDE DEF y
<1>6. /\ y.at = "lockToken" /\ y.op = "refresh" /\ y.tok = t
      /\ y.sess = SessionOf[t] /\ y.who = OwnerOf[SessionOf[t]]
      /\ y.pending = {} /\ y.todo = {} /\ y.held = {} /\ y.share = {}
      /\ y.minted = {} /\ y.used = {} /\ y.revoked = {} /\ y.opened = {}
      /\ y.ended = {}
  BY <1>1 DEF y, Transaction, NoTransaction
<1>7. RequestShape(c)'
  BY <1>1, <1>3, <1>5, <1>6
     DEF ClientOK, RequestShape, tables, BeginRefresh, NoTransaction
<1>8. RowsLocked(c)'
  BY <1>1, <1>3, <1>5, <1>6 DEF ClientOK, RowsLocked, tables, BeginRefresh
<1>9. RotationReady(c)'
  BY <1>1, <1>3, <1>5, <1>6
     DEF ClientOK, RotationReady, tables, BeginRefresh, FreshTokens, TokensOf
<1>10. EndingReady(c)'
  BY <1>1, <1>3, <1>5, <1>6
     DEF ClientOK, EndingReady, tables, BeginRefresh, Terminated, TokensOf,
         ActiveSessions
<1>11. MisuseCovers(c)'
  BY <1>1, <1>3, <1>5, <1>6
     DEF ClientOK, MisuseCovers, tables, Spent, Terminated, BeginRefresh,
         TokensOf
<1>12. ASSUME NEW d \in Clients \ {c} PROVE Apart(c, d)'
  BY <1>1, <1>3, <1>5, <1>6
     DEF IInv, Consistent, Apart, BeginRefresh, Free, FreshTokens
<1> QED
  BY <1>5, <1>7, <1>8, <1>9, <1>10, <1>11, <1>12, LocalStep
     DEF ClientOK, BeginRefresh, IInv, TypeOK

(* The token is locked, so no other request is about to change its row. *)
LEMMA LockTokenInv ==
  ASSUME IInv, NEW c \in Clients, LockToken(c)
  PROVE  IInv'
<1> DEFINE x == tx[c]
           y == [x EXCEPT !.at = "lockSession", !.held = x.held \cup {x.tok}]
<1>1. x \in Transaction /\ ClientOK(c) /\ tx \in [Clients -> Transaction]
  BY TxType
<1>2. tx' = [tx EXCEPT ![c] = y]
  BY <1>1 DEF LockToken, Transaction
<1>3. /\ x.at = "lockToken" /\ x.op = "refresh" /\ x.tok \in Tokens
      /\ x.sess \in Sessions /\ x.who \in Identities
      /\ x.held \cup {x.tok} \in SUBSET Rows
  BY <1>1
     DEF ClientOK, RequestShape, EndingReady, RotationReady, LockToken, IInv,
         TypeOK, Consistent, TablesConsistent,
         Transaction, Rows
<1>4. y \in Transaction
  BY <1>1, <1>3 DEF Transaction, Steps, Rows, NoTransaction
<1>5. /\ tx'[c] = y /\ tx' \in [Clients -> Transaction]
      /\ \A d \in Clients \ {c} : tx'[d] = tx[d]
  BY <1>1, <1>2, <1>4
<1> HIDE DEF y
<1>6. /\ y.at = "lockSession" /\ y.op = x.op /\ y.tok = x.tok
      /\ y.sess = x.sess /\ y.who = x.who /\ y.pending = x.pending
      /\ y.todo = x.todo /\ y.held = x.held \cup {x.tok}
      /\ y.share = x.share /\ y.minted = x.minted /\ y.used = x.used
      /\ y.revoked = x.revoked /\ y.opened = x.opened
      /\ y.ended = x.ended
  BY <1>1 DEF y, Transaction, NoTransaction
<1>7. RequestShape(c)'
  BY <1>1, <1>3, <1>5, <1>6
     DEF ClientOK, RequestShape, tables, LockToken, NoTransaction
<1>8. RowsLocked(c)'
  BY <1>1, <1>3, <1>5, <1>6 DEF ClientOK, RowsLocked, tables, LockToken
<1>9. RotationReady(c)'
  BY <1>1, <1>3, <1>5, <1>6
     DEF ClientOK, RotationReady, tables, LockToken, FreshTokens, TokensOf
<1>10. EndingReady(c)'
  BY <1>1, <1>3, <1>5, <1>6
     DEF ClientOK, EndingReady, tables, LockToken, Terminated, TokensOf,
         ActiveSessions
<1>11. MisuseCovers(c)'
  BY <1>1, <1>3, <1>5, <1>6
     DEF ClientOK, MisuseCovers, tables, Spent, Terminated, LockToken,
         TokensOf
<1>12. ASSUME NEW d \in Clients \ {c} PROVE Apart(c, d)'
  BY <1>1, <1>3, <1>5, <1>6
     DEF IInv, Consistent, Apart, LockToken, Free, FreshTokens
<1> QED
  BY <1>5, <1>7, <1>8, <1>9, <1>10, <1>11, <1>12, LocalStep
     DEF ClientOK, LockToken, IInv, TypeOK

(* The session is locked too: of the refreshes of one session, one goes on. *)
LEMMA LockSessionInv ==
  ASSUME IInv, NEW c \in Clients, LockSession(c)
  PROVE  IInv'
<1> DEFINE x == tx[c]
           y == [x EXCEPT !.at = "lockIdentity", !.held = x.held \cup {x.sess}]
<1>1. x \in Transaction /\ ClientOK(c) /\ tx \in [Clients -> Transaction]
  BY TxType
<1>2. tx' = [tx EXCEPT ![c] = y]
  BY <1>1 DEF LockSession, Transaction
<1>3. /\ x.at = "lockSession" /\ x.op = "refresh" /\ x.tok \in Tokens
      /\ x.sess \in Sessions /\ x.who \in Identities
      /\ x.held \cup {x.sess} \in SUBSET Rows
  BY <1>1
     DEF ClientOK, RequestShape, EndingReady, RotationReady, LockSession,
         IInv, TypeOK, Consistent, TablesConsistent,
         Transaction, Rows
<1>4. y \in Transaction
  BY <1>1, <1>3 DEF Transaction, Steps, Rows, NoTransaction
<1>5. /\ tx'[c] = y /\ tx' \in [Clients -> Transaction]
      /\ \A d \in Clients \ {c} : tx'[d] = tx[d]
  BY <1>1, <1>2, <1>4
<1> HIDE DEF y
<1>6. /\ y.at = "lockIdentity" /\ y.op = x.op /\ y.tok = x.tok
      /\ y.sess = x.sess /\ y.who = x.who /\ y.pending = x.pending
      /\ y.todo = x.todo /\ y.held = x.held \cup {x.sess}
      /\ y.share = x.share /\ y.minted = x.minted /\ y.used = x.used
      /\ y.revoked = x.revoked /\ y.opened = x.opened
      /\ y.ended = x.ended
  BY <1>1 DEF y, Transaction, NoTransaction
<1>7. RequestShape(c)'
  BY <1>1, <1>3, <1>5, <1>6
     DEF ClientOK, RequestShape, tables, LockSession, NoTransaction
<1>8. RowsLocked(c)'
  BY <1>1, <1>3, <1>5, <1>6 DEF ClientOK, RowsLocked, tables, LockSession
<1>9. RotationReady(c)'
  BY <1>1, <1>3, <1>5, <1>6
     DEF ClientOK, RotationReady, tables, LockSession, FreshTokens, TokensOf
<1>10. EndingReady(c)'
  BY <1>1, <1>3, <1>5, <1>6
     DEF ClientOK, EndingReady, tables, LockSession, Terminated, TokensOf,
         ActiveSessions
<1>11. MisuseCovers(c)'
  BY <1>1, <1>3, <1>5, <1>6
     DEF ClientOK, MisuseCovers, tables, Spent, Terminated, LockSession,
         TokensOf
<1>12. ASSUME NEW d \in Clients \ {c} PROVE Apart(c, d)'
  BY <1>1, <1>3, <1>5, <1>6
     DEF IInv, Consistent, Apart, LockSession, Free, FreshTokens
<1> QED
  BY <1>5, <1>7, <1>8, <1>9, <1>10, <1>11, <1>12, LocalStep
     DEF ClientOK, LockSession, IInv, TypeOK

(* The row is read under its locks and judged. *)
LEMMA LockIdentityInv ==
  ASSUME IInv, NEW c \in Clients, LockIdentity(c)
  PROVE  IInv'
<1> DEFINE x == tx[c]
           y == [x EXCEPT !.at = IF Spent(x.tok) THEN "terminate" ELSE "rotate",
                          !.pending = IF Spent(x.tok) THEN {x.sess} ELSE {},
                          !.held = x.held \cup {x.who}]
<1>1. x \in Transaction /\ ClientOK(c) /\ tx \in [Clients -> Transaction]
  BY TxType
<1>2. tx' = [tx EXCEPT ![c] = y]
  BY <1>1 DEF LockIdentity, Transaction, Spent
<1>3. /\ x.at = "lockIdentity" /\ x.op = "refresh" /\ x.tok \in Tokens
      /\ x.sess \in Sessions /\ x.who \in Identities
      /\ {x.sess} \in SUBSET Sessions /\ x.held \cup {x.who} \in SUBSET Rows
      /\ session[x.sess] # "absent"
  BY <1>1
     DEF ClientOK, RequestShape, EndingReady, RotationReady, LockIdentity,
         IInv, TypeOK, Consistent, TablesConsistent, Spent, Transaction, Rows
<1>4. y \in Transaction
  BY <1>1, <1>3 DEF Transaction, Steps, Rows, NoTransaction, Spent
<1>5. /\ tx'[c] = y /\ tx' \in [Clients -> Transaction]
      /\ \A d \in Clients \ {c} : tx'[d] = tx[d]
  BY <1>1, <1>2, <1>4
<1> HIDE DEF y
<1>6. /\ y.at = IF Spent(x.tok) THEN "terminate" ELSE "rotate"
      /\ y.op = x.op /\ y.tok = x.tok /\ y.sess = x.sess
      /\ y.who = x.who
      /\ y.pending = IF Spent(x.tok) THEN {x.sess} ELSE {}
      /\ y.todo = x.todo /\ y.held = x.held \cup {x.who}
      /\ y.share = x.share /\ y.minted = x.minted /\ y.used = x.used
      /\ y.revoked = x.revoked /\ y.opened = x.opened
      /\ y.ended = x.ended
  BY <1>1 DEF y, Transaction, NoTransaction
<1>7. RequestShape(c)'
  BY <1>1, <1>3, <1>5, <1>6
     DEF ClientOK, RequestShape, tables, LockIdentity, NoTransaction, Spent
<1>8. RowsLocked(c)'
  BY <1>1, <1>3, <1>5, <1>6
     DEF ClientOK, RowsLocked, tables, LockIdentity, Spent
<1>9. RotationReady(c)'
  BY <1>1, <1>3, <1>5, <1>6
     DEF ClientOK, RotationReady, tables, LockIdentity, FreshTokens, TokensOf,
         Spent
<1>10. EndingReady(c)'
  BY <1>1, <1>3, <1>5, <1>6
     DEF ClientOK, EndingReady, tables, LockIdentity, Terminated, TokensOf,
         ActiveSessions, Spent
<1>11. MisuseCovers(c)'
  BY <1>1, <1>3, <1>5, <1>6
     DEF ClientOK, MisuseCovers, tables, Spent, Terminated, LockIdentity,
         TokensOf
<1>12. ASSUME NEW d \in Clients \ {c} PROVE Apart(c, d)'
  BY <1>1, <1>3, <1>5, <1>6
     DEF IInv, Consistent, Apart, LockIdentity, Free, FreshTokens, Spent
<1> QED
  BY <1>5, <1>7, <1>8, <1>9, <1>10, <1>11, <1>12, LocalStep
     DEF ClientOK, LockIdentity, IInv, TypeOK, Spent

(* The new token has an id that no one else has, committed or not. *)
LEMMA RotateInv ==
  ASSUME IInv, NEW c \in Clients, NEW n \in Tokens, Rotate(c, n)
  PROVE  IInv'
<1> DEFINE x == tx[c]
           y == [x EXCEPT !.at = "commit", !.used = {x.tok}, !.minted = {n}]
<1>1. x \in Transaction /\ ClientOK(c) /\ tx \in [Clients -> Transaction]
  BY TxType
<1>2. tx' = [tx EXCEPT ![c] = y]
  BY <1>1 DEF Rotate, Transaction
<1>3. /\ x.at = "rotate" /\ n \in FreshTokens(x.sess) /\ x.op = "refresh"
      /\ x.tok \in Tokens /\ x.sess \in Sessions /\ x.who \in Identities
      /\ {x.tok} \in SUBSET Tokens /\ {n} \in SUBSET Tokens
      /\ x.revoked = {} /\ x.ended = {} /\ x.opened = {}
      /\ x.tok \notin used \cup revoked
  BY <1>1
     DEF ClientOK, RequestShape, EndingReady, RotationReady, Rotate, IInv,
         TypeOK, Consistent, TablesConsistent
<1>4. y \in Transaction
  BY <1>1, <1>3 DEF Transaction, Steps, Rows, NoTransaction
<1>5. /\ tx'[c] = y /\ tx' \in [Clients -> Transaction]
      /\ \A d \in Clients \ {c} : tx'[d] = tx[d]
  BY <1>1, <1>2, <1>4
<1> HIDE DEF y
<1>6. /\ y.at = "commit" /\ y.op = x.op /\ y.tok = x.tok
      /\ y.sess = x.sess /\ y.who = x.who /\ y.pending = x.pending
      /\ y.todo = x.todo /\ y.held = x.held /\ y.share = x.share
      /\ y.minted = {n} /\ y.used = {x.tok} /\ y.revoked = x.revoked
      /\ y.opened = x.opened /\ y.ended = x.ended
  BY <1>1 DEF y, Transaction, NoTransaction
<1>7. RequestShape(c)'
  BY <1>1, <1>3, <1>5, <1>6
     DEF ClientOK, RequestShape, tables, Rotate, NoTransaction
<1>8. RowsLocked(c)'
  BY <1>1, <1>3, <1>5, <1>6 DEF ClientOK, RowsLocked, tables, Rotate
<1>9. RotationReady(c)'
  BY <1>1, <1>3, <1>5, <1>6
     DEF ClientOK, RotationReady, tables, Rotate, FreshTokens, TokensOf
<1>10. EndingReady(c)'
  BY <1>1, <1>3, <1>5, <1>6
     DEF ClientOK, EndingReady, tables, Rotate, Terminated, TokensOf,
         ActiveSessions
<1>11. MisuseCovers(c)'
  BY <1>1, <1>3, <1>5, <1>6
     DEF ClientOK, MisuseCovers, tables, Spent, Terminated, Rotate, TokensOf
<1>12. ASSUME NEW d \in Clients \ {c} PROVE Apart(c, d)'
  BY <1>1, <1>3, <1>5, <1>6
     DEF IInv, Consistent, Apart, Rotate, Free, FreshTokens
<1> QED
  BY <1>5, <1>7, <1>8, <1>9, <1>10, <1>11, <1>12, LocalStep
     DEF ClientOK, Rotate, IInv, TypeOK

(* A granted session exists. *)
LEMMA BeginLogoutInv ==
  ASSUME IInv, NEW c \in Clients, NEW s \in Sessions, BeginLogout(c, s)
  PROVE  IInv'
<1> DEFINE x == tx[c]
           y == [NoTransaction EXCEPT !.at = "terminate", !.op = "logout",
                                      !.pending = {s}]
<1>1. x \in Transaction /\ ClientOK(c) /\ tx \in [Clients -> Transaction]
  BY TxType
<1>2. tx' = [tx EXCEPT ![c] = y]
  BY <1>1 DEF BeginLogout, Transaction
<1>3. /\ session[s] # "absent"
      /\ {s} \in SUBSET Sessions
  BY <1>1
     DEF ClientOK, RequestShape, EndingReady, RotationReady, BeginLogout,
         IInv, TypeOK, Consistent, TablesConsistent
<1>4. y \in Transaction
  BY <1>1, <1>3 DEF Transaction, Steps, Rows, NoTransaction
<1>5. /\ tx'[c] = y /\ tx' \in [Clients -> Transaction]
      /\ \A d \in Clients \ {c} : tx'[d] = tx[d]
  BY <1>1, <1>2, <1>4
<1> HIDE DEF y
<1>6. /\ y.at = "terminate" /\ y.op = "logout" /\ y.tok = None
      /\ y.sess = None /\ y.who = None /\ y.pending = {s} /\ y.todo = {}
      /\ y.held = {} /\ y.share = {} /\ y.minted = {} /\ y.used = {}
      /\ y.revoked = {} /\ y.opened = {} /\ y.ended = {}
  BY <1>1 DEF y, Transaction, NoTransaction
<1>7. RequestShape(c)'
  BY <1>1, <1>3, <1>5, <1>6
     DEF ClientOK, RequestShape, tables, BeginLogout, NoTransaction
<1>8. RowsLocked(c)'
  BY <1>1, <1>3, <1>5, <1>6 DEF ClientOK, RowsLocked, tables, BeginLogout
<1>9. RotationReady(c)'
  BY <1>1, <1>3, <1>5, <1>6
     DEF ClientOK, RotationReady, tables, BeginLogout, FreshTokens, TokensOf
<1>10. EndingReady(c)'
  BY <1>1, <1>3, <1>5, <1>6
     DEF ClientOK, EndingReady, tables, BeginLogout, Terminated, TokensOf,
         ActiveSessions
<1>11. MisuseCovers(c)'
  BY <1>1, <1>3, <1>5, <1>6
     DEF ClientOK, MisuseCovers, tables, Spent, Terminated, BeginLogout,
         TokensOf
<1>12. ASSUME NEW d \in Clients \ {c} PROVE Apart(c, d)'
  BY <1>1, <1>3, <1>5, <1>6
     DEF IInv, Consistent, Apart, BeginLogout, Free, FreshTokens
<1> QED
  BY <1>5, <1>7, <1>8, <1>9, <1>10, <1>11, <1>12, LocalStep
     DEF ClientOK, BeginLogout, IInv, TypeOK

(* So do the active ones. *)
LEMMA BeginLogoutAllInv ==
  ASSUME IInv, NEW c \in Clients, NEW i \in Identities, BeginLogoutAll(c, i)
  PROVE  IInv'
<1> DEFINE x == tx[c]
           y == [NoTransaction EXCEPT !.at = "terminate", !.op = "logoutAll",
                                      !.pending = ActiveSessions(i)]
<1>1. x \in Transaction /\ ClientOK(c) /\ tx \in [Clients -> Transaction]
  BY TxType
<1>2. tx' = [tx EXCEPT ![c] = y]
  BY <1>1 DEF BeginLogoutAll, Transaction, ActiveSessions
<1>3. /\ ActiveSessions(i) \subseteq Sessions
      /\ \A s \in ActiveSessions(i) : session[s] # "absent"
  BY <1>1
     DEF ClientOK, RequestShape, EndingReady, RotationReady, BeginLogoutAll,
         IInv, TypeOK, Consistent, TablesConsistent, ActiveSessions
<1>4. y \in Transaction
  BY <1>1, <1>3 DEF Transaction, Steps, Rows, NoTransaction, ActiveSessions
<1>5. /\ tx'[c] = y /\ tx' \in [Clients -> Transaction]
      /\ \A d \in Clients \ {c} : tx'[d] = tx[d]
  BY <1>1, <1>2, <1>4
<1> HIDE DEF y
<1>6. /\ y.at = "terminate" /\ y.op = "logoutAll" /\ y.tok = None
      /\ y.sess = None /\ y.who = None /\ y.pending = ActiveSessions(i)
      /\ y.todo = {} /\ y.held = {} /\ y.share = {} /\ y.minted = {}
      /\ y.used = {} /\ y.revoked = {} /\ y.opened = {} /\ y.ended = {}
  BY <1>1 DEF y, Transaction, NoTransaction
<1>7. RequestShape(c)'
  BY <1>1, <1>3, <1>5, <1>6
     DEF ClientOK, RequestShape, tables, BeginLogoutAll, NoTransaction,
         ActiveSessions
<1>8. RowsLocked(c)'
  BY <1>1, <1>3, <1>5, <1>6
     DEF ClientOK, RowsLocked, tables, BeginLogoutAll, ActiveSessions
<1>9. RotationReady(c)'
  BY <1>1, <1>3, <1>5, <1>6
     DEF ClientOK, RotationReady, tables, BeginLogoutAll, FreshTokens,
         TokensOf, ActiveSessions
<1>10. EndingReady(c)'
  BY <1>1, <1>3, <1>5, <1>6
     DEF ClientOK, EndingReady, tables, BeginLogoutAll, Terminated, TokensOf,
         ActiveSessions
<1>11. MisuseCovers(c)'
  BY <1>1, <1>3, <1>5, <1>6
     DEF ClientOK, MisuseCovers, tables, Spent, Terminated, BeginLogoutAll,
         TokensOf, ActiveSessions
<1>12. ASSUME NEW d \in Clients \ {c} PROVE Apart(c, d)'
  BY <1>1, <1>3, <1>5, <1>6
     DEF IInv, Consistent, Apart, BeginLogoutAll, Free, FreshTokens,
         ActiveSessions
<1> QED
  BY <1>5, <1>7, <1>8, <1>9, <1>10, <1>11, <1>12, LocalStep
     DEF ClientOK, BeginLogoutAll, IInv, TypeOK, ActiveSessions

(* The UPDATE picks every token of the session not revoked yet. *)
LEMMA RevokeSessionInv ==
  ASSUME IInv, NEW c \in Clients, NEW s \in Sessions, RevokeSession(c, s)
  PROVE  IInv'
<1> DEFINE x == tx[c]
           y == [x EXCEPT !.at = "revoke", !.sess = s,
                          !.pending = x.pending \ {s},
                          !.todo = (TokensOf(s) \cap issued) \ revoked]
<1>1. x \in Transaction /\ ClientOK(c) /\ tx \in [Clients -> Transaction]
  BY TxType
<1>2. tx' = [tx EXCEPT ![c] = y]
  BY <1>1 DEF RevokeSession, Transaction, TokensOf
<1>3. /\ x.at = "terminate" /\ s \in x.pending /\ session[s] # "absent"
      /\ TokensOf(s) \subseteq Tokens
      /\ (x.op = "refresh" => s = x.sess) /\ x.op \notin {"login", "password"}
      /\ \A t \in TokensOf(s) : t \in Tokens /\ SessionOf[t] = s
  BY <1>1
     DEF ClientOK, RequestShape, EndingReady, RotationReady, RevokeSession,
         IInv, TypeOK, Consistent, TablesConsistent, TokensOf
<1>4. y \in Transaction
  BY <1>1, <1>3 DEF Transaction, Steps, Rows, NoTransaction, TokensOf
<1>5. /\ tx'[c] = y /\ tx' \in [Clients -> Transaction]
      /\ \A d \in Clients \ {c} : tx'[d] = tx[d]
  BY <1>1, <1>2, <1>4
<1> HIDE DEF y
<1>6. /\ y.at = "revoke" /\ y.op = x.op /\ y.tok = x.tok /\ y.sess = s
      /\ y.who = x.who /\ y.pending = x.pending \ {s}
      /\ y.todo = (TokensOf(s) \cap issued) \ revoked /\ y.held = x.held
      /\ y.share = x.share /\ y.minted = x.minted /\ y.used = x.used
      /\ y.revoked = x.revoked /\ y.opened = x.opened
      /\ y.ended = x.ended
  BY <1>1 DEF y, Transaction, NoTransaction
<1>7. RequestShape(c)'
  BY <1>1, <1>3, <1>5, <1>6
     DEF ClientOK, RequestShape, tables, RevokeSession, NoTransaction
<1>8. RowsLocked(c)'
  BY <1>1, <1>3, <1>5, <1>6 DEF ClientOK, RowsLocked, tables, RevokeSession
<1>9. RotationReady(c)'
  BY <1>1, <1>3, <1>5, <1>6
     DEF ClientOK, RotationReady, tables, RevokeSession, FreshTokens
<1>10. EndingReady(c)'
  BY <1>1, <1>3, <1>5, <1>6
     DEF ClientOK, EndingReady, tables, RevokeSession, Terminated,
         ActiveSessions
<1>11. MisuseCovers(c)'
  BY <1>1, <1>3, <1>5, <1>6
     DEF ClientOK, MisuseCovers, tables, Spent, Terminated, RevokeSession
<1>12. ASSUME NEW d \in Clients \ {c} PROVE Apart(c, d)'
  BY <1>1, <1>3, <1>5, <1>6
     DEF IInv, Consistent, Apart, RevokeSession, Free, FreshTokens
<1> QED
  BY <1>5, <1>7, <1>8, <1>9, <1>10, <1>11, <1>12, LocalStep
     DEF ClientOK, RevokeSession, IInv, TypeOK

(* A token moves from the rows to visit to the rows written. *)
LEMMA RevokeTokenInv ==
  ASSUME IInv, NEW c \in Clients, NEW t \in Tokens, RevokeToken(c, t)
  PROVE  IInv'
<1> DEFINE x == tx[c]
           y == [x EXCEPT !.todo = x.todo \ {t}, !.held = x.held \cup {t},
                          !.revoked = x.revoked \cup {t}]
<1>1. x \in Transaction /\ ClientOK(c) /\ tx \in [Clients -> Transaction]
  BY TxType
<1>2. tx' = [tx EXCEPT ![c] = y]
  BY <1>1 DEF RevokeToken, Transaction
<1>3. /\ x.at = "revoke" /\ t \in x.todo /\ t \in issued
      /\ x.held \cup {t} \in SUBSET Rows
      /\ x.revoked \cup {t} \in SUBSET Tokens /\ x.op # "login"
      /\ x.todo \ {t} \in SUBSET (Tokens \cup Sessions)
      /\ (x.op = "refresh" => SessionOf[t] = x.sess)
  BY <1>1
     DEF ClientOK, RequestShape, EndingReady, RotationReady, RevokeToken,
         IInv, TypeOK, Consistent, TablesConsistent, Transaction, Rows
<1>4. y \in Transaction
  BY <1>1, <1>3 DEF Transaction, Steps, Rows, NoTransaction
<1>5. /\ tx'[c] = y /\ tx' \in [Clients -> Transaction]
      /\ \A d \in Clients \ {c} : tx'[d] = tx[d]
  BY <1>1, <1>2, <1>4
<1> HIDE DEF y
<1>6. /\ y.at = x.at /\ y.op = x.op /\ y.tok = x.tok /\ y.sess = x.sess
      /\ y.who = x.who /\ y.pending = x.pending /\ y.todo = x.todo \ {t}
      /\ y.held = x.held \cup {t} /\ y.share = x.share
      /\ y.minted = x.minted /\ y.used = x.used
      /\ y.revoked = x.revoked \cup {t} /\ y.opened = x.opened
      /\ y.ended = x.ended
  BY <1>1 DEF y, Transaction, NoTransaction
<1>7. RequestShape(c)'
  BY <1>1, <1>3, <1>5, <1>6
     DEF ClientOK, RequestShape, tables, RevokeToken, NoTransaction
<1>8. RowsLocked(c)'
  BY <1>1, <1>3, <1>5, <1>6 DEF ClientOK, RowsLocked, tables, RevokeToken
<1>9. RotationReady(c)'
  BY <1>1, <1>3, <1>5, <1>6
     DEF ClientOK, RotationReady, tables, RevokeToken, FreshTokens, TokensOf
<1>10. EndingReady(c)'
  BY <1>1, <1>3, <1>5, <1>6
     DEF ClientOK, EndingReady, tables, RevokeToken, Terminated, TokensOf,
         ActiveSessions
<1>11. MisuseCovers(c)'
  BY <1>1, <1>3, <1>5, <1>6
     DEF ClientOK, MisuseCovers, tables, Spent, Terminated, RevokeToken,
         TokensOf
<1>12. ASSUME NEW d \in Clients \ {c} PROVE Apart(c, d)'
  BY <1>1, <1>3, <1>5, <1>6
     DEF IInv, Consistent, Apart, RevokeToken, Free, FreshTokens
<1> QED
  BY <1>5, <1>7, <1>8, <1>9, <1>10, <1>11, <1>12, LocalStep
     DEF ClientOK, RevokeToken, IInv, TypeOK

(* All tokens are revoked; what is left of their sessions is active. *)
LEMMA StartEndingInv ==
  ASSUME IInv, NEW c \in Clients, StartEnding(c)
  PROVE  IInv'
<1> DEFINE x == tx[c]
           y == [x EXCEPT !.at = "end", !.todo = ToEnd(c)]
<1>1. x \in Transaction /\ ClientOK(c) /\ tx \in [Clients -> Transaction]
  BY TxType
<1>2. tx' = [tx EXCEPT ![c] = y]
  <2>1. \A e : [tx EXCEPT ![c].at = "end", ![c].todo = e]
                = [tx EXCEPT ![c] = [x EXCEPT !.at = "end", !.todo = e]]
    BY <1>1 DEF Transaction
  <2> QED BY <2>1 DEF StartEnding
<1>3. x.at = "revoke" /\ x.todo = {}
  BY DEF StartEnding
<1>a. /\ ToEnd(c) \subseteq Sessions
      /\ \A s \in ToEnd(c) : session[s] = "active"
      /\ x.op # "password" => ToEnd(c) \subseteq {x.sess}
  BY DEF ToEnd, ActiveSessions
<1>b. ASSUME NEW t \in x.revoked
      PROVE  /\ SessionOf[t] \in Sessions
             /\ \/ Terminated(SessionOf[t])
                \/ SessionOf[t] \in x.ended \cup ToEnd(c)
  <2>1. t \in issued /\ SessionOf[t] \in Sessions
    BY <1>1 DEF ClientOK, EndingReady, IInv, TypeOK
  <2>2. session[SessionOf[t]] \in {"active"} \cup Reasons
    BY <2>1 DEF IInv, TypeOK, Consistent, TablesConsistent, SessionStates
  <2>3. CASE x.op = "password"
    BY <1>1, <1>3, <2>1, <2>2, <2>3
       DEF ClientOK, EndingReady, Terminated, ToEnd, ActiveSessions
  <2>4. CASE x.op # "password"
    BY <1>1, <1>3, <2>1, <2>2, <2>4 DEF ClientOK, EndingReady, Terminated, ToEnd
  <2> QED BY <2>1, <2>3, <2>4
<1>c. x.op = "refresh" => x.sess \in ToEnd(c) \/ Terminated(x.sess)
  <2> SUFFICES ASSUME x.op = "refresh"
               PROVE  x.sess \in ToEnd(c) \/ Terminated(x.sess)
    OBVIOUS
  <2>1. x.sess \in Sessions /\ session[x.sess] # "absent"
    BY <1>1, <1>3 DEF ClientOK, EndingReady
  <2>2. session[x.sess] \in {"active"} \cup Reasons
    BY <2>1 DEF IInv, TypeOK, SessionStates
  <2> QED BY <2>1, <2>2 DEF ToEnd, Terminated
<1>4. y \in Transaction
  BY <1>1, <1>a DEF Transaction, Steps
<1>5. /\ tx'[c] = y /\ tx' \in [Clients -> Transaction]
      /\ \A d \in Clients \ {c} : tx'[d] = tx[d]
  BY <1>1, <1>2, <1>4
<1> HIDE DEF y
<1>6. /\ y.at = "end" /\ y.op = x.op /\ y.tok = x.tok /\ y.sess = x.sess
      /\ y.who = x.who /\ y.pending = x.pending
      /\ y.todo = ToEnd(c)
      /\ y.held = x.held /\ y.share = x.share /\ y.minted = x.minted
      /\ y.used = x.used /\ y.revoked = x.revoked /\ y.opened = x.opened
      /\ y.ended = x.ended
  BY <1>1 DEF y, Transaction, NoTransaction
<1>7. RequestShape(c)'
  BY <1>1, <1>3, <1>5, <1>6
     DEF ClientOK, RequestShape, tables, StartEnding, NoTransaction,
         ActiveSessions
<1>8. RowsLocked(c)'
  BY <1>1, <1>3, <1>5, <1>6
     DEF ClientOK, RowsLocked, tables, StartEnding, ActiveSessions
<1>9. RotationReady(c)'
  BY <1>1, <1>3, <1>5, <1>6
     DEF ClientOK, RotationReady, tables, StartEnding, FreshTokens, TokensOf,
         ActiveSessions
<1>10. EndingReady(c)'
  BY <1>1, <1>3, <1>a, <1>b, <1>5, <1>6
     DEF ClientOK, EndingReady, tables, StartEnding, Terminated
<1>11. MisuseCovers(c)'
  BY <1>1, <1>3, <1>c, <1>5, <1>6
     DEF ClientOK, MisuseCovers, tables, Spent, Terminated, StartEnding
<1>12. ASSUME NEW d \in Clients \ {c} PROVE Apart(c, d)'
  BY <1>1, <1>3, <1>5, <1>6
     DEF IInv, Consistent, Apart, StartEnding, Free, FreshTokens,
         ActiveSessions
<1> QED
  BY <1>5, <1>7, <1>8, <1>9, <1>10, <1>11, <1>12, LocalStep
     DEF ClientOK, StartEnding, IInv, TypeOK, ActiveSessions

(* A session ends here unless another request ended it first. *)
LEMMA EndSessionInv ==
  ASSUME IInv, NEW c \in Clients, NEW s \in Sessions, EndSession(c, s)
  PROVE  IInv'
<1> DEFINE x == tx[c]
           y == [x EXCEPT !.todo = x.todo \ {s}, !.held = x.held \cup {s},
                          !.ended = IF Terminated(s) THEN x.ended
                                    ELSE x.ended \cup {s}]
<1>1. x \in Transaction /\ ClientOK(c) /\ tx \in [Clients -> Transaction]
  BY TxType
<1>2. tx' = [tx EXCEPT ![c] = y]
  BY <1>1 DEF EndSession, Transaction, Terminated, SessionStates
<1>3. /\ x.at = "end" /\ s \in x.todo /\ session[s] # "absent"
      /\ (~Terminated(s) => session[s] = "active")
      /\ x.held \cup {s} \in SUBSET Rows
      /\ x.ended \cup {s} \in SUBSET Sessions /\ x.op # "login"
      /\ x.todo \ {s} \in SUBSET (Tokens \cup Sessions)
  BY <1>1
     DEF ClientOK, RequestShape, EndingReady, RotationReady, EndSession, IInv,
         TypeOK, Consistent, TablesConsistent, Terminated, SessionStates,
         Transaction, Rows
<1>4. y \in Transaction
  BY <1>1, <1>3
     DEF Transaction, Steps, Rows, NoTransaction, Terminated, SessionStates
<1>5. /\ tx'[c] = y /\ tx' \in [Clients -> Transaction]
      /\ \A d \in Clients \ {c} : tx'[d] = tx[d]
  BY <1>1, <1>2, <1>4
<1> HIDE DEF y
<1>6. /\ y.at = x.at /\ y.op = x.op /\ y.tok = x.tok /\ y.sess = x.sess
      /\ y.who = x.who /\ y.pending = x.pending /\ y.todo = x.todo \ {s}
      /\ y.held = x.held \cup {s} /\ y.share = x.share
      /\ y.minted = x.minted /\ y.used = x.used /\ y.revoked = x.revoked
      /\ y.opened = x.opened
      /\ y.ended = IF Terminated(s) THEN x.ended ELSE x.ended \cup {s}
  BY <1>1 DEF y, Transaction, NoTransaction
<1>7. RequestShape(c)'
  BY <1>1, <1>3, <1>5, <1>6
     DEF ClientOK, RequestShape, tables, EndSession, NoTransaction,
         Terminated, SessionStates
<1>8. RowsLocked(c)'
  BY <1>1, <1>3, <1>5, <1>6
     DEF ClientOK, RowsLocked, tables, EndSession, Terminated, SessionStates
<1>9. RotationReady(c)'
  BY <1>1, <1>3, <1>5, <1>6
     DEF ClientOK, RotationReady, tables, EndSession, FreshTokens, TokensOf,
         Terminated, SessionStates
<1>10. EndingReady(c)'
  BY <1>1, <1>3, <1>5, <1>6
     DEF ClientOK, EndingReady, tables, EndSession, Terminated, TokensOf,
         ActiveSessions, SessionStates
<1>11. MisuseCovers(c)'
  BY <1>1, <1>3, <1>5, <1>6
     DEF ClientOK, MisuseCovers, tables, Spent, Terminated, EndSession,
         TokensOf, SessionStates
<1>12. ASSUME NEW d \in Clients \ {c} PROVE Apart(c, d)'
  BY <1>1, <1>3, <1>5, <1>6
     DEF IInv, Consistent, Apart, EndSession, Free, FreshTokens, Terminated,
         SessionStates
<1> QED
  BY <1>5, <1>7, <1>8, <1>9, <1>10, <1>11, <1>12, LocalStep
     DEF ClientOK, EndSession, IInv, TypeOK, Terminated, SessionStates

(* Every session whose tokens were revoked is terminated. *)
LEMMA FinishEndingInv ==
  ASSUME IInv, NEW c \in Clients, FinishEnding(c)
  PROVE  IInv'
<1> DEFINE x == tx[c]
           y == [x EXCEPT !.at = IF x.pending = {} THEN "commit"
                                 ELSE "terminate"]
<1>1. x \in Transaction /\ ClientOK(c) /\ tx \in [Clients -> Transaction]
  BY TxType
<1>2. tx' = [tx EXCEPT ![c] = y]
  BY <1>1 DEF FinishEnding, Transaction
<1>3. /\ x.at = "end" /\ x.todo = {}
      /\ x.op # "login"
  BY <1>1
     DEF ClientOK, RequestShape, EndingReady, RotationReady, FinishEnding,
         IInv, TypeOK, Consistent, TablesConsistent
<1>4. y \in Transaction
  BY <1>1, <1>3 DEF Transaction, Steps, Rows, NoTransaction
<1>5. /\ tx'[c] = y /\ tx' \in [Clients -> Transaction]
      /\ \A d \in Clients \ {c} : tx'[d] = tx[d]
  BY <1>1, <1>2, <1>4
<1> HIDE DEF y
<1>6. /\ y.at = IF x.pending = {} THEN "commit" ELSE "terminate"
      /\ y.op = x.op /\ y.tok = x.tok /\ y.sess = x.sess
      /\ y.who = x.who /\ y.pending = x.pending /\ y.todo = x.todo
      /\ y.held = x.held /\ y.share = x.share /\ y.minted = x.minted
      /\ y.used = x.used /\ y.revoked = x.revoked /\ y.opened = x.opened
      /\ y.ended = x.ended
  BY <1>1 DEF y, Transaction, NoTransaction
<1>7. RequestShape(c)'
  BY <1>1, <1>3, <1>5, <1>6
     DEF ClientOK, RequestShape, tables, FinishEnding, NoTransaction
<1>8. RowsLocked(c)'
  BY <1>1, <1>3, <1>5, <1>6 DEF ClientOK, RowsLocked, tables, FinishEnding
<1>9. RotationReady(c)'
  BY <1>1, <1>3, <1>5, <1>6
     DEF ClientOK, RotationReady, tables, FinishEnding, FreshTokens, TokensOf
<1>10. EndingReady(c)'
  BY <1>1, <1>3, <1>5, <1>6
     DEF ClientOK, EndingReady, tables, FinishEnding, Terminated, TokensOf,
         ActiveSessions
<1>11. MisuseCovers(c)'
  BY <1>1, <1>3, <1>5, <1>6
     DEF ClientOK, MisuseCovers, tables, Spent, Terminated, FinishEnding,
         TokensOf
<1>12. ASSUME NEW d \in Clients \ {c} PROVE Apart(c, d)'
  BY <1>1, <1>3, <1>5, <1>6
     DEF IInv, Consistent, Apart, FinishEnding, Free, FreshTokens
<1> QED
  BY <1>5, <1>7, <1>8, <1>9, <1>10, <1>11, <1>12, LocalStep
     DEF ClientOK, FinishEnding, IInv, TypeOK

(* No other login opens the same session. *)
LEMMA BeginLoginInv ==
  ASSUME IInv, NEW c \in Clients, NEW s \in Sessions, BeginLogin(c, s)
  PROVE  IInv'
<1> DEFINE x == tx[c]
           y == [NoTransaction EXCEPT !.at = "open", !.op = "login",
                                      !.sess = s, !.who = OwnerOf[s]]
<1>1. x \in Transaction /\ ClientOK(c) /\ tx \in [Clients -> Transaction]
  BY TxType
<1>2. tx' = [tx EXCEPT ![c] = y]
  BY <1>1 DEF BeginLogin, Transaction
<1>3. session[s] = "absent" /\ OwnerOf[s] \in Identities
  BY <1>1
     DEF ClientOK, RequestShape, EndingReady, RotationReady, BeginLogin, IInv,
         TypeOK, Consistent, TablesConsistent
<1>4. y \in Transaction
  BY <1>1, <1>3 DEF Transaction, Steps, Rows, NoTransaction
<1>5. /\ tx'[c] = y /\ tx' \in [Clients -> Transaction]
      /\ \A d \in Clients \ {c} : tx'[d] = tx[d]
  BY <1>1, <1>2, <1>4
<1> HIDE DEF y
<1>6. /\ y.at = "open" /\ y.op = "login" /\ y.tok = None /\ y.sess = s
      /\ y.who = OwnerOf[s] /\ y.pending = {} /\ y.todo = {}
      /\ y.held = {} /\ y.share = {} /\ y.minted = {} /\ y.used = {}
      /\ y.revoked = {} /\ y.opened = {} /\ y.ended = {}
  BY <1>1 DEF y, Transaction, NoTransaction
<1>7. RequestShape(c)'
  BY <1>1, <1>3, <1>5, <1>6
     DEF ClientOK, RequestShape, tables, BeginLogin, NoTransaction
<1>8. RowsLocked(c)'
  BY <1>1, <1>3, <1>5, <1>6 DEF ClientOK, RowsLocked, tables, BeginLogin
<1>9. RotationReady(c)'
  BY <1>1, <1>3, <1>5, <1>6
     DEF ClientOK, RotationReady, tables, BeginLogin, FreshTokens, TokensOf
<1>10. EndingReady(c)'
  BY <1>1, <1>3, <1>5, <1>6
     DEF ClientOK, EndingReady, tables, BeginLogin, Terminated, TokensOf,
         ActiveSessions
<1>11. MisuseCovers(c)'
  BY <1>1, <1>3, <1>5, <1>6
     DEF ClientOK, MisuseCovers, tables, Spent, Terminated, BeginLogin,
         TokensOf
<1>12. ASSUME NEW d \in Clients \ {c} PROVE Apart(c, d)'
  BY <1>1, <1>3, <1>5, <1>6
     DEF IInv, Consistent, Apart, BeginLogin, Free, FreshTokens
<1> QED
  BY <1>5, <1>7, <1>8, <1>9, <1>10, <1>11, <1>12, LocalStep
     DEF ClientOK, BeginLogin, IInv, TypeOK

(* The session comes with its first token. *)
LEMMA OpenSessionInv ==
  ASSUME IInv, NEW c \in Clients, NEW n \in Tokens, OpenSession(c, n)
  PROVE  IInv'
<1> DEFINE x == tx[c]
           y == [x EXCEPT !.at = "commit", !.share = {x.who},
                          !.opened = {x.sess}, !.minted = {n}]
<1>1. x \in Transaction /\ ClientOK(c) /\ tx \in [Clients -> Transaction]
  BY TxType
<1>2. tx' = [tx EXCEPT ![c] = y]
  BY <1>1 DEF OpenSession, Transaction
<1>3. /\ x.at = "open" /\ x.op = "login" /\ x.sess \in Sessions
      /\ x.who \in Identities /\ n \in FreshTokens(x.sess)
      /\ {x.sess} \in SUBSET Sessions /\ {n} \in SUBSET Tokens
      /\ {x.who} \in SUBSET Identities
  BY <1>1
     DEF ClientOK, RequestShape, EndingReady, RotationReady, OpenSession,
         IInv, TypeOK, Consistent, TablesConsistent
<1>4. y \in Transaction
  BY <1>1, <1>3 DEF Transaction, Steps, Rows, NoTransaction
<1>5. /\ tx'[c] = y /\ tx' \in [Clients -> Transaction]
      /\ \A d \in Clients \ {c} : tx'[d] = tx[d]
  BY <1>1, <1>2, <1>4
<1> HIDE DEF y
<1>6. /\ y.at = "commit" /\ y.op = x.op /\ y.tok = x.tok
      /\ y.sess = x.sess /\ y.who = x.who /\ y.pending = x.pending
      /\ y.todo = x.todo /\ y.held = x.held /\ y.share = {x.who}
      /\ y.minted = {n} /\ y.used = x.used /\ y.revoked = x.revoked
      /\ y.opened = {x.sess} /\ y.ended = x.ended
  BY <1>1 DEF y, Transaction, NoTransaction
<1>7. RequestShape(c)'
  BY <1>1, <1>3, <1>5, <1>6
     DEF ClientOK, RequestShape, tables, OpenSession, NoTransaction
<1>8. RowsLocked(c)'
  BY <1>1, <1>3, <1>5, <1>6 DEF ClientOK, RowsLocked, tables, OpenSession
<1>9. RotationReady(c)'
  BY <1>1, <1>3, <1>5, <1>6
     DEF ClientOK, RotationReady, tables, OpenSession, FreshTokens, TokensOf
<1>10. EndingReady(c)'
  BY <1>1, <1>3, <1>5, <1>6
     DEF ClientOK, EndingReady, tables, OpenSession, Terminated, TokensOf,
         ActiveSessions
<1>11. MisuseCovers(c)'
  BY <1>1, <1>3, <1>5, <1>6
     DEF ClientOK, MisuseCovers, tables, Spent, Terminated, OpenSession,
         TokensOf
<1>12. ASSUME NEW d \in Clients \ {c} PROVE Apart(c, d)'
  BY <1>1, <1>3, <1>5, <1>6
     DEF IInv, Consistent, Apart, OpenSession, Free, FreshTokens
<1> QED
  BY <1>5, <1>7, <1>8, <1>9, <1>10, <1>11, <1>12, LocalStep
     DEF ClientOK, OpenSession, IInv, TypeOK

(* A password change has written nothing yet, *)
LEMMA BeginPasswordInv ==
  ASSUME IInv, NEW c \in Clients, NEW i \in Identities, BeginPassword(c, i)
  PROVE  IInv'
<1> DEFINE x == tx[c]
           y == [NoTransaction EXCEPT !.at = "keyShare", !.op = "password",
                                      !.who = i]
<1>1. x \in Transaction /\ ClientOK(c) /\ tx \in [Clients -> Transaction]
  BY TxType
<1>2. tx' = [tx EXCEPT ![c] = y]
  BY <1>1 DEF BeginPassword, Transaction
<1>3. TRUE
  BY <1>1
     DEF ClientOK, RequestShape, EndingReady, RotationReady, BeginPassword,
         IInv, TypeOK, Consistent, TablesConsistent
<1>4. y \in Transaction
  BY <1>1, <1>3 DEF Transaction, Steps, Rows, NoTransaction
<1>5. /\ tx'[c] = y /\ tx' \in [Clients -> Transaction]
      /\ \A d \in Clients \ {c} : tx'[d] = tx[d]
  BY <1>1, <1>2, <1>4
<1> HIDE DEF y
<1>6. /\ y.at = "keyShare" /\ y.op = "password" /\ y.tok = None
      /\ y.sess = None /\ y.who = i /\ y.pending = {} /\ y.todo = {}
      /\ y.held = {} /\ y.share = {} /\ y.minted = {} /\ y.used = {}
      /\ y.revoked = {} /\ y.opened = {} /\ y.ended = {}
  BY <1>1 DEF y, Transaction, NoTransaction
<1>7. RequestShape(c)'
  BY <1>1, <1>3, <1>5, <1>6
     DEF ClientOK, RequestShape, tables, BeginPassword, NoTransaction
<1>8. RowsLocked(c)'
  BY <1>1, <1>3, <1>5, <1>6 DEF ClientOK, RowsLocked, tables, BeginPassword
<1>9. RotationReady(c)'
  BY <1>1, <1>3, <1>5, <1>6
     DEF ClientOK, RotationReady, tables, BeginPassword, FreshTokens, TokensOf
<1>10. EndingReady(c)'
  BY <1>1, <1>3, <1>5, <1>6
     DEF ClientOK, EndingReady, tables, BeginPassword, Terminated, TokensOf,
         ActiveSessions
<1>11. MisuseCovers(c)'
  BY <1>1, <1>3, <1>5, <1>6
     DEF ClientOK, MisuseCovers, tables, Spent, Terminated, BeginPassword,
         TokensOf
<1>12. ASSUME NEW d \in Clients \ {c} PROVE Apart(c, d)'
  BY <1>1, <1>3, <1>5, <1>6
     DEF IInv, Consistent, Apart, BeginPassword, Free, FreshTokens
<1> QED
  BY <1>5, <1>7, <1>8, <1>9, <1>10, <1>11, <1>12, LocalStep
     DEF ClientOK, BeginPassword, IInv, TypeOK

(* ... nor when its credential is inserted, *)
LEMMA InsertCredentialInv ==
  ASSUME IInv, NEW c \in Clients, InsertCredential(c)
  PROVE  IInv'
<1> DEFINE x == tx[c]
           y == [x EXCEPT !.at = "revokeAll", !.share = {x.who}]
<1>1. x \in Transaction /\ ClientOK(c) /\ tx \in [Clients -> Transaction]
  BY TxType
<1>2. tx' = [tx EXCEPT ![c] = y]
  BY <1>1 DEF InsertCredential, Transaction
<1>3. /\ x.at = "keyShare" /\ x.op = "password" /\ x.who \in Identities
      /\ {x.who} \in SUBSET Identities
  BY <1>1
     DEF ClientOK, RequestShape, EndingReady, RotationReady, InsertCredential,
         IInv, TypeOK, Consistent, TablesConsistent
<1>4. y \in Transaction
  BY <1>1, <1>3 DEF Transaction, Steps, Rows, NoTransaction
<1>5. /\ tx'[c] = y /\ tx' \in [Clients -> Transaction]
      /\ \A d \in Clients \ {c} : tx'[d] = tx[d]
  BY <1>1, <1>2, <1>4
<1> HIDE DEF y
<1>6. /\ y.at = "revokeAll" /\ y.op = x.op /\ y.tok = x.tok
      /\ y.sess = x.sess /\ y.who = x.who /\ y.pending = x.pending
      /\ y.todo = x.todo /\ y.held = x.held /\ y.share = {x.who}
      /\ y.minted = x.minted /\ y.used = x.used /\ y.revoked = x.revoked
      /\ y.opened = x.opened /\ y.ended = x.ended
  BY <1>1 DEF y, Transaction, NoTransaction
<1>7. RequestShape(c)'
  BY <1>1, <1>3, <1>5, <1>6
     DEF ClientOK, RequestShape, tables, InsertCredential, NoTransaction
<1>8. RowsLocked(c)'
  BY <1>1, <1>3, <1>5, <1>6 DEF ClientOK, RowsLocked, tables, InsertCredential
<1>9. RotationReady(c)'
  BY <1>1, <1>3, <1>5, <1>6
     DEF ClientOK, RotationReady, tables, InsertCredential, FreshTokens,
         TokensOf
<1>10. EndingReady(c)'
  BY <1>1, <1>3, <1>5, <1>6
     DEF ClientOK, EndingReady, tables, InsertCredential, Terminated,
         TokensOf, ActiveSessions
<1>11. MisuseCovers(c)'
  BY <1>1, <1>3, <1>5, <1>6
     DEF ClientOK, MisuseCovers, tables, Spent, Terminated, InsertCredential,
         TokensOf
<1>12. ASSUME NEW d \in Clients \ {c} PROVE Apart(c, d)'
  BY <1>1, <1>3, <1>5, <1>6
     DEF IInv, Consistent, Apart, InsertCredential, Free, FreshTokens
<1> QED
  BY <1>5, <1>7, <1>8, <1>9, <1>10, <1>11, <1>12, LocalStep
     DEF ClientOK, InsertCredential, IInv, TypeOK

(* ... and picks tokens of the identity only. *)
LEMMA RevokeIdentityInv ==
  ASSUME IInv, NEW c \in Clients, RevokeIdentity(c)
  PROVE  IInv'
<1> DEFINE x == tx[c]
           y == [x EXCEPT !.at = "revoke",
                          !.todo = {t \in issued :
                                     SessionOf[t] \in ActiveSessions(x.who)}]
<1>1. x \in Transaction /\ ClientOK(c) /\ tx \in [Clients -> Transaction]
  BY TxType
<1>2. tx' = [tx EXCEPT ![c] = y]
  BY <1>1 DEF RevokeIdentity, Transaction, ActiveSessions
<1>3. /\ x.at = "revokeAll" /\ x.op = "password" /\ x.who \in Identities
      /\ {t \in issued : SessionOf[t] \in ActiveSessions(x.who)}
           \in SUBSET (Tokens \cup Sessions)
      /\ x.revoked = {}
  BY <1>1
     DEF ClientOK, RequestShape, EndingReady, RotationReady, RevokeIdentity,
         IInv, TypeOK, Consistent, TablesConsistent, ActiveSessions
<1>4. y \in Transaction
  BY <1>1, <1>3 DEF Transaction, Steps, Rows, NoTransaction, ActiveSessions
<1>5. /\ tx'[c] = y /\ tx' \in [Clients -> Transaction]
      /\ \A d \in Clients \ {c} : tx'[d] = tx[d]
  BY <1>1, <1>2, <1>4
<1> HIDE DEF y
<1>6. /\ y.at = "revoke" /\ y.op = x.op /\ y.tok = x.tok
      /\ y.sess = x.sess /\ y.who = x.who /\ y.pending = x.pending
      /\ y.todo = {t \in issued : SessionOf[t] \in ActiveSessions(x.who)}
      /\ y.held = x.held /\ y.share = x.share /\ y.minted = x.minted
      /\ y.used = x.used /\ y.revoked = x.revoked /\ y.opened = x.opened
      /\ y.ended = x.ended
  BY <1>1 DEF y, Transaction, NoTransaction
<1>7. RequestShape(c)'
  BY <1>1, <1>3, <1>5, <1>6
     DEF ClientOK, RequestShape, tables, RevokeIdentity, NoTransaction,
         ActiveSessions
<1>8. RowsLocked(c)'
  BY <1>1, <1>3, <1>5, <1>6
     DEF ClientOK, RowsLocked, tables, RevokeIdentity, ActiveSessions
<1>9. RotationReady(c)'
  BY <1>1, <1>3, <1>5, <1>6
     DEF ClientOK, RotationReady, tables, RevokeIdentity, FreshTokens,
         TokensOf, ActiveSessions
<1>10. EndingReady(c)'
  BY <1>1, <1>3, <1>5, <1>6
     DEF ClientOK, EndingReady, tables, RevokeIdentity, Terminated, TokensOf,
         ActiveSessions
<1>11. MisuseCovers(c)'
  BY <1>1, <1>3, <1>5, <1>6
     DEF ClientOK, MisuseCovers, tables, Spent, Terminated, RevokeIdentity,
         TokensOf, ActiveSessions
<1>12. ASSUME NEW d \in Clients \ {c} PROVE Apart(c, d)'
  BY <1>1, <1>3, <1>5, <1>6
     DEF IInv, Consistent, Apart, RevokeIdentity, Free, FreshTokens,
         ActiveSessions
<1> QED
  BY <1>5, <1>7, <1>8, <1>9, <1>10, <1>11, <1>12, LocalStep
     DEF ClientOK, RevokeIdentity, IInv, TypeOK, ActiveSessions

(* A rollback gives up rows, tokens and sessions at once. *)
LEMMA AbortInv ==
  ASSUME IInv, NEW c \in Clients, Abort(c)
  PROVE  IInv'
<1> DEFINE x == tx[c]
           y == NoTransaction
<1>1. x \in Transaction /\ ClientOK(c) /\ tx \in [Clients -> Transaction]
  BY TxType
<1>2. tx' = [tx EXCEPT ![c] = y]
  BY <1>1 DEF Abort, Transaction
<1>3. TRUE
  BY <1>1
     DEF ClientOK, RequestShape, EndingReady, RotationReady, Abort, IInv,
         TypeOK, Consistent, TablesConsistent
<1>4. y \in Transaction
  BY <1>1, <1>3 DEF Transaction, Steps, Rows, NoTransaction
<1>5. /\ tx'[c] = y /\ tx' \in [Clients -> Transaction]
      /\ \A d \in Clients \ {c} : tx'[d] = tx[d]
  BY <1>1, <1>2, <1>4
<1> HIDE DEF y
<1>6. /\ y.at = "idle" /\ y.op = "none" /\ y.tok = None /\ y.sess = None
      /\ y.who = None /\ y.pending = {} /\ y.todo = {} /\ y.held = {}
      /\ y.share = {} /\ y.minted = {} /\ y.used = {} /\ y.revoked = {}
      /\ y.opened = {} /\ y.ended = {}
  BY <1>1 DEF y, Transaction, NoTransaction
<1>7. RequestShape(c)'
  BY <1>1, <1>3, <1>5, <1>6
     DEF ClientOK, RequestShape, tables, Abort, NoTransaction
<1>8. RowsLocked(c)'
  BY <1>1, <1>3, <1>5, <1>6 DEF ClientOK, RowsLocked, tables, Abort
<1>9. RotationReady(c)'
  BY <1>1, <1>3, <1>5, <1>6
     DEF ClientOK, RotationReady, tables, Abort, FreshTokens, TokensOf
<1>10. EndingReady(c)'
  BY <1>1, <1>3, <1>5, <1>6
     DEF ClientOK, EndingReady, tables, Abort, Terminated, TokensOf,
         ActiveSessions
<1>11. MisuseCovers(c)'
  BY <1>1, <1>3, <1>5, <1>6
     DEF ClientOK, MisuseCovers, tables, Spent, Terminated, Abort, TokensOf
<1>12. ASSUME NEW d \in Clients \ {c} PROVE Apart(c, d)'
  BY <1>1, <1>3, <1>5, <1>6
     DEF IInv, Consistent, Apart, Abort, Free, FreshTokens
<1> QED
  BY <1>5, <1>7, <1>8, <1>9, <1>10, <1>11, <1>12, LocalStep
     DEF ClientOK, Abort, IInv, TypeOK

(***************************************************************************)
(* What a COMMIT can do to the tables: rotate one token of a session,      *)
(* open a session with its first token, or terminate.                      *)
(***************************************************************************)
Rotates(c, n) ==
  LET x == tx[c] IN
  /\ x.op = "refresh" /\ x.used = {x.tok} /\ x.minted = {n}
  /\ x.tok \in issued /\ x.tok \notin used \cup revoked
  /\ x.sess = SessionOf[x.tok] /\ x.sess \in x.held
  /\ x.revoked = {} /\ x.ended = {} /\ x.opened = {}
  /\ n \in Tokens \ issued /\ SessionOf[n] = x.sess
  /\ session' = session
  /\ issued' = issued \cup {n} /\ used' = used \cup {x.tok}
  /\ revoked' = revoked
  /\ succ' = [succ EXCEPT ![x.tok] = n]

Opens(c, n) ==
  LET x == tx[c] IN
  /\ x.op = "login" /\ x.used = {} /\ x.minted = {n}
  /\ x.revoked = {} /\ x.ended = {} /\ x.opened = {x.sess}
  /\ x.sess \in Sessions /\ session[x.sess] = "absent"
  /\ n \in Tokens \ issued /\ SessionOf[n] = x.sess
  /\ session' = [session EXCEPT ![x.sess] = "active"]
  /\ issued' = issued \cup {n} /\ used' = used
  /\ revoked' = revoked /\ succ' = succ

Terminates(c) ==
  LET x == tx[c] IN
  /\ x.op # "login" /\ x.used = {} /\ x.minted = {} /\ x.opened = {}
  /\ \A s \in x.ended : session[s] = "active"
  /\ session' = [s \in Sessions |->
                    IF s \in x.ended THEN ReasonOf(x.op) ELSE session[s]]
  /\ issued' = issued /\ used' = used
  /\ revoked' = revoked \cup x.revoked
  /\ succ' = succ

LEMMA CommitCases ==
  ASSUME IInv, NEW c \in Clients, Commit(c)
  PROVE  /\ tx' = [tx EXCEPT ![c] = NoTransaction]
         /\ \/ \E n \in Tokens : Rotates(c, n)
            \/ \E n \in Tokens : Opens(c, n)
            \/ Terminates(c)
<1> DEFINE x == tx[c]
<1>1. x \in Transaction /\ ClientOK(c) /\ x.at = "commit"
  BY TxType DEF Commit
<1>2. tx' = [tx EXCEPT ![c] = NoTransaction]
  BY DEF Commit, Apply
<1>3. /\ session \in [Sessions -> SessionStates]
      /\ succ \in [Tokens -> Tokens \cup {None}]
      /\ issued \subseteq Tokens
  BY DEF IInv, TypeOK
<1>4. CASE x.used # {}
  <2>1. PICK n \in TokensOf(x.sess) \ issued : x.minted = {n}
    BY <1>1, <1>4 DEF ClientOK, RotationReady
  <2>2. /\ x.op = "refresh" /\ x.used = {x.tok} /\ x.revoked = {}
        /\ x.ended = {} /\ x.opened = {}
        /\ x.tok \in issued /\ x.tok \notin used \cup revoked
        /\ x.sess = SessionOf[x.tok] /\ x.sess \in x.held
    BY <1>1, <1>4 DEF ClientOK, RotationReady, RequestShape, RowsLocked
  <2>3. n \in Tokens \ issued /\ SessionOf[n] = x.sess
    BY <2>1 DEF TokensOf
  <2>4. session' = session
    BY <1>3, <2>2 DEF Commit, Apply
  <2>5. (CHOOSE m \in {n} : TRUE) = n
    OBVIOUS
  <2>6. succ' = [succ EXCEPT ![x.tok] = n]
    BY <1>3, <2>1, <2>2, <2>3, <2>5 DEF Commit, Apply
  <2>7. /\ issued' = issued \cup {n} /\ used' = used \cup {x.tok}
        /\ revoked' = revoked
    BY <2>1, <2>2 DEF Commit, Apply
  <2>8. Rotates(c, n)
    BY <2>1, <2>2, <2>3, <2>4, <2>6, <2>7 DEF Rotates
  <2> QED BY <1>2, <2>3, <2>8
<1>5. CASE x.op = "login"
  <2>1. /\ x.used = {} /\ x.revoked = {} /\ x.ended = {}
        /\ x.opened = {x.sess} /\ x.minted # {}
    BY <1>1, <1>5 DEF ClientOK, RotationReady
  <2>2. PICK n \in TokensOf(x.sess) \ issued : x.minted = {n}
    BY <1>1, <2>1 DEF ClientOK, RotationReady
  <2>3. n \in Tokens \ issued /\ SessionOf[n] = x.sess
    BY <2>2 DEF TokensOf
  <2>4. x.sess \in Sessions /\ session[x.sess] = "absent"
    BY <1>1, <1>5 DEF ClientOK, RequestShape
  <2>5. session' = [session EXCEPT ![x.sess] = "active"]
    BY <1>3, <2>1, <2>4 DEF Commit, Apply
  <2>6. succ' = succ
    BY <1>3, <2>1 DEF Commit, Apply
  <2>7. issued' = issued \cup {n} /\ used' = used /\ revoked' = revoked
    BY <2>1, <2>2 DEF Commit, Apply
  <2>8. Opens(c, n)
    BY <1>5, <2>1, <2>2, <2>3, <2>4, <2>5, <2>6, <2>7 DEF Opens
  <2> QED BY <1>2, <2>3, <2>8
<1>6. CASE x.used = {} /\ x.op # "login"
  <2>1. /\ x.minted = {} /\ x.opened = {}
        /\ \A s \in x.ended : session[s] = "active"
    BY <1>1, <1>6 DEF ClientOK, RotationReady, EndingReady
  <2>2. succ' = succ
    BY <1>3, <1>6 DEF Commit, Apply
  <2>3. session' = [s \in Sessions |->
                     IF s \in x.ended THEN ReasonOf(x.op) ELSE session[s]]
    BY <2>1 DEF Commit, Apply
  <2>4. issued' = issued /\ used' = used /\ revoked' = revoked \cup x.revoked
    BY <1>6, <2>1 DEF Commit, Apply
  <2>5. Terminates(c)
    BY <1>6, <2>1, <2>2, <2>3, <2>4 DEF Terminates
  <2> QED BY <1>2, <2>5
<1> QED BY <1>4, <1>5, <1>6

(* The client that commits is idle afterwards, and owns nothing. *)
LEMMA IdleOK ==
  ASSUME NEW c \in Clients, tx'[c] = NoTransaction PROVE ClientOK(c)'
<1>1. RequestShape(c)' /\ RowsLocked(c)'
  BY DEF RequestShape, RowsLocked, NoTransaction
<1>2. RotationReady(c)'
  BY DEF RotationReady, NoTransaction
<1>3. EndingReady(c)' /\ MisuseCovers(c)'
  BY DEF EndingReady, MisuseCovers, NoTransaction
<1> QED BY <1>1, <1>2, <1>3 DEF ClientOK

(***************************************************************************)
(* A commit of c leaves alone what another request relies on: the rows it  *)
(* changes it held, and d holds the rows d relies on.                      *)
(***************************************************************************)
LEMMA CommitOthers ==
  ASSUME IInv, NEW c \in Clients, Commit(c), NEW d \in Clients, d # c
  PROVE  ClientOK(d)'
<1> DEFINE x == tx[c]
           z == tx[d]
<1>1. /\ tx' = [tx EXCEPT ![c] = NoTransaction]
      /\ \/ \E n \in Tokens : Rotates(c, n)
         \/ \E n \in Tokens : Opens(c, n)
         \/ Terminates(c)
  BY CommitCases
<1>2. tx'[d] = z /\ z \in Transaction /\ x \in Transaction
  BY <1>1, TxType
<1>3. ClientOK(c) /\ ClientOK(d) /\ Apart(c, d)
  BY DEF IInv, Consistent, ClientOK
<1>4. /\ x.ended \subseteq x.held /\ x.revoked \subseteq x.held
      /\ x.ended \subseteq Sessions
      /\ \A s \in x.ended : session[s] = "active"
  BY <1>2, <1>3 DEF ClientOK, RowsLocked, EndingReady, Transaction
<1>5. /\ session \in [Sessions -> SessionStates] /\ issued \subseteq Tokens
      /\ \A t \in issued : session[SessionOf[t]] # "absent"
  BY DEF IInv, TypeOK, Consistent, TablesConsistent
<1>6. /\ issued \subseteq issued'
      /\ \A s \in Sessions : session[s] # "absent" => session'[s] # "absent"
      /\ \A s \in Sessions : Terminated(s) => session'[s] = session[s]
      /\ revoked \subseteq revoked'
  BY <1>1, <1>4, <1>5
     DEF Rotates, Opens, Terminates, Terminated, Reasons, ReasonOf
<1>7. \A t \in issued' \ issued : SessionOf[t] = x.sess /\ x.minted = {t}
  BY <1>1 DEF Rotates, Opens, Terminates
<1>8. \A t \in (used' \cup revoked') \ (used \cup revoked) : t \in x.held
  BY <1>1, <1>3, <1>4 DEF Rotates, Opens, Terminates, ClientOK, RowsLocked
<1>9. \A s \in Sessions : session'[s] # session[s] =>
         \/ s \in x.ended
         \/ x.op = "login" /\ s = x.sess /\ session[s] = "absent"
  BY <1>1, <1>5 DEF Rotates, Opens, Terminates
<1>10. RequestShape(d)'
  <2>1. z.op = "login" => z.sess \in Sessions /\ session'[z.sess] = "absent"
    BY <1>3, <1>4, <1>9 DEF ClientOK, RequestShape, Apart
  <2>2. \A s \in z.pending : session'[s] # "absent"
    BY <1>2, <1>3, <1>6 DEF ClientOK, RequestShape, Transaction
  <2> QED BY <1>2, <1>3, <1>6, <2>1, <2>2 DEF ClientOK, RequestShape
<1>11. RowsLocked(d)'
  BY <1>2, <1>3 DEF ClientOK, RowsLocked
<1>12. RotationReady(d)'
  <2>1. z.at = "rotate" \/ z.used # {} => z.tok \in z.held
    BY <1>3 DEF ClientOK, RequestShape, RowsLocked, RotationReady
  <2>2. z.at = "rotate" \/ z.used # {} => z.tok \notin used' \cup revoked'
    BY <1>3, <1>8, <2>1 DEF ClientOK, RotationReady, Apart
  <2>3. \A n \in z.minted : n \notin issued'
    BY <1>3, <1>7 DEF ClientOK, RotationReady, Apart
  <2> QED BY <1>2, <1>3, <2>2, <2>3 DEF ClientOK, RotationReady, TokensOf
<1>13. EndingReady(d)'
  <2>1. \A s \in z.ended : s \in Sessions /\ session'[s] = "active"
    BY <1>2, <1>3, <1>4, <1>9
       DEF ClientOK, EndingReady, RowsLocked, Apart, Transaction
  <2>2. \A s \in Sessions : Terminated(s) => Terminated(s)'
    BY <1>6 DEF Terminated
  <2> QED BY <1>2, <1>3, <1>6, <2>1, <2>2 DEF ClientOK, EndingReady
<1>e. expired' = expired
  BY DEF Commit
<1>14. MisuseCovers(d)'
  <2>1. /\ z.op = "refresh" /\ z.used = {}
        /\ z.at \in {"revoke", "end", "commit"} \/ z.ended # {}
        => TokensOf(z.sess) \cap issued' = TokensOf(z.sess) \cap issued
    <3> SUFFICES ASSUME z.op = "refresh", z.used = {},
                        z.at \in {"revoke", "end", "commit"} \/ z.ended # {},
                        NEW t \in issued' \ issued, SessionOf[t] = z.sess
                 PROVE  FALSE
      BY <1>6 DEF TokensOf
    <3>1. z.sess \in z.held /\ session[z.sess] # "absent"
      BY <1>3, <1>5 DEF ClientOK, RequestShape, RowsLocked, EndingReady
    <3>2. x.sess = z.sess
      BY <1>7
    <3>3. x.sess \in x.held \/ session[x.sess] = "absent"
      BY <1>1, <1>7 DEF Rotates, Opens, Terminates
    <3> QED BY <1>3, <3>1, <3>2, <3>3 DEF Apart
  <2>2. Spent(z.tok) => Spent(z.tok)'
    BY <1>1, <1>6, <1>e DEF Spent, Rotates, Opens, Terminates
  <2>3. \A s \in Sessions : Terminated(s) => Terminated(s)'
    BY <1>6 DEF Terminated
  <2>4. z.op = "refresh" => z.sess \in Sessions
    BY <1>3, <1>5 DEF ClientOK, RequestShape
  <2> QED BY <1>2, <1>3, <1>6, <2>1, <2>2, <2>3, <2>4
          DEF ClientOK, MisuseCovers, TokensOf
<1> QED BY <1>10, <1>11, <1>12, <1>13, <1>14 DEF ClientOK

LEMMA CommitInv ==
  ASSUME IInv, NEW c \in Clients, Commit(c)
  PROVE  IInv'
<1> DEFINE x == tx[c]
<1>1. /\ tx' = [tx EXCEPT ![c] = NoTransaction]
      /\ \/ \E n \in Tokens : Rotates(c, n)
         \/ \E n \in Tokens : Opens(c, n)
         \/ Terminates(c)
  BY CommitCases
<1>2. x \in Transaction /\ ClientOK(c) /\ tx \in [Clients -> Transaction]
  BY TxType
<1>3. TypeOK /\ TablesConsistent
  BY DEF IInv, Consistent
<1>4. NoTransaction \in Transaction
  BY DEF NoTransaction, Transaction, Steps
<1>5. granted' \subseteq granted \cup {x.sess} /\ expired' = expired
  BY DEF Commit
<1>6. granted' # granted => x.used # {}
  BY DEF Commit
<1>7. TypeOK' /\ TablesConsistent'
  <2>1. CASE \E n \in Tokens : Rotates(c, n)
    <3>1. PICK n \in Tokens : Rotates(c, n)
      BY <2>1
    <3>2. x.sess \in Sessions
      BY <1>3, <3>1 DEF Rotates, TypeOK
    <3>3. TypeOK'
      BY <1>1, <1>2, <1>3, <1>4, <1>5, <3>1, <3>2 DEF TypeOK, Rotates
    <3>4. session[x.sess] # "absent"
      BY <1>3, <3>1 DEF Rotates, TablesConsistent
    <3>5. \A t, u \in Tokens :
            Live(t)' /\ Live(u)' /\ SessionOf[t] = SessionOf[u] => t = u
      BY <1>3, <3>1 DEF Rotates, TablesConsistent, Live, TypeOK
    <3>6. TablesConsistent'
      BY <1>3, <1>5, <3>1, <3>4, <3>5 DEF Rotates, TablesConsistent, TypeOK
    <3> QED BY <3>3, <3>6
  <2>2. CASE \E n \in Tokens : Opens(c, n)
    <3>1. PICK n \in Tokens : Opens(c, n)
      BY <2>2
    <3>2. granted' = granted
      BY <1>6, <3>1 DEF Opens
    <3>3. TypeOK'
      BY <1>1, <1>2, <1>3, <1>4, <1>5, <3>1, <3>2
         DEF TypeOK, Opens, SessionStates
    <3>5. \A t, u \in Tokens :
            Live(t)' /\ Live(u)' /\ SessionOf[t] = SessionOf[u] => t = u
      BY <1>3, <3>1 DEF Opens, TablesConsistent, Live, TypeOK
    <3>6. TablesConsistent'
      BY <1>3, <3>1, <3>2, <3>5 DEF Opens, TablesConsistent, TypeOK
    <3> QED BY <3>3, <3>6
  <2>3. CASE Terminates(c)
    <3>1. granted' = granted
      BY <1>6, <2>3 DEF Terminates
    <3>2. ReasonOf(x.op) \in Reasons
      BY DEF ReasonOf, Reasons
    <3>3. x.revoked \subseteq issued
      BY <1>2 DEF ClientOK, EndingReady
    <3>4. TypeOK'
      BY <1>1, <1>2, <1>3, <1>4, <1>5, <2>3, <3>1, <3>2, <3>3
         DEF TypeOK, Terminates, SessionStates
    <3>5. \A s \in Sessions : session[s] # "absent" => session'[s] # "absent"
      BY <1>3, <2>3, <3>2 DEF Terminates, TypeOK, Reasons
    <3>6. TablesConsistent'
      BY <1>3, <2>3, <3>1, <3>3, <3>5
         DEF Terminates, TablesConsistent, TypeOK, Live
    <3> QED BY <3>4, <3>6
  <2> QED BY <1>1, <2>1, <2>2, <2>3
<1>8. ASSUME NEW d \in Clients PROVE ClientOK(d)'
  <2>1. CASE d = c
    BY <1>1, <1>2, <2>1, IdleOK
  <2>2. CASE d # c
    BY <2>2, CommitOthers
  <2> QED BY <2>1, <2>2
<1>9. ASSUME NEW d \in Clients, NEW e \in Clients, d # e PROVE Apart(d, e)'
  BY <1>1, <1>2, <1>9 DEF IInv, Consistent, Apart, NoTransaction
<1> QED BY <1>7, <1>8, <1>9 DEF IInv, Consistent, ClientOK

LEMMA ExpireInv ==
  ASSUME IInv, NEW t \in Tokens, Expire(t) PROVE IInv'
<1>1. UNCHANGED <<session, issued, used, revoked, succ, granted, tx>>
  BY DEF Expire, tables
<1>2. TypeOK'
  BY <1>1 DEF IInv, TypeOK, Expire
<1>3. TablesConsistent'
  BY <1>1 DEF IInv, Consistent, TablesConsistent, Live
<1>4. ASSUME NEW c \in Clients PROVE ClientOK(c)'
  <2>1. ClientOK(c)
    BY DEF IInv, Consistent, ClientOK
  <2>2. RequestShape(c)' /\ RowsLocked(c)' /\ RotationReady(c)'
    BY <1>1, <2>1 DEF ClientOK, RequestShape, RowsLocked, RotationReady
  <2>3. EndingReady(c)' /\ MisuseCovers(c)'
    BY <1>1, <2>1
       DEF ClientOK, EndingReady, MisuseCovers, Terminated, Spent, Expire
  <2> QED BY <2>2, <2>3 DEF ClientOK
<1>5. ASSUME NEW c \in Clients, NEW d \in Clients, c # d PROVE Apart(c, d)'
  BY <1>1, <1>5 DEF IInv, Consistent, Apart
<1> QED BY <1>2, <1>3, <1>4, <1>5 DEF IInv, Consistent, ClientOK

LEMMA InitInv == Init => IInv
<1> SUFFICES ASSUME Init PROVE IInv
  OBVIOUS
<1>1. NoTransaction \in Transaction
  BY DEF NoTransaction, Transaction, Steps
<1>2. TypeOK
  BY <1>1 DEF Init, TypeOK, SessionStates
<1>3. TablesConsistent
  BY DEF Init, TablesConsistent, Live
<1>4. ASSUME NEW c \in Clients PROVE ClientOK(c)
  <2>1. tx[c] = NoTransaction
    BY DEF Init
  <2>2. RequestShape(c) /\ RowsLocked(c) /\ RotationReady(c)
    BY <2>1 DEF RequestShape, RowsLocked, RotationReady, NoTransaction
  <2>3. EndingReady(c) /\ MisuseCovers(c)
    BY <2>1 DEF EndingReady, MisuseCovers, NoTransaction
  <2> QED BY <2>2, <2>3 DEF ClientOK
<1>5. ASSUME NEW c \in Clients, NEW d \in Clients, c # d PROVE Apart(c, d)
  BY <1>5 DEF Init, Apart, NoTransaction
<1> QED BY <1>2, <1>3, <1>4, <1>5 DEF IInv, Consistent, ClientOK

LEMMA NextInv == IInv /\ [Next]_vars => IInv'
<1> SUFFICES ASSUME IInv, [Next]_vars PROVE IInv'
  OBVIOUS
<1>1. ASSUME NEW c \in Clients, Begin(c) PROVE IInv'
  BY <1>1, BeginRefreshInv, BeginLogoutInv, BeginLoginInv, BeginLogoutAllInv,
     BeginPasswordInv DEF Begin
<1>2. ASSUME NEW c \in Clients, Step(c) PROVE IInv'
  BY <1>2, LockTokenInv, LockSessionInv, LockIdentityInv, InsertCredentialInv,
     RevokeIdentityInv, StartEndingInv, FinishEndingInv, CommitInv, RotateInv,
     RevokeTokenInv, OpenSessionInv, RevokeSessionInv, EndSessionInv DEF Step
<1>3. ASSUME NEW c \in Clients, Abort(c) PROVE IInv'
  BY <1>3, AbortInv
<1>4. ASSUME NEW t \in Tokens, Expire(t) PROVE IInv'
  BY <1>4, ExpireInv
<1>5. CASE UNCHANGED vars
  <2>1. UNCHANGED <<session, issued, used, revoked, expired, succ, granted, tx>>
    BY <1>5 DEF vars
  <2>2. TypeOK' /\ TablesConsistent'
    BY <2>1 DEF IInv, TypeOK, Consistent, TablesConsistent, Live
  <2>3. ASSUME NEW c \in Clients PROVE ClientOK(c)'
    <3>1. ClientOK(c)
      BY DEF IInv, Consistent, ClientOK
    <3>2. RequestShape(c)' /\ RowsLocked(c)' /\ RotationReady(c)'
      BY <2>1, <3>1 DEF ClientOK, RequestShape, RowsLocked, RotationReady
    <3>3. EndingReady(c)' /\ MisuseCovers(c)'
      BY <2>1, <3>1
         DEF ClientOK, EndingReady, MisuseCovers, Terminated, Spent, Expire
    <3> QED BY <3>2, <3>3 DEF ClientOK
  <2>4. ASSUME NEW c \in Clients, NEW d \in Clients, c # d PROVE Apart(c, d)'
    BY <2>1, <2>4 DEF IInv, Consistent, Apart
  <2> QED BY <2>2, <2>3, <2>4 DEF IInv, Consistent, ClientOK
<1> QED BY <1>1, <1>2, <1>3, <1>4, <1>5 DEF Next

(* The inductive invariant. *)
THEOREM Invariant == Spec => []IInv
BY InitInv, NextInv, PTL DEF Spec

(***************************************************************************)
(* What a transaction has locked, read and written stays true until it     *)
(* commits, whatever the other transactions commit meanwhile.              *)
(***************************************************************************)
THEOREM TransactionsStayConsistent == Spec => []Consistent
<1>1. IInv => Consistent
  BY DEF IInv
<1> QED BY <1>1, Invariant, PTL

(***************************************************************************)
(* Every variable keeps its type, for any number of clients, sessions and  *)
(* tokens: all requests of the model are defined in every state.           *)
(***************************************************************************)
THEOREM TypeCorrect == Spec => []TypeOK
<1>1. IInv => TypeOK
  BY DEF IInv
<1> QED BY <1>1, Invariant, PTL

(***************************************************************************)
(* No rotation ever runs into uniq_active_refresh_token_per_session: while *)
(* a refresh is about to insert, the token it replaces is the only active  *)
(* one, and no other request inserts for that session.                     *)
(***************************************************************************)
THEOREM RotationNeverConflicts == Spec => []IndexNeverFires
<1>1. IInv => IndexNeverFires
  <2> SUFFICES ASSUME IInv, NEW c \in Clients, tx[c].at = "rotate",
                      ActiveIndexConflict(c, tx[c].sess)
               PROVE  FALSE
    BY DEF IndexNeverFires
  <2> DEFINE x == tx[c]
  <2>1. /\ x.op = "refresh" /\ x.tok \in issued /\ x.tok \in Tokens
        /\ x.sess = SessionOf[x.tok] /\ x.sess \in x.held
        /\ x.tok \notin used \cup revoked /\ session[x.sess] # "absent"
    BY DEF IInv, TypeOK, Consistent, RequestShape, RowsLocked, RotationReady,
           TablesConsistent
  <2>2. \A t \in TokensOf(x.sess) : Live(t) => t = x.tok
    BY <2>1 DEF IInv, Consistent, TablesConsistent, TokensOf, Live
  <2>3. PICK d \in Clients \ {c} : tx[d].minted \cap TokensOf(x.sess) # {}
    BY <2>2 DEF ActiveIndexConflict
  <2> DEFINE z == tx[d]
  <2>4. PICK n \in TokensOf(z.sess) : z.minted = {n}
    BY <2>3 DEF IInv, Consistent, RotationReady
  <2>5. z.sess = x.sess
    BY <2>3, <2>4 DEF TokensOf
  <2>6. z.sess \in z.held \/ session[z.sess] = "absent"
    BY <2>4 DEF IInv, Consistent, RotationReady, RequestShape, RowsLocked
  <2> QED BY <2>1, <2>5, <2>6 DEF IInv, Consistent, Apart
<1> QED BY <1>1, Invariant, PTL

(* Only a COMMIT changes the tables. *)
LEMMA OnlyCommitWrites ==
  ASSUME [Next]_vars
  PROVE  \/ \E c \in Clients : Commit(c)
         \/ UNCHANGED <<session, issued, used, revoked, succ>>
<1>1. ASSUME NEW c \in Clients, Begin(c)
      PROVE  UNCHANGED <<session, issued, used, revoked, succ>>
  BY <1>1 DEF Begin, BeginRefresh, BeginLogout, BeginLogoutAll, BeginLogin,
              BeginPassword, tables
<1>2. ASSUME NEW c \in Clients, Step(c), ~Commit(c)
      PROVE  UNCHANGED <<session, issued, used, revoked, succ>>
  BY <1>2 DEF Step, LockToken, LockSession, LockIdentity, InsertCredential,
              RevokeIdentity, StartEnding, FinishEnding, Rotate, RevokeToken,
              OpenSession, RevokeSession, EndSession, tables
<1>3. ASSUME NEW c \in Clients, Abort(c)
      PROVE  UNCHANGED <<session, issued, used, revoked, succ>>
  BY <1>3 DEF Abort, tables
<1>4. ASSUME NEW t \in Tokens, Expire(t)
      PROVE  UNCHANGED <<session, issued, used, revoked, succ>>
  BY <1>4 DEF Expire, tables
<1>5. CASE UNCHANGED vars
  BY <1>5 DEF vars
<1> QED BY <1>1, <1>2, <1>3, <1>4, <1>5 DEF Next

(***************************************************************************)
(* The first termination of a session is the one it keeps, whatever        *)
(* logouts, password changes and detected misuses race to end it.          *)
(***************************************************************************)
THEOREM TerminationFinal == Spec => TerminationIsFinal
<1>1. ASSUME IInv, [Next]_vars
      PROVE  \A s \in Sessions : Terminated(s) => session'[s] = session[s]
  <2>1. CASE UNCHANGED <<session, issued, used, revoked, succ>>
    BY <2>1
  <2>2. ASSUME NEW c \in Clients, Commit(c)
        PROVE  \A s \in Sessions : Terminated(s) => session'[s] = session[s]
    BY <1>1, <2>2, CommitCases
       DEF Rotates, Opens, Terminates, Terminated, Reasons, IInv, TypeOK
  <2> QED BY <1>1, <2>1, <2>2, OnlyCommitWrites
<1>2. IInv /\ [Next]_vars =>
        [\A s \in Sessions : Terminated(s) => session'[s] = session[s]]_vars
  BY <1>1
<1> QED BY <1>2, Invariant, PTL DEF Spec, TerminationIsFinal

(***************************************************************************)
(* After a detected misuse no token of the session is left active, and     *)
(* none is issued: the locks on the token and on the session keep every    *)
(* rotation of that session wholly before or wholly after it.              *)
(***************************************************************************)
THEOREM ReuseKills == Spec => []ReuseKillsSession
<1>1. Init => ReuseKillsSession
  BY DEF Init, ReuseKillsSession, Live
<1>2. ASSUME IInv, ReuseKillsSession, [Next]_vars
      PROVE  ReuseKillsSession'
  <2>1. CASE UNCHANGED <<session, issued, used, revoked, succ>>
    BY <1>2, <2>1 DEF ReuseKillsSession, Live
  <2>2. ASSUME NEW c \in Clients, Commit(c), NEW s \in Sessions,
               session'[s] = "TOKEN_REUSE", NEW t \in TokensOf(s), Live(t)'
        PROVE  FALSE
    <3> DEFINE x == tx[c]
    <3>1. CASE \E n \in Tokens : Rotates(c, n)
      BY <1>2, <2>2, <3>1
         DEF Rotates, ReuseKillsSession, Live, TokensOf, IInv, TypeOK
    <3>2. CASE \E n \in Tokens : Opens(c, n)
      BY <1>2, <2>2, <3>2
         DEF Opens, ReuseKillsSession, Live, TokensOf, IInv, TypeOK
    <3>3. CASE Terminates(c)
      <4>1. Live(t)
        BY <2>2, <3>3 DEF Terminates, Live
      <4>2. s \in x.ended /\ ReasonOf(x.op) = "TOKEN_REUSE"
        BY <1>2, <2>2, <3>3, <4>1 DEF Terminates, ReuseKillsSession
      <4>3. x.op = "refresh" /\ x.used = {}
        BY <3>3, <4>2 DEF ReasonOf, Terminates
      <4>4. x.sess = s
        BY <1>2, <4>2, <4>3 DEF IInv, Consistent, EndingReady
      <4>5. t \in revoked \cup x.revoked
        BY <1>2, <4>1, <4>2, <4>3, <4>4
           DEF IInv, Consistent, MisuseCovers, Live
      <4> QED BY <2>2, <3>3, <4>5 DEF Terminates, Live
    <3> QED BY <1>2, <2>2, <3>1, <3>2, <3>3, CommitCases
  <2> QED BY <1>2, <2>1, <2>2, OnlyCommitWrites
          DEF ReuseKillsSession, TokensOf
<1>3. IInv /\ ReuseKillsSession /\ UNCHANGED vars => ReuseKillsSession'
  BY DEF vars, ReuseKillsSession, Live
<1> QED BY <1>1, <1>2, Invariant, PTL DEF Spec

(***************************************************************************)
(* A session that is active has exactly one active refresh token: nothing  *)
(* short of its termination takes the holder's token away.                 *)
(***************************************************************************)
THEOREM ActiveHasToken == Spec => []ActiveSessionHasOneToken
<1> DEFINE Has == \A s \in Sessions : session[s] = "active" =>
                    \E t \in Tokens : SessionOf[t] = s /\ Live(t)
<1>1. Init => Has
  BY DEF Init
<1>2. ASSUME IInv, Has, [Next]_vars
      PROVE  Has'
  <2>1. CASE UNCHANGED <<session, issued, used, revoked, succ>>
    BY <1>2, <2>1 DEF Live
  <2>2. ASSUME NEW c \in Clients, Commit(c), NEW s \in Sessions,
               session'[s] = "active"
        PROVE  \E t \in Tokens : SessionOf[t] = s /\ Live(t)'
    <3> DEFINE x == tx[c]
    <3>1. CASE \E n \in Tokens : Rotates(c, n)
      <4>1. PICK n \in Tokens : Rotates(c, n)
        BY <3>1
      <4>2. CASE s = x.sess
        <5>1. SessionOf[n] = s /\ Live(n)'
          BY <1>2, <4>1, <4>2
             DEF Rotates, Live, IInv, Consistent, TablesConsistent
        <5> QED BY <5>1
      <4>3. CASE s # x.sess
        <5>1. PICK t \in Tokens : SessionOf[t] = s /\ Live(t)
          BY <1>2, <2>2, <4>1 DEF Rotates
        <5>2. Live(t)'
          BY <4>1, <4>3, <5>1 DEF Rotates, Live
        <5> QED BY <5>1, <5>2
      <4> QED BY <4>2, <4>3
    <3>2. CASE \E n \in Tokens : Opens(c, n)
      <4>1. PICK n \in Tokens : Opens(c, n)
        BY <3>2
      <4>2. CASE s = x.sess
        <5>1. SessionOf[n] = s /\ Live(n)'
          BY <1>2, <4>1, <4>2
             DEF Opens, Live, IInv, Consistent, TablesConsistent
        <5> QED BY <5>1
      <4>3. CASE s # x.sess
        <5>1. session[s] = "active"
          BY <1>2, <2>2, <4>1, <4>3 DEF Opens, IInv, TypeOK
        <5>2. PICK t \in Tokens : SessionOf[t] = s /\ Live(t)
          BY <1>2, <5>1
        <5>3. Live(t)'
          BY <4>1, <5>2 DEF Opens, Live
        <5> QED BY <5>2, <5>3
      <4> QED BY <4>2, <4>3
    <3>3. CASE Terminates(c)
      <4>1. session[s] = "active" /\ s \notin x.ended
        BY <2>2, <3>3 DEF Terminates, ReasonOf
      <4>2. PICK t \in Tokens : SessionOf[t] = s /\ Live(t)
        BY <1>2, <4>1
      <4>3. t \notin x.revoked
        BY <1>2, <2>2, <4>1, <4>2
           DEF IInv, Consistent, EndingReady, Commit, Terminated, Reasons
      <4>4. Live(t)'
        BY <3>3, <4>2, <4>3 DEF Terminates, Live
      <4> QED BY <4>2, <4>4
    <3> QED BY <1>2, <2>2, <3>1, <3>2, <3>3, CommitCases
  <2> QED BY <1>2, <2>1, <2>2, OnlyCommitWrites
<1>3. IInv /\ Has => ActiveSessionHasOneToken
  BY DEF IInv, Consistent, TablesConsistent, ActiveSessionHasOneToken, TokensOf
<1> HIDE DEF Has
<1> QED BY <1>1, <1>2, <1>3, Invariant, PTL DEF Spec

(***************************************************************************)
(* The tokens of a session form one chain of rotations: no token replaces  *)
(* two, and one alone, that of the login, replaces none.                   *)
(***************************************************************************)
THEOREM Lineage == Spec => []OneLineage
<1>1. Init => OneLineage
  BY DEF Init, OneLineage, FirstToken
<1>2. ASSUME IInv, OneLineage, [Next]_vars
      PROVE  OneLineage'
  <2>1. CASE UNCHANGED <<session, issued, used, revoked, succ>>
    BY <1>2, <2>1 DEF OneLineage, FirstToken
  <2>2. ASSUME NEW c \in Clients, Commit(c)
        PROVE  OneLineage'
    <3> DEFINE x == tx[c]
    <3>0. /\ succ \in [Tokens -> Tokens \cup {None}] /\ issued \subseteq Tokens
          /\ used \subseteq issued
          /\ \A t \in used : succ[t] \in issued
          /\ \A t \in Tokens : t \in used <=> succ[t] # None
          /\ \A t, u \in used : succ[t] = succ[u] => t = u
      BY <1>2 DEF IInv, TypeOK, Consistent, TablesConsistent, OneLineage
    <3>1. CASE \E n \in Tokens : Rotates(c, n)
      <4>1. PICK n \in Tokens : Rotates(c, n)
        BY <3>1
      <4>2. n # None
        OBVIOUS
      <4>3. \A t \in Tokens : t \in used' <=> succ'[t] # None
        BY <3>0, <4>1, <4>2 DEF Rotates
      <4>4. \A t, u \in used' : succ'[t] = succ'[u] => t = u
        BY <3>0, <4>1 DEF Rotates
      <4>5. \A t \in Tokens : FirstToken(t)' => FirstToken(t)
        <5> SUFFICES ASSUME NEW t \in Tokens, FirstToken(t)'
                     PROVE  FirstToken(t)
          OBVIOUS
        <5>1. succ'[x.tok] = n /\ x.tok \in Tokens
          BY <3>0, <4>1 DEF Rotates
        <5>2. t # n
          BY <5>1 DEF FirstToken
        <5>3. t \in issued
          BY <4>1, <5>2 DEF Rotates, FirstToken
        <5>4. \A v \in Tokens : succ[v] # t
          BY <3>0, <4>1 DEF Rotates, FirstToken
        <5> QED BY <5>3, <5>4 DEF FirstToken
      <4> QED BY <1>2, <4>3, <4>4, <4>5 DEF OneLineage
    <3>2. CASE \E n \in Tokens : Opens(c, n)
      <4>1. PICK n \in Tokens : Opens(c, n)
        BY <3>2
      <4>2. ASSUME NEW t \in issued PROVE SessionOf[t] # SessionOf[n]
        BY <1>2, <4>1 DEF Opens, IInv, Consistent, TablesConsistent
      <4>3. \A t \in Tokens : FirstToken(t)' => FirstToken(t) \/ t = n
        BY <4>1 DEF Opens, FirstToken
      <4>4. \A t, u \in Tokens :
              /\ FirstToken(t)' /\ FirstToken(u)' /\ SessionOf[t] = SessionOf[u]
              => t = u
        BY <1>2, <4>2, <4>3 DEF OneLineage, FirstToken
      <4> QED BY <3>0, <4>1, <4>4 DEF Opens, OneLineage
    <3>3. CASE Terminates(c)
      BY <1>2, <3>3 DEF Terminates, OneLineage, FirstToken
    <3> QED BY <1>2, <2>2, <3>1, <3>2, <3>3, CommitCases
  <2> QED BY <1>2, <2>1, <2>2, OnlyCommitWrites
<1> QED BY <1>1, <1>2, Invariant, PTL DEF Spec

(***************************************************************************)
(* A refresh token is exchanged at most once, and never after it was       *)
(* revoked, by any number of refreshes that present it at the same time.   *)
(***************************************************************************)
THEOREM SingleUse == Spec => ExchangedOnce
<1>1. ASSUME IInv, OneLineage, [Next]_vars, NEW t \in Tokens, succ'[t] # succ[t]
      PROVE  succ[t] = None /\ t \notin used \cup revoked
  <2>1. PICK c \in Clients : Commit(c)
    BY <1>1, OnlyCommitWrites
  <2>2. PICK n \in Tokens : Rotates(c, n)
    BY <1>1, <2>1, CommitCases DEF Opens, Terminates
  <2>3. t = tx[c].tok
    BY <1>1, <2>2 DEF Rotates, IInv, TypeOK
  <2> QED BY <1>1, <2>2, <2>3 DEF Rotates, OneLineage
<1>2. IInv /\ OneLineage /\ [Next]_vars =>
        [\A t \in Tokens : succ'[t] # succ[t] =>
                            succ[t] = None /\ t \notin used \cup revoked]_vars
  BY <1>1
<1> QED BY <1>2, Invariant, Lineage, PTL DEF Spec, ExchangedOnce

=============================================================================
