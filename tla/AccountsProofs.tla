---------------------------- MODULE AccountsProofs ----------------------------
(***************************************************************************)
(* The safety of Accounts, for any number of clients, identities,          *)
(* addresses and verifications, and that it implements AddressBook.        *)
(*                                                                         *)
(* IInv is inductive. A step that is not a COMMIT changes the record of    *)
(* one client only (LocalStep). A COMMIT registers, resends, confirms, or  *)
(* changes no row (CommitCases); it ends only rows its transaction holds   *)
(* and inserts only where no other transaction inserts, so the others keep *)
(* what they rely on (CommitOthers).                                       *)
(***************************************************************************)
EXTENDS Accounts, TLAPS

USE AccountsAssumption

IInv == TypeOK /\ Consistent

(* The conjuncts of Consistent about one client. *)
ClientOK(c) == RequestShape(c) /\ RowsReady(c) /\ TokenReady(c)

(* The rows, and what is known of them. *)
rows == <<identifier, verification, expired, mailed>>

(* What the invariant says of one client. *)
LEMMA TxType ==
  ASSUME IInv, NEW c \in Clients
  PROVE  /\ tx \in [Clients -> Transaction] /\ tx[c] \in Transaction
         /\ ClientOK(c)
         /\ \A d \in Clients : c # d => Apart(c, d) /\ Apart(d, c)
BY DEF IInv, TypeOK, Consistent, ClientOK

LEMMA NoTransactionType == NoTransaction \in Transaction
BY DEF NoTransaction, Transaction, Steps

(* A client without a transaction: nothing is claimed of it. *)
LEMMA IdleOK ==
  ASSUME NEW c \in Clients, tx'[c] = NoTransaction
  PROVE  /\ ClientOK(c)'
         /\ \A d \in Clients : Apart(c, d)' /\ Apart(d, c)'
BY DEF ClientOK, RequestShape, RowsReady, TokenReady, Apart, NoTransaction

LEMMA InitInv == Init => IInv
<1> SUFFICES ASSUME Init PROVE IInv
  OBVIOUS
<1>1. TypeOK
  BY NoTransactionType DEF Init, TypeOK
<1>2. TablesConsistent
  BY DEF Init, TablesConsistent, UnverifiedHasOneToken, MailedTokensExist
<1>3. ASSUME NEW c \in Clients PROVE ClientOK(c)
  BY DEF Init, ClientOK, RequestShape, RowsReady, TokenReady, NoTransaction
<1>4. ASSUME NEW c \in Clients, NEW d \in Clients PROVE Apart(c, d)
  BY DEF Init, Apart, NoTransaction
<1> QED BY <1>1, <1>2, <1>3, <1>4 DEF IInv, Consistent, ClientOK

(* A step that leaves identifiers, verifications and mails as they are ... *)
LEMMA TablesStay ==
  ASSUME IInv, identifier' = identifier, verification' = verification,
         mailed' = mailed
  PROVE  /\ TablesConsistent'
         /\ \A d \in Clients : tx'[d] = tx[d] => ClientOK(d)'
<1>1. TablesConsistent'
  BY DEF IInv, Consistent, TablesConsistent, UnverifiedHasOneToken,
         MailedTokensExist, Active, TokensFor
<1>2. ASSUME NEW d \in Clients, tx'[d] = tx[d] PROVE ClientOK(d)'
  <2>1. ClientOK(d)
    BY TxType
  <2>2. RequestShape(d)'
    BY <1>2, <2>1 DEF ClientOK, RequestShape
  <2>3. RowsReady(d)'
    BY <1>2, <2>1 DEF ClientOK, RowsReady, Active
  <2>4. TokenReady(d)'
    BY <1>2, <2>1 DEF ClientOK, TokenReady, StillActive, Active
  <2> QED BY <2>2, <2>3, <2>4 DEF ClientOK
<1> QED BY <1>1, <1>2

(* ... and changes the record of client c alone. *)
LEMMA LocalStep ==
  ASSUME IInv, NEW c \in Clients, NEW y \in Transaction,
         tx' = [tx EXCEPT ![c] = y], UNCHANGED rows,
         ClientOK(c)',
         \A d \in Clients \ {c} : Apart(c, d)' /\ Apart(d, c)'
  PROVE  IInv'
<1>1. tx' \in [Clients -> Transaction] /\ \A d \in Clients \ {c} : tx'[d] = tx[d]
  BY DEF IInv, TypeOK
<1>2. /\ identifier' = identifier /\ verification' = verification
      /\ expired' = expired /\ mailed' = mailed
  BY DEF rows
<1>3. TypeOK'
  BY <1>1, <1>2 DEF IInv, TypeOK
<1>4. TablesConsistent' /\ \A d \in Clients : ClientOK(d)'
  BY <1>1, <1>2, TablesStay
<1>5. ASSUME NEW d \in Clients, NEW e \in Clients, d # e PROVE Apart(d, e)'
  <2>1. CASE d = c
    BY <1>5, <2>1
  <2>2. CASE e = c
    BY <1>5, <2>2
  <2>3. CASE d # c /\ e # c
    <3>1. tx'[d] = tx[d] /\ tx'[e] = tx[e] /\ Apart(d, e)
      BY <1>1, <1>5, <2>3, TxType
    <3> QED BY <3>1 DEF Apart
  <2> QED BY <2>1, <2>2, <2>3
<1> QED BY <1>3, <1>4, <1>5 DEF IInv, Consistent, ClientOK

(* A transaction is over without a commit. *)
LEMMA ClearInv ==
  ASSUME IInv, NEW c \in Clients, tx' = [tx EXCEPT ![c] = NoTransaction],
         UNCHANGED rows
  PROVE  IInv'
<1>1. tx'[c] = NoTransaction
  BY TxType
<1> QED BY <1>1, IdleOK, NoTransactionType, LocalStep

(* A token's 24 hours go by. *)
LEMMA ExpireInv ==
  ASSUME IInv, NEW v \in Verifications, Expire(v)
  PROVE  IInv'
<1>1. /\ identifier' = identifier /\ verification' = verification
      /\ mailed' = mailed /\ tx' = tx /\ expired' = expired \cup {v}
  BY DEF Expire
<1>2. TypeOK'
  BY <1>1 DEF IInv, TypeOK
<1>3. TablesConsistent' /\ \A d \in Clients : ClientOK(d)'
  BY <1>1, TablesStay
<1>4. \A d, e \in Clients : d # e => Apart(d, e)'
  BY <1>1 DEF IInv, Consistent, Apart
<1> QED BY <1>2, <1>3, <1>4 DEF IInv, Consistent, ClientOK

-----------------------------------------------------------------------------
(* register *)

LEMMA BeginRegisterInv ==
  ASSUME IInv, NEW c \in Clients, NEW i \in Identities, BeginRegister(c, i)
  PROVE  IInv'
<1> DEFINE y == [NoTransaction EXCEPT !.at = "identifier", !.op = "register",
                                      !.who = i]
<1>1. y \in Transaction
  BY DEF NoTransaction, Transaction, Steps
<1>2. tx' = [tx EXCEPT ![c] = y] /\ UNCHANGED rows
  BY DEF BeginRegister, rows
<1>3. tx'[c] = y /\ \A d \in Clients \ {c} : tx'[d] = tx[d]
  BY <1>2, TxType
<1>4. ClientOK(c)'
  BY <1>3 DEF ClientOK, RequestShape, RowsReady, TokenReady, NoTransaction
<1>5. ASSUME NEW d \in Clients \ {c} PROVE Apart(c, d)' /\ Apart(d, c)'
  <2>1. ~(tx[d].op = "register" /\ tx[d].who = i)
    BY DEF BeginRegister
  <2> QED BY <2>1, <1>3 DEF Apart, NoTransaction
<1> QED BY <1>1, <1>2, <1>4, <1>5, LocalStep

(* The index on addresses lets the row in: none like it, committed or not. *)
LEMMA InsertIdentifierInv ==
  ASSUME IInv, NEW c \in Clients, NEW v \in Verifications, InsertIdentifier(c, v)
  PROVE  IInv'
<1> DEFINE x == tx[c]
           i == x.who
           y == [x EXCEPT !.at = "commit", !.inserted = {i}, !.minted = {v}]
<1>1. x \in Transaction /\ x.at = "identifier" /\ ClientOK(c)
  BY TxType DEF InsertIdentifier
<1>2. x.op = "register" /\ i \in Identities
  BY <1>1 DEF ClientOK, RequestShape, Transaction
<1>3. tx' = [tx EXCEPT ![c] = y] /\ UNCHANGED rows
  BY TxType DEF InsertIdentifier, rows, Transaction
<1>4. /\ y \in Transaction /\ y.at = "commit" /\ y.op = x.op /\ y.who = i
      /\ y.tok = x.tok /\ y.todo = x.todo /\ y.held = x.held
      /\ y.inserted = {i} /\ y.minted = {v} /\ y.used = x.used
      /\ y.invalidated = x.invalidated /\ y.verified = x.verified
  BY <1>1, <1>2 DEF Transaction, Steps
<1>5. tx'[c] = y /\ \A d \in Clients \ {c} : tx'[d] = tx[d]
  BY <1>3, TxType
<1>6. identifier' = identifier /\ verification' = verification
  BY <1>3 DEF rows
<1>7. /\ v \in TokensFor(i) /\ verification[v] = "absent"
      /\ \A j \in SameEmail(i) : identifier[j] = "absent"
      /\ \A d \in Clients \ {c} : tx[d].inserted \cap SameEmail(i) = {}
  BY DEF InsertIdentifier, FreshTokens, EmailTaken, EmailDecided, Others
<1> HIDE DEF y
<1>8. ClientOK(c)'
  <2>1. RequestShape(c)'
    BY <1>1, <1>2, <1>4, <1>5, <1>7 DEF ClientOK, RequestShape
  <2>2. RowsReady(c)'
    BY <1>1, <1>2, <1>4, <1>5, <1>6, <1>7
       DEF ClientOK, RowsReady, RequestShape, Active
  <2>3. TokenReady(c)'
    BY <1>2, <1>4, <1>5 DEF TokenReady
  <2> QED BY <2>1, <2>2, <2>3 DEF ClientOK
<1>9. ASSUME NEW d \in Clients \ {c} PROVE Apart(c, d)' /\ Apart(d, c)'
  <2> DEFINE z == tx[d]
  <2>1. Apart(c, d) /\ Apart(d, c) /\ z \in Transaction /\ ClientOK(d)
    BY TxType
  <2>2. \A j \in z.inserted : EmailOf[j] # EmailOf[i]
    BY <1>7, <2>1 DEF SameEmail, Transaction
  <2>3. \A w \in z.minted : IdentityOf[w] # i
    <3>1. SUFFICES ASSUME NEW w \in z.minted, IdentityOf[w] = i PROVE FALSE
      OBVIOUS
    <3>2. i \in SameEmail(i) /\ identifier[i] = "absent"
      BY <1>2, <1>7 DEF SameEmail
    <3>3. z.who = i
      BY <2>1, <3>1 DEF ClientOK, RequestShape, TokensFor, NoTransaction,
                        Transaction
    <3>4. CASE z.op = "register"
      BY <1>2, <2>1, <3>3, <3>4 DEF Apart
    <3>5. CASE z.op # "register"
      BY <2>1, <3>1, <3>2, <3>3, <3>5
         DEF ClientOK, RequestShape, TokenReady, NoTransaction, Transaction
    <3> QED BY <3>4, <3>5
  <2> QED BY <1>4, <1>5, <1>7, <2>1, <2>2, <2>3 DEF Apart, TokensFor
<1> QED BY <1>3, <1>4, <1>8, <1>9, LocalStep

-----------------------------------------------------------------------------
(* resend *)

LEMMA BeginResendInv ==
  ASSUME IInv, NEW c \in Clients, NEW i \in Identities, BeginResend(c, i)
  PROVE  IInv'
<1> DEFINE y == [NoTransaction EXCEPT !.at = "pick", !.op = "resend", !.who = i]
<1>1. y \in Transaction
  BY DEF NoTransaction, Transaction, Steps
<1>2. tx' = [tx EXCEPT ![c] = y] /\ UNCHANGED rows /\ identifier[i] = "unverified"
  BY DEF BeginResend, rows
<1>3. tx'[c] = y /\ identifier' = identifier
  BY <1>2, TxType DEF rows
<1>4. ClientOK(c)'
  <2>1. RequestShape(c)'
    BY <1>3 DEF RequestShape, NoTransaction
  <2>2. RowsReady(c)'
    BY <1>3 DEF RowsReady, NoTransaction
  <2>3. TokenReady(c)'
    <3>1. y.op = "resend" /\ y.at = "pick" /\ y.who = i
      BY DEF NoTransaction
    <3> QED BY <1>2, <1>3, <3>1 DEF TokenReady
  <2> QED BY <2>1, <2>2, <2>3 DEF ClientOK
<1>5. ASSUME NEW d \in Clients \ {c} PROVE Apart(c, d)' /\ Apart(d, c)'
  BY <1>3 DEF Apart, NoTransaction
<1> QED BY <1>1, <1>2, <1>4, <1>5, LocalStep

LEMMA PickActiveInv ==
  ASSUME IInv, NEW c \in Clients, PickActive(c)
  PROVE  IInv'
<1> DEFINE x == tx[c]
           T == {v \in TokensFor(x.who) : Active(v)}
           y == [x EXCEPT !.at = "invalidate", !.todo = T]
<1>1. x \in Transaction /\ x.at = "pick" /\ ClientOK(c)
  BY TxType DEF PickActive
<1>2. x.op = "resend"
  BY <1>1 DEF ClientOK, RequestShape, Transaction
<1>3. tx' = [tx EXCEPT ![c] = y] /\ UNCHANGED rows
  BY TxType DEF PickActive, rows, Transaction
<1>4. /\ y \in Transaction /\ y.at = "invalidate" /\ y.op = x.op
      /\ y.who = x.who /\ y.tok = x.tok /\ y.todo = T /\ y.held = x.held
      /\ y.inserted = x.inserted /\ y.minted = x.minted /\ y.used = x.used
      /\ y.invalidated = x.invalidated /\ y.verified = x.verified
  BY <1>1 DEF Transaction, Steps, TokensFor
<1>5. tx'[c] = y /\ \A d \in Clients \ {c} : tx'[d] = tx[d]
  BY <1>3, TxType
<1>6. identifier' = identifier /\ verification' = verification
  BY <1>3 DEF rows
<1> HIDE DEF y
<1>7. ClientOK(c)'
  <2>1. RequestShape(c)'
    BY <1>1, <1>2, <1>4, <1>5 DEF ClientOK, RequestShape
  <2>2. RowsReady(c)'
    BY <1>1, <1>4, <1>5, <1>6 DEF ClientOK, RowsReady, Active
  <2>3. TokenReady(c)'
    BY <1>1, <1>2, <1>4, <1>5, <1>6 DEF ClientOK, TokenReady
  <2> QED BY <2>1, <2>2, <2>3 DEF ClientOK
<1>8. ASSUME NEW d \in Clients \ {c} PROVE Apart(c, d)' /\ Apart(d, c)'
  <2>1. Apart(c, d) /\ Apart(d, c)
    BY TxType
  <2> QED BY <2>1, <1>4, <1>5 DEF Apart
<1> QED BY <1>3, <1>4, <1>7, <1>8, LocalStep

(* A row is locked, and marked if it is still active. *)
LEMMA InvalidateInv ==
  ASSUME IInv, NEW c \in Clients, NEW v \in Verifications, Invalidate(c, v)
  PROVE  IInv'
<1> DEFINE x == tx[c]
           I == IF Active(v) THEN x.invalidated \cup {v} ELSE x.invalidated
           y == [x EXCEPT !.todo = @ \ {v}, !.held = @ \cup {v},
                          !.invalidated = I]
<1>1. x \in Transaction /\ x.at = "invalidate" /\ ClientOK(c) /\ v \in x.todo
  BY TxType DEF Invalidate
<1>2. x.op = "resend"
  BY <1>1 DEF ClientOK, RequestShape, Transaction
<1>3. tx' = [tx EXCEPT ![c] = y] /\ UNCHANGED rows
  BY TxType DEF Invalidate, rows, Transaction
<1>4. /\ y \in Transaction /\ y.at = x.at /\ y.op = x.op /\ y.who = x.who
      /\ y.tok = x.tok /\ y.todo = x.todo \ {v} /\ y.held = x.held \cup {v}
      /\ y.inserted = x.inserted /\ y.minted = x.minted /\ y.used = x.used
      /\ y.invalidated = I /\ y.verified = x.verified
  BY <1>1 DEF Transaction, Steps
<1>5. tx'[c] = y /\ \A d \in Clients \ {c} : tx'[d] = tx[d]
  BY <1>3, TxType
<1>6. /\ identifier' = identifier /\ verification' = verification
      /\ \A w \in I : w \in x.invalidated \/ (w = v /\ Active(v))
      /\ \A d \in Clients \ {c} : v \notin tx[d].held
  BY <1>3 DEF rows, Invalidate, Free, Others
<1> HIDE DEF y, I
<1>7. ClientOK(c)'
  <2>1. RequestShape(c)'
    BY <1>1, <1>2, <1>4, <1>5 DEF ClientOK, RequestShape, NoTransaction
  <2>2. RowsReady(c)'
    BY <1>1, <1>4, <1>5, <1>6 DEF ClientOK, RowsReady, Active
  <2>3. TokenReady(c)'
    BY <1>1, <1>2, <1>4, <1>5, <1>6 DEF ClientOK, TokenReady
  <2> QED BY <2>1, <2>2, <2>3 DEF ClientOK
<1>8. ASSUME NEW d \in Clients \ {c} PROVE Apart(c, d)' /\ Apart(d, c)'
  <2>1. Apart(c, d) /\ Apart(d, c)
    BY TxType
  <2> QED BY <2>1, <1>4, <1>5, <1>6 DEF Apart
<1> QED BY <1>3, <1>4, <1>7, <1>8, LocalStep

(* The index lets the new token in: none is left, and nobody inserts one. *)
LEMMA InsertVerificationInv ==
  ASSUME IInv, NEW c \in Clients, NEW v \in Verifications,
         InsertVerification(c, v)
  PROVE  IInv'
<1> DEFINE x == tx[c]
           y == [x EXCEPT !.at = "commit", !.minted = {v}]
<1>1. x \in Transaction /\ x.at = "invalidate" /\ ClientOK(c)
  BY TxType DEF InsertVerification
<1>2. x.op = "resend"
  BY <1>1 DEF ClientOK, RequestShape, Transaction
<1>3. tx' = [tx EXCEPT ![c] = y] /\ UNCHANGED rows
  BY TxType DEF InsertVerification, rows, Transaction
<1>4. /\ y \in Transaction /\ y.at = "commit" /\ y.op = x.op /\ y.who = x.who
      /\ y.tok = x.tok /\ y.todo = x.todo /\ y.held = x.held
      /\ y.inserted = x.inserted /\ y.minted = {v} /\ y.used = x.used
      /\ y.invalidated = x.invalidated /\ y.verified = x.verified
  BY <1>1 DEF Transaction, Steps
<1>5. tx'[c] = y /\ \A d \in Clients \ {c} : tx'[d] = tx[d]
  BY <1>3, TxType
<1>6. identifier' = identifier /\ verification' = verification
  BY <1>3 DEF rows
<1>7. /\ v \in TokensFor(x.who) /\ verification[v] = "absent"
      /\ StillActive(c) = {}
      /\ \A d \in Clients \ {c} : tx[d].minted \cap TokensFor(x.who) = {}
  BY DEF InsertVerification, FreshTokens, TokenDecided, Others
<1> HIDE DEF y
<1>8. ClientOK(c)'
  <2>1. RequestShape(c)'
    BY <1>1, <1>2, <1>4, <1>5, <1>7 DEF ClientOK, RequestShape
  <2>2. RowsReady(c)'
    BY <1>1, <1>4, <1>5, <1>6, <1>7 DEF ClientOK, RowsReady, Active
  <2>3. TokenReady(c)'
    BY <1>1, <1>2, <1>4, <1>5, <1>6, <1>7
       DEF ClientOK, TokenReady, StillActive, Active
  <2> QED BY <2>1, <2>2, <2>3 DEF ClientOK
<1>9. ASSUME NEW d \in Clients \ {c} PROVE Apart(c, d)' /\ Apart(d, c)'
  <2>1. Apart(c, d) /\ Apart(d, c) /\ tx[d] \in Transaction
    BY TxType
  <2>2. \A w \in tx[d].minted : IdentityOf[w] # IdentityOf[v]
    BY <1>7, <2>1 DEF TokensFor, Transaction
  <2> QED BY <2>1, <2>2, <1>4, <1>5 DEF Apart
<1> QED BY <1>3, <1>4, <1>8, <1>9, LocalStep

-----------------------------------------------------------------------------
(* confirm *)

(* A token that was mailed has a row, and the row an identity. *)
LEMMA BeginConfirmInv ==
  ASSUME IInv, NEW c \in Clients, NEW v \in Verifications, BeginConfirm(c, v)
  PROVE  IInv'
<1> DEFINE y == [NoTransaction EXCEPT !.at = "lock", !.op = "confirm",
                                      !.tok = v, !.who = IdentityOf[v]]
<1>1. y \in Transaction
  BY DEF NoTransaction, Transaction, Steps
<1>2. tx' = [tx EXCEPT ![c] = y] /\ UNCHANGED rows
  BY DEF BeginConfirm, rows
<1>3. identifier[IdentityOf[v]] # "absent"
  BY DEF BeginConfirm, IInv, Consistent, TablesConsistent, MailedTokensExist
<1>4. tx'[c] = y /\ identifier' = identifier
  BY <1>2, TxType DEF rows
<1>5. ClientOK(c)'
  <2>1. RequestShape(c)'
    BY <1>4 DEF RequestShape, NoTransaction
  <2>2. RowsReady(c)' /\ TokenReady(c)'
    BY <1>3, <1>4 DEF RowsReady, TokenReady, NoTransaction
  <2> QED BY <2>1, <2>2 DEF ClientOK
<1>6. ASSUME NEW d \in Clients \ {c} PROVE Apart(c, d)' /\ Apart(d, c)'
  BY <1>4 DEF Apart, NoTransaction
<1> QED BY <1>1, <1>2, <1>5, <1>6, LocalStep

(* The row is locked; it is active if it is marked used. *)
LEMMA LockVerificationInv ==
  ASSUME IInv, NEW c \in Clients, LockVerification(c)
  PROVE  IInv'
<1> DEFINE x == tx[c]
           v == x.tok
           good == Active(v) /\ v \notin expired
           A == IF good THEN "verify" ELSE "commit"
           U == IF good THEN {v} ELSE {}
           y == [x EXCEPT !.at = A, !.held = {v}, !.used = U]
<1>1. x \in Transaction /\ x.at = "lock" /\ ClientOK(c)
  BY TxType DEF LockVerification
<1>2. /\ x.op = "confirm" /\ v \in Verifications /\ x.held = {}
      /\ x.verified = {} /\ x.invalidated = {} /\ x.minted = {}
      /\ x.inserted = {}
  BY <1>1 DEF ClientOK, RequestShape, Transaction
<1>3. tx' = [tx EXCEPT ![c] = y] /\ UNCHANGED rows
  BY TxType DEF LockVerification, rows, Transaction
<1>4. /\ y \in Transaction /\ y.at = A /\ y.op = x.op /\ y.who = x.who
      /\ y.tok = v /\ y.todo = x.todo /\ y.held = {v}
      /\ y.inserted = x.inserted /\ y.minted = x.minted /\ y.used = U
      /\ y.invalidated = x.invalidated /\ y.verified = x.verified
  BY <1>1, <1>2 DEF Transaction, Steps
<1>5. tx'[c] = y /\ \A d \in Clients \ {c} : tx'[d] = tx[d]
  BY <1>3, TxType
<1>6. /\ identifier' = identifier /\ verification' = verification
      /\ \A d \in Clients \ {c} : v \notin tx[d].held
  BY <1>3 DEF rows, LockVerification, Free, Others
<1>7. (A = "verify" /\ U = {v} /\ Active(v)) \/ (A = "commit" /\ U = {})
  OBVIOUS
<1> HIDE DEF y, A, U
<1>8. ClientOK(c)'
  <2>1. RequestShape(c)'
    BY <1>1, <1>2, <1>4, <1>5, <1>7 DEF ClientOK, RequestShape
  <2>2. RowsReady(c)'
    BY <1>2, <1>4, <1>5, <1>6, <1>7 DEF RowsReady, Active
  <2>3. TokenReady(c)'
    BY <1>1, <1>2, <1>4, <1>5, <1>6, <1>7 DEF ClientOK, TokenReady
  <2> QED BY <2>1, <2>2, <2>3 DEF ClientOK
<1>9. ASSUME NEW d \in Clients \ {c} PROVE Apart(c, d)' /\ Apart(d, c)'
  BY <1>2, <1>4, <1>5, <1>6 DEF Apart
<1> QED BY <1>3, <1>4, <1>8, <1>9, LocalStep

(* The identity is verified already, or its row is locked and marked. *)
LEMMA MarkVerifiedInv ==
  ASSUME IInv, NEW c \in Clients, MarkVerified(c)
  PROVE  IInv'
<1> DEFINE x == tx[c]
           i == x.who
           D == identifier[i] = "verified"
           H == IF D THEN x.held ELSE x.held \cup {i}
           W == IF D THEN {} ELSE {i}
           y == [x EXCEPT !.at = "commit", !.held = H, !.verified = W]
<1>1. x \in Transaction /\ x.at = "verify" /\ ClientOK(c)
  BY TxType DEF MarkVerified
<1>2. /\ x.op = "confirm" /\ i \in Identities /\ x.tok \in Verifications
      /\ x.used = {x.tok} /\ x.verified = {} /\ x.invalidated = {}
      /\ x.minted = {} /\ x.inserted = {} /\ i = IdentityOf[x.tok]
  BY <1>1 DEF ClientOK, RequestShape, Transaction
<1>3. tx' = [tx EXCEPT ![c] = y] /\ UNCHANGED rows
  <2>1. tx \in [Clients -> Transaction] /\ UNCHANGED rows
    BY TxType DEF MarkVerified, rows
  <2>2. CASE D
    <3>1. y = [x EXCEPT !.at = "commit"]
      BY <1>1, <1>2, <2>2 DEF Transaction
    <3>2. tx' = [tx EXCEPT ![c].at = "commit"]
      BY <2>2 DEF MarkVerified
    <3> QED BY <2>1, <3>1, <3>2
  <2>3. CASE ~D
    <3>1. H = x.held \cup {i} /\ W = {i}
      BY <2>3
    <3>2. tx' = [tx EXCEPT ![c].at = "commit", ![c].held = x.held \cup {i},
                           ![c].verified = {i}]
      BY <2>1, <2>3 DEF MarkVerified
    <3>3. y = [x EXCEPT !.at = "commit", !.held = x.held \cup {i},
                        !.verified = {i}]
      BY <3>1
    <3> QED BY <2>1, <3>2, <3>3
  <2> QED BY <2>2, <2>3
<1>4. /\ y \in Transaction /\ y.at = "commit" /\ y.op = x.op /\ y.who = i
      /\ y.tok = x.tok /\ y.todo = x.todo /\ y.held = H
      /\ y.inserted = x.inserted /\ y.minted = x.minted /\ y.used = x.used
      /\ y.invalidated = x.invalidated /\ y.verified = W
  BY <1>1, <1>2 DEF Transaction, Steps
<1>5. tx'[c] = y /\ \A d \in Clients \ {c} : tx'[d] = tx[d]
  BY <1>3, TxType
<1>6. identifier' = identifier /\ verification' = verification
  BY <1>3 DEF rows
<1>7. /\ W = {i} \/ (W = {} /\ identifier[i] = "verified")
      /\ x.held \subseteq H
      /\ \A h \in H : h \in x.held \/ \A d \in Clients \ {c} : h \notin tx[d].held
  BY DEF MarkVerified, Free, Others
<1> HIDE DEF y, W, H
<1>8. ClientOK(c)'
  <2>1. RequestShape(c)'
    BY <1>1, <1>2, <1>4, <1>5, <1>7 DEF ClientOK, RequestShape
  <2>2. RowsReady(c)'
    BY <1>1, <1>2, <1>4, <1>5, <1>6, <1>7 DEF ClientOK, RowsReady, Active
  <2>3. TokenReady(c)'
    BY <1>1, <1>2, <1>4, <1>5, <1>6, <1>7 DEF ClientOK, TokenReady
  <2> QED BY <2>1, <2>2, <2>3 DEF ClientOK
<1>9. ASSUME NEW d \in Clients \ {c} PROVE Apart(c, d)' /\ Apart(d, c)'
  <2>1. Apart(c, d)
    BY TxType
  <2> QED BY <2>1, <1>2, <1>4, <1>5, <1>7 DEF Apart
<1> QED BY <1>3, <1>4, <1>8, <1>9, LocalStep

-----------------------------------------------------------------------------
(* What a commit does. It registers identity i with token v, where address *)
(* and identity were new ...                                               *)
Registers(c, i, v) ==
  /\ tx[c].op = "register" /\ tx[c].inserted = {i} /\ tx[c].minted = {v}
  /\ IdentityOf[v] = i /\ verification[v] = "absent"
  /\ \A j \in SameEmail(i) : identifier[j] = "absent"
  /\ identifier' = [identifier EXCEPT ![i] = "unverified"]
  /\ verification' = [verification EXCEPT ![v] = "active"]

(* ... or replaces every active token of identity i by v ... *)
Resends(c, i, v) ==
  /\ tx[c].op = "resend" /\ tx[c].who = i /\ tx[c].minted = {v}
  /\ IdentityOf[v] = i /\ verification[v] = "absent"
  /\ identifier[i] # "absent"
  /\ \A w \in TokensFor(i) : Active(w) => w \in tx[c].held
  /\ identifier' = identifier
  /\ verification' =
       [w \in Verifications |->
          IF w = v THEN "active"
          ELSE IF w \in TokensFor(i) /\ Active(w) THEN "invalidated"
               ELSE verification[w]]

(* ... or uses the active token v, and its identity is verified ... *)
Confirms(c, v) ==
  /\ tx[c].op = "confirm" /\ tx[c].minted = {} /\ v \in tx[c].held /\ Active(v)
  /\ identifier[IdentityOf[v]] # "absent"
  /\ identifier' = [identifier EXCEPT ![IdentityOf[v]] = "verified"]
  /\ verification' = [verification EXCEPT ![v] = "used"]

(* ... or has found a token that is not good. *)
Refuses(c) ==
  /\ tx[c].minted = {}
  /\ identifier' = identifier /\ verification' = verification

LEMMA CommitCases ==
  ASSUME IInv, NEW c \in Clients, Commit(c)
  PROVE  \/ \E i \in Identities, v \in Verifications :
              Registers(c, i, v) \/ Resends(c, i, v)
         \/ \E v \in Verifications : Confirms(c, v)
         \/ Refuses(c)
<1> DEFINE x == tx[c]
<1>1. /\ x \in Transaction /\ x.at = "commit" /\ ClientOK(c)
      /\ identifier \in [Identities -> {"absent", "unverified", "verified"}]
      /\ verification \in
           [Verifications -> {"absent", "active", "used", "invalidated"}]
  BY TxType DEF Commit, IInv, TypeOK
<1>2. /\ identifier' = [i \in Identities |->
                          IF i \in x.verified THEN "verified"
                          ELSE IF i \in x.inserted THEN "unverified"
                          ELSE identifier[i]]
      /\ verification' = [v \in Verifications |->
                            IF v \in x.minted THEN "active"
                            ELSE IF v \in x.used THEN "used"
                            ELSE IF v \in x.invalidated THEN "invalidated"
                            ELSE verification[v]]
  BY DEF Commit
<1>3. CASE x.op = "register"
  <2>1. /\ x.who \in Identities /\ x.inserted = {x.who} /\ x.used = {}
        /\ x.invalidated = {} /\ x.verified = {}
    BY <1>1, <1>3 DEF ClientOK, RequestShape, Transaction
  <2>2. PICK v \in Verifications : IdentityOf[v] = x.who /\ x.minted = {v}
    BY <1>1, <1>3 DEF ClientOK, RequestShape, TokensFor
  <2>3. /\ verification[v] = "absent"
        /\ \A j \in SameEmail(x.who) : identifier[j] = "absent"
    BY <1>1, <2>1, <2>2 DEF ClientOK, RowsReady
  <2>4. identifier' = [identifier EXCEPT ![x.who] = "unverified"]
    BY <1>1, <1>2, <2>1
  <2>5. verification' = [verification EXCEPT ![v] = "active"]
    BY <1>1, <1>2, <2>1, <2>2
  <2>6. PICK i \in Identities : i = x.who
    BY <2>1
  <2> QED BY <1>3, <2>1, <2>2, <2>3, <2>4, <2>5, <2>6 DEF Registers
<1>4. CASE x.op = "resend"
  <2>1. /\ x.who \in Identities /\ x.inserted = {} /\ x.used = {}
        /\ x.verified = {} /\ x.held \subseteq TokensFor(x.who)
        /\ identifier[x.who] # "absent"
    BY <1>1, <1>4 DEF ClientOK, RequestShape, TokenReady, Transaction
  <2>2. PICK v \in Verifications : IdentityOf[v] = x.who /\ x.minted = {v}
    BY <1>1, <1>4 DEF ClientOK, RequestShape, TokensFor
  <2>3. /\ verification[v] = "absent"
        /\ \A w \in x.invalidated : Active(w) /\ w \in x.held
    BY <1>1, <2>2 DEF ClientOK, RowsReady
  <2>4. \A w \in TokensFor(x.who) : Active(w) => w \in x.invalidated
    BY <1>1, <1>4 DEF ClientOK, TokenReady, StillActive
  <2>5. identifier' = identifier
    BY <1>1, <1>2, <2>1
  <2>6. ASSUME NEW w \in Verifications
        PROVE  w \in x.invalidated <=> w \in TokensFor(x.who) /\ Active(w)
    BY <2>1, <2>3, <2>4
  <2>7. verification' =
          [w \in Verifications |->
             IF w = v THEN "active"
             ELSE IF w \in TokensFor(x.who) /\ Active(w) THEN "invalidated"
                  ELSE verification[w]]
    BY <1>2, <2>1, <2>2, <2>6
  <2>8. PICK i \in Identities : i = x.who
    BY <2>1
  <2> QED BY <1>4, <2>1, <2>2, <2>3, <2>4, <2>5, <2>7, <2>8 DEF Resends
<1>5. CASE x.op = "confirm"
  <2>1. /\ x.who = IdentityOf[x.tok] /\ x.tok \in Verifications
        /\ x.inserted = {} /\ x.minted = {} /\ x.invalidated = {}
        /\ x.used \in {{}, {x.tok}} /\ (x.used = {} => x.verified = {})
        /\ x.verified \subseteq {x.who}
        /\ identifier[x.who] # "absent"
    BY <1>1, <1>5 DEF ClientOK, RequestShape, TokenReady, Transaction
  <2>2. CASE x.used = {}
    <3>1. identifier' = identifier /\ verification' = verification
      BY <1>1, <1>2, <2>1, <2>2
    <3> QED BY <2>1, <3>1 DEF Refuses
  <2>3. CASE x.used = {x.tok}
    <3>1. x.tok \in x.held /\ Active(x.tok)
      BY <1>1, <2>3 DEF ClientOK, RowsReady
    <3>2. x.verified = {x.who} \/ identifier[x.who] = "verified"
      BY <1>1, <1>5, <2>3 DEF ClientOK, TokenReady
    <3>3. identifier' = [identifier EXCEPT ![x.who] = "verified"]
      <4>1. ASSUME NEW i \in Identities
            PROVE  identifier'[i] = IF i = x.who THEN "verified"
                                    ELSE identifier[i]
        BY <1>2, <2>1, <3>2
      <4> QED BY <1>1, <1>2, <4>1
    <3>4. verification' = [verification EXCEPT ![x.tok] = "used"]
      BY <1>1, <1>2, <2>1, <2>3
    <3>5. PICK v \in Verifications : v = x.tok
      BY <2>1
    <3> QED BY <1>5, <2>1, <3>1, <3>3, <3>4, <3>5 DEF Confirms
  <2> QED BY <2>1, <2>2, <2>3
<1> QED BY <1>1, <1>3, <1>4, <1>5 DEF ClientOK, RequestShape, Transaction

(* The rows a commit inserts and ends: no other transaction has any of     *)
(* them, or inserts for the same identity or address.                      *)
LEMMA CommitTables ==
  ASSUME IInv, NEW c \in Clients, Commit(c)
  PROVE  /\ TypeOK' /\ TablesConsistent'
         /\ tx'[c] = NoTransaction /\ \A d \in Clients \ {c} : tx'[d] = tx[d]
<1>1. /\ tx' = [tx EXCEPT ![c] = NoTransaction] /\ expired' = expired
      /\ mailed' \in {mailed, mailed \cup tx[c].minted}
  BY DEF Commit, AfterMailing
<1>2. /\ tx' \in [Clients -> Transaction]
      /\ tx'[c] = NoTransaction /\ \A d \in Clients \ {c} : tx'[d] = tx[d]
  BY <1>1, TxType, NoTransactionType
<1>3. /\ identifier \in [Identities -> {"absent", "unverified", "verified"}]
      /\ verification \in
           [Verifications -> {"absent", "active", "used", "invalidated"}]
      /\ expired \subseteq Verifications /\ mailed \subseteq Verifications
  BY DEF IInv, TypeOK
<1>4. /\ UnverifiedHasOneToken /\ MailedTokensExist
      /\ \A v \in Verifications :
           verification[v] # "absent" => identifier[IdentityOf[v]] # "absent"
  BY DEF IInv, Consistent, TablesConsistent
<1>5. ASSUME NEW i \in Identities, NEW v \in Verifications, Registers(c, i, v)
      PROVE  TypeOK' /\ TablesConsistent'
  <2>1. /\ mailed' \subseteq mailed \cup {v} /\ IdentityOf[v] = i
        /\ identifier[i] = "absent"
        /\ identifier' = [identifier EXCEPT ![i] = "unverified"]
        /\ verification' = [verification EXCEPT ![v] = "active"]
    BY <1>1, <1>5 DEF Registers, SameEmail
  <2>2. TypeOK'
    BY <1>1, <1>2, <1>3, <2>1 DEF TypeOK
  <2>3. \A w \in Verifications :
          verification'[w] # "absent" => identifier'[IdentityOf[w]] # "absent"
    BY <1>3, <1>4, <2>1
  <2>4. UnverifiedHasOneToken'
    <3>1. \A w \in Verifications : IdentityOf[w] = i => verification[w] = "absent"
      BY <1>4, <2>1
    <3> QED BY <1>3, <1>4, <2>1, <3>1
            DEF UnverifiedHasOneToken, TokensFor, Active
  <2>5. MailedTokensExist'
    BY <1>3, <1>4, <2>1 DEF MailedTokensExist
  <2> QED BY <2>2, <2>3, <2>4, <2>5 DEF TablesConsistent
<1>6. ASSUME NEW i \in Identities, NEW v \in Verifications, Resends(c, i, v)
      PROVE  TypeOK' /\ TablesConsistent'
  <2>1. /\ mailed' \subseteq mailed \cup {v} /\ IdentityOf[v] = i
        /\ identifier[i] # "absent" /\ identifier' = identifier
        /\ verification' =
             [w \in Verifications |->
                IF w = v THEN "active"
                ELSE IF w \in TokensFor(i) /\ Active(w) THEN "invalidated"
                     ELSE verification[w]]
    BY <1>1, <1>6 DEF Resends
  <2>2. TypeOK'
    BY <1>1, <1>2, <1>3, <2>1 DEF TypeOK
  <2>3. \A w \in Verifications :
          verification'[w] # "absent" => identifier'[IdentityOf[w]] # "absent"
    BY <1>3, <1>4, <2>1 DEF Active
  <2>4. UnverifiedHasOneToken'
    <3>1. ASSUME NEW j \in Identities, identifier[j] = "unverified"
          PROVE  \E w \in TokensFor(j) :
                   /\ verification'[w] = "active"
                   /\ \A u \in TokensFor(j) : verification'[u] = "active" => u = w
      <4>1. CASE j = i
        <5>1. v \in TokensFor(i) /\ verification'[v] = "active"
          BY <2>1 DEF TokensFor
        <5>2. \A u \in TokensFor(i) : verification'[u] = "active" => u = v
          BY <2>1 DEF TokensFor, Active
        <5> QED BY <4>1, <5>1, <5>2
      <4>2. CASE j # i
        <5>1. \A w \in TokensFor(j) : verification'[w] = verification[w]
          BY <2>1, <4>2 DEF TokensFor
        <5> QED BY <1>4, <3>1, <5>1 DEF UnverifiedHasOneToken, Active
      <4> QED BY <4>1, <4>2
    <3> QED BY <2>1, <3>1 DEF UnverifiedHasOneToken, TokensFor, Active
  <2>5. MailedTokensExist'
    BY <1>3, <1>4, <2>1 DEF MailedTokensExist, Active
  <2> QED BY <2>2, <2>3, <2>4, <2>5 DEF TablesConsistent
<1>7. ASSUME NEW v \in Verifications, Confirms(c, v)
      PROVE  TypeOK' /\ TablesConsistent'
  <2>1. /\ mailed' = mailed /\ Active(v)
        /\ identifier[IdentityOf[v]] # "absent"
        /\ identifier' = [identifier EXCEPT ![IdentityOf[v]] = "verified"]
        /\ verification' = [verification EXCEPT ![v] = "used"]
    BY <1>1, <1>7 DEF Confirms
  <2>2. TypeOK'
    BY <1>1, <1>2, <1>3, <2>1 DEF TypeOK
  <2>3. \A w \in Verifications :
          verification'[w] # "absent" => identifier'[IdentityOf[w]] # "absent"
    BY <1>3, <1>4, <2>1 DEF Active
  <2>4. UnverifiedHasOneToken'
    BY <1>3, <1>4, <2>1 DEF UnverifiedHasOneToken, TokensFor, Active
  <2>5. MailedTokensExist'
    BY <1>3, <1>4, <2>1 DEF MailedTokensExist
  <2> QED BY <2>2, <2>3, <2>4, <2>5 DEF TablesConsistent
<1>8. ASSUME Refuses(c) PROVE TypeOK' /\ TablesConsistent'
  <2>1. /\ mailed' = mailed
        /\ identifier' = identifier /\ verification' = verification
    BY <1>1, <1>8 DEF Refuses
  <2> QED BY <1>1, <1>2, <1>3, <2>1, TablesStay DEF TypeOK
<1> QED BY <1>2, <1>5, <1>6, <1>7, <1>8, CommitCases

(* What the commit of c leaves of the claims about another transaction d.  *)
LEMMA CommitOthers ==
  ASSUME IInv, NEW c \in Clients, Commit(c), NEW d \in Clients, d # c,
         tx'[d] = tx[d]
  PROVE  ClientOK(d)'
<1> DEFINE x == tx[c]
           z == tx[d]
<1>1. /\ z \in Transaction /\ ClientOK(d) /\ ClientOK(c) /\ Apart(c, d)
      /\ x \in Transaction
      /\ identifier \in [Identities -> {"absent", "unverified", "verified"}]
      /\ verification \in
           [Verifications -> {"absent", "active", "used", "invalidated"}]
  BY TxType DEF IInv, TypeOK
<1>2. RequestShape(d)'
  BY <1>1 DEF ClientOK, RequestShape
<1>3. /\ \A v \in z.used \cup z.invalidated : Active(v) /\ v \in z.held
      /\ \A v \in z.minted : verification[v] = "absent"
      /\ \A i \in z.inserted : \A j \in SameEmail(i) : identifier[j] = "absent"
      /\ z.used \subseteq Verifications /\ z.invalidated \subseteq Verifications
      /\ z.minted \subseteq Verifications /\ z.inserted \subseteq Identities
  BY <1>1 DEF ClientOK, RowsReady, Transaction
<1>4. /\ z.op \in {"resend", "confirm"} =>
           z.who \in Identities /\ identifier[z.who] # "absent"
      /\ z.op = "resend" /\ z.at = "commit" =>
           /\ \A v \in TokensFor(z.who) : Active(v) => v \in z.invalidated
           /\ \E v \in z.minted : IdentityOf[v] = z.who
      /\ z.op = "confirm" /\ z.at = "commit" /\ z.used # {} =>
           z.verified = {z.who} \/ identifier[z.who] = "verified"
  BY <1>1
     DEF ClientOK, RequestShape, TokenReady, StillActive, TokensFor, Transaction
<1>5. ASSUME NEW i \in Identities, NEW v \in Verifications, Registers(c, i, v)
      PROVE  RowsReady(d)' /\ TokenReady(d)'
  <2>1. /\ verification[v] = "absent" /\ identifier[i] = "absent"
        /\ identifier' = [identifier EXCEPT ![i] = "unverified"]
        /\ verification' = [verification EXCEPT ![v] = "active"]
        /\ \A w \in z.minted : IdentityOf[w] # IdentityOf[v]
        /\ \A j \in z.inserted : EmailOf[i] # EmailOf[j]
    BY <1>1, <1>5 DEF Registers, Apart, SameEmail
  <2>2. RowsReady(d)'
    BY <1>1, <1>3, <2>1 DEF RowsReady, Active, SameEmail
  <2>3. TokenReady(d)'
    BY <1>1, <1>4, <2>1 DEF TokenReady, StillActive, TokensFor, Active
  <2> QED BY <2>2, <2>3
<1>6. ASSUME NEW i \in Identities, NEW v \in Verifications, Resends(c, i, v)
      PROVE  RowsReady(d)' /\ TokenReady(d)'
  <2>1. /\ verification[v] = "absent" /\ identifier' = identifier
        /\ verification' =
             [w \in Verifications |->
                IF w = v THEN "active"
                ELSE IF w \in TokensFor(i) /\ Active(w) THEN "invalidated"
                     ELSE verification[w]]
        /\ \A w \in TokensFor(i) : Active(w) => w \notin z.held
        /\ \A w \in z.minted : IdentityOf[w] # IdentityOf[v]
    BY <1>1, <1>6 DEF Resends, Apart
  <2>2. RowsReady(d)'
    BY <1>1, <1>3, <2>1 DEF RowsReady, Active, SameEmail
  <2>3. TokenReady(d)'
    BY <1>1, <1>4, <2>1 DEF TokenReady, StillActive, TokensFor, Active
  <2> QED BY <2>2, <2>3
<1>7. ASSUME NEW v \in Verifications, Confirms(c, v)
      PROVE  RowsReady(d)' /\ TokenReady(d)'
  <2>1. /\ Active(v) /\ v \notin z.held
        /\ identifier[IdentityOf[v]] # "absent"
        /\ identifier' = [identifier EXCEPT ![IdentityOf[v]] = "verified"]
        /\ verification' = [verification EXCEPT ![v] = "used"]
    BY <1>1, <1>7 DEF Confirms, Apart
  <2>2. RowsReady(d)'
    BY <1>1, <1>3, <2>1 DEF RowsReady, Active, SameEmail
  <2>3. TokenReady(d)'
    BY <1>1, <1>4, <2>1 DEF TokenReady, StillActive, TokensFor, Active
  <2> QED BY <2>2, <2>3
<1>8. ASSUME Refuses(c) PROVE RowsReady(d)' /\ TokenReady(d)'
  <2>1. identifier' = identifier /\ verification' = verification
    BY <1>8 DEF Refuses
  <2>2. RowsReady(d)'
    BY <1>1, <2>1 DEF ClientOK, RowsReady, Active
  <2>3. TokenReady(d)'
    BY <1>1, <2>1 DEF ClientOK, TokenReady, StillActive, Active
  <2> QED BY <2>2, <2>3
<1> QED BY <1>2, <1>5, <1>6, <1>7, <1>8, CommitCases DEF ClientOK

LEMMA CommitInv ==
  ASSUME IInv, NEW c \in Clients, Commit(c)
  PROVE  IInv'
<1>1. /\ TypeOK' /\ TablesConsistent'
      /\ tx'[c] = NoTransaction /\ \A d \in Clients \ {c} : tx'[d] = tx[d]
  BY CommitTables
<1>2. ASSUME NEW d \in Clients PROVE ClientOK(d)'
  <2>1. CASE d = c
    BY <1>1, <2>1, IdleOK
  <2>2. CASE d # c
    BY <1>1, <2>2, CommitOthers
  <2> QED BY <2>1, <2>2
<1>3. ASSUME NEW d \in Clients, NEW e \in Clients, d # e PROVE Apart(d, e)'
  <2>1. CASE d = c \/ e = c
    BY <1>1, <2>1, IdleOK
  <2>2. CASE d # c /\ e # c
    <3>1. tx'[d] = tx[d] /\ tx'[e] = tx[e] /\ Apart(d, e)
      BY <1>1, <1>3, <2>2, TxType
    <3> QED BY <3>1 DEF Apart
  <2> QED BY <2>1, <2>2
<1> QED BY <1>1, <1>2, <1>3 DEF IInv, Consistent, ClientOK

-----------------------------------------------------------------------------
LEMMA StutterInv == ASSUME IInv, UNCHANGED vars PROVE IInv'
<1>1. /\ identifier' = identifier /\ verification' = verification
      /\ expired' = expired /\ mailed' = mailed /\ tx' = tx
  BY DEF vars
<1>2. TypeOK'
  BY <1>1 DEF IInv, TypeOK
<1>3. TablesConsistent' /\ \A d \in Clients : ClientOK(d)'
  BY <1>1, TablesStay
<1>4. \A d, e \in Clients : d # e => Apart(d, e)'
  BY <1>1 DEF IInv, Consistent, Apart
<1> QED BY <1>2, <1>3, <1>4 DEF IInv, Consistent, ClientOK

LEMMA NextInv ==
  ASSUME IInv, [Next]_vars PROVE IInv'
<1>1. ASSUME NEW c \in Clients, Begin(c) PROVE IInv'
  BY <1>1, BeginRegisterInv, BeginResendInv, BeginConfirmInv DEF Begin
<1>2. ASSUME NEW c \in Clients, RefuseDuplicate(c) \/ RefuseVerification(c)
                                \/ Abort(c)
      PROVE  IInv'
  BY <1>2, ClearInv DEF RefuseDuplicate, RefuseVerification, Abort, rows
<1>3. ASSUME NEW c \in Clients, PickActive(c) PROVE IInv'
  BY <1>3, PickActiveInv
<1>4. ASSUME NEW c \in Clients, LockVerification(c) PROVE IInv'
  BY <1>4, LockVerificationInv
<1>5. ASSUME NEW c \in Clients, MarkVerified(c) PROVE IInv'
  BY <1>5, MarkVerifiedInv
<1>6. ASSUME NEW c \in Clients, Commit(c) PROVE IInv'
  BY <1>6, CommitInv
<1>7. ASSUME NEW c \in Clients, NEW v \in Verifications, InsertIdentifier(c, v)
      PROVE  IInv'
  BY <1>7, InsertIdentifierInv
<1>8. ASSUME NEW c \in Clients, NEW v \in Verifications, Invalidate(c, v)
      PROVE  IInv'
  BY <1>8, InvalidateInv
<1>9. ASSUME NEW c \in Clients, NEW v \in Verifications, InsertVerification(c, v)
      PROVE  IInv'
  BY <1>9, InsertVerificationInv
<1>10. ASSUME NEW v \in Verifications, Expire(v) PROVE IInv'
  BY <1>10, ExpireInv
<1> QED BY <1>1, <1>2, <1>3, <1>4, <1>5, <1>6, <1>7, <1>8, <1>9, <1>10,
           StutterInv DEF Next, Step

(* The inductive invariant: what the statements, locks and unique indexes  *)
(* leave of registrations, resends and confirmations that interleave.      *)
THEOREM Invariant == Spec => []IInv
BY InitInv, NextInv, PTL DEF Spec

(* Tables and transactions keep their types; in particular an identity is  *)
(* always looked up by an identity's id.                                   *)
THEOREM TypeCorrect == Spec => []TypeOK
<1>1. IInv => TypeOK
  BY DEF IInv
<1> QED BY <1>1, Invariant, PTL

(* Whoever has not verified the address has exactly one active token.      *)
THEOREM OneToken == Spec => []UnverifiedHasOneToken
<1>1. IInv => UnverifiedHasOneToken
  BY DEF IInv, Consistent, TablesConsistent
<1> QED BY <1>1, Invariant, PTL

(* A transaction marks used or invalidated only rows that are active: the  *)
(* CHECK of migration 014 never refuses one.                               *)
THEOREM EndsActiveOnly == Spec => []EndedByOne
<1>1. IInv => EndedByOne
  BY DEF IInv, Consistent, RowsReady, EndedByOne
<1> QED BY <1>1, Invariant, PTL

(* A mailed link leads to a verification and to a registered address.      *)
THEOREM MailedExist == Spec => []MailedTokensExist
<1>1. IInv => MailedTokensExist
  BY DEF IInv, Consistent, TablesConsistent
<1> QED BY <1>1, Invariant, PTL

(* Only a COMMIT changes identifiers and verifications. *)
LEMMA OnlyCommits ==
  ASSUME [Next]_vars
  PROVE  \/ identifier' = identifier /\ verification' = verification
         \/ \E c \in Clients : Commit(c)
<1> DEFINE Same == identifier' = identifier /\ verification' = verification
<1>1. ASSUME NEW c \in Clients, Begin(c) PROVE Same
  BY <1>1 DEF Begin, BeginRegister, BeginResend, BeginConfirm
<1>2. ASSUME NEW c \in Clients, Step(c) PROVE Same \/ Commit(c)
  <2>1. CASE RefuseDuplicate(c) \/ PickActive(c) \/ RefuseVerification(c)
    BY <2>1 DEF RefuseDuplicate, PickActive, RefuseVerification
  <2>2. CASE LockVerification(c) \/ MarkVerified(c)
    BY <2>2 DEF LockVerification, MarkVerified
  <2>3. CASE \E v \in Verifications :
               InsertIdentifier(c, v) \/ Invalidate(c, v)
               \/ InsertVerification(c, v)
    BY <2>3 DEF InsertIdentifier, Invalidate, InsertVerification
  <2> QED BY <1>2, <2>1, <2>2, <2>3 DEF Step
<1>3. ASSUME NEW c \in Clients, Abort(c) PROVE Same
  BY <1>3 DEF Abort
<1>4. ASSUME NEW v \in Verifications, Expire(v) PROVE Same
  BY <1>4 DEF Expire
<1>5. CASE UNCHANGED vars
  BY <1>5 DEF vars
<1> QED BY <1>1, <1>2, <1>3, <1>4, <1>5 DEF Next

(* A verification that was used or invalidated stays what it is.           *)
THEOREM TerminalFinal == Spec => TerminalStateIsFinal
<1>1. ASSUME IInv, [Next]_vars, NEW v \in Verifications,
             verification[v] \in {"used", "invalidated"}
      PROVE  verification'[v] = verification[v]
  <2>1. CASE verification' = verification
    BY <2>1
  <2>2. ASSUME NEW c \in Clients, Commit(c)
        PROVE  verification'[v] = verification[v]
    <3>1. verification \in
            [Verifications -> {"absent", "active", "used", "invalidated"}]
      BY <1>1 DEF IInv, TypeOK
    <3> QED BY <1>1, <2>2, <3>1, CommitCases
            DEF Registers, Resends, Confirms, Refuses, Active
  <2> QED BY <1>1, <2>1, <2>2, OnlyCommits
<1>2. IInv /\ [Next]_vars =>
        [\A v \in Verifications : verification[v] \in {"used", "invalidated"} =>
           verification'[v] = verification[v]]_vars
  BY <1>1
<1> QED BY <1>2, Invariant, PTL DEF Spec, TerminalStateIsFinal

-----------------------------------------------------------------------------
LEMMA InitMaps == Init => Book!Init
BY DEF Init, Book!Init

LEMMA NextMaps ==
  ASSUME IInv, [Next]_vars PROVE [Book!Next]_(Book!vars)
<1>1. ASSUME NEW c \in Clients, Commit(c) PROVE [Book!Next]_(Book!vars)
  <2>1. ASSUME NEW i \in Identities, NEW v \in Verifications, Registers(c, i, v)
        PROVE  Book!Next
    <3>1. Book!Register(i, v)
      BY <2>1 DEF Registers, Book!Register, Book!TokensFor, SameEmail
    <3> QED BY <3>1 DEF Book!Next
  <2>2. ASSUME NEW i \in Identities, NEW v \in Verifications, Resends(c, i, v)
        PROVE  Book!Next
    <3>1. Book!Resend(i, v)
      BY <2>2 DEF Resends, Book!Resend, Book!TokensFor, TokensFor, Active
    <3> QED BY <3>1 DEF Book!Next
  <2>3. ASSUME NEW v \in Verifications, Confirms(c, v) PROVE Book!Next
    <3>1. Book!Confirm(v)
      BY <2>3 DEF Confirms, Book!Confirm, Active
    <3> QED BY <3>1 DEF Book!Next
  <2>4. Refuses(c) => UNCHANGED Book!vars
    BY DEF Refuses, Book!vars
  <2> QED BY <1>1, <2>1, <2>2, <2>3, <2>4, CommitCases
<1>2. CASE identifier' = identifier /\ verification' = verification
  BY <1>2 DEF Book!vars
<1> QED BY <1>1, <1>2, OnlyCommits

(* Registrations, resends and confirmations show as atomic steps of an     *)
(* address's life: one identity per address, one token replaced by the     *)
(* next, verification by the active token only.                            *)
THEOREM Refinement == Spec => ImplementsBook
BY Invariant, InitMaps, NextMaps, PTL DEF Spec, ImplementsBook, Book!Spec

-----------------------------------------------------------------------------
(***************************************************************************)
(* No deadlock. c waits for d in WaitsFor(c, d): the guards of c's next    *)
(* statement, read as whom they wait for (WaitsAreGuards). Every wait is   *)
(* for a transaction that is further on, as Rank counts it, so that waits  *)
(* never close a cycle, among however many transactions.                   *)
(***************************************************************************)
WaitsFor(c, d) ==
  LET x == tx[c]  y == tx[d] IN
  /\ c # d
  /\ \/ x.at = "identifier" /\ y.inserted \cap SameEmail(x.who) # {}
     \/ x.at = "invalidate" /\ x.todo \cap y.held # {}
     \/ /\ x.at = "invalidate" /\ x.todo = {}
        /\ \/ y.minted \cap TokensFor(x.who) # {}
           \/ (y.used \cup y.invalidated) \cap StillActive(c) # {}
     \/ x.at = "lock" /\ x.tok \in y.held
     \/ /\ x.at = "verify" /\ identifier[x.who] = "unverified"
        /\ x.who \in y.held

Rank(c) ==
  IF tx[c].at = "commit" THEN 0
  ELSE IF tx[c].at = "verify" THEN 1
  ELSE IF tx[c].at = "invalidate" /\ tx[c].todo = {}
       THEN IF StillActive(c) = {} THEN 2 ELSE 3
  ELSE 4

WaitsAhead == \A c, d \in Clients : WaitsFor(c, d) => Rank(d) < Rank(c)

(* Whoever waits for nobody passes the guards that wait. *)
LEMMA WaitsAreGuards ==
  ASSUME NEW c \in Clients, \A d \in Clients : ~WaitsFor(c, d)
  PROVE  /\ tx[c].at = "identifier" => EmailDecided(c, tx[c].who)
         /\ tx[c].at = "invalidate" => \A v \in tx[c].todo : Free(c, v)
         /\ tx[c].at = "invalidate" /\ tx[c].todo = {} => TokenDecided(c)
         /\ tx[c].at = "lock" => Free(c, tx[c].tok)
         /\ tx[c].at = "verify" /\ identifier[tx[c].who] = "unverified" =>
              Free(c, tx[c].who)
BY DEF WaitsFor, EmailDecided, Free, TokenDecided, Others

(***************************************************************************)
(* What the ranks rest on, besides IInv: there is one active token for an  *)
(* identity, verified or not, so that a resend's UPDATE has one row to     *)
(* wait for, and holds nothing while it does.                              *)
(***************************************************************************)
OneActive ==
  \A v, w \in Verifications :
    Active(v) /\ Active(w) /\ IdentityOf[v] = IdentityOf[w] => v = w

InOrder(x) ==
  /\ x.at = "pick" => x.held = {}
  /\ x.at = "invalidate" /\ x.todo # {} =>
       x.held = {} /\ \A v, w \in x.todo : v = w
  /\ x.at = "verify" => x.held = {x.tok}

WaitInv == OneActive /\ \A c \in Clients : InOrder(tx[c])

LEMMA OneActiveInv ==
  ASSUME IInv, OneActive, [Next]_vars PROVE OneActive'
<1>1. CASE identifier' = identifier /\ verification' = verification
  BY <1>1 DEF OneActive, Active
<1>2. ASSUME NEW c \in Clients, Commit(c) PROVE OneActive'
  <2>1. verification \in
          [Verifications -> {"absent", "active", "used", "invalidated"}]
    BY DEF IInv, TypeOK
  <2>2. ASSUME NEW i \in Identities, NEW v \in Verifications, Registers(c, i, v)
        PROVE  OneActive'
    <3>1. \A w \in Verifications : IdentityOf[w] = i => ~Active(w)
      BY <2>2 DEF Registers, SameEmail, IInv, Consistent, TablesConsistent, Active
    <3> QED BY <2>1, <2>2, <3>1 DEF Registers, OneActive, Active
  <2>3. ASSUME NEW i \in Identities, NEW v \in Verifications, Resends(c, i, v)
        PROVE  OneActive'
    BY <2>1, <2>3 DEF Resends, OneActive, Active, TokensFor
  <2>4. ASSUME NEW v \in Verifications, Confirms(c, v) PROVE OneActive'
    BY <2>1, <2>4 DEF Confirms, OneActive, Active
  <2>5. Refuses(c) => OneActive'
    BY DEF Refuses, OneActive, Active
  <2> QED BY <1>2, <2>2, <2>3, <2>4, <2>5, CommitCases
<1> QED BY <1>1, <1>2, OnlyCommits

(* One transaction changes, the others keep their order. *)
LEMMA OrderStep ==
  ASSUME IInv, WaitInv, NEW c \in Clients, NEW y,
         tx' = [tx EXCEPT ![c] = y], InOrder(y)
  PROVE  \A d \in Clients : InOrder(tx'[d])
BY DEF WaitInv, IInv, TypeOK

LEMMA BeginOrder ==
  ASSUME IInv, WaitInv, NEW c \in Clients, Begin(c)
  PROVE  \A d \in Clients : InOrder(tx'[d])
<1>1. ASSUME NEW i \in Identities, BeginRegister(c, i) \/ BeginResend(c, i)
      PROVE  \A d \in Clients : InOrder(tx'[d])
  <2> DEFINE y == [NoTransaction EXCEPT !.at = "identifier", !.op = "register",
                                        !.who = i]
             z == [NoTransaction EXCEPT !.at = "pick", !.op = "resend", !.who = i]
  <2>1. /\ y.at = "identifier"
        /\ z.at = "pick" /\ z.held = {}
    BY DEF NoTransaction
  <2>2. tx' = [tx EXCEPT ![c] = y] \/ tx' = [tx EXCEPT ![c] = z]
    BY <1>1 DEF BeginRegister, BeginResend
  <2> HIDE DEF y, z
  <2>3. InOrder(y) /\ InOrder(z)
    BY <2>1 DEF InOrder
  <2> QED BY <2>2, <2>3, OrderStep
<1>2. ASSUME NEW v \in Verifications, BeginConfirm(c, v)
      PROVE  \A d \in Clients : InOrder(tx'[d])
  <2> DEFINE y == [NoTransaction EXCEPT !.at = "lock", !.op = "confirm",
                                        !.tok = v, !.who = IdentityOf[v]]
  <2>1. y.at = "lock"
    BY DEF NoTransaction
  <2>2. tx' = [tx EXCEPT ![c] = y]
    BY <1>2 DEF BeginConfirm
  <2> HIDE DEF y
  <2> QED BY <2>1, <2>2, OrderStep DEF InOrder
<1> QED BY <1>1, <1>2 DEF Begin

LEMMA ResendOrder ==
  ASSUME IInv, WaitInv, NEW c \in Clients,
         \/ PickActive(c)
         \/ \E v \in Verifications : Invalidate(c, v)
  PROVE  \A d \in Clients : InOrder(tx'[d])
<1> DEFINE x == tx[c]
<1>1. x \in Transaction /\ InOrder(x)
  BY TxType DEF WaitInv
<1>2. CASE PickActive(c)
  <2> DEFINE t == {v \in TokensFor(x.who) : Active(v)}
             y == [x EXCEPT !.at = "invalidate", !.todo = t]
  <2>1. y.at = "invalidate" /\ y.todo = t /\ y.held = x.held
    BY <1>1 DEF Transaction
  <2>2. tx' = [tx EXCEPT ![c] = y] /\ x.at = "pick"
    BY <1>2 DEF PickActive
  <2>3. \A v, w \in t : v = w
    BY DEF WaitInv, OneActive, TokensFor
  <2> HIDE DEF y, t
  <2>4. InOrder(y)
    BY <1>1, <2>1, <2>2, <2>3 DEF InOrder
  <2> QED BY <2>2, <2>4, OrderStep
<1>3. ASSUME NEW v \in Verifications, Invalidate(c, v)
      PROVE  \A d \in Clients : InOrder(tx'[d])
  <2> DEFINE I == IF Active(v) THEN x.invalidated \cup {v} ELSE x.invalidated
             y == [x EXCEPT !.todo = @ \ {v}, !.held = @ \cup {v},
                            !.invalidated = I]
  <2>1. y.at = x.at /\ y.todo = x.todo \ {v}
    BY <1>1 DEF Transaction
  <2>3. x.at = "invalidate" /\ v \in x.todo
    BY <1>3 DEF Invalidate
  <2>2. tx' = [tx EXCEPT ![c] = y]
    BY <1>3, TxType DEF Invalidate, Transaction
  <2> HIDE DEF y
  <2>4. InOrder(y)
    BY <1>1, <2>1, <2>3 DEF InOrder
  <2> QED BY <2>2, <2>4, OrderStep
<1> QED BY <1>2, <1>3

LEMMA ConfirmOrder ==
  ASSUME IInv, WaitInv, NEW c \in Clients, LockVerification(c)
  PROVE  \A d \in Clients : InOrder(tx'[d])
<1> DEFINE x == tx[c]
           good == Active(x.tok) /\ x.tok \notin expired
           y == [x EXCEPT !.at = IF good THEN "verify" ELSE "commit",
                          !.held = {x.tok},
                          !.used = IF good THEN {x.tok} ELSE {}]
<1>1. x \in Transaction
  BY TxType
<1>2. y.at \in {"verify", "commit"} /\ y.held = {x.tok} /\ y.tok = x.tok
  BY <1>1 DEF Transaction
<1>3. tx' = [tx EXCEPT ![c] = y]
  BY DEF LockVerification
<1> HIDE DEF y
<1>4. InOrder(y)
  BY <1>2 DEF InOrder
<1> QED BY <1>3, <1>4, OrderStep

(* What comes to its COMMIT, and what is over, waits for nothing. *)
LEMMA EndOrder ==
  ASSUME IInv, WaitInv, NEW c \in Clients,
         \/ RefuseDuplicate(c) \/ RefuseVerification(c) \/ Abort(c) \/ Commit(c)
         \/ MarkVerified(c)
         \/ \E v \in Verifications :
              InsertIdentifier(c, v) \/ InsertVerification(c, v)
  PROVE  \A d \in Clients : InOrder(tx'[d])
<1>1. tx \in [Clients -> Transaction] /\ tx[c] \in Transaction
  BY TxType
<1>2. CASE RefuseDuplicate(c) \/ RefuseVerification(c) \/ Abort(c) \/ Commit(c)
  <2>1. tx' = [tx EXCEPT ![c] = NoTransaction]
    BY <1>2 DEF RefuseDuplicate, RefuseVerification, Abort, Commit
  <2>2. InOrder(NoTransaction)
    BY DEF InOrder, NoTransaction
  <2> QED BY <2>1, <2>2, OrderStep
<1>3. CASE \/ MarkVerified(c)
           \/ \E v \in Verifications :
                InsertIdentifier(c, v) \/ InsertVerification(c, v)
  <2>1. tx'[c].at = "commit" /\ \A d \in Clients \ {c} : tx'[d] = tx[d]
    BY <1>1, <1>3 DEF MarkVerified, InsertIdentifier, InsertVerification,
                      Transaction
  <2>2. InOrder(tx'[c])
    BY <2>1 DEF InOrder
  <2> QED BY <2>1, <2>2 DEF WaitInv
<1> QED BY <1>2, <1>3

LEMMA WaitInvNext ==
  ASSUME IInv, WaitInv, [Next]_vars PROVE WaitInv'
<1>1. OneActive'
  BY OneActiveInv DEF WaitInv
<1>2. ASSUME NEW c \in Clients, Begin(c) \/ Step(c) \/ Abort(c)
      PROVE  \A d \in Clients : InOrder(tx'[d])
  BY <1>2, BeginOrder, ResendOrder, ConfirmOrder, EndOrder DEF Step
<1>3. ASSUME NEW v \in Verifications, Expire(v)
      PROVE  \A d \in Clients : InOrder(tx'[d])
  BY <1>3 DEF Expire, WaitInv
<1>4. UNCHANGED vars => \A d \in Clients : InOrder(tx'[d])
  BY DEF vars, WaitInv
<1>5. \A d \in Clients : InOrder(tx'[d])
  BY <1>2, <1>3, <1>4 DEF Next
<1> QED BY <1>1, <1>5 DEF WaitInv

LEMMA WaitInvInit == Init => WaitInv
BY DEF Init, WaitInv, OneActive, Active, InOrder, NoTransaction

(* Whoever holds a verification has the one it wanted; whoever has ended   *)
(* the active one has nothing more to wait for but its identifier, or a    *)
(* row inserted for its identity; whoever has inserted has only to commit. *)
LEMMA HolderRank ==
  ASSUME IInv, WaitInv, NEW d \in Clients
  PROVE  /\ \A v \in Verifications : v \in tx[d].held => Rank(d) \in 0..3
         /\ \A i \in Identities : i \in tx[d].held => Rank(d) = 0
         /\ \A w \in tx[d].used \cup tx[d].invalidated : Rank(d) \in 0..2
         /\ tx[d].minted # {} \/ tx[d].inserted # {} => Rank(d) = 0
<1> DEFINE y == tx[d]
<1>1. y \in Transaction /\ RequestShape(d) /\ RowsReady(d) /\ InOrder(y)
  BY TxType DEF WaitInv, ClientOK
<1>2. CASE y.op = "none"
  <2>1. y = NoTransaction
    BY <1>1, <1>2 DEF RequestShape
  <2> QED BY <2>1 DEF NoTransaction
<1>3. CASE y.op = "register"
  BY <1>1, <1>3 DEF RequestShape, Rank
<1>4. CASE y.op = "resend"
  <2>1. /\ y.at \in {"pick", "invalidate", "commit"} /\ y.used = {}
        /\ y.inserted = {} /\ y.held \subseteq TokensFor(y.who)
        /\ y.at # "commit" => y.minted = {}
        /\ y.invalidated \subseteq y.held
        /\ \A v \in y.invalidated : Active(v)
    BY <1>1, <1>4 DEF RequestShape, RowsReady
  <2>2. y.held # {} => y.at = "commit" \/ (y.at = "invalidate" /\ y.todo = {})
    BY <1>1, <2>1 DEF InOrder
  <2>3. y.invalidated # {} => StillActive(d) = {}
    BY <2>1 DEF StillActive, TokensFor, WaitInv, OneActive
  <2>4. \A i \in Identities : i \notin y.held
    BY <2>1 DEF TokensFor
  <2>5. y.held # {} => Rank(d) \in 0..3
    BY <2>2 DEF Rank
  <2>6. y.invalidated # {} => Rank(d) \in 0..2
    BY <2>1, <2>2, <2>3 DEF Rank
  <2>7. y.minted # {} => Rank(d) = 0
    BY <2>1 DEF Rank
  <2> QED BY <2>1, <2>4, <2>5, <2>6, <2>7
<1>5. CASE y.op = "confirm"
  <2>1. /\ y.at \in {"lock", "verify", "commit"}
        /\ y.inserted = {} /\ y.minted = {} /\ y.invalidated = {}
        /\ y.at = "lock" => y.held = {} /\ y.used = {}
        /\ y.tok \in Verifications
    BY <1>1, <1>5 DEF RequestShape, Transaction
  <2>2. y.at = "verify" => y.held = {y.tok}
    BY <1>1 DEF InOrder
  <2>3. y.at # "lock" => Rank(d) \in 0..1
    BY <2>1 DEF Rank
  <2>4. y.at = "commit" => Rank(d) = 0
    BY DEF Rank
  <2> QED BY <2>1, <2>2, <2>3, <2>4
<1> QED BY <1>1, <1>2, <1>3, <1>4, <1>5 DEF Transaction

(***************************************************************************)
(* Registrations, resends and confirmations never deadlock: PostgreSQL     *)
(* need not break a cycle of waits, whatever they wait for, rows or index  *)
(* entries, and however many there are.                                    *)
(***************************************************************************)
THEOREM NoDeadlock == Spec => []WaitsAhead
<1>1. IInv /\ WaitInv => WaitsAhead
  <2> SUFFICES ASSUME IInv, WaitInv, NEW c \in Clients, NEW d \in Clients,
                      WaitsFor(c, d)
               PROVE  Rank(d) < Rank(c)
    BY DEF WaitsAhead
  <2> DEFINE x == tx[c]  y == tx[d]
  <2>1. x \in Transaction
    BY TxType
  <2>2. CASE x.at = "identifier"
    <3>1. Rank(d) = 0
      BY <2>2, HolderRank DEF WaitsFor
    <3> QED BY <2>2, <3>1 DEF Rank
  <2>3. CASE x.at = "invalidate" /\ x.todo # {}
    <3>1. PICK v \in Verifications : v \in y.held
      BY <2>1, <2>3 DEF WaitsFor, Transaction
    <3>2. Rank(d) \in 0..3
      BY <3>1, HolderRank
    <3> QED BY <2>3, <3>2 DEF Rank
  <2>4. CASE x.at = "invalidate" /\ x.todo = {}
    <3>1. CASE y.minted # {}
      <4>1. Rank(d) = 0 /\ Rank(c) \in 2..3
        BY <2>4, <3>1, HolderRank DEF Rank
      <4> QED BY <4>1
    <3>2. CASE (y.used \cup y.invalidated) \cap StillActive(c) # {}
      <4>1. Rank(d) \in 0..2
        BY <3>2, HolderRank
      <4>2. Rank(c) = 3
        BY <2>4, <3>2 DEF Rank
      <4> QED BY <4>1, <4>2
    <3> QED BY <2>4, <3>1, <3>2 DEF WaitsFor
  <2>5. CASE x.at = "lock"
    <3>1. x.tok \in Verifications /\ x.tok \in y.held
      BY <2>5, TxType DEF WaitsFor, ClientOK, RequestShape, Transaction
    <3>2. Rank(d) \in 0..3
      BY <3>1, HolderRank
    <3> QED BY <2>5, <3>2 DEF Rank
  <2>6. CASE x.at = "verify"
    <3>1. x.who \in Identities /\ x.who \in y.held
      BY <2>6, TxType DEF WaitsFor, ClientOK, RequestShape, Transaction
    <3>2. Rank(d) = 0
      BY <3>1, HolderRank
    <3> QED BY <2>6, <3>2 DEF Rank
  <2> QED BY <2>2, <2>3, <2>4, <2>5, <2>6 DEF WaitsFor
<1>2. Spec => [](IInv /\ WaitInv)
  BY InitInv, NextInv, WaitInvInit, WaitInvNext, PTL DEF Spec
<1> QED BY <1>1, <1>2, PTL

=============================================================================
