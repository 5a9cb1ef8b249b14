--------------------------- MODULE OAuthLoginProofs ---------------------------
(***************************************************************************)
(* The safety of OAuthLogin, for any number of clients, accounts,          *)
(* identities and sessions, and that it implements ExternalAccounts.       *)
(*                                                                         *)
(* IInv is inductive. A step that is not a COMMIT changes the record of    *)
(* one client only (LocalStep). A COMMIT adds a session, and with it an    *)
(* identity bound to its account or nothing else (CommitCases); others     *)
(* lose nothing by that, because Apart keeps their identity, account and   *)
(* session different from the committed ones (CommitInv).                  *)
(***************************************************************************)
EXTENDS OAuthLogin, TLAPS

USE OAuthAssumption

IInv == TypeOK /\ Consistent

(* The conjuncts of Consistent about one client. *)
ClientOK(c) == RequestShape(c) /\ BindingReady(c)

(* What the invariant says of one client. *)
LEMMA TxType ==
  ASSUME IInv, NEW c \in Clients
  PROVE  /\ tx \in [Clients -> Request] /\ tx[c] \in Request
         /\ ClientOK(c)
         /\ \A d \in Clients : c # d => Apart(c, d)
BY DEF IInv, TypeOK, Consistent, ClientOK

LEMMA InitInv == Init => IInv
<1> SUFFICES ASSUME Init PROVE IInv
  OBVIOUS
<1>1. NoRequest \in Request
  BY DEF NoRequest, Request
<1>2. TypeOK
  BY <1>1 DEF Init, TypeOK
<1>3. TablesConsistent
  BY DEF Init, TablesConsistent, OneIdentityPerAccount,
         SessionOfProvenAccount, RefusedCanRetry
<1>4. ASSUME NEW c \in Clients PROVE RequestShape(c) /\ BindingReady(c)
  BY DEF Init, RequestShape, BindingReady, NoRequest
<1>5. ASSUME NEW c \in Clients, NEW d \in Clients PROVE Apart(c, d)
  BY DEF Init, Apart, NoRequest
<1> QED BY <1>2, <1>3, <1>4, <1>5 DEF IInv, Consistent

(* A step that changes the record of client c alone, and may refuse it. *)
LEMMA LocalStep ==
  ASSUME IInv, NEW c \in Clients, NEW y \in Request,
         tx' = [tx EXCEPT ![c] = y], UNCHANGED tables,
         refused' \subseteq Accounts,
         \A a \in refused' : Known(a) # {},
         ClientOK(c)',
         \A d \in Clients \ {c} : Apart(c, d)' /\ Apart(d, c)'
  PROVE  IInv'
<1>1. tx' \in [Clients -> Request] /\ \A d \in Clients \ {c} : tx'[d] = tx[d]
  BY DEF IInv, TypeOK
<1>2. link' = link /\ owner' = owner /\ provenBy' = provenBy
  BY DEF tables
<1>3. TypeOK'
  BY <1>1, <1>2 DEF IInv, TypeOK
<1>4. TablesConsistent'
  BY <1>2
     DEF IInv, Consistent, TablesConsistent, OneIdentityPerAccount,
         SessionOfProvenAccount, RefusedCanRetry, Known
<1>5. ASSUME NEW d \in Clients PROVE (RequestShape(d) /\ BindingReady(d))'
  <2>1. CASE d = c
    BY <2>1 DEF ClientOK
  <2>2. CASE d # c
    <3>1. tx'[d] = tx[d] /\ ClientOK(d)
      BY <1>1, <2>2, TxType
    <3> QED BY <3>1, <1>2 DEF ClientOK, RequestShape, BindingReady, Known
  <2> QED BY <2>1, <2>2
<1>6. ASSUME NEW d \in Clients, NEW e \in Clients, d # e PROVE Apart(d, e)'
  <2>1. CASE d = c
    BY <1>6, <2>1
  <2>2. CASE e = c
    BY <1>6, <2>2
  <2>3. CASE d # c /\ e # c
    <3>1. tx'[d] = tx[d] /\ tx'[e] = tx[e] /\ Apart(d, e)
      BY <1>1, <1>6, <2>3, TxType
    <3> QED BY <3>1, <1>2 DEF Apart
  <2> QED BY <2>1, <2>2, <2>3
<1> QED BY <1>3, <1>4, <1>5, <1>6 DEF IInv, Consistent

(* A request is over without a commit. *)
LEMMA ClearInv ==
  ASSUME IInv, NEW c \in Clients, tx' = [tx EXCEPT ![c] = NoRequest],
         UNCHANGED tables, refused' \subseteq Accounts,
         \A a \in refused' : Known(a) # {}
  PROVE  IInv'
<1>1. NoRequest \in Request
  BY DEF NoRequest, Request
<1>2. tx'[c] = NoRequest
  BY TxType
<1>3. ClientOK(c)'
  BY <1>2 DEF ClientOK, RequestShape, BindingReady, NoRequest
<1>4. ASSUME NEW d \in Clients \ {c} PROVE Apart(c, d)' /\ Apart(d, c)'
  BY <1>2 DEF Apart, NoRequest
<1> QED BY <1>1, <1>3, <1>4, LocalStep

(* Nobody has been refused for an account that is not bound. *)
LEMMA RefusedStays ==
  ASSUME IInv, refused' = refused
  PROVE  refused' \subseteq Accounts /\ \A a \in refused' : Known(a) # {}
BY DEF IInv, TypeOK, Consistent, TablesConsistent, RefusedCanRetry

(* The identity a login goes on with is the account's, or nobody's. *)
LEMMA ResolveInv ==
  ASSUME IInv, NEW c \in Clients, NEW t \in Assertions, Resolve(c, t)
  PROVE  IInv'
<1> DEFINE a == t.sub
<1>1. a \in Accounts
  BY DEF Resolve, Verified, Assertions
<1>2. PICK i \in IF Known(a) # {} THEN Known(a) ELSE FreshIdentities :
        tx' = [tx EXCEPT ![c] =
                 [NoRequest EXCEPT !.at = IF Known(a) # {} THEN "open"
                                          ELSE "link",
                                   !.account = a, !.who = i]]
  BY DEF Resolve
<1> DEFINE y == [NoRequest EXCEPT !.at = IF Known(a) # {} THEN "open"
                                         ELSE "link",
                                  !.account = a, !.who = i]
<1>3. i \in Identities
  BY <1>2 DEF Known, FreshIdentities
<1>4. /\ y \in Request /\ y.account = a /\ y.who = i /\ y.minted = {}
      /\ y.opened = {} /\ y.at \in {"open", "link"}
      /\ y.at = "open" => Known(a) # {}
      /\ y.at = "link" => Known(a) = {}
  BY <1>1, <1>3 DEF NoRequest, Request
<1>5. UNCHANGED tables /\ refused' = refused
  BY DEF Resolve
<1>6. tx' = [tx EXCEPT ![c] = y]
  BY <1>2
<1>7. tx'[c] = y /\ \A d \in Clients \ {c} : tx'[d] = tx[d]
  BY <1>6, TxType
<1> HIDE DEF y
<1>8. i # None /\ a # None
  BY <1>1, <1>3
<1>9. link[i] = IF y.at = "open" THEN a ELSE None
  BY <1>2, <1>4 DEF Known, FreshIdentities
<1>10. ClientOK(c)'
  BY <1>4, <1>5, <1>7, <1>8, <1>9
     DEF ClientOK, RequestShape, BindingReady, tables
<1>11. ASSUME NEW d \in Clients \ {c} PROVE Apart(c, d)' /\ Apart(d, c)'
  <2>1. tx[d].who = i => link[i] # None
    BY <1>2, <1>8, <1>9, <1>4 DEF FreshIdentities
  <2> QED BY <2>1, <1>4, <1>5, <1>7 DEF Apart, tables
<1> QED BY <1>4, <1>5, <1>6, <1>10, <1>11, LocalStep, RefusedStays

(* The index lets the binding in: no row and no other request has one. *)
LEMMA LinkInv ==
  ASSUME IInv, NEW c \in Clients, Link(c)
  PROVE  IInv'
<1> DEFINE x == tx[c]
           y == [x EXCEPT !.at = "open", !.minted = {x.who}]
<1>1. /\ x \in Request /\ x.at = "link" /\ ClientOK(c)
      /\ tx \in [Clients -> Request]
  BY TxType DEF Link
<1>2. tx' = [tx EXCEPT ![c] = y]
  BY <1>1 DEF Link, Request
<1>3. x.who \in Identities /\ x.account # None /\ x.opened = {}
  BY <1>1 DEF ClientOK, RequestShape, Request
<1>4. /\ y \in Request /\ y.at = "open" /\ y.minted = {x.who}
      /\ y.account = x.account /\ y.who = x.who /\ y.opened = {}
  BY <1>1, <1>3 DEF Request
<1>5. tx'[c] = y /\ \A d \in Clients \ {c} : tx'[d] = tx[d]
  BY <1>1, <1>2
<1> HIDE DEF y
<1>6. UNCHANGED tables /\ refused' = refused /\ Known(x.account) = {}
      /\ LinkDecided(c)
  BY DEF Link
<1>7. ClientOK(c)'
  BY <1>1, <1>3, <1>4, <1>5, <1>6
     DEF ClientOK, RequestShape, BindingReady, tables, Known
<1>8. ASSUME NEW d \in Clients \ {c} PROVE Apart(c, d)' /\ Apart(d, c)'
  <2>1. Apart(c, d) /\ Apart(d, c)
    BY TxType
  <2> QED BY <2>1, <1>3, <1>4, <1>5, <1>6 DEF Apart, tables, LinkDecided
<1> QED BY <1>2, <1>4, <1>6, <1>7, <1>8, LocalStep, RefusedStays

LEMMA OpenSessionInv ==
  ASSUME IInv, NEW c \in Clients, NEW s \in Sessions, OpenSession(c, s)
  PROVE  IInv'
<1> DEFINE x == tx[c]
           y == [x EXCEPT !.at = "commit", !.opened = {s}]
<1>1. /\ x \in Request /\ x.at = "open" /\ ClientOK(c)
      /\ tx \in [Clients -> Request]
  BY TxType DEF OpenSession
<1>2. tx' = [tx EXCEPT ![c] = y]
  BY <1>1 DEF OpenSession, Request
<1>3. /\ y \in Request /\ y.at = "commit" /\ y.minted = x.minted
      /\ y.account = x.account /\ y.who = x.who /\ y.opened = {s}
  BY <1>1 DEF Request
<1>4. tx'[c] = y /\ \A d \in Clients \ {c} : tx'[d] = tx[d]
  BY <1>1, <1>2
<1> HIDE DEF y
<1>5. UNCHANGED tables /\ refused' = refused /\ s \in FreshSessions
  BY DEF OpenSession
<1>6. ClientOK(c)'
  BY <1>1, <1>3, <1>4, <1>5
     DEF ClientOK, RequestShape, BindingReady, tables, Known, FreshSessions
<1>7. ASSUME NEW d \in Clients \ {c} PROVE Apart(c, d)' /\ Apart(d, c)'
  <2>1. Apart(c, d) /\ Apart(d, c)
    BY TxType
  <2> QED BY <2>1, <1>3, <1>4, <1>5 DEF Apart, tables, FreshSessions
<1> QED BY <1>2, <1>3, <1>5, <1>6, <1>7, LocalStep, RefusedStays

-----------------------------------------------------------------------------
(* What a commit does: it binds a new identity, or finds the account bound, *)
(* and the session is of that identity.                                     *)
Binds(c) ==
  /\ tx[c].minted = {tx[c].who}
  /\ link[tx[c].who] = None /\ Known(tx[c].account) = {}
  /\ link' = [link EXCEPT ![tx[c].who] = tx[c].account]

Returns(c) ==
  /\ tx[c].minted = {}
  /\ link[tx[c].who] = tx[c].account
  /\ link' = link

Opens(c, s) ==
  /\ tx[c].account \in Accounts /\ tx[c].who \in Identities
  /\ tx[c].opened = {s} /\ owner[s] = None
  /\ owner' = [owner EXCEPT ![s] = tx[c].who]
  /\ provenBy' = [provenBy EXCEPT ![s] = tx[c].account]

LEMMA CommitCases ==
  ASSUME IInv, NEW c \in Clients, Commit(c)
  PROVE  /\ \E s \in Sessions : Opens(c, s)
         /\ Binds(c) \/ Returns(c)
         /\ tx' = [tx EXCEPT ![c] = NoRequest] /\ refused' = refused
<1> DEFINE x == tx[c]
<1>1. /\ x \in Request /\ x.at = "commit" /\ ClientOK(c)
      /\ link \in [Identities -> Accounts \cup {None}]
      /\ owner \in [Sessions -> Identities \cup {None}]
      /\ provenBy \in [Sessions -> Accounts \cup {None}]
  BY TxType DEF Commit, IInv, TypeOK
<1>2. x.account \in Accounts /\ x.who \in Identities
  BY <1>1 DEF ClientOK, RequestShape, Request
<1>3. PICK s \in Sessions : x.opened = {s} /\ owner[s] = None
  BY <1>1 DEF ClientOK, RequestShape
<1>4. /\ owner' = [owner EXCEPT ![s] = x.who]
      /\ provenBy' = [provenBy EXCEPT ![s] = x.account]
  BY <1>1, <1>3 DEF Commit
<1>5. CASE x.minted = {}
  <2>1. link' = link
    BY <1>1, <1>5 DEF Commit
  <2> QED BY <1>1, <1>2, <1>3, <1>4, <1>5, <2>1
          DEF Opens, Returns, Commit, ClientOK, BindingReady
<1>6. CASE x.minted # {}
  <2>1. x.minted = {x.who}
    BY <1>1, <1>6 DEF ClientOK, RequestShape
  <2>2. link' = [link EXCEPT ![x.who] = x.account]
    BY <1>1, <1>2, <2>1 DEF Commit
  <2> QED BY <1>1, <1>2, <1>3, <1>4, <1>6, <2>1, <2>2
          DEF Opens, Binds, Commit, ClientOK, BindingReady
<1> QED BY <1>5, <1>6

(* In either case: bindings only grow, and only by that of the account. *)
LEMMA CommitLink ==
  ASSUME IInv, NEW c \in Clients, Binds(c) \/ Returns(c),
         tx[c].account \in Accounts, tx[c].who \in Identities
  PROVE  /\ link' \in [Identities -> Accounts \cup {None}]
         /\ link'[tx[c].who] = tx[c].account
         /\ \A i \in Identities : link[i] # None => link'[i] = link[i]
         /\ \A i \in Identities : i # tx[c].who => link'[i] = link[i]
BY DEF IInv, TypeOK, Binds, Returns

LEMMA CommitTables ==
  ASSUME IInv, NEW c \in Clients, NEW s \in Sessions, Opens(c, s),
         Binds(c) \/ Returns(c), refused' = refused
  PROVE  TablesConsistent'
<1> DEFINE x == tx[c]
<1>1. /\ x.account \in Accounts /\ x.who \in Identities
      /\ owner \in [Sessions -> Identities \cup {None}]
      /\ provenBy \in [Sessions -> Accounts \cup {None}]
      /\ owner' = [owner EXCEPT ![s] = x.who]
      /\ provenBy' = [provenBy EXCEPT ![s] = x.account]
      /\ refused \subseteq Accounts
  BY DEF Opens, IInv, TypeOK
<1>2. /\ link'[x.who] = x.account
      /\ \A i \in Identities : link[i] # None => link'[i] = link[i]
      /\ \A i \in Identities : i # x.who => link'[i] = link[i]
  BY <1>1, CommitLink
<1>3. /\ OneIdentityPerAccount /\ SessionOfProvenAccount /\ RefusedCanRetry
      /\ \A u \in Sessions : owner[u] # None => provenBy[u] # None
  BY DEF IInv, Consistent, TablesConsistent
<1>4. OneIdentityPerAccount'
  <2>1. CASE Returns(c)
    BY <1>3, <2>1 DEF Returns, OneIdentityPerAccount
  <2>2. CASE Binds(c)
    <3>1. \A i \in Identities : link[i] # x.account
      BY <2>2 DEF Binds, Known
    <3> QED BY <1>1, <1>2, <1>3, <3>1 DEF OneIdentityPerAccount
  <2> QED BY <2>1, <2>2
<1>5. ASSUME NEW u \in Sessions, owner'[u] # None
      PROVE  link'[owner'[u]] = provenBy'[u] /\ provenBy'[u] # None
  <2>1. CASE u = s
    BY <1>1, <1>2, <2>1
  <2>2. CASE u # s
    <3>1. owner'[u] = owner[u] /\ provenBy'[u] = provenBy[u]
          /\ owner[u] \in Identities
      BY <1>1, <1>5, <2>2
    <3>2. link[owner[u]] = provenBy[u] /\ provenBy[u] # None
      BY <1>3, <1>5, <3>1 DEF SessionOfProvenAccount
    <3> QED BY <1>2, <3>1, <3>2
  <2> QED BY <2>1, <2>2
<1>6. RefusedCanRetry'
  BY <1>1, <1>2, <1>3 DEF RefusedCanRetry, Known
<1> QED BY <1>4, <1>5, <1>6 DEF TablesConsistent, SessionOfProvenAccount

(* What another request relies on is not touched. *)
LEMMA CommitOthers ==
  ASSUME IInv, NEW c \in Clients, NEW s \in Sessions, Opens(c, s),
         Binds(c) \/ Returns(c), NEW d \in Clients \ {c}, tx'[d] = tx[d]
  PROVE  ClientOK(d)'
<1> DEFINE x == tx[c]
           z == tx[d]
<1>1. /\ x.account \in Accounts /\ x.who \in Identities /\ x.opened = {s}
      /\ owner \in [Sessions -> Identities \cup {None}]
      /\ owner' = [owner EXCEPT ![s] = x.who]
  BY DEF Opens, IInv, TypeOK
<1>2. /\ \A i \in Identities : link[i] # None => link'[i] = link[i]
      /\ \A i \in Identities : i # x.who => link'[i] = link[i]
  BY <1>1, CommitLink
<1>3. ClientOK(d) /\ Apart(c, d) /\ z \in Request
  BY TxType
<1>4. RequestShape(d)'
  <2>1. \A u \in z.opened : u \in Sessions /\ u # s /\ owner'[u] = owner[u]
    BY <1>1, <1>3 DEF Apart, Request
  <2> QED BY <1>3, <2>1 DEF ClientOK, RequestShape
<1>5. BindingReady(d)'
  <2>1. CASE z.at = "idle"
    BY <1>3, <2>1 DEF ClientOK, RequestShape, BindingReady, NoRequest
  <2>2. CASE z.at # "idle"
    <3>1. z.who \in Identities /\ z.account \in Accounts
      BY <1>3, <2>2 DEF ClientOK, RequestShape, Request
    <3>2. z.at = "link" => z.minted = {} /\ link'[z.who] = None
      BY <1>1, <1>2, <1>3, <3>1 DEF ClientOK, BindingReady, Apart
    <3>3. z.at \in {"open", "commit"} /\ z.minted = {} =>
            link'[z.who] = z.account
      BY <1>2, <1>3, <3>1 DEF ClientOK, BindingReady
    <3>4. ASSUME z.minted # {}
          PROVE  link'[z.who] = None /\ Known(z.account)' = {}
      <4>1. link[z.who] = None /\ Known(z.account) = {}
        BY <1>3, <3>4 DEF ClientOK, BindingReady
      <4>2. z.who # x.who
        BY <1>1, <1>3, <4>1 DEF Apart
      <4>3. x.account # z.account
        <5>1. CASE Binds(c)
          BY <1>3, <3>4, <5>1 DEF Binds, Apart
        <5>2. CASE Returns(c)
          BY <1>1, <4>1, <5>2 DEF Returns, Known
        <5> QED BY <5>1, <5>2
      <4>4. link'[x.who] = x.account
        BY <1>1, CommitLink
      <4> QED BY <1>1, <1>2, <3>1, <4>1, <4>2, <4>3, <4>4 DEF Known
    <3> QED BY <3>2, <3>3, <3>4, tx'[d] = z DEF BindingReady, Known
  <2> QED BY <2>1, <2>2
<1> QED BY <1>4, <1>5 DEF ClientOK

LEMMA CommitInv ==
  ASSUME IInv, NEW c \in Clients, Commit(c)
  PROVE  IInv'
<1>1. /\ Binds(c) \/ Returns(c)
      /\ tx' = [tx EXCEPT ![c] = NoRequest] /\ refused' = refused
  BY CommitCases
<1>2. PICK s \in Sessions : Opens(c, s)
  BY CommitCases
<1>3. /\ tx'[c] = NoRequest /\ \A d \in Clients \ {c} : tx'[d] = tx[d]
      /\ tx' \in [Clients -> Request]
  <2>1. NoRequest \in Request
    BY DEF NoRequest, Request
  <2> QED BY <1>1, <2>1, TxType
<1>4. /\ link' \in [Identities -> Accounts \cup {None}]
      /\ \A i \in Identities : link[i] # None => link'[i] = link[i]
  BY <1>1, <1>2, CommitLink DEF Opens
<1>5. TypeOK'
  BY <1>1, <1>2, <1>3, <1>4 DEF IInv, TypeOK, Opens
<1>6. TablesConsistent'
  BY <1>1, <1>2, CommitTables
<1>7. ASSUME NEW d \in Clients PROVE ClientOK(d)'
  <2>1. CASE d = c
    BY <1>3, <2>1 DEF ClientOK, RequestShape, BindingReady, NoRequest
  <2>2. CASE d # c
    BY <1>1, <1>2, <1>3, <2>2, CommitOthers
  <2> QED BY <2>1, <2>2
<1>8. ASSUME NEW d \in Clients, NEW e \in Clients, d # e PROVE Apart(d, e)'
  <2>1. CASE d = c \/ e = c
    BY <1>3, <2>1 DEF Apart, NoRequest
  <2>2. CASE d # c /\ e # c
    <3>1. tx'[d] = tx[d] /\ tx'[e] = tx[e] /\ Apart(d, e)
          /\ tx[d] \in Request
      BY <1>3, <1>8, <2>2, TxType
    <3> QED BY <1>4, <3>1 DEF Apart, Request
  <2> QED BY <2>1, <2>2
<1> QED BY <1>5, <1>6, <1>7, <1>8 DEF IInv, Consistent, ClientOK

LEMMA NextInv ==
  ASSUME IInv, [Next]_vars PROVE IInv'
<1>1. ASSUME NEW c \in Clients, NEW t \in Assertions, RefuseAssertion(c, t)
      PROVE  IInv'
  <2>1. UNCHANGED vars
    BY <1>1 DEF RefuseAssertion
  <2> QED BY <2>1
          DEF vars, IInv, TypeOK, Consistent, TablesConsistent, RequestShape,
              BindingReady, Apart, OneIdentityPerAccount, Known,
              SessionOfProvenAccount, RefusedCanRetry
<1>2. ASSUME NEW c \in Clients, NEW t \in Assertions, Resolve(c, t)
      PROVE  IInv'
  BY <1>2, ResolveInv
<1>3. ASSUME NEW c \in Clients, Link(c) PROVE IInv'
  BY <1>3, LinkInv
<1>4. ASSUME NEW c \in Clients, RefuseLink(c) PROVE IInv'
  <2>1. tx[c].account \in Accounts
    BY <1>4, TxType DEF RefuseLink, ClientOK, RequestShape, Request
  <2>2. refused' \subseteq Accounts /\ \A a \in refused' : Known(a) # {}
    BY <1>4, <2>1
       DEF RefuseLink, IInv, TypeOK, Consistent, TablesConsistent,
           RefusedCanRetry
  <2> QED BY <1>4, <2>2, ClearInv DEF RefuseLink
<1>5. ASSUME NEW c \in Clients, NEW s \in Sessions, OpenSession(c, s)
      PROVE  IInv'
  BY <1>5, OpenSessionInv
<1>6. ASSUME NEW c \in Clients, Commit(c) PROVE IInv'
  BY <1>6, CommitInv
<1>7. ASSUME NEW c \in Clients, Abort(c) PROVE IInv'
  BY <1>7, ClearInv, RefusedStays DEF Abort
<1>8. CASE UNCHANGED vars
  BY <1>8
     DEF vars, IInv, TypeOK, Consistent, TablesConsistent, RequestShape,
         BindingReady, Apart, OneIdentityPerAccount, Known,
         SessionOfProvenAccount, RefusedCanRetry
<1> QED BY <1>1, <1>2, <1>3, <1>4, <1>5, <1>6, <1>7, <1>8
        DEF Next, Begin, Step

(* The inductive invariant: whatever the code's guards, the index and the  *)
(* rollbacks leave of concurrent logins.                                   *)
THEOREM Invariant == Spec => []IInv
BY InitInv, NextInv, PTL DEF Spec

(* What a request has found out and inserted stays true until its COMMIT, *)
(* whatever the others commit meanwhile.                                  *)
THEOREM RequestsStayConsistent == Spec => []Consistent
BY Invariant, PTL DEF IInv

(* The tables and the requests under way keep their types. *)
THEOREM TypeCorrect == Spec => []TypeOK
BY Invariant, PTL DEF IInv

(* However many first logins of an account race in authenticate, the account *)
(* ends up with one identity.                                                *)
THEOREM SingleIdentity == Spec => []OneIdentityPerAccount
<1>1. IInv => OneIdentityPerAccount
  BY DEF IInv, Consistent, TablesConsistent
<1> QED BY <1>1, Invariant, PTL

(* A session belongs to the identity of the account that was proven for it. *)
THEOREM SessionsProven == Spec => []SessionOfProvenAccount
<1>1. IInv => SessionOfProvenAccount
  BY DEF IInv, Consistent, TablesConsistent
<1> QED BY <1>1, Invariant, PTL

(* Whoever was refused a first login finds the account bound: the retry of *)
(* oauthAuthenticateHandler's caller is a returning login.                 *)
THEOREM RefusedReturns == Spec => []RefusedCanRetry
<1>1. IInv => RefusedCanRetry
  BY DEF IInv, Consistent, TablesConsistent
<1> QED BY <1>1, Invariant, PTL

-----------------------------------------------------------------------------
(***************************************************************************)
(* The refinement. An account has at most one identity, so that the one    *)
(* chosen for it by the mapping is the one that is bound to it. The lemma  *)
(* is about any value of link, to be used before and after a step.         *)
(***************************************************************************)
BoundIn(L, a) == {i \in Identities : L[i] = a}
ChosenIn(L, a) ==
  IF BoundIn(L, a) = {} THEN None ELSE CHOOSE i \in BoundIn(L, a) : TRUE

LEMMA Chosen ==
  ASSUME NEW L, NEW a \in Accounts,
         \A i, j \in Identities : L[i] = L[j] /\ L[i] # None => i = j
  PROVE  /\ \A i \in Identities : L[i] = a <=> ChosenIn(L, a) = i
         /\ ChosenIn(L, a) \in Identities \cup {None}
<1>1. CASE BoundIn(L, a) = {}
  <2>1. ChosenIn(L, a) = None
    BY <1>1 DEF ChosenIn
  <2> QED BY <1>1, <2>1 DEF BoundIn
<1>2. CASE BoundIn(L, a) # {}
  <2>1. PICK j \in Identities : L[j] = a
    BY <1>2 DEF BoundIn
  <2>2. \A i \in Identities : L[i] = a <=> i = j
    BY <2>1
  <2>3. BoundIn(L, a) = {j}
    BY <2>1, <2>2 DEF BoundIn
  <2>4. ChosenIn(L, a) = j
    BY <2>3 DEF ChosenIn
  <2> QED BY <2>2, <2>4
<1> QED BY <1>1, <1>2

(* The state of ExternalAccounts that a state of OAuthLogin stands for. *)
IdentitiesOf(L) == [a \in Accounts |-> ChosenIn(L, a)]
SessionsOf(O) == [i \in Identities |-> {s \in Sessions : O[s] = i}]

LEMMA Mapping ==
  /\ Directory!Init <=> /\ IdentitiesOf(link) = [a \in Accounts |-> None]
                        /\ SessionsOf(owner) = [i \in Identities |-> {}]
  /\ IdentitiesOf(link') = IdentitiesOf(link) /\ SessionsOf(owner') = SessionsOf(owner)
       => UNCHANGED Directory!vars
BY DEF Directory!Init, Directory!vars, IdentitiesOf, SessionsOf, ChosenIn,
       BoundIn, Known

LEMMA InitMaps == Init => Directory!Init
<1> SUFFICES ASSUME Init PROVE Directory!Init
  OBVIOUS
<1>1. ASSUME NEW a \in Accounts PROVE ChosenIn(link, a) = None
  BY DEF Init, ChosenIn, BoundIn
<1>2. IdentitiesOf(link) = [a \in Accounts |-> None]
  BY <1>1 DEF IdentitiesOf
<1>3. SessionsOf(owner) = [i \in Identities |-> {}]
  BY DEF Init, SessionsOf
<1> QED BY <1>2, <1>3, Mapping

(* What a COMMIT does to the mapped state. *)
LEMMA SessionAdded ==
  ASSUME IInv, NEW c \in Clients, NEW s \in Sessions, Opens(c, s)
  PROVE  SessionsOf(owner') = [SessionsOf(owner) EXCEPT ![tx[c].who] = @ \cup {s}]
<1>1. /\ owner' = [owner EXCEPT ![s] = tx[c].who] /\ owner[s] = None
      /\ owner \in [Sessions -> Identities \cup {None}]
      /\ tx[c].who \in Identities
  BY DEF Opens, IInv, TypeOK
<1>2. ASSUME NEW i \in Identities
      PROVE  {q \in Sessions : owner'[q] = i} =
               IF i = tx[c].who THEN {q \in Sessions : owner[q] = i} \cup {s}
               ELSE {q \in Sessions : owner[q] = i}
  BY <1>1
<1>3. ASSUME NEW i \in Identities
      PROVE  SessionsOf(owner')[i] =
               IF i = tx[c].who THEN SessionsOf(owner)[i] \cup {s}
               ELSE SessionsOf(owner)[i]
  BY <1>2 DEF SessionsOf
<1>4. /\ SessionsOf(owner') = [i \in Identities |-> SessionsOf(owner')[i]]
      /\ SessionsOf(owner) = [i \in Identities |-> SessionsOf(owner)[i]]
  BY DEF SessionsOf
<1> QED BY <1>1, <1>3, <1>4

LEMMA BindsMaps ==
  ASSUME IInv, NEW c \in Clients, NEW s \in Sessions, Opens(c, s), Binds(c),
         NEW a \in Accounts, a = tx[c].account,
         NEW i \in Identities, i = tx[c].who
  PROVE  Directory!FirstLogin(a, i, s)
<1>1. /\ a \in Accounts /\ i \in Identities /\ owner[s] = None
      /\ link \in [Identities -> Accounts \cup {None}]
      /\ link[i] = None /\ Known(a) = {}
      /\ link' = [link EXCEPT ![i] = a]
  BY DEF Opens, Binds, IInv, TypeOK
<1>2. /\ OneIdentityPerAccount /\ OneIdentityPerAccount'
      /\ SessionOfProvenAccount
      /\ \A q \in Sessions : owner[q] # None => provenBy[q] # None
  <2>1. TablesConsistent
    BY DEF IInv, Consistent
  <2>2. OneIdentityPerAccount'
    BY <1>1, <2>1 DEF TablesConsistent, OneIdentityPerAccount, Known
  <2> QED BY <2>1, <2>2 DEF TablesConsistent
<1>3. \A b \in Accounts :
        /\ \A j \in Identities : link[j] = b <=> ChosenIn(link, b) = j
        /\ \A j \in Identities : link'[j] = b <=> ChosenIn(link', b) = j
        /\ ChosenIn(link, b) \in Identities \cup {None}
        /\ ChosenIn(link', b) \in Identities \cup {None}
  BY <1>2, Chosen DEF OneIdentityPerAccount
<1>4. IdentitiesOf(link)[a] = None
  BY <1>1, <1>3 DEF IdentitiesOf, Known
<1>5. \A b \in Accounts : IdentitiesOf(link)[b] # i
  BY <1>1, <1>3 DEF IdentitiesOf
<1>6. IdentitiesOf(link') = [IdentitiesOf(link) EXCEPT ![a] = i]
  <2>1. ChosenIn(link', a) = i
    <3>1. link'[i] = a
      BY <1>1
    <3> QED BY <1>3, <3>1
  <2>2. ASSUME NEW b \in Accounts, b # a
        PROVE  ChosenIn(link', b) = ChosenIn(link, b)
    <3>1. \A j \in Identities : link'[j] = b <=> link[j] = b
      BY <1>1, <2>2
    <3> QED BY <1>3, <2>2, <3>1
  <2> QED BY <2>1, <2>2 DEF IdentitiesOf
<1>7. \A j \in Identities : s \notin SessionsOf(owner)[j]
  BY <1>1 DEF SessionsOf
<1>8. SessionsOf(owner') = [SessionsOf(owner) EXCEPT ![i] = {s}]
  <2>1. SessionsOf(owner)[i] = {}
    BY <1>1, <1>2 DEF SessionsOf, SessionOfProvenAccount
  <2>2. SessionsOf(owner)[i] \cup {s} = {s}
    BY <2>1
  <2> QED BY <2>2, SessionAdded
<1> QED BY <1>4, <1>5, <1>6, <1>7, <1>8
        DEF Directory!FirstLogin, Directory!Unused, IdentitiesOf, SessionsOf,
            ChosenIn, BoundIn, Known

LEMMA ReturnsMaps ==
  ASSUME IInv, NEW c \in Clients, NEW s \in Sessions, Opens(c, s), Returns(c),
         NEW a \in Accounts, a = tx[c].account,
         NEW i \in Identities, i = tx[c].who
  PROVE  Directory!Login(a, s)
<1>1. /\ a \in Accounts /\ i \in Identities /\ owner[s] = None
      /\ link[i] = a /\ link' = link
  BY DEF Opens, Returns
<1>2. IdentitiesOf(link)[a] = i
  <2>1. OneIdentityPerAccount
    BY DEF IInv, Consistent, TablesConsistent
  <2> QED BY <1>1, <2>1, Chosen DEF OneIdentityPerAccount, IdentitiesOf
<1>3. IdentitiesOf(link)[a] # None
  BY <1>1, <1>2
<1>4. \A j \in Identities : s \notin SessionsOf(owner)[j]
  BY <1>1 DEF SessionsOf
<1>5. SessionsOf(owner') =
        [SessionsOf(owner) EXCEPT ![IdentitiesOf(link)[a]] = @ \cup {s}]
  BY <1>2, SessionAdded
<1>6. IdentitiesOf(link') = IdentitiesOf(link)
  BY <1>1
<1> QED BY <1>3, <1>4, <1>5, <1>6
        DEF Directory!Login, Directory!Unused, IdentitiesOf, SessionsOf,
            ChosenIn, BoundIn, Known

LEMMA NextMaps ==
  ASSUME IInv, [Next]_vars PROVE [Directory!Next]_(Directory!vars)
<1>1. ASSUME NEW c \in Clients, Commit(c) PROVE Directory!Next
  <2>1. PICK s \in Sessions : Opens(c, s)
    BY <1>1, CommitCases
  <2>2. PICK a \in Accounts, i \in Identities :
          a = tx[c].account /\ i = tx[c].who
    BY <2>1 DEF Opens
  <2>3. CASE Binds(c)
    BY <2>1, <2>2, <2>3, BindsMaps DEF Directory!Next
  <2>4. CASE Returns(c)
    BY <2>1, <2>2, <2>4, ReturnsMaps DEF Directory!Next
  <2> QED BY <1>1, <2>3, <2>4, CommitCases
<1>2. CASE UNCHANGED tables
  <2>1. link' = link /\ owner' = owner
    BY <1>2 DEF tables
  <2> QED BY <2>1, Mapping
<1>3. UNCHANGED tables \/ \E c \in Clients : Commit(c)
  BY DEF vars, tables, Next, Begin, Step, RefuseAssertion, Resolve, Link,
         RefuseLink, OpenSession, Abort
<1> QED BY <1>1, <1>2, <1>3

(* authenticate's transactions, however they interleave, fail or wait for  *)
(* each other, show as atomic logins: an identity appears with its account *)
(* and its first session in one step, and an account keeps its identity.   *)
THEOREM Refinement == Spec => ImplementsDirectory
BY Invariant, InitMaps, NextMaps, PTL DEF Spec, ImplementsDirectory, Directory!Spec

=============================================================================
