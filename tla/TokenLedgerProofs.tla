-------------------------- MODULE TokenLedgerProofs --------------------------
(***************************************************************************)
(* RefreshTokens implements TokenLedger: the tables are the same variables *)
(* in both; a COMMIT is one step of the ledger, every other step of a      *)
(* request, and a request that is rolled back, is none.                    *)
(***************************************************************************)
EXTENDS RefreshTokensProofs

USE StoreAssumption

LEMMA LedgerInit == Init => Ledger!Init
BY DEF Init, Ledger!Init

LEMMA CommitIsLedgerStep ==
  ASSUME IInv, NEW c \in Clients, Commit(c)
  PROVE  Ledger!Next
<1> DEFINE x == tx[c]
<1>1. /\ session \in [Sessions -> SessionStates]
      /\ issued \subseteq Tokens /\ x \in Transaction /\ ClientOK(c)
      /\ x.at = "commit" /\ expired' = expired
  BY TxType DEF IInv, TypeOK, Commit
<1>2. CASE \E n \in Tokens : Rotates(c, n)
  <2>1. PICK n \in Tokens : Rotates(c, n)
    BY <1>2
  <2>2. \A u \in Ledger!TokensOf(SessionOf[x.tok]) \cap issued :
          u # x.tok => u \in used \cup revoked
    BY <1>1, <2>1
       DEF Rotates, Ledger!TokensOf, IInv, Consistent, TablesConsistent, Live
  <2>3. Ledger!Exchange(x.tok, n)
    BY <1>1, <2>1, <2>2 DEF Rotates, Ledger!Exchange, Ledger!TokensOf
  <2>4. x.tok \in Tokens
    BY <1>1, <2>1 DEF Rotates
  <2> QED BY <2>3, <2>4 DEF Ledger!Next
<1>3. CASE \E n \in Tokens : Opens(c, n)
  <2>1. PICK n \in Tokens : Opens(c, n)
    BY <1>3
  <2>2. Ledger!Open(x.sess, n)
    BY <1>1, <2>1 DEF Opens, Ledger!Open, Ledger!TokensOf
  <2> QED BY <2>1, <2>2 DEF Ledger!Next, Opens
<1>4. CASE Terminates(c) /\ x.op = "refresh"
  <2>0. /\ x.used = {} /\ x.tok \in issued /\ x.sess = SessionOf[x.tok]
        /\ x.ended \subseteq {x.sess}
    BY <1>1, <1>4 DEF Terminates, ClientOK, RequestShape, EndingReady
  <2>1. /\ x.used = {} /\ x.tok \in issued /\ x.sess = SessionOf[x.tok]
        /\ x.ended \subseteq {x.sess} /\ x.sess \in Sessions
    BY <1>1, <2>0
  <2>2. /\ Spent(x.tok)
        /\ \A t \in x.revoked : SessionOf[t] = x.sess /\ t \in issued
        /\ TokensOf(x.sess) \cap issued \subseteq revoked \cup x.revoked
        /\ x.sess \in x.ended \/ Terminated(x.sess)
    BY <1>1, <1>4, <2>1 DEF ClientOK, MisuseCovers, EndingReady
  <2>3. revoked' = revoked \cup (Ledger!TokensOf(x.sess) \cap issued)
    BY <1>1, <1>4, <2>2 DEF Terminates, Ledger!TokensOf, TokensOf
  <2>4. session' = [session EXCEPT ![x.sess] =
                      IF @ = "active" THEN "TOKEN_REUSE" ELSE @]
    BY <1>1, <1>4, <2>1, <2>2
       DEF Terminates, Terminated, Reasons, ReasonOf
  <2>5. ~Ledger!Valid(x.tok)
    BY <2>2 DEF Spent, Ledger!Valid
  <2>6. Ledger!Reuse(x.tok)
    BY <1>1, <1>4, <2>1, <2>3, <2>4, <2>5 DEF Terminates, Ledger!Reuse
  <2> QED BY <1>1, <2>1, <2>6 DEF Ledger!Next
<1>5. CASE Terminates(c) /\ x.op # "refresh"
  <2>1. /\ x.ended \in SUBSET Sessions /\ x.revoked \in SUBSET Tokens
        /\ x.revoked \subseteq issued
        /\ \A s \in x.ended : session[s] = "active"
        /\ \A t \in x.revoked : SessionOf[t] \in x.ended
                                \/ Terminated(SessionOf[t])
    BY <1>1 DEF ClientOK, EndingReady, Transaction
  <2>2. ReasonOf(x.op) \in Reasons \ {"TOKEN_REUSE"}
    BY <1>5 DEF ReasonOf, Reasons
  <2>3. Ledger!Terminate(x.ended, x.revoked, ReasonOf(x.op))
    BY <1>1, <1>5, <2>1
       DEF Terminates, Ledger!Terminate, Terminated, Reasons
  <2> QED BY <2>1, <2>2, <2>3 DEF Ledger!Next
<1> QED BY <1>2, <1>3, <1>4, <1>5, CommitCases

LEMMA LedgerNext ==
  ASSUME IInv, [Next]_vars PROVE [Ledger!Next]_(Ledger!vars)
<1>1. ASSUME NEW c \in Clients, Commit(c) PROVE Ledger!Next
  BY <1>1, CommitIsLedgerStep
<1>2. ASSUME NEW t \in Tokens, Expire(t) PROVE Ledger!Next
  <2>1. Ledger!Expire(t)
    BY <1>2 DEF Expire, Live, tables, Ledger!Expire
  <2> QED BY <2>1 DEF Ledger!Next
<1>3. ASSUME NEW c \in Clients, Begin(c) PROVE UNCHANGED Ledger!vars
  BY <1>3 DEF Begin, BeginRefresh, BeginLogout, BeginLogoutAll, BeginLogin,
              BeginPassword, tables, Ledger!vars
<1>4. ASSUME NEW c \in Clients, Step(c), ~Commit(c)
      PROVE  UNCHANGED Ledger!vars
  BY <1>4 DEF Step, LockToken, LockSession, LockIdentity, InsertCredential,
              RevokeIdentity, StartEnding, FinishEnding, Rotate, RevokeToken,
              OpenSession, RevokeSession, EndSession, tables, Ledger!vars
<1>5. ASSUME NEW c \in Clients, Abort(c) PROVE UNCHANGED Ledger!vars
  BY <1>5 DEF Abort, tables, Ledger!vars
<1>6. CASE UNCHANGED vars
  BY <1>6 DEF vars, Ledger!vars
<1> QED BY <1>1, <1>2, <1>3, <1>4, <1>5, <1>6 DEF Next

(***************************************************************************)
(* Whoever sees only committed rows sees the ledger: atomic logins,        *)
(* exchanges, reuse detections and terminations.                           *)
(***************************************************************************)
THEOREM Refinement == Spec => ImplementsLedger
BY LedgerInit, LedgerNext, Invariant, PTL
   DEF Spec, ImplementsLedger, Ledger!Spec

=============================================================================
