----------------------------- MODULE TokenLedger -----------------------------
(***************************************************************************)
(* What the session and refresh token tables promise to whoever only sees  *)
(* their committed rows: every request is one step, or none when it fails. *)
(* RefreshTokens, where a request is many statements that interleave with  *)
(* those of others, implements this specification.                         *)
(***************************************************************************)
CONSTANTS Sessions, Tokens, SessionOf, Reasons, None

VARIABLES
  session,  \* "absent", "active" or the reason of termination
  issued, used, revoked, expired,   \* sets of tokens
  succ      \* the token that replaced a used one

vars == <<session, issued, used, revoked, expired, succ>>

TokensOf(s) == {t \in Tokens : SessionOf[t] = s}
Valid(t) == t \in issued /\ t \notin used \cup revoked \cup expired

Init ==
  /\ session = [s \in Sessions |-> "absent"]
  /\ issued = {} /\ used = {} /\ revoked = {} /\ expired = {}
  /\ succ = [t \in Tokens |-> None]

(* A login creates a session together with its first token. *)
Open(s, t) ==
  /\ session[s] = "absent"
  /\ t \in TokensOf(s) \ issued
  /\ session' = [session EXCEPT ![s] = "active"]
  /\ issued' = issued \cup {t}
  /\ UNCHANGED <<used, revoked, expired, succ>>

(***************************************************************************)
(* A refresh turns the one token it was given, valid up to this very step  *)
(* (a token whose 30 days end while the exchange commits counts), into the *)
(* only active token of the session. Whether the session is terminated is  *)
(* not asked: a logout can have missed the token of a concurrent refresh.  *)
(***************************************************************************)
Exchange(t, n) ==
  /\ t \in issued /\ t \notin used \cup revoked
  /\ n \in TokensOf(SessionOf[t]) \ issued
  /\ \A u \in TokensOf(SessionOf[t]) \cap issued :
       u # t => u \in used \cup revoked
  /\ used' = used \cup {t}
  /\ issued' = issued \cup {n}
  /\ succ' = [succ EXCEPT ![t] = n]
  /\ UNCHANGED <<session, revoked, expired>>

(* A refresh with a token that is not valid kills the whole session. *)
Reuse(t) ==
  LET s == SessionOf[t] IN
  /\ t \in issued /\ ~Valid(t)
  /\ revoked' = revoked \cup (TokensOf(s) \cap issued)
  /\ session' = [session EXCEPT ![s] =
                   IF @ = "active" THEN "TOKEN_REUSE" ELSE @]
  /\ UNCHANGED <<issued, used, expired, succ>>

(***************************************************************************)
(* A logout or a password change ends active sessions and revokes tokens,  *)
(* never those of a session it leaves active. Which tokens exactly depends *)
(* on the refreshes it races with.                                         *)
(***************************************************************************)
Terminate(E, R, reason) ==
  /\ \A s \in E : session[s] = "active"
  /\ R \subseteq issued
  /\ \A t \in R : SessionOf[t] \in E \/ session[SessionOf[t]] # "active"
  /\ session' = [s \in Sessions |-> IF s \in E THEN reason ELSE session[s]]
  /\ revoked' = revoked \cup R
  /\ UNCHANGED <<issued, used, expired, succ>>

Expire(t) ==
  /\ t \in issued
  /\ expired' = expired \cup {t}
  /\ UNCHANGED <<session, issued, used, revoked, succ>>

Next ==
  \/ \E s \in Sessions, t \in Tokens : Open(s, t)
  \/ \E t, n \in Tokens : Exchange(t, n)
  \/ \E t \in Tokens : Reuse(t) \/ Expire(t)
  \/ \E E \in SUBSET Sessions, R \in SUBSET Tokens,
        reason \in Reasons \ {"TOKEN_REUSE"} : Terminate(E, R, reason)

Spec == Init /\ [][Next]_vars

=============================================================================
