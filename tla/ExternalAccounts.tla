--------------------------- MODULE ExternalAccounts ---------------------------
(***************************************************************************)
(* Login with external accounts as the committed rows show it: the first   *)
(* login with an account creates an identity for it, every later one opens *)
(* a session of that identity. OAuthLogin implements this specification.   *)
(***************************************************************************)
CONSTANTS Accounts, Identities, Sessions, None

VARIABLES
  identityOf,  \* the identity an account belongs to, or None
  sessionsOf   \* the sessions of an identity

vars == <<identityOf, sessionsOf>>

Unused(s) == \A i \in Identities : s \notin sessionsOf[i]

Init ==
  /\ identityOf = [a \in Accounts |-> None]
  /\ sessionsOf = [i \in Identities |-> {}]

(* Identity, binding and session appear in one step: no part without the rest. *)
FirstLogin(a, i, s) ==
  /\ identityOf[a] = None
  /\ \A b \in Accounts : identityOf[b] # i
  /\ Unused(s)
  /\ identityOf' = [identityOf EXCEPT ![a] = i]
  /\ sessionsOf' = [sessionsOf EXCEPT ![i] = {s}]

(* An account keeps the identity it was given. *)
Login(a, s) ==
  /\ identityOf[a] # None
  /\ Unused(s)
  /\ sessionsOf' = [sessionsOf EXCEPT ![identityOf[a]] = @ \cup {s}]
  /\ UNCHANGED identityOf

Next ==
  \E a \in Accounts, s \in Sessions :
    \/ Login(a, s)
    \/ \E i \in Identities : FirstLogin(a, i, s)

Spec == Init /\ [][Next]_vars

=============================================================================
