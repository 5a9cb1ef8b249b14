----------------------------- MODULE AddressBook -----------------------------
(***************************************************************************)
(* The life of an e-mail address as the committed rows show it: registered *)
(* by at most one identity, verified by a token that was sent to it. Every *)
(* request is one step. Accounts implements this specification.            *)
(***************************************************************************)
CONSTANTS Identities, Verifications, EmailOf, IdentityOf

VARIABLES
  identifier,    \* "absent", "unverified" or "verified"
  verification   \* "absent", "active", "used" or "invalidated"

vars == <<identifier, verification>>

TokensFor(i) == {v \in Verifications : IdentityOf[v] = i}

Init ==
  /\ identifier = [i \in Identities |-> "absent"]
  /\ verification = [v \in Verifications |-> "absent"]

(* An identity registers an address no other has, and gets a token. *)
Register(i, v) ==
  /\ \A j \in Identities : EmailOf[j] = EmailOf[i] => identifier[j] = "absent"
  /\ v \in TokensFor(i) /\ verification[v] = "absent"
  /\ identifier' = [identifier EXCEPT ![i] = "unverified"]
  /\ verification' = [verification EXCEPT ![v] = "active"]

(***************************************************************************)
(* A new token replaces the one that is active. The identity may be        *)
(* verified: whether it is was asked before.                               *)
(***************************************************************************)
Resend(i, v) ==
  /\ identifier[i] # "absent"
  /\ v \in TokensFor(i) /\ verification[v] = "absent"
  /\ verification' =
       [w \in Verifications |->
          IF w = v THEN "active"
          ELSE IF w \in TokensFor(i) /\ verification[w] = "active"
               THEN "invalidated" ELSE verification[w]]
  /\ UNCHANGED identifier

(* The active token is used, and verifies the address. *)
Confirm(v) ==
  /\ verification[v] = "active"
  /\ verification' = [verification EXCEPT ![v] = "used"]
  /\ identifier' = [identifier EXCEPT ![IdentityOf[v]] = "verified"]

Next ==
  \E v \in Verifications :
    \/ Confirm(v)
    \/ \E i \in Identities : Register(i, v) \/ Resend(i, v)

Spec == Init /\ [][Next]_vars

=============================================================================
