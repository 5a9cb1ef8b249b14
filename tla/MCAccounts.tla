------------------------------ MODULE MCAccounts ------------------------------
(* Instances of Accounts: i1 and i2 register the same address. *)
EXTENDS Accounts

CONSTANTS c1, c2, c3, i1, i2, v1, v2, v3, v4, w1

SameAddress == [i \in Identities |-> "a"]
ByLetter == [v \in Verifications |-> IF v = w1 THEN i2 ELSE i1]
=============================================================================
