--------------------------- MODULE MCRefreshTokens ---------------------------
(***************************************************************************)
(* Small instances of RefreshTokens: one identity; the sessions and the    *)
(* tokens of a run are the first ones of what is declared here, so that    *)
(* OwnerOf and SessionOf need no definition per run.                       *)
(***************************************************************************)
EXTENDS RefreshTokens, TLC

CONSTANTS c1, c2, c3, i1, s1, s2, a1, a2, a3, a4, b1, b2

OneIdentity == [s \in Sessions |-> i1]

ByLetter == [t \in Tokens |-> IF t \in {a1, a2, a3, a4} THEN s1 ELSE s2]

Symmetry == Permutations(Clients)
            \cup Permutations(Tokens \cap {a1, a2, a3, a4})
            \cup Permutations(Tokens \cap {b1, b2})

(***************************************************************************)
(* For liveness, where symmetry is not sound: of the ids of s1 that        *)
(* randomUUID could return, the first in this order is taken. Only one     *)
(* request at a time inserts a token of a session, so one of the choices   *)
(* is always left, and a step is possible just when it is without this.    *)
(***************************************************************************)
Drawn == issued \cup UNION {tx[c].minted : c \in Clients}
InOrder == (a2 \in Drawn => a1 \in Drawn) /\ (a3 \in Drawn => a2 \in Drawn)
DrawInOrder == InOrder'
=============================================================================
