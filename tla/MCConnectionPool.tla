--------------------------- MODULE MCConnectionPool ---------------------------
(* Instances of ConnectionPool: r1 and r2 want the same row. *)
EXTENDS ConnectionPool

CONSTANTS r1, r2, r3

TwoShareARow == [r \in Requests |-> IF r \in {r1, r2} THEN r1 ELSE r]
=============================================================================
