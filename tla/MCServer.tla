------------------------------- MODULE MCServer -------------------------------
(* Instances of Server: r1 and r2 want the same row. *)
EXTENDS Server

CONSTANTS r1, r2, r3

TwoShareARow == [r \in Requests |-> IF r \in {r1, r2} THEN r1 ELSE r]
=============================================================================
