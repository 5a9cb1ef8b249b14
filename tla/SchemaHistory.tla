----------------------------- MODULE SchemaHistory -----------------------------
(***************************************************************************)
(* The schema as the scripts of db/migrations promise it: script after     *)
(* script in the order of their names, each once, with its row in          *)
(* schema_migrations. Scripts that commit by themselves may be ahead of    *)
(* their row. Migrations implements this specification.                    *)
(***************************************************************************)
EXTENDS Naturals, FiniteSets

CONSTANTS N, SelfCommitting

VARIABLES
  schema,  \* the scripts the schema shows the effect of
  log      \* the rows of schema_migrations

vars == <<schema, log>>

NextScript == Cardinality(schema) + 1

Init == schema = {} /\ log = {}

(* A script and its row appear together, when all before it have theirs. *)
Advance ==
  /\ log = schema /\ NextScript \in 1..N
  /\ schema' = schema \cup {NextScript}
  /\ log' = schema'

(* A script that commits by itself appears without its row ... *)
Slip ==
  /\ log = schema /\ NextScript \in SelfCommitting
  /\ schema' = schema \cup {NextScript}
  /\ UNCHANGED log

(* ... which follows, or never does: then nothing else does either. *)
CatchUp ==
  /\ log # schema
  /\ log' = schema
  /\ UNCHANGED schema

Next == Advance \/ Slip \/ CatchUp

Spec == Init /\ [][Next]_vars

=============================================================================
