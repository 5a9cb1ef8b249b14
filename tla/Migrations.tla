------------------------------ MODULE Migrations ------------------------------
(***************************************************************************)
(* npm run migrate: runs of run-migrations.ts, one after the other or at   *)
(* the same time (two instances being deployed), over the schema and the   *)
(* table schema_migrations.                                                *)
(*                                                                         *)
(* The statements of a run are pool.query calls, each awaited before the   *)
(* next, so all are on one connection and BEGIN holds for those after it.  *)
(* The scripts are the files after 000, numbered in the order of their     *)
(* names. PostgreSQL runs DDL in the transaction it is given. Most scripts *)
(* fail where they have been applied ("already exists"); 012 does not; 015 *)
(* and 016 have a BEGIN and a COMMIT of their own, and that COMMIT ends    *)
(* the runner's transaction: the INSERT after it commits by itself.        *)
(***************************************************************************)
EXTENDS Naturals, FiniteSets

CONSTANTS
  Runners,         \* runs that may be under way at the same time
  N,               \* the number of scripts
  SelfCommitting,  \* those with a COMMIT of their own
  Repeatable,      \* those that succeed where they have been applied
  MaxFailures      \* failures and crashes of runs; a bound

ASSUME MigrationsAssumption ==
  /\ N \in Nat \ {0} /\ MaxFailures \in Nat
  /\ SelfCommitting \subseteq 1..N /\ Repeatable \subseteq 1..N
  /\ SelfCommitting \cap Repeatable = {}

Scripts == 1..N

VARIABLES
  applied,   \* scripts whose effect is committed
  recorded,  \* committed rows of schema_migrations
  runner,    \* where each run is
  failures   \* how many have failed so far

vars == <<applied, recorded, runner, failures>>
tables == <<applied, recorded>>

Run ==
  [ at     : {"off", "check", "run", "record", "commit", "exit0", "exit1"},
    script : Scripts,
    ran    : BOOLEAN ]  \* its transaction has run the script

NoRun == [at |-> "off", script |-> 1, ran |-> FALSE]

Others(r) == Runners \ {r}

(* Mutant of Proceed: the loop does not end. *)
ProceedPastEnd(r) == [at |-> "check", script |-> runner[r].script + 1, ran |-> FALSE]

(* To the next file, or to process.exit(0). *)
Proceed(r) ==
  IF runner[r].script = N THEN [NoRun EXCEPT !.at = "exit0"]
  ELSE [at |-> "check", script |-> runner[r].script + 1, ran |-> FALSE]

-----------------------------------------------------------------------------
(* 000 creates schema_migrations unless it is there; the files follow. *)
Start(r) ==
  /\ runner[r].at \in {"off", "exit0", "exit1"}
  /\ runner' = [runner EXCEPT ![r] = [NoRun EXCEPT !.at = "check"]]
  /\ UNCHANGED <<tables, failures>>

(* Mutant of Check: every file is run, recorded or not. *)
CheckNothing(r) ==
  /\ runner[r].at = "check"
  /\ runner' = [runner EXCEPT ![r].at = "run"]
  /\ UNCHANGED <<tables, failures>>

(* SELECT ... FROM schema_migrations, in no transaction; then BEGIN. *)
Check(r) ==
  /\ runner[r].at = "check"
  /\ runner' = [runner EXCEPT ![r] =
                  IF @.script \in recorded THEN Proceed(r)
                  ELSE [@ EXCEPT !.at = "run"]]
  /\ UNCHANGED <<tables, failures>>

(***************************************************************************)
(* The script's locks, and the unique indexes of the catalogs, make it     *)
(* wait for another transaction that has applied it and not committed.     *)
(***************************************************************************)
ScriptDecided(r) ==
  \A q \in Others(r) :
    runner[q].ran /\ runner[q].script = runner[r].script =>
      runner[r].script \in applied

(* Mutant of RunScript: there is no BEGIN. *)
RunUntransacted(r) ==
  /\ runner[r].at = "run"
  /\ ScriptDecided(r)
  /\ runner[r].script \notin applied
  /\ applied' = applied \cup {runner[r].script}
  /\ runner' = [runner EXCEPT ![r].at = "record"]
  /\ UNCHANGED <<recorded, failures>>

RunScript(r) ==
  /\ runner[r].at = "run"
  /\ runner[r].script \notin SelfCommitting
  /\ ScriptDecided(r)
  /\ runner[r].script \in applied => runner[r].script \in Repeatable
  /\ runner' = [runner EXCEPT ![r].at = "record", ![r].ran = TRUE]
  /\ UNCHANGED <<tables, failures>>

(* 015 and 016: the script ends the transaction it was started in. *)
RunOwnCommit(r) ==
  /\ runner[r].at = "run"
  /\ runner[r].script \in SelfCommitting \ applied
  /\ applied' = applied \cup {runner[r].script}
  /\ runner' = [runner EXCEPT ![r].at = "record"]
  /\ UNCHANGED <<recorded, failures>>

(* Mutant of RunAgain: a script that fails is logged and passed over. *)
RunAgainAndGoOn(r) ==
  /\ runner[r].at = "run"
  /\ ScriptDecided(r)
  /\ runner[r].script \in applied \ Repeatable
  /\ runner' = [runner EXCEPT ![r] = Proceed(r)]
  /\ UNCHANGED <<tables, failures>>

(* The script has been applied since, or before without its row: "already *)
(* exists", ROLLBACK, process.exit(1).                                     *)
RunAgain(r) ==
  /\ runner[r].at = "run"
  /\ ScriptDecided(r)
  /\ runner[r].script \in applied \ Repeatable
  /\ runner' = [runner EXCEPT ![r] = [NoRun EXCEPT !.at = "exit1"]]
  /\ UNCHANGED <<tables, failures>>

(* Mutant of Record: the INSERT is made on another connection. *)
RecordOutside(r) ==
  /\ runner[r].at = "record"
  /\ recorded' = recorded \cup {runner[r].script}
  /\ runner' = [runner EXCEPT ![r].at = "commit"]
  /\ UNCHANGED <<applied, failures>>

(* INSERT INTO schema_migrations: in the transaction, if there still is one. *)
Record(r) ==
  /\ runner[r].at = "record"
  /\ runner[r].script \notin recorded
  /\ recorded' = IF runner[r].ran THEN recorded
                 ELSE recorded \cup {runner[r].script}
  /\ runner' = [runner EXCEPT ![r].at = "commit"]
  /\ UNCHANGED <<applied, failures>>

(* The file name is there (primary key): ROLLBACK, process.exit(1). *)
RecordAgain(r) ==
  /\ runner[r].at = "record"
  /\ runner[r].script \in recorded
  /\ runner' = [runner EXCEPT ![r] = [NoRun EXCEPT !.at = "exit1"]]
  /\ UNCHANGED <<tables, failures>>

(* COMMIT: nothing is left to commit after a script that did it itself. *)
Commit(r) ==
  /\ runner[r].at = "commit"
  /\ applied' = IF runner[r].ran THEN applied \cup {runner[r].script}
                ELSE applied
  /\ recorded' = IF runner[r].ran THEN recorded \cup {runner[r].script}
                 ELSE recorded
  /\ runner' = [runner EXCEPT ![r] = Proceed(r)]
  /\ UNCHANGED failures

(***************************************************************************)
(* A statement fails (a script on the data it finds, a lost connection) or *)
(* the process is killed: what the transaction has not committed is gone.  *)
(***************************************************************************)
Fail(r) ==
  /\ runner[r].at \in {"check", "run", "record", "commit"}
  /\ failures < MaxFailures
  /\ failures' = failures + 1
  /\ runner' = [runner EXCEPT ![r] = [NoRun EXCEPT !.at = "exit1"]]
  /\ UNCHANGED tables

-----------------------------------------------------------------------------
Init ==
  /\ applied = {} /\ recorded = {}
  /\ runner = [r \in Runners |-> NoRun]
  /\ failures = 0

Step(r) ==
  \/ Start(r) \/ Check(r) \/ RunScript(r) \/ RunOwnCommit(r) \/ RunAgain(r)
  \/ Record(r) \/ RecordAgain(r) \/ Commit(r)

Next == \E r \in Runners : Step(r) \/ Fail(r)

Spec == Init /\ [][Next]_vars

(* A run goes on, and one that has ended is started again. *)
FairSpec == Spec /\ \A r \in Runners : WF_vars(Step(r))

-----------------------------------------------------------------------------
TypeOK ==
  /\ applied \subseteq Scripts
  /\ recorded \subseteq Scripts
  /\ runner \in [Runners -> Run]
  /\ failures \in 0..MaxFailures

(***************************************************************************)
(* A deployment that goes on after exit status 0 finds the whole schema,   *)
(* whatever runs raced or failed before.                                   *)
(***************************************************************************)
ExitZeroMeansMigrated ==
  \A r \in Runners : runner[r].at = "exit0" =>
    applied = Scripts /\ recorded = Scripts

(***************************************************************************)
(* "Run migration transactionally": a script and its row are committed     *)
(* together, also by two runners at once, except for a script with its own *)
(* COMMIT, and then only for the last one applied.                         *)
(***************************************************************************)
OnlyOwnCommitsTear ==
  /\ recorded \subseteq applied
  /\ \A s \in applied \ recorded :
       s \in SelfCommitting /\ \A t \in applied : t <= s

(* Scripts are applied in the order of their names, once, each with its row *)
(* before the next, as SchemaHistory says.                                   *)
History == INSTANCE SchemaHistory WITH schema <- applied, log <- recorded
ImplementsHistory == History!Spec

(***************************************************************************)
(* Runs that are repeated bring the schema up to date, in spite of races   *)
(* and failures, unless a failure falls between the COMMIT in a script and *)
(* its row: then every later run ends at that script.                      *)
(***************************************************************************)
Torn ==
  \E s \in applied \ recorded :
    \A r \in Runners : ~(runner[r].at = "record" /\ runner[r].script = s)
EventuallyMigrated == <>[](recorded = Scripts) \/ <>Torn

=============================================================================
