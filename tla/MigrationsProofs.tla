--------------------------- MODULE MigrationsProofs ---------------------------
(***************************************************************************)
(* Proofs about Migrations, for any number of runs and scripts: types,     *)
(* what exit status 0 means, which scripts can be torn from their row, and *)
(* that the runs together show the schema's history of SchemaHistory.      *)
(*                                                                         *)
(* The argument: a run that is at a script has seen, or made, the row of   *)
(* every script before it (RunnerOK), so a script is only ever applied     *)
(* when all before it are recorded (TablesOK). Rows and scripts are never  *)
(* taken away, so no step of one run spoils what another one has seen.     *)
(***************************************************************************)
EXTENDS Migrations, TLAPS, FiniteSetTheorems

USE MigrationsAssumption

RunnerOK(r) ==
  /\ runner[r].at \in {"check", "run", "record", "commit"} =>
       \A s \in Scripts : s < runner[r].script => s \in recorded
  /\ runner[r].ran => /\ runner[r].at \in {"record", "commit"}
                      /\ runner[r].script \notin SelfCommitting
  /\ runner[r].at = "record" /\ ~runner[r].ran => runner[r].script \in applied
  /\ runner[r].at = "commit" /\ ~runner[r].ran => runner[r].script \in recorded
  /\ runner[r].at = "exit0" => Scripts \subseteq recorded

TablesOK ==
  /\ recorded \subseteq applied
  /\ \A s \in applied : \A t \in Scripts : t < s => t \in recorded
  /\ applied \ recorded \subseteq SelfCommitting

IInv == TypeOK /\ TablesOK /\ \A r \in Runners : RunnerOK(r)

-----------------------------------------------------------------------------
LEMMA RunType ==
  ASSUME TypeOK, NEW r \in Runners
  PROVE  /\ runner[r] \in Run
         /\ runner[r].script \in Nat /\ 1 <= runner[r].script
         /\ runner[r].script <= N
         /\ runner[r].ran \in BOOLEAN
BY DEF TypeOK, Run, Scripts

(* A run that changes nothing but itself leaves the others what they are, *)
(* and so does one that adds scripts and rows.                            *)
LEMMA OnlyOne ==
  ASSUME IInv, NEW r \in Runners, NEW x \in Run,
         runner' = [runner EXCEPT ![r] = x],
         applied \subseteq applied', recorded \subseteq recorded',
         applied' \subseteq Scripts, recorded' \subseteq Scripts,
         failures' \in 0..MaxFailures,
         TablesOK', RunnerOK(r)'
  PROVE  IInv'
<1>1. TypeOK'
  BY DEF IInv, TypeOK
<1>2. ASSUME NEW q \in Runners, q # r PROVE RunnerOK(q)'
  <2>1. runner'[q] = runner[q] /\ RunnerOK(q)
    BY <1>2 DEF IInv, TypeOK
  <2> QED BY <2>1 DEF RunnerOK
<1> QED BY <1>1, <1>2 DEF IInv

(* A run that leaves the tables alone. *)
LEMMA TablesAlone ==
  ASSUME IInv, NEW r \in Runners, NEW x \in Run,
         runner' = [runner EXCEPT ![r] = x],
         UNCHANGED tables, failures' \in 0..MaxFailures, RunnerOK(r)'
  PROVE  IInv'
<1>1. applied' = applied /\ recorded' = recorded /\ TablesOK'
  BY DEF tables, IInv, TablesOK
<1>2. applied \subseteq Scripts /\ recorded \subseteq Scripts
  BY DEF IInv, TypeOK
<1> QED BY <1>1, <1>2, OnlyOne

(***************************************************************************)
(* What Proceed returns: the next script, of which everything before is    *)
(* recorded if this one is, or exit status 0 after the last one.           *)
(***************************************************************************)
LEMMA ProceedKeeps ==
  ASSUME IInv, NEW r \in Runners,
         runner[r].at \in {"check", "commit"},
         recorded \subseteq recorded', runner[r].script \in recorded',
         runner' = [runner EXCEPT ![r] = Proceed(r)]
  PROVE  Proceed(r) \in Run /\ RunnerOK(r)'
<1> DEFINE x == runner[r]  y == Proceed(r)
<1>1. /\ x.script \in Nat /\ 1 <= x.script /\ x.script <= N
      /\ \A s \in Scripts : s < x.script => s \in recorded
  BY RunType DEF IInv, RunnerOK
<1>2. runner'[r] = y
  BY DEF IInv, TypeOK
<1>3. CASE x.script = N
  <2>1. y = [at |-> "exit0", script |-> 1, ran |-> FALSE]
    BY <1>3 DEF Proceed, NoRun
  <2>2. Scripts \subseteq recorded'
    BY <1>1, <1>3 DEF Scripts
  <2> QED BY <1>2, <2>1, <2>2 DEF Run, Scripts, RunnerOK
<1>4. CASE x.script # N
  <2>1. y = [at |-> "check", script |-> x.script + 1, ran |-> FALSE]
    BY <1>4 DEF Proceed
  <2>2. x.script + 1 \in Scripts
    BY <1>1, <1>4 DEF Scripts
  <2>3. \A s \in Scripts : s < x.script + 1 => s \in recorded'
    BY <1>1 DEF Scripts
  <2> QED BY <1>2, <2>1, <2>2, <2>3 DEF Run, RunnerOK
<1> QED BY <1>3, <1>4

-----------------------------------------------------------------------------
(* The operations *)

LEMMA StartKeeps ==
  ASSUME IInv, NEW r \in Runners, Start(r) PROVE IInv'
<1> DEFINE y == [NoRun EXCEPT !.at = "check"]
<1>1. y \in Run /\ y.at = "check" /\ y.script = 1 /\ ~y.ran
  BY 1 \in Scripts DEF NoRun, Run, Scripts
<1>2. runner' = [runner EXCEPT ![r] = y] /\ runner'[r] = y
  BY DEF Start, IInv, TypeOK
<1> HIDE DEF y
<1>3. RunnerOK(r)'
  BY <1>1, <1>2 DEF RunnerOK, Scripts
<1> QED BY <1>1, <1>2, <1>3, TablesAlone DEF Start, IInv, TypeOK

(* A run that ends without success, by itself or not. *)
LEMMA EndKeeps ==
  ASSUME IInv, NEW r \in Runners,
         runner' = [runner EXCEPT ![r] = [NoRun EXCEPT !.at = "exit1"]],
         UNCHANGED tables, failures' \in 0..MaxFailures
  PROVE  IInv'
<1> DEFINE y == [NoRun EXCEPT !.at = "exit1"]
<1>1. y \in Run /\ y.at = "exit1" /\ y.script = 1 /\ ~y.ran
  BY 1 \in Scripts DEF NoRun, Run, Scripts
<1>2. runner' = [runner EXCEPT ![r] = y] /\ runner'[r] = y
  BY DEF IInv, TypeOK
<1> HIDE DEF y
<1>3. RunnerOK(r)'
  BY <1>1, <1>2 DEF RunnerOK
<1> QED BY <1>1, <1>2, <1>3, TablesAlone

LEMMA CheckKeeps ==
  ASSUME IInv, NEW r \in Runners, Check(r) PROVE IInv'
<1>1. /\ UNCHANGED tables /\ failures' \in 0..MaxFailures
      /\ recorded' = recorded /\ runner[r].at = "check" /\ runner[r] \in Run
  BY RunType DEF Check, tables, IInv, TypeOK
<1>2. CASE runner[r].script \in recorded
  <2>1. runner' = [runner EXCEPT ![r] = Proceed(r)]
    BY <1>2 DEF Check
  <2>2. Proceed(r) \in Run /\ RunnerOK(r)'
    BY <1>1, <1>2, <2>1, ProceedKeeps
  <2> QED BY <1>1, <2>1, <2>2, TablesAlone
<1>3. CASE runner[r].script \notin recorded
  <2> DEFINE y == [runner[r] EXCEPT !.at = "run"]
  <2>1. runner' = [runner EXCEPT ![r] = y] /\ runner'[r] = y
    BY <1>3 DEF Check, IInv, TypeOK
  <2>2. /\ y \in Run /\ y.at = "run"
        /\ y.script = runner[r].script /\ y.ran = runner[r].ran
    BY <1>1 DEF Run
  <2> HIDE DEF y
  <2>3. RunnerOK(r)'
    BY <1>1, <2>1, <2>2 DEF RunnerOK, IInv
  <2> QED BY <1>1, <2>1, <2>2, <2>3, TablesAlone
<1> QED BY <1>2, <1>3

LEMMA RunScriptKeeps ==
  ASSUME IInv, NEW r \in Runners, RunScript(r) PROVE IInv'
<1> DEFINE y == [runner[r] EXCEPT !.at = "record", !.ran = TRUE]
<1>1. /\ UNCHANGED tables /\ failures' \in 0..MaxFailures
      /\ recorded' = recorded /\ applied' = applied
      /\ runner[r].at = "run" /\ runner[r] \in Run
      /\ runner[r].script \notin SelfCommitting
  BY RunType DEF RunScript, tables, IInv, TypeOK
<1>2. runner' = [runner EXCEPT ![r] = y] /\ runner'[r] = y
  BY DEF RunScript, IInv, TypeOK
<1>3. /\ y \in Run /\ y.at = "record"
      /\ y.script = runner[r].script /\ y.ran
  BY <1>1 DEF Run
<1> HIDE DEF y
<1>4. RunnerOK(r)'
  BY <1>1, <1>2, <1>3 DEF RunnerOK, IInv
<1> QED BY <1>1, <1>2, <1>3, <1>4, TablesAlone

(***************************************************************************)
(* A script that is applied next, because all before it are recorded: no   *)
(* other script is without its row, and no later one is applied.           *)
(***************************************************************************)
LEMMA NextToApply ==
  ASSUME IInv, NEW s \in Scripts, s \notin applied,
         \A t \in Scripts : t < s => t \in recorded
  PROVE  recorded = applied /\ applied = 1..(s - 1)
<1>1. /\ s \in Nat /\ s <= N /\ Scripts \subseteq Nat
      /\ applied \subseteq Scripts /\ recorded \subseteq applied
  BY DEF IInv, TypeOK, TablesOK, Scripts
<1>2. ASSUME NEW t \in applied PROVE t < s /\ t \in recorded
  BY <1>1 DEF IInv, TablesOK
<1>3. applied \subseteq 1..(s - 1)
  BY <1>1, <1>2 DEF Scripts
<1>4. 1..(s - 1) \subseteq applied
  BY <1>1 DEF Scripts
<1> QED BY <1>1, <1>2, <1>3, <1>4

LEMMA RunOwnCommitKeeps ==
  ASSUME IInv, NEW r \in Runners, RunOwnCommit(r)
  PROVE  /\ IInv'
         /\ runner[r].script \in Scripts /\ recorded = applied
         /\ applied = 1..(runner[r].script - 1)
<1> DEFINE s == runner[r].script  y == [runner[r] EXCEPT !.at = "record"]
<1>1. /\ applied' = applied \cup {s} /\ recorded' = recorded
      /\ failures' \in 0..MaxFailures
      /\ runner[r].at = "run" /\ runner[r] \in Run /\ s \in Scripts
      /\ s \in SelfCommitting \ applied
  BY RunType DEF RunOwnCommit, IInv, TypeOK, Scripts
<1>2. runner' = [runner EXCEPT ![r] = y] /\ runner'[r] = y
  BY DEF RunOwnCommit, IInv, TypeOK
<1>3. y \in Run /\ y.at = "record" /\ y.script = s /\ y.ran = runner[r].ran
  BY <1>1 DEF Run
<1>4. ~runner[r].ran /\ \A t \in Scripts : t < s => t \in recorded
  BY <1>1 DEF IInv, RunnerOK
<1> HIDE DEF y, s
<1>5. recorded = applied /\ applied = 1..(s - 1)
  BY <1>1, <1>4, NextToApply
<1>6. TablesOK'
  BY <1>1, <1>4, <1>5 DEF TablesOK, IInv
<1>7. RunnerOK(r)'
  BY <1>1, <1>2, <1>3, <1>4 DEF RunnerOK
<1>8. applied' \subseteq Scripts /\ recorded' \subseteq Scripts
  BY <1>1 DEF IInv, TypeOK
<1>9. IInv'
  BY <1>1, <1>2, <1>3, <1>6, <1>7, <1>8, OnlyOne
<1> QED BY <1>1, <1>5, <1>9 DEF s

(* A script that has its effect but not its row is the last one applied. *)
LEMMA LastApplied ==
  ASSUME IInv, NEW s \in applied, s \notin recorded
  PROVE  recorded \cup {s} = applied
<1>1. /\ applied \subseteq Scripts /\ Scripts \subseteq Nat
      /\ recorded \subseteq applied
  BY DEF IInv, TypeOK, TablesOK, Scripts
<1>2. ASSUME NEW t \in applied, t # s PROVE t \in recorded
  <2>1. t < s \/ s < t
    BY <1>1, <1>2
  <2> QED BY <1>1, <2>1 DEF IInv, TablesOK
<1> QED BY <1>1, <1>2

LEMMA RecordKeeps ==
  ASSUME IInv, NEW r \in Runners, Record(r)
  PROVE  /\ IInv'
         /\ applied' = applied
         /\ recorded' = recorded \/ (recorded # applied /\ recorded' = applied)
<1> DEFINE s == runner[r].script  y == [runner[r] EXCEPT !.at = "commit"]
<1>1. /\ applied' = applied /\ failures' \in 0..MaxFailures
      /\ recorded' = IF runner[r].ran THEN recorded ELSE recorded \cup {s}
      /\ runner[r].at = "record" /\ runner[r] \in Run /\ s \in Scripts
      /\ s \notin recorded
  BY RunType DEF Record, IInv, TypeOK, Scripts
<1>2. runner' = [runner EXCEPT ![r] = y] /\ runner'[r] = y
  BY DEF Record, IInv, TypeOK
<1>3. y \in Run /\ y.at = "commit" /\ y.script = s /\ y.ran = runner[r].ran
  BY <1>1 DEF Run
<1>4. /\ ~runner[r].ran => s \in applied
      /\ runner[r].ran => s \notin SelfCommitting
      /\ \A t \in Scripts : t < s => t \in recorded
  BY <1>1 DEF IInv, RunnerOK
<1> HIDE DEF y, s
<1>5. recorded' = recorded \/ (recorded # applied /\ recorded' = applied)
  BY <1>1, <1>4, LastApplied
<1>6. TablesOK'
  BY <1>1, <1>5 DEF TablesOK, IInv
<1>7. RunnerOK(r)'
  BY <1>1, <1>2, <1>3, <1>4 DEF RunnerOK
<1>8. /\ applied' \subseteq Scripts /\ recorded' \subseteq Scripts
      /\ applied \subseteq applied' /\ recorded \subseteq recorded'
  BY <1>1 DEF IInv, TypeOK
<1>9. IInv'
  BY <1>1, <1>2, <1>3, <1>6, <1>7, <1>8, OnlyOne
<1> QED BY <1>1, <1>5, <1>9

(* COMMIT of the runner: nothing changes, or the next script and its row. *)
LEMMA CommitKeeps ==
  ASSUME IInv, NEW r \in Runners, Commit(r)
  PROVE  /\ IInv'
         /\ \/ UNCHANGED tables
            \/ /\ runner[r].script \in Scripts /\ recorded = applied
               /\ applied = 1..(runner[r].script - 1)
               /\ applied' = applied \cup {runner[r].script}
               /\ recorded' = applied'
<1> DEFINE s == runner[r].script
<1>1. /\ applied' = IF runner[r].ran THEN applied \cup {s} ELSE applied
      /\ recorded' = IF runner[r].ran THEN recorded \cup {s} ELSE recorded
      /\ runner' = [runner EXCEPT ![r] = Proceed(r)]
      /\ failures' \in 0..MaxFailures
      /\ runner[r].at = "commit" /\ s \in Scripts
      /\ runner[r].ran \in BOOLEAN
  BY RunType DEF Commit, IInv, TypeOK, Scripts
<1>2. /\ ~runner[r].ran => s \in recorded
      /\ runner[r].ran => s \notin SelfCommitting
      /\ \A t \in Scripts : t < s => t \in recorded
  BY <1>1 DEF IInv, RunnerOK
<1>3. Proceed(r) \in Run /\ RunnerOK(r)'
  BY <1>1, <1>2, ProceedKeeps
<1> HIDE DEF s
<1>4. CASE ~runner[r].ran \/ s \in applied
  <2>1. s \in recorded
    BY <1>2, <1>4 DEF IInv, TablesOK
  <2>2. UNCHANGED tables
    BY <1>1, <1>2, <1>4, <2>1 DEF tables, IInv, TablesOK
  <2> QED BY <1>1, <1>3, <2>2, TablesAlone
<1>5. CASE runner[r].ran /\ s \notin applied
  <2>1. recorded = applied /\ applied = 1..(s - 1)
    BY <1>1, <1>2, <1>5, NextToApply
  <2>2. applied' = applied \cup {s} /\ recorded' = applied'
    BY <1>1, <1>5, <2>1
  <2>3. TablesOK'
    BY <1>2, <2>1, <2>2 DEF TablesOK, IInv
  <2>4. applied' \subseteq Scripts /\ recorded' \subseteq Scripts
    BY <1>1, <2>2 DEF IInv, TypeOK
  <2>5. IInv'
    BY <1>1, <1>3, <2>1, <2>2, <2>3, <2>4, OnlyOne
  <2> QED BY <1>1, <2>1, <2>2, <2>5 DEF s
<1> QED BY <1>1, <1>4, <1>5

(* The steps of a run that leave the tables alone. *)
LEMMA QuietKeeps ==
  ASSUME IInv, NEW r \in Runners,
         \/ Start(r) \/ Check(r) \/ RunScript(r) \/ RunAgain(r)
         \/ RecordAgain(r) \/ Fail(r)
  PROVE  IInv' /\ UNCHANGED tables
<1>1. UNCHANGED tables
  BY DEF Start, Check, RunScript, RunAgain, RecordAgain, Fail, tables
<1>2. CASE Start(r) \/ Check(r) \/ RunScript(r)
  BY <1>1, <1>2, StartKeeps, CheckKeeps, RunScriptKeeps
<1>3. CASE RunAgain(r) \/ RecordAgain(r) \/ Fail(r)
  <2>1. failures' \in 0..MaxFailures
    BY <1>3 DEF RunAgain, RecordAgain, Fail, IInv, TypeOK
  <2>2. runner' = [runner EXCEPT ![r] = [NoRun EXCEPT !.at = "exit1"]]
    BY <1>3 DEF RunAgain, RecordAgain, Fail
  <2> QED BY <1>1, <2>1, <2>2, EndKeeps
<1> QED BY <1>1, <1>2, <1>3

LEMMA InitInv == Init => IInv
<1> SUFFICES ASSUME Init PROVE IInv
  OBVIOUS
<1>1. NoRun \in Run /\ NoRun.at = "off" /\ NoRun.ran = FALSE
  BY 1 \in Scripts DEF NoRun, Run, Scripts
<1>2. \A r \in Runners : runner[r] = NoRun
  BY DEF Init
<1>3. TypeOK
  BY <1>1 DEF Init, TypeOK
<1>4. TablesOK
  BY DEF Init, TablesOK
<1>5. \A r \in Runners : RunnerOK(r)
  BY <1>1, <1>2 DEF RunnerOK
<1> QED BY <1>3, <1>4, <1>5 DEF IInv

LEMMA NextInv == IInv /\ [Next]_vars => IInv'
<1> SUFFICES ASSUME IInv, [Next]_vars PROVE IInv'
  OBVIOUS
<1>1. CASE UNCHANGED vars
  BY <1>1 DEF vars, IInv, TypeOK, TablesOK, RunnerOK
<1>2. ASSUME NEW r \in Runners, Step(r) \/ Fail(r) PROVE IInv'
  BY <1>2, QuietKeeps, RunOwnCommitKeeps, RecordKeeps, CommitKeeps DEF Step
<1> QED BY <1>1, <1>2 DEF Next

(* Before any script that a run is at, or that is applied, all is recorded. *)
THEOREM Invariant == Spec => []IInv
BY InitInv, NextInv, PTL DEF Spec

(* Tables and runs keep their types: in particular the loop over the files *)
(* never runs past the last one.                                           *)
THEOREM TypeCorrect == Spec => []TypeOK
<1>1. IInv => TypeOK
  BY DEF IInv
<1> QED BY <1>1, Invariant, PTL

(* After exit status 0 the schema is complete, and so are its rows, whatever *)
(* other runs are under way or have failed.                                  *)
THEOREM ExitZero == Spec => []ExitZeroMeansMigrated
<1>1. IInv => ExitZeroMeansMigrated
  BY DEF IInv, TypeOK, TablesOK, RunnerOK, ExitZeroMeansMigrated
<1> QED BY <1>1, Invariant, PTL

(* Only a script with a COMMIT of its own is ever without its row, and it   *)
(* is then the last one applied.                                            *)
THEOREM OwnCommitsTear == Spec => []OnlyOwnCommitsTear
<1>1. IInv => OnlyOwnCommitsTear
  <2> SUFFICES ASSUME IInv, NEW s \in applied \ recorded, NEW t \in applied
               PROVE  s \in SelfCommitting /\ t <= s
    BY DEF IInv, TablesOK, OnlyOwnCommitsTear
  <2>1. s \in Nat /\ t \in Nat /\ s \in Scripts
    BY DEF IInv, TypeOK, Scripts
  <2> QED BY <2>1 DEF IInv, TablesOK
<1> QED BY <1>1, Invariant, PTL

-----------------------------------------------------------------------------
(* SchemaHistory *)

LEMMA NextScriptIs ==
  ASSUME NEW s \in Scripts, applied = 1..(s - 1)
  PROVE  History!NextScript = s
<1>1. s \in Nat /\ 1 <= s
  BY DEF Scripts
<1>2. Cardinality(1..(s - 1)) = s - 1
  BY <1>1, FS_Interval
<1>3. History!Cardinality(applied) = Cardinality(applied)
  BY DEF History!Cardinality, Cardinality
<1> QED BY <1>1, <1>2, <1>3 DEF History!NextScript

LEMMA InitMaps == Init => History!Init
BY DEF Init, History!Init

LEMMA NextMaps ==
  ASSUME IInv, [Next]_vars PROVE [History!Next]_(History!vars)
<1>1. CASE UNCHANGED tables
  BY <1>1 DEF tables, History!vars
<1>2. ASSUME NEW r \in Runners, RunOwnCommit(r) PROVE History!Next
  <2>1. /\ recorded = applied /\ runner[r].script \in SelfCommitting
        /\ History!NextScript = runner[r].script
        /\ applied' = applied \cup {runner[r].script}
        /\ recorded' = recorded
    BY <1>2, RunOwnCommitKeeps, NextScriptIs DEF RunOwnCommit
  <2> QED BY <2>1 DEF History!Next, History!Slip
<1>3. ASSUME NEW r \in Runners, Record(r)
      PROVE  History!Next \/ UNCHANGED tables
  BY <1>3, RecordKeeps DEF History!Next, History!CatchUp, tables
<1>4. ASSUME NEW r \in Runners, Commit(r)
      PROVE  History!Next \/ UNCHANGED tables
  <2>1. CASE /\ runner[r].script \in Scripts /\ recorded = applied
             /\ applied = 1..(runner[r].script - 1)
             /\ applied' = applied \cup {runner[r].script}
             /\ recorded' = applied'
    <3>1. History!NextScript = runner[r].script
      BY <2>1, NextScriptIs
    <3> QED BY <2>1, <3>1 DEF History!Next, History!Advance, Scripts
  <2> QED BY <1>4, <2>1, CommitKeeps
<1>5. CASE UNCHANGED vars
  BY <1>1, <1>5 DEF vars, tables
<1>6. ASSUME NEW r \in Runners, Step(r) \/ Fail(r)
      PROVE  UNCHANGED tables \/ History!Next
  BY <1>2, <1>3, <1>4, <1>6, QuietKeeps DEF Step
<1> QED BY <1>1, <1>5, <1>6 DEF Next

(* Whatever runs race and fail, the tables show scripts applied one after  *)
(* the other in the order of their names, each once, each with its row     *)
(* before the next.                                                        *)
THEOREM Refinement == Spec => ImplementsHistory
BY Invariant, InitMaps, NextMaps, PTL
   DEF Spec, ImplementsHistory, History!Spec

===============================================================================
