---------------------------- MODULE ConnectionPool ----------------------------
(***************************************************************************)
(* Every handler takes a client of the pg pool, opens a transaction on it, *)
(* and gives the client back when it has committed or rolled back. While   *)
(* the transaction is open it records audit events, and an audit event is  *)
(* a pool.query: it takes a second client for the time of its INSERT. The  *)
(* pool is created with its default limit and without a timeout, so a      *)
(* request that finds no idle client waits in the pool's FIFO queue for as *)
(* long as it takes, holding the first client and the rows it has locked.  *)
(*                                                                         *)
(* A request is reduced to what the pool sees of it: the row it locks, the *)
(* number of events it records, how it ends.                               *)
(***************************************************************************)
EXTENDS Naturals, FiniteSets, Sequences

CONSTANTS
  Requests,   \* requests served at the same time; a bound on the load
  PoolSize,   \* clients in the pool
  MaxEvents,  \* audit events of one request; a bound
  RowOf       \* the row each request locks, e.g. the identity's

ASSUME PoolAssumption ==
  /\ PoolSize \in Nat \ {0}
  /\ MaxEvents \in Nat
  /\ IsFiniteSet(Requests)
  /\ DOMAIN RowOf = Requests

VARIABLES
  pc,      \* where each request is
  left,    \* events it still has to record
  idle,    \* idle clients of the pool
  queue    \* requests waiting for a client, first come first served

vars == <<pc, left, idle, queue>>

Places == {"out", "connect", "begin", "work", "auditWait", "audit",
           "committed", "rolledBack", "probeWait", "probe"}
Waiting == {"connect", "auditWait", "probeWait"}

InFlight == {r \in Requests : pc[r] # "out"}

(* The row lock lives as long as the transaction that took it. *)
HasRow(r) == pc[r] \in {"work", "auditWait", "audit"}

Init ==
  /\ pc = [r \in Requests |-> "out"]
  /\ left = [r \in Requests |-> 0]
  /\ idle = PoolSize
  /\ queue = <<>>

(* pool.connect() and pool.query() of request r: at once, or in the queue. *)
Acquire(r, served, waiting) ==
  IF idle > 0
  THEN /\ idle' = idle - 1
       /\ pc' = [pc EXCEPT ![r] = served]
       /\ UNCHANGED queue
  ELSE /\ queue' = Append(queue, r)
       /\ pc' = [pc EXCEPT ![r] = waiting]
       /\ UNCHANGED idle

Served == [connect |-> "begin", auditWait |-> "audit", probeWait |-> "probe"]

(* Mutant of GiveBack: the queue is not looked at. *)
GiveBackToIdle(r, next) ==
  /\ idle' = idle + 1
  /\ pc' = [pc EXCEPT ![r] = next]
  /\ UNCHANGED queue

(* Mutant of GiveBack: the client is only given to those who wait. *)
GiveBackToQueue(r, next) ==
  IF queue = <<>>
  THEN /\ pc' = [pc EXCEPT ![r] = next]
       /\ UNCHANGED <<idle, queue>>
  ELSE LET h == Head(queue) IN
       /\ pc' = [pc EXCEPT ![r] = next, ![h] = Served[pc[h]]]
       /\ queue' = Tail(queue)
       /\ UNCHANGED idle

(* A client comes back: the first in the queue gets it. *)
GiveBack(r, next) ==
  IF queue = <<>>
  THEN /\ idle' = idle + 1
       /\ pc' = [pc EXCEPT ![r] = next]
       /\ UNCHANGED queue
  ELSE LET h == Head(queue) IN
       /\ pc' = [pc EXCEPT ![r] = next, ![h] = Served[pc[h]]]
       /\ queue' = Tail(queue)
       /\ UNCHANGED idle

-----------------------------------------------------------------------------
(* A request arrives and asks for its client. *)
Arrive(r) ==
  /\ pc[r] = "out"
  /\ Acquire(r, "begin", "connect")
  /\ \E n \in 0..MaxEvents : left' = [left EXCEPT ![r] = n]

(* BEGIN and the statements that lock and write, which wait in PostgreSQL *)
(* for the transaction that has the row.                                  *)
LockRow(r) ==
  /\ pc[r] = "begin"
  /\ \A q \in Requests \ {r} : HasRow(q) => RowOf[q] # RowOf[r]
  /\ pc' = [pc EXCEPT ![r] = "work"]
  /\ UNCHANGED <<left, idle, queue>>

(* Mutant of EmitAudit: one event too many. *)
EmitAuditAgain(r) ==
  /\ pc[r] = "work"
  /\ Acquire(r, "audit", "auditWait")
  /\ UNCHANGED left

(* emitAuditEvent, awaited inside the transaction. *)
EmitAudit(r) ==
  /\ pc[r] = "work" /\ left[r] > 0
  /\ Acquire(r, "audit", "auditWait")
  /\ UNCHANGED left

(* Its INSERT commits by itself, or fails and the error is swallowed: *)
(* either way the client comes back.                                  *)
WriteAudit(r) ==
  /\ pc[r] = "audit"
  /\ GiveBack(r, "work")
  /\ left' = [left EXCEPT ![r] = @ - 1]

Commit(r) ==
  /\ pc[r] = "work" /\ left[r] = 0
  /\ pc' = [pc EXCEPT ![r] = "committed"]
  /\ UNCHANGED <<left, idle, queue>>

(* A statement fails, or the handler throws: ROLLBACK. *)
Rollback(r) ==
  /\ pc[r] \in {"begin", "work"}
  /\ pc' = [pc EXCEPT ![r] = "rolledBack"]
  /\ UNCHANGED <<left, idle, queue>>

(* finally { client.release() } *)
Release(r) ==
  /\ pc[r] \in {"committed", "rolledBack"}
  /\ GiveBack(r, "out")
  /\ UNCHANGED left

(* GET /health/db: one pool.query, without a transaction. *)
Probe(r) ==
  /\ pc[r] = "out"
  /\ Acquire(r, "probe", "probeWait")
  /\ UNCHANGED left

(* It has succeeded or failed: pool.query releases the client in any case. *)
EndProbe(r) ==
  /\ pc[r] = "probe"
  /\ GiveBack(r, "out")
  /\ UNCHANGED left

Begin(r) == Arrive(r) \/ Probe(r)

Step(r) ==
  \/ LockRow(r) \/ EmitAudit(r) \/ WriteAudit(r) \/ Commit(r) \/ Release(r)
  \/ EndProbe(r)

Next == \E r \in Requests : Begin(r) \/ Step(r) \/ Rollback(r)

Spec == Init /\ [][Next]_vars

(***************************************************************************)
(* The event loop runs what can run; PostgreSQL grants a row lock that is  *)
(* free again and again. No request need arrive and none need fail.        *)
(***************************************************************************)
FairSpec == Spec /\ \A r \in Requests : SF_vars(Step(r))

-----------------------------------------------------------------------------
TypeOK ==
  /\ pc \in [Requests -> Places]
  /\ left \in [Requests -> 0..MaxEvents]
  /\ idle \in 0..PoolSize
  /\ queue \in Seq(Requests)

(***************************************************************************)
(* Every client is idle or in the hands of a request, however the requests *)
(* before ended: rollbacks and failed audits included, none is lost and    *)
(* none is given to two.                                                   *)
(***************************************************************************)
ClientsConserved ==
  LET first  == {r \in InFlight : pc[r] \notin {"connect", "probeWait"}}
      second == {r \in InFlight : pc[r] = "audit"}
  IN idle + Cardinality(first) + Cardinality(second) = PoolSize

(***************************************************************************)
(* Nobody waits while a client is idle, and exactly those who wait are in  *)
(* the queue, once: no wake-up is lost and none goes to a request that has *)
(* moved on.                                                               *)
(***************************************************************************)
QueueSound ==
  /\ queue # <<>> => idle = 0
  /\ \A i, j \in 1..Len(queue) : queue[i] = queue[j] => i = j
  /\ {queue[i] : i \in 1..Len(queue)}
       = {r \in Requests : pc[r] \in Waiting}

(***************************************************************************)
(* "Audit must never affect auth behavior" (emitAuditEvent): a request     *)
(* that has arrived is answered. True with fewer requests than clients,    *)
(* which leaves one for the audit events. With as many requests as clients *)
(* it is not: those that hold every client wait for one more, or for a row *)
(* of one that does, and the service stands still.                         *)
(***************************************************************************)
RequestsAnswered == \A r \in Requests : pc[r] # "out" ~> pc[r] = "out"

=============================================================================
