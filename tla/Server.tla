-------------------------------- MODULE Server --------------------------------
(***************************************************************************)
(* The life of the process (server.ts) around the requests it serves       *)
(* (ConnectionPool): it listens once the database has answered; a signal   *)
(* stops it when the requests under way are over, or after ten seconds;    *)
(* a lost database connection stops it at once, because nobody listens to  *)
(* the pool's and its clients' 'error' events (db.ts); someone starts it   *)
(* again. Whatever stops it takes the pool and the requests with it, and   *)
(* PostgreSQL rolls their transactions back.                               *)
(***************************************************************************)
EXTENDS ConnectionPool

VARIABLE
  server  \* what the process is doing

serverVars == <<server, vars>>

Up == server \in {"listening", "closing"}

(* process.exit, or an uncaught exception. *)
Exit ==
  /\ server' = "stopped"
  /\ pc' = [r \in Requests |-> "out"]
  /\ left' = [r \in Requests |-> 0]
  /\ idle' = PoolSize /\ queue' = <<>>

-----------------------------------------------------------------------------
(* The environment is read (env.ts) and the database asked. *)
Start ==
  /\ server = "stopped"
  /\ server' = "starting"
  /\ UNCHANGED vars

(* It answers: app.listen. *)
Ready ==
  /\ server = "starting"
  /\ server' = "listening"
  /\ UNCHANGED vars

(* It does not, or the port is taken: process.exit(1). *)
StartFails ==
  /\ server = "starting"
  /\ Exit

(* While it closes, requests still come on connections that are kept alive. *)
Accept(r) ==
  /\ Up
  /\ Begin(r)
  /\ UNCHANGED server

Serve(r) ==
  /\ Up
  /\ Step(r) \/ Rollback(r)
  /\ UNCHANGED server

(* SIGTERM or SIGINT; a second one only sets another timer. *)
Signal ==
  \/ /\ server = "starting"
     /\ Exit
  \/ /\ server = "listening"
     /\ server' = "closing"
     /\ UNCHANGED vars

(* The callback of server.close: no connection is left. *)
Drained ==
  /\ server = "closing" /\ InFlight = {}
  /\ Exit

(* Mutant of ForceExit: the timer waits for the requests. *)
ForceWhenDrained ==
  /\ server = "closing" /\ InFlight = {}
  /\ Exit

(* The timer: requests under way are cut off. *)
ForceExit ==
  /\ server = "closing"
  /\ Exit

(* The connection of an idle client, or of a handler's, is lost: an 'error' *)
(* event without a listener. (pool.query has one for its own client.)       *)
LoseDatabase ==
  /\ Up
  /\ Exit

-----------------------------------------------------------------------------
ServerInit == Init /\ server = "stopped"

ServerNext ==
  \/ Start \/ Ready \/ StartFails \/ Signal \/ Drained \/ ForceExit \/ LoseDatabase
  \/ \E r \in Requests : Accept(r) \/ Serve(r)

ServerSpec == ServerInit /\ [][ServerNext]_serverVars

(* As for the pool; and the timer goes off. *)
ServerFairSpec ==
  /\ ServerSpec
  /\ \A r \in Requests : SF_serverVars(Up /\ Step(r) /\ UNCHANGED server)
  /\ WF_serverVars(ForceExit)

-----------------------------------------------------------------------------
ServerTypeOK ==
  /\ TypeOK
  /\ server \in {"stopped", "starting", "listening", "closing"}

(***************************************************************************)
(* The standstill of RequestsAnswered: no client is idle, and whoever has  *)
(* one waits for a second, or for the row of one that does.                *)
(***************************************************************************)
HasClient(r) == pc[r] \notin {"out", "connect", "probeWait"}
Standstill ==
  /\ idle = 0
  /\ \A r \in Requests : HasClient(r) =>
       \/ pc[r] = "auditWait"
       \/ /\ pc[r] = "begin"
          /\ \E q \in Requests \ {r} : HasRow(q) /\ RowOf[q] = RowOf[r]

(***************************************************************************)
(* The only way a request is not answered, short of the process ending, is *)
(* that every client is taken by a request that cannot go on without       *)
(* another client.                                                         *)
(***************************************************************************)
AnsweredUnlessExhausted ==
  \A r \in Requests : pc[r] # "out" ~> (pc[r] = "out" \/ Standstill)

(***************************************************************************)
(* "Safety fallback": after a signal the process ends, even if the pool is *)
(* exhausted and no request under way will ever be over.                   *)
(***************************************************************************)
StopsAfterSignal == server = "closing" ~> server = "stopped"

=============================================================================
