----------------------------- MODULE ServerProofs -----------------------------
(***************************************************************************)
(* Proofs about Server and the ConnectionPool inside it, for any number of *)
(* requests and clients: no client is lost or shared, the queue holds who  *)
(* waits, and fewer requests than clients never stand still.               *)
(*                                                                         *)
(* The argument counts. A request in a given place uses 0, 1 or 2 clients  *)
(* (Uses); to take one idle client, or to hand one on to the head of the   *)
(* queue, changes one request's use by one and moves nobody else.          *)
(***************************************************************************)
EXTENDS Server, TLAPS, FiniteSetTheorems, SequenceTheorems

USE PoolAssumption

(* The clients a request uses where it is, and those all requests use. *)
Uses(place) ==
  IF place \in {"out", "connect", "probeWait"} THEN 0
  ELSE IF place = "audit" THEN 2 ELSE 1

First(p) == {r \in Requests : p[r] \notin {"out", "connect", "probeWait"}}
Second(p) == {r \in Requests : p[r] = "audit"}
Taken(p) == Cardinality(First(p)) + Cardinality(Second(p))

(* From p to p2 only r moves, and moves to x. *)
Moves(p, r, x, p2) ==
  /\ p \in [Requests -> Places] /\ p2 \in [Requests -> Places]
  /\ p2[r] = x
  /\ \A s \in Requests \ {r} : p2[s] = p[s]

(* The queue q holds those who wait in p, once each. *)
Fits(q, p) ==
  /\ q \in Seq(Requests)
  /\ \A i, j \in 1..Len(q) : q[i] = q[j] => i = j
  /\ {q[i] : i \in 1..Len(q)} = {r \in Requests : p[r] \in Waiting}

(* What the pool is responsible for. *)
PoolInv ==
  /\ pc \in [Requests -> Places]
  /\ idle \in Nat
  /\ idle + Taken(pc) = PoolSize
  /\ queue # <<>> => idle = 0
  /\ Fits(queue, pc)

(* Whoever records an event, or waits to, still has one to record: that is *)
(* why counting down in WriteAudit stays above zero.                       *)
EventsLeft ==
  /\ left \in [Requests -> 0..MaxEvents]
  /\ \A r \in Requests : pc[r] \in {"auditWait", "audit"} => left[r] > 0

IInv ==
  /\ PoolInv
  /\ EventsLeft
  /\ server \in {"stopped", "starting", "listening", "closing"}

-----------------------------------------------------------------------------
(* Counting clients *)

LEMMA FiniteTakers ==
  ASSUME NEW p
  PROVE  /\ IsFiniteSet(First(p)) /\ Cardinality(First(p)) \in Nat
         /\ IsFiniteSet(Second(p)) /\ Cardinality(Second(p)) \in Nat
         /\ Cardinality(First(p)) <= Cardinality(Requests)
         /\ Taken(p) \in Nat
<1>1. First(p) \in SUBSET Requests /\ Second(p) \in SUBSET Requests
  BY DEF First, Second
<1>2. /\ IsFiniteSet(First(p)) /\ IsFiniteSet(Second(p))
      /\ Cardinality(First(p)) <= Cardinality(Requests)
  BY <1>1, FS_Subset
<1>3. Cardinality(First(p)) \in Nat /\ Cardinality(Second(p)) \in Nat
  BY <1>2, FS_CardinalityType
<1> QED BY <1>2, <1>3 DEF Taken

(* When one request moves, the count changes by what its places differ in. *)
LEMMA CountMove ==
  ASSUME NEW p, NEW r \in Requests, NEW x, NEW p2, Moves(p, r, x, p2)
  PROVE  Taken(p2) = Taken(p) - Uses(p[r]) + Uses(x)
<1> DEFINE Bare(place) == place \in {"out", "connect", "probeWait"}
<1>1. /\ First(p2) = IF Bare(x) THEN First(p) \ {r} ELSE First(p) \cup {r}
      /\ r \in First(p) <=> ~Bare(p[r])
  BY DEF First, Moves
<1>2. /\ Second(p2) = IF x = "audit" THEN Second(p) \cup {r}
                      ELSE Second(p) \ {r}
      /\ r \in Second(p) <=> p[r] = "audit"
  BY DEF Second, Moves
<1>3. /\ Cardinality(First(p) \cup {r}) =
           IF Bare(p[r]) THEN Cardinality(First(p)) + 1
           ELSE Cardinality(First(p))
      /\ Cardinality(First(p) \ {r}) =
           IF Bare(p[r]) THEN Cardinality(First(p))
           ELSE Cardinality(First(p)) - 1
  BY <1>1, FiniteTakers, FS_AddElement, FS_RemoveElement, Zenon
<1>4. /\ Cardinality(Second(p) \cup {r}) =
           IF p[r] = "audit" THEN Cardinality(Second(p))
           ELSE Cardinality(Second(p)) + 1
      /\ Cardinality(Second(p) \ {r}) =
           IF p[r] = "audit" THEN Cardinality(Second(p)) - 1
           ELSE Cardinality(Second(p))
  BY <1>2, FiniteTakers, FS_AddElement, FS_RemoveElement, Zenon
<1>5. Cardinality(First(p2)) =
        Cardinality(First(p)) - (IF Bare(p[r]) THEN 0 ELSE 1)
                              + (IF Bare(x) THEN 0 ELSE 1)
  BY <1>1, <1>3, FiniteTakers
<1>6. Cardinality(Second(p2)) =
        Cardinality(Second(p)) - (IF p[r] = "audit" THEN 1 ELSE 0)
                               + (IF x = "audit" THEN 1 ELSE 0)
  BY <1>2, <1>4, FiniteTakers
<1> QED BY <1>5, <1>6, FiniteTakers DEF Taken, Uses

LEMMA NobodyTakes ==
  Taken([r \in Requests |-> "out"]) = 0
<1>1. /\ First([r \in Requests |-> "out"]) = {}
      /\ Second([r \in Requests |-> "out"]) = {}
  BY DEF First, Second
<1> QED BY <1>1, FS_EmptySet DEF Taken

-----------------------------------------------------------------------------
(* The queue *)

LEMMA EmptyFits == Fits(<<>>, [r \in Requests |-> "out"])
BY EmptySeq DEF Fits, Waiting

LEMMA Enqueue ==
  ASSUME NEW p, NEW q, Fits(q, p), NEW r \in Requests, p[r] \notin Waiting,
         NEW x \in Waiting, NEW p2, Moves(p, r, x, p2)
  PROVE  Fits(Append(q, r), p2)
<1> DEFINE q2 == Append(q, r)
<1>1. q \in Seq(Requests) /\ Len(q) \in Nat
  BY LenProperties DEF Fits
<1>2. /\ q2 \in Seq(Requests) /\ Len(q2) = Len(q) + 1
      /\ \A i \in 1..Len(q) : q2[i] = q[i]
      /\ q2[Len(q) + 1] = r
  BY <1>1, AppendProperties
<1>3. \A i \in 1..Len(q) : q[i] # r
  BY DEF Fits
<1> HIDE DEF q2
<1>4. \A i, j \in 1..Len(q2) : q2[i] = q2[j] => i = j
  BY <1>1, <1>2, <1>3 DEF Fits
<1>5. {q2[i] : i \in 1..Len(q2)} = {q[i] : i \in 1..Len(q)} \cup {r}
  BY <1>1, <1>2
<1>6. {s \in Requests : p2[s] \in Waiting}
        = {s \in Requests : p[s] \in Waiting} \cup {r}
  BY DEF Moves
<1>7. Fits(q2, p2)
  BY <1>2, <1>4, <1>5, <1>6 DEF Fits
<1> QED BY <1>7 DEF q2

LEMMA HeadWaits ==
  ASSUME NEW p, NEW q, Fits(q, p), q # <<>>
  PROVE  Head(q) \in Requests /\ p[Head(q)] \in Waiting
<1>1. q \in Seq(Requests) /\ Len(q) \in Nat \ {0}
  BY EmptySeq DEF Fits
<1>2. Head(q) = q[1]
  BY <1>1, HeadTailProperties
<1> QED BY <1>1, <1>2 DEF Fits

LEMMA Dequeue ==
  ASSUME NEW p, NEW q, Fits(q, p), q # <<>>,
         NEW x, x \notin Waiting, NEW p2, Moves(p, Head(q), x, p2)
  PROVE  Fits(Tail(q), p2)
<1> DEFINE h == Head(q)  t == Tail(q)
<1>1. q \in Seq(Requests) /\ Len(q) \in Nat \ {0}
  BY EmptySeq DEF Fits
<1>2. /\ h \in Requests /\ h = q[1]
      /\ t \in Seq(Requests) /\ Len(t) = Len(q) - 1
      /\ \A i \in 1..Len(t) : t[i] = q[i + 1]
  BY <1>1, HeadTailProperties
<1> HIDE DEF h, t
<1>4. \A i, j \in 1..Len(t) : t[i] = t[j] => i = j
  <2> SUFFICES ASSUME NEW i \in 1..Len(t), NEW j \in 1..Len(t), t[i] = t[j]
               PROVE  i = j
    OBVIOUS
  <2>1. i + 1 \in 1..Len(q) /\ j + 1 \in 1..Len(q)
    BY <1>1, <1>2
  <2>2. q[i + 1] = q[j + 1]
    BY <1>2
  <2>3. i + 1 = j + 1
    BY <2>1, <2>2 DEF Fits
  <2> QED BY <2>3
<1>5. {t[i] : i \in 1..Len(t)} = {q[i] : i \in 1..Len(q)} \ {h}
  <2>1. ASSUME NEW i \in 1..Len(t)
        PROVE  t[i] \in {q[k] : k \in 1..Len(q)} \ {h}
    <3>1. i + 1 \in 1..Len(q) /\ 1 \in 1..Len(q) /\ i + 1 # 1
      BY <1>1, <1>2
    <3> QED BY <1>2, <3>1 DEF Fits
  <2>2. ASSUME NEW k \in 1..Len(q), q[k] # h
        PROVE  q[k] \in {t[i] : i \in 1..Len(t)}
    <3>1. k - 1 \in 1..Len(t) /\ (k - 1) + 1 = k
      BY <1>1, <1>2, <2>2
    <3>2. t[k - 1] = q[k]
      BY <1>2, <3>1
    <3> QED BY <3>1, <3>2
  <2> QED BY <2>1, <2>2
<1>6. {s \in Requests : p2[s] \in Waiting}
        = {s \in Requests : p[s] \in Waiting} \ {h}
  BY <1>2 DEF h, Moves
<1>7. Fits(t, p2)
  BY <1>2, <1>4, <1>5, <1>6 DEF Fits
<1> QED BY <1>7 DEF t

LEMMA NotQueued ==
  ASSUME NEW p, NEW q, Fits(q, p), NEW r \in Requests, p[r] \notin Waiting,
         NEW x, x \notin Waiting, NEW p2, Moves(p, r, x, p2)
  PROVE  Fits(q, p2)
<1>1. {s \in Requests : p2[s] \in Waiting}
        = {s \in Requests : p[s] \in Waiting}
  BY DEF Moves
<1> QED BY <1>1 DEF Fits

-----------------------------------------------------------------------------
(* Taking a client and giving it back *)

(* Nothing but r's place changes, and r uses as many clients as before. *)
LEMMA MoveKeeps ==
  ASSUME PoolInv, NEW r \in Requests, NEW x \in Places \ Waiting,
         pc[r] \notin Waiting, Uses(x) = Uses(pc[r]),
         pc' = [pc EXCEPT ![r] = x], UNCHANGED <<idle, queue>>
  PROVE  PoolInv'
<1>1. Moves(pc, r, x, pc')
  BY DEF PoolInv, Moves
<1>2. Taken(pc) \in Nat /\ Uses(x) \in Nat
  BY FiniteTakers DEF Uses
<1>3. Taken(pc') = Taken(pc)
  BY <1>1, <1>2, CountMove
<1>4. Fits(queue, pc')
  BY <1>1, NotQueued DEF PoolInv
<1> QED BY <1>1, <1>3, <1>4 DEF PoolInv, Moves

(* pool.connect and pool.query: one more client is taken, or r waits. *)
LEMMA AcquireKeeps ==
  ASSUME PoolInv, NEW r \in Requests, pc[r] \notin Waiting,
         NEW served \in Places \ Waiting, NEW waiting \in Waiting,
         Uses(served) = Uses(pc[r]) + 1, Uses(waiting) = Uses(pc[r]),
         Acquire(r, served, waiting)
  PROVE  PoolInv'
<1>1. /\ pc \in [Requests -> Places] /\ idle \in Nat /\ Taken(pc) \in Nat
      /\ Uses(pc[r]) \in Nat /\ waiting \in Places
  BY FiniteTakers DEF PoolInv, Uses, Waiting, Places
<1>2. CASE idle > 0
  <2>1. idle' = idle - 1 /\ Moves(pc, r, served, pc') /\ queue' = queue
    BY <1>1, <1>2 DEF Acquire, Moves
  <2>2. Taken(pc') = Taken(pc) + 1
    BY <1>1, <2>1, CountMove
  <2>3. Fits(queue, pc')
    BY <2>1, NotQueued DEF PoolInv
  <2>4. queue = <<>>
    BY <1>2 DEF PoolInv
  <2> QED BY <1>1, <1>2, <2>1, <2>2, <2>3, <2>4 DEF PoolInv, Moves
<1>3. CASE ~(idle > 0)
  <2>1. /\ queue' = Append(queue, r) /\ Moves(pc, r, waiting, pc')
        /\ idle' = idle /\ idle = 0
    BY <1>1, <1>3 DEF Acquire, Moves
  <2>2. Taken(pc') = Taken(pc)
    BY <1>1, <2>1, CountMove
  <2>3. Fits(queue', pc')
    BY <2>1, Enqueue DEF PoolInv
  <2> QED BY <1>1, <2>1, <2>2, <2>3 DEF PoolInv, Moves
<1> QED BY <1>2, <1>3

LEMMA ServedUses ==
  ASSUME NEW place \in Waiting
  PROVE  /\ Served[place] \in {"begin", "audit", "probe"}
         /\ Uses(Served[place]) = Uses(place) + 1
         /\ Served[place] = "audit" <=> place = "auditWait"
BY DEF Waiting, Served, Uses

(* client.release: r has one client less, and the head of the queue, if *)
(* there is one, has one more. Everybody else stays where it is.        *)
LEMMA GiveBackKeeps ==
  ASSUME PoolInv, NEW r \in Requests, pc[r] \notin Waiting,
         NEW next \in Places \ Waiting, Uses(pc[r]) = Uses(next) + 1,
         GiveBack(r, next)
  PROVE  /\ PoolInv'
         /\ pc'[r] = next
         /\ \A s \in Requests \ {r} :
              pc'[s] = "audit" => pc[s] \in {"auditWait", "audit"}
         /\ \A s \in Requests \ {r} : pc'[s] = "auditWait" => pc[s] = "auditWait"
<1>1. /\ pc \in [Requests -> Places] /\ idle \in Nat /\ Taken(pc) \in Nat
      /\ Uses(next) \in Nat
  BY FiniteTakers DEF PoolInv, Uses
<1> DEFINE p2 == [pc EXCEPT ![r] = next]
<1>2. Moves(pc, r, next, p2)
  BY <1>1 DEF Moves
<1>3. CASE queue = <<>>
  <2>1. idle' = idle + 1 /\ pc' = p2 /\ queue' = queue
    BY <1>3 DEF GiveBack
  <2> HIDE DEF p2
  <2>2. Taken(p2) = Taken(pc) - 1 /\ Fits(queue, p2)
    BY <1>1, <1>2, CountMove, NotQueued DEF PoolInv
  <2>3. PoolInv'
    BY <1>1, <1>2, <1>3, <2>1, <2>2 DEF PoolInv, Moves
  <2> QED BY <1>2, <2>1, <2>3 DEF Moves
<1>4. CASE queue # <<>>
  <2> DEFINE h == Head(queue)  y == Served[pc[h]]
  <2>1. /\ pc' = [pc EXCEPT ![r] = next, ![h] = y]
        /\ queue' = Tail(queue) /\ idle' = idle
    BY <1>4 DEF GiveBack
  <2>2. h \in Requests /\ pc[h] \in Waiting /\ h # r
    BY <1>4, HeadWaits DEF PoolInv
  <2> HIDE DEF h
  <2>3. /\ y \in {"begin", "audit", "probe"} /\ y \in Places \ Waiting
        /\ Uses(y) = Uses(pc[h]) + 1 /\ Uses(pc[h]) \in Nat
        /\ y = "audit" => pc[h] = "auditWait"
    BY <2>2, ServedUses DEF Places, Waiting, Uses
  <2> HIDE DEF y
  <2>4. Moves(p2, h, y, pc') /\ p2[h] = pc[h]
    BY <1>1, <1>2, <2>1, <2>2, <2>3 DEF Moves
  <2> HIDE DEF p2
  <2>5. Taken(p2) = Taken(pc) - 1 /\ Fits(queue, p2)
    BY <1>1, <1>2, CountMove, NotQueued DEF PoolInv
  <2>6. Fits(queue', pc')
    BY <1>4, <2>1, <2>3, <2>4, <2>5, Dequeue DEF h
  <2>7. Taken(pc') = Taken(pc)
    BY <1>1, <2>2, <2>3, <2>4, <2>5, CountMove
  <2>8. PoolInv'
    BY <1>1, <1>4, <2>1, <2>4, <2>6, <2>7 DEF PoolInv, Moves
  <2> QED BY <1>2, <2>2, <2>3, <2>4, <2>8 DEF Moves
<1> QED BY <1>3, <1>4


-----------------------------------------------------------------------------
(* The operations *)

LEMMA ArriveKeeps ==
  ASSUME PoolInv, EventsLeft, NEW r \in Requests, Arrive(r)
  PROVE  PoolInv' /\ EventsLeft'
<1>1. PoolInv'
  BY AcquireKeeps DEF Arrive, Waiting, Places, Uses
<1>2. PICK n \in 0..MaxEvents : left' = [left EXCEPT ![r] = n]
  BY DEF Arrive
<1>3. PICK x \in {"begin", "connect"} : pc' = [pc EXCEPT ![r] = x]
  BY DEF Arrive, Acquire
<1>4. EventsLeft'
  BY <1>2, <1>3 DEF EventsLeft, PoolInv
<1> QED BY <1>1, <1>4

LEMMA ProbeKeeps ==
  ASSUME PoolInv, EventsLeft, NEW r \in Requests, Probe(r)
  PROVE  PoolInv' /\ EventsLeft'
<1>1. PoolInv'
  BY AcquireKeeps DEF Probe, Waiting, Places, Uses
<1>2. PICK x \in {"probe", "probeWait"} : pc' = [pc EXCEPT ![r] = x]
  BY DEF Probe, Acquire
<1>3. EventsLeft'
  BY <1>2 DEF Probe, EventsLeft, PoolInv
<1> QED BY <1>1, <1>3

LEMMA EmitAuditKeeps ==
  ASSUME PoolInv, EventsLeft, NEW r \in Requests, EmitAudit(r)
  PROVE  PoolInv' /\ EventsLeft'
<1>1. PoolInv'
  BY AcquireKeeps DEF EmitAudit, Waiting, Places, Uses
<1>2. PICK x \in {"audit", "auditWait"} : pc' = [pc EXCEPT ![r] = x]
  BY DEF EmitAudit, Acquire
<1>3. EventsLeft'
  BY <1>2 DEF EmitAudit, EventsLeft, PoolInv
<1> QED BY <1>1, <1>3

LEMMA WriteAuditKeeps ==
  ASSUME PoolInv, EventsLeft, NEW r \in Requests, WriteAudit(r)
  PROVE  PoolInv' /\ EventsLeft'
<1>1. /\ pc[r] = "audit" /\ left' = [left EXCEPT ![r] = @ - 1]
      /\ left[r] \in 0..MaxEvents /\ left[r] > 0
  BY DEF WriteAudit, EventsLeft
<1>2. /\ PoolInv' /\ pc'[r] = "work"
      /\ \A s \in Requests \ {r} :
           pc'[s] \in {"auditWait", "audit"} => pc[s] \in {"auditWait", "audit"}
  BY <1>1, GiveBackKeeps DEF WriteAudit, Waiting, Places, Uses
<1>3. left' \in [Requests -> 0..MaxEvents]
  BY <1>1 DEF EventsLeft
<1>4. EventsLeft'
  BY <1>1, <1>2, <1>3 DEF EventsLeft
<1> QED BY <1>2, <1>4

(* Release and the end of a probe. *)
LEMMA LeaveKeeps ==
  ASSUME PoolInv, EventsLeft, NEW r \in Requests,
         pc[r] \in {"committed", "rolledBack", "probe"},
         GiveBack(r, "out"), UNCHANGED left
  PROVE  PoolInv' /\ EventsLeft'
<1>1. /\ PoolInv' /\ pc'[r] = "out"
      /\ \A s \in Requests \ {r} :
           pc'[s] \in {"auditWait", "audit"} => pc[s] \in {"auditWait", "audit"}
  BY GiveBackKeeps DEF Waiting, Places, Uses
<1> QED BY <1>1 DEF EventsLeft

(* LockRow, Commit and Rollback: the client stays with the request. *)
LEMMA HoldKeeps ==
  ASSUME PoolInv, EventsLeft, NEW r \in Requests,
         pc[r] \in {"begin", "work"},
         NEW x \in {"work", "committed", "rolledBack"},
         pc' = [pc EXCEPT ![r] = x], UNCHANGED <<left, idle, queue>>
  PROVE  PoolInv' /\ EventsLeft'
<1>1. PoolInv'
  BY MoveKeeps DEF Waiting, Places, Uses
<1>2. EventsLeft'
  BY DEF EventsLeft, PoolInv
<1> QED BY <1>1, <1>2

LEMMA PoolStep ==
  ASSUME PoolInv, EventsLeft, NEW r \in Requests,
         Begin(r) \/ Step(r) \/ Rollback(r)
  PROVE  PoolInv' /\ EventsLeft'
<1>1. CASE Begin(r)
  BY <1>1, ArriveKeeps, ProbeKeeps DEF Begin
<1>2. CASE LockRow(r) \/ Commit(r) \/ Rollback(r)
  BY <1>2, HoldKeeps DEF LockRow, Commit, Rollback
<1>3. CASE EmitAudit(r) \/ WriteAudit(r)
  BY <1>3, EmitAuditKeeps, WriteAuditKeeps
<1>4. CASE Release(r) \/ EndProbe(r)
  BY <1>4, LeaveKeeps DEF Release, EndProbe
<1> QED BY <1>1, <1>2, <1>3, <1>4 DEF Step

(* The process starts, and ends, with every client idle and nobody served. *)
LEMMA Idle ==
  ASSUME NEW p, NEW l, NEW i, NEW q,
         p = [r \in Requests |-> "out"], l = [r \in Requests |-> 0],
         i = PoolSize, q = <<>>
  PROVE  /\ p \in [Requests -> Places] /\ i \in Nat /\ i + Taken(p) = PoolSize
         /\ Fits(q, p)
         /\ l \in [Requests -> 0..MaxEvents]
BY NobodyTakes, EmptyFits DEF Places

-----------------------------------------------------------------------------
(* The process *)

LEMMA InitInv == ServerInit => IInv
<1> SUFFICES ASSUME ServerInit PROVE IInv
  OBVIOUS
<1>1. PoolInv /\ EventsLeft
  BY Idle DEF ServerInit, Init, PoolInv, EventsLeft
<1> QED BY <1>1 DEF IInv, ServerInit

LEMMA ExitInv ==
  ASSUME IInv, Exit PROVE IInv'
<1>1. PoolInv' /\ EventsLeft'
  BY Idle DEF Exit, PoolInv, EventsLeft
<1> QED BY <1>1 DEF IInv, Exit

LEMMA NextInv == IInv /\ [ServerNext]_serverVars => IInv'
<1> SUFFICES ASSUME IInv, [ServerNext]_serverVars PROVE IInv'
  OBVIOUS
<1>1. CASE Start \/ Ready \/ (server = "listening" /\ server' = "closing" /\ UNCHANGED vars)
  <2>1. UNCHANGED vars /\ server' \in {"starting", "listening", "closing"}
    BY <1>1 DEF Start, Ready
  <2> QED BY <2>1 DEF IInv, PoolInv, EventsLeft, vars
<1>2. CASE Exit
  BY <1>2, ExitInv
<1>3. ASSUME NEW r \in Requests, Accept(r) \/ Serve(r) PROVE IInv'
  <2>1. (Begin(r) \/ Step(r) \/ Rollback(r)) /\ server' = server
    BY <1>3 DEF Accept, Serve
  <2> QED BY <2>1, PoolStep DEF IInv
<1>4. CASE UNCHANGED serverVars
  BY <1>4 DEF IInv, PoolInv, EventsLeft, serverVars, vars
<1>5. CASE Start \/ Ready \/ Signal
  BY <1>1, <1>2, <1>5 DEF Signal
<1>6. CASE StartFails \/ Drained \/ ForceExit \/ LoseDatabase
  BY <1>2, <1>6 DEF StartFails, Drained, ForceExit, LoseDatabase
<1> QED BY <1>3, <1>4, <1>5, <1>6 DEF ServerNext

(* Clients are counted, the queue fits, events are left to whoever records. *)
THEOREM Invariant == ServerSpec => []IInv
BY InitInv, NextInv, PTL DEF ServerSpec

(* Places, counters, the queue and the process keep their types; in         *)
(* particular the pool never counts more idle clients than it has, and a   *)
(* request never counts its events below zero.                             *)
THEOREM TypeCorrect == ServerSpec => []ServerTypeOK
<1>1. IInv => ServerTypeOK
  <2> SUFFICES ASSUME IInv PROVE ServerTypeOK
    OBVIOUS
  <2>1. idle \in 0..PoolSize
    BY FiniteTakers DEF IInv, PoolInv
  <2> QED BY <2>1 DEF IInv, PoolInv, EventsLeft, Fits, ServerTypeOK, TypeOK
<1> QED BY <1>1, Invariant, PTL

(* No client of the pool is lost and none is given to two, however requests *)
(* and the process end.                                                     *)
THEOREM Conserved == ServerSpec => []ClientsConserved
<1>1. IInv => ClientsConserved
  <2> SUFFICES ASSUME IInv PROVE ClientsConserved
    OBVIOUS
  <2> DEFINE first == {r \in InFlight : pc[r] \notin {"connect", "probeWait"}}
             second == {r \in InFlight : pc[r] = "audit"}
  <2>1. first = First(pc) /\ second = Second(pc)
    BY DEF First, Second, InFlight
  <2>2. idle + Cardinality(First(pc)) + Cardinality(Second(pc)) = PoolSize
    BY FiniteTakers DEF IInv, PoolInv, Taken
  <2> HIDE DEF first, second
  <2>3. idle + Cardinality(first) + Cardinality(second) = PoolSize
    BY <2>1, <2>2
  <2> QED BY <2>3 DEF ClientsConserved, first, second
<1> QED BY <1>1, Invariant, PTL

(* Nobody waits while a client is idle; the queue is who waits, once each. *)
THEOREM QueueIsSound == ServerSpec => []QueueSound
<1>1. IInv => QueueSound
  BY DEF IInv, PoolInv, Fits, QueueSound
<1> QED BY <1>1, Invariant, PTL

(***************************************************************************)
(* The standstill that leaves requests unanswered needs as many requests   *)
(* as clients: with fewer, when no client is idle somebody is recording an *)
(* event with its second one, and will give it back.                       *)
(***************************************************************************)
THEOREM FewerNeverStandStill ==
  ASSUME Cardinality(Requests) < PoolSize
  PROVE  ServerSpec => []~Standstill
<1>1. IInv => ~Standstill
  <2> SUFFICES ASSUME IInv, Standstill PROVE FALSE
    OBVIOUS
  <2>1. Cardinality(First(pc)) + Cardinality(Second(pc)) = PoolSize
    BY FiniteTakers DEF IInv, PoolInv, Taken, Standstill
  <2>2. Cardinality(Requests) \in Nat
    BY FS_CardinalityType
  <2>3. Cardinality(Second(pc)) # 0
    BY <2>1, <2>2, FiniteTakers
  <2>4. PICK r \in Requests : pc[r] = "audit"
    BY <2>3, FS_EmptySet DEF Second
  <2> QED BY <2>4 DEF Standstill, HasClient
<1> QED BY <1>1, Invariant, PTL
=============================================================================
