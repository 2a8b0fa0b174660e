-------------------------- MODULE InfrastructureProofs --------------------------
(***************************************************************************)
(* Theorems about the parts everything else runs on: the pool of threads   *)
(* of the API process, the checkpoints, the event bus and the two-tier     *)
(* cache, for any number of callers, threads, drivers and lookups, and any *)
(* capacity.                                                               *)
(***************************************************************************)
EXTENDS InlineExecutor, Checkpoints, EventBus, TieredCache, FiniteSetTheorems, TLAPS

-----------------------------------------------------------------------------
(* Queues: what appending and taking do to what a queue holds.             *)

\* No job waits twice in a queue; stop markers may.
Once(q) == \A i, j \in DOMAIN q : q[i] = q[j] /\ q[i] # Stop => i = j

LEMMA AppendHolds ==
  ASSUME NEW S, NEW q \in Seq(S), NEW x \in S
  PROVE  /\ Append(q, x) \in Seq(S)
         /\ Len(Append(q, x)) = Len(q) + 1
         /\ ToSet(Append(q, x)) = ToSet(q) \cup {x}
         /\ Once(q) /\ (x = Stop \/ x \notin ToSet(q)) => Once(Append(q, x))
<1> DEFINE r == Append(q, x)
<1>1. /\ r \in Seq(S) /\ Len(r) = Len(q) + 1 /\ r[Len(q) + 1] = x
      /\ \A i \in 1..Len(q) : r[i] = q[i]
  OBVIOUS
<1>2. DOMAIN q = 1..Len(q) /\ DOMAIN r = 1..(Len(q) + 1) /\ Len(q) \in Nat
  BY <1>1
<1> HIDE DEF r
<1>3. ToSet(r) = ToSet(q) \cup {x}
  <2>1. ASSUME NEW y \in ToSet(r) PROVE y \in ToSet(q) \cup {x}
    <3>1. PICK i \in 1..(Len(q) + 1) : y = r[i]
      BY <1>2 DEF ToSet
    <3>2. i \in 1..Len(q) \/ i = Len(q) + 1
      BY <1>2
    <3> QED
      BY <1>1, <1>2, <3>1, <3>2 DEF ToSet
  <2>2. ASSUME NEW y \in ToSet(q) PROVE y \in ToSet(r)
    <3>1. PICK i \in 1..Len(q) : y = q[i]
      BY <1>2 DEF ToSet
    <3> QED
      BY <1>1, <1>2, <3>1 DEF ToSet
  <2>3. x \in ToSet(r)
    BY <1>1, <1>2 DEF ToSet
  <2> QED
    BY <2>1, <2>2, <2>3
<1>4. ASSUME Once(q), x = Stop \/ x \notin ToSet(q) PROVE Once(r)
  <2> SUFFICES ASSUME NEW i \in 1..(Len(q) + 1), NEW j \in 1..(Len(q) + 1),
                      r[i] = r[j], r[i] # Stop
               PROVE  i = j
    BY <1>2 DEF Once
  <2>1. \A k \in 1..Len(q) : q[k] \in ToSet(q)
    BY <1>2 DEF ToSet
  <2>2. CASE i \in 1..Len(q) /\ j \in 1..Len(q)
    BY <1>1, <1>2, <1>4, <2>2 DEF Once
  <2>3. CASE i = Len(q) + 1 /\ j \in 1..Len(q)
    BY <1>1, <1>4, <2>1, <2>3
  <2>4. CASE i \in 1..Len(q) /\ j = Len(q) + 1
    BY <1>1, <1>4, <2>1, <2>4
  <2> QED
    BY <1>2, <2>2, <2>3, <2>4
<1> QED
  BY <1>1, <1>3, <1>4 DEF r

LEMMA TailHolds ==
  ASSUME NEW S, NEW q \in Seq(S), q # <<>>
  PROVE  /\ Tail(q) \in Seq(S) /\ Head(q) \in S /\ Head(q) \in ToSet(q)
         /\ Len(Tail(q)) = Len(q) - 1 /\ Len(q) \in Nat
         /\ \A c : c # Head(q) => (c \in ToSet(Tail(q)) <=> c \in ToSet(q))
         /\ Once(q) => Once(Tail(q))
         /\ Once(q) /\ Head(q) # Stop => Head(q) \notin ToSet(Tail(q))
<1> DEFINE r == Tail(q)
           h == Head(q)
<1>1. /\ r \in Seq(S) /\ Len(q) \in Nat \ {0} /\ Len(r) = Len(q) - 1
      /\ h = q[1] /\ h \in S
      /\ \A i \in 1..(Len(q) - 1) : r[i] = q[i + 1]
  OBVIOUS
<1>2. DOMAIN q = 1..Len(q) /\ DOMAIN r = 1..(Len(q) - 1)
  BY <1>1
<1> HIDE DEF r, h
<1>3. h \in ToSet(q)
  BY <1>1, <1>2 DEF ToSet
<1>4. ASSUME NEW c, c # h PROVE c \in ToSet(r) <=> c \in ToSet(q)
  <2>1. ASSUME c \in ToSet(r) PROVE c \in ToSet(q)
    <3>1. PICK i \in 1..(Len(q) - 1) : c = r[i]
      BY <1>2, <2>1 DEF ToSet
    <3>2. i + 1 \in 1..Len(q) /\ c = q[i + 1]
      BY <1>1, <3>1
    <3> QED
      BY <1>2, <3>2 DEF ToSet
  <2>2. ASSUME c \in ToSet(q) PROVE c \in ToSet(r)
    <3>1. PICK i \in 1..Len(q) : c = q[i]
      BY <1>2, <2>2 DEF ToSet
    <3>2. i # 1
      BY <1>1, <1>4, <3>1
    <3>3. i - 1 \in 1..(Len(q) - 1) /\ (i - 1) + 1 = i
      BY <1>1, <3>2
    <3>4. r[i - 1] = q[i]
      BY <1>1, <3>3
    <3> QED
      BY <1>2, <3>1, <3>3, <3>4 DEF ToSet
  <2> QED
    BY <2>1, <2>2
<1>5. ASSUME Once(q) PROVE Once(r)
  <2> SUFFICES ASSUME NEW i \in 1..(Len(q) - 1), NEW j \in 1..(Len(q) - 1),
                      r[i] = r[j], r[i] # Stop
               PROVE  i = j
    BY <1>2 DEF Once
  <2>1. i + 1 \in 1..Len(q) /\ j + 1 \in 1..Len(q) /\ q[i + 1] = q[j + 1] /\ q[i + 1] # Stop
    BY <1>1
  <2>2. i + 1 = j + 1
    BY <1>2, <1>5, <2>1 DEF Once
  <2> QED
    BY <2>2
<1>6. ASSUME Once(q), h # Stop PROVE h \notin ToSet(r)
  <2> SUFFICES ASSUME NEW i \in 1..(Len(q) - 1), r[i] = h PROVE FALSE
    BY <1>2 DEF ToSet
  <2>1. i + 1 \in 1..Len(q) /\ 1 \in 1..Len(q) /\ q[i + 1] = q[1] /\ q[1] # Stop
    BY <1>1, <1>6
  <2>2. i + 1 = 1
    BY <1>2, <1>6, <2>1 DEF Once
  <2> QED
    BY <2>2
<1> QED
  BY <1>1, <1>3, <1>4, <1>5, <1>6 DEF r, h

-----------------------------------------------------------------------------
(* The inline executor.                                                     *)

PoolRow == [threads : SUBSET (1..Drains), stopping : BOOLEAN, queue : Seq(Callers \cup {Stop})]
DrainRow == [of : 0..Pools, at : {"unborn", "check", "get", "run", "dead"},
             job : Callers \cup {Stop}]
CallerRow == [at : {"idle", "checked", "got", "started", "accepted", "refused"}, pool : 0..Pools]
ClosingRow == [at : {"up", "latched", "swapped", "taken", "flagged", "joining", "down"},
               pool : 0..Pools, threads : SUBSET (1..Drains)]

\* The shape of the executor's state: ExecTypeOK, and that whoever is at work on a pool,
\* or on a job, has one.
ExecShape ==
  /\ latch \in BOOLEAN
  /\ current \in 0..Pools
  /\ pool \in [1..Pools -> PoolRow]
  /\ \A e \in 1..Pools : Len(pool[e].queue) <= QueueSize
  /\ drain \in [1..Drains -> DrainRow]
  /\ \A t \in 1..Drains :
       /\ drain[t].at \in {"check", "get", "run"} => drain[t].of \in 1..Pools
       /\ drain[t].at = "run" => drain[t].job \in Callers
  /\ caller \in [Callers -> CallerRow]
  /\ \A c \in Callers : caller[c].at \in {"got", "started"} => caller[c].pool \in 1..Pools
  /\ closing \in ClosingRow
  /\ closing.at \in {"swapped", "taken", "flagged"} => closing.pool \in 1..Pools
  /\ ran \in [Callers -> Nat]

LEMMA ShapeIsTyped == ExecShape => ExecTypeOK
<1> SUFFICES ASSUME ExecShape PROVE ExecTypeOK
  OBVIOUS
<1>1. ASSUME NEW e \in 1..Pools
      PROVE  /\ pool[e].threads \subseteq 1..Drains
             /\ pool[e].stopping \in BOOLEAN
             /\ Len(pool[e].queue) <= QueueSize
             /\ ToSet(pool[e].queue) \subseteq Callers \cup {Stop}
  <2>1. /\ pool[e].threads \subseteq 1..Drains /\ pool[e].stopping \in BOOLEAN
        /\ pool[e].queue \in Seq(Callers \cup {Stop}) /\ Len(pool[e].queue) <= QueueSize
    BY DEF ExecShape, PoolRow
  <2> QED
    BY <2>1 DEF ToSet
<1> QED
  BY <1>1 DEF ExecShape, ExecTypeOK, DrainRow, CallerRow, ClosingRow

\* Starting a pool gives it one new thread, and touches no queue and no job.
LEMMA StartPoolIs ==
  ASSUME ExecShape, NEW e \in 1..Pools, StartPool(e)
  PROVE  /\ pool' \in [1..Pools -> PoolRow]
         /\ drain' \in [1..Drains -> DrainRow]
         /\ \A f \in 1..Pools : pool'[f].queue = pool[f].queue
         /\ \A t \in 1..Drains :
              \/ drain'[t] = drain[t]
              \/ drain[t].at = "unborn" /\ drain'[t].at = "check" /\ drain'[t].of = e
<1>1. CASE UNCHANGED <<pool, drain>>
  BY <1>1 DEF ExecShape
<1>2. CASE pool[e].threads = {}
  <2>1. PICK t \in Spare :
          /\ drain' = [drain EXCEPT ![t] = [of |-> e, at |-> "check", job |-> Stop]]
          /\ pool' = [pool EXCEPT ![e].stopping = FALSE, ![e].threads = {t}]
    BY <1>2 DEF StartPool
  <2>2. t \in 1..Drains /\ drain[t].at = "unborn"
    BY <2>1 DEF Spare, Unborn
  <2>3. [of |-> e, at |-> "check", job |-> Stop] \in DrainRow
    BY ExecAssumption DEF DrainRow
  <2>4. drain' \in [1..Drains -> DrainRow]
    BY <2>1, <2>2, <2>3 DEF ExecShape
  <2>5. pool' \in [1..Pools -> PoolRow]
    BY <2>1, <2>2 DEF ExecShape, PoolRow
  <2>6. \A f \in 1..Pools : pool'[f].queue = pool[f].queue
    BY <2>1 DEF ExecShape, PoolRow
  <2>7. \A u \in 1..Drains : u # t => drain'[u] = drain[u]
    BY <2>1 DEF ExecShape
  <2>8. drain'[t].at = "check" /\ drain'[t].of = e
    BY <2>1, <2>2 DEF ExecShape
  <2> QED
    BY <2>2, <2>4, <2>5, <2>6, <2>7, <2>8
<1> QED
  BY <1>1, <1>2 DEF StartPool

LEMMA StartedShape ==
  ASSUME ExecShape, NEW e \in 1..Pools, StartPool(e)
  PROVE  /\ pool' \in [1..Pools -> PoolRow]
         /\ \A f \in 1..Pools : Len(pool'[f].queue) <= QueueSize
         /\ drain' \in [1..Drains -> DrainRow]
         /\ \A t \in 1..Drains :
              /\ drain'[t].at \in {"check", "get", "run"} => drain'[t].of \in 1..Pools
              /\ drain'[t].at = "run" => drain'[t].job \in Callers
<1>1. ASSUME NEW t \in 1..Drains
      PROVE  /\ drain'[t].at \in {"check", "get", "run"} => drain'[t].of \in 1..Pools
             /\ drain'[t].at = "run" => drain'[t].job \in Callers
  <2>1. \/ drain'[t] = drain[t]
        \/ drain[t].at = "unborn" /\ drain'[t].at = "check" /\ drain'[t].of = e
    BY StartPoolIs
  <2> QED
    BY <2>1 DEF ExecShape
<1>2. \A f \in 1..Pools : Len(pool'[f].queue) <= QueueSize
  BY StartPoolIs DEF ExecShape
<1> QED
  BY <1>1, <1>2, StartPoolIs

\* A pool whose queue loses or gains an item.
LEMMA QueueTypes ==
  ASSUME ExecShape, NEW e \in 1..Pools, NEW q \in Seq(Callers \cup {Stop}), Len(q) <= QueueSize,
         pool' = [pool EXCEPT ![e].queue = q]
  PROVE  /\ pool' \in [1..Pools -> PoolRow]
         /\ pool'[e].queue = q
         /\ \A f \in 1..Pools \ {e} : pool'[f].queue = pool[f].queue
         /\ \A f \in 1..Pools : Len(pool'[f].queue) <= QueueSize
BY DEF ExecShape, PoolRow

LEMMA QueueOf ==
  ASSUME ExecShape, NEW e \in 1..Pools
  PROVE  /\ pool[e].queue \in Seq(Callers \cup {Stop})
         /\ Len(pool[e].queue) <= QueueSize /\ Len(pool[e].queue) \in Nat
         /\ QueueSize \in Nat
<1>1. pool[e].queue \in Seq(Callers \cup {Stop}) /\ Len(pool[e].queue) <= QueueSize
  BY DEF ExecShape, PoolRow
<1> QED
  BY <1>1, ExecAssumption

LEMMA ExecShapeHolds == ExecSpec => []ExecShape
<1>1. ExecInit => ExecShape
  <2> SUFFICES ASSUME ExecInit PROVE ExecShape
    OBVIOUS
  <2>1. NewPool \in PoolRow /\ Len(NewPool.queue) = 0
    BY DEF NewPool, PoolRow
  <2>2. Unborn \in DrainRow /\ Unborn.at = "unborn"
    BY ExecAssumption DEF Unborn, DrainRow
  <2>3. /\ pool \in [1..Pools -> PoolRow] /\ \A e \in 1..Pools : Len(pool[e].queue) <= QueueSize
        /\ drain \in [1..Drains -> DrainRow] /\ \A t \in 1..Drains : drain[t].at = "unborn"
    BY <2>1, <2>2, ExecAssumption DEF ExecInit
  <2>4. /\ caller \in [Callers -> CallerRow] /\ \A c \in Callers : caller[c].at = "idle"
        /\ closing \in ClosingRow /\ closing.at = "up"
    BY ExecAssumption DEF ExecInit, CallerRow, ClosingRow
  <2>5. current \in 0..Pools /\ ran \in [Callers -> Nat]
    BY ExecAssumption DEF ExecInit
  <2>6. /\ \A t \in 1..Drains : drain[t].at \notin {"check", "get", "run"}
        /\ \A c \in Callers : caller[c].at \notin {"got", "started"}
        /\ closing.at \notin {"swapped", "taken", "flagged"}
    BY <2>3, <2>4
  <2> QED
    BY <2>3, <2>4, <2>5, <2>6 DEF ExecInit, ExecShape
<1>2. ExecShape /\ [ExecNext]_execVars => ExecShape'
  <2> SUFFICES ASSUME ExecShape, [ExecNext]_execVars PROVE ExecShape'
    OBVIOUS
  <2>1. ASSUME NEW c \in Callers, SubmitCheck(c) PROVE ExecShape'
    BY <2>1 DEF SubmitCheck, ExecShape, CallerRow
  <2>2. ASSUME NEW c \in Callers, SubmitGet(c) PROVE ExecShape'
    <3>1. PICK e \in IF current = 0 THEN {f \in 1..Pools : f \notin Used} ELSE {current} :
            /\ current' = e /\ StartPool(e)
            /\ caller' = [caller EXCEPT ![c] = [at |-> "got", pool |-> e]]
      BY <2>2 DEF SubmitGet
    <3>2. e \in 1..Pools /\ e \in 0..Pools
      <4>1. current \in 0..Pools /\ Pools \in Nat
        BY ExecAssumption DEF ExecShape
      <4> QED
        BY <3>1, <4>1
    <3>3. /\ caller' \in [Callers -> CallerRow]
          /\ \A d \in Callers : caller'[d].at \in {"got", "started"} => caller'[d].pool \in 1..Pools
      BY <3>1, <3>2 DEF ExecShape, CallerRow
    <3> QED
      BY <2>2, <3>1, <3>2, <3>3, StartedShape DEF SubmitGet, ExecShape
  <2>3. ASSUME NEW c \in Callers, SubmitStart(c) PROVE ExecShape'
    <3>1. caller[c].pool \in 1..Pools /\ StartPool(caller[c].pool)
      BY <2>3 DEF SubmitStart, ExecShape
    <3>2. /\ caller' \in [Callers -> CallerRow]
          /\ \A d \in Callers : caller'[d].at \in {"got", "started"} => caller'[d].pool \in 1..Pools
      BY <2>3, <3>1 DEF SubmitStart, ExecShape, CallerRow
    <3> QED
      BY <2>3, <3>1, <3>2, StartedShape DEF SubmitStart, ExecShape
  <2>4. ASSUME NEW c \in Callers, SubmitPut(c) PROVE ExecShape'
    <3> DEFINE e == caller[c].pool
    <3>1. e \in 1..Pools
      BY <2>4 DEF SubmitPut, ExecShape
    <3>2. /\ caller' \in [Callers -> CallerRow]
          /\ \A d \in Callers : caller'[d].at \in {"got", "started"} => caller'[d].pool \in 1..Pools
      <4>1. caller' = [caller EXCEPT ![c].at = "accepted"] \/ caller' = [caller EXCEPT ![c].at = "refused"]
        BY <2>4 DEF SubmitPut
      <4> QED
        BY <4>1, ZenonT(40) DEF ExecShape, CallerRow
    <3>3. CASE UNCHANGED pool
      BY <2>4, <3>2, <3>3 DEF SubmitPut, ExecShape
    <3>4. CASE Len(pool[e].queue) < QueueSize /\ pool' = [pool EXCEPT ![e].queue = Append(@, c)]
      <4>1. /\ pool[e].queue \in Seq(Callers \cup {Stop})
            /\ Len(pool[e].queue) \in Nat /\ QueueSize \in Nat
        BY <3>1, QueueOf
      <4>2. /\ Append(pool[e].queue, c) \in Seq(Callers \cup {Stop})
            /\ Len(Append(pool[e].queue, c)) <= QueueSize
        BY <3>4, <4>1, AppendHolds
      <4>3. pool' = [pool EXCEPT ![e].queue = Append(pool[e].queue, c)]
        BY <3>1, <3>4 DEF ExecShape
      <4>4. pool' \in [1..Pools -> PoolRow] /\ \A f \in 1..Pools : Len(pool'[f].queue) <= QueueSize
        BY <3>1, <4>2, <4>3, QueueTypes
      <4> QED
        BY <2>4, <3>2, <4>4 DEF SubmitPut, ExecShape
    <3> QED
      BY <2>4, <3>3, <3>4 DEF SubmitPut
  <2>5. ASSUME NEW t \in 1..Drains, DrainCheck(t) \/ DrainRun(t) PROVE ExecShape'
    <3>1. /\ drain' \in [1..Drains -> DrainRow]
          /\ \A u \in 1..Drains :
               /\ drain'[u].at \in {"check", "get", "run"} => drain'[u].of \in 1..Pools
               /\ drain'[u].at = "run" => drain'[u].job \in Callers
      <4>1. CASE DrainCheck(t)
        <5>1. PICK at \in {"dead", "get"} : drain' = [drain EXCEPT ![t].at = at]
          BY <4>1 DEF DrainCheck
        <5>2. drain[t].at = "check" /\ drain[t].of \in 1..Pools
          BY <4>1 DEF DrainCheck, ExecShape
        <5> QED
          BY <5>1, <5>2 DEF ExecShape, DrainRow
      <4>2. CASE DrainRun(t)
        BY <4>2 DEF DrainRun, ExecShape, DrainRow
      <4> QED
        BY <2>5, <4>1, <4>2
    <3>2. ran' \in [Callers -> Nat]
      BY <2>5 DEF DrainCheck, DrainRun, ExecShape
    <3> QED
      BY <2>5, <3>1, <3>2 DEF DrainCheck, DrainRun, ExecShape
  <2>6. ASSUME NEW t \in 1..Drains, DrainTake(t) PROVE ExecShape'
    <3> DEFINE e == drain[t].of
               q == pool[e].queue
    <3>1. e \in 1..Pools /\ q \in Seq(Callers \cup {Stop}) /\ Len(q) <= QueueSize
      BY <2>6, QueueOf DEF DrainTake, ExecShape
    <3>2. CASE q = <<>>
      <4>1. drain' = [drain EXCEPT ![t].at = "check"] /\ UNCHANGED pool
        BY <2>6, <3>2 DEF DrainTake
      <4>2. /\ drain' \in [1..Drains -> DrainRow]
            /\ \A u \in 1..Drains :
                 /\ drain'[u].at \in {"check", "get", "run"} => drain'[u].of \in 1..Pools
                 /\ drain'[u].at = "run" => drain'[u].job \in Callers
        BY <3>1, <4>1 DEF ExecShape, DrainRow
      <4> QED
        BY <2>6, <4>1, <4>2 DEF DrainTake, ExecShape
    <3>3. CASE q # <<>>
      <4>1. /\ pool' = [pool EXCEPT ![e].queue = Tail(q)]
            /\ drain' = [drain EXCEPT ![t].job = Head(q),
                                      ![t].at = IF Head(q) = Stop THEN "dead" ELSE "run"]
        BY <2>6, <3>3 DEF DrainTake
      <4>2. /\ Tail(q) \in Seq(Callers \cup {Stop}) /\ Head(q) \in Callers \cup {Stop}
            /\ Len(Tail(q)) = Len(q) - 1 /\ Len(q) \in Nat
        BY <3>1, <3>3, TailHolds
      <4>3. Len(Tail(q)) <= QueueSize
        BY <3>1, <4>2, ExecAssumption
      <4>4. pool' \in [1..Pools -> PoolRow] /\ \A f \in 1..Pools : Len(pool'[f].queue) <= QueueSize
        BY <3>1, <4>1, <4>2, <4>3, QueueTypes
      <4> HIDE DEF q, e
      <4>5. /\ drain' \in [1..Drains -> DrainRow]
            /\ \A u \in 1..Drains :
                 /\ drain'[u].at \in {"check", "get", "run"} => drain'[u].of \in 1..Pools
                 /\ drain'[u].at = "run" => drain'[u].job \in Callers
        BY <2>6, <4>1, <4>2 DEF DrainTake, ExecShape, DrainRow
      <4> QED
        BY <2>6, <4>4, <4>5 DEF DrainTake, ExecShape
    <3> QED
      BY <3>2, <3>3
  <2>7. CASE CloseLatch \/ CloseSwap \/ CloseJoin
    <3>1. closing' \in ClosingRow
      <4>1. CASE CloseLatch \/ CloseJoin
        BY <4>1 DEF CloseLatch, CloseJoin, ExecShape, ClosingRow
      <4>2. CASE CloseSwap
        BY <4>2 DEF CloseSwap, ExecShape, ClosingRow
      <4> QED
        BY <2>7, <4>1, <4>2
    <3>2. closing'.at \in {"swapped", "taken", "flagged"} => closing'.pool \in 1..Pools
      <4>1. CASE CloseLatch \/ CloseJoin
        BY <4>1 DEF CloseLatch, CloseJoin, ExecShape, ClosingRow
      <4>2. CASE CloseSwap
        <5>1. closing'.at = "swapped" => current # 0
          BY <4>2 DEF CloseSwap, ExecShape, ClosingRow
        <5>2. closing'.pool = current /\ closing'.at \in {"down", "swapped"}
          BY <4>2 DEF CloseSwap, ExecShape, ClosingRow
        <5>3. current \in 0..Pools /\ Pools \in Nat
          BY ExecAssumption DEF ExecShape
        <5> QED
          BY <5>1, <5>2, <5>3
      <4> QED
        BY <2>7, <4>1, <4>2
    <3>3. current' \in 0..Pools /\ latch' \in BOOLEAN
      <4>1. current' \in {current, 0} /\ latch' \in {latch, TRUE}
        BY <2>7 DEF CloseLatch, CloseSwap, CloseJoin
      <4>2. 0 \in 0..Pools
        BY ExecAssumption
      <4> QED
        BY <4>1, <4>2 DEF ExecShape
    <3> QED
      BY <2>7, <3>1, <3>2, <3>3 DEF CloseLatch, CloseSwap, CloseJoin, ExecShape
  <2>8. CASE CloseTake \/ CloseFlag
    <3>1. closing.pool \in 1..Pools
      BY <2>8 DEF CloseTake, CloseFlag, ExecShape
    <3>2. pool' \in [1..Pools -> PoolRow] /\ \A f \in 1..Pools : pool'[f].queue = pool[f].queue
      <4>1. CASE CloseTake
        BY <3>1, <4>1 DEF CloseTake, ExecShape, PoolRow
      <4>2. CASE CloseFlag
        BY <3>1, <4>2 DEF CloseFlag, ExecShape, PoolRow
      <4> QED
        BY <2>8, <4>1, <4>2
    <3>3. closing' \in ClosingRow /\ closing'.pool = closing.pool
      <4>1. CASE CloseTake
        <5>1. pool[closing.pool].threads \in SUBSET (1..Drains)
          BY <3>1 DEF ExecShape, PoolRow
        <5> QED
          BY <4>1, <5>1 DEF CloseTake, ExecShape, ClosingRow
      <4>2. CASE CloseFlag
        BY <4>2 DEF CloseFlag, ExecShape, ClosingRow
      <4> QED
        BY <2>8, <4>1, <4>2
    <3> QED
      BY <2>8, <3>1, <3>2, <3>3 DEF CloseTake, CloseFlag, ExecShape
  <2>9. CASE ClosePoison
    <3> DEFINE e == closing.pool
               q == pool[e].queue
    <3>1. e \in 1..Pools /\ q \in Seq(Callers \cup {Stop}) /\ Len(q) <= QueueSize /\ Len(q) \in Nat
      BY <2>9, QueueOf DEF ClosePoison, ExecShape
    <3>2. PICK r \in Seq(Callers \cup {Stop}) :
            Len(r) <= QueueSize /\ pool' = [pool EXCEPT ![e].queue = r]
      <4>1. CASE Len(q) < QueueSize
        <5>1. Append(q, Stop) \in Seq(Callers \cup {Stop}) /\ Len(Append(q, Stop)) = Len(q) + 1
          BY <3>1, AppendHolds
        <5>2. Len(q) + 1 <= QueueSize
          BY <3>1, <4>1, ExecAssumption
        <5> QED
          BY <2>9, <4>1, <5>1, <5>2 DEF ClosePoison
      <4>2. CASE ~(Len(q) < QueueSize)
        BY <2>9, <3>1, <4>2 DEF ClosePoison
      <4> QED
        BY <4>1, <4>2
    <3>3. pool' \in [1..Pools -> PoolRow] /\ \A f \in 1..Pools : Len(pool'[f].queue) <= QueueSize
      BY <3>1, <3>2, QueueTypes
    <3>4. closing' \in ClosingRow /\ closing'.at = "joining"
      BY <2>9 DEF ClosePoison, ExecShape, ClosingRow
    <3> QED
      BY <2>9, <3>3, <3>4 DEF ClosePoison, ExecShape
  <2>10. CASE UNCHANGED execVars
    BY <2>10 DEF execVars, ExecShape
  <2> QED
    BY <2>1, <2>2, <2>3, <2>4, <2>5, <2>6, <2>7, <2>8, <2>9, <2>10
    DEF ExecNext, SubmitSteps, DrainSteps
<1> QED
  BY <1>1, <1>2, PTL DEF ExecSpec

\* The executor's state keeps its types, through every stale pool and every late stop
\* marker.
THEOREM ExecTypes == ExecSpec => []ExecTypeOK
BY ExecShapeHolds, ShapeIsTyped, PTL

\* Where a job is: the pools it waits in, the threads that execute it.
PoolsWith(c) == {e \in 1..Pools : c \in ToSet(pool[e].queue)}
ThreadsOn(c) == {t \in 1..Drains : drain[t].at = "run" /\ drain[t].job = c}

Nowhere(c) == PoolsWith(c) = {} /\ ThreadsOn(c) = {} /\ ran[c] = 0
OnePlace(c) ==
  \/ \E e \in 1..Pools : PoolsWith(c) = {e} /\ ThreadsOn(c) = {} /\ ran[c] = 0
  \/ \E t \in 1..Drains : PoolsWith(c) = {} /\ ThreadsOn(c) = {t} /\ ran[c] = 0
  \/ PoolsWith(c) = {} /\ ThreadsOn(c) = {} /\ ran[c] = 1

\* JobsAreConserved, with what it needs of the queues: no job waits twice in one.
PlaceInv ==
  /\ \A e \in 1..Pools : Once(pool[e].queue)
  /\ \A c \in Callers : IF caller[c].at = "accepted" THEN OnePlace(c) ELSE Nowhere(c)

LEMMA PlacesCount ==
  ASSUME PlaceInv
  PROVE  JobsAreConserved
<1> SUFFICES ASSUME NEW c \in Callers
             PROVE  Cardinality(PoolsWith(c)) + Cardinality(ThreadsOn(c)) + ran[c]
                      = IF caller[c].at = "accepted" THEN 1 ELSE 0
  BY DEF JobsAreConserved, PoolsWith, ThreadsOn
<1>1. Cardinality({}) = 0
  BY FS_EmptySet
<1>2. \A x : Cardinality({x}) = 1
  BY FS_Singleton
<1>3. CASE caller[c].at # "accepted"
  <2>1. PoolsWith(c) = {} /\ ThreadsOn(c) = {} /\ ran[c] = 0
    BY <1>3 DEF PlaceInv, Nowhere
  <2> QED
    BY <1>1, <1>3, <2>1
<1>4. CASE caller[c].at = "accepted"
  <2>1. OnePlace(c)
    BY <1>4 DEF PlaceInv
  <2>2. \/ Cardinality(PoolsWith(c)) = 1 /\ Cardinality(ThreadsOn(c)) = 0 /\ ran[c] = 0
        \/ Cardinality(PoolsWith(c)) = 0 /\ Cardinality(ThreadsOn(c)) = 1 /\ ran[c] = 0
        \/ Cardinality(PoolsWith(c)) = 0 /\ Cardinality(ThreadsOn(c)) = 0 /\ ran[c] = 1
    BY <1>1, <1>2, <2>1 DEF OnePlace
  <2> QED
    BY <1>4, <2>2
<1> QED
  BY <1>3, <1>4

\* A step that moves no job.
LEMMA NoJobMoves ==
  ASSUME PlaceInv,
         \A e \in 1..Pools : Once(pool'[e].queue),
         \A e \in 1..Pools, c \in Callers : c \in ToSet(pool'[e].queue) <=> c \in ToSet(pool[e].queue),
         \A t \in 1..Drains, c \in Callers :
           drain'[t].at = "run" /\ drain'[t].job = c <=> drain[t].at = "run" /\ drain[t].job = c,
         ran' = ran,
         \A c \in Callers : caller'[c].at = "accepted" <=> caller[c].at = "accepted"
  PROVE  PlaceInv'
<1>1. ASSUME NEW c \in Callers PROVE PoolsWith(c)' = PoolsWith(c) /\ ThreadsOn(c)' = ThreadsOn(c)
  BY DEF PoolsWith, ThreadsOn
<1>2. ASSUME NEW c \in Callers
      PROVE  IF caller'[c].at = "accepted" THEN OnePlace(c)' ELSE Nowhere(c)'
  BY <1>1 DEF PlaceInv, OnePlace, Nowhere
<1> QED
  BY <1>2 DEF PlaceInv

\* An accepted job is in exactly one place at any time: waiting, being executed, or
\* executed, once; and a refused one is nowhere, whatever pool the caller still held.
THEOREM JobsConserved == ExecSpec => []JobsAreConserved
<1>1. ExecInit => PlaceInv
  <2> SUFFICES ASSUME ExecInit PROVE PlaceInv
    OBVIOUS
  <2>1. \A e \in 1..Pools : pool[e].queue = <<>>
    BY DEF ExecInit, NewPool
  <2>2. \A t \in 1..Drains : drain[t].at = "unborn"
    BY DEF ExecInit, Unborn
  <2>3. \A c \in Callers : Nowhere(c) /\ caller[c].at = "idle"
    BY <2>1, <2>2 DEF Nowhere, PoolsWith, ThreadsOn, ToSet, ExecInit
  <2>4. \A e \in 1..Pools : Once(pool[e].queue)
    BY <2>1 DEF Once
  <2> QED
    BY <2>3, <2>4 DEF PlaceInv
<1>2. ExecShape /\ PlaceInv /\ [ExecNext]_execVars => PlaceInv'
  <2> SUFFICES ASSUME ExecShape, PlaceInv, [ExecNext]_execVars PROVE PlaceInv'
    OBVIOUS
  <2>1. ASSUME NEW c \in Callers, SubmitCheck(c) PROVE PlaceInv'
    <3>1. \A d \in Callers : caller'[d].at = "accepted" <=> caller[d].at = "accepted"
      BY <2>1 DEF SubmitCheck, ExecShape, CallerRow
    <3> QED
      BY <2>1, <3>1, NoJobMoves DEF SubmitCheck, PlaceInv
  <2>2. ASSUME NEW c \in Callers, SubmitGet(c) \/ SubmitStart(c) PROVE PlaceInv'
    <3>1. \A d \in Callers : caller'[d].at = "accepted" <=> caller[d].at = "accepted"
      <4>1. CASE SubmitGet(c)
        <5>1. \E e : caller' = [caller EXCEPT ![c] = [at |-> "got", pool |-> e]]
          BY <4>1 DEF SubmitGet
        <5>2. caller[c].at = "checked"
          BY <4>1 DEF SubmitGet
        <5> QED
          BY <5>1, <5>2 DEF ExecShape, CallerRow
      <4>2. CASE SubmitStart(c)
        BY <4>2 DEF SubmitStart, ExecShape, CallerRow
      <4> QED
        BY <2>2, <4>1, <4>2
    <3>2. PICK e \in 1..Pools : StartPool(e)
      <4>1. CASE SubmitGet(c)
        <5>1. PICK e \in IF current = 0 THEN {f \in 1..Pools : f \notin Used} ELSE {current} :
                StartPool(e)
          BY <4>1 DEF SubmitGet
        <5>2. current \in 0..Pools /\ Pools \in Nat
          BY ExecAssumption DEF ExecShape
        <5> QED
          BY <5>1, <5>2
      <4>2. CASE SubmitStart(c)
        BY <4>2 DEF SubmitStart, ExecShape
      <4> QED
        BY <2>2, <4>1, <4>2
    <3>3. /\ \A f \in 1..Pools : pool'[f].queue = pool[f].queue
          /\ \A t \in 1..Drains :
               \/ drain'[t] = drain[t]
               \/ drain[t].at = "unborn" /\ drain'[t].at = "check" /\ drain'[t].of = e
      BY <3>2, StartPoolIs
    <3>4. ran' = ran
      BY <2>2 DEF SubmitGet, SubmitStart
    <3>5. \A t \in 1..Drains, d \in Callers :
            drain'[t].at = "run" /\ drain'[t].job = d <=> drain[t].at = "run" /\ drain[t].job = d
      BY <3>3
    <3> QED
      BY <3>1, <3>3, <3>4, <3>5, NoJobMoves DEF PlaceInv
  <2>3. ASSUME NEW c \in Callers, SubmitPut(c) PROVE PlaceInv'
    <3> DEFINE e == caller[c].pool
               q == pool[e].queue
    <3>1. e \in 1..Pools /\ q \in Seq(Callers \cup {Stop}) /\ caller[c].at = "started"
      BY <2>3, QueueOf DEF SubmitPut, ExecShape
    <3>2. drain' = drain /\ ran' = ran
      BY <2>3 DEF SubmitPut
    <3>3. CASE UNCHANGED pool /\ caller' = [caller EXCEPT ![c].at = "refused"]
      <4>1. \A d \in Callers : caller'[d].at = "accepted" <=> caller[d].at = "accepted"
        BY <3>1, <3>3 DEF ExecShape, CallerRow
      <4> QED
        BY <3>2, <3>3, <4>1, NoJobMoves DEF PlaceInv
    <3>4. CASE /\ Len(q) < QueueSize
               /\ pool' = [pool EXCEPT ![e].queue = Append(@, c)]
               /\ caller' = [caller EXCEPT ![c].at = "accepted"]
      <4>1. Nowhere(c)
        BY <3>1 DEF PlaceInv
      <4>2. c \notin ToSet(q)
        BY <3>1, <4>1 DEF Nowhere, PoolsWith
      <4>3. /\ ToSet(Append(q, c)) = ToSet(q) \cup {c}
            /\ Once(Append(q, c))
        BY <3>1, <4>2, AppendHolds DEF PlaceInv
      <4>4. /\ pool'[e].queue = Append(q, c)
            /\ \A f \in 1..Pools \ {e} : pool'[f].queue = pool[f].queue
        BY <3>1, <3>4 DEF ExecShape, PoolRow
      <4>5. /\ caller'[c].at = "accepted"
            /\ \A d \in Callers \ {c} : caller'[d] = caller[d]
        BY <3>4 DEF ExecShape, CallerRow
      <4> HIDE DEF q, e
      <4>6. \A f \in 1..Pools : Once(pool'[f].queue)
        BY <4>3, <4>4 DEF PlaceInv
      <4>7. PoolsWith(c)' = {e} /\ ThreadsOn(c)' = {} /\ ran'[c] = 0
        <5>1. \A f \in 1..Pools : c \in ToSet(pool'[f].queue) <=> f = e
          BY <4>1, <4>3, <4>4 DEF Nowhere, PoolsWith
        <5> QED
          BY <3>1, <3>2, <4>1, <5>1 DEF Nowhere, PoolsWith, ThreadsOn
      <4>8. ASSUME NEW d \in Callers \ {c}
            PROVE  IF caller'[d].at = "accepted" THEN OnePlace(d)' ELSE Nowhere(d)'
        <5>1. \A f \in 1..Pools : d \in ToSet(pool'[f].queue) <=> d \in ToSet(pool[f].queue)
          <6>1. pool[e].queue = q
            BY DEF q
          <6> QED
            BY <4>3, <4>4, <6>1
        <5>2. PoolsWith(d)' = PoolsWith(d) /\ ThreadsOn(d)' = ThreadsOn(d)
          BY <3>2, <5>1 DEF PoolsWith, ThreadsOn
        <5> QED
          BY <3>2, <4>5, <5>2 DEF PlaceInv, OnePlace, Nowhere
      <4>9. OnePlace(c)'
        BY <3>1, <4>7 DEF OnePlace
      <4> QED
        BY <4>5, <4>6, <4>8, <4>9 DEF PlaceInv
    <3> QED
      BY <2>3, <3>3, <3>4 DEF SubmitPut
  <2>4. ASSUME NEW t \in 1..Drains, DrainCheck(t) PROVE PlaceInv'
    <3>1. \A u \in 1..Drains, c \in Callers :
            drain'[u].at = "run" /\ drain'[u].job = c <=> drain[u].at = "run" /\ drain[u].job = c
      <4>1. PICK at \in {"dead", "get"} : drain' = [drain EXCEPT ![t].at = at]
        BY <2>4 DEF DrainCheck
      <4>2. drain[t].at = "check"
        BY <2>4 DEF DrainCheck
      <4> QED
        BY <4>1, <4>2 DEF ExecShape, DrainRow
    <3> QED
      BY <2>4, <3>1, NoJobMoves DEF DrainCheck, PlaceInv
  <2>5. ASSUME NEW t \in 1..Drains, DrainTake(t) PROVE PlaceInv'
    <3> DEFINE e == drain[t].of
               q == pool[e].queue
    <3>1. /\ e \in 1..Pools /\ q \in Seq(Callers \cup {Stop}) /\ drain[t].at = "get"
          /\ ran' = ran /\ caller' = caller
      BY <2>5, QueueOf DEF DrainTake, ExecShape
    <3>2. CASE q = <<>>
      <4>1. drain' = [drain EXCEPT ![t].at = "check"] /\ UNCHANGED pool
        BY <2>5, <3>2 DEF DrainTake
      <4>2. \A u \in 1..Drains, c \in Callers :
              drain'[u].at = "run" /\ drain'[u].job = c <=> drain[u].at = "run" /\ drain[u].job = c
        BY <3>1, <4>1 DEF ExecShape, DrainRow
      <4> QED
        BY <3>1, <4>1, <4>2, NoJobMoves DEF PlaceInv
    <3>3. CASE q # <<>>
      <4>0. PICK h \in Callers \cup {Stop} : h = Head(q)
        BY <3>1, <3>3, TailHolds
      <4>1. /\ pool' = [pool EXCEPT ![e].queue = Tail(q)]
            /\ drain' = [drain EXCEPT ![t].job = h, ![t].at = IF h = Stop THEN "dead" ELSE "run"]
        BY <2>5, <3>3, <4>0 DEF DrainTake
      <4>2. Once(q)
        BY <3>1 DEF PlaceInv
      <4>3. /\ h \in Callers \cup {Stop} /\ h \in ToSet(q)
            /\ \A c : c # h => (c \in ToSet(Tail(q)) <=> c \in ToSet(q))
            /\ Once(Tail(q))
            /\ h # Stop => h \notin ToSet(Tail(q))
        BY <3>1, <3>3, <4>0, <4>2, TailHolds
      <4>4. /\ pool'[e].queue = Tail(q)
            /\ \A f \in 1..Pools \ {e} : pool'[f].queue = pool[f].queue
        BY <3>1, <4>1 DEF ExecShape, PoolRow
      <4>5. /\ drain'[t].job = h
            /\ drain'[t].at = IF h = Stop THEN "dead" ELSE "run"
            /\ \A u \in 1..Drains \ {t} : drain'[u] = drain[u]
        BY <4>1 DEF ExecShape, DrainRow
      <4>6. pool[e].queue = q /\ drain[t].at = "get"
        BY <3>1
      <4> HIDE DEF q, e
      <4>7. \A f \in 1..Pools : Once(pool'[f].queue)
        BY <4>3, <4>4 DEF PlaceInv
      <4>8. ASSUME NEW c \in Callers, c # h
            PROVE  IF caller'[c].at = "accepted" THEN OnePlace(c)' ELSE Nowhere(c)'
        <5>1. \A f \in 1..Pools : c \in ToSet(pool'[f].queue) <=> c \in ToSet(pool[f].queue)
          BY <4>3, <4>4, <4>6, <4>8
        <5>2. \A u \in 1..Drains :
                drain'[u].at = "run" /\ drain'[u].job = c <=> drain[u].at = "run" /\ drain[u].job = c
          BY <4>5, <4>6, <4>8
        <5>3. PoolsWith(c)' = PoolsWith(c) /\ ThreadsOn(c)' = ThreadsOn(c)
          BY <5>1, <5>2 DEF PoolsWith, ThreadsOn
        <5> QED
          BY <3>1, <5>3 DEF PlaceInv, OnePlace, Nowhere
      <4>9. ASSUME h \in Callers
            PROVE  IF caller'[h].at = "accepted" THEN OnePlace(h)' ELSE Nowhere(h)'
        <5>1. h # Stop
          BY <4>9, ExecAssumption DEF Stop
        <5>2. e \in PoolsWith(h)
          BY <3>1, <4>3, <4>6 DEF PoolsWith
        <5>3. caller[h].at = "accepted" /\ OnePlace(h)
          BY <4>9, <5>2 DEF PlaceInv, Nowhere
        <5>4. PoolsWith(h) = {e} /\ ThreadsOn(h) = {} /\ ran[h] = 0
          BY <5>2, <5>3 DEF OnePlace
        <5>5. \A f \in 1..Pools : h \notin ToSet(pool'[f].queue)
          BY <4>3, <4>4, <5>1, <5>4 DEF PoolsWith
        <5>6. PoolsWith(h)' = {}
          BY <5>5 DEF PoolsWith
        <5>7. \A u \in 1..Drains : drain'[u].at = "run" /\ drain'[u].job = h <=> u = t
          BY <4>5, <5>1, <5>4 DEF ThreadsOn
        <5>8. ThreadsOn(h)' = {t}
          BY <5>7 DEF ThreadsOn
        <5> QED
          BY <3>1, <5>3, <5>4, <5>6, <5>8 DEF OnePlace
      <4> QED
        BY <4>7, <4>8, <4>9 DEF PlaceInv
    <3> QED
      BY <3>2, <3>3
  <2>6. ASSUME NEW t \in 1..Drains, DrainRun(t) PROVE PlaceInv'
    <3>0. PICK h \in Callers : drain[t].job = h
      BY <2>6 DEF DrainRun, ExecShape
    <3>1. h \in Callers /\ drain[t].at = "run" /\ pool' = pool /\ caller' = caller
      BY <2>6 DEF DrainRun, ExecShape
    <3>2. /\ drain'[t].at = "check"
          /\ \A u \in 1..Drains \ {t} : drain'[u] = drain[u]
      BY <2>6 DEF DrainRun, ExecShape, DrainRow
    <3>3. /\ ran'[h] = ran[h] + 1
          /\ \A c \in Callers \ {h} : ran'[c] = ran[c]
      BY <2>6, <3>0, <3>1 DEF DrainRun, ExecShape
    <3>4. drain[t].job = h
      BY <3>0
    <3>5. \A f \in 1..Pools : Once(pool'[f].queue)
      BY <3>1 DEF PlaceInv
    <3>6. ASSUME NEW c \in Callers \ {h}
          PROVE  IF caller'[c].at = "accepted" THEN OnePlace(c)' ELSE Nowhere(c)'
      <4>1. PoolsWith(c)' = PoolsWith(c) /\ ThreadsOn(c)' = ThreadsOn(c) /\ ran'[c] = ran[c]
        BY <3>1, <3>2, <3>3, <3>4 DEF PoolsWith, ThreadsOn
      <4> QED
        BY <3>1, <4>1 DEF PlaceInv, OnePlace, Nowhere
    <3>7. IF caller'[h].at = "accepted" THEN OnePlace(h)' ELSE Nowhere(h)'
      <4>1. t \in ThreadsOn(h)
        BY <3>1, <3>4 DEF ThreadsOn
      <4>2. caller[h].at = "accepted" /\ OnePlace(h)
        BY <3>1, <4>1 DEF PlaceInv, Nowhere
      <4>3. PoolsWith(h) = {} /\ ThreadsOn(h) = {t} /\ ran[h] = 0
        BY <4>1, <4>2 DEF OnePlace
      <4>4. PoolsWith(h)' = {} /\ ThreadsOn(h)' = {} /\ ran'[h] = 1
        <5>1. PoolsWith(h)' = {}
          BY <3>1, <4>3 DEF PoolsWith
        <5>2. ThreadsOn(h)' = {}
          BY <3>2, <4>3 DEF ThreadsOn
        <5> QED
          BY <3>3, <4>3, <5>1, <5>2
      <4> QED
        BY <3>1, <4>2, <4>4 DEF OnePlace
    <3> QED
      BY <3>5, <3>6, <3>7 DEF PlaceInv
  <2>7. CASE CloseTake \/ CloseFlag
    <3>1. closing.pool \in 1..Pools
      BY <2>7 DEF CloseTake, CloseFlag, ExecShape
    <3>2. \A f \in 1..Pools : pool'[f].queue = pool[f].queue
      <4>1. CASE CloseTake
        BY <3>1, <4>1 DEF CloseTake, ExecShape, PoolRow
      <4>2. CASE CloseFlag
        BY <3>1, <4>2 DEF CloseFlag, ExecShape, PoolRow
      <4> QED
        BY <2>7, <4>1, <4>2
    <3> QED
      BY <2>7, <3>2, NoJobMoves DEF CloseTake, CloseFlag, PlaceInv
  <2>8. CASE ClosePoison
    <3> DEFINE e == closing.pool
               q == pool[e].queue
               r == IF Len(q) < QueueSize THEN Append(q, Stop) ELSE q
    <3>1. e \in 1..Pools /\ q \in Seq(Callers \cup {Stop})
      BY <2>8, QueueOf DEF ClosePoison, ExecShape
    <3>2. pool' = [pool EXCEPT ![e].queue = r] /\ UNCHANGED <<drain, caller, ran>>
      BY <2>8 DEF ClosePoison
    <3>3. Once(r) /\ \A c \in Callers : c \in ToSet(r) <=> c \in ToSet(q)
      <4>1. Once(q)
        BY <3>1 DEF PlaceInv
      <4>2. Once(Append(q, Stop)) /\ ToSet(Append(q, Stop)) = ToSet(q) \cup {Stop}
        BY <3>1, <4>1, AppendHolds
      <4> QED
        BY <4>1, <4>2, ExecAssumption DEF Stop
    <3> HIDE DEF r
    <3>4. /\ pool'[e].queue = r
          /\ \A f \in 1..Pools \ {e} : pool'[f].queue = pool[f].queue
      BY <3>1, <3>2 DEF ExecShape, PoolRow
    <3>5. \A f \in 1..Pools : Once(pool'[f].queue)
      BY <3>3, <3>4 DEF PlaceInv
    <3>6. \A f \in 1..Pools, c \in Callers : c \in ToSet(pool'[f].queue) <=> c \in ToSet(pool[f].queue)
      BY <3>3, <3>4
    <3> QED
      BY <3>2, <3>5, <3>6, NoJobMoves
  <2>9. CASE UNCHANGED <<pool, drain, caller, ran>>
    BY <2>9, NoJobMoves DEF PlaceInv
  <2> QED
    BY <2>1, <2>2, <2>3, <2>4, <2>5, <2>6, <2>7, <2>8, <2>9
    DEF ExecNext, SubmitSteps, DrainSteps, execVars, CloseLatch, CloseSwap, CloseJoin
<1> QED
  BY <1>1, <1>2, ExecShapeHolds, PlacesCount, PTL DEF ExecSpec

-----------------------------------------------------------------------------
(* The checkpoints.                                                         *)

PointFields == {"status", "attempt", "resumable", "stale"}
DriverRow == [at : {"asleep", "load", "insert", "reload", "redrive", "body"},
              key : StepKeys \cup {"none"}, copy : Point \cup {NoPoint}, gone : BOOLEAN]

LEMMA PointIs ==
  ASSUME NEW s \in Point
  PROVE  /\ DOMAIN s = PointFields
         /\ s.status \in {"running", "succeeded", "failed", "compensated"}
         /\ s # NoPoint
BY DEF Point, PointFields, NoPoint

\* A commit keeps a row a row.
LEMMA WrittenIs ==
  ASSUME NEW k \in StepKeys, point[k] \in Point, NEW l \in Point, NEW w \in Point
  PROVE  Written(k, l, w) \in Point
<1> DEFINE n == Written(k, l, w)
<1>1. n = [f \in PointFields |-> IF w[f] = l[f] THEN point[k][f] ELSE w[f]]
  BY PointIs DEF Written
<1>2. n = [status |-> n.status, attempt |-> n.attempt, resumable |-> n.resumable,
           stale |-> n.stale]
  BY <1>1 DEF PointFields
<1>3. /\ n.status = IF w.status = l.status THEN point[k].status ELSE w.status
      /\ n.attempt = IF w.attempt = l.attempt THEN point[k].attempt ELSE w.attempt
      /\ n.resumable = IF w.resumable = l.resumable THEN point[k].resumable ELSE w.resumable
      /\ n.stale = IF w.stale = l.stale THEN point[k].stale ELSE w.stale
  BY <1>1 DEF PointFields
<1> HIDE DEF n
<1>4. n.status \in {"running", "succeeded", "failed", "compensated"} /\ n.attempt \in 1..MaxAttempt
  BY <1>3 DEF Point
<1>5. n.resumable \in BOOLEAN /\ n.stale \in BOOLEAN
  BY <1>3 DEF Point
<1>6. n \in Point
  BY <1>2, <1>4, <1>5 DEF Point
<1> QED
  BY <1>6 DEF n

LEMMA RedrivenIs ==
  ASSUME NEW c \in Point \cup {NoPoint}
  PROVE  Redriven(c) \in Point
<1>1. c.attempt \in 0..MaxAttempt /\ MaxAttempt \in Nat \ {0}
  BY CheckpointAssumption DEF Point, NoPoint
<1>2. (IF c.attempt < MaxAttempt THEN c.attempt + 1 ELSE c.attempt) \in 1..MaxAttempt
  BY <1>1
<1> QED
  BY <1>2 DEF Redriven, Point, NoPoint

\* How a driver r, its other work o, what befell it m and the rows p fit together: a driver
\* about to claim a row has a copy of it, and the row is there unless the driver knows
\* better; one that lost a collision finds the winner's row unless it was purged; work is
\* lost to a mishap only, and committed by the time the body runs.
DriverFits(r, o, m, p) ==
  /\ r.at = "asleep" => r = Asleep
  /\ r.at # "asleep" => r.key \in StepKeys
  /\ r.at = "redrive" => /\ r.copy \in Point
                         /\ IF r.gone THEN m = "purged" ELSE p[r.key] # NoPoint
  /\ r.at = "reload" /\ p[r.key] = NoPoint => m = "purged"
  /\ r.at = "body" => o # "open"
  /\ r.gone => r.at = "redrive"
  /\ o = "lost" => m \in {"purged", "died"}

CkptShape ==
  /\ point \in [StepKeys -> Point \cup {NoPoint}]
  /\ driver \in [Drivers -> DriverRow]
  /\ outer \in [Drivers -> {"none", "open", "kept", "lost"}]
  /\ mishap \in [Drivers -> {"none", "purged", "died"}]
  /\ units \in [Drivers -> 0..MaxUnits]
  /\ crashed \subseteq StepKeys
  /\ \A d \in Drivers : DriverFits(driver[d], outer[d], mishap[d], point)

LEMMA CkptShapeIsTyped == CkptShape => CkptTypeOK /\ CollisionIsIsolated
<1> SUFFICES ASSUME CkptShape PROVE CkptTypeOK /\ CollisionIsIsolated
  OBVIOUS
<1>1. ASSUME NEW d \in Drivers
      PROVE  /\ driver[d].at \in {"asleep", "load", "insert", "reload", "redrive", "body"}
             /\ driver[d] # Asleep => driver[d].key \in StepKeys
             /\ driver[d].copy \in Point \cup {NoPoint}
             /\ driver[d].gone \in BOOLEAN
  BY DEF CkptShape, DriverRow, DriverFits
<1>2. CollisionIsIsolated
  BY DEF CkptShape, CollisionIsIsolated, DriverFits
<1> QED
  BY <1>1, <1>2 DEF CkptShape, CkptTypeOK

LEMMA AsleepIs == Asleep \in DriverRow /\ Asleep.at = "asleep"
BY DEF Asleep, DriverRow

\* What fitted goes on fitting while no row disappears.
LEMMA FitsLater ==
  ASSUME NEW r, NEW o, NEW m, NEW p, NEW q, DriverFits(r, o, m, p),
         \A k \in StepKeys : p[k] # NoPoint => q[k] # NoPoint
  PROVE  DriverFits(r, o, m, q)
BY DEF DriverFits

\* One driver goes from one place to another.
LEMMA OneDriverMoves ==
  ASSUME CkptShape, NEW d \in Drivers, NEW r \in DriverRow,
         NEW o \in {"none", "open", "kept", "lost"}, NEW m \in {"none", "purged", "died"},
         driver' = [driver EXCEPT ![d] = r], outer' = [outer EXCEPT ![d] = o],
         mishap' = [mishap EXCEPT ![d] = m],
         point' \in [StepKeys -> Point \cup {NoPoint}],
         \A k \in StepKeys : point[k] # NoPoint => point'[k] # NoPoint,
         units' \in [Drivers -> 0..MaxUnits], crashed' \subseteq StepKeys,
         DriverFits(r, o, m, point')
  PROVE  CkptShape'
<1>1. /\ driver' \in [Drivers -> DriverRow]
      /\ outer' \in [Drivers -> {"none", "open", "kept", "lost"}]
      /\ mishap' \in [Drivers -> {"none", "purged", "died"}]
  BY DEF CkptShape
<1>2. ASSUME NEW e \in Drivers PROVE DriverFits(driver'[e], outer'[e], mishap'[e], point')
  <2>1. CASE e = d
    BY <2>1 DEF CkptShape
  <2>2. CASE e # d
    <3>1. driver'[e] = driver[e] /\ outer'[e] = outer[e] /\ mishap'[e] = mishap[e]
      BY <2>2 DEF CkptShape
    <3>2. DriverFits(driver[e], outer[e], mishap[e], point')
      BY FitsLater DEF CkptShape
    <3> QED
      BY <3>1, <3>2
  <2> QED
    BY <2>1, <2>2
<1> QED
  BY <1>1, <1>2 DEF CkptShape

\* What a commit and a rollback make of the other work.
Kept(o) == IF o = "open" THEN "kept" ELSE o
Lost(o) == IF o = "open" THEN "lost" ELSE o

LEMMA OuterIs ==
  ASSUME CkptShape, NEW d \in Drivers
  PROVE  /\ Keep(d) => outer' = [outer EXCEPT ![d] = Kept(outer[d])]
         /\ Lose(d) => outer' = [outer EXCEPT ![d] = Lost(outer[d])]
         /\ {outer[d], Kept(outer[d]), Lost(outer[d])} \subseteq {"none", "open", "kept", "lost"}
         /\ outer' = outer => outer' = [outer EXCEPT ![d] = outer[d]]
         /\ mishap' = mishap => mishap' = [mishap EXCEPT ![d] = mishap[d]]
         /\ mishap[d] \in {"none", "purged", "died"}
         /\ driver[d] \in DriverRow
         /\ DriverFits(driver[d], outer[d], mishap[d], point)
BY DEF CkptShape, Keep, Lose, Kept, Lost

\* A driver that falls asleep leaves the other work kept, lost or forgotten.
LEMMA AsleepFits ==
  ASSUME NEW o, NEW m, NEW p, o = "lost" => m \in {"purged", "died"}
  PROVE  DriverFits(Asleep, o, m, p)
BY DEF DriverFits, Asleep

DriverGoes(d, c, at) == driver' = [driver EXCEPT ![d].copy = c, ![d].at = at]

\* A driver that has looked and goes on to the next stage of its claim.
LEMMA SeesShapes ==
  ASSUME CkptShape, NEW d \in Drivers, driver[d].at # "asleep", ~driver[d].gone,
         NEW at \in {"insert", "reload", "redrive"}, NEW c \in Point \cup {NoPoint},
         DriverGoes(d, c, at),
         at = "redrive" => c \in Point /\ point[driver[d].key] # NoPoint,
         at = "reload" => point[driver[d].key] # NoPoint,
         UNCHANGED <<point, units, outer, mishap, crashed>>
  PROVE  CkptShape'
<1> DEFINE r == [driver[d] EXCEPT !.copy = c, !.at = at]
<1>1. /\ driver[d] \in DriverRow /\ driver[d].key \in StepKeys
      /\ outer[d] = "lost" => mishap[d] \in {"purged", "died"}
  BY DEF CkptShape, DriverFits
<1>2. r \in DriverRow /\ r.at = at /\ r.key = driver[d].key /\ r.copy = c /\ r.gone = driver[d].gone
  BY <1>1 DEF DriverRow
<1>3. driver' = [driver EXCEPT ![d] = r]
  BY DEF CkptShape, DriverGoes
<1> HIDE DEF r
<1>4. DriverFits(r, outer[d], mishap[d], point')
  BY <1>1, <1>2 DEF DriverFits
<1>5. /\ point' \in [StepKeys -> Point \cup {NoPoint}]
      /\ \A j \in StepKeys : point[j] # NoPoint => point'[j] # NoPoint
      /\ units' \in [Drivers -> 0..MaxUnits] /\ crashed' \subseteq StepKeys
  BY DEF CkptShape
<1>6. /\ outer' = [outer EXCEPT ![d] = outer[d]] /\ mishap' = [mishap EXCEPT ![d] = mishap[d]]
      /\ outer[d] \in {"none", "open", "kept", "lost"} /\ mishap[d] \in {"none", "purged", "died"}
  BY OuterIs
<1> QED
  BY <1>2, <1>3, <1>4, <1>5, <1>6, OneDriverMoves

\* A driver that claims its row.
LEMMA ClaimShapes ==
  ASSUME CkptShape, NEW d \in Drivers, driver[d].at \in {"insert", "redrive"}, ~driver[d].gone, NEW row \in Point,
         point' = [point EXCEPT ![driver[d].key] = row],
         NEW c \in Point, DriverGoes(d, c, "body"),
         Keep(d), UNCHANGED <<units, mishap, crashed>>
  PROVE  CkptShape'
<1> DEFINE r == [driver[d] EXCEPT !.copy = c, !.at = "body"]
<1>1. /\ driver[d] \in DriverRow /\ driver[d].key \in StepKeys
      /\ outer[d] = "lost" => mishap[d] \in {"purged", "died"}
  BY DEF CkptShape, DriverFits
<1>2. r \in DriverRow /\ r.at = "body" /\ r.key = driver[d].key /\ r.gone = driver[d].gone
  BY <1>1 DEF DriverRow
<1>3. driver' = [driver EXCEPT ![d] = r]
  BY DEF CkptShape, DriverGoes
<1> HIDE DEF r
<1>4. DriverFits(r, Kept(outer[d]), mishap[d], point')
  BY <1>1, <1>2 DEF DriverFits, Kept
<1>5. /\ point' \in [StepKeys -> Point \cup {NoPoint}]
      /\ \A k \in StepKeys : point[k] # NoPoint => point'[k] # NoPoint
  BY <1>1, PointIs DEF CkptShape
<1>6. units' \in [Drivers -> 0..MaxUnits] /\ crashed' \subseteq StepKeys
  BY DEF CkptShape
<1>7. /\ outer' = [outer EXCEPT ![d] = Kept(outer[d])] /\ mishap' = [mishap EXCEPT ![d] = mishap[d]]
      /\ Kept(outer[d]) \in {"none", "open", "kept", "lost"} /\ mishap[d] \in {"none", "purged", "died"}
  BY OuterIs
<1> QED
  BY <1>2, <1>3, <1>4, <1>5, <1>6, <1>7, OneDriverMoves

\* An exception out of save: the other work is lost, to the purge that befell the driver.
LEMMA RaiseShapes ==
  ASSUME CkptShape, NEW d \in Drivers, mishap[d] = "purged", SaveRaises(d),
         UNCHANGED <<units, mishap, crashed>>
  PROVE  CkptShape'
<1>1. DriverFits(Asleep, Lost(outer[d]), mishap[d], point')
  BY AsleepFits
<1>2. /\ driver' = [driver EXCEPT ![d] = Asleep] /\ Lose(d) /\ point' = point
  BY DEF SaveRaises
<1>3. /\ point' \in [StepKeys -> Point \cup {NoPoint}]
      /\ \A k \in StepKeys : point[k] # NoPoint => point'[k] # NoPoint
      /\ units' \in [Drivers -> 0..MaxUnits] /\ crashed' \subseteq StepKeys
  BY <1>2 DEF CkptShape
<1> QED
  BY <1>1, <1>2, <1>3, OuterIs, AsleepIs, OneDriverMoves

\* What ends a step: completed, failed and cancelled alike, recorded or not.
LEMMA EndStepIs ==
  ASSUME CkptShape, NEW d \in Drivers, driver[d].at = "body",
         NEW st \in {"succeeded", "failed"}, EndStep(d, st)
  PROVE  /\ CkptShape'
         /\ point'[driver[d].key].status # "running"
         /\ \A k \in StepKeys \ {driver[d].key} : point'[k] = point[k]
         /\ driver' = [driver EXCEPT ![d] = Asleep]
<1> DEFINE k == driver[d].key
<1>1. k \in StepKeys
  BY DEF CkptShape, DriverFits
<1>2. /\ driver' = [driver EXCEPT ![d] = Asleep] /\ outer' = [outer EXCEPT ![d] = "none"]
      /\ UNCHANGED <<units, mishap, crashed>>
      /\ point' = IF point[k] = NoPoint THEN point ELSE [point EXCEPT ![k].status = st]
  BY DEF EndStep
<1>3. /\ point' \in [StepKeys -> Point \cup {NoPoint}]
      /\ point'[k].status # "running"
      /\ \A j \in StepKeys \ {k} : point'[j] = point[j]
      /\ \A j \in StepKeys : point[j] # NoPoint => point'[j] # NoPoint
  <2>1. CASE point[k] = NoPoint
    BY <1>2, <2>1 DEF CkptShape, NoPoint
  <2>2. CASE point[k] # NoPoint
    <3>1. point[k] \in Point
      BY <1>1, <2>2 DEF CkptShape
    <3>2. [point[k] EXCEPT !.status = st] \in Point /\ [point[k] EXCEPT !.status = st].status = st
      BY <3>1 DEF Point
    <3>3. point' = [point EXCEPT ![k] = [point[k] EXCEPT !.status = st]]
      BY <1>1, <1>2, <2>2 DEF CkptShape
    <3> HIDE DEF k
    <3> QED
      BY <1>1, <3>2, <3>3, PointIs DEF CkptShape
  <2> QED
    BY <2>1, <2>2
<1>4. DriverFits(Asleep, "none", mishap[d], point')
  BY AsleepFits
<1>5. units' \in [Drivers -> 0..MaxUnits] /\ crashed' \subseteq StepKeys
  BY <1>2 DEF CkptShape
<1>6. CkptShape'
  BY <1>2, <1>3, <1>4, <1>5, OuterIs, AsleepIs, OneDriverMoves
<1> QED
  BY <1>2, <1>3, <1>6

LEMMA EndUnrecordedIs ==
  ASSUME CkptShape, NEW d \in Drivers, driver[d].at = "body", EndUnrecorded(d)
  PROVE  CkptShape'
<1>1. driver[d].key \in StepKeys
  BY DEF CkptShape, DriverFits
<1>2. /\ driver' = [driver EXCEPT ![d] = Asleep] /\ outer' = [outer EXCEPT ![d] = "none"]
      /\ UNCHANGED <<point, units, mishap>> /\ crashed' = crashed \cup {driver[d].key}
  BY DEF EndUnrecorded
<1>3. DriverFits(Asleep, "none", mishap[d], point')
  BY AsleepFits
<1>4. /\ point' \in [StepKeys -> Point \cup {NoPoint}]
      /\ \A k \in StepKeys : point[k] # NoPoint => point'[k] # NoPoint
      /\ units' \in [Drivers -> 0..MaxUnits] /\ crashed' \subseteq StepKeys
  BY <1>1, <1>2 DEF CkptShape
<1> QED
  BY <1>2, <1>3, <1>4, OuterIs, AsleepIs, OneDriverMoves

LEMMA CkptShapeHolds == CkptSpec => []CkptShape
<1>1. CkptInit => CkptShape
  <2> SUFFICES ASSUME CkptInit PROVE CkptShape
    OBVIOUS
  <2>1. 0 \in 0..MaxUnits
    BY CheckpointAssumption
  <2>2. driver \in [Drivers -> DriverRow] /\ \A d \in Drivers : driver[d] = Asleep
    BY AsleepIs DEF CkptInit
  <2>3. \A d \in Drivers : DriverFits(driver[d], outer[d], mishap[d], point)
    BY <2>2, AsleepFits DEF CkptInit
  <2> QED
    BY <2>1, <2>2, <2>3 DEF CkptInit, CkptShape
<1>2. CkptShape /\ [CkptNext]_ckptVars => CkptShape'
  <2> SUFFICES ASSUME CkptShape, [CkptNext]_ckptVars PROVE CkptShape'
    OBVIOUS
  <2>1. ASSUME NEW d \in Drivers, NEW k \in StepKeys, EnterStep(d, k) PROVE CkptShape'
    <3> DEFINE entered == [Asleep EXCEPT !.at = "load", !.key = k]
    <3>1. entered \in DriverRow /\ entered.at = "load" /\ entered.key = k /\ ~entered.gone
      BY DEF DriverRow, Asleep
    <3>2. /\ driver' = [driver EXCEPT ![d] = entered] /\ mishap' = [mishap EXCEPT ![d] = "none"]
          /\ UNCHANGED <<point, crashed>> /\ units' = [units EXCEPT ![d] = @ + 1]
          /\ units[d] < MaxUnits
      BY <2>1 DEF EnterStep
    <3>3. PICK w \in {"none", "open"} : outer' = [outer EXCEPT ![d] = w]
      BY <2>1 DEF EnterStep
    <3> HIDE DEF entered
    <3>4. DriverFits(entered, w, "none", point')
      BY <3>1 DEF DriverFits
    <3>5. units' \in [Drivers -> 0..MaxUnits]
      <4>1. units[d] + 1 \in 0..MaxUnits
        BY <3>2, CheckpointAssumption DEF CkptShape
      <4> QED
        BY <3>2, <4>1 DEF CkptShape
    <3>6. /\ point' \in [StepKeys -> Point \cup {NoPoint}]
          /\ \A j \in StepKeys : point[j] # NoPoint => point'[j] # NoPoint
          /\ crashed' \subseteq StepKeys
      BY <3>2 DEF CkptShape
    <3> QED
      BY <3>1, <3>2, <3>3, <3>4, <3>5, <3>6, OneDriverMoves
  <2>2. ASSUME NEW d \in Drivers, LoadPoint(d) PROVE CkptShape'
    <3> DEFINE at == IF point[driver[d].key] = NoPoint THEN "insert" ELSE "redrive"
    <3>1. driver[d].key \in StepKeys /\ driver[d].at = "load" /\ ~driver[d].gone
      BY <2>2 DEF LoadPoint, CkptShape, DriverFits
    <3>2. point[driver[d].key] \in Point \cup {NoPoint}
      BY <3>1 DEF CkptShape
    <3>3. driver' = [driver EXCEPT ![d].copy = point[driver[d].key], ![d].at = at]
          /\ UNCHANGED <<point, units, outer, mishap, crashed>>
      BY <2>2 DEF LoadPoint
    <3>4. at \in {"insert", "redrive"}
          /\ (at = "redrive" => point[driver[d].key] \in Point /\ point[driver[d].key] # NoPoint)
      BY <3>2
    <3> HIDE DEF at
    <3> QED
      BY <3>1, <3>2, <3>3, <3>4, SeesShapes DEF DriverGoes
  <2>3. ASSUME NEW d \in Drivers, InsertPoint(d) PROVE CkptShape'
    <3> DEFINE k == driver[d].key
               fresh == Redriven([NoPoint EXCEPT !.attempt = 0])
    <3>1. k \in StepKeys /\ driver[d].at = "insert" /\ ~driver[d].gone
          /\ UNCHANGED <<units, mishap, crashed>>
      BY <2>3 DEF InsertPoint, CkptShape, DriverFits
    <3>2. fresh \in Point
      <4>1. [NoPoint EXCEPT !.attempt = 0] = NoPoint
        BY DEF NoPoint
      <4> QED
        BY <4>1, RedrivenIs
    <3> HIDE DEF fresh
    <3>3. CASE InsertsRow(d)
      <4>1. point' = [point EXCEPT ![k] = fresh] /\ Keep(d)
            /\ driver' = [driver EXCEPT ![d].copy = point'[k], ![d].at = "body"]
        BY <3>3 DEF InsertsRow, fresh
      <4>2. point'[k] = fresh
        BY <3>1, <4>1 DEF CkptShape
      <4> QED
        BY <3>1, <3>2, <4>1, <4>2, ClaimShapes DEF DriverGoes
    <3>4. CASE Collides(d) /\ UNCHANGED outer
      <4>1. /\ driver' = [driver EXCEPT ![d].at = "reload"] /\ point[k] # NoPoint
            /\ UNCHANGED <<point, outer>>
        BY <3>4 DEF Collides
      <4>2. driver[d] \in DriverRow
        BY DEF CkptShape
      <4>3. driver' = [driver EXCEPT ![d].copy = driver[d].copy, ![d].at = "reload"]
            /\ driver[d].copy \in Point \cup {NoPoint}
        BY <4>1, <4>2 DEF CkptShape, DriverRow
      <4> QED
        BY <3>1, <4>1, <4>3, SeesShapes DEF DriverGoes
    <3> QED
      BY <2>3, <3>3, <3>4 DEF InsertPoint
  <2>4. ASSUME NEW d \in Drivers, ReloadPoint(d) PROVE CkptShape'
    <3> DEFINE k == driver[d].key
    <3>1. k \in StepKeys /\ driver[d].at = "reload" /\ ~driver[d].gone
          /\ UNCHANGED <<units, mishap, crashed>>
      BY <2>4 DEF ReloadPoint, CkptShape, DriverFits
    <3>2. CASE point[k] = NoPoint
      <4>1. mishap[d] = "purged"
        BY <3>1, <3>2 DEF CkptShape, DriverFits
      <4>2. SaveRaises(d)
        BY <2>4, <3>2 DEF ReloadPoint
      <4> QED
        BY <3>1, <4>1, <4>2, RaiseShapes
    <3>3. CASE point[k] # NoPoint
      <4>1. /\ driver' = [driver EXCEPT ![d].copy = point[k], ![d].at = "redrive"]
            /\ UNCHANGED <<point, outer>>
        BY <2>4, <3>3 DEF ReloadPoint
      <4>2. point[k] \in Point
        BY <3>1, <3>3 DEF CkptShape
      <4> QED
        BY <3>1, <3>3, <4>1, <4>2, SeesShapes DEF DriverGoes
    <3> QED
      BY <3>2, <3>3
  <2>5. ASSUME NEW d \in Drivers, RedrivePoint(d) PROVE CkptShape'
    <3> DEFINE k == driver[d].key
               wanted == Redriven(driver[d].copy)
    <3>1. /\ k \in StepKeys /\ driver[d].at = "redrive" /\ driver[d].copy \in Point
          /\ UNCHANGED <<units, mishap, crashed>>
      BY <2>5 DEF RedrivePoint, CkptShape, DriverFits
    <3>2. wanted \in Point
      BY <3>1, RedrivenIs
    <3> HIDE DEF wanted
    <3>3. CASE driver[d].gone
      <4>1. mishap[d] = "purged"
        BY <3>1, <3>3 DEF CkptShape, DriverFits
      <4>2. SaveRaises(d)
        BY <2>5, <3>3 DEF RedrivePoint
      <4> QED
        BY <3>1, <4>1, <4>2, RaiseShapes
    <3>4. CASE ~driver[d].gone
      <4>1. /\ point' = [point EXCEPT ![k] = Written(k, driver[d].copy, wanted)]
            /\ driver' = [driver EXCEPT ![d].copy = wanted, ![d].at = "body"]
            /\ Keep(d)
        BY <2>5, <3>4 DEF RedrivePoint, wanted
      <4>2. point[k] \in Point
        BY <3>1, <3>4 DEF CkptShape, DriverFits
      <4>3. Written(k, driver[d].copy, wanted) \in Point
        BY <3>1, <3>2, <4>2, WrittenIs
      <4> QED
        BY <3>1, <3>2, <3>4, <4>1, <4>3, ClaimShapes DEF DriverGoes
    <3> QED
      BY <3>3, <3>4
  <2>6. ASSUME NEW d \in Drivers, StepSucceeds(d) \/ StepFails(d) \/ StepCancelled(d)
        PROVE  CkptShape'
    BY <2>6, EndStepIs, EndUnrecordedIs DEF StepSucceeds, StepFails, StepCancelled
  <2>7. ASSUME NEW d \in Drivers, DriverDies(d) PROVE CkptShape'
    <3>1. /\ driver' = [driver EXCEPT ![d] = Asleep] /\ Lose(d)
          /\ mishap' = [mishap EXCEPT ![d] = "died"] /\ UNCHANGED <<point, units>>
      BY <2>7 DEF DriverDies
    <3>2. crashed' \subseteq StepKeys
      BY <2>7 DEF DriverDies, CkptShape, DriverFits
    <3>3. DriverFits(Asleep, Lost(outer[d]), "died", point')
      BY AsleepFits
    <3>4. /\ point' \in [StepKeys -> Point \cup {NoPoint}]
          /\ \A j \in StepKeys : point[j] # NoPoint => point'[j] # NoPoint
          /\ units' \in [Drivers -> 0..MaxUnits]
      BY <3>1 DEF CkptShape
    <3> QED
      BY <3>1, <3>2, <3>3, <3>4, OuterIs, AsleepIs, OneDriverMoves
  <2>8. ASSUME NEW k \in StepKeys, Compensate(k) \/ PointExpires(k) PROVE CkptShape'
    <3>1. point[k] \in Point
      BY <2>8 DEF Compensate, PointExpires, CkptShape
    <3>2. PICK p \in Point : point' = [point EXCEPT ![k] = p]
      <4>1. CASE Compensate(k)
        <5>1. [point[k] EXCEPT !.status = "compensated", !.resumable = FALSE] \in Point
          BY <3>1 DEF Point
        <5>2. point' = [point EXCEPT ![k] = [point[k] EXCEPT !.status = "compensated", !.resumable = FALSE]]
          BY <4>1 DEF Compensate, CkptShape
        <5> QED
          BY <5>1, <5>2
      <4>2. CASE PointExpires(k)
        <5>1. [point[k] EXCEPT !.stale = TRUE] \in Point
          BY <3>1 DEF Point
        <5>2. point' = [point EXCEPT ![k] = [point[k] EXCEPT !.stale = TRUE]]
          BY <4>2 DEF PointExpires, CkptShape
        <5> QED
          BY <5>1, <5>2
      <4> QED
        BY <2>8, <4>1, <4>2
    <3>3. point' \in [StepKeys -> Point \cup {NoPoint}]
          /\ \A j \in StepKeys : point[j] # NoPoint => point'[j] # NoPoint
      BY <3>2, PointIs DEF CkptShape
    <3>4. UNCHANGED <<driver, units, outer, mishap, crashed>>
      BY <2>8 DEF Compensate, PointExpires
    <3>5. \A d \in Drivers : DriverFits(driver'[d], outer'[d], mishap'[d], point')
      BY <3>3, <3>4, FitsLater DEF CkptShape
    <3> QED
      BY <3>3, <3>4, <3>5 DEF CkptShape
  <2>9. CASE PurgeExpired
    <3>1. /\ point' = [k \in StepKeys |-> IF point[k].stale THEN NoPoint ELSE point[k]]
          /\ driver' = [d \in Drivers |-> IF Unclaimed(d) /\ driver[d].at = "redrive"
                                          THEN [driver[d] EXCEPT !.gone = TRUE] ELSE driver[d]]
          /\ mishap' = [d \in Drivers |-> IF Unclaimed(d) THEN "purged" ELSE mishap[d]]
          /\ UNCHANGED <<units, outer, crashed>>
      BY <2>9 DEF PurgeExpired
    <3>2. point' \in [StepKeys -> Point \cup {NoPoint}]
      BY <3>1 DEF CkptShape
    <3>3. mishap' \in [Drivers -> {"none", "purged", "died"}]
      BY <3>1 DEF CkptShape
    <3>4. ASSUME NEW d \in Drivers
          PROVE  driver'[d] \in DriverRow /\ DriverFits(driver'[d], outer'[d], mishap'[d], point')
      <4>1. driver[d] \in DriverRow /\ DriverFits(driver[d], outer[d], mishap[d], point)
        BY DEF CkptShape
      <4>2. CASE Unclaimed(d) /\ driver[d].at = "redrive"
        <5> DEFINE r == [driver[d] EXCEPT !.gone = TRUE]
        <5>1. driver'[d] = r /\ mishap'[d] = "purged" /\ outer'[d] = outer[d]
          BY <3>1, <4>2
        <5>2. r \in DriverRow /\ r.at = "redrive" /\ r.key = driver[d].key
              /\ r.copy = driver[d].copy /\ r.gone
          BY <4>1, <4>2 DEF DriverRow
        <5> HIDE DEF r
        <5>3. DriverFits(r, outer[d], "purged", point')
          BY <4>1, <4>2, <5>2 DEF DriverFits
        <5> QED
          BY <5>1, <5>2, <5>3
      <4>3. CASE Unclaimed(d) /\ driver[d].at # "redrive"
        <5>1. /\ driver'[d] = driver[d] /\ mishap'[d] = "purged" /\ outer'[d] = outer[d]
              /\ driver[d].at = "reload"
          BY <3>1, <4>3 DEF Unclaimed
        <5>2. DriverFits(driver[d], outer[d], "purged", point')
          BY <4>1, <5>1 DEF DriverFits
        <5> QED
          BY <4>1, <5>1, <5>2
      <4>4. CASE ~Unclaimed(d)
        <5>1. driver'[d] = driver[d] /\ mishap'[d] = mishap[d] /\ outer'[d] = outer[d]
          BY <3>1, <4>4
        <5>2. driver[d].at \in {"reload", "redrive"} => point'[driver[d].key] = point[driver[d].key]
          BY <3>1, <4>1, <4>4 DEF Unclaimed, DriverFits
        <5>3. DriverFits(driver[d], outer[d], mishap[d], point')
          BY <4>1, <5>2 DEF DriverFits
        <5> QED
          BY <4>1, <5>1, <5>3
      <4> QED
        BY <4>2, <4>3, <4>4
    <3>5. driver' \in [Drivers -> DriverRow]
      BY <3>1, <3>4
    <3> QED
      BY <3>1, <3>2, <3>3, <3>4, <3>5 DEF CkptShape
  <2>10. CASE UNCHANGED ckptVars
    BY <2>10 DEF ckptVars, CkptShape
  <2> QED
    BY <2>1, <2>2, <2>3, <2>4, <2>5, <2>6, <2>7, <2>8, <2>9, <2>10 DEF CkptNext
<1> QED
  BY <1>1, <1>2, PTL DEF CkptSpec

\* The rows and the drivers' copies of them keep their types.
THEOREM CheckpointTypes == CkptSpec => []CkptTypeOK
BY CkptShapeHolds, CkptShapeIsTyped, PTL

\* A lost race for a key costs the loser nothing but its INSERT: other work of a transaction
\* is lost to a death or to a purge only, and committed before the body runs.
THEOREM CollisionsAreIsolated == CkptSpec => []CollisionIsIsolated
BY CkptShapeHolds, CkptShapeIsTyped, PTL

\* Some driver is inside the step of a key, or one left it without a record.
Driven(k) == \E d \in Drivers : driver[d].key = k /\ driver[d].at = "body"
Accounted(k) == point[k].status = "running" => Driven(k) \/ k \in crashed

LEMMA AccountedSuffices ==
  ASSUME \A k \in StepKeys : Accounted(k)
  PROVE  RunningMeansDrivenOrCrashed
<1> SUFFICES ASSUME NEW k \in StepKeys, point[k].status = "running"
             PROVE  \/ Driving(k) # {}
                    \/ k \in crashed /\ (point[k].resumable /\ ~point[k].stale => k \in Resumable)
  BY DEF RunningMeansDrivenOrCrashed
<1>1. point[k].resumable /\ ~point[k].stale => k \in Resumable
  BY DEF Resumable
<1>2. Driven(k) => Driving(k) # {}
  BY DEF Driven, Driving
<1> QED
  BY <1>1, <1>2 DEF Accounted

\* The drivers inside the step of a key go on being so, and its row is not revived.
LEMMA StaysAccounted ==
  ASSUME NEW k \in StepKeys, Accounted(k),
         point'[k].status = "running" => point[k].status = "running",
         crashed \subseteq crashed', Driven(k) => Driven(k)' \/ k \in crashed'
  PROVE  Accounted(k)'
BY DEF Accounted

\* A step is left `running` with nobody in it by a death or a failed record only, never by a
\* failure or a cancellation that could be recorded, and a recovery pass then finds it until
\* it expires.
THEOREM RunningIsAccounted == CkptSpec => []RunningMeansDrivenOrCrashed
<1> DEFINE Inv == \A k \in StepKeys : Accounted(k)
<1>1. CkptInit => Inv
  BY DEF CkptInit, Accounted, NoPoint
<1>2. CkptShape /\ Inv /\ [CkptNext]_ckptVars => Inv'
  <2> SUFFICES ASSUME CkptShape, Inv, [CkptNext]_ckptVars, NEW j \in StepKeys
               PROVE  Accounted(j)'
    OBVIOUS
  <2>0. Accounted(j)
    OBVIOUS
  <2>1. ASSUME NEW d \in Drivers, NEW k \in StepKeys, EnterStep(d, k) PROVE Accounted(j)'
    <3>1. driver[d].at = "asleep" /\ \A e \in Drivers \ {d} : driver'[e] = driver[e]
      BY <2>1, AsleepIs DEF EnterStep, CkptShape
    <3>2. Driven(j) => Driven(j)'
      BY <3>1 DEF Driven
    <3> QED
      BY <2>0, <2>1, <3>2, StaysAccounted DEF EnterStep
  <2>2. ASSUME NEW d \in Drivers, LoadPoint(d) PROVE Accounted(j)'
    <3>1. driver[d].at = "load" /\ \A e \in Drivers \ {d} : driver'[e] = driver[e]
      BY <2>2 DEF LoadPoint, CkptShape
    <3>2. Driven(j) => Driven(j)'
      BY <3>1 DEF Driven
    <3> QED
      BY <2>0, <2>2, <3>2, StaysAccounted DEF LoadPoint
  <2>3. ASSUME NEW d \in Drivers, InsertPoint(d) \/ ReloadPoint(d) \/ RedrivePoint(d)
        PROVE  Accounted(j)'
    <3>1. /\ driver[d].at \in {"insert", "reload", "redrive"} /\ driver[d].key \in StepKeys
          /\ UNCHANGED crashed
      BY <2>3 DEF InsertPoint, ReloadPoint, RedrivePoint, CkptShape, DriverFits
    <3>2. \A e \in Drivers \ {d} : driver'[e] = driver[e]
      BY <2>3 DEF InsertPoint, InsertsRow, Collides, ReloadPoint, SaveRaises, RedrivePoint, CkptShape
    <3>3. Driven(j) => Driven(j)'
      BY <3>1, <3>2 DEF Driven
    <3>4. CASE driver'[d].at = "body" /\ driver'[d].key = driver[d].key /\ j = driver[d].key
      BY <3>4 DEF Driven, Accounted
    <3>5. CASE point'[j] = point[j]
      BY <2>0, <3>1, <3>3, <3>5, StaysAccounted
    <3>6. \/ UNCHANGED point
          \/ /\ driver'[d].at = "body" /\ driver'[d].key = driver[d].key
             /\ \A k \in StepKeys \ {driver[d].key} : point'[k] = point[k]
      <4>1. \A c, at : driver' = [driver EXCEPT ![d].copy = c, ![d].at = at]
                         => driver'[d].at = at /\ driver'[d].key = driver[d].key
        BY DEF CkptShape, DriverRow
      <4>2. CASE InsertsRow(d)
        <5>1. driver' = [driver EXCEPT ![d].copy = point'[driver[d].key], ![d].at = "body"]
          BY <4>2 DEF InsertsRow
        <5>2. \A k \in StepKeys \ {driver[d].key} : point'[k] = point[k]
          BY <4>2 DEF InsertsRow, CkptShape
        <5> QED
          BY <4>1, <5>1, <5>2
      <4>3. CASE RedrivePoint(d) /\ ~driver[d].gone
        <5>1. driver' = [driver EXCEPT ![d].copy = Redriven(driver[d].copy), ![d].at = "body"]
          BY <4>3 DEF RedrivePoint
        <5>2. \A k \in StepKeys \ {driver[d].key} : point'[k] = point[k]
          BY <4>3 DEF RedrivePoint, CkptShape
        <5> QED
          BY <4>1, <5>1, <5>2
      <4> QED
        BY <2>3, <4>2, <4>3 DEF InsertPoint, Collides, ReloadPoint, RedrivePoint, SaveRaises
    <3> QED
      BY <3>4, <3>5, <3>6
  <2>4. ASSUME NEW d \in Drivers, driver[d].at = "body",
               \E st \in {"succeeded", "failed"} : EndStep(d, st)
        PROVE  Accounted(j)'
    <3>2. /\ point'[driver[d].key].status # "running"
          /\ \A k \in StepKeys \ {driver[d].key} : point'[k] = point[k]
          /\ driver' = [driver EXCEPT ![d] = Asleep]
      BY <2>4, EndStepIs
    <3>3. crashed' = crashed
      BY <2>4 DEF EndStep
    <3>4. CASE j = driver[d].key
      BY <3>2, <3>4 DEF Accounted
    <3>5. CASE j # driver[d].key
      <4>1. Driven(j) => Driven(j)'
        BY <3>2, <3>5 DEF Driven, CkptShape
      <4> QED
        BY <2>0, <3>2, <3>3, <3>5, <4>1, StaysAccounted
    <3> QED
      BY <3>4, <3>5
  <2>5. ASSUME NEW d \in Drivers, DriverDies(d) \/ (driver[d].at = "body" /\ EndUnrecorded(d))
        PROVE  Accounted(j)'
    <3>1. \A e \in Drivers \ {d} : driver'[e] = driver[e]
      BY <2>5 DEF DriverDies, EndUnrecorded, CkptShape
    <3>2. Driven(j) => Driven(j)' \/ j \in crashed'
      BY <2>5, <3>1 DEF Driven, DriverDies, EndUnrecorded
    <3>3. point' = point /\ crashed \subseteq crashed'
      BY <2>5 DEF DriverDies, EndUnrecorded
    <3> QED
      BY <2>0, <3>2, <3>3, StaysAccounted
  <2>6. ASSUME NEW k \in StepKeys, Compensate(k) \/ PointExpires(k) PROVE Accounted(j)'
    <3>1. point'[j].status = "running" => point[j].status = "running"
      BY <2>6 DEF Compensate, PointExpires, CkptShape, Point, NoPoint
    <3>2. driver' = driver /\ crashed' = crashed
      BY <2>6 DEF Compensate, PointExpires
    <3> QED
      BY <2>0, <3>1, <3>2, StaysAccounted DEF Driven
  <2>7. CASE PurgeExpired
    <3>1. point'[j].status = "running" => point[j].status = "running"
      BY <2>7 DEF PurgeExpired, NoPoint
    <3>2. Driven(j) => Driven(j)'
      BY <2>7 DEF Driven, PurgeExpired
    <3> QED
      BY <2>0, <2>7, <3>1, <3>2, StaysAccounted DEF PurgeExpired
  <2>8. CASE UNCHANGED ckptVars
    BY <2>0, <2>8, StaysAccounted DEF ckptVars, Driven
  <2> QED
    BY <2>1, <2>2, <2>3, <2>4, <2>5, <2>6, <2>7, <2>8
       DEF CkptNext, StepSucceeds, StepFails, StepCancelled
<1>3. Inv => RunningMeansDrivenOrCrashed
  BY AccountedSuffices
<1> QED
  BY <1>1, <1>2, <1>3, CkptShapeHolds, PTL DEF CkptSpec

-----------------------------------------------------------------------------
(* The event bus, with every publisher on the loop.                         *)

Inc(s) == \A i, j \in DOMAIN s : i < j => s[i] < s[j]
Below(s, t) == \A x \in ToSet(s), y \in ToSet(t) : x < y

LEMMA EmptyIs == ToSet(<<>>) = {} /\ Inc(<<>>) /\ <<>> \in Seq(Nat) /\ Len(<<>>) = 0
BY DEF ToSet, Inc

\* Two increasing sequences, the first below the second.
LEMMA ConcatIs ==
  ASSUME NEW s \in Seq(Nat), NEW t \in Seq(Nat), Inc(s), Inc(t), Below(s, t)
  PROVE  /\ s \o t \in Seq(Nat) /\ Len(s \o t) = Len(s) + Len(t)
         /\ ToSet(s \o t) = ToSet(s) \cup ToSet(t)
         /\ Inc(s \o t)
<1> DEFINE r == s \o t
<1>1. /\ r \in Seq(Nat) /\ Len(r) = Len(s) + Len(t)
      /\ \A i \in 1..Len(s) : r[i] = s[i]
      /\ \A i \in 1..Len(t) : r[Len(s) + i] = t[i]
      /\ Len(s) \in Nat /\ Len(t) \in Nat
  OBVIOUS
<1>2. DOMAIN s = 1..Len(s) /\ DOMAIN t = 1..Len(t) /\ DOMAIN r = 1..(Len(s) + Len(t))
  BY <1>1
<1> HIDE DEF r
<1>3. \A i \in DOMAIN r : i \in 1..Len(s) \/ (i - Len(s) \in 1..Len(t) /\ r[i] = t[i - Len(s)])
  <2> SUFFICES ASSUME NEW i \in 1..(Len(s) + Len(t)), i \notin 1..Len(s)
               PROVE  i - Len(s) \in 1..Len(t) /\ r[i] = t[i - Len(s)]
    BY <1>2
  <2>1. i - Len(s) \in 1..Len(t) /\ Len(s) + (i - Len(s)) = i
    BY <1>1
  <2> QED
    BY <1>1, <2>1
<1>4. ToSet(r) = ToSet(s) \cup ToSet(t)
  <2>1. ASSUME NEW x \in ToSet(r) PROVE x \in ToSet(s) \cup ToSet(t)
    <3>1. PICK i \in DOMAIN r : x = r[i]
      BY DEF ToSet
    <3> QED
      BY <1>1, <1>2, <1>3, <3>1 DEF ToSet
  <2>2. ASSUME NEW x \in ToSet(s) PROVE x \in ToSet(r)
    <3>1. PICK i \in 1..Len(s) : x = s[i]
      BY <1>2 DEF ToSet
    <3>2. i \in 1..(Len(s) + Len(t))
      BY <1>1
    <3> QED
      BY <1>1, <1>2, <3>1, <3>2 DEF ToSet
  <2>3. ASSUME NEW x \in ToSet(t) PROVE x \in ToSet(r)
    <3>1. PICK i \in 1..Len(t) : x = t[i]
      BY <1>2 DEF ToSet
    <3>2. Len(s) + i \in 1..(Len(s) + Len(t))
      BY <1>1
    <3> QED
      BY <1>1, <1>2, <3>1, <3>2 DEF ToSet
  <2> QED
    BY <2>1, <2>2, <2>3
<1>5. Inc(r)
  <2> SUFFICES ASSUME NEW i \in DOMAIN r, NEW j \in DOMAIN r, i < j PROVE r[i] < r[j]
    BY DEF Inc
  <2>1. CASE i \in 1..Len(s) /\ j \in 1..Len(s)
    BY <1>1, <1>2, <2>1 DEF Inc
  <2>2. CASE i \in 1..Len(s) /\ j \notin 1..Len(s)
    <3>1. r[i] = s[i] /\ j - Len(s) \in 1..Len(t) /\ r[j] = t[j - Len(s)]
      BY <1>1, <1>3, <2>2
    <3>2. s[i] \in ToSet(s) /\ t[j - Len(s)] \in ToSet(t)
      BY <1>2, <2>2, <3>1 DEF ToSet
    <3> QED
      BY <3>1, <3>2 DEF Below
  <2>3. CASE i \notin 1..Len(s)
    <3>1. /\ i - Len(s) \in 1..Len(t) /\ r[i] = t[i - Len(s)]
          /\ j \notin 1..Len(s)
      BY <1>1, <1>2, <1>3, <2>3
    <3>2. j - Len(s) \in 1..Len(t) /\ r[j] = t[j - Len(s)]
      BY <1>3, <3>1
    <3>3. i - Len(s) < j - Len(s)
      BY <1>1, <1>2
    <3> QED
      BY <1>2, <3>1, <3>2, <3>3 DEF Inc
  <2> QED
    BY <2>1, <2>2, <2>3
<1> QED
  BY <1>1, <1>4, <1>5 DEF r

\* A frame pushed onto a queue of older ones.
LEMMA PushedIs ==
  ASSUME NEW q \in Seq(Nat), Inc(q), Len(q) <= Capacity, NEW f \in Nat, \A x \in ToSet(q) : x < f
  PROVE  LET r == Pushed(q, f)
         IN  /\ r \in Seq(Nat) /\ Inc(r) /\ Len(r) <= Capacity
             /\ Len(r) = IF Len(q) < Capacity THEN Len(q) + 1 ELSE Len(q)
             /\ f \in ToSet(r) /\ ToSet(r) \subseteq ToSet(q) \cup {f}
<1>0. Capacity \in Nat \ {0} /\ Len(q) \in Nat
  BY BusAssumption
<1>1. ASSUME NEW s \in Seq(Nat), Inc(s), \A x \in ToSet(s) : x < f
      PROVE  /\ Append(s, f) \in Seq(Nat) /\ Len(Append(s, f)) = Len(s) + 1
             /\ ToSet(Append(s, f)) = ToSet(s) \cup {f} /\ Inc(Append(s, f))
  <2>1. Append(s, f) = s \o <<f>> /\ <<f>> \in Seq(Nat) /\ Len(<<f>>) = 1
    OBVIOUS
  <2>2. ToSet(<<f>>) = {f} /\ Inc(<<f>>)
    BY DEF ToSet, Inc
  <2>3. Below(s, <<f>>)
    BY <1>1, <2>2 DEF Below
  <2> QED
    BY <1>1, <2>1, <2>2, <2>3, ConcatIs
<1>2. CASE Len(q) < Capacity
  BY <1>0, <1>1, <1>2 DEF Pushed
<1>3. CASE ~(Len(q) < Capacity)
  <2>1. q # <<>> /\ Len(q) = Capacity
    BY <1>0, <1>3
  <2>2. Tail(q) \in Seq(Nat) /\ Len(Tail(q)) = Len(q) - 1 /\ ToSet(Tail(q)) \subseteq ToSet(q)
    <3>1. /\ Tail(q) \in Seq(Nat) /\ Len(Tail(q)) = Len(q) - 1 /\ Head(q) \in ToSet(q)
          /\ \A c : c # Head(q) => (c \in ToSet(Tail(q)) <=> c \in ToSet(q))
      BY <2>1, TailHolds
    <3> QED
      BY <3>1
  <2>3. Inc(Tail(q))
    <3>1. \A i \in 1..Len(Tail(q)) : Tail(q)[i] = q[i + 1] /\ i + 1 \in 1..Len(q)
      BY <1>0, <2>1, <2>2
    <3>2. DOMAIN Tail(q) = 1..Len(Tail(q)) /\ DOMAIN q = 1..Len(q)
      BY <2>2
    <3> QED
      BY <1>0, <2>2, <3>1, <3>2 DEF Inc
  <2>4. \A x \in ToSet(Tail(q)) : x < f
    BY <2>2
  <2>5. /\ Append(Tail(q), f) \in Seq(Nat) /\ Len(Append(Tail(q), f)) = Len(Tail(q)) + 1
        /\ ToSet(Append(Tail(q), f)) = ToSet(Tail(q)) \cup {f} /\ Inc(Append(Tail(q), f))
    BY <1>1, <2>2, <2>3, <2>4
  <2>6. Len(Append(Tail(q), f)) = Len(q)
    BY <1>0, <2>2, <2>5
  <2> QED
    BY <1>0, <1>3, <2>1, <2>2, <2>5, <2>6 DEF Pushed
<1> QED
  BY <1>2, <1>3

Queue == mailbox.queue
Carried == pump.batch
Seen == ToSet(wire) \cup ToSet(Carried) \cup ToSet(Queue)
Sum == Len(wire) + Len(Carried) + Len(Queue) + mailbox.dropped

BusShape ==
  /\ sequence \in Nat
  /\ subscribed \in BOOLEAN
  /\ mailbox \in [queue : Seq(Nat), dropped : Nat, overflowed : BOOLEAN, closed : BOOLEAN]
  /\ Len(Queue) <= Capacity
  /\ publisher \in [Publishers -> [at : {"idle", "offer", "append", "notify"}, frame : Nat]]
  /\ pump \in [at : {"top", "clear", "recheck", "wait", "send", "gone"}, batch : Seq(Nat)]
  /\ wire \in Seq(Nat)

\* Who has the loop: a publisher in its call, the pump between a look at the mailbox and
\* what it does about it, or nobody.
LoopInv ==
  /\ holder \in OnLoop \cup {"nobody", "pump"}
  /\ \A p \in OnLoop : publisher[p].at # "idle" <=> holder = p
  /\ pump.at \in {"clear", "recheck"} <=> holder = "pump"
  /\ pump.at = "gone" <=> ~subscribed
  /\ pump.at = "gone" => holder = "nobody"
  /\ mailbox.closed <=> ~subscribed
  /\ pump.at \notin {"clear", "send"} => Carried = <<>>
  /\ pump.at = "clear" => Carried = Queue
  /\ pump.at = "recheck" => Queue = <<>>

\* What each moment of a call has accounted for.
CountInv ==
  /\ subscribed /\ holder = "nobody" => sequence = Sum
  /\ holder = "pump" => sequence = Len(wire) + Len(Queue) + mailbox.dropped
  /\ \A p \in OnLoop :
       /\ publisher[p].at # "idle" => publisher[p].frame = sequence
       /\ publisher[p].at = "offer" => sequence = Sum + 1
       /\ publisher[p].at = "append"
            => sequence = IF Len(Queue) < Capacity THEN Sum + 1 ELSE Sum
       /\ publisher[p].at = "notify" => sequence = Sum

\* Frames stay in publication order, and the last one is never among the discarded.
OrderInv ==
  /\ Inc(wire) /\ Inc(Carried) /\ Inc(Queue)
  /\ Below(wire, Carried) /\ Below(wire, Queue) /\ (pump.at # "clear" => Below(Carried, Queue))
  /\ \A x \in Seen : x <= sequence
  /\ \A p \in OnLoop : publisher[p].at \in {"offer", "append"} => \A x \in Seen : x < sequence
  /\ subscribed /\ (\A p \in OnLoop : publisher[p].at \notin {"offer", "append"})
       => sequence = 0 \/ sequence \in Seen

BusInv == BusShape /\ LoopInv /\ CountInv /\ OrderInv

LEMMA BusQuiet ==
  ASSUME BusInv, UNCHANGED <<sequence, subscribed, mailbox, publisher, pump, holder, wire>>
  PROVE  BusInv'
BY DEF BusInv, BusShape, LoopInv, CountInv, OrderInv, Queue, Carried, Seen, Sum

LEMMA BusNumbers ==
  ASSUME BusShape
  PROVE  /\ Queue \in Seq(Nat) /\ Carried \in Seq(Nat) /\ wire \in Seq(Nat)
         /\ Len(Queue) \in Nat /\ Len(Carried) \in Nat /\ Len(wire) \in Nat
         /\ mailbox.dropped \in Nat /\ sequence \in Nat
         /\ Seen \subseteq Nat
         /\ Capacity \in Nat \ {0}
<1>1. /\ Queue \in Seq(Nat) /\ Carried \in Seq(Nat) /\ wire \in Seq(Nat)
      /\ mailbox.dropped \in Nat /\ sequence \in Nat
  BY DEF BusShape, Queue, Carried
<1>2. \A s \in Seq(Nat) : ToSet(s) \subseteq Nat
  BY DEF ToSet
<1> QED
  BY <1>1, <1>2, BusAssumption DEF Seen

LEMMA PublisherGoes ==
  ASSUME BusShape, NEW p \in OnLoop, NEW at \in {"idle", "offer", "append", "notify"},
         NEW f \in Nat, Goes(p, at, f)
  PROVE  /\ publisher' \in [Publishers -> [at : {"idle", "offer", "append", "notify"}, frame : Nat]]
         /\ publisher'[p].at = at /\ publisher'[p].frame = f
         /\ \A q \in OnLoop \ {p} : publisher'[q] = publisher[q]
<1>1. p \in Publishers /\ \A q \in OnLoop : q \in Publishers
  BY DEF Publishers
<1>2. [at |-> at, frame |-> f] \in [at : {"idle", "offer", "append", "notify"}, frame : Nat]
  OBVIOUS
<1> QED
  BY <1>1, <1>2 DEF BusShape, Goes

\* With every publisher on the loop: each frame a live client has not been sent lies in
\* its mailbox, is on its way or was counted as dropped whenever the loop awaits; what
\* it was sent is in publication order; and a client that waits with an empty mailbox
\* has been sent the last frame there is.
THEOREM LossesCounted ==
  ASSUME OnThreads = {}
  PROVE  BusSpec => []LossesAreCounted
<1>a. Publishers = OnLoop /\ "nobody" \notin OnLoop /\ "pump" \notin OnLoop
  BY BusAssumption DEF Publishers
<1>1. BusInit => BusInv
  <2> SUFFICES ASSUME BusInit PROVE BusInv
    OBVIOUS
  <2>1. Queue = <<>> /\ Carried = <<>> /\ wire = <<>>
    BY DEF BusInit, Queue, Carried
  <2>2. Seen = {}
    BY <2>1, EmptyIs DEF Seen
  <2>3. BusShape
    BY <2>1, EmptyIs, BusAssumption DEF BusInit, BusShape
  <2>4. LoopInv
    BY <1>a, <2>1 DEF BusInit, LoopInv
  <2>5. CountInv
    BY <1>a, <2>1, EmptyIs DEF BusInit, CountInv, Sum
  <2>6. OrderInv
    BY <1>a, <2>1, <2>2, EmptyIs DEF BusInit, OrderInv, Below
  <2> QED
    BY <2>3, <2>4, <2>5, <2>6 DEF BusInv
<1>2. BusInv /\ [BusNext]_busVars => BusInv'
  <2> SUFFICES ASSUME BusInv, [BusNext]_busVars PROVE BusInv'
    OBVIOUS
  <2>0. BusShape /\ LoopInv /\ CountInv /\ OrderInv
    BY DEF BusInv
  <2>1. ASSUME NEW p \in OnLoop, Publish(p) PROVE BusInv'
    <3>1. /\ publisher[p].at = "idle" /\ holder = "nobody" /\ subscribed
          /\ sequence' = sequence + 1 /\ holder' = p
          /\ UNCHANGED <<subscribed, mailbox, pump, wire>>
      BY <1>a, <2>0, <2>1 DEF Publish, MayRun, Takes, LoopInv
    <3>2. /\ publisher' \in [Publishers -> [at : {"idle", "offer", "append", "notify"}, frame : Nat]]
          /\ publisher'[p].at = "offer" /\ publisher'[p].frame = sequence + 1
          /\ \A q \in OnLoop \ {p} : publisher'[q] = publisher[q]
      BY <2>0, <2>1, BusNumbers, PublisherGoes DEF Publish
    <3>3. \A q \in OnLoop : publisher[q].at = "idle"
      BY <1>a, <2>0, <3>1 DEF LoopInv
    <3>4. Queue' = Queue /\ Carried' = Carried /\ Seen' = Seen /\ Sum' = Sum
      BY <3>1 DEF Queue, Carried, Seen, Sum
    <3>5. BusShape'
      BY <2>0, <3>1, <3>2, <3>4, BusNumbers DEF BusShape
    <3>6. LoopInv'
      BY <1>a, <2>0, <3>1, <3>2, <3>3, <3>4 DEF LoopInv
    <3>7. CountInv'
      <4>1. sequence = Sum
        BY <2>0, <3>1 DEF CountInv
      <4> QED
        BY <1>a, <3>1, <3>2, <3>3, <3>4, <4>1 DEF CountInv
    <3>8. OrderInv'
      <4>1. \A x \in Seen : x < sequence + 1
        BY <2>0, BusNumbers DEF OrderInv
      <4> QED
        BY <2>0, <3>1, <3>2, <3>3, <3>4, <4>1, BusNumbers DEF OrderInv
    <3> QED
      BY <3>5, <3>6, <3>7, <3>8 DEF BusInv
  <2>2. ASSUME NEW p \in OnLoop, Offer(p) PROVE BusInv'
    <3> DEFINE lost == IF Len(Queue) = Capacity THEN mailbox.dropped + 1 ELSE mailbox.dropped
    <3>1. /\ publisher[p].at = "offer" /\ holder = p /\ ~mailbox.closed /\ subscribed
          /\ UNCHANGED <<sequence, subscribed, pump, wire>>
      BY <1>a, <2>0, <2>2 DEF Offer, MayRun, LoopInv
    <3>2. /\ mailbox'.queue = Queue /\ mailbox'.dropped = lost /\ mailbox'.closed = mailbox.closed
          /\ mailbox' \in [queue : Seq(Nat), dropped : Nat, overflowed : BOOLEAN, closed : BOOLEAN]
          /\ Goes(p, "append", publisher[p].frame) /\ holder' = p
      <4>1. lost \in Nat
        BY <2>0, BusNumbers
      <4>2. \E o \in BOOLEAN :
              mailbox' = [mailbox EXCEPT !.dropped = lost, !.overflowed = o]
        BY <2>0, <2>2, <3>1 DEF Offer, BusShape, Queue
      <4> HIDE DEF lost
      <4>3. Goes(p, "append", publisher[p].frame) /\ holder' = p
        BY <2>2, <3>1 DEF Offer, Takes
      <4> QED
        BY <2>0, <4>1, <4>2, <4>3 DEF BusShape, Queue
    <3>3. publisher[p].frame = sequence
      BY <2>0, <3>1 DEF CountInv
    <3>4. /\ publisher' \in [Publishers -> [at : {"idle", "offer", "append", "notify"}, frame : Nat]]
          /\ publisher'[p].at = "append" /\ publisher'[p].frame = sequence
          /\ \A q \in OnLoop \ {p} : publisher'[q] = publisher[q]
      BY <2>0, <3>2, <3>3, BusNumbers, PublisherGoes
    <3>5. Queue' = Queue /\ Carried' = Carried /\ Seen' = Seen
      BY <3>1, <3>2 DEF Queue, Carried, Seen
    <3>6. \A q \in OnLoop \ {p} : publisher[q].at = "idle"
      BY <1>a, <2>0, <3>1 DEF LoopInv
    <3>7. BusShape'
      BY <2>0, <3>1, <3>2, <3>4, <3>5 DEF BusShape
    <3>8. LoopInv'
      BY <1>a, <2>0, <3>1, <3>2, <3>4, <3>5, <3>6 DEF LoopInv
    <3>9. CountInv'
      <4>1. sequence = Sum + 1
        BY <2>0, <3>1 DEF CountInv
      <4>2. Sum' = IF Len(Queue) = Capacity THEN Sum + 1 ELSE Sum
        BY <2>0, <3>1, <3>2, <3>5, BusNumbers DEF Sum
      <4>3. Len(Queue) <= Capacity
        BY <2>0 DEF BusShape
      <4>4. sequence' = IF Len(Queue') < Capacity THEN Sum' + 1 ELSE Sum'
        BY <2>0, <3>1, <3>5, <4>1, <4>2, <4>3, BusNumbers
      <4> QED
        BY <1>a, <3>1, <3>2, <3>4, <3>6, <4>4 DEF CountInv
    <3>10. OrderInv'
      <4>1. \A x \in Seen : x < sequence
        BY <2>0, <3>1 DEF OrderInv
      <4> QED
        BY <2>0, <3>1, <3>4, <3>5, <3>6, <4>1 DEF OrderInv
    <3> QED
      BY <3>7, <3>8, <3>9, <3>10 DEF BusInv
  <2>3. ASSUME NEW p \in OnLoop, AppendFrame(p) PROVE BusInv'
    <3>1. /\ publisher[p].at = "append" /\ holder = p /\ subscribed
          /\ UNCHANGED <<sequence, subscribed, pump, holder, wire>>
      BY <1>a, <2>0, <2>3 DEF AppendFrame, MayRun, LoopInv
    <3>2. publisher[p].frame = sequence /\ \A x \in Seen : x < sequence
      BY <2>0, <3>1 DEF CountInv, OrderInv
    <3>3. /\ Pushed(Queue, sequence) \in Seq(Nat) /\ Inc(Pushed(Queue, sequence))
          /\ Len(Pushed(Queue, sequence)) <= Capacity
          /\ Len(Pushed(Queue, sequence))
               = IF Len(Queue) < Capacity THEN Len(Queue) + 1 ELSE Len(Queue)
          /\ sequence \in ToSet(Pushed(Queue, sequence))
          /\ ToSet(Pushed(Queue, sequence)) \subseteq ToSet(Queue) \cup {sequence}
      <4>1. \A x \in ToSet(Queue) : x < sequence
        BY <3>2 DEF Seen
      <4> QED
        BY <2>0, <4>1, BusNumbers, PushedIs DEF BusShape, OrderInv
    <3>4. /\ Queue' = Pushed(Queue, sequence)
          /\ mailbox'.dropped = mailbox.dropped /\ mailbox'.closed = mailbox.closed
          /\ mailbox' \in [queue : Seq(Nat), dropped : Nat, overflowed : BOOLEAN, closed : BOOLEAN]
      <4>1. mailbox' = [mailbox EXCEPT !.queue = Pushed(Queue, sequence)]
        BY <2>0, <2>3, <3>2 DEF AppendFrame, Queue, BusShape
      <4> QED
        BY <2>0, <3>3, <4>1 DEF BusShape, Queue
    <3>5. /\ publisher' \in [Publishers -> [at : {"idle", "offer", "append", "notify"}, frame : Nat]]
          /\ publisher'[p].at = "notify" /\ publisher'[p].frame = sequence
          /\ \A q \in OnLoop \ {p} : publisher'[q] = publisher[q]
      BY <2>0, <2>3, <3>2, BusNumbers, PublisherGoes DEF AppendFrame
    <3>6. \A q \in OnLoop \ {p} : publisher[q].at = "idle"
      BY <1>a, <2>0, <3>1 DEF LoopInv
    <3>7. pump.at \notin {"clear", "recheck", "gone"} /\ Carried' = Carried
      BY <1>a, <2>0, <3>1 DEF LoopInv, Carried
    <3>8. BusShape'
      BY <2>0, <3>1, <3>3, <3>4, <3>5 DEF BusShape
    <3>9. LoopInv'
      BY <1>a, <2>0, <3>1, <3>4, <3>5, <3>6, <3>7 DEF LoopInv
    <3>10. CountInv'
      <4>1. sequence = IF Len(Queue) < Capacity THEN Sum + 1 ELSE Sum
        BY <2>0, <3>1 DEF CountInv
      <4>2. Sum' = Len(wire) + Len(Carried) + Len(Pushed(Queue, sequence)) + mailbox.dropped
        BY <3>1, <3>4, <3>7 DEF Sum
      <4>3. /\ Len(wire) \in Nat /\ Len(Carried) \in Nat /\ Len(Queue) \in Nat
            /\ mailbox.dropped \in Nat
            /\ Sum = Len(wire) + Len(Carried) + Len(Queue) + mailbox.dropped
        BY <2>0, BusNumbers DEF Sum
      <4>4. Sum' = IF Len(Queue) < Capacity THEN Sum + 1 ELSE Sum
        <5>1. CASE Len(Queue) < Capacity
          BY <3>3, <4>2, <4>3, <5>1
        <5>2. CASE ~(Len(Queue) < Capacity)
          <6>1. Len(Pushed(Queue, sequence)) = Len(Queue)
            BY <3>3, <5>2
          <6> QED
            BY <4>2, <4>3, <5>2, <6>1
        <5> QED
          BY <5>1, <5>2
      <4> QED
        BY <1>a, <3>1, <3>5, <3>6, <4>1, <4>4 DEF CountInv
    <3>11. OrderInv'
      <4>1. Below(wire, Queue') /\ Below(Carried, Queue')
        <5>1. \A x \in ToSet(wire) \cup ToSet(Carried) : x < sequence
          BY <3>2 DEF Seen
        <5>2. Below(wire, Queue) /\ Below(Carried, Queue)
          BY <2>0, <3>7 DEF OrderInv
        <5> QED
          BY <3>3, <3>4, <5>1, <5>2 DEF Below
      <4>2. Seen' \subseteq Seen \cup {sequence} /\ sequence \in Seen'
        BY <3>1, <3>3, <3>4, <3>7 DEF Seen
      <4>3. \A x \in Seen' : x <= sequence'
        <5> SUFFICES ASSUME NEW x \in Seen' PROVE x <= sequence
          BY <3>1
        <5>1. CASE x = sequence
          BY <2>0, <5>1, BusNumbers
        <5>2. CASE x \in Seen
          <6>1. x \in Nat /\ x < sequence /\ sequence \in Nat
            BY <2>0, <3>2, <5>2, BusNumbers
          <6> QED
            BY <6>1
        <5> QED
          BY <4>2, <5>1, <5>2
      <4>4. \A q \in OnLoop : publisher'[q].at \notin {"offer", "append"}
        BY <3>5, <3>6
      <4>5. Inc(Queue') /\ Inc(Carried') /\ Inc(wire') /\ Below(wire', Carried')
        BY <2>0, <3>1, <3>3, <3>4, <3>7 DEF OrderInv
      <4> QED
        BY <3>1, <3>7, <4>1, <4>2, <4>3, <4>4, <4>5 DEF OrderInv
    <3> QED
      BY <3>8, <3>9, <3>10, <3>11 DEF BusInv
  <2>4. ASSUME NEW p \in OnLoop, Notify(p) PROVE BusInv'
    <3>1. /\ publisher[p].at = "notify" /\ holder = p /\ holder' = "nobody"
          /\ UNCHANGED <<sequence, subscribed, mailbox, pump, wire>>
      BY <1>a, <2>0, <2>4 DEF Notify, MayRun, Leaves, LoopInv
    <3>2. /\ publisher' \in [Publishers -> [at : {"idle", "offer", "append", "notify"}, frame : Nat]]
          /\ publisher'[p].at = "idle"
          /\ \A q \in OnLoop \ {p} : publisher'[q] = publisher[q]
      BY <2>0, <2>4, PublisherGoes DEF Notify
    <3>3. \A q \in OnLoop \ {p} : publisher[q].at = "idle"
      BY <1>a, <2>0, <3>1 DEF LoopInv
    <3>4. Queue' = Queue /\ Carried' = Carried /\ Seen' = Seen /\ Sum' = Sum
      BY <3>1 DEF Queue, Carried, Seen, Sum
    <3>5. BusShape'
      BY <2>0, <3>1, <3>2, <3>4 DEF BusShape
    <3>6. LoopInv'
      BY <1>a, <2>0, <3>1, <3>2, <3>3, <3>4 DEF LoopInv
    <3>7. CountInv'
      <4>1. sequence = Sum
        BY <2>0, <3>1 DEF CountInv
      <4> QED
        BY <3>1, <3>2, <3>3, <3>4, <4>1 DEF CountInv
    <3>8. OrderInv'
      <4>1. \A q \in OnLoop : publisher[q].at \notin {"offer", "append"}
                              /\ publisher'[q].at \notin {"offer", "append"}
        BY <3>1, <3>2, <3>3
      <4> QED
        BY <2>0, <3>1, <3>4, <4>1 DEF OrderInv
    <3> QED
      BY <3>5, <3>6, <3>7, <3>8 DEF BusInv
  <2>5. CASE Wake
    BY <2>5, BusQuiet DEF Wake
  <2>6. CASE DrainTop
    <3>1. /\ pump.at = "top" /\ holder = "nobody" /\ subscribed /\ Carried = <<>> /\ holder' = "pump"
          /\ UNCHANGED <<sequence, subscribed, mailbox, publisher, wire>>
      BY <1>a, <2>0, <2>6 DEF DrainTop, LoopInv, PumpGoes
    <3>2. Queue' = Queue
      BY <3>1 DEF Queue
    <3>3. \A q \in OnLoop : publisher[q].at = "idle" /\ publisher'[q].at = "idle"
      BY <1>a, <2>0, <3>1 DEF LoopInv
    <3>4. \/ Queue # <<>> /\ pump' = [at |-> "clear", batch |-> Queue]
          \/ Queue = <<>> /\ pump' = [at |-> "recheck", batch |-> <<>>]
      BY <2>6 DEF DrainTop, PumpGoes, Queue
    <3>5. /\ pump' \in [at : {"top", "clear", "recheck", "wait", "send", "gone"}, batch : Seq(Nat)]
          /\ pump'.at \in {"clear", "recheck"} /\ Carried' = Queue
          /\ (pump'.at = "recheck" => Queue = <<>>)
      BY <2>0, <3>4, BusNumbers DEF Carried
    <3>6. BusShape'
      BY <2>0, <3>1, <3>2, <3>5 DEF BusShape
    <3>7. LoopInv'
      BY <1>a, <2>0, <3>1, <3>2, <3>3, <3>5 DEF LoopInv
    <3>8. CountInv'
      <4>1. sequence = Sum
        BY <2>0, <3>1 DEF CountInv
      <4>2. sequence = Len(wire) + Len(Queue) + mailbox.dropped
        BY <2>0, <3>1, <4>1, EmptyIs, BusNumbers DEF Sum
      <4> QED
        BY <1>a, <3>1, <3>2, <3>3, <4>2 DEF CountInv
    <3>9. OrderInv'
      <4>1. Seen' = Seen
        BY <3>1, <3>2, <3>5, EmptyIs DEF Seen
      <4>2. Below(wire, Queue) /\ Inc(Queue) /\ Inc(wire)
        BY <2>0 DEF OrderInv
      <4>3. pump'.at # "clear" => Below(Carried', Queue')
        BY <3>2, <3>5, EmptyIs DEF Below
      <4> QED
        BY <2>0, <3>1, <3>2, <3>3, <3>5, <4>1, <4>2, <4>3 DEF OrderInv
    <3> QED
      BY <3>6, <3>7, <3>8, <3>9 DEF BusInv
  <2>7. CASE DrainClear
    <3>1. /\ pump.at = "clear" /\ holder = "pump" /\ subscribed /\ Carried = Queue
          /\ holder' = "nobody" /\ pump' = [at |-> "send", batch |-> Carried]
          /\ UNCHANGED <<sequence, subscribed, publisher, wire>>
      BY <1>a, <2>0, <2>7 DEF DrainClear, LoopInv, PumpGoes, Carried
    <3>2. /\ Queue' = <<>> /\ mailbox'.dropped = mailbox.dropped /\ mailbox'.closed = mailbox.closed
          /\ mailbox' \in [queue : Seq(Nat), dropped : Nat, overflowed : BOOLEAN, closed : BOOLEAN]
      BY <2>0, <2>7, EmptyIs DEF DrainClear, BusShape, Queue
    <3>3. \A q \in OnLoop : publisher[q].at = "idle" /\ publisher'[q].at = "idle"
      BY <1>a, <2>0, <3>1 DEF LoopInv
    <3>4. /\ pump' \in [at : {"top", "clear", "recheck", "wait", "send", "gone"}, batch : Seq(Nat)]
          /\ pump'.at = "send" /\ Carried' = Carried
      BY <2>0, <3>1, BusNumbers DEF Carried
    <3>5. BusShape'
      BY <2>0, <3>1, <3>2, <3>4, EmptyIs, BusNumbers DEF BusShape
    <3>6. LoopInv'
      BY <1>a, <2>0, <3>1, <3>2, <3>3, <3>4 DEF LoopInv
    <3>7. CountInv'
      <4>1. sequence = Len(wire) + Len(Queue) + mailbox.dropped
        BY <2>0, <3>1 DEF CountInv
      <4>2. Sum' = Len(wire) + Len(Carried) + 0 + mailbox.dropped
        BY <3>1, <3>2, <3>4, EmptyIs DEF Sum
      <4>3. sequence' = Sum'
        BY <2>0, <3>1, <4>1, <4>2, BusNumbers
      <4> QED
        BY <1>a, <3>1, <3>3, <4>3 DEF CountInv
    <3>8. OrderInv'
      <4>1. Seen' = Seen
        BY <3>1, <3>2, <3>4, EmptyIs DEF Seen
      <4>2. Below(wire', Queue') /\ Below(Carried', Queue') /\ Inc(Queue')
        BY <3>2, EmptyIs DEF Below
      <4> QED
        BY <2>0, <3>1, <3>3, <3>4, <4>1, <4>2 DEF OrderInv
    <3> QED
      BY <3>5, <3>6, <3>7, <3>8 DEF BusInv
  <2>8. CASE DrainRecheck \/ DrainWakes
    <3>1. /\ subscribed /\ Carried = <<>> /\ holder' = "nobody"
          /\ \/ pump' = [at |-> "wait", batch |-> <<>>]
             \/ pump' = [at |-> "top", batch |-> <<>>]
          /\ holder \in {"nobody", "pump"}
          /\ UNCHANGED <<sequence, subscribed, mailbox, publisher, wire>>
      BY <1>a, <2>0, <2>8 DEF DrainRecheck, DrainWakes, LoopInv, PumpGoes, Queue
    <3>2. /\ pump' \in [at : {"top", "clear", "recheck", "wait", "send", "gone"}, batch : Seq(Nat)]
          /\ Carried' = Carried /\ pump'.at \in {"wait", "top"}
      <4>1. PICK at \in {"wait", "top"} : pump' = [at |-> at, batch |-> <<>>]
        BY <3>1
      <4>2. <<>> \in Seq(Nat)
        OBVIOUS
      <4> QED
        BY <3>1, <4>1, <4>2 DEF Carried
    <3>3. Queue' = Queue /\ Seen' = Seen /\ Sum' = Sum
      BY <3>1, <3>2 DEF Queue, Seen, Sum
    <3>4. \A q \in OnLoop : publisher[q].at = "idle" /\ publisher'[q].at = "idle"
      BY <1>a, <2>0, <3>1 DEF LoopInv
    <3>5. BusShape'
      BY <2>0, <3>1, <3>2, <3>3 DEF BusShape
    <3>6. LoopInv'
      BY <1>a, <2>0, <3>1, <3>2, <3>3, <3>4 DEF LoopInv
    <3>7. CountInv'
      <4>1. sequence = Sum
        BY <2>0, <3>1, EmptyIs, BusNumbers DEF CountInv, Sum
      <4> QED
        BY <1>a, <3>1, <3>3, <3>4, <4>1 DEF CountInv
    <3>8. OrderInv'
      <4>1. Below(Carried', Queue')
        BY <3>1, <3>2, EmptyIs DEF Below
      <4> QED
        BY <2>0, <3>1, <3>2, <3>3, <3>4, <4>1 DEF OrderInv
    <3> QED
      BY <3>5, <3>6, <3>7, <3>8 DEF BusInv
  <2>9. CASE SendBatch /\ ~mailbox.overflowed
    <3>1. /\ pump.at = "send" /\ holder = "nobody" /\ subscribed /\ holder' = "nobody"
          /\ wire' = wire \o Carried /\ pump' = [at |-> "top", batch |-> <<>>]
          /\ UNCHANGED <<sequence, subscribed, mailbox, publisher>>
      BY <1>a, <2>0, <2>9 DEF SendBatch, LoopInv, PumpGoes, Carried
    <3>2. /\ wire' \in Seq(Nat) /\ Len(wire') = Len(wire) + Len(Carried)
          /\ ToSet(wire') = ToSet(wire) \cup ToSet(Carried) /\ Inc(wire')
      BY <2>0, <3>1, BusNumbers, ConcatIs DEF OrderInv
    <3>3. /\ pump' \in [at : {"top", "clear", "recheck", "wait", "send", "gone"}, batch : Seq(Nat)]
          /\ pump'.at = "top" /\ Carried' = <<>> /\ Queue' = Queue
      BY <3>1, EmptyIs DEF Carried, Queue
    <3>4. \A q \in OnLoop : publisher[q].at = "idle" /\ publisher'[q].at = "idle"
      BY <1>a, <2>0, <3>1 DEF LoopInv
    <3>5. BusShape'
      BY <2>0, <3>1, <3>2, <3>3 DEF BusShape
    <3>6. LoopInv'
      BY <1>a, <2>0, <3>1, <3>3, <3>4 DEF LoopInv
    <3>7. CountInv'
      <4>1. sequence = Sum
        BY <2>0, <3>1 DEF CountInv
      <4>2. Sum' = (Len(wire) + Len(Carried)) + 0 + Len(Queue) + mailbox.dropped
        BY <3>1, <3>2, <3>3, EmptyIs DEF Sum
      <4>3. Sum' = Sum
        BY <2>0, <4>2, BusNumbers DEF Sum
      <4> QED
        BY <1>a, <3>1, <3>4, <4>1, <4>3 DEF CountInv
    <3>8. OrderInv'
      <4>1. Seen' = Seen
        BY <3>2, <3>3, EmptyIs DEF Seen
      <4>2. Below(wire', Queue')
        BY <2>0, <3>1, <3>2, <3>3 DEF Below, OrderInv
      <4>3. Below(wire', Carried') /\ Below(Carried', Queue') /\ Inc(Carried')
        BY <3>3, EmptyIs DEF Below
      <4> QED
        BY <2>0, <3>1, <3>2, <3>3, <3>4, <4>1, <4>2, <4>3 DEF OrderInv
    <3> QED
      BY <3>5, <3>6, <3>7, <3>8 DEF BusInv
  <2>10. CASE ClientGone \/ (SendBatch /\ mailbox.overflowed)
    <3>1. /\ holder = "nobody" /\ holder' = "nobody" /\ subscribed' = FALSE
          /\ pump' = [at |-> "gone", batch |-> <<>>] /\ pump.at \notin {"clear", "gone"}
          /\ UNCHANGED <<sequence, publisher>>
          /\ wire' \in {wire, wire \o Carried}
      BY <1>a, <2>0, <2>10 DEF ClientGone, SendBatch, Hangup, PumpGoes, Carried
    <3>2. /\ mailbox' \in [queue : Seq(Nat), dropped : Nat, overflowed : BOOLEAN, closed : BOOLEAN]
          /\ Queue' = Queue /\ mailbox'.closed
      BY <2>0, <2>10 DEF ClientGone, SendBatch, Hangup, BusShape, Queue
    <3>3. /\ wire' \in Seq(Nat) /\ Inc(wire') /\ ToSet(wire') \subseteq ToSet(wire) \cup ToSet(Carried)
      BY <2>0, <3>1, BusNumbers, ConcatIs DEF OrderInv
    <3>4. /\ pump' \in [at : {"top", "clear", "recheck", "wait", "send", "gone"}, batch : Seq(Nat)]
          /\ pump'.at = "gone" /\ Carried' = <<>>
      BY <3>1, EmptyIs DEF Carried
    <3>5. \A q \in OnLoop : publisher[q].at = "idle" /\ publisher'[q].at = "idle"
      BY <1>a, <2>0, <3>1 DEF LoopInv
    <3>6. BusShape'
      BY <2>0, <3>1, <3>2, <3>3, <3>4 DEF BusShape
    <3>7. LoopInv'
      BY <1>a, <3>1, <3>2, <3>4, <3>5 DEF LoopInv
    <3>8. CountInv'
      BY <1>a, <3>1, <3>5 DEF CountInv
    <3>9. OrderInv'
      <4>1. Below(wire', Queue')
        BY <2>0, <3>1, <3>2, <3>3 DEF Below, OrderInv
      <4>2. Below(wire', Carried') /\ Below(Carried', Queue') /\ Inc(Carried') /\ ToSet(Carried') = {}
        BY <3>4, EmptyIs DEF Below
      <4>3. Seen' \subseteq Seen
        BY <3>2, <3>3, <4>2 DEF Seen
      <4>4. \A x \in Seen' : x <= sequence'
        BY <2>0, <3>1, <4>3 DEF OrderInv
      <4> QED
        BY <2>0, <3>1, <3>2, <3>3, <3>5, <4>1, <4>2, <4>4 DEF OrderInv
    <3> QED
      BY <3>6, <3>7, <3>8, <3>9 DEF BusInv
  <2>11. CASE UNCHANGED busVars
    BY <2>11, BusQuiet DEF busVars
  <2> QED
    BY <1>a, <2>1, <2>2, <2>3, <2>4, <2>5, <2>6, <2>7, <2>8, <2>9, <2>10, <2>11
    DEF BusNext, PublisherStep, PumpStep
<1>3. BusInv => LossesAreCounted
  <2> SUFFICES ASSUME BusInv PROVE LossesAreCounted
    OBVIOUS
  <2>1. subscribed /\ holder = "nobody"
          => sequence = Len(wire) + Len(pump.batch) + Len(mailbox.queue) + mailbox.dropped
    BY DEF BusInv, CountInv, Sum, Carried, Queue
  <2>2. \A i, j \in DOMAIN wire : i < j => wire[i] < wire[j]
    BY DEF BusInv, OrderInv, Inc
  <2>3. ASSUME pump.at = "wait", mailbox.queue = <<>>, \A p \in Publishers : publisher[p].at = "idle"
        PROVE  sequence = 0 \/ \E i \in DOMAIN wire : wire[i] = sequence
    <3>1. subscribed /\ Carried = <<>> /\ Queue = <<>>
      BY <2>3 DEF BusInv, LoopInv, Queue
    <3>2. sequence = 0 \/ sequence \in Seen
      BY <1>a, <2>3, <3>1 DEF BusInv, OrderInv
    <3>3. Seen = ToSet(wire)
      BY <3>1, EmptyIs DEF Seen
    <3> QED
      BY <3>2, <3>3 DEF ToSet
  <2> QED
    BY <2>1, <2>2, <2>3 DEF LossesAreCounted
<1> QED
  BY <1>1, <1>2, <1>3, PTL DEF BusSpec

-----------------------------------------------------------------------------
(* TieredCache: one computation.                                           *)

LookupAt == {"first", "second", "sidecar", "value", "unlink", "unlinked", "deadline", "checkout",
             "await", "compute", "write", "written", "mirror", "release", "done"}
LookupRow == [at : LookupAt, lock : Nat, value : Nat, until : Nat]
EntryRow == [lock : Nat, waiters : Nat]
LockPoolRow == [loop : {LoopOf[l] : l \in Lookups} \cup {"none"}, entry : EntryRow]
FileRow == [value : Nat, meta : Nat]
DeleterAt == {"idle", "value", "sidecar", "done"}

CacheShape ==
  /\ clock \in Nat /\ paid \in Nat /\ file \in FileRow /\ locks \in LockPoolRow
  /\ lookup \in [Lookups -> LookupRow] /\ deleter \in [Deleters -> DeleterAt]

OneLoop == \A l, m \in Lookups : LoopOf[l] = LoopOf[m]

\* The lookups that hold or await the lock of the key, and the one that may go on.
Inside == {l \in Lookups : lookup[l].lock # 0}
Critical(l) == lookup[l].lock # 0 /\ lookup[l].at # "await"

\* All that are inside share the lock of the entry, which counts every one of them, and
\* one of them at a time holds it.
LockInv ==
  /\ locks.loop = "none" => locks.entry = NoEntry
  /\ held \subseteq {locks.entry.lock} \ {0}
  /\ Cardinality(Inside) <= locks.entry.waiters
  /\ \A l \in Lookups :
       /\ lookup[l].at \in {"first", "checkout", "done"} => lookup[l].lock = 0
       /\ lookup[l].at \in {"await", "second", "compute", "write", "written", "mirror", "release"}
            => lookup[l].lock # 0
       /\ lookup[l].lock # 0 => lookup[l].lock = locks.entry.lock
       /\ Critical(l) => lookup[l].lock \in held
  /\ \A l, m \in Lookups : Critical(l) /\ Critical(m) => l = m

\* Until something expires or is deleted: nothing is on disk before the one value, whose
\* writer holds the lock until value and sidecar are there, and nobody removes anything.
Calm == clock = 0 /\ \A d \in Deleters : deleter[d] = "idle"
Writing(l) == lookup[l].at \in {"write", "written"}
PaidInv ==
  Calm =>
    /\ paid \in {0, 1}
    /\ file.meta # 0 => file.value # 0
    /\ \A l \in Lookups :
         /\ lookup[l].at \notin {"unlink", "unlinked"}
         /\ lookup[l].at = "value" => file.value # 0
         /\ lookup[l].at = "compute" => paid = 0
         /\ lookup[l].at = "write" => lookup[l].value # 0
         /\ lookup[l].at = "written" => file.value # 0 /\ lookup[l].until # 0
    /\ paid = 1 => (\E l \in Lookups : Writing(l)) \/ file.meta # 0

LEMMA CacheNumbers ==
  /\ IsFiniteSet(Lookups) /\ FrontTTL \in Nat \ {0} /\ TTL \in Nat \ {0} /\ MaxClock \in Nat
  /\ Cardinality(Lookups) \in Nat
  /\ \A l \in Lookups : 1 \in Locks
  /\ LookupStart \in LookupRow /\ NoEntry \in EntryRow
<1>1. /\ IsFiniteSet(Lookups) /\ FrontTTL \in Nat \ {0} /\ TTL \in Nat \ {0} /\ MaxClock \in Nat
  BY CacheAssumption
<1>2. Cardinality(Lookups) \in Nat
  BY <1>1, FS_CardinalityType
<1>3. ASSUME NEW l \in Lookups PROVE 1 \in Locks
  BY <1>1, <1>2, <1>3, FS_EmptySet DEF Locks
<1> QED
  BY <1>1, <1>2, <1>3 DEF LookupStart, LookupRow, LookupAt, NoEntry, EntryRow

\* The loops of the lookups are counted by the antecedent of PaidOnce.
LEMMA OneLoopIs == Cardinality({LoopOf[l] : l \in Lookups}) = 1 => OneLoop
<1> DEFINE loops == {LoopOf[l] : l \in Lookups}
           f == [l \in Lookups |-> LoopOf[l]]
<1> SUFFICES ASSUME Cardinality(loops) = 1 PROVE OneLoop
  OBVIOUS
<1>1. f \in Surjection(Lookups, loops)
  BY DEF Surjection
<1>2. IsFiniteSet(loops)
  BY <1>1, CacheNumbers, FS_Surjection
<1>3. \E x : loops = {x}
  BY <1>2, FS_Singleton
<1> QED
  BY <1>3 DEF OneLoop

\* One lookup goes to another place; it may have read a value.
LEMMA LookupMoves ==
  ASSUME CacheShape, NEW l \in Lookups, NEW row \in LookupRow, lookup' = [lookup EXCEPT ![l] = row]
  PROVE  /\ lookup' \in [Lookups -> LookupRow] /\ lookup'[l] = row
         /\ \A m \in Lookups \ {l} : lookup'[m] = lookup[m]
BY DEF CacheShape

LEMMA LookupGoesTo ==
  ASSUME CacheShape, NEW l \in Lookups, NEW at \in LookupAt, LookupGoes(l, at)
  PROVE  /\ lookup' \in [Lookups -> LookupRow] /\ lookup'[l].at = at
         /\ lookup'[l].lock = lookup[l].lock /\ lookup'[l].value = lookup[l].value
         /\ lookup'[l].until = lookup[l].until
         /\ \A m \in Lookups \ {l} : lookup'[m] = lookup[m]
<1> DEFINE row == [lookup[l] EXCEPT !.at = at]
<1>1. /\ row \in LookupRow /\ row.at = at /\ row.lock = lookup[l].lock /\ row.value = lookup[l].value
      /\ row.until = lookup[l].until
  BY DEF CacheShape, LookupRow
<1>2. lookup' = [lookup EXCEPT ![l] = row]
  BY DEF LookupGoes
<1> HIDE DEF row
<1> QED
  BY <1>1, <1>2, LookupMoves

\* A step of one lookup that neither takes nor gives up the lock keeps the locks in order.
LEMMA LockFrame ==
  ASSUME LockInv, NEW l \in Lookups, locks' = locks, held' = held,
         lookup'[l].lock = lookup[l].lock, \A m \in Lookups \ {l} : lookup'[m] = lookup[m],
         lookup[l].at # "await",
         lookup'[l].at \notin {"first", "await"},
         lookup'[l].at \in {"checkout", "done"} => lookup[l].lock = 0,
         lookup'[l].at \in {"second", "compute", "write", "written", "mirror", "release"}
           => lookup[l].lock # 0
  PROVE  LockInv'
<1>1. Inside' = Inside
  BY DEF Inside
<1>2. \A m \in Lookups : Critical(m)' = Critical(m)
  BY DEF Critical
<1> QED
  BY <1>1, <1>2 DEF LockInv

LEMMA CacheInvStep ==
  ASSUME OneLoop
  PROVE  CacheShape /\ LockInv /\ PaidInv /\ [CacheNext]_cacheVars
           => CacheShape' /\ LockInv' /\ PaidInv'
<1> SUFFICES ASSUME CacheShape, LockInv, PaidInv, [CacheNext]_cacheVars
             PROVE  CacheShape' /\ LockInv' /\ PaidInv'
  OBVIOUS
<1>0. /\ clock \in Nat /\ paid \in Nat /\ file \in FileRow /\ locks \in LockPoolRow
      /\ lookup \in [Lookups -> LookupRow] /\ deleter \in [Deleters -> DeleterAt]
      /\ \A l \in Lookups : lookup[l] \in LookupRow
      /\ file.value \in Nat /\ file.meta \in Nat
  BY DEF CacheShape, FileRow
\* A step of a look: one lookup moves, and a value may be noted.
<1>1. ASSUME NEW l \in Lookups, UNCHANGED <<clock, file, locks, held, deleter, paid>>,
             lookup' \in [Lookups -> LookupRow],
             lookup'[l].lock = lookup[l].lock, \A m \in Lookups \ {l} : lookup'[m] = lookup[m],
             lookup[l].at \in {"first", "second", "sidecar", "value", "unlinked", "deadline"},
             \/ lookup'[l].at = "sidecar"
             \/ lookup'[l].at = Found(l)
             \/ lookup'[l].at = "unlink" /\ ~Calm
             \/ lookup'[l].at = "deadline"
             \/ lookup'[l].at = "value" /\ file.meta # 0
             \/ lookup'[l].at = Missed(l) /\ (Calm => file.meta = 0)
      PROVE  CacheShape' /\ LockInv' /\ PaidInv'
  <2>1. CacheShape'
    BY <1>0, <1>1 DEF CacheShape
  <2>2. /\ lookup'[l].at \in {"sidecar", "unlink", "deadline", "value", "compute", "checkout", "release",
                              "done"}
        /\ lookup'[l].at \in {"compute", "release"} => lookup[l].lock # 0
        /\ lookup'[l].at \in {"checkout", "done"} => lookup[l].lock = 0
        /\ lookup'[l].at = "compute" => (Calm => file.meta = 0) /\ Critical(l)
        /\ lookup'[l].at = "value" => file.meta # 0
        /\ lookup'[l].at = "unlink" => ~Calm
    BY <1>1 DEF Found, Missed, Second, Critical
  <2>3. LockInv'
    BY <1>1, <2>2, LockFrame
  <2>4. ASSUME Calm PROVE PaidInv'
    <3>1. ~Writing(l) /\ ~Writing(l)' /\ \A m \in Lookups : Writing(m) => Critical(m)
      BY <1>1, <2>2 DEF Writing, Critical, LockInv
    <3>2. lookup'[l].at = "compute" => paid = 0
      <4> SUFFICES ASSUME lookup'[l].at = "compute", paid = 1 PROVE FALSE
        BY <2>4 DEF PaidInv
      <4>1. PICK m \in Lookups : Writing(m)
        BY <2>2, <2>4 DEF PaidInv
      <4>2. m = l
        BY <2>2, <3>1, <4>1 DEF LockInv
      <4> QED
        BY <3>1, <4>1, <4>2
    <3>3. \A m \in Lookups : Writing(m)' = Writing(m)
      BY <1>1, <3>1 DEF Writing
    <3> QED
      BY <1>1, <2>2, <2>4, <3>2, <3>3 DEF PaidInv, Calm, Writing
  <2>5. Calm' = Calm
    BY <1>1 DEF Calm
  <2> QED
    BY <2>1, <2>3, <2>4, <2>5 DEF PaidInv
<1>2. ASSUME NEW l \in Lookups, LookFront(l) PROVE CacheShape' /\ LockInv' /\ PaidInv'
  <2>1. /\ LookupGoes(l, Found(l)) \/ LookupGoes(l, "sidecar")
        /\ lookup[l].at \in {"first", "second"} /\ UNCHANGED <<clock, file, locks, held, deleter, paid>>
    BY <1>2 DEF LookFront
  <2>2. Found(l) \in LookupAt /\ "sidecar" \in LookupAt
    BY DEF Found, LookupAt
  <2> QED
    BY <1>1, <2>1, <2>2, LookupGoesTo
<1>3. ASSUME NEW l \in Lookups, ReadSidecar(l) PROVE CacheShape' /\ LockInv' /\ PaidInv'
  <2>1. /\ lookup[l].at = "sidecar" /\ UNCHANGED <<clock, file, locks, held, deleter, paid>>
        /\ \/ file.meta = 0 /\ LookupGoes(l, Missed(l))
           \/ file.meta # 0 /\ file.meta <= clock /\ LookupGoes(l, "unlink")
           \/ file.meta # 0 /\ LookupGoes(l, "value")
    BY <1>3 DEF ReadSidecar
  <2>2. Missed(l) \in LookupAt /\ "unlink" \in LookupAt /\ "value" \in LookupAt
    BY DEF Missed, LookupAt
  <2>3. file.meta # 0 /\ file.meta <= clock => ~Calm
    BY <1>0 DEF Calm
  <2> QED
    BY <1>1, <2>1, <2>2, <2>3, LookupGoesTo
<1>4. ASSUME NEW l \in Lookups, ReadValue(l) PROVE CacheShape' /\ LockInv' /\ PaidInv'
  <2> DEFINE at == IF file.value = 0 THEN "unlink" ELSE "deadline"
             row == [lookup[l] EXCEPT !.at = at, !.value = file.value]
  <2>1. row \in LookupRow /\ row.at = at /\ row.lock = lookup[l].lock
    BY <1>0 DEF LookupRow, LookupAt
  <2>2. lookup' = [lookup EXCEPT ![l] = row] /\ lookup[l].at = "value"
        /\ UNCHANGED <<clock, file, locks, held, deleter, paid>>
    BY <1>4 DEF ReadValue
  <2> HIDE DEF row
  <2>3. at = "unlink" => ~Calm
    BY <2>2 DEF PaidInv
  <2>4. at = "unlink" \/ at = "deadline"
    OBVIOUS
  <2> HIDE DEF at
  <2> QED
    BY <1>1, <2>1, <2>2, <2>3, <2>4, LookupMoves
<1>5. ASSUME NEW l \in Lookups, Promote(l) PROVE CacheShape' /\ LockInv' /\ PaidInv'
  <2>1. /\ LookupGoes(l, Found(l)) /\ lookup[l].at = "deadline"
        /\ UNCHANGED <<clock, file, locks, held, deleter, paid>>
    BY <1>5 DEF Promote
  <2>2. Found(l) \in LookupAt
    BY DEF Found, LookupAt
  <2> QED
    BY <1>1, <2>1, <2>2, LookupGoesTo
\* Removing what has expired: not while it is quiet.
<1>6. ASSUME NEW l \in Lookups, UnlinkValue(l) \/ UnlinkSidecar(l)
      PROVE  CacheShape' /\ LockInv' /\ PaidInv'
  <2>1. /\ lookup[l].at \in {"unlink", "unlinked"} /\ UNCHANGED <<clock, locks, held, deleter, paid>>
        /\ LookupGoes(l, "unlinked") \/ LookupGoes(l, Missed(l))
        /\ file' = [file EXCEPT !.value = 0] \/ file' = [file EXCEPT !.meta = 0]
    BY <1>6 DEF UnlinkValue, UnlinkSidecar
  <2>2. Missed(l) \in LookupAt /\ "unlinked" \in LookupAt
    BY DEF Missed, LookupAt
  <2>3. file' \in FileRow
    BY <1>0, <2>1 DEF FileRow
  <2>4. CacheShape'
    BY <1>0, <2>1, <2>2, <2>3, LookupGoesTo DEF CacheShape
  <2>5. ~Calm'
    BY <2>1 DEF PaidInv, Calm
  <2>6. LockInv'
    <3>1. CASE LookupGoes(l, "unlinked")
      BY <2>1, <2>2, <3>1, LookupGoesTo, LockFrame
    <3>2. CASE LookupGoes(l, Missed(l))
      <4>1. lookup'[l].at = Missed(l) /\ lookup'[l].lock = lookup[l].lock
            /\ \A m \in Lookups \ {l} : lookup'[m] = lookup[m]
        BY <2>2, <3>2, LookupGoesTo
      <4>2. /\ lookup'[l].at \in {"compute", "checkout"}
            /\ lookup'[l].at = "compute" => lookup[l].lock # 0
            /\ lookup'[l].at = "checkout" => lookup[l].lock = 0
        BY <4>1 DEF Missed, Second
      <4> QED
        BY <2>1, <4>1, <4>2, LockFrame
    <3> QED
      BY <2>1, <3>1, <3>2
  <2> QED
    BY <2>4, <2>5, <2>6 DEF PaidInv
\* A step in the lock pool: the file and the count stay, and nobody comes to compute.
<1>7. ASSUME NEW l \in Lookups, UNCHANGED <<clock, file, deleter, paid>>,
             lookup'[l].at \in {"await", "second", "done"}, ~Writing(l),
             \A m \in Lookups \ {l} : lookup'[m] = lookup[m]
      PROVE  PaidInv'
  <2>1. Calm' = Calm
    BY <1>7 DEF Calm
  <2>2. \A m \in Lookups : Writing(m)' = Writing(m)
    BY <1>7 DEF Writing
  <2> QED
    BY <1>7, <2>1, <2>2 DEF PaidInv
<1>8. ASSUME NEW l \in Lookups, Checkout(l) PROVE CacheShape' /\ LockInv' /\ PaidInv'
  <2> DEFINE entry == IF locks.loop = LoopOf[l] THEN locks.entry ELSE NoEntry
             lock  == IF entry.lock # 0 THEN entry.lock ELSE CHOOSE k \in Locks : k \notin UsedLocks
             row   == [lookup[l] EXCEPT !.at = "await", !.lock = lock]
             after  == [loop |-> LoopOf[l], entry |-> [lock |-> lock, waiters |-> entry.waiters + 1]]
  <2>6. /\ locks' = after /\ lookup' = [lookup EXCEPT ![l] = row]
        /\ UNCHANGED <<clock, file, held, deleter, paid>>
    <3>1. /\ locks' = after /\ lookup' = [lookup EXCEPT ![l].at = "await", ![l].lock = lock]
          /\ UNCHANGED <<clock, file, held, deleter, paid>>
      BY <1>8, Zenon DEF Checkout
    <3> HIDE DEF lock, after
    <3> QED
      BY <3>1
  <2>1. entry = locks.entry
    <3>1. locks.loop \in {LoopOf[m] : m \in Lookups} \cup {"none"}
      BY <1>0 DEF LockPoolRow
    <3> QED
      BY <3>1 DEF OneLoop, LockInv
  <2>2. entry.lock \in Nat /\ entry.waiters \in Nat /\ entry = locks.entry
    BY <1>0, <2>1 DEF LockPoolRow, EntryRow
  <2>3. lookup[l].at = "checkout" /\ lookup[l].lock = 0
    BY <1>8 DEF Checkout, LockInv
  <2> HIDE DEF entry
  <2>4. entry.lock = 0 => \E k \in Locks : k \notin UsedLocks
    <3> SUFFICES ASSUME entry.lock = 0 PROVE 1 \in Locks /\ 1 \notin UsedLocks
      OBVIOUS
    <3>1. \A m \in Lookups : lookup[m].lock = 0
      BY <2>2 DEF LockInv
    <3> QED
      BY <2>2, <3>1, CacheNumbers DEF UsedLocks, LockInv
  <2>5. lock \in Nat /\ lock # 0
    BY <2>2, <2>4, CacheNumbers DEF Locks
  <2> HIDE DEF lock
  <2>7. row \in LookupRow /\ row.at = "await" /\ row.lock = lock
    BY <1>0, <2>5 DEF LookupRow, LookupAt
  <2>8. /\ after \in LockPoolRow /\ after.entry.lock = lock /\ after.entry.waiters = entry.waiters + 1
        /\ after.loop = LoopOf[l]
    BY <2>2, <2>5 DEF LockPoolRow, EntryRow
  <2> HIDE DEF row, after
  <2>9. /\ lookup' \in [Lookups -> LookupRow] /\ lookup'[l] = row
        /\ \A m \in Lookups \ {l} : lookup'[m] = lookup[m]
    BY <2>6, <2>7, LookupMoves
  <2>10. CacheShape'
    BY <1>0, <2>6, <2>8, <2>9 DEF CacheShape
  <2>11. PaidInv'
    BY <1>7, <2>3, <2>6, <2>7, <2>9 DEF Writing
  <2>12. Inside' = Inside \cup {l} /\ l \notin Inside
    BY <2>3, <2>5, <2>7, <2>9 DEF Inside
  <2>13. IsFiniteSet(Inside) /\ Cardinality(Inside) \in Nat /\ Cardinality(Inside') = Cardinality(Inside) + 1
    <3>1. IsFiniteSet(Inside)
      BY CacheNumbers, FS_Subset DEF Inside
    <3> QED
      BY <2>12, <3>1, FS_AddElement, FS_CardinalityType
  <2>14. Cardinality(Inside') <= locks'.entry.waiters
    BY <2>2, <2>6, <2>8, <2>13 DEF LockInv
  <2>15. \A m \in Lookups : Critical(m)' <=> Critical(m)
    BY <2>3, <2>7, <2>9 DEF Critical
  <2>16. \A m \in Lookups : lookup[m].lock # 0 => lookup[m].lock = lock
    BY <2>2 DEF LockInv, lock
  <2>17. locks'.loop = "none" => locks'.entry = NoEntry
    <3> SUFFICES ASSUME LoopOf[l] = "none" PROVE FALSE
      BY <2>6, <2>8
    <3> QED
      BY CacheAssumption
  <2>18. held \subseteq {lock} \ {0}
    BY <2>2, CacheNumbers DEF LockInv, lock
  <2>19. \A m \in Lookups : lookup'[m].lock # 0 => lookup'[m].lock = locks'.entry.lock
    BY <2>6, <2>7, <2>8, <2>9, <2>16
  <2>20. \A m \in Lookups : Critical(m)' => lookup'[m].lock \in held'
    <3>1. \A m \in Lookups : Critical(m)' => m # l /\ Critical(m)
      BY <2>7, <2>9, <2>15 DEF Critical
    <3> QED
      BY <2>6, <2>9, <3>1 DEF LockInv
  <2>21. \A m \in Lookups :
          /\ lookup'[m].at \in {"first", "checkout", "done"} => lookup'[m].lock = 0
          /\ lookup'[m].at \in {"await", "second", "compute", "write", "written", "mirror", "release"}
               => lookup'[m].lock # 0
    BY <2>5, <2>7, <2>9 DEF LockInv
  <2>22. \A k, m \in Lookups : Critical(k)' /\ Critical(m)' => k = m
    BY <2>15 DEF LockInv
  <2>23. held' \subseteq {locks'.entry.lock} \ {0}
    BY <2>6, <2>8, <2>18
  <2>24. LockInv'
    BY <2>14, <2>17, <2>19, <2>20, <2>21, <2>22, <2>23 DEF LockInv
  <2> QED
    BY <2>10, <2>11, <2>24
<1>9. ASSUME NEW l \in Lookups, Acquire(l) PROVE CacheShape' /\ LockInv' /\ PaidInv'
  <2>1. /\ lookup[l].at = "await" /\ lookup[l].lock \notin held /\ lookup[l].lock # 0
        /\ held' = held \cup {lookup[l].lock} /\ LookupGoes(l, "second") /\ locks' = locks
        /\ UNCHANGED <<clock, file, deleter, paid>>
    BY <1>9 DEF Acquire, LockInv
  <2>2. /\ lookup' \in [Lookups -> LookupRow] /\ lookup'[l].at = "second"
        /\ lookup'[l].lock = lookup[l].lock /\ \A m \in Lookups \ {l} : lookup'[m] = lookup[m]
    BY <2>1, LookupGoesTo DEF LookupAt
  <2>3. CacheShape' /\ PaidInv'
    BY <1>0, <1>7, <2>1, <2>2 DEF CacheShape, Writing
  <2>4. Inside' = Inside
    BY <2>2 DEF Inside
  <2>5. \A m \in Lookups \ {l} : ~Critical(m) /\ ~Critical(m)'
    BY <2>1, <2>2 DEF LockInv, Critical
  <2> QED
    BY <2>1, <2>2, <2>3, <2>4, <2>5 DEF LockInv
<1>10. ASSUME NEW l \in Lookups, CancelWaiting(l) PROVE CacheShape' /\ LockInv' /\ PaidInv'
  <2> DEFINE row == [LookupStart EXCEPT !.at = "done"]
  <2>1. row \in LookupRow /\ row.at = "done" /\ row.lock = 0
    BY CacheNumbers DEF LookupStart, LookupRow, LookupAt
  <2>2. /\ lookup' = [lookup EXCEPT ![l] = row] /\ lookup[l].at = "await"
        /\ UNCHANGED <<clock, file, locks, held, deleter, paid>>
    BY <1>10 DEF CancelWaiting
  <2> HIDE DEF row
  <2>3. /\ lookup' \in [Lookups -> LookupRow] /\ lookup'[l] = row
        /\ \A m \in Lookups \ {l} : lookup'[m] = lookup[m]
    BY <2>1, <2>2, LookupMoves
  <2>4. CacheShape' /\ PaidInv'
    BY <1>0, <1>7, <2>1, <2>2, <2>3 DEF CacheShape, Writing
  <2>5. Cardinality(Inside') <= locks.entry.waiters
    <3>1. Inside' \subseteq Inside /\ IsFiniteSet(Inside)
      BY <2>1, <2>3, CacheNumbers, FS_Subset DEF Inside
    <3>2. Cardinality(Inside') <= Cardinality(Inside) /\ Cardinality(Inside) \in Nat
          /\ Cardinality(Inside') \in Nat
      BY <3>1, FS_Subset, FS_CardinalityType
    <3> QED
      BY <1>0, <3>2 DEF LockInv, LockPoolRow, EntryRow
  <2>6. \A m \in Lookups : Critical(m)' => m # l /\ Critical(m)
    BY <2>1, <2>3 DEF Critical
  <2> QED
    BY <2>1, <2>2, <2>3, <2>4, <2>5, <2>6 DEF LockInv
<1>11. ASSUME NEW l \in Lookups, Release(l) PROVE CacheShape' /\ LockInv' /\ PaidInv'
  <2> DEFINE row == [LookupStart EXCEPT !.at = "done"]
             left == locks.entry.waiters - 1
             after == [locks EXCEPT !.entry = IF left = 0 THEN NoEntry
                                             ELSE [locks.entry EXCEPT !.waiters = left]]
  <2>1. row \in LookupRow /\ row.at = "done" /\ row.lock = 0
    BY CacheNumbers DEF LookupStart, LookupRow, LookupAt
  <2>2. /\ lookup' = [lookup EXCEPT ![l] = row] /\ lookup[l].at = "release" /\ locks' = CheckedIn
        /\ held' = held \ {lookup[l].lock} /\ UNCHANGED <<clock, file, deleter, paid>>
    BY <1>11 DEF Release
  <2> HIDE DEF row
  <2>3. /\ lookup' \in [Lookups -> LookupRow] /\ lookup'[l] = row
        /\ \A m \in Lookups \ {l} : lookup'[m] = lookup[m]
    BY <2>1, <2>2, LookupMoves
  <2>4. l \in Inside /\ lookup[l].lock = locks.entry.lock /\ locks.entry.lock # 0 /\ Critical(l)
    BY <2>2 DEF LockInv, Inside, Critical
  <2>5. /\ locks.entry \in EntryRow /\ locks.entry.waiters \in Nat
        /\ IsFiniteSet(Inside) /\ Cardinality(Inside) \in Nat /\ Cardinality(Inside) # 0
        /\ Inside' = Inside \ {l} /\ Cardinality(Inside') = Cardinality(Inside) - 1
    <3>1. IsFiniteSet(Inside) /\ Inside' = Inside \ {l}
      BY <2>1, <2>3, CacheNumbers, FS_Subset DEF Inside
    <3> QED
      BY <1>0, <2>4, <3>1, FS_RemoveElement, FS_CardinalityType, FS_EmptySet DEF LockPoolRow, EntryRow
  <2>6. left \in Nat /\ Cardinality(Inside') <= left
    BY <2>5 DEF LockInv
  <2>7. locks' = after
    BY <2>2, <2>4 DEF CheckedIn
  <2>8. /\ after \in LockPoolRow /\ after.loop = locks.loop
        /\ after.entry.waiters = left
        /\ after.entry.lock = IF left = 0 THEN 0 ELSE locks.entry.lock
    <3>1. NoEntry \in EntryRow /\ NoEntry.waiters = 0 /\ NoEntry.lock = 0
      BY CacheNumbers DEF NoEntry
    <3>2. [locks.entry EXCEPT !.waiters = left] \in EntryRow
          /\ [locks.entry EXCEPT !.waiters = left].waiters = left
          /\ [locks.entry EXCEPT !.waiters = left].lock = locks.entry.lock
      BY <2>5, <2>6 DEF EntryRow
    <3> HIDE DEF left
    <3> QED
      BY <1>0, <3>1, <3>2 DEF LockPoolRow
  <2> HIDE DEF after, left
  <2>9. CacheShape' /\ PaidInv'
    BY <1>0, <1>7, <2>1, <2>2, <2>3, <2>7, <2>8 DEF CacheShape, Writing
  <2>10. left = 0 => Inside' = {}
    BY <2>5, <2>6, FS_EmptySet, FS_Subset
  <2>11. held' = {}
    BY <2>2, <2>4 DEF LockInv
  <2>12. \A m \in Lookups : ~Critical(m)'
    BY <2>1, <2>3, <2>4 DEF Critical, LockInv
  <2>13. locks.loop # "none"
    BY <2>4 DEF LockInv, NoEntry
  <2>14. \A m \in Lookups : lookup'[m].lock # 0 => lookup'[m].lock = locks'.entry.lock
    <3>1. \A m \in Lookups : lookup'[m].lock # 0 => m \in Inside' /\ m # l
      BY <2>1, <2>3 DEF Inside
    <3> QED
      BY <2>3, <2>7, <2>8, <2>10, <3>1 DEF LockInv
  <2> QED
    BY <2>1, <2>3, <2>6, <2>7, <2>8, <2>9, <2>11, <2>12, <2>13, <2>14 DEF LockInv
\* The factory and the writes.
<1>12. ASSUME NEW l \in Lookups, Compute(l) PROVE CacheShape' /\ LockInv' /\ PaidInv'
  <2>0. lookup[l].at = "compute" /\ lookup[l].lock # 0 /\ Critical(l)
        /\ UNCHANGED <<clock, file, locks, held, deleter>>
    BY <1>12 DEF Compute, LockInv, Critical
  <2>1. Calm' = Calm /\ \A m \in Lookups : Writing(m) => Critical(m)
    BY <2>0 DEF Calm, Writing, LockInv, Critical
  <2>2. ~\E m \in Lookups : Writing(m)
    BY <2>0, <2>1 DEF LockInv, Writing
  <2>3. ASSUME LookupGoes(l, "release"), paid' = paid PROVE CacheShape' /\ LockInv' /\ PaidInv'
    <3>1. /\ lookup' \in [Lookups -> LookupRow] /\ lookup'[l].at = "release"
          /\ lookup'[l].lock = lookup[l].lock /\ \A m \in Lookups \ {l} : lookup'[m] = lookup[m]
      BY <2>3, LookupGoesTo DEF LookupAt
    <3>2. CacheShape' /\ LockInv'
      BY <1>0, <2>0, <2>3, <3>1, LockFrame DEF CacheShape
    <3> QED
      BY <2>0, <2>1, <2>2, <2>3, <3>1, <3>2 DEF PaidInv, Writing
  <2>4. ASSUME paid' = paid + 1, lookup' = [lookup EXCEPT ![l].at = "write", ![l].value = paid + 1]
        PROVE  CacheShape' /\ LockInv' /\ PaidInv'
    <3> DEFINE n == paid + 1
               row == [lookup[l] EXCEPT !.at = "write", !.value = n]
    <3>1. n \in Nat \ {0}
      BY <1>0
    <3>2. lookup' = [lookup EXCEPT ![l] = row]
      BY <2>4
    <3> HIDE DEF n
    <3>3. row \in LookupRow /\ row.at = "write" /\ row.lock = lookup[l].lock /\ row.value = n
      BY <1>0, <3>1 DEF LookupRow, LookupAt
    <3> HIDE DEF row
    <3>4. /\ lookup' \in [Lookups -> LookupRow] /\ lookup'[l] = row
          /\ \A m \in Lookups \ {l} : lookup'[m] = lookup[m]
      BY <3>2, <3>3, LookupMoves
    <3>5. CacheShape' /\ LockInv'
      BY <1>0, <2>0, <2>4, <3>1, <3>3, <3>4, LockFrame DEF CacheShape, n
    <3>6. ASSUME NEW m \in Lookups, m # l PROVE lookup[m].at # "compute"
      BY <2>0, <3>6 DEF LockInv, Critical
    <3>7. Calm => paid = 0 /\ paid' = 1
      BY <2>0, <2>4 DEF PaidInv
    <3>8. Writing(l)'
      BY <3>3, <3>4 DEF Writing
    <3> QED
      BY <2>0, <2>1, <3>1, <3>3, <3>4, <3>5, <3>6, <3>7, <3>8 DEF PaidInv
  <2> QED
    BY <1>12, <2>3, <2>4 DEF Compute
<1>13. ASSUME NEW l \in Lookups, WriteValue(l) PROVE CacheShape' /\ LockInv' /\ PaidInv'
  <2> DEFINE u == clock + TTL
             row == [lookup[l] EXCEPT !.at = "written", !.until = u]
  <2>0. /\ lookup[l].at = "write" /\ lookup[l].lock # 0 /\ UNCHANGED <<clock, locks, held, deleter, paid>>
        /\ file' = [file EXCEPT !.value = lookup[l].value] /\ lookup' = [lookup EXCEPT ![l] = row]
    BY <1>13 DEF WriteValue, LockInv
  <2>1. u \in Nat /\ u # 0
    BY <1>0, CacheNumbers
  <2> HIDE DEF u
  <2>2. row \in LookupRow /\ row.at = "written" /\ row.lock = lookup[l].lock /\ row.until = u
    BY <1>0, <2>1 DEF LookupRow, LookupAt
  <2> HIDE DEF row
  <2>3. /\ lookup' \in [Lookups -> LookupRow] /\ lookup'[l] = row
        /\ \A m \in Lookups \ {l} : lookup'[m] = lookup[m]
    BY <2>0, <2>2, LookupMoves
  <2>4. file' \in FileRow /\ file'.value = lookup[l].value /\ file'.meta = file.meta
    BY <1>0, <2>0 DEF FileRow, LookupRow
  <2>5. CacheShape' /\ LockInv'
    BY <1>0, <2>0, <2>2, <2>3, <2>4, LockFrame DEF CacheShape
  <2>6. Calm' = Calm /\ (Calm => lookup[l].value # 0)
    BY <2>0 DEF Calm, PaidInv
  <2>7. Writing(l)'
    BY <2>2, <2>3 DEF Writing
  <2> QED
    BY <2>0, <2>1, <2>2, <2>3, <2>4, <2>5, <2>6, <2>7 DEF PaidInv
<1>14. ASSUME NEW l \in Lookups, WriteSidecar(l) PROVE CacheShape' /\ LockInv' /\ PaidInv'
  <2> DEFINE row == [lookup[l] EXCEPT !.at = "mirror", !.until = 0]
  <2>0. /\ lookup[l].at = "written" /\ lookup[l].lock # 0 /\ UNCHANGED <<clock, locks, held, deleter, paid>>
        /\ file' = [file EXCEPT !.meta = lookup[l].until] /\ lookup' = [lookup EXCEPT ![l] = row]
    BY <1>14 DEF WriteSidecar, LockInv
  <2>1. row \in LookupRow /\ row.at = "mirror" /\ row.lock = lookup[l].lock
    BY <1>0 DEF LookupRow, LookupAt
  <2> HIDE DEF row
  <2>2. /\ lookup' \in [Lookups -> LookupRow] /\ lookup'[l] = row
        /\ \A m \in Lookups \ {l} : lookup'[m] = lookup[m]
    BY <2>0, <2>1, LookupMoves
  <2>3. file' \in FileRow /\ file'.value = file.value /\ file'.meta = lookup[l].until
    BY <1>0, <2>0 DEF FileRow, LookupRow
  <2>4. CacheShape' /\ LockInv'
    BY <1>0, <2>0, <2>1, <2>2, <2>3, LockFrame DEF CacheShape
  <2>5. Calm' = Calm /\ (Calm => file.value # 0 /\ lookup[l].until # 0)
    BY <2>0 DEF Calm, PaidInv
  <2> QED
    BY <2>0, <2>1, <2>2, <2>3, <2>4, <2>5 DEF PaidInv, Writing
<1>15. ASSUME NEW l \in Lookups, Mirror(l) PROVE CacheShape' /\ LockInv' /\ PaidInv'
  <2>0. /\ lookup[l].at = "mirror" /\ lookup[l].lock # 0 /\ LookupGoes(l, "release")
        /\ UNCHANGED <<clock, file, locks, held, deleter, paid>>
    BY <1>15 DEF Mirror, LockInv
  <2>1. /\ lookup' \in [Lookups -> LookupRow] /\ lookup'[l].at = "release"
        /\ lookup'[l].lock = lookup[l].lock /\ \A m \in Lookups \ {l} : lookup'[m] = lookup[m]
    BY <2>0, LookupGoesTo DEF LookupAt
  <2>2. CacheShape' /\ LockInv'
    BY <1>0, <2>0, <2>1, LockFrame DEF CacheShape
  <2>3. Calm' = Calm /\ \A m \in Lookups : Writing(m)' = Writing(m)
    BY <2>0, <2>1 DEF Calm, Writing
  <2> QED
    BY <2>0, <2>1, <2>2, <2>3 DEF PaidInv
\* What ends the quiet, and what does not touch it.
<1>16. ASSUME NEW d \in Deleters, Delete(d) PROVE CacheShape' /\ LockInv' /\ PaidInv'
  <2>1. /\ UNCHANGED <<clock, locks, held, lookup, paid>>
        /\ deleter[d] \in {"idle", "value", "sidecar"}
        /\ deleter' = [deleter EXCEPT ![d] =
             CASE deleter[d] = "idle" -> "value" [] deleter[d] = "value" -> "sidecar"
               [] deleter[d] = "sidecar" -> "done"]
        /\ \/ file' = file \/ file' = [file EXCEPT !.value = 0] \/ file' = [file EXCEPT !.meta = 0]
    BY <1>16 DEF Delete
  <2>2. deleter' \in [Deleters -> DeleterAt] /\ deleter'[d] # "idle"
    BY <1>0, <2>1 DEF DeleterAt
  <2>3. file' \in FileRow
    BY <1>0, <2>1 DEF FileRow
  <2> QED
    BY <1>0, <2>1, <2>2, <2>3 DEF CacheShape, LockInv, Inside, Critical, PaidInv, Calm
<1>17. CASE Clock
  <2>1. clock' \in Nat /\ clock' # 0 /\ UNCHANGED <<file, locks, held, lookup, deleter, paid>>
    BY <1>0, <1>17 DEF Clock
  <2> QED
    BY <1>0, <2>1 DEF CacheShape, LockInv, Inside, Critical, PaidInv, Calm
<1>18. CASE Evict \/ UNCHANGED cacheVars
  <2>1. UNCHANGED <<clock, file, locks, held, lookup, deleter, paid>>
    BY <1>18 DEF Evict, cacheVars
  <2> QED
    BY <1>0, <2>1 DEF CacheShape, LockInv, Inside, Critical, PaidInv, Calm, Writing
<1> QED
  BY <1>2, <1>3, <1>4, <1>5, <1>6, <1>8, <1>9, <1>10, <1>11, <1>12, <1>13, <1>14, <1>15, <1>16, <1>17,
     <1>18
  DEF CacheNext, GetOrSet, Get, Set

LEMMA CacheInvInit == CacheInit => CacheShape /\ LockInv /\ PaidInv
<1> SUFFICES ASSUME CacheInit PROVE CacheShape /\ LockInv /\ PaidInv
  OBVIOUS
<1>1. /\ \A l \in Lookups : lookup[l] = LookupStart
      /\ LookupStart.lock = 0 /\ LookupStart.at = "first"
  BY DEF CacheInit, LookupStart
<1>2. Inside = {} /\ Cardinality(Inside) = 0
  BY <1>1, FS_EmptySet DEF Inside
<1>3. CacheShape
  BY CacheNumbers DEF CacheInit, CacheShape, FileRow, LockPoolRow, DeleterAt
<1>4. LockInv
  BY <1>1, <1>2 DEF CacheInit, LockInv, Critical, NoEntry
<1>5. PaidInv
  BY <1>1 DEF CacheInit, PaidInv
<1> QED
  BY <1>3, <1>4, <1>5

\* Stampede protection: however any number of coroutines of one loop interleave, are
\* cancelled while they wait or find the front evicted, one value is computed until
\* something expires or is deleted.
THEOREM PaidOnceHolds == CacheSpec => []PaidOnce
<1>1. CASE Cardinality({LoopOf[l] : l \in Lookups}) = 1
  <2>1. OneLoop
    BY <1>1, OneLoopIs
  <2>2. CacheShape /\ LockInv /\ PaidInv /\ [CacheNext]_cacheVars
          => CacheShape' /\ LockInv' /\ PaidInv'
    BY <2>1, CacheInvStep
  <2>3. PaidInv => PaidOnce
    BY DEF PaidInv, PaidOnce, Calm
  <2> QED
    BY <2>2, <2>3, CacheInvInit, PTL DEF CacheSpec
<1>2. CASE Cardinality({LoopOf[l] : l \in Lookups}) # 1
  <2>1. PaidOnce
    BY <1>2 DEF PaidOnce
  <2> QED
    BY <2>1, PTL
<1> QED
  BY <1>1, <1>2

-----------------------------------------------------------------------------
(* The bus with publishers anywhere: what it keeps stays within its bounds.     *)

\* The publishers whose frame has a number and has not met the mailbox yet.
Offering == {p \in Publishers : publisher[p].at = "offer"}

BusForm ==
  /\ sequence \in 0..MaxFrames /\ subscribed \in BOOLEAN
  /\ mailbox \in [queue : Seq(Frames), dropped : Nat, overflowed : BOOLEAN, closed : BOOLEAN]
  /\ Len(mailbox.queue) <= Capacity
  /\ wakeup \in [set : BOOLEAN, asked : BOOLEAN]
  /\ publisher \in [Publishers -> [at : {"idle", "offer", "append", "notify"}, frame : 0..MaxFrames]]
  /\ \A p \in Publishers : publisher[p].at # "idle" => publisher[p].frame \in Frames
  /\ pump \in [at : {"top", "clear", "recheck", "wait", "send", "gone"}, batch : Seq(Frames)]
  /\ Len(pump.batch) <= Capacity
  /\ holder \in OnLoop \cup {"nobody", "pump"}
  /\ wire \in Seq(Frames)

\* A frame counted as lost was numbered, once, by a publisher that is past offering it.
DropsAreNumbered ==
  /\ IsFiniteSet(Offering)
  /\ mailbox.dropped + Cardinality(Offering) <= sequence

BusTyped == BusForm /\ DropsAreNumbered

\* Pushing keeps a mailbox within its capacity, whatever is in it.
LEMMA PushedFits ==
  ASSUME NEW q \in Seq(Frames), Len(q) <= Capacity, NEW f \in Frames
  PROVE  Pushed(q, f) \in Seq(Frames) /\ Len(Pushed(q, f)) <= Capacity
<1>0. Capacity \in Nat \ {0} /\ Len(q) \in Nat
  BY BusAssumption
<1>1. CASE Len(q) < Capacity
  <2>1. Append(q, f) \in Seq(Frames) /\ Len(Append(q, f)) = Len(q) + 1
    OBVIOUS
  <2> QED
    BY <1>0, <1>1, <2>1 DEF Pushed
<1>2. CASE ~(Len(q) < Capacity)
  <2>1. q # <<>>
    BY <1>0, <1>2
  <2>2. Tail(q) \in Seq(Frames) /\ Len(Tail(q)) = Len(q) - 1
    BY <2>1
  <2>3. Append(Tail(q), f) \in Seq(Frames) /\ Len(Append(Tail(q), f)) = Len(q)
    BY <1>0, <2>2
  <2> QED
    BY <1>2, <2>3 DEF Pushed
<1> QED
  BY <1>1, <1>2

\* A publisher moves on: the others stay where they are.
LEMMA PublisherMoves ==
  ASSUME BusForm, NEW p \in Publishers, NEW at \in {"idle", "offer", "append", "notify"},
         NEW f \in 0..MaxFrames, at # "idle" => f \in Frames, Goes(p, at, f)
  PROVE  /\ publisher' \in [Publishers -> [at : {"idle", "offer", "append", "notify"},
                                            frame : 0..MaxFrames]]
         /\ \A q \in Publishers : publisher'[q].at # "idle" => publisher'[q].frame \in Frames
         /\ Offering' = IF at = "offer" THEN Offering \cup {p} ELSE Offering \ {p}
<1> DEFINE r == [at |-> at, frame |-> f]
<1>1. r \in [at : {"idle", "offer", "append", "notify"}, frame : 0..MaxFrames] /\ r.at = at /\ r.frame = f
  OBVIOUS
<1>2. publisher' = [publisher EXCEPT ![p] = r]
  BY DEF Goes
<1> HIDE DEF r
<1>3. publisher'[p] = r /\ \A q \in Publishers : q # p => publisher'[q] = publisher[q]
  BY <1>2 DEF BusForm
<1>4. publisher' \in [Publishers -> [at : {"idle", "offer", "append", "notify"}, frame : 0..MaxFrames]]
  BY <1>1, <1>2 DEF BusForm
<1>5. \A q \in Publishers : publisher'[q].at # "idle" => publisher'[q].frame \in Frames
  BY <1>1, <1>3 DEF BusForm
<1>6. \A q : q \in Offering' <=> q \in IF at = "offer" THEN Offering \cup {p} ELSE Offering \ {p}
  BY <1>1, <1>3 DEF Offering
<1>7. Offering' = IF at = "offer" THEN Offering \cup {p} ELSE Offering \ {p}
  BY <1>6
<1> QED
  BY <1>4, <1>5, <1>7

\* One publisher more, or one fewer, between its number and the mailbox.
LEMMA OfferingCounts ==
  ASSUME BusTyped, NEW p \in Publishers
  PROVE  /\ IsFiniteSet(Offering \cup {p})
         /\ Cardinality(Offering) \in Nat
         /\ p \notin Offering => Cardinality(Offering \cup {p}) = Cardinality(Offering) + 1
         /\ IsFiniteSet(Offering \ {p})
         /\ Cardinality(Offering \ {p}) = IF p \in Offering THEN Cardinality(Offering) - 1
                                                            ELSE Cardinality(Offering)
<1>1. IsFiniteSet(Offering)
  BY DEF BusTyped, DropsAreNumbered
<1> HIDE DEF Offering
<1> QED
  BY <1>1, FS_AddElement, FS_RemoveElement, FS_CardinalityType

\* Everybody stays where he is, and what else changes is well formed.
LEMMA BusStays ==
  ASSUME BusTyped, UNCHANGED <<sequence, publisher>>, BusForm', mailbox'.dropped = mailbox.dropped
  PROVE  BusTyped'
BY DEF BusTyped, DropsAreNumbered, Offering

\* Every step of the bus keeps it well formed and its losses numbered.
LEMMA BusTypedStep ==
  ASSUME BusTyped, [BusNext]_busVars
  PROVE  BusTyped'
<1> USE BusAssumption DEF BusTyped
<1>0. /\ MaxFrames \in Nat \ {0} /\ sequence \in Nat /\ mailbox.dropped \in Nat
      /\ Frames = 1..MaxFrames
      /\ Cardinality(Offering) \in Nat /\ mailbox.dropped + Cardinality(Offering) <= sequence
  BY FS_CardinalityType DEF BusForm, DropsAreNumbered, Frames
<1>1. ASSUME NEW p \in Publishers, Publish(p) PROVE BusTyped'
  <2>1. sequence' = sequence + 1 /\ sequence' \in Frames /\ sequence' \in 0..MaxFrames
    BY <1>0, <1>1 DEF Publish
  <2>2. /\ publisher' \in [Publishers -> [at : {"idle", "offer", "append", "notify"},
                                            frame : 0..MaxFrames]]
        /\ \A q \in Publishers : publisher'[q].at # "idle" => publisher'[q].frame \in Frames
        /\ Offering' = Offering \cup {p}
    BY <1>1, <2>1, PublisherMoves DEF Publish
  <2>3. p \notin Offering
    BY <1>1 DEF Publish, Offering
  <2>4. IsFiniteSet(Offering') /\ Cardinality(Offering') = Cardinality(Offering) + 1
    BY <2>2, <2>3, OfferingCounts
  <2>5. mailbox' = mailbox /\ holder' \in OnLoop \cup {"nobody", "pump"}
    BY <1>1 DEF Publish, Takes, BusForm
  <2>6. BusForm'
    BY <1>1, <2>1, <2>2, <2>5 DEF BusForm, Publish
  <2>7. DropsAreNumbered'
    BY <1>0, <2>1, <2>4, <2>5 DEF DropsAreNumbered
  <2> QED
    BY <2>6, <2>7
<1>2. ASSUME NEW p \in Publishers, Offer(p) PROVE BusTyped'
  <2>1. publisher[p].frame \in Frames /\ p \in Offering /\ 0 \in 0..MaxFrames
    BY <1>0, <1>2 DEF BusForm, Offer, Offering
  <2>2. PICK at \in {"idle", "append"}, f \in 0..MaxFrames :
          Goes(p, at, f) /\ (at # "idle" => f \in Frames)
    BY <1>0, <1>2, <2>1 DEF Offer
  <2>3. /\ publisher' \in [Publishers -> [at : {"idle", "offer", "append", "notify"},
                                            frame : 0..MaxFrames]]
        /\ \A q \in Publishers : publisher'[q].at # "idle" => publisher'[q].frame \in Frames
        /\ Offering' = Offering \ {p}
    BY <2>2, PublisherMoves
  <2>4. IsFiniteSet(Offering') /\ Cardinality(Offering') = Cardinality(Offering) - 1
    BY <2>1, <2>3, OfferingCounts
  <2>5. /\ mailbox'.queue = mailbox.queue
        /\ mailbox'.dropped \in {mailbox.dropped, mailbox.dropped + 1}
        /\ mailbox' \in [queue : Seq(Frames), dropped : Nat, overflowed : BOOLEAN, closed : BOOLEAN]
    <3>1. CASE mailbox.closed
      BY <1>2, <3>1 DEF Offer, BusForm
    <3>2. CASE ~mailbox.closed
      <4> DEFINE full == Len(mailbox.queue) = Capacity
                 lost == IF full THEN mailbox.dropped + 1 ELSE mailbox.dropped
                 over == mailbox.overflowed \/ (full /\ lost >= MaxDropped)
      <4>1. mailbox' = [mailbox EXCEPT !.dropped = lost, !.overflowed = over]
        BY <1>2, <3>2 DEF Offer
      <4>2. lost \in {mailbox.dropped, mailbox.dropped + 1}
        OBVIOUS
      <4>3. over \in BOOLEAN
        BY DEF BusForm
      <4>4. lost \in Nat
        BY <1>0, <4>2
      <4>5. mailbox \in [queue : Seq(Frames), dropped : Nat, overflowed : BOOLEAN, closed : BOOLEAN]
        BY DEF BusForm
      <4> HIDE DEF lost, over
      <4>6. /\ mailbox'.queue = mailbox.queue /\ mailbox'.dropped = lost
            /\ mailbox' \in [queue : Seq(Frames), dropped : Nat, overflowed : BOOLEAN,
                             closed : BOOLEAN]
        BY <4>1, <4>3, <4>4, <4>5
      <4> QED
        BY <4>2, <4>6
    <3> QED
      BY <3>1, <3>2
  <2>6. holder' \in OnLoop \cup {"nobody", "pump"}
    BY <1>2 DEF Offer, Takes, Leaves, BusForm
  <2>7. BusForm'
    BY <1>2, <2>3, <2>5, <2>6 DEF BusForm, Offer
  <2>8. sequence' = sequence
    BY <1>2 DEF Offer
  <2>9. DropsAreNumbered'
    BY <1>0, <2>4, <2>5, <2>8 DEF DropsAreNumbered
  <2> QED
    BY <2>7, <2>9
<1>3. ASSUME NEW p \in Publishers, AppendFrame(p) PROVE BusTyped'
  <2>1. publisher[p].frame \in Frames /\ publisher[p].frame \in 0..MaxFrames /\ p \notin Offering
    BY <1>3 DEF BusForm, AppendFrame, Offering
  <2>2. /\ publisher' \in [Publishers -> [at : {"idle", "offer", "append", "notify"},
                                            frame : 0..MaxFrames]]
        /\ \A q \in Publishers : publisher'[q].at # "idle" => publisher'[q].frame \in Frames
        /\ Offering' = Offering \ {p}
    BY <1>3, <2>1, PublisherMoves DEF AppendFrame
  <2>3. Offering' = Offering
    BY <2>1, <2>2
  <2>4. Pushed(mailbox.queue, publisher[p].frame) \in Seq(Frames)
        /\ Len(Pushed(mailbox.queue, publisher[p].frame)) <= Capacity
    BY <2>1, PushedFits DEF BusForm
  <2>5. /\ mailbox'.queue = Pushed(mailbox.queue, publisher[p].frame)
        /\ mailbox'.dropped = mailbox.dropped
        /\ mailbox' \in [queue : Seq(Frames), dropped : Nat, overflowed : BOOLEAN, closed : BOOLEAN]
    BY <1>3, <2>4 DEF AppendFrame, BusForm
  <2>6. BusForm'
    BY <1>3, <2>2, <2>4, <2>5 DEF BusForm, AppendFrame
  <2>7. DropsAreNumbered'
    BY <1>3, <2>3, <2>5 DEF DropsAreNumbered, AppendFrame
  <2> QED
    BY <2>6, <2>7
<1>4. ASSUME NEW p \in Publishers, Notify(p) PROVE BusTyped'
  <2>1. 0 \in 0..MaxFrames /\ p \notin Offering
    BY <1>0, <1>4 DEF Notify, Offering
  <2>2. /\ publisher' \in [Publishers -> [at : {"idle", "offer", "append", "notify"},
                                            frame : 0..MaxFrames]]
        /\ \A q \in Publishers : publisher'[q].at # "idle" => publisher'[q].frame \in Frames
        /\ Offering' = Offering \ {p}
    BY <1>4, <2>1, PublisherMoves DEF Notify
  <2>3. Offering' = Offering
    BY <2>1, <2>2
  <2>4. wakeup' \in [set : BOOLEAN, asked : BOOLEAN]
    BY <1>4 DEF Notify, BusForm
  <2>5. holder' \in OnLoop \cup {"nobody", "pump"}
    BY <1>4 DEF Notify, Leaves, BusForm
  <2>6. BusForm'
    BY <1>4, <2>2, <2>4, <2>5 DEF BusForm, Notify
  <2>7. DropsAreNumbered'
    BY <1>4, <2>3 DEF DropsAreNumbered, Notify
  <2> QED
    BY <2>6, <2>7
<1>5. ASSUME Wake PROVE BusTyped'
  <2>1. BusForm'
    BY <1>5 DEF Wake, BusForm
  <2> QED
    BY <1>5, <2>1, BusStays DEF Wake
<1>6. ASSUME NEW at \in {"top", "clear", "recheck", "wait", "send", "gone"},
             NEW b \in Seq(Frames), Len(b) <= Capacity,
             NEW who \in OnLoop \cup {"nobody", "pump"}, PumpGoes(at, b, who)
      PROVE  /\ pump' \in [at : {"top", "clear", "recheck", "wait", "send", "gone"},
                           batch : Seq(Frames)]
             /\ Len(pump'.batch) <= Capacity
             /\ holder' \in OnLoop \cup {"nobody", "pump"}
  BY <1>6 DEF PumpGoes
<1>7. /\ <<>> \in Seq(Frames) /\ Len(<<>>) <= Capacity
      /\ mailbox.queue \in Seq(Frames) /\ Len(mailbox.queue) <= Capacity
      /\ pump.batch \in Seq(Frames) /\ Len(pump.batch) <= Capacity
      /\ holder \in OnLoop \cup {"nobody", "pump"}
  BY DEF BusForm
<1>8. ASSUME DrainTop PROVE BusTyped'
  <2>1. /\ pump' \in [at : {"top", "clear", "recheck", "wait", "send", "gone"}, batch : Seq(Frames)]
        /\ Len(pump'.batch) <= Capacity
        /\ holder' \in OnLoop \cup {"nobody", "pump"}
    BY <1>6, <1>7, <1>8 DEF DrainTop
  <2>2. wakeup' \in [set : BOOLEAN, asked : BOOLEAN]
    BY <1>8 DEF DrainTop, BusForm
  <2>3. BusForm'
    BY <1>8, <2>1, <2>2 DEF DrainTop, BusForm
  <2> QED
    BY <1>8, <2>3, BusStays DEF DrainTop
<1>9. ASSUME DrainClear PROVE BusTyped'
  <2>1. /\ pump' \in [at : {"top", "clear", "recheck", "wait", "send", "gone"}, batch : Seq(Frames)]
        /\ Len(pump'.batch) <= Capacity
        /\ holder' \in OnLoop \cup {"nobody", "pump"}
    BY <1>6, <1>7, <1>9 DEF DrainClear
  <2>2. /\ mailbox' \in [queue : Seq(Frames), dropped : Nat, overflowed : BOOLEAN, closed : BOOLEAN]
        /\ mailbox'.queue = <<>> /\ mailbox'.dropped = mailbox.dropped
    BY <1>7, <1>9 DEF DrainClear, BusForm
  <2>3. BusForm'
    BY <1>7, <1>9, <2>1, <2>2 DEF DrainClear, BusForm
  <2> QED
    BY <1>9, <2>2, <2>3, BusStays DEF DrainClear
<1>10. ASSUME DrainRecheck \/ DrainWakes PROVE BusTyped'
  <2>1. /\ pump' \in [at : {"top", "clear", "recheck", "wait", "send", "gone"}, batch : Seq(Frames)]
        /\ Len(pump'.batch) <= Capacity
        /\ holder' \in OnLoop \cup {"nobody", "pump"}
    BY <1>6, <1>7, <1>10 DEF DrainRecheck, DrainWakes
  <2>2. UNCHANGED <<sequence, subscribed, mailbox, wakeup, publisher, wire>>
    BY <1>10 DEF DrainRecheck, DrainWakes
  <2>3. BusForm'
    BY <2>1, <2>2 DEF BusForm
  <2> QED
    BY <2>2, <2>3, BusStays
<1>11. ASSUME Hangup, wire' \in Seq(Frames) PROVE BusTyped'
  <2>1. /\ pump' \in [at : {"top", "clear", "recheck", "wait", "send", "gone"}, batch : Seq(Frames)]
        /\ Len(pump'.batch) <= Capacity
        /\ holder' \in OnLoop \cup {"nobody", "pump"}
    BY <1>6, <1>7, <1>11 DEF Hangup
  <2>2. /\ mailbox' \in [queue : Seq(Frames), dropped : Nat, overflowed : BOOLEAN, closed : BOOLEAN]
        /\ mailbox'.queue = mailbox.queue /\ mailbox'.dropped = mailbox.dropped
    BY <1>11 DEF Hangup, BusForm
  <2>3. BusForm'
    BY <1>11, <2>1, <2>2 DEF Hangup, BusForm
  <2> QED
    BY <1>11, <2>2, <2>3, BusStays DEF Hangup
<1>12. ASSUME SendBatch PROVE BusTyped'
  <2>1. wire' \in Seq(Frames)
    BY <1>7, <1>12 DEF SendBatch, BusForm
  <2>2. CASE Hangup
    BY <1>11, <2>1, <2>2
  <2>3. CASE PumpGoes("top", <<>>, "nobody") /\ UNCHANGED <<sequence, subscribed, mailbox, wakeup, publisher>>
    <3>1. /\ pump' \in [at : {"top", "clear", "recheck", "wait", "send", "gone"}, batch : Seq(Frames)]
          /\ Len(pump'.batch) <= Capacity
          /\ holder' \in OnLoop \cup {"nobody", "pump"}
      BY <1>6, <1>7, <2>3
    <3>2. BusForm'
      BY <2>1, <2>3, <3>1 DEF BusForm
    <3> QED
      BY <2>3, <3>2, BusStays
  <2> QED
    BY <1>12, <2>2, <2>3 DEF SendBatch
<1>13. ASSUME ClientGone PROVE BusTyped'
  <2>1. Hangup /\ wire' \in Seq(Frames)
    BY <1>13 DEF ClientGone, BusForm
  <2> QED
    BY <1>11, <2>1
<1>14. CASE UNCHANGED busVars
  BY <1>14 DEF busVars, BusForm, DropsAreNumbered, Offering
<1> QED
  BY <1>1, <1>2, <1>3, <1>4, <1>5, <1>8, <1>9, <1>10, <1>12, <1>13, <1>14
  DEF BusNext, PublisherStep, PumpStep

\* Publishers on the loop and on threads, any number of both, keep the mailbox and the
\* batch within their capacity and hand over only frames that were numbered; a frame is
\* counted as lost (Subscription._dropped) at most once.
THEOREM BusTypes == BusSpec => []BusTypeOK
<1>1. BusInit => BusTyped
  <2> SUFFICES ASSUME BusInit PROVE BusTyped
    OBVIOUS
  <2>1. MaxFrames \in Nat /\ 0 \in 0..MaxFrames /\ Capacity \in Nat
        /\ <<>> \in Seq(Frames) /\ Len(<<>>) = 0
    BY BusAssumption
  <2>2. \A p \in Publishers : publisher[p].at = "idle"
    BY DEF BusInit
  <2>3. Offering = {}
    BY <2>2 DEF Offering
  <2>4. DropsAreNumbered
    BY <2>1, <2>3, FS_EmptySet DEF BusInit, DropsAreNumbered
  <2>5. BusForm
    BY <2>1, <2>2 DEF BusInit, BusForm
  <2> QED
    BY <2>4, <2>5 DEF BusTyped
<1>2. BusTyped /\ [BusNext]_busVars => BusTyped'
  BY BusTypedStep
<1>3. BusTyped => BusTypeOK
  <2> SUFFICES ASSUME BusTyped PROVE BusTypeOK
    OBVIOUS
  <2>1. mailbox.dropped \in 0..MaxFrames
    <3>1. /\ Cardinality(Offering) \in Nat /\ mailbox.dropped \in Nat /\ sequence \in 0..MaxFrames
          /\ mailbox.dropped + Cardinality(Offering) <= sequence /\ MaxFrames \in Nat
      BY BusAssumption, FS_CardinalityType DEF BusTyped, BusForm, DropsAreNumbered
    <3> QED
      BY <3>1
  <2>2. {mailbox.overflowed, mailbox.closed, wakeup.set, wakeup.asked} \subseteq BOOLEAN
    BY DEF BusTyped, BusForm
  <2> QED
    BY <2>1, <2>2 DEF BusTyped, BusForm, BusTypeOK
<1> QED
  BY <1>1, <1>2, <1>3, PTL DEF BusSpec

-----------------------------------------------------------------------------
(* TieredCache on any loops: what it keeps stays within its bounds.           *)

\* The rows of CacheTypeOK, for values up to the last one computed.
BoundRow(n) == [at : LookupAt, lock : {0} \cup Locks, value : 0..n, until : 0..(MaxClock + TTL)]
BoundFront(n) == [value : 0..n, expires : 0..(MaxClock + FrontTTL)]
BoundFile(n) == [value : 0..n, meta : 0..(MaxClock + TTL)]
BoundPool == [loop : {LoopOf[l] : l \in Lookups} \cup {"none"},
              entry : [lock : {0} \cup Locks, waiters : Nat]]

CacheBounds ==
  /\ clock \in 0..MaxClock /\ paid \in Nat
  /\ front \in BoundFront(paid) /\ file \in BoundFile(paid)
  /\ locks \in BoundPool /\ held \subseteq Locks
  /\ lookup \in [Lookups -> BoundRow(paid)]
  /\ deleter \in [Deleters -> DeleterAt]

\* A lock is held by somebody who is past waiting for it, and the entry of the pool is
\* the one of a lookup inside, or was left behind by one that is done.
LocksHaveOwners ==
  /\ \A l \in Lookups :
       /\ lookup[l].at \in {"first", "checkout", "done"} => lookup[l].lock = 0
       /\ lookup[l].at \in {"await", "second", "compute", "write", "written", "mirror", "release"}
            => lookup[l].lock # 0
  /\ \A k \in held : \E m \in Lookups : lookup[m].lock = k /\ lookup[m].at # "await"
  /\ locks.entry.lock # 0 =>
       /\ locks.entry.waiters # 0
       /\ \E m \in Lookups : lookup[m].lock = locks.entry.lock \/ lookup[m].at = "done"

\* A lookup is counted in at most once and computes at most once.
Counted == {l \in Lookups : lookup[l].lock # 0 \/ lookup[l].at = "done"}
Past == {l \in Lookups : lookup[l].at \in {"write", "written", "mirror", "release", "done"}}
OncePerLookup ==
  /\ locks.entry.waiters <= Cardinality(Counted)
  /\ paid <= Cardinality(Past)

CacheTyped == CacheBounds /\ LocksHaveOwners /\ OncePerLookup

\* Sets of lookups have a size, which grows with them.
LEMMA LookupSets ==
  /\ \A S \in SUBSET Lookups : /\ IsFiniteSet(S) /\ Cardinality(S) \in Nat
                               /\ Cardinality(S) <= Cardinality(Lookups)
  /\ \A S, T \in SUBSET Lookups : S \subseteq T => Cardinality(S) <= Cardinality(T)
  /\ \A S \in SUBSET Lookups : \A l \in Lookups \ S : Cardinality(S \cup {l}) = Cardinality(S) + 1
<1>1. IsFiniteSet(Lookups)
  BY CacheNumbers
<1>2. ASSUME NEW S \in SUBSET Lookups
      PROVE  /\ IsFiniteSet(S) /\ Cardinality(S) \in Nat /\ Cardinality(S) <= Cardinality(Lookups)
             /\ \A T \in SUBSET S : Cardinality(T) <= Cardinality(S)
             /\ \A l \in Lookups \ S : Cardinality(S \cup {l}) = Cardinality(S) + 1
  <2>1. IsFiniteSet(S) /\ Cardinality(S) <= Cardinality(Lookups)
    BY <1>1, FS_Subset
  <2> QED
    BY <2>1, FS_Subset, FS_AddElement, FS_CardinalityType
<1> QED
  BY <1>2

\* What is a bound for few values is one for more.
LEMMA BoundsGrow ==
  ASSUME NEW m \in Nat, NEW n \in Nat, m <= n
  PROVE  /\ BoundRow(m) \subseteq BoundRow(n) /\ BoundFront(m) \subseteq BoundFront(n)
         /\ BoundFile(m) \subseteq BoundFile(n)
<1>1. 0..m \subseteq 0..n
  OBVIOUS
<1> QED
  BY <1>1 DEF BoundRow, BoundFront, BoundFile

\* One lookup goes on: the others stay.
LEMMA RowGoes ==
  ASSUME CacheBounds, NEW l \in Lookups, NEW n \in Nat, paid <= n, NEW row \in BoundRow(n),
         lookup' = [lookup EXCEPT ![l] = row]
  PROVE  /\ lookup' \in [Lookups -> BoundRow(n)] /\ lookup'[l] = row
         /\ \A m \in Lookups \ {l} : lookup'[m] = lookup[m]
<1>1. lookup \in [Lookups -> BoundRow(n)]
  BY BoundsGrow DEF CacheBounds
<1> HIDE DEF BoundRow
<1> QED
  BY <1>1

\* Nobody is counted out again, and nothing is counted but what is counted in.
LEMMA CountsStand ==
  ASSUME CacheTyped, NEW l \in Lookups, \A m \in Lookups \ {l} : lookup'[m] = lookup[m],
         lookup[l].lock # 0 \/ lookup[l].at = "done" => lookup'[l].lock # 0 \/ lookup'[l].at = "done",
         lookup[l].at \in {"write", "written", "mirror", "release", "done"}
           => lookup'[l].at \in {"write", "written", "mirror", "release", "done"},
         locks'.entry.waiters \in Nat, locks'.entry.waiters <= locks.entry.waiters, paid' = paid
  PROVE  OncePerLookup'
<1>1. Counted \subseteq Counted' /\ Past \subseteq Past'
  BY DEF Counted, Past
<1>2. Counted \in SUBSET Lookups /\ Counted' \in SUBSET Lookups
      /\ Past \in SUBSET Lookups /\ Past' \in SUBSET Lookups
  BY DEF Counted, Past
<1>3. /\ Cardinality(Counted) \in Nat /\ Cardinality(Counted') \in Nat
      /\ Cardinality(Past) \in Nat /\ Cardinality(Past') \in Nat
      /\ Cardinality(Counted) <= Cardinality(Counted') /\ Cardinality(Past) <= Cardinality(Past')
  BY <1>1, <1>2, LookupSets
<1>4. locks.entry.waiters \in Nat /\ paid \in Nat
  BY DEF CacheTyped, CacheBounds, BoundPool
<1> QED
  BY <1>3, <1>4 DEF CacheTyped, OncePerLookup

\* A step of one lookup outside the lock pool and the factory.
LEMMA QuietMove ==
  ASSUME CacheTyped, NEW l \in Lookups, NEW row \in BoundRow(paid),
         lookup' = [lookup EXCEPT ![l] = row],
         UNCHANGED <<clock, locks, held, deleter, paid>>,
         front' \in BoundFront(paid), file' \in BoundFile(paid),
         row.lock = lookup[l].lock, lookup[l].at \notin {"await", "done"},
         row.at \notin {"first", "await"},
         row.at \in {"checkout", "done"} => row.lock = 0,
         row.at \in {"second", "compute", "write", "written", "mirror", "release"} => row.lock # 0,
         lookup[l].at \in {"write", "written", "mirror", "release"}
           => row.at \in {"write", "written", "mirror", "release", "done"}
  PROVE  CacheTyped'
<1>1. /\ lookup' \in [Lookups -> BoundRow(paid)] /\ lookup'[l] = row
      /\ \A m \in Lookups \ {l} : lookup'[m] = lookup[m]
  <2>1. paid \in Nat /\ paid <= paid /\ CacheBounds
    BY DEF CacheTyped, CacheBounds
  <2> QED
    BY <2>1, RowGoes
<1> HIDE DEF BoundRow, BoundFront, BoundFile
<1>2. CacheBounds'
  BY <1>1 DEF CacheTyped, CacheBounds
<1>3. LocksHaveOwners'
  <2>1. \A m \in Lookups : lookup'[m].lock = lookup[m].lock
    BY <1>1
  <2>2. \A m \in Lookups : lookup[m].at # "await" => lookup'[m].at # "await"
    BY <1>1
  <2>3. \A m \in Lookups : lookup[m].at = "done" => lookup'[m].at = "done"
    BY <1>1
  <2>4. \A m \in Lookups :
          /\ lookup'[m].at \in {"first", "checkout", "done"} => lookup'[m].lock = 0
          /\ lookup'[m].at \in {"await", "second", "compute", "write", "written", "mirror", "release"}
               => lookup'[m].lock # 0
    BY <1>1 DEF CacheTyped, LocksHaveOwners
  <2> QED
    BY <2>1, <2>2, <2>3, <2>4 DEF CacheTyped, LocksHaveOwners
<1>4. locks'.entry.waiters \in Nat /\ locks'.entry.waiters <= locks.entry.waiters
  BY DEF CacheTyped, CacheBounds, BoundPool
<1>5. OncePerLookup'
  BY <1>1, <1>4, CountsStand
<1> QED
  BY <1>2, <1>3, <1>5 DEF CacheTyped

\* There is always a lock left for a lookup that has none: every lock in use is that of
\* another lookup, or of an entry another one has left behind.
LEMMA LockIsLeft ==
  ASSUME CacheTyped, NEW l \in Lookups, lookup[l].at = "checkout"
  PROVE  \E k \in Locks : k \notin UsedLocks
<1> DEFINE In == {m \in Lookups : lookup[m].lock # 0}
           f == [m \in In |-> lookup[m].lock]
           T == {lookup[m].lock : m \in In}
           N == Cardinality(Lookups)
<1>1. In \in SUBSET Lookups /\ l \notin In
  BY DEF CacheTyped, LocksHaveOwners
<1>2. IsFiniteSet(In) /\ Cardinality(In) \in Nat
  BY <1>1, LookupSets
<1>3. IsFiniteSet(T) /\ Cardinality(T) <= Cardinality(In) /\ Cardinality(T) \in Nat
  <2>1. f \in Surjection(In, T)
    BY DEF Surjection
  <2> HIDE DEF In, T, f
  <2> QED
    BY <1>2, <2>1, FS_Surjection, FS_CardinalityType
<1>4. held \subseteq T
  BY DEF CacheTyped, LocksHaveOwners, CacheBounds, Locks
<1>5. UsedLocks \subseteq {0, locks.entry.lock} \cup T
  BY <1>4 DEF UsedLocks
<1>6. N \in Nat /\ IsFiniteSet(Locks) /\ Cardinality(Locks) = N /\ 0 \notin Locks
  <2>1. N \in Nat
    BY CacheNumbers
  <2> HIDE DEF N
  <2>2. IsFiniteSet(1..N) /\ Cardinality(1..N) = N
    <3>1. IsFiniteSet(1..N) /\ Cardinality(1..N) = IF 1 > N THEN 0 ELSE N - 1 + 1
      BY <2>1, FS_Interval
    <3> QED
      BY <2>1, <3>1
  <2> QED
    BY <2>1, <2>2 DEF Locks, N
<1>7. Cardinality(In \cup {l}) = Cardinality(In) + 1 /\ In \cup {l} \in SUBSET Lookups
  BY <1>1, LookupSets
<1>8. CASE locks.entry.lock = 0 \/ locks.entry.lock \in T
  <2>1. Cardinality(T) < N
    <3>1. Cardinality(In \cup {l}) <= N
      BY <1>7, LookupSets
    <3> HIDE DEF In, T, N
    <3> QED
      BY <1>2, <1>3, <1>6, <1>7, <3>1
  <2>2. ~(Locks \subseteq T)
    <3> HIDE DEF T, N
    <3>1. Locks \subseteq T => Cardinality(Locks) <= Cardinality(T)
      BY <1>3, FS_Subset
    <3> QED
      BY <1>3, <1>6, <2>1, <3>1
  <2> QED
    BY <1>5, <1>6, <1>8, <2>2
<1>9. CASE locks.entry.lock # 0 /\ locks.entry.lock \notin T
  <2>1. PICK m \in Lookups : lookup[m].at = "done" /\ lookup[m].lock = 0
    BY <1>9 DEF CacheTyped, LocksHaveOwners
  <2>2. m \notin In \cup {l}
    BY <2>1
  <2>3. Cardinality(In \cup {l} \cup {m}) = Cardinality(In) + 2
        /\ In \cup {l} \cup {m} \in SUBSET Lookups
    <3>1. Cardinality((In \cup {l}) \cup {m}) = Cardinality(In \cup {l}) + 1
      BY <1>7, <2>2, LookupSets
    <3> HIDE DEF In
    <3> QED
      BY <1>2, <1>7, <3>1
  <2>4. Cardinality(In) + 2 <= N
    BY <2>3, LookupSets
  <2> DEFINE U == T \cup {locks.entry.lock}
  <2>5. IsFiniteSet(U) /\ Cardinality(U) = Cardinality(T) + 1
    <3> HIDE DEF T
    <3> QED
      BY <1>3, <1>9, FS_AddElement
  <2>6. ~(Locks \subseteq U)
    <3> HIDE DEF In, T, U, N
    <3>1. Locks \subseteq U => Cardinality(Locks) <= Cardinality(U)
      BY <2>5, FS_Subset
    <3> QED
      BY <1>2, <1>3, <1>6, <2>4, <2>5, <3>1
  <2> QED
    BY <1>5, <1>6, <2>6
<1> QED
  BY <1>8, <1>9

\* Every step of the cache keeps its bounds and the owners of its locks.
LEMMA CacheTypedStep ==
  ASSUME CacheTyped, [CacheNext]_cacheVars
  PROVE  CacheTyped'
<1>0. /\ clock \in 0..MaxClock /\ paid \in Nat
      /\ front \in BoundFront(paid) /\ file \in BoundFile(paid)
      /\ locks \in BoundPool /\ held \subseteq Locks
      /\ lookup \in [Lookups -> BoundRow(paid)] /\ deleter \in [Deleters -> DeleterAt]
      /\ MaxClock \in Nat /\ TTL \in Nat \ {0} /\ FrontTTL \in Nat \ {0}
      /\ LocksHaveOwners /\ OncePerLookup /\ CacheBounds
  BY CacheNumbers DEF CacheTyped, CacheBounds
<1>a. ASSUME NEW l \in Lookups
      PROVE  /\ lookup[l] \in BoundRow(paid)
             /\ lookup[l].at \in {"first", "checkout", "done"} => lookup[l].lock = 0
             /\ lookup[l].at \in {"await", "second", "compute", "write", "written", "mirror", "release"}
                  => lookup[l].lock # 0
  BY <1>0 DEF LocksHaveOwners
<1>b. NotCached \in BoundFront(paid)
  BY <1>0 DEF NotCached, BoundFront
<1>c. ASSUME NEW e \in Nat
      PROVE  FrontTTLFor(e) \in 0..FrontTTL /\ clock + FrontTTLFor(e) \in 0..(MaxClock + FrontTTL)
  <2>1. CASE e > clock
    <3>1. e - clock \in Nat /\ clock \in Nat
      BY <1>0, <2>1
    <3>2. FrontTTLFor(e) = IF e - clock < FrontTTL THEN e - clock ELSE FrontTTL
      BY <2>1 DEF FrontTTLFor
    <3>3. FrontTTLFor(e) \in 0..FrontTTL
      BY <1>0, <3>1, <3>2
    <3> QED
      BY <1>0, <3>3
  <2>2. CASE ~(e > clock)
    <3>1. FrontTTLFor(e) = FrontTTL
      BY <1>0, <2>2 DEF FrontTTLFor
    <3> QED
      BY <1>0, <3>1
  <2> QED
    BY <2>1, <2>2
\* A lookup that only goes elsewhere.
<1>d. ASSUME NEW l \in Lookups, NEW at \in LookupAt, LookupGoes(l, at),
             UNCHANGED <<clock, locks, held, deleter, paid>>,
             front' \in BoundFront(paid), file' \in BoundFile(paid),
             lookup[l].at \notin {"await", "done"}, at \notin {"first", "await"},
             at \in {"checkout", "done"} => lookup[l].lock = 0,
             at \in {"second", "compute", "write", "written", "mirror", "release"}
               => lookup[l].lock # 0,
             lookup[l].at \in {"write", "written", "mirror", "release"}
               => at \in {"write", "written", "mirror", "release", "done"}
      PROVE  CacheTyped'
  <2> DEFINE row == [lookup[l] EXCEPT !.at = at]
  <2>1. row \in BoundRow(paid) /\ row.at = at /\ row.lock = lookup[l].lock
    BY <1>a DEF BoundRow
  <2>2. lookup' = [lookup EXCEPT ![l] = row]
    BY <1>d DEF LookupGoes
  <2> HIDE DEF row
  <2> QED
    BY <1>d, <2>1, <2>2, QuietMove
<1>1. ASSUME NEW l \in Lookups, LookFront(l) PROVE CacheTyped'
  <2>1. /\ lookup[l].at \in {"first", "second"} /\ UNCHANGED <<clock, file, locks, held, deleter, paid>>
        /\ front' \in {front, NotCached}
        /\ \/ LookupGoes(l, Found(l))
           \/ LookupGoes(l, "sidecar")
    BY <1>1 DEF LookFront
  <2>2. /\ Found(l) \in LookupAt /\ "sidecar" \in LookupAt /\ Found(l) \notin {"first", "await"}
        /\ Found(l) \in {"checkout", "done"} => lookup[l].lock = 0
        /\ Found(l) \in {"second", "compute", "write", "written", "mirror", "release"}
             => lookup[l].lock # 0
    BY DEF Found, Second, LookupAt
  <2> QED
    BY <1>0, <1>b, <1>d, <2>1, <2>2
<1>2. ASSUME NEW l \in Lookups
      PROVE  /\ Missed(l) \in LookupAt /\ Missed(l) \notin {"first", "await"}
             /\ Missed(l) \in {"checkout", "done"} => lookup[l].lock = 0
             /\ Missed(l) \in {"second", "compute", "write", "written", "mirror", "release"}
                  => lookup[l].lock # 0
  BY DEF Missed, Second, LookupAt
<1>3. ASSUME NEW l \in Lookups, ReadSidecar(l) PROVE CacheTyped'
  <2>1. /\ lookup[l].at = "sidecar" /\ UNCHANGED <<clock, front, file, locks, held, deleter, paid>>
        /\ LookupGoes(l, Missed(l)) \/ LookupGoes(l, "unlink") \/ LookupGoes(l, "value")
    BY <1>3 DEF ReadSidecar
  <2>2. "unlink" \in LookupAt /\ "value" \in LookupAt
    BY DEF LookupAt
  <2> QED
    BY <1>0, <1>2, <1>d, <2>1, <2>2
<1>4. ASSUME NEW l \in Lookups, ReadValue(l) PROVE CacheTyped'
  <2> DEFINE at == IF file.value = 0 THEN "unlink" ELSE "deadline"
             row == [lookup[l] EXCEPT !.at = at, !.value = file.value]
  <2>1. /\ lookup[l].at = "value" /\ lookup' = [lookup EXCEPT ![l] = row]
        /\ UNCHANGED <<clock, front, file, locks, held, deleter, paid>>
    BY <1>4 DEF ReadValue
  <2>2. file.value \in 0..paid
    BY <1>0 DEF BoundFile
  <2>3. at \in {"unlink", "deadline"} /\ at \in LookupAt
    BY DEF LookupAt
  <2> HIDE DEF at
  <2>4. row \in BoundRow(paid) /\ row.at = at /\ row.lock = lookup[l].lock
    BY <1>a, <2>2, <2>3 DEF BoundRow
  <2> HIDE DEF row
  <2> QED
    BY <1>0, <2>1, <2>3, <2>4, QuietMove
<1>5. ASSUME NEW l \in Lookups, UnlinkValue(l) \/ UnlinkSidecar(l) PROVE CacheTyped'
  <2>1. /\ lookup[l].at \in {"unlink", "unlinked"} /\ UNCHANGED <<clock, front, locks, held, deleter, paid>>
        /\ LookupGoes(l, "unlinked") \/ LookupGoes(l, Missed(l))
        /\ file' = [file EXCEPT !.value = 0] \/ file' = [file EXCEPT !.meta = 0]
    BY <1>5 DEF UnlinkValue, UnlinkSidecar
  <2>2. file' \in BoundFile(paid) /\ "unlinked" \in LookupAt
    BY <1>0, <2>1 DEF BoundFile, LookupAt
  <2> QED
    BY <1>0, <1>2, <1>d, <2>1, <2>2
<1>6. ASSUME NEW l \in Lookups, Promote(l) PROVE CacheTyped'
  <2>1. /\ lookup[l].at = "deadline" /\ UNCHANGED <<clock, file, locks, held, deleter, paid>>
        /\ LookupGoes(l, Found(l))
        /\ front' = [value |-> lookup[l].value, expires |-> clock + FrontTTLFor(file.meta)]
    BY <1>6 DEF Promote
  <2>2. /\ Found(l) \in LookupAt /\ Found(l) \notin {"first", "await"}
        /\ Found(l) \in {"checkout", "done"} => lookup[l].lock = 0
        /\ Found(l) \in {"second", "compute", "write", "written", "mirror", "release"}
             => lookup[l].lock # 0
    BY DEF Found, Second, LookupAt
  <2>3. file.meta \in Nat /\ lookup[l].value \in 0..paid
    BY <1>0, <1>a DEF BoundFile, BoundRow
  <2>4. front' \in BoundFront(paid)
    BY <1>c, <2>1, <2>3 DEF BoundFront
  <2> QED
    BY <1>0, <1>d, <2>1, <2>2, <2>4
<1>7. ASSUME NEW l \in Lookups, Checkout(l) PROVE CacheTyped'
  <2> DEFINE entry == IF locks.loop = LoopOf[l] THEN locks.entry ELSE NoEntry
             lock  == IF entry.lock # 0 THEN entry.lock ELSE CHOOSE k \in Locks : k \notin UsedLocks
             row   == [lookup[l] EXCEPT !.at = "await", !.lock = lock]
             after == [loop |-> LoopOf[l], entry |-> [lock |-> lock, waiters |-> entry.waiters + 1]]
  <2>1. /\ lookup[l].at = "checkout" /\ lookup[l].lock = 0
        /\ UNCHANGED <<clock, front, file, held, deleter, paid>>
    BY <1>7, <1>a DEF Checkout
  <2>2. locks' = after /\ lookup' = [lookup EXCEPT ![l] = row]
    <3>1. locks' = after /\ lookup' = [lookup EXCEPT ![l].at = "await", ![l].lock = lock]
      BY <1>7, Zenon DEF Checkout
    <3> HIDE DEF lock, after
    <3> QED
      BY <3>1
  <2>3. entry \in [lock : {0} \cup Locks, waiters : Nat]
    BY <1>0 DEF BoundPool, NoEntry
  <2>4. entry.waiters <= Cardinality(Counted)
    <3>1. Cardinality(Counted) \in Nat
      BY LookupSets DEF Counted
    <3>2. locks.entry.waiters <= Cardinality(Counted)
      BY <1>0 DEF OncePerLookup
    <3> QED
      BY <3>1, <3>2 DEF NoEntry
  <2> HIDE DEF entry
  <2>5. lock \in Locks /\ lock # 0
    BY <2>1, <2>3, LockIsLeft DEF Locks
  <2> HIDE DEF lock
  <2>6. row \in BoundRow(paid) /\ row.at = "await" /\ row.lock = lock
    BY <1>a, <2>5 DEF BoundRow, LookupAt
  <2>7. after \in BoundPool /\ after.entry.lock = lock /\ after.entry.waiters = entry.waiters + 1
    BY <2>3, <2>5 DEF BoundPool
  <2> HIDE DEF row, after
  <2>8. /\ lookup' \in [Lookups -> BoundRow(paid)] /\ lookup'[l] = row
        /\ \A m \in Lookups \ {l} : lookup'[m] = lookup[m]
    <3>1. paid <= paid
      BY <1>0
    <3> QED
      BY <1>0, <2>2, <2>6, <3>1, RowGoes
  <2>9. CacheBounds'
    BY <1>0, <2>1, <2>2, <2>7, <2>8 DEF CacheBounds
  <2>10. LocksHaveOwners'
    <3>1. \A m \in Lookups : lookup[m].lock # 0 => lookup'[m] = lookup[m]
      BY <2>1, <2>8
    <3>2. \A k \in held' : \E m \in Lookups : lookup'[m].lock = k /\ lookup'[m].at # "await"
      <4> SUFFICES ASSUME NEW k \in held
                   PROVE  \E m \in Lookups : lookup'[m].lock = k /\ lookup'[m].at # "await"
        BY <2>1
      <4>1. k # 0
        BY <1>0 DEF Locks
      <4>2. PICK m \in Lookups : lookup[m].lock = k /\ lookup[m].at # "await"
        BY <1>0 DEF LocksHaveOwners
      <4> QED
        BY <3>1, <4>1, <4>2
    <3>3. locks'.entry.waiters # 0
      BY <2>2, <2>3, <2>7
    <3>4. lookup'[l].lock = locks'.entry.lock
      BY <2>2, <2>6, <2>7, <2>8
    <3>5. \A m \in Lookups :
            /\ lookup'[m].at \in {"first", "checkout", "done"} => lookup'[m].lock = 0
            /\ lookup'[m].at \in {"await", "second", "compute", "write", "written", "mirror", "release"}
                 => lookup'[m].lock # 0
      BY <1>0, <2>5, <2>6, <2>8 DEF LocksHaveOwners
    <3> QED
      BY <3>2, <3>3, <3>4, <3>5 DEF LocksHaveOwners
  <2>11. OncePerLookup'
    <3>1. Counted' = Counted \cup {l} /\ l \notin Counted
      BY <2>1, <2>5, <2>6, <2>8 DEF Counted
    <3>2. Past' = Past
      BY <2>1, <2>6, <2>8 DEF Past
    <3>3. Cardinality(Counted') = Cardinality(Counted) + 1 /\ Cardinality(Counted) \in Nat
      BY <3>1, LookupSets DEF Counted
    <3>4. locks'.entry.waiters = entry.waiters + 1 /\ entry.waiters \in Nat
      BY <2>2, <2>3, <2>7
    <3>5. locks'.entry.waiters <= Cardinality(Counted')
      BY <2>4, <3>3, <3>4
    <3> QED
      BY <1>0, <2>1, <3>2, <3>5 DEF OncePerLookup
  <2> QED
    BY <2>9, <2>10, <2>11 DEF CacheTyped
<1>8. ASSUME NEW l \in Lookups, Acquire(l) PROVE CacheTyped'
  <2> DEFINE row == [lookup[l] EXCEPT !.at = "second"]
  <2>1. /\ lookup[l].at = "await" /\ lookup[l].lock # 0
        /\ held' = held \cup {lookup[l].lock} /\ lookup' = [lookup EXCEPT ![l] = row]
        /\ UNCHANGED <<clock, front, file, locks, deleter, paid>>
    BY <1>8, <1>a DEF Acquire, LookupGoes
  <2>2. row \in BoundRow(paid) /\ row.at = "second" /\ row.lock = lookup[l].lock
    BY <1>a DEF BoundRow, LookupAt
  <2> HIDE DEF row
  <2>3. /\ lookup' \in [Lookups -> BoundRow(paid)] /\ lookup'[l] = row
        /\ \A m \in Lookups \ {l} : lookup'[m] = lookup[m]
    <3>1. paid <= paid
      BY <1>0
    <3> QED
      BY <1>0, <2>1, <2>2, <3>1, RowGoes
  <2>4. lookup[l].lock \in Locks
    BY <1>a, <2>1 DEF BoundRow
  <2>5. CacheBounds'
    BY <1>0, <2>1, <2>3, <2>4 DEF CacheBounds
  <2>6. LocksHaveOwners'
    <3>1. \A m \in Lookups : lookup'[m].lock = lookup[m].lock
      BY <2>2, <2>3
    <3>2. \A m \in Lookups : lookup[m].at = "done" => lookup'[m].at = "done"
      BY <2>1, <2>3
    <3>3. \A m \in Lookups : lookup[m].at # "await" => lookup'[m].at # "await"
      BY <2>2, <2>3
    <3>4. \A k \in held' : \E m \in Lookups : lookup'[m].lock = k /\ lookup'[m].at # "await"
      <4>1. lookup'[l].lock = lookup[l].lock /\ lookup'[l].at # "await"
        BY <2>2, <2>3
      <4> QED
        BY <1>0, <2>1, <3>1, <3>3, <4>1 DEF LocksHaveOwners
    <3>5. \A m \in Lookups :
            /\ lookup'[m].at \in {"first", "checkout", "done"} => lookup'[m].lock = 0
            /\ lookup'[m].at \in {"await", "second", "compute", "write", "written", "mirror", "release"}
                 => lookup'[m].lock # 0
      BY <1>0, <2>1, <2>2, <2>3 DEF LocksHaveOwners
    <3> QED
      BY <1>0, <2>1, <3>1, <3>2, <3>4, <3>5 DEF LocksHaveOwners
  <2>7. OncePerLookup'
    <3>1. locks'.entry.waiters \in Nat /\ locks'.entry.waiters <= locks.entry.waiters
      BY <1>0, <2>1 DEF BoundPool
    <3> QED
      BY <2>1, <2>2, <2>3, <3>1, CountsStand
  <2> QED
    BY <2>5, <2>6, <2>7 DEF CacheTyped
\* A lookup that is done forgets what it had.
<1>9. ASSUME NEW l \in Lookups, lookup' = [lookup EXCEPT ![l] = [LookupStart EXCEPT !.at = "done"]],
             paid' = paid
      PROVE  /\ lookup' \in [Lookups -> BoundRow(paid)] /\ lookup'[l].at = "done" /\ lookup'[l].lock = 0
             /\ \A m \in Lookups \ {l} : lookup'[m] = lookup[m]
  <2> DEFINE row == [LookupStart EXCEPT !.at = "done"]
  <2>1. row \in BoundRow(paid) /\ row.at = "done" /\ row.lock = 0
    BY <1>0 DEF LookupStart, BoundRow, LookupAt
  <2> HIDE DEF row
  <2>2. lookup' = [lookup EXCEPT ![l] = row]
    BY <1>9 DEF row
  <2>3. paid <= paid
    BY <1>0
  <2>4. /\ lookup' \in [Lookups -> BoundRow(paid)] /\ lookup'[l] = row
        /\ \A m \in Lookups \ {l} : lookup'[m] = lookup[m]
    BY <1>0, <2>1, <2>2, <2>3, RowGoes
  <2> QED
    BY <2>1, <2>4
<1>10. ASSUME NEW l \in Lookups, CancelWaiting(l) PROVE CacheTyped'
  <2>1. lookup[l].at = "await" /\ UNCHANGED <<clock, front, file, locks, held, deleter, paid>>
    BY <1>10 DEF CancelWaiting
  <2>2. /\ lookup' \in [Lookups -> BoundRow(paid)] /\ lookup'[l].at = "done" /\ lookup'[l].lock = 0
        /\ \A m \in Lookups \ {l} : lookup'[m] = lookup[m]
    BY <1>9, <1>10 DEF CancelWaiting
  <2>3. CacheBounds'
    BY <1>0, <2>1, <2>2 DEF CacheBounds
  <2>4. LocksHaveOwners'
    <3>1. \A k \in held : \E m \in Lookups : lookup'[m].lock = k /\ lookup'[m].at # "await"
      BY <1>0, <2>1, <2>2 DEF LocksHaveOwners
    <3>2. \A m \in Lookups :
            /\ lookup'[m].at \in {"first", "checkout", "done"} => lookup'[m].lock = 0
            /\ lookup'[m].at \in {"await", "second", "compute", "write", "written", "mirror", "release"}
                 => lookup'[m].lock # 0
      BY <1>0, <2>2 DEF LocksHaveOwners
    <3> QED
      BY <1>0, <2>1, <2>2, <3>1, <3>2 DEF LocksHaveOwners
  <2>5. OncePerLookup'
    <3>1. locks'.entry.waiters \in Nat /\ locks'.entry.waiters <= locks.entry.waiters
      BY <1>0, <2>1 DEF BoundPool
    <3> QED
      BY <2>1, <2>2, <3>1, CountsStand
  <2> QED
    BY <2>3, <2>4, <2>5 DEF CacheTyped
<1>11. /\ CheckedIn \in BoundPool
       /\ CheckedIn.entry.waiters \in Nat /\ CheckedIn.entry.waiters <= locks.entry.waiters
       /\ CheckedIn.entry.lock # 0
            => CheckedIn.entry.lock = locks.entry.lock /\ CheckedIn.entry.waiters # 0
  <2> DEFINE left == locks.entry.waiters - 1
             some == [locks.entry EXCEPT !.waiters = left]
  <2>0. /\ locks \in BoundPool /\ locks.entry \in [lock : {0} \cup Locks, waiters : Nat]
        /\ locks.entry.waiters \in Nat
    BY <1>0 DEF BoundPool
  <2>1. CASE locks.entry.lock = 0
    BY <2>0, <2>1 DEF CheckedIn
  <2>2. CASE locks.entry.lock # 0
    <3>1. left \in Nat /\ left <= locks.entry.waiters
      BY <1>0, <2>0, <2>2 DEF LocksHaveOwners
    <3>2. CheckedIn = [locks EXCEPT !.entry = IF left = 0 THEN NoEntry ELSE some]
      BY <2>2 DEF CheckedIn
    <3> HIDE DEF left
    <3>3. /\ some \in [lock : {0} \cup Locks, waiters : Nat]
          /\ some.lock = locks.entry.lock /\ some.waiters = left
      BY <2>0, <3>1
    <3>4. /\ NoEntry \in [lock : {0} \cup Locks, waiters : Nat]
          /\ NoEntry.lock = 0 /\ NoEntry.waiters = 0
      BY DEF NoEntry
    <3> HIDE DEF some
    <3>5. PICK e \in [lock : {0} \cup Locks, waiters : Nat] :
            CheckedIn = [locks EXCEPT !.entry = e] /\ e = IF left = 0 THEN NoEntry ELSE some
      BY <3>2, <3>3, <3>4
    <3>6. CheckedIn \in BoundPool /\ CheckedIn.entry = e
      BY <2>0, <3>5 DEF BoundPool
    <3> QED
      BY <2>0, <3>1, <3>3, <3>4, <3>5, <3>6
  <2> QED
    BY <2>1, <2>2
<1>12. ASSUME NEW l \in Lookups, Release(l) PROVE CacheTyped'
  <2>1. /\ lookup[l].at = "release" /\ UNCHANGED <<clock, front, file, deleter, paid>>
        /\ held' = held \ {lookup[l].lock} /\ locks' = CheckedIn
    BY <1>12 DEF Release
  <2>2. /\ lookup' \in [Lookups -> BoundRow(paid)] /\ lookup'[l].at = "done" /\ lookup'[l].lock = 0
        /\ \A m \in Lookups \ {l} : lookup'[m] = lookup[m]
    BY <1>9, <1>12 DEF Release
  <2>3. CacheBounds'
    BY <1>0, <1>11, <2>1, <2>2 DEF CacheBounds
  <2>4. LocksHaveOwners'
    <3>1. \A k \in held' : \E m \in Lookups : lookup'[m].lock = k /\ lookup'[m].at # "await"
      BY <1>0, <2>1, <2>2 DEF LocksHaveOwners
    <3>2. \A m \in Lookups :
            /\ lookup'[m].at \in {"first", "checkout", "done"} => lookup'[m].lock = 0
            /\ lookup'[m].at \in {"await", "second", "compute", "write", "written", "mirror", "release"}
                 => lookup'[m].lock # 0
      BY <1>0, <2>2 DEF LocksHaveOwners
    <3>3. locks'.entry.lock # 0 => locks'.entry.waiters # 0
      BY <1>11, <2>1
    <3> QED
      BY <2>2, <3>1, <3>2, <3>3 DEF LocksHaveOwners
  <2>5. OncePerLookup'
    BY <1>11, <2>1, <2>2, CountsStand
  <2> QED
    BY <2>3, <2>4, <2>5 DEF CacheTyped
<1>13. ASSUME NEW l \in Lookups, Compute(l) PROVE CacheTyped'
  <2>0. /\ lookup[l].at = "compute" /\ lookup[l].lock # 0
        /\ UNCHANGED <<clock, front, file, locks, held, deleter>>
    BY <1>13, <1>a DEF Compute
  <2>1. ASSUME LookupGoes(l, "release"), paid' = paid PROVE CacheTyped'
    <3>1. "release" \in LookupAt
      BY DEF LookupAt
    <3> QED
      BY <1>0, <1>d, <2>0, <2>1, <3>1
  <2>2. ASSUME paid' = paid + 1, lookup' = [lookup EXCEPT ![l].at = "write", ![l].value = paid + 1]
        PROVE  CacheTyped'
    <3> DEFINE n == paid + 1
               row == [lookup[l] EXCEPT !.at = "write", !.value = n]
    <3>1. n \in Nat /\ paid <= n /\ n \in 0..n
      BY <1>0
    <3>2. lookup' = [lookup EXCEPT ![l] = row] /\ paid' = n
      BY <2>2
    <3> HIDE DEF n
    <3>3. lookup[l] \in BoundRow(n)
      BY <1>0, <1>a, <3>1, BoundsGrow
    <3>4. row \in BoundRow(n) /\ row.at = "write" /\ row.lock = lookup[l].lock
      BY <3>1, <3>3 DEF BoundRow, LookupAt
    <3> HIDE DEF row
    <3>5. /\ lookup' \in [Lookups -> BoundRow(n)] /\ lookup'[l] = row
          /\ \A m \in Lookups \ {l} : lookup'[m] = lookup[m]
      BY <1>0, <3>1, <3>2, <3>4, RowGoes
    <3>6. CacheBounds'
      <4>1. front' \in BoundFront(n) /\ file' \in BoundFile(n)
        BY <1>0, <2>0, <3>1, BoundsGrow
      <4> QED
        BY <1>0, <2>0, <3>1, <3>2, <3>5, <4>1 DEF CacheBounds
    <3>7. LocksHaveOwners'
      <4>1. \A m \in Lookups : lookup'[m].lock = lookup[m].lock
        BY <3>4, <3>5
      <4>2. \A m \in Lookups : /\ lookup[m].at # "await" => lookup'[m].at # "await"
                               /\ lookup[m].at = "done" => lookup'[m].at = "done"
        BY <2>0, <3>4, <3>5
      <4>3. \A m \in Lookups :
              /\ lookup'[m].at \in {"first", "checkout", "done"} => lookup'[m].lock = 0
              /\ lookup'[m].at \in {"await", "second", "compute", "write", "written", "mirror",
                                    "release"} => lookup'[m].lock # 0
        BY <1>0, <2>0, <3>4, <3>5 DEF LocksHaveOwners
      <4> QED
        BY <1>0, <2>0, <4>1, <4>2, <4>3 DEF LocksHaveOwners
    <3>8. OncePerLookup'
      <4>1. Counted' = Counted
        BY <2>0, <3>4, <3>5 DEF Counted
      <4>2. Past' = Past \cup {l} /\ l \notin Past
        BY <2>0, <3>4, <3>5 DEF Past
      <4>3. Cardinality(Past') = Cardinality(Past) + 1 /\ Cardinality(Past) \in Nat
        BY <4>2, LookupSets DEF Past
      <4>4. paid' <= Cardinality(Past')
        BY <1>0, <2>2, <4>3 DEF OncePerLookup
      <4> QED
        BY <1>0, <2>0, <4>1, <4>4 DEF OncePerLookup
    <3> QED
      BY <3>6, <3>7, <3>8 DEF CacheTyped
  <2> QED
    BY <1>13, <2>1, <2>2 DEF Compute
<1>14. ASSUME NEW l \in Lookups, WriteValue(l) PROVE CacheTyped'
  <2> DEFINE u == clock + TTL
             row == [lookup[l] EXCEPT !.at = "written", !.until = u]
  <2>0. /\ lookup[l].at = "write" /\ lookup[l].lock # 0
        /\ UNCHANGED <<clock, front, locks, held, deleter, paid>>
        /\ file' = [file EXCEPT !.value = lookup[l].value] /\ lookup' = [lookup EXCEPT ![l] = row]
    BY <1>14, <1>a DEF WriteValue
  <2>1. u \in 0..(MaxClock + TTL)
    BY <1>0
  <2> HIDE DEF u
  <2>2. row \in BoundRow(paid) /\ row.at = "written" /\ row.lock = lookup[l].lock
    BY <1>a, <2>1 DEF BoundRow, LookupAt
  <2> HIDE DEF row
  <2>3. file' \in BoundFile(paid)
    BY <1>0, <1>a, <2>0 DEF BoundFile, BoundRow
  <2> QED
    BY <1>0, <2>0, <2>2, <2>3, QuietMove
<1>15. ASSUME NEW l \in Lookups, WriteSidecar(l) PROVE CacheTyped'
  <2> DEFINE row == [lookup[l] EXCEPT !.at = "mirror", !.until = 0]
  <2>0. /\ lookup[l].at = "written" /\ lookup[l].lock # 0
        /\ UNCHANGED <<clock, front, locks, held, deleter, paid>>
        /\ file' = [file EXCEPT !.meta = lookup[l].until] /\ lookup' = [lookup EXCEPT ![l] = row]
    BY <1>15, <1>a DEF WriteSidecar
  <2>1. row \in BoundRow(paid) /\ row.at = "mirror" /\ row.lock = lookup[l].lock
    <3>1. 0 \in 0..(MaxClock + TTL)
      BY CacheNumbers
    <3> QED
      BY <1>a, <3>1 DEF BoundRow, LookupAt
  <2> HIDE DEF row
  <2>2. file' \in BoundFile(paid)
    BY <1>0, <1>a, <2>0 DEF BoundFile, BoundRow
  <2> QED
    BY <1>0, <2>0, <2>1, <2>2, QuietMove
<1>16. ASSUME NEW l \in Lookups, Mirror(l) PROVE CacheTyped'
  <2>1. /\ lookup[l].at = "mirror" /\ lookup[l].lock # 0 /\ LookupGoes(l, "release")
        /\ UNCHANGED <<clock, file, locks, held, deleter, paid>>
        /\ front' = [value |-> lookup[l].value, expires |-> clock + FrontTTLFor(clock + TTL)]
    BY <1>16, <1>a DEF Mirror
  <2>2. clock + TTL \in Nat /\ lookup[l].value \in 0..paid /\ "release" \in LookupAt
    BY <1>0, <1>a DEF BoundRow, LookupAt
  <2>3. front' \in BoundFront(paid)
    BY <1>c, <2>1, <2>2 DEF BoundFront
  <2> QED
    BY <1>0, <1>d, <2>1, <2>2, <2>3
\* What no lookup does.
<1>17. ASSUME UNCHANGED <<locks, held, lookup, paid>>, CacheBounds' PROVE CacheTyped'
  BY <1>0, <1>17 DEF CacheTyped, LocksHaveOwners, OncePerLookup, Counted, Past
<1>18. ASSUME NEW d \in Deleters, Delete(d) PROVE CacheTyped'
  <2>1. /\ UNCHANGED <<clock, locks, held, lookup, paid>>
        /\ deleter[d] \in {"idle", "value", "sidecar"}
        /\ deleter' = [deleter EXCEPT ![d] =
             CASE deleter[d] = "idle" -> "value" [] deleter[d] = "value" -> "sidecar"
               [] deleter[d] = "sidecar" -> "done"]
        /\ front' \in {front, NotCached}
        /\ \/ file' = file \/ file' = [file EXCEPT !.value = 0] \/ file' = [file EXCEPT !.meta = 0]
    BY <1>18 DEF Delete
  <2>2. deleter' \in [Deleters -> DeleterAt]
    BY <1>0, <2>1 DEF DeleterAt
  <2>3. file' \in BoundFile(paid)
    BY <1>0, <2>1 DEF BoundFile
  <2> QED
    BY <1>0, <1>b, <1>17, <2>1, <2>2, <2>3 DEF CacheBounds
<1>19. CASE Clock
  <2>1. clock' \in 0..MaxClock /\ UNCHANGED <<front, file, locks, held, lookup, deleter, paid>>
    BY <1>0, <1>19 DEF Clock
  <2> QED
    BY <1>0, <1>17, <2>1 DEF CacheBounds
<1>20. CASE Evict
  <2>1. front' = NotCached /\ UNCHANGED <<clock, file, locks, held, lookup, deleter, paid>>
    BY <1>20 DEF Evict
  <2> QED
    BY <1>0, <1>b, <1>17, <2>1 DEF CacheBounds
<1>21. CASE UNCHANGED cacheVars
  <2>1. UNCHANGED <<clock, front, file, locks, held, lookup, deleter, paid>>
    BY <1>21 DEF cacheVars
  <2> QED
    BY <1>0, <1>17, <2>1 DEF CacheBounds
<1> QED
  BY <1>1, <1>3, <1>4, <1>5, <1>6, <1>7, <1>8, <1>10, <1>12, <1>13, <1>14, <1>15, <1>16, <1>18,
     <1>19, <1>20, <1>21
  DEF CacheNext, GetOrSet, Get, Set

\* Any number of coroutines of any loops keep the lock pool and the count of its waiters
\* in bounds: there is always a lock to hand out that nobody uses, each lookup is counted
\* in at most once, and no more is computed than there are lookups.
THEOREM CacheTypes == CacheSpec => []CacheTypeOK
<1>1. CacheInit => CacheTyped
  <2> SUFFICES ASSUME CacheInit PROVE CacheTyped
    OBVIOUS
  <2>1. /\ \A l \in Lookups : lookup[l] = LookupStart
        /\ LookupStart.lock = 0 /\ LookupStart.at = "first"
    BY DEF CacheInit, LookupStart
  <2>2. /\ MaxClock \in Nat /\ TTL \in Nat /\ FrontTTL \in Nat
        /\ 0 \in 0..MaxClock /\ 0 \in 0..0 /\ 0 \in 0..(MaxClock + TTL) /\ 0 \in 0..(MaxClock + FrontTTL)
    BY CacheNumbers
  <2>3. LookupStart \in BoundRow(0) /\ NotCached \in BoundFront(0)
        /\ NoEntry \in [lock : {0} \cup Locks, waiters : Nat]
    BY <2>2 DEF LookupStart, NotCached, NoEntry, BoundRow, BoundFront, LookupAt
  <2>4. file \in BoundFile(0) /\ locks \in BoundPool
    BY <2>2, <2>3 DEF CacheInit, BoundFile, BoundPool
  <2>5. CacheBounds
    BY <2>1, <2>2, <2>3, <2>4 DEF CacheInit, CacheBounds, DeleterAt
  <2>6. LocksHaveOwners
    BY <2>1 DEF CacheInit, LocksHaveOwners, NoEntry
  <2>7. Cardinality(Counted) \in Nat /\ Cardinality(Past) \in Nat
    BY LookupSets DEF Counted, Past
  <2>8. OncePerLookup
    BY <2>7 DEF CacheInit, OncePerLookup, NoEntry
  <2> QED
    BY <2>5, <2>6, <2>8 DEF CacheTyped
<1>2. CacheTyped /\ [CacheNext]_cacheVars => CacheTyped'
  BY CacheTypedStep
<1>3. CacheTyped => CacheTypeOK
  <2> SUFFICES ASSUME CacheTyped PROVE CacheTypeOK
    OBVIOUS
  <2>0. CacheBounds /\ OncePerLookup /\ paid \in Nat
    BY DEF CacheTyped, CacheBounds
  <2>1. Cardinality(Counted) <= Cardinality(Lookups) /\ Cardinality(Past) <= Cardinality(Lookups)
        /\ Cardinality(Counted) \in Nat /\ Cardinality(Past) \in Nat /\ Cardinality(Lookups) \in Nat
    BY LookupSets, CacheNumbers DEF Counted, Past
  <2>2. /\ locks.entry \in [lock : {0} \cup Locks, waiters : Nat]
        /\ locks.loop \in {LoopOf[l] : l \in Lookups} \cup {"none"}
    BY <2>0 DEF CacheBounds, BoundPool
  <2>3. paid \in 0..Cardinality(Lookups) /\ locks.entry.waiters \in 0..Cardinality(Lookups)
    BY <2>0, <2>1, <2>2 DEF OncePerLookup
  <2>4. locks.entry \in [lock : {0} \cup Locks, waiters : 0..Cardinality(Lookups)]
    BY <2>2, <2>3
  <2>5. BoundRow(paid) \subseteq BoundRow(Cardinality(Lookups))
    BY <2>0, <2>1, <2>3, BoundsGrow
  <2>6. lookup \in [Lookups -> BoundRow(Cardinality(Lookups))]
    BY <2>0, <2>5 DEF CacheBounds
  <2>7. /\ {front.value, file.value} \subseteq 0..paid
        /\ front.expires \in 0..(MaxClock + FrontTTL) /\ file.meta \in 0..(MaxClock + TTL)
    BY <2>0 DEF CacheBounds, BoundFront, BoundFile
  <2> QED
    BY <2>0, <2>2, <2>3, <2>4, <2>6, <2>7 DEF CacheTypeOK, CacheBounds, BoundRow, LookupAt, DeleterAt
<1> QED
  BY <1>1, <1>2, <1>3, PTL DEF CacheSpec
=============================================================================
