---------------------------- MODULE InlineExecutor ----------------------------
(***************************************************************************)
(* The pool of threads that runs tasks inside the API process when no      *)
(* Celery worker consumes the queues: callers that submit, the drain       *)
(* threads, and the one shutdown of the application.  Pools are objects:   *)
(* a caller may still hold one the module has already let go of.  Each     *)
(* step below is what happens between two points where another thread can  *)
(* be scheduled: a lock, the latch, the flag and the queue are atomic.     *)
(***************************************************************************)
EXTENDS Naturals, Sequences, FiniteSets, SequencesExt

CONSTANTS
  Callers,    \* the submissions; each carries one job, named after it
  Pools,      \* bound: 1..Pools pool objects are ever created
  Drains,     \* bound: 1..Drains threads are ever started, one per start of a pool
  QueueSize   \* inline_task_queue_size

ASSUME ExecAssumption ==
  /\ {Pools, Drains, QueueSize} \subseteq Nat \ {0}
  /\ "stop" \notin Callers

VARIABLES
  latch,    \* _shutting_down
  current,  \* _executor, 0 for None
  pool,     \* each pool's _threads, _stopping and _queue
  drain,    \* each thread: its pool, where it is in _drain, the job it holds
  caller,   \* each submission: where it is, the pool it holds
  closing,  \* shutdown_executor: where it is, its pool and the threads it joins
  ran       \* how often each job has been executed

execVars == <<latch, current, pool, drain, caller, closing, ran>>

Stop == "stop"
NewPool == [threads |-> {}, stopping |-> FALSE, queue |-> <<>>]
Unborn == [of |-> 0, at |-> "unborn", job |-> Stop]

ExecInit ==
  /\ latch = FALSE
  /\ current = 0
  /\ pool = [e \in 1..Pools |-> NewPool]
  /\ drain = [t \in 1..Drains |-> Unborn]
  /\ caller = [c \in Callers |-> [at |-> "idle", pool |-> 0]]
  /\ closing = [at |-> "up", pool |-> 0, threads |-> {}]
  /\ ran = [c \in Callers |-> 0]

Spare == {t \in 1..Drains : drain[t] = Unborn}
Used == {e \in 1..Pools : \E t \in 1..Drains : drain[t].of = e}

\* InlineExecutor.start, under the pool's lock.  It looks at the list, not at
\* whether the listed threads are alive.
StartPool(e) ==
  IF pool[e].threads # {} THEN UNCHANGED <<pool, drain>>
  ELSE \E t \in Spare :
         /\ \A u \in Spare : t <= u
         /\ drain' = [drain EXCEPT ![t] = [of |-> e, at |-> "check", job |-> Stop]]
         /\ pool' = [pool EXCEPT ![e].stopping = FALSE, ![e].threads = {t}]

-----------------------------------------------------------------------------
(* submit_inline. *)

\* get_executor: the latch, read before the lock is taken.
SubmitCheck(c) ==
  /\ caller[c].at = "idle"
  /\ caller' = [caller EXCEPT ![c].at = IF latch THEN "refused" ELSE "checked"]
  /\ UNCHANGED <<latch, current, pool, drain, closing, ran>>

\* ... and the pool, created if there is none, started in any case.
SubmitGet(c) ==
  /\ caller[c].at = "checked"
  /\ LET fresh == {e \in 1..Pools : e \notin Used}
     IN  \E e \in IF current = 0 THEN fresh ELSE {current} :
           /\ \A f \in fresh : current = 0 => e <= f
           /\ current' = e
           /\ StartPool(e)
           /\ caller' = [caller EXCEPT ![c] = [at |-> "got", pool |-> e]]
  /\ UNCHANGED <<latch, closing, ran>>

\* InlineExecutor.submit starts the pool once more ...
SubmitStart(c) ==
  /\ caller[c].at = "got"
  /\ StartPool(caller[c].pool)
  /\ caller' = [caller EXCEPT ![c].at = "started"]
  /\ UNCHANGED <<latch, current, closing, ran>>

\* ... and queues the job without blocking.
SubmitPut(c) ==
  /\ caller[c].at = "started"
  /\ LET e == caller[c].pool
     IN  IF Len(pool[e].queue) < QueueSize
         THEN /\ pool' = [pool EXCEPT ![e].queue = Append(@, c)]
              /\ caller' = [caller EXCEPT ![c].at = "accepted"]
         ELSE /\ caller' = [caller EXCEPT ![c].at = "refused"]
              /\ UNCHANGED pool
  /\ UNCHANGED <<latch, current, drain, closing, ran>>

(* _drain, one thread. *)

DrainCheck(t) ==
  /\ drain[t].at = "check"
  /\ drain' = [drain EXCEPT ![t].at = IF pool[drain[t].of].stopping THEN "dead" ELSE "get"]
  /\ UNCHANGED <<latch, current, pool, caller, closing, ran>>

\* Mutant of DrainTake: the stop flag is looked at after the item was taken.
DrainTakeThenCheck(t) ==
  /\ drain[t].at = "get"
  /\ LET e == drain[t].of
         q == pool[e].queue
     IN  /\ q # <<>>
         /\ pool' = [pool EXCEPT ![e].queue = Tail(q)]
         /\ drain' = [drain EXCEPT ![t].job = Head(q),
                        ![t].at = IF Head(q) = Stop \/ pool[e].stopping THEN "dead" ELSE "run"]
  /\ UNCHANGED <<latch, current, caller, closing, ran>>

\* Mutant of DrainTake: a thread that finds the queue empty is done.
DrainTakeOnce(t) ==
  /\ drain[t].at = "get"
  /\ LET e == drain[t].of
         q == pool[e].queue
     IN  IF q = <<>>
         THEN drain' = [drain EXCEPT ![t].at = "dead"] /\ UNCHANGED pool
         ELSE /\ pool' = [pool EXCEPT ![e].queue = Tail(q)]
              /\ drain' = [drain EXCEPT ![t].job = Head(q),
                                        ![t].at = IF Head(q) = Stop THEN "dead" ELSE "run"]
  /\ UNCHANGED <<latch, current, caller, closing, ran>>

\* The next item, or another look at the flag when there is none for a while.
DrainTake(t) ==
  /\ drain[t].at = "get"
  /\ LET e == drain[t].of
         q == pool[e].queue
     IN  IF q = <<>>
         THEN drain' = [drain EXCEPT ![t].at = "check"] /\ UNCHANGED pool
         ELSE /\ pool' = [pool EXCEPT ![e].queue = Tail(q)]
              /\ drain' = [drain EXCEPT ![t].job = Head(q),
                                        ![t].at = IF Head(q) = Stop THEN "dead" ELSE "run"]
  /\ UNCHANGED <<latch, current, caller, closing, ran>>

\* _execute: an exception inside the task ends the job, never the thread.
DrainRun(t) ==
  /\ drain[t].at = "run"
  /\ ran' = [ran EXCEPT ![drain[t].job] = @ + 1]
  /\ drain' = [drain EXCEPT ![t].at = "check", ![t].job = Stop]
  /\ UNCHANGED <<latch, current, pool, caller, closing>>

(* shutdown_executor, once. *)

CloseLatch ==
  /\ closing.at = "up"
  /\ latch' = TRUE
  /\ closing' = [closing EXCEPT !.at = "latched"]
  /\ UNCHANGED <<current, pool, drain, caller, ran>>

CloseSwap ==
  /\ closing.at = "latched"
  /\ current' = 0
  /\ closing' = [closing EXCEPT !.pool = current, !.at = IF current = 0 THEN "down" ELSE "swapped"]
  /\ UNCHANGED <<latch, pool, drain, caller, ran>>

CloseTake ==
  /\ closing.at = "swapped"
  /\ LET ts == pool[closing.pool].threads
     IN  /\ closing' = [closing EXCEPT !.threads = ts, !.at = IF ts = {} THEN "down" ELSE "taken"]
         /\ pool' = [pool EXCEPT ![closing.pool].threads = {}]
  /\ UNCHANGED <<latch, current, drain, caller, ran>>

\* The flag, outside the lock, then one stop marker per thread if the queue takes it.
CloseFlag ==
  /\ closing.at = "taken"
  /\ pool' = [pool EXCEPT ![closing.pool].stopping = TRUE]
  /\ closing' = [closing EXCEPT !.at = "flagged"]
  /\ UNCHANGED <<latch, current, drain, caller, ran>>

ClosePoison ==
  /\ closing.at = "flagged"
  /\ LET q == pool[closing.pool].queue
     IN  pool' = [pool EXCEPT ![closing.pool].queue =
                    IF Len(q) < QueueSize THEN Append(q, Stop) ELSE q]
  /\ closing' = [closing EXCEPT !.at = "joining"]
  /\ UNCHANGED <<latch, current, drain, caller, ran>>

\* The join: the threads are dead, or the grace period is over.
CloseJoin ==
  /\ closing.at = "joining"
  /\ closing' = [closing EXCEPT !.at = "down"]
  /\ UNCHANGED <<latch, current, pool, drain, caller, ran>>

-----------------------------------------------------------------------------
DrainSteps(t) == DrainCheck(t) \/ DrainTake(t) \/ DrainRun(t)
SubmitSteps(c) == SubmitCheck(c) \/ SubmitGet(c) \/ SubmitStart(c) \/ SubmitPut(c)

ExecNext ==
  \/ \E c \in Callers : SubmitSteps(c)
  \/ \E t \in 1..Drains : DrainSteps(t)
  \/ CloseLatch \/ CloseSwap \/ CloseTake \/ CloseFlag \/ ClosePoison \/ CloseJoin

ExecSpec == ExecInit /\ [][ExecNext]_execVars

\* Threads are scheduled, and every job comes to an end (no limit enforces it).
ExecFairSpec == ExecSpec /\ \A t \in 1..Drains : WF_execVars(DrainSteps(t))
-----------------------------------------------------------------------------
ExecTypeOK ==
  /\ latch \in BOOLEAN
  /\ current \in 0..Pools
  /\ \A e \in 1..Pools :
       /\ pool[e].threads \subseteq 1..Drains
       /\ pool[e].stopping \in BOOLEAN
       /\ Len(pool[e].queue) <= QueueSize
       /\ ToSet(pool[e].queue) \subseteq Callers \cup {Stop}
  /\ drain \in [1..Drains -> [of : 0..Pools, at : {"unborn", "check", "get", "run", "dead"},
                              job : Callers \cup {Stop}]]
  /\ caller \in [Callers -> [at : {"idle", "checked", "got", "started", "accepted", "refused"},
                             pool : 0..Pools]]
  /\ closing \in [at : {"up", "latched", "swapped", "taken", "flagged", "joining", "down"},
                  pool : 0..Pools, threads : SUBSET (1..Drains)]
  /\ ran \in [Callers -> Nat]

Waiting(c) == \E e \in 1..Pools : c \in ToSet(pool[e].queue)
Executing(c) == \E t \in 1..Drains : drain[t].at = "run" /\ drain[t].job = c

\* A job that was accepted is in exactly one place, through every shutdown, restart and
\* stale stop marker: waiting, being executed, or executed, once.  What was refused is
\* nowhere (InlineExecutor.submit: True when queued).
JobsAreConserved ==
  \A c \in Callers :
    Cardinality({e \in 1..Pools : c \in ToSet(pool[e].queue)})
      + Cardinality({t \in 1..Drains : drain[t].at = "run" /\ drain[t].job = c})
      + ran[c]
    = IF caller[c].at = "accepted" THEN 1 ELSE 0

\* While the application is up, what was accepted is executed.
AcceptedIsExecuted ==
  \A c \in Callers : caller[c].at = "accepted" ~> ran[c] > 0 \/ latch

\* "a late submission cannot rebuild the pool while the application is stopping"
\* (inline.py 395-396): once the application has stopped, no pool has threads.
StaysDown == closing.at = "down" => \A e \in 1..Pools : pool[e].threads = {}
=============================================================================
