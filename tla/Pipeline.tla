------------------------------- MODULE Pipeline -------------------------------
(***************************************************************************)
(* The whole journey of an application: the requests people and the run    *)
(* loop make, the task queue between them and the workers, Pipeline.       *)
(* prepare in front of the submission ladder, and the review queue behind  *)
(* it.  The ladder, the rows and their two ways of being written are those *)
(* of Submission; here the rows also come into existence and come back to  *)
(* `ready`, which the ladder alone never does to them.                     *)
(***************************************************************************)
EXTENDS Submission

CONSTANTS
  Desks,         \* the requests the API serves at the same time
  PatchTargets,  \* the statuses PATCH /applications/{id} is asked for
  MaxAsks,       \* bound: requests for one application
  MaxQueue,      \* bound: copies of one message on the queue
  MaxRedelivered \* bound: messages delivered a second time

ASSUME DesksAssumption == IsFiniteSet(Desks)
ASSUME PatchAssumption == PatchTargets \subseteq Status
ASSUME BoundsAssumption == MaxAsks \in Nat /\ MaxQueue \in Nat /\ MaxRedelivered \in Nat

VARIABLES
  queue,    \* how many copies of each message wait
  desk,     \* the request each desk serves, with its in-memory copy of the row
  asks,     \* how often somebody asked something of each application
  redelivered, \* how many messages outlived the worker that took them
  readied   \* how often each row was written `ready`

pipelineVars == <<vars, queue, desk, asks, redelivered, readied>>

-----------------------------------------------------------------------------
Message == [kind : Kinds, app : Apps, requeued : BOOLEAN]
Submit(a, requeued) == [kind |-> "submit", app |-> a, requeued |-> requeued]
Prepare(a) == [kind |-> "prepare", app |-> a, requeued |-> FALSE]
RunOne(a, requeued) == [kind |-> "run_one", app |-> a, requeued |-> requeued]

\* tasks.dispatch and celery_app.enqueue: one executor gets the message.
Enqueue(m) == queue' = [queue EXCEPT ![m] = IF @ < MaxQueue THEN @ + 1 ELSE @]

\* The steps of Pipeline.prepare, then the hand-over to the ladder.
PrepareSteps == {"create", "begin", "generate", "handover"}

PipelineTask == [step : Steps \cup PrepareSteps, kind : Kinds, app : Apps,
                 requeued : BOOLEAN, copy : Status \cup {NoRow},
                 reported : Reported \cup {"none"}]

FreshTask(m) == [Idle EXCEPT !.step = IF m.kind = "submit" THEN "load" ELSE "create",
                             !.kind = m.kind, !.app = m.app, !.requeued = m.requeued]

Free == [what |-> "free", app |-> NoApp, copy |-> NoRow]
Request == [what : {"resolve", "dismiss"} \cup PatchTargets, app : Apps, copy : Status]

CountReady(a, target) ==
  readied' = IF target = "ready" THEN [readied EXCEPT ![a] = @ + 1] ELSE readied

-----------------------------------------------------------------------------
PipelineInit ==
  /\ status = [a \in Apps |-> NoRow]
  /\ stamped = {}
  /\ run = "running"
  /\ completed = 0
  /\ task = [w \in Workers |-> Idle]
  /\ sends = [a \in Apps |-> 0]
  /\ queue = [m \in Message |-> 0]
  /\ desk = [d \in Desks |-> Free]
  /\ asks = [a \in Apps |-> 0]
  /\ redelivered = 0
  /\ readied = [a \in Apps |-> 0]

(* Who asks for an application. *)

Ask(a) ==
  /\ asks[a] < MaxAsks
  /\ asks' = [asks EXCEPT ![a] = @ + 1]

AskFor(m) ==
  /\ Ask(m.app)
  /\ Enqueue(m)
  /\ UNCHANGED <<vars, desk, redelivered, readied>>

\* POST /postings/{id}/apply.
ApplyRequest(a) == AskFor(RunOne(a, FALSE))

\* POST /applications/{id}/retry: refused once sent or finished.
RetryRequest(a) ==
  /\ status[a] # NoRow
  /\ CanSubmit(status[a])
  /\ AskFor(RunOne(a, TRUE))

\* run_loop._tick: candidates are the postings that have no application yet.
RunLoopDispatch(a) ==
  /\ run = "running"
  /\ Mode # "off"
  /\ a \in RunApps
  /\ status[a] = NoRow
  /\ AskFor(Prepare(a))

\* jobs.poll_provider and jobs.score_posting: the scheduler's own discovery, outside
\* any run, fans the postings without an application out the same way.
DiscoveryDispatch(a) ==
  /\ Mode # "off"
  /\ a \notin RunApps
  /\ status[a] = NoRow
  /\ AskFor(Prepare(a))

(* The worker's side of the queue. *)

\* A worker takes a message.  One whose worker dies before acknowledging it is
\* delivered again, so with "kill" a message may stay behind.
Take(w) ==
  /\ task[w] = Idle
  /\ \E m \in Message :
       /\ queue[m] > 0
       /\ task' = [task EXCEPT ![w] = FreshTask(m)]
       /\ \/ queue' = [queue EXCEPT ![m] = @ - 1] /\ UNCHANGED redelivered
          \/ /\ "kill" \in Faults
             /\ redelivered < MaxRedelivered
             /\ redelivered' = redelivered + 1
             /\ UNCHANGED queue
  /\ UNCHANGED <<status, stamped, run, completed, sends, desk, asks, readied>>

\* The run is halting, or the posting scores below the floor: nothing is created.
Refuse(w) ==
  /\ task[w].step = "create"
  /\ \/ task[w].kind = "prepare" /\ Halting(task[w].app)
     \/ task[w].kind = "run_one"
  /\ Finish(w)
  /\ UNCHANGED <<status, stamped, run, completed, sends, queue, desk, asks, redelivered, readied>>

\* Mutant of Create: an upsert that starts an existing row over.
CreateAnew(w) ==
  /\ task[w].step = "create"
  /\ ~(task[w].kind = "prepare" /\ Halting(task[w].app))
  /\ status' = [status EXCEPT ![task[w].app] = "draft"]
  /\ task' = [task EXCEPT ![w].copy = "draft", ![w].step = "begin"]
  /\ UNCHANGED <<stamped, run, completed, sends, queue, desk, asks, redelivered, readied>>

\* create_or_get, whose SAVEPOINT turns a lost race into the winner's row, and the
\* no-op guard of prepare.
Create(w) ==
  /\ task[w].step = "create"
  /\ ~(task[w].kind = "prepare" /\ Halting(task[w].app))
  /\ LET a == task[w].app
         row == IF status[a] = NoRow THEN "draft" ELSE status[a]
     IN  /\ status' = [status EXCEPT ![a] = row]
         /\ task' = [task EXCEPT ![w].copy = row,
                       ![w].step = IF row \in Preparable THEN "begin" ELSE "handover"]
  /\ UNCHANGED <<stamped, run, completed, sends, queue, desk, asks, redelivered, readied>>

\* transition(PREPARING), from the copy.
BeginPreparing(w) ==
  /\ task[w].step = "begin"
  /\ Blind(task[w].app, task[w].copy, "preparing")
  /\ task' = [task EXCEPT ![w].copy = "preparing", ![w].step = "generate"]
  /\ UNCHANGED <<run, completed, sends, queue, desk, asks, redelivered, readied>>

\* Tailor and render: ready, parked for want of knowledge or for untrusted
\* content, or failed.
Generate(w) ==
  /\ task[w].step = "generate"
  /\ \E outcome \in {"ready", "needs_review", "failed"} :
       /\ Blind(task[w].app, task[w].copy, outcome)
       /\ CountReady(task[w].app, outcome)
       /\ task' = [task EXCEPT ![w].copy = outcome, ![w].step = "handover"]
  /\ UNCHANGED <<run, completed, sends, queue, desk, asks, redelivered>>

\* apply.prepare enqueues apply.submit; run_one climbs the ladder in the same unit
\* of work, so rung 1 reads the copy prepare left.
Handover(w) ==
  /\ task[w].step = "handover"
  /\ LET ready == task[w].copy = "ready"
     IN  IF task[w].kind = "prepare"
         THEN /\ IF ready /\ Mode # "off"
                 THEN Enqueue(Submit(task[w].app, FALSE))
                 ELSE UNCHANGED queue
              /\ Finish(w)
         ELSE /\ IF ready THEN Goto(w, "halt") ELSE Finish(w)
              /\ UNCHANGED queue
  /\ UNCHANGED <<status, stamped, run, completed, sends, desk, asks, redelivered, readied>>

\* The process dies, or the preparation is cancelled: the row stays where it is.
Die(w) ==
  /\ \/ "kill" \in Faults /\ task[w] # Idle
     \/ "cancel" \in Faults /\ task[w].step \in PrepareSteps
  /\ Finish(w)
  /\ UNCHANGED <<status, stamped, run, completed, sends, queue, desk, asks, redelivered, readied>>

(* The review queue and the application screen. *)

\* A request loads the row; resolve refuses one that is not parked.
OpenRequest(d) ==
  /\ desk[d] = Free
  /\ \E r \in Request :
       /\ r.copy = status[r.app]
       /\ r.what = "resolve" => r.copy = "needs_review"
       /\ Ask(r.app)
       /\ desk' = [desk EXCEPT ![d] = r]
  /\ UNCHANGED <<vars, queue, redelivered, readied>>

\* ... and writes it after embedding the lesson, from the copy.  The route then
\* dispatches a resolved application.  What the state machine refuses is dropped.
CloseRequest(d) ==
  /\ desk[d] # Free
  /\ LET r == desk[d]
         target == CASE r.what = "resolve" -> "ready"
                     [] r.what = "dismiss" -> "abandoned"
                     [] OTHER -> r.what
     IN  IF CanTransition(r.copy, target)
         THEN /\ Blind(r.app, r.copy, target)
              /\ CountReady(r.app, target)
              /\ IF r.what = "resolve"
                 THEN Enqueue(Submit(r.app, TRUE)) ELSE UNCHANGED queue
         ELSE UNCHANGED <<status, stamped, queue, readied>>
  /\ desk' = [desk EXCEPT ![d] = Free]
  /\ UNCHANGED <<run, completed, task, sends, asks, redelivered>>

-----------------------------------------------------------------------------
Preparing(w) ==
  Refuse(w) \/ Create(w) \/ BeginPreparing(w) \/ Generate(w) \/ Handover(w)

\* Mutant of Climbing: a failed submission is queued again by itself.
ClimbingRetries(w) ==
  /\ Ladder(w) \/ RenderError(w) \/ Cancel(w) \/ CancelLate(w)
  /\ IF task[w].step = "count" /\ FinalTarget(task[w].reported) = "failed"
     THEN Enqueue(RunOne(task[w].app, TRUE)) ELSE UNCHANGED queue
  /\ UNCHANGED <<desk, asks, redelivered, readied>>

Climbing(w) ==
  /\ Ladder(w) \/ RenderError(w) \/ Cancel(w) \/ CancelLate(w)
  /\ UNCHANGED <<queue, desk, asks, redelivered, readied>>

RunStops ==
  /\ StopRequested \/ RunEnds
  /\ UNCHANGED <<queue, desk, asks, redelivered, readied>>

PipelineNext ==
  \/ \E a \in Apps : ApplyRequest(a) \/ RetryRequest(a)
                    \/ RunLoopDispatch(a) \/ DiscoveryDispatch(a)
  \/ \E w \in Workers : Take(w) \/ Preparing(w) \/ Climbing(w) \/ Die(w)
  \/ \E d \in Desks : OpenRequest(d) \/ CloseRequest(d)
  \/ RunStops

PipelineSpec == PipelineInit /\ [][PipelineNext]_pipelineVars

-----------------------------------------------------------------------------
PipelineTypeOK ==
  /\ status \in [Apps -> Status \cup {NoRow}]
  /\ stamped \subseteq Apps
  /\ run \in {"running", "stopping", "ended"}
  /\ completed \in Nat
  /\ task \in [Workers -> PipelineTask \cup {Idle}]
  /\ sends \in [Apps -> Nat]
  /\ queue \in [Message -> 0 .. MaxQueue]
  /\ desk \in [Desks -> Request \cup {Free}]
  /\ asks \in [Apps -> 0 .. MaxAsks]
  /\ redelivered \in 0 .. MaxRedelivered
  /\ readied \in [Apps -> Nat]

\* What the claim guarantees however many tasks, retries and people interfere:
\* every send, every claim still held and the row's own readiness each account for
\* one time somebody wrote the row `ready`.
EverySendWasReadied ==
  \A a \in Apps :
    sends[a] + Cardinality(Holders(a)) + (IF status[a] = "ready" THEN 1 ELSE 0)
      <= readied[a]

\* Nothing is sent more often than somebody asked for it: an escalation is "never
\* retried automatically" (ApplicationService.mark_needs_review).
NeverUnasked == \A a \in Apps : sends[a] <= asks[a]

=============================================================================
