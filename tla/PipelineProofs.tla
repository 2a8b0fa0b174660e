---------------------------- MODULE PipelineProofs ----------------------------
(***************************************************************************)
(* Theorems about Pipeline: the whole journey of an application, for any   *)
(* set of applications, any number of workers and of requests served at    *)
(* the same time, any bounds, every mode and every combination of faults.  *)
(***************************************************************************)
EXTENDS Pipeline, FiniteSetTheorems, TLAPS

-----------------------------------------------------------------------------
(* What is known of the task a worker stands in. *)

AllSteps == Steps \cup PrepareSteps

\* A worker that stands at one of the steps is working on a task.
LEMMA AtWork ==
  ASSUME PipelineTypeOK, NEW w \in Workers, task[w].step \in AllSteps
  PROVE  /\ task[w] \in PipelineTask
         /\ task[w].app \in Apps /\ task[w].kind \in Kinds
         /\ task[w].requeued \in BOOLEAN
         /\ task[w].copy \in Status \cup {NoRow}
         /\ task[w].reported \in Reported \cup {"none"}
BY DEF PipelineTypeOK, PipelineTask, Idle, AllSteps, Steps, PrepareSteps

TaskType == task' \in [Workers -> PipelineTask \cup {Idle}]

LEMMA GoesTo ==
  ASSUME PipelineTypeOK, NEW w \in Workers, task[w] \in PipelineTask,
         NEW s \in AllSteps, Goto(w, s)
  PROVE  /\ TaskType
         /\ task'[w] = [task[w] EXCEPT !.step = s] /\ task'[w].step = s
         /\ task'[w].app = task[w].app
         /\ \A v \in Workers \ {w} : task'[v] = task[v]
BY DEF PipelineTypeOK, Goto, PipelineTask, AllSteps, TaskType

LEMMA StandsAt ==
  ASSUME PipelineTypeOK, NEW w \in Workers, task[w] \in PipelineTask,
         NEW s \in AllSteps, Goto(w, s)
  PROVE  /\ task'[w].step = s
         /\ \A v \in Workers \ {w} : task'[v] = task[v]
BY GoesTo

LEMMA Finishes ==
  ASSUME PipelineTypeOK, NEW w \in Workers, Finish(w)
  PROVE  /\ TaskType
         /\ task'[w] = Idle /\ task'[w].step = "idle"
         /\ \A v \in Workers \ {w} : task'[v] = task[v]
BY DEF PipelineTypeOK, Finish, Idle, TaskType

\* A worker whose copy and step change together keeps the rest of its task.
LEMMA CopiesAndGoes ==
  ASSUME PipelineTypeOK, NEW w \in Workers, task[w] \in PipelineTask,
         NEW c \in Status, NEW s \in AllSteps,
         task' = [task EXCEPT ![w].copy = c, ![w].step = s]
  PROVE  /\ TaskType
         /\ task'[w].step = s /\ task'[w].copy = c /\ task'[w].app = task[w].app
         /\ \A v \in Workers \ {w} : task'[v] = task[v]
BY DEF PipelineTypeOK, PipelineTask, AllSteps, TaskType

LEMMA WritesBlind ==
  ASSUME PipelineTypeOK, NEW a \in Apps, NEW c, NEW t \in Status, Blind(a, c, t)
  PROVE  /\ status' \in [Apps -> Status \cup {NoRow}]
         /\ stamped' \subseteq Apps
         /\ status' = status \/ status' = [status EXCEPT ![a] = t]
BY DEF PipelineTypeOK, Blind

LEMMA SomeStatuses ==
  /\ {"draft", "preparing", "ready", "submitting", "needs_review", "failed", "abandoned"}
       \subseteq Status
  /\ ApplyTargets \subseteq Status
  /\ Reported \subseteq Status
  /\ NoRow \notin Status
BY DEF Status, PreSubmit, OffPath, PostSubmit, ApplyTargets, Reported, NoRow

LEMMA TargetIsStatus ==
  ASSUME NEW r
  PROVE  FinalTarget(r) \in Status /\ FinalTarget(r) # "ready"
BY SomeStatuses DEF FinalTarget, ApplyTargets

LEMMA MessageFields ==
  ASSUME NEW m \in Message
  PROVE  /\ m.kind \in Kinds /\ m.app \in Apps /\ m.requeued \in BOOLEAN
         /\ FreshTask(m) \in PipelineTask
         /\ FreshTask(m).app = m.app
         /\ FreshTask(m).step \in {"load", "create"}
BY DEF Message, FreshTask, PipelineTask, Idle, Steps, PrepareSteps, Kinds

LEMMA EnqueueType ==
  ASSUME PipelineTypeOK, NEW m \in Message, Enqueue(m)
  PROVE  queue' \in [Message -> 0 .. MaxQueue]
BY BoundsAssumption DEF PipelineTypeOK, Enqueue

LEMMA MessagesAre ==
  ASSUME NEW a \in Apps, NEW r \in BOOLEAN
  PROVE  /\ Submit(a, r) \in Message /\ Submit(a, r).app = a
         /\ Prepare(a) \in Message /\ Prepare(a).app = a
         /\ RunOne(a, r) \in Message /\ RunOne(a, r).app = a
BY DEF Submit, Prepare, RunOne, Message, Kinds

LEMMA RequestFields ==
  ASSUME NEW r \in Request
  PROVE  /\ r.app \in Apps /\ r.copy \in Status
         /\ r.what \in {"resolve", "dismiss"} \cup PatchTargets
BY DEF Request

-----------------------------------------------------------------------------
(* Types. *)

RestType ==
  /\ stamped' \subseteq Apps
  /\ run' \in {"running", "stopping", "ended"}
  /\ completed' \in Nat
  /\ sends' \in [Apps -> Nat]

\* The rungs of the ladder keep the types, though here a row may not exist yet.
LEMMA LadderTypes ==
  ASSUME PipelineTypeOK, NEW w \in Workers,
         Ladder(w) \/ RenderError(w) \/ Cancel(w) \/ CancelLate(w)
  PROVE  TaskType /\ status' \in [Apps -> Status \cup {NoRow}] /\ RestType
<1>1. CASE Load(w)
  <2>1. task[w] \in PipelineTask
    BY <1>1, AtWork DEF Load, AllSteps, Steps
  <2>2. CASE status[task[w].app] = "ready"
    <3>1. [task[w] EXCEPT !.step = "halt", !.copy = "ready"] \in PipelineTask
      BY <2>1, SomeStatuses DEF PipelineTask, Steps
    <3>2. task' = [task EXCEPT ![w].step = "halt", ![w].copy = "ready"]
      BY <1>1, <2>2 DEF Load
    <3>3. TaskType
      BY <3>1, <3>2 DEF PipelineTypeOK, TaskType
    <3> QED
      BY <1>1, <3>3 DEF Load, PipelineTypeOK, RestType
  <2>3. CASE status[task[w].app] # "ready"
    BY <1>1, <2>3, Finishes DEF Load, PipelineTypeOK, RestType
  <2> QED
    BY <2>2, <2>3
<1>2. CASE HaltCheck(w) \/ DailyCheck(w) \/ CapacityCheck(w) \/ Render(w)
  <2>1. task[w] \in PipelineTask
    BY <1>2, AtWork DEF HaltCheck, DailyCheck, CapacityCheck, Render, AllSteps, Steps
  <2>2. TaskType
    BY <1>2, <2>1, GoesTo, Finishes
       DEF HaltCheck, DailyCheck, CapacityCheck, Render, AllSteps, Steps
  <2>3. run' \in {"running", "stopping", "ended"}
    BY <1>2 DEF HaltCheck, DailyCheck, CapacityCheck, Render, HaltRun, PipelineTypeOK
  <2> QED
    BY <1>2, <2>2, <2>3
       DEF HaltCheck, DailyCheck, CapacityCheck, Render, PipelineTypeOK, RestType
<1>3. CASE BelowFloor(w) \/ Policy(w) \/ RenderError(w) \/ Cancel(w) \/ CancelLate(w)
  <2>1. task[w] \in PipelineTask /\ task[w].app \in Apps
    BY <1>3, AtWork DEF BelowFloor, Policy, RenderError, Cancel, CancelLate, AllSteps, Steps
  <2>2. TaskType
    BY <1>3, <2>1, GoesTo, Finishes
       DEF BelowFloor, Policy, RenderError, Cancel, CancelLate, AllSteps, Steps
  <2>3. status' \in [Apps -> Status \cup {NoRow}] /\ stamped' \subseteq Apps
    BY <1>3, <2>1, WritesBlind, SomeStatuses
       DEF BelowFloor, Policy, RenderError, Cancel, CancelLate, PipelineTypeOK
  <2> QED
    BY <1>3, <2>2, <2>3
       DEF BelowFloor, Policy, RenderError, Cancel, CancelLate, PipelineTypeOK, RestType
<1>4. CASE Claim(w)
  <2>1. task[w] \in PipelineTask
    BY <1>4, AtWork DEF Claim, AllSteps, Steps
  <2>2. CASE status[task[w].app] = "ready"
    <3>1. [task[w] EXCEPT !.step = "apply", !.copy = "submitting"] \in PipelineTask
      BY <2>1, SomeStatuses DEF PipelineTask, Steps
    <3>2. TaskType
      BY <1>4, <2>2, <3>1 DEF Claim, PipelineTypeOK, TaskType
    <3>3. status' \in [Apps -> Status \cup {NoRow}]
      BY <1>4, <2>2, SomeStatuses DEF Claim, PipelineTypeOK
    <3> QED
      BY <1>4, <3>2, <3>3 DEF Claim, PipelineTypeOK, RestType
  <2>3. CASE status[task[w].app] # "ready"
    BY <1>4, <2>3, Finishes DEF Claim, PipelineTypeOK, RestType
  <2> QED
    BY <2>2, <2>3
<1>5. CASE Click(w)
  <2>1. task[w] \in PipelineTask /\ task[w].app \in Apps
    BY <1>5, AtWork DEF Click, AllSteps, Steps
  <2>2. TaskType
    BY <1>5, <2>1, GoesTo DEF Click, AllSteps, Steps
  <2>3. sends' \in [Apps -> Nat]
    BY <1>5, <2>1 DEF Click, PipelineTypeOK
  <2> QED
    BY <1>5, <2>2, <2>3 DEF Click, PipelineTypeOK, RestType
<1>6. CASE Report(w)
  <2>1. task[w] \in PipelineTask
    BY <1>6, AtWork DEF Report, AtProvider, AllSteps, Steps
  <2>2. PICK r \in Reported : task' = [task EXCEPT ![w].step = "record", ![w].reported = r]
    BY <1>6 DEF Report
  <2>3. [task[w] EXCEPT !.step = "record", !.reported = r] \in PipelineTask
    BY <2>1 DEF PipelineTask, Steps
  <2>4. TaskType
    BY <2>2, <2>3 DEF PipelineTypeOK, TaskType
  <2> QED
    BY <1>6, <2>4 DEF Report, PipelineTypeOK, RestType
<1>7. CASE RecordAttempt(w)
  <2>1. task[w] \in PipelineTask /\ task[w].app \in Apps
    BY <1>7, AtWork DEF RecordAttempt, AllSteps, Steps
  <2>2. TaskType
    BY <1>7, <2>1, GoesTo DEF RecordAttempt, AllSteps, Steps
  <2>3. status' \in [Apps -> Status \cup {NoRow}] /\ stamped' \subseteq Apps
    BY <1>7, <2>1, WritesBlind, TargetIsStatus DEF RecordAttempt
  <2> QED
    BY <1>7, <2>2, <2>3 DEF RecordAttempt, PipelineTypeOK, RestType
<1>8. CASE RecordRehearsal(w)
  <2>1. task[w] \in PipelineTask /\ task[w].app \in Apps
    BY <1>8, AtWork DEF RecordRehearsal, AllSteps, Steps
  <2>2. status' \in [Apps -> Status \cup {NoRow}] /\ stamped' \subseteq Apps
    BY <1>8, <2>1, WritesBlind, SomeStatuses DEF RecordRehearsal, PipelineTypeOK
  <2> QED
    BY <1>8, <2>2, Finishes DEF RecordRehearsal, PipelineTypeOK, RestType
<1>9. CASE Count(w)
  <2>1. completed' \in Nat
    BY <1>9 DEF Count, PipelineTypeOK
  <2> QED
    BY <1>9, <2>1, Finishes DEF Count, PipelineTypeOK, RestType
<1> QED
  BY <1>1, <1>2, <1>3, <1>4, <1>5, <1>6, <1>7, <1>8, <1>9 DEF Ladder, Record

\* Every variable of the journey keeps its type: a row is absent or has a status, the
\* queue and the bounds hold, and what a worker or a desk holds names a real row.
THEOREM JourneyTypes == PipelineSpec => []PipelineTypeOK
<1>1. PipelineInit => PipelineTypeOK
  BY BoundsAssumption DEF PipelineInit, PipelineTypeOK, NoRow
<1>2. PipelineTypeOK /\ [PipelineNext]_pipelineVars => PipelineTypeOK'
  <2> SUFFICES ASSUME PipelineTypeOK, [PipelineNext]_pipelineVars PROVE PipelineTypeOK'
    OBVIOUS
  <2>1. ASSUME NEW a \in Apps, ApplyRequest(a) \/ RetryRequest(a)
                               \/ RunLoopDispatch(a) \/ DiscoveryDispatch(a)
        PROVE  PipelineTypeOK'
    <3>1. PICK m \in Message : AskFor(m)
      BY <2>1, MessagesAre DEF ApplyRequest, RetryRequest, RunLoopDispatch, DiscoveryDispatch
    <3>2. queue' \in [Message -> 0 .. MaxQueue]
      BY <3>1, EnqueueType DEF AskFor
    <3>3. asks' \in [Apps -> 0 .. MaxAsks]
      BY <3>1, MessageFields, BoundsAssumption DEF AskFor, Ask, PipelineTypeOK
    <3> QED
      BY <3>1, <3>2, <3>3 DEF AskFor, vars, PipelineTypeOK
  <2>2. ASSUME NEW w \in Workers, Take(w) PROVE PipelineTypeOK'
    <3>1. PICK m \in Message :
            /\ queue[m] > 0
            /\ task' = [task EXCEPT ![w] = FreshTask(m)]
            /\ \/ queue' = [queue EXCEPT ![m] = @ - 1] /\ UNCHANGED redelivered
               \/ /\ redelivered < MaxRedelivered
                  /\ redelivered' = redelivered + 1
                  /\ UNCHANGED queue
      BY <2>2 DEF Take
    <3>2. task' \in [Workers -> PipelineTask \cup {Idle}]
      BY <3>1, MessageFields DEF PipelineTypeOK
    <3>3. queue' \in [Message -> 0 .. MaxQueue] /\ redelivered' \in 0 .. MaxRedelivered
      BY <3>1, BoundsAssumption DEF PipelineTypeOK
    <3> QED
      BY <2>2, <3>2, <3>3 DEF Take, PipelineTypeOK
  <2>3. ASSUME NEW w \in Workers, Refuse(w) \/ Die(w) PROVE PipelineTypeOK'
    BY <2>3, Finishes DEF Refuse, Die, PipelineTypeOK, TaskType
  <2>4. ASSUME NEW w \in Workers, Create(w) \/ BeginPreparing(w) \/ Generate(w)
        PROVE  PipelineTypeOK'
    <3>1. task[w] \in PipelineTask /\ task[w].app \in Apps
      BY <2>4, AtWork DEF Create, BeginPreparing, Generate, AllSteps, PrepareSteps
    <3>2. \E c \in Status, s \in AllSteps :
            task' = [task EXCEPT ![w].copy = c, ![w].step = s]
      <4>1. CASE Create(w)
        <5> DEFINE row == IF status[task[w].app] = NoRow THEN "draft" ELSE status[task[w].app]
                   s == IF row \in Preparable THEN "begin" ELSE "handover"
        <5>1. row \in Status /\ s \in AllSteps
          BY <3>1, SomeStatuses DEF PipelineTypeOK, AllSteps, PrepareSteps
        <5>2. task' = [task EXCEPT ![w].copy = row, ![w].step = s]
          BY <4>1 DEF Create
        <5> QED
          BY <5>1, <5>2
      <4>2. CASE BeginPreparing(w) \/ Generate(w)
        BY <4>2, SomeStatuses DEF BeginPreparing, Generate, AllSteps, PrepareSteps
      <4> QED
        BY <2>4, <4>1, <4>2
    <3>3. TaskType
      BY <3>1, <3>2, CopiesAndGoes
    <3>4. status' \in [Apps -> Status \cup {NoRow}] /\ stamped' \subseteq Apps
      <4>1. CASE Create(w)
        BY <3>1, <4>1, SomeStatuses DEF Create, PipelineTypeOK
      <4>2. CASE BeginPreparing(w) \/ Generate(w)
        BY <3>1, <4>2, WritesBlind, SomeStatuses DEF BeginPreparing, Generate
      <4> QED
        BY <2>4, <4>1, <4>2
    <3>5. readied' \in [Apps -> Nat]
      BY <2>4, <3>1 DEF Create, BeginPreparing, Generate, CountReady, PipelineTypeOK
    <3> QED
      BY <2>4, <3>3, <3>4, <3>5
         DEF Create, BeginPreparing, Generate, PipelineTypeOK, TaskType
  <2>5. ASSUME NEW w \in Workers, Handover(w) PROVE PipelineTypeOK'
    <3>1. task[w] \in PipelineTask /\ task[w].app \in Apps
      BY <2>5, AtWork DEF Handover, AllSteps, PrepareSteps
    <3>2. CASE task[w].kind = "prepare"
      <4>1. Finish(w) /\ (Enqueue(Submit(task[w].app, FALSE)) \/ UNCHANGED queue)
        BY <2>5, <3>2 DEF Handover
      <4>2. queue' \in [Message -> 0 .. MaxQueue]
        BY <3>1, <4>1, MessagesAre, EnqueueType DEF PipelineTypeOK
      <4> QED
        BY <2>5, <4>1, <4>2, Finishes DEF Handover, PipelineTypeOK, TaskType
    <3>3. CASE task[w].kind # "prepare"
      <4>1. (Finish(w) \/ Goto(w, "halt")) /\ UNCHANGED queue
        BY <2>5, <3>3 DEF Handover
      <4>2. TaskType
        BY <3>1, <4>1, GoesTo, Finishes DEF AllSteps, Steps
      <4> QED
        BY <2>5, <4>1, <4>2 DEF Handover, PipelineTypeOK, TaskType
    <3> QED
      BY <3>2, <3>3
  <2>6. ASSUME NEW w \in Workers, Climbing(w) PROVE PipelineTypeOK'
    BY <2>6, LadderTypes DEF Climbing, PipelineTypeOK, TaskType, RestType
  <2>7. ASSUME NEW d \in Desks, OpenRequest(d) PROVE PipelineTypeOK'
    <3>1. PICK r \in Request : Ask(r.app) /\ desk' = [desk EXCEPT ![d] = r]
      BY <2>7 DEF OpenRequest
    <3>2. asks' \in [Apps -> 0 .. MaxAsks]
      BY <3>1, RequestFields, BoundsAssumption DEF Ask, PipelineTypeOK
    <3>3. desk' \in [Desks -> Request \cup {Free}]
      BY <3>1 DEF PipelineTypeOK
    <3> QED
      BY <2>7, <3>2, <3>3 DEF OpenRequest, vars, PipelineTypeOK
  <2>8. ASSUME NEW d \in Desks, CloseRequest(d) PROVE PipelineTypeOK'
    <3> DEFINE r == desk[d]
               target == CASE r.what = "resolve" -> "ready"
                           [] r.what = "dismiss" -> "abandoned"
                           [] OTHER -> r.what
    <3>1. r \in Request /\ r.app \in Apps
      BY <2>8, RequestFields DEF CloseRequest, PipelineTypeOK
    <3>2. target \in Status
      BY <3>1, RequestFields, PatchAssumption, SomeStatuses
    <3>3. desk' \in [Desks -> Request \cup {Free}]
      BY <2>8 DEF CloseRequest, PipelineTypeOK
    <3>4. CASE CanTransition(r.copy, target)
      <4>1. /\ Blind(r.app, r.copy, target)
            /\ CountReady(r.app, target)
            /\ Enqueue(Submit(r.app, TRUE)) \/ UNCHANGED queue
        BY <2>8, <3>4 DEF CloseRequest
      <4>2. status' \in [Apps -> Status \cup {NoRow}] /\ stamped' \subseteq Apps
        BY <3>1, <3>2, <4>1, WritesBlind
      <4>3. queue' \in [Message -> 0 .. MaxQueue]
        BY <3>1, <4>1, MessagesAre, EnqueueType DEF PipelineTypeOK
      <4>4. readied' \in [Apps -> Nat]
        BY <3>1, <4>1 DEF CountReady, PipelineTypeOK
      <4> QED
        BY <2>8, <3>3, <4>2, <4>3, <4>4 DEF CloseRequest, PipelineTypeOK
    <3>5. CASE ~CanTransition(r.copy, target)
      <4>1. UNCHANGED <<status, stamped, queue, readied>>
        BY <2>8, <3>5 DEF CloseRequest
      <4> QED
        BY <2>8, <3>3, <4>1 DEF CloseRequest, PipelineTypeOK
    <3> QED
      BY <3>4, <3>5
  <2>9. CASE RunStops \/ UNCHANGED pipelineVars
    BY <2>9 DEF RunStops, StopRequested, RunEnds, pipelineVars, vars, PipelineTypeOK
  <2> QED
    BY <2>1, <2>2, <2>3, <2>4, <2>5, <2>6, <2>7, <2>8, <2>9 DEF PipelineNext, Preparing
<1> QED
  BY <1>1, <1>2, PTL DEF PipelineSpec

-----------------------------------------------------------------------------
(* Every send was readied: who holds a claim, and what each step does to it. *)

LEMMA HoldersAreFinite ==
  ASSUME NEW a \in Apps
  PROVE  /\ IsFiniteSet(Holders(a)) /\ Cardinality(Holders(a)) \in Nat
         /\ Holders(a) \subseteq Workers
<1>1. Holders(a) \subseteq Workers
  BY DEF Holders
<1> QED
  BY <1>1, FS_Subset, FS_CardinalityType, WorkersAssumption

\* Only a worker that moves to the provider takes hold of a row.
LEMMA NoNewHolder ==
  ASSUME NEW w \in Workers, \A v \in Workers \ {w} : task'[v] = task[v],
         task'[w].step # "apply" \/ Rehearsal
  PROVE  \A a \in Apps : Holders(a)' \subseteq Holders(a)
BY DEF Holders, Rehearsal

\* A step that sends nothing, takes hold of nothing and accounts for every row it makes
\* `ready` keeps the books.
LEMMA BooksKept ==
  ASSUME PipelineTypeOK, EverySendWasReadied, sends' = sends,
         \A a \in Apps : Holders(a)' \subseteq Holders(a),
         \A a \in Apps : \/ readied'[a] = readied[a] /\ (status'[a] = "ready" => status[a] = "ready")
                         \/ readied'[a] = readied[a] + 1
  PROVE  EverySendWasReadied'
<1> SUFFICES ASSUME NEW a \in Apps
             PROVE  sends'[a] + Cardinality(Holders(a)') + (IF status'[a] = "ready" THEN 1 ELSE 0)
                      <= readied'[a]
  BY DEF EverySendWasReadied
<1>1. Cardinality(Holders(a)') <= Cardinality(Holders(a)) /\ Cardinality(Holders(a)') \in Nat
  BY HoldersAreFinite, FS_Subset, FS_CardinalityType
<1>2. sends[a] \in Nat /\ readied[a] \in Nat
  BY DEF PipelineTypeOK
<1>3. sends[a] + Cardinality(Holders(a)) + (IF status[a] = "ready" THEN 1 ELSE 0) <= readied[a]
  BY DEF EverySendWasReadied
<1> QED
  BY <1>1, <1>2, <1>3, HoldersAreFinite

\* A blind write that counts itself when it writes `ready`.
LEMMA CountedBlind ==
  ASSUME PipelineTypeOK, NEW a \in Apps, NEW c, NEW t \in Status,
         Blind(a, c, t), CountReady(a, t)
  PROVE  \A b \in Apps :
           \/ readied'[b] = readied[b] /\ (status'[b] = "ready" => status[b] = "ready")
           \/ readied'[b] = readied[b] + 1
BY WritesBlind DEF CountReady, PipelineTypeOK

LEMMA UncountedBlind ==
  ASSUME PipelineTypeOK, NEW a \in Apps, NEW c, NEW t \in Status, t # "ready", Blind(a, c, t)
  PROVE  \A b \in Apps : status'[b] = "ready" => status[b] = "ready"
BY WritesBlind DEF PipelineTypeOK

\* The claim turns one time the row was ready into a hold, ...
LEMMA ClaimKeepsBooks ==
  ASSUME PipelineTypeOK, EverySendWasReadied, NEW w \in Workers, Claim(w), UNCHANGED readied
  PROVE  EverySendWasReadied'
<1> DEFINE b == task[w].app
<1>1. task[w] \in PipelineTask /\ b \in Apps
  BY AtWork DEF Claim, AllSteps, Steps
<1>2. CASE status[b] = "ready"
  <2>1. /\ status' = [status EXCEPT ![b] = "submitting"] /\ sends' = sends
        /\ task' = [task EXCEPT ![w].step = "apply", ![w].copy = "submitting"]
    BY <1>2 DEF Claim
  <2>2. \A v \in Workers \ {w} : task'[v] = task[v]
    BY <2>1 DEF PipelineTypeOK
  <2>3. task'[w].app = b /\ task'[w].step = "apply"
    BY <1>1, <2>1 DEF PipelineTypeOK, PipelineTask
  <2> SUFFICES ASSUME NEW a \in Apps
               PROVE  sends[a] + Cardinality(Holders(a)')
                        + (IF status'[a] = "ready" THEN 1 ELSE 0) <= readied[a]
    BY <2>1 DEF EverySendWasReadied
  <2>4. /\ sends[a] \in Nat /\ readied[a] \in Nat
        /\ sends[a] + Cardinality(Holders(a)) + (IF status[a] = "ready" THEN 1 ELSE 0)
             <= readied[a]
    BY DEF PipelineTypeOK, EverySendWasReadied
  <2>5. CASE a # b
    <3>1. Holders(a)' \subseteq Holders(a)
      BY <2>2, <2>3, <2>5 DEF Holders
    <3>2. Cardinality(Holders(a)') <= Cardinality(Holders(a)) /\ Cardinality(Holders(a)') \in Nat
      BY <3>1, HoldersAreFinite, FS_Subset, FS_CardinalityType
    <3>3. status'[a] = status[a]
      BY <2>1, <2>5 DEF PipelineTypeOK
    <3> QED
      BY <2>4, <3>2, <3>3, HoldersAreFinite
  <2>6. CASE a = b
    <3>1. Holders(a)' \subseteq Holders(a) \cup {w}
      BY <2>2 DEF Holders
    <3>2. w \notin Holders(a)
      BY DEF Claim, Holders
    <3>3. IsFiniteSet(Holders(a) \cup {w})
          /\ Cardinality(Holders(a) \cup {w}) = Cardinality(Holders(a)) + 1
      BY <3>2, HoldersAreFinite, FS_AddElement
    <3>4. Cardinality(Holders(a)') <= Cardinality(Holders(a)) + 1
          /\ Cardinality(Holders(a)') \in Nat
      BY <3>1, <3>3, FS_Subset, FS_CardinalityType
    <3>5. status'[a] # "ready"
      BY <1>1, <2>1, <2>6 DEF PipelineTypeOK
    <3> QED
      BY <1>2, <2>4, <2>6, <3>4, <3>5, HoldersAreFinite
  <2> QED
    BY <2>5, <2>6
<1>3. CASE status[b] # "ready"
  <2>1. Finish(w) /\ status' = status /\ sends' = sends
    BY <1>3 DEF Claim
  <2>2. \A a \in Apps : Holders(a)' \subseteq Holders(a)
    BY <2>1, Finishes, NoNewHolder
  <2> QED
    BY <2>1, <2>2, BooksKept
<1> QED
  BY <1>2, <1>3

\* ... and the click turns the hold into a send.
LEMMA ClickKeepsBooks ==
  ASSUME PipelineTypeOK, EverySendWasReadied, NEW w \in Workers, Click(w), UNCHANGED readied
  PROVE  EverySendWasReadied'
<1> DEFINE b == task[w].app
<1>1. task[w] \in PipelineTask /\ b \in Apps
  BY AtWork DEF Click, AllSteps, Steps
<1>2. /\ \A v \in Workers \ {w} : task'[v] = task[v]
      /\ task'[w].step = "clicked" /\ task'[w].app = b
  BY <1>1, GoesTo DEF Click, AllSteps, Steps
<1>3. sends' = [sends EXCEPT ![b] = @ + 1] /\ status' = status
  BY DEF Click
<1> SUFFICES ASSUME NEW a \in Apps
             PROVE  sends'[a] + Cardinality(Holders(a)')
                      + (IF status[a] = "ready" THEN 1 ELSE 0) <= readied[a]
  BY <1>3 DEF EverySendWasReadied
<1>4. /\ sends[a] \in Nat /\ readied[a] \in Nat
      /\ sends[a] + Cardinality(Holders(a)) + (IF status[a] = "ready" THEN 1 ELSE 0)
           <= readied[a]
  BY DEF PipelineTypeOK, EverySendWasReadied
<1>5. CASE a # b
  <2>1. Holders(a)' \subseteq Holders(a)
    BY <1>2, NoNewHolder
  <2>2. Cardinality(Holders(a)') <= Cardinality(Holders(a)) /\ Cardinality(Holders(a)') \in Nat
    BY <2>1, HoldersAreFinite, FS_Subset, FS_CardinalityType
  <2>3. sends'[a] = sends[a]
    BY <1>3, <1>5 DEF PipelineTypeOK
  <2> QED
    BY <1>4, <2>2, <2>3, HoldersAreFinite
<1>6. CASE a = b
  <2>1. w \in Holders(a) /\ Holders(a)' = Holders(a) \ {w}
    BY <1>2, <1>6 DEF Click, Holders, Rehearsal
  <2>2. Cardinality(Holders(a)') = Cardinality(Holders(a)) - 1
    BY <2>1, HoldersAreFinite, FS_RemoveElement
  <2>3. sends'[a] = sends[a] + 1
    BY <1>1, <1>3, <1>6 DEF PipelineTypeOK
  <2> QED
    BY <1>4, <2>2, <2>3, HoldersAreFinite
<1> QED
  BY <1>5, <1>6

\* The rest of the ladder neither sends, nor takes hold, nor makes a row ready.
LEMMA RungsKeepBooks ==
  ASSUME PipelineTypeOK, NEW w \in Workers,
         Ladder(w) \/ RenderError(w) \/ Cancel(w) \/ CancelLate(w), ~Claim(w), ~Click(w)
  PROVE  /\ sends' = sends
         /\ \A a \in Apps : Holders(a)' \subseteq Holders(a)
         /\ \A a \in Apps : status'[a] = "ready" => status[a] = "ready"
<1>1. CASE Load(w)
  <2>1. task[w] \in PipelineTask
    BY <1>1, AtWork DEF Load, AllSteps, Steps
  <2>2. CASE status[task[w].app] = "ready"
    BY <1>1, <2>1, <2>2, NoNewHolder DEF Load, PipelineTypeOK, PipelineTask
  <2>3. CASE status[task[w].app] # "ready"
    BY <1>1, <2>3, Finishes, NoNewHolder DEF Load
  <2> QED
    BY <2>2, <2>3
<1>2. CASE HaltCheck(w) \/ DailyCheck(w) \/ CapacityCheck(w) \/ Render(w)
  <2>1. task[w] \in PipelineTask
    BY <1>2, AtWork DEF HaltCheck, DailyCheck, CapacityCheck, Render, AllSteps, Steps
  <2>2. /\ \A v \in Workers \ {w} : task'[v] = task[v]
        /\ task'[w].step # "apply" \/ Rehearsal
    BY <1>2, <2>1, StandsAt, Finishes
       DEF HaltCheck, DailyCheck, CapacityCheck, Render, AllSteps, Steps
  <2> QED
    BY <1>2, <2>2, NoNewHolder DEF HaltCheck, DailyCheck, CapacityCheck, Render
<1>3. CASE BelowFloor(w) \/ Policy(w) \/ RenderError(w) \/ Cancel(w) \/ CancelLate(w)
  <2>1. task[w] \in PipelineTask /\ task[w].app \in Apps
    BY <1>3, AtWork DEF BelowFloor, Policy, RenderError, Cancel, CancelLate, AllSteps, Steps
  <2>2. \A v \in Workers \ {w} : task'[v] = task[v]
    BY <1>3, <2>1, GoesTo, Finishes
       DEF BelowFloor, Policy, RenderError, Cancel, CancelLate, AllSteps, Steps
  <2>3. task'[w].step # "apply"
    BY <1>3, <2>1, StandsAt, Finishes
       DEF BelowFloor, Policy, RenderError, Cancel, CancelLate, AllSteps, Steps
  <2>4. \A a \in Apps : status'[a] = "ready" => status[a] = "ready"
    BY <1>3, <2>1, UncountedBlind, SomeStatuses
       DEF BelowFloor, Policy, RenderError, Cancel, CancelLate
  <2> QED
    BY <1>3, <2>2, <2>3, <2>4, NoNewHolder
       DEF BelowFloor, Policy, RenderError, Cancel, CancelLate
<1>4. CASE Report(w)
  <2>1. task[w] \in PipelineTask
    BY <1>4, AtWork DEF Report, AtProvider, AllSteps, Steps
  <2>2. PICK r \in Reported : task' = [task EXCEPT ![w].step = "record", ![w].reported = r]
    BY <1>4 DEF Report
  <2>3. task'[w].step = "record" /\ \A v \in Workers \ {w} : task'[v] = task[v]
    BY <2>1, <2>2 DEF PipelineTypeOK, PipelineTask
  <2> QED
    BY <1>4, <2>3, NoNewHolder DEF Report
<1>5. CASE RecordAttempt(w)
  <2>1. task[w] \in PipelineTask /\ task[w].app \in Apps
    BY <1>5, AtWork DEF RecordAttempt, AllSteps, Steps
  <2>2. task'[w].step = "count" /\ \A v \in Workers \ {w} : task'[v] = task[v]
    BY <1>5, <2>1, GoesTo DEF RecordAttempt, AllSteps, Steps
  <2>3. \A a \in Apps : status'[a] = "ready" => status[a] = "ready"
    BY <1>5, <2>1, UncountedBlind, TargetIsStatus DEF RecordAttempt
  <2> QED
    BY <1>5, <2>2, <2>3, NoNewHolder DEF RecordAttempt
<1>6. CASE RecordRehearsal(w)
  <2>1. task[w] \in PipelineTask /\ task[w].app \in Apps
    BY <1>6, AtWork DEF RecordRehearsal, AllSteps, Steps
  <2>2. \A a \in Apps : status'[a] = "ready" => status[a] = "ready"
    BY <1>6, <2>1, UncountedBlind, SomeStatuses DEF RecordRehearsal
  <2> QED
    BY <1>6, <2>2, Finishes, NoNewHolder DEF RecordRehearsal
<1>7. CASE Count(w)
  BY <1>7, Finishes, NoNewHolder DEF Count
<1> QED
  BY <1>1, <1>2, <1>3, <1>4, <1>5, <1>6, <1>7 DEF Ladder, Record

\* Every send, every claim that is still held and the row's own readiness account for one
\* time somebody wrote the row `ready`, whatever requests, retries, redeliveries and
\* crashes interfere: no claim is ever turned into two sends.
THEOREM SendsAreReadied == PipelineSpec => []EverySendWasReadied
<1>1. PipelineInit => EverySendWasReadied
  <2> SUFFICES ASSUME PipelineInit, NEW a \in Apps
               PROVE  sends[a] + Cardinality(Holders(a)) + (IF status[a] = "ready" THEN 1 ELSE 0)
                        <= readied[a]
    BY DEF EverySendWasReadied
  <2>1. Holders(a) = {}
    BY DEF PipelineInit, Holders, Idle
  <2> QED
    BY <2>1, FS_EmptySet DEF PipelineInit, NoRow
<1>2. PipelineTypeOK /\ EverySendWasReadied /\ [PipelineNext]_pipelineVars
        => EverySendWasReadied'
  <2> SUFFICES ASSUME PipelineTypeOK, EverySendWasReadied, [PipelineNext]_pipelineVars
               PROVE  EverySendWasReadied'
    OBVIOUS
  <2>1. ASSUME task' = task, status' = status, sends' = sends, readied' = readied
        PROVE  EverySendWasReadied'
    BY <2>1 DEF EverySendWasReadied, Holders
  <2>2. ASSUME NEW a \in Apps, ApplyRequest(a) \/ RetryRequest(a)
                               \/ RunLoopDispatch(a) \/ DiscoveryDispatch(a)
        PROVE  EverySendWasReadied'
    BY <2>1, <2>2
       DEF ApplyRequest, RetryRequest, RunLoopDispatch, DiscoveryDispatch, AskFor, vars
  <2>3. ASSUME NEW w \in Workers, Take(w) PROVE EverySendWasReadied'
    <3>1. PICK m \in Message : task' = [task EXCEPT ![w] = FreshTask(m)]
      BY <2>3 DEF Take
    <3>2. task'[w].step # "apply" /\ \A v \in Workers \ {w} : task'[v] = task[v]
      BY <3>1, MessageFields DEF PipelineTypeOK
    <3> QED
      BY <2>3, <3>2, NoNewHolder, BooksKept DEF Take
  <2>4. ASSUME NEW w \in Workers, Refuse(w) \/ Die(w) PROVE EverySendWasReadied'
    BY <2>4, Finishes, NoNewHolder, BooksKept DEF Refuse, Die
  <2>5. ASSUME NEW w \in Workers, Create(w) \/ BeginPreparing(w) \/ Generate(w)
        PROVE  EverySendWasReadied'
    <3>1. task[w] \in PipelineTask /\ task[w].app \in Apps
      BY <2>5, AtWork DEF Create, BeginPreparing, Generate, AllSteps, PrepareSteps
    <3>2. task'[w].step # "apply" /\ \A v \in Workers \ {w} : task'[v] = task[v]
      BY <2>5, <3>1 DEF Create, BeginPreparing, Generate, PipelineTypeOK, PipelineTask
    <3>3. \A a \in Apps :
            \/ readied'[a] = readied[a] /\ (status'[a] = "ready" => status[a] = "ready")
            \/ readied'[a] = readied[a] + 1
      <4>1. CASE Create(w)
        BY <3>1, <4>1 DEF Create, PipelineTypeOK
      <4>2. CASE BeginPreparing(w)
        BY <3>1, <4>2, UncountedBlind, SomeStatuses DEF BeginPreparing
      <4>3. CASE Generate(w)
        BY <3>1, <4>3, CountedBlind, SomeStatuses DEF Generate
      <4> QED
        BY <2>5, <4>1, <4>2, <4>3
    <3>4. sends' = sends
      BY <2>5 DEF Create, BeginPreparing, Generate
    <3> QED
      BY <3>2, <3>3, <3>4, NoNewHolder, BooksKept
  <2>6. ASSUME NEW w \in Workers, Handover(w) PROVE EverySendWasReadied'
    <3>1. task[w] \in PipelineTask
      BY <2>6, AtWork DEF Handover, AllSteps, PrepareSteps
    <3>2. Finish(w) \/ Goto(w, "halt")
      BY <2>6 DEF Handover
    <3>3. task'[w].step # "apply" /\ \A v \in Workers \ {w} : task'[v] = task[v]
      BY <3>1, <3>2, Finishes, StandsAt DEF AllSteps, Steps
    <3> QED
      BY <2>6, <3>3, NoNewHolder, BooksKept DEF Handover
  <2>7. ASSUME NEW w \in Workers, Climbing(w) PROVE EverySendWasReadied'
    <3>1. CASE Claim(w) \/ Click(w)
      BY <2>7, <3>1, ClaimKeepsBooks, ClickKeepsBooks DEF Climbing
    <3>2. CASE ~Claim(w) /\ ~Click(w)
      BY <2>7, <3>2, RungsKeepBooks, BooksKept DEF Climbing
    <3> QED
      BY <3>1, <3>2
  <2>8. ASSUME NEW d \in Desks, OpenRequest(d) PROVE EverySendWasReadied'
    BY <2>1, <2>8 DEF OpenRequest, vars
  <2>9. ASSUME NEW d \in Desks, CloseRequest(d) PROVE EverySendWasReadied'
    <3> DEFINE r == desk[d]
               target == CASE r.what = "resolve" -> "ready"
                           [] r.what = "dismiss" -> "abandoned"
                           [] OTHER -> r.what
    <3>1. r \in Request /\ r.app \in Apps
      BY <2>9, RequestFields DEF CloseRequest, PipelineTypeOK
    <3>2. target \in Status
      BY <3>1, RequestFields, PatchAssumption, SomeStatuses
    <3>3. sends' = sends /\ \A a \in Apps : Holders(a)' \subseteq Holders(a)
      BY <2>9 DEF CloseRequest, Holders
    <3>4. CASE CanTransition(r.copy, target)
      <4>1. Blind(r.app, r.copy, target) /\ CountReady(r.app, target)
        BY <2>9, <3>4 DEF CloseRequest
      <4> QED
        BY <3>1, <3>2, <3>3, <4>1, CountedBlind, BooksKept
    <3>5. CASE ~CanTransition(r.copy, target)
      <4>1. UNCHANGED <<status, readied>>
        BY <2>9, <3>5 DEF CloseRequest
      <4> QED
        BY <3>3, <4>1, BooksKept
    <3> QED
      BY <3>4, <3>5
  <2>10. CASE RunStops \/ UNCHANGED pipelineVars
    BY <2>1, <2>10 DEF RunStops, StopRequested, RunEnds, pipelineVars, vars
  <2> QED
    BY <2>2, <2>3, <2>4, <2>5, <2>6, <2>7, <2>8, <2>9, <2>10 DEF PipelineNext, Preparing
<1> QED
  BY <1>1, <1>2, JourneyTypes, PTL DEF PipelineSpec

-----------------------------------------------------------------------------
(* Nothing is sent unasked: what somebody asked for is somewhere on its way. *)

Msg(k, a, r) == [kind |-> k, app |-> a, requeued |-> r]

\* The messages about an application that wait on the queue.
Waiting(a) ==
  queue[Msg("submit", a, TRUE)] + queue[Msg("submit", a, FALSE)]
  + queue[Msg("prepare", a, TRUE)] + queue[Msg("prepare", a, FALSE)]
  + queue[Msg("run_one", a, TRUE)] + queue[Msg("run_one", a, FALSE)]

\* The workers that have it in hand and have not sent it.
Unsent == AllSteps \ {"clicked", "record", "count"}
InHand(a) == {w \in Workers : task[w].app = a /\ task[w].step \in Unsent}

\* The desks that have its row open.
AtDesk(a) == {d \in Desks : desk[d].app = a}

\* Every send, message, task in hand and open request goes back to one time somebody
\* asked for the application, or to one message that was delivered a second time.
AskedFor ==
  \A a \in Apps :
    sends[a] + Waiting(a) + Cardinality(InHand(a)) + Cardinality(AtDesk(a))
      <= asks[a] + redelivered

LEMMA MsgIsMessage ==
  ASSUME NEW k \in Kinds, NEW a \in Apps, NEW r \in BOOLEAN
  PROVE  Msg(k, a, r) \in Message
BY DEF Msg, Message

LEMMA MessageIsMsg ==
  ASSUME NEW m \in Message
  PROVE  m = Msg(m.kind, m.app, m.requeued)
BY DEF Msg, Message

LEMMA SixNaturals ==
  ASSUME NEW c1 \in Nat, NEW c2 \in Nat, NEW c3 \in Nat,
         NEW c4 \in Nat, NEW c5 \in Nat, NEW c6 \in Nat
  PROVE  c1 + c2 + c3 + c4 + c5 + c6 \in Nat
OBVIOUS

LEMMA WaitingType ==
  ASSUME PipelineTypeOK, NEW a \in Apps
  PROVE  Waiting(a) \in Nat
<1>1. \A k \in Kinds, r \in BOOLEAN : queue[Msg(k, a, r)] \in Nat
  BY MsgIsMessage, BoundsAssumption DEF PipelineTypeOK
<1>2. /\ queue[Msg("submit", a, TRUE)] \in Nat
      /\ queue[Msg("submit", a, FALSE)] \in Nat
      /\ queue[Msg("prepare", a, TRUE)] \in Nat
      /\ queue[Msg("prepare", a, FALSE)] \in Nat
      /\ queue[Msg("run_one", a, TRUE)] \in Nat
      /\ queue[Msg("run_one", a, FALSE)] \in Nat
  BY <1>1, Zenon DEF Kinds
<1> QED
  BY <1>2, SixNaturals, Zenon DEF Waiting

\* One entry of the queue changes by n: so does what waits for its application.
LEMMA WaitingChanges ==
  ASSUME PipelineTypeOK, NEW m \in Message, NEW n \in Int,
         queue' = [queue EXCEPT ![m] = @ + n]
  PROVE  \A a \in Apps : Waiting(a)' = Waiting(a) + (IF m.app = a THEN n ELSE 0)
<1> SUFFICES ASSUME NEW a \in Apps
             PROVE  Waiting(a)' = Waiting(a) + (IF m.app = a THEN n ELSE 0)
  OBVIOUS
<1>1. \A k \in Kinds, r \in BOOLEAN : queue[Msg(k, a, r)] \in Nat
  BY MsgIsMessage, BoundsAssumption DEF PipelineTypeOK
<1>2. \A k \in Kinds, r \in BOOLEAN :
        queue'[Msg(k, a, r)] =
          queue[Msg(k, a, r)] + (IF m = Msg(k, a, r) THEN n ELSE 0)
  BY <1>1, MsgIsMessage DEF PipelineTypeOK
<1> DEFINE s1 == Msg("submit", a, TRUE)   s2 == Msg("submit", a, FALSE)
           p1 == Msg("prepare", a, TRUE)  p2 == Msg("prepare", a, FALSE)
           o1 == Msg("run_one", a, TRUE)  o2 == Msg("run_one", a, FALSE)
           Six == {s1, s2, p1, p2, o1, o2}
<1>3. /\ Waiting(a) = queue[s1] + queue[s2] + queue[p1] + queue[p2] + queue[o1] + queue[o2]
      /\ Waiting(a)' = queue'[s1] + queue'[s2] + queue'[p1] + queue'[p2]
                         + queue'[o1] + queue'[o2]
  BY Zenon DEF Waiting
<1>4. \A x \in Six : /\ queue[x] \in Nat
                     /\ queue'[x] = queue[x] + (IF m = x THEN n ELSE 0)
  BY <1>1, <1>2, Zenon DEF Kinds
<1>5. s1 # s2 /\ s1 # p1 /\ s1 # p2 /\ s1 # o1 /\ s1 # o2 /\ s2 # p1 /\ s2 # p2
      /\ s2 # o1 /\ s2 # o2 /\ p1 # p2 /\ p1 # o1 /\ p1 # o2 /\ p2 # o1 /\ p2 # o2
      /\ o1 # o2
  BY DEF Msg
<1>6. m.app = a <=> m \in Six
  <2>1. \A x \in Six : x.app = a
    BY DEF Msg
  <2>2. m.app = a => m \in Six
    <3> SUFFICES ASSUME m.app = a PROVE m \in Six
      OBVIOUS
    <3>1. m = Msg(m.kind, a, m.requeued) /\ m.kind \in Kinds /\ m.requeued \in BOOLEAN
      BY MessageFields, MessageIsMsg
    <3>2. m.requeued = TRUE \/ m.requeued = FALSE
      BY <3>1
    <3> QED
      BY <3>1, <3>2, Zenon DEF Kinds
  <2> QED
    BY <2>1, <2>2, Zenon
<1> HIDE DEF s1, s2, p1, p2, o1, o2
<1> QED
  BY <1>3, <1>4, <1>5, <1>6

LEMMA HandsAndDesks ==
  ASSUME NEW a \in Apps
  PROVE  /\ InHand(a) \subseteq Workers /\ IsFiniteSet(InHand(a))
         /\ Cardinality(InHand(a)) \in Nat
         /\ AtDesk(a) \subseteq Desks /\ IsFiniteSet(AtDesk(a))
         /\ Cardinality(AtDesk(a)) \in Nat
<1>1. InHand(a) \subseteq Workers /\ AtDesk(a) \subseteq Desks
  BY DEF InHand, AtDesk
<1> QED
  BY <1>1, FS_Subset, FS_CardinalityType, WorkersAssumption, DesksAssumption

\* Each sum of the books, term by term: what is accounted for never outgrows the asks.
LEMMA Accounted ==
  ASSUME PipelineTypeOK, AskedFor, NEW a \in Apps
  PROVE  /\ sends[a] \in Nat /\ Waiting(a) \in Nat
         /\ Cardinality(InHand(a)) \in Nat /\ Cardinality(AtDesk(a)) \in Nat
         /\ asks[a] \in Nat /\ redelivered \in Nat
         /\ sends[a] + Waiting(a) + Cardinality(InHand(a)) + Cardinality(AtDesk(a))
              <= asks[a] + redelivered
BY WaitingType, HandsAndDesks, BoundsAssumption DEF PipelineTypeOK, AskedFor

\* Putting a message on the queue adds at most one to what waits.
LEMMA EnqueueAdds ==
  ASSUME PipelineTypeOK, NEW m \in Message, Enqueue(m)
  PROVE  \A a \in Apps :
           /\ Waiting(a)' \in Nat
           /\ Waiting(a)' <= Waiting(a) + (IF m.app = a THEN 1 ELSE 0)
<1> SUFFICES ASSUME NEW a \in Apps
             PROVE  /\ Waiting(a)' \in Nat
                    /\ Waiting(a)' <= Waiting(a) + (IF m.app = a THEN 1 ELSE 0)
  OBVIOUS
<1>1. queue' = [queue EXCEPT ![m] = @ + 1] \/ queue' = queue
  <2>1. CASE queue[m] < MaxQueue
    BY <2>1 DEF Enqueue
  <2>2. CASE ~(queue[m] < MaxQueue)
    <3>1. queue' = [queue EXCEPT ![m] = queue[m]]
      BY <2>2 DEF Enqueue
    <3> QED
      BY <3>1 DEF PipelineTypeOK
  <2> QED
    BY <2>1, <2>2
<1> 1 \in Int
  OBVIOUS
<1>2. CASE queue' = [queue EXCEPT ![m] = @ + 1]
  <2>1. Waiting(a)' = Waiting(a) + (IF m.app = a THEN 1 ELSE 0)
    BY <1>2, WaitingChanges, Zenon
  <2> QED
    BY <2>1, WaitingType
<1>3. CASE queue' = queue
  <2>1. Waiting(a)' = Waiting(a)
    BY <1>3 DEF Waiting
  <2> QED
    BY <2>1, WaitingType
<1> QED
  BY <1>1, <1>2, <1>3

LEMMA QueueKept ==
  ASSUME PipelineTypeOK, UNCHANGED queue
  PROVE  \A a \in Apps : Waiting(a)' = Waiting(a) /\ Waiting(a) \in Nat
<1>1. \A a \in Apps : Waiting(a)' = Waiting(a)
  BY DEF Waiting
<1> QED
  BY <1>1, WaitingType

\* A worker whose task moves on has in hand what it had, or nothing.
LEMMA HandKept ==
  ASSUME NEW w \in Workers, \A v \in Workers \ {w} : task'[v] = task[v],
         \/ task'[w].step \notin Unsent
         \/ task'[w].app = task[w].app /\ task[w].step \in Unsent
  PROVE  \A a \in Apps : InHand(a)' \subseteq InHand(a)
BY DEF InHand

LEMMA SmallerHand ==
  ASSUME NEW a \in Apps, InHand(a)' \subseteq InHand(a)
  PROVE  Cardinality(InHand(a)') \in Nat /\ Cardinality(InHand(a)') <= Cardinality(InHand(a))
BY HandsAndDesks, FS_Subset, FS_CardinalityType

\* A step that sends nothing, asks nothing and only lets go of things keeps the books.
LEMMA AskedForKept ==
  ASSUME PipelineTypeOK, AskedFor, sends' = sends, asks' = asks, redelivered' = redelivered,
         UNCHANGED <<queue, desk>>, \A a \in Apps : InHand(a)' \subseteq InHand(a)
  PROVE  AskedFor'
<1> SUFFICES ASSUME NEW a \in Apps
             PROVE  sends[a] + Waiting(a)' + Cardinality(InHand(a)') + Cardinality(AtDesk(a)')
                      <= asks[a] + redelivered
  BY DEF AskedFor
<1>1. AtDesk(a)' = AtDesk(a)
  BY DEF AtDesk
<1> QED
  BY <1>1, Accounted, QueueKept, SmallerHand

\* Every rung but the click leaves in hand what was there and sends nothing.
LEMMA RungsKeepHands ==
  ASSUME PipelineTypeOK, NEW w \in Workers,
         Ladder(w) \/ RenderError(w) \/ Cancel(w) \/ CancelLate(w), ~Click(w)
  PROVE  /\ sends' = sends
         /\ \A a \in Apps : InHand(a)' \subseteq InHand(a)
<1>1. CASE Load(w) \/ Claim(w)
  <2>1. task[w] \in PipelineTask
    BY <1>1, AtWork DEF Load, Claim, AllSteps, Steps
  <2>2. CASE status[task[w].app] = "ready"
    <3>1. \E s \in {"halt", "apply"}, c \in {"ready", "submitting"} :
            task' = [task EXCEPT ![w].step = s, ![w].copy = c]
      BY <1>1, <2>2 DEF Load, Claim
    <3>2. task'[w].app = task[w].app /\ \A v \in Workers \ {w} : task'[v] = task[v]
      BY <2>1, <3>1 DEF PipelineTypeOK, PipelineTask
    <3>3. task[w].step \in Unsent
      BY <1>1 DEF Load, Claim, Unsent, AllSteps, Steps
    <3> QED
      BY <1>1, <3>2, <3>3, HandKept DEF Load, Claim
  <2>3. CASE status[task[w].app] # "ready"
    BY <1>1, <2>3, Finishes, HandKept DEF Load, Claim, Unsent, AllSteps, Steps, PrepareSteps
  <2> QED
    BY <2>2, <2>3
<1>2. CASE HaltCheck(w) \/ DailyCheck(w) \/ CapacityCheck(w) \/ Render(w) \/ Policy(w)
  <2>1. task[w] \in PipelineTask /\ task[w].step \in Unsent
    BY <1>2, AtWork
       DEF HaltCheck, DailyCheck, CapacityCheck, Render, Policy, Unsent, AllSteps, Steps
  <2>2. Finish(w) \/ \E s \in Steps : Goto(w, s)
    BY <1>2 DEF HaltCheck, DailyCheck, CapacityCheck, Render, Policy, Steps
  <2>3. CASE Finish(w)
    BY <1>2, <2>3, Finishes, HandKept
       DEF HaltCheck, DailyCheck, CapacityCheck, Render, Policy, Unsent, AllSteps, Steps,
           PrepareSteps
  <2>4. CASE \E s \in Steps : Goto(w, s)
    <3>1. task'[w].app = task[w].app /\ \A v \in Workers \ {w} : task'[v] = task[v]
      BY <2>1, <2>4, GoesTo DEF AllSteps
    <3> QED
      BY <1>2, <2>1, <3>1, HandKept DEF HaltCheck, DailyCheck, CapacityCheck, Render, Policy
  <2> QED
    BY <2>2, <2>3, <2>4
<1>3. CASE \/ BelowFloor(w) \/ RenderError(w) \/ Cancel(w) \/ CancelLate(w)
           \/ RecordRehearsal(w) \/ Count(w)
  <2>1. Finish(w) /\ sends' = sends
    BY <1>3 DEF BelowFloor, RenderError, Cancel, CancelLate, RecordRehearsal, Count
  <2> QED
    BY <2>1, Finishes, HandKept DEF Unsent, AllSteps, Steps, PrepareSteps
<1>4. CASE Report(w) \/ RecordAttempt(w)
  <2>1. task[w] \in PipelineTask
    BY <1>4, AtWork DEF Report, AtProvider, RecordAttempt, AllSteps, Steps
  <2>2. task'[w].step \in {"record", "count"} /\ \A v \in Workers \ {w} : task'[v] = task[v]
    BY <1>4, <2>1 DEF Report, RecordAttempt, Goto, PipelineTypeOK, PipelineTask
  <2> QED
    BY <1>4, <2>2, HandKept DEF Report, RecordAttempt, Unsent
<1> QED
  BY <1>1, <1>2, <1>3, <1>4 DEF Ladder, Record

LEMMA ClickKeepsAsked ==
  ASSUME PipelineTypeOK, AskedFor, NEW w \in Workers, Click(w),
         UNCHANGED <<queue, desk, asks, redelivered>>
  PROVE  AskedFor'
<1> DEFINE b == task[w].app
<1>1. task[w] \in PipelineTask /\ b \in Apps
  BY AtWork DEF Click, AllSteps, Steps
<1>2. /\ \A v \in Workers \ {w} : task'[v] = task[v]
      /\ task'[w].step = "clicked" /\ task'[w].app = b
  BY <1>1, GoesTo DEF Click, AllSteps, Steps
<1> SUFFICES ASSUME NEW a \in Apps
             PROVE  sends'[a] + Waiting(a)' + Cardinality(InHand(a)') + Cardinality(AtDesk(a)')
                      <= asks[a] + redelivered
  BY DEF AskedFor
<1>3. InHand(a)' = InHand(a) \ {w}
  BY <1>2 DEF InHand, Unsent
<1>4. AtDesk(a)' = AtDesk(a)
  BY DEF AtDesk
<1>5. CASE a = b
  <2>1. w \in InHand(a)
    BY <1>5 DEF Click, InHand, Unsent, AllSteps, Steps
  <2>2. Cardinality(InHand(a)') = Cardinality(InHand(a)) - 1
    BY <1>3, <2>1, HandsAndDesks, FS_RemoveElement
  <2>3. sends'[a] = sends[a] + 1
    BY <1>1, <1>5 DEF Click, PipelineTypeOK
  <2> QED
    BY <1>4, <2>2, <2>3, Accounted, QueueKept
<1>6. CASE a # b
  <2>1. sends'[a] = sends[a]
    BY <1>6 DEF Click, PipelineTypeOK
  <2>2. InHand(a)' \subseteq InHand(a)
    BY <1>3
  <2> QED
    BY <1>4, <2>1, <2>2, Accounted, QueueKept, SmallerHand
<1> QED
  BY <1>5, <1>6

\* Taking a message moves it from the queue into a hand, or, delivered again, copies it.
LEMMA TakeKeepsAsked ==
  ASSUME PipelineTypeOK, AskedFor, NEW w \in Workers, Take(w)
  PROVE  AskedFor'
<1>1. PICK m \in Message :
        /\ task' = [task EXCEPT ![w] = FreshTask(m)]
        /\ \/ queue' = [queue EXCEPT ![m] = @ - 1] /\ UNCHANGED redelivered
           \/ redelivered' = redelivered + 1 /\ UNCHANGED queue
  BY DEF Take
<1>2. /\ \A v \in Workers \ {w} : task'[v] = task[v]
      /\ task'[w].app = m.app /\ m.app \in Apps
  BY <1>1, MessageFields DEF PipelineTypeOK
<1> SUFFICES ASSUME NEW a \in Apps
             PROVE  sends'[a] + Waiting(a)' + Cardinality(InHand(a)') + Cardinality(AtDesk(a)')
                      <= asks'[a] + redelivered'
  BY DEF AskedFor
<1>3. sends' = sends /\ asks' = asks /\ AtDesk(a)' = AtDesk(a)
  BY DEF Take, AtDesk
<1>4. /\ Cardinality(InHand(a)') \in Nat
      /\ Cardinality(InHand(a)') <= Cardinality(InHand(a)) + (IF m.app = a THEN 1 ELSE 0)
  <2>1. CASE m.app # a
    <3>1. InHand(a)' \subseteq InHand(a)
      BY <1>2, <2>1 DEF InHand
    <3> QED
      BY <2>1, <3>1, SmallerHand, HandsAndDesks
  <2>2. CASE m.app = a
    <3>1. InHand(a)' \subseteq InHand(a) \cup {w}
      BY <1>2 DEF InHand
    <3>2. w \notin InHand(a)
      BY <2>2, <1>2, NoAppAssumption DEF Take, Idle, InHand
    <3>3. /\ IsFiniteSet(InHand(a) \cup {w})
          /\ Cardinality(InHand(a) \cup {w}) = Cardinality(InHand(a)) + 1
      BY <3>2, HandsAndDesks, FS_AddElement
    <3>4. /\ Cardinality(InHand(a)') <= Cardinality(InHand(a) \cup {w})
          /\ Cardinality(InHand(a)') \in Nat
      BY <3>1, <3>3, FS_Subset, FS_CardinalityType
    <3> QED
      BY <2>2, <3>3, <3>4, HandsAndDesks
  <2> QED
    BY <2>1, <2>2
<1>5. CASE redelivered' = redelivered + 1 /\ UNCHANGED queue
  BY <1>3, <1>4, <1>5, Accounted, QueueKept
<1>6. CASE queue' = [queue EXCEPT ![m] = @ - 1] /\ UNCHANGED redelivered
  <2>1. queue[m] \in Int /\ -1 \in Int
    BY BoundsAssumption DEF PipelineTypeOK
  <2>2. queue' = [queue EXCEPT ![m] = @ + (-1)]
    BY <1>6, <2>1
  <2>3. Waiting(a)' = Waiting(a) + (IF m.app = a THEN -1 ELSE 0)
    BY <2>1, <2>2, WaitingChanges, Zenon
  <2> QED
    BY <1>3, <1>4, <1>6, <2>3, Accounted
<1> QED
  BY <1>1, <1>5, <1>6

\* The preparation hands its task over to the queue or to the ladder, never to both.
LEMMA HandoverKeepsAsked ==
  ASSUME PipelineTypeOK, AskedFor, NEW w \in Workers, Handover(w)
  PROVE  AskedFor'
<1> DEFINE b == task[w].app
<1>1. task[w] \in PipelineTask /\ b \in Apps /\ task[w].step \in Unsent
  BY AtWork DEF Handover, Unsent, AllSteps, PrepareSteps
<1>2. CASE Goto(w, "halt") /\ UNCHANGED queue
  <2>1. task'[w].app = b /\ \A v \in Workers \ {w} : task'[v] = task[v]
    BY <1>1, <1>2, GoesTo DEF AllSteps, Steps
  <2> QED
    BY <1>1, <1>2, <2>1, HandKept, AskedForKept DEF Handover
<1>3. CASE Finish(w) /\ UNCHANGED queue
  <2>1. task'[w].step \notin Unsent /\ \A v \in Workers \ {w} : task'[v] = task[v]
    BY <1>3, Finishes DEF Unsent, AllSteps, Steps, PrepareSteps
  <2> QED
    BY <1>3, <2>1, HandKept, AskedForKept DEF Handover
<1>4. CASE Finish(w) /\ Enqueue(Submit(b, FALSE))
  <2> SUFFICES ASSUME NEW a \in Apps
               PROVE  sends[a] + Waiting(a)' + Cardinality(InHand(a)') + Cardinality(AtDesk(a)')
                        <= asks[a] + redelivered
    BY DEF AskedFor, Handover
  <2>1. AtDesk(a)' = AtDesk(a)
    BY DEF AtDesk, Handover
  <2>2. InHand(a)' = InHand(a) \ {w}
    BY <1>4, Finishes DEF InHand, Unsent, AllSteps, Steps, PrepareSteps
  <2>3. /\ Waiting(a)' \in Nat
        /\ Waiting(a)' <= Waiting(a) + (IF b = a THEN 1 ELSE 0)
    <3>1. Submit(b, FALSE) \in Message /\ Submit(b, FALSE).app = b
      BY <1>1, MessagesAre
    <3>2. /\ Waiting(a)' \in Nat
          /\ Waiting(a)' <= Waiting(a) + (IF Submit(b, FALSE).app = a THEN 1 ELSE 0)
      BY <1>4, <3>1, EnqueueAdds, Zenon
    <3> QED
      BY <3>1, <3>2
  <2>4. CASE a = b
    <3>1. w \in InHand(a)
      BY <1>1, <2>4 DEF InHand
    <3>2. Cardinality(InHand(a)') = Cardinality(InHand(a)) - 1
      BY <2>2, <3>1, HandsAndDesks, FS_RemoveElement
    <3> QED
      BY <2>1, <2>3, <2>4, <3>2, Accounted
  <2>5. CASE a # b
    <3>1. InHand(a)' \subseteq InHand(a)
      BY <2>2
    <3> QED
      BY <2>1, <2>3, <2>5, <3>1, SmallerHand, Accounted
  <2> QED
    BY <2>4, <2>5
<1> QED
  BY <1>2, <1>3, <1>4 DEF Handover

\* A request puts what was asked on a desk; a resolved one puts it on the queue.
LEMMA OpenKeepsAsked ==
  ASSUME PipelineTypeOK, AskedFor, NEW d \in Desks, OpenRequest(d)
  PROVE  AskedFor'
<1>1. PICK r \in Request : Ask(r.app) /\ desk' = [desk EXCEPT ![d] = r]
  BY DEF OpenRequest
<1>2. r.app \in Apps /\ desk'[d] = r /\ \A e \in Desks \ {d} : desk'[e] = desk[e]
  BY <1>1, RequestFields DEF PipelineTypeOK
<1>3. UNCHANGED <<sends, queue, redelivered, task>>
  BY DEF OpenRequest, vars
<1> SUFFICES ASSUME NEW a \in Apps
             PROVE  sends[a] + Waiting(a)' + Cardinality(InHand(a)') + Cardinality(AtDesk(a)')
                      <= asks'[a] + redelivered
  BY <1>3 DEF AskedFor
<1>4. InHand(a)' = InHand(a)
  BY <1>3 DEF InHand
<1>5. Waiting(a)' = Waiting(a)
  BY <1>3, QueueKept
<1>6. asks'[a] = asks[a] + (IF r.app = a THEN 1 ELSE 0)
  BY <1>1, <1>2, BoundsAssumption DEF Ask, PipelineTypeOK
<1>7. CASE r.app # a
  <2>1. AtDesk(a)' \subseteq AtDesk(a)
    BY <1>2, <1>7 DEF AtDesk
  <2>2. Cardinality(AtDesk(a)') \in Nat /\ Cardinality(AtDesk(a)') <= Cardinality(AtDesk(a))
    BY <2>1, HandsAndDesks, FS_Subset, FS_CardinalityType
  <2> QED
    BY <1>4, <1>5, <1>6, <1>7, <2>2, Accounted
<1>8. CASE r.app = a
  <2>1. AtDesk(a)' = AtDesk(a) \cup {d}
    BY <1>2, <1>8 DEF AtDesk
  <2>2. d \notin AtDesk(a)
    BY NoAppAssumption DEF OpenRequest, Free, AtDesk
  <2>3. Cardinality(AtDesk(a)') = Cardinality(AtDesk(a)) + 1
    BY <2>1, <2>2, HandsAndDesks, FS_AddElement
  <2> QED
    BY <1>4, <1>5, <1>6, <1>8, <2>3, Accounted
<1> QED
  BY <1>7, <1>8

LEMMA CloseKeepsAsked ==
  ASSUME PipelineTypeOK, AskedFor, NEW d \in Desks, CloseRequest(d)
  PROVE  AskedFor'
<1> DEFINE r == desk[d]
<1>1. r \in Request /\ r.app \in Apps
  BY RequestFields DEF CloseRequest, PipelineTypeOK
<1>2. UNCHANGED <<sends, asks, redelivered, task>>
  BY DEF CloseRequest
<1>3. Enqueue(Submit(r.app, TRUE)) \/ UNCHANGED queue
  BY DEF CloseRequest
<1> SUFFICES ASSUME NEW a \in Apps
             PROVE  sends[a] + Waiting(a)' + Cardinality(InHand(a)') + Cardinality(AtDesk(a)')
                      <= asks[a] + redelivered
  BY <1>2 DEF AskedFor
<1>4. InHand(a)' = InHand(a)
  BY <1>2 DEF InHand
<1>5. AtDesk(a)' = AtDesk(a) \ {d}
  BY NoAppAssumption DEF CloseRequest, Free, AtDesk, PipelineTypeOK
<1>6. /\ Waiting(a)' \in Nat
      /\ Waiting(a)' <= Waiting(a) + (IF r.app = a THEN 1 ELSE 0)
  <2>1. CASE UNCHANGED queue
    <3>1. Waiting(a)' = Waiting(a)
      BY <2>1, QueueKept
    <3> QED
      BY <3>1, WaitingType
  <2>2. CASE Enqueue(Submit(r.app, TRUE))
    <3>1. Submit(r.app, TRUE) \in Message /\ Submit(r.app, TRUE).app = r.app
      BY <1>1, MessagesAre
    <3>2. /\ Waiting(a)' \in Nat
          /\ Waiting(a)' <= Waiting(a) + (IF Submit(r.app, TRUE).app = a THEN 1 ELSE 0)
      BY <2>2, <3>1, EnqueueAdds, Zenon
    <3> QED
      BY <3>1, <3>2
  <2> QED
    BY <1>3, <2>1, <2>2
<1>7. CASE r.app = a
  <2>1. d \in AtDesk(a)
    BY <1>7 DEF AtDesk
  <2>2. Cardinality(AtDesk(a)') = Cardinality(AtDesk(a)) - 1
    BY <1>5, <2>1, HandsAndDesks, FS_RemoveElement
  <2> QED
    BY <1>4, <1>6, <1>7, <2>2, Accounted
<1>8. CASE r.app # a
  <2>1. AtDesk(a)' \subseteq AtDesk(a)
    BY <1>5
  <2>2. Cardinality(AtDesk(a)') \in Nat /\ Cardinality(AtDesk(a)') <= Cardinality(AtDesk(a))
    BY <2>1, HandsAndDesks, FS_Subset, FS_CardinalityType
  <2> QED
    BY <1>4, <1>6, <1>8, <2>2, Accounted
<1> QED
  BY <1>7, <1>8

LEMMA AskKeepsAsked ==
  ASSUME PipelineTypeOK, AskedFor, NEW m \in Message, AskFor(m)
  PROVE  AskedFor'
<1>1. UNCHANGED <<sends, redelivered, task, desk>> /\ Enqueue(m)
  BY DEF AskFor, vars
<1> SUFFICES ASSUME NEW a \in Apps
             PROVE  sends[a] + Waiting(a)' + Cardinality(InHand(a)') + Cardinality(AtDesk(a)')
                      <= asks'[a] + redelivered
  BY <1>1 DEF AskedFor
<1>2. InHand(a)' = InHand(a) /\ AtDesk(a)' = AtDesk(a)
  BY <1>1 DEF InHand, AtDesk
<1>3. /\ Waiting(a)' \in Nat
      /\ Waiting(a)' <= Waiting(a) + (IF m.app = a THEN 1 ELSE 0)
  BY <1>1, EnqueueAdds, Zenon
<1>4. asks'[a] = asks[a] + (IF m.app = a THEN 1 ELSE 0)
  BY MessageFields, BoundsAssumption DEF AskFor, Ask, PipelineTypeOK
<1> QED
  BY <1>2, <1>3, <1>4, Accounted

\* Whatever is sent, waits, is in hand or lies open on a desk was asked for once, or its
\* message was delivered a second time: no step of the journey makes two of one request.
THEOREM JourneyIsConserved == PipelineSpec => []AskedFor
<1>1. PipelineInit => AskedFor
  <2> SUFFICES ASSUME PipelineInit, NEW a \in Apps
               PROVE  sends[a] + Waiting(a) + Cardinality(InHand(a)) + Cardinality(AtDesk(a))
                        <= asks[a] + redelivered
    BY DEF AskedFor
  <2>1. InHand(a) = {} /\ AtDesk(a) = {}
    BY NoAppAssumption DEF PipelineInit, InHand, AtDesk, Idle, Free
  <2>2. Waiting(a) = 0
    <3>1. \A m \in Message : queue[m] = 0
      BY DEF PipelineInit
    <3>2. /\ queue[Msg("submit", a, TRUE)] = 0 /\ queue[Msg("submit", a, FALSE)] = 0
          /\ queue[Msg("prepare", a, TRUE)] = 0 /\ queue[Msg("prepare", a, FALSE)] = 0
          /\ queue[Msg("run_one", a, TRUE)] = 0 /\ queue[Msg("run_one", a, FALSE)] = 0
      BY <3>1, MsgIsMessage, Zenon DEF Kinds
    <3>3. 0 + 0 + 0 + 0 + 0 + 0 = 0
      OBVIOUS
    <3> QED
      BY <3>2, <3>3, Zenon DEF Waiting
  <2> QED
    BY <2>1, <2>2, FS_EmptySet DEF PipelineInit
<1>2. PipelineTypeOK /\ AskedFor /\ [PipelineNext]_pipelineVars => AskedFor'
  <2> SUFFICES ASSUME PipelineTypeOK, AskedFor, [PipelineNext]_pipelineVars PROVE AskedFor'
    OBVIOUS
  <2>1. ASSUME NEW a \in Apps, ApplyRequest(a) \/ RetryRequest(a)
                               \/ RunLoopDispatch(a) \/ DiscoveryDispatch(a)
        PROVE  AskedFor'
    BY <2>1, MessagesAre, AskKeepsAsked
       DEF ApplyRequest, RetryRequest, RunLoopDispatch, DiscoveryDispatch
  <2>2. ASSUME NEW w \in Workers, Refuse(w) \/ Die(w) PROVE AskedFor'
    <3>1. task'[w].step \notin Unsent /\ \A v \in Workers \ {w} : task'[v] = task[v]
      BY <2>2, Finishes DEF Refuse, Die, Unsent, AllSteps, Steps, PrepareSteps
    <3> QED
      BY <2>2, <3>1, HandKept, AskedForKept DEF Refuse, Die
  <2>3. ASSUME NEW w \in Workers, Create(w) \/ BeginPreparing(w) \/ Generate(w)
        PROVE  AskedFor'
    <3>1. task[w] \in PipelineTask /\ task[w].step \in Unsent
      BY <2>3, AtWork DEF Create, BeginPreparing, Generate, Unsent, AllSteps, PrepareSteps
    <3>2. task'[w].app = task[w].app /\ \A v \in Workers \ {w} : task'[v] = task[v]
      BY <2>3, <3>1 DEF Create, BeginPreparing, Generate, PipelineTypeOK, PipelineTask
    <3> QED
      BY <2>3, <3>1, <3>2, HandKept, AskedForKept DEF Create, BeginPreparing, Generate
  <2>4. ASSUME NEW w \in Workers, Climbing(w) PROVE AskedFor'
    <3>1. CASE Click(w)
      BY <2>4, <3>1, ClickKeepsAsked DEF Climbing
    <3>2. CASE ~Click(w)
      BY <2>4, <3>2, RungsKeepHands, AskedForKept DEF Climbing
    <3> QED
      BY <3>1, <3>2
  <2>5. CASE RunStops \/ UNCHANGED pipelineVars
    <3>1. UNCHANGED <<sends, asks, redelivered, queue, desk, task>>
      BY <2>5 DEF RunStops, StopRequested, RunEnds, pipelineVars, vars
    <3>2. \A a \in Apps : InHand(a)' \subseteq InHand(a)
      BY <3>1 DEF InHand
    <3> QED
      BY <3>1, <3>2, AskedForKept
  <2> QED
    BY <2>1, <2>2, <2>3, <2>4, <2>5, TakeKeepsAsked, HandoverKeepsAsked, OpenKeepsAsked,
       CloseKeepsAsked DEF PipelineNext, Preparing
<1> QED
  BY <1>1, <1>2, JourneyTypes, PTL DEF PipelineSpec

\* Where every message is delivered once, nothing is sent more often than somebody asked
\* for it, with any number of workers and any crashes.
THEOREM NothingIsSentUnasked ==
  ASSUME MaxRedelivered = 0
  PROVE  PipelineSpec => []NeverUnasked
<1>1. PipelineTypeOK /\ AskedFor => NeverUnasked
  <2> SUFFICES ASSUME PipelineTypeOK, AskedFor, NEW a \in Apps PROVE sends[a] <= asks[a]
    BY DEF NeverUnasked
  <2>1. redelivered = 0
    BY DEF PipelineTypeOK
  <2> QED
    BY <2>1, Accounted
<1> QED
  BY <1>1, JourneyTypes, JourneyIsConserved, PTL

-----------------------------------------------------------------------------
(* One worker and no open request: the copy is the row, so the pipeline keeps what *)
(* the state machine promises.                                                      *)

\* What the worker holds in memory is what the table says, from rung to rung.
CopyIsRow(w) ==
  LET t == task[w]
  IN  /\ t.step \in {"halt", "daily", "capacity", "policy", "render", "claim"}
           => t.copy = "ready" /\ status[t.app] = "ready"
      /\ t.step \in {"claim", "clicked"} => ~Rehearsal
      /\ t.step \in {"apply", "clicked", "record"}
           => /\ t.copy = IF Rehearsal THEN "ready" ELSE "submitting"
              /\ status[t.app] = t.copy
      /\ t.step \in {"begin", "generate", "handover"}
           => status[t.app] = t.copy /\ t.copy \in Status
      /\ t.step = "begin" => t.copy \in Preparable
      /\ t.step = "generate" => t.copy = "preparing"

Open == [a \in Apps |-> \E w \in Workers : w \in Holders(a)]

\* A step of the state machine, or none.
Lawful == [Machine!Next]_(Machine!lifecycleVars)

LEMMA KeepsCopy ==
  ASSUME PipelineTypeOK, NEW w \in Workers, task[w] \in PipelineTask,
         NEW s \in AllSteps, Goto(w, s)
  PROVE  task'[w].step = s /\ task'[w].copy = task[w].copy /\ task'[w].app = task[w].app
BY DEF PipelineTypeOK, Goto, PipelineTask, AllSteps

\* A worker that holds nothing after a step which wrote and sent nothing gave up at most.
LEMMA QuietIsLawful ==
  ASSUME PipelineTypeOK, NEW w, Workers = {w}, status' = status, sends' = sends,
         task'[w].step # "apply" \/ Rehearsal
  PROVE  Lawful
<1>1. Open' = [a \in Apps |-> FALSE]
  BY DEF Open, Holders, Rehearsal
<1>2. CASE \E a \in Apps : Open[a]
  <2>1. PICK a \in Apps : Open[a]
    BY <1>2
  <2>2. Open = [b \in Apps |-> b = a]
    BY <2>1 DEF Open, Holders
  <2>3. Open' = [Open EXCEPT ![a] = FALSE]
    BY <1>1, <2>2
  <2>4. Machine!GiveUp(a)
    BY <2>1, <2>3 DEF Machine!GiveUp, Open
  <2> QED
    BY <2>4 DEF Lawful, Machine!Next
<1>3. CASE \A a \in Apps : ~Open[a]
  <2>1. Open' = Open
    BY <1>1, <1>3 DEF Open
  <2> QED
    BY <2>1 DEF Lawful, Machine!lifecycleVars, Open
<1> QED
  BY <1>2, <1>3

\* A checked write along an edge of the table is a move of the state machine.
LEMMA BlindIsLawful ==
  ASSUME PipelineTypeOK, NEW w, Workers = {w}, NEW a \in Apps, a = task[w].app,
         status[a] \in Status, NEW t \in Status \ {"submitting"}, Blind(a, status[a], t),
         sends' = sends, task'[w].step # "apply"
  PROVE  Lawful
<1>1. CASE t = status[a]
  BY <1>1, QuietIsLawful DEF Blind
<1>2. CASE t # status[a]
  <2>1. t \in Allowed[status[a]] /\ status' = [status EXCEPT ![a] = t]
    BY <1>2 DEF Blind, CanTransition
  <2>2. Open' = [b \in Apps |-> FALSE]
    BY DEF Open, Holders
  <2>3. \A b \in Apps : b # a => ~Open[b]
    BY DEF Open, Holders
  <2>4. Open' = [Open EXCEPT ![a] = (t = "submitting")]
    BY <2>2, <2>3 DEF Open
  <2>5. status[a] # NoRow
    BY SomeStatuses
  <2>6. Machine!Allowed = Allowed /\ Machine!NoRow = NoRow
    BY DEF Machine!Allowed, Allowed, Machine!NoRow, NoRow
  <2>7. t \in Machine!Allowed[status[a]]
    BY <2>1, <2>6
  <2>8. Machine!Move(a)
    BY <2>1, <2>4, <2>5, <2>6, <2>7 DEF Machine!Move, Open
  <2> QED
    BY <2>8 DEF Lawful, Machine!Next
<1> QED
  BY <1>1, <1>2

\* Idle, taken from the queue, or past its last write: nothing is claimed of the copy.
LEMMA CopyUnused ==
  ASSUME NEW w \in Workers, task'[w].step \in {"idle", "load", "create", "count"}
  PROVE  CopyIsRow(w)'
BY DEF CopyIsRow

LEMMA FinishIsLawful ==
  ASSUME PipelineTypeOK, NEW w, Workers = {w}, Finish(w), status' = status, sends' = sends
  PROVE  CopyIsRow(w)' /\ Lawful
<1>1. w \in Workers
  OBVIOUS
<1> QED
  BY <1>1, Finishes, CopyUnused, QuietIsLawful

\* The preparation, and whatever takes or drops a task, moves rows lawfully.
LEMMA PreparingIsLawful ==
  ASSUME PipelineTypeOK, NEW w, Workers = {w}, CopyIsRow(w),
         Take(w) \/ Preparing(w) \/ Die(w)
  PROVE  CopyIsRow(w)' /\ Lawful
<1> DEFINE a == task[w].app
<1>1. w \in Workers
  OBVIOUS
<1>2. CASE Take(w)
  <2>1. PICK m \in Message : task' = [task EXCEPT ![w] = FreshTask(m)]
    BY <1>2 DEF Take
  <2>2. task'[w].step \in {"load", "create"}
    BY <1>1, <2>1, MessageFields DEF PipelineTypeOK
  <2>3. status' = status /\ sends' = sends
    BY <1>2 DEF Take
  <2> QED
    BY <1>1, <2>2, <2>3, CopyUnused, QuietIsLawful
<1>3. CASE Refuse(w) \/ Die(w)
  BY <1>3, FinishIsLawful DEF Refuse, Die
<1>4. CASE Create(w)
  <2>1. task[w] \in PipelineTask /\ a \in Apps
    BY <1>1, <1>4, AtWork DEF Create, AllSteps, PrepareSteps
  <2>2. PICK row \in Status, s \in {"begin", "handover"} :
          /\ row = IF status[a] = NoRow THEN "draft" ELSE status[a]
          /\ s = "begin" => row \in Preparable
          /\ task' = [task EXCEPT ![w].copy = row, ![w].step = s]
          /\ status' = [status EXCEPT ![a] = row]
    <3> DEFINE r == IF status[a] = NoRow THEN "draft" ELSE status[a]
    <3>1. r \in Status
      BY <2>1, SomeStatuses DEF PipelineTypeOK
    <3> QED
      BY <1>4, <3>1 DEF Create
  <2>3. sends' = sends
    BY <1>4 DEF Create
  <2>4. task'[w].step = s /\ task'[w].copy = row /\ task'[w].app = a
    BY <1>1, <2>1, <2>2, CopiesAndGoes DEF AllSteps, PrepareSteps
  <2>5. status'[a] = row
    BY <2>1, <2>2 DEF PipelineTypeOK
  <2>6. CopyIsRow(w)'
    BY <2>2, <2>4, <2>5 DEF CopyIsRow
  <2>7. CASE status[a] # NoRow
    <3>1. status' = status
      BY <2>1, <2>2, <2>7 DEF PipelineTypeOK
    <3> QED
      BY <2>2, <2>3, <2>4, <2>6, <3>1, QuietIsLawful
  <2>8. CASE status[a] = NoRow
    <3>1. Open = [b \in Apps |-> FALSE] /\ Open' = [b \in Apps |-> FALSE]
      BY <1>4, <2>4 DEF Create, Open, Holders
    <3>2. Machine!NoRow = NoRow
      BY DEF Machine!NoRow, NoRow
    <3>3. Machine!Create(a)
      BY <2>2, <2>3, <2>8, <3>1, <3>2 DEF Machine!Create, Open
    <3>4. Machine!Next
      BY <2>1, <3>3 DEF Machine!Next
    <3> QED
      BY <2>6, <3>4 DEF Lawful
  <2> QED
    BY <2>7, <2>8
<1>5. CASE BeginPreparing(w) \/ Generate(w)
  <2>1. task[w] \in PipelineTask /\ a \in Apps
    BY <1>1, <1>5, AtWork DEF BeginPreparing, Generate, AllSteps, PrepareSteps
  <2>2. task[w].copy = status[a] /\ status[a] \in Status
    BY <1>5 DEF BeginPreparing, Generate, CopyIsRow
  <2>3. PICK t \in {"preparing", "ready", "needs_review", "failed"},
             s \in {"generate", "handover"} :
          /\ Blind(a, status[a], t)
          /\ task' = [task EXCEPT ![w].copy = t, ![w].step = s]
          /\ s = "generate" => t = "preparing"
    BY <1>5, <2>2 DEF BeginPreparing, Generate
  <2>4. t \in Status \ {"submitting"} /\ s \in AllSteps
    BY SomeStatuses DEF AllSteps, PrepareSteps
  <2>5. task'[w].step = s /\ task'[w].copy = t /\ task'[w].app = a
    BY <1>1, <2>1, <2>3, <2>4, CopiesAndGoes
  <2>6. status'[a] = t
    BY <2>1, <2>2, <2>3 DEF Blind, PipelineTypeOK
  <2>7. CopyIsRow(w)'
    BY <2>3, <2>4, <2>5, <2>6 DEF CopyIsRow
  <2>8. sends' = sends /\ task'[w].step # "apply"
    BY <1>5, <2>5 DEF BeginPreparing, Generate
  <2> QED
    BY <2>1, <2>2, <2>3, <2>4, <2>7, <2>8, BlindIsLawful
<1>6. CASE Handover(w)
  <2>1. task[w] \in PipelineTask
    BY <1>1, <1>6, AtWork DEF Handover, AllSteps, PrepareSteps
  <2>2. status' = status /\ sends' = sends
    BY <1>6 DEF Handover
  <2>3. CASE Finish(w)
    BY <2>2, <2>3, FinishIsLawful
  <2>4. CASE Goto(w, "halt") /\ task[w].copy = "ready"
    <3>1. task'[w].step = "halt" /\ task'[w].copy = "ready" /\ task'[w].app = a
      BY <1>1, <2>1, <2>4, KeepsCopy DEF AllSteps, Steps
    <3>2. status[a] = "ready"
      BY <1>6, <2>4 DEF Handover, CopyIsRow
    <3>3. CopyIsRow(w)'
      BY <2>2, <3>1, <3>2 DEF CopyIsRow
    <3> QED
      BY <2>2, <3>1, <3>3, QuietIsLawful
  <2> QED
    BY <1>6, <2>3, <2>4 DEF Handover
<1> QED
  BY <1>2, <1>3, <1>4, <1>5, <1>6 DEF Preparing

\* The rungs of the ladder move the row lawfully, and the form goes out while it is in
\* flight.
LEMMA ClimbingIsLawful ==
  ASSUME PipelineTypeOK, NEW w, Workers = {w}, CopyIsRow(w), Climbing(w)
  PROVE  CopyIsRow(w)' /\ Lawful
<1> DEFINE a == task[w].app
<1>1. w \in Workers
  OBVIOUS
<1>2. CASE Load(w)
  <2>1. task[w] \in PipelineTask
    BY <1>1, <1>2, AtWork DEF Load, AllSteps, Steps
  <2>2. status' = status /\ sends' = sends
    BY <1>2 DEF Load
  <2>3. CASE status[a] = "ready"
    <3>1. task' = [task EXCEPT ![w].step = "halt", ![w].copy = "ready"]
      BY <1>2, <2>3 DEF Load
    <3>2. task'[w].step = "halt" /\ task'[w].copy = "ready" /\ task'[w].app = a
      BY <1>1, <2>1, <3>1 DEF PipelineTypeOK, PipelineTask
    <3>3. CopyIsRow(w)'
      BY <2>2, <2>3, <3>2 DEF CopyIsRow
    <3> QED
      BY <2>2, <3>2, <3>3, QuietIsLawful
  <2>4. CASE status[a] # "ready"
    BY <1>2, <2>2, <2>4, FinishIsLawful DEF Load
  <2> QED
    BY <2>3, <2>4
<1>3. CASE HaltCheck(w) \/ DailyCheck(w) \/ CapacityCheck(w) \/ BelowFloor(w)
  <2>1. task[w] \in PipelineTask
    BY <1>1, <1>3, AtWork
       DEF HaltCheck, DailyCheck, CapacityCheck, BelowFloor, AllSteps, Steps
  <2>2. status' = status /\ sends' = sends
    BY <1>3 DEF HaltCheck, DailyCheck, CapacityCheck, BelowFloor
  <2>3. Finish(w) \/ \E s \in {"daily", "capacity", "policy"} : Goto(w, s)
    BY <1>3 DEF HaltCheck, DailyCheck, CapacityCheck, BelowFloor
  <2>4. CASE \E s \in {"daily", "capacity", "policy"} : Goto(w, s)
    <3>1. PICK s \in {"daily", "capacity", "policy"} : Goto(w, s)
      BY <2>4
    <3>2. task'[w].step = s /\ task'[w].copy = task[w].copy /\ task'[w].app = a
      BY <1>1, <2>1, <3>1, KeepsCopy DEF AllSteps, Steps
    <3>3. task[w].copy = "ready" /\ status[a] = "ready"
      BY <1>3 DEF HaltCheck, DailyCheck, CapacityCheck, BelowFloor, CopyIsRow
    <3>4. CopyIsRow(w)'
      BY <2>2, <3>2, <3>3 DEF CopyIsRow
    <3> QED
      BY <2>2, <3>2, <3>4, QuietIsLawful
  <2> QED
    BY <2>2, <2>3, <2>4, FinishIsLawful
<1>4. CASE Policy(w) \/ RenderError(w) \/ RecordRehearsal(w)
  <2>1. task[w] \in PipelineTask /\ a \in Apps
    BY <1>1, <1>4, AtWork DEF Policy, RenderError, RecordRehearsal, AllSteps, Steps
  <2>2. sends' = sends
    BY <1>4 DEF Policy, RenderError, RecordRehearsal
  <2>3. status[a] = task[w].copy /\ status[a] \in Status
    BY <1>4, SomeStatuses DEF Policy, RenderError, RecordRehearsal, CopyIsRow
  <2>4. \/ Goto(w, "render") /\ UNCHANGED status /\ task[w].step = "policy"
        \/ Finish(w) /\ UNCHANGED status
        \/ Finish(w) /\ \E t \in {"needs_review", "failed"} : Blind(a, status[a], t)
    BY <1>4, <2>3 DEF Policy, RenderError, RecordRehearsal
  <2>5. CASE Goto(w, "render") /\ UNCHANGED status /\ task[w].step = "policy"
    <3>1. task'[w].step = "render" /\ task'[w].copy = task[w].copy /\ task'[w].app = a
      BY <1>1, <2>1, <2>5, KeepsCopy DEF AllSteps, Steps
    <3>2. CopyIsRow(w)'
      BY <2>5, <3>1 DEF CopyIsRow
    <3> QED
      BY <2>2, <2>5, <3>1, <3>2, QuietIsLawful
  <2>6. CASE Finish(w) /\ \E t \in {"needs_review", "failed"} : Blind(a, status[a], t)
    <3>1. task'[w].step = "idle"
      BY <1>1, <2>6, Finishes
    <3>2. PICK t \in {"needs_review", "failed"} : Blind(a, status[a], t)
      BY <2>6
    <3>3. t \in Status \ {"submitting"}
      BY SomeStatuses
    <3>4. CopyIsRow(w)'
      BY <1>1, <3>1, CopyUnused
    <3>5. task'[w].step # "apply"
      BY <3>1
    <3> QED
      BY <2>1, <2>2, <2>3, <3>2, <3>3, <3>4, <3>5, BlindIsLawful
  <2> QED
    BY <2>2, <2>4, <2>5, <2>6, FinishIsLawful
<1>5. CASE Render(w)
  <2>1. task[w] \in PipelineTask
    BY <1>1, <1>5, AtWork DEF Render, AllSteps, Steps
  <2>2. status' = status /\ sends' = sends
    BY <1>5 DEF Render
  <2>3. /\ task'[w].step = IF Rehearsal THEN "apply" ELSE "claim"
        /\ task'[w].copy = task[w].copy /\ task'[w].app = a
    BY <1>1, <1>5, <2>1, KeepsCopy DEF Render, AllSteps, Steps
  <2>4. task[w].copy = "ready" /\ status[a] = "ready"
    BY <1>5 DEF Render, CopyIsRow
  <2>5. CopyIsRow(w)'
    BY <2>2, <2>3, <2>4 DEF CopyIsRow, Rehearsal
  <2> QED
    BY <2>2, <2>3, <2>5, QuietIsLawful
<1>6. CASE Claim(w)
  <2>1. task[w] \in PipelineTask /\ a \in Apps
    BY <1>1, <1>6, AtWork DEF Claim, AllSteps, Steps
  <2>2. status[a] = "ready" /\ ~Rehearsal
    BY <1>6 DEF Claim, CopyIsRow
  <2>3. /\ status' = [status EXCEPT ![a] = "submitting"] /\ sends' = sends
        /\ task' = [task EXCEPT ![w].step = "apply", ![w].copy = "submitting"]
    BY <1>6, <2>2 DEF Claim
  <2>4. /\ task'[w].step = "apply" /\ task'[w].copy = "submitting" /\ task'[w].app = a
        /\ status'[a] = "submitting"
    BY <1>1, <2>1, <2>3 DEF PipelineTypeOK, PipelineTask
  <2>5. CopyIsRow(w)'
    BY <2>2, <2>4 DEF CopyIsRow, Rehearsal
  <2>6. Open = [b \in Apps |-> FALSE] /\ Open' = [b \in Apps |-> b = a]
    BY <1>6, <2>2, <2>4 DEF Claim, Open, Holders, Rehearsal
  <2>7. Open' = [Open EXCEPT ![a] = ("submitting" = "submitting")]
    BY <2>1, <2>6
  <2>8. Machine!Allowed = Allowed /\ Machine!NoRow = NoRow /\ NoRow # "ready"
        /\ "submitting" \in Allowed["ready"]
    BY DEF Machine!Allowed, Allowed, Machine!NoRow, NoRow
  <2>9. PICK b \in Apps : b = a
    BY <2>1
  <2>10. Machine!Next
    <3>1. Machine!Move(b)
      BY <2>2, <2>3, <2>7, <2>8, <2>9 DEF Machine!Move, Open
    <3> QED
      BY <3>1 DEF Machine!Next
  <2> QED
    BY <2>5, <2>10 DEF Lawful
<1>7. CASE Click(w)
  <2>1. task[w] \in PipelineTask /\ a \in Apps
    BY <1>1, <1>7, AtWork DEF Click, AllSteps, Steps
  <2>2. /\ status' = status /\ ~Rehearsal
        /\ sends' = [sends EXCEPT ![a] = @ + 1]
    BY <1>7 DEF Click
  <2>3. task'[w].step = "clicked" /\ task'[w].copy = task[w].copy /\ task'[w].app = a
    BY <1>1, <1>7, <2>1, KeepsCopy DEF Click, AllSteps, Steps
  <2>4. status[a] = "submitting" /\ task[w].copy = "submitting"
    BY <1>7, <2>2 DEF Click, CopyIsRow
  <2>5. CopyIsRow(w)'
    BY <2>2, <2>3, <2>4 DEF CopyIsRow, Rehearsal
  <2>6. Open = [b \in Apps |-> b = a] /\ Open' = [b \in Apps |-> FALSE]
    BY <1>7, <2>2, <2>3 DEF Click, Open, Holders
  <2>7. Open' = [Open EXCEPT ![a] = FALSE] /\ Open[a]
    BY <2>1, <2>6
  <2>8. PICK b \in Apps : b = a
    BY <2>1
  <2>9. Machine!Next
    <3>1. Machine!Send(b)
      BY <2>2, <2>4, <2>7, <2>8 DEF Machine!Send, Open
    <3> QED
      BY <3>1 DEF Machine!Next
  <2> QED
    BY <2>5, <2>9 DEF Lawful
<1>8. CASE Report(w)
  <2>1. task[w] \in PipelineTask
    BY <1>1, <1>8, AtWork DEF Report, AtProvider, AllSteps, Steps
  <2>2. PICK r \in Reported : task' = [task EXCEPT ![w].step = "record", ![w].reported = r]
    BY <1>8 DEF Report
  <2>3. task'[w].step = "record" /\ task'[w].copy = task[w].copy /\ task'[w].app = a
    BY <1>1, <2>1, <2>2 DEF PipelineTypeOK, PipelineTask
  <2>4. status' = status /\ sends' = sends
    BY <1>8 DEF Report
  <2>5. CopyIsRow(w)'
    BY <1>8, <2>3, <2>4 DEF Report, AtProvider, CopyIsRow, Rehearsal
  <2> QED
    BY <2>3, <2>4, <2>5, QuietIsLawful
<1>9. CASE RecordAttempt(w)
  <2>1. task[w] \in PipelineTask /\ a \in Apps
    BY <1>1, <1>9, AtWork DEF RecordAttempt, AllSteps, Steps
  <2>2. task[w].copy = status[a] /\ status[a] \in Status
    BY <1>9, SomeStatuses DEF RecordAttempt, CopyIsRow
  <2>3. task'[w].step = "count"
    BY <1>1, <1>9, <2>1, KeepsCopy DEF RecordAttempt, AllSteps, Steps
  <2>4. CopyIsRow(w)' /\ task'[w].step # "apply"
    BY <1>1, <2>3, CopyUnused
  <2>5. FinalTarget(task[w].reported) \in Status \ {"submitting"}
    BY SomeStatuses DEF FinalTarget, ApplyTargets
  <2>6. Blind(a, status[a], FinalTarget(task[w].reported)) /\ sends' = sends
    BY <1>9, <2>2 DEF RecordAttempt
  <2> QED
    BY <2>1, <2>2, <2>4, <2>5, <2>6, BlindIsLawful
<1>10. CASE Count(w) \/ CancelLate(w)
  BY <1>10, FinishIsLawful DEF Count, CancelLate
<1>11. CASE Cancel(w)
  <2>1. Finish(w) /\ sends' = sends
    BY <1>11 DEF Cancel
  <2>2. CASE UNCHANGED status
    BY <2>1, <2>2, FinishIsLawful
  <2>3. CASE Blind(a, task[w].copy, "needs_review") /\ task[w].step \in AtProvider
    <3>1. a \in Apps
      BY <1>1, <2>3, AtWork DEF AtProvider, AllSteps, Steps
    <3>2. task[w].copy = status[a] /\ status[a] \in Status
      BY <2>3, SomeStatuses DEF AtProvider, CopyIsRow
    <3>3. task'[w].step = "idle"
      BY <1>1, <2>1, Finishes
    <3>4. CopyIsRow(w)' /\ task'[w].step # "apply"
      BY <1>1, <3>3, CopyUnused
    <3>5. "needs_review" \in Status \ {"submitting"}
      BY SomeStatuses
    <3> QED
      BY <2>1, <2>3, <3>1, <3>2, <3>4, <3>5, BlindIsLawful
  <2> QED
    BY <1>11, <2>2, <2>3 DEF Cancel
<1> QED
  BY <1>2, <1>3, <1>4, <1>5, <1>6, <1>7, <1>8, <1>9, <1>10, <1>11
     DEF Climbing, Ladder, Record

\* With one worker, and nobody writing rows from a desk meanwhile, the whole pipeline
\* implements the state machine: rows move along its edges only, and the employer receives
\* an application only while it is in flight, once per visit.
THEOREM PipelineImplementsLifecycle ==
  ASSUME NEW w, Workers = {w}, Desks = {}
  PROVE  PipelineSpec => ImplementsLifecycle
<1>1. PipelineInit => Machine!Init /\ CopyIsRow(w)
  <2> SUFFICES ASSUME PipelineInit PROVE Machine!Init /\ CopyIsRow(w)
    OBVIOUS
  <2>1. task[w].step = "idle"
    BY DEF PipelineInit, Idle
  <2>2. CopyIsRow(w)
    BY <2>1 DEF CopyIsRow
  <2>3. Open = [a \in Apps |-> FALSE]
    BY <2>1 DEF Open, Holders
  <2>4. Machine!Status = Status /\ Machine!NoRow = NoRow /\ NoRow # "submitting"
    BY DEF Machine!Status, Status, Machine!PreSubmit, PreSubmit, Machine!OffPath, OffPath,
           Machine!PostSubmit, PostSubmit, Machine!NoRow, NoRow
  <2>5. status \in [Apps -> (Status \cup {NoRow}) \ {"submitting"}] /\ sends \in [Apps -> Nat]
    BY <2>4 DEF PipelineInit
  <2> QED
    BY <2>2, <2>3, <2>4, <2>5 DEF Machine!Init, Open
<1>2. PipelineTypeOK /\ CopyIsRow(w) /\ [PipelineNext]_pipelineVars
        => CopyIsRow(w)' /\ Lawful
  <2> SUFFICES ASSUME PipelineTypeOK, CopyIsRow(w), [PipelineNext]_pipelineVars
               PROVE  CopyIsRow(w)' /\ Lawful
    OBVIOUS
  <2>1. ASSUME task' = task, status' = status, sends' = sends
        PROVE  CopyIsRow(w)' /\ Lawful
    <3>1. CopyIsRow(w)'
      BY <2>1 DEF CopyIsRow, Rehearsal
    <3>2. Open' = Open
      BY <2>1 DEF Open, Holders
    <3>3. UNCHANGED Machine!lifecycleVars
      BY <2>1, <3>2 DEF Machine!lifecycleVars, Open
    <3> QED
      BY <3>1, <3>3 DEF Lawful
  <2>2. CASE \E a \in Apps : ApplyRequest(a) \/ RetryRequest(a)
                             \/ RunLoopDispatch(a) \/ DiscoveryDispatch(a)
    BY <2>1, <2>2
       DEF ApplyRequest, RetryRequest, RunLoopDispatch, DiscoveryDispatch, AskFor, vars
  <2>3. CASE RunStops \/ UNCHANGED pipelineVars
    BY <2>1, <2>3 DEF RunStops, StopRequested, RunEnds, pipelineVars, vars
  <2>4. CASE \E v \in Workers : Take(v) \/ Preparing(v) \/ Climbing(v) \/ Die(v)
    BY <2>4, PreparingIsLawful, ClimbingIsLawful
  <2> QED
    BY <2>2, <2>3, <2>4 DEF PipelineNext
<1>3. PipelineSpec => [](CopyIsRow(w))
  BY <1>1, <1>2, JourneyTypes, PTL DEF PipelineSpec
<1> QED
  BY <1>1, <1>2, <1>3, JourneyTypes, PTL DEF PipelineSpec, ImplementsLifecycle, Machine!Spec, Lawful

\* What the state machine promises is therefore true of the pipeline: once the employer
\* holds an application no sequence of moves takes it back, and only an application that
\* was ready the moment before it was put in flight reaches the employer.
THEOREM PointOfNoReturnHolds ==
  ASSUME NEW w, Workers = {w}, Desks = {}
  PROVE  PipelineSpec => Machine!PointOfNoReturn /\ Machine!OnlyDoor
<1>1. PipelineTypeOK /\ [Machine!Next]_(Machine!lifecycleVars)
        => /\ [\A a \in Apps : status[a] \in Machine!PostSubmit
                                 => status'[a] \in Machine!PostSubmit]_(Machine!lifecycleVars)
           /\ [\A a \in Apps :
                 /\ sends'[a] # sends[a] => status[a] = "submitting"
                 /\ status[a] # "submitting" /\ status'[a] = "submitting"
                      => status[a] = "ready"]_(Machine!lifecycleVars)
  <2> SUFFICES ASSUME PipelineTypeOK, Machine!Next, NEW a \in Apps
               PROVE  /\ status[a] \in Machine!PostSubmit => status'[a] \in Machine!PostSubmit
                      /\ sends'[a] # sends[a] => status[a] = "submitting"
                      /\ status[a] # "submitting" /\ status'[a] = "submitting"
                           => status[a] = "ready"
    OBVIOUS
  <2>1. PICK b \in Apps : Machine!Create(b) \/ Machine!Move(b) \/ Machine!Send(b)
                          \/ Machine!GiveUp(b)
    BY DEF Machine!Next
  <2>2. CASE Machine!Create(b)
    <3>1. status[b] = "no_row" /\ status' = [status EXCEPT ![b] = "draft"] /\ sends' = sends
      BY <2>2 DEF Machine!Create, Machine!NoRow
    <3> QED
      BY <3>1 DEF Machine!PostSubmit, PipelineTypeOK
  <2>3. CASE Machine!Move(b)
    <3>1. PICK s \in Machine!Allowed[status[b]] :
            status' = [status EXCEPT ![b] = s] /\ sends' = sends /\ status[b] # Machine!NoRow
      BY <2>3 DEF Machine!Move
    <3>2. status[b] \in Status
      BY <3>1 DEF PipelineTypeOK, NoRow, Machine!NoRow
    <3>3. /\ status[b] \in Machine!PostSubmit => s \in Machine!PostSubmit
          /\ s = "submitting" => status[b] = "ready"
      BY <3>2 DEF Machine!Allowed, Machine!PostSubmit, Status, PreSubmit, OffPath, PostSubmit
    <3> QED
      BY <3>1, <3>3 DEF PipelineTypeOK
  <2>4. CASE Machine!Send(b)
    <3>1. /\ status[b] = "submitting" /\ status' = status
          /\ sends' = [sends EXCEPT ![b] = @ + 1]
      BY <2>4 DEF Machine!Send
    <3> QED
      BY <3>1 DEF PipelineTypeOK
  <2>5. CASE Machine!GiveUp(b)
    BY <2>5 DEF Machine!GiveUp
  <2> QED
    BY <2>1, <2>2, <2>3, <2>4, <2>5
<1>2. PipelineSpec => Machine!Spec
  BY PipelineImplementsLifecycle DEF ImplementsLifecycle
<1> QED
  BY <1>1, <1>2, JourneyTypes, PTL
     DEF Machine!Spec, Machine!PointOfNoReturn, Machine!OnlyDoor

\* Somebody asks for each application at most once.
AskedOnce == \A a \in Apps : asks[a] <= 1

\* Where every message is delivered once and each application is asked for at most once,
\* the employer receives each at most once, with any number of workers, people and
\* crashes: a second dispatch of the same application (tasks.submit_application) is what
\* it takes to send it twice.
THEOREM OneAskOneSend ==
  ASSUME MaxRedelivered = 0
  PROVE  PipelineSpec /\ []AskedOnce => []NeverTwice
<1>1. PipelineTypeOK /\ NeverUnasked /\ AskedOnce => NeverTwice
  <2> SUFFICES ASSUME PipelineTypeOK, NeverUnasked, AskedOnce, NEW a \in Apps PROVE sends[a] <= 1
    BY DEF NeverTwice
  <2>1. sends[a] <= asks[a] /\ asks[a] <= 1
    BY DEF NeverUnasked, AskedOnce
  <2>2. sends[a] \in Nat /\ asks[a] \in Nat
    BY DEF PipelineTypeOK, TypeOK
  <2> QED
    BY <2>1, <2>2
<1> QED
  BY <1>1, JourneyTypes, NothingIsSentUnasked, PTL
=============================================================================
