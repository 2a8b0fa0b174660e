--------------------------- MODULE SubmissionProofs ---------------------------
(***************************************************************************)
(* Theorems about Submission, for any set of applications, any number of   *)
(* workers, any caps, every mode and every combination of faults, and      *)
(* about the runs that ask for submissions: RunSession, the row of a run   *)
(* under all its writers, and RunLoop, the loop that hands out its work,   *)
(* for any number of runs, requests, postings and copies.                  *)
(***************************************************************************)
EXTENDS Submission, RunSession, RunLoop, FiniteSetTheorems, TLAPS

-----------------------------------------------------------------------------
(* How the helpers the actions are made of treat the types. *)

\* A worker that stands at one of the steps is working on a task.
LEMMA Working ==
  ASSUME TypeOK, NEW w \in Workers, task[w].step \in Steps
  PROVE  task[w] \in Task
BY DEF TypeOK, Idle, Steps

LEMMA GotoType ==
  ASSUME TypeOK, NEW w \in Workers, task[w] \in Task, NEW s \in Steps, Goto(w, s)
  PROVE  task' \in [Workers -> Task \cup {Idle}]
BY DEF TypeOK, Goto, Task

LEMMA FinishType ==
  ASSUME TypeOK, NEW w \in Workers, Finish(w)
  PROVE  task' \in [Workers -> Task \cup {Idle}]
BY DEF TypeOK, Finish

LEMMA BlindType ==
  ASSUME TypeOK, NEW a \in Apps, NEW c, NEW t \in Status, Blind(a, c, t)
  PROVE  /\ status' \in [Apps -> Status]
         /\ stamped' \subseteq Apps
BY DEF TypeOK, Blind

LEMMA TargetType ==
  ASSUME NEW r
  PROVE  FinalTarget(r) \in ApplyTargets
BY DEF FinalTarget, ApplyTargets

LEMMA ApplyTargetsAreStatuses == ApplyTargets \subseteq Status
BY DEF ApplyTargets, Status, PreSubmit, OffPath, PostSubmit

LEMMA AppOfTask ==
  ASSUME NEW t \in Task
  PROVE  /\ t.app \in Apps
         /\ t.copy \in Status \cup {NoRow}
         /\ t.requeued \in BOOLEAN
         /\ t.reported \in Reported \cup {"none"}
BY DEF Task

LEMMA FreshType ==
  ASSUME NEW a \in Apps, NEW r \in BOOLEAN
  PROVE  Fresh(a, r) \in Task
BY DEF Fresh, Idle, Task, Steps, Kinds

-----------------------------------------------------------------------------
\* Every variable keeps the type its column, its record or its counter has.
THEOREM TypeCorrect == Spec => []TypeOK
<1>1. Init => TypeOK
  <2> SUFFICES ASSUME Init PROVE TypeOK
    OBVIOUS
  <2>1. status \in [Apps -> Status]
    BY DEF Init
  <2>2. sends \in [Apps -> Nat]
    BY <2>1 DEF Init
  <2> QED
    BY <2>1, <2>2 DEF Init, TypeOK
<1>2. TypeOK /\ [Next]_vars => TypeOK'
  <2> SUFFICES ASSUME TypeOK, [Next]_vars PROVE TypeOK'
    OBVIOUS
  <2>1. ASSUME NEW w \in Workers, Start(w) PROVE TypeOK'
    <3>1. PICK a \in Apps, r \in BOOLEAN : task' = [task EXCEPT ![w] = Fresh(a, r)]
      BY <2>1 DEF Start
    <3>2. task' \in [Workers -> Task \cup {Idle}]
      BY <3>1, FreshType DEF TypeOK
    <3> QED
      BY <2>1, <3>2 DEF Start, TypeOK
  <2>2. ASSUME NEW w \in Workers, Load(w) PROVE TypeOK'
    <3>1. task[w] \in Task
      BY <2>2, Working DEF Load, Steps
    <3>2. task' \in [Workers -> Task \cup {Idle}]
      <4>1. CASE status[task[w].app] = "ready"
        <5>1. task' = [task EXCEPT ![w].step = "halt", ![w].copy = "ready"]
          BY <2>2, <4>1 DEF Load
        <5>2. [task[w] EXCEPT !.step = "halt", !.copy = "ready"] \in Task
          BY <3>1 DEF Task, Steps, Status, PreSubmit
        <5> QED
          BY <5>1, <5>2 DEF TypeOK
      <4>2. CASE status[task[w].app] # "ready"
        BY <2>2, <4>2, FinishType DEF Load
      <4> QED
        BY <4>1, <4>2
    <3> QED
      BY <2>2, <3>2 DEF Load, TypeOK
  <2>3. ASSUME NEW w \in Workers, HaltCheck(w) \/ DailyCheck(w) \/ CapacityCheck(w)
        PROVE  TypeOK'
    <3>1. task[w] \in Task
      BY <2>3, Working DEF HaltCheck, DailyCheck, CapacityCheck, Steps
    <3>2. task' \in [Workers -> Task \cup {Idle}]
      BY <2>3, <3>1, GotoType, FinishType
         DEF HaltCheck, DailyCheck, CapacityCheck, Steps
    <3>3. run' \in {"running", "stopping", "ended"}
      BY <2>3 DEF HaltCheck, DailyCheck, CapacityCheck, HaltRun, TypeOK
    <3> QED
      BY <2>3, <3>2, <3>3 DEF HaltCheck, DailyCheck, CapacityCheck, TypeOK
  <2>4. ASSUME NEW w \in Workers, BelowFloor(w) \/ Policy(w) \/ Render(w) PROVE TypeOK'
    <3>1. task[w] \in Task
      BY <2>4, Working DEF BelowFloor, Policy, Render, Steps
    <3>2. task' \in [Workers -> Task \cup {Idle}]
      BY <2>4, <3>1, GotoType, FinishType DEF BelowFloor, Policy, Render, Steps
    <3>3. status' \in [Apps -> Status] /\ stamped' \subseteq Apps
      <4>1. "needs_review" \in Status
        BY DEF Status, OffPath
      <4> QED
        BY <2>4, <3>1, <4>1, AppOfTask, BlindType DEF BelowFloor, Policy, Render, TypeOK
    <3> QED
      BY <2>4, <3>2, <3>3 DEF BelowFloor, Policy, Render, TypeOK
  <2>5. ASSUME NEW w \in Workers, Claim(w) PROVE TypeOK'
    <3>1. task[w] \in Task
      BY <2>5, Working DEF Claim, Steps
    <3>2. CASE status[task[w].app] = "ready"
      <4>1. [task[w] EXCEPT !.step = "apply", !.copy = "submitting"] \in Task
        BY <3>1 DEF Task, Steps, Status, PreSubmit
      <4>2. task' \in [Workers -> Task \cup {Idle}]
        BY <2>5, <3>2, <4>1 DEF Claim, TypeOK
      <4>3. status' \in [Apps -> Status]
        BY <2>5, <3>2 DEF Claim, TypeOK, Status, PreSubmit
      <4> QED
        BY <2>5, <4>2, <4>3 DEF Claim, TypeOK
    <3>3. CASE status[task[w].app] # "ready"
      BY <2>5, <3>3, FinishType DEF Claim, TypeOK
    <3> QED
      BY <3>2, <3>3
  <2>6. ASSUME NEW w \in Workers, Click(w) PROVE TypeOK'
    <3>1. task[w] \in Task
      BY <2>6, Working DEF Click, Steps
    <3>2. task' \in [Workers -> Task \cup {Idle}]
      BY <2>6, <3>1, GotoType DEF Click, Steps
    <3>3. sends' \in [Apps -> Nat]
      BY <2>6, <3>1, AppOfTask DEF Click, TypeOK
    <3> QED
      BY <2>6, <3>2, <3>3 DEF Click, TypeOK
  <2>7. ASSUME NEW w \in Workers, Report(w) PROVE TypeOK'
    <3>1. task[w] \in Task
      BY <2>7, Working DEF Report, Steps, AtProvider
    <3>2. PICK r \in Reported :
            task' = [task EXCEPT ![w].step = "record", ![w].reported = r]
      BY <2>7 DEF Report
    <3>3. [task[w] EXCEPT !.step = "record", !.reported = r] \in Task
      BY <3>1 DEF Task, Steps
    <3> QED
      BY <2>7, <3>2, <3>3 DEF Report, TypeOK
  <2>8. ASSUME NEW w \in Workers, RecordAttempt(w) PROVE TypeOK'
    <3>1. task[w] \in Task
      BY <2>8, Working DEF RecordAttempt, Steps
    <3>2. FinalTarget(task[w].reported) \in Status
      BY TargetType, ApplyTargetsAreStatuses
    <3>3. status' \in [Apps -> Status] /\ stamped' \subseteq Apps
      BY <2>8, <3>1, <3>2, AppOfTask, BlindType DEF RecordAttempt
    <3>4. task' \in [Workers -> Task \cup {Idle}]
      BY <2>8, <3>1, GotoType, FinishType DEF RecordAttempt, Steps
    <3> QED
      BY <2>8, <3>3, <3>4 DEF RecordAttempt, TypeOK
  <2>9. ASSUME NEW w \in Workers, RecordRehearsal(w) PROVE TypeOK'
    <3>1. task[w] \in Task
      BY <2>9, Working DEF RecordRehearsal, Steps
    <3>2. {"needs_review", "failed"} \subseteq Status
      BY DEF Status, OffPath
    <3>3. status' \in [Apps -> Status] /\ stamped' \subseteq Apps
      BY <2>9, <3>1, <3>2, AppOfTask, BlindType DEF RecordRehearsal, TypeOK
    <3> QED
      BY <2>9, <3>3, FinishType DEF RecordRehearsal, TypeOK
  <2>10. ASSUME NEW w \in Workers, Count(w) PROVE TypeOK'
    BY <2>10, FinishType DEF Count, TypeOK
  <2>11. ASSUME NEW w \in Workers, RenderError(w) \/ Cancel(w) PROVE TypeOK'
    <3>1. task[w] \in Task
      BY <2>11, Working DEF RenderError, Cancel, Steps
    <3>2. {"needs_review", "failed"} \subseteq Status
      BY DEF Status, OffPath
    <3>3. status' \in [Apps -> Status] /\ stamped' \subseteq Apps
      BY <2>11, <3>1, <3>2, AppOfTask, BlindType DEF RenderError, Cancel, TypeOK
    <3> QED
      BY <2>11, <3>3, FinishType DEF RenderError, Cancel, TypeOK
  <2>12. ASSUME NEW w \in Workers, CancelLate(w) PROVE TypeOK'
    BY <2>12, FinishType DEF CancelLate, TypeOK
  <2>13. ASSUME NEW w \in Workers, Killed(w) PROVE TypeOK'
    <3>1. task[w] \in Task
      BY <2>13 DEF Killed, TypeOK
    <3>2. Fresh(task[w].app, task[w].requeued) \in Task
      BY <3>1, AppOfTask, FreshType
    <3>3. task' \in [Workers -> Task \cup {Idle}]
      BY <2>13, <3>2, FinishType DEF Killed, TypeOK
    <3> QED
      BY <2>13, <3>3 DEF Killed, TypeOK
  <2>14. CASE StopRequested \/ RunEnds
    BY <2>14 DEF StopRequested, RunEnds, TypeOK
  <2>15. CASE UNCHANGED vars
    BY <2>15 DEF vars, TypeOK
  <2> QED
    BY <2>1, <2>2, <2>3, <2>4, <2>5, <2>6, <2>7, <2>8, <2>9, <2>10, <2>11, <2>12,
       <2>13, <2>14, <2>15 DEF Next, Ladder, Record, Disturbance
<1> QED
  BY <1>1, <1>2, PTL DEF Spec

-----------------------------------------------------------------------------
(* Never twice.  A step either takes a claim (Claim), sends the form (Click), *)
(* or does neither, and then it creates no holder, sends nothing and makes no *)
(* row ready.                                                                 *)

NothingRisked ==
  /\ sends' = sends
  /\ \A a \in Apps : status'[a] = "ready" => status[a] = "ready"
  /\ \A a \in Apps : Holders(a)' \subseteq Holders(a)

LEMMA GotoShrinks ==
  ASSUME TypeOK, NEW w \in Workers, task[w] \in Task,
         NEW s \in Steps, s # "apply" \/ Rehearsal, Goto(w, s)
  PROVE  \A a \in Apps : Holders(a)' \subseteq Holders(a)
BY DEF TypeOK, Goto, Holders, Rehearsal, Task

LEMMA FinishShrinks ==
  ASSUME TypeOK, NEW w \in Workers, Finish(w)
  PROVE  \A a \in Apps : Holders(a)' \subseteq Holders(a)
BY DEF TypeOK, Finish, Idle, Holders, Rehearsal

LEMMA FreshShrinks ==
  ASSUME TypeOK, NEW w \in Workers, NEW a0, NEW r,
         task' = [task EXCEPT ![w] = Fresh(a0, r)]
  PROVE  \A a \in Apps : Holders(a)' \subseteq Holders(a)
<1>1. Fresh(a0, r).step = "load"
  BY DEF Fresh, Idle
<1> QED
  BY <1>1 DEF TypeOK, Holders, Rehearsal

LEMMA BlindNeverReady ==
  ASSUME TypeOK, NEW a \in Apps, NEW c, NEW t \in ApplyTargets, Blind(a, c, t)
  PROVE  \A b \in Apps : status'[b] = "ready" => status[b] = "ready"
BY DEF TypeOK, Blind, ApplyTargets

LEMMA QuietKeepsClaims ==
  ASSUME ClaimInv, NothingRisked
  PROVE  ClaimInv'
BY DEF ClaimInv, NothingRisked

\* Every step but a claim and a click is quiet.
LEMMA QuietSteps ==
  ASSUME TypeOK, NEW w \in Workers,
         \/ Start(w) \/ Load(w) \/ HaltCheck(w) \/ DailyCheck(w) \/ CapacityCheck(w)
         \/ BelowFloor(w) \/ Policy(w) \/ Render(w) \/ Report(w) \/ RecordAttempt(w)
         \/ RecordRehearsal(w) \/ Count(w) \/ Disturbance(w)
  PROVE  NothingRisked
<1> USE DEF NothingRisked
<1>1. CASE Start(w)
  BY <1>1, FreshShrinks DEF Start
<1>2. CASE Load(w)
  <2>1. task[w] \in Task
    BY <1>2, Working DEF Load, Steps
  <2>2. CASE status[task[w].app] = "ready"
    <3>1. \A a \in Apps : Holders(a)' \subseteq Holders(a)
      BY <1>2, <2>1, <2>2 DEF Load, TypeOK, Task, Holders, Rehearsal
    <3> QED
      BY <1>2, <3>1 DEF Load
  <2>3. CASE status[task[w].app] # "ready"
    BY <1>2, <2>3, FinishShrinks DEF Load
  <2> QED
    BY <2>2, <2>3
<1>3. CASE HaltCheck(w) \/ DailyCheck(w) \/ CapacityCheck(w)
  <2>1. task[w] \in Task
    BY <1>3, Working DEF HaltCheck, DailyCheck, CapacityCheck, Steps
  <2> QED
    BY <1>3, <2>1, GotoShrinks, FinishShrinks
       DEF HaltCheck, DailyCheck, CapacityCheck, Steps
<1>4. CASE BelowFloor(w) \/ Policy(w)
  <2>1. task[w] \in Task
    BY <1>4, Working DEF BelowFloor, Policy, Steps
  <2>2. "needs_review" \in ApplyTargets
    BY DEF ApplyTargets
  <2>3. \A a \in Apps : status'[a] = "ready" => status[a] = "ready"
    BY <1>4, <2>1, <2>2, AppOfTask, BlindNeverReady DEF BelowFloor, Policy
  <2> QED
    BY <1>4, <2>1, <2>3, GotoShrinks, FinishShrinks DEF BelowFloor, Policy, Steps
<1>5. CASE Render(w)
  <2>1. task[w] \in Task
    BY <1>5, Working DEF Render, Steps
  <2> QED
    BY <1>5, <2>1, GotoShrinks DEF Render, Steps
<1>6. CASE Report(w)
  <2>1. task[w] \in Task
    BY <1>6, Working DEF Report, Steps, AtProvider
  <2>2. \A v \in Workers : v # w => task'[v] = task[v]
    BY <1>6 DEF Report, TypeOK
  <2>3. task'[w].step = "record"
    BY <1>6, <2>1, ZenonT(40) DEF Report, TypeOK, Task
  <2>4. \A a \in Apps : Holders(a)' \subseteq Holders(a)
    BY <2>2, <2>3 DEF Holders, Rehearsal
  <2> QED
    BY <1>6, <2>4 DEF Report
<1>7. CASE RecordAttempt(w)
  <2>1. task[w] \in Task
    BY <1>7, Working DEF RecordAttempt, Steps
  <2>2. \A a \in Apps : status'[a] = "ready" => status[a] = "ready"
    BY <1>7, <2>1, AppOfTask, TargetType, BlindNeverReady DEF RecordAttempt
  <2> QED
    BY <1>7, <2>1, <2>2, GotoShrinks, FinishShrinks DEF RecordAttempt, Steps
<1>8. CASE RecordRehearsal(w)
  <2>1. task[w] \in Task
    BY <1>8, Working DEF RecordRehearsal, Steps
  <2>2. {"needs_review", "failed"} \subseteq ApplyTargets
    BY DEF ApplyTargets
  <2>3. \A a \in Apps : status'[a] = "ready" => status[a] = "ready"
    BY <1>8, <2>1, <2>2, AppOfTask, BlindNeverReady DEF RecordRehearsal
  <2> QED
    BY <1>8, <2>3, FinishShrinks DEF RecordRehearsal
<1>9. CASE Count(w)
  BY <1>9, FinishShrinks DEF Count
<1>10. CASE Disturbance(w)
  <2>1. CASE RenderError(w) \/ Cancel(w)
    <3>1. task[w] \in Task
      BY <2>1, Working DEF RenderError, Cancel, Steps
    <3>2. {"needs_review", "failed"} \subseteq ApplyTargets
      BY DEF ApplyTargets
    <3>3. \A a \in Apps : status'[a] = "ready" => status[a] = "ready"
      BY <2>1, <3>1, <3>2, AppOfTask, BlindNeverReady DEF RenderError, Cancel
    <3> QED
      BY <2>1, <3>3, FinishShrinks DEF RenderError, Cancel
  <2>2. CASE CancelLate(w)
    BY <2>2, FinishShrinks DEF CancelLate
  <2>3. CASE Killed(w)
    BY <2>3, FinishShrinks, FreshShrinks DEF Killed
  <2> QED
    BY <1>10, <2>1, <2>2, <2>3 DEF Disturbance
<1> QED
  BY <1>1, <1>2, <1>3, <1>4, <1>5, <1>6, <1>7, <1>8, <1>9, <1>10

\* A row that can still be claimed was never sent, and a claim has one holder.
THEOREM ClaimsAreExclusive == Spec => []ClaimInv
<1>1. Init => ClaimInv
  BY DEF Init, ClaimInv, Holders, Idle, PostSubmit
<1>2. TypeOK /\ ClaimInv /\ [Next]_vars => ClaimInv'
  <2> SUFFICES ASSUME TypeOK, ClaimInv, [Next]_vars PROVE ClaimInv'
    OBVIOUS
  <2>1. ASSUME NEW w \in Workers, Claim(w) PROVE ClaimInv'
    <3>1. task[w] \in Task
      BY <2>1, Working DEF Claim, Steps
    <3>0. PICK a0 \in Apps : a0 = task[w].app
      BY <3>1, AppOfTask
    <3>2. CASE status[a0] = "ready"
      <4>1. sends' = sends /\ status' = [status EXCEPT ![a0] = "submitting"]
        BY <2>1, <3>0, <3>2 DEF Claim
      <4>2. \A a \in Apps : a # a0 => Holders(a)' = Holders(a)
        BY <2>1, <3>0, <3>1, <3>2 DEF Claim, TypeOK, Task, Holders, Rehearsal
      <4>3. Holders(a0)' \subseteq {w}
        BY <2>1, <3>0, <3>1, <3>2 DEF Claim, TypeOK, Task, Holders, Rehearsal, ClaimInv
      <4>4. sends[a0] = 0
        BY <3>2 DEF ClaimInv
      <4>5. status'[a0] = "submitting"
        BY <4>1 DEF TypeOK
      <4>6. \A a \in Apps : a # a0 => status'[a] = status[a]
        BY <4>1 DEF TypeOK
      <4> QED
        BY <4>1, <4>2, <4>3, <4>4, <4>5, <4>6 DEF ClaimInv
    <3>3. CASE status[a0] # "ready"
      <4>1. NothingRisked
        BY <2>1, <3>0, <3>3, FinishShrinks DEF Claim, NothingRisked
      <4> QED
        BY <4>1, QuietKeepsClaims
    <3> QED
      BY <3>2, <3>3
  <2>2. ASSUME NEW w \in Workers, Click(w) PROVE ClaimInv'
    <3>1. task[w] \in Task
      BY <2>2, Working DEF Click, Steps
    <3>2. PICK a0 \in Apps : a0 = task[w].app
      BY <3>1, AppOfTask
    <3>3. w \in Holders(a0)
      BY <2>2, <3>1, <3>2 DEF Click, Holders
    <3>4. sends[a0] = 0 /\ status[a0] # "ready"
      BY <3>2, <3>3 DEF ClaimInv
    <3>5. \A a \in Apps : a # a0 => Holders(a)' = Holders(a)
      BY <2>2, <3>1, <3>2 DEF Click, Goto, TypeOK, Task, Holders, Rehearsal
    <3>6. Holders(a0)' = {}
      <4>1. \A v \in Workers : v # w => v \notin Holders(a0)
        BY <3>2, <3>3 DEF ClaimInv
      <4>2. \A v \in Workers : v # w => task'[v] = task[v]
        BY <2>2 DEF Click, Goto, TypeOK
      <4>3. task'[w].step = "clicked"
        BY <2>2, <3>1 DEF Click, Goto, TypeOK, Task
      <4> QED
        BY <4>1, <4>2, <4>3 DEF Holders, Rehearsal
    <3>7. \A a \in Apps : a # a0 => sends'[a] = sends[a]
      BY <2>2, <3>2 DEF Click, TypeOK
    <3>8. sends'[a0] = 1
      BY <2>2, <3>2, <3>4 DEF Click, TypeOK
    <3>9. status' = status
      BY <2>2 DEF Click
    <3> QED
      BY <3>2, <3>4, <3>5, <3>6, <3>7, <3>8, <3>9 DEF ClaimInv
  <2>3. CASE \E w \in Workers : Start(w) \/ Ladder(w) \/ Disturbance(w)
    BY <2>1, <2>2, <2>3, QuietSteps, QuietKeepsClaims DEF Ladder, Record
  <2>4. CASE StopRequested \/ RunEnds
    BY <2>4 DEF StopRequested, RunEnds, ClaimInv, Holders, Rehearsal
  <2>5. CASE UNCHANGED vars
    BY <2>5 DEF vars, ClaimInv, Holders, Rehearsal
  <2> QED
    BY <2>3, <2>4, <2>5 DEF Next
<1> QED
  BY <1>1, <1>2, TypeCorrect, PTL DEF Spec

\* The employer receives an application at most once, whatever races, dies or is
\* redelivered.
THEOREM SentAtMostOnce == Spec => []NeverTwice
<1>1. Init => NeverTwice
  BY DEF Init, NeverTwice
<1>2. TypeOK /\ ClaimInv /\ NeverTwice /\ [Next]_vars => NeverTwice'
  <2> SUFFICES ASSUME TypeOK, ClaimInv, NeverTwice, [Next]_vars PROVE NeverTwice'
    OBVIOUS
  <2>1. CASE sends' = sends
    BY <2>1 DEF NeverTwice
  <2>2. ASSUME NEW w \in Workers, Click(w) PROVE NeverTwice'
    <3>1. task[w] \in Task
      BY <2>2, Working DEF Click, Steps
    <3>2. task[w].app \in Apps /\ w \in Holders(task[w].app)
      BY <2>2, <3>1, AppOfTask DEF Click, Holders
    <3>3. sends[task[w].app] = 0
      BY <3>2 DEF ClaimInv
    <3> QED
      BY <2>2, <3>2, <3>3 DEF Click, NeverTwice, TypeOK
  <2>3. ASSUME NEW w \in Workers, Claim(w) PROVE sends' = sends
    BY <2>3 DEF Claim
  <2>4. ASSUME NEW w \in Workers, Start(w) \/ Ladder(w) \/ Disturbance(w)
        PROVE  NeverTwice'
    <3>1. \/ Start(w) \/ Load(w) \/ HaltCheck(w) \/ DailyCheck(w) \/ CapacityCheck(w)
          \/ BelowFloor(w) \/ Policy(w) \/ Render(w) \/ Report(w) \/ RecordAttempt(w)
          \/ RecordRehearsal(w) \/ Count(w) \/ Disturbance(w) \/ Click(w) \/ Claim(w)
      BY <2>4 DEF Ladder, Record
    <3> QED
      BY <3>1, <2>1, <2>2, <2>3, QuietSteps DEF NothingRisked
  <2> QED
    BY <2>1, <2>4 DEF Next, StopRequested, RunEnds, vars
<1> QED
  BY <1>1, <1>2, TypeCorrect, ClaimsAreExclusive, PTL DEF Spec
-----------------------------------------------------------------------------
(* What one step of a worker does to the tasks: the others keep theirs, and its *)
(* own ends, starts (over), or goes one rung further.                           *)

Rungs == {<<"load", "halt">>, <<"halt", "daily">>, <<"daily", "capacity">>,
          <<"capacity", "policy">>, <<"policy", "render">>, <<"render", "apply">>,
          <<"render", "claim">>, <<"claim", "apply">>, <<"apply", "clicked">>,
          <<"apply", "record">>, <<"clicked", "record">>, <<"record", "count">>}

Climbs(w) ==
  /\ <<task[w].step, task'[w].step>> \in Rungs
  /\ task'[w].app = task[w].app
  /\ task'[w].kind = task[w].kind
  /\ task'[w].requeued = task[w].requeued
  /\ task[w].step \notin AtProvider => task'[w].reported = task[w].reported

LEMMA GotoClimbs ==
  ASSUME TypeOK, NEW w \in Workers, task[w] \in Task, NEW s, Goto(w, s),
         <<task[w].step, s>> \in Rungs
  PROVE  /\ \A v \in Workers \ {w} : task'[v] = task[v]
         /\ Climbs(w) /\ task'[w] = [task[w] EXCEPT !.step = s]
BY DEF TypeOK, Goto, Climbs, Task

LEMMA FinishEnds ==
  ASSUME TypeOK, NEW w \in Workers, Finish(w)
  PROVE  /\ \A v \in Workers \ {w} : task'[v] = task[v]
         /\ task'[w] = Idle /\ task'[w].step = "idle"
BY DEF TypeOK, Finish, Idle

LEMMA OneTaskMoves ==
  ASSUME TypeOK, NEW w \in Workers, Start(w) \/ Ladder(w) \/ Disturbance(w)
  PROVE  /\ \A v \in Workers \ {w} : task'[v] = task[v]
         /\ task'[w].step \in {"idle", "load"} \/ Climbs(w)
<1>1. CASE Start(w)
  BY <1>1 DEF Start, Fresh, Idle, TypeOK
<1>2. CASE Load(w)
  <2>1. task[w] \in Task
    BY <1>2, Working DEF Load, Steps
  <2> QED
    BY <1>2, <2>1, FinishEnds DEF Load, TypeOK, Task, Climbs, Rungs
<1>3. CASE HaltCheck(w) \/ DailyCheck(w) \/ CapacityCheck(w)
  <2>1. task[w] \in Task
    BY <1>3, Working DEF HaltCheck, DailyCheck, CapacityCheck, Steps
  <2> QED
    BY <1>3, <2>1, FinishEnds, GotoClimbs DEF HaltCheck, DailyCheck, CapacityCheck, Rungs
<1>4. CASE BelowFloor(w) \/ Policy(w) \/ Render(w)
  <2>1. task[w] \in Task
    BY <1>4, Working DEF BelowFloor, Policy, Render, Steps
  <2> QED
    BY <1>4, <2>1, FinishEnds, GotoClimbs DEF BelowFloor, Policy, Render, Rungs
<1>5. CASE Claim(w)
  <2>1. task[w] \in Task
    BY <1>5, Working DEF Claim, Steps
  <2>2. CASE status[task[w].app] = "ready"
    BY <1>5, <2>1, <2>2 DEF Claim, TypeOK, Task, Climbs, Rungs
  <2>3. CASE status[task[w].app] # "ready"
    BY <1>5, <2>3, FinishEnds DEF Claim
  <2> QED
    BY <2>2, <2>3
<1>6. CASE Click(w)
  <2>1. task[w] \in Task
    BY <1>6, Working DEF Click, Steps
  <2> QED
    BY <1>6, <2>1, GotoClimbs DEF Click, Rungs
<1>7. CASE Report(w)
  <2>1. task[w] \in Task
    BY <1>7, Working DEF Report, Steps, AtProvider
  <2> QED
    BY <1>7, <2>1 DEF Report, AtProvider, TypeOK, Task, Climbs, Rungs
<1>8. CASE Record(w)
  <2>1. task[w] \in Task
    BY <1>8, Working DEF Record, RecordAttempt, RecordRehearsal, Steps
  <2> QED
    BY <1>8, <2>1, FinishEnds, GotoClimbs DEF Record, RecordAttempt, RecordRehearsal, Rungs
<1>9. CASE Count(w)
  BY <1>9, FinishEnds DEF Count
<1>10. CASE Disturbance(w)
  <2>1. CASE Killed(w)
    BY <2>1, FinishEnds DEF Killed, Fresh, Idle, TypeOK
  <2>2. CASE RenderError(w) \/ Cancel(w) \/ CancelLate(w)
    BY <2>2, FinishEnds DEF RenderError, Cancel, CancelLate
  <2> QED
    BY <1>10, <2>1, <2>2 DEF Disturbance
<1> QED
  BY <1>1, <1>2, <1>3, <1>4, <1>5, <1>6, <1>7, <1>8, <1>9, <1>10 DEF Ladder

\* Once the run is stopping, no further application of the run gets past rung 2 unless a
\* person asked for it, however many workers are on the ladder.
THEOREM StopIsHonoured == Spec => StopDrains
<1>1. TypeOK /\ [Next]_vars
        => [run # "running" => PastStopCheck' \subseteq PastStopCheck]_vars
  <2> SUFFICES ASSUME TypeOK, Next, run # "running"
               PROVE  PastStopCheck' \subseteq PastStopCheck
    OBVIOUS
  <2>1. ASSUME NEW w \in Workers, Start(w) \/ Ladder(w) \/ Disturbance(w)
        PROVE  PastStopCheck' \subseteq PastStopCheck
    <3>1. /\ \A v \in Workers \ {w} : task'[v] = task[v]
          /\ task'[w].step \in {"idle", "load"} \/ Climbs(w)
      BY <2>1, OneTaskMoves
    <3>2. ASSUME w \in PastStopCheck' PROVE w \in PastStopCheck
      <4>1. Climbs(w) /\ task'[w].step # "halt"
        BY <3>1, <3>2 DEF PastStopCheck
      <4>2. task[w].app \in RunApps /\ ~task[w].requeued
        BY <3>2, <4>1 DEF PastStopCheck, Climbs
      <4>3. task[w].step \notin {"load", "idle"}
        BY <4>1 DEF Climbs, Rungs
      <4>4. task[w].step # "halt"
        <5> SUFFICES ASSUME task[w].step = "halt" PROVE FALSE
          OBVIOUS
        <5>1. HaltCheck(w) \/ Cancel(w) \/ Killed(w)
          BY <2>1 DEF Start, Idle, Ladder, Load, DailyCheck, CapacityCheck, BelowFloor, Policy,
                      Render, Claim, Click, Report, Record, RecordAttempt, RecordRehearsal,
                      Count, AtProvider, Disturbance, RenderError, CancelLate
        <5>2. Finish(w) \/ task'[w].step = "load"
          BY <4>2, <5>1 DEF HaltCheck, Halting, Cancel, Killed, Fresh, Idle, TypeOK
        <5> QED
          BY <4>1, <5>2, FinishEnds DEF Climbs, Rungs
      <4> QED
        BY <4>2, <4>3, <4>4 DEF PastStopCheck
    <3> QED
      BY <3>1, <3>2 DEF PastStopCheck
  <2>2. CASE StopRequested \/ RunEnds
    BY <2>2 DEF StopRequested, RunEnds, PastStopCheck
  <2> QED
    BY <2>1, <2>2 DEF Next
<1> QED
  BY <1>1, TypeCorrect, PTL DEF Spec, StopDrains

\* Under dry_run nobody claims a row: the ladder goes around that rung.
NobodyClaims == \A w \in Workers : Rehearsal => task[w].step \notin {"claim", "clicked", "count"}

LEMMA RehearsalsDoNotClaim == Spec => []NobodyClaims
<1>1. Init => NobodyClaims
  BY DEF Init, NobodyClaims, Idle
<1>2. TypeOK /\ NobodyClaims /\ [Next]_vars => NobodyClaims'
  <2> SUFFICES ASSUME TypeOK, NobodyClaims, [Next]_vars, Rehearsal, NEW v \in Workers
               PROVE  task'[v].step \notin {"claim", "clicked", "count"}
    BY DEF NobodyClaims, Rehearsal
  <2>1. ASSUME NEW w \in Workers, Start(w) \/ Ladder(w) \/ Disturbance(w)
        PROVE  task'[v].step \notin {"claim", "clicked", "count"}
    <3>1. /\ \A u \in Workers \ {w} : task'[u] = task[u]
          /\ task'[w].step \in {"idle", "load"} \/ Climbs(w)
      BY <2>1, OneTaskMoves
    <3>2. CASE v # w \/ task'[w].step \in {"idle", "load"}
      BY <3>1, <3>2 DEF NobodyClaims
    <3>3. CASE v = w /\ Climbs(w)
      <4>1. task[w].step \notin {"claim", "clicked", "count"}
        BY DEF NobodyClaims
      <4>2. task[w].step = "render" => task'[w].step # "claim"
        <5> SUFFICES ASSUME task[w].step = "render" PROVE task'[w].step # "claim"
          OBVIOUS
        <5>1. task[w] \in Task
          BY Working DEF Steps
        <5>2. Render(w) \/ RenderError(w) \/ Cancel(w) \/ Killed(w)
          BY <2>1 DEF Start, Idle, Ladder, Load, HaltCheck, DailyCheck, CapacityCheck,
                      BelowFloor, Policy, Claim, Click, Report, Record, RecordAttempt,
                      RecordRehearsal, Count, AtProvider, Disturbance, CancelLate
        <5>3. CASE Render(w)
          BY <5>1, <5>3 DEF Render, Goto, TypeOK
        <5>4. CASE Killed(w)
          BY <5>4, FinishEnds DEF Killed, Fresh, Idle, TypeOK
        <5>5. CASE RenderError(w) \/ Cancel(w)
          BY <5>5, FinishEnds DEF RenderError, Cancel
        <5> QED
          BY <5>2, <5>3, <5>4, <5>5
      <4>3. task[w].step = "record" => task'[w].step # "count"
        <5> SUFFICES ASSUME task[w].step = "record" PROVE task'[w].step # "count"
          OBVIOUS
        <5>1. Record(w) \/ CancelLate(w) \/ Killed(w)
          BY <2>1 DEF Start, Idle, Ladder, Load, HaltCheck, DailyCheck, CapacityCheck,
                      BelowFloor, Policy, Claim, Click, Report, Render, Count, AtProvider,
                      Disturbance, RenderError, Cancel, Steps
        <5>2. Finish(w) \/ task'[w].step = "load"
          BY <5>1 DEF Record, RecordRehearsal, CancelLate, Killed, Fresh, Idle, TypeOK
        <5> QED
          BY <5>2, FinishEnds
      <4>4. task[w].step = "apply" => task'[w].step # "clicked"
        <5> SUFFICES ASSUME task[w].step = "apply" PROVE task'[w].step # "clicked"
          OBVIOUS
        <5>1. Report(w) \/ Cancel(w) \/ Killed(w)
          BY <2>1 DEF Start, Idle, Ladder, Load, HaltCheck, DailyCheck, CapacityCheck,
                      BelowFloor, Policy, Claim, Click, Record, RecordAttempt, Render, Count,
                      RecordRehearsal, Disturbance, RenderError, CancelLate, Steps
        <5>2. Finish(w) \/ task'[w].step \in {"load", "record"}
          BY <5>1 DEF Report, Cancel, Killed, Fresh, Idle, TypeOK, Task
        <5> QED
          BY <5>2, FinishEnds
      <4> QED
        BY <3>3, <4>1, <4>2, <4>3, <4>4 DEF Climbs, Rungs
    <3> QED
      BY <3>1, <3>2, <3>3
  <2>2. CASE StopRequested \/ RunEnds \/ UNCHANGED vars
    BY <2>2 DEF StopRequested, RunEnds, vars, NobodyClaims
  <2> QED
    BY <2>1, <2>2 DEF Next
<1> QED
  BY <1>1, <1>2, TypeCorrect, PTL DEF Spec

\* A rehearsal sends nothing and puts no row in flight: a row it moves goes to a person
\* or is marked failed, whichever of the rungs, errors and cancellations moves it.
THEOREM RehearsalIsHarmless == Spec => RehearsalConsumesNothing
<1> DEFINE Harmless ==
      /\ sends' = sends
      /\ \A a \in Apps : status'[a] # status[a] => status'[a] \in {"needs_review", "failed"}
<1>1. TypeOK /\ NobodyClaims /\ [Next]_vars => [Rehearsal => Harmless]_vars
  <2> SUFFICES ASSUME TypeOK, NobodyClaims, Next, Rehearsal PROVE Harmless
    OBVIOUS
  <2>1. ASSUME NEW a0, NEW c, NEW t \in {"needs_review", "failed"}, Blind(a0, c, t)
        PROVE  \A a \in Apps : status'[a] # status[a]
                                 => status'[a] \in {"needs_review", "failed"}
    BY <2>1 DEF Blind, TypeOK
  <2>2. ASSUME NEW w \in Workers, Start(w) \/ Ladder(w) \/ Disturbance(w) PROVE Harmless
    <3>1. task[w].step \notin {"claim", "clicked", "count"}
      BY DEF NobodyClaims
    <3>2. CASE \/ Start(w) \/ Load(w) \/ HaltCheck(w) \/ DailyCheck(w) \/ CapacityCheck(w)
               \/ BelowFloor(w) \/ Render(w) \/ Report(w) \/ CancelLate(w) \/ Killed(w)
      BY <3>2 DEF Start, Load, HaltCheck, DailyCheck, CapacityCheck, BelowFloor, Render,
                  Report, CancelLate, Killed
    <3>3. CASE Policy(w) \/ RenderError(w) \/ RecordRehearsal(w)
      BY <3>3, <2>1 DEF Policy, RenderError, RecordRehearsal
    <3>4. CASE Cancel(w)
      BY <3>4 DEF Cancel
    <3>5. CASE Claim(w) \/ Click(w) \/ Count(w)
      BY <3>1, <3>5 DEF Claim, Click, Count
    <3> QED
      BY <2>2, <3>2, <3>3, <3>4, <3>5 DEF Ladder, Record, Disturbance
  <2>3. CASE StopRequested \/ RunEnds
    BY <2>3 DEF StopRequested, RunEnds
  <2> QED
    BY <2>2, <2>3 DEF Next
<1> QED
  BY <1>1, TypeCorrect, RehearsalsDoNotClaim, PTL DEF Spec, RehearsalConsumesNothing

-----------------------------------------------------------------------------
(* Counting: what a run still owes its counter, and who is past the daily cap. *)

\* The rows of the run the employer has.
SentRows == {a \in RunApps : sends[a] > 0}

\* The workers whose form went out and whose run may yet be credited for it.
Owes(t) ==
  /\ t.app \in RunApps
  /\ \/ t.step = "clicked"
     \/ t.step \in {"record", "count"} /\ FinalTarget(t.reported) \in PostSubmit
Owing == {w \in Workers : Owes(task[w])}

\* The strengthening of CompletedIsSent: a credit is backed by a row the employer has,
\* and so is every credit that is still to be given.
CreditsBacked == completed + Cardinality(Owing) <= Cardinality(SentRows)

LEMMA CountingIsFinite ==
  ASSUME TypeOK
  PROVE  /\ IsFiniteSet(Owing) /\ Cardinality(Owing) \in Nat
         /\ IsFiniteSet(SentRows) /\ Cardinality(SentRows) \in Nat
         /\ completed \in Nat
<1>1. Owing \subseteq Workers /\ SentRows \subseteq Apps
  BY RowSetsAssumption DEF Owing, SentRows
<1> QED
  BY <1>1, FS_Subset, FS_CardinalityType, WorkersAssumption, AppsAssumption DEF TypeOK

\* A step that owes no more, sends nothing and credits nothing keeps the books.
LEMMA OwingShrinks ==
  ASSUME TypeOK, CreditsBacked, Owing' \subseteq Owing, sends' = sends, completed' = completed
  PROVE  CreditsBacked'
<1>1. Cardinality(Owing') <= Cardinality(Owing) /\ Cardinality(Owing') \in Nat
  BY CountingIsFinite, FS_Subset, FS_CardinalityType
<1>2. SentRows' = SentRows
  BY DEF SentRows
<1> QED
  BY <1>1, <1>2, CountingIsFinite DEF CreditsBacked

\* The task of one worker moves and owes nothing it did not owe before.
LEMMA OwesNoMore ==
  ASSUME NEW w \in Workers, \A v \in Workers \ {w} : task'[v] = task[v],
         Owes(task'[w]) => Owes(task[w])
  PROVE  Owing' \subseteq Owing
<1> SUFFICES ASSUME NEW v \in Workers, Owes(task'[v]) PROVE Owes(task[v])
  BY DEF Owing
<1> QED
  OBVIOUS

\* The step that sends the form owes a credit for a row that was not sent before, and
\* the step that counts gives it: nothing else moves the books.
LEMMA CreditsAreBacked == Spec => []CreditsBacked
<1>1. Init => CreditsBacked
  <2> SUFFICES ASSUME Init PROVE CreditsBacked
    OBVIOUS
  <2>1. Owing = {}
    BY DEF Init, Owing, Owes, Idle
  <2>2. SentRows \subseteq Apps
    BY RowSetsAssumption DEF SentRows
  <2> QED
    BY <2>1, <2>2, FS_EmptySet, FS_Subset, FS_CardinalityType, AppsAssumption
       DEF Init, CreditsBacked
<1>2. TypeOK /\ ClaimInv /\ CreditsBacked /\ [Next]_vars => CreditsBacked'
  <2> SUFFICES ASSUME TypeOK, ClaimInv, CreditsBacked, [Next]_vars PROVE CreditsBacked'
    OBVIOUS
  <2>1. ASSUME NEW w \in Workers, Click(w) PROVE CreditsBacked'
    <3> DEFINE a == task[w].app
    <3>1. task[w] \in Task /\ a \in Apps
      BY <2>1, Working, AppOfTask DEF Click, Steps
    <3>2. sends[a] = 0
      BY <2>1, <3>1 DEF Click, ClaimInv, Holders
    <3>3. sends' = [sends EXCEPT ![a] = 1]
      BY <2>1, <3>1, <3>2 DEF Click, TypeOK
    <3>4. /\ \A v \in Workers \ {w} : task'[v] = task[v]
          /\ task'[w] = [task[w] EXCEPT !.step = "clicked"]
      BY <2>1, <3>1, GotoClimbs DEF Click, Rungs
    <3>5. task'[w].app = a /\ task'[w].step = "clicked"
      BY <3>1, <3>4 DEF Task
    <3>6. ~Owes(task[w])
      BY <2>1 DEF Click, Owes
    <3>7. CASE a \in RunApps
      <4>1. Owing' = Owing \cup {w} /\ w \notin Owing
        BY <3>4, <3>5, <3>6, <3>7, ZenonT(40) DEF Owing, Owes
      <4>2. SentRows' = SentRows \cup {a} /\ a \notin SentRows
        BY <3>1, <3>2, <3>3, <3>7, RowSetsAssumption DEF SentRows, TypeOK
      <4>3. Cardinality(Owing') = Cardinality(Owing) + 1
        BY <4>1, CountingIsFinite, FS_AddElement
      <4>4. Cardinality(SentRows') = Cardinality(SentRows) + 1
        BY <4>2, CountingIsFinite, FS_AddElement
      <4> QED
        BY <2>1, <4>3, <4>4, CountingIsFinite DEF Click, CreditsBacked
    <3>8. CASE a \notin RunApps
      <4>1. Owing' \subseteq Owing
        BY <3>4, <3>5, <3>8, OwesNoMore DEF Owes
      <4>2. SentRows' = SentRows
        BY <3>3, <3>8 DEF SentRows, TypeOK
      <4>3. Cardinality(Owing') <= Cardinality(Owing) /\ Cardinality(Owing') \in Nat
        BY <4>1, CountingIsFinite, FS_Subset, FS_CardinalityType
      <4> QED
        BY <2>1, <4>2, <4>3, CountingIsFinite DEF Click, CreditsBacked
    <3> QED
      BY <3>7, <3>8
  <2>2. ASSUME NEW w \in Workers, Count(w) PROVE CreditsBacked'
    <3>1. /\ \A v \in Workers \ {w} : task'[v] = task[v]
          /\ task'[w].step = "idle"
      BY <2>2, FinishEnds DEF Count
    <3>2. Owing' = Owing \ {w}
      BY <3>1 DEF Owing, Owes
    <3>3. sends' = sends /\ SentRows' = SentRows
      BY <2>2 DEF Count, SentRows
    <3>4. CASE w \in Owing
      <4>1. Cardinality(Owing') = Cardinality(Owing) - 1
        BY <3>2, <3>4, CountingIsFinite, FS_RemoveElement
      <4>2. completed' <= completed + 1 /\ completed' \in Nat
        BY <2>2, CountingIsFinite DEF Count
      <4> QED
        BY <3>3, <4>1, <4>2, CountingIsFinite DEF CreditsBacked
    <3>5. CASE w \notin Owing
      <4>1. completed' = completed
        BY <2>2, <3>5 DEF Count, Owing, Owes
      <4> QED
        BY <3>2, <3>3, <4>1, OwingShrinks
    <3> QED
      BY <3>4, <3>5
  <2>3. ASSUME NEW w \in Workers, Report(w) PROVE CreditsBacked'
    <3>1. task[w] \in Task
      BY <2>3, Working DEF Report, AtProvider, Steps
    <3>2. PICK r \in Reported :
            /\ r \in PostSubmit => task[w].step = "clicked"
            /\ task' = [task EXCEPT ![w].step = "record", ![w].reported = r]
      BY <2>3 DEF Report
    <3>3. /\ \A v \in Workers \ {w} : task'[v] = task[v]
          /\ task'[w].step = "record" /\ task'[w].reported = r
          /\ task'[w].app = task[w].app
      BY <3>1, <3>2 DEF TypeOK, Task
    <3>4. FinalTarget(r) \in PostSubmit => r \in PostSubmit
      BY DEF FinalTarget, ApplyTargets, PostSubmit
    <3>5. Owing' \subseteq Owing
      BY <3>2, <3>3, <3>4, OwesNoMore DEF Owes
    <3> QED
      BY <2>3, <3>5, OwingShrinks DEF Report
  <2>4. ASSUME NEW w \in Workers, Start(w) \/ Ladder(w) \/ Disturbance(w),
               ~Click(w), ~Count(w), ~Report(w)
        PROVE  CreditsBacked'
    <3>1. sends' = sends /\ completed' = completed
      BY <2>4 DEF Start, Ladder, Load, HaltCheck, DailyCheck, CapacityCheck, BelowFloor,
                  Policy, Claim, Record, RecordAttempt, Render, RecordRehearsal,
                  Disturbance, RenderError, Cancel, CancelLate, Killed
    <3>2. \A v \in Workers \ {w} : task'[v] = task[v]
      BY <2>4, OneTaskMoves
    <3>3. task'[w].step \in {"idle", "load"} \/ Climbs(w)
      BY <2>4, OneTaskMoves
    <3>4. task[w].step \notin AtProvider \/ task'[w].step \in {"idle", "load"}
      <4> SUFFICES ASSUME task[w].step \in AtProvider PROVE task'[w].step \in {"idle", "load"}
        OBVIOUS
      <4>1. Cancel(w) \/ Killed(w)
        BY <2>4 DEF AtProvider, Start, Idle, Ladder, Load, HaltCheck, DailyCheck,
                    CapacityCheck, BelowFloor, Policy, Claim, Record, RecordAttempt, Render,
                    RecordRehearsal, Disturbance, RenderError, CancelLate
      <4> QED
        BY <4>1, FinishEnds DEF Cancel, Killed, Fresh, Idle, TypeOK
    <3>5. Owes(task'[w]) => Owes(task[w])
      BY <3>3, <3>4 DEF Climbs, Rungs, Owes, AtProvider
    <3> QED
      BY <3>1, <3>2, <3>5, OwesNoMore, OwingShrinks
  <2>5. CASE StopRequested \/ RunEnds \/ UNCHANGED vars
    <3>1. Owing' = Owing /\ sends' = sends /\ completed' = completed
      BY <2>5 DEF StopRequested, RunEnds, vars, Owing, Owes
    <3> QED
      BY <3>1, OwingShrinks
  <2> QED
    BY <2>1, <2>2, <2>3, <2>4, <2>5 DEF Next
<1> QED
  BY <1>1, <1>2, TypeCorrect, ClaimsAreExclusive, PTL DEF Spec

\* What a run reports as completed never exceeds the rows the employer has received, in
\* whatever order the workers are cancelled, killed and restarted around the two commits.
THEOREM CreditsFollowSends == Spec => []CompletedIsSent
<1>1. TypeOK /\ CreditsBacked => CompletedIsSent
  BY CountingIsFinite DEF CreditsBacked, CompletedIsSent, SentRows
<1> QED
  BY <1>1, TypeCorrect, CreditsAreBacked, PTL

\* The workers past the daily check that have not stamped a row for it yet.
UncountedSteps == {"capacity", "policy", "render", "claim", "apply", "clicked", "record"}
Uncounted == {w \in Workers : task[w].step \in UncountedSteps}

\* The strengthening of CapOverrunBounded: while a worker is past the check, the day's
\* rows and the workers that may still add one stay below the cap plus the workers.
OverrunInv ==
  Uncounted # {} =>
    Cardinality(stamped) + Cardinality(Uncounted) < DailyCap + Cardinality(Workers)

LEMMA StampsAreFinite ==
  ASSUME TypeOK
  PROVE  /\ IsFiniteSet(Uncounted) /\ Cardinality(Uncounted) \in Nat
         /\ Cardinality(Uncounted) <= Cardinality(Workers)
         /\ IsFiniteSet(stamped) /\ Cardinality(stamped) \in Nat
         /\ Cardinality(Workers) \in Nat /\ DailyCap \in Nat
<1>1. Uncounted \subseteq Workers /\ stamped \subseteq Apps
  BY DEF Uncounted, TypeOK
<1> QED
  BY <1>1, FS_Subset, FS_CardinalityType, WorkersAssumption, AppsAssumption, CapsAssumption

\* A step that lets nobody past the check and stamps nothing keeps the bound.
LEMMA UncountedShrinks ==
  ASSUME TypeOK, OverrunInv, Uncounted' \subseteq Uncounted, stamped' = stamped
  PROVE  OverrunInv'
<1>1. Cardinality(Uncounted') <= Cardinality(Uncounted) /\ Cardinality(Uncounted') \in Nat
  BY StampsAreFinite, FS_Subset, FS_CardinalityType
<1> QED
  BY <1>1, StampsAreFinite DEF OverrunInv

\* Only the recording of a submitted verdict stamps a row, and that by one worker that
\* was past the check.
LEMMA OnlyRecordStamps ==
  ASSUME TypeOK, [Next]_vars, stamped' # stamped
  PROVE  \E w \in Workers : RecordAttempt(w)
<1>1. ASSUME NEW a, NEW c, NEW t \in {"needs_review", "failed"}, Blind(a, c, t)
      PROVE  FALSE
  BY <1>1 DEF Blind, PostSubmit
<1>2. PICK w \in Workers : Ladder(w) \/ Disturbance(w)
  BY DEF Next, Start, StopRequested, RunEnds, vars
<1>3. ~(Policy(w) \/ RenderError(w) \/ RecordRehearsal(w) \/ Cancel(w))
  BY <1>1 DEF Policy, RenderError, RecordRehearsal, Cancel
<1>4. Record(w)
  BY <1>2, <1>3 DEF Ladder, Load, HaltCheck, DailyCheck, CapacityCheck, BelowFloor, Render,
                    Claim, Click, Report, Count, Disturbance, CancelLate, Killed
<1> QED
  BY <1>3, <1>4 DEF Record

\* ... and the worker that recorded it no longer counts.
LEMMA RecordCounts ==
  ASSUME TypeOK, OverrunInv, NEW w \in Workers, RecordAttempt(w)
  PROVE  /\ w \in Uncounted /\ Uncounted' = Uncounted \ {w}
         /\ Cardinality(stamped') <= Cardinality(stamped) + 1
         /\ Cardinality(stamped') \in Nat
<1>1. task[w] \in Task
  BY Working DEF RecordAttempt, Steps
<1>2. /\ \A v \in Workers \ {w} : task'[v] = task[v]
      /\ task'[w] = [task[w] EXCEPT !.step = "count"]
  BY <1>1, GotoClimbs DEF RecordAttempt, Rungs
<1>3. task'[w].step = "count"
  BY <1>1, <1>2 DEF Task
<1>4. w \in Uncounted /\ Uncounted' = Uncounted \ {w}
  BY <1>2, <1>3 DEF Uncounted, UncountedSteps, RecordAttempt
<1>5. stamped' = stamped \/ stamped' = stamped \cup {task[w].app}
  BY DEF RecordAttempt, Blind
<1>6. CASE stamped' = stamped
  BY <1>4, <1>6, StampsAreFinite
<1>7. CASE stamped' = stamped \cup {task[w].app} /\ task[w].app \notin stamped
  <2>1. Cardinality(stamped') = Cardinality(stamped) + 1
    BY <1>7, StampsAreFinite, FS_AddElement
  <2> QED
    BY <1>4, <2>1, StampsAreFinite
<1> QED
  BY <1>5, <1>6, <1>7

LEMMA OverrunIsBounded == Spec => []OverrunInv
<1>1. Init => OverrunInv
  <2> SUFFICES ASSUME Init PROVE Uncounted = {}
    BY DEF OverrunInv
  <2> QED
    BY DEF Init, Uncounted, UncountedSteps, Idle
<1>2. TypeOK /\ OverrunInv /\ [Next]_vars => OverrunInv'
  <2> SUFFICES ASSUME TypeOK, OverrunInv, [Next]_vars PROVE OverrunInv'
    OBVIOUS
  <2>1. ASSUME NEW w \in Workers, RecordAttempt(w) PROVE OverrunInv'
    <3>1. Cardinality(Uncounted') = Cardinality(Uncounted) - 1
      BY <2>1, RecordCounts, StampsAreFinite, FS_RemoveElement
    <3>2. Uncounted # {}
      BY <2>1, RecordCounts
    <3> QED
      BY <2>1, <3>1, <3>2, RecordCounts, StampsAreFinite DEF OverrunInv
  <2>2. ASSUME NEW w \in Workers, DailyCheck(w) PROVE OverrunInv'
    <3>1. task[w] \in Task
      BY <2>2, Working DEF DailyCheck, Steps
    <3>2. CASE DailyCapReached
      <4>1. Uncounted' \subseteq Uncounted
        BY <2>2, <3>2, FinishEnds DEF DailyCheck, Uncounted, UncountedSteps
      <4> QED
        BY <2>2, <4>1, UncountedShrinks DEF DailyCheck
    <3>3. CASE ~DailyCapReached
      <4>1. Cardinality(stamped) < DailyCap
        BY <3>3, StampsAreFinite DEF DailyCapReached
      <4>2. Uncounted' \subseteq Workers
        BY DEF Uncounted
      <4>3. Cardinality(Uncounted') <= Cardinality(Workers) /\ Cardinality(Uncounted') \in Nat
        BY <4>2, FS_Subset, FS_CardinalityType, WorkersAssumption
      <4> QED
        BY <2>2, <4>1, <4>3, StampsAreFinite DEF OverrunInv, DailyCheck
    <3> QED
      BY <3>2, <3>3
  <2>3. ASSUME NEW w \in Workers, Start(w) \/ Ladder(w) \/ Disturbance(w),
               ~DailyCheck(w), stamped' = stamped
        PROVE  OverrunInv'
    <3>1. \A v \in Workers \ {w} : task'[v] = task[v]
      BY <2>3, OneTaskMoves
    <3>2. task[w].step = "daily" => task'[w].step \in {"idle", "load"}
      <4> SUFFICES ASSUME task[w].step = "daily" PROVE task'[w].step \in {"idle", "load"}
        OBVIOUS
      <4>1. Cancel(w) \/ Killed(w)
        BY <2>3 DEF AtProvider, Start, Idle, Ladder, Load, HaltCheck, Click, Report, Count,
                    CapacityCheck, BelowFloor, Policy, Claim, Record, RecordAttempt, Render,
                    RecordRehearsal, Disturbance, RenderError, CancelLate
      <4> QED
        BY <4>1, FinishEnds DEF Cancel, Killed, Fresh, Idle, TypeOK
    <3>3. task'[w].step \in UncountedSteps => task[w].step \in UncountedSteps
      BY <2>3, <3>2, OneTaskMoves DEF Climbs, Rungs, UncountedSteps
    <3>4. Uncounted' \subseteq Uncounted
      BY <3>1, <3>3 DEF Uncounted
    <3> QED
      BY <2>3, <3>4, UncountedShrinks
  <2>4. CASE StopRequested \/ RunEnds \/ UNCHANGED vars
    <3>1. Uncounted' = Uncounted /\ stamped' = stamped
      BY <2>4 DEF StopRequested, RunEnds, vars, Uncounted
    <3> QED
      BY <3>1, UncountedShrinks
  <2>5. CASE stamped' # stamped
    BY <2>1, <2>5, OnlyRecordStamps
  <2> QED
    BY <2>2, <2>3, <2>4, <2>5 DEF Next
<1> QED
  BY <1>1, <1>2, TypeCorrect, PTL DEF Spec

\* The daily cap can be overrun, because it is read rungs before the row is stamped, but
\* never by more rows than there are other workers.
THEOREM DailyCapHolds == Spec => CapOverrunBounded
<1>1. TypeOK /\ OverrunInv /\ [Next]_vars
        => [stamped' # stamped
              => Cardinality(stamped') < DailyCap + Cardinality(Workers)]_vars
  <2> SUFFICES ASSUME TypeOK, OverrunInv, [Next]_vars, stamped' # stamped
               PROVE  Cardinality(stamped') < DailyCap + Cardinality(Workers)
    OBVIOUS
  <2>1. PICK w \in Workers : RecordAttempt(w)
    BY OnlyRecordStamps
  <2>2. /\ w \in Uncounted
        /\ Cardinality(stamped') <= Cardinality(stamped) + 1
        /\ Cardinality(stamped') \in Nat
    BY <2>1, RecordCounts
  <2>3. Cardinality(Uncounted) >= 1
    BY <2>2, StampsAreFinite, FS_EmptySet
  <2> QED
    BY <2>2, <2>3, StampsAreFinite DEF OverrunInv
<1> QED
  BY <1>1, TypeCorrect, OverrunIsBounded, PTL DEF Spec, CapOverrunBounded

-----------------------------------------------------------------------------
(* Sent is for good.  A worker writes from its copy, which other workers may have   *)
(* overtaken.  Only the write that follows a failed rendering is made without a     *)
(* claim by a worker that may be about to send: with that one ruled out, or with    *)
(* one worker, every other stale copy is harmless.                                  *)

\* Nobody overtakes a copy, or nobody writes one without a claim after the policy rung.
Sole == \A v, w \in Workers : v = w
NoStrayWrite == Sole \/ "error" \notin Faults

\* The copy of a task is of the row before its claim, or of the row it has claimed.
Claimed(t) == t.step \in {"apply", "clicked", "record"} /\ ~Rehearsal
Sendable(a) == a \in Automatable /\ Mode = "live"

CopyOf(t) ==
  /\ t.step \in {"render", "claim", "apply", "clicked", "record"}
       => t.app \in Automatable /\ Mode # "off"
  /\ t.step \in Steps \ {"load", "count"} /\ ~Claimed(t) => t.copy = "ready"
  /\ Claimed(t) => t.copy = "submitting"

\* A row nobody may send, or that one worker alone has in hand, is not sent behind a
\* copy that says `ready`; a claimed row stands at `submitting` until the claimant moves it.
RowOf(t, rows) ==
  /\ t.copy = "ready" /\ (Sole \/ ~Sendable(t.app)) => rows[t.app] \notin PostSubmit
  /\ Claimed(t) => rows[t.app] = "submitting"

CopiesAreFresh ==
  /\ \A w \in Workers : CopyOf(task[w]) /\ RowOf(task[w], status)
  /\ \A v, w \in Workers :
       Claimed(task[v]) /\ Claimed(task[w]) /\ task[v].app = task[w].app => v = w

LEMMA FreshTaskFits ==
  ASSUME NEW t, NEW rows, t.step \in {"idle", "load"}, t.copy = NoRow
  PROVE  CopyOf(t) /\ RowOf(t, rows) /\ ~Claimed(t)
BY DEF CopyOf, RowOf, Claimed, NoRow, Steps

\* What a step has to show: its own task still fits, and it moves no row another worker
\* has claimed, nor sends one behind the copy of another.
LEMMA CopiesFrame ==
  ASSUME TypeOK, CopiesAreFresh, NEW w \in Workers,
         \A v \in Workers \ {w} : task'[v] = task[v],
         CopyOf(task'[w]), RowOf(task'[w], status'),
         \A v \in Workers \ {w} : RowOf(task[v], status'),
         Claimed(task'[w]) =>
           \A v \in Workers \ {w} : ~(Claimed(task[v]) /\ task[v].app = task'[w].app)
  PROVE  CopiesAreFresh'
<1>1. \A v \in Workers : CopyOf(task'[v]) /\ RowOf(task'[v], status')
  <2> TAKE v \in Workers
  <2>1. CASE v = w
    BY <2>1
  <2>2. CASE v # w
    <3>1. task'[v] = task[v]
      BY <2>2
    <3>2. CopyOf(task[v]) /\ RowOf(task[v], status')
      BY <2>2 DEF CopiesAreFresh
    <3> QED
      BY <3>1, <3>2
  <2> QED
    BY <2>1, <2>2
<1>2. ASSUME NEW u \in Workers, NEW v \in Workers, Claimed(task'[u]), Claimed(task'[v]),
             task'[u].app = task'[v].app
      PROVE  u = v
  <2>1. CASE u # w /\ v # w
    BY <1>2, <2>1 DEF CopiesAreFresh
  <2>2. CASE u = w /\ v # w
    BY <1>2, <2>2
  <2>3. CASE u # w /\ v = w
    BY <1>2, <2>3
  <2> QED
    BY <2>1, <2>2, <2>3
<1> QED
  BY <1>1, <1>2 DEF CopiesAreFresh, CopyOf, RowOf, Claimed, Rehearsal

\* A step that writes no row and whose worker neither loads nor claims.
LEMMA RowsUntouched ==
  ASSUME CopiesAreFresh, status' = status, NEW w \in Workers
  PROVE  \A v \in Workers \ {w} : RowOf(task[v], status')
BY DEF CopiesAreFresh

\* A step that moves one row to a status before the sending, nobody else having claimed it.
LEMMA RowMovesBack ==
  ASSUME TypeOK, CopiesAreFresh, NEW w \in Workers, NEW a \in Apps, NEW s \in Status \ PostSubmit,
         status' = status \/ status' = [status EXCEPT ![a] = s],
         \A v \in Workers \ {w} : ~(Claimed(task[v]) /\ task[v].app = a)
  PROVE  \A v \in Workers \ {w} : RowOf(task[v], status')
<1> SUFFICES ASSUME NEW v \in Workers \ {w} PROVE RowOf(task[v], status')
  OBVIOUS
<1>1. RowOf(task[v], status)
  BY DEF CopiesAreFresh
<1>2. CASE task[v] = Idle
  BY <1>2 DEF Idle, RowOf, Claimed, NoRow
<1>3. CASE task[v] \in Task
  <2>1. task[v].app \in Apps
    BY <1>3, AppOfTask
  <2>2. status'[task[v].app] = status[task[v].app] \/ (task[v].app = a /\ status'[task[v].app] = s)
    BY <2>1 DEF TypeOK
  <2> QED
    BY <1>1, <2>2 DEF RowOf
<1> QED
  BY <1>2, <1>3 DEF TypeOK

\* The rungs that write no row: the copy goes one rung up with its task.
LEMMA RungKeepsCopies ==
  ASSUME TypeOK, CopiesAreFresh, NEW w \in Workers, task[w] \in Task, status' = status,
         NEW s \in {"daily", "capacity", "policy", "render", "claim", "apply"},
         Goto(w, s), task[w].step \in {"halt", "daily", "capacity", "policy", "render"},
         s \in {"render", "claim", "apply"} => task[w].app \in Automatable /\ Mode # "off",
         s = "apply" => Rehearsal
  PROVE  CopiesAreFresh'
<1>1. /\ \A v \in Workers \ {w} : task'[v] = task[v]
      /\ task'[w] = [task[w] EXCEPT !.step = s]
  BY DEF TypeOK, Goto
<1>2. task'[w].step = s /\ task'[w].app = task[w].app /\ task'[w].copy = task[w].copy
  BY <1>1 DEF Task
<1>3. task[w].copy = "ready" /\ RowOf(task[w], status)
  BY DEF CopiesAreFresh, CopyOf, Claimed, Steps
<1>4. CopyOf(task'[w]) /\ ~Claimed(task'[w])
  BY <1>2, <1>3 DEF CopyOf, Claimed, Steps
<1>5. RowOf(task'[w], status')
  BY <1>2, <1>3, <1>4 DEF RowOf
<1> QED
  BY <1>1, <1>4, <1>5, RowsUntouched, CopiesFrame

\* A task that ends or starts over: what it leaves in the row is before the sending, or
\* nothing.
LEMMA EndKeepsCopies ==
  ASSUME TypeOK, CopiesAreFresh, NEW w \in Workers,
         \A v \in Workers \ {w} : task'[v] = task[v],
         task'[w].step \in {"idle", "load"}, task'[w].copy = NoRow,
         \A v \in Workers \ {w} : RowOf(task[v], status')
  PROVE  CopiesAreFresh'
<1>1. CopyOf(task'[w]) /\ RowOf(task'[w], status') /\ ~Claimed(task'[w])
  BY FreshTaskFits
<1> QED
  BY <1>1, CopiesFrame

LEMMA FinishIsFresh ==
  ASSUME TypeOK, NEW w \in Workers, Finish(w)
  PROVE  /\ \A v \in Workers \ {w} : task'[v] = task[v]
         /\ task'[w].step = "idle" /\ task'[w].copy = NoRow
BY DEF TypeOK, Finish, Idle

\* The claimant, and a worker whose row nobody may send, are alone with the row.
LEMMA AloneWithRow ==
  ASSUME TypeOK, CopiesAreFresh, NEW w \in Workers,
         \/ Claimed(task[w]) \/ Rehearsal \/ Sole
         \/ task[w].app \notin Automatable \/ Mode = "off"
  PROVE  \A v \in Workers \ {w} : ~(Claimed(task[v]) /\ task[v].app = task[w].app)
BY DEF CopiesAreFresh, Claimed, CopyOf, Sole

LEMMA BlindMoves ==
  ASSUME NEW a \in Apps, NEW c, NEW t, Blind(a, c, t)
  PROVE  status' = status \/ status' = [status EXCEPT ![a] = t]
BY DEF Blind

LEMMA CopiesStep ==
  ASSUME NoStrayWrite, TypeOK, NobodyClaims, CopiesAreFresh, [Next]_vars
  PROVE  CopiesAreFresh'
<1>1. ASSUME NEW w \in Workers, Start(w) PROVE CopiesAreFresh'
  <2>1. /\ \A v \in Workers \ {w} : task'[v] = task[v]
        /\ task'[w].step = "load" /\ task'[w].copy = NoRow /\ status' = status
    BY <1>1 DEF Start, Fresh, Idle, TypeOK
  <2> QED
    BY <2>1, RowsUntouched, EndKeepsCopies
<1>2. ASSUME NEW w \in Workers, Load(w) PROVE CopiesAreFresh'
  <2>1. task[w] \in Task /\ task[w].app \in Apps
    BY <1>2, Working, AppOfTask DEF Load, Steps
  <2>2. CASE status[task[w].app] = "ready"
    <3>1. /\ \A v \in Workers \ {w} : task'[v] = task[v]
          /\ task'[w] = [task[w] EXCEPT !.step = "halt", !.copy = "ready"]
      BY <1>2, <2>2 DEF Load, TypeOK
    <3>2. task'[w].step = "halt" /\ task'[w].app = task[w].app /\ task'[w].copy = "ready"
      BY <2>1, <3>1 DEF Task
    <3>3. CopyOf(task'[w]) /\ RowOf(task'[w], status') /\ ~Claimed(task'[w])
      BY <1>2, <2>2, <3>2 DEF Load, CopyOf, RowOf, Claimed, PostSubmit
    <3> QED
      BY <1>2, <3>1, <3>3, RowsUntouched, CopiesFrame DEF Load
  <2>3. CASE status[task[w].app] # "ready"
    BY <1>2, <2>3, FinishIsFresh, RowsUntouched, EndKeepsCopies DEF Load
  <2> QED
    BY <2>2, <2>3
<1>3. ASSUME NEW w \in Workers, HaltCheck(w) \/ DailyCheck(w) \/ CapacityCheck(w)
      PROVE  CopiesAreFresh'
  <2>1. task[w] \in Task /\ status' = status
    BY <1>3, Working DEF HaltCheck, DailyCheck, CapacityCheck, Steps
  <2>2. CASE Finish(w)
    BY <2>1, <2>2, FinishIsFresh, RowsUntouched, EndKeepsCopies
  <2>3. CASE ~Finish(w)
    <3>1. PICK s \in {"daily", "capacity", "policy"} : Goto(w, s)
      BY <1>3, <2>3 DEF HaltCheck, DailyCheck, CapacityCheck
    <3>2. task[w].step \in {"halt", "daily", "capacity"}
      BY <1>3 DEF HaltCheck, DailyCheck, CapacityCheck
    <3> QED
      BY <2>1, <3>1, <3>2, RungKeepsCopies
  <2> QED
    BY <2>2, <2>3
<1>4. ASSUME NEW w \in Workers, BelowFloor(w) PROVE CopiesAreFresh'
  BY <1>4, FinishIsFresh, RowsUntouched, EndKeepsCopies DEF BelowFloor
<1>5. ASSUME NEW w \in Workers, Policy(w) PROVE CopiesAreFresh'
  <2>1. task[w] \in Task /\ task[w].app \in Apps
    BY <1>5, Working, AppOfTask DEF Policy, Steps
  <2>2. CASE task[w].app \in Automatable /\ Mode # "off"
    <3>1. Goto(w, "render") /\ status' = status /\ task[w].step = "policy"
      BY <1>5, <2>2 DEF Policy
    <3> QED
      BY <2>1, <2>2, <3>1, RungKeepsCopies
  <2>3. CASE ~(task[w].app \in Automatable /\ Mode # "off")
    <3>1. Blind(task[w].app, task[w].copy, "needs_review") /\ Finish(w)
      BY <1>5, <2>3 DEF Policy
    <3>2. "needs_review" \in Status \ PostSubmit
      BY DEF Status, OffPath, PostSubmit
    <3>3. \A v \in Workers \ {w} : RowOf(task[v], status')
      BY <2>1, <2>3, <3>1, <3>2, BlindMoves, AloneWithRow, RowMovesBack
    <3> QED
      BY <3>1, <3>3, FinishIsFresh, EndKeepsCopies
  <2> QED
    BY <2>2, <2>3
<1>6. ASSUME NEW w \in Workers, Render(w) PROVE CopiesAreFresh'
  <2>1. task[w] \in Task /\ status' = status /\ task[w].step = "render"
    BY <1>6, Working DEF Render, Steps
  <2>2. task[w].app \in Automatable /\ Mode # "off"
    BY <2>1 DEF CopiesAreFresh, CopyOf
  <2>3. Goto(w, IF Rehearsal THEN "apply" ELSE "claim")
    BY <1>6 DEF Render
  <2>4. CASE Rehearsal
    BY <2>1, <2>2, <2>3, <2>4, RungKeepsCopies
  <2>5. CASE ~Rehearsal
    BY <2>1, <2>2, <2>3, <2>5, RungKeepsCopies
  <2> QED
    BY <2>4, <2>5
<1>7. ASSUME NEW w \in Workers, Claim(w) PROVE CopiesAreFresh'
  <2>1. task[w] \in Task /\ task[w].app \in Apps /\ task[w].step = "claim"
    BY <1>7, Working, AppOfTask DEF Claim, Steps
  <2>2. ~Rehearsal /\ task[w].app \in Automatable /\ Mode # "off"
    BY <2>1 DEF NobodyClaims, CopiesAreFresh, CopyOf
  <2>3. CASE status[task[w].app] = "ready"
    <3>1. /\ \A v \in Workers \ {w} : task'[v] = task[v]
          /\ task'[w] = [task[w] EXCEPT !.step = "apply", !.copy = "submitting"]
          /\ status' = [status EXCEPT ![task[w].app] = "submitting"]
      BY <1>7, <2>3 DEF Claim, TypeOK
    <3>2. task'[w].step = "apply" /\ task'[w].app = task[w].app /\ task'[w].copy = "submitting"
      BY <2>1, <3>1 DEF Task
    <3>3. "submitting" \in Status \ PostSubmit
      BY DEF Status, PreSubmit, PostSubmit
    <3>4. \A v \in Workers \ {w} : ~(Claimed(task[v]) /\ task[v].app = task[w].app)
      BY <2>3 DEF CopiesAreFresh, RowOf
    <3>5. \A v \in Workers \ {w} : RowOf(task[v], status')
      BY <2>1, <3>1, <3>3, <3>4, RowMovesBack
    <3>6. status'[task[w].app] = "submitting"
      BY <2>1, <3>1 DEF TypeOK
    <3>7. CopyOf(task'[w]) /\ RowOf(task'[w], status')
      BY <2>2, <3>2, <3>6 DEF CopyOf, RowOf, Claimed, PostSubmit
    <3> QED
      BY <3>1, <3>2, <3>4, <3>5, <3>7, CopiesFrame
  <2>4. CASE status[task[w].app] # "ready"
    BY <1>7, <2>4, FinishIsFresh, RowsUntouched, EndKeepsCopies DEF Claim
  <2> QED
    BY <2>3, <2>4
<1>8. ASSUME NEW w \in Workers, Click(w) \/ Report(w) PROVE CopiesAreFresh'
  <2>1. task[w] \in Task /\ task[w].step \in AtProvider /\ status' = status
    BY <1>8, Working DEF Click, Report, AtProvider, Steps
  <2>2. \A v \in Workers \ {w} : task'[v] = task[v]
    BY <1>8 DEF Click, Report, Goto, TypeOK
  <2>3. /\ task'[w].app = task[w].app /\ task'[w].copy = task[w].copy
        /\ task'[w].step \in {"clicked", "record"}
        /\ task'[w].step = "clicked" => ~Rehearsal
    <3>1. CASE Click(w)
      BY <2>1, <3>1 DEF Click, Goto, TypeOK, Task
    <3>2. CASE Report(w)
      <4>1. PICK r \in Reported : task' = [task EXCEPT ![w].step = "record", ![w].reported = r]
        BY <3>2 DEF Report
      <4> QED
        BY <2>1, <4>1 DEF TypeOK, Task
    <3> QED
      BY <1>8, <3>1, <3>2
  <2>4. Claimed(task'[w]) <=> Claimed(task[w])
    BY <2>1, <2>3 DEF Claimed, AtProvider
  <2>5. CopyOf(task[w]) /\ RowOf(task[w], status)
    BY DEF CopiesAreFresh
  <2>6. CopyOf(task'[w])
    BY <2>1, <2>3, <2>4, <2>5 DEF CopyOf, AtProvider, Steps
  <2>7. RowOf(task'[w], status')
    BY <2>1, <2>3, <2>4, <2>5 DEF RowOf
  <2>8. Claimed(task'[w]) =>
          \A v \in Workers \ {w} : ~(Claimed(task[v]) /\ task[v].app = task'[w].app)
    BY <2>3, <2>4 DEF CopiesAreFresh
  <2> QED
    BY <2>1, <2>2, <2>6, <2>7, <2>8, RowsUntouched, CopiesFrame
<1>9. ASSUME NEW w \in Workers, RecordAttempt(w), ~Rehearsal PROVE CopiesAreFresh'
  <2>1. task[w] \in Task /\ task[w].app \in Apps /\ task[w].step = "record"
    BY <1>9, Working, AppOfTask DEF RecordAttempt, Steps
  <2>2. Claimed(task[w]) /\ task[w].copy = "submitting" /\ Sendable(task[w].app)
    BY <1>9, <2>1, ModeAssumption DEF Claimed, CopiesAreFresh, CopyOf, Sendable, Rehearsal
  <2>3. /\ \A v \in Workers \ {w} : task'[v] = task[v]
        /\ task'[w] = [task[w] EXCEPT !.step = "count"]
    BY <1>9 DEF RecordAttempt, Goto, TypeOK
  <2>4. task'[w].step = "count" /\ task'[w].copy = "submitting"
    BY <2>1, <2>2, <2>3 DEF Task
  <2>5. CopyOf(task'[w]) /\ RowOf(task'[w], status') /\ ~Claimed(task'[w])
    BY <2>4 DEF CopyOf, RowOf, Claimed
  <2>6. \A v \in Workers \ {w} : RowOf(task[v], status')
    <3> SUFFICES ASSUME NEW v \in Workers \ {w} PROVE RowOf(task[v], status')
      OBVIOUS
    <3>1. RowOf(task[v], status) /\ ~(Claimed(task[v]) /\ task[v].app = task[w].app) /\ ~Sole
      BY <2>2, AloneWithRow DEF CopiesAreFresh, Sole
    <3>2. CASE task[v].app = task[w].app
      BY <2>2, <3>1, <3>2 DEF RowOf
    <3>3. CASE task[v] = Idle
      BY <3>3 DEF Idle, RowOf, Claimed, NoRow
    <3>4. CASE task[v] \in Task /\ task[v].app # task[w].app
      <4>1. status'[task[v].app] = status[task[v].app]
        BY <1>9, <2>1, <3>4, AppOfTask DEF RecordAttempt, Blind, TypeOK
      <4> QED
        BY <3>1, <4>1 DEF RowOf
    <3> QED
      BY <3>2, <3>3, <3>4 DEF TypeOK
  <2> QED
    BY <2>3, <2>5, <2>6, CopiesFrame
<1>10. ASSUME NEW w \in Workers, RecordRehearsal(w), Rehearsal PROVE CopiesAreFresh'
  <2>1. task[w] \in Task /\ task[w].app \in Apps /\ Finish(w)
    BY <1>10, Working, AppOfTask DEF RecordRehearsal, Steps
  <2>2. PICK s \in {"needs_review", "failed"} :
          status' = status \/ status' = [status EXCEPT ![task[w].app] = s]
    BY <1>10, <2>1, BlindMoves DEF RecordRehearsal
  <2>3. s \in Status \ PostSubmit
    BY DEF Status, OffPath, PostSubmit
  <2>4. \A v \in Workers \ {w} : RowOf(task[v], status')
    BY <1>10, <2>1, <2>2, <2>3, AloneWithRow, RowMovesBack
  <2> QED
    BY <2>1, <2>4, FinishIsFresh, EndKeepsCopies
<1>11. ASSUME NEW w \in Workers, Count(w) \/ CancelLate(w) PROVE CopiesAreFresh'
  BY <1>11, FinishIsFresh, RowsUntouched, EndKeepsCopies DEF Count, CancelLate
<1>12. ASSUME NEW w \in Workers, RenderError(w) PROVE CopiesAreFresh'
  <2>1. task[w] \in Task /\ task[w].app \in Apps /\ Finish(w)
    BY <1>12, Working, AppOfTask DEF RenderError, Steps
  <2>2. status' = status \/ status' = [status EXCEPT ![task[w].app] = "failed"]
    BY <1>12 DEF RenderError, Blind
  <2>3. "failed" \in Status \ PostSubmit /\ Sole
    BY <1>12 DEF Status, OffPath, PostSubmit, RenderError, NoStrayWrite
  <2>4. \A v \in Workers \ {w} : RowOf(task[v], status')
    BY <2>1, <2>2, <2>3, AloneWithRow, RowMovesBack
  <2> QED
    BY <2>1, <2>4, FinishIsFresh, EndKeepsCopies
<1>13. ASSUME NEW w \in Workers, Cancel(w) PROVE CopiesAreFresh'
  <2>1. task[w] \in Task /\ task[w].app \in Apps /\ Finish(w)
    BY <1>13, Working, AppOfTask DEF Cancel, Steps
  <2>2. CASE task[w].step \in AtProvider /\ ~Rehearsal
    <3>1. status' = status \/ status' = [status EXCEPT ![task[w].app] = "needs_review"]
      BY <1>13, <2>2 DEF Cancel, Blind
    <3>2. "needs_review" \in Status \ PostSubmit
      BY DEF Status, OffPath, PostSubmit
    <3>3. \A v \in Workers \ {w} : RowOf(task[v], status')
      BY <2>1, <2>2, <3>1, <3>2, AloneWithRow, RowMovesBack DEF Claimed, AtProvider
    <3> QED
      BY <2>1, <3>3, FinishIsFresh, EndKeepsCopies
  <2>3. CASE ~(task[w].step \in AtProvider /\ ~Rehearsal)
    BY <1>13, <2>1, <2>3, FinishIsFresh, RowsUntouched, EndKeepsCopies DEF Cancel
  <2> QED
    BY <2>2, <2>3
<1>14. ASSUME NEW w \in Workers, Killed(w) PROVE CopiesAreFresh'
  <2>1. status' = status
    BY <1>14 DEF Killed
  <2>2. CASE Finish(w)
    BY <2>1, <2>2, FinishIsFresh, RowsUntouched, EndKeepsCopies
  <2>3. CASE task' = [task EXCEPT ![w] = Fresh(task[w].app, task[w].requeued)]
    <3>1. Fresh(task[w].app, task[w].requeued).step = "load"
          /\ Fresh(task[w].app, task[w].requeued).copy = NoRow
      BY DEF Fresh, Idle
    <3>2. /\ \A v \in Workers \ {w} : task'[v] = task[v]
          /\ task'[w].step = "load" /\ task'[w].copy = NoRow
      BY <2>3, <3>1 DEF TypeOK
    <3> QED
      BY <2>1, <3>2, RowsUntouched, EndKeepsCopies
  <2> QED
    BY <1>14, <2>2, <2>3 DEF Killed
<1>15. CASE UNCHANGED <<status, task>>
  BY <1>15 DEF CopiesAreFresh, CopyOf, RowOf, Claimed, Rehearsal
<1>16. ASSUME NEW w \in Workers, Ladder(w) \/ Disturbance(w) \/ Start(w) PROVE CopiesAreFresh'
  BY <1>16, <1>1, <1>2, <1>3, <1>4, <1>5, <1>6, <1>7, <1>8, <1>9, <1>10, <1>11, <1>12,
     <1>13, <1>14 DEF Ladder, Disturbance, Record
<1> QED
  BY <1>15, <1>16 DEF Next, StopRequested, RunEnds, vars

LEMMA CopiesStayFresh ==
  ASSUME NoStrayWrite
  PROVE  Spec => []CopiesAreFresh
<1>1. Init => CopiesAreFresh
  BY DEF Init, CopiesAreFresh, CopyOf, RowOf, Claimed, Idle, NoRow, Steps
<1>2. TypeOK /\ NobodyClaims /\ CopiesAreFresh /\ [Next]_vars => CopiesAreFresh'
  BY CopiesStep
<1> QED
  BY <1>1, <1>2, TypeCorrect, RehearsalsDoNotClaim, PTL DEF Spec

\* While nothing fails on the way to the form, or one worker does everything, an
\* application the employer holds never walks back: what Pipeline._fail writes after a
\* failed rendering is the only stale write of the ladder that can undo a submission.
THEOREM SentIsForGood ==
  ASSUME NoStrayWrite
  PROVE  Spec => SentStaysSent
<1>1. TypeOK /\ CopiesAreFresh /\ [Next]_vars
        => [\A a \in Apps : status[a] \in PostSubmit => status'[a] \in PostSubmit]_vars
  <2> SUFFICES ASSUME TypeOK, CopiesAreFresh, Next, NEW a \in Apps, status[a] \in PostSubmit,
                      status'[a] # status[a]
               PROVE  status'[a] \in PostSubmit
    OBVIOUS
  <2>1. ASSUME NEW w \in Workers, NEW t, task[w] \in Task,
               Blind(task[w].app, task[w].copy, t),
               \/ task[w].copy = "ready" /\ (Sole \/ ~Sendable(task[w].app))
               \/ Claimed(task[w])
        PROVE  FALSE
    <3>1. task[w].app = a
      BY <2>1, AppOfTask DEF Blind, TypeOK
    <3>2. status[a] \notin PostSubmit
      BY <2>1, <3>1 DEF CopiesAreFresh, RowOf, PostSubmit
    <3> QED
      BY <3>2
  <2>2. PICK w \in Workers : Start(w) \/ Ladder(w) \/ Disturbance(w)
    BY DEF Next, StopRequested, RunEnds
  <2>3. ASSUME task[w].step \in Steps PROVE task[w] \in Task /\ CopyOf(task[w])
    BY <2>3, Working DEF CopiesAreFresh
  <2>4. CASE Claim(w)
    BY <2>4 DEF Claim, TypeOK, PostSubmit
  <2>5. CASE Policy(w)
    <3>1. task[w] \in Task /\ task[w].copy = "ready"
      BY <2>3, <2>5 DEF Policy, Steps, CopyOf, Claimed
    <3>2. ~Sendable(task[w].app) /\ Blind(task[w].app, task[w].copy, "needs_review")
      BY <2>5 DEF Policy, Sendable
    <3> QED
      BY <2>1, <3>1, <3>2
  <2>6. CASE Record(w) /\ ~Rehearsal
    <3>1. task[w] \in Task /\ Claimed(task[w])
      BY <2>3, <2>6 DEF Record, RecordAttempt, Steps, Claimed
    <3> QED
      BY <2>1, <2>6, <3>1 DEF Record, RecordAttempt
  <2>7. CASE Record(w) /\ Rehearsal
    <3>1. task[w] \in Task /\ task[w].copy = "ready" /\ ~Sendable(task[w].app)
      BY <2>3, <2>7 DEF Record, RecordRehearsal, Steps, CopyOf, Claimed, Rehearsal, Sendable
    <3>2. PICK t : Blind(task[w].app, task[w].copy, t)
      BY <2>7 DEF Record, RecordRehearsal
    <3> QED
      BY <2>1, <3>1, <3>2
  <2>8. CASE RenderError(w)
    <3>1. task[w] \in Task /\ task[w].copy = "ready" /\ Sole
      BY <2>3, <2>8 DEF RenderError, Steps, CopyOf, Claimed, NoStrayWrite
    <3> QED
      BY <2>1, <2>8, <3>1 DEF RenderError
  <2>9. CASE Cancel(w)
    <3>1. task[w].step \in AtProvider /\ ~Rehearsal
          /\ Blind(task[w].app, task[w].copy, "needs_review")
      BY <2>9 DEF Cancel
    <3>2. task[w] \in Task /\ Claimed(task[w])
      BY <2>3, <3>1 DEF AtProvider, Steps, Claimed
    <3> QED
      BY <2>1, <3>1, <3>2
  <2>10. CASE Start(w) \/ CancelLate(w) \/ Killed(w)
    BY <2>10 DEF Start, CancelLate, Killed
  <2>11. CASE \/ Load(w) \/ HaltCheck(w) \/ DailyCheck(w) \/ CapacityCheck(w) \/ BelowFloor(w)
              \/ Render(w) \/ Click(w) \/ Report(w) \/ Count(w)
    BY <2>11 DEF Load, HaltCheck, DailyCheck, CapacityCheck, BelowFloor, Render, Click, Report, Count
  <2> QED
    BY <2>2, <2>4, <2>5, <2>6, <2>7, <2>8, <2>9, <2>10, <2>11 DEF Ladder, Disturbance
<1>2. Spec => [][\A a \in Apps : status[a] \in PostSubmit => status'[a] \in PostSubmit]_vars
  BY <1>1, TypeCorrect, CopiesStayFresh, PTL DEF Spec
<1> QED
  BY <1>2 DEF SentStaysSent

-----------------------------------------------------------------------------
(* What the helpers of RunSession do to a row. *)

Loaded == {"start", "stop", "close", "limit", "tick", "reap"}
InstanceOf == [op : Loaded, run : Runs, copy : Row]

LEMMA RowFields ==
  ASSUME NEW s \in Row
  PROVE  /\ s.status \in {"absent", "running"} \cup Ended
         /\ s.requested \in BOOLEAN
         /\ s.reason \in Reasons \cup {"none"}
         /\ s.ended \in Actors \cup {"none"}
BY DEF Row

\* A flush keeps what others wrote to the attributes the instance did not change.
LEMMA FlushedIs ==
  ASSUME NEW s \in Row, NEW l \in Row, NEW w \in Row
  PROVE  /\ Flushed(s, l, w) \in Row
         /\ Flushed(s, l, w).status = IF w.status = l.status THEN s.status ELSE w.status
         /\ Flushed(s, l, w).requested =
              IF w.requested = l.requested THEN s.requested ELSE w.requested
         /\ Flushed(s, l, w).reason = IF w.reason = l.reason THEN s.reason ELSE w.reason
         /\ Flushed(s, l, w).ended = IF w.ended = l.ended THEN s.ended ELSE w.ended
BY DEF Flushed, Attribute, Row

LEMMA WithStopIs ==
  ASSUME NEW c \in Row, NEW reason \in Reasons
  PROVE  /\ WithStop(c, reason) \in Row
         /\ WithStop(c, reason).status = c.status
         /\ WithStop(c, reason).ended = c.ended
         /\ WithStop(c, reason).requested = TRUE
         /\ WithStop(c, reason).reason = IF c.requested THEN c.reason ELSE reason
BY DEF WithStop, Row

LEMMA WithFinishIs ==
  ASSUME NEW c \in Row, NEW x \in Actors, NEW st \in Ended,
         NEW reason \in Reasons \cup {"none"}
  PROVE  /\ WithFinish(c, x, st, reason) \in Row
         /\ WithFinish(c, x, st, reason).status = st
         /\ WithFinish(c, x, st, reason).requested = c.requested
         /\ WithFinish(c, x, st, reason).reason = IF c.reason = "none" THEN reason ELSE c.reason
         /\ WithFinish(c, x, st, reason).ended = IF c.ended = "none" THEN x ELSE c.ended
BY DEF WithFinish, Row

LEMMA StatusForIs ==
  ASSUME NEW reason
  PROVE  StatusFor(reason) \in Ended
BY DEF StatusFor, Ended

LEMMA SomeReasons ==
  /\ Completing \subseteq Reasons
  /\ {"limit_reached", "daily_limit_reached", "user_stopped", "stalled",
      "infrastructure_failure"} \subseteq Reasons
  /\ "none" \notin Reasons
  /\ "stalled" \notin Completing /\ "user_stopped" \notin Completing
BY DEF Completing, Reasons

LEMMA ActorIs ==
  ASSUME RunTypeOK, NEW x \in Actors, actor[x].op \in Loaded
  PROVE  actor[x] \in InstanceOf /\ actor[x].run \in Runs /\ actor[x].copy \in Row
BY DEF RunTypeOK, Loaded, InstanceOf, Free

LEMMA BeginTypes ==
  ASSUME RunTypeOK, NEW x \in Actors, NEW op \in Loaded, NEW r \in Runs, Begin(x, op, r)
  PROVE  /\ actor' \in [Actors -> InstanceOf \cup {Free}]
         /\ actor'[x].op = op /\ actor'[x].run = r /\ actor'[x].copy = row[r]
         /\ \A y \in Actors \ {x} : actor'[y] = actor[y]
<1>1. [op |-> op, run |-> r, copy |-> row[r]] \in InstanceOf
  BY DEF RunTypeOK, InstanceOf
<1> QED
  BY <1>1 DEF RunTypeOK, Begin, Loaded, InstanceOf

LEMMA DoneTypes ==
  ASSUME RunTypeOK, NEW x \in Actors, Done(x)
  PROVE  /\ actor' \in [Actors -> InstanceOf \cup {Free}]
         /\ actor'[x].op = "free"
         /\ \A y \in Actors \ {x} : actor'[y] = actor[y]
BY DEF RunTypeOK, Done, Loaded, InstanceOf, Free

LEMMA FlushTypes ==
  ASSUME RunTypeOK, NEW r \in Runs, NEW l \in Row, NEW w \in Row, Flush(r, l, w)
  PROVE  /\ row' \in [Runs -> Row]
         /\ quiet' \subseteq Runs
         /\ row'[r] = Flushed(row[r], l, w)
         /\ \A s \in Runs \ {r} : row'[s] = row[s]
BY FlushedIs DEF RunTypeOK, Flush

\* The rows, the instances and the silent runs keep their types, whatever stale instance
\* is flushed over a row.
THEOREM RunTypes == RunSpec => []RunTypeOK
<1>1. RunInit => RunTypeOK
  BY DEF RunInit, RunTypeOK, Absent, Row
<1>2. RunTypeOK /\ [RunNext]_runVars => RunTypeOK'
  <2> SUFFICES ASSUME RunTypeOK, [RunNext]_runVars PROVE RunTypeOK'
    OBVIOUS
  <2> USE DEF Loaded
  <2>1. ASSUME NEW x \in Actors,
               StartCheck(x) \/ StopLoad(x) \/ LimitLoad(x) \/ TickLoad(x) \/ WatchdogSelect(x)
        PROVE  RunTypeOK'
    <3>1. \E r \in Runs, op \in Loaded : Begin(x, op, r)
      BY <2>1 DEF StartCheck, StopLoad, LimitLoad, TickLoad, WatchdogSelect, Running
    <3>2. actor' \in [Actors -> InstanceOf \cup {Free}]
      BY <3>1, BeginTypes
    <3>3. UNCHANGED <<row, quiet>>
      BY <2>1 DEF StartCheck, StopLoad, LimitLoad, TickLoad, WatchdogSelect
    <3> QED
      BY <3>2, <3>3 DEF RunTypeOK, InstanceOf
  <2>2. ASSUME NEW x \in Actors, TickContinue(x) \/ Abort(x) PROVE RunTypeOK'
    BY <2>2, DoneTypes DEF TickContinue, Abort, RunTypeOK, InstanceOf
  <2>3. ASSUME NEW x \in Actors, StartInsert(x) PROVE RunTypeOK'
    <3>1. Opened \in Row
      BY DEF Opened, Absent, Row
    <3>2. row' \in [Runs -> Row]
      BY <2>3, <3>1 DEF StartInsert, RunTypeOK
    <3> QED
      BY <2>3, <3>2, DoneTypes DEF StartInsert, RunTypeOK, InstanceOf
  <2>4. ASSUME NEW x \in Actors, StopRequest(x) PROVE RunTypeOK'
    <3> DEFINE wanted == WithStop(actor[x].copy, "user_stopped")
    <3>1. actor[x] \in InstanceOf /\ actor[x].run \in Runs /\ actor[x].copy \in Row
      BY <2>4, ActorIs DEF StopRequest
    <3>2. wanted \in Row
      BY <3>1, WithStopIs, SomeReasons
    <3>3. [actor[x] EXCEPT !.op = "close", !.copy = wanted] \in InstanceOf
      BY <3>1, <3>2 DEF InstanceOf
    <3>4. actor' \in [Actors -> InstanceOf \cup {Free}]
      BY <2>4, <3>3 DEF StopRequest, RunTypeOK, InstanceOf
    <3>5. row' \in [Runs -> Row] /\ quiet' \subseteq Runs
      BY <2>4, <3>1, <3>2, FlushTypes DEF StopRequest
    <3> QED
      BY <3>4, <3>5 DEF RunTypeOK, InstanceOf
  <2>5. ASSUME NEW x \in Actors, StopClose(x) \/ LimitRequest(x) \/ TickConclude(x) \/ TickFails(x)
        PROVE  RunTypeOK'
    <3>1. actor[x].run \in Runs /\ actor[x].copy \in Row
      BY <2>5, ActorIs DEF StopClose, LimitRequest, TickConclude, TickFails
    <3>2. \E w \in Row : Flush(actor[x].run, actor[x].copy, w)
      <4>1. CASE StopClose(x)
        BY <4>1, <3>1, WithFinishIs, SomeReasons DEF StopClose, Ended
      <4>2. CASE LimitRequest(x)
        BY <4>2, <3>1, WithStopIs, SomeReasons DEF LimitRequest
      <4>3. CASE TickFails(x)
        BY <4>3, <3>1, WithFinishIs, SomeReasons DEF TickFails, Ended
      <4>4. CASE TickConclude(x)
        <5>1. PICK reason \in IF actor[x].copy.requested THEN {actor[x].copy.reason} ELSE Completing :
                Flush(actor[x].run, actor[x].copy,
                      WithFinish(actor[x].copy, x, StatusFor(reason), reason))
          BY <4>4 DEF TickConclude
        <5>2. reason \in Reasons \cup {"none"}
          BY <3>1, <5>1, RowFields, SomeReasons
        <5> QED
          BY <3>1, <5>1, <5>2, WithFinishIs, StatusForIs
      <4> QED
        BY <2>5, <4>1, <4>2, <4>3, <4>4
    <3>3. row' \in [Runs -> Row] /\ quiet' \subseteq Runs
      BY <3>1, <3>2, FlushTypes
    <3>4. Done(x)
      BY <2>5 DEF StopClose, LimitRequest, TickConclude, TickFails
    <3> QED
      BY <3>3, <3>4, DoneTypes DEF RunTypeOK, InstanceOf
  <2>6. ASSUME NEW x \in Actors, WatchdogReap(x) PROVE RunTypeOK'
    <3>1. actor[x].run \in Runs
      BY <2>6, ActorIs DEF WatchdogReap
    <3>2. WithFinish(row[actor[x].run], x, "failed", "stalled") \in Row
      BY <3>1, WithFinishIs, SomeReasons DEF Ended, RunTypeOK
    <3>3. row' \in [Runs -> Row] /\ quiet' \subseteq Runs
      BY <2>6, <3>1, <3>2 DEF WatchdogReap, RunTypeOK
    <3> QED
      BY <2>6, <3>3, DoneTypes DEF WatchdogReap, RunTypeOK, InstanceOf
  <2>7. ASSUME NEW r \in Runs, Progress(r) \/ FallsSilent(r) PROVE RunTypeOK'
    BY <2>7 DEF Progress, FallsSilent, RunTypeOK
  <2>8. CASE UNCHANGED runVars
    BY <2>8 DEF runVars, RunTypeOK
  <2> QED
    BY <2>1, <2>2, <2>3, <2>4, <2>5, <2>6, <2>7, <2>8 DEF RunNext
<1> QED
  BY <1>1, <1>2, PTL DEF RunSpec

-----------------------------------------------------------------------------
(* The end of a run is explained.                                           *)

\* What EndIsExplained asks of a row, and what makes it inductive: a stop the user asked
\* for is on record as such.
Explained(c) ==
  /\ c.status \in Ended <=> c.ended # "none"
  /\ c.status \in Ended => c.reason # "none"
  /\ c.requested => c.reason # "none"
  /\ c.reason = "stalled" => c.status = "failed" /\ ~c.requested
  /\ c.reason = "user_stopped" => c.requested

\* A row has moved on from a copy of it: nothing the copy knows has been taken back, and
\* what had a reason then was not reaped for want of one since.
Follows(s, c) ==
  /\ c.ended # "none" => s.ended # "none"
  /\ c.reason # "none" => s.reason # "none"
  /\ c.requested => s.requested
  /\ c.reason # "none" /\ s.reason = "stalled" => c.reason = "stalled"

Rewriting == {"stop", "close", "limit", "tick"}

ActorInv(x) ==
  /\ actor[x].op \in Rewriting
       => Explained(actor[x].copy) /\ Follows(row[actor[x].run], actor[x].copy)
  /\ actor[x].op = "tick" => actor[x].copy.status = "running"
  /\ actor[x].op = "close" => actor[x].copy.requested

RunInv ==
  /\ \A r \in Runs : Explained(row[r])
  /\ \A x \in Actors : ActorInv(x)

\* A stop flushed from a copy the row has moved on from.
LEMMA StopFlushed ==
  ASSUME NEW s \in Row, NEW l \in Row, Explained(s), Explained(l), Follows(s, l),
         NEW reason \in {"user_stopped", "limit_reached", "daily_limit_reached"}
  PROVE  LET w == WithStop(l, reason)
             n == Flushed(s, l, w)
         IN  /\ Explained(n) /\ Explained(w) /\ Follows(n, w)
             /\ \A c : Follows(s, c) => Follows(n, c)
             /\ s.requested \/ s.status \in Ended => n.requested \/ n.status \in Ended
<1> DEFINE w == WithStop(l, reason)
           n == Flushed(s, l, w)
<1>1. reason \in Reasons
  BY SomeReasons
<1>2. /\ w \in Row
      /\ w.status = l.status
      /\ w.ended = l.ended
      /\ w.requested = TRUE
      /\ w.reason = IF l.requested THEN l.reason ELSE reason
  <2> HIDE DEF w
  <2>1. w = WithStop(l, reason)
    BY DEF w
  <2> QED
    BY <1>1, <2>1, WithStopIs
<1> HIDE DEF w
<1>3. /\ n.status = IF w.status = l.status THEN s.status ELSE w.status
      /\ n.requested = IF w.requested = l.requested THEN s.requested ELSE w.requested
      /\ n.reason = IF w.reason = l.reason THEN s.reason ELSE w.reason
      /\ n.ended = IF w.ended = l.ended THEN s.ended ELSE w.ended
  BY <1>2, FlushedIs
<1> HIDE DEF n
<1>a. n.status = s.status /\ n.ended = s.ended
  BY <1>2, <1>3
<1>b. /\ s.requested \in BOOLEAN /\ l.requested \in BOOLEAN
      /\ l.requested => s.requested
      /\ reason # "none" /\ reason # "stalled"
  BY RowFields DEF Follows
<1> SUFFICES /\ Explained(n) /\ Explained(w) /\ Follows(n, w)
             /\ \A c : Follows(s, c) => Follows(n, c)
             /\ s.requested \/ s.status \in Ended => n.requested \/ n.status \in Ended
  BY DEF w, n
<1>4. CASE l.requested
  <2>1. w.requested = l.requested
    BY <1>2, <1>b, <1>4
  <2>2. /\ n.requested = s.requested /\ n.reason = s.reason
        /\ w.reason = l.reason /\ w.status = l.status /\ w.ended = l.ended
    BY <1>2, <1>3, <1>4, <2>1
  <2>3. Explained(n)
    BY <1>a, <2>2 DEF Explained
  <2>4. Explained(w)
    BY <1>2, <2>1, <2>2 DEF Explained
  <2>5. Follows(n, w)
    BY <1>a, <2>1, <2>2 DEF Follows
  <2>6. \A c : Follows(s, c) => Follows(n, c)
    BY <1>a, <2>2 DEF Follows
  <2> QED
    BY <1>a, <2>2, <2>3, <2>4, <2>5, <2>6
<1>5. CASE ~l.requested
  <2>1. n.requested /\ w.reason = reason
    BY <1>2, <1>3, <1>b, <1>5
  <2>2. n.reason # "none" /\ n.reason # "stalled"
    BY <1>2, <1>3, <1>b, <2>1 DEF Follows
  <2>3. Explained(n)
    BY <1>a, <2>1, <2>2 DEF Explained
  <2>4. Explained(w)
    BY <1>2, <1>b, <2>1 DEF Explained
  <2>5. Follows(n, w)
    BY <1>a, <1>2, <2>1, <2>2 DEF Follows
  <2>6. \A c : Follows(s, c) => Follows(n, c)
    BY <1>a, <2>1, <2>2 DEF Follows
  <2> QED
    BY <2>1, <2>3, <2>4, <2>5, <2>6
<1> QED
  BY <1>4, <1>5

\* A conclusion flushed from such a copy.
LEMMA FinishFlushed ==
  ASSUME NEW s \in Row, NEW l \in Row, Explained(s), Explained(l), Follows(s, l),
         NEW x \in Actors, NEW st \in Ended, NEW reason \in Reasons \ {"stalled"},
         reason = "user_stopped" => l.requested, l.reason # "stalled"
  PROVE  LET n == Flushed(s, l, WithFinish(l, x, st, reason))
         IN  /\ Explained(n)
             /\ \A c : Follows(s, c) => Follows(n, c)
             /\ n.status \in Ended
<1> DEFINE w == WithFinish(l, x, st, reason)
           n == Flushed(s, l, w)
<1>1. /\ w \in Row /\ w.status = st /\ w.requested = l.requested
      /\ w.reason = IF l.reason = "none" THEN reason ELSE l.reason
      /\ w.ended = IF l.ended = "none" THEN x ELSE l.ended
  BY WithFinishIs
<1> HIDE DEF w
<1>2. /\ n.status = IF st = l.status THEN s.status ELSE st
      /\ n.requested = s.requested
      /\ n.reason = IF w.reason = l.reason THEN s.reason ELSE w.reason
      /\ n.ended = IF w.ended = l.ended THEN s.ended ELSE w.ended
  BY <1>1, FlushedIs
<1> HIDE DEF n
<1>3. reason # "none" /\ x # "none"
  BY SomeReasons, ActorsAssumption
<1>4. n.status \in Ended
  BY <1>2 DEF Explained, Follows
<1>5. n.ended # "none"
  BY <1>1, <1>2, <1>3 DEF Follows
<1>6. n.reason # "none"
  BY <1>1, <1>2, <1>3 DEF Follows
<1>7. n.reason # "stalled"
  BY <1>1, <1>2, <1>3 DEF Follows, Explained
<1> QED
  BY <1>1, <1>2, <1>3, <1>4, <1>5, <1>6, <1>7 DEF Explained, Follows, w, n

\* The watchdog's update, by id alone.
LEMMA ReapedRow ==
  ASSUME NEW s \in Row, Explained(s), NEW x \in Actors
  PROVE  LET n == WithFinish(s, x, "failed", "stalled")
         IN  /\ Explained(n)
             /\ \A c : Follows(s, c) => Follows(n, c)
             /\ n.status \in Ended
<1> DEFINE n == WithFinish(s, x, "failed", "stalled")
<1>1. n = WithFinish(s, x, "failed", "stalled")
  OBVIOUS
<1> HIDE DEF n
<1>2. "failed" \in Ended /\ "stalled" \in Reasons \cup {"none"}
  BY SomeReasons DEF Ended
<1>3. /\ n.status = "failed"
      /\ n.requested = s.requested
      /\ n.reason = IF s.reason = "none" THEN "stalled" ELSE s.reason
      /\ n.ended = IF s.ended = "none" THEN x ELSE s.ended
  BY <1>1, <1>2, WithFinishIs
<1>4. n.ended # "none"
  BY <1>3, ActorsAssumption
<1>5. Explained(n)
  BY <1>2, <1>3, <1>4 DEF Explained
<1>6. \A c : Follows(s, c) => Follows(n, c)
  BY <1>3, <1>4 DEF Follows
<1> QED
  BY <1>2, <1>3, <1>5, <1>6 DEF n

\* A step that moves one row forward and one actor keeps the invariant of the rest.
LEMMA OneRowMoves ==
  ASSUME RunTypeOK, RunInv, NEW r \in Runs, NEW x \in Actors,
         Explained(row'[r]), \A c : Follows(row[r], c) => Follows(row'[r], c),
         \A s \in Runs \ {r} : row'[s] = row[s],
         \A y \in Actors \ {x} : actor'[y] = actor[y],
         ActorInv(x)'
  PROVE  RunInv'
<1>1. \A s \in Runs : Explained(row'[s])
  BY DEF RunInv
<1>2. ASSUME NEW y \in Actors \ {x} PROVE ActorInv(y)'
  <2>1. ActorInv(y) /\ actor'[y] = actor[y]
    BY DEF RunInv
  <2>2. actor[y].op \in Rewriting => actor[y].run \in Runs
    BY ActorIs DEF Rewriting, Loaded
  <2>3. actor[y].op \in Rewriting =>
          Follows(row'[actor[y].run], actor[y].copy)
    BY <2>1, <2>2 DEF ActorInv
  <2> QED
    BY <2>1, <2>3 DEF ActorInv
<1> QED
  BY <1>1, <1>2 DEF RunInv

\* The rows stand still, and one actor moves.
LEMMA OneActorMoves ==
  ASSUME RunTypeOK, RunInv, NEW x \in Actors, row' = row,
         \A y \in Actors \ {x} : actor'[y] = actor[y],
         ActorInv(x)'
  PROVE  RunInv'
BY DEF RunInv, ActorInv

\* An actor that is free, or that holds no instance it will flush, owes nothing.
LEMMA OwesNothing ==
  ASSUME NEW x, actor'[x].op \notin Rewriting
  PROVE  ActorInv(x)'
BY DEF ActorInv, Rewriting

\* A copy taken now is not behind its row.
LEMMA FreshCopy ==
  ASSUME NEW c, Explained(c)
  PROVE  Follows(c, c)
BY DEF Follows

LEMMA RunInvHolds == RunSpec => []RunInv
<1>1. RunInit => RunInv
  BY DEF RunInit, RunInv, Explained, ActorInv, Absent, Free, Rewriting, Ended
<1>2. RunTypeOK /\ RunInv /\ [RunNext]_runVars => RunInv'
  <2> SUFFICES ASSUME RunTypeOK, RunInv, [RunNext]_runVars PROVE RunInv'
    OBVIOUS
  <2>1. ASSUME NEW x \in Actors,
               StopLoad(x) \/ LimitLoad(x) \/ TickLoad(x) \/ StartCheck(x) \/ WatchdogSelect(x)
        PROVE  RunInv'
    <3>1. PICK r \in Runs, op \in Loaded :
            Begin(x, op, r) /\ (op = "tick" => row[r].status = "running") /\ op # "close"
      BY <2>1 DEF StartCheck, StopLoad, LimitLoad, TickLoad, WatchdogSelect, Running, Loaded
    <3>2. /\ actor'[x].op = op /\ actor'[x].run = r /\ actor'[x].copy = row[r]
          /\ \A y \in Actors \ {x} : actor'[y] = actor[y]
      BY <3>1, BeginTypes
    <3>3. row' = row
      BY <2>1 DEF StartCheck, StopLoad, LimitLoad, TickLoad, WatchdogSelect
    <3>4. Explained(row[r]) /\ Follows(row[r], row[r])
      BY FreshCopy DEF RunInv
    <3>5. ActorInv(x)'
      BY <3>1, <3>2, <3>3, <3>4 DEF ActorInv
    <3> QED
      BY <3>2, <3>3, <3>5, OneActorMoves
  <2>2. ASSUME NEW x \in Actors, TickContinue(x) \/ Abort(x) PROVE RunInv'
    <3>1. row' = row /\ Done(x)
      BY <2>2 DEF TickContinue, Abort
    <3>2. ActorInv(x)'
      BY <3>1, DoneTypes, OwesNothing DEF Rewriting
    <3> QED
      BY <3>1, <3>2, DoneTypes, OneActorMoves
  <2>3. ASSUME NEW x \in Actors, StartInsert(x) PROVE RunInv'
    <3>1. PICK r \in Runs : row[r] = Absent /\ row' = [row EXCEPT ![r] = Opened]
      BY <2>3 DEF StartInsert
    <3>2. Done(x)
      BY <2>3 DEF StartInsert
    <3>3. row'[r] = Opened /\ \A s \in Runs \ {r} : row'[s] = row[s]
      BY <3>1 DEF RunTypeOK
    <3>4. Explained(Opened)
      BY DEF Explained, Opened, Absent, Ended
    <3>5. \A c : Follows(Absent, c) => Follows(Opened, c)
      BY DEF Follows, Opened, Absent
    <3>6. ActorInv(x)'
      BY <3>2, DoneTypes, OwesNothing DEF Rewriting
    <3>7. \A y \in Actors \ {x} : actor'[y] = actor[y]
      BY <3>2, DoneTypes
    <3> HIDE DEF Explained, Follows, ActorInv, RunTypeOK, RunInv
    <3>8. Explained(row'[r]) /\ \A c : Follows(row[r], c) => Follows(row'[r], c)
      BY <3>1, <3>3, <3>4, <3>5
    <3> QED
      BY <3>3, <3>6, <3>7, <3>8, OneRowMoves
  <2>4. ASSUME NEW x \in Actors, StopRequest(x) PROVE RunInv'
    <3> DEFINE r == actor[x].run
               l == actor[x].copy
               w == WithStop(l, "user_stopped")
    <3>1. r \in Runs /\ l \in Row /\ row[r] \in Row
      BY <2>4, ActorIs DEF StopRequest, Loaded, RunTypeOK
    <3>2. Explained(l) /\ Follows(row[r], l) /\ Explained(row[r])
      BY <2>4, <3>1 DEF StopRequest, RunInv, ActorInv, Rewriting
    <3>3. w \in Row /\ w.requested = TRUE
      BY <3>1, WithStopIs, SomeReasons
    <3>4. Flush(r, l, w) /\ actor' = [actor EXCEPT ![x].op = "close", ![x].copy = w]
      BY <2>4 DEF StopRequest
    <3>5. row'[r] = Flushed(row[r], l, w) /\ \A s \in Runs \ {r} : row'[s] = row[s]
      BY <3>1, <3>3, <3>4, FlushTypes
    <3>6. /\ Explained(row'[r]) /\ Explained(w) /\ Follows(row'[r], w)
          /\ \A c : Follows(row[r], c) => Follows(row'[r], c)
      BY <3>1, <3>2, <3>5, StopFlushed
    <3>7. actor[x] \in InstanceOf
      BY <2>4, ActorIs DEF StopRequest, Loaded
    <3>8. /\ actor'[x].op = "close" /\ actor'[x].run = r /\ actor'[x].copy = w
          /\ \A y \in Actors \ {x} : actor'[y] = actor[y]
      BY <3>4, <3>7 DEF RunTypeOK, InstanceOf
    <3>9. ActorInv(x)'
      BY <3>3, <3>6, <3>8, Zenon DEF ActorInv
    <3> QED
      BY <3>1, <3>5, <3>6, <3>8, <3>9, OneRowMoves
  <2>5. ASSUME NEW x \in Actors, LimitRequest(x) PROVE RunInv'
    <3> DEFINE r == actor[x].run
               l == actor[x].copy
    <3>1. r \in Runs /\ l \in Row /\ row[r] \in Row
      BY <2>5, ActorIs DEF LimitRequest, Loaded, RunTypeOK
    <3>2. Explained(l) /\ Follows(row[r], l) /\ Explained(row[r])
      BY <2>5, <3>1 DEF LimitRequest, RunInv, ActorInv, Rewriting
    <3>3. PICK reason \in {"limit_reached", "daily_limit_reached"} : Flush(r, l, WithStop(l, reason))
      BY <2>5 DEF LimitRequest
    <3>4. WithStop(l, reason) \in Row
      BY <3>1, WithStopIs, SomeReasons
    <3>5. row'[r] = Flushed(row[r], l, WithStop(l, reason)) /\ \A s \in Runs \ {r} : row'[s] = row[s]
      BY <3>1, <3>3, <3>4, FlushTypes
    <3>6. Explained(row'[r]) /\ \A c : Follows(row[r], c) => Follows(row'[r], c)
      BY <3>1, <3>2, <3>5, StopFlushed
    <3>7. Done(x)
      BY <2>5 DEF LimitRequest
    <3>8. ActorInv(x)'
      BY <3>7, DoneTypes, OwesNothing DEF Rewriting
    <3> QED
      BY <3>1, <3>5, <3>6, <3>7, <3>8, DoneTypes, OneRowMoves
  <2>6. ASSUME NEW x \in Actors, StopClose(x) \/ TickConclude(x) \/ TickFails(x) PROVE RunInv'
    <3> DEFINE r == actor[x].run
               l == actor[x].copy
    <3>1. r \in Runs /\ l \in Row /\ row[r] \in Row
      BY <2>6, ActorIs DEF StopClose, TickConclude, TickFails, Loaded, RunTypeOK
    <3>2. Explained(l) /\ Follows(row[r], l) /\ Explained(row[r]) /\ l.reason # "stalled"
      <4>1. Explained(l) /\ Follows(row[r], l) /\ Explained(row[r])
        BY <2>6, <3>1 DEF StopClose, TickConclude, TickFails, RunInv, ActorInv, Rewriting
      <4>2. l.requested \/ l.status = "running"
        BY <2>6 DEF StopClose, TickConclude, TickFails, RunInv, ActorInv
      <4> QED
        BY <4>1, <4>2 DEF Explained
    <3>3. \E st \in Ended, reason \in Reasons \ {"stalled"} :
            /\ reason = "user_stopped" => l.requested
            /\ Flush(r, l, WithFinish(l, x, st, reason))
      <4>1. CASE StopClose(x)
        BY <4>1, SomeReasons DEF StopClose, RunInv, ActorInv, Ended
      <4>2. CASE TickFails(x)
        BY <4>2, SomeReasons DEF TickFails, Ended
      <4>3. CASE TickConclude(x)
        <5>1. PICK reason \in IF l.requested THEN {l.reason} ELSE Completing :
                Flush(r, l, WithFinish(l, x, StatusFor(reason), reason))
          BY <4>3 DEF TickConclude
        <5>2. reason \in Reasons \ {"stalled"}
          BY <3>1, <3>2, <5>1, RowFields, SomeReasons DEF Explained
        <5>3. reason = "user_stopped" => l.requested
          BY <5>1, SomeReasons
        <5> QED
          BY <5>1, <5>2, <5>3, StatusForIs
      <4> QED
        BY <2>6, <4>1, <4>2, <4>3
    <3>4. PICK st \in Ended, reason \in Reasons \ {"stalled"} :
            /\ reason = "user_stopped" => l.requested
            /\ Flush(r, l, WithFinish(l, x, st, reason))
      BY <3>3
    <3>5. WithFinish(l, x, st, reason) \in Row
      BY <3>1, WithFinishIs
    <3>6. /\ row'[r] = Flushed(row[r], l, WithFinish(l, x, st, reason))
          /\ \A s \in Runs \ {r} : row'[s] = row[s]
      BY <3>1, <3>4, <3>5, FlushTypes
    <3>7. Explained(row'[r]) /\ \A c : Follows(row[r], c) => Follows(row'[r], c)
      BY <3>1, <3>2, <3>4, <3>6, FinishFlushed
    <3>8. Done(x)
      BY <2>6 DEF StopClose, TickConclude, TickFails
    <3>9. ActorInv(x)'
      BY <3>8, DoneTypes, OwesNothing DEF Rewriting
    <3> QED
      BY <3>1, <3>6, <3>7, <3>8, <3>9, DoneTypes, OneRowMoves
  <2>7. ASSUME NEW x \in Actors, WatchdogReap(x) PROVE RunInv'
    <3> DEFINE r == actor[x].run
    <3>1. r \in Runs /\ row[r] \in Row /\ Explained(row[r])
      BY <2>7, ActorIs DEF WatchdogReap, Loaded, RunTypeOK, RunInv
    <3>2. /\ row'[r] = WithFinish(row[r], x, "failed", "stalled")
          /\ \A s \in Runs \ {r} : row'[s] = row[s]
      BY <2>7, <3>1 DEF WatchdogReap, RunTypeOK
    <3>3. Explained(row'[r]) /\ \A c : Follows(row[r], c) => Follows(row'[r], c)
      BY <3>1, <3>2, ReapedRow
    <3>4. Done(x)
      BY <2>7 DEF WatchdogReap
    <3>5. ActorInv(x)'
      BY <3>4, DoneTypes, OwesNothing DEF Rewriting
    <3> QED
      BY <3>1, <3>2, <3>3, <3>4, <3>5, DoneTypes, OneRowMoves
  <2>8. CASE UNCHANGED <<row, actor>>
    BY <2>8 DEF RunInv, ActorInv
  <2> QED
    BY <2>1, <2>2, <2>3, <2>4, <2>5, <2>6, <2>7, <2>8 DEF RunNext, runVars, Progress, FallsSilent
<1> QED
  BY <1>1, <1>2, RunTypes, PTL DEF RunSpec

\* However the routes, the ladder, the ticks and the watchdog interleave on stale
\* instances, a run that is over says when and why, and "stalled" is only said of a run
\* nobody explained.
THEOREM EndsAreExplained == RunSpec => []EndIsExplained
<1>1. RunInv => EndIsExplained
  BY DEF RunInv, EndIsExplained, Explained
<1> QED
  BY <1>1, RunInvHolds, PTL

-----------------------------------------------------------------------------
(* A stop is never taken back.                                              *)

NoNewWork(s) == s.requested \/ s.status \in Ended

\* One row moves, and does not go back to work.
LEMMA OtherRowsHalt ==
  ASSUME NEW r \in Runs, \A s \in Runs \ {r} : row'[s] = row[s],
         NoNewWork(row[r]) => NoNewWork(row'[r])
  PROVE  \A s \in Runs : NoNewWork(row[s]) => NoNewWork(row'[s])
BY DEF NoNewWork

\* A run that refuses new work goes on refusing it, whatever stale instance a later
\* writer flushes.
THEOREM HaltsAreForGood == RunSpec => HaltIsForGood
<1> DEFINE Kept == \A r \in Runs : NoNewWork(row[r]) => NoNewWork(row'[r])
<1>1. RunTypeOK /\ RunInv /\ [RunNext]_runVars => Kept
  <2> SUFFICES ASSUME RunTypeOK, RunInv, RunNext PROVE Kept
    BY DEF runVars
  <2>1. ASSUME NEW x \in Actors, StartInsert(x) PROVE Kept
    <3>1. PICK r \in Runs : row[r] = Absent /\ row' = [row EXCEPT ![r] = Opened]
      BY <2>1 DEF StartInsert
    <3>2. ~NoNewWork(Absent)
      BY DEF NoNewWork, Absent, Ended
    <3> QED
      BY <3>1, <3>2, OtherRowsHalt DEF RunTypeOK
  <2>2. ASSUME NEW x \in Actors, StopRequest(x) \/ LimitRequest(x) PROVE Kept
    <3> DEFINE r == actor[x].run
               l == actor[x].copy
    <3>1. r \in Runs /\ l \in Row /\ row[r] \in Row
      BY <2>2, ActorIs DEF StopRequest, LimitRequest, Loaded, RunTypeOK
    <3>2. Explained(l) /\ Follows(row[r], l) /\ Explained(row[r])
      BY <2>2, <3>1 DEF StopRequest, LimitRequest, RunInv, ActorInv, Rewriting
    <3>3. \E reason \in {"user_stopped", "limit_reached", "daily_limit_reached"} :
            Flush(r, l, WithStop(l, reason))
      BY <2>2 DEF StopRequest, LimitRequest
    <3>4. PICK reason \in {"user_stopped", "limit_reached", "daily_limit_reached"} :
            Flush(r, l, WithStop(l, reason))
      BY <3>3
    <3>5. WithStop(l, reason) \in Row
      BY <3>1, WithStopIs, SomeReasons
    <3>6. row'[r] = Flushed(row[r], l, WithStop(l, reason)) /\ \A s \in Runs \ {r} : row'[s] = row[s]
      BY <3>1, <3>4, <3>5, FlushTypes
    <3>7. NoNewWork(row[r]) => NoNewWork(row'[r])
      BY <3>1, <3>2, <3>6, StopFlushed DEF NoNewWork
    <3> QED
      BY <3>1, <3>6, <3>7, OtherRowsHalt
  <2>3. ASSUME NEW x \in Actors, StopClose(x) \/ TickConclude(x) \/ TickFails(x) PROVE Kept
    <3> DEFINE r == actor[x].run
               l == actor[x].copy
    <3>1. r \in Runs /\ l \in Row /\ row[r] \in Row
      BY <2>3, ActorIs DEF StopClose, TickConclude, TickFails, Loaded, RunTypeOK
    <3>2. PICK w \in Row, st \in Ended : w.status = st /\ Flush(r, l, w)
      <4>1. CASE StopClose(x)
        BY <4>1, <3>1, WithFinishIs, SomeReasons DEF StopClose, Ended
      <4>2. CASE TickFails(x)
        BY <4>2, <3>1, WithFinishIs, SomeReasons DEF TickFails, Ended
      <4>3. CASE TickConclude(x)
        <5>1. PICK reason \in IF l.requested THEN {l.reason} ELSE Completing :
                Flush(r, l, WithFinish(l, x, StatusFor(reason), reason))
          BY <4>3 DEF TickConclude
        <5>2. reason \in Reasons \cup {"none"}
          BY <3>1, <5>1, RowFields, SomeReasons
        <5> QED
          BY <3>1, <5>1, <5>2, WithFinishIs, StatusForIs
      <4> QED
        BY <2>3, <4>1, <4>2, <4>3
    <3>3. row'[r] = Flushed(row[r], l, w) /\ \A s \in Runs \ {r} : row'[s] = row[s]
      BY <3>1, <3>2, FlushTypes
    <3>4. row'[r].status = IF w.status = l.status THEN row[r].status ELSE w.status
      BY <3>1, <3>3, FlushedIs
    <3>5. /\ Explained(l) /\ Follows(row[r], l) /\ Explained(row[r])
      BY <2>3, <3>1 DEF StopClose, TickConclude, TickFails, RunInv, ActorInv, Rewriting
    <3>6. row'[r].status \in Ended
      BY <3>2, <3>4, <3>5 DEF Explained, Follows
    <3> QED
      BY <3>1, <3>3, <3>6, OtherRowsHalt DEF NoNewWork
  <2>4. ASSUME NEW x \in Actors, WatchdogReap(x) PROVE Kept
    <3> DEFINE r == actor[x].run
    <3>1. r \in Runs /\ row[r] \in Row /\ Explained(row[r])
      BY <2>4, ActorIs DEF WatchdogReap, Loaded, RunTypeOK, RunInv
    <3>2. /\ row'[r] = WithFinish(row[r], x, "failed", "stalled")
          /\ \A s \in Runs \ {r} : row'[s] = row[s]
      BY <2>4, <3>1 DEF WatchdogReap, RunTypeOK
    <3>3. NoNewWork(row'[r])
      BY <3>1, <3>2, ReapedRow DEF NoNewWork
    <3> QED
      BY <3>1, <3>2, <3>3, OtherRowsHalt
  <2>5. CASE UNCHANGED row
    BY <2>5
  <2> QED
    BY <2>1, <2>2, <2>3, <2>4, <2>5
    DEF RunNext, StartCheck, StopLoad, LimitLoad, TickLoad, TickContinue, WatchdogSelect,
        Abort, Progress, FallsSilent
<1>2. Kept => \A r \in Runs : row[r].requested \/ row[r].status \in Ended
                              => row'[r].requested \/ row'[r].status \in Ended
  BY DEF NoNewWork
<1>3. RunTypeOK /\ RunInv /\ [RunNext]_runVars =>
        [\A r \in Runs : row[r].requested \/ row[r].status \in Ended
           => row'[r].requested \/ row'[r].status \in Ended]_runVars
  BY <1>1, <1>2
<1> QED
  BY <1>3, RunTypes, RunInvHolds, PTL DEF RunSpec, HaltIsForGood

-----------------------------------------------------------------------------
(* The loop of a run and its allowances.                                    *)

LoopRow == [status : {"none", "running", "completed", "cancelled", "failed"}, stop : BOOLEAN,
            reason : {"none", "user_stopped", "limit_reached", "daily_limit_reached",
                      "no_eligible_jobs", "submission_disabled", "stalled"}]
LoopReasons == {"none", "user_stopped", "limit_reached", "daily_limit_reached",
                "no_eligible_jobs", "submission_disabled", "stalled"}

LEMMA ConcludeTypes ==
  ASSUME LoopTypeOK, NEW reason \in LoopReasons, Conclude(reason)
  PROVE  LoopTypeOK'
<1>1. StatusOf(reason) \in {"completed", "cancelled", "failed"}
  BY DEF StatusOf
<1>2. loop' \in LoopRow
  BY <1>1 DEF Conclude, LoopTypeOK, LoopRow, LoopReasons
<1> QED
  BY <1>2 DEF Conclude, LoopTypeOK, LoopRow

LEMMA RequestedTypes ==
  ASSUME LoopTypeOK, NEW reason \in LoopReasons
  PROVE  Requested(reason) \in LoopRow
BY DEF Requested, LoopTypeOK, LoopRow, LoopReasons

LEMMA SentCounts ==
  ASSUME LoopTypeOK
  PROVE  IsFiniteSet(Sent) /\ Cardinality(Sent) \in Nat
<1>1. IsFiniteSet(Postings)
  BY FS_Interval, RunLoopAssumption DEF Postings
<1>2. Sent \subseteq Postings
  BY DEF Sent
<1>3. IsFiniteSet(Sent)
  BY <1>1, <1>2, FS_Subset
<1> QED
  BY <1>3, FS_CardinalityType

\* The worker works on a posting.
BusySomewhere == busy.kind # "none" => busy.posting \in Postings

\* Everything the loop writes keeps its type; in particular nobody's sends take the
\* day past its cap.
THEOREM LoopTypes == LoopSpec => []LoopTypeOK
<1>1. LoopInit => LoopTypeOK /\ BusySomewhere
  <2> SUFFICES ASSUME LoopInit PROVE LoopTypeOK /\ BusySomewhere
    OBVIOUS
  <2>1. 0 \in 0..MaxCopies /\ 0 \in 0..LastPosting
    BY RunLoopAssumption
  <2>2. busy \in [kind : {"none", "prepare", "submit"}, posting : 0..LastPosting]
    BY <2>1 DEF LoopInit, Unoccupied
  <2>3. prep \in [Postings -> 0..MaxCopies]
    BY <2>1 DEF LoopInit
  <2>4. loop \in LoopRow
    BY DEF LoopInit, LoopRow
  <2> QED
    BY <2>2, <2>3, <2>4 DEF LoopInit, LoopTypeOK, LoopRow, BusySomewhere, Unoccupied
<1>2. LoopTypeOK /\ BusySomewhere /\ [LoopNext]_loopVars => LoopTypeOK'
  <2> SUFFICES ASSUME LoopTypeOK, BusySomewhere, [LoopNext]_loopVars PROVE LoopTypeOK'
    OBVIOUS
  <2>1. CASE StartRun
    BY <2>1 DEF StartRun, LoopTypeOK
  <2>2. CASE Tick
    <3>1. CASE TickDispatches
      <4>1. PICK taken \in SUBSET Batch(IF Remaining < MaxDispatch THEN Remaining ELSE MaxDispatch) :
              prep' = [p \in Postings |-> IF p \in taken /\ prep[p] < MaxCopies
                                          THEN prep[p] + 1 ELSE prep[p]]
        BY <3>1 DEF TickDispatches
      <4>2. ASSUME NEW p \in Postings
            PROVE  (IF p \in taken /\ prep[p] < MaxCopies THEN prep[p] + 1 ELSE prep[p])
                     \in 0..MaxCopies
        <5>1. prep[p] \in 0..MaxCopies /\ MaxCopies \in Nat
          BY RunLoopAssumption DEF LoopTypeOK
        <5> QED
          BY <5>1
      <4>3. prep' \in [Postings -> 0..MaxCopies]
        BY <4>1, <4>2
      <4> QED
        BY <3>1, <4>3 DEF TickDispatches, LoopTypeOK
    <3>2. CASE ~TickDispatches
      <4>1. \E reason \in LoopReasons : Conclude(reason)
        BY <2>2, <3>2 DEF Tick, TickStopped, TickDaily, TickCapped, TickSwitchedOff, TickEmpty,
                          LoopTypeOK, LoopReasons
      <4> QED
        BY <4>1, ConcludeTypes
    <3> QED
      BY <3>1, <3>2
  <2>3. ASSUME NEW p \in Postings, BeginPrepare(p) PROVE LoopTypeOK'
    <3>1. prep' \in [Postings -> 0..MaxCopies]
      <4>1. prep[p] - 1 \in 0..MaxCopies
        BY <2>3, RunLoopAssumption DEF BeginPrepare, LoopTypeOK
      <4> QED
        BY <2>3, <4>1 DEF BeginPrepare, LoopTypeOK
    <3>2. p \in 0..LastPosting
      BY RunLoopAssumption DEF Postings
    <3>3. busy' \in [kind : {"none", "prepare", "submit"}, posting : 0..LastPosting]
      BY <2>3, <3>2 DEF BeginPrepare, LoopTypeOK
    <3> QED
      BY <2>3, <3>1, <3>3 DEF BeginPrepare, LoopTypeOK
  <2>4. CASE FinishPrepare
    <3>1. busy' \in [kind : {"none", "prepare", "submit"}, posting : 0..LastPosting]
      BY <2>4, RunLoopAssumption DEF FinishPrepare, Unoccupied
    <3>2. PICK outcome \in IF app[busy.posting] = "preparing"
                           THEN {"ready", "needs_review", "failed"} ELSE {app[busy.posting]} :
            /\ app' = [app EXCEPT ![busy.posting] = outcome]
            /\ subm' \in {subm, subm \cup {busy.posting}}
      BY <2>4 DEF FinishPrepare
    <3>3. app' \in [Postings -> {"none", "preparing", "ready", "submitting", "submitted",
                                 "needs_review", "failed"}]
      BY <3>2 DEF LoopTypeOK
    <3>4. subm' \subseteq Postings
      <4>1. busy.posting \in Postings
        BY <2>4 DEF FinishPrepare, BusySomewhere
      <4> QED
        BY <3>2, <4>1 DEF LoopTypeOK
    <3> QED
      BY <2>4, <3>1, <3>3, <3>4 DEF FinishPrepare, LoopTypeOK
  <2>5. ASSUME NEW p \in Postings, BeginSubmit(p) PROVE LoopTypeOK'
    <3>1. loop' = loop \/ \E reason \in LoopReasons : loop' = Requested(reason)
      BY <2>5 DEF BeginSubmit, LoopReasons
    <3>2. loop' \in LoopRow
      BY <3>1, RequestedTypes DEF LoopTypeOK, LoopRow
    <3>3. p \in 0..LastPosting
      BY RunLoopAssumption DEF Postings
    <3>4. busy' \in [kind : {"none", "prepare", "submit"}, posting : 0..LastPosting]
      <4>1. busy' = busy \/ busy' = [kind |-> "submit", posting |-> p]
        BY <2>5 DEF BeginSubmit
      <4> QED
        BY <3>3, <4>1 DEF LoopTypeOK
    <3>5. app' = app \/ \E st \in {"needs_review", "submitting"} : app' = [app EXCEPT ![p] = st]
      BY <2>5 DEF BeginSubmit
    <3>6. app' \in [Postings -> {"none", "preparing", "ready", "submitting", "submitted",
                                 "needs_review", "failed"}]
      BY <3>5 DEF LoopTypeOK
    <3> QED
      BY <2>5, <3>2, <3>4, <3>6 DEF BeginSubmit, LoopTypeOK, LoopRow
  <2>6. CASE FinishSubmit
    <3>1. busy' \in [kind : {"none", "prepare", "submit"}, posting : 0..LastPosting]
      BY <2>6, RunLoopAssumption DEF FinishSubmit, Unoccupied
    <3> QED
      BY <2>6, <3>1, ZenonT(40) DEF FinishSubmit, LoopTypeOK
  <2>7. CASE WorkerDies
    <3>1. busy' \in [kind : {"none", "prepare", "submit"}, posting : 0..LastPosting]
      BY <2>7, RunLoopAssumption DEF WorkerDies, Unoccupied
    <3> QED
      BY <2>7, <3>1 DEF WorkerDies, LoopTypeOK
  <2>8. ASSUME NEW p \in Postings, Discover(p) PROVE LoopTypeOK'
    BY <2>8 DEF Discover, LoopTypeOK
  <2>9. CASE GraceOver
    BY <2>9 DEF GraceOver, LoopTypeOK
  <2>10. CASE OtherSend
    <3>1. others' = others + 1 /\ LoopDailyCap - (Cardinality(Sent) + others) > 0
      BY <2>10 DEF OtherSend, DailyRemaining, UsedToday
    <3>2. Cardinality(Sent) \in Nat /\ others \in Nat /\ LoopDailyCap \in Nat
      BY SentCounts, RunLoopAssumption DEF LoopTypeOK
    <3>3. others' \in 0..LoopDailyCap
      BY <3>1, <3>2
    <3> QED
      BY <2>10, <3>3 DEF OtherSend, LoopTypeOK
  <2>11. CASE StopPressed
    <3>1. loop' \in LoopRow
      BY <2>11, RequestedTypes DEF StopPressed, LoopReasons
    <3> QED
      BY <2>11, <3>1 DEF StopPressed, LoopTypeOK, LoopRow
  <2>12. CASE Reap
    BY <2>12 DEF Reap, LoopTypeOK
  <2>13. CASE UNCHANGED loopVars
    BY <2>13 DEF loopVars, LoopTypeOK
  <2> QED
    BY <2>1, <2>2, <2>3, <2>4, <2>5, <2>6, <2>7, <2>8, <2>9, <2>10, <2>11, <2>12, <2>13
    DEF LoopNext, Work
<1>3. LoopTypeOK /\ BusySomewhere /\ [LoopNext]_loopVars => BusySomewhere'
  BY DEF BusySomewhere, Unoccupied, LoopNext, loopVars, Work, StartRun, Tick, TickStopped,
         TickDaily, TickCapped, TickDispatches, TickSwitchedOff, TickEmpty, Conclude,
         BeginPrepare, FinishPrepare, BeginSubmit, FinishSubmit, WorkerDies, Discover,
         GraceOver, OtherSend, StopPressed, Reap
<1> QED
  BY <1>1, <1>2, <1>3, PTL DEF LoopSpec

\* What makes the caps inductive: a submission under way was claimed below both caps,
\* and nothing else is counted while it lasts.
CapsInv ==
  /\ RunWithinCaps
  /\ busy.kind = "submit" =>
       /\ busy.posting \in Postings
       /\ app[busy.posting] = "submitting"
       /\ Cardinality(Sent) < LoopRunCap
       /\ UsedToday < LoopDailyCap

LEMMA SameCounts ==
  ASSUME CapsInv, Sent' = Sent, others' = others,
         busy'.kind = "submit" => busy' = busy /\ app' = app
  PROVE  CapsInv'
BY DEF CapsInv, RunWithinCaps, UsedToday

\* The two checks of an allowance, at the tick and in the ladder, together keep a run
\* within its own cap and the user within the day's.
THEOREM CapsHold == LoopSpec => []RunWithinCaps
<1>1. LoopInit => CapsInv
  <2> SUFFICES ASSUME LoopInit PROVE CapsInv
    OBVIOUS
  <2>1. Sent = {}
    BY DEF LoopInit, Sent
  <2>2. Cardinality(Sent) = 0
    BY <2>1, FS_EmptySet
  <2>3. others \in 0..LoopDailyCap /\ LoopRunCap \in Nat /\ LoopDailyCap \in Nat
    BY RunLoopAssumption DEF LoopInit
  <2>4. RunWithinCaps
    BY <2>2, <2>3 DEF RunWithinCaps, UsedToday
  <2> QED
    BY <2>4 DEF LoopInit, CapsInv, Unoccupied
<1>2. LoopTypeOK /\ CapsInv /\ [LoopNext]_loopVars => CapsInv'
  <2> SUFFICES ASSUME LoopTypeOK, CapsInv, [LoopNext]_loopVars PROVE CapsInv'
    OBVIOUS
  <2>1. CASE UNCHANGED <<app, others>> /\ (busy' = busy \/ busy' = Unoccupied)
    <3>1. Sent' = Sent
      BY <2>1 DEF Sent
    <3> QED
      BY <2>1, <3>1, SameCounts DEF Unoccupied
  <2>2. ASSUME NEW p \in Postings, BeginPrepare(p) PROVE CapsInv'
    <3>1. Sent' = Sent /\ others' = others
      BY <2>2 DEF BeginPrepare, Sent, LoopTypeOK
    <3>2. busy'.kind # "submit"
      BY <2>2 DEF BeginPrepare, Unoccupied
    <3> QED
      BY <3>1, <3>2, SameCounts
  <2>3. CASE FinishPrepare
    <3>1. PICK outcome \in IF app[busy.posting] = "preparing"
                           THEN {"ready", "needs_review", "failed"} ELSE {app[busy.posting]} :
            app' = [app EXCEPT ![busy.posting] = outcome]
      BY <2>3 DEF FinishPrepare
    <3>2. Sent' = Sent
      BY <3>1 DEF Sent, LoopTypeOK
    <3>3. busy'.kind # "submit" /\ others' = others
      BY <2>3 DEF FinishPrepare, Unoccupied
    <3> QED
      BY <3>2, <3>3, SameCounts
  <2>4. ASSUME NEW p \in Postings, BeginSubmit(p) PROVE CapsInv'
    <3>1. busy = Unoccupied /\ others' = others
      BY <2>4 DEF BeginSubmit
    <3>2. CASE UNCHANGED <<app, busy>>
      <4>1. Sent' = Sent
        BY <3>2 DEF Sent
      <4> QED
        BY <3>1, <3>2, <4>1, SameCounts
    <3>3. CASE ~UNCHANGED <<app, busy>>
      <4>1. /\ app[p] = "ready" /\ ~(DailyRemaining <= 0)
            /\ ~(DailyRemaining > 0 /\ LoopRunCap <= Cardinality(Sent))
        BY <2>4, <3>3 DEF BeginSubmit
      <4>2. \/ app' = [app EXCEPT ![p] = "needs_review"] /\ busy' = busy
            \/ /\ app' = [app EXCEPT ![p] = "submitting"]
               /\ busy' = [kind |-> "submit", posting |-> p]
        BY <2>4, <3>3, <4>1 DEF BeginSubmit
      <4>3. Sent' = Sent
        BY <4>1, <4>2 DEF Sent, LoopTypeOK
      <4>4. /\ Cardinality(Sent) \in Nat /\ others \in Nat
            /\ LoopDailyCap \in Nat /\ LoopRunCap \in Nat
        BY SentCounts, RunLoopAssumption DEF LoopTypeOK
      <4>5. Cardinality(Sent) < LoopRunCap /\ Cardinality(Sent) + others < LoopDailyCap
        BY <4>1, <4>4 DEF DailyRemaining, UsedToday
      <4>6. RunWithinCaps' /\ Cardinality(Sent') < LoopRunCap /\ UsedToday' < LoopDailyCap
        BY <3>1, <4>3, <4>4, <4>5 DEF RunWithinCaps, UsedToday
      <4>7. busy'.kind = "submit" => busy'.posting \in Postings /\ app'[busy'.posting] = "submitting"
        BY <3>1, <4>2 DEF Unoccupied, LoopTypeOK
      <4> QED
        BY <4>6, <4>7 DEF CapsInv
    <3> QED
      BY <3>2, <3>3
  <2>5. CASE FinishSubmit
    <3> DEFINE p == busy.posting
    <3>1. PICK outcome \in {"submitted", "needs_review", "failed"} :
            app' = [app EXCEPT ![p] = outcome]
      BY <2>5 DEF FinishSubmit
    <3>2. /\ p \in Postings /\ app[p] = "submitting"
          /\ Cardinality(Sent) < LoopRunCap /\ UsedToday < LoopDailyCap
      BY <2>5 DEF FinishSubmit, CapsInv
    <3>3. busy'.kind # "submit" /\ others' = others
      BY <2>5 DEF FinishSubmit, Unoccupied
    <3>4. CASE outcome # "submitted"
      <4>1. Sent' = Sent
        BY <3>1, <3>2, <3>4 DEF Sent, LoopTypeOK
      <4> QED
        BY <3>3, <4>1, SameCounts
    <3>5. CASE outcome = "submitted"
      <4>1. Sent' = Sent \cup {p} /\ p \notin Sent
        BY <3>1, <3>2, <3>5 DEF Sent, LoopTypeOK
      <4>2. Cardinality(Sent') = Cardinality(Sent) + 1
        BY <4>1, SentCounts, FS_AddElement
      <4>3. /\ Cardinality(Sent) \in Nat /\ others \in Nat
            /\ LoopDailyCap \in Nat /\ LoopRunCap \in Nat
        BY SentCounts, RunLoopAssumption DEF LoopTypeOK
      <4>4. Cardinality(Sent) + others < LoopDailyCap
        BY <3>2 DEF UsedToday
      <4>5. RunWithinCaps'
        BY <3>2, <3>3, <4>2, <4>3, <4>4 DEF RunWithinCaps, UsedToday
      <4> QED
        BY <3>3, <4>5 DEF CapsInv
    <3> QED
      BY <3>4, <3>5
  <2>6. CASE OtherSend
    <3>1. Sent' = Sent
      BY <2>6 DEF OtherSend, Sent
    <3>2. /\ Cardinality(Sent) \in Nat /\ others \in Nat
          /\ LoopDailyCap \in Nat /\ LoopRunCap \in Nat
      BY SentCounts, RunLoopAssumption DEF LoopTypeOK
    <3>3. others' = others + 1 /\ Cardinality(Sent) + others < LoopDailyCap
      BY <2>6, <3>2 DEF OtherSend, DailyRemaining, UsedToday
    <3>4. Cardinality(Sent) <= LoopRunCap
      BY DEF CapsInv, RunWithinCaps
    <3>5. RunWithinCaps'
      BY <3>1, <3>2, <3>3, <3>4 DEF RunWithinCaps, UsedToday
    <3>6. busy'.kind # "submit"
      BY <2>6 DEF OtherSend
    <3> QED
      BY <3>5, <3>6 DEF CapsInv
  <2> QED
    BY <2>1, <2>2, <2>3, <2>4, <2>5, <2>6
    DEF LoopNext, loopVars, Work, StartRun, Tick, TickStopped, TickDaily, TickCapped,
        TickDispatches, TickSwitchedOff, TickEmpty, Conclude, WorkerDies, Discover, GraceOver,
        StopPressed, Reap
<1>3. CapsInv => RunWithinCaps
  BY DEF CapsInv
<1> QED
  BY <1>1, <1>2, <1>3, LoopTypes, PTL DEF LoopSpec

\* `no_eligible_jobs` is only ever said when every posting of the run has been dealt
\* with.
THEOREM EmptyIsDealtWith == LoopSpec => EmptyMeansDealtWith
<1>1. LoopTypeOK /\ [LoopNext]_loopVars =>
        [loop'.reason = "no_eligible_jobs" /\ loop.reason = "none"
           => \A p \in scored : app[p] \in {"submitted", "needs_review", "failed"}]_loop
  <2> SUFFICES ASSUME LoopTypeOK, LoopNext,
                      loop'.reason = "no_eligible_jobs", loop.reason = "none",
                      NEW p \in scored
               PROVE  app[p] \in {"submitted", "needs_review", "failed"}
    BY DEF loopVars
  <2>1. TickEmpty
    <3>1. ~(StartRun \/ TickStopped \/ TickDaily \/ TickSwitchedOff \/ Reap \/ StopPressed)
      BY DEF StartRun, TickStopped, TickDaily, TickSwitchedOff, Conclude, Reap, StopPressed,
             Requested, LoopTypeOK
    <3>2. ~TickCapped
      BY DEF TickCapped, Conclude, LoopTypeOK
    <3>3. ASSUME NEW q \in Postings PROVE ~BeginSubmit(q)
      BY DEF BeginSubmit, Requested, LoopTypeOK
    <3> QED
      BY <3>1, <3>2, <3>3
      DEF LoopNext, Tick, TickDispatches, Work, BeginPrepare, FinishPrepare, FinishSubmit,
          WorkerDies, Discover, GraceOver, OtherSend
  <2>2. p \in Postings /\ app[p] # "none" /\ app[p] \notin {"preparing", "ready", "submitting"}
    BY <2>1 DEF TickEmpty, Looking, Outstanding, Candidates, LoopTypeOK
  <2> QED
    BY <2>2 DEF LoopTypeOK
<1> QED
  BY <1>1, LoopTypes, PTL DEF LoopSpec, EmptyMeansDealtWith

-----------------------------------------------------------------------------
(* The ladder implements the outbox: a claim takes a ticket, a click spends   *)
(* one, and every other step takes nothing, sends nothing and puts no ticket  *)
(* back, which is what it means that it risks nothing.                        *)

OpenTickets == {a \in Apps : status[a] = "ready"}
Claims == {claim \in Workers \X Apps : claim[1] \in Holders(claim[2])}
Outboxed == [Tickets!Next]_(Tickets!outboxVars)

LEMMA ClaimsAre ==
  ASSUME NEW w, NEW a
  PROVE  <<w, a>> \in Claims <=> w \in Workers /\ a \in Apps /\ w \in Holders(a)
BY DEF Claims

LEMMA ClaimsArePairs ==
  ASSUME NEW c \in Claims
  PROVE  \E w \in Workers, a \in Apps : c = <<w, a>> /\ w \in Holders(a)
BY DEF Claims

LEMMA LapsesOnly ==
  ASSUME NothingRisked
  PROVE  Outboxed
<1>1. OpenTickets' \in SUBSET OpenTickets
  BY DEF NothingRisked, OpenTickets
<1>2. Claims' \in SUBSET Claims
  BY DEF NothingRisked, Claims, Holders
<1>3. Tickets!Lapse
  BY <1>1, <1>2 DEF NothingRisked, Tickets!Lapse, OpenTickets, Claims
<1> QED
  BY <1>3 DEF Outboxed, Tickets!Next

LEMMA ClaimTakes ==
  ASSUME TypeOK, NEW w \in Workers, Claim(w)
  PROVE  Outboxed
<1>1. task[w] \in Task
  BY Working DEF Claim, Steps
<1>2. PICK a \in Apps : a = task[w].app
  BY <1>1, AppOfTask
<1>3. CASE status[a] # "ready"
  <2>1. NothingRisked
    BY <1>2, <1>3, FinishShrinks DEF Claim, NothingRisked
  <2> QED
    BY <2>1, LapsesOnly
<1>4. CASE status[a] = "ready"
  <2>1. /\ status' = [status EXCEPT ![a] = "submitting"]
        /\ task' = [task EXCEPT ![w].step = "apply", ![w].copy = "submitting"]
        /\ sends' = sends
    BY <1>2, <1>4 DEF Claim
  <2>2. OpenTickets' = OpenTickets \ {a} /\ a \in OpenTickets
    BY <1>4, <2>1 DEF OpenTickets, TypeOK
  <2>3. \A v \in Workers \ {w} : task'[v] = task[v]
    BY <2>1 DEF TypeOK
  <2>4. task'[w].step = "apply" /\ task'[w].app = a /\ task[w].step = "claim"
    BY <1>1, <1>2, <2>1 DEF TypeOK, Task, Claim
  <2>5. \A b \in Apps, v \in Workers : v # w => (v \in Holders(b)' <=> v \in Holders(b))
    BY <2>3 DEF Holders, Rehearsal
  <2>6. \A b \in Apps : w \in Holders(b)' <=> b = a /\ ~Rehearsal
    BY <2>4 DEF Holders, Rehearsal
  <2>7. \A b \in Apps : w \notin Holders(b)
    BY <2>4 DEF Holders
  <2>8. CASE Rehearsal
    <3>1. NothingRisked
      BY <2>1, <2>2, <2>5, <2>6, <2>8 DEF NothingRisked, Holders, OpenTickets
    <3> QED
      BY <3>1, LapsesOnly
  <2>9. CASE ~Rehearsal
    <3>1. Claims' = Claims \cup {<<w, a>>}
      BY <2>5, <2>6, <2>7, <2>9 DEF Claims
    <3>2. Tickets!Take(w, a)
      BY <2>1, <2>2, <3>1 DEF Tickets!Take, OpenTickets, Claims
    <3> QED
      BY <3>2 DEF Outboxed, Tickets!Next
  <2> QED
    BY <2>8, <2>9
<1> QED
  BY <1>3, <1>4

LEMMA ClickSpends ==
  ASSUME TypeOK, NEW w \in Workers, Click(w)
  PROVE  Outboxed
<1>1. task[w] \in Task
  BY Working DEF Click, Steps
<1>2. PICK a \in Apps : a = task[w].app
  BY <1>1, AppOfTask
<1>3. w \in Holders(a)
  BY <1>2 DEF Click, Holders
<1>4. /\ sends' = [sends EXCEPT ![a] = @ + 1]
      /\ status' = status
  BY <1>2 DEF Click
<1>5. \A v \in Workers \ {w} : task'[v] = task[v]
  BY DEF Click, Goto, TypeOK
<1>6. task'[w].step = "clicked"
  BY <1>1 DEF Click, Goto, TypeOK, Task
<1>7. \A b \in Apps, v \in Workers : v # w => (v \in Holders(b)' <=> v \in Holders(b))
  BY <1>5 DEF Holders, Rehearsal
<1>8. \A b \in Apps : w \notin Holders(b)'
  BY <1>6 DEF Holders
<1>9. \A b \in Apps : w \in Holders(b) => b = a
  BY <1>2 DEF Holders
<1>10. Claims' = Claims \ {<<w, a>>}
  BY <1>7, <1>8, <1>9 DEF Claims
<1>11. <<w, a>> \in Claims
  BY <1>3, ClaimsAre
<1>12. Tickets!Spend(w, a)
  BY <1>4, <1>10, <1>11 DEF Tickets!Spend, Claims, OpenTickets
<1> QED
  BY <1>12 DEF Outboxed, Tickets!Next

\* Refinement: whatever races, dies, is cancelled or is redelivered, the workers do
\* to the applications what the outbox allows, one ticket and one send each.
THEOREM LadderIsAnOutbox == Spec => ImplementsOutbox
<1>1. Init => Tickets!Init
  <2> SUFFICES ASSUME Init PROVE Tickets!Init
    OBVIOUS
  <2>1. Claims = {}
    BY DEF Init, Claims, Holders, Idle
  <2>2. sends \in [Apps -> {0, 1}] /\ \A a \in OpenTickets : sends[a] = 0
    BY DEF Init, OpenTickets, PostSubmit
  <2> QED
    BY <2>1, <2>2 DEF Tickets!Init, Claims, OpenTickets
<1>2. TypeOK /\ [Next]_vars => Outboxed
  <2> SUFFICES ASSUME TypeOK, [Next]_vars PROVE Outboxed
    OBVIOUS
  <2>1. CASE \E w \in Workers : Start(w) \/ Ladder(w) \/ Disturbance(w)
    BY <2>1, QuietSteps, LapsesOnly, ClaimTakes, ClickSpends DEF Ladder, Record
  <2>2. CASE StopRequested \/ RunEnds \/ UNCHANGED vars
    <3>1. NothingRisked
      BY <2>2 DEF StopRequested, RunEnds, vars, NothingRisked, Holders, Rehearsal
    <3> QED
      BY <3>1, LapsesOnly
  <2> QED
    BY <2>1, <2>2 DEF Next
<1> QED
  BY <1>1, <1>2, TypeCorrect, PTL DEF Spec, ImplementsOutbox, Tickets!Spec, Outboxed

\* What the outbox alone promises: a ticket is open, or held by one worker, or spent.
OneTicketEach ==
  /\ sends \in [Apps -> {0, 1}]
  /\ OpenTickets \subseteq Apps
  /\ \A a \in Apps : \A v, w \in Workers :
       /\ <<w, a>> \in Claims => sends[a] = 0 /\ a \notin OpenTickets
       /\ <<v, a>> \in Claims /\ <<w, a>> \in Claims => v = w
  /\ \A a \in OpenTickets : sends[a] = 0

\* Any workers that keep to the outbox send an application at most once: the promise of
\* ApplicationService.claim is enough, whatever ladder stands in front of it.
THEOREM OneTicketOneSend == ImplementsOutbox => []NeverTwice
<1>1. Tickets!Init => OneTicketEach
  <2> SUFFICES ASSUME Tickets!Init PROVE OneTicketEach
    OBVIOUS
  <2>1. Claims = {} /\ sends \in [Apps -> {0, 1}] /\ \A a \in OpenTickets : sends[a] = 0
    BY DEF Tickets!Init, Claims, OpenTickets
  <2> QED
    BY <2>1 DEF OneTicketEach, OpenTickets
<1>2. OneTicketEach /\ Outboxed => OneTicketEach'
  <2> SUFFICES ASSUME OneTicketEach, Outboxed PROVE OneTicketEach'
    OBVIOUS
  <2>1. ASSUME NEW w \in Workers, NEW a \in Apps, Tickets!Take(w, a)
        PROVE  OneTicketEach'
    <3>1. /\ a \in OpenTickets
          /\ OpenTickets' = OpenTickets \ {a}
          /\ Claims' = Claims \cup {<<w, a>>}
          /\ sends' = sends
      BY <2>1 DEF Tickets!Take, OpenTickets, Claims
    <3>2. sends[a] = 0 /\ \A v \in Workers : <<v, a>> \notin Claims
      BY <3>1 DEF OneTicketEach
    <3> QED
      BY <3>1, <3>2 DEF OneTicketEach
  <2>2. ASSUME NEW w \in Workers, NEW a \in Apps, Tickets!Spend(w, a)
        PROVE  OneTicketEach'
    <3>1. /\ <<w, a>> \in Claims
          /\ OpenTickets' = OpenTickets
          /\ Claims' = Claims \ {<<w, a>>}
          /\ sends' = [sends EXCEPT ![a] = @ + 1]
      BY <2>2 DEF Tickets!Spend, OpenTickets, Claims
    <3>2. /\ sends[a] = 0 /\ a \notin OpenTickets
          /\ \A v \in Workers : <<v, a>> \in Claims => v = w
      BY <3>1 DEF OneTicketEach
    <3>3. sends' = [sends EXCEPT ![a] = 1]
      BY <3>1, <3>2
    <3>4. \A v \in Workers : <<v, a>> \notin Claims'
      BY <3>1, <3>2
    <3> QED
      BY <3>1, <3>2, <3>3, <3>4 DEF OneTicketEach
  <2>3. CASE Tickets!Lapse
    <3>1. OpenTickets' \subseteq OpenTickets /\ Claims' \subseteq Claims /\ sends' = sends
      BY <2>3 DEF Tickets!Lapse, OpenTickets, Claims
    <3> QED
      BY <3>1 DEF OneTicketEach
  <2>4. CASE UNCHANGED Tickets!outboxVars
    <3>1. OpenTickets' = OpenTickets /\ Claims' = Claims /\ sends' = sends
      BY <2>4 DEF Tickets!outboxVars, OpenTickets, Claims
    <3> QED
      BY <3>1 DEF OneTicketEach
  <2> QED
    BY <2>1, <2>2, <2>3, <2>4 DEF Outboxed, Tickets!Next
<1>3. OneTicketEach => NeverTwice
  BY DEF OneTicketEach, NeverTwice
<1> QED
  BY <1>1, <1>2, <1>3, PTL DEF ImplementsOutbox, Tickets!Spec, Outboxed

-----------------------------------------------------------------------------
(* One life.  Every write of a row either ends its run or leaves its status   *)
(* alone and asks it to halt; only a start makes a run of a row there was not. *)

Phases == [r \in Runs |-> PhaseOf(row[r])]
Why == {r \in Runs : row[r].reason # "none"}
Lives == [Life!Next]_(Life!lifeVars)

\* A row nobody inserted is blank, and whoever holds the instance of a row found it there.
BornInv ==
  /\ \A r \in Runs : row[r].status = "absent" => row[r] = Absent
  /\ \A x \in Actors :
       actor[x].op \in Loaded \ {"start"} => row[actor[x].run].status # "absent"

EndsOrHalts(s, n) == n.status \in Ended \/ (n.requested /\ n.status = s.status)

RunWrites(x) == \/ StopRequest(x) \/ LimitRequest(x) \/ StopClose(x) \/ TickConclude(x)
                \/ TickFails(x) \/ WatchdogReap(x)

LEMMA WhatIsWritten ==
  ASSUME RunTypeOK, RunInv, NEW x \in Actors, RunWrites(x)
  PROVE  /\ actor[x].op \in Loaded \ {"start"} /\ actor[x].run \in Runs
         /\ EndsOrHalts(row[actor[x].run], row'[actor[x].run])
         /\ \A s \in Runs \ {actor[x].run} : row'[s] = row[s]
<1> DEFINE r == actor[x].run
           l == actor[x].copy
<1>1. actor[x].op \in Loaded \ {"start"}
  BY DEF RunWrites, StopRequest, LimitRequest, StopClose, TickConclude, TickFails, WatchdogReap, Loaded
<1>2. r \in Runs /\ l \in Row /\ row[r] \in Row
  BY <1>1, ActorIs DEF RunTypeOK
<1>3. ~WatchdogReap(x) => Explained(l) /\ Follows(row[r], l) /\ Explained(row[r])
  BY <1>2 DEF RunWrites, StopRequest, LimitRequest, StopClose, TickConclude, TickFails, RunInv,
              ActorInv, Rewriting
<1>4. CASE StopRequest(x) \/ LimitRequest(x)
  <2>1. PICK reason \in {"user_stopped", "limit_reached", "daily_limit_reached"} :
          Flush(r, l, WithStop(l, reason))
    BY <1>4 DEF StopRequest, LimitRequest
  <2> DEFINE w == WithStop(l, reason)
  <2>2. w \in Row /\ w.status = l.status /\ w.requested = TRUE
    <3>1. reason \in Reasons
      BY SomeReasons
    <3> HIDE DEF l
    <3> QED
      BY <1>2, <3>1, WithStopIs
  <2> HIDE DEF w
  <2>3. row'[r] = Flushed(row[r], l, w) /\ \A s \in Runs \ {r} : row'[s] = row[s]
    BY <1>2, <2>1, <2>2, FlushTypes DEF w
  <2>4. /\ row'[r].status = IF w.status = l.status THEN row[r].status ELSE w.status
        /\ row'[r].requested = IF w.requested = l.requested THEN row[r].requested ELSE w.requested
    BY <1>2, <2>2, <2>3, FlushedIs
  <2>5. l.requested => row[r].requested
    BY <1>3, <1>4 DEF StopRequest, LimitRequest, WatchdogReap, Follows
  <2>6. l.requested \in BOOLEAN
    BY <1>2, RowFields
  <2>7. row'[r].requested /\ row'[r].status = row[r].status
    BY <2>2, <2>4, <2>5, <2>6
  <2> QED
    BY <1>1, <1>2, <2>3, <2>7 DEF EndsOrHalts
<1>5. CASE StopClose(x) \/ TickConclude(x) \/ TickFails(x)
  <2>1. PICK w \in Row, st \in Ended : w.status = st /\ Flush(r, l, w)
    <3>1. CASE StopClose(x)
      BY <3>1, <1>2, WithFinishIs, SomeReasons DEF StopClose, Ended
    <3>2. CASE TickFails(x)
      BY <3>2, <1>2, WithFinishIs, SomeReasons DEF TickFails, Ended
    <3>3. CASE TickConclude(x)
      <4>1. PICK reason \in IF l.requested THEN {l.reason} ELSE Completing :
              Flush(r, l, WithFinish(l, x, StatusFor(reason), reason))
        BY <3>3 DEF TickConclude
      <4>2. reason \in Reasons \cup {"none"}
        BY <1>2, <4>1, RowFields, SomeReasons
      <4> QED
        BY <1>2, <4>1, <4>2, WithFinishIs, StatusForIs
    <3> QED
      BY <1>5, <3>1, <3>2, <3>3
  <2>2. row'[r] = Flushed(row[r], l, w) /\ \A s \in Runs \ {r} : row'[s] = row[s]
    BY <1>2, <2>1, FlushTypes
  <2>3. row'[r].status = IF w.status = l.status THEN row[r].status ELSE w.status
    BY <1>2, <2>2, FlushedIs
  <2>4. ~WatchdogReap(x)
    BY <1>5 DEF StopClose, TickConclude, TickFails, WatchdogReap
  <2>5. row'[r].status \in Ended
    BY <1>3, <2>1, <2>3, <2>4 DEF Explained, Follows
  <2> QED
    BY <1>1, <1>2, <2>2, <2>5 DEF EndsOrHalts
<1>6. CASE WatchdogReap(x)
  <2>1. /\ row'[r] = WithFinish(row[r], x, "failed", "stalled")
        /\ \A s \in Runs \ {r} : row'[s] = row[s]
    BY <1>2, <1>6 DEF WatchdogReap, RunTypeOK
  <2>2. row'[r].status \in Ended
    BY <1>2, <2>1, ReapedRow DEF RunInv
  <2> QED
    BY <1>1, <1>2, <2>1, <2>2 DEF EndsOrHalts
<1> QED
  BY <1>4, <1>5, <1>6 DEF RunWrites

\* Who loads a row and who lets go of an instance.
Reads(x) == \/ StartCheck(x) \/ StopLoad(x) \/ LimitLoad(x) \/ TickLoad(x) \/ WatchdogSelect(x)
LetsGo(x) == TickContinue(x) \/ Abort(x)

LEMMA RunSteps ==
  ASSUME [RunNext]_runVars
  PROVE  \/ \E x \in Actors : Reads(x) \/ LetsGo(x) \/ StartInsert(x) \/ RunWrites(x)
         \/ UNCHANGED <<row, actor>>
BY DEF RunNext, runVars, Reads, LetsGo, RunWrites, Progress, FallsSilent

LEMMA RowsStayBorn == RunSpec => []BornInv
<1>1. RunInit => BornInv
  BY DEF RunInit, BornInv, Free, Loaded
<1>2. RunTypeOK /\ RunInv /\ BornInv /\ [RunNext]_runVars => BornInv'
  <2> SUFFICES ASSUME RunTypeOK, RunInv, BornInv, [RunNext]_runVars PROVE BornInv'
    OBVIOUS
  <2>1. ASSUME NEW x \in Actors, Reads(x) PROVE BornInv'
    <3>1. PICK r \in Runs, op \in Loaded :
            Begin(x, op, r) /\ (op # "start" => row[r] # Absent)
      <4>1. Absent.status = "absent"
        BY DEF Absent
      <4> QED
        BY <2>1, <4>1 DEF Reads, StartCheck, StopLoad, LimitLoad, TickLoad, WatchdogSelect,
                         Running, Loaded, Ended
    <3>2. row' = row
      BY <2>1 DEF Reads, StartCheck, StopLoad, LimitLoad, TickLoad, WatchdogSelect
    <3>3. /\ actor'[x].op = op /\ actor'[x].run = r
          /\ \A y \in Actors \ {x} : actor'[y] = actor[y]
      BY <3>1, BeginTypes
    <3> QED
      BY <3>1, <3>2, <3>3 DEF BornInv
  <2>2. ASSUME NEW x \in Actors, LetsGo(x) PROVE BornInv'
    <3>1. row' = row /\ Done(x)
      BY <2>2 DEF LetsGo, TickContinue, Abort
    <3> QED
      BY <3>1, DoneTypes DEF BornInv, Loaded
  <2>3. ASSUME NEW x \in Actors, StartInsert(x) PROVE BornInv'
    <3>1. PICK r \in Runs : row' = [row EXCEPT ![r] = Opened]
      BY <2>3 DEF StartInsert
    <3>2. Opened.status = "running"
      BY DEF Opened, Absent
    <3>3. \A s \in Runs : row'[s] = row[s] \/ row'[s].status = "running"
      BY <3>1, <3>2 DEF RunTypeOK
    <3>4. Done(x)
      BY <2>3 DEF StartInsert
    <3>5. \A y \in Actors : actor'[y] = actor[y] \/ actor'[y].op = "free"
      BY <3>4, DoneTypes
    <3>6. \A y \in Actors : actor[y].op \in Loaded => actor[y].run \in Runs
      BY ActorIs
    <3> QED
      BY <3>3, <3>5, <3>6 DEF BornInv, Loaded
  <2>4. ASSUME NEW x \in Actors, RunWrites(x) PROVE BornInv'
    <3> DEFINE r == actor[x].run
    <3>1. /\ actor[x].op \in Loaded \ {"start"} /\ r \in Runs
          /\ EndsOrHalts(row[r], row'[r])
          /\ \A s \in Runs \ {r} : row'[s] = row[s]
      BY <2>4, WhatIsWritten
    <3>2. row[r].status # "absent"
      BY <3>1 DEF BornInv
    <3>3. row'[r].status # "absent"
      BY <3>1, <3>2 DEF EndsOrHalts, Ended
    <3>4. \A y \in Actors \ {x} : actor'[y] = actor[y]
      BY <2>4, DoneTypes DEF RunWrites, StopRequest, LimitRequest, StopClose, TickConclude,
                             TickFails, WatchdogReap, RunTypeOK
    <3>5. actor'[x].op = "free" \/ actor'[x].run = r
      <4>1. CASE StopRequest(x)
        <5>1. actor[x] \in InstanceOf
          BY <3>1, ActorIs
        <5> QED
          BY <4>1, <5>1 DEF StopRequest, RunTypeOK, InstanceOf
      <4>2. CASE ~StopRequest(x)
        BY <2>4, <4>2, DoneTypes DEF RunWrites, LimitRequest, StopClose, TickConclude, TickFails,
                                     WatchdogReap
      <4> QED
        BY <4>1, <4>2
    <3>6. \A y \in Actors : actor[y].op \in Loaded => actor[y].run \in Runs
      BY ActorIs
    <3>7. \A s \in Runs : row'[s].status = "absent" => row[s].status = "absent" /\ row'[s] = row[s]
      BY <3>1, <3>3
    <3>8. \A s \in Runs : row[s].status # "absent" => row'[s].status # "absent"
      BY <3>1, <3>3
    <3>9. \A s \in Runs : row'[s].status = "absent" => row'[s] = Absent
      BY <3>7 DEF BornInv
    <3>10. ASSUME NEW y \in Actors, actor'[y].op \in Loaded \ {"start"}
           PROVE  row'[actor'[y].run].status # "absent"
      <4>1. CASE y = x
        BY <3>3, <3>5, <3>10, <4>1 DEF Loaded
      <4>2. CASE y # x
        BY <3>4, <3>6, <3>8, <3>10, <4>2 DEF BornInv
      <4> QED
        BY <4>1, <4>2
    <3> QED
      BY <3>9, <3>10 DEF BornInv
  <2>5. CASE UNCHANGED <<row, actor>>
    BY <2>5 DEF BornInv
  <2> QED
    BY <2>1, <2>2, <2>3, <2>4, <2>5, RunSteps
<1> QED
  BY <1>1, <1>2, RunTypes, RunInvHolds, PTL DEF RunSpec

\* A row that is written leads its run one phase on, or leaves it where it is.
LEMMA OneLifeMoves ==
  ASSUME NEW r \in Runs, Explained(row[r]), Explained(row'[r]),
         row[r].status \in {"running"} \cup Ended, row'[r].status \in {"running"} \cup Ended,
         EndsOrHalts(row[r], row'[r]),
         \A s \in Runs \ {r} : row'[s] = row[s]
  PROVE  Lives
<1>0. "running" \notin Ended /\ "absent" \notin Ended
  BY DEF Ended
<1>1. /\ \A s \in Runs \ {r} : PhaseOf(row'[s]) = PhaseOf(row[s])
      /\ \A s \in Runs \ {r} : s \in Why' <=> s \in Why
  BY DEF Why
<1>2. PhaseOf(row'[r]) \in {"halting", "over"}
  BY <1>0 DEF PhaseOf, EndsOrHalts
<1>3. r \in Why'
  BY DEF Explained, EndsOrHalts, Why
<1>4. CASE PhaseOf(row[r]) = PhaseOf(row'[r])
  <2>1. Phases' = Phases
    BY <1>1, <1>4 DEF Phases
  <2>2. r \in Why
    BY <1>0, <1>2, <1>4 DEF Why, PhaseOf, Explained
  <2>3. Why' = Why
    BY <1>1, <1>3, <2>2 DEF Why
  <2> QED
    BY <2>1, <2>3 DEF Lives, Life!lifeVars, Phases, Why
<1>5. CASE PhaseOf(row[r]) # PhaseOf(row'[r])
  <2>1. \/ PhaseOf(row[r]) = "going"
        \/ PhaseOf(row[r]) = "halting" /\ PhaseOf(row'[r]) = "over"
    BY <1>0, <1>2, <1>5 DEF PhaseOf, EndsOrHalts
  <2>2. Phases' = [Phases EXCEPT ![r] = PhaseOf(row'[r])] /\ Phases[r] = PhaseOf(row[r])
    BY <1>1 DEF Phases
  <2>3. Why' = Why \cup {r}
    BY <1>1, <1>3 DEF Why
  <2>4. Life!Halt(r) \/ Life!End(r)
    <3>1. Phases[r] = "going" \/ (Phases[r] = "halting" /\ PhaseOf(row'[r]) = "over")
      BY <2>1, <2>2
    <3>2. CASE PhaseOf(row'[r]) = "halting"
      <4>1. Phases[r] = "going" /\ Phases' = [Phases EXCEPT ![r] = "halting"]
        BY <2>2, <3>1, <3>2
      <4> QED
        BY <2>3, <4>1 DEF Life!Halt, Phases, Why
    <3>3. CASE PhaseOf(row'[r]) = "over"
      <4>1. Phases[r] \in {"going", "halting"} /\ Phases' = [Phases EXCEPT ![r] = "over"]
        BY <2>2, <3>1, <3>3
      <4> QED
        BY <2>3, <4>1 DEF Life!End, Phases, Why
    <3> QED
      BY <1>2, <3>2, <3>3
  <2> QED
    BY <2>4 DEF Lives, Life!Next
<1> QED
  BY <1>4, <1>5

LEMMA LifeSteps ==
  ASSUME RunTypeOK, RunInv, BornInv, RunTypeOK', RunInv', [RunNext]_runVars
  PROVE  Lives
<1>1. CASE row' = row
  BY <1>1 DEF Lives, Life!lifeVars, PhaseOf
<1>2. ASSUME NEW x \in Actors, StartInsert(x) PROVE Lives
  <2>1. PICK r \in Runs : row[r] = Absent /\ row' = [row EXCEPT ![r] = Opened]
    BY <1>2 DEF StartInsert
  <2>2. row'[r] = Opened /\ \A s \in Runs \ {r} : row'[s] = row[s]
    BY <2>1 DEF RunTypeOK
  <2>3. PhaseOf(Absent) = "unborn" /\ PhaseOf(Opened) = "going"
    BY DEF PhaseOf, Absent, Opened, Ended
  <2>4. Absent.reason = "none" /\ Opened.reason = "none"
    BY DEF Absent, Opened
  <2>5. Phases[r] = "unborn" /\ Phases' = [Phases EXCEPT ![r] = "going"]
    <3>1. \A s \in Runs \ {r} : PhaseOf(row'[s]) = PhaseOf(row[s])
      BY <2>2
    <3>2. PhaseOf(row'[r]) = "going" /\ PhaseOf(row[r]) = "unborn"
      BY <2>1, <2>2, <2>3
    <3> QED
      BY <3>1, <3>2 DEF Phases
  <2>6. Why' = Why
    BY <2>1, <2>2, <2>4 DEF Why
  <2>7. Life!Start(r)
    BY <2>5, <2>6 DEF Life!Start, Phases, Why
  <2> QED
    BY <2>7 DEF Lives, Life!Next
<1>3. ASSUME NEW x \in Actors, RunWrites(x) PROVE Lives
  <2> DEFINE r == actor[x].run
  <2>1. /\ actor[x].op \in Loaded \ {"start"} /\ r \in Runs
        /\ EndsOrHalts(row[r], row'[r])
        /\ \A s \in Runs \ {r} : row'[s] = row[s]
    BY <1>3, WhatIsWritten
  <2>2. row[r].status \in {"running"} \cup Ended
    BY <2>1, RowFields DEF BornInv, RunTypeOK
  <2>3. row'[r].status \in {"running"} \cup Ended
    BY <2>1, <2>2 DEF EndsOrHalts
  <2>4. Explained(row[r]) /\ Explained(row'[r])
    BY <2>1 DEF RunInv
  <2> HIDE DEF r
  <2> QED
    BY <2>1, <2>2, <2>3, <2>4, OneLifeMoves
<1>4. ASSUME NEW x \in Actors, Reads(x) \/ LetsGo(x) PROVE row' = row
  BY <1>4 DEF Reads, LetsGo, StartCheck, StopLoad, LimitLoad, TickLoad, WatchdogSelect,
              TickContinue, Abort
<1> QED
  BY <1>1, <1>2, <1>3, <1>4, RunSteps

\* Refinement: flushes of stale instances, by any number of routes, rungs, ticks and
\* sweeps, lead every run through one life, and from the halt on it says why.
THEOREM RunsHaveOneLife == RunSpec => ImplementsRunLife
<1>1. RunInit => Life!Init
  <2> SUFFICES ASSUME RunInit PROVE Life!Init
    OBVIOUS
  <2>1. \A r \in Runs : row[r] = Absent
    BY DEF RunInit
  <2>2. PhaseOf(Absent) = "unborn" /\ Absent.reason = "none"
    BY DEF PhaseOf, Absent
  <2> QED
    BY <2>1, <2>2 DEF Life!Init
<1>2. RunTypeOK /\ RunInv /\ BornInv /\ RunTypeOK' /\ RunInv' /\ [RunNext]_runVars => Lives
  BY LifeSteps
<1> QED
  BY <1>1, <1>2, RunTypes, RunInvHolds, RowsStayBorn, PTL
  DEF RunSpec, ImplementsRunLife, Life!Spec, Lives

-----------------------------------------------------------------------------
(* The loop leads its run through the same life.                              *)

This == {"this"}
LoopPhases == [r \in This |-> LoopPhase]
LoopWhy == {r \in This : loop.reason # "none"}
LoopLives == [LoopLife!Next]_(LoopLife!lifeVars)

\* A run not started is blank; one that was asked to halt, or is over, says why.
LoopExplained ==
  /\ loop.status = "none" => ~loop.stop /\ loop.reason = "none"
  /\ loop.stop => loop.reason # "none"
  /\ loop.status \notin {"none", "running"} => loop.reason # "none"

\* What a step may make of the row of the run.
LoopStarts == loop.status = "none" /\ loop' = [loop EXCEPT !.status = "running"]
LoopHalts ==
  \E reason \in LoopReasons \ {"none"} :
    /\ loop.status = "running" /\ ~loop.stop
    /\ loop' = [loop EXCEPT !.stop = TRUE, !.reason = reason]
LoopEnds ==
  \E reason \in LoopReasons \ {"none"}, st \in {"completed", "cancelled", "failed"} :
    loop.status = "running" /\ loop' = [loop EXCEPT !.status = st, !.reason = reason]

LEMMA LoopRowSteps ==
  ASSUME LoopTypeOK, LoopExplained, [LoopNext]_loopVars
  PROVE  loop' = loop \/ LoopStarts \/ LoopHalts \/ LoopEnds
<1>1. CASE StartRun
  BY <1>1 DEF StartRun, LoopStarts
<1>2. CASE Tick
  <2>1. CASE loop' = loop
    BY <2>1
  <2>2. CASE loop' # loop
    <3>1. PICK reason \in LoopReasons \ {"none"} : Going /\ Conclude(reason)
      BY <1>2, <2>2 DEF Tick, TickStopped, TickDaily, TickCapped, TickDispatches, TickSwitchedOff,
                        TickEmpty, Looking, Deciding, LoopTypeOK, LoopReasons, LoopExplained
    <3>2. StatusOf(reason) \in {"completed", "cancelled", "failed"}
      BY DEF StatusOf
    <3>3. loop' = [loop EXCEPT !.status = StatusOf(reason), !.reason = reason]
      BY <3>1 DEF Conclude
    <3> QED
      BY <3>1, <3>2, <3>3, Zenon DEF Going, LoopEnds
  <2> QED
    BY <2>1, <2>2
<1>3. ASSUME NEW reason \in LoopReasons \ {"none"}, loop' = Requested(reason)
      PROVE  loop' = loop \/ LoopHalts
  <2>1. CASE Halted
    BY <1>3, <2>1 DEF Requested
  <2>2. CASE ~Halted
    <3>1. loop' = [loop EXCEPT !.stop = TRUE, !.reason = reason]
      BY <1>3, <2>2 DEF Requested
    <3>2. loop.status = "running" /\ ~loop.stop
      BY <2>2 DEF Halted
    <3> QED
      BY <3>1, <3>2, Zenon DEF LoopHalts
  <2> QED
    BY <2>1, <2>2
<1>4. ASSUME NEW p \in Postings, BeginSubmit(p) PROVE loop' = loop \/ LoopHalts
  <2>1. loop' = loop \/ \E reason \in LoopReasons \ {"none"} : loop' = Requested(reason)
    BY <1>4 DEF BeginSubmit, LoopReasons
  <2> QED
    BY <1>3, <2>1
<1>5. CASE StopPressed
  BY <1>3, <1>5 DEF StopPressed, LoopReasons
<1>6. CASE Reap
  <2> DEFINE why == IF loop.reason = "none" THEN "stalled" ELSE loop.reason
  <2>1. why \in LoopReasons \ {"none"}
    BY DEF LoopTypeOK, LoopReasons
  <2>2. loop' = [loop EXCEPT !.status = "failed", !.reason = why] /\ loop.status = "running"
    BY <1>6 DEF Reap, Going
  <2> HIDE DEF why
  <2> QED
    BY <2>1, <2>2, Zenon DEF LoopEnds
<1> QED
  BY <1>1, <1>2, <1>4, <1>5, <1>6
  DEF LoopNext, loopVars, Work, FinishPrepare, FinishSubmit, BeginPrepare, WorkerDies,
      Discover, GraceOver, OtherSend

LEMMA LoopRowIs ==
  ASSUME LoopTypeOK
  PROVE  /\ loop \in LoopRow /\ loop.status \in {"none", "running", "completed", "cancelled", "failed"}
         /\ loop.stop \in BOOLEAN
BY DEF LoopTypeOK, LoopRow

LEMMA LoopIsExplained == LoopSpec => []LoopExplained
<1>1. LoopInit => LoopExplained
  BY DEF LoopInit, LoopExplained
<1>2. LoopTypeOK /\ LoopExplained /\ [LoopNext]_loopVars => LoopExplained'
  <2> SUFFICES ASSUME LoopTypeOK, LoopExplained, [LoopNext]_loopVars PROVE LoopExplained'
    OBVIOUS
  <2>0. loop \in LoopRow
    BY LoopRowIs
  <2>1. CASE loop' = loop
    BY <2>1 DEF LoopExplained
  <2>2. CASE LoopStarts
    <3>1. loop'.status = "running" /\ loop'.stop = loop.stop /\ loop'.reason = loop.reason
      BY <2>0, <2>2 DEF LoopStarts, LoopRow
    <3> QED
      BY <3>1 DEF LoopExplained
  <2>3. CASE LoopHalts
    <3>1. loop'.status = "running" /\ loop'.reason # "none"
      BY <2>0, <2>3 DEF LoopHalts, LoopRow
    <3> QED
      BY <3>1 DEF LoopExplained
  <2>4. CASE LoopEnds
    <3>1. loop'.status \in {"completed", "cancelled", "failed"} /\ loop'.reason # "none"
      BY <2>0, <2>4 DEF LoopEnds, LoopRow
    <3> QED
      BY <3>1 DEF LoopExplained
  <2> QED
    BY <2>1, <2>2, <2>3, <2>4, LoopRowSteps
<1> QED
  BY <1>1, <1>2, LoopTypes, PTL DEF LoopSpec

\* Refinement: the loop, the rungs that stop the run, the user and the watchdog lead the
\* run through the life of a run, each in one step.
THEOREM LoopHasOneLife == LoopSpec => LoopImplementsRunLife
<1>1. LoopInit => LoopLife!Init
  BY DEF LoopInit, LoopLife!Init, LoopPhase
<1>2. LoopTypeOK /\ LoopExplained /\ [LoopNext]_loopVars => LoopLives
  <2> SUFFICES ASSUME LoopTypeOK, LoopExplained, [LoopNext]_loopVars PROVE LoopLives
    OBVIOUS
  <2>0. /\ LoopPhases["this"] = LoopPhase
        /\ \A v : LoopPhase' = v => LoopPhases' = [LoopPhases EXCEPT !["this"] = v]
        /\ loop'.reason # "none" => LoopWhy' = LoopWhy \cup {"this"}
        /\ "this" \in This
    BY DEF LoopPhases, LoopWhy, This
  <2>1. CASE loop' = loop
    BY <2>1 DEF LoopLives, LoopLife!lifeVars, LoopPhase
  <2>2. CASE LoopStarts
    <3>1. loop'.status = "running" /\ loop'.stop = loop.stop /\ loop'.reason = loop.reason
      BY <2>2, LoopRowIs DEF LoopStarts, LoopRow
    <3>2. LoopPhase = "unborn" /\ LoopPhase' = "going"
      BY <2>2, <3>1 DEF LoopStarts, LoopPhase, LoopExplained
    <3>3. LoopWhy' = LoopWhy
      BY <3>1 DEF LoopWhy
    <3>4. LoopLife!Start("this")
      BY <2>0, <3>2, <3>3 DEF LoopLife!Start, LoopPhases, LoopWhy, This
    <3> QED
      BY <3>4 DEF LoopLives, LoopLife!Next
  <2>3. CASE LoopHalts
    <3>1. loop'.status = "running" /\ loop'.stop /\ loop'.reason # "none"
      BY <2>3, LoopRowIs DEF LoopHalts, LoopRow
    <3>2. LoopPhase = "going" /\ LoopPhase' = "halting"
      BY <2>3, <3>1 DEF LoopHalts, LoopPhase
    <3>3. LoopLife!Halt("this")
      BY <2>0, <3>1, <3>2 DEF LoopLife!Halt, LoopPhases, LoopWhy, This
    <3> QED
      BY <3>3 DEF LoopLives, LoopLife!Next
  <2>4. CASE LoopEnds
    <3>1. loop'.status \in {"completed", "cancelled", "failed"} /\ loop'.reason # "none"
      BY <2>4, LoopRowIs DEF LoopEnds, LoopRow
    <3>2. LoopPhase \in {"going", "halting"} /\ LoopPhase' = "over"
      BY <2>4, <3>1 DEF LoopEnds, LoopPhase
    <3>3. LoopLife!End("this")
      BY <2>0, <3>1, <3>2 DEF LoopLife!End, LoopPhases, LoopWhy, This
    <3> QED
      BY <3>3 DEF LoopLives, LoopLife!Next
  <2> QED
    BY <2>1, <2>2, <2>3, <2>4, LoopRowSteps
<1> QED
  BY <1>1, <1>2, LoopTypes, LoopIsExplained, PTL
  DEF LoopSpec, LoopImplementsRunLife, LoopLife!Spec, LoopLives
=============================================================================
