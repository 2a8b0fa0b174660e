------------------------------ MODULE Submission ------------------------------
(***************************************************************************)
(* Pipeline.submit, the guard ladder every real submission climbs, run     *)
(* concurrently by the workers that execute apply.submit tasks.            *)
(*                                                                         *)
(* Each worker loads an application row into its own unit of work and from *)
(* then on decides from that in-memory copy: the session is created with   *)
(* expire_on_commit=False and an identity map, so nothing the other        *)
(* workers commit reaches it.  A worker writes the row in two ways only:   *)
(* `transition`, which checks the copy and writes blindly, and `claim`,    *)
(* one UPDATE that succeeds only while the row still has the expected      *)
(* status.  The await points between the rungs are the interleaving points *)
(* of this model.                                                          *)
(***************************************************************************)
EXTENDS ApplicationStates, Naturals, FiniteSets

CONSTANTS
  Apps,         \* the application rows of one user
  Workers,      \* the tasks that can execute at the same time
  NoApp,        \* what an idle worker works on
  RunApps,      \* the rows whose session_id names the run; the others have none
  Automatable,  \* the rows whose provider supports automated submission
  Mode,         \* "off", "dry_run" or "live": auto_apply_enabled and dry_run
  DailyCap,     \* max_applications_per_day
  RunCap,       \* RunSession.application_cap
  Faults        \* the faults of the environment the instance admits

ASSUME NoAppAssumption == NoApp \notin Apps
ASSUME RowSetsAssumption == RunApps \subseteq Apps /\ Automatable \subseteq Apps
ASSUME ModeAssumption == Mode \in {"off", "dry_run", "live"}
ASSUME CapsAssumption == DailyCap \in Nat /\ RunCap \in Nat
ASSUME FaultsAssumption ==
  Faults \subseteq {"kill", "cancel", "cancel_late", "error"}
ASSUME WorkersAssumption == IsFiniteSet(Workers) /\ Workers # {}
ASSUME AppsAssumption == IsFiniteSet(Apps)

VARIABLES
  status,      \* applications.status, the committed row
  stamped,     \* the rows whose submitted_at falls on the present UTC day
  run,         \* the run of RunApps: "running", "stopping" or "ended"
  completed,   \* RunSession.applications_completed
  task,        \* what each worker is doing, and its in-memory copy of the row
  sends        \* how often the employer has received each application

vars == <<status, stamped, run, completed, task, sends>>

-----------------------------------------------------------------------------
(* A task in a worker: the next rung, the row, its copy, the provider's answer. *)

Steps == {"load", "halt", "daily", "capacity", "policy", "render", "claim",
          "apply", "clicked", "record", "count"}

\* Inside provider.apply: before and after the form went out.
AtProvider == {"apply", "clicked"}

\* What a provider reports, an unexpected status included; its errors are
\* escalations (needs_review) and failures (failed) like the reported ones.
Reported == ApplyTargets \cup {"draft"}

\* Which task body is running; the ladder is all of apply.submit and the second
\* half of apply.run_one.
Kinds == {"submit", "prepare", "run_one"}

Idle == [step |-> "idle", kind |-> "submit", app |-> NoApp, requeued |-> FALSE,
         copy |-> NoRow, reported |-> "none"]

Task == [step : Steps, kind : Kinds, app : Apps, requeued : BOOLEAN,
         copy : Status \cup {NoRow}, reported : Reported \cup {"none"}]

Fresh(a, requeued) == [Idle EXCEPT !.step = "load", !.app = a, !.requeued = requeued]

\* Pipeline.submit's `rehearsal` flag: the master switch is on, dry_run too.
Rehearsal == Mode = "dry_run"

Goto(w, step) == task' = [task EXCEPT ![w].step = step]
\* Mutant of Finish: the worker goes idle with its last task still in hand.
FinishKeepsTask(w) == task' = [task EXCEPT ![w].step = "idle"]

Finish(w) == task' = [task EXCEPT ![w] = Idle]

\* ApplicationService.transition: the guard reads the copy, the write does not
\* look at the row.  The unit of work writes a column only when the copy changes.
Blind(a, copy, target) ==
  /\ CanTransition(copy, target)
  /\ status' = IF target = copy THEN status ELSE [status EXCEPT ![a] = target]
  /\ stamped' = IF target \in PostSubmit THEN stamped \cup {a} ELSE stamped

\* Mutant of Halting: only a run that is over halts, a requested stop does not.
HaltingWhenOver(a) == a \in RunApps /\ run = "ended"

\* SessionService.halt_reason: set once a stop is requested or the run is over.
Halting(a) == a \in RunApps /\ run # "running"

\* SessionService.submitted_count.
SubmittedByRun == {a \in RunApps : status[a] \in PostSubmit}

\* Pipeline._run_capacity: an ended run has no cap left to enforce.
RunCapReached(a) ==
  a \in RunApps /\ run # "ended" /\ Cardinality(SubmittedByRun) >= RunCap

\* Mutant of DailyCapReached: off by one.
DailyCapPassed == Cardinality(stamped) > DailyCap

\* ApplicationService.daily_count against the daily cap.
DailyCapReached == Cardinality(stamped) >= DailyCap

\* Pipeline._halt_run: ask the owning run to wind down.
HaltRun(a) == run' = IF a \in RunApps /\ run = "running" THEN "stopping" ELSE run

-----------------------------------------------------------------------------
Init ==
  /\ status \in [Apps -> Status \ {"submitting"}]
  /\ stamped \in SUBSET {a \in Apps : status[a] \in PostSubmit}
  /\ run = "running"
  /\ completed = 0
  /\ task = [w \in Workers |-> Idle]
  /\ sends = [a \in Apps |-> IF status[a] \in PostSubmit THEN 1 ELSE 0]

\* A worker takes an apply.submit message from the queue; apply.prepare, the
\* resolve route and a redelivery all put them there, more than once if they like.
Start(w) ==
  /\ task[w] = Idle
  /\ \E a \in Apps, requeued \in BOOLEAN :
       task' = [task EXCEPT ![w] = Fresh(a, requeued)]
  /\ UNCHANGED <<status, stamped, run, completed, sends>>

\* Rung 1: load the row and refuse anything that is not ready.
Load(w) ==
  /\ task[w].step = "load"
  /\ LET a == task[w].app
     IN  IF status[a] = "ready"
         THEN task' = [task EXCEPT ![w].step = "halt", ![w].copy = status[a]]
         ELSE Finish(w)
  /\ UNCHANGED <<status, stamped, run, completed, sends>>

\* Rung 2: the run said stop.  A person's request passes.
HaltCheck(w) ==
  /\ task[w].step = "halt"
  /\ IF Halting(task[w].app) /\ ~task[w].requeued
     THEN Finish(w)
     ELSE Goto(w, "daily")
  /\ UNCHANGED <<status, stamped, run, completed, sends>>

\* Rung 3: the caps.  Reaching one stops the run and leaves the row ready.
DailyCheck(w) ==
  /\ task[w].step = "daily"
  /\ IF DailyCapReached
     THEN HaltRun(task[w].app) /\ Finish(w)
     ELSE Goto(w, "capacity") /\ UNCHANGED run
  /\ UNCHANGED <<status, stamped, completed, sends>>

CapacityCheck(w) ==
  /\ task[w].step = "capacity"
  /\ IF RunCapReached(task[w].app)
     THEN HaltRun(task[w].app) /\ Finish(w)
     ELSE Goto(w, "policy") /\ UNCHANGED run
  /\ UNCHANGED <<status, stamped, completed, sends>>

\* Rung 4: the score moved below the floor since the row became ready.
BelowFloor(w) ==
  /\ task[w].step = "policy"
  /\ Finish(w)
  /\ UNCHANGED <<status, stamped, run, completed, sends>>

\* Rungs 5 and 6: the provider's posture and the master switch.  A refusal parks
\* the row in review, from the copy.
Policy(w) ==
  /\ task[w].step = "policy"
  /\ IF task[w].app \in Automatable /\ Mode # "off"
     THEN Goto(w, "render") /\ UNCHANGED <<status, stamped>>
     ELSE Blind(task[w].app, task[w].copy, "needs_review") /\ Finish(w)
  /\ UNCHANGED <<run, completed, sends>>

\* Mutant of Render: a rehearsal claims the row like a real submission.
RenderClaims(w) ==
  /\ task[w].step = "render"
  /\ Goto(w, "claim")
  /\ UNCHANGED <<status, stamped, run, completed, sends>>

\* Rung 7, first half: load the user, resolve the provider, write the documents.
Render(w) ==
  /\ task[w].step = "render"
  /\ Goto(w, IF Rehearsal THEN "apply" ELSE "claim")
  /\ UNCHANGED <<status, stamped, run, completed, sends>>

\* ... and what Pipeline._fail does when that raises: `failed`, from the copy.
RenderError(w) ==
  /\ "error" \in Faults
  /\ task[w].step = "render"
  /\ Blind(task[w].app, task[w].copy, "failed")
  /\ Finish(w)
  /\ UNCHANGED <<run, completed, sends>>

\* Mutant of Claim: the write does not look at the row.
ClaimUnchecked(w) ==
  /\ task[w].step = "claim"
  /\ status' = [status EXCEPT ![task[w].app] = "submitting"]
  /\ task' = [task EXCEPT ![w].step = "apply", ![w].copy = "submitting"]
  /\ UNCHANGED <<stamped, run, completed, sends>>

\* ApplicationService.claim: UPDATE ... WHERE id = :id AND status = 'ready'.
Claim(w) ==
  /\ task[w].step = "claim"
  /\ LET a == task[w].app
     IN  IF status[a] = "ready"
         THEN /\ status' = [status EXCEPT ![a] = "submitting"]
              /\ task' = [task EXCEPT ![w].step = "apply", ![w].copy = "submitting"]
         ELSE Finish(w) /\ UNCHANGED status
  /\ UNCHANGED <<stamped, run, completed, sends>>

\* provider.apply sends the form.  Told dry_run, it stops at the button.
Click(w) ==
  /\ task[w].step = "apply"
  /\ ~Rehearsal
  /\ sends' = [sends EXCEPT ![task[w].app] = @ + 1]
  /\ Goto(w, "clicked")
  /\ UNCHANGED <<status, stamped, run, completed>>

\* ... and reports.  `submitted` and `confirmed` only follow a form that went out;
\* a click nobody could verify, or an error after it, looks the same as no click.
Report(w) ==
  /\ task[w].step \in AtProvider
  /\ \E reported \in Reported :
       /\ reported \in PostSubmit => task[w].step = "clicked"
       /\ task' = [task EXCEPT ![w].step = "record", ![w].reported = reported]
  /\ UNCHANGED <<status, stamped, run, completed, sends>>

\* Pipeline._finalize, _escalate and _failed_result: move the row, from the copy.
RecordAttempt(w) ==
  /\ task[w].step = "record"
  /\ Blind(task[w].app, task[w].copy, FinalTarget(task[w].reported))
  /\ Goto(w, "count")
  /\ UNCHANGED <<run, completed, sends>>

\* Pipeline._finalize_rehearsal keeps the row ready; a provider that raised has
\* moved it all the same.
RecordRehearsal(w) ==
  /\ task[w].step = "record"
  /\ \/ UNCHANGED <<status, stamped>>
     \/ /\ task[w].reported \in {"needs_review", "failed"}
        /\ Blind(task[w].app, task[w].copy, task[w].reported)
  /\ Finish(w)
  /\ UNCHANGED <<run, completed, sends>>

\* What came of the attempt is recorded, by the one of the two that fits it.
Record(w) == IF Rehearsal THEN RecordRehearsal(w) ELSE RecordAttempt(w)

\* Mutant of Count: every finished attempt counts as completed.
CountAll(w) ==
  /\ task[w].step = "count"
  /\ completed' = IF task[w].app \in RunApps THEN completed + 1 ELSE completed
  /\ Finish(w)
  /\ UNCHANGED <<status, stamped, run, sends>>

\* record_session, in a transaction of its own after the row is committed; only
\* a submitted verdict moves applications_completed, and apply.run_one, which the
\* routes queue without a session_id, credits no run.
Count(w) ==
  /\ task[w].step = "count"
  /\ completed' =
       IF /\ task[w].app \in RunApps /\ task[w].kind = "submit"
          /\ FinalTarget(task[w].reported) \in PostSubmit
       THEN completed + 1 ELSE completed
  /\ Finish(w)
  /\ UNCHANGED <<status, stamped, run, sends>>

-----------------------------------------------------------------------------
(* The run, and what goes wrong around a task. *)

\* A person, or a limit met elsewhere, asks the run to wind down.
StopRequested ==
  /\ run = "running"
  /\ run' = "stopping"
  /\ UNCHANGED <<status, stamped, completed, task, sends>>

\* The run is concluded, cancelled or reaped by the watchdog.
RunEnds ==
  /\ run # "ended"
  /\ run' = "ended"
  /\ UNCHANGED <<status, stamped, completed, task, sends>>

\* Mutant of Cancel: the claim is handed back, so the row can be picked up again.
CancelReleases(w) ==
  /\ "cancel" \in Faults
  /\ task[w].step \in Steps \ {"record", "count"}
  /\ status' = IF task[w].step \in AtProvider
               THEN [status EXCEPT ![task[w].app] = "ready"] ELSE status
  /\ Finish(w)
  /\ UNCHANGED <<stamped, run, completed, sends>>

\* Mutant of Cancel: the cancellation is simply propagated.
CancelPropagates(w) ==
  /\ "cancel" \in Faults
  /\ task[w].step \in Steps \ {"record", "count"}
  /\ Finish(w)
  /\ UNCHANGED <<status, stamped, run, completed, sends>>

\* A cancelled task: past the claim, _abandon_in_flight parks the row in review.
Cancel(w) ==
  /\ "cancel" \in Faults
  /\ task[w].step \in Steps \ {"record", "count"}
  /\ IF task[w].step \in AtProvider /\ ~Rehearsal
     THEN Blind(task[w].app, task[w].copy, "needs_review")
     ELSE UNCHANGED <<status, stamped>>
  /\ Finish(w)
  /\ UNCHANGED <<run, completed, sends>>

\* The same cancellation once provider.apply has returned: no handler covers it.
CancelLate(w) ==
  /\ "cancel_late" \in Faults
  /\ task[w].step \in {"record", "count"}
  /\ Finish(w)
  /\ UNCHANGED <<status, stamped, run, completed, sends>>

\* The process dies.  A broker redelivers the message (acks_late), so the task
\* starts over; the inline executor forgets it.  `retryable` starting the body
\* over after a transient error looks like the redelivery.
Killed(w) ==
  /\ "kill" \in Faults
  /\ task[w] # Idle
  /\ \/ task' = [task EXCEPT ![w] = Fresh(task[w].app, task[w].requeued)]
     \/ Finish(w)
  /\ UNCHANGED <<status, stamped, run, completed, sends>>

-----------------------------------------------------------------------------
Ladder(w) ==
  \/ Load(w) \/ HaltCheck(w) \/ DailyCheck(w) \/ CapacityCheck(w)
  \/ BelowFloor(w) \/ Policy(w) \/ Render(w) \/ Claim(w)
  \/ Click(w) \/ Report(w) \/ Record(w) \/ Count(w)

Disturbance(w) == RenderError(w) \/ Cancel(w) \/ CancelLate(w) \/ Killed(w)

Next ==
  \/ \E w \in Workers : Start(w) \/ Ladder(w) \/ Disturbance(w)
  \/ StopRequested
  \/ RunEnds

Spec == Init /\ [][Next]_vars

\* A worker that has begun a task keeps going: the coroutine is scheduled by an
\* event loop and every await in the ladder returns or raises within a timeout.
FairSpec == Spec /\ \A w \in Workers : WF_vars(Ladder(w))
-----------------------------------------------------------------------------
(* What the ladder guarantees. *)

TypeOK ==
  /\ status \in [Apps -> Status]
  /\ stamped \subseteq Apps
  /\ run \in {"running", "stopping", "ended"}
  /\ completed \in Nat
  /\ task \in [Workers -> Task \cup {Idle}]
  /\ sends \in [Apps -> Nat]

\* The workers that hold a claim on a and have not clicked yet.
Holders(a) ==
  {w \in Workers : task[w].app = a /\ task[w].step = "apply" /\ ~Rehearsal}

\* Golden rule 1 under concurrency: however many workers race for an application,
\* however often they die and start over, the employer receives it at most once
\* (ApplicationService.claim: "exactly one caller can see 1").
NeverTwice == \A a \in Apps : sends[a] <= 1

\* The strengthening that makes NeverTwice inductive: a row that can still be
\* claimed has never been sent nor claimed, and a claim has one holder, who has
\* not sent it yet.  Nothing in the ladder ever makes a row `ready` again.
ClaimInv ==
  \A a \in Apps :
    /\ status[a] = "ready" => sends[a] = 0 /\ Holders(a) = {}
    /\ Holders(a) # {} => sends[a] = 0
    /\ \A v, w \in Holders(a) : v = w

\* The daily cap is checked rungs before the row is stamped, so it can be overrun,
\* but never by more than the other workers that were past the check.
CapOverrunBounded ==
  [][stamped' # stamped
       => Cardinality(stamped') < DailyCap + Cardinality(Workers)]_vars

\* What a run reports as completed never exceeds what the employer received: the
\* counter moves after the row is committed, in a transaction a crash may lose but
\* a restarted task never repeats.
CompletedIsSent == completed <= Cardinality({a \in RunApps : sends[a] > 0})

\* The stop button: once the run is stopping, no further application of the run
\* gets past rung 2 unless a person asked for it; those already past it drain.
PastStopCheck ==
  {w \in Workers : /\ task[w].app \in RunApps
                   /\ ~task[w].requeued
                   /\ task[w].step \notin {"load", "halt", "idle"}}
StopDrains == [][run # "running" => PastStopCheck' \subseteq PastStopCheck]_vars

\* A rehearsal consumes nothing: under dry_run no row is put in flight, nothing is
\* sent, and a row leaves `ready` only for a person to look at or because it failed.
RehearsalConsumesNothing ==
  [][Rehearsal =>
       /\ sends' = sends
       /\ \A a \in Apps : status'[a] # status[a]
                            => status'[a] \in {"needs_review", "failed"}]_vars

\* With one worker at a time, the ladder keeps the promises of the state machine.
Machine ==
  INSTANCE Lifecycle WITH
    open <- [a \in Apps |-> \E w \in Workers : w \in Holders(a)]
ImplementsLifecycle == Machine!Spec

\* However many workers race, the ladder gives out one ticket per application and
\* sends against a ticket only: what ApplicationService.claim exists for ("two
\* executors that both read READY both proceed"), for workers that die, are
\* cancelled and are redelivered between any two rungs.
Tickets ==
  INSTANCE Outbox WITH
    open <- {a \in Apps : status[a] = "ready"},
    holding <- {claim \in Workers \X Apps : claim[1] \in Holders(claim[2])},
    sent <- sends
ImplementsOutbox == Tickets!Spec

\* "An already-sent application" never walks back (application_service.py 7-11):
\* the claim of the state machine, stated for the rows several workers write.
SentStaysSent ==
  [][\A a \in Apps : status[a] \in PostSubmit => status'[a] \in PostSubmit]_vars

\* No application is left `submitting` with nobody working on it
\* (Pipeline.submit: "the row is durably `submitting` with no path out").
SubmittingSettles ==
  \A a \in Apps : status[a] = "submitting" ~> status[a] # "submitting"

=============================================================================
