------------------------------- MODULE RunLoop -------------------------------
(***************************************************************************)
(* session.advance, the loop of a run turned inside out: every tick reads  *)
(* the run and its applications, and concludes the run, waits for its work *)
(* or hands out the next batch.  Around it, as far as the loop can tell    *)
(* them apart: the tasks it hands out, executed by one worker, the user's  *)
(* stop, the sends of other runs and the watchdog.  Which writer of the    *)
(* run's row overwrites which is the subject of RunSession; here a tick is *)
(* one step.                                                               *)
(***************************************************************************)
EXTENDS Naturals, FiniteSets

CONSTANTS
  LastPosting, \* the postings are 1..LastPosting, the better scores first
  Modes,       \* the settings the instance admits: "off", "dry_run", "live"
  LoopDailyCap, \* max_applications_per_day
  LoopRunCap,  \* RunSession.application_cap
  MaxDispatch, \* MAX_DISPATCH_PER_TICK
  MaxCopies    \* bound: copies of one apply.prepare message

ASSUME RunLoopAssumption ==
  /\ {LastPosting, LoopDailyCap, LoopRunCap, MaxDispatch, MaxCopies} \subseteq Nat \ {0}
  /\ Modes \subseteq {"off", "dry_run", "live"}

VARIABLES
  mode,    \* auto_apply_enabled and dry_run, constant while the processes run
  loop,    \* the run's row: status, stop_requested_at set or not, stop_reason
  scored,  \* the postings scored above the floor so far
  app,     \* the status of the application of each posting
  others,  \* what the user's other work has sent today
  prep,    \* apply.prepare messages waiting, per posting
  subm,    \* the postings for which an apply.submit message waits
  busy,    \* what the worker is doing
  aged     \* the run is older than EMPTY_GRACE_SECONDS

loopVars == <<mode, loop, scored, app, others, prep, subm, busy, aged>>

Postings == 1..LastPosting
Unoccupied == [kind |-> "none", posting |-> 0]

Outstanding == {p \in Postings : app[p] \in {"preparing", "ready", "submitting"}}

Sent == {p \in Postings : app[p] = "submitted"}
UsedToday == Cardinality(Sent) + others
DailyRemaining == LoopDailyCap - UsedToday
Remaining == LET own == LoopRunCap - Cardinality(Sent)
             IN  IF own < DailyRemaining THEN own ELSE DailyRemaining
Candidates == {p \in scored : app[p] = "none"}

\* The first n of the candidates, best score first.
Batch(n) == {p \in Candidates : Cardinality({q \in Candidates : q < p}) < n}

Halted == loop.stop \/ loop.status # "running"

\* halt_run and request_stop keep the reason of an earlier request.
Requested(reason) ==
  IF Halted THEN loop ELSE [loop EXCEPT !.stop = TRUE, !.reason = reason]

StatusOf(reason) ==
  CASE reason = "user_stopped" -> "cancelled"
    [] reason \in {"limit_reached", "daily_limit_reached", "no_eligible_jobs",
                   "submission_disabled"} -> "completed"
    [] OTHER -> "failed"

Conclude(reason) ==
  /\ loop' = [loop EXCEPT !.status = StatusOf(reason), !.reason = reason]
  /\ UNCHANGED <<mode, scored, app, others, prep, subm, busy, aged>>

-----------------------------------------------------------------------------
LoopInit ==
  /\ mode \in Modes
  /\ loop = [status |-> "none", stop |-> FALSE, reason |-> "none"]
  /\ scored = {}
  /\ app = [p \in Postings |-> "none"]
  /\ others \in 0..LoopDailyCap
  /\ prep = [p \in Postings |-> 0]
  /\ subm = {}
  /\ busy = Unoccupied
  /\ aged = FALSE

\* The user starts the run.
StartRun ==
  /\ loop.status = "none"
  /\ loop' = [loop EXCEPT !.status = "running"]
  /\ UNCHANGED <<mode, scored, app, others, prep, subm, busy, aged>>

(* One tick, branch by branch. *)

Going == loop.status = "running"

\* 1. A stop was asked for: its reason, whatever else is the case.
TickStopped == Going /\ loop.stop /\ Conclude(loop.reason)

Deciding == Going /\ ~loop.stop

\* 2. The day is used up, or one of the two allowances is.
TickDaily == Deciding /\ DailyRemaining <= 0 /\ Conclude("daily_limit_reached")

TickCapped ==
  /\ Deciding
  /\ DailyRemaining > 0
  /\ Remaining <= 0
  /\ Conclude(IF DailyRemaining <= Cardinality(Sent)
              THEN "daily_limit_reached" ELSE "limit_reached")

\* 3. With work outstanding the tick changes nothing; without, it looks further.
Looking == Deciding /\ Remaining > 0 /\ Outstanding = {}

\* 4. Dispatch the next batch; each message may be refused by a full queue.
TickDispatches ==
  /\ Looking
  /\ mode # "off"
  /\ Candidates # {}
  /\ \E taken \in SUBSET Batch(IF Remaining < MaxDispatch THEN Remaining ELSE MaxDispatch) :
       prep' = [p \in Postings |-> IF p \in taken /\ prep[p] < MaxCopies
                                   THEN prep[p] + 1 ELSE prep[p]]
  /\ UNCHANGED <<mode, loop, scored, app, others, subm, busy, aged>>

TickSwitchedOff ==
  Looking /\ Candidates # {} /\ mode = "off" /\ Conclude("submission_disabled")

\* Mutant of TickEmpty: nothing new to hand out is enough to conclude.
TickEmptyEarly ==
  Deciding /\ Remaining > 0 /\ Candidates = {} /\ aged /\ Conclude("no_eligible_jobs")

\* 5. Nothing left, and the run is past the grace window.
TickEmpty == Looking /\ Candidates = {} /\ aged /\ Conclude("no_eligible_jobs")

Tick == \/ TickStopped \/ TickDaily \/ TickCapped \/ TickDispatches
        \/ TickSwitchedOff \/ TickEmpty

-----------------------------------------------------------------------------
(* The worker. *)

\* apply.prepare: refused when the run is halting; otherwise the row is created or
\* loaded, and worked on when it is preparable.
BeginPrepare(p) ==
  /\ busy = Unoccupied
  /\ prep[p] > 0
  /\ prep' = [prep EXCEPT ![p] = @ - 1]
  /\ IF Halted
     THEN UNCHANGED <<app, busy>>
     ELSE /\ app' = [app EXCEPT ![p] =
                       IF @ \in {"none", "preparing", "needs_review", "failed"}
                       THEN "preparing" ELSE @]
          /\ busy' = [kind |-> "prepare", posting |-> p]
  /\ UNCHANGED <<mode, loop, scored, others, subm, aged>>

\* ... its outcome; a ready application goes on to apply.submit, if the queue takes it.
FinishPrepare ==
  /\ busy.kind = "prepare"
  /\ LET p == busy.posting
     IN  \E outcome \in IF app[p] = "preparing"
                        THEN {"ready", "needs_review", "failed"} ELSE {app[p]} :
           /\ app' = [app EXCEPT ![p] = outcome]
           /\ IF outcome = "ready" /\ mode # "off"
              THEN subm' \in {subm, subm \cup {p}}
              ELSE UNCHANGED subm
  /\ busy' = Unoccupied
  /\ UNCHANGED <<mode, loop, scored, others, prep, aged>>

\* Mutant of BeginSubmit: the ladder trusts the tick's allowance.
BeginSubmitUncapped(p) ==
  /\ busy = Unoccupied
  /\ p \in subm
  /\ subm' = subm \ {p}
  /\ IF app[p] = "ready" /\ ~Halted /\ mode = "live"
     THEN /\ app' = [app EXCEPT ![p] = "submitting"]
          /\ busy' = [kind |-> "submit", posting |-> p]
     ELSE UNCHANGED <<app, busy>>
  /\ UNCHANGED <<mode, loop, scored, others, prep, aged>>

\* apply.submit up to the claim: a rung refuses, stops the run, parks the row, or
\* lets it pass.  A rehearsal leaves the row ready.
BeginSubmit(p) ==
  /\ busy = Unoccupied
  /\ p \in subm
  /\ subm' = subm \ {p}
  /\ CASE app[p] # "ready" \/ Halted -> UNCHANGED <<loop, app, busy>>
       [] app[p] = "ready" /\ ~Halted /\ DailyRemaining <= 0 ->
            loop' = Requested("daily_limit_reached") /\ UNCHANGED <<app, busy>>
       [] app[p] = "ready" /\ ~Halted /\ DailyRemaining > 0 /\ LoopRunCap <= Cardinality(Sent) ->
            loop' = Requested("limit_reached") /\ UNCHANGED <<app, busy>>
       [] OTHER ->
            /\ UNCHANGED loop
            /\ \/ app' = [app EXCEPT ![p] = "needs_review"] /\ UNCHANGED busy
               \/ mode = "dry_run" /\ UNCHANGED <<app, busy>>
               \/ /\ mode = "live"
                  /\ app' = [app EXCEPT ![p] = "submitting"]
                  /\ busy' = [kind |-> "submit", posting |-> p]
  /\ UNCHANGED <<mode, scored, others, prep, aged>>

\* ... and the provider's verdict.
FinishSubmit ==
  /\ busy.kind = "submit"
  /\ \E outcome \in {"submitted", "needs_review", "failed"} :
       app' = [app EXCEPT ![busy.posting] = outcome]
  /\ busy' = Unoccupied
  /\ UNCHANGED <<mode, loop, scored, others, prep, subm, aged>>

\* The worker dies in a task, which the inline executor then forgets.
WorkerDies ==
  /\ busy # Unoccupied
  /\ busy' = Unoccupied
  /\ UNCHANGED <<mode, loop, scored, app, others, prep, subm, aged>>

(* The rest of the world. *)

Discover(p) ==
  /\ p \notin scored
  /\ scored' = scored \cup {p}
  /\ UNCHANGED <<mode, loop, app, others, prep, subm, busy, aged>>

GraceOver ==
  /\ ~aged
  /\ aged' = TRUE
  /\ UNCHANGED <<mode, loop, scored, app, others, prep, subm, busy>>

\* Another run or a person sends something; nobody goes past the day's cap, and the
\* single worker is not in a submission meanwhile.
OtherSend ==
  /\ busy.kind # "submit"
  /\ DailyRemaining > 0
  /\ others' = others + 1
  /\ UNCHANGED <<mode, loop, scored, app, prep, subm, busy, aged>>

StopPressed ==
  /\ Going
  /\ ~loop.stop
  /\ loop' = Requested("user_stopped")
  /\ UNCHANGED <<mode, scored, app, others, prep, subm, busy, aged>>

\* Mutant of Reap: a run that nothing moves any more is left to the ticks.
ReapBusyOnly ==
  /\ Going
  /\ Outstanding # {}
  /\ ~loop.stop
  /\ busy # Unoccupied
  /\ loop' = [loop EXCEPT !.status = "failed", !.reason = IF @ = "none" THEN "stalled" ELSE @]
  /\ UNCHANGED <<mode, scored, app, others, prep, subm, busy, aged>>

\* The watchdog: fifteen minutes without a write of the run's row.  Ticks come every
\* minute, so either nothing is left that would move the run, or a task (they may
\* take fifty minutes) has been at it all the time.
Reap ==
  /\ Going
  /\ Outstanding # {}
  /\ ~loop.stop
  /\ \/ busy # Unoccupied
     \/ subm = {} /\ \A p \in Postings : prep[p] = 0
  /\ loop' = [loop EXCEPT !.status = "failed", !.reason = IF @ = "none" THEN "stalled" ELSE @]
  /\ UNCHANGED <<mode, scored, app, others, prep, subm, busy, aged>>

Work == FinishPrepare \/ FinishSubmit
        \/ \E p \in Postings : BeginPrepare(p) \/ BeginSubmit(p)

LoopNext ==
  \/ StartRun
  \/ Tick
  \/ Work
  \/ WorkerDies
  \/ \E p \in Postings : Discover(p)
  \/ GraceOver \/ OtherSend \/ StopPressed \/ Reap

LoopSpec == LoopInit /\ [][LoopNext]_loopVars
-----------------------------------------------------------------------------
LoopTypeOK ==
  /\ mode \in Modes
  /\ loop \in [status : {"none", "running", "completed", "cancelled", "failed"}, stop : BOOLEAN,
               reason : {"none", "user_stopped", "limit_reached", "daily_limit_reached",
                         "no_eligible_jobs", "submission_disabled", "stalled"}]
  /\ scored \subseteq Postings
  /\ app \in [Postings -> {"none", "preparing", "ready", "submitting", "submitted",
                           "needs_review", "failed"}]
  /\ others \in 0..LoopDailyCap
  /\ prep \in [Postings -> 0..MaxCopies]
  /\ subm \subseteq Postings
  /\ busy \in [kind : {"none", "prepare", "submit"}, posting : 0..LastPosting]
  /\ aged \in BOOLEAN

\* The two checks of an allowance, at the tick and in the ladder, together keep the run
\* within both caps, although ticks hand out more than they count as outstanding
\* (messages waiting on the queue) and better postings may overtake handed-out ones.
RunWithinCaps ==
  /\ Cardinality(Sent) <= LoopRunCap
  /\ UsedToday <= LoopDailyCap

\* `no_eligible_jobs` is only ever said of a run whose every posting has been dealt
\* with: nothing of it is half done when the tick says so.
EmptyMeansDealtWith ==
  [][loop'.reason = "no_eligible_jobs" /\ loop.reason = "none"
       => \A p \in scored : app[p] \in {"submitted", "needs_review", "failed"}]_loop

\* The run as its loop sees it has the life of any run.
LoopPhase ==
  IF loop.status = "none" THEN "unborn"
  ELSE IF loop.status # "running" THEN "over"
  ELSE IF loop.stop THEN "halting" ELSE "going"

\* Ticks, rungs, people and the watchdog, in one step each, lead the run through the
\* life that RunSession's writers lead it through in several.
LoopLife ==
  INSTANCE RunLife WITH
    Runs <- {"this"},
    phase <- [r \in {"this"} |-> LoopPhase],
    explained <- {r \in {"this"} : loop.reason # "none"}
LoopImplementsRunLife == LoopLife!Spec

\* Every run ends, whatever gets lost: by a tick, or at the latest by the watchdog.
EveryRunEnds == Going ~> ~Going

\* "The day is the binding one ... exactly when raising the run's own cap would change
\* nothing" (run_loop.py 249-253).
DayIsNamedWhenItBinds ==
  [][loop'.reason = "daily_limit_reached" /\ loop.reason = "none"
       => DailyRemaining <= 0]_loop

\* The scheduler ticks every minute, the worker keeps taking messages and its tasks
\* have time limits, the watchdog is scheduled, and time passes.
LoopFairness == WF_loopVars(Tick) /\ WF_loopVars(Work) /\ WF_loopVars(Reap)
                /\ WF_loopVars(GraceOver)
LoopFairSpec == LoopSpec /\ LoopFairness
=============================================================================
