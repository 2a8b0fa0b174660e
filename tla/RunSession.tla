------------------------------ MODULE RunSession ------------------------------
(***************************************************************************)
(* The rows of run_sessions of one user and everything that writes them:   *)
(* the start and stop routes, the submission ladder that asks a run to     *)
(* stop at a cap, the run loop that concludes it, and the watchdog.        *)
(*                                                                         *)
(* Every writer but the watchdog loads the row, decides from the instance  *)
(* it holds and flushes what it changed: the unit of work writes exactly   *)
(* the attributes whose value differs from the loaded one.                 *)
(***************************************************************************)
EXTENDS Naturals, FiniteSets

CONSTANTS
  Runs,    \* the rows the user's starts can create
  Actors,  \* the requests, ticks and sweeps served at the same time
  Ops      \* the operations the instance admits

ASSUME ActorsAssumption == "none" \notin Actors
ASSUME OpsAssumption ==
  Ops \subseteq {"stop", "limit", "late_limit", "tick", "tick_error",
               "watchdog", "abort"}

VARIABLES
  row,    \* run_sessions
  actor,  \* what each actor is doing, with the instance it holds
  quiet   \* the running rows whose updated_at is older than the watchdog's cutoff

runVars == <<row, actor, quiet>>

-----------------------------------------------------------------------------
Completing == {"limit_reached", "daily_limit_reached", "no_eligible_jobs",
               "submission_disabled"}
Reasons == Completing \cup {"user_stopped", "stalled", "infrastructure_failure"}
Ended == {"completed", "failed", "cancelled"}

\* status_for: the one mapping from why a run stopped to how it ended.
StatusFor(reason) ==
  CASE reason \in Completing -> "completed"
    [] reason = "user_stopped" -> "cancelled"
    [] OTHER -> "failed"

\* A row; ended_at is represented by the actor whose clock it holds.
Row == [status : {"absent", "running"} \cup Ended, requested : BOOLEAN,
        reason : Reasons \cup {"none"}, ended : Actors \cup {"none"}]
Absent == [status |-> "absent", requested |-> FALSE, reason |-> "none", ended |-> "none"]
Opened == [Absent EXCEPT !.status = "running"]

Free == [op |-> "free", run |-> "none", copy |-> Absent]

\* What the unit of work writes: the attributes the instance changed.
Attribute(stored, loaded, wanted) == IF wanted = loaded THEN stored ELSE wanted
Flushed(stored, loaded, wanted) ==
  [status |-> Attribute(stored.status, loaded.status, wanted.status),
   requested |-> Attribute(stored.requested, loaded.requested, wanted.requested),
   reason |-> Attribute(stored.reason, loaded.reason, wanted.reason),
   ended |-> Attribute(stored.ended, loaded.ended, wanted.ended)]

Flush(r, loaded, wanted) ==
  /\ row' = [row EXCEPT ![r] = Flushed(row[r], loaded, wanted)]
  /\ quiet' = IF wanted = loaded THEN quiet ELSE quiet \ {r}

\* RunSession.request_stop and RunSession.finish, on the instance.
WithStop(copy, reason) ==
  IF copy.requested THEN copy
  ELSE [copy EXCEPT !.requested = TRUE, !.reason = reason]

WithFinish(copy, x, status, reason) ==
  [copy EXCEPT !.status = status,
               !.ended = IF @ = "none" THEN x ELSE @,
               !.reason = IF @ = "none" THEN reason ELSE @]

Begin(x, op, r) == actor' = [actor EXCEPT ![x] = [op |-> op, run |-> r, copy |-> row[r]]]
\* Mutant of Done: the actor keeps the instance it held.
DoneKeepsInstance(x) == actor' = [actor EXCEPT ![x].op = "free"]

Done(x) == actor' = [actor EXCEPT ![x] = Free]

Running == {r \in Runs : row[r].status = "running"}

-----------------------------------------------------------------------------
RunInit ==
  /\ row = [r \in Runs |-> Absent]
  /\ actor = [x \in Actors |-> Free]
  /\ quiet = {}

\* SessionService.start: look for a running row, then insert one.  A start that
\* finds one joins it and writes nothing.
StartCheck(x) ==
  /\ actor[x] = Free
  /\ Running = {}
  /\ \E r \in Runs : row[r] = Absent /\ Begin(x, "start", r)
  /\ UNCHANGED <<row, quiet>>

\* Mutant of StartInsert: a start reopens a row that already exists.
StartReopens(x) ==
  /\ actor[x].op = "start"
  /\ \E r \in Runs : row' = [row EXCEPT ![r] = Opened]
  /\ Done(x)
  /\ UNCHANGED quiet

StartInsert(x) ==
  /\ actor[x].op = "start"
  /\ \E r \in Runs :
       /\ row[r] = Absent
       /\ row' = [row EXCEPT ![r] = Opened]
  /\ Done(x)
  /\ UNCHANGED quiet

\* POST /sessions/{id}/stop loads the run, requests the stop, then closes it: two
\* commits on one instance.
StopLoad(x) ==
  /\ "stop" \in Ops
  /\ actor[x] = Free
  /\ \E r \in Runs : row[r] # Absent /\ Begin(x, "stop", r)
  /\ UNCHANGED <<row, quiet>>

StopRequest(x) ==
  /\ actor[x].op = "stop"
  /\ LET copy == actor[x].copy
         wanted == WithStop(copy, "user_stopped")
     IN  /\ Flush(actor[x].run, copy, wanted)
         /\ actor' = [actor EXCEPT ![x].op = "close", ![x].copy = wanted]

StopClose(x) ==
  /\ actor[x].op = "close"
  /\ LET copy == actor[x].copy
     IN  Flush(actor[x].run, copy, WithFinish(copy, x, "cancelled", "user_stopped"))
  /\ Done(x)

\* Pipeline._halt_run.  The run cap is enforced on running rows only, the daily cap
\* also stops the owning run of a review answered after that run ended.
LimitLoad(x) ==
  /\ actor[x] = Free
  /\ \E r \in Runs :
       /\ \/ "limit" \in Ops /\ row[r].status = "running"
          \/ "late_limit" \in Ops /\ row[r].status \in Ended
       /\ Begin(x, "limit", r)
  /\ UNCHANGED <<row, quiet>>

LimitRequest(x) ==
  /\ actor[x].op = "limit"
  /\ LET copy == actor[x].copy
     IN  \E reason \in {"limit_reached", "daily_limit_reached"} :
           /\ reason = "limit_reached" => copy.status = "running"
           /\ Flush(actor[x].run, copy, WithStop(copy, reason))
  /\ Done(x)

\* run_loop._advance_all loads the running rows once ...
TickLoad(x) ==
  /\ "tick" \in Ops
  /\ actor[x] = Free
  /\ \E r \in Running : Begin(x, "tick", r)
  /\ UNCHANGED <<row, quiet>>

\* _tick concludes with the reason of a requested stop, or with one it
\* finds itself.
TickConclude(x) ==
  /\ actor[x].op = "tick"
  /\ LET copy == actor[x].copy
     IN  \E reason \in IF copy.requested THEN {copy.reason} ELSE Completing :
           Flush(actor[x].run, copy, WithFinish(copy, x, StatusFor(reason), reason))
  /\ Done(x)

\* A tick that raised concludes with infrastructure_failure.
TickFails(x) ==
  /\ "tick_error" \in Ops
  /\ actor[x].op = "tick"
  /\ LET copy == actor[x].copy
     IN  Flush(actor[x].run, copy, WithFinish(copy, x, "failed", "infrastructure_failure"))
  /\ Done(x)

\* The run is still working, or the tick dispatched its next batch.
TickContinue(x) ==
  /\ actor[x].op = "tick"
  /\ ~actor[x].copy.requested
  /\ Done(x)
  /\ UNCHANGED <<row, quiet>>

\* SessionService.watchdog selects the ids of the silent running rows, then updates
\* them by id alone, with coalesce on what they already record.
WatchdogSelect(x) ==
  /\ "watchdog" \in Ops
  /\ actor[x] = Free
  /\ \E r \in Running \cap quiet : Begin(x, "reap", r)
  /\ UNCHANGED <<row, quiet>>

\* Mutant of WatchdogReap: the reason is assigned, not coalesced.
ReapOverwrites(x) ==
  /\ actor[x].op = "reap"
  /\ LET r == actor[x].run
     IN  /\ row' = [row EXCEPT ![r].status = "failed", ![r].reason = "stalled",
                              ![r].ended = IF @ = "none" THEN x ELSE @]
         /\ quiet' = quiet \ {r}
  /\ Done(x)

WatchdogReap(x) ==
  /\ actor[x].op = "reap"
  /\ LET r == actor[x].run
     IN  /\ row' = [row EXCEPT ![r] = WithFinish(row[r], x, "failed", "stalled")]
         /\ quiet' = quiet \ {r}
  /\ Done(x)

\* The process serving an actor dies between two steps.
Abort(x) ==
  /\ "abort" \in Ops
  /\ actor[x] # Free
  /\ Done(x)
  /\ UNCHANGED <<row, quiet>>

\* SessionService.record bumps updated_at; fifteen silent minutes age it.
Progress(r) ==
  /\ row[r].status = "running"
  /\ quiet' = quiet \ {r}
  /\ UNCHANGED <<row, actor>>

FallsSilent(r) ==
  /\ row[r].status = "running"
  /\ quiet' = quiet \cup {r}
  /\ UNCHANGED <<row, actor>>

RunNext ==
  \/ \E x \in Actors :
       \/ StartCheck(x) \/ StartInsert(x)
       \/ StopLoad(x) \/ StopRequest(x) \/ StopClose(x)
       \/ LimitLoad(x) \/ LimitRequest(x)
       \/ TickLoad(x) \/ TickConclude(x) \/ TickFails(x) \/ TickContinue(x)
       \/ WatchdogSelect(x) \/ WatchdogReap(x)
       \/ Abort(x)
  \/ \E r \in Runs : Progress(r) \/ FallsSilent(r)

RunSpec == RunInit /\ [][RunNext]_runVars

-----------------------------------------------------------------------------
RunTypeOK ==
  /\ row \in [Runs -> Row]
  /\ actor \in [Actors -> [op : {"start", "stop", "close", "limit", "tick", "reap"},
                           run : Runs, copy : Row] \cup {Free}]
  /\ quiet \subseteq Runs

\* However the writers interleave, a run that is over says when and why, and a run
\* that is not over has no end: each closing write carries all three attributes; and
\* stalled is the watchdog's word for a run nobody explained ("only a run with no
\* explanation at all is labelled stalled"), however late its other writers are.
EndIsExplained ==
  \A r \in Runs :
    /\ row[r].status \in Ended <=> row[r].ended # "none"
    /\ row[r].status \in Ended => row[r].reason # "none"
    /\ row[r].requested => row[r].reason # "none"
    /\ row[r].reason = "stalled" => row[r].status = "failed" /\ ~row[r].requested

\* A stop is never taken back: a run that refuses new work goes on refusing it,
\* whatever stale instance a later writer flushes.
HaltIsForGood ==
  [][\A r \in Runs :
       row[r].requested \/ row[r].status \in Ended
         => row'[r].requested \/ row'[r].status \in Ended]_runVars

\* What the row says of the phase its run is in.
PhaseOf(s) ==
  IF s.status = "absent" THEN "unborn"
  ELSE IF s.status \in Ended THEN "over"
  ELSE IF s.requested THEN "halting" ELSE "going"

\* Flushes of stale instances, written attribute by attribute over what others wrote,
\* amount to one life: a run starts, halts and ends once, in that order, and from the
\* halt on says why.
Life ==
  INSTANCE RunLife WITH
    phase <- [r \in Runs |-> PhaseOf(row[r])],
    explained <- {r \in Runs : row[r].reason # "none"}
ImplementsRunLife == Life!Spec

\* The first explanation of why a run stopped is kept (the stop route: "so a stop
\* arriving after the watchdog reaped the run cannot relabel it").
FirstReasonWins ==
  [][\A r \in Runs : row[r].reason # "none" => row'[r].reason = row[r].reason]_runVars

\* A run the user stopped stays stopped by the user (run_loop._tick: "Its reason
\* wins over anything this tick would discover").
UserStopWins ==
  [][\A r \in Runs : row[r].status = "cancelled" => row'[r].status = "cancelled"]_runVars
=============================================================================
