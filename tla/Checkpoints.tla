------------------------------ MODULE Checkpoints ------------------------------
(***************************************************************************)
(* The checkpoint service: resumable steps, claimed by an upsert on a      *)
(* unique key.  Drivers run a step inside its checkpoint, each with its    *)
(* own database session: an identity map that a later SELECT does not      *)
(* refresh (expire_on_commit=False), and possibly uncommitted work of its  *)
(* own, which a lost race for the key must not take with it.               *)
(***************************************************************************)
EXTENDS Naturals, FiniteSets

CONSTANTS
  StepKeys,   \* the checkpoint keys
  Drivers,    \* the units of work that drive steps
  MaxAttempt, \* bound: attempts counted
  MaxUnits    \* bound: how often each driver starts over

ASSUME CheckpointAssumption == MaxAttempt \in Nat \ {0} /\ MaxUnits \in Nat

VARIABLES
  point,    \* checkpoints: the committed row of each key, or NoPoint
  driver,   \* each driver: where it is, its key, its copy of the row
  units,    \* how many units of work each driver has begun
  outer,    \* the driver's other work in the open transaction: "none", "open", "kept", "lost"
  mishap,   \* history: what befell the driver in this unit: its row was purged before it
            \* claimed it, or it died
  crashed   \* history: the keys whose driver left the step without a record of its end

ckptVars == <<point, driver, units, outer, mishap, crashed>>

NoPoint == [status |-> "absent", attempt |-> 0, resumable |-> TRUE, stale |-> FALSE]
Point == [status : {"running", "succeeded", "failed", "compensated"},
          attempt : 1..MaxAttempt, resumable : BOOLEAN, stale : BOOLEAN]
Asleep == [at |-> "asleep", key |-> "none", copy |-> NoPoint, gone |-> FALSE]

\* Checkpoint.mark_running and the rest of _redrive, on the copy in the identity map.
Redriven(copy) ==
  [copy EXCEPT !.status = "running", !.resumable = TRUE, !.stale = FALSE,
               !.attempt = IF @ < MaxAttempt THEN @ + 1 ELSE @]

\* Committing a copy writes what differs from what was loaded.
Written(k, loaded, wanted) ==
  [f \in DOMAIN wanted |-> IF wanted[f] = loaded[f] THEN point[k][f] ELSE wanted[f]]

\* A commit keeps the other work of the transaction; a failed flush rolls it back.
Keep(d) == outer' = [outer EXCEPT ![d] = IF @ = "open" THEN "kept" ELSE @]
Lose(d) == outer' = [outer EXCEPT ![d] = IF @ = "open" THEN "lost" ELSE @]

\* RESUMABLE_CHECKPOINT_STATES with the other two conditions of resume_all.
Resumable == {k \in StepKeys : /\ point[k].status \in {"pending", "running", "failed"}
                               /\ point[k].resumable
                               /\ ~point[k].stale}

-----------------------------------------------------------------------------
CkptInit ==
  /\ point = [k \in StepKeys |-> NoPoint]
  /\ driver = [d \in Drivers |-> Asleep]
  /\ units = [d \in Drivers |-> 0]
  /\ outer = [d \in Drivers |-> "none"]
  /\ mishap = [d \in Drivers |-> "none"]
  /\ crashed = {}

\* A unit of work, with or without uncommitted work of its own, reaches a step; a
\* recovery pass reaches one that resume_all returned.
EnterStep(d, k) ==
  /\ driver[d] = Asleep
  /\ units[d] < MaxUnits
  /\ units' = [units EXCEPT ![d] = @ + 1]
  /\ \E w \in {"none", "open"} : outer' = [outer EXCEPT ![d] = w]
  /\ mishap' = [mishap EXCEPT ![d] = "none"]
  /\ driver' = [driver EXCEPT ![d] = [Asleep EXCEPT !.at = "load", !.key = k]]
  /\ UNCHANGED <<point, crashed>>

\* save: SELECT by key.
LoadPoint(d) ==
  /\ driver[d].at = "load"
  /\ LET k == driver[d].key
     IN  driver' = [driver EXCEPT ![d].copy = point[k],
                      ![d].at = IF point[k] = NoPoint THEN "insert" ELSE "redrive"]
  /\ UNCHANGED <<point, units, outer, mishap, crashed>>

\* No row stands under the key: the INSERT claims it, and the commit keeps the other work.
InsertsRow(d) ==
  LET k == driver[d].key
  IN  /\ point[k] = NoPoint
      /\ point' = [point EXCEPT ![k] = Redriven([NoPoint EXCEPT !.attempt = 0])]
      /\ driver' = [driver EXCEPT ![d].copy = point'[k], ![d].at = "body"]
      /\ Keep(d)

\* The INSERT meets another worker's row.
Collides(d) ==
  /\ point[driver[d].key] # NoPoint
  /\ driver' = [driver EXCEPT ![d].at = "reload"]
  /\ UNCHANGED point

\* Mutant of InsertPoint: no SAVEPOINT, the collision rolls the transaction back.
InsertNoSavepoint(d) ==
  /\ driver[d].at = "insert"
  /\ InsertsRow(d) \/ (Collides(d) /\ Lose(d))
  /\ UNCHANGED <<units, mishap, crashed>>

\* ... INSERT inside a SAVEPOINT: the loser rolls back to it alone, and re-reads.
InsertPoint(d) ==
  /\ driver[d].at = "insert"
  /\ InsertsRow(d) \/ (Collides(d) /\ UNCHANGED outer)
  /\ UNCHANGED <<units, mishap, crashed>>

\* save is left by an exception: the unit of work is rolled back.
SaveRaises(d) ==
  /\ driver' = [driver EXCEPT ![d] = Asleep]
  /\ Lose(d)
  /\ UNCHANGED point

\* The second SELECT: the winner's row, or, purged meanwhile, none, and save raises.
ReloadPoint(d) ==
  /\ driver[d].at = "reload"
  /\ LET k == driver[d].key
     IN  IF point[k] = NoPoint THEN SaveRaises(d)
         ELSE /\ driver' = [driver EXCEPT ![d].copy = point[k], ![d].at = "redrive"]
              /\ UNCHANGED <<point, outer>>
  /\ UNCHANGED <<units, mishap, crashed>>

\* _redrive: whatever its status, the existing row is claimed again.  The flush of a row
\* that was purged meanwhile updates nothing and raises, whoever holds the key by then.
RedrivePoint(d) ==
  /\ driver[d].at = "redrive"
  /\ LET k == driver[d].key
         wanted == Redriven(driver[d].copy)
     IN  IF driver[d].gone THEN SaveRaises(d)
         ELSE /\ point' = [point EXCEPT ![k] = Written(k, driver[d].copy, wanted)]
              /\ driver' = [driver EXCEPT ![d].copy = wanted, ![d].at = "body"]
              /\ Keep(d)
  /\ UNCHANGED <<units, mishap, crashed>>

\* The end of the body is recorded on the row the key has now, if it has one.
EndStep(d, status) ==
  LET k == driver[d].key
  IN  /\ point' = IF point[k] = NoPoint THEN point ELSE [point EXCEPT ![k].status = status]
      /\ driver' = [driver EXCEPT ![d] = Asleep]
      /\ outer' = [outer EXCEPT ![d] = "none"]
      /\ UNCHANGED <<units, mishap, crashed>>

\* The record itself fails (a session the body broke, a database that does not answer):
\* _record_failure catches a LookupError only, complete nothing, and the row keeps running.
EndUnrecorded(d) ==
  /\ crashed' = crashed \cup {driver[d].key}
  /\ driver' = [driver EXCEPT ![d] = Asleep]
  /\ outer' = [outer EXCEPT ![d] = "none"]
  /\ UNCHANGED <<point, units, mishap>>

\* The body ends: complete, or fail for an exception; with no row left both find nothing.
StepSucceeds(d) == driver[d].at = "body" /\ (EndStep(d, "succeeded") \/ EndUnrecorded(d))
StepFails(d) == driver[d].at = "body" /\ (EndStep(d, "failed") \/ EndUnrecorded(d))

\* Mutant of StepCancelled: CancelledError is not an Exception, nothing is recorded.
CancelPassesBy(d) ==
  /\ driver[d].at = "body"
  /\ driver' = [driver EXCEPT ![d] = Asleep]
  /\ outer' = [outer EXCEPT ![d] = "none"]
  /\ UNCHANGED <<point, units, mishap, crashed>>

\* The body is cancelled: recorded as a failure, and re-raised.
StepCancelled(d) == driver[d].at = "body" /\ (EndStep(d, "failed") \/ EndUnrecorded(d))

\* The process dies, and what its transaction had not committed with it.
DriverDies(d) ==
  /\ driver[d] # Asleep
  /\ crashed' = IF driver[d].at = "body" THEN crashed \cup {driver[d].key} ELSE crashed
  /\ driver' = [driver EXCEPT ![d] = Asleep]
  /\ Lose(d)
  /\ mishap' = [mishap EXCEPT ![d] = "died"]
  /\ UNCHANGED <<point, units>>

\* compensate: a deliberate rollback, from a session of its own.
Compensate(k) ==
  /\ point[k] # NoPoint
  /\ point' = [point EXCEPT ![k].status = "compensated", ![k].resumable = FALSE]
  /\ UNCHANGED <<driver, units, outer, mishap, crashed>>

\* Seven days pass; purge_expired then deletes the row, driven or not.
PointExpires(k) ==
  /\ point[k] # NoPoint
  /\ ~point[k].stale
  /\ point' = [point EXCEPT ![k].stale = TRUE]
  /\ UNCHANGED <<driver, units, outer, mishap, crashed>>

\* The drivers that have met a row that is about to be purged, and not yet claimed it.
Unclaimed(d) == driver[d].at \in {"reload", "redrive"} /\ point[driver[d].key].stale

PurgeExpired ==
  /\ \E k \in StepKeys : point[k].stale
  /\ point' = [k \in StepKeys |-> IF point[k].stale THEN NoPoint ELSE point[k]]
  /\ driver' = [d \in Drivers |-> IF Unclaimed(d) /\ driver[d].at = "redrive"
                                  THEN [driver[d] EXCEPT !.gone = TRUE] ELSE driver[d]]
  /\ mishap' = [d \in Drivers |-> IF Unclaimed(d) THEN "purged" ELSE mishap[d]]
  /\ UNCHANGED <<units, outer, crashed>>

CkptNext ==
  \/ \E d \in Drivers :
       \/ \E k \in StepKeys : EnterStep(d, k)
       \/ LoadPoint(d) \/ InsertPoint(d) \/ ReloadPoint(d) \/ RedrivePoint(d)
       \/ StepSucceeds(d) \/ StepFails(d) \/ StepCancelled(d) \/ DriverDies(d)
  \/ \E k \in StepKeys : Compensate(k) \/ PointExpires(k)
  \/ PurgeExpired

CkptSpec == CkptInit /\ [][CkptNext]_ckptVars
-----------------------------------------------------------------------------
CkptTypeOK ==
  /\ point \in [StepKeys -> Point \cup {NoPoint}]
  /\ \A d \in Drivers :
       /\ driver[d].at \in {"asleep", "load", "insert", "reload", "redrive", "body"}
       /\ driver[d] # Asleep => driver[d].key \in StepKeys
       /\ driver[d].copy \in Point \cup {NoPoint}
       /\ driver[d].gone \in BOOLEAN
  /\ units \in [Drivers -> 0..MaxUnits]
  /\ outer \in [Drivers -> {"none", "open", "kept", "lost"}]
  /\ mishap \in [Drivers -> {"none", "purged", "died"}]
  /\ crashed \subseteq StepKeys

Driving(k) == {d \in Drivers : driver[d].key = k /\ driver[d].at = "body"}

\* A lost race for a key costs the loser nothing but its INSERT (save: "a single collision
\* would poison the whole unit of work"): the other work of a transaction is lost only to a
\* death, or to a purge between the driver's sight of the row and its claim, and it is
\* committed before the body runs.
CollisionIsIsolated ==
  \A d \in Drivers : /\ outer[d] = "lost" => mishap[d] \in {"purged", "died"}
                     /\ driver[d].at = "body" => outer[d] # "open"

\* A step is left `running` with nobody in it by a death or a failed record only, never by a
\* failure or a cancellation that could be recorded, and then a recovery pass finds it until
\* it expires (step: "leaving a step stuck in running forever, which a recovery pass cannot
\* distinguish from a step still in flight").
RunningMeansDrivenOrCrashed ==
  \A k \in StepKeys :
    point[k].status = "running" =>
      \/ Driving(k) # {}
      \/ k \in crashed /\ (point[k].resumable /\ ~point[k].stale => k \in Resumable)

\* "two workers racing to start the same step collide on the index rather than doing the
\* work twice" (checkpoint_service.py 8-9).
OneDriver == \A k \in StepKeys : Cardinality(Driving(k)) <= 1
=============================================================================
