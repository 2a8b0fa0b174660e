------------------------------- MODULE RunLife -------------------------------
(***************************************************************************)
(* The life of a run, whoever writes its row and from whichever instance:  *)
(* it is started, it may be asked to halt, it ends, and it never goes back *)
(* to an earlier phase.  From the moment it refuses new work it says why.  *)
(***************************************************************************)
CONSTANT Runs

VARIABLES
  phase,     \* "unborn", "going", "halting" or "over"
  explained  \* the runs whose stop_reason is set

lifeVars == <<phase, explained>>

Init ==
  /\ phase = [r \in Runs |-> "unborn"]
  /\ explained = {}

\* SessionService.start.
Start(r) ==
  /\ phase[r] = "unborn"
  /\ phase' = [phase EXCEPT ![r] = "going"]
  /\ UNCHANGED explained

\* RunSession.request_stop: what runs winds down.
Halt(r) ==
  /\ phase[r] = "going"
  /\ phase' = [phase EXCEPT ![r] = "halting"]
  /\ explained' = explained \cup {r}

\* RunSession.finish, asked for or not.
End(r) ==
  /\ phase[r] \in {"going", "halting"}
  /\ phase' = [phase EXCEPT ![r] = "over"]
  /\ explained' = explained \cup {r}

Next == \E r \in Runs : Start(r) \/ Halt(r) \/ End(r)

Spec == Init /\ [][Next]_lifeVars
=============================================================================
