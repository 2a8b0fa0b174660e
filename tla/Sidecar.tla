------------------------------- MODULE Sidecar -------------------------------
(***************************************************************************)
(* The desktop shell's supervisor of its backend (sidecar.rs, lib.rs).     *)
(* Starts run as async tasks on several threads, the shutdowns of closing  *)
(* and exiting on the main thread; the mutex of BackendState covers single *)
(* steps only, so starts and shutdowns interleave between them.            *)
(***************************************************************************)
EXTENDS Integers, FiniteSets

CONSTANTS
  Starters,     \* the tasks that may run `start`: set-up, tray, menu, renderer
  MaxSpawns,    \* bound: processes spawned in a behaviour
  MaxPolls,     \* HEALTH_ATTEMPTS
  ShellFaults   \* among "kill_error" (kill refused), "slow" (the waits lapse), "exits" (it dies by itself)

ASSUME SpawnsAssumption ==
  MaxSpawns \in Nat /\ MaxPolls \in Nat \ {0} /\ "main" \notin Starters

VARIABLES
  proc,      \* the backends spawned, by number: unborn, up, dying (killed, not reaped), gone
  inner,     \* BackendState: the recorded child, the generation
  shown,     \* BackendStatus: phase, the backend behind its port, managed
  call,      \* what each start, and the main thread's shutdown, is doing
  attached,  \* a backend somebody else runs answers at attach_candidate
  shell,       \* the shell: running, or the shutdowns left before it exits, or exited
  excuse     \* history: what happened that the code does not undo

shellVars == <<proc, inner, shown, call, attached, shell, excuse>>
-----------------------------------------------------------------------------
Procs == 1 .. MaxSpawns
None == 0
External == -1
Main == "main"
Threads == Starters \cup {Main}

Phase == {"starting", "ready", "failed", "stopped"}
CallSteps == {"idle", "take", "kill", "wait", "port", "stopped", "starting", "attach", "spawn",
          "record", "announce", "check", "probe", "ready", "dead", "silent"}
Blank(p) == [phase |-> p, port |-> None, managed |-> FALSE]
At(p, b) == [phase |-> p, port |-> b, managed |-> b # External]
Rest == [step |-> "idle", taken |-> None, port |-> None, mine |-> None, gen |-> 0, polls |-> 0]

Holding == {b \in Procs : proc[b] \in {"up", "dying"}}
UnderWay(c) == call[c].step # "idle"
Starting == \E c \in Starters : UnderWay(c)
\* A start looks for a child while another thread holds one it has taken out of the state
\* or not yet put in.
Overtakes(c) ==
  \E d \in Threads \ {c} :
    \/ call[d].step \in {"kill", "wait", "port"}
    \/ d # Main /\ call[d].step \in {"stopped", "starting", "attach", "spawn", "record"}
LastShutdownBegun == shell.state = "quitting" /\ shell.left = 0
Spawned == Cardinality({b \in Procs : proc[b] # "unborn"})

ShellInit ==
  /\ proc = [b \in Procs |-> "unborn"]
  /\ inner = [child |-> None, gen |-> 0]
  /\ shown = Blank("stopped")
  /\ call = [c \in Threads |-> Rest]
  /\ attached \in BOOLEAN
  /\ shell = [state |-> "running", left |-> 0]
  /\ excuse = {}

To(c, s) == call' = [call EXCEPT ![c].step = s]
Return(c) == call' = [call EXCEPT ![c] = Rest]
Alive == shell.state # "exited"

-----------------------------------------------------------------------------
(* shutdown, for a start that clears the way and for the main thread. *)

\* Set-up, the tray, the menu or the renderer calls start; it stops first.
Call(c) ==
  /\ Alive /\ ~UnderWay(c)
  /\ Spawned < MaxSpawns
  /\ To(c, "take")
  /\ excuse' = IF LastShutdownBegun THEN excuse \cup {"exit"} ELSE excuse
  /\ UNCHANGED <<proc, inner, shown, attached, shell>>

\* The child leaves the shared state under the lock: nobody else will kill it.
Take(c) ==
  /\ Alive
  /\ call[c].step = "take"
  /\ call' = [call EXCEPT ![c].step = IF inner.child = None THEN "stopped" ELSE "kill",
                          ![c].taken = inner.child, ![c].port = shown.port]
  /\ inner' = [inner EXCEPT !.child = None]
  /\ excuse' = IF c # Main /\ Overtakes(c) THEN excuse \cup {"overlap"} ELSE excuse
  /\ UNCHANGED <<proc, shown, attached, shell>>

\* Mutant of Kill: the signal is sent and nobody waits for the exit.
KillAndGo(c) ==
  /\ Alive
  /\ call[c].step = "kill"
  /\ proc' = [proc EXCEPT ![call[c].taken] = IF @ = "up" THEN "dying" ELSE @]
  /\ To(c, "stopped")
  /\ UNCHANGED <<inner, shown, attached, shell, excuse>>

Kill(c) ==
  /\ Alive
  /\ call[c].step = "kill"
  /\ \/ /\ proc' = [proc EXCEPT ![call[c].taken] = IF @ = "up" THEN "dying" ELSE @]
        /\ To(c, "wait")
        /\ excuse' = excuse
     \/ /\ "kill_error" \in ShellFaults
        /\ To(c, "port")
        /\ excuse' = excuse \cup {"kill_error"}
        /\ proc' = proc
  /\ UNCHANGED <<inner, shown, attached, shell>>

\* wait_for_exit: until drain_output signals the exit, or SHUTDOWN_GRACE is over.
Wait(c) ==
  /\ Alive
  /\ call[c].step = "wait"
  /\ proc[call[c].taken] = "gone" \/ "slow" \in ShellFaults
  /\ To(c, "port")
  /\ excuse' = IF proc[call[c].taken] = "gone" THEN excuse ELSE excuse \cup {"slow"}
  /\ UNCHANGED <<proc, inner, shown, attached, shell>>

\* The backstop: until the port of the status can be bound, or its timeout is over.
\* The timeout may pass on a port that is not the child's.
AwaitPort(c) ==
  /\ Alive
  /\ call[c].step = "port"
  /\ To(c, "stopped")
  /\ UNCHANGED <<proc, inner, shown, attached, shell, excuse>>

\* The status is cleared; a start goes on, the main thread is done with this shutdown.
PublishStopped(c) ==
  /\ Alive
  /\ call[c].step = "stopped"
  /\ shown' = Blank("stopped")
  /\ call' = [call EXCEPT ![c] = IF c = Main THEN Rest ELSE [Rest EXCEPT !.step = "starting"]]
  /\ UNCHANGED <<proc, inner, attached, shell, excuse>>

-----------------------------------------------------------------------------
(* start. *)

PublishStarting(c) ==
  /\ Alive
  /\ call[c].step = "starting"
  /\ shown' = Blank("starting")
  /\ To(c, "attach")
  /\ UNCHANGED <<proc, inner, attached, shell, excuse>>

\* A backend that answers at the candidate port is used and not owned; a probe that
\* fails goes on to spawning one.
Attach(c) ==
  /\ Alive
  /\ call[c].step = "attach"
  /\ \/ attached /\ shown' = At("ready", External) /\ Return(c)
     \/ To(c, "spawn") /\ shown' = shown
  /\ UNCHANGED <<proc, inner, attached, shell, excuse>>

\* The directory, the port and the process, any of which may fail for good.
Spawn(c) ==
  /\ Alive
  /\ call[c].step = "spawn"
  /\ \/ \E b \in Procs :
          /\ proc[b] = "unborn" /\ \A d \in 1 .. b - 1 : proc[d] # "unborn"
          /\ proc' = [proc EXCEPT ![b] = "up"]
          /\ call' = [call EXCEPT ![c].step = "record", ![c].mine = b]
          /\ shown' = shown
     \/ /\ shown' = Blank("failed")
        /\ Return(c)
        /\ proc' = proc
  /\ UNCHANGED <<inner, attached, shell, excuse>>

\* The child, its exit signal and its generation are recorded in one locked step.
RecordChild(c) ==
  /\ Alive
  /\ call[c].step = "record"
  /\ inner' = [child |-> call[c].mine, gen |-> inner.gen + 1]
  /\ call' = [call EXCEPT ![c].step = "announce", ![c].gen = inner.gen + 1]
  /\ UNCHANGED <<proc, shown, attached, shell, excuse>>

Announce(c) ==
  /\ Alive
  /\ call[c].step = "announce"
  /\ shown' = At("starting", call[c].mine)
  /\ To(c, "check")
  /\ UNCHANGED <<proc, inner, attached, shell, excuse>>

\* The top of the poll loop: superseded, exited, out of attempts, or ask again.
Check(c) ==
  /\ Alive
  /\ call[c].step = "check"
  /\ IF call[c].polls = MaxPolls THEN To(c, "silent")
     ELSE IF inner.gen # call[c].gen THEN Return(c)
     ELSE IF proc[call[c].mine] = "gone" THEN To(c, "dead")
     ELSE To(c, "probe")
  /\ UNCHANGED <<proc, inner, shown, attached, shell, excuse>>

\* GET /health answers, or does not in time.
AskHealth(c) ==
  /\ Alive
  /\ call[c].step = "probe"
  /\ \/ proc[call[c].mine] = "up" /\ To(c, "ready")
     \/ call' = [call EXCEPT ![c].step = "check", ![c].polls = @ + 1]
  /\ UNCHANGED <<proc, inner, shown, attached, shell, excuse>>

\* The verdict of a start is published by a step of its own, after it was reached.
PublishVerdict(c) ==
  /\ Alive
  /\ call[c].step \in {"ready", "dead", "silent"}
  /\ shown' = CASE call[c].step = "ready"  -> At("ready", call[c].mine)
                [] call[c].step = "dead"   -> Blank("failed")
                [] call[c].step = "silent" -> At("failed", call[c].mine)
  /\ Return(c)
  /\ UNCHANGED <<proc, inner, attached, shell, excuse>>

-----------------------------------------------------------------------------
(* The processes, and the end of the shell. *)

\* A killed process is reaped, and drain_output signals its exit.
Reaped(b) ==
  /\ proc[b] = "dying"
  /\ proc' = [proc EXCEPT ![b] = "gone"]
  /\ UNCHANGED <<inner, shown, call, attached, shell, excuse>>

\* A backend exits by itself: its port was taken, its database locked, it crashed.
Exits(b) ==
  /\ "exits" \in ShellFaults
  /\ proc[b] = "up"
  /\ proc' = [proc EXCEPT ![b] = "gone"]
  /\ UNCHANGED <<inner, shown, call, attached, shell, excuse>>

\* Closing the window shuts down three times (close, ExitRequested, Exit), quitting
\* twice; an end that skips ExitRequested once.
Quit ==
  /\ shell.state = "running"
  /\ \E n \in 1 .. 3 : shell' = [state |-> "quitting", left |-> n]
  /\ UNCHANGED <<proc, inner, shown, call, attached, excuse>>

ShutdownOnMain ==
  /\ shell.state = "quitting" /\ shell.left > 0
  /\ ~UnderWay(Main)
  /\ To(Main, "take")
  /\ shell' = [shell EXCEPT !.left = @ - 1]
  /\ excuse' = IF shell.left = 1 /\ Starting THEN excuse \cup {"exit"} ELSE excuse
  /\ UNCHANGED <<proc, inner, shown, attached>>

\* The process ends after its last shutdown; what a start in flight has taken or
\* spawned is left behind.
Exit ==
  /\ LastShutdownBegun /\ ~UnderWay(Main)
  /\ shell' = [state |-> "exited", left |-> 0]
  /\ call' = [c \in Threads |-> Rest]
  /\ UNCHANGED <<proc, inner, shown, attached, excuse>>

-----------------------------------------------------------------------------
Shutdown(c) == Take(c) \/ Kill(c) \/ Wait(c) \/ AwaitPort(c) \/ PublishStopped(c)
StartSteps(c) ==
  \/ PublishStarting(c) \/ Attach(c) \/ Spawn(c) \/ RecordChild(c) \/ Announce(c) \/ Check(c)
  \/ AskHealth(c) \/ PublishVerdict(c)

ShellNext ==
  \/ \E c \in Starters : Call(c) \/ StartSteps(c)
  \/ \E c \in Threads : Shutdown(c)
  \/ \E b \in Procs : Reaped(b) \/ Exits(b)
  \/ Quit \/ ShutdownOnMain \/ Exit

ShellSpec == ShellInit /\ [][ShellNext]_shellVars

-----------------------------------------------------------------------------
ShellTypeOK ==
  /\ proc \in [Procs -> {"unborn", "up", "dying", "gone"}]
  /\ inner \in [child : Procs \cup {None}, gen : Nat]
  /\ shown \in [phase : Phase, port : Procs \cup {None, External}, managed : BOOLEAN]
  /\ call \in [Threads -> [step : CallSteps, taken : Procs \cup {None},
                           port : Procs \cup {None, External}, mine : Procs \cup {None},
                           gen : Nat, polls : 0 .. MaxPolls]]
  /\ shell \in [state : {"running", "quitting", "exited"}, left : 0 .. 3]
  /\ excuse \subseteq {"overlap", "kill_error", "slow", "exit"}

\* "There is at most one FastAPI process belonging to this shell, and it dies when we do"
\* (sidecar.rs 3-4), whatever starts, restarts, shutdowns and crashes follow each other,
\* unless a start overtook another start or a shutdown, a process would not die in time
\* or could not be killed, or a start was in flight at the last shutdown.
OneBackend ==
  excuse = {} => Cardinality(Holding) <= IF shell.state = "exited" THEN 0 ELSE 1

\* start is "safe to call repeatedly ... a double-start cannot produce two backends"
\* (sidecar.rs 612-613): without the excuse of an overlap.
NoDoubleBackend ==
  excuse \subseteq {"overlap"} => Cardinality(Holding) <= 1
=============================================================================
