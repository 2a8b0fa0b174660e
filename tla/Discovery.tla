------------------------------ MODULE Discovery ------------------------------
(***************************************************************************)
(* Discovery: poll tasks take postings off the boards, collapse each onto  *)
(* the row it belongs to or insert one, score what they touched, commit,   *)
(* and hand the qualified ones to apply.prepare.  Several polls run in     *)
(* transactions of their own.  A board carries copies of openings: the     *)
(* same opening may be syndicated to two of them.                          *)
(***************************************************************************)
EXTENDS Naturals, FiniteSets

CONSTANTS
  Polls,     \* poll_provider tasks
  BoardOf,   \* the board each of them polls
  Openings,  \* jobs in the world
  Boards,
  MaxCrashes \* bound: polls that die

ASSUME DiscoveryAssumption ==
  /\ BoardOf \in [Polls -> Boards]
  /\ MaxCrashes \in Nat
  /\ {"none", "db"} \cap Polls = {}

VARIABLES
  oneWriter, \* the database admits one writing transaction at a time (SQLite)
  stored,    \* job_postings: who inserted the row of each copy: "none", a poll whose
             \* transaction is open, or "db" once committed
  posting,   \* its status
  polling,   \* each poll's progress
  reported,  \* copies of which a committed poll said `created` or `deduped`
  prepare,   \* apply.prepare messages
  applied,   \* postings with an application
  crashes

discVars == <<oneWriter, stored, posting, polling, reported, prepare, applied, crashes>>

Copies == [opening : Openings, board : Boards]
NoCopy == [opening |-> "none", board |-> "none"]
AtRest == [pc |-> "idle", at |-> NoCopy, seen |-> {}, touched |-> {}]

(* The three tiers of find_existing.  A copy's board and external id are its identity, and
   its dedupe_key is scoped to the board as well; across boards only the judgement of the
   fuzzy tier (same employer, similar title or shared apply link, inside the window) can
   tell that two copies are one opening. *)
Visible(p) == {c \in Copies : stored[c] \in {"db", p}}
SameOpening(c) == {d \in Copies : d.opening = c.opening}
FindExisting(p, c) ==
  IF c \in Visible(p) THEN {c} ELSE Visible(p) \cap SameOpening(c)

RESCORABLE_STATUSES == {"discovered", "scored", "skipped"}

DiscInit ==
  /\ oneWriter \in BOOLEAN
  /\ stored = [c \in Copies |-> "none"]
  /\ posting = [c \in Copies |-> "discovered"]
  /\ polling = [p \in Polls |-> AtRest]
  /\ reported = {}
  /\ prepare = {}
  /\ applied = {}
  /\ crashes = 0

Uncommitted(p) == \E c \in Copies : stored[c] = p

\* The provider yields a posting of its board this run has not seen.
NextRaw(p) ==
  /\ polling[p].pc \in {"idle", "poll"}
  /\ \E c \in Copies :
       /\ c.board = BoardOf[p] /\ c \notin polling[p].seen
       /\ polling' = [polling EXCEPT ![p].pc = "find", ![p].at = c, ![p].seen = @ \cup {c}]
  /\ UNCHANGED <<oneWriter, stored, posting, reported, prepare, applied, crashes>>

\* upsert, first half: an existing row is refreshed, else one must be inserted.
Find(p) ==
  /\ polling[p].pc = "find"
  /\ LET known == FindExisting(p, polling[p].at)
     IN  IF known = {}
         THEN polling' = [polling EXCEPT ![p].pc = "insert"]
         ELSE \E c \in known :
                polling' = [polling EXCEPT ![p].pc = "poll", ![p].touched = @ \cup {c}]
  /\ UNCHANGED <<oneWriter, stored, posting, reported, prepare, applied, crashes>>

\* Mutant of Insert: without the SAVEPOINT a lost race takes the whole transaction along.
InsertPoisoned(p) ==
  /\ polling[p].pc = "insert"
  /\ LET c == polling[p].at
     IN  /\ stored[c] \in {"none", "db"}
         /\ oneWriter => \A q \in Polls \ {p} : ~Uncommitted(q)
         /\ stored' = IF stored[c] = "db"
                   THEN [d \in Copies |-> IF stored[d] = p THEN "none" ELSE stored[d]]
                   ELSE [stored EXCEPT ![c] = p]
         /\ polling' = [polling EXCEPT ![p].pc = "poll", ![p].touched = @ \cup {c}]
  /\ UNCHANGED <<oneWriter, posting, reported, prepare, applied, crashes>>

\* Second half, inside a SAVEPOINT: the row is this transaction's; or somebody committed
\* the same identity meanwhile, the savepoint rolls back and the winner's row is taken.
\* While the other transaction is open the insert waits.
Insert(p) ==
  /\ polling[p].pc = "insert"
  /\ LET c == polling[p].at
     IN  /\ stored[c] \in {"none", "db"}
         /\ oneWriter => \A q \in Polls \ {p} : ~Uncommitted(q)
         /\ stored' = [stored EXCEPT ![c] = IF @ = "none" THEN p ELSE @]
         /\ polling' = [polling EXCEPT ![p].pc = "poll", ![p].touched = @ \cup {c}]
  /\ UNCHANGED <<oneWriter, posting, reported, prepare, applied, crashes>>

\* Two transactions that wait for each other: the server fails one insert, which _ingest
\* counts as skipped.
DeadlockVictim(p) ==
  /\ polling[p].pc = "insert"
  /\ \E q \in Polls \ {p} :
       /\ stored[polling[p].at] = q
       /\ polling[q].pc = "insert" /\ stored[polling[q].at] = p
  /\ polling' = [polling EXCEPT ![p].pc = "poll", ![p].seen = @ \ {polling[p].at}]
  /\ UNCHANGED <<oneWriter, stored, posting, reported, prepare, applied, crashes>>

\* The board is exhausted, the limit is reached or the provider failed: what was touched is
\* scored and routed, and the poll commits.
ScoreAndCommit(p) ==
  /\ polling[p].pc = "poll"
  /\ stored' = [c \in Copies |-> IF stored[c] = p THEN "db" ELSE stored[c]]
  /\ \E scores \in [polling[p].touched -> {"scored", "skipped"}] :
       posting' = [c \in Copies |->
         IF c \in polling[p].touched /\ posting[c] \in RESCORABLE_STATUSES
         THEN scores[c] ELSE posting[c]]
  /\ reported' = reported \cup polling[p].seen
  /\ polling' = [polling EXCEPT ![p] = [AtRest EXCEPT !.pc = "enqueue"]]
  /\ UNCHANGED <<oneWriter, prepare, applied, crashes>>

Qualified == {c \in Copies : stored[c] = "db" /\ posting[c] = "scored" /\ c \notin applied}

EnqueueQualified(p) ==
  /\ polling[p].pc = "enqueue"
  /\ prepare' = prepare \cup Qualified
  /\ polling' = [polling EXCEPT ![p] = AtRest]
  /\ UNCHANGED <<oneWriter, stored, posting, reported, applied, crashes>>

\* apply.prepare creates the application of the posting, or finds it.
PrepareApplication(c) ==
  /\ c \in prepare
  /\ prepare' = prepare \ {c}
  /\ applied' = applied \cup {c}
  /\ UNCHANGED <<oneWriter, stored, posting, polling, reported, crashes>>

\* expire_postings, for a posting nobody has an application for.
Expire(c) ==
  /\ stored[c] = "db" /\ c \notin applied /\ posting[c] # "expired"
  /\ posting' = [posting EXCEPT ![c] = "expired"]
  /\ UNCHANGED <<oneWriter, stored, polling, reported, prepare, applied, crashes>>

PollDies(p) ==
  /\ polling[p].pc \notin {"idle", "enqueue"} /\ crashes < MaxCrashes
  /\ crashes' = crashes + 1
  /\ stored' = [c \in Copies |-> IF stored[c] = p THEN "none" ELSE stored[c]]
  /\ polling' = [polling EXCEPT ![p] = AtRest]
  /\ UNCHANGED <<oneWriter, posting, reported, prepare, applied>>

PollStep(p) ==
  NextRaw(p) \/ Find(p) \/ Insert(p) \/ DeadlockVictim(p) \/ ScoreAndCommit(p)
  \/ EnqueueQualified(p)

DiscNext ==
  \/ \E p \in Polls : PollStep(p) \/ PollDies(p)
  \/ \E c \in Copies : PrepareApplication(c) \/ Expire(c)

DiscSpec == DiscInit /\ [][DiscNext]_discVars
-----------------------------------------------------------------------------
DiscTypeOK ==
  /\ oneWriter \in BOOLEAN
  /\ stored \in [Copies -> Polls \cup {"none", "db"}]
  /\ posting \in [Copies -> {"discovered", "scored", "skipped", "expired"}]
  /\ polling \in [Polls -> [pc : {"idle", "poll", "find", "insert", "enqueue"},
                         at : Copies \cup {NoCopy}, seen : SUBSET Copies,
                         touched : SUBSET Copies]]
  /\ reported \subseteq Copies /\ prepare \subseteq Copies /\ applied \subseteq Copies
  /\ crashes \in 0..MaxCrashes

\* "It rolls back, the outer transaction survives intact" (dedupe_service.py 30-36): what a
\* poll reports as created or deduplicated is in the database once the poll has committed,
\* however many races it lost on the way.
IngestedIsStored ==
  \A c \in reported : \E d \in SameOpening(c) : stored[d] = "db"

\* "Never apply twice ... the row a user applies to is the same row every provider, every
\* re-poll and every syndicated copy of that advertisement collapses onto" (5-8).
AppliedOncePerOpening ==
  \A c, d \in applied : c.opening = d.opening => c = d
=============================================================================
