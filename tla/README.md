# A TLA+ model of ApplicantOS

ApplicantOS finds job postings, prepares an application for each one worth it and,
when its owner allows it, submits the application through a browser. It is a FastAPI
process plus Celery workers (or an executor inside the API process) over one SQL
database, with a Tauri/React desktop shell in front. What cannot be undone in this
system is a submission: an employer who has received an application twice, or one
nobody asked for, or one with a résumé its owner has never seen, cannot be made not to
have. The model starts at the submission and works outwards to everything that feeds it.

Paths below are relative to `src/app/` unless they start with another directory of the
repository.

## The system and its parts

| Part | State it keeps | Operations | Who it talks to | What makes it correct |
|---|---|---|---|---|
| Application state machine (`services/application_service.py`, `models/enums.py`) | `applications.status`, `submitted_at` | `create_or_get`, `transition`, `claim`, `mark_needs_review`, `daily_count` | written by everyone below | a row moves along `ALLOWED_TRANSITIONS`; what the employer holds never becomes sendable again |
| Submission ladder (`services/pipeline.py` `submit`) | the row, the worker's copy of it | seven rungs, then claim, render, `provider.apply`, record | run sessions, settings, providers | sent at most once; a stop drains; caps are overrun by a bounded amount; no row is stranded |
| Preparation (`prepare`, `run_one`, `workers/apply_jobs.py`) | the row, the task queue | create, tailor, render, hand over | run loop, discovery, routes, broker | every send accounts for a row somebody made ready |
| Review queue, application routes (`services/review_service.py`, `api/routes`) | a copy of the row per request | resolve, dismiss, PATCH, retry, apply | state machine, queue | a person's decision does not undo a send |
| Run sessions (`services/session_service.py`) | `run_sessions` | start, stop, conclude, record, watchdog | ladder, run loop | an ended run says when and why; a stop is final |
| Run loop (`workers/run_loop.py`) | none of its own | one tick a minute: conclude, wait or dispatch | run sessions, queue | every run ends, for the right reason, within its caps |
| Inline executor (`workers/inline.py`) | bounded queue, daemon threads, shutdown latch | submit, drain, shut down | `tasks.dispatch` | an accepted job runs once; a refusal is reported |
| Checkpoints (`services/checkpoint_service.py`) | `checkpoints` by unique key | save, complete, fail, resume, purge | preparation, indexing | a lost race costs its loser nothing; a dead step is found |
| Event bus (`api/events.py`) | one bounded mailbox per subscriber | publish, drain, disconnect | every service | losses are counted; no wakeup is lost |
| Tiered cache (`cache/`) | two tiers, per-key locks | `get_or_set`, `delete` | AI, providers | one computation per miss; no stale value |
| Artifacts (`workers/cleanup.py`) | catalogue rows, stored bytes, archives | `prune_artifacts` | storage | nothing disappears unarchived or early |
| Status sync (`tracking/`, `workers/sync_status.py`) | signals, cursors | poll, record, move, resolve, ghost | state machine | an employer's answer reaches somebody |
| Language model client (`ai/llm.py`) | response cache, daily token budget | `complete_json` | cache, provider | the budget is overdrawn by a bounded amount |
| Discovery and deduplication (`services/discovery_service.py`, `dedupe_service.py`) | postings | poll, find, insert, score, route | providers, queue | what is reported is stored; one posting per opening |
| Job providers (`jobs/`) | cached pages, the Workday site memo | `search` | cache | the budget is shared; a cold start advances |
| Knowledge (`knowledge/`) | sources, documents, facts, vectors | index, edit, remove, backlog | embeddings | rows and vectors agree; a person's word is last |
| Embeddings (`ai/embeddings.py`) | the vector cache | `embed_texts` | cache, provider | each text gets its own vector |
| Tailoring (`ai/resume_engine.py`, `cover_letter.py`) | two caches of results | tailor, write a letter | model, knowledge | nothing is invented |
| Documents (`services/pipeline.py`, `documents/`) | the render directory, version rows | render, choose, hand over, sweep | ladder | the row names what was sent |
| Browser automation, field answers (`browser/`) | one attempt at one form | open, plan, fill, attach, click, verify | providers, model | only sure answers are sent |
| Desktop shell (`src/desktop/src-tauri/src/sidecar.rs`) | the backend process, a generation counter | start, restart, shut down | API | at most one backend |
| Everything else | - | onboarding, analytics, plugins, migrations, screens | - | form data, read-only aggregates or I/O |

The hard behaviours come from a few causes.

- *Copies.* Workers, routes, ticks and sweeps share rows, but each holds an instance it
  loaded: sessions use `expire_on_commit=False` and an identity map, so nothing another
  one commits reaches it. `transition` decides from that instance and writes the row
  without looking at it again; only `claim` is conditional on the row. Every `await`
  between a load and a write is an interleaving point.
- *Faults.* A broker may deliver a message twice (`acks_late`), a worker may die, a task
  may be cancelled at any `await`, a poll may break off between two commits.
- *Two stores.* Vectors, rendered files, stored bytes, cache files and archives are not
  part of the database transaction that refers to them.
- *Threads beside coroutines*: the inline executor, the bus, the desktop shell.
- *Things that outlive what they were computed from*: caches, memos, documents named
  after nothing but their kind.

## Modules

| Module | Models |
|---|---|
| `ApplicationStates` | the status sets and `ALLOWED_TRANSITIONS` |
| `Lifecycle` | abstract specification: what the state machine promises about one application |
| `Outbox` | abstract specification: what `ApplicationService.claim` promises to racing workers |
| `RunLife` | abstract specification: the life of a run, whoever writes its row |
| `Submission` | the ladder: `Pipeline.submit` run by several workers, one action per rung |
| `Pipeline` | composes `Submission` with creation, preparation, the queue and the requests |
| `RunSession` | the run row and its writers |
| `RunLoop` | a tick, the tasks it hands out, the stop and the watchdog |
| `InlineExecutor`, `Checkpoints`, `EventBus`, `TieredCache` | the infrastructure the services share |
| `Artifacts`, `StatusSync`, `Discovery`, `Knowledge` | the services around the pipeline |
| `LanguageModel`, `Embeddings`, `Tailoring` | what is asked of models, and what is believed |
| `BoardSearch`, `WorkdaySites` | searches over employer boards |
| `Ranking` | what a loop that skips some elements of a list leaves of it |
| `Documents`, `FormFilling` | the files of an application, and one attempt at a form |
| `Sidecar` | the desktop shell's backend process |
| `MCSubmission`, `MCPipeline`, `MCDiscovery`, `MCDocuments` | instances of one module for TLC |
| `MCServices`, `MCLive` | instances of many modules, side by side |
| `SubmissionProofs` | theorems about `Submission`, `RunSession`, `RunLoop` |
| `PipelineProofs` | theorems about `Pipeline` |
| `InfrastructureProofs` | theorems about `InlineExecutor`, `Checkpoints`, `EventBus`, `TieredCache` |
| `ServiceProofs` | theorems about `Artifacts`, `StatusSync`, `LanguageModel`, `Discovery`, `BoardSearch` |
| `DocumentProofs`, `ShellProofs` | theorems about `FormFilling`, `Documents`, `Tailoring` and `Embeddings`; `WorkdaySites`, `Sidecar` and `Knowledge` |
| `PartsProofs` | the types of all components, side by side as in `MCServices` |
| `LeastElement` | lemmas on sets of numbers, counting and subsequences, for the proofs |

**Submission.** `task[w]` is what a worker is doing: the step names the next rung, `copy`
is its instance of the row, `reported` the provider's answer. `status` is the committed
row, `stamped` the rows whose `submitted_at` falls on the present day, `run` the owning run
as the ladder reads it, `completed` the counter `applications_completed`. `sends` is what
the employer has seen; the code has no such variable, the properties are about it. `Blind`
is `transition`: its guard reads the copy, its write does not read the row. `Claim` is the
conditional UPDATE. `Click` and `Report` are the halves of `provider.apply`: an answer of
submitted or confirmed only follows a click, but a click may be followed by any answer.
`Record`, then `Count`, are two transactions. `Cancel` is the handler around the attempt,
`CancelLate` the awaits it does not cover, `Killed` the death of a worker with a message
that is delivered again or forgotten (a body `retryable` starts over looks the same).

**Pipeline** puts in front of it who asks (`ApplyRequest`, `RetryRequest`,
`RunLoopDispatch`, `DiscoveryDispatch`), the queue with redelivery (`Take`), `prepare`
(`Create`, `BeginPreparing`, `Generate`, `Handover`) and behind it the requests of people,
each with its copy (`OpenRequest`, `CloseRequest`). `asks`, `readied` and `redelivered` are
history counters.

**RunSession.** `row` is the table, `actor` each writer with the instance it loaded,
`quiet` the running rows the watchdog's cutoff would select. `Flushed` is the unit of
work: it writes the attributes whose value differs from the loaded one, and no others,
which is what decides what a stale writer destroys.

**RunLoop.** One tick is one step (which writer overwrites which is `RunSession`'s
subject): it concludes, waits or dispatches in the order of the code, with the allowance
arithmetic of both caps. `prep` and `subm` are the messages on the queue, which may be
lost; `Work` executes them with the ladder's own check of the caps; `others` is what the
user's other work has sent today.

**InlineExecutor.** Pool objects are values, because a caller can hold one the module has
let go of. Each action lies between two points where another thread can be scheduled:
latch, lock, `start`, queue on the submitting side; flag, poll, run on the draining side;
six steps of `shutdown_executor`.

**Checkpoints.** `point` is the committed row of each key, `driver` each unit of work with
its identity-map copy, `outer` what becomes of the other work of its transaction. `save`
is the look-up, the SAVEPOINT with the INSERT that may lose, the second look-up and the
re-driving of the row found. A row purged in between loses the caller's transaction: the
second look-up finds nothing and `save` raises (`ReloadPoint`), or the UPDATE meets no row
(`RedrivePoint`); so does a death. `mishap` says which of them it was. Completion, failure
and cancellation may themselves fail to be recorded (`EndUnrecorded`); then compensation,
expiry and purge.

**EventBus.** `sequence` numbers the frames, `mailbox` is the subscription, `wakeup` the
`asyncio.Event` and the request a thread makes of the loop. Code on the loop is
interrupted only where it awaits (`holder`), a thread between any two statements.

**TieredCache.** One key: `front` with its deadline, `file` with value and sidecar as two
files, and the reference-counted entry of the lock pool. Every file operation is a step.
`paid` counts the runs of the factory.

**Artifacts.** `sweep` is `prune_artifacts`: selection, export, release of the bytes and
the commit are steps that can fail one by one; `bytes` and `archive` are not undone.

**StatusSync.** `poll` is a mailbox poll with its cursor; `signal` and `target` are
committed separately, as in the code. A person resolves, dismisses or records an outcome;
the ghosting sweep writes the status it selected the row with.

**LanguageModel.** `asker` is a `complete_json` call: cache, budget check with the
estimate, call with retries, recording of what the provider bills, the JSON repair round.
The estimate is characters over four and bounds no bill: `Costs` is independent of it. What
counts as readable and as transient is `parse_json_payload` and `classify_error` by what
they decide.

**Discovery.** `stored` says which transaction inserted a posting's row; `FindExisting` is
the three tiers of `find_existing` over what is visible; a losing insert rolls back its
SAVEPOINT, a deadlock victim its transaction. Scoring is a choice of the routing outcome.

**Knowledge.** `pass` is an index pass with all it loaded, `chunkVecs` and `factVecs` the
vector store, written at once while rows wait for the commit; `removal` and `backlog` are
the two other writers. Each source has one document and one claim, so that two sources
can make the same claim. A removal is three steps, as in the code: it reads the ids of chunks
and facts without a lock (`RemoveRead`), commits the deletion (`RemoveCommit`), and drops the
vectors by the ids it had read (`RemoveVectors`). A pass reads the ids it will replace just as
early, and takes the write lock with its first write, which may be as late as its commit.
`orphans` is a history variable: the chunks whose vectors such a reader misses.

**FormFilling.** `attempt` is `_drive` and its filler stage by stage: blockers, plans by
source and confidence, filling, documents, the gate, the click, verification. The model is
asked for free text, numbers and choices alike (`FreeText`), and may or may not be sure. The
page belongs to somebody else and changes by itself.

**Sidecar.** `proc` is each backend process as the operating system sees it, `inner` the
locked state (child, generation), `shown` the published status, `call` each start or
shutdown under way. `excuse` is a history variable: what has happened that the code does
not claim to survive.

**Documents.** `folder` is the render directory by file name, `versions`/`letters` the
generated documents, `paper` the row, `uploads` the master résumés. `posted` is what the
employer was sent, `torn` whether an attempt failed or was cut off after
rendering and left its files. An upload whose bytes are gone is passed over for the
generated documents (`UsesGenerated`).

**Tailoring.** `known` gives each fact's revision and whether it lives, `session` the
tailoring under way, `delivered` the résumé last returned with what was retrieved for that
request, `letter` the numbers stated in the letter to it. What `Validate` and the budget keep
of a reply is a `Subsequence` of it, at positions a set describes; `Fallback` takes the facts
in whatever order the retrieval may have ranked them. A bullet's text is only "faithful" or
"refused". Of numbers the module keeps where they come from: each revision of a fact has one
in its text and one in its details (skills, role, organisation, dates), the posting has one,
and one stands nowhere. The summary is measured against the facts used *before* the budget
drops bullets, and the skills line drawn from them, so a résumé may print a number of a fact
it does not show; a letter may state any number the résumé prints, or the posting
(`Supported`). A cache entry holds the résumé and its key, the ids of the facts retrieved: a
hit is returned with what *this* request retrieved, whose wording may be newer. There is one
posting, and each fact is an entry of its own; a fact of a work kind goes under the heading
the reply names (`Movable`).

**BoardSearch.** `search` is the position in pass, board and page, `pages` the cached
pages, any of which may have run out when it is read next; `met` and `lost` are ghosts.
A posting is its board and its job; the code knows it by its external id alone, so the module
assumes that no two boards share one.
Greenhouse and Ashby are one document per board, Lever is paged.

**WorkdaySites.** `sites` is the memo of the process, `durable` the same in the shared
cache, `hunt` the search. The world's tenants come, leave and go down.

**Embeddings.** `embedding` is each `embed_texts` call: blanks set aside, duplicates
collapsed, cache, batches, answers in any order put back by index. `settings` are frozen
for a process (`lru_cache`); `vectorCache` is on disk and outlives it.

**MCServices and MCLive** check many components in one run. The variable `part`, chosen in
the initial state, says which component a behaviour is one of; the others stand still in
one of their initial states. The state space is the sum of the components', not their
product, and nothing is claimed about their interaction: the components that do interact
through shared rows are composed in `Pipeline`. The names `BusFairSpec`, `SyncFairSpec`
and so on state each component's fairness on its own; `MCLive` repeats it per part.

## Runs

| Run | Instance | Shows |
|---|---|---|
| `submission_race` | 3 applications, 2 workers, caps 1, all faults | `NeverTwice`, `ImplementsOutbox` (refinement of `Outbox`), `CompletedIsSent`, `CapOverrunBounded`, `StopDrains` |
| `pipeline_solo` | 2 applications, 1 worker, 2 asks each, all faults, no redelivery | `ImplementsLifecycle` (refinement of `Lifecycle`), `NeverUnasked` |
| `pipeline_crowd` | 1 application, 2 workers, 1 desk, 2 asks, 1 redelivery | `EverySendWasReadied` |
| `services` | 19 parts | the invariants and action properties below |
| `live` | 7 parts, fair | the liveness properties below |

`services`, by part:

| Part | Properties |
|---|---|
| rehearsal (`Submission` under `dry_run`) | `RehearsalConsumesNothing` |
| run | `EndIsExplained`, `ImplementsRunLife` (refinement of `RunLife`) |
| loop | `RunWithinCaps`, `EmptyMeansDealtWith` |
| executor | `JobsAreConserved`: accepted is waiting, running or run, once |
| checkpoint | `CollisionIsIsolated`, `RunningMeansDrivenOrCrashed` |
| bus | `LossesAreCounted` |
| cache | `PaidOnce` |
| artifact | `NothingVanishes` |
| mail | `AnswersReachSomebody` |
| model | `OverdraftIsBounded`: by one bill for each caller, less an estimate |
| discovery | `IngestedIsStored` |
| knowledge | `VectorsFollowRows`, `PersonHasTheLastWord` |
| form | `OnlySureAnswersAreSent` |
| shell | `OneBackend` |
| document | `ResumeSentIsRecorded` |
| tailor | `NothingIsInvented` |
| boards | `BoardsShareTheBudget` |
| workday | `ColdStartAdvances` |
| embed | `EachTextItsVector` |

`ServicesTypeOK` is the conjunction of the modules' type invariants.

`live`: `SubmittingSettles` (no row stays `submitting`), `EveryRunEnds`,
`AcceptedIsExecuted`, `FramesMoveOn`, `EveryLookupReturns`, `EveryMessageIsRead`,
`ContentArrives`.

Seven runs check a sentence of the documentation, a docstring or a comment, and TLC finds
a behaviour of the code that contradicts it:

| Run | Claim | What happens |
|---|---|---|
| `submission_lost` | an already-sent application never walks back | the losing worker's render error writes `failed` over `confirmed` |
| `pipeline_twins` | never apply twice | two concurrent prepares: the second `preparing` reopens the row |
| `artifacts_proof` | the proof of a confirmed application outlives every window | an earlier attempt's screenshot has the same storage key, and pruning its row deletes the object |
| `opening_twice` | a syndicated copy collapses onto one row | two polls in flight each insert their own copy |
| `two_backends` | a double start cannot produce two backends | the second start finds no child while the first has not recorded its own |
| `resume_misattributed` | `resume_version_id` names what was sent | an upload named like a generated résumé replaces it in the render directory |
| `form_rejected` | only a marker that was not there before is a rejection | the verifier reads the markers without that baseline; a received form is reported failed, which may be retried |

### Bounds, and why they are enough

The races are between two holders of one row, or a reader of a counter and its writer, so
two workers, actors, drivers or polls exhibit them; the cache has three lookups because one
must hold the lock, one wait for it and one arrive when it is released. Limits are 1 or 2
so that they bind after one or two steps. History counters (`MaxAsks`, `MaxQueue`,
`MaxRedelivered`, `MaxEdits`, `MaxMishaps`, `MaxFails`, `MaxCrashes`, `MaxUnits`,
`MaxAttempt`, `MaxFrames`, `MaxRows`, `MaxChunks`, `LastDay`, `MaxClock`, `MaxDays`,
`MaxSpawns`, `MaxVersions`, `MaxDeliveries`, `MaxChanges`, `MaxBoardChanges`,
`MaxSearches`, `MaxTurns`, `MaxRestarts`) are bounds of the model in the guards; the others
(`Capacity`, `QueueSize`, `DailyCap`, `PageSize`, `BatchSize`, ...) are settings of the
program, given small values.

Some choices of `MCServices.cfg` matter for what is shown:

- *submission_race*: the third application exists so that the daily cap counts one the run
  does not own.
- *bus*: all publishers run on the loop. With publishers on threads `LossesAreCounted`
  fails (two unlocked operations on the counter and the deque); `live` has threads.
- *knowledge*: `MaxMishaps` is 0, since `VectorsFollowRows` excludes mishaps: a pass that
  fails after writing vectors leaves them without rows until the next one. One index task and
  a removal suffice for one to commit between the other's look and its deletion. `live`
  allows one mishap.
- *model*: bills of 1 and 3 around an estimate of 2, a budget of 4, two callers: an estimate
  that is too low overdraws the budget even alone.
- *form*: one field of any shape, the other an essay or a file, so that an attempt always
  has something a person may have to do.
- *shell*: one caller of `start`, two processes, kills refused, slow deaths and crashes.
  With two callers the first backend is orphaned, which is `two_backends`.
- *document*: two versions and one upload whose name no generated file has; with a
  colliding name the property fails, which is `resume_misattributed`.
- *tailor*: two facts in two sections, one of them movable, so that they may also share one;
  a budget of one bullet, replies of up to two, two résumés delivered and one fact changed in
  between. A cached result is met by the second, a reply can repeat, invent and overflow, and
  a summary can state the number of a fact whose bullet the budget then drops. What a summary
  or a letter states is a set of `Citations`.
- *boards*: two boards and three postings, two of them wanted; budgets 2 (one each) and 4
  (left over), pages of 1, two attempts, one change of a feed.
- *workday*: three tenants, one resolution per search, three searches: the third tenant is
  reached only by the third search.
- *embed*: two calls, lists with a duplicate and with a blank, batches of 2, one restart
  into any of four configurations that differ in provider, model, credential and caching.

The deadlock check is on in `submission_race` and `submission_lost`; elsewhere bounds on
histories run out and the instances do stop.

*Symmetry* is used for workers, in `submission_race` and `pipeline_crowd` only.

### Fairness

- Ladder, lookups, mail polls, index passes: weak fairness per coroutine. One that has
  begun is scheduled by its event loop and its awaits return or raise: browser, model, SDKs
  and HTTP clients have time-outs, Celery tasks limits of 45 and 50 minutes. Inline tasks
  have no task limit, only the time-outs of what they await.
- `RunLoop`: the beat schedules a tick every minute and the watchdog every five, with
  fifteen minutes of staleness; a worker takes what is on the queue. Messages may be lost
  all the same: `EveryRunEnds` then rests on the watchdog.
- `InlineExecutor`, `EventBus`: the threads and the loop are scheduled. A job queued when
  the process shuts down need not run (`AcceptedIsExecuted` allows it).
- `Knowledge`: the memoized fingerprint expires and the refresh sweep, again and again
  possible, is taken again and again (strong fairness: it runs on a timer, and passes in
  between may disable it).
- Nothing is assumed of people, of new messages or of faults. `SubmittingSettles` is
  checked without kills and without cancellation after the provider's answer: with either
  a row does stay `submitting`, and no sweep repairs it.

## Proofs

The theorems hold for every value of the constants their modules' named assumptions admit:
any number of applications, workers, postings, polls, callers, any caps, capacities and
bounds, any set of faults. The assumptions say what the code's types say (a cap is a number,
a worker is not a desk, `"none"` is no event loop); TLC evaluates them in the runs. The
type invariants of all components are theorems (`TypeCorrect`, `RunTypes`, ...; `JourneyTypes`
of the pipeline); the other properties proved are these.

| Theorem | States | Under |
|---|---|---|
| `SentAtMostOnce`, `ClaimsAreExclusive` | `NeverTwice`, and `ClaimInv`, which it rests on | |
| `LadderIsAnOutbox` | `ImplementsOutbox` | |
| `OneTicketOneSend` | `NeverTwice`, of anything that refines `Outbox` | |
| `SentIsForGood` | `SentStaysSent` | one worker, or rendering never fails |
| `StopIsHonoured` | `StopDrains` | |
| `RehearsalIsHarmless` | `RehearsalConsumesNothing` | |
| `CreditsFollowSends` | `CompletedIsSent` | |
| `DailyCapHolds` | `CapOverrunBounded` | |
| `SendsAreReadied` | `EverySendWasReadied` | |
| `NothingIsSentUnasked` | `NeverUnasked` | no message is delivered twice |
| `OneAskOneSend` | `NeverTwice`, of the pipeline | no message is delivered twice, no application is asked for twice |
| `PipelineImplementsLifecycle` | `ImplementsLifecycle` | one worker, no desk |
| `PointOfNoReturnHolds` | the promises of `Lifecycle`, of the pipeline | one worker, no desk |
| `EndsAreExplained`, `HaltsAreForGood` | `EndIsExplained`, `HaltIsForGood` | |
| `RunsHaveOneLife` | `ImplementsRunLife` | |
| `LoopHasOneLife` | `LoopImplementsRunLife` | |
| `CapsHold`, `EmptyIsDealtWith` | `RunWithinCaps`, `EmptyMeansDealtWith` | |
| `JobsConserved` | `JobsAreConserved` | |
| `CollisionsAreIsolated`, `RunningIsAccounted` | `CollisionIsIsolated`, `RunningMeansDrivenOrCrashed` | |
| `LossesCounted` | `LossesAreCounted` | publishers on the loop |
| `PaidOnceHolds` | `PaidOnce` | |
| `SweepIsSafe` | `NothingVanishes` | |
| `AnswersAreSeen` | `AnswersReachSomebody` | |
| `OverdraftHolds` | `OverdraftIsBounded` | |
| `ReportedIsStored` | `IngestedIsStored` | |
| `TurnsApplyOnce` | `AppliedOncePerOpening` | no two polls in flight together |
| `AnswersAreSure` | `OnlySureAnswersAreSent` | |
| `CleanFormFailsUnsent` | `FailedMeansUnsent` | the form shows no error marker before the attempt |
| `SentResumeIsNamed` | `ResumeSentIsRecorded` | no upload collides with a generated file, or with another in name and size |
| `NothingInvented` | `NothingIsInvented` | |
| `VectorsBelong` | `EachTextItsVector` | |
| `BudgetIsShared` | `BoardsShareTheBudget` | |
| `SearchesAdvance` | `ColdStartAdvances` | |
| `OneBackendHolds` | `OneBackend` | |
| `LastWordHolds`, `VectorsAgree` | `PersonHasTheLastWord`, `VectorsFollowRows` | |
| `EveryPartTyped` | `ServicesTypeOK`, of all components side by side | |

The hypotheses in the last column are not conveniences; without them the statement is false
of the code, and a run or a note below shows how: a redelivered message sends again
(`Pipeline`), two workers leave the state machine (`pipeline_twins`), publishers on threads
drop frames uncounted (`EventBus`), an upload called `resume.pdf` replaces the generated one
(`resume_misattributed`). Three theorems say how much of a claim that a run violates is true:
`SentIsForGood` of `submission_lost`, `TurnsApplyOnce` of `opening_twice`,
`CleanFormFailsUnsent` of `form_rejected`. Each hypothesis excludes what the counterexample
uses, so every way to break the claim goes through it.

### The inductive invariants, and why they are needed

*Ladder.* `NeverTwice` is not inductive: a step may send a form only if nothing was sent
before, which the number of sends does not say of a worker that holds a claim. `ClaimInv`
says it: a ready row has never been sent and nobody holds a claim on it; a claim has one
holder; what is claimed and not yet clicked has not been sent. `Claim` is the only step
that creates a holder, and takes `ready` away in the same step; no step of the ladder
writes `ready` (`BlindNeverReady`); every other step keeps or shrinks the set of holders
(`QuietKeepsClaims`). `CompletedIsSent` needs `CreditsBacked`: the counter plus the workers
that *owe* a credit (their form went out, their second transaction is still to come) stays
below the number of rows the employer has; `ClaimInv` makes a click a new such row.
`CapOverrunBounded` needs `OverrunInv`: while any worker is past the daily check, the rows
stamped and the workers that may still stamp one stay below the cap plus the workers, since
the last to pass the check saw the day below its cap. `StopDrains` is about one step, and
rests on `Climbs`: a rung leads to the next and keeps application and origin.
`LadderIsAnOutbox` needs the types only: the open tickets are the ready rows, the tickets held
are the claims not yet clicked, and `NothingRisked`, the property of every other step, is that
tickets lapse. `OneTicketOneSend` proves the other half of the argument, in the terms of
`Outbox` alone. `SentIsForGood` needs to know what stale copies are good for (`CopiesAreFresh`):
past its claim a task is the only one there, and its row is still `submitting`; before it, the
row a task may yet park was never sent, because either nobody overtakes it or its posting is
one nobody can send. The copy of a task that renders is the exception, and `_fail` writes from
it; `NoStrayWrite` excludes exactly that.

*Pipeline.* `EverySendWasReadied` is inductive by itself, with one lemma for the steps that
create holders and one for those that do not. `NeverUnasked` follows from `AskedFor`, a
conservation law: sends, messages waiting, tasks in hand and open desks of an application
never outnumber what was asked for it and what was redelivered; every handler passes one
unit on or drops it, none doubles it. The refinement maps `status` to itself and `Open` to
"some worker holds a claim". With one worker `CopyIsRow` holds: from rung to rung the copy in
memory is the row, so `Blind`, which decides from the copy, takes an edge of the table. That
is exactly what fails with two workers. `OneAskOneSend` combines the conservation law with one
ask per application. `PointOfNoReturnHolds` is proved of `Lifecycle` and
carried over.

*Runs.* What an ended run says depends on copies loaded long ago. `RunInv` relates each
writer's copy to the row (`Follows`): end, reason and request, once in the copy, are in the
row, and a row that had a reason was not reaped for want of one. `HaltIsForGood` follows
step by step. `RunsHaveOneLife` maps the row to a phase (`PhaseOf`) and to whether it says
why; beside `RunInv` it needs that what is read, asked to halt or ended was started
(`BornInv`), so that a writer with a stale copy repeats a step of `RunLife` at most where the
phase is already past it, and then stutters. It is stronger than `HaltIsForGood`: a run also
never reopens, and no end comes without its reason in the same step. `LoopHasOneLife` proves
the same of `RunLoop`, whose types do not say that a run that is stopping has a reason
(`LoopExplained` does); no run checks it beside the proof. `CapsInv` adds to the caps that a submission under way was let in below both.

*Executor.* `PlaceInv`: an accepted job is in one queue, on one thread, or has run once;
any other job is nowhere. Removing the head of a queue needs that no job is in it twice.
*Checkpoints*: a running row has a driver in its body or is among those left without a record
of their end; `DriverFits`: work is lost by a driver that is asleep and to whom a purge or a
death happened, and a driver about to be refused was purged.
*Event bus*: `LoopInv` says who has the loop, `CountInv` what each moment of a call has
accounted for, `OrderInv` that wire, batch and queue are in publication order. Its types need
`DropsAreNumbered`: frames lost and frames a call is about to offer together never outnumber
the frames published, which bounds a counter that nothing in the code bounds.
*Cache*: `LockInv`: all that are inside share the lock of the entry, the entry counts them
(so it is not dropped under them), one of them at a time goes on; `PaidInv`: until something
expires, nothing is on disk before the one value, and the second look finds it. Its types need
that locks have owners (`LocksHaveOwners`), so that some number is free when a lock is wanted,
and that each lookup is counted in once and computes once (`OncePerLookup`).

*Services.* `SweepInv`: the selection stays as selected, because no request touches a retired
row. `AirInv`: what was used and the largest bill of each call in the air stay, an estimate
apart, below the budget and one such bill for every caller. `HandInv` and `CoverInv`:
what a poll has noted is in hand, in its own transaction, or committed. `AnswersReachSomebody`
needs only what the polls hold on to (`SyncShape`). `ListedOnce`, under `InTurn`: an opening has
one row, the rows not yet committed are those of the poll under way, and it inserts only where
the whole table has none.

*Forms and documents.* `FormInv` has one conjunct for each thing that must be sure by some
stage and stays so. `MarkerInv`: on a form that starts without error markers, each marker is the
page's answer to a click that was not received. `DocInv` follows one file through its names: a version's file is missing
or is that version (`Faithful`), between attempts and for the copy a task holds.

*Shell.* `OneInv`, as long as nothing excused happened: one start at a time is between taking
the child and recording its own (`LanesInv`); what runs is recorded, being disposed of, or
about to be recorded (`HeldInv`); nothing starts once the last shutdown has begun (`EndInv`).

*Knowledge.* `WriterInv`: at most one pass has written and not committed. `WordInv`: what it
is about to commit of a claim is the fact as it stands. `VectorInv` speaks of the *effective*
document of a source, the one its pass is about to commit, and says that no chunk has two
owners, new chunks are new, and the vectors not about to go are those of embedded chunks and
of orphans. `ChunkInv` says of the ids a pass or a removal has read that they are its source's
or nobody's: so a deletion by stale ids misses vectors, but never takes one that is in use. The
backlog numbers the rows it selects in one go, for which an injection is constructed.

*Board search.* Whether a board got its share is decided when it is left, of what was known
when it was read. `RoomInv`: a search that goes on has room in the budget and under the cap.
`ShareInv`: in the first pass the counter of a board is the number of its postings yielded,
and each wanted posting read of it is one of them, until it is left; a board left that did not
fail has its share or all that was read of it (`ShareGiven`). `ReadInv`: while no board fails and none
changes, a cached page is what the board lists, and in the second pass all of the pages behind
the search was yielded, for there a page is only left with room to spare.

*Embeddings.* `EmbedInv`: what the cache holds under a key is that key's vector; the words of a
call are those found and those missing, each missing once; the vectors so far are those of the
first missing words. An answer in any order is a bijection between positions, which put back by
index is the identity (`ReadInOrder`, from `IncreasingIsIdentity`).

*Tailoring.* `TailorInv`: for the résumé delivered there is a basis it is `Genuine` for (every
bullet, summary and detail comes from it, each fact once and within the budget), and which is
what was retrieved or, of a cached one, no later than that (`CvInv`); each cached résumé is
genuine for facts among its key, none read ahead of what is known now (`EntryInv`); each letter,
cached or new, states numbers of the résumé it goes with or of the posting. `AssembledIs`,
`SummarySourced` and `FallbackIs` say so of the ways in which a résumé comes about, whatever
the model replies. That a hit is not *current* is no accident of the proof: the key holds ids.
`TailorBounds` bounds the revisions: `Changes` counts the changes made so far, and a fact has
at most that many.

### What an attempted proof showed

- `Documents`: that a version's file is the version could not be proved of attempts that
  fail after rendering, because it is false: the file stays, the version is rolled back.
  `RenderFails` now leaves such a file, `torn` marks it, and `VersionIsWhatWasSent` states
  the promise of `models/application.py:281` without the exception; TLC violates it with
  `MaxVersions = 3`, no upload and `DocFaults = {"error"}`: prepared once, failed in the
  letter once, refused once, resolved from review, and sent with the second attempt's file.
- `LanguageModel`, `RunSession` and `Pipeline`: definitions were put into forms a prover can
  expand (one helper per attribute, no CASE in a primed record), with the same behaviours.
- The types of `Knowledge` were too weak for any step to preserve; they now cover the pass,
  the removal and the backlog in full.
- `BoardSearch`, `Embeddings` and `Tailoring` filtered, sorted and folded sequences, and what
  such operators compute is an induction over data. `Ranking` names the result instead: the
  n-th position kept is the one below which n - 1 others lie. The budget's loop has the closed
  form `Doomed`: of the bullets that are not the last of their section, those with fewer weaker
  ones than there are bullets in excess. TLC found both forms of
  `Validate` and of `Doomed` equal on all small inputs.
- "Budget left over means every board is exhausted" cannot be proved of a board with more pages
  than `MAX_PAGES_PER_COMPANY`, because it is false: the search stops at its last page allowed.
  `BoardsShareTheBudget` now speaks of the pages up to it.

### What is not proved

- *Liveness* stays with TLC: `live`.
- *Induction over data* is out of the prover's reach, whose library has induction rules with an
  operator as parameter. `LeastElement` gets around it for sets of numbers: a least
  counterexample exists because intervals are well-founded under inclusion.
- The seven claims that runs violate are false as they stand; of three of them the part that
  is true is proved (above). `MissIsForgotten`, `VersionIsWhatWasSent` and the like, below, are
  definitions for a reader to check, and nothing is proved of them either.

`EveryPartTyped` is about the composition TLC runs: each of its behaviours is one of every
component, by stuttering (`EachPartBehaves`), so the other theorems hold of it as well.

## Mutants

Next to some definitions stands one marked "Mutant of", the same definition with a
plausible mistake: the claim that does not look at the row, the off-by-one cap, the
cancellation that hands the claim back. No specification uses them; substituting one makes
the property it is listed for in `PROJECT.json` fail.

## Seen while modelling, without a run of their own

The models are written from the code, so they also show where the code is weaker than a
comment says, or where a property needs an exception. Each of these is reachable in the
module named; the definitions in parentheses can be checked on it.

- `Submission`: a cancellation inside `_finalize`, after the provider's answer, leaves
  the row `submitting`. A form sent but reported unverified is never counted
  (`services/application_service.py:792`).
- `Pipeline`: with redelivered messages, escalated and failed rows are prepared and sent
  again although nobody asked once more.
- `RunSession`: a late stop relabels a run that a cap had ended, since `request_stop` looks
  at `stop_requested_at` only; a tick that loaded the row before the user's stop closes it
  with its own reason.
- `RunLoop`: which cap is named when both bind is a comparison of remainders, and can name
  the one that did not (`workers/run_loop.py:249-253`). A rehearsed application stays
  `ready`, so a dry run never concludes by itself.
- `InlineExecutor`: a submission that passed the latch can restart a pool after the
  shutdown (`workers/inline.py:395-396` says it stays down).
- `Checkpoints`: two recoveries may drive one step (`OneDriver`; `checkpoint_service.py:8-9`).
  A purge between a worker's sight of a row and its claim costs it the whole transaction, which
  the SAVEPOINT is there to save; a step whose failure cannot be recorded stays running.
- `EventBus`: with publishers on threads the freshest frame may be the one dropped
  (`api/events.py:17-20`) and the count of losses drifts.
- `TieredCache`: an entry that expires between the read of its value and of its deadline is
  promoted for a whole front window (`cache/base.py:774-778` says never). A coroutine
  cancelled at the wrong point leaves its lock entry behind; several loops in one process
  break single flight.
- `Artifacts`: bytes are released before the rows commit; an application may become
  confirmed between selection and release.
- `StatusSync`: Gmail and Outlook cursors advance past messages the limit cut off
  (`EveryMessageIsRead` fails for `"delta"`; `live` has `"imap"`). A PATCH leaves
  `status_source` as the last mail set it, so a later mail overwrites an outcome recorded
  by hand.
- `LanguageModel`: a reply nobody can parse stays cached for its whole lifetime. The estimate
  is no bound of the bill, so one call can overdraw the budget by more than it was asked for.
- `Discovery`: a posting that expired and is listed again stays expired.
- `Knowledge`: facts that a pass commits while their source is being removed stay active
  (`knowledge/indexer.py:656-659` says they are marked inactive), and the vectors of chunks
  committed then stay without rows, as those of a second pass over the same source do;
  removing a source and adding it again leaves its facts retired; a fact two
  sources share is retired with one of them; an edit of the source row during a pass is
  overwritten by `_finalize`; memories learned while there was no provider
  (`knowledge/memory.py:34-37`) are not found once another one is indexed.
- `FormFilling`: the settings are read at the gate, not at the click; a click that raises
  after it was delivered is reported unsent; a combobox may take its first option.
- `Sidecar`: a start that overtakes a quitting shutdown, a kill that is refused and a death
  slower than the grace periods leave a backend behind; a superseded start may publish
  after the newer one.
- `Documents`: an attempt cut off after rendering leaves its files under the older
  version's names, and they are sent (`VersionIsWhatWasSent`); a row resolved from review is sent with
  whatever documents there are; previews count as the user's master résumé; a letter in
  another format may be picked up stale; an upload of equal size keeps the earlier copy
  (`services/pipeline.py:2121`).
- `Tailoring`: a cached résumé keeps a fact's wording, and the contact details, of the time
  it was made (`WordingIsCurrent`): its key holds the ids of facts (`ai/resume_engine.py:1613`)
  although the docstring says that a change of the knowledge is a miss (54-56). The skills line
  and the summary are validated before the budget drops bullets, so a skill may be left that
  none of the facts shown evidences (`SkillsAreSelected`; 31-32). TLC violates both.
- `WorkdaySites`: `MissIsForgotten`. A failed resolution is said to be remembered six hours
  (`jobs/workday.py:294-297`), but the memo of the process has no lifetime, and a tenant
  that merely did not answer is recorded as a miss. Workday spends its budget in list order,
  while `jobs/base.py:191-203` says every provider splits it.
- `Embeddings`: only the total number of vectors is compared with the number of texts, so
  one batch answered short and another long would pass, and a vector without an index is sorted
  as index 0; the module has providers that answer every batch in full; a changed model mixes with vectors
  already stored until a forced re-index, as `src/docs/CONFIGURATION.md:137-140` says.

## What is not modelled

- *Text and numbers*: similarity, cosine, feature hashing, the scoring formula, prompts,
  classification of mails, matching of mails to applications, title normalisation,
  analyzers of files and repositories, layout and the shrinking of a résumé to one page.
  Where control depends on their outcome, the outcome is a choice.
- *I/O*: selectors and typing, HTTP clients, the Redis backend, storage adapters, database
  engines. Their failures are actions or outcomes of the modules that use them.
- *Time*: the UTC day does not roll over in the ladder (`stamped` is one day's rows);
  windows and deadlines are a bound on a small clock or a choice.
- *Settings* are constant while a process runs, except where a module says so.
- Fetching one posting by id, the LinkedIn export, the provider registry; the exception
  classification and back-off of `workers/retry.py`; the temporary-document, cache and log
  sweeps.
- Onboarding, analytics and knowledge routes are form data and read-only aggregates;
  migrations are one-off DDL; the React screens render what the API returns. The list with
  a status per component is in `PROJECT.json`.

## Plan

Of what is not modelled, the back-off of `workers/retry.py` would come first.
