# TLA+ models of Elysia-Api

Elysia-Api is a gateway between clients that speak one of several LLM protocols
and upstream sources that speak another. It authenticates a client by an access
token, routes the request to a model of a group, converts it, sends it, streams
the answer back, and keeps accounts; an administrator, or a built-in assistant
with tools, manages sources, models, groups and tokens. It is one Go process
over one SQLite database. Nearly everything hard about it is concurrency inside
that process, the order of database commits against in-memory state, and what
a crash or a cancelled context leaves behind. This directory holds TLA+ models
of those parts, the TLC runs that check them, and TLAPS proofs of the
safety of all of them.

Paths below are relative to `src/backend`; `PROJECT.json` names the lines behind
every definition.

## 1. Inventory

| Component | State it keeps | Operations | Talks to | What is hard | What makes it correct |
|---|---|---|---|---|---|
| Preparation admission (`internal/admission`) | places, reserved bytes, FIFO of waiters, counters | Acquire, Release, Close | every gateway request | a grant crossing cancellation, timeout or Close | exact accounts, limits, FIFO, no lost wake-up, no leaked lease |
| Group quotas (`internal/routing/limiter.go`) | per group: active, requests and tokens of the day | Acquire, release closure, Adjust, Forget, Usage | requests, admin deletions | midnight, deletion and reuse of a group id, double release | counters equal live reservations |
| Route cache (`internal/routing/cache.go`) | generation, published snapshot, flights | Load, Invalidate | requests; every handler that changes routes | loads crossing invalidations | no answer older than a finished change |
| Generation jobs (`protocol/job*.go`, `storage/protocol_job.go`) | rows, leases, outbox of settlements | Submit, RequestCancel, Tick | provider, usage log | crash between provider and store, lapsing leases, cancellations crossing polls | one submission, one charge, nothing moves back |
| Assistant engine (`agent/`) | stored session, running turns | RunTurn, ResumeApproval, Stop, Shutdown, clearing | store, model, tools | stops, failed writes and crashes between any two writes; stale approvals | a call has one outcome; histories stay paired; nothing stays "running" |
| Sources and refresh (`server/refresh_jobs.go`, `storage/sources.go`) | rows, models, running/pending maps, semaphore | save, switch, delete, refresh | route cache, upstreams, shutdown | saves during a refresh, deletion during a refresh, callers that give up | one job per source, commits only against the fetched row, saves are tried |
| Usage log (`server/usage_writer.go`, `usage.go`, `storage/usage_logs.go`) | bounded queue, bytes, write generation, rows, rollup | enqueue, synchronous write, batch, reset, stop | requests, jobs, retention, cache | reset against a batch in hand, retry, settlements delivered again, close against enqueue | no record lost silently, doubled or resurrected |
| Usage cache (`server/usage_cache.go`) | generation, entries, flights | respond, flush, close | usage writer, reset | publication after a flush | no response older than a flush |
| Usage retention (`server/usage_retention.go`) | pending trigger, running pass | trigger, pass, sweep | usage writer (shared mutex) | sweep of assets about to be referenced | no referenced asset is deleted |
| Health checker (`server/health_checker.go`) | consecutive failures, round in progress | round, restart | models, route cache | decisions from an old snapshot | a flip needs threshold failures in a row, and reaches the routes |
| Protocol registry (`protocol/registry.go`, `protocol/authoring.go`, `server/protocol_revision_uses.go`, `storage/protocol_*.go`) | drafts, revisions, reports, activations, history; published view, revisions kept in memory, uses | save, verify, activate, archive, delete, bind, reload, load for a job | requests, jobs, administrators | publication against concurrent commits, deletion against pinned revisions, a restart in between | published = active; a revision in use is not deleted; nothing stays bound to an archived protocol |
| Gateway sessions (`server/gateway_session.go`, `protocol/session.go`) | WebSocket pairs, replay | begin, stop, two pumps | quota, registry | clean-up from two places | released once |
| Shutdown (`server/lifecycle.go`, `http_lifecycle.go`) | active requests, flags of every part, two deadlines | enter, interrupt, finish, doShutdown | all of the above | the store closing under somebody, a part that starts while it is stopped | the store closes last or stays open; the shutdown ends |
| Scheduler, affinity, catalog sync, continuations, A2A/MCP, CLI, storage, configuration, outbound, codecs and compiler, web interface | | | | | see section 7 |

The parts meet in few places: a request passes admission, takes a snapshot of
the route cache, takes a quota, and gives both back; whoever changes sources,
models, groups or tokens commits first and invalidates the route cache second;
jobs and requests hand usage records to the writer; shutdown stops them all.

## 2. Plan

Most important first.

1. `PrepAdmission` with the abstract `CapacityPool` — done; all its safety
   properties and the refinement proved.
2. `QuotaLimiter` — done, proved.
3. `RouteCache` with the abstract `RouteView` — done, proved with refinement.
4. `GenerationJobs` — done, safety proved; to add: the waiting synchronous
   request.
5. `AgentEngine` — done for one session; all its safety properties proved.
6. `SourceRefresh` — done, all its safety properties proved.
7. `UsageLog` on top of `UsageCache` — done, one composed run; safety of both
   proved in one module.
8. `ProtocolRegistry` — done for custom protocols, proved.
9. `ServerLifecycle`, the composition of the shutdown with `PrepAdmission` —
   done, `StoreOutlivesWork` proved, in one proof module with `PrepAdmission`.
10. Left: the waiting synchronous request (`server/gateway_job.go`) over
    `GenerationJobs`; `HealthChecker` as a third kind of writer of `RouteCache`;
    `SessionTransport` (WebSocket pairs and replay); scheduling as a pure
    function.

No module declares a RECURSIVE operator, so that all of them can be proved about.

## 3. Modules and how they correspond to the code

**`WeightedSets`** defines the total size of a finite set as the number of
units its members carry, without recursion; what uniting, adding and removing do
to it is proved at the head of the proof modules that count with it.

**`PrepAdmission`.** A caller is one call of `Limiter.Acquire`. Its `pc` values
are the stretches between two synchronisation points: `Begin` (context check),
`RefuseClosed`/`Reject`/`AdmitNow`/`Enqueue` (the four exits of the first
critical section), `Wake` and `GiveUp` (the select: all ready branches are
possible), `Recheck`, `Abandon` and `GiveBack` (the late critical sections),
`Release` (any number of times, `sync.Once`). `drain` is part of every step that
calls it. `CapacityPool` is the promise: clients hold places and bytes, never
more than there are, and take nothing after `Shut`.

**`QuotaLimiter`.** `Current` is `Limiter.state`, the lazy rollover of the day;
`Acquire`, `Refuse`, `Release`, `Adjust`, `Forget`, `Usage` are the methods, each
one critical section. An object of a group is identified by its incarnation, so
that a release can meet the object of a recreated group. A call takes the
calendar day at its beginning, as `usageDayKey` does, and the clock may pass
midnight between that and the lock.

**`RouteCache`.** A reader is one `Load`: `Start` (snapshot and generation under
the read lock), `Join` (singleflight keyed by generation), `Check`,
`ReadGroups`/`ReadTokens`/`ReadFails` (separate queries: a snapshot has two
halves of different ages), `Publish`, `Deliver`, `Finish`. A writer is a handler:
`Persist`, later `Invalidate`. `RouteView` is the promise without a cache: an
answer is right at the moment it is given, or there is none and a reason for it.

**`GenerationJobs`.** A row per deduplication hash, the provider's task, the
settlement outbox and the usage record. Submitters do `Reserve`, `Send`,
`Commit`; a conflict leads through `Reread` and `Recommit`, as in
`JobCoordinator.commit`. The worker does `Claim`, then `Poll`, `Cancel` or
`Result`, then the same commit, and `Settle` before `Acknowledge`. Revisions are
abstracted to what they tell: whether the row moved since it was read (`seen`).
Leases lapse at any time (`Lapse`), which covers every length of call; `Crash`
loses what operations hold and keeps the tables.

**`AgentEngine`.** One session. `turn.pc` is the place of the turn's goroutine;
each use of the store is a step that can work, fail, or fail because the turn's
context is cancelled; writes the code detaches (`context.WithoutCancel`) are
marked so. A history is the set of calls asked for and the set answered. Tools of
a group that the code runs in parallel run one after the other here. An approval
and a clearing look at the session first and act later, and anything may happen in
between, as in the code; `stale` remembers that one has acted on a session that had
changed meanwhile. A call of `ask_user` whose arguments cannot be parsed does not
pause: it is denied or run like any other.

**`SourceRefresh`.** An editor is an admin request or a tool call that creates, saves,
switches or deletes; the steps after the commit (note the save, invalidate,
forget, launch or synchronise, invalidate again) follow the handler. A job is a
source's goroutine in `sourceRefreshJobs.run`; `refreshSourceByID` is shared by
both, as in the code. The context of a job ends with the server's, with its
caller's if it runs on one (`CallerLeaves`), or with `sourceRefreshBudget`, which
runs from the start of the job, its wait for a slot included (`BudgetEnds`): `over`
and `Cancelled`. The create tool reads its source again between its commit and its
invalidation and may give up there (`RequireSource`). A configuration is the number of the edit that saved it and
`rev` stands for `updated_at`, so that the comparison of rows in
`CommitSourceRefresh` is an equality. `stale` is the only trace of the route
cache, which `RouteCache` models.

**`UsageLog`** extends **`UsageCache`**, because every commit of the one flushes
the other. A record comes from a request (queued, or written synchronously when
the queue is full, too heavy or closed) or from the settlement of a job (always
synchronous, delivered until the job is acknowledged). The writer takes batches
of the queue, and retries a failed one; a reset takes the writer's mutex and the
persistence mutex, moves the generation, empties the tables and drains the queue;
retention prunes rows and then sweeps attachments nobody refers to; a stop closes
the queue and, when the writer is late, cuts its context. A record of an older
generation is dropped under the persistence mutex and not before, as in the code.
A reader of the cache loads the generation, looks for an entry, and leads or joins
the flight of that generation; a flush empties the entries first and moves the
generation second.

**`ProtocolRegistry`.** The tables on one side, the published view and the
revisions kept for jobs on the other. `registry` is `service.mu` and `usesLock`
the mutex of the counts, taken in the order uses, registry, store. A request pins
the revision of its view and then counts itself as using it; a job's creator does
not count (section 6). Administrators save drafts, verify, activate, archive,
delete, bind and reload; each is the sequence of its transactions, with the
publication after the commit, and what it read before. `BaselineHolds` is the
comparison a commit makes with what was read: by value, so that a change there and
back is not noticed, as in the code. A protocol's content stands for its
definition and its hash.

**`ServerLifecycle`** extends `PrepAdmission`: each call of `Acquire` belongs to
one HTTP request, which enters, prepares, gives its lease back, may begin a
session, start the job worker, leave a refresh behind or run a turn, records its
usage and finishes. `phase` is the place of `doShutdown`; every stop and every
join is a step, with the request deadline (`late`) and the flush's deadline
(`cut`). What those parts do inside is left to their own modules: here they only
run, end and record. `CloseDrains` states the end of the shutdown for the limiter
that is embedded in it.

`MC*` modules give constants their values. Where all actors at once would be too
many, the constant `Casts` lists who takes part together; the initial states
choose one cast, and a run covers all of them. Definitions whose comment begins with
"Planted mistake" are not part of a specification: each is a plausible bug in the
definition that follows it, and shows that some property notices it
(`mutants` in `PROJECT.json`).

## 4. Runs

All bounds are constants named in the cfg or the module's CONSTANTS.

| Run | Instance | What it shows |
|---|---|---|
| `prep_safety` | 4 calls (0, 1, 2, 2 bytes), 2 places, 2 bytes, queue of 2; 779 k states | counters exact, limits, FIFO, no lost wake-up, no leak, no success after Close, refinement of `CapacityPool` |
| `lifecycle` | 1 place, 3 requests (one body too large), four casts: requests alone, or one or two with session, worker, refresh and turn; 148 k states | the store closes last or stays open, queued calls return without help from timers, the shutdown ends and empties the limiter |
| `quota` | 3 calls of a group, 3 days, 2 deletions; 351 k states | counters are what the live reservations add up to |
| `route_cache` | 2 readers, 2 handlers, 3 changes; 83 k states | freshness, refinement of `RouteView`, every `Load` returns |
| `jobs` | 3 equal and different requests under one key, 1 cancellation, 1 crash; 120 k states | one submission, one right charge, no cancellation lost, nothing moves back; uncertain submissions are resolved, jobs end, are charged and acknowledged |
| `agent` | 2 calls in batches of up to 2, 1 client whose approvals and clearings may come late, 1 stop, 1 failure; 1.3 M states | one outcome per call, waiting sessions that can be resumed, histories paired, with the excuses below; statuses right, no turn after Shutdown, turns end |
| `source` | four casts: 1 source with 1 editor, 2 edits, a refresh and a caller that leaves; with 1 editor, 3 edits and a budget that ends; with 2 editors, 2 edits and such a budget; 2 sources with 1 slot, 2 edits and such a budget; 413 k states | ownership of jobs, commits against the fetched row, no ghost results, routes current, saves tried, jobs end |
| `usage` | two casts: 2 requests that share an attachment, 1 settlement, a reset and retention; or 1 request, a reset and 2 readers; queue of 1, budget of 1, batches of 2, 1 error, 2 attempts; 1.0 M states | nothing lost silently, counted twice or resurrected, no referenced attachment deleted, no stale page, everything ends |
| `protocol` | 2 protocols, 2 contents, 1 slot, seven casts of a request or jobs beside one to four administrators, or of an archive beside three that bind, 1 restart; 540 k states | what is served is what is active, only unused revisions are deleted, archiving leaves nothing bound |
| `agent_window`, `source_caller`, `protocol_job` | small | the three findings of section 6 |

*Why the bounds suffice.* Each bound lets the shortest bad interleaving happen
with one spare actor: a waiter behind a waiter behind a holder (admission), a
call, its group's deletion and recreation and one more call (quota), leader and
follower or leaders of two generations while two changes cross (routes; the
proof covers any number), submitter, worker and a client's cancellation on one
row with one crash (keys are independent: one is enough), two batches of calls
with one failure anywhere (what the properties say of calls they say of one failure at
most), two editors on one source, or three edits of one, so that a source is saved, deleted
and saved again during a round (sources share only the semaphore, for which one cast
of `source` has two, one of which may run out of its budget in the queue), two records of which the queue and the budget hold
one (usage), an archive and a deletion beside each other operation that reads
before it commits (protocol), a request in the place, one waiting and one refused
while the server stops (lifecycle). Every planted mistake is found within these bounds.
What lies outside them: two concurrent cancellations of one job, and all kinds of
administrators of protocols at once. No run uses symmetry, since most check
liveness.
`CHECK_DEADLOCK FALSE` is said where all requests may have been answered, which
ends these systems.

*Properties with an excuse.* Some properties name circumstances in which the code
does not deliver (section 6), so that they still notice everything else:

* `OneOutcomeUnlessStale`, `WaitingOwnsUnexecuted` and `PairedUnlessInterrupted`
  say nothing after a request has acted on a session that had changed since it
  looked (`stale`): a stale approval, which `agent_window` shows, can run a call that
  has had its outcome and leave the session waiting with it again; a clearing of the
  messages that falls into a turn (`server/agent_routes.go:347`) takes the calls away
  that the turn's results belong to.
* The first two excuse a second failed write or crash; `PairedUnlessInterrupted` and
  `NotStuckRunning` every failed write, and the former every stop.
* `RoutesCurrent` excuses a handler that failed between its commit and its
  invalidation and returned (`cutOff`): because the evidence could not be refreshed,
  or because the create tool could not read its source again.
* `SavedIsTried` excuses (`dropped`) a save whose job ended early, with its caller or
  by its budget, and one whose note a second editor took back, until a round or a job
  begins afterwards. After a stop it says nothing.
* `NoGhostState` speaks of results of jobs while there is no source of the id, not of
  model rows, and not of a source created anew under the id.
* `JobEnds` of `GenerationJobs` assumes that the provider answers a late cancellation
  with the state of the task.

## 5. Fairness

* `ServerLifecycle` (and with it `PrepAdmission`): weak fairness of a call's own
  steps and of giving leases back (goroutines run, and requests release on every
  path), of sessions that were told to stop, of the worker, the loops and the
  writer once they are cancelled, of the deadline and of the steps of
  `doShutdown`. None for the queue timer, for clients, for the end of handlers,
  turns and refreshes, or for asking for a shutdown.
* `RouteCache`: weak fairness of a load's steps and of `Invalidate`, which
  handlers call after their commit.
* `GenerationJobs`: the ticker runs again and again, so a claim, a settlement
  and an acknowledgement that stay possible succeed some time (strong fairness,
  since errors may come between); providers finish, and report it to polls and
  to late cancellations; leases lapse. None for clients.
* `AgentEngine`: a turn's steps (model calls and tools end with the turn's
  context) and the return of `Shutdown`. None for users.
* `SourceRefresh`: steps of editors, jobs and rounds (upstreams answer or fail, at
  the latest when `sourceRefreshBudget` ends the context; no property needs the budget
  to run out, so `BudgetEnds` has no fairness); strong fairness for the semaphore, because senders on
  a Go channel are served in order. None for users.
* `UsageLog`: weak fairness of all goroutines together: if some can go on, some does.
  What can repeat is bounded, so this is enough and no mutex needs to be fair. None
  for errors, expiry, arrivals, the beginning of a reset or of a retention step, or
  the stop.
* `ProtocolRegistry` and `QuotaLimiter` state safety only.

## 6. Findings and observations

Checked by a run:

* `agent_window` — `ResumeApproval` reads the pending action before it takes the
  guard (`agent/turn_approval.go:46`, `:60`); if a whole turn runs in between, the
  calls run although they were reported as not executed, or have run already.
* `source_caller` — a save is merged into a running synchronous refresh;
  `run` forgets the pending save at the start of the round
  (`server/refresh_jobs.go:108`) and the round dies with its caller. The saved
  configuration is then not fetched, against the comment at `:87`.
* `protocol_job` — `submitGatewayJob` (`server/gateway_job.go:53`) counts no use of
  the revisions it writes into the job. If an administrator archives the protocol
  and deletes its history between the request's view and the job's row, the job
  can never load its revision, against `protocol/authoring.go:330`.

Met while modelling, and excused by name in the properties:

* A stop between a stored assistant message and its pause leaves calls without
  results (`agent/turn_approval.go:223`, compare `:102`): `PairedUnlessInterrupted`.
* Clearing the messages looks whether a turn runs and truncates afterwards
  (`server/agent_routes.go:347-351`): a turn that begins in between writes results
  whose calls are gone, and may find an approval it was given cleared: `stale`.
* A write that marks a session running and fails is only reported
  (`agent/turn_lifecycle.go:189`), and the turn goes on. If the process then dies
  after it has run the approved call and before its next write to the session, the
  session is still waiting with an action that has run, and may be approved again.
  This came up in the proof of `EachCallHasOneOutcome`, whose invariant did not
  survive a second failure: `failures <= 1` in `OneOutcome` and
  `WaitingOwnsUnexecuted`. One failure, wherever it falls, is survived.
* A failing refresh of the protocol evidence returns between commit and
  invalidation (`server/agent_ops_tools.go:689`, `server/model_refresh.go:80`,
  against `server/route_cache.go:11`): `cutOff` in `RoutesCurrent`.
* The create tool returns when it cannot read its source again after the commit
  (`server/agent_ops_tools.go:606-609`), before it invalidates: the same excuse.
* A job has one budget of ten minutes for its wait for a slot and all its rounds
  (`server/refresh_jobs.go:95`). One that runs out of it in the queue, behind slow
  sources, has fetched nothing; one that runs out of it in a round has not fetched
  the save the round began with. A save noted since, while the job waited or after its
  round began, gets a follow-up; the one the job was started for, or had taken over,
  is not tried again before the next save or click: `dropped` in `SavedIsTried`.
* With two editors, a save committed earlier but noted later takes back the note
  of the later one (`server/refresh_jobs.go:77`): `dropped` in `SavedIsTried`.
* A provider that refuses to cancel a finished task keeps the job from its result
  (`protocol/job_coordinator.go:182`; `docs/protocol-jobs-v2.md:47` says that
  completion can win): excluded by the fairness of `JobEnds`.
* `SyncManualSourceModels` does not compare the row it was computed from, so
  manual models may be written after their source was deleted
  (`server/model_refresh.go:61`): the step is in the model; no property claims
  otherwise.

Met while modelling, and left out of what the properties say:

* A source that is deleted and created again under its id while a job of the first
  runs is shown the result of that job: `run` asks only whether the id exists
  (`server/refresh_jobs.go:121`). `NoGhostState` speaks of ids without a source.
* A settlement that is delivered again after retention pruned its row is counted
  twice in the hourly rollup: the row is the only memory that it was counted
  (`server/gateway_job_executor.go:269` calls the delivery idempotent by
  `SettlementID`). `ChargedRight` and `NoSilentLoss` speak of rows that are kept.
* `server/usage.go:410` says that `stopUsageWriter` holds the mutex while it
  waits; the code releases it first. The model follows the code, and nothing
  depends on it.
* Archiving and activating do not move `conversion_generation`
  (`storage/conversion.go:54`), which a binding compares: one prepared before an
  archive that found no references can be saved after it. The same holds for a
  replacement target that was chosen from a view not yet republished.
  `ArchiveLeavesNoBinding` therefore speaks of the archive's own step.
* Bindings carry no version. The baseline of an archive
  (`storage/protocol_commit_plan.go:64-104`) and the list of references the
  administrator decides on (`server/protocol_history_admin.go:197-201`) are read
  separately, so a slot that is bound away in between and back before the
  transaction passes the comparison, is not in the list, and keeps the archived
  protocol. This came up in the proof: the invariant failed at that step, and TLC
  finds it with three binders. `ArchiveLeavesNoBinding` therefore excuses two
  changes of bindings and more since the baseline was read, and none of one.
* Verification that races an archive and the deletion of the history may leave a
  revision that belongs to no draft and no history.
* The shutdown waits without a deadline for sessions, jobs, loops and the writer
  (`server/lifecycle.go:130`, `:151`): `ShutdownEnds` rests on their reaction to
  the cancellation, which section 5 assumes.

## 7. Not modelled

`GenerationJobs` leaves out the codec of rows and the synchronous waiter;
`AgentEngine` panics (recovered into the same last writes), truncation in the
middle of a history, deletion of sessions, drafts, titles and events, and the
summary of long histories; `SourceRefresh` SQLite errors other than a changed
row, the merge of single model rows, discovery per key, and the refresh of all
sources in one request (a refresh of each). `QuotaLimiter` reduces dates to
numbers. Arithmetic does not come near the width of Go's integers.

`UsageLog` leaves out records that cannot be encoded, failing writes of
attachments, a commit of a batch that takes place and is reported as failed (a failed
attempt of the model has stored nothing; that a record is counted once when it comes
again is shown for settlements), the day's grace for attachments without an entry, the merging of
triggers and the backfill of the rollup; `UsageCache` the closing of the cache.
`ProtocolRegistry` leaves out presets, engine upgrades with new evidence, online
verification, restoring from history (a draft that is verified and activated),
the references of assistant sessions, and what a revision compiles to.
`ServerLifecycle` leaves out the start-up, the log writer, the caches and
callbacks that panic.

Components of which nothing is modelled are listed in `PROJECT.json` with their
reasons. Sessions' transport and scheduling are planned (section 2). The health
checker works with a snapshot of availability that may be minutes old and writes
over what was set meanwhile; the repository says nothing of what should win, and
its effect on routes is that of any other writer of `RouteCache`. Codecs, compiler
and conversion are sequential functions over large documents; storage details,
configuration, logging, outbound transports, CLI, A2A/MCP adapters and the web
interface carry no protocol of their own.

## 8. Proofs

Proved with TLAPS for all values of the constants that satisfy the ASSUMEs. These
say no more than what a constant is: `LimitsAssumption` and `QuotaAssumption`
(finitely many calls, natural limits, integer estimates), `CacheAssumption` (the
bound on changes is natural; readers and writers are any sets), `CastsAssumption`
(a cast is a set of requests and of what they start), `JobsAssumption`,
`RegistryAssumption`, `UsageAssumption`, `RefreshAssumption` and `AgentAssumption`
(the actors differ from each other, bounds are natural, the batch holds something,
there are finitely many slots or sources). Every one is evaluated by the runs.

Each proof has one form. The inductive invariant `IInv` names its parts; a lemma
per action, or per group of them, shows `IInv'`; `Invariance` puts the lemmas
together; the listed theorems follow from it. `IInv` was checked by TLC first.

*`ServerLifecycleProofs`, first part: `PrepAdmission`.* None of the properties is
inductive alone: that the accounts stay exact when a place is vacated needs to know
that only unanswered waiters are queued, and that nobody is queued twice. The
inductive invariant is `TypeOK /\ WaiterState /\ Accounting /\ WithinLimits /\
HeadBlocked /\ NoLeak`; `Drain` gets a lemma of its own (what it grants fits, what
it leaves does not), and each action one step. Theorems: `TypeCorrect`,
`AccountingHolds`, `LimitsHold`, `HeadStaysBlocked`, `LeakFree`, and
`LeasesAreExact`, which puts them together as the run states them. The sums rest on
the lemmas about `Weight`, which follow from the library's theorems on finite sets.
`FirstComeFirstServed` adds what a drain does to the order of the queue: it takes a
prefix, and what leaves from the middle keeps the order of the rest.
`SuccessBeforeClose` and, step by step, `ImplementsPool` (`Spec => PoolSpec`)
follow from the same invariant.

*`QuotaLimiterProofs`.* The counters are sums over calls, so a call that
releases or settles must find the object it took from, or none. `Identities` says
that an object belongs to one group and its calls and is never reused;
`NothingFromTomorrow` that nothing is held or charged on a day after the day of its
object, without which a counter that starts again at zero could already owe
something. Theorems: `CountersExact`, `LimitsHold`.

*`RouteCacheProofs`.* That answers are fresh is not inductive: it needs to know
what a flight carries while its generation is current (`FlightFresh`: nothing
older than the last finished change), that what is published is at least as new
(`SnapshotGood`), that followers wait for a flight of their own generation
(`FollowersWait`), and that a leader is alone and does not load what is already
published (`OneFlight`, `LoadedOnce`). Theorems: `NothingStalePublished`,
`NothingStaleAnswered`, `Coalesced`, `NilIsJustified`; and, step by step from the
same invariant, `Implements`, which is `Spec => ViewSpec`.

*`GenerationJobsProofs`.* That no promised cancellation is lost needs
`KnowsIntent`: whoever may still write a whole row back has a copy that knows of
the intent, or a copy that is stale, so that the write will be refused. That a
generation is sent once needs `OneSender`: of all requests of a key, one at most
is about to send, and the provider has accepted nothing for it. `OnARow` and
`RowState` say what an operation under way, and a row not yet reserved, look like.
Theorems: `SentOnce`, `ChargedAsEnded`, `IntentKept`, and the action property
`NoWayBack`, from the invariant and one lemma on what `CheckJobTransition` allows.

*`UsageLogProofs`.* `UsageLog` extends `UsageCache`, and one invariant covers both.
`Locked` says who is inside the persistence mutex; `Queued` that what is queued or
in the batch is there once and makes up the reserved bytes; `Saved` that what is
being saved is of the current generation, has its attachments before and is
counted afterwards; `Cleared`, `Traced` and `Kept` carry the properties across the
steps where they are in doubt (a reset between clearing and draining, a batch
between the tables and its end, a sweep that has chosen); `Fresh` is the cache's
part: whatever belongs to the present generation reflects every complete flush.
Theorems: `BudgetIsExact`, `ResetStaysReset`, `NothingLost`, `SweepSpares`,
`NothingStale`.

*`ProtocolRegistryProofs`.* Memory and tables differ while an author is between
commit and publication; `Published` says by exactly what, and `Locked` that he is
the only one. `Counted` makes the counts of uses the number of requests inside,
`Unused` carries the deletion's check to its transaction, `Verified` says that what
is about to be active can be loaded, `Cached` what eviction leaves, and `Reviewed`
what an administrator who archives knows of the bindings. Theorems:
`ServedIsActive`, `UnusedDeleted` and `ArchivedUnbound`; the last two are action
properties.

*`ServerLifecycleProofs`, second part: the server.* `LimiterInServer` shows that
the server makes only steps of the limiter, so the limiter's invariant holds inside
it. `ServerInvariance` adds what each step of `doShutdown` has established for the
later ones (`Progress`): no session after the sessions were joined, no active
request after the drain, unless the store is already condemned to stay open
(`storageSafe`). Theorem: `StoreIsLast`.

*`SourceRefreshProofs`.* `Registered` and `Counted` tie the maps, the `WaitGroup`
and the semaphore to the places of the jobs. A commit of discovered models is right
because the row is compared with the one that was read, and because only a row with
automatic fetching is fetched for (`Fetching`). A result without its source needs
somebody about to forget it (`Ghosts`), a stale route cache somebody who still owes
it an invalidation, or a handler that failed and returned (`Promised`). That a saved
configuration is tried needs `Kept`: until it has been tried or given up, it is
covered by the editor that will launch a job, by the note at the running job, by a
job that has not read the row yet, or by one that has read just this row, as long as
the context of that job lasts. Theorems:
`JobsAreOwned`, `NoGhosts`, `RoutesAreCurrent`, `SavedIsTriedOnce` and the action
property `FetchedIsForThisRow`.

*`AgentEngineProofs`.* Two invariants. `IInv`: `Running` says that a turn lives only
in a process that is up, `StatusKept` where it is while its session is marked running.
From it follow `ShutdownIsFinal` and `StatusIsReset`. `CInv` adds the calls: those of
actions, also of what a request has read long ago, were made by the model (`Issued`,
`Looking`); what is still to be decided has had no outcome (`Decided`); and what is
asked for and not answered is exactly that (`Paired`). The last two hold until a
request acts on a session that has changed since it looked (`stale`), which
`agent_window` shows they must; a turn that is started by an approval that is not
stale is as good as one that has just read the session. `Decided` is the heart: the
calls of a batch move from the turn to the session when it pauses, and back when it
is resumed or replaced, and a status that was not written may leave them in both.
From `CInv` follow `EachCallHasOneOutcome`, `WaitingSessionsOwn` and
`RequestsArePaired`, each with the excuses its property names (section 4).

*Only model-checked:* all liveness (and with it ENABLED), which is out of the
prover's reach: `LoadReturns`, `WaiterReturns`, `ShutdownEnds`, `Settled`,
`Settles`, `TurnEnds` and the two `JobEnds`; and the three findings, which are
counterexamples. Every invariant and every action property of a passing run is
proved. What the proofs do
not cover either is the bounds of the models themselves: a number of crashes,
deletions or changes is a constant, and the proofs hold for every value of it.
