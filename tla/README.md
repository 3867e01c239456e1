# JobWatch AI: specifications and proofs

JobWatch AI watches the career portals of companies, recognises postings of the
same role on different portals, matches jobs with candidate profiles and tells
candidates about good matches.  This directory holds TLA+ models of the parts in
which several sessions, coroutines or processes share state, the TLC
configurations that check them on small instances, and TLAPS proofs of their most
important invariants for every instance.

Paths below are relative to `backend/app/` unless they start with `docs/` or
`backend/`.

## 1. Inventory

| Part | State | Operations | Talks to | What is hard | What makes it correct |
|---|---|---|---|---|---|
| Delivery queue and worker (`notifications/worker.py`, `repositories/notification_delivery.py`, `worker.py`) | table `notification_deliveries`, `notifications.status`, one identity map per session | recover, select batch, claim, send, record, update parent, cancel | providers (e-mail, webhook), notification service | several sessions on one table, commits in between, values cached across commits, crashes, stale claims | one sender at a time, settled is final, bounded attempts, true parent status, every delivery settles |
| Notification service and preferences (`notifications/service.py`) | tables `notifications`, `notification_preferences` | evaluate a match, save preferences, cancel disabled channels, dispatch now | queue, deduplication (through `canonical_job_id`) | check-then-act on count and key, preferences that change under an evaluation, crash between two inserts | one alert per key, limit, no alert without deliveries, nothing sent on a disabled channel |
| Monitoring (`monitoring/*`, `repositories/monitoring_run.py`) | `_active_sources`, semaphore, scheduler task, table `monitoring_runs` | cycle, manual run, admit or skip, attempt, back off, finish; start, stop | ingestion, in two processes | coroutines that interleave at awaits, cancellation, kill, errors of the database, two processes | no two runs of a source at a time, no leaked entry, no orphaned record, every source monitored again |
| Deduplication (`deduplication/service.py`) | `jobs.canonical_job_id`, table `job_duplicates` | batch after ingestion, run for one job | ingestion, notifications | order of discovery, content that changes, two commits per link, overlapping sessions | no cycles, flat links, one final explanation per duplicate, canonical older |
| Deduplication scoring (`deduplication/scoring.py`, `normalizers.py`) | none | score a pair | deduplication | eight weights, a cap, vetoes and two thresholds that decide together | what is linked on its content agrees in title, seniority, place and kind of employment |
| Ingestion (`services/ingestion.py`, `repositories/job.py`) | table `jobs`, counters of a run, the session | fetch, look up, update or insert, skip, deduplicate | connectors, deduplication, monitoring | a statement that fails and a session nobody rolls back, an insert that commits before it fails, races on the unique key | skips are explained; no row is counted twice, and a failure leaves at most one uncounted |
| Connectors (`connectors/*`) | page, attempt | fetch, page, retry | portals | retries of several kinds, pages cut short, lists that move between pages, totals that are missing | bounded requests; a quiet list is fetched whole, in order, without repetition |
| Applications (`services/application.py`) | `applications`, history, notes, interviews | create, change status, edit, delete, notes and interviews | profile, jobs | status validated against an earlier read, duplicate check apart from the insert, late children | only valid transitions, history that chains and ends at the status, one application per job, complete deletion |
| Profile, skills, saved jobs (`services/profile.py`, endpoints) | rows of one candidate, `completion_percent`, bookmarks | get-or-create, edit a section, refresh, bookmark; list jobs | matching, applications | races on unique keys, a percentage computed from rows read earlier, a list that filters and sorts after paging | the percentage fits the profile or a race explains it; pages add up to the list, and what ties with nothing is on one page |
| Matching (`matching/*`, `services/matching.py`) | table `job_matches` | score, upsert | profile, requirements, notifications | missing dimensions, rounding, caps | improving never hurts; what is unknown is neutral |
| AI services (`ai/*`) | extractions, requirements, embeddings, matches, explanations | extract, match, explain, search | providers, matching | provider failures at any stage, refused inserts, two commits that belong together, caches | a server error has one of a few known causes; an extraction reaches the deterministic engine |
| Authentication (`services/auth.py`, `core/security.py`) | `users` | register, log in | everything | two registrations of one e-mail | one account |
| Middleware, health, metrics, logging | counters | - | - | - | - |
| Frontend | token, page state | fetch, render | API | - | - |

The flow is a pipeline: the scheduler of the worker process (or a manual request in
the API process) starts runs; a run ingests a source; ingestion upserts jobs and
deduplicates them; a match of a candidate with a job is evaluated for an alert; an
alert queues deliveries; workers deliver them.  `evaluate_and_notify_match` has no
caller in the application yet (only its tests call it): the model takes any number of
sessions that may call it.

All sessions come from one factory (`core/database.py:42`) with
`expire_on_commit=False` and `autoflush=False`, and every repository method commits.
Two consequences run through all the models: *every commit is a step of its own*, and
*an object keeps the values a session loaded it with* until that session refreshes it.
A query that returns a row already in the identity map returns the old object.

## 2. Modules

| Module | Models |
|---|---|
| `DeliveryQueue` | the delivery table, its workers and their sessions; properties |
| `DeliveryContract` | what the queue promises, without workers' steps: leases |
| `DeliveryQueueRefinement` | the mapping from queue to contract |
| `DeliveryHistory` | how often each delivery is tried: a history of `DeliveryQueue` |
| `DeliveryQueueProofs` | TLAPS: six theorems about the queue and its history, and that it implements the contract |
| `Notifications` | evaluations and preferences on top of `DeliveryQueue` |
| `Monitoring` | scheduler, executor and runs in several processes |
| `MonitoringProofs` | TLAPS: four theorems about monitoring |
| `Deduplication` | links between postings of one company |
| `DeduplicationProofs` | TLAPS: nine theorems about deduplication |
| `NotificationsProofs` | TLAPS: eight theorems about the service and the queue it shares |
| `Profile` | accounts, profiles and their sections, completeness, bookmarks |
| `Applications` | tracked applications with history, notes and interviews; on top of `Profile` |
| `ApplicationsProofs` | TLAPS: the inductive invariants of `Profile` and of `Applications` |
| `Intelligence` | the tables of matching and AI services and their requests; on top of `Profile` |
| `Ingestion` | the paged fetch of a source and its upserts |
| `IngestionProofs` | TLAPS: the inductive invariant of `Ingestion` |
| `Portal` | the four modules above over one database |
| `PortalProofs` | TLAPS: the inductive invariant of `Intelligence`, the invariants of the four modules in the portal, and what follows from them |
| `Matching` | the eight dimensions, the weighted and the hybrid score |
| `DedupScoring` | `evaluate_job_pair`, which `Deduplication` takes as a relation |
| `JobListing` | how `GET /jobs` cuts a list into pages |
| `RulesProofs` | TLAPS: four theorems about the rules of `Matching`, `DedupScoring` and `JobListing` |
| `MCDeliveryQueue`, `MCDeliveryHistory`, `MCNotifications`, `MCDeduplication` | instances for TLC (symmetry) |
| `MCPortal` | the instance of the portal, and the subjects of the three rule modules |

### DeliveryQueue

A worker is one call of `process_pending_deliveries` in a session of its own: the
background process makes one every 15 seconds, `POST /notifications/deliveries/process`
one per request.  `row` is the table, `view[w]` the identity map of worker `w`, `todo`
and `cur` its batch and the row in hand, `parent` the status of each notification.  The
path of a worker is

    idle -Recover-> select -SelectBatch-> loop -Claim-> sending -Record*-> tally -Tally-> (write -WriteParent->) loop -EndCycle-> idle

with `LoseClaim` for a row that is no longer claimable and `Crash` at any point.
`Record` writes `view[w][d].attempts + 1`, not `row[d].attempts + 1`, because that is
what `delivery.attempt_count += 1` does; `Tally` folds `SeenStatuses`, where the identity
map wins over the row, because that is what the query in
`_update_parent_notification_status` returns.

`note[w]` is the notification as the session has it: every dispatch loads it anew, unless
the caller of the worker holds the object, as the service does in `DispatchNow`.  `Tally`
compares its verdict with that status and `WriteParent` writes without looking again.  The
deliveries of one notification are created in commits of their own
(`notifications/service.py:257-270`), so a worker may decide FAILED from the first one
before the second exists, and overwrite SENT later: `Overtaken` is that state.

`DeliveryHistory` adds two history variables: `tries`, the claims of each delivery, and
`overlaid`, the deliveries two sessions had in their batches at one time.  The stored
attempt count is no bound on anything by itself, since sessions overwrite it;
`TriesBounded` is about the tries.

Time is abstract: `row[d].elapsed` says that `next_retry_at` is reached, or that a
PROCESSING row is older than `NOTIFICATION_PROCESSING_TIMEOUT_SECONDS` (600 s).  With
`LeaseOverrun = FALSE` the second happens only once the worker of the row is gone; the
providers' timeouts are 10 s.  Nothing in the code enforces that relation: with
`LeaseOverrun = TRUE` `ExclusiveClaim` and `SettledForGood` fail, since a revoked worker
is not fenced.

A notification without its deliveries cannot lose its row (deletes cascade), so the
branches for a missing row are not modelled; an unsupported channel is a permanent
failure.

### Notifications

Evaluators run `evaluate_and_notify_match` in the order of its commits: `Check` (loads
the preferences, counts the past hour, looks the key up), `Insert` or `InsertRefused`
(the unique constraint), `QueueDelivery` per channel, `Done` or `DispatchNow` (a worker on
the evaluator's session).  `SavePreferences` and `CancelDisabled` are the commits of
`update_preferences`.  `Lose` and `LoseRequest` are crashes between them.  `wanted`,
`quiet` and `leaked` are ghosts that only the properties read.

### Monitoring

A call is one `execute_source` of one process for one source, made by a manual request or
by a gather of the scheduler.  A gather does not return exceptions: when a check under the
lock raises (`CheckFails`), the cycle ends while the gather's other calls go on, and the
next cycle may start a second gather beside them; `Gather` bounds how many at a time, and
`awaited` is the one the scheduler waits for.  `waiters` is the queue of the semaphore.
Coroutines of a process interleave only where they await, which `LoopIsFree` expresses:
between `Create` and `MarkRunning` (`run_source` up to its first await) no other coroutine
of the process runs, but the other process may, and a kill may come.  `active` is
`_active_sources`; `stuck` keeps the records that no call will ever finish.  Ingestion is
an outcome: it returns, raises a configuration error (`Finish`), fails or times out
(`FailTransiently`).  `CompleteUnnoticed` is the refresh after the commit of
`complete_run` that raises inside the `try` of the attempt, so that the code runs
ingestion again for a record that is terminal already.

### Deduplication

A session is an ingestion (upserts, then `deduplicate_batch`) or a request for one job.
`Load`, `Decide`, `Link`, `Explain` are the reads, the loop over the candidates, the
commit of the pointer and the commit of the record; `Collide` is the unique constraint on
`duplicate_job_id`.  `alike` is an arbitrary set of pairs, chosen in `Init` and changed by
upserts; it stands for `evaluate_job_pair(...).score >= DEDUP_HIGH_THRESHOLD`.  The depth
limit of ten and the `visited` set of `resolve_canonical_root` are modelled by walking at
most as many pointers as there are jobs.  Orphaned pointers do not occur: jobs are never
deleted.

### Profile

A request takes a session (`Enter`, or `Register*`), gets or creates the profile, makes
one change and refreshes the percentage.  `pc[s]` names the next transaction.  What a
request is about is chosen when its handler acts, since the steps before do not depend on
it.  `Refresh` and `StorePercent` are the two halves of `_refresh_completeness`: the rows
are read and the percentage calculated, and it is stored in a commit of its own, from
`calc[s]`.  Check-and-insert pairs (account, profile, skill, preferences, bookmark) are
two steps each; the unique constraint refuses the second insert and the request ends.
`spoiled` is a ghost: the users for whom another change came between a request's
calculation and its store, or whose request was lost before it.  `Completeness` is the
calculator of `services/profile_completeness.py` with its weights; a section is complete
or not.

### Applications

Every request loads (`Begin*`) and commits later (`Commit*`): what it writes rests on
`held[s]`.  `CommitTransition` writes `held[s].to`, validated against `held[s].seen`,
onto whatever the row holds by then, and appends the entry with `seen` as the old status.
A row that has been deleted meanwhile raises `StaleDataError` for an UPDATE (`Gone`), a
foreign key error for a child (`ParentGone`).  `overlapped` is the ghost of
`UnbrokenTrail`: applications with two status requests under way at a time.  Jobs may be
missing from an application (a manual entry), and then nothing is unique.

### Intelligence

A request goes through stages, one per table: a deterministic match is one stage, an
enhanced one goes on to the embeddings of candidate and job and to the explanation, an
extraction goes on to the requirements.  Every stage is the same little machine: consult
the cache, generate or fail, look the row up, write.  `ask[s]` is the request, `stage[s]` and
`step[s]` where it is.  An insert refused by a unique key spoils the session; the services
catch the error but nobody rolls back, so the request ends with a server error
(`Refused`).  So does a value the database cannot store (`Unstorable`): a provider's
currency is any string while the column has three characters
(`models/job_requirements.py:65`, `schemas/ai.py:47`), vectors have a fixed length, texts a
maximum.  `rival` and `unsynced` are ghosts: another request worked on the same rows
meanwhile; an extraction was committed whose requirements were not.

### Ingestion

A fetch of one source (`lever`, `workday` or `greenhouse`) is a sequence of requests
against `feed`, the portal's list, which may change in between: `TransientError` retries
within `MaxRetries` (a status, a timeout and a network error each by a comparison of its
own), `PermanentError` ends it, `ReceivePage` takes a slice at the offset and decides
whether it was the last as the connector does: Lever by a short page or after `MaxPages`
requests, Workday by the total, which defaults to 0 when the answer lacks it, or at
`MaxOffset`, both by an empty page.  A portal may cut pages short (`trims`), so that a
Workday fetch may need a request per posting; it is taken to honour the page limit
upwards.  Then `FindItem`, `UpdateItem`, `InsertItem` and `ItemFails` upsert posting by
posting.  `InsertUnnoticed` is the insert that commits and whose refresh fails: the row is
there, the item counts as skipped.  After a failed statement the session stays in error
(`broken`), every later posting of the feed is skipped, and the ingestion may end with an
exception when it reads its source again.

### Matching, DedupScoring, JobListing

Pure rules, as operators over features: integers in tenths of a point or thousandths
with the code's rounding; titles are sequences or sets of words, places are parts.  Each
module has one variable, the subject under comparison, which never changes: TLC visits
one initial state per subject.  In `JobListing` a page is the set of the jobs whose places
belong to it: `Orders` are the orders a statement may return rows in (no unique column
ends the `ORDER BY` of `search_and_filter`, and every page is a statement of its own),
and the place after the stable sort of `best_match` is the number of cards that precede
(`Rank`).  They are next to the portal in `MCPortal` and share no
state with it: `MCInit` has a subject, or a portal, never both.

## 3. Runs

| Run | Instance | Shows |
|---|---|---|
| `delivery_queue` | 2 sessions, 1 notification on 2 channels, 2 attempts, 1 crash | types, `ExclusiveClaim`, `TriesBounded`, `ParentTruthful`, `SettledForGood`, `ImplementsContract` |
| `delivery_queue_live` | 2 sessions of which 1 polls, 1 notification on 2 channels, batches of 1, 1 crash | `EveryDeliverySettles`, `SentSurfaces` under fairness |
| `notifications` | 2 evaluators of 3 alerts at a limit of 1, 1 worker, preferences that change, 1 crash | types, `OnlyInFlightLeaks`, `OneProducer`, `HourlyLimitOvershoot`, `QueuedAsWanted` |
| `monitoring` | 2 scheduling processes of 2 gathers, 2 sources, 1 slot, 1 retry, 1 interruption | types, `OneCallPerSource`, `ActiveSetExact`, `InterruptionsBlockFew`, and `KeepsMonitoring` under fairness |
| `deduplication` | 3 jobs, 1 ingestion, 1 request, 1 change of content, 1 crash | types, `NoCycle`, `RecordMatchesPointer`, `LinkIsFinal`, `LinksMatch`, `FlatWhereMatchesAgree` |
| `portal` | 2 sessions, 1 user, 1 job with 2 texts, 2 applications, 2 ingestions of a list of up to 3 postings (one malformed, pages of 2, one retry, one change); 1 subject at a time of 1536 candidates by 4 postings, pairs of postings, and lists of up to 3 jobs with ties | `PortalTypeOK`, `PercentAccountedFor`, `AuditTrail`, `UnbrokenTrail`, `OneApplicationPerJob`, `NoOrphans`, `ErrorsExplained`, `ExtractionsReachRequirements`, `RequestsBounded`, `QuietListFetchedWhole`, `RowsCountedOnce`, `SkipsExplained`, `ImprovementNeverHurts`, `UnknownIsNeutral`, `LinksRestOnContent`, `PagesPartition` |

Why the bounds are enough: two sessions are the least that can hold the same row in
their batches; two channels the least for which a sibling can be stale; two attempts give
a first failure, a retry and an exhausted budget; one crash is placed everywhere.  A
batch of one row makes every other row wait.  One semaphore slot with two sources makes
waiting and starvation possible; two processes make the database check matter.  Three
jobs are the least that can form a chain, and one change of content lets an established
link meet a new one.  That three are enough for what the run checks is no accident of the
bound: all its invariants are proved for every number of jobs.  A chain in a session that
nothing disturbs needs five (`deduplication_chain`).

In `portal` one component moves at a time (the guards of `MCNext`): the components share
only the profile of a user, so a request of applications or AI begins after the profile
exists and the others are at rest; without that, TLC explores the product of independent
behaviours.  `Apart` keeps the fetches of two ingestions from overlapping, since a
fetch reads and writes nothing another one reads but the portal's list; the upserts, which
share the table, do overlap.  Two sessions are the least that race; four requests let two
races follow each other (a status request overlapped by another, then a delete); two
texts make a cache miss, a hit and a republished posting; three AI calls give a failed
extraction, a retry and an answer from the cache.  Pages of two postings with three on the
list have a page boundary and a short last page, and two pages of two a full last page; Workday's
limit of three postings is reached by two pages, or by three that are cut short.  The
proofs of section 5 depend on none of these bounds: there, all components of the portal
interleave freely.

Fairness.  `delivery_queue_live`: a cycle that has begun runs on (nothing in it waits
without a timeout), the background process begins a cycle again and again (the loop of
`worker.py:55`), time passes.  Nobody is obliged to create or cancel, and sessions of
requests need not come.  `monitoring`: a coroutine that is ready runs, an attempt ends at
its timeout at the latest, the interval passes, the container restarts an ended process
(`restart: unless-stopped` in `docker-compose.yml`).  The order in which
`asyncio.Semaphore` serves its waiters is in the model (`waiters`), so that `Create` needs
weak fairness only; `Runs` says that the event loop comes back to every call that waits
for nothing else.

Two liveness properties are conditional, as the code is: `SentSurfaces` on no crash,
since a worker lost between its commits leaves the parent PENDING for good, and on no
worker that is overtaken by a new sibling, since its FAILED then overwrites SENT for good;
`KeepsMonitoring` on no stuck run, since a stuck run blocks its source for good.

Deadlock is checked in every run but the two of the portal, whose bounded requests end.

## 4. Where the repository says otherwise

Six runs check what a document, a comment or a test of the repository says, and TLC
shows an execution of the code in which it is false.

| Run | Statement | What the code does |
|---|---|---|
| `delivery_queue_attempts` | `docs/notifications.md:118`: a transient failure increments `attempt_count` | a session whose batch is older than another session's attempt writes the same count again; the delivery gets more attempts than its budget |
| `delivery_queue_parent` | `notifications/worker.py:276`: synchronizes the parent status | two sessions fail the two channels, each sees the other's row as it loaded it; the notification stays PENDING |
| `notifications_disabled` | `docs/notifications.md:133`: disabling a channel immediately cancels its pending deliveries | an evaluation under way queues its delivery after the cancellation |
| `monitoring_shutdown` | `docs/monitoring.md:57-74`: shutdown leads from RUNNING to CANCELLED | the record stays RUNNING, nothing repairs it, and the overlap check blocks the source from then on |
| `deduplication_chain` | `docs/deduplication.md:124`: chaining is strictly prevented by resolving the root before persisting; also the docstring at `deduplication/service.py:96` | the root is resolved for the canonical only; in one ingestion of five jobs that never change, a root that has collected a duplicate is linked away by an older job that matches it |
| `provider_failures` | `docs/ai.md:8`: no HTTP 500 when a provider times out, fails or limits its rate | the failure of an extraction is recorded, and the endpoint (`api/v1/endpoints/ai.py:42`), which looks for a successful one, answers 500 |

Some properties are stated with the condition under which the code keeps them.  Beyond
it, TLC finds executions, which the hazards in `PROJECT.json` describe:
matches are not transitive, and then pointers need not be flat, while where they are they
stay flat (hence `FlatWhereMatchesAgree`; changes of content break it as well);
overlapping sessions can close a cycle of pointers (hence
`~overlapped`); the database check for overlapping runs does not exclude runs of two
processes, since the record is inserted later, behind the semaphore; two overlapping
status requests compose a transition that the table forbids (hence `overlapped`);
besides the extraction without a success (never had, or overwritten by a forced refresh
that failed), an AI request is answered with HTTP 500 when a write of its is refused,
because of another request or of what the provider said (hence `ErrorsExplained`); a minimum score
with a sort other than `best_match` filters one page at a time (hence the condition
`Whole` of `PagesPartition`); jobs of equal titles come in any order from every statement,
so one may be on two pages and another on none (hence `Tied`); a Workday answer without a total ends the fetch (hence `Fits`).

Seen in the code and outside every property: `email_smtp.py:80` retries permanent
refusals, since `SMTPException` is an `OSError`; a place that shares any comma-separated
part with the other scores 0.90 (`deduplication/scoring.py:104`), so on-site postings in
two cities of one country are linked, although `docs/deduplication.md:96` calls that a
contradiction and `backend/tests/deduplication/test_scoring.py:123` a strong penalty; the workplace contradiction of
`deduplication/scoring.py:119` looks for `on-site` while the connectors store `onsite`, so
it never applies to them; `matching/rules.py:488` takes the first key that occurs in a
degree, and `ba` occurs in `mba`; the idempotency key of an alert
(`notifications/service.py:187`) contains the canonical job and the event type of the
moment, so a posting linked later, or a score that crosses 85, alerts again;
`deduplication/service.py:54` compares with the oldest jobs of a company only; the worker
process sends synchronously on the event loop of its monitoring (`worker.py:57`).

## 5. Proofs

TLAPS checks, for all values of the constants that satisfy the modules' assumptions:

| Theorem | Says |
|---|---|
| `BudgetInvariant`, `TypeCorrect` | types; no attempt count exceeds its limit |
| `TriesAreBounded` | a delivery no two sessions loaded at one time is tried at most `MaxAttempts` times, and once more per lost worker |
| `ClaimsAreExclusive` (`~LeaseOverrun`) | no delivery is being sent by two workers |
| `SettledIsFinal` (`~LeaseOverrun`) | a settled row never changes |
| `ParentIsTruthful` (`~LeaseOverrun`) | SENT and FAILED notifications are backed by a delivery |
| `QueueImplementsContract` (`~LeaseOverrun`) | the queue implements `DeliveryContract`, step by step |
| `MonitoringTypeCorrect` | types; no run exceeds its attempts |
| `NoOverlapInProcess` | at most one admitted call per process and source |
| `ActiveSetIsExact` | `_active_sources` is exact |
| `InterruptionsBlockFewSources` | shutdowns, kills and database errors block at most `MaxConcurrency` sources each |
| `DedupInvariant`, `DedupTypeCorrect` | types; the root that is resolved is a job the session has loaded |
| `PointersHaveNoCycle` (`~overlapped`) | canonical pointers form no cycle |
| `RecordsExplain`, `LinksAreFinal` (`~overlapped`) | a duplicate's row names its canonical, and then both stay |
| `CanonicalsAreOlder` (`~overlapped`, nothing lost) | a canonical was discovered before its duplicates |
| `MatchInvariant`, `LinkedJobsMatch` (`~overlapped`, nothing lost) | two jobs are linked only if they are alike themselves |
| `PointersAreFlat` (`~overlapped`, nothing lost or changed, matching transitive) | no duplicate points to a duplicate |
| `ServiceTypeCorrect` | types of the service and of the queue under it |
| `ProducersAreAlone` | no two evaluators queue deliveries of one notification side by side |
| `WantedIsQueued` | unless a process was lost, idempotency hides no alert that was not queued |
| `OvershootIsBounded` (`Evaluator # {}`) | the hourly limit is exceeded by less than one notification per evaluator |
| `LeaksWereInFlight` (`~LeaseOverrun`) | what can still be claimed on a disabled channel was in flight, or about to be created, when it was cancelled |
| `ServiceClaimsAreExclusive`, `ServiceParentIsTruthful`, `ServiceSettledIsFinal` (`~LeaseOverrun`) | the queue's guarantees hold under the service too |
| `AppInvariant` (`AppSpec`), `PortalKeepsAppInv` | the inductive invariant of applications, alone and in the portal |
| `TrailsAreSound`, `TrailsAreUnbroken` | histories hold valid transitions and end at the status; they chain without overlaps |
| `ApplicationsAreUnique` | at most one application per candidate and job |
| `DeletionIsComplete` | nothing belongs to an application that is gone |
| `ProfileInvariant` (`ProfileSpec`), `PortalKeepsProfileInv` | the inductive invariant of profiles, alone and in the portal |
| `PercentagesAccountedFor` | the stored percentage is exact, or an overlapping or lost request explains it |
| `IngestionInvariant` (`IngestionSpec`), `PortalKeepsIngestionInv` | the inductive invariant of ingestions, alone and in the portal |
| `FetchesAreBounded` | a fetch makes at most `MaxRetries + 1` requests for each of `MostPages` pages: 1 (Greenhouse), `MaxPages` (Lever), `MaxOffset` (Workday) |
| `RowsAreCountedOnce` | no row was counted as persisted twice, and an ingestion that failed or was lost leaves at most one uncounted |
| `SkipsAreExplained` | without a failed statement, exactly the malformed postings are skipped |
| `UndisturbedFetchIsWhole` | a list within the limits that does not change is fetched whole, in order |
| `PortalKeepsAIInv` | the inductive invariant of the matching and AI services, in the portal |
| `ErrorsAreExplained` | a server error needs an overlapping request, a value the database cannot store, or a job without a successful extraction |
| `ExtractionsAreSynced` | an extraction reaches the requirements, or its request was lost or refused |
| `PortalTypeCorrect` | types of all four components |
| `UnknownNeverCounts` | the weighted score lies between the worst and the best known dimension |
| `ImprovementsNeverHurt` | acquiring what a posting asks for lowers neither the score nor the hybrid |
| `LinksAreContent` | what is linked on its content agrees in company, title, seniority, and contradicts itself neither in place nor in workplace |

*Queue.*  The argument has three layers, each resting on the one before.
`BudgetInv` adds to the types and the budget what a worker has in hand (`HandInv`): the
count it will write is its loaded count plus one, which stays within `MaxAttempts` only
because rows are loaded while they have attempts left, and a row of a batch is not
recorded before it is claimed.  `LeaseInv` says that a row in hand is PROCESSING and
fresh; recovery needs a stale row and cancellation an unclaimed one, so neither takes it
away.  From both follows that `record_success` and `record_failure`, which look at no
status, write only rows the worker holds (`StepSettled`), hence finality.  `TruthInv`
then uses finality: a settled status in an identity map is still the status of the row,
however old it is, so a verdict drawn from stale siblings is never false (it may be
missing, see `delivery_queue_parent`).  The refinement uses the first two layers:
`contractHolder` is a choice among the workers that hold a row, and only because there is
at most one (`HolderNow`, `HolderNext`) does a claim, an outcome or a crash change it for
one delivery; recovery reclaims leases without a holder, since it needs stale rows, and
queues them all, since they have attempts left.

`TriesInv` is the ledger behind `TriesBounded`: a try is either counted in the row, or in
hand and about to be counted, or was lost with its worker; for a delivery that only one
session at a time has loaded, what is loaded agrees with the row.  It needs no assumption
about leases.

*Monitoring.*  `Inv` adds that a call that backs off has attempts left, that an open
record belongs to a call with a slot (`OpenRunsHaveSlots`), and that a process gives out
no more slots than it has (`SlotsBounded`).  So what a shutdown, a kill or an error cuts
off is open for at most `MaxConcurrency` sources (`FewMore`), and nothing else adds to
them (`NoMore`): `InterruptionsBlockFew`.  `OneCallPerSource` and `ActiveSetExact` prove
each other: admission excludes a second call through `_active_sources`, which must be
exact, and the `finally` clause keeps it exact because the call it ends is the only one.

*Deduplication.*  What `resolve_canonical_root` returns is computed by a recursive function
over the number of steps.  No induction theorem of the library applies, but a least
counterexample among the numbers does (`LeastNumber`): `RootStays` says that the walk
never leaves a set of jobs closed under the pointers the session has loaded.  Used with
the jobs loaded, and with those of them that are not younger than the canonical the walk
began at, it shows that the root is one of them.  `Alone` says that the one session at work has the
pointers of the table and that the row it plans to write is missing.  So a pointer is set
only on a job without a row and only to a root: no set of jobs becomes closed under the
pointers (`CyclesStep`), and pointers with a row stay.  `Lossless` is what
`CanonicalIsOlder` (every pointer leads to an older job, the state form of what
`LinksMatch` says of the step) needs besides: without lost sessions every pointer has its row or is
about to get it.  `select_canonical` may prefer an established canonical to an older job,
but then the job that would become the duplicate has a pointer, hence a row, and nothing
is planned (`PlansAreOld`).

`Matched` says what a session that is alone is about to link: a job and an older one that is
alike to it (`Older`).  What is planned joins the target and the first of its hits, and neither
has a pointer, since the job without pointer and row is preferred to any other
(`PlansJoinRoots`); so the root is the very job that was compared.  `Loaded`
is needed because a hit is looked for among the jobs the session has read.  Where matching
is transitive, `Matched` adds that a job with an older match is never a canonical: the first
hit is the oldest match (`OlderHits`), which has none itself, whichever candidates
`MaxCandidates` cuts off (`CandidatesBelow`, `CandidatesBack`), and a newcomer is the youngest
(`OlderAfterUpsert`).  Hence pointers are flat.  Without transitivity the invariant is false,
and so is the conclusion: `deduplication_chain` is the counterexample.  Its first half is a
newcomer that matches a linked duplicate and yet stays a root, where
`backend/tests/deduplication/test_dedup_service.py:107` expects a link: the newcomer wins
the choice of the canonical, the duplicate has its record already, and nothing is linked.

*Applications.*  `AppInv` is the conjunction of the types, the four properties and
`SeesStatus`: a status request under way whose application nobody overlapped still sees
its present status, and is alone.  Without it neither trail is inductive: the entry that
`CommitTransition` appends begins at the status loaded earlier, which is the last one of
the history only if nothing came in between.  `AuditTrail` needs no such condition for the
table, because `to` was validated against `seen`, and both go into the entry.  The ids of
deleted applications are never given out again (`used`), so a request that holds one finds
no other application under it.  The proof has one lemma per action; `MoveKeepsTypes` serves
all of them.  `PortalProofs` lifts the invariant to the whole portal: the steps of the
other components leave `appVars` unchanged, and `AppInvStutter` covers them.

*Profile.*  `InHand` says what a request has at each of its labels: from `refresh` on the
profile it works on exists.  `FreshIsExact` is the strengthening that makes the percentage
inductive: as long as `fresh[s]` holds, the number in `calc[s]` is the completeness of
this moment and not of the moment it was calculated, because every change of a section
takes `fresh` from the other requests of its user.  So a store either writes the exact
percentage or marks its user in `spoiled`.  That the sections' weights add up to a
hundred, which types the percentage, is a lemma (`CompletenessIsPercentage`).

*Ingestion.*  `FetchInv` bounds the requests sent by the pages before and the attempts of
the present one, and for Workday the pages by the offset, since every page that does not
end the fetch has a posting.  `QuietInv` says that an undisturbed fetch has exactly the
first `offset` postings, and for Lever that the offset is a whole number of pages; each
connector's way of
recognising the last page is then enough to conclude that the offset has passed the end
(`FetchWhole`, one case per connector).  `StoreInv` ties the loop over the items to the
table: a failed statement sets `faulty`, and without it the skipped are the malformed.
`RowsCountedOnce` compares the table with a sum, a recursive function on the sets of
ingestions, and what is missing in the sum with the ingestions that failed or were lost
(`Suspects`), each of which was at one posting when it did.  That the sum is defined
(`SumsExist`) and grows by one with each of its terms (`TotalOfOneMore`) follows from a
least counterexample again.

*Notifications.*  `QueueSteps` is the heart: to the queue, each step of the service is a
step of the queue, an immediate dispatch or a loss, so `BudgetInv`, `LeaseInv` and
`TruthInv` carry over with two lemmas about the steps that are new.  `ProducerInv` says
that an evaluator in the middle of its channels has the notification it inserted to
itself, and which channels it still owes; `LimitInv` counts who has passed the check of
the hourly limit and not inserted yet; `LeakInv` says where deliveries of disabled
channels may come from, and needs exclusive claims, since a row in hand must not be
opened again by anybody else.

*Intelligence.*  Everything rests on `RivalsKnown`: of two requests under way for one user
or one job, both are marked as rivals.  Every row a request writes is under a key that
names its user or its job (`KeysDiffer`, `WritersMeet`), so what a request without
rivals did not find is still missing when it inserts (`StillFree`) and its insert is not
refused; what makes it answer with an error stays true until it has answered
(`ErrorExplained`): a rival, a value that did not fit, or that the job has no successful
extraction, which only a rival could change.  The requirements need `StageOK` (a request at the requirements has
a successful extraction in hand) and `RowsKept` (no row of requirements disappears).
`Intelligence` loads skills from `Profile`, hence the types of `ProfileInv` as a premise,
which only the composition provides.

*Rules.*  `RulesProofs` needs two facts about rounding to the nearest integer: it is
monotone (`RoundedMonotone`), and what lies between two multiples of the divisor stays
between them (`RoundedBetween`).  A score is then a sum of eight products over the sum of
eight weights (`AggregateIs`): sums grow with their terms (`AddUpGrows`), a sum of weights
times a bound is a bound on the products (`AddUpTimes`), and known dimensions are the same
before and after an improvement (`ResultsImprove`), so both theorems about `Matching`
follow.  The caps of the hybrid depend on dimensions that only improve, and each of the
three lets pass at least what a stricter one does (`GuardLoosens`): the theorem holds for
every semantic score, not only for those the run tries.  `HighScoreNeeds` computes what
the weights and the threshold of 0.90 leave to each field; that different tiers of
seniority keep a title at 0.60 (`TitlesTyped`) then excludes them.  What is assumed of the
tables of candidates, postings and titles (`MatchingAssumption`, `ScoringAssumption`) is
that words and skills are finite sets, years are natural numbers, degrees are keys of the
hierarchy and ratios are shares; TLC evaluates it in the run `portal`.

`PagesAddUp` counts.  The sort of `best_match` is a strict total order (`PrecedesIsOrder`),
so the numbers of cards that precede are all different (`RanksArePlaces`), as the places
of rows are for the other sorts; and what has as many places as elements leaves none
empty (`FilledPlaces`), which gives every page its length.  A page is what stands at its
places of the whole listing (`ItemsStandInPlaces`), and what precedes a job that ties with
no other is the same set for every statement (`UntiedStay`): so is its place, which belongs
to exactly one page (`PageOfPlace`).

*Portal.*  Each component's invariant is kept by its own steps and by those of the
others, which leave its variables alone (`*Stutter`).

Only model-checked: all liveness (`EveryDeliverySettles`, `SentSurfaces`,
`KeepsMonitoring`), since fairness is beyond the prover.  Every other property that a
passing run checks is a theorem.

## 6. Abstractions and bounds

- One candidate in `Notifications` and `DeliveryQueue`, one company in `Deduplication`:
  no operation crosses either boundary except recovery and batches, for which rows of
  other candidates behave as the rows that are modelled.
- `MaxCrashes`, `MaxInterruptions`, `MaxChanges` bound how often the environment
  interferes; the proofs hold for every bound.
- `MaxRequests`, the calls of `Intelligence` (three, in `MCNext`), `PageLimit`, `MaxPages`, `MaxOffset`,
  `MaxRetries` and `MaxRepublished` bound the portal; see section 3.
- At most one manual request per process and source, and as many gathers of one scheduler
  as `Gather` has members, at a time (`Call`).
- The database is PostgreSQL at READ COMMITTED: a single UPDATE is atomic and re-checks
  its condition, separate statements interleave.
- Message texts, payloads, back-off lengths, scores and timestamps are left out; their
  order and comparisons are kept where a guard reads them.
- Not modelled: the frontend (a client that fetches and renders), middleware, metrics and
  logging (no protocol state), migrations and deployment (configuration, which gives
  `Monitoring` its process sets), semantic search, skill gaps and statistics (they only
  read), parsing of postings and normalisation of strings, password hashing and tokens
  (libraries, stateless), templates of messages.

## 7. Plan

1. *Done*: delivery queue with contract, notifications, monitoring, deduplication, profile,
   applications, AI services, ingestion and their composition, and the rules of matching,
   deduplication scoring and listing; proofs of every invariant and action property the
   runs check.
2. *Next modules*: `Alerts`, `Deduplication` composed with `Notifications` (at most one
   alert per role); the run of a source as `Monitoring` around `Ingestion` (terminal
   records, `CompleteUnnoticed`); the classification of providers' answers.
3. *Next proofs*: that evaluations of one alert implement an abstract one that sends at most once.
