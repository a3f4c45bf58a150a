# A verification project for PanCheck

PanCheck is a service that checks share links of cloud drives. A client
submits links; the service stores them as a row of `submission_records`,
checks each against the site of its platform, keeps the valid and the locked
ones in the row and the invalid ones in the table `invalid_links`. A
background checker takes up what requests leave undone, and scheduled tasks
fetch links by themselves and submit them. This directory holds TLA+ models of
that system, TLC configurations for small instances, and proofs for all
instances.

Paths below are relative to `src/`.

## 1. The system

| Component | State | Operations | Interacts with |
|---|---|---|---|
| Submission lifecycle (`internal/service/link_service.go`, `checker_service.go`, `internal/repository/submission_repository.go`, `invalid_link_repository.go`) | `submission_records`: status and the lists `original_links`, `pending_links`, `valid_links`, `locked_links`; `invalid_links` with `is_rate_limited` | `CheckLinks` creates a row; `CheckRealtime` and `CheckRealtimeWithPlatformFilter` claim it, check links, save the lists, upsert invalid links; `ClearRateLimitedLinks` deletes | all passes share the database and nothing else |
| Request handler (`internal/handler/link_handler.go`) | none | chooses between no pass, the filtered and the unfiltered one | lifecycle |
| Background checker (`cmd/api/main.go` 351-381, `CheckPendingSubmissions`) | the loop's interval | reads up to ten pending rows, starts a goroutine for each | lifecycle |
| Detection of a link (`checkLinksWithConcurrency`) | Redis cache with TTLs, `singleflight` group, semaphore | batch reads of cache and `invalid_links`, check, write of the cache | lifecycle, checkers, settings |
| Platform checkers (`internal/checker/*_checker.go`) | HTTP client, rate configuration | one HTTP conversation per link; the response decides the verdict | rate limiter |
| Rate limiter (`internal/checker/base_checker.go`) | `lastRequestTime`, token bucket | `ApplyRateLimit`, `Take` | called by every goroutine that checks |
| Scheduler (`internal/scheduler/scheduler.go`) | cron entries, the map from task to entry, `scheduled_tasks` | load, reload, add, remove, fire, expire | task service, lifecycle through `ExecuteTask` |
| Task service and handler (`scheduled_task_service.go`, `scheduled_task_handler.go`) | `scheduled_tasks` | create, update, delete, enable, disable, run | scheduler |
| Run of a task (`task_scheduler_service.go`) | `task_executions` | fetch links, submit them, check them, record the outcome | lifecycle |
| Settings (`settings_handler.go`, `initCheckers`) | `settings`, the checker factory, TTL configuration | save per platform, reload the checkers | checkers, detection |
| Validator, configuration, authentication, statistics, system information, database start-up, frontend | none that the others depend on | see "not modelled" | |

What is hard in it: a row is claimed with one conditional `UPDATE`, and after
that every writer saves whole rows it has read earlier. Goroutines of old
scans run on `pending_links` as they were. Results go to two tables, one after
the other. Errors and panics are handled after the fact by saving the status
again; after a crash nobody looks. Scheduled tasks are read, executed for
minutes and saved as they were read. The map of cron entries is shared without
a lock. The hazards, each with its line and the properties that cover it, are
listed in `PROJECT.json`.

## 2. Modules

| Module | Models |
|---|---|
| `Submission` | the submission lifecycle, the request handler's choice, the runs of tasks with their executions, the background checker |
| `Lifecycle` | what the service promises for a submission: waiting, working, perhaps handed back with fewer links, finished with none |
| `MCSubmission` | small instances of `Submission` |
| `SubmissionProofs`, `SubmissionRowProofs`, `SubmissionLinkProofs` | theorems about `Submission`: who holds a row; what a row looks like; where links go |
| `Scheduler` | scheduled tasks and the cron scheduler |
| `MCScheduler`, `SchedulerProofs` | small instances of `Scheduler`; theorems about it |
| `RateLimiter` | the rate limit of a platform's checker |
| `MCRateLimiter`, `RateLimiterProofs` | small instances of `RateLimiter`; theorems about it |
| `Detection` | what a detection pass is relied on for: every link of it gets one possible verdict, or is lost in a panic, and the invalid ones are stored |
| `LinkCheck` | the detection passes over the links of one platform: Redis cache, `invalid_links`, `singleflight`, semaphore |
| `Checkers` | the nine checkers, each a conversation with its site; `LinkCheck` extends it |
| `MCLinkCheck`, `LinkCheckProofs`, `CheckersProofs` | small instances of `LinkCheck`; theorems about it; the lemmas about checks they rest on |
| `Settings` | the platforms' configurations, the requests that save them, the checkers in the factory |
| `MCSettings`, `SettingsProofs` | small instances of `Settings`; theorems about it |

The modules are at different levels and share no state. A run of a task is one
step of `Scheduler` (`Run`) that takes as long as it likes, and a worker with
`task = TRUE` of `Submission`, with its execution. The detection of links is
one step of `Submission` (`Check`); `Detection` is that step seen from below,
with its beginning, its verdicts one by one and its end, and `LinkCheck`
implements `Detection`. Every check waits in `RateLimiter` before its first
request: in `Checkers` that is the place `limit`. The checkers and their rate
limiters are those `Settings` has registered; `LinkCheck` is about passes that
hold one checker, as a pass does from `GetChecker` to its end.

### Submission

*Processes.* Worker `<<s, 0>>` is the request or scheduled task that creates
submission `s`; `<<s, k>>` with `k > 0` are goroutines the background checker
has started for `s`. `loop` is the background checker itself. `pc`, `job`,
`found` and `copy` are the program counter, arguments and local variables of a
worker; `rec` and `invalidLink` are the two tables, and `execution[s]` is the
status in the row of `task_executions` of the run that makes `s` (`left` is a
row that says `running` and that nobody will update).

*Steps.* One step is one database call with the computation around it, because
the database is the only thing the processes share. `Submit` and `Create` are
`CheckLinks`; `Claim`, `Check`, `Get`, `Save`, `Upsert` are the two detection
passes in the order of the code; `Restore` is the second save after a failed
one; `Panic`, `Recover`, `PutBack` are a panic in the body of a pass and the
deferred `recover` (the filtered pass has none); `Scan`, `Spawn`,
`FinishRead`, `FinishSave` are `CheckPendingSubmissions`; `ClearRateLimited`
is the administrator's request; `Crash` is the end of the process. A run is
`ExecuteTask`: `Submit` inserts its execution, ends it early (no data, a
script that fails, no link) or submits, and `Settle` is the deferred function
that takes the outcome from how the run has ended. Each database call may fail
(`Fails`), with the error path the code has.

*What is abstracted.* A link is a model value with a platform; unrecognised
links have a platform outside `Platform`. `Check` gives every link of a pass
any verdict the instance allows, which covers cache hits, known invalid links,
sites, timeouts, and platforms that are switched off (reported valid). A
goroutine of a link that panics leaves its link without a verdict. The rows'
other columns (times, duration, client, counts) are not read by anybody, and
no property is about them; a late writer may set them again. Links are the
normalised ones: that `original_links` keep the text as it was submitted, and
`pending_links` get a scheme, is left out.

The two passes are one set of actions: the unfiltered one is the pass whose
selection is all platforms (`Unfiltered`). They differ in what becomes of
links that are not covered (`Collected`), in `Save`'s error path and in
`Panic`.

### Scheduler

*State.* `task` is the table `scheduled_tasks`; `jobs` are the entries inside
cron, `entries` is the scheduler's map from a task to its entry, and the two
can disagree. `pc` and `my` are the places and local variables of the
goroutines: those that serve requests, those cron starts for an entry, and the
loop that looks for expired tasks. `my[a].row` is the struct a goroutine has
read or built and will write. `Zero` is Go's zero value: `Updated` is gorm's
`Updates`, which skips zero fields. `upset` is history: the tasks two
goroutines have written to at a time, and those that were written to while a
call failed, since the process has started.

*Steps.* One step is one database call or one access to cron and the map.
`CreateTask` ... `RunTask` are the beginnings of the handlers, up to their
first write; `Insert` and `Update` are the writes; `Reload`, `Remove`,
`Forget`, `Add`, `Enter`, `Map`, `Note` are `ReloadTask`, `removeTask` and
`addTask` in the order of the code. `Fire` is cron starting a goroutine, at
any time; `Execute`, `Run` and `Update` are `executeTask`, which holds its
copy of the row over the whole run. `Tick`, `Expire`, `Again`, `Drop` are the
loop. `Restart` is the end of the process and `Start`.

*What is abstracted.* What a run does and how it ends makes no difference to
the scheduler, which logs the error; it is in `Submission`. The schedule of an
expression is not modelled: an entry may fire whenever it is in cron. The
times of the last and the next run, the command, the script, the tags and the
description are written and read by nobody that the properties are about. Each
access to the map is atomic, and the end of the process that Go's runtime may
choose on concurrent writes of a map is `Restart`.

### RateLimiter

*State.* Instants are kept as ages: `sinceRequest` and `sinceRefill` are the
time since `lastRequestTime` and `lastRefill`, up to `Horizon`, beyond which
no comparison tells them apart. So the clock needs no bound and liveness can
be checked. `taken` and `own` are history: how many tokens were taken within
the last so many ticks, and when each goroutine sent its own last request.

*Steps.* `Call` is the first half of `ApplyRateLimit`: read, unlock, sleep.
`Take` is an attempt at a token, which leads on or to another sleep; `Send` is
the last assignment. `Tick` is time; a goroutine may oversleep.

### Checkers and LinkCheck

*A check.* `check[l]` is the check of link `l` that is going on, of which
`singleflight` allows one: its `step` is the request it waits for, `late` says
that the deadline of `context.WithTimeout` has passed, `code` that it uses a
passcode. `Begin`, `Admit` and `Expire` are the beginning of every `Check`;
then each platform has an action per request (`QuarkToken`, `BaiduVerify`,
...), whose disjuncts are the ways the request can fail (`Faults`) and the
answers, reduced to what the code tells apart, and a function from answer to
result (`QuarkListed`, `BaiduListed`, ...) that is the code's chain of
conditions. A result keeps `Valid`, `IsPasswordProtected` and `IsRateLimited`;
the reason is wording. A request that is late can only fail. No checker
returns an error, so the branches of `checkLinksWithConcurrency` for one
(631-701) cannot be taken and are not modelled.

*A pass.* `Start`, `ReadCache`, `ReadTable` are the work before the
goroutines; `Launch` is a goroutine that has passed the semaphore and gone on
with a hit, joined a check or begun one; `Return` and `Panic` hand the one
result, or the one panic, to everybody who waits; `Report` writes the cache
and appends to the lists; `Finish` is the upsert after `wg.Wait`. The
submission's own row is in `Submission`. `Tick` is an hour: Redis expires
keys, and what a pass holds of them grows older. A key that cannot be decoded
is no hit, link by link. `Crash` leaves cache and table. Redis and the
database may fail at every call. `condemned` is history.

*What is abstracted.* How a link is taken apart is its `shape`: whether the
patterns find an identifier, a passcode, a short link. Bodies, headers,
captcha signatures and the encryption of mobile cloud answers are data. Two
links of different platforms meet only in the database, so a pass has one
platform.

### Settings

`table` holds the rows `platform_rate_config_*`, `factory` the checkers with
the configuration each was made from. `Put`, `Save`, `Reload`, `Read`,
`Register` and `Answer` are one `PUT /settings/rate-config`: validation, one
row after the other, then `initCheckers`, which reads and registers platform
by platform and cannot tell a read that failed from a row that is not there.
`UpdateSetting` is the endpoint that writes a row without validation or
reload. `Begin`, `Look` and `End` are a pass as far as it reads the table and
the factory. `Start` is the end of the process, also the one Go's runtime may
choose when a pass reads the factory's map while a reload writes it, and the
next start. Of a configuration the flag and the concurrency are kept: the
delay and the rate go the same way, and the lifetime of cached results is read
only at a start. `dirty` and `clean` are history: whether anything has
happened that may part the checkers from the table, and whether a request runs
undisturbed.

### Properties and runs

| Run | Checks | Instance |
|---|---|---|
| `submission_shared` | `TypeOK`, `NoLinkVanishes`, `CheckedIsFinal` | two submissions over two links of two platforms, requests for all platforms or none and tasks, all verdicts, a scan of one row, no faults |
| `submission_faults` | `OnePassAtATime`, `NoneAbandoned`, `CheckedHasNothingPending`, `ListsDisjoint`, `OnlySubmittedLinks`, `PendingLeavesWithVerdict`, `RefusedIsTaken`, `LifecycleUntilFault`, `SubmittedLinksStay`, `SuccessIsChecked` | one submission, an unrecognised link besides, every kind of request, two goroutines besides the request, two faults of any kind |
| `submission_progress` | `EventuallyChecked`, `ImplementsLifecycle` | two submissions that select one platform, a scan of one row, fair scheduling, no faults |
| `submission_stuck` | `FailedPassRestored` is violated | a failing read before the final save |
| `submission_two_passes` | `ValidLinksKept` is violated | a request that selects one platform, then the background pass |
| `scheduler` | `TypeOK`, `MapKnowsCron`, `ActiveHasItsJob`, `StoppedHasNoJob`, `DeletedStaysDeleted`, `DueTaskExpires`, `ExpiresOnlyWhenDue` | one task, a request, a firing, the loop and deletions in any interleaving, one failing call or restart, fair scheduling |
| `scheduler_names` | `NamesUnique` is violated | two requests that create a task |
| `scheduler_stale_run` | `StoppedUntilRequested` is violated | a request during a run |
| `limiter` | `TypeOK`, `WindowBound`, `OwnRequestsSpaced`, `SomebodyGetsThrough` | three goroutines, a delay of 2, a bucket of 2 with a token each 2 ticks |
| `limiter_spacing` | `RequestsSpaced` is violated | two goroutines, a delay, no bucket |
| `detection` | `TypeOK`, `LateVerdicts`, `ResultsPossible`, `DeadWasFound`, `HitsDoNotProlong`, `AwaitedIsChecked`, `PassEnds`, `ImplementsDetection` | one link of each of 14 shapes in turn, two passes, a cache, every answer and fault of its site, fair scheduling |
| `settings` | `TypeOK`, `InForce`, `SemaphoreUsable`, `ShownIsUsed` | two platforms, two requests at a time, a pass, every failure, values of the other endpoint above the limit and half readable, a misconfigured default |

`NoLinkVanishes` relates the two tables: as long as nothing fails, and
requests select all platforms or none, every recognised link of a submission
is to be checked, valid, locked, known invalid, in the hand of a pass about to
store it, or was deleted by the administrator since the submission began.
Requests that select *some* platforms are left out because there it is false:
that is what `ValidLinksKept` shows. `PendingLeavesWithVerdict` says what
remains true for them: a link leaves `pending_links` only with its verdict.

`OnlySubmittedLinks` and `SubmittedLinksStay` are about the writers that save
whole rows from copies of different age, after faults too: whoever writes, the
lists are made of the row's own links, and what the client has submitted stays
as it is. `RefusedIsTaken` is the other half of the claim: a request or task
that does not get its row reports a failure (`task_scheduler_service.go` 127),
but the links are in the hands of another pass, or checked. `SuccessIsChecked`
is what a run may be recorded as: the outcome is taken in a deferred function
from a variable that every path of the run has to set, a recovered panic in
the pass included.
`LifecycleUntilFault` is `ImplementsLifecycle` for a service in which calls do
fail: up to the first failure the rows follow `Lifecycle`.

Without a lock much of what one would say of the scheduler is false once
operations on *one* task overlap: two reloads leave two entries, of which the
map knows one; a firing that read `stopped` removes the entry of a task
enabled meanwhile. The code does that, and no property denies it: such a task
is `upset`, and so is one that was written to while a call failed. What the
run says, it says of every behaviour. `MapKnowsCron` holds for upset tasks
too: the map never points to an entry that cron does not have, but in the
middle of a removal. `ActiveHasItsJob` and `StoppedHasNoJob` are about the
tasks that are not upset, and a start of the process, which reads the table,
leaves none upset. Deletions and manual runs upset nothing. Deleted tasks stay
deleted, a due task expires in the end, and *only* a due one does, or one a
request says so of (`ExpiresOnlyWhenDue`), although a firing and the loop
write whole rows they have read earlier. Two creations at once give two tasks
one name (`scheduler_names`).

`WindowBound` is what the bucket really promises: up to `Capacity` tokens at
once *and* what time brings, so a second may see almost twice
`max_requests_per_second`.

`LateVerdicts` says where a deadline that passes makes a link valid, over
every request of a conversation (a captcha that is late, for instance, must
not decide): on Xunlei, which looks at the context, and 123, which forgives
every error, and nowhere else. That is the code; the comments of UC announce
that it is lenient as well, see below. `ResultsPossible` says what a result
can be for a link, *wherever* it comes from: a passcode in the link rules out
"protected" on three platforms, also for a pass that shared, cached or stored
it. `DeadWasFound` is about the one verdict that is final: a dead row is never
checked again, so nothing may turn a rate limit into it, the cache's copy or
the row of one included. A check that fails counts as having found a link
dead, as it does in the code. `HitsDoNotProlong` bounds how old a cached
verdict can be although passes hold results across expiry and replacement.
`AwaitedIsChecked` ties the goroutines that wait, of all passes, to the one
check of a link: none of them waits for a result that nobody will bring, which
would take its slot of the semaphore for good. `PassEnds` is that panics,
which lose a link, do not keep its pass waiting.

`InForce` is what "saved, in force at once" (`settings_handler.go` 231) can
mean: after a save that nothing disturbs, every checker is the one its row
describes, those of *other* platforms included, whatever half-finished saves,
failed reads and overlapping reloads went before. While such a thing is not
repaired (`dirty`) it says nothing: overlapping reloads may leave an older
configuration in force until the next save. `SemaphoreUsable` follows the
capacity of a semaphore back through the factory to rows and files: there is
always a slot, whatever they hold, and more slots than a save accepts only if
the file says so or the other endpoint, which does not validate, has ever
written so (`excess`): the checker keeps the number until the next reload, and
the pass to its end. `ShownIsUsed` compares the two ways the flag of a row is
decoded: they differ on a row of which only the flag can be read, and no save
leaves such a row, only the other endpoint.

The violations are disagreements between the code and its own comments;
`PROJECT.json` quotes them under `findings`. Some more that have no run:

- When the final save of a pass fails, the record is saved again as pending
  "so that it can be retried" (`checker_service.go` 73, 266), but after
  `PendingLinks` was emptied and before the invalid links are stored: the next
  scan finds nothing to check.
- The loop removes the entries of "expired tasks" (`scheduler.go` 202) by asking
  for active rows after it has set them to expired, so it finds none; an entry
  stays until it fires.
- UC's timeouts and connection errors are meant to count as valid
  (`uc_checker.go` 75, 80). The error of `Do` is neither a `TimeoutError` nor does
  it contain `ConnectError`, so they count as dead, for good (`UCFailed`).
- A configuration is "in force at once" (`settings_handler.go` 231), but the
  lifetimes of cached results are loaded at start only: `UpdateTTLConfig` ("for
  dynamic updates", `checker_service.go` 47) has no caller.
- An `Exceed` error of Aliyun, which the code calls a rate limit
  (`aliyun_checker.go` 176), yields an empty answer and counts as valid.

*Bounds.* Two workers besides the request are enough for a stale goroutine, a
second stale goroutine and a request to meet at one row, which is the most
that a conditional `UPDATE` has to keep apart: a third would stand where one
of the others stands. Two submissions over the same links are needed because
`invalid_links` is shared; `BatchLimit = 1` makes the scan leave a row behind,
as ten does with eleven. Two faults let a restore, or a recover, fail as well.
`Goroutines` and `MaxFaults` are the only bounds of `Submission` that the code
does not have. The two submissions of `submission_shared` are interchangeable,
so the run uses them as a symmetry set, as `settings` does with its
administrators; the other runs use none.

In `scheduler` a request and a firing meet the loop: three goroutines that
hold a copy of one row, which is all that the table, cron and the map can
confuse. `Together = 4` lets all of them work, and a delete beside them, so
the bound never keeps a goroutine waiting. The task is created with a time to
expire or with a malformed expression, and a request changes its time and
expression. Two entry ids are enough for an entry the map has lost beside the
one it knows; ids nobody knows any more are used again. One fault lets a call
fail, or the process restart, once. One task is enough because a step concerns
one: that no operation touches the entry of another is proved (`EntriesOwn`),
for any number of tasks. Two requests that reload a task at once are in the
proofs only; a firing beside a request is enough to upset it and to lose an
entry. `limiter` has three goroutines, since with an interval of two ticks two
suffice to poll out of step and the third stands for those that arrive later;
`Horizon` is not a bound but an exact abstraction, as `TimesAssumption` says.

`detection` has one link, because links of a platform meet only in the semaphore
of a pass; one slot and two passes make goroutines of different passes share a
check, and a pass hold a hit while another replaces it. The theorems cover any
number of links, slots and passes. The shapes left out behave like one of the
14: a link of another platform that is malformed ends like the 115 link without
a passcode (Baidu's malformed ends elsewhere and is in), and only Quark, Baidu,
Tianyi and 115 look at a passcode in a way that matters to the result. Lifetimes of one and
two ticks are enough for a key to expire before, while and after it is used. In
`settings` two requests let reloads overtake each other, two platforms let a save
concern one and repair the other; a limit of five stands for a hundred (no less,
because a semaphore of a limit that makes no sense has five slots), with
configurations at and above it, one above it and one half readable from the
other endpoint, and the default of the configuration file is -1. `Admin` and
`Pass` are the only bounds.

*Fairness.* `EventuallyChecked` assumes weak fairness of the steps of a
request that has begun, of each pass and of the background checker. Goroutines
are scheduled by the runtime, database calls return, every HTTP client of a
checker has a timeout, and the background loop never leaves its `for`. Nothing
is assumed of clients, the administrator or faults. Per worker, fairness is of
the disjunction of its steps: a pass is at one place at a time.
`DueTaskExpires` assumes the same of goroutines of the scheduler and that the
ticker ticks, as a step that moves the goroutine (`WF_control`): a fault that
leaves everything as it was is no progress. Nothing is assumed of the clock,
requests, cron or faults.
`SomebodyGetsThrough` assumes that the clock runs and that a goroutine whose
sleep is over is scheduled. It does not say that *every* goroutine gets
through: the polling is not fair, and the code does not promise it.

`PassEnds` assumes that goroutines are scheduled, that requests end (by the
deadline, or the client's own 30 seconds) and that a check gets past the rate
limit. With one link this is what `SomebodyGetsThrough` promises; with several
links of a pass waiting at once it would be more. Nothing is assumed of the
deadline, of Redis or of panics. The `settings` run assumes no fairness: it
checks safety only.

### Proofs

All theorems hold for any number of submissions, links, platforms, goroutines,
passes, requests and faults, under the assumptions on the constants that the
modules name. Some have an assumption of their own: `LinksStay` is about
requests that select all platforms or none, and `LifecycleImplemented` about a
service without faults (`LifecycleFollowed` is not). The theorems about
`Scheduler` are about all its behaviours.

| Theorem | Says |
|---|---|
| `TypeCorrect` | `Spec => []TypeOK` |
| `OnePass` | `Spec => []OnePassAtATime` |
| `NoRowStuck` | `Spec => []NoneAbandoned` |
| `DisjointLists` | `Spec => []ListsDisjoint` |
| `CheckedIsComplete` | `Spec => []CheckedHasNothingPending` |
| `RowsOfTheirLinks` | `Spec => []OnlySubmittedLinks` |
| `SubmittedLinksKept` | `Spec => SubmittedLinksStay` |
| `CheckedStays` | `Spec => CheckedIsFinal` |
| `LinksLeaveWithVerdict` | `Spec => PendingLeavesWithVerdict` |
| `RefusedAreTaken` | `Spec => RefusedIsTaken` |
| `SuccessMeansChecked` | `Spec => []SuccessIsChecked` |
| `LinksStay` | `Spec => []NoLinkVanishes`, if `NoneOrAll` |
| `LifecycleFollowed` | `Spec => LifecycleUntilFault` |
| `LifecycleImplemented` | `Spec => ImplementsLifecycle`, if `MaxFaults = 0` |
| `SchedulerProofs!TypeCorrect` | `Spec => []TypeOK` |
| `DeletedForGood` | `Spec => DeletedStaysDeleted` |
| `ExpiryInTime` | `Spec => ExpiresOnlyWhenDue` |
| `EntriesOwn` | `Spec => OwnEntryOnly` |
| `MapKeepsUp` | `Spec => []MapKnowsCron` |
| `TaskKept` | `Spec => [](...)`: a task that is not upset and that nobody works on has in cron and the map what its row asks for (`Kept`) |
| `ActiveTasksScheduled` | `Spec => []ActiveHasItsJob` |
| `StoppedTasksRemoved` | `Spec => []StoppedHasNoJob` |
| `RestartReschedules` | `Spec => [][...]_vars`: after a restart every task is `Kept`, whatever the state before |
| `RateLimiterProofs!TypeCorrect` | `Spec => []TypeOK` |
| `OwnDelayKept` | `Spec => OwnRequestsSpaced` |
| `BucketBound` | `Spec => []WindowBound` |
| `LinkCheckProofs!TypeCorrect` | `Spec => []TypeOK` |
| `NoLateVerdict` | `Spec => []LateVerdicts` |
| `OnlyPossibleResults` | `Spec => []ResultsPossible` |
| `DeadOnlyIfFound` | `Spec => []DeadWasFound` |
| `NoHitProlongs` | `Spec => []HitsDoNotProlong` |
| `AwaitedAreChecked` | `Spec => []AwaitedIsChecked` |
| `PassesCanGoOn` | `Spec => [](...)`: a pass that works has a goroutine that can begin, report, or waits for a check that goes on, or all its links are through |
| `DetectionImplemented` | `Spec => ImplementsDetection` |
| `SettingsProofs!TypeCorrect` | `Spec => []TypeOK` |
| `InForceAfterSave` | `Spec => []InForce` |
| `SemaphoreAlwaysUsable` | `Spec => []SemaphoreUsable` |
| `ShownAlwaysUsed` | `Spec => []ShownIsUsed` |

`OnePass` and `NoRowStuck` rest on the invariant `LockInv`. Mutual exclusion
alone is not inductive: a claim needs a *pending* row, so one has to know that
a row somebody holds is not pending (`HeldRows`), which for an unfiltered pass
remains true after its save because such a pass keeps no links and writes
`checked`; and the insertion of a row and the scan's own save must not hit a
row that is held (`RowsExist`). The proof reduces every step of a worker to
one lemma, `WorkerStep`, and its frequent cases `LeaveStep` and `HoldStep`.

`DisjointLists` needs the lists of every place a row is written from to be
disjoint: the lists of a pass, the copy a recovering pass has read, the row
the scan has read (`ListsInv`). `RowsOfTheirLinks` and `SubmittedLinksKept`
need `LinksInv`: every copy a row is written from (a request's, a pass's, the
one of a recovering pass, the scan's) names the links the row itself has, and
the links a goroutine was told are among them. A row that is there is never
created again, which is `RowsExist` of `LockInv`; so no links are exchanged
under a copy.

`SuccessMeansChecked` needs `RunInv` beside `LockInv`: the pass of a run that
has got as far as its last write, or has ended well, has left its row checked
(`Reported`, `Good`), and nobody else has the row or can claim it; and a run's
pass covers all platforms, so it leaves no link pending. This holds after
faults too: a pass whose read or save fails does not end well, and one whose
upsert fails has saved its row before.

The theorems of `SubmissionLinkProofs` are about copies that are old.
`pending_links` reaches a pass through a request or a scan, and the row may have
been handed back or checked meanwhile. `LinkInv` says how a copy may differ from
its row until something fails: whoever is on the way to a `Save` has been told
*at least* what is pending (`Told`), has sorted what it was told (`Sorted`), and
meets a checked row only where there was nothing to check; a scan has read no
less than is pending (`EntryQuiet`), and the row it saves differs in its status
at most (`SaveQuiet`). From this follow, step by step, `CheckedIsFinal`,
`PendingLeavesWithVerdict` and the refinement: `Create` maps to `Arrive` of
`Lifecycle`, `Claim` to `Start`, `Save` to `HandBack` or `Finish`, the scan's own
save to `Finish`, everything else to a stutter. `LifecycleFollowed` says so step by step for steps
after which nothing has failed, and `LifecycleImplemented` is its special case.
`RefusedAreTaken` needs both invariants: a refused pass has met a row that is not
pending; the row exists (`Told`), and a row in checking has a pass that works on it
(`NoRowStuck`). `LinksStay` needs `AccountInv`
besides, which bridges the two gaps during which a link is in neither table:
between `Submit`, which leaves out what is known to be invalid, and `Create`
(`RequestAccount`), and between `Save` and `Upsert` (the hand of the pass). It is
inductive for passes over all platforms only: those write `checked`, so no
results are overwritten.

For `Scheduler`, type correctness needs one fact beside the types
(`InsertsStatus`: what is about to be inserted has a status). `DeletedForGood`
follows action by action, because every write goes through `Saved`, which does
not touch a row that is gone.

The theorems about interleavings of the scheduler rest on `Base`: what the
place of a goroutine says of its locals alone (`Formed`), which no other
goroutine can disturb. `ExpiryInTime` adds `Dated`: what a firing or the loop
will write as expired was due when it was read. The row in the table may have
another time by then, but the write brings the old time with it, and so the
row it leaves is due. `EntriesOwn` adds `IdsApart` (no two entries share an
id, and no id in the map or in a local is that of another task's entry) and
`Unmade` (cron and the map know nothing of a task not yet created), since an
id is only as good as its owner.

`MapKeepsUp` adds to that what the id in the hand of a goroutine between
`Enter` and `Map` stands for (`Holds`): an entry in cron of its own task,
which nobody else knows. So nobody else can remove it before it is in the map.

`TaskKept` is about one task at a time. `Settled(t)` gives each place of an
operation on `t` what it has already done to the entry and what its copy of
the row still has in common with the table (`Phase`), and says that a task
nobody is rescheduling has what its row asks for (`Kept`, `Known`); a task may
lose its entry only if its row asks for none or is about to be looked at again
(`MayLose`). The invariant is `Calm`: a task is upset, or it is settled and at
most one goroutine writes to it. A step of that goroutine is the step of the
only one, and by `IdsApart` a step of anybody else leaves `t`'s entries alone:
this is where `EntriesOwn` pays, because it makes each task's part of the
invariant its own, and a task is upset by its own writers only. A write that
fails leaves cron as it was, so it upsets the task; `Restart` reads the table
again and establishes `Settled` for every task from any state, so that none is
upset after it (`RestartReschedules`).

For `RateLimiter`, `OwnRequestsSpaced` needs `OwnInv`: a goroutine's own last
request is no later than `lastRequestTime`, and the sleep that is left makes
up for what is missing of the delay. `RefillRateType` and `RefilledType` are
the facts about the integer divisions. `WindowBound` needs a quantity that
pays for every token in advance: `Credit`, the time that the tokens in the
bucket and the fraction of an interval since the last refill are worth, cut
off where the next refill will cut it. A token costs an interval of it
(`TokenCosts`), whether the refill before it forgets a fraction or is too
early to add anything, and a tick brings one tick at most. `WindowInv`, what
was taken in a stretch of time and the credit together, is inductive; the
bound alone is not, since it does not see what is still in the bucket.

One invariant carries the theorems about `LinkCheck`. A check is sound
(`CheckersProofs!Sound`) if its step is one of its platform's and its result
possible for the shape of its link. That a passcode in the link rules out
"protected" needs that the conversation *uses* it; that a late result is valid
only on two platforms needs that a late request can only fail. Each item of a
pass, key and row is sound relative to the shape of its link and to `condemned`:
no two of them have to be related, which is why the invariant is a conjunction
over links. `HitsDoNotProlong` needs one more fact: what did not come from the
cache has age 0. `AwaitedAreChecked` does relate passes: `WaitInv` adds that only a
pass that works has goroutines that wait, or the end of a pass would leave a check
that nobody waits for; and a check that has begun ends in `Return`, `Panic` or
`Crash` only, whatever its site answers (`CheckersProofs!GoesOn`). `PassesCanGoOn` is the half of
`PassEnds` that needs no fairness: the semaphore is a set of goroutines of which
each can go on, or waits for a check that goes on; what remains for TLC is that
it does go on. For the refinement each action maps
to one of `Detection`'s or to a stutter: `Start` to `Take`, `Report` to `Settle`,
`Panic` to `Lose`, `Finish` to `End`.

`InForceAfterSave` rests on `Clean`: a request that nothing has disturbed is
alone, and the platforms it has already registered, as well as the one in its
hand, agree with the table; and whoever disturbs it says so in `clean` and
`dirty`. `SemaphoreAlwaysUsable` and `ShownAlwaysUsed` rest on `LimitInv`,
which says of each row who has written it (`Known`: nobody, a save, which
validates, or the other endpoint) and follows that through the requests to the
checkers, those in the hand of a reload included, and to the passes.

Every safety property of the passing runs is proved. Liveness
(`EventuallyChecked`, `DueTaskExpires`, `SomebodyGetsThrough`, `PassEnds`) is
model-checked only: the prover does not handle fairness, nor the `ENABLED` in it. The violations are
counterexamples on small instances.

## 3. What is left

1. One module that composes passes with reloads, so that an old and a new rate
   limiter of a platform work side by side.
2. What of a row survives a fault: which lists a row keeps that stays in
   `checking`, or that `Restore` puts back.
3. A bound on the requests sent in a window: `WindowBound` is about tokens, and a
   goroutine may send later than it took its token.
4. The number of requests of a check, which is bounded on every platform.

## 4. Not modelled

The scripts and curl commands of tasks are string processing and an embedded
interpreter. Configuration, authentication, statistics, system information and
the frontend keep no state the rest depends on. The Redis configuration is a
row that is read at the start only; whether the cache is there is a constant
of `LinkCheck`. Opening the database is a fixed number of retries before
anything else runs. The patterns, headers, signatures and encodings of the
platform checkers are data: `Checkers` keeps what they let the code tell
apart.
