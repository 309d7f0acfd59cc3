# Distri, modelled in TLA+

TLA+ modules, TLC runs and TLAPS proofs for the Redis-backed task queue in this
repository. Paths are relative to the repository root, so `src/worker/Watchdog.ts`
is the watchdog; `WorkerPool.ts:134` is a line of it.

## 1. The system

| Component | State it keeps | Operations |
| --- | --- | --- |
| Producer, `src/queue/Queue.ts` (and its copy `distri-sdk/`) | none between calls | `enqueue`: HMSET the job, then LPUSH its id, or run the `idempotentEnqueue` script and DEL the job if the key was lost |
| Job store, `src/lib/redis/*` | everything, in Redis: `job:<id>`, `queue:<q>:waiting:<p>`, `:processing`, `:delayed`, `:dead`, `active_jobs:<q>`, `heartbeat:<id>`, `idempotency:<key>`, three counters | key names, (de)serialisation, partial updates |
| `src/worker/WorkerPool.ts` | the job in each loop's hands, the loops' promises | poll, process, heartbeat, retry or bury, clean up; start, shutdown |
| `src/worker/Watchdog.ts` | snapshots of a run, its timer | find ids without heartbeat, requeue or discard; start, stop |
| `src/scheduler/Scheduler.ts` | due ids of a run, its timer | move due ids back to their list; start, stop |
| REST API, `src/api/routes.ts` | the depth gauge | `POST /jobs/:id/retry`; routes that read |
| Bootstrap, `src/index.ts`, `src/worker.ts`, `src/server.ts` | which components share a process | start, graceful shutdown on a signal |
| `frontend/` | rows, stats, tab, spinner of a page | poll `GET /stats` and `GET /jobs`, retry |
| `scripts/` | a run's counters | flush, enqueue, run a pool, shut it down |
| Client, `src/lib/redis/client.ts` | the connection | reconnects and sends again what was not answered |
| Config, metrics, logger, errors | nothing a decision reads | - |

The components never call each other. They share Redis, and a job *is* the places
its id is in: one of the waiting lists, the processing list, the delayed set, the
dead list, the active hash, plus the status field of its hash. Each component
moves the id with several commands and decides from earlier reads. What makes it
hard:

* a worker process may die between any two commands; the watchdog must find the job;
* the watchdog decides from four reads of different age, and takes a worker that
  has not sent its first heartbeat for a dead one;
* every process has a watchdog and a scheduler, and `setInterval` starts a run
  while the last is still going: runs overlap;
* one id can be in a list twice, and `LREM 1` does not know whose copy it removes;
* the status is written by one command and the list by another;
* Redis runs with `allkeys-lru` (`docker-compose.yml:12`): job hashes can vanish;
* a command whose reply is lost with the connection is sent, and may be executed, again;
* a shutdown waits for loops that are working, twice when two signals come, and a
  benchmark starts one from inside a job;
* intervals, a time to live, back-offs and clocks of different processes must fit;
* a page's requests overlap and are answered in any order.

What makes each part correct: the producer publishes only complete jobs, once per
key; a worker leaves a job where the next component looks for it; watchdog and
scheduler never make a job unfindable; the status that `GET /jobs/:id` reports is
borne out by the lists; every job comes to an end; a shutdown ends, and leaves no
job half done; the heartbeat outlives the interval; a page shows in the end what is
in Redis.

## 2. Modules

| Module | Models | Remarks |
| --- | --- | --- |
| `RedisStore` | keys and commands | lists as sequences (oldest first), the processing list as a count per id, dead list, delayed set and active hash as sets of ids |
| `Queue` | `enqueue`, one action per command; `SdkEnqueue`, the SDK's | `call[j]` is how far the call that drew uuid `j` got |
| `WorkerPool` | `workerLoop`, `processJob` | `wpc[w]` names the command worker `w` sends next |
| `Watchdog` | `checkStalledJobs` | a constant set of runs that may overlap |
| `Scheduler` | `processDelayedJobs` | likewise |
| `RetryApi` | the retry route | a read, then a MULTI |
| `Distri` | all of them, crashes, heartbeat expiry, eviction; the properties | |
| `DistriResend` | `Distri` over a connection that breaks | commands that take effect without their sender knowing |
| `DistriRecord` | `Distri` with a record of the jobs that were pushed on the strength of a stale read, and of what was pushed during a worker's pass over the lists | two history variables; no step more or less |
| `JobLedger` | abstract: what the queue promises its callers | implemented by `Distri` (`KeepsLedger`) |
| `JobLife` | abstract: the life of a job nobody takes from anybody | implemented by `Distri` without watchdogs (`LeadsJobLife`) |
| `Programs` | the five programs from boot to exit: pool, timers, server, client, signals | one action per stretch of code between two awaits |
| `Timing` | one job in time: heartbeat, TTL, intervals, back-off, clocks | ticks |
| `Dashboard` | `GET /stats`, `GET /jobs`, the gauge, the two pages | |
| `MCDistri`, `MCResend`, `MCRecord` | values of the constants for TLC | the other three are their runs' modules themselves |
| `DistriProofs` | proof: the types; the order of service | one lemma per store operation and per component |
| `DistriSafety` | proof: what circulates is whole; tokens cover their holders; the ledger's safety; idempotent enqueue | extends `DistriProofs` |
| `DistriLoss` | proof: a loss takes two faults; the status is borne out | extends `DistriSafety` |
| `DistriLife` | proof: a job nobody raced over is in one place; without rivals it leads the life of `JobLife` | extends `DistriSafety` |
| `DistriResendProofs` | proof: what commands executed twice can do | extends `DistriResend`, `DistriLoss`, `DistriLife` |
| `ProgramsProofs`, `TimingProofs`, `DashboardProofs` | proofs about these modules | |

Definitions whose comment begins with "Mutant:", or that are named for a bug and
stand before the definition they distort, are no part of the specification: they show
that the properties notice the bug.

### The queue: `Distri` and its parts

One action is one Redis command, MULTI or script, since Redis runs these one at a
time; what the code does between two replies is local and belongs to the step
before. A component's module says which variables of the store each action changes
and which it leaves alone; `Distri` adds that the other components' variables stay.

* *Time.* A delay may have elapsed, a timer may have fired, whenever the component
  looks. A heartbeat key does not expire while a live worker renews it, except for
  `MaxLapses` stalls of an event loop longer than the TTL; without a renewing worker
  it may expire at any moment. `Timing` says when that picture is right.
* *Job hashes* are absent, partial (recreated by a write after an eviction, so
  without type, data and priority) or full. Reading a partial one throws in
  `JSON.parse`, which the loop's catch swallows.
* *Commands do not fail* in `Distri`, because the client waits for the connection for
  ever (`client.ts:35`). `DistriResend` adds that they may be executed twice.
* *Crash(n)* empties the memory of all workers, watchdog runs and scheduler runs of
  process `n` and lets them start again. Retry requests and enqueue calls have no
  fairness, so one that stops is one whose process died.
* `attempts` saturates at `AttemptsCap`, above every `maxAttempts`; the code compares
  it with nothing larger.
* The entry in the active hash and its worker id are read by nothing and left out.

`abandoned`, `robbed`, `done` and `evicted` are history variables: jobs a worker
crashed with (until somebody puts the id back on a list), jobs a watchdog took from
a live worker, jobs that completed once, jobs whose hash was evicted. No action of
the code reads them.

### The record: `DistriRecord`

It adds two history variables to `Distri`, which no guard reads, so the behaviours are
those of `Distri`. `stray` is the set of jobs that a watchdog requeued while they were
on a list, delayed or with a worker (`Watchdog.ts:75-83`), that a scheduler released
although they were no longer delayed (`Scheduler.ts:53`), or that a retry request pushed
although they were no longer dead or failed (`routes.ts:148`): the three MULTIs that do not
look again. `late[w]` is what was pushed, by anybody, since worker `w` last began at the top
of the lists.

### The connection: `DistriResend`

ioredis, built with `maxRetriesPerRequest: null`, gives no command up: one whose
reply did not come before the connection broke is sent on the next connection. So
for a command `c` there is an action in which Redis executes `c` and the sender stays
where it is, about to send it: the store changes and nothing else. `resent` records
which command and which job. Commands whose second execution nobody can tell from
the first (reads, SET of a heartbeat, HSET of the active hash, HMSET and DEL of a hash
only its own call knows) have none. The idempotency script is special: run again, it
finds its own claim and answers the caller's own id (`AnswerOwn`).
Of a MULTI that is cut off half-way the client rejects `exec()`; this is modelled where
the code catches it, for the success MULTI (`WorkerPool.ts:145-149`): executed, then
`CountFailure`. Where nothing catches it, the loop or run ends there, which is a crash
of that loop or run.

### The programs: `Programs`

A thread is a chain of callbacks: the main program, one delivery of a signal, or the
shutdown that a benchmark's handler starts without awaiting it (`benchmark.ts:65`).
`pc[t]` is the await it is suspended at; several threads may be in the same `shutdown()`.
Of the queue only what the shutdown can see is left: for a service there may always be
another job, for a script `queue` counts the jobs it has enqueued. Signals are those of
the services; the scripts have no handler for them. The pool is started once in every
program, so `start()` on a running pool does not occur. Watchdog and scheduler runs may
be under way when the process ends (`worker.ts:37` does not await `stop()`); for the
queue that is a crash of the run, which `Distri` has.

### Time: `Timing`

One job, one worker, the watchdog and the scheduler of a process that lives, integers
for the time left. Timers fire up to `Lag` late, clocks differ by up to `Skew`, commands
take no time. A handler may run for ever: `Finish` and `Fail` happen at any tick. Between
`Take`, the RPOPLPUSH, and `FirstBeat` any time may pass, since the commands between
them wait for the connection; a watchdog that looks then finds a live worker's job without
a heartbeat and takes it (`"robbed"`, with which the model of this job ends; what becomes
of such a job is in `Distri`).

### The dashboard: `Dashboard`

`fetch[f]` is a request under way: sent, its ids read, answered or failed, and whether
the page that sent it is still mounted. Two lists, waiting and dead, stand for the
eight that the routes read, and the depth is their sum. What the rest of the system
does to lists and hashes is reduced to moves a reader can notice. `tab` and route
changes, ticks of `setInterval`, lost requests and the retry button are the actions.
`posts[j]` counts the retry requests sent for a job and those past their check; the button
stays enabled, so there may be several of each.

## 3. Properties and runs

Passing runs:

| Run | Instance | Checks | States |
| --- | --- | --- | --- |
| `one_of_each` | 1 job of 2 attempts; a worker, a watchdog run, a scheduler run in one process; 1 crash, 1 stalled event loop, 1 eviction | `TypeOK`, `StatusTruthful`, `LossNeedsBoth`, `Accounted`, `OnePlaceUnlessRaced`, `OnlyOrphansDiscarded`, `KeepsLedger` | 606 000 |
| `exactly_once` | 2 enqueues under one key that expires once, on 2 lists, one of a type nobody handles; 2 workers in 2 processes, scheduler run, retry requests, 1 crash, no watchdog | `OneJobPerKey`, `LoserGetsTheJob`, `PublishedAreWhole`, `OneRunner`, `OnePlaceUnlessRaced`, `NothingStray`, `OvertakesInPassing`, `LeadsJobLife` | 150 000 |
| `lost_reply` | 1 job, 2 workers, a watchdog run, 1 crash, 1 command executed twice | `ResendTypeOK`, `LossNeedsTwo` | 1 836 000 |
| `sent_twice` | 2 enqueues under one key, 2 workers, scheduler run, retries, 1 crash, 1 command executed twice, no watchdog | `RunTwiceNeedsPushOrVerdict`, `DuplicatesAreIdle`, `LossNeedsTwo` | 295 000 |
| `programs` | each program; 2 loops, 2 signals, 2 jobs, 3 benchmark runs | `TypeOK`, `GracefulExit`, `RoundsApart`, `Stops`, `ScriptsEnd` | 2 600 |
| `timing` | interval 2, TTL 5, watchdog 3, scheduler 2, cap 5, 4 attempts, lag 1, skew 1 | `TypeOK`, `HeartbeatHolds`, `RescuedInTime`, `RetriedInTime`, `NotBeforeBackoff` | 9 100 |
| `dashboard` | 2 jobs, pages of 1 row, 2 requests at a time, 3 moves, 3 clicks, 1 lost request | `TypeOK`, `DepthWasTrue`, `Converges`, `SpinnerStops` | 200 000 |

* `StatusTruthful`: whatever races, the status left in the hash is borne out by a
  list or by a worker that is about to write the next one, unless the last worker to
  hold the job crashed or the hash was evicted.
* `Accounted`: each worker that has a job has a token of its own in the processing
  list, unless a watchdog robbed it.
* `LossNeedsBoth`: a published job is in a list, the set, the processing list or with a
  worker that has yet to decide, or it has completed, unless a watchdog robbed a live
  worker of it *and* a worker crashed with it. Either fault alone loses nothing.
* `KeepsLedger`: `Distri` implements `JobLedger` with its fairness: only accepted jobs
  run or are buried, what has run has run, and every accepted job is run or buried.
* `PublishedAreWhole`, `OneJobPerKey`, `LoserGetsTheJob`: what idempotent enqueue owes.
* `OneRunner`: where no watchdog runs, and schedulers and retries do not overlap, two
  workers never have the same job before its outcome is written.
* `LeadsJobLife`: under the same conditions `Distri` implements `JobLife`: a job is in one
  place at a time, moves only from where it is, and its attempts count its failures.
* `OnlyOrphansDiscarded`: the watchdog's clean-up branch never drops a real job.
* `LossNeedsTwo`: with lost replies too, a job is lost only by somebody who had it and no
  longer does (a crash, or an RPOPLPUSH whose reply was lost) *and* somebody who removed
  a token not his own (a robbed worker, or a clean-up executed twice).
* `RunTwiceNeedsPushOrVerdict`: where no watchdog runs, two workers come to run one job only if one of these was
  executed twice for it: the LPUSH of an enqueue, the ZADD, the MULTI of a release or a
  retry; or the HMSET to dead, which pushes nothing, but, executed again after a retry that
  its first execution allowed, makes a job on a list retryable; or a claim whose key then ran
  out. Not so a pop, a clean-up, the dead-letter LPUSH, the HSETs to active and failed,
  the HMSET to delayed, or the success MULTI, after whose lost reply the job is retried, but
  by nobody while it is run. The run shows that it needs each of delay, release, retry and
  condemn: without any one of them in `Pushes` or `Verdicts` it is violated there. Both
  of its jobs have a key and none runs out (`MaxExpiries` is 0, for its size): that push and
  claim are needed, too, was seen with one job without a key and with one expiry, and the
  theorem has neither bound.
* `DuplicatesAreIdle`: the hash an enqueue deletes after losing its key is nobody's job.
* `OnePlaceUnlessRaced`: with any mixture of watchdogs, schedulers and retries, one worker
  at a time runs a job, and nothing lists or delays it meanwhile, until one of the three
  pushes above goes ahead on a stale read. So these three races are all there is: no crash, no
  interleaving of workers and no order of arrival makes two workers run a job at once by
  itself. One after the other they may: a worker that dies after the success MULTI and before
  its clean-up leaves a completed job in the processing list, and the watchdog has it run again.
* `NothingStray`: where no watchdog runs, and schedulers and retries do not overlap, none of
  those pushes is ever stale.
* `OvertakesInPassing`: when a worker asks a list, every job on a higher list was pushed
  during this pass; what README.md:65 (see below) overstates, stated as it is.
* `GracefulExit`: when a shutdown has closed the client or ended the process, no loop has
  a job or a poll under way and no request is open, whoever else is shutting down.
* `RoundsApart`: no benchmark run flushes and fills the list while a loop of the run before lives.
* `Stops`, `ScriptsEnd`: a signal ends the process; the scripts end.
* `HeartbeatHolds`, `RescuedInTime`, `RetriedInTime`, `NotBeforeBackoff`: a living worker's
  key does not run out once it has been set; an orphan is requeued within TTL + interval +
  lag (`DOCUMENTATION.md:1055`, without the lag); a retry is back on its list no earlier than
  the backoff of its own attempt, 1000 * 2^attempt up to the cap, less the skew, and no later
  than that backoff, the jitter, the skew, an interval of the scheduler and its lag.
* `Converges`, `SpinnerStops`, `DepthWasTrue`: when the queue rests, the page shows it,
  whatever order answers came in; no spinner for ever; no depth that never was.

Runs that refute what the repository says (each checks one property):

| Run | Refutes | What happens |
| --- | --- | --- |
| `lost_job` | README.md:59 "guarantees zero data loss" | false alarm gives W1 and W2 the same job; both fail it; W1 cleans up; the scheduler releases it; W1 takes it again; W2's cleanup removes W1's token; W1 crashes: no list has the id. Needs `maxAttempts` of 3 or more |
| `double_release` | Scheduler.ts:12 "atomically transfers" | two schedulers read the due id; both push |
| `never_buried` | DOCUMENTATION.md:526 "sends permanently broken tasks to a special inspection queue" | unknown type: failed, left in processing, requeued, and so on for ever |
| `zombie` | Watchdog.ts:86 "cleaning up orphans" | a write after the eviction makes a partial hash: not an orphan, not a job, requeued for ever |
| `stale_gauge` | DOCUMENTATION.md:335 "How many jobs are waiting right now?" | only `GET /stats` sets the gauge that `GET /metrics` reports |

Disagreements met on the way that have no run of their own. The trace of `lost_job`
begins with a watchdog that takes a job from a live worker which has popped it and not
sent its first heartbeat, against README.md:62 "If a heartbeat drops, it definitively
proves process death". Two retry requests that both saw a job dead push it twice,
against routes.ts:145 "Only dead/failed jobs can be retried." The card "Dead-letter
routed" (`Dashboard.tsx:91`) shows `jobs_failed_total`, which counts every failed
attempt; "Jobs currently waiting" (`Dashboard.tsx:97`) adds up delayed and dead jobs
as well; "The ... register is empty" (`JobsList.tsx:111`) also appears when the request
failed; the tab "failed" lists the dead-letter list only; README.md:65 promises that
high-priority tasks are "*always* processed before normal tasks" where each list is polled by
a command of its own, and a high job pushed after its list answered empty is overtaken by a
normal one (`OvertakesInPassing` says that this is all that can happen); the defaults in the table
of DOCUMENTATION.md (1040-1051) are not those of `config/index.ts`.

Bounds. One job is enough where the property is about one job, because jobs meet only
in the order of a list and in a worker's attention; two workers are needed for every
race between workers; `MaxCopies` is 2, one more than a single job needs, so ids do
get duplicated (and a worker can hold each). `AttemptsCap` is one above the largest
`maxAttempts`. `Twice` is the smallest `maxAttempts` with a retry; `lost_job` needs 3.
`CounterCap` is 0: no property reads the metric counters. One resend is enough for
every property that names one; two of them are not explored. In `programs` two loops
and two signals are the least with which a shutdown can wait for one loop and not
another, and three runs the least with a throughput run after another and before the
latency run. In `timing` the values keep the order of the configured ones: TTL above
two intervals, cap below the last power of two. In `dashboard` two requests are the least
that overtake each other, one row per page the least that makes two pages of two jobs.
The `lost_reply` and `sent_twice` runs use symmetry of workers (in one process) and of
jobs (of one key, all handled); they check invariants only. `one_of_each` has
the watchdog's stale requeues, `exactly_once` the two workers and the two lists; two scheduler runs that push one job
are in `double_release`, and with two workers, a watchdog and a retry in the theorem
`RacesAlone`. Deadlock is checked in the
queue's runs and in `timing`, where something can always happen; not in `programs`, whose
process ends, nor in `dashboard`, where the landing page sends nothing.

Fairness.

* `Distri`: weak fairness of each worker's steps, of its heartbeat timer, of each
  watchdog and scheduler run, and of the expiry of a heartbeat nobody renews: the loops
  run for ever (`WorkerPool.ts:81`), timers repeat, handlers return, Redis expires
  keys. Enqueue calls, retries, key expiry, evictions and crashes are not fair.
* `Programs`: weak fairness of every thread, loop, run and request: replies come, handlers
  return, sleeps end. Signals and requests need not come. That `listen` succeeds is not
  assumed.
* `Dashboard`: the server answers, answers are handled, intervals tick. Jobs need not
  move, users need not click, requests need not be lost.

## 4. Proofs

Every invariant of `Distri`, `DistriResend` and `DistriRecord` that a passing run
checks and both action
properties of `Distri` without fairness (`OnlyOrphansDiscarded`,
`LeadsJobLife`) are theorems: for any numbers of jobs, keys, workers, processes, watchdog and
scheduler runs, retry requests, lost replies, any map from these to processes, any
priorities, any set of handled jobs and any value of the bounds. They assume only
`StoreAssumption`, `DistriAssumption` and `ResendAssumption`: sentinels are no jobs or keys,
the constants have their types, the default priority is one that is polled, `AttemptsCap` is
above every `maxAttempts`, there are finitely many workers.

`RunsAlone`, `LivesAJobsLife` and `PushOrVerdictMakesTwo` have the hypothesis `NoRivals` besides: no
watchdogs, at most one scheduler run and one retry request at a time. Those are the components
that move a job somebody else may have or may be about to move: a watchdog's false alarm takes
a job from a live worker, and two scheduler runs push one due job twice, which the run
`double_release` shows. Workers, processes, jobs, crashes and evictions are as many as one
likes; the runs `exactly_once` and `sent_twice` are instances of the hypothesis. `RacesAlone`
needs no such hypothesis: it says of every system what `RunsAlone` says of those without
rivals, job by job, for the jobs that have not been raced over. `NoRivalsNoRaces` closes the
circle: under `NoRivals` no push is ever stale, so the exception in `OnePlaceUnlessRaced` is no
wider than it has to be.

The safety properties of `Programs`, `Timing` and `Dashboard` and their types are theorems
for every value of their constants. `Programs` assumes besides the
types that a pool has finitely many loops (`CONCURRENCY` is a number), `Timing` that an event
loop is never blocked for longer than the heartbeat's slack (`PunctualAssumption`). TLC
evaluates all of these assumptions in a run.

| Theorem | Module | Property | Rests on |
| --- | --- | --- | --- |
| `TypeCorrect` | `DistriProofs` | `TypeOK` | itself |
| `NothingHalfPublished` | `DistriSafety` | `PublishedAreWhole` | `Whole` |
| `DiscardsOnlyOrphans` | `DistriSafety` | `OnlyOrphansDiscarded` | `Whole`, `MissingIsEvicted` |
| `AlwaysAccounted` | `DistriSafety` | `Accounted` | itself |
| `KeepsBooks` | `DistriSafety` | `Ledger!SafeSpec`, the safety half of `KeepsLedger` | `Whole` |
| `LossTakesTwo` | `DistriLoss` | `LossNeedsBoth` | `Base` with `UnhandledKept`, `TokenStays`, `WorkerStays` |
| `StatusIsTrue` | `DistriLoss` | `StatusTruthful` | `Base`, `FailedUnhandled` |
| `LosersAreServed` | `DistriSafety` | `LoserGetsTheJob` | `Whole`, `Owners` |
| `OnePerKey` | `DistriSafety` | `OneJobPerKey` | `KeyCount` |
| `RunsAlone` (if `NoRivals`) | `DistriLife` | `OneRunner` | `Solitary` |
| `LivesAJobsLife` (if `NoRivals`) | `DistriLife` | `LeadsJobLife` | `Whole`, `Solitary` |
| `RacesAlone` | `DistriLife` | `OnePlaceUnlessRaced` | `Whole`, `UnracedSingle` |
| `NoRivalsNoRaces` (if `NoRivals`) | `DistriLife` | `NothingStray` | `Solitary` |
| `ServedInOrder` | `DistriProofs` | `OvertakesInPassing` | `TypeOK`, `FreshPass` |
| `PushOrVerdictMakesTwo` (if `NoRivals`) | `DistriResendProofs` | `RunTwiceNeedsPushOrVerdict` | `WholeResent`, `ClaimsKept`, `AloneResent` |
| `ResendTypes` | `DistriResendProofs` | `ResendTypeOK` | itself |
| `OnlyIdleDuplicates` | `DistriResendProofs` | `DuplicatesAreIdle` | `WholeResent`, `ClaimsKept` |
| `ResendLossNeedsTwo` | `DistriResendProofs` | `LossNeedsTwo` | those two with `MissingExplained`, `CountedResent`, `UnhandledResent`, `TokenResent`, `WorkerResent` |
| `ExitIsGraceful`, `RoundsAreApart` | `ProgramsProofs` | `GracefulExit`, `RoundsApart` | `Awaited`, `Places`, `Closing` |
| `ProgramsTypes` | `ProgramsProofs` | `TypeOK` | those with `Flags`, `Counted` |
| `TimingTypes` | `TimingProofs` | `TypeOK` | itself, with the three below |
| `LivingHaveHeartbeats` | `TimingProofs` | `HeartbeatHolds` | `BeatInv` |
| `OrphansAreRescued` | `TimingProofs` | `RescuedInTime` | `OrphanInv` |
| `RetriesAreInTime`, `RetriesAreNotEarly` | `TimingProofs` | `RetriedInTime`, `NotBeforeBackoff` | `DelayInv` |
| `DepthsWereTrue` | `DashboardProofs` | `DepthWasTrue` | `DepthInv` |
| `PagesAreTyped` | `DashboardProofs` | `TypeOK` | `Typed`, `OnlyType` |

The strengthenings and why they are needed:

* `Whole`. `PublishedAreWhole` looks at the places an id is served from; a scheduler
  or watchdog that read the id earlier may put it back. `Whole` therefore counts the
  snapshots of every component and the owner of an idempotency key as uses too, and
  says that a call which has saved its job, however far it got, has a full hash. From it
  follows that a watchdog's HGETALL comes back empty only for an evicted job
  (`MissingIsEvicted`), and it acts on that answer later.
* `KeepsBooks` goes through the steps: one that completes or buries a job is a worker's,
  and by `Whole` the job in a worker's hands was accepted.
* `Accounted` is inductive, but only as a count: the interesting step is a cleanup,
  where LREM takes a token that need not be the worker's own. It is enough that one
  holder leaves the set for each token that leaves the list.
* `LossNeedsBoth` is not inductive: its two halves fail independently. Without a
  robbery, the job has more tokens than workers about to clean up (`TokenStays`), which
  uses `Accounted`. Without a crash, some worker is still undecided about it
  (`WorkerStays`). A job without a handler is in neither half, since no worker ever
  cleans up after it (`UnhandledKept`).
* `StatusTruthful` is carried by two lemmas. A step that writes the status of a job
  makes it true (`WrittenIsBacked`). A step that does not, but takes away what bore it
  out, is a crash, or is by a worker that had the job and whose own write comes next
  (`UnwrittenStaysBacked`).
* `KeyCount`. A key that is free has cost one expiry per job published under it; a key
  that is owned, one less. The owner is what ties the two together.
* `Solitary` (`DistriLife`). `OneRunner` counts the workers that run a job; what makes it
  one is that a job is in one place at all: on one list once, or in the hands of one worker
  that is undecided about it, or in the delayed set, or nowhere. The status in the hash says
  which, and that is how a retry, which looks at the status alone, never meets a job that
  is under way. An id that the scheduler read is still in the set when it comes to it.
  `LivesAJobsLife` then says for each step which job it is about (`Same` holds of the
  others), where that job was and where it is now; that a failure adds one to the attempts
  needs the worker's own copy of the count to be the hash's (`Steady`).
* `UnracedSingle` (`DistriLife`). `Solitary` relies on nobody else moving a job, and falls
  with the first rival. What survives rivals is its first half, `Single`: one place at a time,
  with a status that agrees with it. The other half, that nobody is about to move the job
  (`Tame`, `DueIsDelayed`), is what the rivals' stale reads break; in its place stands `stray`,
  which names the jobs for which such a read was acted upon. `UnracedSingle` says `Single` of
  all others, and each step keeps it for them (`UnracedStep`): a requeue, a release or a
  retry that is not stale finds the job in the place it takes it from. `Solitary` in turn
  makes every read a fresh one, which is `NoRivalsNoRaces`.
* `FreshPass` (`DistriProofs`). `OvertakesInPassing` speaks of workers that poll; that it is true
  again when a worker comes back to polling needs a busy worker to stand at the first list
  already, since `workerLoop` begins its `for` anew (`WorkerPool.ts:85`). A step moves a worker
  down only past a list it finds empty (`PassStep`).
* `WholeResent`, `ClaimsKept` (`DistriResendProofs`). With commands executed unseen an id is
  in use before its enqueue has returned. The two say that this needs a push or claim in
  `resent`, and that who claimed a key unseen still owns it when the script is sent
  again, or the key ran out in between.
* The other resend invariants are those of `DistriLoss` with one more way for each to
  fail: a token that covers no worker after a second clean-up (`CountedResent`,
  `TokenResent`), a job no worker has after a second pop (`WorkerResent`). The proofs share the
  per-job lemmas of `Distri`: what a step seen by its sender does to a job is the same
  in both.
* `AloneResent` (`DistriResendProofs`) is the half of `Solitary` that other status writes sent
  twice leave alone, `Alone`, for the jobs that no push and no HMSET to dead sent twice
  was about. The other half, `Steady`, that a worker's label and copy of the attempts agree
  with the hash, is lost with the first of those writes: after a success MULTI executed unseen
  the hash says completed while the worker still counts a failure. `Alone` asks less of a worker
  that has the job (`AtWork`): that the status is none that a retry request accepts.
  `AloneResent` is inductive job by job, since the steps about one job leave the others as they
  are (`AloneStep`, `SameAlone`), so that a job spoilt by a second push does not spoil the
  argument for the rest. A claim executed unseen is no second push: the call cannot go on
  but by the answer that it owns the key (`CleanIsPrivate`).
* `Counted` (`ProgramsProofs`). The types of the scripts' counters bound them by the number
  of jobs, which holds because queued, running and completed jobs add up.
* `Awaited` (`ProgramsProofs`). Every loop that is not ended is among the promises, and
  among those every shutdown under way waits for. That is what fails if `shutdown()` empties
  the array before it has waited: the second signal would wait for nothing.
* `BeatInv`, `OrphanInv`, `DelayInv` (`TimingProofs`) tie each age to the timer that ends
  it: the key's remaining life to the time of the next beat, an orphan's age first to the
  key and then to the watchdog's timer, a delayed job's age to its due time and then to
  the scheduler's timer.
* `DepthInv` (`DashboardProofs`): a depth on its way to the page was a depth, too.
* `Typed` (`DashboardProofs`). That a table only shows statuses it has a badge for depends on
  the replies under way and on the ids they were made from. The rows are filtered from a
  list, which needs an induction over its length (`OnlyType`): a set of natural numbers that
  holds a bad length has a least one, and the recursion goes from the length before to it.

The proofs about the queue are organised by what may happen to a job and not by action:
a lemma such as `TokenLost`, `IndexLost`, `ListedLost` or `WorkerMoves` says which steps
can take an id out of a place, and invariants are preserved by citing those.

Left to TLC:

* `KeepsLedger` beyond its safety half, `Stops`, `ScriptsEnd`, `Converges` and
  `SpinnerStops`: liveness under fairness, out of the prover's reach;
* the refutations, which are single behaviours.

## 5. Not modelled

* A restart of Redis (with `--appendonly yes` it may lose the last second), the eviction of
  lists, sets and idempotency keys.
* Several queues on one Redis: the idempotency key of `Queue.ts:59` is the one key
  without the queue's name.
* Order within a list, beyond that of the store: a job that is pushed twice or put back by the
  watchdog or the scheduler goes to the end of its list, and no property is about how often.
* Unbounded crashes: a job that kills its worker is requeued beyond `maxAttempts`
  (`Watchdog.ts:77`), which nothing bounds.
* MULTIs other than the success MULTI that reject half-way and run on in their caller. (More
  than one lost reply, or one together with a stalled event loop, is in no run of TLC but in
  the theorems of `DistriResendProofs`, which bound neither.)
* Counters and histogram of the metrics, logger, error classes (thrown by nobody),
  `createBlockingClient` and `getQueueDepths` (called by nobody that decides), reading of
  the environment, the static pages and the seed scripts.
* Query parameters of `GET /jobs` that do not parse, and its 400 and 404 answers.

With more runs and proof modules than these, the next would be: `JobLife` for the jobs
nobody raced over, next to those somebody did; a bound on how often a job can be overtaken;
the lost replies of `DistriResend` and the races of `DistriRecord` in one theorem.
