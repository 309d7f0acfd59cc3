-------------------------------- MODULE Timing --------------------------------
(***************************************************************************)
(* When things happen to one job: the worker's heartbeat and its expiry,   *)
(* the watchdog's and the scheduler's intervals, the backoff of a retry,   *)
(* and clocks that disagree.  The other modules let every timer fire and   *)
(* every delay elapse at any moment; here time passes in ticks, a timer is *)
(* late by at most Lag.  A command takes no time, but for those between    *)
(* the pop of a job and its first heartbeat, which take any.               *)
(***************************************************************************)
EXTENDS Integers

CONSTANTS
    HeartbeatInterval, HeartbeatTtl, WatchdogInterval, SchedulerInterval,
    MaxDelay, Jitter,
    Unit,        \* the 1000 ms of calculateBackoff
    MaxAttempts,
    Lag,         \* how late an event loop runs a timer
    Skew         \* how far the clocks of two processes are apart

ASSUME TimingAssumption ==
    /\ HeartbeatInterval \in Nat \ {0}
    /\ HeartbeatTtl \in Nat \ {0}
    /\ WatchdogInterval \in Nat \ {0}
    /\ SchedulerInterval \in Nat \ {0}
    /\ MaxDelay \in Nat
    /\ Jitter \in Nat
    /\ Unit \in Nat
    /\ MaxAttempts \in Nat \ {0}
    /\ Lag \in Nat
    /\ Skew \in Nat
    /\ \A a \in 1 .. MaxAttempts : Unit * 2^a \in Nat

(* No event loop is blocked for longer than a heartbeat's slack: 10 s with *)
(* the intervals of config/index.ts.                                       *)
ASSUME PunctualAssumption == HeartbeatInterval + Lag < HeartbeatTtl

VARIABLES
    job,      \* waiting, taken (no heartbeat yet), running, orphaned (its worker
              \* crashed), robbed (requeued while its worker lives), delayed, settled
    attempts,
    beatIn,   \* until the worker's heartbeat timer is due
    ttl,      \* until the heartbeat key expires; 0: there is none
    checkIn,  \* until the watchdog's timer is due
    runIn,    \* until the scheduler's timer is due
    dueIn,    \* until the delayed job is due by the scheduler's clock
    age       \* since the job was delayed or orphaned

timers == <<checkIn, runIn>>
vars   == <<job, attempts, beatIn, ttl, timers, dueIn, age>>

(* min(maxDelay, 1000 * 2^attempt), without the jitter *)
BackoffBase(a) == IF Unit * 2^a <= MaxDelay THEN Unit * 2^a ELSE MaxDelay

TypeOK ==
    /\ job \in {"waiting", "taken", "running", "orphaned", "robbed", "delayed", "settled"}
    /\ attempts \in 0 .. MaxAttempts
    /\ beatIn \in -Lag .. HeartbeatInterval
    /\ ttl \in 0 .. HeartbeatTtl
    /\ checkIn \in -Lag .. WatchdogInterval
    /\ runIn \in -Lag .. SchedulerInterval
    /\ dueIn \in Int
    /\ age \in Nat

Init ==
    /\ job = "waiting"
    /\ attempts = 0
    /\ beatIn = 0
    /\ ttl = 0
    /\ checkIn \in 1 .. WatchdogInterval
    /\ runIn \in 1 .. SchedulerInterval
    /\ dueIn = 0
    /\ age = 0

-------------------------------------------------------------------------------
(* RPOPLPUSH: from here on the id is in processing, without a heartbeat. *)
Take ==
    /\ job = "waiting"
    /\ job' = "taken"
    /\ UNCHANGED <<attempts, beatIn, ttl, timers, dueIn, age>>

(* The first heartbeat and setInterval. *)
FirstBeat ==
    /\ job = "taken"
    /\ job' = "running"
    /\ ttl' = HeartbeatTtl
    /\ beatIn' = HeartbeatInterval
    /\ UNCHANGED <<attempts, timers, dueIn, age>>

(* Mutant: the timer does not renew the key. *)
BeatOnce ==
    /\ job = "running"
    /\ beatIn <= 0
    /\ beatIn' = HeartbeatInterval
    /\ UNCHANGED <<job, attempts, ttl, timers, dueIn, age>>

Beat ==
    /\ job = "running"
    /\ beatIn <= 0
    /\ ttl' = HeartbeatTtl
    /\ beatIn' = HeartbeatInterval
    /\ UNCHANGED <<job, attempts, timers, dueIn, age>>

(* Completed, or dead at the last attempt; the cleanup ends the heartbeat. *)
Finish ==
    /\ job = "running"
    /\ job' = "settled"
    /\ ttl' = 0
    /\ beatIn' = 0
    /\ UNCHANGED <<attempts, timers, dueIn, age>>

(* Mutant: the backoff is that of one attempt more. *)
FailOneMore ==
    /\ job = "running"
    /\ attempts + 1 < MaxAttempts
    /\ attempts' = attempts + 1
    /\ job' = "delayed"
    /\ \E j \in 0 .. Jitter, d \in -Skew .. Skew :
          dueIn' = BackoffBase(attempts' + 1) + j + d
    /\ age' = 0
    /\ ttl' = 0
    /\ beatIn' = 0
    /\ UNCHANGED timers

(* Mutant: no limit on the attempts. *)
FailForever ==
    /\ job = "running"
    /\ attempts' = attempts + 1
    /\ job' = "delayed"
    /\ \E j \in 0 .. Jitter, d \in -Skew .. Skew : dueIn' = BackoffBase(attempts') + j + d
    /\ age' = 0
    /\ ttl' = 0
    /\ beatIn' = 0
    /\ UNCHANGED timers

(* The score is the worker's clock plus the delay; d is the disagreement   *)
(* between that clock and the scheduler's.                                 *)
Fail ==
    /\ job = "running"
    /\ attempts + 1 < MaxAttempts
    /\ attempts' = attempts + 1
    /\ job' = "delayed"
    /\ \E j \in 0 .. Jitter, d \in -Skew .. Skew : dueIn' = BackoffBase(attempts') + j + d
    /\ age' = 0
    /\ ttl' = 0
    /\ beatIn' = 0
    /\ UNCHANGED timers

(* The worker's process dies; the watchdog of another goes on. *)
Crash ==
    /\ job \in {"taken", "running"}
    /\ job' = "orphaned"
    /\ age' = 0
    /\ beatIn' = 0
    /\ UNCHANGED <<attempts, ttl, timers, dueIn>>

(* Mutant: only a job whose worker lives is requeued. *)
CheckLiving ==
    /\ checkIn <= 0
    /\ checkIn' = WatchdogInterval
    /\ job' = IF job \in {"taken", "running"} /\ ttl = 0 THEN "robbed" ELSE job
    /\ UNCHANGED <<attempts, beatIn, ttl, runIn, dueIn, age>>

(* A run of the watchdog: a job in the processing list without a heartbeat *)
(* is requeued, one attempt more.  (The model stops counting at the most.) *)
(* One whose worker lives is robbed; what becomes of it is Distri's.       *)
Check ==
    LET stalled == job \in {"taken", "running", "orphaned"} /\ ttl = 0
    IN  /\ checkIn <= 0
        /\ checkIn' = WatchdogInterval
        /\ job' = IF ~stalled THEN job ELSE IF job = "orphaned" THEN "waiting" ELSE "robbed"
        /\ attempts' = IF stalled /\ attempts < MaxAttempts THEN attempts + 1 ELSE attempts
        /\ beatIn' = IF stalled THEN 0 ELSE beatIn
        /\ UNCHANGED <<ttl, runIn, dueIn, age>>

(* Mutant: the score is not looked at. *)
RunAnyway ==
    /\ runIn <= 0
    /\ runIn' = SchedulerInterval
    /\ job' = IF job = "delayed" THEN "waiting" ELSE job
    /\ UNCHANGED <<attempts, beatIn, ttl, checkIn, dueIn, age>>

(* A run of the scheduler: ZRANGEBYSCORE -inf now. *)
Run ==
    /\ runIn <= 0
    /\ runIn' = SchedulerInterval
    /\ job' = IF job = "delayed" /\ dueIn <= 0 THEN "waiting" ELSE job
    /\ UNCHANGED <<attempts, beatIn, ttl, checkIn, dueIn, age>>

-------------------------------------------------------------------------------
(* Time passes, unless some timer would be overdue by more than Lag. *)
Tick ==
    /\ job = "running" => beatIn > -Lag
    /\ checkIn > -Lag
    /\ runIn > -Lag
    /\ beatIn' = IF job = "running" THEN beatIn - 1 ELSE beatIn
    /\ ttl' = IF ttl > 0 THEN ttl - 1 ELSE 0
    /\ checkIn' = checkIn - 1
    /\ runIn' = runIn - 1
    /\ dueIn' = IF dueIn > 0 THEN dueIn - 1 ELSE dueIn
    /\ age' = IF job \in {"orphaned", "delayed"} THEN age + 1 ELSE age
    /\ UNCHANGED <<job, attempts>>

Next == Take \/ FirstBeat \/ Beat \/ Finish \/ Fail \/ Crash \/ Check \/ Run \/ Tick

Spec == Init /\ [][Next]_vars

-------------------------------------------------------------------------------
(* A worker that is alive keeps the heartbeat it began with, so no         *)
(* watchdog takes its job from then on ("cleanly separates worker is dead  *)
(* from task is slow", Watchdog.ts 22): the renewals of WorkerPool.ts      *)
(* 134-138 outrun the TTL.                                                 *)
HeartbeatHolds == job = "running" => ttl > 0

(* "A job could be stuck for up to 25 seconds before the Watchdog rescues  *)
(* it" (DOCUMENTATION.md 1055): the TTL plus one interval, plus the lag.   *)
RescuedInTime ==
    job = "orphaned" => age <= HeartbeatTtl + WatchdogInterval + Lag

(* A retry does not start before its backoff (WorkerPool.ts 18-21, 167),   *)
(* but for the difference of the clocks.                                   *)
NotBeforeBackoff ==
    [][job = "delayed" /\ job' = "waiting" => age >= BackoffBase(attempts) - Skew]_vars

(* Nor does the job wait much longer than that: it is back on its list     *)
(* within the backoff of its attempt, the jitter, the difference of the    *)
(* clocks and one interval of the scheduler, with its lag.                 *)
RetriedInTime ==
    job = "delayed" =>
        age <= BackoffBase(attempts) + Jitter + Skew + SchedulerInterval + Lag
===============================================================================
