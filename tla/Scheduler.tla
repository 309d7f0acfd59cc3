------------------------------ MODULE Scheduler ------------------------------
(***************************************************************************)
(* processDelayedJobs (src/src/scheduler/Scheduler.ts).  A run reads the   *)
(* ids that are due and then moves them one by one: HGET of the priority,  *)
(* MULTI of ZREM, LPUSH and HSET.  Runs overlap, for the reasons given for *)
(* the watchdog.  Time is abstract: a delay may have elapsed whenever the  *)
(* scheduler looks, however soon that is after the ZADD.                   *)
(***************************************************************************)
EXTENDS RedisStore

CONSTANT Schedulers  \* runs of processDelayedJobs that may be under way together

VARIABLES
    spc,    \* the next command of the run
    due,    \* dueJobs not moved yet
    sjob,   \* the job being moved
    sprio   \* the list it goes to

schedulerVars == <<spc, due, sjob, sprio>>

SchedulerLabel == {"idle", "scan", "release"}

SchedulerTypeOK ==
    /\ spc \in [Schedulers -> SchedulerLabel]
    /\ due \in [Schedulers -> SUBSET Jobs]
    /\ sjob \in [Schedulers -> Jobs \cup {NoJob}]
    /\ sprio \in [Schedulers -> PrioritySet]
    /\ \A s \in Schedulers : sjob[s] # NoJob <=> spc[s] = "release"

SchedulerInit ==
    /\ spc = [s \in Schedulers |-> "idle"]
    /\ due = [s \in Schedulers |-> {}]
    /\ sjob = [s \in Schedulers |-> NoJob]
    /\ sprio = [s \in Schedulers |-> DefaultPriority]

(* ZRANGEBYSCORE -inf now; an empty answer changes nothing. *)
ReadDue(s) ==
    /\ spc[s] = "idle"
    /\ \E ids \in SUBSET delayed \ {{}} : due' = [due EXCEPT ![s] = ids]
    /\ spc' = [spc EXCEPT ![s] = "scan"]
    /\ UNCHANGED <<storeVars, sjob, sprio>>

(* HGET of the priority, 'normal' when there is none. *)
ReadPriority(s) ==
    /\ spc[s] = "scan"
    /\ \E j \in due[s] :
        /\ due' = [due EXCEPT ![s] = @ \ {j}]
        /\ sjob' = [sjob EXCEPT ![s] = j]
        /\ sprio' = [sprio EXCEPT ![s] = ListOf(hash[j], j)]
    /\ spc' = [spc EXCEPT ![s] = "release"]
    /\ UNCHANGED storeVars

(* Mutant: no ZREM. *)
ReleaseAndKeep(s) ==
    /\ spc[s] = "release"
    /\ Room(sprio[s], sjob[s])
    /\ LPushWaiting(sprio[s], sjob[s])
    /\ HSetStatus(sjob[s], "waiting")
    /\ spc' = [spc EXCEPT ![s] = IF due[s] = {} THEN "idle" ELSE "scan"]
    /\ sjob' = [sjob EXCEPT ![s] = NoJob]
    /\ sprio' = [sprio EXCEPT ![s] = DefaultPriority]
    /\ UNCHANGED <<attempts, processing, delayed, dead, aliveVars, idempotency, stats, due>>

(* MULTI: ZREM, LPUSH, HSET.  It pushes whether or not ZREM removed the id. *)
Release(s) ==
    /\ spc[s] = "release"
    /\ Room(sprio[s], sjob[s])
    /\ delayed' = delayed \ {sjob[s]}
    /\ LPushWaiting(sprio[s], sjob[s])
    /\ HSetStatus(sjob[s], "waiting")
    /\ spc' = [spc EXCEPT ![s] = IF due[s] = {} THEN "idle" ELSE "scan"]
    /\ sjob' = [sjob EXCEPT ![s] = NoJob]
    /\ sprio' = [sprio EXCEPT ![s] = DefaultPriority]
    /\ UNCHANGED <<attempts, processing, dead, aliveVars, idempotency, stats, due>>
===============================================================================
