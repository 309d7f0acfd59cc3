-------------------------------- MODULE Distri --------------------------------
(***************************************************************************)
(* The whole system: producers, the worker loops, watchdogs and schedulers *)
(* of several processes and the retry route, around one Redis.  What no    *)
(* component does by itself is added here: processes crash (and restart),  *)
(* heartbeat keys run out, an event loop stalls for longer than the        *)
(* heartbeat TTL, and Redis evicts a job hash (docker-compose.yml runs it  *)
(* with allkeys-lru).                                                      *)
(***************************************************************************)
EXTENDS Queue, WorkerPool, Watchdog, Scheduler, RetryApi, FiniteSets

CONSTANTS
    Nodes,        \* processes that run workers, a watchdog and a scheduler
    NodeOf,       \* the process a worker, watchdog run or scheduler run is in
    MaxCrashes,   \* bound: crashes
    MaxLapses,    \* bound: heartbeats lost to a stalled event loop
    MaxEvictions, \* bound: job hashes evicted
    MaxExpiries   \* bound: times an idempotency key runs out

ASSUME DistriAssumption ==
    /\ IsFiniteSet(Workers)
    /\ NodeOf \in [Workers \cup Watchdogs \cup Schedulers -> Nodes]
    /\ Handled \subseteq Jobs
    /\ MaxCrashes \in Nat
    /\ MaxLapses \in Nat
    /\ MaxEvictions \in Nat
    /\ MaxExpiries \in Nat

VARIABLES
    crashes, lapses, \* how many so far
    expiries,        \* how often each idempotency key ran out
    evicted,         \* history: jobs whose hash was evicted
    abandoned,       \* history: jobs a worker crashed with, not relisted since
    robbed,          \* history: jobs a watchdog took from a live worker
    done             \* history: jobs that completed at least once

faultVars   == <<crashes, lapses, expiries, evicted>>
historyVars == <<abandoned, robbed, done>>
vars == <<storeVars, queueVars, workerVars, watchdogVars, schedulerVars, apiVars,
          faultVars, historyVars>>

TypeOK ==
    /\ StoreTypeOK
    /\ QueueTypeOK
    /\ WorkerTypeOK
    /\ WatchdogTypeOK
    /\ SchedulerTypeOK
    /\ ApiTypeOK
    /\ crashes \in 0 .. MaxCrashes
    /\ lapses \in 0 .. MaxLapses
    /\ expiries \in [Keys -> 0 .. MaxExpiries]
    /\ evicted \subseteq Jobs
    /\ abandoned \subseteq Jobs
    /\ robbed \subseteq Jobs
    /\ done \subseteq Jobs

Init ==
    /\ StoreInit
    /\ QueueInit
    /\ WorkerInit
    /\ WatchdogInit
    /\ SchedulerInit
    /\ ApiInit
    /\ crashes = 0
    /\ lapses = 0
    /\ expiries = [k \in Keys |-> 0]
    /\ evicted = {}
    /\ abandoned = {}
    /\ robbed = {}
    /\ done = {}

-------------------------------------------------------------------------------
(* The components' steps, each leaving the others' state alone. *)

Producer(j) ==
    /\ Enqueue(j) \/ SdkEnqueue(j)
    /\ UNCHANGED <<workerVars, watchdogVars, schedulerVars, apiVars, faultVars,
                   historyVars>>

KeyTtl(k) ==
    /\ KeyExpires(k)
    /\ expiries[k] < MaxExpiries
    /\ expiries' = [expiries EXCEPT ![k] = @ + 1]
    /\ UNCHANGED <<workerVars, watchdogVars, schedulerVars, apiVars, crashes, lapses,
                   evicted, historyVars>>

Working(w) ==
    \/ Poll(w) \/ PollEmpty(w)
    \/ Fetch(w) \/ FetchNothing(w)
    \/ MarkActive(w) \/ RejectUnhandled(w)
    \/ Register(w) \/ FirstBeat(w)
    \/ CountFailure(w) \/ Settle(w) \/ ParkDelayed(w) \/ ParkDead(w)
    \/ Cleanup(w)

Worker(w) ==
    /\ \/ Working(w) /\ UNCHANGED historyVars
       \/ Complete(w) /\ done' = done \cup {wjob[w]} /\ UNCHANGED <<abandoned, robbed>>
    /\ UNCHANGED <<queueVars, watchdogVars, schedulerVars, apiVars, faultVars>>

Beat(w) ==
    /\ HeartbeatTick(w)
    /\ UNCHANGED <<queueVars, watchdogVars, schedulerVars, apiVars, faultVars, historyVars>>

Robs(d) == robbed' = IF Holders(djob[d]) = {} THEN robbed ELSE robbed \cup {djob[d]}

Dog(d) ==
    /\ \/ ReadActive(d) /\ UNCHANGED historyVars
       \/ ReadProcessing(d) /\ UNCHANGED historyVars
       \/ ReadHeartbeats(d) /\ UNCHANGED historyVars
       \/ ReadStalled(d) /\ UNCHANGED historyVars
       \/ /\ Requeue(d)
          /\ Robs(d)
          /\ abandoned' = abandoned \ {djob[d]}
          /\ UNCHANGED done
       \/ DiscardOrphan(d) /\ Robs(d) /\ UNCHANGED <<abandoned, done>>
    /\ UNCHANGED <<queueVars, workerVars, schedulerVars, apiVars, faultVars>>

Delays(s) ==
    /\ \/ ReadDue(s) /\ UNCHANGED historyVars
       \/ ReadPriority(s) /\ UNCHANGED historyVars
       \/ Release(s) /\ abandoned' = abandoned \ {sjob[s]} /\ UNCHANGED <<robbed, done>>
    /\ UNCHANGED <<queueVars, workerVars, watchdogVars, apiVars, faultVars>>

Api(r) ==
    /\ \/ CheckRetryable(r) /\ UNCHANGED historyVars
       \/ Retry(r) /\ abandoned' = abandoned \ {ajob[r]} /\ UNCHANGED <<robbed, done>>
    /\ UNCHANGED <<queueVars, workerVars, watchdogVars, schedulerVars, faultVars>>

-------------------------------------------------------------------------------
(* The environment. *)

Beating(j) == \E w \in Holders(j) : TimerOn(w)

SetHeartbeatGone(j) ==
    /\ heartbeat[j]
    /\ heartbeat' = [heartbeat EXCEPT ![j] = FALSE]
    /\ UNCHANGED <<hashVars, listVars, active, idempotency, stats, queueVars, workerVars,
                   watchdogVars, schedulerVars, apiVars, historyVars>>

(* Nobody renews the key: it runs out. *)
HeartbeatExpires(j) ==
    /\ ~Beating(j)
    /\ SetHeartbeatGone(j)
    /\ UNCHANGED faultVars

(* The handler blocks the event loop past the TTL: it runs out all the same. *)
HeartbeatLapses(j) ==
    /\ Beating(j)
    /\ lapses < MaxLapses
    /\ lapses' = lapses + 1
    /\ SetHeartbeatGone(j)
    /\ UNCHANGED <<crashes, expiries, evicted>>

EvictHash(j) ==
    /\ hash[j] # "absent"
    /\ Cardinality(evicted) < MaxEvictions
    /\ hash' = [hash EXCEPT ![j] = "absent"]
    /\ evicted' = evicted \cup {j}
    /\ UNCHANGED <<status, attempts, listVars, aliveVars, idempotency, stats, queueVars,
                   workerVars, watchdogVars, schedulerVars, apiVars, crashes, lapses,
                   expiries, historyVars>>

(* Everything a process had in memory is gone; it comes back empty. *)
Crash(n) ==
    /\ crashes < MaxCrashes
    /\ crashes' = crashes + 1
    /\ abandoned' = abandoned \cup {wjob[w] : w \in {v \in Workers : NodeOf[v] = n
                                                                     /\ wjob[v] # NoJob}}
    /\ wpc' = [w \in Workers |-> IF NodeOf[w] = n THEN "poll" ELSE wpc[w]]
    /\ level' = [w \in Workers |-> IF NodeOf[w] = n THEN 1 ELSE level[w]]
    /\ wjob' = [w \in Workers |-> IF NodeOf[w] = n THEN NoJob ELSE wjob[w]]
    /\ wattempts' = [w \in Workers |-> IF NodeOf[w] = n THEN 0 ELSE wattempts[w]]
    /\ dpc' = [d \in Watchdogs |-> IF NodeOf[d] = n THEN "idle" ELSE dpc[d]]
    /\ dids' = [d \in Watchdogs |-> IF NodeOf[d] = n THEN {} ELSE dids[d]]
    /\ djob' = [d \in Watchdogs |-> IF NodeOf[d] = n THEN NoJob ELSE djob[d]]
    /\ dhash' = [d \in Watchdogs |-> IF NodeOf[d] = n THEN "absent" ELSE dhash[d]]
    /\ dattempts' = [d \in Watchdogs |-> IF NodeOf[d] = n THEN 0 ELSE dattempts[d]]
    /\ spc' = [s \in Schedulers |-> IF NodeOf[s] = n THEN "idle" ELSE spc[s]]
    /\ due' = [s \in Schedulers |-> IF NodeOf[s] = n THEN {} ELSE due[s]]
    /\ sjob' = [s \in Schedulers |-> IF NodeOf[s] = n THEN NoJob ELSE sjob[s]]
    /\ sprio' = [s \in Schedulers |-> IF NodeOf[s] = n THEN DefaultPriority ELSE sprio[s]]
    /\ UNCHANGED <<storeVars, queueVars, apiVars, lapses, expiries, evicted, robbed, done>>

-------------------------------------------------------------------------------
Next ==
    \/ \E j \in Jobs : Producer(j)
    \/ \E k \in Keys : KeyTtl(k)
    \/ \E w \in Workers : Worker(w) \/ Beat(w)
    \/ \E d \in Watchdogs : Dog(d)
    \/ \E s \in Schedulers : Delays(s)
    \/ \E r \in Requests : Api(r)
    \/ \E j \in Jobs : HeartbeatExpires(j) \/ HeartbeatLapses(j) \/ EvictHash(j)
    \/ \E n \in Nodes : Crash(n)

Spec == Init /\ [][Next]_vars

(* A process that runs keeps running its loops and timers, handlers end,   *)
(* and Redis expires keys.  Nobody has to enqueue, retry or crash.         *)
Fairness ==
    /\ \A w \in Workers : WF_vars(Worker(w)) /\ WF_vars(Beat(w))
    /\ \A d \in Watchdogs : WF_vars(Dog(d))
    /\ \A s \in Schedulers : WF_vars(Delays(s))
    /\ \A j \in Jobs : WF_vars(HeartbeatExpires(j))

FairSpec == Spec /\ Fairness

-------------------------------------------------------------------------------
(* Properties. *)

InHand(j, labels) == \E w \in Holders(j) : wpc[w] \in labels

(* Is a worker about to write that the job is retried, or buried? *)
Parking(j, retried) ==
    \E w \in Holders(j) : wpc[w] = "park" /\ WillRetry(w) = retried

(* The job's status field is backed by where its id is: what status claims *)
(* some list, some worker or the processing list bears out.                *)
Backed(j) ==
    CASE status[j] = "waiting"   -> call[j] # "returned" \/ Listed(j)
                                    \/ InHand(j, {"fetch", "activate"})
      [] status[j] = "active"    -> InHand(j, {"unhandled", "register", "beat", "run",
                                               "settle"})
      [] status[j] = "delayed"   -> j \in delayed \/ Parking(j, TRUE)
      [] status[j] = "dead"      -> j \in dead \/ Parking(j, FALSE)
      [] status[j] = "failed"    -> Listed(j) \/ processing[j] > 0
      [] status[j] = "completed" -> j \in done

(* GET /jobs/:id never lies for good: however workers, watchdogs,          *)
(* schedulers and retries race on a job, the status they leave in its hash *)
(* (WorkerPool.ts 118-180, Watchdog.ts 81-82, Scheduler.ts 53-57, routes.ts*)
(* 148-155) is true of the lists, unless the last worker to write it       *)
(* crashed or Redis evicted the hash.                                      *)
StatusTruthful ==
    \A j \in Jobs :
        hash[j] = "full" /\ j \notin evicted \cup abandoned => Backed(j)

(* Every worker's token is in the processing list (RPOPLPUSH puts one in,  *)
(* LREM 1 takes one out), so a crash can be noticed; only a watchdog that  *)
(* took a job from a live worker breaks this.                              *)
Accounted ==
    \A j \in Jobs \ robbed : Cardinality(Holders(j)) <= processing[j]

(* Somebody will still find the job, or it has been run. *)
Findable(j) ==
    \/ j \in done \cup delayed \cup dead
    \/ Listed(j)
    \/ processing[j] > 0
    \/ Undecided(j) # {}

(* No job is lost by one fault: a job whose enqueue returned stays         *)
(* findable (README.md 59) unless a watchdog once took it from a live      *)
(* worker AND a worker crashed with it since it was last on a list, or     *)
(* Redis evicted it.                                                       *)
LossNeedsBoth ==
    \A j \in Jobs :
        call[j] = "returned" /\ j \notin evicted \cup (abandoned \cap robbed)
            => Findable(j)

(* An id that some list, index or component holds has a hash with all its  *)
(* fields: nobody works on the remains of a rejected duplicate or of a job *)
(* that was not saved yet, unless Redis evicted the hash.                  *)
Stored(j)    == Listed(j) \/ processing[j] > 0 \/ j \in delayed \cup dead \cup active
Held(j)      == Holders(j) # {}
Watched(j)   == \E d \in Watchdogs : djob[d] = j \/ j \in dids[d]
Scheduled(j) == \E s \in Schedulers : sjob[s] = j \/ j \in due[s]
Owner(j)     == \E k \in Keys : idempotency[k] = j

Circulating(j) == Stored(j) \/ Held(j) \/ Watched(j) \/ Scheduled(j) \/ Owner(j)

PublishedAreWhole ==
    \A j \in Jobs \ evicted :
        Circulating(j) => call[j] = "returned" /\ hash[j] = "full"

(* The watchdog's clean-up branch (Watchdog.ts 86-88) throws away the id   *)
(* of no job but one whose hash Redis evicted, however old the reads are   *)
(* it decides from.                                                        *)
OnlyOrphansDiscarded ==
    [][\A d \in Watchdogs : DiscardOrphan(d) => djob[d] \in evicted]_vars

(* The enqueues that published a job under key k. *)
Published(k) == {j \in Jobs : KeyOf[j] = k /\ call[j] = "returned"}

(* Under one idempotency key, concurrent enqueues publish one job, and one *)
(* more each time the key ran out (idempotentEnqueue.lua, Queue.ts 57-73). *)
OneJobPerKey ==
    \A k \in Keys : Cardinality(Published(k)) <= expiries[k] + 1

(* A caller that lost the key was given the id of a job that was published *)
(* under the same key and that is not deleted behind its back.             *)
LoserGetsTheJob ==
    \A j \in Jobs :
        call[j] \in {"collided", "rejected"} =>
            \E i \in Jobs \ {j} :
                /\ claimed[j] = i
                /\ KeyOf[i] = KeyOf[j]
                /\ call[i] = "returned"
                /\ hash[i] = "full" \/ i \in evicted

(* Workers running one job's handler, or about to. *)
Running(j) == {w \in Holders(j) : wpc[w] \notin {"park", "cleanup"}}

(* Without watchdogs, with one scheduler run and one retry at a time, no   *)
(* two workers ever have the same job: every push of an id follows the     *)
(* removal of its last copy.                                               *)
OneRunner == \A j \in Jobs : Cardinality(Running(j)) <= 1

-------------------------------------------------------------------------------
(* Liveness. *)

(* A job whose enqueue returned is eventually run to completion or buried  *)
(* in the dead-letter list: retries come due, and a job whose worker       *)
(* crashed is found through the processing list (Watchdog.ts 54-90), also  *)
(* while the id of a job whose hash was evicted goes round.                *)
Settles ==
    \A j \in Jobs : call[j] = "returned" ~> j \in done \cup dead \cup evicted

-------------------------------------------------------------------------------
(* Implementations. *)

Ledger == INSTANCE JobLedger WITH
    accepted <- {j \in Jobs : call[j] = "returned"},
    ran <- done, buried <- dead, lost <- evicted

(* The system keeps the books of JobLedger: the jobs whose enqueue         *)
(* returned (Queue.ts 25-82), those whose handler resolved (WorkerPool.ts  *)
(* 140-154) and the dead-letter list (WorkerPool.ts 180) are such that     *)
(* nothing runs that was not accepted and nothing accepted stays open.     *)
KeepsLedger == Ledger!Spec

(* Where a job is: in the hands of a worker that has not settled it, on a  *)
(* waiting list, waiting for its back-off (the ZADD done or about to be),  *)
(* completed, in the dead-letter list (done or about to be), or nowhere    *)
(* but in the processing list.                                             *)
StageOf(j) ==
    CASE Running(j) # {}                                        -> "taken"
      [] Running(j) = {} /\ Listed(j)                           -> "queued"
      [] Running(j) = {} /\ ~Listed(j) /\ call[j] # "returned"  -> "none"
      [] OTHER ->
           CASE j \in delayed \/ Parking(j, TRUE)                         -> "backoff"
             [] status[j] = "completed"                                   -> "done"
             [] status[j] = "dead" /\ (j \in dead \/ Parking(j, FALSE))   -> "buried"
             [] OTHER                                                     -> "stuck"

Life == INSTANCE JobLife WITH stage <- [j \in Jobs |-> StageOf(j)], tries <- attempts

(* Without watchdogs, with one scheduler run and one retry at a time, the  *)
(* components together lead every job through JobLife: no job is in two    *)
(* places, none is moved from where it is not, and the attempts field,     *)
(* read when the job is fetched (WorkerPool.ts 111) and written back after *)
(* the handler (163-179), counts every failure.                            *)
LeadsJobLife == Life!Spec

-------------------------------------------------------------------------------
(* What the repository says of the program and the code does not do; each  *)
(* of these is refuted by a run.                                           *)

(* "This guarantees zero data loss" (README.md 59).                        *)
NeverLost ==
    \A j \in Jobs : call[j] = "returned" /\ j \notin evicted => Findable(j)

(* "Stalled job metadata missing, cleaning up orphans" (Watchdog.ts 86):   *)
(* the id of a job whose hash is gone is in the end in no list any more.   *)
OrphansAreCleanedUp ==
    \A j \in Jobs :
        j \in evicted ~> ~Listed(j) /\ processing[j] = 0 /\ j \notin delayed
===============================================================================
