------------------------------- MODULE Watchdog -------------------------------
(***************************************************************************)
(* checkStalledJobs (src/src/worker/Watchdog.ts).  A run takes three       *)
(* snapshots (active hash, processing list, heartbeats) and then, for each *)
(* id whose heartbeat was missing, reads the hash and requeues in a MULTI. *)
(* Runs overlap: every worker node has a watchdog, and setInterval starts  *)
(* a run whether or not the last one is over.  The order of ids within a   *)
(* run is the order Redis returns hash fields in, hence arbitrary.         *)
(***************************************************************************)
EXTENDS RedisStore

CONSTANT Watchdogs  \* runs of checkStalledJobs that may be under way together

VARIABLES
    dpc,       \* the next command of the run
    dids,      \* jobIds still to be looked at
    djob,      \* the stalled job being requeued
    dhash,     \* its hash, as HGETALL returned it: the fields present ...
    dattempts  \* ... and attempts

watchdogVars == <<dpc, dids, djob, dhash, dattempts>>

WatchdogLabel == {"idle", "list", "beats", "scan", "requeue"}

WatchdogTypeOK ==
    /\ dpc \in [Watchdogs -> WatchdogLabel]
    /\ dids \in [Watchdogs -> SUBSET Jobs]
    /\ djob \in [Watchdogs -> Jobs \cup {NoJob}]
    /\ dhash \in [Watchdogs -> Fields]
    /\ dattempts \in [Watchdogs -> 0 .. AttemptsCap]
    /\ \A d \in Watchdogs : djob[d] # NoJob <=> dpc[d] = "requeue"

WatchdogInit ==
    /\ dpc = [d \in Watchdogs |-> "idle"]
    /\ dids = [d \in Watchdogs |-> {}]
    /\ djob = [d \in Watchdogs |-> NoJob]
    /\ dhash = [d \in Watchdogs |-> "absent"]
    /\ dattempts = [d \in Watchdogs |-> 0]

(* Go on with ids, or end the run when there are none. *)
Continue(d, ids, l) ==
    /\ dids' = [dids EXCEPT ![d] = ids]
    /\ dpc' = [dpc EXCEPT ![d] = IF ids = {} THEN "idle" ELSE l]

(* HGETALL of the active hash. *)
ReadActive(d) ==
    /\ dpc[d] = "idle"
    /\ dids' = [dids EXCEPT ![d] = active]
    /\ dpc' = [dpc EXCEPT ![d] = "list"]
    /\ UNCHANGED <<storeVars, djob, dhash, dattempts>>

(* Mutant: only registered jobs are looked at. *)
SkipProcessing(d) ==
    /\ dpc[d] = "list"
    /\ Continue(d, dids[d], "beats")
    /\ UNCHANGED <<storeVars, djob, dhash, dattempts>>

(* LRANGE of the processing list. *)
ReadProcessing(d) ==
    /\ dpc[d] = "list"
    /\ Continue(d, dids[d] \cup {j \in Jobs : processing[j] > 0}, "beats")
    /\ UNCHANGED <<storeVars, djob, dhash, dattempts>>

(* MGET of the heartbeats: an id without one is stalled. *)
ReadHeartbeats(d) ==
    /\ dpc[d] = "beats"
    /\ Continue(d, {j \in dids[d] : ~heartbeat[j]}, "scan")
    /\ UNCHANGED <<storeVars, djob, dhash, dattempts>>

(* HGETALL of the next stalled job. *)
ReadStalled(d) ==
    /\ dpc[d] = "scan"
    /\ \E j \in dids[d] :
        /\ dids' = [dids EXCEPT ![d] = @ \ {j}]
        /\ djob' = [djob EXCEPT ![d] = j]
        /\ dhash' = [dhash EXCEPT ![d] = hash[j]]
        /\ dattempts' = [dattempts EXCEPT ![d] = attempts[j]]
    /\ dpc' = [dpc EXCEPT ![d] = "requeue"]
    /\ UNCHANGED storeVars

EndRequeue(d) ==
    /\ Continue(d, dids[d], "scan")
    /\ djob' = [djob EXCEPT ![d] = NoJob]
    /\ dhash' = [dhash EXCEPT ![d] = "absent"]
    /\ dattempts' = [dattempts EXCEPT ![d] = 0]

(* MULTI: HDEL, LREM 1, HMSET, LPUSH.  It pushes even when LREM found      *)
(* nothing to remove, and it leaves the heartbeat key alone.               *)
Requeue(d) ==
    LET j == djob[d]
        p == ListOf(dhash[d], j)
    IN
    /\ dpc[d] = "requeue"
    /\ dhash[d] # "absent"
    /\ processing[j] > 0 \/ Room(p, j)
    /\ active' = active \ {j}
    /\ LRemProcessing(j)
    /\ UpdateJobFields(j, "waiting", Bump(dattempts[d]))
    /\ LPushWaiting(p, j)
    /\ EndRequeue(d)
    /\ UNCHANGED <<delayed, dead, heartbeat, idempotency, stats>>

(* No hash: the MULTI only takes the id out of both indexes. *)
DiscardOrphan(d) ==
    /\ dpc[d] = "requeue"
    /\ dhash[d] = "absent"
    /\ active' = active \ {djob[d]}
    /\ LRemProcessing(djob[d])
    /\ EndRequeue(d)
    /\ UNCHANGED <<hashVars, waiting, delayed, dead, heartbeat, idempotency, stats>>
===============================================================================
