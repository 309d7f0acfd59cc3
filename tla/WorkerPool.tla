------------------------------ MODULE WorkerPool ------------------------------
(***************************************************************************)
(* The consumer side: workerLoop and processJob                            *)
(* (src/src/worker/WorkerPool.ts).  Every await on a Redis command or on a *)
(* MULTI is one step; a worker's label is the command it sends next.  What *)
(* a worker does between two commands is local and belongs to the step     *)
(* before.  Commands do not fail: the client is built with                 *)
(* maxRetriesPerRequest = null, so a command waits for the connection.     *)
(***************************************************************************)
EXTENDS RedisStore

CONSTANTS
    Workers,  \* the worker loops of every pool
    Handled   \* the jobs whose type has a registered handler

VARIABLES
    wpc,       \* the next command of the worker
    level,     \* which waiting list it polls next
    wjob,      \* the job in its hands
    wattempts  \* job.attempts as processJob read it

workerVars == <<wpc, level, wjob, wattempts>>

WorkerLabel == {"poll", "fetch", "activate", "unhandled", "register", "beat", "run",
                "settle", "park", "cleanup"}

WorkerTypeOK ==
    /\ wpc \in [Workers -> WorkerLabel]
    /\ level \in [Workers -> DOMAIN PRIORITIES]
    /\ wjob \in [Workers -> Jobs \cup {NoJob}]
    /\ wattempts \in [Workers -> 0 .. AttemptsCap]
    /\ \A w \in Workers : wjob[w] = NoJob <=> wpc[w] = "poll"

WorkerInit ==
    /\ wpc = [w \in Workers |-> "poll"]
    /\ level = [w \in Workers |-> 1]
    /\ wjob = [w \in Workers |-> NoJob]
    /\ wattempts = [w \in Workers |-> 0]

Goto(w, l) == wpc' = [wpc EXCEPT ![w] = l]

(* Back to the top of the loop: the job is out of the worker's hands. *)
NextRound(w) ==
    /\ Goto(w, "poll")
    /\ wjob' = [wjob EXCEPT ![w] = NoJob]
    /\ wattempts' = [wattempts EXCEPT ![w] = 0]

-------------------------------------------------------------------------------
(* workerLoop: RPOPLPUSH on each list in turn until one has a job. *)

(* Mutant: the next pass goes on where this one ended. *)
PollOn(w) ==
    LET p == PRIORITIES[level[w]] IN
    /\ wpc[w] = "poll"
    /\ waiting[p] # <<>>
    /\ RPopLPush(p)
    /\ wjob' = [wjob EXCEPT ![w] = Head(waiting[p])]
    /\ Goto(w, "fetch")
    /\ UNCHANGED <<hashVars, delayed, dead, aliveVars, idempotency, stats, level, wattempts>>

Poll(w) ==
    LET p == PRIORITIES[level[w]] IN
    /\ wpc[w] = "poll"
    /\ waiting[p] # <<>>
    /\ RPopLPush(p)
    /\ wjob' = [wjob EXCEPT ![w] = Head(waiting[p])]
    /\ level' = [level EXCEPT ![w] = 1]
    /\ Goto(w, "fetch")
    /\ UNCHANGED <<hashVars, delayed, dead, aliveVars, idempotency, stats, wattempts>>

PollEmpty(w) ==
    /\ wpc[w] = "poll"
    /\ waiting[PRIORITIES[level[w]]] = <<>>
    /\ level' = [level EXCEPT ![w] = IF @ < Len(PRIORITIES) THEN @ + 1 ELSE 1]
    /\ UNCHANGED <<storeVars, wpc, wjob, wattempts>>

-------------------------------------------------------------------------------
(* processJob *)

(* HGETALL of the job, parsed. *)
Fetch(w) ==
    /\ wpc[w] = "fetch"
    /\ hash[wjob[w]] = "full"
    /\ wattempts' = [wattempts EXCEPT ![w] = attempts[wjob[w]]]
    /\ Goto(w, "activate")
    /\ UNCHANGED <<storeVars, level, wjob>>

(* No hash: early return.  A hash without data: JSON.parse throws and the  *)
(* loop's catch swallows it.  Either way the id stays in processing.       *)
FetchNothing(w) ==
    /\ wpc[w] = "fetch"
    /\ hash[wjob[w]] # "full"
    /\ NextRound(w)
    /\ UNCHANGED <<storeVars, level>>

MarkActive(w) ==
    /\ wpc[w] = "activate"
    /\ HSetStatus(wjob[w], "active")
    /\ Goto(w, IF wjob[w] \in Handled THEN "register" ELSE "unhandled")
    /\ UNCHANGED <<attempts, listVars, aliveVars, idempotency, stats, level, wjob,
                   wattempts>>

(* No handler for the type: status failed, early return before the finally *)
(* block, so the id stays in processing.                                   *)
RejectUnhandled(w) ==
    /\ wpc[w] = "unhandled"
    /\ HSetStatus(wjob[w], "failed")
    /\ NextRound(w)
    /\ UNCHANGED <<attempts, listVars, aliveVars, idempotency, stats, level>>

Register(w) ==
    /\ wpc[w] = "register"
    /\ active' = active \cup {wjob[w]}
    /\ Goto(w, "beat")
    /\ UNCHANGED <<hashVars, listVars, heartbeat, idempotency, stats, level, wjob,
                   wattempts>>

FirstBeat(w) ==
    /\ wpc[w] = "beat"
    /\ heartbeat' = [heartbeat EXCEPT ![wjob[w]] = TRUE]
    /\ Goto(w, "run")
    /\ UNCHANGED <<hashVars, listVars, active, idempotency, stats, level, wjob,
                   wattempts>>

(* The interval timer runs from the first beat to clearInterval, with which *)
(* the finally block begins: the clean-up MULTI comes after it.             *)
TimerOn(w) == wpc[w] \in {"run", "settle", "park"}

HeartbeatTick(w) ==
    /\ TimerOn(w)
    /\ ~heartbeat[wjob[w]]
    /\ heartbeat' = [heartbeat EXCEPT ![wjob[w]] = TRUE]
    /\ UNCHANGED <<hashVars, listVars, active, idempotency, stats, workerVars>>

(* The handler resolves: one MULTI sets the status and the metrics. *)
Complete(w) ==
    /\ wpc[w] = "run"
    /\ HSetStatus(wjob[w], "completed")
    /\ stats' = [processed |-> Incr(stats.processed), failed |-> stats.failed]
    /\ Goto(w, "cleanup")
    /\ UNCHANGED <<attempts, listVars, aliveVars, idempotency, level, wjob, wattempts>>

(* The handler rejects: INCR of the failure counter ... *)
CountFailure(w) ==
    /\ wpc[w] = "run"
    /\ stats' = [processed |-> stats.processed, failed |-> Incr(stats.failed)]
    /\ Goto(w, "settle")
    /\ UNCHANGED <<hashVars, listVars, aliveVars, idempotency, level, wjob, wattempts>>

(* ... then the verdict, from the attempts read at the start. *)
NextAttempt(w) == Bump(wattempts[w])
WillRetry(w)   == NextAttempt(w) < MaxAttempts[wjob[w]]

Settle(w) ==
    /\ wpc[w] = "settle"
    /\ UpdateJobFields(wjob[w], IF WillRetry(w) THEN "delayed" ELSE "dead", NextAttempt(w))
    /\ Goto(w, "park")
    /\ UNCHANGED <<listVars, aliveVars, idempotency, stats, level, wjob, wattempts>>

(* ZADD with a back-off score ... *)
ParkDelayed(w) ==
    /\ wpc[w] = "park"
    /\ WillRetry(w)
    /\ delayed' = delayed \cup {wjob[w]}
    /\ Goto(w, "cleanup")
    /\ UNCHANGED <<hashVars, waiting, processing, dead, aliveVars, idempotency, stats,
                   level, wjob, wattempts>>

(* ... or LPUSH on the dead-letter list. *)
ParkDead(w) ==
    /\ wpc[w] = "park"
    /\ ~WillRetry(w)
    /\ dead' = dead \cup {wjob[w]}
    /\ Goto(w, "cleanup")
    /\ UNCHANGED <<hashVars, waiting, processing, delayed, aliveVars, idempotency, stats,
                   level, wjob, wattempts>>

(* finally: HDEL, DEL, LREM 1 in one MULTI. *)
Cleanup(w) ==
    /\ wpc[w] = "cleanup"
    /\ active' = active \ {wjob[w]}
    /\ heartbeat' = [heartbeat EXCEPT ![wjob[w]] = FALSE]
    /\ LRemProcessing(wjob[w])
    /\ NextRound(w)
    /\ UNCHANGED <<hashVars, waiting, delayed, dead, idempotency, stats, level>>

-------------------------------------------------------------------------------
(* Live workers that have this job in their hands ... *)
Holders(j) == {w \in Workers : wjob[w] = j}

(* ... and those of them that have not yet put it where it goes next. *)
Undecided(j) == {w \in Holders(j) : wpc[w] # "cleanup"}
===============================================================================
