----------------------------- MODULE DistriResend -----------------------------
(***************************************************************************)
(* The system over a connection that breaks.  The client is built with     *)
(* maxRetriesPerRequest = null (src/src/lib/redis/client.ts 30-46): no     *)
(* command is given up, one whose reply was lost with the connection is    *)
(* sent again.  Redis may have executed it the first time.  So a command   *)
(* takes effect once more than its sender knows: the store changes and the *)
(* sender stays where it is, about to send the command (again).            *)
(*                                                                         *)
(* Left out are the commands that nobody can tell from one execution: DEL  *)
(* and HMSET of a hash only its enqueue knows, HSET of the active hash,    *)
(* SET of a heartbeat, and reads.                                          *)
(***************************************************************************)
EXTENDS Distri

CONSTANT MaxResends  \* bound: commands executed without their sender knowing

ASSUME ResendAssumption == MaxResends \in Nat

VARIABLE resent  \* history: <<command, job>> for each of them

resendVars == <<vars, resent>>

(* Named for what they do to the job.  A worker writes a status with       *)
(* "activate", "reject" (no handler), "complete" (the success MULTI),      *)
(* "postpone" or "condemn" (the HMSET after a failure), and parks a job    *)
(* with "delay" (ZADD) or "bury" (LPUSH on the dead-letter list).          *)
Commands == {"push", "claim", "poll", "activate", "reject", "complete", "postpone", "condemn",
             "delay", "bury", "cleanup", "requeue", "release", "retry"}

ResendTypeOK == TypeOK /\ resent \subseteq Commands \X Jobs

ResendInit == Init /\ resent = {}

(* The reply to c, sent for job j, is lost: its sender learns nothing. *)
LoseReply(c, j) ==
    /\ Cardinality(resent) < MaxResends
    /\ resent' = resent \cup {<<c, j>>}
    /\ UNCHANGED <<queueVars, workerVars, watchdogVars, schedulerVars, apiVars, faultVars>>

-------------------------------------------------------------------------------
(* Producers. *)

PushUnseen(j) ==
    /\ call[j] = "saved"
    /\ KeyOf[j] = NoKey
    /\ LPushWaiting(Priority[j], j)
    /\ LoseReply("push", j)
    /\ UNCHANGED <<hashVars, processing, delayed, dead, aliveVars, idempotency, stats,
                   historyVars>>

ClaimUnseen(j) ==
    /\ call[j] = "saved"
    /\ KeyOf[j] # NoKey
    /\ idempotency[KeyOf[j]] = NoJob
    /\ idempotency' = [idempotency EXCEPT ![KeyOf[j]] = j]
    /\ LPushWaiting(Priority[j], j)
    /\ LoseReply("claim", j)
    /\ UNCHANGED <<hashVars, processing, delayed, dead, aliveVars, stats, historyVars>>

(* Mutant: the script takes its caller's own claim for another's. *)
AnswerAsTaken(j) ==
    /\ call[j] = "saved"
    /\ KeyOf[j] # NoKey
    /\ idempotency[KeyOf[j]] = j
    /\ claimed' = [claimed EXCEPT ![j] = j]
    /\ call' = [call EXCEPT ![j] = "collided"]
    /\ UNCHANGED <<storeVars, workerVars, watchdogVars, schedulerVars, apiVars, faultVars,
                   historyVars, resent>>

(* The script, run again, finds the key taken by this very call and        *)
(* returns its id: claimedId = job.id, as if it had just claimed it.       *)
AnswerOwn(j) ==
    /\ call[j] = "saved"
    /\ KeyOf[j] # NoKey
    /\ idempotency[KeyOf[j]] = j
    /\ claimed' = [claimed EXCEPT ![j] = j]
    /\ call' = [call EXCEPT ![j] = "returned"]
    /\ UNCHANGED <<storeVars, workerVars, watchdogVars, schedulerVars, apiVars, faultVars,
                   historyVars, resent>>

-------------------------------------------------------------------------------
(* Workers. *)

PollUnseen(w) ==
    LET p == PRIORITIES[level[w]] IN
    /\ wpc[w] = "poll"
    /\ waiting[p] # <<>>
    /\ RPopLPush(p)
    /\ LoseReply("poll", Head(waiting[p]))
    /\ UNCHANGED <<hashVars, delayed, dead, aliveVars, idempotency, stats, historyVars>>

(* A status write.  The success MULTI is among them: when its reply is     *)
(* lost half-way exec() rejects, the catch block follows and the job that  *)
(* succeeded is counted as failed (CountFailure, from the same label).     *)
StatusUnseen(w) ==
    LET j == wjob[w] IN
    /\ \/ /\ wpc[w] = "activate"
          /\ HSetStatus(j, "active") /\ UNCHANGED <<attempts, done>>
          /\ LoseReply("activate", j)
       \/ /\ wpc[w] = "unhandled"
          /\ HSetStatus(j, "failed") /\ UNCHANGED <<attempts, done>>
          /\ LoseReply("reject", j)
       \/ /\ wpc[w] = "run"
          /\ HSetStatus(j, "completed") /\ done' = done \cup {j} /\ UNCHANGED attempts
          /\ LoseReply("complete", j)
       \/ /\ wpc[w] = "settle"
          /\ UpdateJobFields(j, IF WillRetry(w) THEN "delayed" ELSE "dead", NextAttempt(w))
          /\ UNCHANGED done
          /\ LoseReply(IF WillRetry(w) THEN "postpone" ELSE "condemn", j)
    /\ UNCHANGED <<listVars, aliveVars, idempotency, stats, abandoned, robbed>>

ParkUnseen(w) ==
    /\ wpc[w] = "park"
    /\ IF WillRetry(w)
       THEN delayed' = delayed \cup {wjob[w]} /\ UNCHANGED dead
       ELSE dead' = dead \cup {wjob[w]} /\ UNCHANGED delayed
    /\ LoseReply(IF WillRetry(w) THEN "delay" ELSE "bury", wjob[w])
    /\ UNCHANGED <<hashVars, waiting, processing, aliveVars, idempotency, stats, historyVars>>

CleanupUnseen(w) ==
    /\ wpc[w] = "cleanup"
    /\ active' = active \ {wjob[w]}
    /\ heartbeat' = [heartbeat EXCEPT ![wjob[w]] = FALSE]
    /\ LRemProcessing(wjob[w])
    /\ LoseReply("cleanup", wjob[w])
    /\ UNCHANGED <<hashVars, waiting, delayed, dead, idempotency, stats, historyVars>>

-------------------------------------------------------------------------------
(* Watchdog, scheduler and retry route: their MULTIs. *)

RequeueUnseen(d) ==
    LET j == djob[d]
        p == ListOf(dhash[d], j)
    IN
    /\ dpc[d] = "requeue"
    /\ dhash[d] # "absent"
    /\ processing[j] > 0 \/ Room(p, j)
    /\ active' = active \ {j}
    /\ LRemProcessing(j)
    /\ UpdateJobFields(j, "waiting", Bump(dattempts[d]))
    /\ LPushWaiting(p, j)
    /\ Robs(d)
    /\ abandoned' = abandoned \ {j}
    /\ LoseReply("requeue", j)
    /\ UNCHANGED <<delayed, dead, heartbeat, idempotency, stats, done>>

ReleaseUnseen(s) ==
    /\ spc[s] = "release"
    /\ Room(sprio[s], sjob[s])
    /\ delayed' = delayed \ {sjob[s]}
    /\ LPushWaiting(sprio[s], sjob[s])
    /\ HSetStatus(sjob[s], "waiting")
    /\ abandoned' = abandoned \ {sjob[s]}
    /\ LoseReply("release", sjob[s])
    /\ UNCHANGED <<attempts, processing, dead, aliveVars, idempotency, stats, robbed, done>>

RetryUnseen(r) ==
    LET j == ajob[r] IN
    /\ j # NoJob
    /\ Room(Priority[j], j)
    /\ dead' = dead \ {j}
    /\ UpdateJobFields(j, "waiting", 0)
    /\ LPushWaiting(Priority[j], j)
    /\ abandoned' = abandoned \ {j}
    /\ LoseReply("retry", j)
    /\ UNCHANGED <<processing, delayed, aliveVars, idempotency, stats, robbed, done>>

-------------------------------------------------------------------------------
ResendNext ==
    \/ Next /\ UNCHANGED resent
    \/ \E j \in Jobs : PushUnseen(j) \/ ClaimUnseen(j) \/ AnswerOwn(j)
    \/ \E w \in Workers : PollUnseen(w) \/ StatusUnseen(w) \/ ParkUnseen(w) \/ CleanupUnseen(w)
    \/ \E d \in Watchdogs : RequeueUnseen(d)
    \/ \E s \in Schedulers : ReleaseUnseen(s)
    \/ \E r \in Requests : RetryUnseen(r)

ResendSpec == ResendInit /\ [][ResendNext]_resendVars

-------------------------------------------------------------------------------
(* Properties. *)

(* A lost reply by itself loses no job.  For a job to become unfindable it *)
(* takes someone who had it and no longer does - a worker that crashed, or *)
(* a pop whose reply was lost - and someone who took a token not his own   *)
(* from the processing list: a worker the watchdog had taken the job from, *)
(* or a clean-up (WorkerPool.ts 185-189) executed twice.                   *)
LossNeedsTwo ==
    \A j \in Jobs :
        call[j] = "returned" /\ j \notin evicted /\ ~Findable(j) =>
            /\ j \in abandoned \/ <<"poll", j>> \in resent
            /\ j \in robbed \/ <<"cleanup", j>> \in resent

(* Workers that may yet call the job's handler or are in it. *)
Handling(j) ==
    {w \in Holders(j) : j \in Handled /\ wpc[w] \in {"fetch", "activate", "register", "beat", "run"}}

(* Commands that push an id, or the ZADD that gets it pushed later ... *)
Pushes == {"push", "delay", "release", "retry"}

(* ... and the one status write that lets somebody else push it: the HMSET *)
(* to dead, sent again after a retry request has acted on its first        *)
(* execution, makes the job retryable while it is listed or run.           *)
Verdicts == {"condemn"}

(* Without watchdogs it takes one of these, executed twice, to have two    *)
(* workers run a job.  A pop, a clean-up, the dead-letter push, the claim  *)
(* of a key that has not run out and every other status write - of a       *)
(* worker that starts the job, of the success MULTI whose lost reply has   *)
(* the job retried, of a failure that will be retried - are safe to send   *)
(* again in this respect.                                                  *)
RunTwiceNeedsPushOrVerdict ==
    \A j \in Jobs :
        Cardinality(Handling(j)) > 1 =>
            \/ \E c \in Pushes \cup Verdicts : <<c, j>> \in resent
            \/ <<"claim", j>> \in resent /\ expiries[KeyOf[j]] > 0

(* Nobody works on a duplicate: the hash that an enqueue deletes because   *)
(* it lost its key is that of no job a worker or a list holds, unless the  *)
(* claim was executed unseen and the key then ran out.                     *)
DuplicatesAreIdle ==
    \A j \in Jobs :
        call[j] \in {"collided", "rejected"} =>
            \/ ~Circulating(j)
            \/ <<"claim", j>> \in resent /\ expiries[KeyOf[j]] > 0
===============================================================================
