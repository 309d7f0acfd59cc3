------------------------------- MODULE RetryApi -------------------------------
(***************************************************************************)
(* POST /jobs/:id/retry (src/src/api/routes.ts), the one route that        *)
(* changes a queued job.  A request reads the job and, if its status is    *)
(* dead or failed, requeues it with a MULTI.  The answers 404 and 400      *)
(* change nothing and are not steps.                                       *)
(***************************************************************************)
EXTENDS RedisStore

CONSTANT Requests  \* retry requests that may be under way together

VARIABLE ajob  \* the job a request found retryable, NoJob while it has none

apiVars == <<ajob>>

ApiTypeOK == ajob \in [Requests -> Jobs \cup {NoJob}]
ApiInit   == ajob = [r \in Requests |-> NoJob]

(* Mutant: no status check. *)
CheckNothing(r) ==
    /\ ajob[r] = NoJob
    /\ \E j \in Jobs : hash[j] = "full" /\ ajob' = [ajob EXCEPT ![r] = j]
    /\ UNCHANGED storeVars

(* getJob and the status check. *)
CheckRetryable(r) ==
    /\ ajob[r] = NoJob
    /\ \E j \in Jobs :
        /\ hash[j] = "full"
        /\ status[j] \in {"dead", "failed"}
        /\ ajob' = [ajob EXCEPT ![r] = j]
    /\ UNCHANGED storeVars

(* MULTI: LREM 0 of the dead list, HMSET, LPUSH. *)
Retry(r) ==
    LET j == ajob[r] IN
    /\ j # NoJob
    /\ Room(Priority[j], j)
    /\ dead' = dead \ {j}
    /\ UpdateJobFields(j, "waiting", 0)
    /\ LPushWaiting(Priority[j], j)
    /\ ajob' = [ajob EXCEPT ![r] = NoJob]
    /\ UNCHANGED <<processing, delayed, aliveVars, idempotency, stats>>
===============================================================================
