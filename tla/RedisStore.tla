------------------------------ MODULE RedisStore ------------------------------
(***************************************************************************)
(* The Redis keys the task queue lives in (src/src/lib/redis/keys.ts) and  *)
(* the commands the components issue on them.  Redis executes commands,    *)
(* MULTI blocks and Lua scripts one at a time, so each of them is one step *)
(* of whichever component sends it.                                        *)
(*                                                                         *)
(* Lists are written oldest first: LPUSH appends, RPOP takes the head.     *)
(* Only membership with multiplicity of the processing list is ever read,  *)
(* so it is a count per id; of the dead list only membership is (LREM 0    *)
(* deletes every copy), so it is a set.  The entry stored under an id in   *)
(* the active hash and the scores of the delayed set are not read back by  *)
(* any decision except "due or not", so both are sets of ids.              *)
(***************************************************************************)
EXTENDS Naturals, Sequences

CONSTANTS
    Jobs,         \* job ids: every enqueue call draws a fresh uuid
    Keys,         \* idempotency keys
    NoJob, NoKey, \* null
    PRIORITIES,   \* the waiting lists in polling order, <<"high", "normal", "low">>
    Priority,     \* the priority a job was enqueued with
    MaxAttempts,  \* its maxAttempts
    KeyOf,        \* its idempotency key, or NoKey
    AttemptsCap,  \* bound: the attempts field saturates here
    CounterCap,   \* bound: the metric counters saturate here
    MaxCopies     \* bound: copies of ids that may pile up in the lists

PrioritySet == {PRIORITIES[i] : i \in DOMAIN PRIORITIES}
DefaultPriority == "normal"

ASSUME StoreAssumption ==
    /\ NoJob \notin Jobs
    /\ NoKey \notin Keys
    /\ PRIORITIES \in Seq(STRING)
    /\ Len(PRIORITIES) > 0
    /\ DefaultPriority \in PrioritySet
    /\ Priority \in [Jobs -> PrioritySet]
    /\ MaxAttempts \in [Jobs -> Nat]
    /\ KeyOf \in [Jobs -> Keys \cup {NoKey}]
    /\ AttemptsCap \in Nat
    /\ \A j \in Jobs : MaxAttempts[j] < AttemptsCap
    /\ CounterCap \in Nat
    /\ MaxCopies \in Nat

VARIABLES
    hash,        \* job:<id>  - which fields it has: "absent", "partial" or "full"
    status,      \* job:<id>  - the status field
    attempts,    \* job:<id>  - the attempts field
    waiting,     \* queue:<q>:waiting:<priority>  - list of ids
    processing,  \* queue:<q>:processing          - copies of each id
    delayed,     \* queue:<q>:delayed             - ids
    dead,        \* queue:<q>:dead                - ids
    active,      \* active_jobs:<q>               - ids
    heartbeat,   \* heartbeat:<id>                - does the key exist
    idempotency, \* idempotency:<key>             - id that claimed the key
    stats        \* jobs_processed_total, jobs_failed_total

hashVars  == <<hash, status, attempts>>
listVars  == <<waiting, processing, delayed, dead>>
aliveVars == <<active, heartbeat>>
storeVars == <<hashVars, listVars, aliveVars, idempotency, stats>>

JobStatus == {"waiting", "active", "completed", "failed", "delayed", "dead"}
Fields    == {"absent", "partial", "full"}

StoreTypeOK ==
    /\ hash \in [Jobs -> Fields]
    /\ status \in [Jobs -> JobStatus]
    /\ attempts \in [Jobs -> 0 .. AttemptsCap]
    /\ waiting \in [PrioritySet -> Seq(Jobs)]
    /\ processing \in [Jobs -> Nat]
    /\ delayed \subseteq Jobs
    /\ dead \subseteq Jobs
    /\ active \subseteq Jobs
    /\ heartbeat \in [Jobs -> BOOLEAN]
    /\ idempotency \in [Keys -> Jobs \cup {NoJob}]
    /\ stats \in [processed : 0 .. CounterCap, failed : 0 .. CounterCap]

StoreInit ==
    /\ hash = [j \in Jobs |-> "absent"]
    /\ status = [j \in Jobs |-> "waiting"]
    /\ attempts = [j \in Jobs |-> 0]
    /\ waiting = [p \in PrioritySet |-> <<>>]
    /\ processing = [j \in Jobs |-> 0]
    /\ delayed = {}
    /\ dead = {}
    /\ active = {}
    /\ heartbeat = [j \in Jobs |-> FALSE]
    /\ idempotency = [k \in Keys |-> NoJob]
    /\ stats = [processed |-> 0, failed |-> 0]

-------------------------------------------------------------------------------
(* Counters that saturate.  attempts is only ever compared with            *)
(* maxAttempts < AttemptsCap, so its saturation is invisible to the code.  *)

Bump(n) == IF n < AttemptsCap THEN n + 1 ELSE n
Incr(n) == IF n < CounterCap THEN n + 1 ELSE n

-------------------------------------------------------------------------------
(* Commands.  HSET and HMSET on a missing key create it with just the      *)
(* fields they write: the rest of the job (type, data, priority) is gone.  *)

HSetStatus(j, s) ==
    /\ hash' = [hash EXCEPT ![j] = IF @ = "absent" THEN "partial" ELSE @]
    /\ status' = [status EXCEPT ![j] = s]

(* Mutant: only the attempts are written. *)
UpdateAttempts(j, s, n) ==
    /\ attempts' = [attempts EXCEPT ![j] = n]
    /\ UNCHANGED <<hash, status>>

UpdateJobFields(j, s, n) ==
    /\ HSetStatus(j, s)
    /\ attempts' = [attempts EXCEPT ![j] = n]

LPushWaiting(p, j) == waiting' = [waiting EXCEPT ![p] = Append(@, j)]

(* Mutant: RPOP, the pop-crash race RPOPLPUSH is there to close. *)
RPop(p) ==
    /\ waiting' = [waiting EXCEPT ![p] = Tail(@)]
    /\ UNCHANGED processing

RPopLPush(p) ==
    /\ waiting' = [waiting EXCEPT ![p] = Tail(@)]
    /\ processing' = [processing EXCEPT ![Head(waiting[p])] = @ + 1]

(* Mutant: a count that is not floored. *)
LRemUnchecked(j) == processing' = [processing EXCEPT ![j] = @ - 1]

(* LREM 1: one copy, if there is one. *)
LRemProcessing(j) ==
    processing' = [processing EXCEPT ![j] = IF @ > 0 THEN @ - 1 ELSE @]

(* The list a job goes back to: `hash.priority || 'normal'`. *)
ListOf(fields, j) == IF fields = "full" THEN Priority[j] ELSE DefaultPriority

(* Is the id in one of the waiting lists? *)
Listed(j) == \E p \in PrioritySet : \E i \in 1 .. Len(waiting[p]) : waiting[p][i] = j

(* Bound: a push that adds a copy of j is explored only below MaxCopies. *)
Room(p, j) == processing[j] + Len(waiting[p]) < MaxCopies
===============================================================================
