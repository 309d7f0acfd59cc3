-------------------------------- MODULE Queue --------------------------------
(***************************************************************************)
(* The producer side: Queue.enqueue (src/src/queue/Queue.ts).  A call      *)
(* saves the job hash first and then publishes the id, with a plain LPUSH  *)
(* or, under an idempotency key, with the idempotentEnqueue script; a call *)
(* that loses the key deletes the hash it saved and returns the winner's   *)
(* id.  The call is named by the uuid it draws.  A producer may stop for   *)
(* ever between two of its steps: nothing here is fair.                    *)
(***************************************************************************)
EXTENDS RedisStore

VARIABLES
    call,    \* how far the enqueue call for this id got
    claimed  \* the id the idempotentEnqueue script returned to it

queueVars == <<call, claimed>>

CallState == {"none", "saved", "collided", "rejected", "returned"}

QueueTypeOK ==
    /\ call \in [Jobs -> CallState]
    /\ claimed \in [Jobs -> Jobs \cup {NoJob}]

QueueInit ==
    /\ call = [j \in Jobs |-> "none"]
    /\ claimed = [j \in Jobs |-> NoJob]

(* saveJob: HMSET of every field. *)
SaveJob(j) ==
    /\ call[j] = "none"
    /\ hash' = [hash EXCEPT ![j] = "full"]
    /\ status' = [status EXCEPT ![j] = "waiting"]
    /\ attempts' = [attempts EXCEPT ![j] = 0]
    /\ call' = [call EXCEPT ![j] = "saved"]
    /\ UNCHANGED <<listVars, aliveVars, idempotency, stats, claimed>>

(* Mutant: the id is published before the hash is there. *)
PushUnsaved(j) ==
    /\ call[j] = "none"
    /\ KeyOf[j] = NoKey
    /\ LPushWaiting(Priority[j], j)
    /\ call' = [call EXCEPT ![j] = "returned"]
    /\ UNCHANGED <<hashVars, processing, delayed, dead, aliveVars, idempotency, stats,
                   claimed>>

(* No idempotency key: LPUSH on the list of the job's priority. *)
PushJob(j) ==
    /\ call[j] = "saved"
    /\ KeyOf[j] = NoKey
    /\ LPushWaiting(Priority[j], j)
    /\ call' = [call EXCEPT ![j] = "returned"]
    /\ UNCHANGED <<hashVars, processing, delayed, dead, aliveVars, idempotency, stats,
                   claimed>>

(* Mutant: the key is set without looking whether it is free. *)
ClaimKeyAnyway(j) ==
    /\ call[j] = "saved"
    /\ KeyOf[j] # NoKey
    /\ idempotency' = [idempotency EXCEPT ![KeyOf[j]] = j]
    /\ LPushWaiting(Priority[j], j)
    /\ claimed' = [claimed EXCEPT ![j] = j]
    /\ call' = [call EXCEPT ![j] = "returned"]
    /\ UNCHANGED <<hashVars, processing, delayed, dead, aliveVars, stats>>

(* The script claims a free key and pushes, in one step ... *)
ClaimKey(j) ==
    /\ call[j] = "saved"
    /\ KeyOf[j] # NoKey
    /\ idempotency[KeyOf[j]] = NoJob
    /\ idempotency' = [idempotency EXCEPT ![KeyOf[j]] = j]
    /\ LPushWaiting(Priority[j], j)
    /\ claimed' = [claimed EXCEPT ![j] = j]
    /\ call' = [call EXCEPT ![j] = "returned"]
    /\ UNCHANGED <<hashVars, processing, delayed, dead, aliveVars, stats>>

(* ... or returns the id that owns it, and that id is another's. *)
LoseKey(j) ==
    /\ call[j] = "saved"
    /\ KeyOf[j] # NoKey
    /\ idempotency[KeyOf[j]] \notin {NoJob, j}
    /\ claimed' = [claimed EXCEPT ![j] = idempotency[KeyOf[j]]]
    /\ call' = [call EXCEPT ![j] = "collided"]
    /\ UNCHANGED storeVars

(* Mutant: DEL of the hash of the id that was returned. *)
DropWinner(j) ==
    /\ call[j] = "collided"
    /\ hash' = [hash EXCEPT ![claimed[j]] = "absent"]
    /\ call' = [call EXCEPT ![j] = "rejected"]
    /\ UNCHANGED <<status, attempts, listVars, aliveVars, idempotency, stats, claimed>>

(* DEL of the hash that was saved for nothing. *)
DropDuplicate(j) ==
    /\ call[j] = "collided"
    /\ hash' = [hash EXCEPT ![j] = "absent"]
    /\ call' = [call EXCEPT ![j] = "rejected"]
    /\ UNCHANGED <<status, attempts, listVars, aliveVars, idempotency, stats, claimed>>

(* The key's 24 h TTL runs out. *)
KeyExpires(k) ==
    /\ idempotency[k] # NoJob
    /\ idempotency' = [idempotency EXCEPT ![k] = NoJob]
    /\ UNCHANGED <<hashVars, listVars, aliveVars, stats, queueVars>>

(* The SDK's enqueue (distri-sdk/Queue.ts): the same two commands from     *)
(* another program; it knows no idempotency keys.                          *)
SdkEnqueue(j) == KeyOf[j] = NoKey /\ (SaveJob(j) \/ PushJob(j))

Enqueue(j) == SaveJob(j) \/ PushJob(j) \/ ClaimKey(j) \/ LoseKey(j) \/ DropDuplicate(j)
===============================================================================
