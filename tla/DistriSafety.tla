----------------------------- MODULE DistriSafety -----------------------------
(***************************************************************************)
(* The safety invariants of Distri, proved for every value of its          *)
(* constants on top of type correctness.                                   *)
(***************************************************************************)
EXTENDS DistriProofs

-------------------------------------------------------------------------------
(* What pushing and popping do to the waiting lists. *)

LEMMA PushLists ==
    ASSUME StoreTypeOK, NEW j \in Jobs, NEW p \in PrioritySet, LPushWaiting(p, j)
    PROVE  \A i \in Jobs : Listed(i)' <=> Listed(i) \/ i = j
  <1>1. waiting' = [waiting EXCEPT ![p] = Append(@, j)]
    BY DEF LPushWaiting
  <1>2. waiting \in [PrioritySet -> Seq(Jobs)]
    BY DEF StoreTypeOK
  <1> TAKE i \in Jobs
  <1>3. ASSUME NEW q \in PrioritySet, NEW n \in 1 .. Len(waiting[q]), waiting[q][n] = i
        PROVE  n \in 1 .. Len(waiting'[q]) /\ waiting'[q][n] = i
    BY <1>1, <1>2, <1>3
  <1>4. ASSUME NEW q \in PrioritySet, NEW n \in 1 .. Len(waiting'[q]), waiting'[q][n] = i
        PROVE  i = j \/ (n \in 1 .. Len(waiting[q]) /\ waiting[q][n] = i)
    BY <1>1, <1>2, <1>4
  <1>5. /\ Len(waiting[p]) + 1 \in 1 .. Len(waiting'[p])
        /\ waiting'[p][Len(waiting[p]) + 1] = j
    BY <1>1, <1>2
  <1> QED BY <1>3, <1>4, <1>5 DEF Listed

(* RPOPLPUSH takes the head off one list and moves nothing else. *)
LEMMA PopLists ==
    ASSUME StoreTypeOK, NEW p \in PrioritySet, waiting[p] # <<>>, RPopLPush(p)
    PROVE  /\ Listed(Head(waiting[p]))
           /\ \A i \in Jobs : Listed(i)' => Listed(i)
           /\ \A i \in Jobs : Listed(i) => Listed(i)' \/ i = Head(waiting[p])
  <1>1. waiting' = [waiting EXCEPT ![p] = Tail(@)]
    BY DEF RPopLPush
  <1>2. waiting \in [PrioritySet -> Seq(Jobs)]
    BY DEF StoreTypeOK
  <1>3. Listed(Head(waiting[p]))
    BY <1>2 DEF Listed
  <1>4. ASSUME NEW q \in PrioritySet, NEW n \in 1 .. Len(waiting'[q])
        PROVE  \/ n \in 1 .. Len(waiting[q]) /\ waiting[q][n] = waiting'[q][n]
               \/ n + 1 \in 1 .. Len(waiting[q]) /\ waiting[q][n + 1] = waiting'[q][n]
    BY <1>1, <1>2
  <1>5. ASSUME NEW q \in PrioritySet, NEW n \in 1 .. Len(waiting[q]),
               waiting[q][n] # Head(waiting[p])
        PROVE  \/ n \in 1 .. Len(waiting'[q]) /\ waiting'[q][n] = waiting[q][n]
               \/ n - 1 \in 1 .. Len(waiting'[q]) /\ waiting'[q][n - 1] = waiting[q][n]
    BY <1>1, <1>2, <1>5
  <1>6. \A i \in Jobs : Listed(i)' => Listed(i)
    BY <1>4 DEF Listed
  <1>7. \A i \in Jobs : Listed(i) => Listed(i)' \/ i = Head(waiting[p])
    BY <1>5 DEF Listed
  <1> QED BY <1>3, <1>6, <1>7

-------------------------------------------------------------------------------
(* Published jobs are whole.                                               *)

Requested(j) == \E r \in Requests : ajob[r] = j
InUse(j)     == Circulating(j) \/ Requested(j)

(* Inductive: ids come into use by being published, with a hash that is    *)
(* complete by then, and nobody but its producer writes to it before.      *)
Whole ==
    /\ \A j \in Jobs : InUse(j) => call[j] = "returned"
    /\ \A j \in Jobs \ evicted :
          call[j] \in {"saved", "collided", "returned"} => hash[j] = "full"
    /\ \A j \in Jobs : call[j] # "returned" => status[j] = "waiting" /\ attempts[j] = 0

(* The parts of InUse that a step which leaves a component's variables     *)
(* alone does not change.                                                  *)
LEMMA UseFrame ==
    ASSUME NEW i \in Jobs
    PROVE  /\ UNCHANGED <<listVars, active>> => (Stored(i)' <=> Stored(i))
           /\ UNCHANGED workerVars => (Held(i)' <=> Held(i))
           /\ UNCHANGED watchdogVars => (Watched(i)' <=> Watched(i))
           /\ UNCHANGED schedulerVars => (Scheduled(i)' <=> Scheduled(i))
           /\ UNCHANGED idempotency => (Owner(i)' <=> Owner(i))
           /\ UNCHANGED apiVars => (Requested(i)' <=> Requested(i))
  <1>1. UNCHANGED <<listVars, active>> => (Stored(i)' <=> Stored(i))
    BY DEF Stored, Listed, listVars
  <1>2. UNCHANGED workerVars => (Held(i)' <=> Held(i))
    BY DEF Held, Holders, workerVars
  <1>3. UNCHANGED watchdogVars => (Watched(i)' <=> Watched(i))
    BY DEF Watched, watchdogVars
  <1>4. UNCHANGED schedulerVars => (Scheduled(i)' <=> Scheduled(i))
    BY DEF Scheduled, schedulerVars
  <1>5. UNCHANGED idempotency => (Owner(i)' <=> Owner(i))
    BY DEF Owner
  <1>6. UNCHANGED apiVars => (Requested(i)' <=> Requested(i))
    BY DEF Requested, apiVars
  <1> QED BY <1>1, <1>2, <1>3, <1>4, <1>5, <1>6

(* A worker brings no id into use. *)
LEMMA UseWorker ==
    ASSUME TypeOK, NEW w \in Workers, Worker(w) \/ Beat(w), NEW i \in Jobs, InUse(i)'
    PROVE  InUse(i)
  <1>0. /\ StoreTypeOK
        /\ WorkerTypeOK
        /\ UNCHANGED <<watchdogVars, schedulerVars, apiVars>>
    BY DEF TypeOK, Worker, Beat
  <1>k. UNCHANGED idempotency
    BY DEF Worker, Beat, Working, Poll, PollEmpty, Fetch, FetchNothing, MarkActive,
           RejectUnhandled, Register, FirstBeat, HeartbeatTick, CountFailure, Settle,
           ParkDelayed, ParkDead, Cleanup, Complete, storeVars
  <1>r. /\ Watched(i)' => InUse(i)
        /\ Scheduled(i)' => InUse(i)
        /\ Owner(i)' => InUse(i)
        /\ Requested(i)' => InUse(i)
    BY <1>0, <1>k, UseFrame DEF InUse, Circulating
  <1>1. CASE Poll(w)
    <2> DEFINE p == PRIORITIES[level[w]]
    <2>1. p \in PrioritySet /\ waiting[p] # <<>> /\ RPopLPush(p)
      BY <1>0, <1>1, LevelType DEF Poll, WorkerTypeOK
    <2>2. Listed(Head(waiting[p])) /\ Head(waiting[p]) \in Jobs /\ (Listed(i)' => Listed(i))
      BY <1>0, <2>1, PopLists, PopType
    <2>3. processing' = [processing EXCEPT ![Head(waiting[p])] = @ + 1]
      BY <2>1 DEF RPopLPush
    <2>4. wjob' = [wjob EXCEPT ![w] = Head(waiting[p])] /\ UNCHANGED <<delayed, dead, active>>
      BY <1>1 DEF Poll, aliveVars
    <2> HIDE DEF p
    <2>5. Stored(i)' => Stored(i)
      BY <1>0, <2>2, <2>3, <2>4 DEF Stored, StoreTypeOK
    <2>6. Held(i)' => Held(i) \/ Stored(i)
      BY <1>0, <2>2, <2>4 DEF Held, Holders, Stored, WorkerTypeOK
    <2> QED BY <1>r, <2>5, <2>6 DEF InUse, Circulating
  <1>2. CASE Cleanup(w)
    <2>1. Stored(i)' => Stored(i)
      BY <1>0, <1>2 DEF Cleanup, LRemProcessing, WorkerTypeOK, StoreTypeOK, Stored, Listed
    <2>2. Held(i)' => Held(i)
      BY <1>0, <1>2, StoreAssumption DEF Cleanup, NextRound, WorkerTypeOK, Held, Holders
    <2> QED BY <1>r, <2>1, <2>2 DEF InUse, Circulating
  <1>3. CASE Register(w) \/ ParkDelayed(w) \/ ParkDead(w)
    <2>1. Stored(i)' => Stored(i) \/ i = wjob[w]
      BY <1>0, <1>3 DEF Register, ParkDelayed, ParkDead, Stored, Listed, listVars, aliveVars
    <2>h. Held(wjob[w])
      BY DEF Held, Holders
    <2>2. Held(i)' => Held(i)
      BY <1>3 DEF Register, ParkDelayed, ParkDead, Held, Holders
    <2> QED BY <1>r, <2>1, <2>h, <2>2 DEF InUse, Circulating
  <1>4. CASE FetchNothing(w) \/ RejectUnhandled(w)
    <2>1. UNCHANGED <<listVars, active>>
      BY <1>4 DEF FetchNothing, RejectUnhandled, storeVars, aliveVars
    <2>2. Held(i)' => Held(i)
      BY <1>0, <1>4, StoreAssumption
         DEF FetchNothing, RejectUnhandled, NextRound, WorkerTypeOK, Held, Holders
    <2> QED BY <1>r, <2>1, <2>2, UseFrame DEF InUse, Circulating
  <1>5. CASE \/ PollEmpty(w) \/ Fetch(w) \/ MarkActive(w) \/ FirstBeat(w)
             \/ HeartbeatTick(w) \/ CountFailure(w) \/ Settle(w) \/ Complete(w)
    <2>1. UNCHANGED <<listVars, active>>
      BY <1>5 DEF PollEmpty, Fetch, MarkActive, FirstBeat, HeartbeatTick, CountFailure,
                  Settle, Complete, storeVars, aliveVars
    <2>2. UNCHANGED wjob
      BY <1>5 DEF PollEmpty, Fetch, MarkActive, FirstBeat, HeartbeatTick, CountFailure,
                  Settle, Complete, workerVars
    <2>3. Held(i)' => Held(i)
      BY <2>2 DEF Held, Holders
    <2> QED BY <1>r, <2>1, <2>3, UseFrame DEF InUse, Circulating
  <1> QED BY <1>1, <1>2, <1>3, <1>4, <1>5 DEF Worker, Working, Beat

(* Nor does a watchdog: it pushes the id it read. *)
LEMMA UseDog ==
    ASSUME TypeOK, NEW d \in Watchdogs, Dog(d), NEW i \in Jobs, InUse(i)'
    PROVE  InUse(i)
  <1>0. /\ StoreTypeOK
        /\ WatchdogTypeOK
        /\ UNCHANGED <<workerVars, schedulerVars, apiVars>>
    BY DEF TypeOK, Dog
  <1>k. UNCHANGED idempotency
    BY DEF Dog, ReadActive, ReadProcessing, ReadHeartbeats, ReadStalled, Requeue,
           DiscardOrphan, storeVars
  <1>r. /\ Held(i)' => InUse(i)
        /\ Scheduled(i)' => InUse(i)
        /\ Owner(i)' => InUse(i)
        /\ Requested(i)' => InUse(i)
    BY <1>0, <1>k, UseFrame DEF InUse, Circulating
  <1>1. CASE ReadActive(d) \/ ReadProcessing(d) \/ ReadHeartbeats(d) \/ ReadStalled(d)
    <2>1. UNCHANGED <<listVars, active>>
      BY <1>1 DEF ReadActive, ReadProcessing, ReadHeartbeats, ReadStalled, storeVars, aliveVars
    <2>2. Watched(i)' => Watched(i) \/ Stored(i)
      BY <1>0, <1>1 DEF ReadActive, ReadProcessing, ReadHeartbeats, ReadStalled, Continue,
                        WatchdogTypeOK, Watched, Stored
    <2> QED BY <1>r, <2>1, <2>2, UseFrame DEF InUse, Circulating
  <1>2. CASE Requeue(d) \/ DiscardOrphan(d)
    <2>1. Watched(djob[d]) /\ djob[d] \in Jobs
      BY <1>0, <1>2 DEF Requeue, DiscardOrphan, WatchdogTypeOK, Watched
    <2>2. Listed(i)' => Listed(i) \/ i = djob[d]
      <3>1. CASE Requeue(d)
        BY <1>0, <2>1, <3>1, PushLists, ListOfType DEF Requeue
      <3>2. CASE DiscardOrphan(d)
        BY <3>2 DEF DiscardOrphan, Listed
      <3> QED BY <1>2, <3>1, <3>2
    <2>3. processing'[i] > 0 => processing[i] > 0
      BY <1>0, <1>2, <2>1 DEF Requeue, DiscardOrphan, LRemProcessing, StoreTypeOK
    <2>4. Stored(i)' => Stored(i) \/ i = djob[d]
      BY <1>2, <2>2, <2>3 DEF Stored, Requeue, DiscardOrphan
    <2>5. Watched(i)' => Watched(i)
      BY <1>0, <1>2, StoreAssumption
         DEF Requeue, DiscardOrphan, EndRequeue, Continue, WatchdogTypeOK, Watched
    <2> QED BY <1>r, <2>1, <2>4, <2>5 DEF InUse, Circulating
  <1> QED BY <1>1, <1>2 DEF Dog

(* Nor does a scheduler. *)
LEMMA UseDelays ==
    ASSUME TypeOK, NEW s \in Schedulers, Delays(s), NEW i \in Jobs, InUse(i)'
    PROVE  InUse(i)
  <1>0. /\ StoreTypeOK
        /\ SchedulerTypeOK
        /\ UNCHANGED <<workerVars, watchdogVars, apiVars>>
    BY DEF TypeOK, Delays
  <1>k. UNCHANGED idempotency
    BY DEF Delays, ReadDue, ReadPriority, Release, storeVars
  <1>r. /\ Held(i)' => InUse(i)
        /\ Watched(i)' => InUse(i)
        /\ Owner(i)' => InUse(i)
        /\ Requested(i)' => InUse(i)
    BY <1>0, <1>k, UseFrame DEF InUse, Circulating
  <1>1. CASE ReadDue(s) \/ ReadPriority(s)
    <2>1. UNCHANGED <<listVars, active>>
      BY <1>1 DEF ReadDue, ReadPriority, storeVars, aliveVars
    <2>2. Scheduled(i)' => Scheduled(i) \/ Stored(i)
      BY <1>0, <1>1 DEF ReadDue, ReadPriority, SchedulerTypeOK, Scheduled, Stored
    <2> QED BY <1>r, <2>1, <2>2, UseFrame DEF InUse, Circulating
  <1>2. CASE Release(s)
    <2>1. Scheduled(sjob[s]) /\ sjob[s] \in Jobs /\ sprio[s] \in PrioritySet
      BY <1>0, <1>2 DEF Release, SchedulerTypeOK, Scheduled
    <2>2. Listed(i)' => Listed(i) \/ i = sjob[s]
      BY <1>0, <1>2, <2>1, PushLists DEF Release
    <2>3. Stored(i)' => Stored(i) \/ i = sjob[s]
      BY <1>2, <2>2 DEF Stored, Release, aliveVars
    <2>4. Scheduled(i)' => Scheduled(i)
      BY <1>0, <1>2, StoreAssumption DEF Release, SchedulerTypeOK, Scheduled
    <2> QED BY <1>r, <2>1, <2>3, <2>4 DEF InUse, Circulating
  <1> QED BY <1>1, <1>2 DEF Delays

(* A retry request does, by the status it read. *)
LEMMA UseApi ==
    ASSUME TypeOK, NEW r \in Requests, Api(r), NEW i \in Jobs, InUse(i)'
    PROVE  InUse(i) \/ status[i] \in {"dead", "failed"}
  <1>0. /\ StoreTypeOK
        /\ ApiTypeOK
        /\ UNCHANGED <<workerVars, watchdogVars, schedulerVars>>
    BY DEF TypeOK, Api
  <1>k. UNCHANGED idempotency
    BY DEF Api, CheckRetryable, Retry, storeVars
  <1>r. /\ Held(i)' => InUse(i)
        /\ Watched(i)' => InUse(i)
        /\ Scheduled(i)' => InUse(i)
        /\ Owner(i)' => InUse(i)
    BY <1>0, <1>k, UseFrame DEF InUse, Circulating
  <1>1. CASE CheckRetryable(r)
    <2>1. UNCHANGED <<listVars, active>>
      BY <1>1 DEF CheckRetryable, storeVars, aliveVars
    <2>2. Requested(i)' => Requested(i) \/ status[i] \in {"dead", "failed"}
      BY <1>0, <1>1 DEF CheckRetryable, ApiTypeOK, Requested
    <2> QED BY <1>r, <2>1, <2>2, UseFrame DEF InUse, Circulating
  <1>2. CASE Retry(r)
    <2>1. Requested(ajob[r]) /\ ajob[r] \in Jobs /\ Priority[ajob[r]] \in PrioritySet
      BY <1>0, <1>2, StoreAssumption DEF Retry, ApiTypeOK, Requested
    <2>2. Listed(i)' => Listed(i) \/ i = ajob[r]
      BY <1>0, <1>2, <2>1, PushLists DEF Retry
    <2>3. Stored(i)' => Stored(i) \/ i = ajob[r]
      BY <1>2, <2>2 DEF Stored, Retry, aliveVars
    <2>4. Requested(i)' => Requested(i)
      BY <1>0, <1>2, StoreAssumption DEF Retry, ApiTypeOK, Requested
    <2> QED BY <1>r, <2>1, <2>3, <2>4 DEF InUse, Circulating
  <1> QED BY <1>1, <1>2 DEF Api

(* A producer does, by publishing the id. *)
LEMMA UseProducer ==
    ASSUME TypeOK, NEW j \in Jobs, Producer(j), NEW i \in Jobs, InUse(i)'
    PROVE  InUse(i) \/ call'[i] = "returned"
  <1>0. /\ StoreTypeOK
        /\ QueueTypeOK
        /\ UNCHANGED <<workerVars, watchdogVars, schedulerVars, apiVars>>
    BY DEF TypeOK, Producer
  <1>r. /\ Held(i)' => InUse(i)
        /\ Watched(i)' => InUse(i)
        /\ Scheduled(i)' => InUse(i)
        /\ Requested(i)' => InUse(i)
    BY <1>0, UseFrame DEF InUse, Circulating
  <1>1. CASE SaveJob(j) \/ LoseKey(j) \/ DropDuplicate(j)
    <2>1. UNCHANGED <<listVars, active, idempotency>>
      BY <1>1 DEF SaveJob, LoseKey, DropDuplicate, storeVars, aliveVars
    <2> QED BY <1>r, <2>1, UseFrame DEF InUse, Circulating
  <1>2. CASE PushJob(j) \/ ClaimKey(j)
    <2>1. Priority[j] \in PrioritySet
      BY StoreAssumption
    <2>2. Listed(i)' => Listed(i) \/ i = j
      BY <1>0, <1>2, <2>1, PushLists DEF PushJob, ClaimKey
    <2>3. Stored(i)' => Stored(i) \/ i = j
      BY <1>2, <2>2 DEF Stored, PushJob, ClaimKey, aliveVars
    <2>4. call'[j] = "returned"
      BY <1>0, <1>2 DEF PushJob, ClaimKey, QueueTypeOK
    <2>5. Owner(i)' => Owner(i) \/ i = j
      BY <1>0, <1>2 DEF PushJob, ClaimKey, StoreTypeOK, Owner
    <2> QED BY <1>r, <2>3, <2>4, <2>5 DEF InUse, Circulating
  <1> QED BY <1>1, <1>2 DEF Producer, SdkEnqueue, Enqueue

(* The environment does not. *)
LEMMA UseEnvironment ==
    ASSUME TypeOK, NEW i \in Jobs, InUse(i)',
           \/ \E k \in Keys : KeyTtl(k)
           \/ \E j \in Jobs : HeartbeatExpires(j) \/ HeartbeatLapses(j) \/ EvictHash(j)
           \/ \E n \in Nodes : Crash(n)
           \/ UNCHANGED vars
    PROVE  InUse(i)
  <1>1. ASSUME NEW k \in Keys, KeyTtl(k) PROVE InUse(i)
    <2>1. UNCHANGED <<listVars, active, workerVars, watchdogVars, schedulerVars, apiVars>>
      BY <1>1 DEF KeyTtl, KeyExpires, aliveVars
    <2>2. Owner(i)' => Owner(i)
      BY <1>1, StoreAssumption DEF KeyTtl, KeyExpires, TypeOK, StoreTypeOK, Owner
    <2> QED BY <2>1, <2>2, UseFrame DEF InUse, Circulating
  <1>2. ASSUME NEW j \in Jobs, HeartbeatExpires(j) \/ HeartbeatLapses(j) \/ EvictHash(j)
        PROVE  InUse(i)
    <2>1. UNCHANGED <<listVars, active, idempotency, workerVars, watchdogVars,
                      schedulerVars, apiVars>>
      BY <1>2 DEF HeartbeatExpires, HeartbeatLapses, SetHeartbeatGone, EvictHash, aliveVars
    <2> QED BY <2>1, UseFrame DEF InUse, Circulating
  <1>3. ASSUME NEW n \in Nodes, Crash(n) PROVE InUse(i)
    <2>1. UNCHANGED <<listVars, active, idempotency, apiVars>>
      BY <1>3 DEF Crash, storeVars, aliveVars
    <2>2. Held(i)' => Held(i)
      BY <1>3, StoreAssumption DEF Crash, Held, Holders
    <2>3. Watched(i)' => Watched(i)
      BY <1>3, StoreAssumption DEF Crash, Watched
    <2>4. Scheduled(i)' => Scheduled(i)
      BY <1>3, StoreAssumption DEF Crash, Scheduled
    <2> QED BY <2>1, <2>2, <2>3, <2>4, UseFrame DEF InUse, Circulating
  <1>4. CASE UNCHANGED vars
    BY <1>4, UseFrame DEF vars, storeVars, aliveVars, InUse, Circulating
  <1> QED BY <1>1, <1>2, <1>3, <1>4

(* What everybody but a job's producer does to it: an id comes into use    *)
(* only by a retry that found it dead or failed, no field is written of a  *)
(* job that is not in use, and no hash is deleted.                         *)
Respects ==
    /\ UNCHANGED call
    /\ evicted \subseteq evicted'
    /\ \A i \in Jobs :
          /\ InUse(i)' => InUse(i) \/ status[i] \in {"dead", "failed"}
          /\ ~InUse(i) => status'[i] = status[i] /\ attempts'[i] = attempts[i]
          /\ hash[i] = "full" /\ i \notin evicted' => hash'[i] = "full"

(* So it is when the fields of one job that is in use are written. *)
LEMMA WriteInUse ==
    ASSUME StoreTypeOK, UNCHANGED <<call, evicted>>,
           \A i \in Jobs : InUse(i)' => InUse(i) \/ status[i] \in {"dead", "failed"},
           \/ UNCHANGED hashVars
           \/ \E j \in Jobs, st \in JobStatus, n \in 0 .. AttemptsCap :
                 /\ InUse(j)
                 /\ (HSetStatus(j, st) /\ UNCHANGED attempts) \/ UpdateJobFields(j, st, n)
    PROVE  Respects
  <1>1. CASE UNCHANGED hashVars
    BY <1>1 DEF hashVars, Respects
  <1>2. ASSUME NEW j \in Jobs, NEW st, NEW n, InUse(j),
               (HSetStatus(j, st) /\ UNCHANGED attempts) \/ UpdateJobFields(j, st, n)
        PROVE  Respects
    BY <1>2 DEF StoreTypeOK, UpdateJobFields, HSetStatus, Respects
  <1> QED BY <1>1, <1>2

(* A worker writes the status of the job it holds. *)
LEMMA RespectsWorker ==
    ASSUME TypeOK, NEW w \in Workers, Worker(w) \/ Beat(w)
    PROVE  Respects
  <1>0. UNCHANGED <<call, evicted>> /\ WorkerTypeOK /\ StoreTypeOK
    BY DEF Worker, Beat, queueVars, faultVars, TypeOK
  <1>1. \A i \in Jobs : InUse(i)' => InUse(i)
    BY UseWorker
  <1>2. CASE UNCHANGED hashVars
    BY <1>0, <1>1, <1>2, WriteInUse
  <1>3. CASE MarkActive(w) \/ RejectUnhandled(w) \/ Settle(w) \/ Complete(w)
    <2>1. wjob[w] \in Jobs /\ InUse(wjob[w])
      BY <1>0, <1>3 DEF MarkActive, RejectUnhandled, Settle, Complete, WorkerTypeOK, InUse,
             Circulating, Held, Holders
    <2>2. NextAttempt(w) \in 0 .. AttemptsCap
      BY <1>0, BumpType DEF NextAttempt, WorkerTypeOK
    <2>3. \E st \in JobStatus, n \in 0 .. AttemptsCap :
             \/ HSetStatus(wjob[w], st) /\ UNCHANGED attempts
             \/ UpdateJobFields(wjob[w], st, n)
      BY <1>3, <2>2 DEF MarkActive, RejectUnhandled, Settle, Complete, JobStatus
    <2> QED BY <1>0, <1>1, <2>1, <2>3, WriteInUse
  <1>4. CASE \/ Poll(w) \/ PollEmpty(w) \/ Fetch(w) \/ FetchNothing(w) \/ Register(w)
             \/ FirstBeat(w) \/ CountFailure(w) \/ ParkDelayed(w) \/ ParkDead(w)
             \/ Cleanup(w) \/ HeartbeatTick(w)
    BY <1>2, <1>4 DEF Poll, PollEmpty, Fetch, FetchNothing, Register, FirstBeat, CountFailure,
                  ParkDelayed, ParkDead, Cleanup, HeartbeatTick, storeVars
  <1> QED BY <1>3, <1>4 DEF Worker, Working, Beat

(* A watchdog writes the fields of the job it pushes. *)
LEMMA RespectsDog ==
    ASSUME TypeOK, NEW d \in Watchdogs, Dog(d)
    PROVE  Respects
  <1>0. UNCHANGED <<call, evicted>> /\ WatchdogTypeOK /\ StoreTypeOK
    BY DEF Dog, queueVars, faultVars, TypeOK
  <1>1. \A i \in Jobs : InUse(i)' => InUse(i)
    BY UseDog
  <1>2. CASE Requeue(d)
    <2>1. djob[d] \in Jobs /\ InUse(djob[d])
      BY <1>0, <1>2 DEF Requeue, WatchdogTypeOK, InUse, Circulating, Watched
    <2>2. /\ UpdateJobFields(djob[d], "waiting", Bump(dattempts[d])) /\ "waiting" \in JobStatus
          /\ Bump(dattempts[d]) \in 0 .. AttemptsCap
      BY <1>0, <1>2, BumpType DEF Requeue, JobStatus, WatchdogTypeOK
    <2> QED BY <1>0, <1>1, <2>1, <2>2, WriteInUse
  <1>3. CASE ~Requeue(d)
    <2>1. UNCHANGED hashVars
      BY <1>3 DEF Dog, ReadActive, ReadProcessing, ReadHeartbeats, ReadStalled, DiscardOrphan,
                  storeVars
    <2> QED BY <1>0, <1>1, <2>1, WriteInUse
  <1> QED BY <1>2, <1>3

(* So does a scheduler. *)
LEMMA RespectsDelays ==
    ASSUME TypeOK, NEW s \in Schedulers, Delays(s)
    PROVE  Respects
  <1>0. UNCHANGED <<call, evicted>> /\ SchedulerTypeOK /\ StoreTypeOK
    BY DEF Delays, queueVars, faultVars, TypeOK
  <1>1. \A i \in Jobs : InUse(i)' => InUse(i)
    BY UseDelays
  <1>2. CASE Release(s)
    <2>1. sjob[s] \in Jobs /\ InUse(sjob[s])
      BY <1>0, <1>2 DEF Release, SchedulerTypeOK, InUse, Circulating, Scheduled
    <2>2. /\ HSetStatus(sjob[s], "waiting") /\ UNCHANGED attempts
          /\ "waiting" \in JobStatus /\ 0 \in 0 .. AttemptsCap
      BY <1>2, StoreAssumption DEF Release, JobStatus
    <2> QED BY <1>0, <1>1, <2>1, <2>2, WriteInUse
  <1>3. CASE ~Release(s)
    <2>1. UNCHANGED hashVars
      BY <1>3 DEF Delays, ReadDue, ReadPriority, storeVars
    <2> QED BY <1>0, <1>1, <2>1, WriteInUse
  <1> QED BY <1>2, <1>3

(* So does a retry request. *)
LEMMA RespectsApi ==
    ASSUME TypeOK, NEW r \in Requests, Api(r)
    PROVE  Respects
  <1>0. UNCHANGED <<call, evicted>> /\ ApiTypeOK /\ StoreTypeOK
    BY DEF Api, queueVars, faultVars, TypeOK
  <1>1. \A i \in Jobs : InUse(i)' => InUse(i) \/ status[i] \in {"dead", "failed"}
    BY UseApi
  <1>2. CASE Retry(r)
    <2>1. ajob[r] \in Jobs /\ InUse(ajob[r])
      BY <1>0, <1>2 DEF Retry, ApiTypeOK, InUse, Requested
    <2>2. /\ UpdateJobFields(ajob[r], "waiting", 0)
          /\ "waiting" \in JobStatus /\ 0 \in 0 .. AttemptsCap
      BY <1>2, StoreAssumption DEF Retry, JobStatus
    <2> QED BY <1>0, <1>1, <2>1, <2>2, WriteInUse
  <1>3. CASE ~Retry(r)
    <2>1. UNCHANGED hashVars
      BY <1>3 DEF Api, CheckRetryable, storeVars
    <2> QED BY <1>0, <1>1, <2>1, WriteInUse
  <1> QED BY <1>2, <1>3

(* An eviction is recorded; no other fault touches a hash. *)
LEMMA RespectsEnvironment ==
    ASSUME TypeOK,
           \/ \E k \in Keys : KeyTtl(k)
           \/ \E j \in Jobs : HeartbeatExpires(j) \/ HeartbeatLapses(j) \/ EvictHash(j)
           \/ \E n \in Nodes : Crash(n)
           \/ UNCHANGED vars
    PROVE  Respects
  <1>1. \A i \in Jobs : InUse(i)' => InUse(i)
    BY UseEnvironment
  <1>2. CASE \E j \in Jobs : EvictHash(j)
    BY <1>1, <1>2 DEF EvictHash, queueVars, Respects, TypeOK, StoreTypeOK
  <1>3. CASE ~ \E j \in Jobs : EvictHash(j)
    <2>1. UNCHANGED <<hashVars, call, evicted>>
      BY <1>3 DEF KeyTtl, KeyExpires, HeartbeatExpires, HeartbeatLapses, SetHeartbeatGone,
                  Crash, vars, storeVars, queueVars, faultVars
    <2> QED BY <1>1, <2>1, WriteInUse DEF TypeOK
  <1> QED BY <1>2, <1>3

(* Nobody but a producer writes to a job that is not in use. *)
LEMMA OthersRespect ==
    ASSUME TypeOK, [Next]_vars
    PROVE  Respects \/ \E j \in Jobs : Producer(j)
  BY RespectsWorker, RespectsDog, RespectsDelays, RespectsApi, RespectsEnvironment DEF Next

(* Inductiveness: what comes into use was returned or found dead, and what *)
(* is written was in use.                                                  *)
LEMMA WholeInit == Init => Whole
  BY StoreAssumption
     DEF Init, StoreInit, QueueInit, WorkerInit, WatchdogInit, SchedulerInit, ApiInit, Whole,
         InUse, Circulating, Requested, Stored, Held, Holders, Watched, Scheduled, Owner, Listed

(* What a producer does to a hash, a status and the attempts. *)
LEMMA ProducerWrites ==
    ASSUME TypeOK, NEW j \in Jobs, Producer(j)
    PROVE  /\ UNCHANGED evicted
           /\ \A i \in Jobs \ {j} :
                 /\ call'[i] = call[i] /\ hash'[i] = hash[i]
                 /\ status'[i] = status[i] /\ attempts'[i] = attempts[i]
           /\ call'[j] \in {"saved", "collided", "returned"} =>
                 hash'[j] = "full" \/ (call[j] = "saved" /\ hash'[j] = hash[j])
           /\ \/ status'[j] = status[j] /\ attempts'[j] = attempts[j]
              \/ status'[j] = "waiting" /\ attempts'[j] = 0
           /\ call[j] \in {"none", "saved", "collided"}
  <1>0. UNCHANGED evicted /\ StoreTypeOK /\ QueueTypeOK
    BY DEF Producer, faultVars, TypeOK
  <1>1. CASE SaveJob(j)
    BY <1>0, <1>1 DEF SaveJob, StoreTypeOK, QueueTypeOK
  <1>2. CASE PushJob(j) \/ ClaimKey(j) \/ LoseKey(j)
    BY <1>0, <1>2 DEF PushJob, ClaimKey, LoseKey, storeVars, hashVars, QueueTypeOK
  <1>3. CASE DropDuplicate(j)
    BY <1>0, <1>3 DEF DropDuplicate, StoreTypeOK, QueueTypeOK
  <1> QED BY <1>1, <1>2, <1>3 DEF Producer, SdkEnqueue, Enqueue

(* Every step keeps Whole. *)
LEMMA WholeStep == TypeOK /\ Whole /\ [Next]_vars => Whole'
  <1> SUFFICES ASSUME TypeOK, Whole, [Next]_vars PROVE Whole'
    OBVIOUS
  <1>1. CASE Respects
    BY <1>1 DEF Respects, Whole
  <1>2. ASSUME NEW j \in Jobs, Producer(j) PROVE Whole'
    <2>1. \A i \in Jobs : InUse(i)' => call'[i] = "returned"
      BY <1>2, UseProducer, ProducerWrites DEF Whole
    <2> QED BY <1>2, <2>1, ProducerWrites DEF Whole
  <1> QED BY <1>1, <1>2, OthersRespect

(* Whole holds in every reachable state. *)
THEOREM AlwaysWhole == Spec => []Whole
  <1>1. Init => Whole
    BY WholeInit
  <1>2. TypeOK /\ Whole /\ [Next]_vars => Whole'
    BY WholeStep
  <1> QED BY <1>1, <1>2, TypeCorrect, PTL DEF Spec

(* An id that some list, index or component holds is the id of a job whose *)
(* enqueue returned and whose hash has all its fields (Queue.ts 52-75: the *)
(* hash is saved before the id is published, and only a duplicate's is     *)
(* deleted again).                                                         *)
THEOREM NothingHalfPublished == Spec => []PublishedAreWhole
  <1>1. Whole => PublishedAreWhole
    BY DEF Whole, PublishedAreWhole, InUse
  <1> QED BY <1>1, AlwaysWhole, PTL

-------------------------------------------------------------------------------
(* What a watchdog discards.                                               *)

(* Inductive: a watchdog that read no hash read that of an evicted job.    *)
MissingIsEvicted ==
    \A d \in Watchdogs : djob[d] # NoJob /\ dhash[d] = "absent" => djob[d] \in evicted

(* At first no watchdog has read anything. *)
LEMMA MissingInit == Init => MissingIsEvicted
  BY DEF Init, WatchdogInit, MissingIsEvicted

(* What never goes away. *)
LEMMA Monotone ==
    ASSUME [Next]_vars
    PROVE  done \subseteq done' /\ evicted \subseteq evicted' /\ robbed \subseteq robbed'
  BY DEF Next, vars, Producer, KeyTtl, Worker, Beat, Dog, Robs, Delays, Api, HeartbeatExpires,
         HeartbeatLapses, SetHeartbeatGone, EvictHash, Crash, faultVars, historyVars

(* A watchdog that has read no hash of a job did so before, or does now.   *)
LEMMA HashRead ==
    ASSUME TypeOK, [Next]_vars, NEW d \in Watchdogs, djob'[d] # NoJob, dhash'[d] = "absent"
    PROVE  \/ djob'[d] = djob[d] /\ dhash[d] = "absent"
           \/ djob'[d] \in dids[d] /\ hash[djob'[d]] = "absent"
  <1>0. WatchdogTypeOK
    BY DEF TypeOK
  <1>1. ASSUME NEW e \in Watchdogs, Dog(e)
        PROVE  \/ djob'[d] = djob[d] /\ dhash[d] = "absent"
               \/ djob'[d] \in dids[d] /\ hash[djob'[d]] = "absent"
    <2>1. CASE ReadStalled(e)
      BY <1>0, <2>1 DEF ReadStalled, WatchdogTypeOK
    <2>2. CASE Requeue(e) \/ DiscardOrphan(e)
      BY <1>0, <2>2 DEF Requeue, DiscardOrphan, EndRequeue, WatchdogTypeOK
    <2>3. CASE ReadActive(e) \/ ReadProcessing(e) \/ ReadHeartbeats(e)
      BY <2>3 DEF ReadActive, ReadProcessing, ReadHeartbeats
    <2> QED BY <1>1, <2>1, <2>2, <2>3 DEF Dog
  <1>2. ASSUME NEW n \in Nodes, Crash(n) PROVE djob'[d] = djob[d] /\ dhash[d] = "absent"
    BY <1>2 DEF Crash
  <1>3. \/ \E e \in Watchdogs : Dog(e)
        \/ \E n \in Nodes : Crash(n)
        \/ UNCHANGED watchdogVars
    BY DEF Next, vars, Producer, KeyTtl, Worker, Beat, Delays, Api, HeartbeatExpires,
           HeartbeatLapses, SetHeartbeatGone, EvictHash
  <1> QED BY <1>1, <1>2, <1>3 DEF watchdogVars

(* What a watchdog reads a hash of is in use, so its hash is whole or evicted. *)
LEMMA MissingStep == TypeOK /\ Whole /\ MissingIsEvicted /\ [Next]_vars => MissingIsEvicted'
  <1> SUFFICES ASSUME TypeOK, Whole, MissingIsEvicted, [Next]_vars, NEW d \in Watchdogs,
                      djob'[d] # NoJob, dhash'[d] = "absent"
               PROVE  djob'[d] \in evicted'
    BY DEF MissingIsEvicted
  <1>1. ASSUME djob'[d] \in dids[d] /\ hash[djob'[d]] = "absent"
        PROVE  djob'[d] \in evicted
    <2>1. djob'[d] \in Jobs /\ InUse(djob'[d])
      BY <1>1 DEF TypeOK, WatchdogTypeOK, InUse, Circulating, Watched
    <2> QED BY <1>1, <2>1 DEF Whole
  <1> QED BY <1>1, HashRead, Monotone DEF MissingIsEvicted

(* The clean-up branch of the watchdog (Watchdog.ts 86-88) throws away the *)
(* id of no job but one whose hash Redis evicted: an id it can see is that *)
(* of a published job, whose hash nobody in this program deletes.          *)
THEOREM DiscardsOnlyOrphans == Spec => OnlyOrphansDiscarded
  <1>1. Init => MissingIsEvicted
    BY MissingInit
  <1>2. TypeOK /\ Whole /\ MissingIsEvicted /\ [Next]_vars => MissingIsEvicted'
    BY MissingStep
  <1>3. TypeOK /\ MissingIsEvicted
        => \A d \in Watchdogs : DiscardOrphan(d) => djob[d] \in evicted
    BY DEF TypeOK, WatchdogTypeOK, DiscardOrphan, MissingIsEvicted
  <1>4. TypeOK /\ MissingIsEvicted /\ [Next]_vars
        => [\A d \in Watchdogs : DiscardOrphan(d) => djob[d] \in evicted]_vars
    BY <1>3
  <1> QED BY <1>1, <1>2, <1>4, TypeCorrect, AlwaysWhole, PTL DEF Spec, OnlyOrphansDiscarded

-------------------------------------------------------------------------------
(* Tokens in the processing list.                                          *)

(* Workers are finitely many, so the holders of a job can be counted.      *)
LEMMA HoldersFinite ==
    ASSUME NEW j
    PROVE  /\ IsFiniteSet(Holders(j))
           /\ Cardinality(Holders(j)) \in Nat
           /\ \A S : S \subseteq Holders(j) => /\ IsFiniteSet(S)
                                           /\ Cardinality(S) \in Nat
                                           /\ Cardinality(S) <= Cardinality(Holders(j))
  <1>1. Holders(j) \subseteq Workers
    BY DEF Holders
  <1>2. IsFiniteSet(Holders(j))
    BY <1>1, DistriAssumption, FS_Subset
  <1> QED BY <1>2, FS_Subset, FS_CardinalityType

(* At first nobody holds a job. *)
LEMMA AccountedInit == TypeOK /\ Init => Accounted
  <1> SUFFICES ASSUME TypeOK, Init, NEW j \in Jobs
               PROVE  Cardinality(Holders(j)) <= processing[j]
    BY DEF Accounted
  <1>1. Holders(j) = {}
    BY StoreAssumption DEF Init, WorkerInit, Holders
  <1>2. processing[j] \in Nat
    BY DEF TypeOK, StoreTypeOK
  <1> QED BY <1>1, <1>2, FS_EmptySet

Counted(j) == Cardinality(Holders(j)) <= processing[j]

(* No token goes and no holder comes. *)
LEMMA CountedFrame ==
    ASSUME TypeOK, StoreTypeOK', NEW j \in Jobs, Counted(j),
           Holders(j)' \subseteq Holders(j), processing'[j] >= processing[j]
    PROVE  Counted(j)'
  <1> DEFINE old == Cardinality(Holders(j))
             new == Cardinality(Holders(j)')
  <1>1. old \in Nat /\ new \in Nat /\ new <= old
    BY HoldersFinite
  <1>2. old <= processing[j]
    BY DEF Counted
  <1>3. processing[j] \in Nat /\ processing'[j] \in Nat
    BY DEF TypeOK, StoreTypeOK
  <1> HIDE DEF old, new
  <1>4. new <= processing'[j]
    BY <1>1, <1>2, <1>3
  <1> QED BY <1>4 DEF new, Counted

(* A pop adds a holder and a token, a clean-up removes both. *)
LEMMA CountedWorker ==
    ASSUME TypeOK, StoreTypeOK', NEW w \in Workers, Worker(w) \/ Beat(w), NEW j \in Jobs,
           Counted(j)
    PROVE  Counted(j)'
  <1>0. StoreTypeOK /\ WorkerTypeOK
    BY DEF TypeOK
  <1>1. CASE Poll(w)
    <2> DEFINE p == PRIORITIES[level[w]]
    <2>1. p \in PrioritySet /\ waiting[p] # <<>>
      BY <1>0, <1>1, LevelType DEF Poll, WorkerTypeOK
    <2>2. PICK h \in Jobs : h = Head(waiting[p])
      BY <1>0, <1>1, <2>1, PopType DEF Poll
    <2>3. wjob' = [wjob EXCEPT ![w] = h] /\ processing' = [processing EXCEPT ![h] = @ + 1]
          /\ wjob[w] = NoJob
      BY <1>0, <1>1, <2>2 DEF Poll, RPopLPush, WorkerTypeOK
    <2> HIDE DEF p
    <2>4. CASE j = h
      <3>1. Holders(j)' = Holders(j) \cup {w}
        <4>1. \A v \in Workers : wjob'[v] = j <=> wjob[v] = j \/ v = w
          BY <1>0, <2>3, <2>4 DEF WorkerTypeOK
        <4> QED BY <4>1 DEF Holders
      <3> DEFINE old == Cardinality(Holders(j))
                 new == Cardinality(Holders(j)')
      <3>2. old \in Nat /\ new \in Nat /\ new <= old + 1
        <4> DEFINE more == Cardinality(Holders(j) \cup {w})
        <4>1. old \in Nat /\ (more = old \/ more = old + 1)
          BY HoldersFinite, FS_AddElement
        <4>2. new = more
          BY <3>1, Zenon
        <4> HIDE DEF more, old, new
        <4> QED BY <4>1, <4>2
      <3>3. /\ old <= processing[j] /\ processing[j] \in Nat
            /\ processing'[j] = processing[j] + 1
        BY <1>0, <2>3, <2>4 DEF Counted, StoreTypeOK
      <3> HIDE DEF old, new
      <3>4. new <= processing'[j]
        BY <3>2, <3>3
      <3> QED BY <3>4 DEF new, Counted
    <2>5. CASE j # h
      <3>1. Holders(j)' = Holders(j)
        BY <1>0, <2>3, <2>5, StoreAssumption DEF Holders, WorkerTypeOK
      <3>2. processing'[j] = processing[j]
        BY <1>0, <2>2, <2>3, <2>5 DEF StoreTypeOK
      <3> QED BY <3>1, <3>2 DEF Counted
    <2> QED BY <2>4, <2>5
  <1>2. CASE Cleanup(w)
    <2>a. PICK h \in Jobs : h = wjob[w]
      BY <1>0, <1>2 DEF Cleanup, WorkerTypeOK
    <2>1. wjob' = [wjob EXCEPT ![w] = NoJob] /\ LRemProcessing(h)
      BY <1>2, <2>a DEF Cleanup, NextRound
    <2>2. CASE j = h
      <3>1. w \in Holders(j) /\ Holders(j)' = Holders(j) \ {w}
        <4>1. \A v \in Workers : wjob'[v] = j <=> wjob[v] = j /\ v # w
          BY <1>0, <2>1, StoreAssumption DEF WorkerTypeOK
        <4> QED BY <2>2, <2>a, <4>1 DEF Holders
      <3> DEFINE old == Cardinality(Holders(j))
                 new == Cardinality(Holders(j)')
      <3>2. old \in Nat /\ new = old - 1
        BY <3>1, HoldersFinite, FS_RemoveElement
      <3>3. /\ old <= processing[j] /\ processing[j] \in Nat /\ processing'[j] \in Nat
            /\ processing'[j] >= processing[j] - 1
        BY <1>0, <2>1, <2>2 DEF Counted, StoreTypeOK, LRemProcessing
      <3> HIDE DEF old, new
      <3>4. new <= processing'[j]
        BY <3>2, <3>3
      <3> QED BY <3>4 DEF new, Counted
    <2>3. CASE j # h
      <3>1. \A v \in Workers : wjob'[v] = j <=> wjob[v] = j
        BY <1>0, <2>1, <2>3, <2>a, StoreAssumption DEF WorkerTypeOK
      <3>2. processing'[j] = processing[j]
        BY <1>0, <2>1, <2>3 DEF StoreTypeOK, LRemProcessing
      <3>3. Holders(j)' = Holders(j)
        BY <3>1 DEF Holders
      <3> QED BY <3>2, <3>3 DEF Counted
    <2> QED BY <2>2, <2>3
  <1>3. CASE FetchNothing(w) \/ RejectUnhandled(w)
    <2>1. UNCHANGED processing
      BY <1>3 DEF FetchNothing, RejectUnhandled, storeVars, listVars
    <2>2. Holders(j)' \subseteq Holders(j)
      BY <1>0, <1>3, StoreAssumption
         DEF FetchNothing, RejectUnhandled, NextRound, WorkerTypeOK, Holders
    <2>3. processing'[j] >= processing[j]
      BY <1>0, <2>1 DEF StoreTypeOK
    <2> QED BY <2>2, <2>3, CountedFrame
  <1>4. CASE UNCHANGED <<wjob, processing>>
    BY <1>4 DEF Counted, Holders
  <1>5. ASSUME ~(Poll(w) \/ Cleanup(w) \/ FetchNothing(w) \/ RejectUnhandled(w))
        PROVE  UNCHANGED <<wjob, processing>>
    BY <1>5 DEF Worker, Beat, Working, PollEmpty, Fetch, MarkActive, Register, FirstBeat,
                HeartbeatTick, CountFailure, Settle, ParkDelayed, ParkDead, Complete, storeVars,
                listVars, workerVars
  <1> QED BY <1>1, <1>2, <1>3, <1>4, <1>5

(* A watchdog takes a token from nobody, or is on record. *)
LEMMA CountedRobbed ==
    ASSUME TypeOK, StoreTypeOK', NEW d \in Watchdogs, djob[d] \in Jobs,
           LRemProcessing(djob[d]), UNCHANGED workerVars, Robs(d),
           NEW j \in Jobs, j \notin robbed', Counted(j)
    PROVE  Counted(j)'
  <1>1. Holders(j)' = Holders(j)
    BY DEF workerVars, Holders
  <1>2. CASE djob[d] = j
    <2>1. Holders(j) = {}
      BY <1>2 DEF Robs
    <2>2. Cardinality(Holders(j)') = 0 /\ processing'[j] \in Nat
      BY <1>1, <2>1, FS_EmptySet DEF StoreTypeOK
    <2> QED BY <2>2 DEF Counted
  <1>3. CASE djob[d] # j
    <2>1. processing'[j] = processing[j]
      BY <1>3 DEF LRemProcessing, TypeOK, StoreTypeOK
    <2> QED BY <1>1, <2>1 DEF Counted
  <1> QED BY <1>2, <1>3

(* Every step of the system keeps the count of a job that is not robbed. *)
LEMMA CountedStep ==
    ASSUME TypeOK, StoreTypeOK', [Next]_vars, NEW j \in Jobs, j \notin robbed', Counted(j)
    PROVE  Counted(j)'
  <1>0. processing \in [Jobs -> Nat] /\ WatchdogTypeOK
    BY DEF TypeOK, StoreTypeOK
  <1>1. ASSUME NEW d \in Watchdogs, Dog(d) PROVE Counted(j)'
    <2>0. UNCHANGED workerVars
      BY <1>1 DEF Dog
    <2>1. CASE Requeue(d) \/ DiscardOrphan(d)
      <3>1. djob[d] \in Jobs /\ LRemProcessing(djob[d])
        BY <1>0, <2>1 DEF Requeue, DiscardOrphan, WatchdogTypeOK
      <3>2. Robs(d)
        BY <1>1, <2>1 DEF Dog, Requeue, DiscardOrphan, ReadActive, ReadProcessing,
                          ReadHeartbeats, ReadStalled
      <3> QED BY <2>0, <3>1, <3>2, CountedRobbed
    <2>2. CASE ~(Requeue(d) \/ DiscardOrphan(d))
      BY <1>1, <2>2 DEF Dog, ReadActive, ReadProcessing, ReadHeartbeats, ReadStalled,
                        storeVars, listVars, workerVars, Counted, Holders
    <2> QED BY <2>1, <2>2
  <1>2. ASSUME NEW n \in Nodes, Crash(n) PROVE Counted(j)'
    <2>1. UNCHANGED processing
      BY <1>2 DEF Crash, storeVars, listVars
    <2>2. Holders(j)' \subseteq Holders(j)
      BY <1>2, StoreAssumption DEF Crash, Holders
    <2> QED BY <1>0, <2>1, <2>2, CountedFrame
  <1>3. ASSUME UNCHANGED <<wjob, processing>> PROVE Counted(j)'
    BY <1>3 DEF Counted, Holders
  <1>4. ASSUME NEW i \in Jobs, Producer(i) PROVE Counted(j)'
    BY <1>3, <1>4 DEF Producer, SdkEnqueue, Enqueue, SaveJob, PushJob, ClaimKey, LoseKey,
                      DropDuplicate, storeVars, listVars, workerVars
  <1>5. ASSUME NEW i \in Jobs, HeartbeatExpires(i) \/ HeartbeatLapses(i) \/ EvictHash(i)
        PROVE  Counted(j)'
    BY <1>3, <1>5 DEF HeartbeatExpires, HeartbeatLapses, SetHeartbeatGone, EvictHash, listVars,
                      workerVars
  <1>6. ASSUME NEW k \in Keys, KeyTtl(k) PROVE Counted(j)'
    BY <1>3, <1>6 DEF KeyTtl, KeyExpires, listVars, workerVars
  <1>7. ASSUME NEW w \in Workers, Worker(w) \/ Beat(w) PROVE Counted(j)'
    BY <1>7, CountedWorker
  <1>8. ASSUME NEW s \in Schedulers, Delays(s) PROVE Counted(j)'
    BY <1>3, <1>8 DEF Delays, ReadDue, ReadPriority, Release, storeVars, listVars, workerVars
  <1>9. ASSUME NEW r \in Requests, Api(r) PROVE Counted(j)'
    BY <1>3, <1>9 DEF Api, CheckRetryable, Retry, storeVars, listVars, workerVars
  <1>10. CASE UNCHANGED vars
    BY <1>3, <1>10 DEF vars, storeVars, listVars, workerVars
  <1> QED BY <1>1, <1>2, <1>4, <1>5, <1>6, <1>7, <1>8, <1>9, <1>10 DEF Next

(* A job has no fewer tokens in the processing list than workers that hold *)
(* it (RPOPLPUSH puts one in, LREM 1 takes one out, WorkerPool.ts 86, 188),*)
(* unless a watchdog took it from a live worker.                           *)
THEOREM AlwaysAccounted == Spec => []Accounted
  <1>1. TypeOK /\ Init => Accounted
    BY AccountedInit
  <1>2. TypeOK /\ TypeOK' /\ Accounted /\ [Next]_vars => Accounted'
    BY CountedStep, Monotone DEF TypeOK, Accounted, Counted
  <1> QED BY <1>1, <1>2, TypeCorrect, PTL DEF Spec

-------------------------------------------------------------------------------
(* The ledger (its safety; fairness is beyond the prover).                 *)

Books == <<{j \in Jobs : call[j] = "returned"}, done, dead, evicted>>

(* Only an enqueue changes who was accepted, and it adds the one job.      *)
LEMMA LedgerProducer ==
    ASSUME TypeOK, NEW j \in Jobs, Producer(j)
    PROVE  Ledger!Accept(j) \/ UNCHANGED Books
  <1>1. UNCHANGED <<done, dead, evicted>>
    BY DEF Producer, SdkEnqueue, Enqueue, SaveJob, PushJob, ClaimKey, LoseKey, DropDuplicate,
           storeVars, listVars, historyVars, faultVars
  <1>2. call \in [Jobs -> CallState]
    BY DEF TypeOK, QueueTypeOK
  <1>3. \E c \in CallState : /\ call' = [call EXCEPT ![j] = c]
                             /\ c # "returned" => call[j] # "returned"
    BY DEF Producer, SdkEnqueue, Enqueue, SaveJob, PushJob, ClaimKey, LoseKey, DropDuplicate,
           CallState
  <1>4. \/ \A i \in Jobs : call'[i] = "returned" <=> call[i] = "returned" \/ i = j
        \/ \A i \in Jobs : call'[i] = "returned" <=> call[i] = "returned"
    <2>0. PICK c \in CallState : /\ call' = [call EXCEPT ![j] = c]
                                 /\ c # "returned" => call[j] # "returned"
      BY <1>3
    <2>1. CASE c = "returned"
      BY <1>2, <2>0, <2>1
    <2>2. CASE c # "returned"
      BY <1>2, <2>0, <2>2
    <2> QED BY <2>1, <2>2
  <1>5. \/ {i \in Jobs : call'[i] = "returned"} = {i \in Jobs : call[i] = "returned"} \cup {j}
        \/ {i \in Jobs : call'[i] = "returned"} = {i \in Jobs : call[i] = "returned"}
    BY <1>4
  <1> QED BY <1>1, <1>5 DEF Ledger!Accept, Books

(* A worker runs or buries the job it holds, and that one was accepted.    *)
LEMMA LedgerWorker ==
    ASSUME TypeOK, Whole, NEW w \in Workers, Worker(w) \/ Beat(w)
    PROVE  \/ \E j \in Jobs : Ledger!Run(j) \/ Ledger!Bury(j)
           \/ UNCHANGED Books
  <1>0. UNCHANGED <<call, evicted>>
    BY DEF Worker, Beat, queueVars, faultVars
  <1>1. ASSUME wjob[w] # NoJob
        PROVE  wjob[w] \in Jobs /\ call[wjob[w]] = "returned"
    <2>1. wjob[w] \in Jobs
      BY <1>1 DEF TypeOK, WorkerTypeOK
    <2>2. InUse(wjob[w])
      BY DEF InUse, Circulating, Held, Holders
    <2> QED BY <2>1, <2>2 DEF Whole
  <1>2. CASE Complete(w) /\ done' = done \cup {wjob[w]}
    <2>1. wjob[w] # NoJob /\ UNCHANGED dead
      BY <1>2 DEF Complete, TypeOK, WorkerTypeOK, listVars
    <2> QED BY <1>0, <1>1, <1>2, <2>1 DEF Ledger!Run
  <1>3. CASE ParkDead(w) /\ UNCHANGED historyVars
    <2>1. wjob[w] # NoJob /\ dead' = dead \cup {wjob[w]}
      BY <1>3 DEF ParkDead, TypeOK, WorkerTypeOK
    <2> QED BY <1>0, <1>1, <1>3, <2>1 DEF Ledger!Bury, historyVars
  <1>4. ASSUME ~(Complete(w) /\ done' = done \cup {wjob[w]}),
               ~(ParkDead(w) /\ UNCHANGED historyVars)
        PROVE  UNCHANGED <<done, dead>>
    BY <1>4 DEF Worker, Beat, Working, Poll, PollEmpty, Fetch, FetchNothing, MarkActive,
                RejectUnhandled, Register, FirstBeat, HeartbeatTick, CountFailure, Settle,
                ParkDelayed, Cleanup, storeVars, listVars, historyVars
  <1> QED BY <1>0, <1>2, <1>3, <1>4 DEF Books

(* A retry takes a job out of the dead-letter list. *)
LEMMA LedgerApi ==
    ASSUME TypeOK, NEW r \in Requests, Api(r)
    PROVE  (\E j \in Jobs : Ledger!TakeUp(j)) \/ UNCHANGED Books
  <1>0. UNCHANGED <<call, evicted>>
    BY DEF Api, queueVars, faultVars
  <1>1. CASE CheckRetryable(r) /\ UNCHANGED historyVars
    BY <1>0, <1>1 DEF CheckRetryable, storeVars, listVars, historyVars, Books
  <1>2. CASE Retry(r) /\ UNCHANGED done
    <2>1. ajob[r] \in Jobs
      BY <1>2 DEF Retry, TypeOK, ApiTypeOK
    <2>2. dead' = dead \ {ajob[r]}
      BY <1>2 DEF Retry
    <2> QED BY <1>0, <1>2, <2>1, <2>2 DEF Ledger!TakeUp
  <1> QED BY <1>1, <1>2 DEF Api

LEMMA LedgerStep == TypeOK /\ Whole /\ [Next]_vars => [Ledger!Next]_Books
  <1> SUFFICES ASSUME TypeOK, Whole, [Next]_vars PROVE Ledger!Next \/ UNCHANGED Books
    BY DEF Books
  <1>1. ASSUME NEW j \in Jobs, Producer(j) PROVE Ledger!Next \/ UNCHANGED Books
    BY <1>1, LedgerProducer DEF Ledger!Next
  <1>2. ASSUME NEW w \in Workers, Worker(w) \/ Beat(w) PROVE Ledger!Next \/ UNCHANGED Books
    BY <1>2, LedgerWorker DEF Ledger!Next
  <1>3. ASSUME NEW r \in Requests, Api(r) PROVE Ledger!Next \/ UNCHANGED Books
    BY <1>3, LedgerApi DEF Ledger!Next
  <1>4. ASSUME NEW j \in Jobs, EvictHash(j) PROVE Ledger!Next
    <2>1. UNCHANGED <<call, done, dead>> /\ evicted' = evicted \cup {j}
      BY <1>4 DEF EvictHash, queueVars, listVars, historyVars
    <2>2. Ledger!Lose(j)
      BY <2>1 DEF Ledger!Lose
    <2> QED BY <2>2 DEF Ledger!Next
  <1>5. ASSUME UNCHANGED <<call, done, dead, evicted>> PROVE UNCHANGED Books
    BY <1>5 DEF Books
  <1>6. ASSUME NEW d \in Watchdogs, Dog(d) PROVE UNCHANGED <<call, done, dead, evicted>>
    BY <1>6 DEF Dog, ReadActive, ReadProcessing, ReadHeartbeats, ReadStalled, Requeue,
                DiscardOrphan, storeVars, listVars, queueVars, faultVars, historyVars
  <1>7. ASSUME NEW s \in Schedulers, Delays(s) PROVE UNCHANGED <<call, done, dead, evicted>>
    BY <1>7 DEF Delays, ReadDue, ReadPriority, Release, storeVars, listVars, queueVars,
                faultVars, historyVars
  <1>8. ASSUME NEW k \in Keys, KeyTtl(k) PROVE UNCHANGED <<call, done, dead, evicted>>
    BY <1>8 DEF KeyTtl, KeyExpires, listVars, queueVars, historyVars
  <1>9. ASSUME NEW j \in Jobs, HeartbeatExpires(j) \/ HeartbeatLapses(j)
        PROVE  UNCHANGED <<call, done, dead, evicted>>
    BY <1>9 DEF HeartbeatExpires, HeartbeatLapses, SetHeartbeatGone, listVars, queueVars,
                faultVars, historyVars
  <1>10. ASSUME NEW n \in Nodes, Crash(n) PROVE UNCHANGED <<call, done, dead, evicted>>
    BY <1>10 DEF Crash, storeVars, listVars, queueVars
  <1>11. CASE UNCHANGED vars
    BY <1>5, <1>11 DEF vars, storeVars, listVars, queueVars, faultVars, historyVars
  <1> QED BY <1>1, <1>2, <1>3, <1>4, <1>5, <1>6, <1>7, <1>8, <1>9, <1>10, <1>11 DEF Next

(* The system implements the safety of JobLedger: a job runs or is buried  *)
(* only if its enqueue returned (Queue.ts 75-82), and what has run         *)
(* (WorkerPool.ts 140-154) is never taken back.                            *)
THEOREM KeepsBooks == Spec => Ledger!SafeSpec
  <1>1. Init => Ledger!Init
    BY DEF Init, QueueInit, StoreInit, Ledger!Init
  <1>2. TypeOK /\ Whole /\ [Next]_vars => [Ledger!Next]_Books
    BY LedgerStep
  <1> QED BY <1>1, <1>2, TypeCorrect, AlwaysWhole, PTL
          DEF Spec, Ledger!SafeSpec, Ledger!ledger, Books

-------------------------------------------------------------------------------
(* What idempotent enqueue owes its callers.                               *)

(* Only producers and the expiry of a key touch calls and keys. *)
LEMMA KeyFrame ==
    ASSUME [Next]_vars
    PROVE  \/ UNCHANGED <<call, claimed, idempotency, expiries>>
           \/ \E j \in Jobs : Producer(j)
           \/ \E k \in Keys : KeyTtl(k)
  BY DEF Next, vars, Worker, Working, Beat, Dog, Delays, Api, HeartbeatExpires,
         HeartbeatLapses, SetHeartbeatGone, EvictHash, Crash, Poll, PollEmpty, Fetch,
         FetchNothing, MarkActive, RejectUnhandled, Register, FirstBeat, HeartbeatTick,
         CountFailure, Settle, ParkDelayed, ParkDead, Cleanup, Complete, ReadActive,
         ReadProcessing, ReadHeartbeats, ReadStalled, Requeue, DiscardOrphan, ReadDue,
         ReadPriority, Release, CheckRetryable, Retry, storeVars, queueVars, faultVars

(* Inductive: a key is owned by a job that was enqueued under it, and a    *)
(* caller that lost the key was given such a job.                          *)
Owners ==
    /\ \A k \in Keys : idempotency[k] # NoJob => KeyOf[idempotency[k]] = k
    /\ \A j \in Jobs : call[j] \in {"collided", "rejected"} =>
          /\ claimed[j] \in Jobs \ {j}
          /\ KeyOf[claimed[j]] = KeyOf[j]
          /\ call[claimed[j]] = "returned"

(* A key owned by a job gives the loser that job, which has returned. *)
LEMMA OwnersStep == TypeOK /\ Whole /\ Owners /\ [Next]_vars => Owners'
  <1> SUFFICES ASSUME TypeOK, Whole, Owners, [Next]_vars PROVE Owners'
    OBVIOUS
  <1>0. /\ idempotency \in [Keys -> Jobs \cup {NoJob}]
        /\ call \in [Jobs -> CallState]
        /\ claimed \in [Jobs -> Jobs \cup {NoJob}]
    BY DEF TypeOK, StoreTypeOK, QueueTypeOK
  <1>1. ASSUME NEW j \in Jobs, Producer(j) PROVE Owners'
    <2>0. \/ KeyOf[j] = NoKey
          \/ KeyOf[j] \in Keys
      BY StoreAssumption
    <2>1. CASE SaveJob(j)
      BY <1>0, <2>1 DEF SaveJob, Owners
    <2>2. CASE PushJob(j)
      BY <1>0, <2>2 DEF PushJob, Owners
    <2>3. CASE ClaimKey(j)
      BY <1>0, <2>0, <2>3 DEF ClaimKey, Owners
    <2>4. CASE LoseKey(j)
      <3>1. /\ KeyOf[j] \in Keys
            /\ idempotency[KeyOf[j]] \in Jobs
            /\ call[j] = "saved"
        BY <1>0, <2>0, <2>4 DEF LoseKey
      <3>2. InUse(idempotency[KeyOf[j]])
        BY <3>1 DEF InUse, Circulating, Owner
      <3>3. call[idempotency[KeyOf[j]]] = "returned"
        BY <3>1, <3>2 DEF Whole
      <3>4. /\ claimed' = [claimed EXCEPT ![j] = idempotency[KeyOf[j]]]
            /\ call' = [call EXCEPT ![j] = "collided"]
            /\ UNCHANGED idempotency
        BY <2>4 DEF LoseKey, storeVars
      <3>5. KeyOf[idempotency[KeyOf[j]]] = KeyOf[j]
        BY <3>1, StoreAssumption DEF Owners
      <3> QED BY <1>0, <3>1, <3>3, <3>4, <3>5 DEF Owners
    <2>5. CASE DropDuplicate(j)
      BY <1>0, <2>5 DEF DropDuplicate, Owners
    <2> QED BY <1>1, <2>1, <2>2, <2>3, <2>4, <2>5 DEF Producer, SdkEnqueue, Enqueue
  <1>2. ASSUME NEW k \in Keys, KeyTtl(k) PROVE Owners'
    BY <1>0, <1>2 DEF KeyTtl, KeyExpires, queueVars, Owners
  <1>3. CASE UNCHANGED <<call, claimed, idempotency, expiries>>
    BY <1>3 DEF Owners
  <1> QED BY <1>1, <1>2, <1>3, KeyFrame

(* A caller that lost the key was given the id of a job published under    *)
(* the same key, whose hash is complete unless Redis evicted it: the hash  *)
(* a loser deletes (Queue.ts 70) is its own.                               *)
THEOREM LosersAreServed == Spec => []LoserGetsTheJob
  <1>1. Init => Owners
    BY DEF Init, StoreInit, QueueInit, Owners
  <1>2. TypeOK /\ Whole /\ Owners /\ [Next]_vars => Owners'
    BY OwnersStep
  <1>3. Whole /\ Owners => LoserGetsTheJob
    BY DEF Whole, Owners, LoserGetsTheJob
  <1> QED BY <1>1, <1>2, <1>3, TypeCorrect, AlwaysWhole, PTL DEF Spec

-------------------------------------------------------------------------------
Owned(k) == IF idempotency[k] = NoJob THEN 0 ELSE 1

(* Inductive: all jobs published under a key but the one that owns it now  *)
(* were followed by an expiry of the key.                                  *)
KeyCount ==
    \A k \in Keys :
        /\ IsFiniteSet(Published(k))
        /\ Cardinality(Published(k)) <= expiries[k] + Owned(k)

(* A set grows by at most one when one element is added. *)
LEMMA OneMore ==
    ASSUME NEW S, IsFiniteSet(S), NEW x
    PROVE  /\ IsFiniteSet(S \cup {x})
           /\ Cardinality(S \cup {x}) \in Nat
           /\ Cardinality(S \cup {x}) <= Cardinality(S) + 1
  <1>1. IsFiniteSet(S \cup {x})
    BY FS_AddElement
  <1>2. Cardinality(S) \in Nat /\ Cardinality(S \cup {x}) \in Nat
    BY <1>1, FS_CardinalityType
  <1>3. Cardinality(S \cup {x}) = IF x \in S THEN Cardinality(S) ELSE Cardinality(S) + 1
    BY FS_AddElement
  <1> QED BY <1>1, <1>2, <1>3

(* Claiming takes a free key, so it counts as the owner. *)
LEMMA KeyCountStep == TypeOK /\ KeyCount /\ [Next]_vars => KeyCount'
  <1> SUFFICES ASSUME TypeOK, KeyCount, [Next]_vars, NEW k \in Keys
               PROVE  /\ IsFiniteSet(Published(k)')
                      /\ Cardinality(Published(k)') <= expiries'[k] + Owned(k)'
    BY DEF KeyCount
  <1>0. /\ idempotency \in [Keys -> Jobs \cup {NoJob}]
        /\ call \in [Jobs -> CallState]
        /\ expiries \in [Keys -> Nat]
    BY DistriAssumption DEF TypeOK, StoreTypeOK, QueueTypeOK
  <1>1. /\ IsFiniteSet(Published(k))
        /\ Cardinality(Published(k)) \in Nat
        /\ Cardinality(Published(k)) <= expiries[k] + Owned(k)
    BY FS_CardinalityType DEF KeyCount
  <1>2. CASE Published(k)' = Published(k) /\ expiries'[k] = expiries[k] /\ Owned(k)' = Owned(k)
    BY <1>1, <1>2
  <1>3. ASSUME NEW j \in Jobs, Producer(j), ~(ClaimKey(j) /\ KeyOf[j] = k)
        PROVE  Published(k)' = Published(k) /\ expiries'[k] = expiries[k] /\ Owned(k)' = Owned(k)
    <2>1. KeyOf[j] = k => call'[j] = "returned" <=> call[j] = "returned"
      BY <1>0, <1>3, StoreAssumption
         DEF Producer, SdkEnqueue, Enqueue, SaveJob, PushJob, LoseKey, DropDuplicate
    <2>2. \A i \in Jobs \ {j} : call'[i] = call[i]
      BY <1>0, <1>3 DEF Producer, SdkEnqueue, Enqueue, SaveJob, PushJob, ClaimKey, LoseKey, DropDuplicate
    <2>3. idempotency'[k] = idempotency[k] /\ UNCHANGED expiries
      BY <1>0, <1>3 DEF Producer, SdkEnqueue, Enqueue, SaveJob, PushJob, ClaimKey, LoseKey, DropDuplicate,
                        storeVars, faultVars
    <2> QED BY <2>1, <2>2, <2>3 DEF Published, Owned
  <1>4. ASSUME NEW j \in Jobs, Producer(j), ClaimKey(j), KeyOf[j] = k
        PROVE  /\ IsFiniteSet(Published(k)')
               /\ Cardinality(Published(k)') <= expiries'[k] + Owned(k)'
    <2>1. Published(k)' = Published(k) \cup {j}
      BY <1>0, <1>4 DEF ClaimKey, Published
    <2>2. /\ IsFiniteSet(Published(k)')
          /\ Cardinality(Published(k)') \in Nat
          /\ Cardinality(Published(k)') <= Cardinality(Published(k)) + 1
      <3>1. /\ IsFiniteSet(Published(k) \cup {j})
            /\ Cardinality(Published(k) \cup {j}) \in Nat
            /\ Cardinality(Published(k) \cup {j}) <= Cardinality(Published(k)) + 1
        BY <1>1, OneMore
      <3> QED BY <2>1, <3>1, Zenon
    <2>3. Owned(k) = 0 /\ Owned(k)' = 1 /\ UNCHANGED expiries
      BY <1>0, <1>4, StoreAssumption DEF ClaimKey, Owned, Producer, faultVars
    <2> QED BY <1>0, <1>1, <2>2, <2>3
  <1>5. ASSUME NEW l \in Keys, KeyTtl(l)
        PROVE  /\ IsFiniteSet(Published(k)')
               /\ Cardinality(Published(k)') <= expiries'[k] + Owned(k)'
    <2>1. Published(k)' = Published(k)
      BY <1>5 DEF KeyTtl, KeyExpires, queueVars, Published
    <2>2. expiries'[k] + Owned(k)' = expiries[k] + Owned(k)
      BY <1>0, <1>5 DEF KeyTtl, KeyExpires, Owned
    <2> QED BY <1>1, <2>1, <2>2
  <1>6. CASE UNCHANGED <<call, claimed, idempotency, expiries>>
    BY <1>2, <1>6 DEF Published, Owned
  <1> QED BY <1>2, <1>3, <1>4, <1>5, <1>6, KeyFrame

(* Under one idempotency key one job is published, and at most one more    *)
(* each time the key ran out, however many enqueues race                   *)
(* (idempotentEnqueue.lua, Queue.ts 57-73).                                *)
THEOREM OnePerKey == Spec => []OneJobPerKey
  <1>1. Init => KeyCount
    <2> SUFFICES ASSUME Init, NEW k \in Keys
                 PROVE  /\ IsFiniteSet(Published(k))
                        /\ Cardinality(Published(k)) <= expiries[k] + Owned(k)
      BY DEF KeyCount
    <2>1. Published(k) = {}
      BY DEF Init, QueueInit, Published
    <2>2. expiries[k] = 0 /\ Owned(k) = 0
      BY DEF Init, StoreInit, Owned
    <2> QED BY <2>1, <2>2, FS_EmptySet
  <1>2. TypeOK /\ KeyCount /\ [Next]_vars => KeyCount'
    BY KeyCountStep
  <1>3. TypeOK /\ KeyCount => OneJobPerKey
    <2> SUFFICES ASSUME TypeOK, KeyCount, NEW k \in Keys
                 PROVE  Cardinality(Published(k)) <= expiries[k] + 1
      BY DEF OneJobPerKey
    <2>1. Cardinality(Published(k)) \in Nat /\ Cardinality(Published(k)) <= expiries[k] + Owned(k)
      BY FS_CardinalityType DEF KeyCount
    <2>2. expiries[k] \in Nat /\ Owned(k) \in 0 .. 1
      BY DistriAssumption DEF TypeOK, Owned
    <2> QED BY <2>1, <2>2
  <1> QED BY <1>1, <1>2, <1>3, TypeCorrect, PTL DEF Spec
===============================================================================
