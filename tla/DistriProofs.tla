----------------------------- MODULE DistriProofs -----------------------------
(***************************************************************************)
(* Invariants of Distri, proved for every value of its constants.          *)
(***************************************************************************)
EXTENDS DistriRecord, TLAPS, FiniteSetTheorems

-------------------------------------------------------------------------------
(* Operators. *)

LEMMA BumpType ==
    ASSUME NEW n \in 0 .. AttemptsCap
    PROVE  Bump(n) \in 0 .. AttemptsCap
  BY StoreAssumption DEF Bump

(* So do the metric counters. *)
LEMMA IncrType ==
    ASSUME NEW n \in 0 .. CounterCap
    PROVE  Incr(n) \in 0 .. CounterCap
  BY StoreAssumption DEF Incr

(* A job goes back to a list that is polled. *)
LEMMA ListOfType ==
    ASSUME NEW j \in Jobs, NEW f
    PROVE  ListOf(f, j) \in PrioritySet
  BY StoreAssumption DEF ListOf

(* A worker polls an existing list. *)
LEMMA LevelType ==
    ASSUME NEW l \in DOMAIN PRIORITIES
    PROVE  PRIORITIES[l] \in PrioritySet
  BY DEF PrioritySet

(* Writing a status keeps hashes and statuses well-typed. *)
LEMMA HSetStatusType ==
    ASSUME StoreTypeOK, NEW j \in Jobs, NEW s \in JobStatus, HSetStatus(j, s)
    PROVE  hash' \in [Jobs -> Fields] /\ status' \in [Jobs -> JobStatus]
  BY DEF HSetStatus, StoreTypeOK, Fields

(* So does writing status and attempts. *)
LEMMA UpdateType ==
    ASSUME StoreTypeOK, NEW j \in Jobs, NEW s \in JobStatus,
           NEW n \in 0 .. AttemptsCap, UpdateJobFields(j, s, n)
    PROVE  /\ hash' \in [Jobs -> Fields]
           /\ status' \in [Jobs -> JobStatus]
           /\ attempts' \in [Jobs -> 0 .. AttemptsCap]
  BY HSetStatusType DEF UpdateJobFields, StoreTypeOK

(* Pushing an id keeps the waiting lists well-typed. *)
LEMMA LPushType ==
    ASSUME StoreTypeOK, NEW j \in Jobs, NEW p \in PrioritySet, LPushWaiting(p, j)
    PROVE  waiting' \in [PrioritySet -> Seq(Jobs)]
  BY DEF LPushWaiting, StoreTypeOK

(* Removing a token keeps the counts natural numbers. *)
LEMMA LRemType ==
    ASSUME StoreTypeOK, NEW j \in Jobs, LRemProcessing(j)
    PROVE  processing' \in [Jobs -> Nat]
  BY DEF LRemProcessing, StoreTypeOK

(* Popping yields a job and keeps both lists well-typed. *)
LEMMA PopType ==
    ASSUME StoreTypeOK, NEW p \in PrioritySet, waiting[p] # <<>>, RPopLPush(p)
    PROVE  /\ Head(waiting[p]) \in Jobs
           /\ waiting' \in [PrioritySet -> Seq(Jobs)]
           /\ processing' \in [Jobs -> Nat]
  BY DEF RPopLPush, StoreTypeOK

-------------------------------------------------------------------------------
(* Type correctness, one lemma per component. *)

LEMMA EnqueueType ==
    ASSUME StoreTypeOK, QueueTypeOK, NEW j \in Jobs, Enqueue(j)
    PROVE  StoreTypeOK' /\ QueueTypeOK'
  <1> USE DEF StoreTypeOK, QueueTypeOK, CallState, Fields, JobStatus, storeVars, hashVars,
              listVars, aliveVars
  <1>1. CASE SaveJob(j)
    BY <1>1, StoreAssumption DEF SaveJob
  <1>2. CASE PushJob(j)
    BY <1>2, LPushType, StoreAssumption DEF PushJob
  <1>3. CASE ClaimKey(j)
    BY <1>3, LPushType, StoreAssumption DEF ClaimKey
  <1>4. CASE LoseKey(j)
    BY <1>4, StoreAssumption DEF LoseKey
  <1>5. CASE DropDuplicate(j)
    BY <1>5 DEF DropDuplicate
  <1> QED BY <1>1, <1>2, <1>3, <1>4, <1>5 DEF Enqueue

(* Every worker step but the completion keeps store and worker well-typed. *)
LEMMA WorkingType ==
    ASSUME StoreTypeOK, WorkerTypeOK, NEW w \in Workers,
           Working(w) \/ HeartbeatTick(w) \/ Complete(w)
    PROVE  StoreTypeOK' /\ WorkerTypeOK'
  <1> USE DEF WorkerTypeOK, WorkerLabel, Goto, NextRound, workerVars, storeVars, hashVars,
              listVars, aliveVars
  <1>p. PRIORITIES[level[w]] \in PrioritySet
    BY LevelType
  <1>j. wpc[w] # "poll" => wjob[w] \in Jobs
    OBVIOUS
  <1>1. CASE Poll(w)
    <2>1. /\ Head(waiting[PRIORITIES[level[w]]]) \in Jobs
          /\ waiting' \in [PrioritySet -> Seq(Jobs)]
          /\ processing' \in [Jobs -> Nat]
      BY <1>1, <1>p, PopType DEF Poll
    <2>2. 1 \in DOMAIN PRIORITIES
      BY StoreAssumption
    <2> QED BY <1>1, <2>1, <2>2, StoreAssumption DEF Poll, StoreTypeOK
  <1>2. CASE PollEmpty(w)
    BY <1>2, StoreAssumption DEF PollEmpty, StoreTypeOK
  <1>3. CASE Fetch(w)
    BY <1>3, <1>j, StoreAssumption DEF Fetch, StoreTypeOK
  <1>4. CASE FetchNothing(w)
    BY <1>4, <1>j, StoreAssumption DEF FetchNothing, StoreTypeOK
  <1>5. CASE MarkActive(w)
    BY <1>5, <1>j, HSetStatusType DEF MarkActive, StoreTypeOK, JobStatus
  <1>6. CASE RejectUnhandled(w)
    <2>1. StoreTypeOK'
      BY <1>6, <1>j, HSetStatusType DEF RejectUnhandled, StoreTypeOK, JobStatus
    <2> QED BY <1>6, <2>1, StoreAssumption DEF RejectUnhandled
  <1>7. CASE Register(w)
    BY <1>7, <1>j DEF Register, StoreTypeOK
  <1>8. CASE FirstBeat(w)
    BY <1>8, <1>j DEF FirstBeat, StoreTypeOK
  <1>9. CASE HeartbeatTick(w)
    BY <1>9 DEF HeartbeatTick, StoreTypeOK
  <1>10. CASE Complete(w)
    BY <1>10, <1>j, HSetStatusType, IncrType DEF Complete, StoreTypeOK, JobStatus
  <1>11. CASE CountFailure(w)
    BY <1>11, <1>j, IncrType DEF CountFailure, StoreTypeOK
  <1>12. CASE Settle(w)
    <2>1. NextAttempt(w) \in 0 .. AttemptsCap
      BY BumpType DEF NextAttempt
    <2>2. wjob[w] \in Jobs
      BY <1>12, <1>j DEF Settle
    <2> QED BY <1>12, <2>1, <2>2, UpdateType DEF Settle, StoreTypeOK, JobStatus
  <1>13. CASE ParkDelayed(w)
    BY <1>13, <1>j DEF ParkDelayed, StoreTypeOK
  <1>14. CASE ParkDead(w)
    BY <1>14, <1>j DEF ParkDead, StoreTypeOK
  <1>15. CASE Cleanup(w)
    <2>1. StoreTypeOK'
      BY <1>15, <1>j, LRemType DEF Cleanup, StoreTypeOK
    <2> QED BY <1>15, <2>1, StoreAssumption DEF Cleanup
  <1> QED BY <1>1, <1>2, <1>3, <1>4, <1>5, <1>6, <1>7, <1>8, <1>9, <1>10, <1>11, <1>12,
             <1>13, <1>14, <1>15 DEF Working

(* Every watchdog step keeps store and watchdog well-typed. *)
LEMMA DogType ==
    ASSUME StoreTypeOK, WatchdogTypeOK, NEW d \in Watchdogs, Dog(d)
    PROVE  StoreTypeOK' /\ WatchdogTypeOK'
  <1> USE DEF WatchdogTypeOK, WatchdogLabel, Continue, EndRequeue, storeVars, hashVars,
              listVars, aliveVars
  <1>1. CASE ReadActive(d)
    BY <1>1 DEF ReadActive, StoreTypeOK
  <1>2. CASE ReadProcessing(d)
    BY <1>2 DEF ReadProcessing, StoreTypeOK
  <1>3. CASE ReadHeartbeats(d)
    BY <1>3 DEF ReadHeartbeats, StoreTypeOK
  <1>4. CASE ReadStalled(d)
    BY <1>4, StoreAssumption DEF ReadStalled, StoreTypeOK
  <1>5. CASE Requeue(d)
    <2>1. /\ djob[d] \in Jobs
          /\ Bump(dattempts[d]) \in 0 .. AttemptsCap
          /\ ListOf(dhash[d], djob[d]) \in PrioritySet
      BY <1>5, BumpType, ListOfType DEF Requeue
    <2>2. StoreTypeOK'
      BY <1>5, <2>1, UpdateType, LPushType, LRemType DEF Requeue, StoreTypeOK, JobStatus
    <2> QED BY <1>5, <2>2, StoreAssumption DEF Requeue, Fields
  <1>6. CASE DiscardOrphan(d)
    <2>1. StoreTypeOK'
      BY <1>6, LRemType DEF DiscardOrphan, StoreTypeOK
    <2> QED BY <1>6, <2>1, StoreAssumption DEF DiscardOrphan, Fields
  <1> QED BY <1>1, <1>2, <1>3, <1>4, <1>5, <1>6 DEF Dog

(* Every scheduler step keeps store and scheduler well-typed. *)
LEMMA DelaysType ==
    ASSUME StoreTypeOK, SchedulerTypeOK, NEW s \in Schedulers, Delays(s)
    PROVE  StoreTypeOK' /\ SchedulerTypeOK'
  <1> USE DEF SchedulerTypeOK, SchedulerLabel, storeVars, hashVars, listVars, aliveVars
  <1>1. CASE ReadDue(s)
    BY <1>1 DEF ReadDue, StoreTypeOK
  <1>2. CASE ReadPriority(s)
    BY <1>2, ListOfType, StoreAssumption DEF ReadPriority, StoreTypeOK
  <1>3. CASE Release(s)
    <2>1. sjob[s] \in Jobs
      BY <1>3 DEF Release
    <2>2. StoreTypeOK'
      BY <1>3, <2>1, HSetStatusType, LPushType DEF Release, StoreTypeOK, JobStatus
    <2> QED BY <1>3, <2>2, StoreAssumption DEF Release
  <1> QED BY <1>1, <1>2, <1>3 DEF Delays

(* Every step of a retry request keeps store and request well-typed. *)
LEMMA ApiType ==
    ASSUME StoreTypeOK, ApiTypeOK, NEW r \in Requests, Api(r)
    PROVE  StoreTypeOK' /\ ApiTypeOK'
  <1>1. CASE CheckRetryable(r)
    BY <1>1 DEF CheckRetryable, StoreTypeOK, ApiTypeOK, storeVars, hashVars, listVars,
                aliveVars
  <1>2. CASE Retry(r)
    <2>1. ajob[r] \in Jobs /\ Priority[ajob[r]] \in PrioritySet
      BY <1>2, StoreAssumption DEF Retry, ApiTypeOK
    <2>2. 0 \in 0 .. AttemptsCap /\ "waiting" \in JobStatus
      BY StoreAssumption DEF JobStatus
    <2>3. /\ hash' \in [Jobs -> Fields]
          /\ status' \in [Jobs -> JobStatus]
          /\ attempts' \in [Jobs -> 0 .. AttemptsCap]
      BY <1>2, <2>1, <2>2, UpdateType DEF Retry
    <2>4. waiting' \in [PrioritySet -> Seq(Jobs)]
      BY <1>2, <2>1, LPushType DEF Retry
    <2>5. StoreTypeOK'
      BY <1>2, <2>3, <2>4 DEF Retry, StoreTypeOK, aliveVars
    <2> QED BY <1>2, <2>5 DEF Retry, ApiTypeOK
  <1> QED BY <1>1, <1>2 DEF Api

(* A crash resets what it resets to a value of its type. *)
LEMMA CrashType ==
    ASSUME TypeOK, NEW n \in Nodes, Crash(n)
    PROVE  TypeOK'
  <1> USE DEF Crash
  <1>1. StoreTypeOK' /\ QueueTypeOK' /\ ApiTypeOK'
    BY DEF TypeOK, StoreTypeOK, QueueTypeOK, ApiTypeOK, storeVars, hashVars, listVars,
           aliveVars, queueVars, apiVars
  <1>2. WorkerTypeOK'
    BY StoreAssumption DEF TypeOK, WorkerTypeOK, WorkerLabel
  <1>3. WatchdogTypeOK'
    BY StoreAssumption DEF TypeOK, WatchdogTypeOK, WatchdogLabel, Fields
  <1>4. SchedulerTypeOK'
    BY StoreAssumption DEF TypeOK, SchedulerTypeOK, SchedulerLabel
  <1>5. abandoned' \subseteq Jobs
    BY DEF TypeOK, WorkerTypeOK
  <1>6. crashes' \in 0 .. MaxCrashes
    BY DistriAssumption DEF TypeOK
  <1> QED BY <1>1, <1>2, <1>3, <1>4, <1>5, <1>6 DEF TypeOK

(* Heartbeat expiry and eviction keep the types. *)
LEMMA EnvironmentType ==
    ASSUME TypeOK, NEW j \in Jobs, HeartbeatExpires(j) \/ HeartbeatLapses(j) \/ EvictHash(j)
    PROVE  TypeOK'
  <1> USE DEF storeVars, hashVars, listVars, aliveVars, queueVars, workerVars, watchdogVars,
              schedulerVars, apiVars, faultVars, historyVars
  <1>1. CASE EvictHash(j)
    BY <1>1 DEF EvictHash, TypeOK, StoreTypeOK, QueueTypeOK, WorkerTypeOK, WatchdogTypeOK,
                SchedulerTypeOK, ApiTypeOK, Fields
  <1>2. CASE HeartbeatExpires(j) \/ HeartbeatLapses(j)
    <2>1. lapses' \in 0 .. MaxLapses
      BY <1>2, DistriAssumption DEF TypeOK, HeartbeatExpires, HeartbeatLapses
    <2> QED BY <1>2, <2>1
            DEF HeartbeatExpires, HeartbeatLapses, SetHeartbeatGone, TypeOK, StoreTypeOK,
                QueueTypeOK, WorkerTypeOK, WatchdogTypeOK, SchedulerTypeOK, ApiTypeOK
  <1> QED BY <1>1, <1>2

(* So does the expiry of an idempotency key. *)
LEMMA KeyTtlType ==
    ASSUME TypeOK, NEW k \in Keys, KeyTtl(k)
    PROVE  TypeOK'
  <1>1. expiries' \in [Keys -> 0 .. MaxExpiries]
    BY DistriAssumption DEF KeyTtl, TypeOK
  <1> QED BY <1>1 DEF KeyTtl, KeyExpires, TypeOK, StoreTypeOK, QueueTypeOK, WorkerTypeOK,
                WatchdogTypeOK, SchedulerTypeOK, ApiTypeOK, hashVars, listVars, aliveVars,
                queueVars, workerVars, watchdogVars, schedulerVars, apiVars, historyVars

(* The initial state is well-typed. *)
LEMMA TypeInit == Init => TypeOK
  BY StoreAssumption, DistriAssumption
  DEF Init, StoreInit, QueueInit, WorkerInit, WatchdogInit, SchedulerInit, ApiInit,
      TypeOK, StoreTypeOK, QueueTypeOK, WorkerTypeOK, WatchdogTypeOK, SchedulerTypeOK,
      ApiTypeOK, Fields, JobStatus, CallState, WorkerLabel, WatchdogLabel, SchedulerLabel

(* Every step keeps the types. *)
LEMMA TypeStep == TypeOK /\ [Next]_vars => TypeOK'
  <1> SUFFICES ASSUME TypeOK, [Next]_vars PROVE TypeOK'
    OBVIOUS
  <1> USE DEF queueVars, workerVars, watchdogVars, schedulerVars, apiVars, faultVars
  <1>1. ASSUME NEW j \in Jobs, Producer(j) PROVE TypeOK'
    <2>1. StoreTypeOK' /\ QueueTypeOK'
      BY <1>1, EnqueueType DEF Producer, SdkEnqueue, Enqueue, TypeOK
    <2> QED BY <1>1, <2>1 DEF Producer, TypeOK, WorkerTypeOK, WatchdogTypeOK,
                  SchedulerTypeOK, ApiTypeOK, historyVars
  <1>2. ASSUME NEW w \in Workers, Worker(w) \/ Beat(w) PROVE TypeOK'
    <2>1. StoreTypeOK' /\ WorkerTypeOK'
      BY <1>2, WorkingType DEF Worker, Beat, TypeOK
    <2>2. done' \subseteq Jobs /\ abandoned' = abandoned /\ robbed' = robbed
      BY <1>2 DEF Worker, Beat, Complete, TypeOK, WorkerTypeOK, historyVars
    <2> QED BY <1>2, <2>1, <2>2 DEF Worker, Beat, TypeOK, QueueTypeOK, WatchdogTypeOK,
                  SchedulerTypeOK, ApiTypeOK
  <1>3. ASSUME NEW d \in Watchdogs, Dog(d) PROVE TypeOK'
    <2>1. StoreTypeOK' /\ WatchdogTypeOK'
      BY <1>3, DogType DEF TypeOK
    <2>2. abandoned' \subseteq Jobs /\ done' = done
      BY <1>3 DEF Dog, TypeOK, historyVars
    <2>3. robbed' \subseteq Jobs
      BY <1>3 DEF Dog, Robs, Requeue, DiscardOrphan, TypeOK, WatchdogTypeOK, historyVars
    <2> QED BY <1>3, <2>1, <2>2, <2>3 DEF Dog, TypeOK, QueueTypeOK, WorkerTypeOK,
                  SchedulerTypeOK, ApiTypeOK
  <1>4. ASSUME NEW s \in Schedulers, Delays(s) PROVE TypeOK'
    <2>1. StoreTypeOK' /\ SchedulerTypeOK'
      BY <1>4, DelaysType DEF TypeOK
    <2> QED BY <1>4, <2>1 DEF Delays, TypeOK, QueueTypeOK, WorkerTypeOK, WatchdogTypeOK,
                  ApiTypeOK, historyVars
  <1>5. ASSUME NEW r \in Requests, Api(r) PROVE TypeOK'
    <2>1. StoreTypeOK' /\ ApiTypeOK'
      BY <1>5, ApiType DEF TypeOK
    <2> QED BY <1>5, <2>1 DEF Api, TypeOK, QueueTypeOK, WorkerTypeOK, WatchdogTypeOK,
                  SchedulerTypeOK, historyVars
  <1>6. CASE UNCHANGED vars
    BY <1>6 DEF vars, storeVars, hashVars, listVars, aliveVars, historyVars, TypeOK,
                StoreTypeOK, QueueTypeOK, WorkerTypeOK, WatchdogTypeOK, SchedulerTypeOK,
                ApiTypeOK
  <1> QED BY <1>1, <1>2, <1>3, <1>4, <1>5, <1>6, CrashType, EnvironmentType, KeyTtlType
          DEF Next

(* Every variable keeps its type, for every value of the constants.        *)
THEOREM TypeCorrect == Spec => []TypeOK
  BY TypeInit, TypeStep, PTL DEF Spec

-------------------------------------------------------------------------------
(* The order of service.                                                   *)

(* A worker that is busy starts its next pass at the top. *)
FreshPass == \A w \in Workers : wpc[w] # "poll" => level[w] = 1

(* A step moves a worker down the lists only past one it found empty. *)
LEMMA PassStep ==
    ASSUME TypeOK, FreshPass, Next, NEW w \in Workers
    PROVE  \/ level'[w] = 1
           \/ wpc[w] = "poll" /\ wpc'[w] = "poll" /\ level'[w] = level[w]
           \/ PollEmpty(w) /\ waiting' = waiting
  <1> DEFINE Kept ==
               \/ level'[w] = 1
               \/ wpc[w] = "poll" /\ wpc'[w] = "poll" /\ level'[w] = level[w]
               \/ PollEmpty(w) /\ waiting' = waiting
  <1>t. wpc \in [Workers -> WorkerLabel] /\ level \in [Workers -> DOMAIN PRIORITIES]
    BY DEF TypeOK, WorkerTypeOK
  <1>s. level' = level /\ wpc'[w] = wpc[w] => Kept
    BY DEF FreshPass
  <1>1. ASSUME NEW v \in Workers, Worker(v) PROVE Kept
    <2>1. CASE Poll(v)
      <3>1. CASE v = w
        BY <2>1, <3>1, <1>t DEF Poll
      <3>2. CASE v # w
        <4>1. level'[w] = level[w] /\ wpc'[w] = wpc[w]
          BY <2>1, <3>2, <1>t DEF Poll, Goto
        <4> QED BY <4>1 DEF FreshPass
      <3> QED BY <3>1, <3>2
    <2>2. CASE PollEmpty(v)
      <3>1. CASE v = w
        BY <2>2, <3>1 DEF PollEmpty, storeVars, listVars
      <3>2. CASE v # w
        <4>1. level'[w] = level[w] /\ wpc'[w] = wpc[w]
          BY <2>2, <3>2, <1>t DEF PollEmpty
        <4> QED BY <4>1 DEF FreshPass
      <3> QED BY <3>1, <3>2
    <2>3. CASE ~Poll(v) /\ ~PollEmpty(v)
      <3>1. level' = level /\ wpc[v] # "poll"
        BY <1>1, <2>3
        DEF Worker, Working, Fetch, FetchNothing, MarkActive, RejectUnhandled, Register,
            FirstBeat, Complete, CountFailure, Settle, ParkDelayed, ParkDead, Cleanup
      <3>2. \E l \in WorkerLabel : wpc' = [wpc EXCEPT ![v] = l]
        BY <1>1, <2>3
        DEF Worker, Working, Fetch, FetchNothing, MarkActive, RejectUnhandled, Register,
            FirstBeat, Complete, CountFailure, Settle, ParkDelayed, ParkDead, Cleanup,
            Goto, NextRound, WorkerLabel
      <3>3. v # w => wpc'[w] = wpc[w]
        BY <3>2, <1>t
      <3> QED BY <3>1, <3>3 DEF FreshPass
    <2> QED BY <2>1, <2>2, <2>3
  <1>2. ASSUME NEW n \in Nodes, Crash(n) PROVE Kept
    <2>1. level'[w] = 1 \/ (level'[w] = level[w] /\ wpc'[w] = wpc[w])
      BY <1>2 DEF Crash
    <2> QED BY <2>1 DEF FreshPass
  <1>3. ASSUME NEW j \in Jobs, Producer(j) PROVE Kept
    BY <1>3, <1>s DEF Producer, workerVars
  <1>4. ASSUME NEW k \in Keys, KeyTtl(k) PROVE Kept
    BY <1>4, <1>s DEF KeyTtl, workerVars
  <1>5. ASSUME NEW v \in Workers, Beat(v) PROVE Kept
    BY <1>5, <1>s DEF Beat, HeartbeatTick, workerVars
  <1>6. ASSUME NEW d \in Watchdogs, Dog(d) PROVE Kept
    BY <1>6, <1>s DEF Dog, workerVars
  <1>7. ASSUME NEW s \in Schedulers, Delays(s) PROVE Kept
    BY <1>7, <1>s DEF Delays, workerVars
  <1>8. ASSUME NEW r \in Requests, Api(r) PROVE Kept
    BY <1>8, <1>s DEF Api, workerVars
  <1>9. ASSUME NEW j \in Jobs, HeartbeatExpires(j) \/ HeartbeatLapses(j) \/ EvictHash(j)
        PROVE Kept
    BY <1>9, <1>s DEF HeartbeatExpires, HeartbeatLapses, SetHeartbeatGone, EvictHash,
                      workerVars
  <1> QED BY <1>1, <1>2, <1>3, <1>4, <1>5, <1>6, <1>7, <1>8, <1>9 DEF Next

(* What is on a list after a step was there before or has just arrived. *)
LEMMA ArrivalsComplete ==
    ASSUME NEW p \in PrioritySet
    PROVE  IdsIn(p)' \subseteq IdsIn(p) \cup Arrivals
  BY DEF Arrivals

(* The invariant: the order of service holds, and keeps on holding because *)
(* a worker comes back to the top of the lists.                            *)
OrderIInv == TypeOK /\ FreshPass /\ OvertakesInPassing

LEMMA OrderStarts == RecordInit => OrderIInv
  <1> SUFFICES ASSUME RecordInit PROVE OrderIInv
    OBVIOUS
  <1>1. TypeOK
    BY TypeInit DEF RecordInit
  <1>2. \A w \in Workers : level[w] = 1
    BY DEF RecordInit, Init, WorkerInit
  <1> QED BY <1>1, <1>2 DEF OrderIInv, FreshPass, OvertakesInPassing

LEMMA OrderKept == OrderIInv /\ [RecordNext]_recordVars => OrderIInv'
  <1> SUFFICES ASSUME OrderIInv, [RecordNext]_recordVars PROVE OrderIInv'
    OBVIOUS
  <1>1. TypeOK'
    BY TypeStep DEF OrderIInv, RecordNext, recordVars
  <1>2. CASE UNCHANGED recordVars
    <2>1. wpc' = wpc /\ level' = level /\ waiting' = waiting /\ late' = late
      BY <1>2 DEF recordVars, vars, workerVars, storeVars, listVars
    <2>2. OvertakesInPassing'
      BY <2>1 DEF OrderIInv, OvertakesInPassing, IdsIn
    <2> QED BY <1>1, <2>1, <2>2 DEF OrderIInv, FreshPass
  <1>3. CASE RecordNext
    <2>1. FreshPass'
      BY <1>3, PassStep DEF OrderIInv, RecordNext, FreshPass, PollEmpty
    <2>2. ASSUME NEW w \in Workers, wpc'[w] = "poll", NEW i \in 1 .. level'[w] - 1
          PROVE  IdsIn(PRIORITIES[i])' \subseteq late'[w]
      <3>1. /\ level[w] \in DOMAIN PRIORITIES /\ level'[w] \in DOMAIN PRIORITIES
            /\ level[w] \in Nat /\ level'[w] \in Nat /\ level'[w] # 1
            /\ DOMAIN PRIORITIES = 1 .. Len(PRIORITIES) /\ Len(PRIORITIES) \in Nat
        BY <1>1, <2>2, StoreAssumption DEF OrderIInv, TypeOK, WorkerTypeOK
      <3>2. PRIORITIES[i] \in PrioritySet
        BY <3>1, LevelType
      <3>3. late'[w] = late[w] \cup Arrivals
        <4>1. wpc[w] = "poll"
          BY <1>3, <3>1, PassStep DEF OrderIInv, RecordNext, PollEmpty
        <4> QED BY <1>3, <2>2, <3>1, <4>1 DEF RecordNext, SamePass
      <3>4. CASE wpc[w] = "poll" /\ level'[w] = level[w]
        <4>1. IdsIn(PRIORITIES[i]) \subseteq late[w]
          BY <2>2, <3>4 DEF OrderIInv, OvertakesInPassing
        <4> QED BY <3>2, <3>3, <4>1, ArrivalsComplete
      <3>5. CASE PollEmpty(w) /\ waiting' = waiting
        <4>1. IdsIn(PRIORITIES[i])' = IdsIn(PRIORITIES[i])
          BY <3>5 DEF IdsIn
        <4>2. level'[w] = level[w] + 1 /\ wpc[w] = "poll"
          BY <3>1, <3>5 DEF PollEmpty, OrderIInv, TypeOK, WorkerTypeOK
        <4>3. CASE i = level[w]
          BY <3>5, <4>1, <4>3 DEF PollEmpty, IdsIn
        <4>4. CASE i # level[w]
          <5>1. i \in 1 .. level[w] - 1
            BY <2>2, <3>1, <4>2, <4>4
          <5>2. IdsIn(PRIORITIES[i]) \subseteq late[w]
            BY <4>2, <5>1 DEF OrderIInv, OvertakesInPassing
          <5> QED BY <3>3, <4>1, <5>2
        <4> QED BY <4>3, <4>4
      <3> QED BY <1>3, <3>1, <3>4, <3>5, PassStep DEF OrderIInv, RecordNext
    <2>3. OvertakesInPassing'
      BY <2>2 DEF OvertakesInPassing
    <2> QED BY <1>1, <2>1, <2>3 DEF OrderIInv
  <1> QED BY <1>2, <1>3

(* However the pushes of producers, schedulers, watchdogs and retries fall *)
(* between a worker's commands, the worker passes over no higher job but   *)
(* those pushed during the pass it is in (WorkerPool.ts 79-88).            *)
THEOREM ServedInOrder == RecordSpec => []OvertakesInPassing
  <1>1. OrderIInv => OvertakesInPassing
    BY DEF OrderIInv
  <1> QED BY <1>1, OrderStarts, OrderKept, PTL DEF RecordSpec
===============================================================================
