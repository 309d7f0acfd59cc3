------------------------------ MODULE DistriLoss ------------------------------
(***************************************************************************)
(* That no single fault loses a job, and that the status of a job is true  *)
(* of the lists, proved for every value of the constants.                  *)
(***************************************************************************)
EXTENDS DistriSafety

-------------------------------------------------------------------------------
(* Events: what a step must have been for a job to leave a place.  The     *)
(* steps are told apart once, here; the invariants below only argue about  *)
(* the events.                                                             *)

(* The commands that push an id leave it on a list. *)
LEMMA Pushed ==
    ASSUME TypeOK
    PROVE  /\ \A d \in Watchdogs : Requeue(d) =>
                 djob[d] \in Jobs /\ (\A i \in Jobs : i = djob[d] => Listed(i)')
           /\ \A s \in Schedulers : Release(s) =>
                 sjob[s] \in Jobs /\ (\A i \in Jobs : i = sjob[s] => Listed(i)')
           /\ \A r \in Requests : Retry(r) =>
                 ajob[r] \in Jobs /\ (\A i \in Jobs : i = ajob[r] => Listed(i)')
           /\ \A j \in Jobs : PushJob(j) \/ ClaimKey(j) => Listed(j)'
  <1>0. StoreTypeOK /\ WatchdogTypeOK /\ SchedulerTypeOK /\ ApiTypeOK
    BY DEF TypeOK
  <1>1. ASSUME NEW d \in Watchdogs, Requeue(d)
        PROVE  djob[d] \in Jobs /\ (\A i \in Jobs : i = djob[d] => Listed(i)')
    <2>1. djob[d] \in Jobs
      BY <1>0, <1>1 DEF Requeue, WatchdogTypeOK
    <2> QED BY <1>0, <1>1, <2>1, PushLists, ListOfType DEF Requeue
  <1>2. ASSUME NEW s \in Schedulers, Release(s)
        PROVE  sjob[s] \in Jobs /\ (\A i \in Jobs : i = sjob[s] => Listed(i)')
    <2>1. sjob[s] \in Jobs /\ sprio[s] \in PrioritySet
      BY <1>0, <1>2 DEF Release, SchedulerTypeOK
    <2> QED BY <1>0, <1>2, <2>1, PushLists DEF Release
  <1>3. ASSUME NEW r \in Requests, Retry(r)
        PROVE  ajob[r] \in Jobs /\ (\A i \in Jobs : i = ajob[r] => Listed(i)')
    <2>1. ajob[r] \in Jobs /\ Priority[ajob[r]] \in PrioritySet
      BY <1>0, <1>3, StoreAssumption DEF Retry, ApiTypeOK
    <2> QED BY <1>0, <1>3, <2>1, PushLists DEF Retry
  <1>4. ASSUME NEW j \in Jobs, PushJob(j) \/ ClaimKey(j) PROVE Listed(j)'
    <2>1. Priority[j] \in PrioritySet
      BY StoreAssumption
    <2> QED BY <1>0, <1>4, <2>1, PushLists DEF PushJob, ClaimKey
  <1> QED BY <1>1, <1>2, <1>3, <1>4

(* An id leaves the waiting lists only into the hands of a worker. *)
LEMMA ListedLost ==
    ASSUME TypeOK, [Next]_vars, NEW i \in Jobs, Listed(i), ~Listed(i)'
    PROVE  \E w \in Workers : Worker(w) /\ Poll(w) /\ wjob'[w] = i
  <1>0. StoreTypeOK /\ WorkerTypeOK /\ WatchdogTypeOK /\ SchedulerTypeOK /\ ApiTypeOK
    BY DEF TypeOK
  <1>1. waiting' # waiting
    BY DEF Listed
  <1>2. ASSUME NEW j \in Jobs, NEW p \in PrioritySet, LPushWaiting(p, j) PROVE FALSE
    BY <1>0, <1>2, PushLists
  <1>3. ASSUME NEW j \in Jobs, Producer(j) PROVE FALSE
    <2>1. Priority[j] \in PrioritySet
      BY StoreAssumption
    <2>2. PushJob(j) \/ ClaimKey(j)
      BY <1>1, <1>3 DEF Producer, SdkEnqueue, Enqueue, SaveJob, LoseKey, DropDuplicate, storeVars, listVars
    <2> QED BY <1>2, <2>1, <2>2 DEF PushJob, ClaimKey
  <1>4. ASSUME NEW d \in Watchdogs, Dog(d) PROVE FALSE
    <2>1. Requeue(d)
      BY <1>1, <1>4 DEF Dog, ReadActive, ReadProcessing, ReadHeartbeats, ReadStalled,
                        DiscardOrphan, storeVars, listVars
    <2>2. djob[d] \in Jobs
      BY <1>0, <2>1 DEF Requeue, WatchdogTypeOK
    <2> QED BY <1>0, <1>2, <2>1, <2>2, ListOfType DEF Requeue
  <1>5. ASSUME NEW s \in Schedulers, Delays(s) PROVE FALSE
    <2>1. Release(s)
      BY <1>1, <1>5 DEF Delays, ReadDue, ReadPriority, storeVars, listVars
    <2> QED BY <1>0, <1>2, <2>1 DEF Release, SchedulerTypeOK
  <1>6. ASSUME NEW r \in Requests, Api(r) PROVE FALSE
    <2>1. Retry(r)
      BY <1>1, <1>6 DEF Api, CheckRetryable, storeVars, listVars
    <2> QED BY <1>0, <1>2, <2>1, StoreAssumption DEF Retry, ApiTypeOK
  <1>7. ASSUME NEW w \in Workers, Worker(w) \/ Beat(w)
        PROVE  Worker(w) /\ Poll(w) /\ wjob'[w] = i
    <2>1. Worker(w) /\ Poll(w)
      BY <1>1, <1>7 DEF Worker, Beat, Working, PollEmpty, Fetch, FetchNothing, MarkActive,
           RejectUnhandled, Register, FirstBeat, HeartbeatTick, CountFailure, Settle,
           ParkDelayed, ParkDead, Cleanup, Complete, storeVars, listVars
    <2> DEFINE p == PRIORITIES[level[w]]
    <2>2. p \in PrioritySet /\ waiting[p] # <<>> /\ RPopLPush(p)
      BY <1>0, <2>1, LevelType DEF Poll, WorkerTypeOK
    <2>3. i = Head(waiting[p])
      BY <1>0, <2>2, PopLists
    <2>4. wjob' = [wjob EXCEPT ![w] = Head(waiting[p])]
      BY <2>1 DEF Poll
    <2> QED BY <1>0, <2>1, <2>3, <2>4 DEF WorkerTypeOK
  <1>8. ~UNCHANGED vars
    BY <1>1 DEF vars, storeVars, listVars
  <1>9. ~ \E k \in Keys : KeyTtl(k)
    BY <1>1 DEF KeyTtl, KeyExpires, listVars
  <1>10. ~ \E j \in Jobs : HeartbeatExpires(j) \/ HeartbeatLapses(j) \/ EvictHash(j)
    BY <1>1 DEF HeartbeatExpires, HeartbeatLapses, SetHeartbeatGone, EvictHash, listVars
  <1>11. ~ \E n \in Nodes : Crash(n)
    BY <1>1 DEF Crash, storeVars, listVars
  <1> QED BY <1>3, <1>4, <1>5, <1>6, <1>7, <1>8, <1>9, <1>10, <1>11 DEF Next

(* An enqueue returns when it has pushed the id. *)
LEMMA CallReturns ==
    ASSUME TypeOK, [Next]_vars, NEW i \in Jobs, call[i] # "returned", call'[i] = "returned"
    PROVE  Listed(i)'
  <1>0. QueueTypeOK
    BY DEF TypeOK
  <1>1. PICK j \in Jobs : Producer(j)
    BY DEF Next, vars, KeyTtl, KeyExpires, Worker, Beat, Dog, Delays, Api, HeartbeatExpires,
           HeartbeatLapses, SetHeartbeatGone, EvictHash, Crash, queueVars
  <1>2. i = j /\ (PushJob(j) \/ ClaimKey(j))
    BY <1>0, <1>1 DEF Producer, SdkEnqueue, Enqueue, SaveJob, PushJob, ClaimKey, LoseKey, DropDuplicate,
                      QueueTypeOK
  <1> QED BY <1>2, Pushed

(* A token leaves the processing list with the worker that cleans up, with *)
(* a watchdog that pushes the id again, or with one that found no hash.    *)
LEMMA TokenLost ==
    ASSUME TypeOK, [Next]_vars, NEW i \in Jobs, ~(processing'[i] >= processing[i])
    PROVE  \/ \E w \in Workers : Cleanup(w) /\ wjob[w] = i
           \/ Listed(i)'
           \/ \E d \in Watchdogs : DiscardOrphan(d) /\ djob[d] = i
  <1>0. StoreTypeOK /\ WorkerTypeOK /\ WatchdogTypeOK
    BY DEF TypeOK
  <1>1. processing' # processing /\ processing \in [Jobs -> Nat]
    BY <1>0 DEF StoreTypeOK
  <1>2. ASSUME NEW j \in Jobs, LRemProcessing(j) PROVE i = j
    BY <1>1, <1>2 DEF LRemProcessing
  <1>3. ASSUME NEW w \in Workers, Worker(w) \/ Beat(w) PROVE Cleanup(w) /\ wjob[w] = i
    <2>1. ~Poll(w)
      <3> SUFFICES ASSUME Poll(w) PROVE FALSE
        OBVIOUS
      <3> DEFINE p == PRIORITIES[level[w]]
      <3>1. p \in PrioritySet /\ waiting[p] # <<>> /\ RPopLPush(p)
        BY <1>0, LevelType DEF Poll, WorkerTypeOK
      <3>2. PICK h \in Jobs : h = Head(waiting[p])
        BY <1>0, <3>1, PopType
      <3>3. processing' = [processing EXCEPT ![h] = @ + 1]
        BY <3>1, <3>2 DEF RPopLPush
      <3> QED BY <1>1, <3>3
    <2>2. Cleanup(w)
      BY <1>1, <1>3, <2>1
         DEF Worker, Beat, Working, PollEmpty, Fetch, FetchNothing, MarkActive,
             RejectUnhandled, Register, FirstBeat, HeartbeatTick, CountFailure, Settle,
             ParkDelayed, ParkDead, Complete, storeVars, listVars
    <2> QED BY <1>0, <1>2, <2>2 DEF Cleanup, WorkerTypeOK
  <1>4. ASSUME NEW d \in Watchdogs, Dog(d)
        PROVE  Listed(i)' \/ (DiscardOrphan(d) /\ djob[d] = i)
    <2>1. Requeue(d) \/ DiscardOrphan(d)
      BY <1>1, <1>4 DEF Dog, ReadActive, ReadProcessing, ReadHeartbeats, ReadStalled,
                        storeVars, listVars
    <2>2. djob[d] = i
      BY <1>0, <1>2, <2>1 DEF Requeue, DiscardOrphan, WatchdogTypeOK
    <2> QED BY <2>1, <2>2, Pushed
  <1>5. ASSUME NEW j \in Jobs, Producer(j) \/ HeartbeatExpires(j) \/ HeartbeatLapses(j)
                               \/ EvictHash(j)
        PROVE  FALSE
    BY <1>1, <1>5 DEF Producer, SdkEnqueue, Enqueue, SaveJob, PushJob, ClaimKey, LoseKey, DropDuplicate,
                      HeartbeatExpires, HeartbeatLapses, SetHeartbeatGone, EvictHash, storeVars,
                      listVars
  <1>6. ASSUME NEW k \in Keys, KeyTtl(k) PROVE FALSE
    BY <1>1, <1>6 DEF KeyTtl, KeyExpires, listVars
  <1>7. ASSUME NEW s \in Schedulers, Delays(s) PROVE FALSE
    BY <1>1, <1>7 DEF Delays, ReadDue, ReadPriority, Release, storeVars, listVars
  <1>8. ASSUME NEW r \in Requests, Api(r) PROVE FALSE
    BY <1>1, <1>8 DEF Api, CheckRetryable, Retry, storeVars, listVars
  <1>9. ASSUME NEW n \in Nodes, Crash(n) PROVE FALSE
    BY <1>1, <1>9 DEF Crash, storeVars, listVars
  <1>10. ~UNCHANGED vars
    BY <1>1 DEF vars, storeVars, listVars
  <1> QED BY <1>3, <1>4, <1>5, <1>6, <1>7, <1>8, <1>9, <1>10 DEF Next

(* A job leaves the delayed set and the dead list onto a waiting list, and *)
(* a crash is forgotten when the job is listed again.                      *)
LEMMA IndexLost ==
    ASSUME TypeOK, [Next]_vars, NEW i \in Jobs,
           \/ i \in delayed /\ i \notin delayed'
           \/ i \in dead /\ i \notin dead'
           \/ i \in abandoned /\ i \notin abandoned'
    PROVE  Listed(i)'
  <1>1. ASSUME NEW d \in Watchdogs, Dog(d) PROVE Listed(i)'
    <2>1. Requeue(d) /\ djob[d] = i
      BY <1>1 DEF Dog, Requeue, ReadActive, ReadProcessing, ReadHeartbeats, ReadStalled,
                  DiscardOrphan, storeVars, listVars, historyVars
    <2> QED BY <2>1, Pushed
  <1>2. ASSUME NEW s \in Schedulers, Delays(s) PROVE Listed(i)'
    <2>1. Release(s) /\ sjob[s] = i
      BY <1>2 DEF Delays, ReadDue, ReadPriority, Release, storeVars, listVars, historyVars
    <2> QED BY <2>1, Pushed
  <1>3. ASSUME NEW r \in Requests, Api(r) PROVE Listed(i)'
    <2>1. Retry(r) /\ ajob[r] = i
      BY <1>3 DEF Api, CheckRetryable, Retry, storeVars, listVars, historyVars
    <2> QED BY <2>1, Pushed
  <1>4. ASSUME NEW w \in Workers, Worker(w) \/ Beat(w) PROVE FALSE
    BY <1>4 DEF Worker, Beat, Working, Poll, PollEmpty, Fetch, FetchNothing, MarkActive,
                RejectUnhandled, Register, FirstBeat, HeartbeatTick, CountFailure, Settle,
                ParkDelayed, ParkDead, Cleanup, Complete, storeVars, listVars, historyVars
  <1>5. ASSUME NEW j \in Jobs, Producer(j) \/ HeartbeatExpires(j) \/ HeartbeatLapses(j)
                               \/ EvictHash(j)
        PROVE  FALSE
    BY <1>5 DEF Producer, SdkEnqueue, Enqueue, SaveJob, PushJob, ClaimKey, LoseKey, DropDuplicate,
                HeartbeatExpires, HeartbeatLapses, SetHeartbeatGone, EvictHash, storeVars,
                listVars, historyVars
  <1>6. ASSUME NEW k \in Keys, KeyTtl(k) PROVE FALSE
    BY <1>6 DEF KeyTtl, KeyExpires, listVars, historyVars
  <1>7. ASSUME NEW n \in Nodes, Crash(n) PROVE FALSE
    BY <1>7 DEF Crash, storeVars, listVars
  <1>8. ~UNCHANGED vars
    BY DEF vars, storeVars, listVars, historyVars
  <1> QED BY <1>1, <1>2, <1>3, <1>4, <1>5, <1>6, <1>7, <1>8 DEF Next

(* A worker moves by its own step, or its process crashes. *)
LEMMA WorkerMoves ==
    ASSUME TypeOK, [Next]_vars, NEW w \in Workers
    PROVE  \/ wpc'[w] = wpc[w] /\ wjob'[w] = wjob[w] /\ wattempts'[w] = wattempts[w]
           \/ Worker(w)
           \/ /\ wpc'[w] = "poll"
              /\ wjob'[w] = NoJob
              /\ wjob[w] # NoJob => wjob[w] \in abandoned'
  <1>0. WorkerTypeOK
    BY DEF TypeOK
  <1>1. ASSUME NEW v \in Workers, Worker(v), v # w
        PROVE  wpc'[w] = wpc[w] /\ wjob'[w] = wjob[w] /\ wattempts'[w] = wattempts[w]
    BY <1>0, <1>1
       DEF Worker, Working, Poll, PollEmpty, Fetch, FetchNothing, MarkActive, RejectUnhandled,
           Register, FirstBeat, CountFailure, Settle, ParkDelayed, ParkDead, Cleanup, Complete,
           Goto, NextRound, WorkerTypeOK
  <1>2. ASSUME NEW n \in Nodes, Crash(n)
        PROVE  \/ wpc'[w] = wpc[w] /\ wjob'[w] = wjob[w] /\ wattempts'[w] = wattempts[w]
               \/ /\ wpc'[w] = "poll"
                  /\ wjob'[w] = NoJob
                  /\ wjob[w] # NoJob => wjob[w] \in abandoned'
    <2>1. CASE NodeOf[w] = n
      BY <1>2, <2>1 DEF Crash
    <2>2. CASE NodeOf[w] # n
      BY <1>2, <2>2 DEF Crash
    <2> QED BY <2>1, <2>2
  <1>3. CASE UNCHANGED workerVars
    BY <1>3 DEF workerVars
  <1>4. \/ \E v \in Workers : Worker(v)
        \/ \E n \in Nodes : Crash(n)
        \/ UNCHANGED workerVars
    BY DEF Next, vars, Producer, KeyTtl, Beat, HeartbeatTick, Dog, Delays, Api,
           HeartbeatExpires, HeartbeatLapses, SetHeartbeatGone, EvictHash
  <1> QED BY <1>1, <1>2, <1>3, <1>4

-------------------------------------------------------------------------------
(* Inductive: past the look-up of the handler a worker has a job that has  *)
(* one, and before the rejection one that has none.                        *)
Labels ==
    \A w \in Workers :
        /\ wpc[w] \in {"register", "beat", "run", "settle", "park", "cleanup"}
              => wjob[w] \in Handled
        /\ wpc[w] = "unhandled" => wjob[w] \notin Handled

(* A worker crosses the look-up of the handler with the job it read. *)
LEMMA LabelsStep == TypeOK /\ Labels /\ [Next]_vars => Labels'
  <1> SUFFICES ASSUME TypeOK, Labels, [Next]_vars, NEW w \in Workers
               PROVE  /\ wpc'[w] \in {"register", "beat", "run", "settle", "park", "cleanup"}
                            => wjob'[w] \in Handled
                      /\ wpc'[w] = "unhandled" => wjob'[w] \notin Handled
    BY DEF Labels
  <1>1. CASE Worker(w)
    BY <1>1 DEF Worker, Working, Poll, PollEmpty, Fetch, FetchNothing, MarkActive,
                RejectUnhandled, Register, FirstBeat, CountFailure, Settle, ParkDelayed,
                ParkDead, Cleanup, Complete, Goto, NextRound, TypeOK, WorkerTypeOK, Labels
  <1> QED BY <1>1, WorkerMoves DEF Labels

(* What is inductive so far, in one piece. *)
Base == TypeOK /\ Whole /\ MissingIsEvicted /\ Accounted /\ Labels

(* The parts of Base hold together in every reachable state. *)
LEMMA AlwaysBase == Spec => []Base
  <1>1. Init => Labels
    BY DEF Init, WorkerInit, Labels
  <1>2. TypeOK /\ Labels /\ [Next]_vars => Labels'
    BY LabelsStep
  <1>3. Init => MissingIsEvicted
    BY MissingInit
  <1>4. TypeOK /\ Whole /\ MissingIsEvicted /\ [Next]_vars => MissingIsEvicted'
    BY MissingStep
  <1>5. TypeOK /\ Whole /\ MissingIsEvicted /\ Accounted /\ Labels => Base
    BY DEF Base
  <1> QED BY <1>1, <1>2, <1>3, <1>4, <1>5, TypeCorrect, AlwaysWhole, AlwaysAccounted, PTL
          DEF Spec

(* What a fetch or a watchdog reads of the job is its whole hash. *)
Sound(i) ==
    /\ Held(i) => hash[i] = "full"
    /\ \A d \in Watchdogs : djob[d] = i => dhash[d] # "absent"

(* So it is of a job whose hash Redis did not evict. *)
LEMMA BaseSound ==
    ASSUME Base, NEW i \in Jobs, i \notin evicted
    PROVE  Sound(i)
  BY StoreAssumption DEF Base, Whole, MissingIsEvicted, InUse, Circulating, Sound

Kept(i)     == i \in done \cup delayed \cup dead
Safe(i)     == Kept(i) \/ Listed(i)
Cleaning(i) == {w \in Holders(i) : wpc[w] = "cleanup"}

(* A job that was safe is so no more only when a worker has just taken it. *)
LEMMA SafeLost ==
    ASSUME TypeOK, [Next]_vars, NEW i \in Jobs, Safe(i), ~Safe(i)'
    PROVE  \E w \in Workers : Worker(w) /\ Poll(w) /\ wjob'[w] = i
  <1>1. ~Listed(i)' /\ ~Kept(i)'
    BY DEF Safe
  <1>2. Listed(i)
    BY <1>1, IndexLost, Monotone DEF Safe, Kept
  <1> QED BY <1>1, <1>2, ListedLost

(* A worker comes to its clean-up with the job in one of its last places. *)
LEMMA CleaningGained ==
    ASSUME TypeOK, [Next]_vars, NEW i \in Jobs, NEW w \in Cleaning(i)', w \notin Cleaning(i)
    PROVE  Kept(i)'
  <1>1. w \in Workers /\ wpc'[w] = "cleanup" /\ wjob'[w] = i
    BY DEF Cleaning, Holders
  <1>2. ~(wpc'[w] = wpc[w] /\ wjob'[w] = wjob[w])
    BY <1>1 DEF Cleaning, Holders
  <1>3. Worker(w)
    BY <1>1, <1>2, WorkerMoves
  <1>4. wjob[w] = i /\ (Complete(w) \/ ParkDelayed(w) \/ ParkDead(w))
    BY <1>1, <1>2, <1>3
       DEF Worker, Working, Poll, PollEmpty, Fetch, FetchNothing, MarkActive, RejectUnhandled,
           Register, FirstBeat, CountFailure, Settle, ParkDelayed, ParkDead, Cleanup, Complete,
           Goto, NextRound, TypeOK, WorkerTypeOK
  <1>5. CASE Complete(w)
    <2>1. ~Working(w)
      BY <1>1, <1>5
         DEF Complete, Working, Poll, PollEmpty, Fetch, FetchNothing, MarkActive,
             RejectUnhandled, Register, FirstBeat, CountFailure, Settle, ParkDelayed, ParkDead,
             Cleanup, Goto, TypeOK, WorkerTypeOK
    <2>2. i \in done'
      BY <1>3, <1>4, <2>1 DEF Worker
    <2> QED BY <2>2 DEF Kept
  <1>6. CASE ParkDelayed(w) \/ ParkDead(w)
    BY <1>4, <1>6 DEF ParkDelayed, ParkDead, Kept
  <1> QED BY <1>4, <1>5, <1>6

(* A worker stops being undecided about a job with the job in one of its   *)
(* last places, by a crash, or because the job has no handler.             *)
LEMMA UndecidedLost ==
    ASSUME TypeOK, Labels, [Next]_vars, NEW i \in Jobs, Sound(i),
           NEW w \in Undecided(i), w \notin Undecided(i)'
    PROVE  Kept(i)' \/ i \in abandoned' \/ i \notin Handled
  <1>0. WorkerTypeOK
    BY DEF TypeOK
  <1>1. w \in Workers /\ wjob[w] = i /\ wpc[w] # "cleanup"
    BY DEF Undecided, Holders
  <1>2. ~(wpc'[w] = wpc[w] /\ wjob'[w] = wjob[w])
    BY <1>1 DEF Undecided, Holders
  <1>3. CASE wjob'[w] # i
    <2>1. Worker(w) \/ i \in abandoned'
      BY <1>1, <1>2, <1>3, StoreAssumption, WorkerMoves
    <2>2. CASE Worker(w)
      <3>1. FetchNothing(w) \/ RejectUnhandled(w)
        BY <1>0, <1>1, <1>3, <2>2, StoreAssumption
           DEF Worker, Working, Poll, PollEmpty, Fetch, MarkActive, Register, FirstBeat,
               CountFailure, Settle, ParkDelayed, ParkDead, Cleanup, Complete, WorkerTypeOK
      <3>2. ~FetchNothing(w)
        BY <1>1 DEF FetchNothing, Sound, Held, Holders
      <3> QED BY <1>1, <3>1, <3>2 DEF RejectUnhandled, Labels
    <2> QED BY <2>1, <2>2
  <1>4. CASE wjob'[w] = i
    <2>1. w \in Cleaning(i)' /\ w \notin Cleaning(i)
      BY <1>1, <1>4 DEF Undecided, Cleaning, Holders
    <2> QED BY <2>1, CleaningGained
  <1> QED BY <1>3, <1>4

-------------------------------------------------------------------------------
(* No single fault loses a job.                                            *)

(* A token never goes to waste: the worker that cleans up has handled the  *)
(* job, the watchdog that discards it had no hash to push.                 *)
LEMMA TokenLostHow ==
    ASSUME TypeOK, [Next]_vars, NEW i \in Jobs, Sound(i), ~Listed(i)',
           ~(processing'[i] >= processing[i])
    PROVE  \E w \in Workers : Cleanup(w) /\ wjob[w] = i
  BY TokenLost DEF Sound, DiscardOrphan

(* A pop gives the token; only a watchdog takes it, and it lists the id. *)
LEMMA TokenKept ==
    ASSUME TypeOK, StoreTypeOK', Labels, [Next]_vars, NEW i \in Jobs, Sound(i),
           i \notin Handled, Listed(i) \/ processing[i] > 0
    PROVE  Listed(i)' \/ processing'[i] > 0
  <1> SUFFICES ASSUME ~Listed(i)' PROVE processing'[i] > 0
    OBVIOUS
  <1>0. /\ StoreTypeOK /\ WorkerTypeOK
        /\ processing[i] \in Nat /\ processing'[i] \in Nat
    BY DEF TypeOK, StoreTypeOK
  <1>1. CASE Listed(i)
    <2>1. PICK w \in Workers : Poll(w) /\ wjob'[w] = i
      BY <1>1, ListedLost
    <2>2. processing' = [processing EXCEPT ![i] = @ + 1]
      BY <1>0, <2>1 DEF Poll, RPopLPush, WorkerTypeOK
    <2> QED BY <1>0, <2>2 DEF StoreTypeOK
  <1>2. CASE processing[i] > 0
    <2>1. ~ \E w \in Workers : Cleanup(w) /\ wjob[w] = i
      BY DEF Labels, Cleanup
    <2>2. processing'[i] >= processing[i]
      BY <2>1, TokenLostHow
    <2> QED BY <1>0, <1>2, <2>2
  <1> QED BY <1>1, <1>2

InReach(i) == Safe(i) \/ Undecided(i) # {} \/ i \notin Handled

(* A pop gives the worker; only a crash takes it from an undecided job. *)
LEMMA WorkerKept ==
    ASSUME TypeOK, Labels, [Next]_vars, NEW i \in Jobs, Sound(i), i \notin abandoned',
           InReach(i)
    PROVE  InReach(i)'
  <1> SUFFICES ASSUME ~Safe(i)', i \in Handled PROVE Undecided(i)' # {}
    BY DEF InReach
  <1>0. ~Listed(i)' /\ ~Kept(i)'
    BY DEF Safe
  <1>1. CASE Safe(i)
    <2>1. PICK w \in Workers : Poll(w) /\ wjob'[w] = i
      BY <1>1, SafeLost
    <2>2. wpc'[w] = "fetch"
      BY <2>1 DEF Poll, Goto, TypeOK, WorkerTypeOK
    <2> QED BY <2>1, <2>2 DEF Undecided, Holders
  <1>2. CASE Undecided(i) # {}
    BY <1>0, <1>2, UndecidedLost
  <1> QED BY <1>1, <1>2 DEF InReach

Covered(i) == Safe(i) \/ Cardinality(Cleaning(i)) < processing[i]

(* A pop adds a token; a clean-up removes one and one cleaner with it. *)
LEMMA TokenCovers ==
    ASSUME TypeOK, StoreTypeOK', [Next]_vars, NEW i \in Jobs, Sound(i), Counted(i),
           Covered(i)
    PROVE  Covered(i)'
  <1> SUFFICES ASSUME ~Safe(i)' PROVE Cardinality(Cleaning(i)') < processing'[i]
    BY DEF Covered
  <1>0. /\ StoreTypeOK /\ WorkerTypeOK /\ processing[i] \in Nat /\ processing'[i] \in Nat
        /\ ~Listed(i)' /\ ~Kept(i)'
    BY DEF TypeOK, StoreTypeOK, Safe
  <1>2. Cleaning(i)' \subseteq Cleaning(i)
    BY <1>0, CleaningGained
  <1>3. /\ IsFiniteSet(Cleaning(i)) /\ Cardinality(Cleaning(i)) \in Nat
        /\ Cardinality(Cleaning(i)) <= Cardinality(Holders(i))
        /\ Cardinality(Holders(i)) \in Nat
    BY HoldersFinite DEF Cleaning
  <1>4. /\ Cardinality(Cleaning(i)') \in Nat
        /\ Cardinality(Cleaning(i)') <= Cardinality(Cleaning(i))
    BY <1>2, <1>3, FS_Subset, FS_CardinalityType
  <1>6. CASE Safe(i)
    <2>1. PICK w \in Workers : Poll(w) /\ wjob'[w] = i
      BY <1>6, SafeLost
    <2>2. processing' = [processing EXCEPT ![i] = @ + 1]
      BY <1>0, <2>1 DEF Poll, RPopLPush, WorkerTypeOK
    <2>3. processing'[i] = processing[i] + 1
      BY <1>0, <2>2 DEF StoreTypeOK
    <2>4. Cardinality(Holders(i)) <= processing[i]
      BY DEF Counted
    <2> QED BY <1>0, <1>3, <1>4, <2>3, <2>4
  <1>7. CASE Cardinality(Cleaning(i)) < processing[i]
    <2>1. CASE processing'[i] >= processing[i]
      BY <1>0, <1>3, <1>4, <1>7, <2>1
    <2>2. CASE ~(processing'[i] >= processing[i])
      <3>1. PICK w \in Workers : Cleanup(w) /\ wjob[w] = i
        BY <1>0, <2>2, TokenLostHow
      <3>2. w \in Cleaning(i) /\ w \notin Cleaning(i)'
        BY <1>0, <3>1, StoreAssumption DEF Cleanup, NextRound, WorkerTypeOK, Cleaning, Holders
      <3>3. /\ Cardinality(Cleaning(i) \ {w}) = Cardinality(Cleaning(i)) - 1
            /\ IsFiniteSet(Cleaning(i) \ {w})
        BY <1>3, <3>2, FS_RemoveElement
      <3>4. Cardinality(Cleaning(i)') <= Cardinality(Cleaning(i)) - 1
        BY <1>2, <3>2, <3>3, FS_Subset
      <3>5. processing'[i] >= processing[i] - 1
        BY <1>0, <3>1 DEF Cleanup, LRemProcessing, StoreTypeOK
      <3> QED BY <1>0, <1>3, <1>4, <1>7, <3>4, <3>5
    <2> QED BY <2>1, <2>2
  <1> QED BY <1>6, <1>7 DEF Covered

(* A job that is covered or in reach, and has a token if nobody handles    *)
(* it, can be found.                                                       *)
LEMMA FoundBy ==
    ASSUME TypeOK, NEW j \in Jobs,
           Covered(j) \/ (InReach(j) /\ (j \notin Handled => Listed(j) \/ processing[j] > 0))
    PROVE  Findable(j)
  <1>1. Safe(j) => Findable(j)
    BY DEF Safe, Kept, Findable
  <1>2. CASE Cardinality(Cleaning(j)) < processing[j]
    <2>1. Cardinality(Cleaning(j)) \in Nat /\ processing[j] \in Nat
      BY HoldersFinite DEF Cleaning, TypeOK, StoreTypeOK
    <2>2. processing[j] > 0
      BY <1>2, <2>1
    <2> QED BY <2>2 DEF Findable
  <1> QED BY <1>1, <1>2 DEF Covered, InReach, Findable

(* Inductive: a job without a handler circulates between the lists and the *)
(* processing list, which the worker that rejects it does not clean.       *)
UnhandledKept ==
    \A j \in Jobs \ (Handled \cup evicted) :
        call[j] = "returned" => Listed(j) \/ processing[j] > 0

(* Inductive: while no watchdog robs a worker of it, a job that is neither *)
(* listed nor done, delayed or dead has a token that no worker which is    *)
(* through with it is about to remove.                                     *)
TokenStays ==
    \A j \in Jobs \ (evicted \cup robbed) : call[j] = "returned" => Covered(j)

(* Inductive: while no worker crashes with it, it is in somebody's hands,  *)
(* or it has no handler.                                                   *)
WorkerStays ==
    \A j \in Jobs \ (evicted \cup abandoned) : call[j] = "returned" => InReach(j)

LEMMA UnhandledStep == Base /\ TypeOK' /\ UnhandledKept /\ [Next]_vars => UnhandledKept'
  <1> SUFFICES ASSUME Base, TypeOK', UnhandledKept, [Next]_vars, NEW i \in Jobs,
                      i \notin Handled, i \notin evicted', call'[i] = "returned", ~Listed(i)'
               PROVE  processing'[i] > 0
    BY DEF UnhandledKept
  <1>1. call[i] = "returned" /\ i \notin evicted
    BY CallReturns, Monotone DEF Base
  <1> QED BY <1>1, BaseSound, TokenKept DEF Base, UnhandledKept, TypeOK

LEMMA WorkerStaysStep == Base /\ WorkerStays /\ [Next]_vars => WorkerStays'
  <1> SUFFICES ASSUME Base, WorkerStays, [Next]_vars, NEW i \in Jobs,
                      i \notin evicted', i \notin abandoned', call'[i] = "returned", ~Listed(i)'
               PROVE  InReach(i)'
    BY DEF WorkerStays, InReach, Safe
  <1>1. call[i] = "returned" /\ i \notin evicted /\ i \notin abandoned
    BY CallReturns, Monotone, IndexLost DEF Base
  <1> QED BY <1>1, BaseSound, WorkerKept DEF Base, WorkerStays

LEMMA TokenStaysStep == Base /\ TypeOK' /\ TokenStays /\ [Next]_vars => TokenStays'
  <1> SUFFICES ASSUME Base, TypeOK', TokenStays, [Next]_vars, NEW i \in Jobs,
                      i \notin evicted', i \notin robbed', call'[i] = "returned", ~Listed(i)'
               PROVE  Covered(i)'
    BY DEF TokenStays, Covered, Safe
  <1>1. call[i] = "returned" /\ i \notin evicted /\ i \notin robbed
    BY CallReturns, Monotone DEF Base
  <1>2. Counted(i)
    BY <1>1 DEF Base, Accounted, Counted
  <1> QED BY <1>1, <1>2, BaseSound, TokenCovers DEF Base, TokenStays, TypeOK

(* No job is lost by one fault (README.md 59): from its return on, a job   *)
(* is done, or some component will still find it, unless Redis evicted its *)
(* hash, or a watchdog took it from a live worker and a worker crashed     *)
(* with it.                                                                *)
THEOREM LossTakesTwo == Spec => []LossNeedsBoth
  <1>1. Init => UnhandledKept /\ TokenStays /\ WorkerStays
    BY DEF Init, QueueInit, UnhandledKept, TokenStays, WorkerStays
  <1>2. Base /\ TypeOK' /\ UnhandledKept /\ [Next]_vars => UnhandledKept'
    BY UnhandledStep
  <1>3. Base /\ WorkerStays /\ [Next]_vars => WorkerStays'
    BY WorkerStaysStep
  <1>4. Base /\ TypeOK' /\ TokenStays /\ [Next]_vars => TokenStays'
    BY TokenStaysStep
  <1>5. Base /\ UnhandledKept /\ TokenStays /\ WorkerStays => LossNeedsBoth
    BY FoundBy DEF Base, LossNeedsBoth, UnhandledKept, TokenStays, WorkerStays
  <1> QED BY <1>1, <1>2, <1>3, <1>4, <1>5, AlwaysBase, TypeCorrect, PTL DEF Spec

-------------------------------------------------------------------------------
(* That the status in a job's hash is true of the lists.                   *)

(* The steps that write the status of job i. *)
WorkerWrites(i) ==
    \E w \in Workers :
        /\ Worker(w)
        /\ wjob[w] = i
        /\ MarkActive(w) \/ RejectUnhandled(w) \/ (Complete(w) /\ i \in done') \/ Settle(w)

Relists(i) ==
    \/ \E d \in Watchdogs : Requeue(d) /\ djob[d] = i
    \/ \E s \in Schedulers : Release(s) /\ sjob[s] = i
    \/ \E r \in Requests : Retry(r) /\ ajob[r] = i

(* Nobody else touches it, and while nobody does the job stays in the      *)
(* delayed set and the dead list and a crash with it is not forgotten.     *)
LEMMA Unwritten ==
    ASSUME TypeOK, [Next]_vars, NEW i \in Jobs, ~WorkerWrites(i), ~Relists(i), ~SaveJob(i)
    PROVE  /\ status'[i] = status[i]
           /\ hash'[i] = "full" => hash[i] = "full"
           /\ i \in delayed => i \in delayed'
           /\ i \in dead => i \in dead'
           /\ i \in abandoned => i \in abandoned'
  <1> DEFINE Goal == /\ status'[i] = status[i]
                     /\ hash'[i] = "full" => hash[i] = "full"
                     /\ i \in delayed => i \in delayed'
                     /\ i \in dead => i \in dead'
                     /\ i \in abandoned => i \in abandoned'
  <1>0. /\ StoreTypeOK /\ WorkerTypeOK /\ WatchdogTypeOK /\ SchedulerTypeOK /\ ApiTypeOK
        /\ hash \in [Jobs -> Fields] /\ status \in [Jobs -> JobStatus]
    BY DEF TypeOK, StoreTypeOK
  <1>1. ASSUME NEW w \in Workers, Worker(w) PROVE Goal
    <2>1. UNCHANGED abandoned
      BY <1>1 DEF Worker, historyVars
    <2>2. CASE \/ Poll(w) \/ PollEmpty(w) \/ Fetch(w) \/ FetchNothing(w) \/ Register(w)
               \/ FirstBeat(w) \/ CountFailure(w) \/ ParkDelayed(w) \/ ParkDead(w) \/ Cleanup(w)
      BY <2>1, <2>2 DEF Poll, PollEmpty, Fetch, FetchNothing, Register, FirstBeat,
                        CountFailure, ParkDelayed, ParkDead, Cleanup, storeVars, hashVars,
                        listVars
    <2>3. CASE MarkActive(w) \/ RejectUnhandled(w)
      <3>1. wjob[w] # i
        BY <1>1, <2>3 DEF WorkerWrites
      <3> QED BY <1>0, <2>1, <2>3, <3>1 DEF MarkActive, RejectUnhandled, HSetStatus, listVars
    <2>4. CASE Settle(w)
      <3>1. wjob[w] # i
        BY <1>1, <2>4 DEF WorkerWrites
      <3> QED BY <1>0, <2>1, <2>4, <3>1 DEF Settle, UpdateJobFields, HSetStatus, listVars
    <2>5. CASE Complete(w) /\ done' = done \cup {wjob[w]}
      <3>1. wjob[w] # i
        BY <1>1, <2>5 DEF WorkerWrites
      <3> QED BY <1>0, <2>1, <2>5, <3>1 DEF Complete, HSetStatus, listVars
    <2> QED BY <1>1, <2>2, <2>3, <2>4, <2>5 DEF Worker, Working
  <1>2. ASSUME NEW d \in Watchdogs, Dog(d) PROVE Goal
    <2>1. CASE Requeue(d)
      <3>1. djob[d] # i
        BY <2>1 DEF Relists
      <3>2. ~(ReadActive(d) \/ ReadProcessing(d) \/ ReadHeartbeats(d) \/ ReadStalled(d))
        BY <2>1 DEF Requeue, ReadActive, ReadProcessing, ReadHeartbeats, ReadStalled
      <3>3. ~DiscardOrphan(d)
        BY <2>1 DEF Requeue, DiscardOrphan
      <3>4. abandoned' = abandoned \ {djob[d]}
        BY <1>2, <3>2, <3>3 DEF Dog
      <3> QED BY <1>0, <2>1, <3>1, <3>4 DEF Requeue, UpdateJobFields, HSetStatus
    <2>2. CASE ~Requeue(d)
      BY <1>2, <2>2 DEF Dog, ReadActive, ReadProcessing, ReadHeartbeats, ReadStalled,
                        DiscardOrphan, storeVars, hashVars, listVars, historyVars
    <2> QED BY <2>1, <2>2
  <1>3. ASSUME NEW s \in Schedulers, Delays(s) PROVE Goal
    <2>1. CASE Release(s)
      <3>1. sjob[s] # i
        BY <2>1 DEF Relists
      <3>2. i \in abandoned => i \in abandoned'
        BY <1>3, <3>1 DEF Delays, historyVars
      <3> QED BY <1>0, <2>1, <3>1, <3>2 DEF Release, HSetStatus
    <2>2. CASE ~Release(s)
      BY <1>3, <2>2 DEF Delays, ReadDue, ReadPriority, storeVars, hashVars, listVars, historyVars
    <2> QED BY <2>1, <2>2
  <1>4. ASSUME NEW r \in Requests, Api(r) PROVE Goal
    <2>1. CASE Retry(r)
      <3>1. ajob[r] # i
        BY <2>1 DEF Relists
      <3>2. i \in abandoned => i \in abandoned'
        BY <1>4, <3>1 DEF Api, historyVars
      <3> QED BY <1>0, <2>1, <3>1, <3>2 DEF Retry, UpdateJobFields, HSetStatus
    <2>2. CASE ~Retry(r)
      BY <1>4, <2>2 DEF Api, CheckRetryable, storeVars, hashVars, listVars, historyVars
    <2> QED BY <2>1, <2>2
  <1>5. ASSUME NEW j \in Jobs, Producer(j) PROVE Goal
    <2>1. UNCHANGED <<delayed, dead, abandoned>>
      BY <1>5 DEF Producer, SdkEnqueue, Enqueue, SaveJob, PushJob, ClaimKey, LoseKey, DropDuplicate,
                  storeVars, listVars, historyVars
    <2>2. CASE SaveJob(j)
      <3>1. j # i
        BY <2>2
      <3> QED BY <1>0, <2>1, <2>2, <3>1 DEF SaveJob
    <2>3. CASE DropDuplicate(j)
      BY <1>0, <2>1, <2>3 DEF DropDuplicate
    <2>4. CASE PushJob(j) \/ ClaimKey(j) \/ LoseKey(j)
      BY <2>1, <2>4 DEF PushJob, ClaimKey, LoseKey, storeVars, hashVars
    <2> QED BY <1>5, <2>2, <2>3, <2>4 DEF Producer, SdkEnqueue, Enqueue
  <1>6. ASSUME NEW j \in Jobs, HeartbeatExpires(j) \/ HeartbeatLapses(j) PROVE Goal
    BY <1>6 DEF HeartbeatExpires, HeartbeatLapses, SetHeartbeatGone, hashVars, listVars,
                historyVars
  <1>7. ASSUME NEW j \in Jobs, EvictHash(j) PROVE Goal
    BY <1>0, <1>7 DEF EvictHash, listVars, historyVars
  <1>8. ASSUME NEW k \in Keys, KeyTtl(k) PROVE Goal
    BY <1>8 DEF KeyTtl, KeyExpires, hashVars, listVars, historyVars
  <1>9. ASSUME NEW n \in Nodes, Crash(n) PROVE Goal
    BY <1>9 DEF Crash, storeVars, hashVars, listVars
  <1>10. ASSUME NEW w \in Workers, Beat(w) PROVE Goal
    BY <1>10 DEF Beat, HeartbeatTick, hashVars, listVars, historyVars
  <1>11. CASE UNCHANGED vars
    BY <1>11 DEF vars, storeVars, hashVars, listVars, historyVars
  <1> QED BY <1>1, <1>2, <1>3, <1>4, <1>5, <1>6, <1>7, <1>8, <1>9, <1>10, <1>11 DEF Next

-------------------------------------------------------------------------------
(* Inductive: only the rejection of a job without a handler says "failed". *)
FailedUnhandled == \A j \in Jobs : status[j] = "failed" => j \notin Handled

(* No write but that of RejectUnhandled says failed. *)
LEMMA FailedStep == Base /\ FailedUnhandled /\ [Next]_vars => FailedUnhandled'
  <1> SUFFICES ASSUME Base, FailedUnhandled, [Next]_vars, NEW i \in Jobs,
                      status'[i] = "failed"
               PROVE  i \notin Handled
    BY DEF FailedUnhandled
  <1>0. TypeOK /\ StoreTypeOK
    BY DEF Base, TypeOK
  <1>1. CASE WorkerWrites(i)
    <2>1. PICK w \in Workers : /\ wjob[w] = i
                               /\ MarkActive(w) \/ RejectUnhandled(w) \/ Complete(w) \/ Settle(w)
      BY <1>1 DEF WorkerWrites
    <2>2. RejectUnhandled(w)
      BY <1>0, <2>1 DEF MarkActive, Complete, Settle, UpdateJobFields, HSetStatus, StoreTypeOK
    <2> QED BY <2>1, <2>2 DEF RejectUnhandled, Base, Labels
  <1>2. CASE Relists(i)
    BY <1>0, <1>2 DEF Relists, Requeue, Release, Retry, UpdateJobFields, HSetStatus, StoreTypeOK
  <1>3. CASE SaveJob(i)
    BY <1>0, <1>3 DEF SaveJob, StoreTypeOK
  <1> QED BY <1>0, <1>1, <1>2, <1>3, Unwritten DEF FailedUnhandled

(* A status that a step writes is true at once ... *)
LEMMA WrittenIsBacked ==
    ASSUME Base, Base', UnhandledKept', [Next]_vars, NEW i \in Jobs, i \notin evicted',
           WorkerWrites(i) \/ Relists(i) \/ SaveJob(i)
    PROVE  Backed(i)'
  <1>0. TypeOK /\ StoreTypeOK /\ WorkerTypeOK /\ QueueTypeOK
    BY DEF Base, TypeOK
  <1>1. CASE WorkerWrites(i)
    <2>1. PICK w \in Workers :
             /\ wjob[w] = i
             /\ MarkActive(w) \/ RejectUnhandled(w) \/ (Complete(w) /\ i \in done') \/ Settle(w)
      BY <1>1 DEF WorkerWrites
    <2>2. CASE MarkActive(w)
      <3>1. status'[i] = "active"
        BY <1>0, <2>1, <2>2 DEF MarkActive, HSetStatus, StoreTypeOK
      <3>2. wjob'[w] = i /\ wpc'[w] \in {"unhandled", "register"}
        BY <1>0, <2>1, <2>2 DEF MarkActive, Goto, WorkerTypeOK
      <3>3. InHand(i, {"unhandled", "register", "beat", "run", "settle"})'
        BY <3>2 DEF InHand, Holders
      <3> QED BY <3>1, <3>3 DEF Backed
    <2>3. CASE RejectUnhandled(w)
      <3>1. status'[i] = "failed" /\ i \notin Handled
        BY <1>0, <2>1, <2>3 DEF RejectUnhandled, HSetStatus, StoreTypeOK, Base, Labels
      <3>2. call'[i] = "returned"
        BY <3>1 DEF Base, Whole
      <3>3. Listed(i)' \/ processing'[i] > 0
        BY <3>1, <3>2 DEF UnhandledKept
      <3> QED BY <3>1, <3>3 DEF Backed
    <2>4. CASE Complete(w) /\ i \in done'
      <3>1. status'[i] = "completed"
        BY <1>0, <2>1, <2>4 DEF Complete, HSetStatus, StoreTypeOK
      <3> QED BY <2>4, <3>1 DEF Backed
    <2>5. CASE Settle(w)
      <3>1. /\ wjob'[w] = i
            /\ wpc'[w] = "park"
            /\ wattempts'[w] = wattempts[w]
        BY <1>0, <2>1, <2>5 DEF Settle, Goto, WorkerTypeOK
      <3>2. WillRetry(w)' = WillRetry(w) /\ WillRetry(w) \in BOOLEAN
        BY <2>1, <3>1 DEF WillRetry, NextAttempt, Bump
      <3>3. status'[i] = IF WillRetry(w) THEN "delayed" ELSE "dead"
        BY <1>0, <2>1, <2>5 DEF Settle, UpdateJobFields, HSetStatus, StoreTypeOK
      <3>4. CASE WillRetry(w)
        <4>1. Parking(i, TRUE)'
          BY <3>1, <3>2, <3>4 DEF Parking, Holders
        <4> QED BY <3>3, <3>4, <4>1 DEF Backed
      <3>5. CASE ~WillRetry(w)
        <4>1. Parking(i, FALSE)'
          BY <3>1, <3>2, <3>5 DEF Parking, Holders
        <4> QED BY <3>3, <3>5, <4>1 DEF Backed
      <3> QED BY <3>4, <3>5
    <2> QED BY <2>1, <2>2, <2>3, <2>4, <2>5
  <1>2. CASE Relists(i)
    <2>1. status'[i] = "waiting"
      BY <1>0, <1>2 DEF Relists, Requeue, Release, Retry, UpdateJobFields, HSetStatus,
                        StoreTypeOK
    <2>2. Listed(i)'
      BY <1>0, <1>2, Pushed DEF Relists
    <2> QED BY <2>1, <2>2 DEF Backed
  <1>3. CASE SaveJob(i)
    <2>1. status'[i] = "waiting" /\ call'[i] # "returned"
      BY <1>0, <1>3 DEF SaveJob, StoreTypeOK, QueueTypeOK
    <2> QED BY <2>1 DEF Backed
  <1> QED BY <1>1, <1>2, <1>3

(* What a worker does with a job whose status it does not write, before    *)
(* its clean-up: it goes on, it puts the job where the status says it is,  *)
(* or it crashes.                                                          *)
LEMMA HolderGoesOn ==
    ASSUME Base, [Next]_vars, NEW i \in Jobs, i \notin evicted, ~WorkerWrites(i),
           NEW w \in Workers, wjob[w] = i, i \notin abandoned'
    PROVE  /\ wpc[w] \in {"fetch", "activate"}
                => wjob'[w] = i /\ wpc'[w] \in {"fetch", "activate"}
           /\ wpc[w] \in {"unhandled", "register", "beat", "run", "settle"}
                => /\ wjob'[w] = i
                   /\ wpc'[w] \in {"unhandled", "register", "beat", "run", "settle"}
           /\ wpc[w] = "park"
                => \/ wjob'[w] = i /\ wpc'[w] = "park" /\ wattempts'[w] = wattempts[w]
                   \/ WillRetry(w) /\ i \in delayed'
                   \/ ~WillRetry(w) /\ i \in dead'
  <1>0. TypeOK /\ WorkerTypeOK
    BY DEF Base, TypeOK
  <1>1. ~FetchNothing(w)
    BY BaseSound DEF FetchNothing, Sound, Held, Holders
  <1>2. Worker(w) => /\ ~MarkActive(w) /\ ~RejectUnhandled(w) /\ ~Settle(w)
                     /\ ~(Complete(w) /\ i \in done')
    BY DEF WorkerWrites
  <1>3. CASE /\ wpc'[w] = wpc[w]
             /\ wjob'[w] = wjob[w]
             /\ wattempts'[w] = wattempts[w]
    BY <1>3
  <1>4. CASE Worker(w)
    <2>1. ~(Complete(w) /\ done' = done \cup {wjob[w]})
      BY <1>2, <1>4
    <2>2. \/ Poll(w) \/ PollEmpty(w) \/ Fetch(w) \/ Register(w) \/ FirstBeat(w)
          \/ CountFailure(w) \/ ParkDelayed(w) \/ ParkDead(w) \/ Cleanup(w)
      BY <1>1, <1>2, <1>4, <2>1 DEF Worker, Working
    <2> QED BY <1>0, <2>2 DEF Poll, PollEmpty, Fetch, Register, FirstBeat, CountFailure,
            ParkDelayed, ParkDead, Cleanup, Goto, WorkerTypeOK
  <1> QED BY <1>0, <1>3, <1>4, WorkerMoves, StoreAssumption

(* ... and stays true until the next write. *)
LEMMA UnwrittenStaysBacked ==
    ASSUME Base, Base', UnhandledKept', FailedUnhandled, [Next]_vars, NEW i \in Jobs,
           i \notin evicted', i \notin abandoned', hash[i] = "full" => Backed(i),
           hash'[i] = "full", ~WorkerWrites(i), ~Relists(i), ~SaveJob(i)
    PROVE  Backed(i)'
  <1>0. TypeOK /\ i \notin evicted
    BY Monotone DEF Base
  <1>1. /\ status'[i] = status[i]
        /\ Backed(i)
        /\ i \in delayed => i \in delayed'
        /\ i \in dead => i \in dead'
    BY <1>0, Unwritten
  <1>2. CASE status[i] = "waiting"
    <2>1. CASE call[i] # "returned"
      BY <1>0, <1>1, <1>2, <2>1, CallReturns DEF Backed
    <2>2. CASE Listed(i)
      <3>1. CASE Listed(i)'
        BY <1>1, <1>2, <3>1 DEF Backed
      <3>2. CASE ~Listed(i)'
        <4>1. PICK w \in Workers : Poll(w) /\ wjob'[w] = i
          BY <1>0, <2>2, <3>2, ListedLost
        <4>2. wpc'[w] = "fetch"
          BY <1>0, <4>1 DEF Poll, Goto, TypeOK, WorkerTypeOK
        <4>3. InHand(i, {"fetch", "activate"})'
          BY <4>1, <4>2 DEF InHand, Holders
        <4> QED BY <1>1, <1>2, <4>3 DEF Backed
      <3> QED BY <3>1, <3>2
    <2>3. CASE InHand(i, {"fetch", "activate"})
      <3>1. InHand(i, {"fetch", "activate"})'
        BY <1>0, <2>3, HolderGoesOn DEF InHand, Holders
      <3> QED BY <1>1, <1>2, <3>1 DEF Backed
    <2> QED BY <1>1, <1>2, <2>1, <2>2, <2>3 DEF Backed
  <1>3. CASE status[i] = "active"
    <2>1. InHand(i, {"unhandled", "register", "beat", "run", "settle"})
      BY <1>1, <1>3 DEF Backed
    <2>2. InHand(i, {"unhandled", "register", "beat", "run", "settle"})'
      BY <1>0, <2>1, HolderGoesOn DEF InHand, Holders
    <2> QED BY <1>1, <1>3, <2>2 DEF Backed
  <1>4. ASSUME NEW w \in Workers, wjob[w] = i, wjob'[w] = i, wattempts'[w] = wattempts[w]
        PROVE  WillRetry(w)' = WillRetry(w)
    BY <1>4 DEF WillRetry, NextAttempt, Bump
  <1>5. CASE status[i] = "delayed"
    <2>1. i \in delayed \/ Parking(i, TRUE)
      BY <1>1, <1>5 DEF Backed
    <2>2. ASSUME Parking(i, TRUE) PROVE i \in delayed' \/ Parking(i, TRUE)'
      <3>1. PICK w \in Workers : wjob[w] = i /\ wpc[w] = "park" /\ WillRetry(w)
        BY <2>2 DEF Parking, Holders
      <3>2. \/ i \in delayed'
            \/ wjob'[w] = i /\ wpc'[w] = "park" /\ wattempts'[w] = wattempts[w]
        BY <1>0, <3>1, HolderGoesOn
      <3> QED BY <1>4, <3>1, <3>2 DEF Parking, Holders
    <2> QED BY <1>1, <1>5, <2>1, <2>2 DEF Backed
  <1>6. CASE status[i] = "dead"
    <2>1. i \in dead \/ Parking(i, FALSE)
      BY <1>1, <1>6 DEF Backed
    <2>2. ASSUME Parking(i, FALSE) PROVE i \in dead' \/ Parking(i, FALSE)'
      <3>1. PICK w \in Workers : wjob[w] = i /\ wpc[w] = "park" /\ WillRetry(w) = FALSE
        BY <2>2 DEF Parking, Holders
      <3>2. \/ i \in dead'
            \/ wjob'[w] = i /\ wpc'[w] = "park" /\ wattempts'[w] = wattempts[w]
        BY <1>0, <3>1, HolderGoesOn
      <3> QED BY <1>4, <3>1, <3>2 DEF Parking, Holders
    <2> QED BY <1>1, <1>6, <2>1, <2>2 DEF Backed
  <1>7. CASE status[i] = "failed"
    <2>1. i \notin Handled
      BY <1>7 DEF FailedUnhandled
    <2>2. call'[i] = "returned"
      BY <1>1, <1>7 DEF Base, Whole
    <2>3. Listed(i)' \/ processing'[i] > 0
      BY <2>1, <2>2 DEF UnhandledKept
    <2> QED BY <1>1, <1>7, <2>3 DEF Backed
  <1>8. CASE status[i] = "completed"
    BY <1>1, <1>8, Monotone DEF Backed
  <1>9. status[i] \in JobStatus
    BY <1>0 DEF TypeOK, StoreTypeOK
  <1> QED BY <1>2, <1>3, <1>5, <1>6, <1>7, <1>8, <1>9 DEF JobStatus

(* Whatever races on a job, the status in its hash is true of the lists    *)
(* (WorkerPool.ts 118-180, Watchdog.ts 81-82, Scheduler.ts 53-57,          *)
(* routes.ts 148-155), unless a worker crashed with the job and it was not *)
(* listed since, or Redis evicted the hash.                                *)
THEOREM StatusIsTrue == Spec => []StatusTruthful
  <1>1. Init => UnhandledKept /\ FailedUnhandled /\ StatusTruthful
    BY DEF Init, StoreInit, QueueInit, UnhandledKept, FailedUnhandled, StatusTruthful
  <1>2. Base /\ TypeOK' /\ UnhandledKept /\ [Next]_vars => UnhandledKept'
    BY UnhandledStep
  <1>3. Base /\ FailedUnhandled /\ [Next]_vars => FailedUnhandled'
    BY FailedStep
  <1>4. Base /\ Base' /\ UnhandledKept' /\ FailedUnhandled /\ StatusTruthful /\ [Next]_vars
        => StatusTruthful'
    <2> SUFFICES ASSUME Base, Base', UnhandledKept', FailedUnhandled, StatusTruthful,
                        [Next]_vars, NEW i \in Jobs, hash'[i] = "full",
                        i \notin evicted', i \notin abandoned'
                 PROVE  Backed(i)'
      BY DEF StatusTruthful
    <2>1. CASE WorkerWrites(i) \/ Relists(i) \/ SaveJob(i)
      BY <2>1, WrittenIsBacked
    <2>2. CASE ~WorkerWrites(i) /\ ~Relists(i) /\ ~SaveJob(i)
      <3>1. i \notin evicted /\ i \notin abandoned
        BY <2>2, Monotone, Unwritten DEF Base
      <3>2. hash[i] = "full" => Backed(i)
        BY <3>1 DEF StatusTruthful
      <3> QED BY <2>2, <3>2, UnwrittenStaysBacked
    <2> QED BY <2>1, <2>2
  <1> QED BY <1>1, <1>2, <1>3, <1>4, AlwaysBase, TypeCorrect, PTL DEF Spec
===============================================================================
