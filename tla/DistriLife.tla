------------------------------ MODULE DistriLife ------------------------------
(***************************************************************************)
(* The queue without watchdogs, with one scheduler run and one retry       *)
(* request at a time: a job is in one place, and it leads the life that    *)
(* JobLife describes, proved for every value of the other constants.       *)
(***************************************************************************)
EXTENDS DistriSafety

(* Nobody takes a job from anybody, and no two read the same due id or the *)
(* same dead job.                                                          *)
NoRivals ==
    /\ Watchdogs = {}
    /\ \A s, t \in Schedulers : s = t
    /\ \A r, q \in Requests : r = q

(* Workers that will still put the job somewhere: in its handler, before   *)
(* it, or about to delay it.                                               *)
Busy(j) == {w \in Holders(j) : wpc[w] # "cleanup" /\ (wpc[w] = "park" => WillRetry(w))}

(* The waiting lists have one copy of the id at most. *)
OneCopy(j) ==
    \A p, q \in PrioritySet :
        \A m \in 1 .. Len(waiting[p]), n \in 1 .. Len(waiting[q]) :
            waiting[p][m] = j /\ waiting[q][n] = j => p = q /\ m = n

(* A worker that has the job has not failed it for good: the hash does not *)
(* say so, and says "delayed" once the ZADD is next.                       *)
AtWork(w) ==
    /\ status[wjob[w]] \in {"waiting", "active", "completed", "delayed"}
    /\ wpc[w] = "park" => status[wjob[w]] = "delayed"

(* What it has read or written of the job is what the hash says. *)
InStep(w) ==
    /\ wpc[w] \in {"fetch", "activate"} => status[wjob[w]] = "waiting"
    /\ wpc[w] \in {"unhandled", "register", "beat", "run", "settle"} => status[wjob[w]] = "active"
    /\ wpc[w] = "park" => status[wjob[w]] = "delayed"
    /\ wpc[w] \notin {"fetch", "park"} => wattempts[w] = attempts[wjob[w]]

Alive(j) == Listed(j) \/ j \in delayed \/ Busy(j) # {}

(* A job is on one list, in one worker's hands or delayed, and its status  *)
(* says which.                                                             *)
Single(j) ==
    /\ OneCopy(j)
    /\ \A v, w \in Busy(j) : v = w
    /\ Listed(j) => Busy(j) = {} /\ status[j] = "waiting"
    /\ j \in delayed => Busy(j) = {} /\ status[j] = "delayed"
    /\ \A w \in Busy(j) : AtWork(w)

(* It has attempts left, and a request has a job that is in none of these. *)
Tame(j) ==
    /\ Alive(j) => attempts[j] = 0 \/ attempts[j] < MaxAttempts[j]
    /\ Requested(j) => status[j] \in {"dead", "failed"}

(* Inductive without rivals; Single alone is with them, until a job is     *)
(* pushed on a stale read.                                                 *)
Lone(j) == Single(j) /\ Tame(j)

(* Inductive: a job that a scheduler run still has to move is delayed. *)
DueIsDelayed(j) ==
    \A s \in Schedulers :
        /\ j \in due[s] => j \in delayed
        /\ sjob[s] = j => j \in delayed \ due[s]

Alone(j) == Lone(j) /\ DueIsDelayed(j)

(* Inductive where Alone is, as long as no command is executed unseen. *)
Steady(j) == \A w \in Busy(j) : InStep(w)

Solitary == \A j \in Jobs : Alone(j) /\ Steady(j)

(* What a producer relies on: nobody has met the job it enqueues. *)
Private(j) == ~InUse(j) /\ status[j] = "waiting" /\ attempts[j] = 0

-------------------------------------------------------------------------------
(* Copies. *)

(* Pushing an id adds the one copy of that id. *)
LEMMA PushCopies ==
    ASSUME StoreTypeOK, NEW j \in Jobs, NEW p \in PrioritySet, LPushWaiting(p, j)
    PROVE  \A i \in Jobs : OneCopy(i) /\ (i = j => ~Listed(i)) => OneCopy(i)'
  <1>1. waiting' = [waiting EXCEPT ![p] = Append(@, j)]
    BY DEF LPushWaiting
  <1>2. waiting \in [PrioritySet -> Seq(Jobs)]
    BY DEF StoreTypeOK
  <1> SUFFICES ASSUME NEW i \in Jobs, OneCopy(i), i = j => ~Listed(i),
                      NEW q \in PrioritySet, NEW r \in PrioritySet,
                      NEW m \in 1 .. Len(waiting'[q]), NEW n \in 1 .. Len(waiting'[r]),
                      waiting'[q][m] = i, waiting'[r][n] = i
               PROVE  q = r /\ m = n
    BY DEF OneCopy
  <1>3. ASSUME NEW o \in PrioritySet, NEW l \in 1 .. Len(waiting'[o]), waiting'[o][l] = i
        PROVE  \/ l \in 1 .. Len(waiting[o]) /\ waiting[o][l] = i
               \/ i = j /\ o = p /\ l = Len(waiting[p]) + 1
    BY <1>1, <1>2, <1>3
  <1>4. CASE i = j
    BY <1>3, <1>4 DEF Listed
  <1>5. CASE i # j
    BY <1>3, <1>5 DEF OneCopy
  <1> QED BY <1>4, <1>5

(* A pop takes the only copy. *)
LEMMA PopCopies ==
    ASSUME StoreTypeOK, NEW p \in PrioritySet, waiting[p] # <<>>, RPopLPush(p)
    PROVE  /\ \A i \in Jobs : OneCopy(i) => OneCopy(i)'
           /\ \A h \in Jobs : h = Head(waiting[p]) /\ OneCopy(h) => ~Listed(h)'
  <1>1. waiting' = [waiting EXCEPT ![p] = Tail(@)]
    BY DEF RPopLPush
  <1>2. waiting \in [PrioritySet -> Seq(Jobs)]
    BY DEF StoreTypeOK
  <1> DEFINE Old(o, l) == IF o = p THEN l + 1 ELSE l
  <1>3. ASSUME NEW o \in PrioritySet, NEW l \in 1 .. Len(waiting'[o])
        PROVE  l \in Nat /\ Old(o, l) \in 1 .. Len(waiting[o])
               /\ waiting[o][Old(o, l)] = waiting'[o][l]
    BY <1>1, <1>2
  <1>4. ASSUME NEW i \in Jobs, OneCopy(i),
               NEW q \in PrioritySet, NEW r \in PrioritySet,
               NEW m \in 1 .. Len(waiting'[q]), NEW n \in 1 .. Len(waiting'[r]),
               waiting'[q][m] = i, waiting'[r][n] = i
        PROVE  q = r /\ m = n
    <2>1. /\ Old(q, m) \in 1 .. Len(waiting[q]) /\ waiting[q][Old(q, m)] = i
          /\ Old(r, n) \in 1 .. Len(waiting[r]) /\ waiting[r][Old(r, n)] = i
          /\ m \in Nat /\ n \in Nat
      BY <1>3, <1>4
    <2> HIDE DEF Old
    <2>2. q = r /\ Old(q, m) = Old(r, n)
      BY <1>4, <2>1 DEF OneCopy
    <2> QED BY <2>1, <2>2 DEF Old
  <1>5. ASSUME NEW h, h = Head(waiting[p]), OneCopy(h), NEW q \in PrioritySet,
               NEW m \in 1 .. Len(waiting'[q]), waiting'[q][m] = h
        PROVE  FALSE
    <2>1. 1 \in 1 .. Len(waiting[p]) /\ waiting[p][1] = h
      BY <1>2, <1>5
    <2>2. /\ Old(q, m) \in 1 .. Len(waiting[q]) /\ waiting[q][Old(q, m)] = h
          /\ m \in Nat /\ m > 0
      BY <1>3, <1>5
    <2> HIDE DEF Old
    <2>3. q = p /\ Old(q, m) = 1
      BY <1>5, <2>1, <2>2 DEF OneCopy
    <2> QED BY <2>2, <2>3 DEF Old
  <1> HIDE DEF Old
  <1>6. \A i \in Jobs : OneCopy(i) => OneCopy(i)'
    BY <1>4 DEF OneCopy
  <1>7. \A h \in Jobs : h = Head(waiting[p]) /\ OneCopy(h) => ~Listed(h)'
    BY <1>5 DEF Listed
  <1> QED BY <1>6, <1>7

-------------------------------------------------------------------------------
(* Jobs a step is not about. *)

(* Nothing that Lone or JobLife say of job i depends on is changed. *)
Same(i) ==
    /\ Listed(i)' <=> Listed(i)
    /\ OneCopy(i) => OneCopy(i)'
    /\ \A w \in Workers :
          wjob[w] = i \/ wjob'[w] = i
             => wjob'[w] = wjob[w] /\ wpc'[w] = wpc[w] /\ wattempts'[w] = wattempts[w]
    /\ status'[i] = status[i]
    /\ attempts'[i] = attempts[i]
    /\ i \in delayed' <=> i \in delayed
    /\ i \in dead' <=> i \in dead
    /\ call'[i] = call[i]
    /\ Requested(i)' => Requested(i)

(* A list that is not written has the copies it had. *)
LEMMA ListsFrame ==
    ASSUME UNCHANGED waiting, NEW i
    PROVE  (Listed(i)' <=> Listed(i)) /\ (OneCopy(i)' <=> OneCopy(i))
  BY DEF Listed, OneCopy

(* A worker's step is about the job it has, or takes. *)
LEMMA WorkerSame ==
    ASSUME TypeOK, NEW w \in Workers, Worker(w) \/ Beat(w), NEW i \in Jobs,
           wjob[w] # i, wjob'[w] # i
    PROVE  Same(i)
  <1>0. /\ StoreTypeOK /\ WorkerTypeOK
        /\ UNCHANGED <<call, ajob>>
    BY DEF TypeOK, Worker, Beat, queueVars, apiVars
  <1>1. Requested(i)' => Requested(i)
    BY <1>0 DEF Requested
  <1>2. \A v \in Workers : wjob[v] = i \/ wjob'[v] = i
           => wjob'[v] = wjob[v] /\ wpc'[v] = wpc[v] /\ wattempts'[v] = wattempts[v]
    BY <1>0 DEF Worker, Beat, Working, Poll, PollEmpty, Fetch, FetchNothing, MarkActive,
           RejectUnhandled, Register, FirstBeat, HeartbeatTick, CountFailure, Settle,
           ParkDelayed, ParkDead, Cleanup, Complete, workerVars, Goto, NextRound, WorkerTypeOK
  <1>3. /\ status'[i] = status[i]
        /\ attempts'[i] = attempts[i]
    BY <1>0 DEF Worker, Beat, Working, Poll, PollEmpty, Fetch, FetchNothing, MarkActive,
           RejectUnhandled, Register, FirstBeat, HeartbeatTick, CountFailure, Settle,
           ParkDelayed, ParkDead, Cleanup, Complete, storeVars, hashVars, HSetStatus,
           UpdateJobFields, StoreTypeOK
  <1>4. /\ i \in delayed' <=> i \in delayed
        /\ i \in dead' <=> i \in dead
    BY DEF Worker, Beat, Working, Poll, PollEmpty, Fetch, FetchNothing, MarkActive,
           RejectUnhandled, Register, FirstBeat, HeartbeatTick, CountFailure, Settle,
           ParkDelayed, ParkDead, Cleanup, Complete, storeVars, listVars
  <1>5. /\ Listed(i)' <=> Listed(i)
        /\ OneCopy(i) => OneCopy(i)'
    <2>1. CASE Poll(w)
      <3> DEFINE p == PRIORITIES[level[w]]
      <3>1. p \in PrioritySet /\ waiting[p] # <<>> /\ RPopLPush(p)
        BY <1>0, <2>1, LevelType DEF Poll, WorkerTypeOK
      <3>2. wjob' = [wjob EXCEPT ![w] = Head(waiting[p])]
        BY <2>1 DEF Poll
      <3>3. i # Head(waiting[p])
        BY <1>0, <3>2 DEF WorkerTypeOK
      <3> HIDE DEF p
      <3> QED BY <1>0, <3>1, <3>3, PopLists, PopCopies
    <2>2. CASE ~Poll(w)
      <3>1. UNCHANGED waiting
        BY <2>2 DEF Worker, Beat, Working, PollEmpty, Fetch, FetchNothing, MarkActive,
           RejectUnhandled, Register, FirstBeat, HeartbeatTick, CountFailure, Settle,
           ParkDelayed, ParkDead, Cleanup, Complete, storeVars, listVars
      <3> QED BY <3>1, ListsFrame
    <2> QED BY <2>1, <2>2
  <1> QED BY <1>0, <1>1, <1>2, <1>3, <1>4, <1>5 DEF Same

(* A producer's is about the job it enqueues. *)
LEMMA ProducerSame ==
    ASSUME TypeOK, NEW j \in Jobs, Producer(j), NEW i \in Jobs, i # j
    PROVE  Same(i)
  <1>0. /\ StoreTypeOK /\ QueueTypeOK
        /\ UNCHANGED <<workerVars, ajob>>
        /\ Priority[j] \in PrioritySet
    BY StoreAssumption DEF TypeOK, Producer, apiVars
  <1>1. Requested(i)' => Requested(i)
    BY <1>0 DEF Requested
  <1>2. /\ UNCHANGED <<delayed, dead>>
        /\ status'[i] = status[i] /\ attempts'[i] = attempts[i] /\ call'[i] = call[i]
    BY <1>0 DEF Producer, SdkEnqueue, Enqueue, SaveJob, PushJob, ClaimKey, LoseKey,
           DropDuplicate, storeVars, hashVars, listVars, StoreTypeOK, QueueTypeOK
  <1>3. LPushWaiting(Priority[j], j) \/ UNCHANGED waiting
    BY DEF Producer, SdkEnqueue, Enqueue, SaveJob, PushJob, ClaimKey, LoseKey,
           DropDuplicate, storeVars, listVars
  <1>4. (Listed(i)' <=> Listed(i)) /\ (OneCopy(i) => OneCopy(i)')
    BY <1>0, <1>3, PushLists, PushCopies, ListsFrame
  <1> QED BY <1>0, <1>1, <1>2, <1>4 DEF Same, workerVars

(* A scheduler's is about the job it moves. *)
LEMMA DelaysSame ==
    ASSUME TypeOK, NEW s \in Schedulers, Delays(s), NEW i \in Jobs,
           Release(s) => sjob[s] # i
    PROVE  Same(i)
  <1>0. /\ StoreTypeOK /\ SchedulerTypeOK
        /\ UNCHANGED <<workerVars, call, ajob>>
    BY DEF TypeOK, Delays, queueVars, apiVars
  <1>1. Requested(i)' => Requested(i)
    BY <1>0 DEF Requested
  <1>2. CASE Release(s)
    <2>1. sjob[s] \in Jobs /\ sjob[s] # i /\ sprio[s] \in PrioritySet
      BY <1>0, <1>2 DEF Release, SchedulerTypeOK
    <2>2. (Listed(i)' <=> Listed(i)) /\ (OneCopy(i) => OneCopy(i)')
      BY <1>0, <1>2, <2>1, PushLists, PushCopies DEF Release
    <2> QED BY <1>0, <1>1, <1>2, <2>1, <2>2 DEF Same, workerVars, Release, HSetStatus, StoreTypeOK
  <1>3. CASE ReadDue(s) \/ ReadPriority(s)
    <2>1. UNCHANGED storeVars
      BY <1>3 DEF ReadDue, ReadPriority
    <2> QED BY <1>0, <1>1, <2>1, ListsFrame DEF Same, workerVars, storeVars, hashVars, listVars
  <1> QED BY <1>2, <1>3 DEF Delays

(* A retry request's is about the job it found retryable. *)
LEMMA ApiSame ==
    ASSUME TypeOK, NEW r \in Requests, Api(r), NEW i \in Jobs, ajob[r] # i, ajob'[r] # i
    PROVE  Same(i)
  <1>0. /\ StoreTypeOK /\ ApiTypeOK
        /\ UNCHANGED <<workerVars, call>>
    BY DEF TypeOK, Api, queueVars
  <1>1. Requested(i)' => Requested(i)
    BY <1>0 DEF Requested, Api, CheckRetryable, Retry, ApiTypeOK
  <1>2. CASE Retry(r)
    <2>1. ajob[r] \in Jobs /\ Priority[ajob[r]] \in PrioritySet
      BY <1>0, <1>2, StoreAssumption DEF Retry, ApiTypeOK
    <2>2. (Listed(i)' <=> Listed(i)) /\ (OneCopy(i) => OneCopy(i)')
      BY <1>0, <1>2, <2>1, PushLists, PushCopies DEF Retry
    <2> QED BY <1>0, <1>1, <1>2, <2>1, <2>2
            DEF Same, workerVars, Retry, UpdateJobFields, HSetStatus, StoreTypeOK
  <1>3. CASE CheckRetryable(r)
    <2>1. UNCHANGED storeVars
      BY <1>3 DEF CheckRetryable
    <2> QED BY <1>0, <1>1, <2>1, ListsFrame DEF Same, workerVars, storeVars, hashVars, listVars
  <1> QED BY <1>2, <1>3 DEF Api

(* Faults other than a crash are about none. *)
LEMMA FaultSame ==
    ASSUME \/ \E k \in Keys : KeyTtl(k)
           \/ \E j \in Jobs : HeartbeatExpires(j) \/ HeartbeatLapses(j) \/ EvictHash(j)
           \/ UNCHANGED vars,
           NEW i \in Jobs
    PROVE  Same(i)
  <1>1. UNCHANGED <<status, attempts, waiting, delayed, dead, call, ajob, workerVars>>
    BY DEF KeyTtl, KeyExpires, HeartbeatExpires, HeartbeatLapses, SetHeartbeatGone, EvictHash,
           vars, storeVars, hashVars, listVars, queueVars, apiVars
  <1> QED BY <1>1, ListsFrame DEF Same, workerVars, Requested

(* What a step is not about stays as it is. *)
LEMMA SameSingle ==
    ASSUME NEW i \in Jobs, Single(i), Same(i)
    PROVE  Busy(i)' = Busy(i) /\ Single(i)'
  <1>1. \A w \in Workers : wjob[w] = i \/ wjob'[w] = i => WillRetry(w)' = WillRetry(w)
    BY DEF Same, WillRetry, NextAttempt, Bump
  <1>2. Busy(i)' = Busy(i)
    BY <1>1 DEF Same, Busy, Holders
  <1>3. \A w \in Busy(i) : AtWork(w)'
    BY DEF Same, Single, AtWork, Busy, Holders
  <1> QED BY <1>2, <1>3 DEF Same, Single

LEMMA SameSteady ==
    ASSUME NEW i \in Jobs, Steady(i), Same(i)
    PROVE  Steady(i)'
  <1>1. \A w \in Workers : wjob[w] = i \/ wjob'[w] = i => WillRetry(w)' = WillRetry(w)
    BY DEF Same, WillRetry, NextAttempt, Bump
  <1>2. Busy(i)' = Busy(i)
    BY <1>1 DEF Same, Busy, Holders
  <1> QED BY <1>2 DEF Same, Steady, InStep, Busy, Holders

LEMMA SameLone ==
    ASSUME NEW i \in Jobs, Lone(i), Same(i)
    PROVE  Lone(i)'
  <1>1. Busy(i)' = Busy(i) /\ Single(i)'
    BY SameSingle DEF Lone
  <1> QED BY <1>1 DEF Same, Lone, Tame, Alive

-------------------------------------------------------------------------------
(* The job a step is about. *)

(* A worker that has not put the job anywhere yet is alone with it ... *)
LEMMA HeldJob ==
    ASSUME TypeOK, NEW w \in Workers, NEW j \in Jobs, wjob[w] = j, Single(j)
    PROVE  /\ wpc[w] # "poll"
           /\ w \in Busy(j) => Busy(j) = {w} /\ ~Listed(j) /\ j \notin delayed /\ AtWork(w)
  <1>1. wpc[w] # "poll"
    BY StoreAssumption DEF TypeOK, WorkerTypeOK
  <1>2. w \in Busy(j) => Busy(j) = {w} /\ ~Listed(j) /\ j \notin delayed /\ AtWork(w)
    BY DEF Single
  <1> QED BY <1>1, <1>2

(* ... and nobody retries it by hand. *)
LEMMA HeldTame ==
    ASSUME TypeOK, NEW j \in Jobs, NEW w \in Busy(j), Lone(j)
    PROVE  ~Requested(j)
  <1>1. wjob[w] = j /\ AtWork(w)
    BY DEF Busy, Holders, Lone, Single
  <1>2. status[j] \notin {"dead", "failed"}
    BY <1>1 DEF AtWork
  <1> QED BY <1>2 DEF Lone, Tame

(* What a worker holds was published. *)
LEMMA HeldReturned ==
    ASSUME Whole, NEW w \in Workers, NEW j \in Jobs, wjob[w] = j
    PROVE  call[j] = "returned"
  BY DEF Whole, InUse, Circulating, Held, Holders

(* A worker's step leaves the other workers busy with what they were. *)
LEMMA OtherWorkers ==
    ASSUME WorkerTypeOK, NEW w \in Workers, Working(w) \/ Complete(w), NEW j
    PROVE  /\ Busy(j)' \ {w} = Busy(j) \ {w}
           /\ \A v \in Workers \ {w} :
                 wjob'[v] = wjob[v] /\ wpc'[v] = wpc[v] /\ wattempts'[v] = wattempts[v]
  <1>1. \A v \in Workers \ {w} :
           wjob'[v] = wjob[v] /\ wpc'[v] = wpc[v] /\ wattempts'[v] = wattempts[v]
    BY DEF Working, Poll, PollEmpty, Fetch, FetchNothing, MarkActive, RejectUnhandled,
           Register, FirstBeat, CountFailure, Settle, ParkDelayed, ParkDead, Cleanup, Complete,
           workerVars, Goto, NextRound, WorkerTypeOK
  <1>2. \A v \in Workers \ {w} : WillRetry(v)' <=> WillRetry(v)
    BY <1>1 DEF WillRetry, NextAttempt, Bump
  <1> QED BY <1>1, <1>2 DEF Busy, Holders

(* Until it has put the job somewhere, a worker is alone with it. *)
LEMMA WorkOn ==
    ASSUME TypeOK, NEW w \in Workers, NEW j \in Jobs, wjob[w] = j, Single(j),
           Working(w), UNCHANGED <<call, ajob>>,
           \/ Fetch(w) \/ MarkActive(w) \/ Register(w) \/ FirstBeat(w) \/ CountFailure(w)
           \/ (Settle(w) /\ WillRetry(w))
    PROVE  Busy(j) = {w} /\ Busy(j)' = {w} /\ Single(j)' /\ (Lone(j) => Lone(j)')
  <1>0. StoreTypeOK /\ WorkerTypeOK
    BY DEF TypeOK
  <1>1. Busy(j) = {w} /\ ~Listed(j) /\ j \notin delayed /\ AtWork(w)
    <2>1. w \in Busy(j)
      BY DEF Busy, Holders, Fetch, MarkActive, Register, FirstBeat, CountFailure, Settle
    <2> QED BY <2>1, HeldJob
  <1>2. /\ UNCHANGED <<waiting, delayed>>
        /\ wjob'[w] = j
        /\ wpc'[w] # "cleanup" /\ (wpc'[w] = "park" => WillRetry(w)')
    BY <1>0 DEF Fetch, MarkActive, Register, FirstBeat, CountFailure, Settle, storeVars,
           listVars, Goto, WorkerTypeOK, WillRetry, NextAttempt, Bump
  <1>3. Busy(j)' = {w}
    <2>1. w \in Busy(j)'
      BY <1>2 DEF Busy, Holders
    <2> QED BY <1>0, <1>1, <2>1, OtherWorkers
  <1>4. ~Listed(j)' /\ OneCopy(j)' /\ j \notin delayed' /\ (Requested(j)' <=> Requested(j))
    BY <1>1, <1>2, ListsFrame DEF Single, Requested
  <1>5. AtWork(w)'
    BY <1>0, <1>1 DEF Fetch, MarkActive, Register, FirstBeat, CountFailure, Settle, storeVars,
           hashVars, workerVars, Goto, WorkerTypeOK, StoreTypeOK, HSetStatus, UpdateJobFields,
           AtWork
  <1>6. Single(j)'
    BY <1>3, <1>4, <1>5 DEF Single
  <1>7. ASSUME Lone(j) PROVE Tame(j)'
    <2>1. attempts[j] = 0 \/ attempts[j] < MaxAttempts[j]
      BY <1>1, <1>7 DEF Lone, Tame, Alive
    <2>2. attempts'[j] = 0 \/ attempts'[j] < MaxAttempts[j]
      BY <1>0, <2>1 DEF Fetch, MarkActive, Register, FirstBeat, CountFailure, Settle,
           storeVars, hashVars, StoreTypeOK, UpdateJobFields, WillRetry
    <2>3. ~Requested(j)'
      BY <1>1, <1>4, <1>7, HeldTame
    <2> QED BY <2>2, <2>3 DEF Tame
  <1> QED BY <1>1, <1>3, <1>6, <1>7 DEF Lone

(* When it has, nobody is. *)
LEMMA LetGo ==
    ASSUME TypeOK, NEW w \in Workers, NEW j \in Jobs, wjob[w] = j, Single(j),
           Working(w) \/ Complete(w), UNCHANGED <<call, ajob>>,
           \/ FetchNothing(w) \/ RejectUnhandled(w) \/ Complete(w) \/ ParkDelayed(w)
           \/ (Settle(w) /\ ~WillRetry(w))
    PROVE  /\ Busy(j) = {w} /\ Busy(j)' = {} /\ Single(j)' /\ (Lone(j) => Lone(j)')
           /\ ~Listed(j)' /\ (j \in delayed' <=> ParkDelayed(w))
  <1>0. StoreTypeOK /\ WorkerTypeOK
    BY DEF TypeOK
  <1>1. Busy(j) = {w} /\ ~Listed(j) /\ j \notin delayed /\ AtWork(w)
    <2>1. w \in Busy(j)
      BY DEF Busy, Holders, FetchNothing, RejectUnhandled, Complete, ParkDelayed, Settle
    <2> QED BY <2>1, HeldJob
  <1>2. /\ UNCHANGED waiting
        /\ j \in delayed' <=> ParkDelayed(w)
        /\ ParkDelayed(w) => status'[j] = status[j] /\ attempts'[j] = attempts[j]
    BY <1>0, <1>1 DEF FetchNothing, RejectUnhandled, Complete, ParkDelayed, Settle, storeVars,
           hashVars, listVars, StoreTypeOK
  <1>3. Busy(j)' = {}
    <2>1. wjob'[w] # j \/ wpc'[w] = "cleanup" \/ (wpc'[w] = "park" /\ ~WillRetry(w)')
      BY <1>0, StoreAssumption DEF FetchNothing, RejectUnhandled, Complete, ParkDelayed, Settle,
             Goto, NextRound, WorkerTypeOK, WillRetry, NextAttempt, Bump
    <2>2. w \notin Busy(j)'
      BY <2>1 DEF Busy, Holders
    <2> QED BY <1>0, <1>1, <2>2, OtherWorkers
  <1>4. ~Listed(j)' /\ OneCopy(j)' /\ (Requested(j)' <=> Requested(j))
    BY <1>1, <1>2, ListsFrame DEF Single, Requested
  <1>5. ParkDelayed(w) => status[j] = "delayed"
    BY <1>1 DEF ParkDelayed, AtWork
  <1>6. Single(j)'
    BY <1>2, <1>3, <1>4, <1>5 DEF Single
  <1>7. ASSUME Lone(j) PROVE Tame(j)'
    <2>1. attempts[j] = 0 \/ attempts[j] < MaxAttempts[j]
      BY <1>1, <1>7 DEF Lone, Tame, Alive
    <2>2. ~Requested(j)'
      BY <1>1, <1>4, <1>7, HeldTame
    <2> QED BY <1>2, <1>3, <1>4, <2>1, <2>2 DEF Tame, Alive
  <1> QED BY <1>1, <1>2, <1>3, <1>4, <1>6, <1>7 DEF Lone

(* The dead-letter push and the clean-up concern nobody else. *)
LEMMA TidyUp ==
    ASSUME TypeOK, NEW w \in Workers, NEW j \in Jobs, wjob[w] = j, Single(j),
           Working(w), UNCHANGED <<call, ajob>>, ParkDead(w) \/ Cleanup(w)
    PROVE  w \notin Busy(j) /\ Busy(j)' = Busy(j) /\ Single(j)' /\ (Lone(j) => Lone(j)')
  <1>0. StoreTypeOK /\ WorkerTypeOK
    BY DEF TypeOK
  <1>1. w \notin Busy(j)
    BY DEF ParkDead, Cleanup, Busy
  <1>2. UNCHANGED <<waiting, delayed, hashVars>>
    BY DEF ParkDead, Cleanup
  <1>3. Busy(j)' = Busy(j)
    <2>1. wjob'[w] # j \/ wpc'[w] = "cleanup"
      BY <1>0, StoreAssumption DEF ParkDead, Cleanup, Goto, NextRound, WorkerTypeOK
    <2>2. w \notin Busy(j)'
      BY <2>1 DEF Busy, Holders
    <2> QED BY <1>0, <1>1, <2>2, OtherWorkers
  <1>4. \A v \in Busy(j) : AtWork(v)'
    <2>1. \A v \in Busy(j) : v \in Workers \ {w} /\ wjob[v] = j /\ AtWork(v)
      BY <1>1 DEF Busy, Holders, Single
    <2> QED BY <1>0, <1>2, <2>1, OtherWorkers DEF AtWork, hashVars
  <1>5. (Listed(j)' <=> Listed(j)) /\ OneCopy(j)' /\ (Requested(j)' <=> Requested(j))
    BY <1>2, ListsFrame DEF Single, Requested
  <1>6. Single(j)'
    BY <1>2, <1>3, <1>4, <1>5 DEF Single, hashVars
  <1>7. Tame(j) => Tame(j)'
    BY <1>2, <1>3, <1>5 DEF Tame, Alive, hashVars
  <1> QED BY <1>1, <1>3, <1>6, <1>7 DEF Lone

(* A worker that pops the copy of an id has the job to itself. *)
LEMMA PopAlone ==
    ASSUME TypeOK, NEW w \in Workers, NEW j \in Jobs, Poll(w), wjob'[w] = j, Single(j),
           Working(w), UNCHANGED <<call, ajob>>
    PROVE  /\ Listed(j) /\ Busy(j)' = {w} /\ wpc'[w] = "fetch"
           /\ Single(j)' /\ (Lone(j) => Lone(j)')
  <1>0. StoreTypeOK /\ WorkerTypeOK
    BY DEF TypeOK
  <1> DEFINE p == PRIORITIES[level[w]]
  <1>1. p \in PrioritySet /\ waiting[p] # <<>> /\ RPopLPush(p) /\ j = Head(waiting[p])
    BY <1>0, LevelType DEF Poll, WorkerTypeOK
  <1> HIDE DEF p
  <1>2. Listed(j) /\ OneCopy(j)' /\ ~Listed(j)'
    BY <1>0, <1>1, PopLists, PopCopies DEF Single
  <1>3. /\ UNCHANGED <<delayed, hashVars>>
        /\ wpc'[w] = "fetch"
    BY <1>0 DEF Poll, Goto, WorkerTypeOK
  <1>4. Busy(j)' = {w}
    <2>1. w \in Busy(j)'
      BY <1>3 DEF Busy, Holders
    <2> QED BY <1>0, <1>2, <2>1, OtherWorkers DEF Single
  <1>5. AtWork(w)'
    BY <1>2, <1>3 DEF AtWork, Single, hashVars
  <1>6. Single(j)'
    BY <1>2, <1>3, <1>4, <1>5 DEF Single
  <1>7. Lone(j) => Tame(j)'
    BY <1>2, <1>3, <1>4 DEF Lone, Single, Tame, Alive, Requested, hashVars
  <1> QED BY <1>2, <1>3, <1>4, <1>6, <1>7 DEF Lone

(* A scheduler moves a job from the delayed set to a list. *)
LEMMA ReleaseSingle ==
    ASSUME TypeOK, NEW s \in Schedulers, NEW j \in Jobs, Release(s), sjob[s] = j,
           j \in delayed, Single(j), UNCHANGED workerVars
    PROVE  Busy(j) = {} /\ Busy(j)' = {} /\ Listed(j)' /\ Single(j)'
  <1>0. StoreTypeOK /\ SchedulerTypeOK
    BY DEF TypeOK
  <1>1. Busy(j) = {} /\ status[j] = "delayed" /\ ~Listed(j)
    BY DEF Single
  <1>2. LPushWaiting(sprio[s], j) /\ sprio[s] \in PrioritySet
    BY <1>0 DEF Release, SchedulerTypeOK
  <1>3. Listed(j)' /\ OneCopy(j)'
    BY <1>0, <1>1, <1>2, PushLists, PushCopies DEF Single
  <1>4. Busy(j)' = {}
    BY <1>1 DEF workerVars, Busy, Holders, WillRetry, NextAttempt, Bump
  <1>5. status'[j] = "waiting" /\ j \notin delayed'
    BY <1>0 DEF Release, HSetStatus, StoreTypeOK
  <1> QED BY <1>1, <1>3, <1>4, <1>5 DEF Single

LEMMA ReleaseAlone ==
    ASSUME TypeOK, NEW s \in Schedulers, NEW j \in Jobs, Release(s), sjob[s] = j,
           Alone(j), UNCHANGED <<workerVars, call, ajob>>
    PROVE  j \in delayed /\ Busy(j) = {} /\ Busy(j)' = {} /\ Listed(j)' /\ Lone(j)'
  <1>1. j \in delayed /\ Single(j)
    BY DEF Alone, DueIsDelayed, Lone
  <1>2. Busy(j) = {} /\ Busy(j)' = {} /\ Listed(j)' /\ Single(j)'
    BY <1>1, ReleaseSingle
  <1>3. attempts'[j] = attempts[j] /\ (Requested(j)' <=> Requested(j))
    BY DEF Release, Requested
  <1>4. Alive(j) /\ ~Requested(j)
    BY <1>1 DEF Alive, Alone, Lone, Tame, Single
  <1> QED BY <1>1, <1>2, <1>3, <1>4 DEF Alone, Lone, Tame

(* A job that is on its way somewhere is not retried by hand. *)
LEMMA RetriedIsNowhere ==
    ASSUME WorkerTypeOK, NEW j \in Jobs, Single(j), status[j] \in {"dead", "failed"}
    PROVE  ~Alive(j)
  <1>1. ~Listed(j) /\ j \notin delayed
    BY DEF Lone, Single, Tame
  <1>2. ASSUME NEW w \in Busy(j) PROVE FALSE
    <2>1. AtWork(w) /\ wjob[w] = j
      BY <1>2 DEF Single, Busy, Holders
    <2> QED BY <2>1 DEF AtWork
  <1> QED BY <1>1, <1>2 DEF Alive

(* A retry puts a job that is nowhere on a list. *)
LEMMA RetrySingle ==
    ASSUME TypeOK, NEW r \in Requests, NEW j \in Jobs, Retry(r), ajob[r] = j,
           status[j] \in {"dead", "failed"}, Single(j), UNCHANGED workerVars
    PROVE  /\ ~Alive(j) /\ Busy(j)' = {} /\ Listed(j)' /\ Single(j)'
           /\ attempts'[j] = 0
  <1>0. StoreTypeOK /\ WorkerTypeOK /\ Priority[j] \in PrioritySet
    BY StoreAssumption DEF TypeOK
  <1>1. ~Alive(j)
    BY <1>0, RetriedIsNowhere
  <1>2. Listed(j)' /\ OneCopy(j)'
    BY <1>0, <1>1, PushLists, PushCopies DEF Retry, Single, Alive
  <1>3. Busy(j)' = {}
    BY <1>1 DEF Alive, workerVars, Busy, Holders, WillRetry, NextAttempt, Bump
  <1>4. status'[j] = "waiting" /\ attempts'[j] = 0 /\ j \notin delayed'
    BY <1>0, <1>1 DEF Retry, UpdateJobFields, HSetStatus, StoreTypeOK, Alive
  <1> QED BY <1>1, <1>2, <1>3, <1>4 DEF Single

LEMMA RetryAlone ==
    ASSUME TypeOK, NoRivals, NEW r \in Requests, NEW j \in Jobs, Retry(r), ajob[r] = j,
           Lone(j), UNCHANGED <<workerVars, call>>
    PROVE  /\ ~Alive(j) /\ Busy(j)' = {} /\ Listed(j)' /\ Lone(j)'
           /\ attempts'[j] = 0
  <1>1. status[j] \in {"dead", "failed"} /\ Single(j)
    BY DEF Requested, Lone, Tame
  <1>2. /\ ~Alive(j) /\ Busy(j)' = {} /\ Listed(j)' /\ Single(j)'
        /\ attempts'[j] = 0
    BY <1>1, RetrySingle
  <1>3. ~Requested(j)'
    BY StoreAssumption DEF NoRivals, Retry, Requested, TypeOK, ApiTypeOK
  <1> QED BY <1>2, <1>3 DEF Lone, Tame

(* A request changes nothing but what is requested. *)
LEMMA CheckSingle ==
    ASSUME NEW r \in Requests, NEW j \in Jobs, CheckRetryable(r), Single(j),
           UNCHANGED <<workerVars, call>>
    PROVE  Single(j)' /\ Busy(j)' = Busy(j)
  <1>1. UNCHANGED <<waiting, delayed, status, attempts>>
    BY DEF CheckRetryable, storeVars, listVars, hashVars
  <1>2. Busy(j)' = Busy(j)
    BY DEF workerVars, Busy, Holders, WillRetry, NextAttempt, Bump
  <1>3. \A w \in Busy(j) : AtWork(w)'
    BY <1>1 DEF Single, AtWork, workerVars
  <1>4. (Listed(j)' <=> Listed(j)) /\ (OneCopy(j)' <=> OneCopy(j))
    BY <1>1, ListsFrame
  <1> QED BY <1>1, <1>2, <1>3, <1>4 DEF Single

LEMMA CheckAlone ==
    ASSUME TypeOK, NEW r \in Requests, NEW j \in Jobs, CheckRetryable(r), ajob'[r] = j,
           Lone(j), UNCHANGED <<workerVars, call>>
    PROVE  Lone(j)' /\ Busy(j)' = Busy(j)
  <1>1. Single(j)' /\ Busy(j)' = Busy(j)
    BY CheckSingle DEF Lone
  <1>2. status[j] \in {"dead", "failed"}
    BY DEF CheckRetryable, TypeOK, ApiTypeOK
  <1>3. UNCHANGED <<waiting, delayed, status, attempts>>
    BY DEF CheckRetryable, storeVars, listVars, hashVars
  <1>4. Listed(j)' <=> Listed(j)
    BY <1>3, ListsFrame
  <1> QED BY <1>1, <1>2, <1>3, <1>4 DEF Lone, Tame, Alive

(* Nobody has met a job whose enqueue is under way. *)
LEMMA ProducerPrivate ==
    ASSUME Whole, NEW j \in Jobs, Producer(j)
    PROVE  Private(j)
  <1>1. call[j] # "returned"
    BY DEF Producer, Enqueue, SdkEnqueue, SaveJob, PushJob, ClaimKey, LoseKey, DropDuplicate
  <1> QED BY <1>1 DEF Whole, Private

(* A producer has the job to itself until it publishes it. *)
LEMMA EnqueueAlone ==
    ASSUME TypeOK, NEW j \in Jobs, Producer(j), Private(j), Single(j)
    PROVE  /\ ~Alive(j) /\ call[j] # "returned" /\ Lone(j)' /\ Busy(j)' = {}
           /\ attempts'[j] = attempts[j]
           /\ Listed(j)' <=> PushJob(j) \/ ClaimKey(j)
           /\ call'[j] = "returned" <=> PushJob(j) \/ ClaimKey(j)
           /\ j \notin delayed'
  <1>0. /\ StoreTypeOK /\ QueueTypeOK /\ UNCHANGED <<workerVars, ajob>>
        /\ Priority[j] \in PrioritySet
        /\ call[j] # "returned"
    BY StoreAssumption DEF TypeOK, Producer, Enqueue, SdkEnqueue, SaveJob, PushJob, ClaimKey,
           LoseKey, DropDuplicate, apiVars
  <1>1. ~InUse(j) /\ status[j] = "waiting" /\ attempts[j] = 0
    BY DEF Private
  <1>2. ~Alive(j) /\ Busy(j) = {} /\ ~Requested(j)
    BY <1>1 DEF InUse, Circulating, Stored, Held, Alive, Busy
  <1>3. Busy(j)' = {} /\ ~Requested(j)' /\ j \notin delayed'
    BY <1>0, <1>2 DEF Requested, workerVars, Busy, Holders, WillRetry, NextAttempt, Bump, Alive,
           Producer, Enqueue, SdkEnqueue, SaveJob, PushJob, ClaimKey, LoseKey, DropDuplicate,
           storeVars, listVars
  <1>4. status'[j] = "waiting" /\ attempts'[j] = 0
    BY <1>0, <1>1 DEF Producer, Enqueue, SdkEnqueue, SaveJob, PushJob, ClaimKey, LoseKey,
           DropDuplicate, storeVars, hashVars, StoreTypeOK
  <1>5. call'[j] = "returned" <=> PushJob(j) \/ ClaimKey(j)
    BY <1>0 DEF Producer, Enqueue, SdkEnqueue, SaveJob, PushJob, ClaimKey, LoseKey,
           DropDuplicate, QueueTypeOK
  <1>6. OneCopy(j)' /\ (Listed(j)' <=> PushJob(j) \/ ClaimKey(j))
    <2>1. CASE PushJob(j) \/ ClaimKey(j)
      <3>1. LPushWaiting(Priority[j], j)
        BY <2>1 DEF PushJob, ClaimKey
      <3> QED BY <1>0, <1>2, <2>1, <3>1, PushLists, PushCopies DEF Single, Alive
    <2>2. CASE ~(PushJob(j) \/ ClaimKey(j))
      <3>1. UNCHANGED waiting
        BY <2>2 DEF Producer, Enqueue, SdkEnqueue, SaveJob, LoseKey, DropDuplicate, storeVars,
               listVars
      <3> QED BY <1>2, <2>2, <3>1, ListsFrame DEF Single, Alive
    <2> QED BY <2>1, <2>2
  <1> QED BY <1>0, <1>1, <1>2, <1>3, <1>4, <1>5, <1>6 DEF Lone, Single, Tame, Alive

(* A crash takes workers out of a job and changes nothing else. *)
LEMMA CrashAlone ==
    ASSUME TypeOK, NEW n \in Nodes, Crash(n), NEW j \in Jobs, Single(j)
    PROVE  /\ Busy(j)' = {w \in Busy(j) : NodeOf[w] # n}
           /\ Single(j)' /\ (Lone(j) => Lone(j)')
           /\ \A w \in Workers : NodeOf[w] # n =>
                 wjob'[w] = wjob[w] /\ wpc'[w] = wpc[w] /\ wattempts'[w] = wattempts[w]
           /\ \A w \in Workers : NodeOf[w] = n => wjob'[w] = NoJob /\ wpc'[w] = "poll"
  <1>1. \A w \in Workers :
           /\ NodeOf[w] # n =>
                 wjob'[w] = wjob[w] /\ wpc'[w] = wpc[w] /\ wattempts'[w] = wattempts[w]
           /\ NodeOf[w] = n => wjob'[w] = NoJob /\ wpc'[w] = "poll"
    BY DEF Crash
  <1>2. UNCHANGED <<waiting, delayed, status, attempts, call, ajob>>
    BY DEF Crash, storeVars, listVars, hashVars, queueVars, apiVars
  <1>3. \A w \in Workers : NodeOf[w] # n => (WillRetry(w)' <=> WillRetry(w))
    BY <1>1 DEF WillRetry, NextAttempt, Bump
  <1>4. Busy(j)' = {w \in Busy(j) : NodeOf[w] # n}
    BY <1>1, <1>3, StoreAssumption DEF Busy, Holders
  <1>5. \A w \in Busy(j)' : AtWork(w)'
    <2>1. \A w \in Busy(j)' : w \in Busy(j) /\ w \in Workers /\ NodeOf[w] # n /\ AtWork(w)
      BY <1>4 DEF Single, Busy, Holders
    <2> QED BY <1>1, <1>2, <2>1 DEF AtWork
  <1>6. Single(j)'
    BY <1>2, <1>4, <1>5, ListsFrame DEF Single
  <1>7. Tame(j) => Tame(j)'
    BY <1>2, <1>4, ListsFrame DEF Tame, Alive, Requested
  <1> QED BY <1>1, <1>4, <1>6, <1>7 DEF Lone

-------------------------------------------------------------------------------
(* Solitary is inductive. *)

LEMMA SolitaryInit == Init => Solitary
  <1> SUFFICES ASSUME Init, NEW j \in Jobs PROVE Alone(j) /\ Steady(j)
    BY DEF Solitary
  <1>1. ~Listed(j) /\ OneCopy(j) /\ j \notin delayed
    BY DEF Init, StoreInit, Listed, OneCopy
  <1>2. Busy(j) = {} /\ ~Requested(j)
    BY StoreAssumption DEF Init, WorkerInit, ApiInit, Busy, Holders, Requested
  <1>3. DueIsDelayed(j)
    BY StoreAssumption DEF Init, SchedulerInit, DueIsDelayed
  <1> QED BY <1>1, <1>2, <1>3 DEF Alone, Lone, Single, Tame, Alive, Steady

(* What is due stays delayed until its one reader moves it. *)
LEMMA DueStep ==
    ASSUME TypeOK, NoRivals, [Next]_vars, NEW i \in Jobs, DueIsDelayed(i)
    PROVE  DueIsDelayed(i)'
  <1>0. StoreTypeOK /\ SchedulerTypeOK
    BY DEF TypeOK
  <1>1. ASSUME UNCHANGED schedulerVars, delayed \subseteq delayed' PROVE DueIsDelayed(i)'
    BY <1>1 DEF DueIsDelayed, schedulerVars
  <1>2. ASSUME NEW s \in Schedulers, Delays(s) PROVE DueIsDelayed(i)'
    <2>1. \A t \in Schedulers : t = s
      BY DEF NoRivals
    <2>2. CASE ReadDue(s)
      BY <1>0, <2>1, <2>2, StoreAssumption
         DEF ReadDue, SchedulerTypeOK, DueIsDelayed, storeVars, listVars
    <2>3. CASE ReadPriority(s)
      BY <1>0, <2>1, <2>3 DEF ReadPriority, SchedulerTypeOK, DueIsDelayed, storeVars, listVars
    <2>4. CASE Release(s)
      BY <1>0, <2>1, <2>4, StoreAssumption DEF Release, SchedulerTypeOK, DueIsDelayed
    <2> QED BY <1>2, <2>2, <2>3, <2>4 DEF Delays
  <1>3. ASSUME NEW n \in Nodes, Crash(n) PROVE DueIsDelayed(i)'
    BY <1>3, StoreAssumption DEF Crash, DueIsDelayed, storeVars, listVars
  <1>4. ASSUME NEW w \in Workers, Worker(w) \/ Beat(w) PROVE DueIsDelayed(i)'
    <2>1. UNCHANGED schedulerVars /\ delayed \subseteq delayed'
      BY <1>4 DEF Worker, Beat, Working, Poll, PollEmpty, Fetch, FetchNothing, MarkActive,
             RejectUnhandled, Register, FirstBeat, HeartbeatTick, CountFailure, Settle,
             ParkDelayed, ParkDead, Cleanup, Complete, storeVars, listVars
    <2> QED BY <1>1, <2>1
  <1>5. ASSUME NEW j \in Jobs, Producer(j) PROVE DueIsDelayed(i)'
    BY <1>1, <1>5 DEF Producer, Enqueue, SdkEnqueue, SaveJob, PushJob, ClaimKey, LoseKey,
           DropDuplicate, storeVars, listVars
  <1>6. ASSUME NEW r \in Requests, Api(r) PROVE DueIsDelayed(i)'
    BY <1>1, <1>6 DEF Api, CheckRetryable, Retry, storeVars, listVars
  <1>7. ASSUME NEW j \in Jobs, HeartbeatExpires(j) \/ HeartbeatLapses(j) \/ EvictHash(j)
        PROVE  DueIsDelayed(i)'
    BY <1>1, <1>7 DEF HeartbeatExpires, HeartbeatLapses, SetHeartbeatGone, EvictHash, listVars
  <1>8. ASSUME NEW k \in Keys, KeyTtl(k) PROVE DueIsDelayed(i)'
    BY <1>1, <1>8 DEF KeyTtl, KeyExpires, listVars
  <1>9. CASE UNCHANGED vars
    BY <1>1, <1>9 DEF vars, storeVars, listVars
  <1>10. Watchdogs = {}
    BY DEF NoRivals
  <1> QED BY <1>2, <1>3, <1>4, <1>5, <1>6, <1>7, <1>8, <1>9, <1>10 DEF Next

(* A worker's step keeps the job it is about in one place. *)
LEMMA WorkerSingle ==
    ASSUME TypeOK, NEW w \in Workers, Worker(w) \/ Beat(w), NEW i \in Jobs, Single(i)
    PROVE  Single(i)' /\ (Lone(i) => Lone(i)')
  <1>0. UNCHANGED <<call, ajob>> /\ WorkerTypeOK
    BY DEF TypeOK, Worker, Beat, queueVars, apiVars
  <1>s. ASSUME Same(i) PROVE Single(i)' /\ (Lone(i) => Lone(i)')
    BY <1>s, SameSingle, SameLone
  <1>1. CASE Beat(w) \/ PollEmpty(w)
    <2>1. UNCHANGED <<hashVars, listVars, wjob, wpc, wattempts>>
      BY <1>1 DEF Beat, PollEmpty, HeartbeatTick, workerVars, storeVars
    <2>2. Same(i)
      BY <1>0, <2>1, ListsFrame DEF Same, hashVars, listVars, Requested
    <2> QED BY <2>2, <1>s
  <1>2. CASE Poll(w) /\ Worker(w)
    <2>1. wjob[w] # i
      BY <1>0, <1>2, StoreAssumption DEF Poll, WorkerTypeOK
    <2>2. CASE wjob'[w] = i
      BY <1>0, <1>2, <2>2, PopAlone DEF Working
    <2>3. CASE wjob'[w] # i
      BY <1>2, <2>1, <2>3, WorkerSame, <1>s
    <2> QED BY <2>2, <2>3
  <1>3. CASE Worker(w) /\ ~(Poll(w) \/ PollEmpty(w))
    <2>1. wjob'[w] \in {wjob[w], NoJob}
      BY <1>0, <1>3 DEF Worker, Working, Fetch, FetchNothing, MarkActive, RejectUnhandled,
             Register, FirstBeat, CountFailure, Settle, ParkDelayed, ParkDead, Cleanup,
             Complete, NextRound, WorkerTypeOK
    <2>2. CASE wjob[w] # i
      BY <1>3, <2>1, <2>2, StoreAssumption, WorkerSame, <1>s
    <2>3. CASE wjob[w] = i
      <3>1. CASE \/ Fetch(w) \/ MarkActive(w) \/ Register(w) \/ FirstBeat(w)
                 \/ CountFailure(w) \/ (Settle(w) /\ WillRetry(w))
        BY <1>0, <2>3, <3>1, WorkOn DEF Working
      <3>2. CASE \/ FetchNothing(w) \/ RejectUnhandled(w) \/ Complete(w) \/ ParkDelayed(w)
                 \/ (Settle(w) /\ ~WillRetry(w))
        BY <1>0, <2>3, <3>2, LetGo DEF Working
      <3>3. CASE ParkDead(w) \/ Cleanup(w)
        BY <1>0, <2>3, <3>3, TidyUp DEF Working
      <3>4. \/ Fetch(w) \/ MarkActive(w) \/ Register(w) \/ FirstBeat(w) \/ CountFailure(w)
            \/ FetchNothing(w) \/ RejectUnhandled(w) \/ Complete(w) \/ ParkDelayed(w)
            \/ Settle(w) \/ ParkDead(w) \/ Cleanup(w)
        BY <1>3 DEF Worker, Working
      <3> QED BY <3>1, <3>2, <3>3, <3>4
    <2> QED BY <2>2, <2>3
  <1> QED BY <1>1, <1>2, <1>3

(* A job that is alone stays alone, whatever is true of the other jobs. *)
LEMMA AloneStep ==
    ASSUME TypeOK, NoRivals, [Next]_vars, NEW i \in Jobs, Alone(i), Producer(i) => Private(i)
    PROVE  Alone(i)'
  <1>0. Lone(i) /\ DueIsDelayed(i)
    BY DEF Alone
  <1> SUFFICES Lone(i)'
    BY <1>0, DueStep DEF Alone
  <1>1. ASSUME NEW j \in Jobs, Producer(j) PROVE Lone(i)'
    <2>1. CASE i = j
      BY <1>0, <1>1, <2>1, EnqueueAlone DEF Lone
    <2>2. CASE i # j
      BY <1>0, <1>1, <2>2, ProducerSame, SameLone
    <2> QED BY <2>1, <2>2
  <1>2. ASSUME NEW w \in Workers, Worker(w) \/ Beat(w) PROVE Lone(i)'
    BY <1>0, <1>2, WorkerSingle DEF Lone
  <1>3. ASSUME NEW s \in Schedulers, Delays(s) PROVE Lone(i)'
    <2>1. CASE Release(s) /\ sjob[s] = i
      BY <1>3, <2>1, ReleaseAlone DEF Delays, queueVars, apiVars
    <2>2. CASE ~(Release(s) /\ sjob[s] = i)
      BY <1>0, <1>3, <2>2, DelaysSame, SameLone
    <2> QED BY <2>1, <2>2
  <1>4. ASSUME NEW r \in Requests, Api(r) PROVE Lone(i)'
    <2>0. UNCHANGED <<workerVars, call>> /\ ApiTypeOK
      BY <1>4 DEF Api, queueVars, TypeOK
    <2>1. CASE Retry(r) /\ ajob[r] = i
      BY <1>0, <2>0, <2>1, RetryAlone
    <2>2. CASE CheckRetryable(r) /\ ajob'[r] = i
      BY <1>0, <2>0, <2>2, CheckAlone
    <2>3. CASE ajob[r] # i /\ ajob'[r] # i
      BY <1>0, <1>4, <2>3, ApiSame, SameLone
    <2>4. /\ Retry(r) => ajob'[r] = NoJob
          /\ CheckRetryable(r) => ajob[r] = NoJob
      BY <2>0 DEF Retry, CheckRetryable, ApiTypeOK
    <2> QED BY <1>4, <2>1, <2>2, <2>3, <2>4, StoreAssumption DEF Api
  <1>5. ASSUME NEW n \in Nodes, Crash(n) PROVE Lone(i)'
    BY <1>0, <1>5, CrashAlone DEF Lone
  <1>6. ASSUME \/ \E k \in Keys : KeyTtl(k)
               \/ \E j \in Jobs : HeartbeatExpires(j) \/ HeartbeatLapses(j) \/ EvictHash(j)
               \/ UNCHANGED vars
        PROVE  Lone(i)'
    <2>1. Same(i)
      BY <1>6, FaultSame
    <2> QED BY <1>0, <2>1, SameLone
  <1>7. Watchdogs = {}
    BY DEF NoRivals
  <1> QED BY <1>1, <1>2, <1>3, <1>4, <1>5, <1>6, <1>7 DEF Next

(* Nor does a worker fall out of step with a job it alone has. *)
LEMMA WorkerSteady ==
    ASSUME TypeOK, NEW w \in Workers, Worker(w) \/ Beat(w), NEW i \in Jobs, Single(i),
           Steady(i)
    PROVE  Steady(i)'
  <1>0. UNCHANGED <<call, ajob>> /\ WorkerTypeOK /\ StoreTypeOK
    BY DEF TypeOK, Worker, Beat, queueVars, apiVars
  <1>s. ASSUME Same(i) PROVE Steady(i)'
    BY <1>s, SameSteady
  <1>1. CASE Beat(w) \/ PollEmpty(w)
    <2>1. UNCHANGED <<hashVars, listVars, wjob, wpc, wattempts>>
      BY <1>1 DEF Beat, PollEmpty, HeartbeatTick, workerVars, storeVars
    <2>2. Same(i)
      BY <1>0, <2>1, ListsFrame DEF Same, hashVars, listVars, Requested
    <2> QED BY <2>2, <1>s
  <1>2. CASE Poll(w) /\ Worker(w)
    <2>1. wjob[w] # i
      BY <1>0, <1>2, StoreAssumption DEF Poll, WorkerTypeOK
    <2>2. CASE wjob'[w] = i
      <3>1. Listed(i) /\ Busy(i)' = {w} /\ wpc'[w] = "fetch"
        BY <1>0, <1>2, <2>2, PopAlone DEF Working
      <3>2. UNCHANGED hashVars /\ status[i] = "waiting"
        BY <1>2, <3>1 DEF Poll, Single
      <3> QED BY <2>2, <3>1, <3>2 DEF Steady, InStep, hashVars
    <2>3. CASE wjob'[w] # i
      BY <1>2, <2>1, <2>3, WorkerSame, <1>s
    <2> QED BY <2>2, <2>3
  <1>3. CASE Worker(w) /\ ~(Poll(w) \/ PollEmpty(w))
    <2>1. wjob'[w] \in {wjob[w], NoJob}
      BY <1>0, <1>3 DEF Worker, Working, Fetch, FetchNothing, MarkActive, RejectUnhandled,
             Register, FirstBeat, CountFailure, Settle, ParkDelayed, ParkDead, Cleanup,
             Complete, NextRound, WorkerTypeOK
    <2>2. CASE wjob[w] # i
      BY <1>3, <2>1, <2>2, StoreAssumption, WorkerSame, <1>s
    <2>3. CASE wjob[w] = i
      <3>1. CASE \/ Fetch(w) \/ MarkActive(w) \/ Register(w) \/ FirstBeat(w)
                 \/ CountFailure(w) \/ (Settle(w) /\ WillRetry(w))
        <4>1. Busy(i) = {w} /\ Busy(i)' = {w}
          BY <1>0, <2>3, <3>1, WorkOn DEF Working
        <4>2. InStep(w)
          BY <4>1 DEF Steady
        <4>3. InStep(w)'
          BY <1>0, <2>3, <3>1, <4>2
             DEF Fetch, MarkActive, Register, FirstBeat, CountFailure, Settle, storeVars,
                 hashVars, workerVars, Goto, WorkerTypeOK, StoreTypeOK, HSetStatus,
                 UpdateJobFields, InStep
        <4> QED BY <4>1, <4>3 DEF Steady
      <3>2. CASE \/ FetchNothing(w) \/ RejectUnhandled(w) \/ Complete(w) \/ ParkDelayed(w)
                 \/ (Settle(w) /\ ~WillRetry(w))
        <4>1. Busy(i)' = {}
          BY <1>0, <2>3, <3>2, LetGo DEF Working
        <4> QED BY <4>1 DEF Steady
      <3>3. CASE ParkDead(w) \/ Cleanup(w)
        <4>1. w \notin Busy(i) /\ Busy(i)' = Busy(i) /\ UNCHANGED hashVars
          BY <1>0, <2>3, <3>3, TidyUp DEF Working, ParkDead, Cleanup
        <4>2. \A v \in Busy(i) : v \in Workers \ {w} /\ wjob[v] = i /\ InStep(v)
          BY <4>1 DEF Busy, Holders, Steady
        <4> QED BY <1>0, <3>3, <4>1, <4>2, OtherWorkers DEF Working, Steady, InStep, hashVars
      <3>4. \/ Fetch(w) \/ MarkActive(w) \/ Register(w) \/ FirstBeat(w) \/ CountFailure(w)
            \/ FetchNothing(w) \/ RejectUnhandled(w) \/ Complete(w) \/ ParkDelayed(w)
            \/ Settle(w) \/ ParkDead(w) \/ Cleanup(w)
        BY <1>3 DEF Worker, Working
      <3> QED BY <3>1, <3>2, <3>3, <3>4
    <2> QED BY <2>2, <2>3
  <1> QED BY <1>1, <1>2, <1>3

(* The other steps are about jobs that no worker has, or take workers away. *)
LEMMA SteadyStep ==
    ASSUME TypeOK, NoRivals, [Next]_vars, NEW i \in Jobs, Alone(i), Steady(i),
           Producer(i) => Private(i)
    PROVE  Steady(i)'
  <1>0. Single(i)
    BY DEF Alone, Lone
  <1>1. ASSUME NEW j \in Jobs, Producer(j) PROVE Steady(i)'
    <2>1. CASE i = j
      BY <1>0, <1>1, <2>1, EnqueueAlone DEF Steady
    <2>2. CASE i # j
      BY <1>1, <2>2, ProducerSame, SameSteady
    <2> QED BY <2>1, <2>2
  <1>2. ASSUME NEW w \in Workers, Worker(w) \/ Beat(w) PROVE Steady(i)'
    BY <1>0, <1>2, WorkerSteady
  <1>3. ASSUME NEW s \in Schedulers, Delays(s) PROVE Steady(i)'
    <2>1. CASE Release(s) /\ sjob[s] = i
      <3>1. Busy(i)' = {}
        BY <1>3, <2>1, ReleaseAlone DEF Delays, queueVars, apiVars
      <3> QED BY <3>1 DEF Steady
    <2>2. CASE ~(Release(s) /\ sjob[s] = i)
      BY <1>3, <2>2, DelaysSame, SameSteady
    <2> QED BY <2>1, <2>2
  <1>4. ASSUME NEW r \in Requests, Api(r) PROVE Steady(i)'
    <2>0. UNCHANGED <<workerVars, call>> /\ ApiTypeOK
      BY <1>4 DEF Api, queueVars, TypeOK
    <2>1. CASE Retry(r) /\ ajob[r] = i
      <3>1. Busy(i)' = {}
        BY <2>0, <2>1, RetryAlone DEF Alone
      <3> QED BY <3>1 DEF Steady
    <2>2. CASE CheckRetryable(r)
      <3>1. Busy(i)' = Busy(i) /\ UNCHANGED hashVars
        BY <1>0, <2>0, <2>2, CheckSingle DEF CheckRetryable, storeVars
      <3> QED BY <2>0, <3>1 DEF Steady, InStep, workerVars, hashVars
    <2>3. CASE Retry(r) /\ ajob[r] # i
      <3>1. ajob'[r] # i
        BY <2>0, <2>3, StoreAssumption DEF Retry, ApiTypeOK
      <3> QED BY <1>4, <2>3, <3>1, ApiSame, SameSteady
    <2> QED BY <1>4, <2>1, <2>2, <2>3 DEF Api
  <1>5. ASSUME NEW n \in Nodes, Crash(n) PROVE Steady(i)'
    <2>1. /\ Busy(i)' = {w \in Busy(i) : NodeOf[w] # n}
          /\ \A w \in Workers : NodeOf[w] # n =>
                wjob'[w] = wjob[w] /\ wpc'[w] = wpc[w] /\ wattempts'[w] = wattempts[w]
      BY <1>0, <1>5, CrashAlone
    <2>2. UNCHANGED <<status, attempts>> /\ \A w \in Busy(i) : w \in Workers
      BY <1>5 DEF Crash, storeVars, hashVars, Busy, Holders
    <2> QED BY <2>1, <2>2 DEF Steady, InStep
  <1>6. ASSUME \/ \E k \in Keys : KeyTtl(k)
               \/ \E j \in Jobs : HeartbeatExpires(j) \/ HeartbeatLapses(j) \/ EvictHash(j)
               \/ UNCHANGED vars
        PROVE  Steady(i)'
    BY <1>6, FaultSame, SameSteady
  <1>7. Watchdogs = {}
    BY DEF NoRivals
  <1> QED BY <1>1, <1>2, <1>3, <1>4, <1>5, <1>6, <1>7 DEF Next

LEMMA SolitaryStep ==
    ASSUME TypeOK, Whole, NoRivals, Solitary, [Next]_vars
    PROVE  Solitary'
  <1>1. \A i \in Jobs : Producer(i) => Private(i)
    BY ProducerPrivate
  <1> QED BY <1>1, AloneStep, SteadyStep DEF Solitary

(* Without rivals a job is always in one place. *)
THEOREM AlwaysSolitary ==
    ASSUME NoRivals
    PROVE  Spec => []Solitary
  <1>1. Init => Solitary
    BY SolitaryInit
  <1>2. TypeOK /\ Whole /\ Solitary /\ [Next]_vars => Solitary'
    BY SolitaryStep
  <1> QED BY <1>1, <1>2, TypeCorrect, AlwaysWhole, PTL DEF Spec

(* A set that has no two elements has one or none. *)
LEMMA OneOrNone ==
    ASSUME NEW S, \A x, y \in S : x = y
    PROVE  Cardinality(S) \in {0, 1} /\ Cardinality(S) <= 1 /\ ~(Cardinality(S) > 1)
  <1>1. CASE S = {}
    BY <1>1, FS_EmptySet
  <1>2. CASE S # {}
    <2>1. PICK x : S = {x}
      BY <1>2
    <2>2. Cardinality(S) = 1
      BY <2>1, FS_Singleton
    <2> QED BY <2>2
  <1> QED BY <1>1, <1>2

(* Without watchdogs, with one scheduler run and one retry at a time, no   *)
(* two workers run the same job (WorkerPool.ts 86-180, Scheduler.ts 43-60, *)
(* routes.ts 140-156): every push of an id follows the removal of its last *)
(* copy.                                                                   *)
THEOREM RunsAlone ==
    ASSUME NoRivals
    PROVE  Spec => []OneRunner
  <1>1. ASSUME Solitary, NEW j \in Jobs PROVE Cardinality(Running(j)) <= 1
    <2>1. \A v, w \in Running(j) : v = w
      BY <1>1 DEF Solitary, Alone, Lone, Single, Tame, Busy, Running
    <2> QED BY <2>1, OneOrNone
  <1>2. Solitary => OneRunner
    BY <1>1 DEF OneRunner
  <1> QED BY <1>2, AlwaysSolitary, PTL

-------------------------------------------------------------------------------
(* With rivals: any number of watchdogs, scheduler runs and retries. *)

(* Inductive: a job that was not pushed on a stale read is in one place. *)
UnracedSingle == stray \subseteq Jobs /\ \A j \in Jobs \ stray : Single(j)

(* A watchdog that still knows what it does puts back a job that is lost. *)
LEMMA DogSingle ==
    ASSUME TypeOK, NEW d \in Watchdogs, Dog(d), NEW i \in Jobs, Single(i), ~StaleRequeue(i)
    PROVE  Single(i)'
  <1>0. /\ StoreTypeOK /\ WatchdogTypeOK
        /\ UNCHANGED <<workerVars, call, ajob>>
    BY DEF TypeOK, Dog, queueVars, apiVars
  <1>1. CASE Requeue(d) /\ djob[d] = i
    <2>1. ~Listed(i) /\ i \notin delayed /\ Busy(i) = {}
      BY <1>1 DEF StaleRequeue, Running, Parking, Busy
    <2> DEFINE p == ListOf(dhash[d], i)
    <2>2. p \in PrioritySet /\ LPushWaiting(p, i)
      BY <1>1, StoreAssumption DEF ListOf, Requeue
    <2> HIDE DEF p
    <2>3. Listed(i)' /\ OneCopy(i)'
      BY <1>0, <2>1, <2>2, PushLists, PushCopies DEF Single
    <2>4. Busy(i)' = {}
      BY <1>0, <2>1 DEF workerVars, Busy, Holders, WillRetry, NextAttempt, Bump
    <2>5. status'[i] = "waiting" /\ i \notin delayed'
      BY <1>0, <1>1, <2>1 DEF Requeue, UpdateJobFields, HSetStatus, StoreTypeOK
    <2> QED BY <2>3, <2>4, <2>5 DEF Single
  <1>2. CASE Requeue(d) /\ djob[d] # i
    <2> DEFINE j == djob[d]
               p == ListOf(dhash[d], j)
    <2>1. /\ j \in Jobs /\ j # i /\ p \in PrioritySet /\ LPushWaiting(p, j)
      BY <1>0, <1>2, StoreAssumption DEF ListOf, Requeue, WatchdogTypeOK
    <2>2. UpdateJobFields(j, "waiting", Bump(dattempts[d])) /\ UNCHANGED <<delayed, dead>>
      BY <1>2 DEF Requeue
    <2> HIDE DEF p, j
    <2>3. (Listed(i)' <=> Listed(i)) /\ (OneCopy(i) => OneCopy(i)')
      BY <1>0, <2>1, PushLists, PushCopies
    <2>4. status'[i] = status[i] /\ attempts'[i] = attempts[i]
      BY <1>0, <2>1, <2>2 DEF UpdateJobFields, HSetStatus, StoreTypeOK
    <2>5. Same(i)
      BY <1>0, <2>2, <2>3, <2>4 DEF Same, workerVars, Requested
    <2> QED BY <2>5, SameSingle
  <1>3. CASE ~Requeue(d)
    <2>1. UNCHANGED <<hashVars, waiting, delayed, dead>>
      BY <1>3 DEF Dog, ReadActive, ReadProcessing, ReadHeartbeats, ReadStalled, DiscardOrphan,
             storeVars, listVars
    <2>2. Same(i)
      BY <1>0, <2>1, ListsFrame DEF Same, hashVars, workerVars, Requested
    <2> QED BY <2>2, SameSingle
  <1> QED BY <1>1, <1>2, <1>3

(* A step that does not push a job on a stale read leaves it in one place. *)
LEMMA UnracedStep ==
    ASSUME TypeOK, [Next]_vars, NEW i \in Jobs, Single(i), ~Astray(i),
           Producer(i) => Private(i)
    PROVE  Single(i)'
  <1>0. ~StaleRequeue(i) /\ ~StaleRelease(i) /\ ~StaleRetry(i)
    BY DEF Astray
  <1>1. ASSUME NEW j \in Jobs, Producer(j) PROVE Single(i)'
    <2>1. CASE i = j
      BY <1>1, <2>1, EnqueueAlone DEF Lone
    <2>2. CASE i # j
      BY <1>1, <2>2, ProducerSame, SameSingle
    <2> QED BY <2>1, <2>2
  <1>2. ASSUME NEW w \in Workers, Worker(w) \/ Beat(w) PROVE Single(i)'
    BY <1>2, WorkerSingle
  <1>3. ASSUME NEW d \in Watchdogs, Dog(d) PROVE Single(i)'
    BY <1>0, <1>3, DogSingle
  <1>4. ASSUME NEW s \in Schedulers, Delays(s) PROVE Single(i)'
    <2>1. CASE Release(s) /\ sjob[s] = i
      <3>1. i \in delayed
        BY <1>0, <2>1 DEF StaleRelease
      <3> QED BY <1>4, <2>1, <3>1, ReleaseSingle DEF Delays
    <2>2. CASE ~(Release(s) /\ sjob[s] = i)
      BY <1>4, <2>2, DelaysSame, SameSingle
    <2> QED BY <2>1, <2>2
  <1>5. ASSUME NEW r \in Requests, Api(r) PROVE Single(i)'
    <2>0. UNCHANGED <<workerVars, call>> /\ ApiTypeOK
      BY <1>5 DEF Api, queueVars, TypeOK
    <2>1. CASE Retry(r) /\ ajob[r] = i
      <3>1. status[i] \in {"dead", "failed"}
        BY <1>0, <2>1 DEF StaleRetry
      <3> QED BY <2>0, <2>1, <3>1, RetrySingle
    <2>2. CASE CheckRetryable(r)
      BY <2>0, <2>2, CheckSingle
    <2>3. CASE Retry(r) /\ ajob[r] # i
      <3>1. ajob'[r] # i
        BY <2>0, <2>3, StoreAssumption DEF Retry, ApiTypeOK
      <3> QED BY <1>5, <2>3, <3>1, ApiSame, SameSingle
    <2> QED BY <1>5, <2>1, <2>2, <2>3 DEF Api
  <1>6. ASSUME NEW n \in Nodes, Crash(n) PROVE Single(i)'
    BY <1>6, CrashAlone
  <1>7. ASSUME \/ \E k \in Keys : KeyTtl(k)
               \/ \E j \in Jobs : HeartbeatExpires(j) \/ HeartbeatLapses(j) \/ EvictHash(j)
               \/ UNCHANGED vars
        PROVE  Single(i)'
    BY <1>7, FaultSame, SameSingle
  <1> QED BY <1>1, <1>2, <1>3, <1>4, <1>5, <1>6, <1>7 DEF Next

(* The record restricts nothing: it is the same system.           *)
LEMMA RecordImplementsSpec == RecordSpec => Spec
  <1>1. RecordInit => Init
    BY DEF RecordInit
  <1>2. [RecordNext]_recordVars => [Next]_vars
    BY DEF RecordNext, recordVars
  <1> QED BY <1>1, <1>2, PTL DEF RecordSpec, Spec

(* However many watchdogs, schedulers and retries there are, and whatever  *)
(* crashes: a job is in one place at a time - one worker runs it, or it    *)
(* is listed, or it is delayed - until one of the three pushes goes ahead  *)
(* on a stale read (Watchdog.ts 75-83, Scheduler.ts 51-57, routes.ts       *)
(* 142-155).                                                               *)
THEOREM RacesAlone == RecordSpec => []OnePlaceUnlessRaced
  <1>1. RecordInit => UnracedSingle
    BY SolitaryInit DEF RecordInit, UnracedSingle, Solitary, Alone, Lone
  <1>2. ASSUME TypeOK, Whole, UnracedSingle, [RecordNext]_recordVars
        PROVE  UnracedSingle'
    <2>1. [Next]_vars /\ \A i \in Jobs : Producer(i) => Private(i)
      BY <1>2, ProducerPrivate DEF RecordNext, recordVars
    <2>2. CASE RecordNext
      <3>1. stray' = stray \cup {j \in Jobs : Astray(j)}
        BY <2>2 DEF RecordNext
      <3> QED BY <1>2, <2>1, <3>1, UnracedStep DEF UnracedSingle
    <2>3. CASE UNCHANGED recordVars
      <3>1. \A i \in Jobs : Same(i)
        BY <2>3, FaultSame DEF recordVars
      <3> QED BY <1>2, <2>3, <3>1, SameSingle DEF UnracedSingle, recordVars
    <2> QED BY <1>2, <2>2, <2>3
  <1>3. UnracedSingle => OnePlaceUnlessRaced
    <2> SUFFICES ASSUME UnracedSingle, NEW j \in Jobs \ stray
                 PROVE  /\ Cardinality(Running(j)) <= 1
                        /\ Listed(j) => Running(j) = {} /\ j \notin delayed
                        /\ j \in delayed => Running(j) = {}
      BY DEF UnracedSingle, OnePlaceUnlessRaced
    <2>1. Single(j)
      BY DEF UnracedSingle
    <2>2. Running(j) \subseteq Busy(j)
      BY DEF Running, Busy
    <2>3. Cardinality(Running(j)) <= 1
      <3>1. \A v, w \in Running(j) : v = w
        BY <2>1, <2>2 DEF Single
      <3> QED BY <3>1, OneOrNone
    <2>4. /\ Listed(j) => Running(j) = {} /\ j \notin delayed
          /\ j \in delayed => Running(j) = {}
      BY <2>1, <2>2 DEF Single
    <2> QED BY <2>3, <2>4
  <1> QED BY <1>1, <1>2, <1>3, RecordImplementsSpec, TypeCorrect, AlwaysWhole, PTL
          DEF RecordSpec

(* Where there are no rivals - no watchdog, one scheduler run and one      *)
(* retry at a time - no push is ever stale: the three races are all there  *)
(* is between a job and running twice.                                     *)
THEOREM NoRivalsNoRaces ==
    ASSUME NoRivals
    PROVE  RecordSpec => []NothingStray
  <1>1. ASSUME Solitary, NEW j \in Jobs PROVE ~Astray(j)
    <2>1. Lone(j) /\ DueIsDelayed(j)
      BY <1>1 DEF Solitary, Alone
    <2>2. ~StaleRequeue(j)
      BY DEF NoRivals, StaleRequeue
    <2>3. ~StaleRelease(j)
      BY <2>1 DEF StaleRelease, DueIsDelayed
    <2>4. ~StaleRetry(j)
      BY <2>1 DEF StaleRetry, Lone, Tame, Requested
    <2> QED BY <2>2, <2>3, <2>4 DEF Astray
  <1>2. Solitary /\ NothingStray /\ [RecordNext]_recordVars => NothingStray'
    BY <1>1 DEF RecordNext, NothingStray, recordVars
  <1>3. RecordInit => NothingStray
    BY DEF RecordInit, NothingStray
  <1>4. Spec => []Solitary
    BY AlwaysSolitary
  <1> QED BY <1>2, <1>3, <1>4, RecordImplementsSpec, PTL DEF RecordSpec

-------------------------------------------------------------------------------
(* Where a job that is in one place is. *)

InPlace(j) ==
    /\ Listed(j) => StageOf(j) = "queued"
    /\ j \in delayed => StageOf(j) = "backoff"
    /\ \A w \in Busy(j) : StageOf(j) = IF wpc[w] = "park" THEN "backoff" ELSE "taken"
    /\ ~Alive(j) /\ call[j] # "returned" => StageOf(j) = "none"
    /\ ~Alive(j) /\ call[j] = "returned" =>
          StageOf(j) = IF status[j] = "completed" THEN "done"
                       ELSE IF status[j] = "dead" /\ (j \in dead \/ Parking(j, FALSE))
                            THEN "buried" ELSE "stuck"

Everywhere == \A j \in Jobs : InPlace(j)

LEMMA Places == TypeOK /\ Whole /\ Solitary => Everywhere
  <1> SUFFICES ASSUME TypeOK, Whole, Solitary, NEW j \in Jobs
               PROVE  InPlace(j)
    BY DEF Everywhere
  <1>1. Lone(j) /\ Steady(j)
    BY DEF Solitary, Alone
  <1>2. Running(j) = {w \in Busy(j) : wpc[w] # "park"}
    BY DEF Running, Busy
  <1>3. Parking(j, TRUE) <=> \E w \in Busy(j) : wpc[w] = "park"
    BY DEF Parking, Busy, WillRetry
  <1>4. Alive(j) => call[j] = "returned"
    BY DEF Whole, InUse, Circulating, Stored, Held, Alive, Busy
  <1>5. Listed(j) => StageOf(j) = "queued"
    BY <1>1, <1>2 DEF Lone, Single, Tame, StageOf
  <1>6. j \in delayed => StageOf(j) = "backoff"
    <2>1. j \in delayed => /\ Running(j) = {} /\ ~Listed(j) /\ call[j] = "returned"
                           /\ status[j] = "delayed"
      BY <1>1, <1>2, <1>4 DEF Lone, Single, Tame, Alive
    <2> QED BY <2>1 DEF StageOf
  <1>7. \A w \in Busy(j) : StageOf(j) = IF wpc[w] = "park" THEN "backoff" ELSE "taken"
    <2> TAKE w \in Busy(j)
    <2>1. ~Listed(j) /\ call[j] = "returned"
      BY <1>1, <1>4 DEF Lone, Single, Tame, Alive
    <2>2. wpc[w] # "park" => Running(j) # {}
      BY <1>2
    <2>3. wpc[w] = "park" => Running(j) = {} /\ Parking(j, TRUE) /\ status[j] = "delayed"
      BY <1>1, <1>2, <1>3 DEF Lone, Single, AtWork, Busy, Holders
    <2> QED BY <2>1, <2>2, <2>3 DEF StageOf
  <1>8. ASSUME ~Alive(j)
        PROVE  Running(j) = {} /\ ~Listed(j) /\ j \notin delayed /\ ~Parking(j, TRUE)
    BY <1>2, <1>3, <1>8 DEF Alive
  <1>9. ~Alive(j) /\ call[j] # "returned" => StageOf(j) = "none"
    BY <1>8 DEF StageOf
  <1>10. ~Alive(j) /\ call[j] = "returned" =>
          StageOf(j) = IF status[j] = "completed" THEN "done"
                       ELSE IF status[j] = "dead" /\ (j \in dead \/ Parking(j, FALSE))
                            THEN "buried" ELSE "stuck"
    BY <1>8 DEF StageOf
  <1> QED BY <1>5, <1>6, <1>7, <1>9, <1>10 DEF InPlace

LEMMA PlacesNext == TypeOK' /\ Whole' /\ Solitary' => Everywhere'
  BY Places, PTL

(* A step that is not about a job leaves it where it is. *)
LEMMA SameStage ==
    ASSUME NEW i \in Jobs, Same(i)
    PROVE  StageOf(i)' = StageOf(i)
  <1>1. Running(i)' = Running(i)
    BY DEF Same, Running, Holders
  <1>2. \A w \in Workers : wjob[w] = i \/ wjob'[w] = i => WillRetry(w)' = WillRetry(w)
    BY DEF Same, WillRetry, NextAttempt, Bump
  <1>3. /\ Parking(i, TRUE)' <=> Parking(i, TRUE)
        /\ Parking(i, FALSE)' <=> Parking(i, FALSE)
    BY <1>2 DEF Same, Parking, Holders
  <1> QED BY <1>1, <1>3 DEF Same, StageOf

(* A step that takes one job from place to place is a move of JobLife. *)
LEMMA Moves ==
    ASSUME NEW j \in Jobs, NEW from, NEW to, StageOf(j) \in from, StageOf(j)' = to,
           \A i \in Jobs \ {j} : StageOf(i)' = StageOf(i)
    PROVE  Life!Move(j, from, to)
  BY DEF Life!Move

Lives == <<[j \in Jobs |-> StageOf(j)], attempts>>

LEMMA Stays ==
    ASSUME \A i \in Jobs : StageOf(i)' = StageOf(i), UNCHANGED attempts
    PROVE  UNCHANGED Lives
  BY DEF Lives

-------------------------------------------------------------------------------
(* Every step is one of JobLife, or none. *)

Leads == Life!Next \/ UNCHANGED Lives

(* Writing its attempts back, a worker adds one to what the hash has. *)
LEMMA CountedOnce ==
    ASSUME TypeOK, NEW w \in Workers, NEW j \in Jobs, wjob[w] = j, Lone(j), Steady(j),
           Settle(w)
    PROVE  NextAttempt(w) = attempts[j] + 1
  <1>1. wpc[w] = "settle"
    BY DEF Settle
  <1>2. w \in Busy(j)
    BY <1>1 DEF Busy, Holders
  <1>3. /\ wattempts[w] = attempts[j] /\ attempts[j] \in Nat
        /\ attempts[j] = 0 \/ attempts[j] < MaxAttempts[j]
    BY <1>1, <1>2 DEF Lone, Tame, Alive, Steady, InStep, TypeOK, StoreTypeOK
  <1>4. MaxAttempts[j] \in Nat /\ MaxAttempts[j] < AttemptsCap /\ AttemptsCap \in Nat
    BY StoreAssumption
  <1> QED BY <1>3, <1>4 DEF NextAttempt, Bump

(* A worker moves the job it has. *)
LEMMA WorkerLeads ==
    ASSUME TypeOK, Whole, Solitary, Everywhere, Everywhere', NEW w \in Workers,
           Worker(w) \/ Beat(w)
    PROVE  Leads
  <1>0. /\ UNCHANGED <<call, ajob>> /\ WorkerTypeOK /\ StoreTypeOK
        /\ \A j \in Jobs : Lone(j) /\ Single(j) /\ Steady(j) /\ InPlace(j) /\ InPlace(j)'
    BY DEF TypeOK, Worker, Beat, queueVars, apiVars, Solitary, Alone, Lone, Everywhere
  <1>1. CASE Beat(w) \/ PollEmpty(w)
    <2>1. UNCHANGED <<hashVars, listVars, wjob, wpc, wattempts>>
      BY <1>1 DEF Beat, PollEmpty, HeartbeatTick, workerVars, storeVars
    <2>2. \A i \in Jobs : Same(i)
      BY <1>0, <2>1, ListsFrame DEF Same, hashVars, listVars, Requested
    <2> QED BY <2>1, <2>2, SameStage, Stays DEF Leads, hashVars
  <1>2. CASE Poll(w) /\ Worker(w)
    <2>1. wjob[w] = NoJob /\ wjob'[w] \in Jobs /\ UNCHANGED attempts
      <3>1. PRIORITIES[level[w]] \in PrioritySet
        BY <1>0, LevelType DEF WorkerTypeOK
      <3> QED BY <1>0, <1>2, <3>1, PopType DEF Poll, WorkerTypeOK, hashVars
    <2>2. PICK j \in Jobs : wjob'[w] = j
      BY <2>1
    <2>3. Listed(j) /\ Busy(j)' = {w} /\ wpc'[w] = "fetch"
      BY <1>0, <1>2, <2>2, PopAlone DEF Working
    <2>4. StageOf(j) = "queued" /\ StageOf(j)' = "taken"
      BY <1>0, <2>3 DEF InPlace
    <2>5. \A i \in Jobs \ {j} : StageOf(i)' = StageOf(i)
      BY <1>2, <2>1, <2>2, StoreAssumption, WorkerSame, SameStage
    <2>6. Life!Take(j)
      BY <2>1, <2>4, <2>5, Moves DEF Life!Take
    <2> QED BY <2>6 DEF Leads, Life!Next
  <1>3. CASE Worker(w) /\ ~(Poll(w) \/ PollEmpty(w))
    <2>1. /\ wjob[w] \in Jobs
          /\ wjob'[w] \in {wjob[w], NoJob}
      BY <1>0, <1>3 DEF Worker, Working, Fetch, FetchNothing, MarkActive, RejectUnhandled,
             Register, FirstBeat, CountFailure, Settle, ParkDelayed, ParkDead, Cleanup,
             Complete, NextRound, WorkerTypeOK
    <2>2. PICK j \in Jobs : wjob[w] = j
      BY <2>1
    <2>3. \A i \in Jobs \ {j} : StageOf(i)' = StageOf(i)
      BY <1>3, <2>1, <2>2, StoreAssumption, WorkerSame, SameStage
    <2>4. call'[j] = "returned" /\ wpc[w] # "poll"
      BY <1>0, <2>2, HeldJob, HeldReturned
    <2>5. CASE \/ Fetch(w) \/ MarkActive(w) \/ Register(w) \/ FirstBeat(w) \/ CountFailure(w)
      <3>1. Busy(j) = {w} /\ Busy(j)' = {w}
        BY <1>0, <2>2, <2>5, WorkOn DEF Working
      <3>2. wpc[w] # "park" /\ wpc'[w] # "park" /\ UNCHANGED attempts
        BY <1>0, <2>5 DEF Fetch, MarkActive, Register, FirstBeat, CountFailure, Goto,
               WorkerTypeOK, storeVars, hashVars
      <3>3. StageOf(j) = "taken" /\ StageOf(j)' = "taken"
        BY <1>0, <3>1, <3>2 DEF InPlace
      <3> QED BY <2>3, <3>2, <3>3, Stays DEF Leads
    <2>6. CASE Settle(w)
      <3>1. /\ wpc[w] = "settle" /\ wpc'[w] = "park" /\ wjob'[w] = j
            /\ WillRetry(w)' <=> WillRetry(w)
            /\ UpdateJobFields(j, IF WillRetry(w) THEN "delayed" ELSE "dead", NextAttempt(w))
            /\ Working(w)
        BY <1>0, <2>2, <2>6 DEF Settle, Goto, WorkerTypeOK, WillRetry, NextAttempt, Bump, Working
      <3>2. NextAttempt(w) = attempts[j] + 1
        BY <1>0, <2>2, <2>6, CountedOnce
      <3>3. attempts' = [attempts EXCEPT ![j] = attempts[j] + 1]
        BY <3>1, <3>2 DEF UpdateJobFields
      <3>4. WillRetry(w) <=> attempts[j] + 1 < MaxAttempts[j]
        BY <2>2, <3>2 DEF WillRetry
      <3>5. StageOf(j) = "taken"
        <4>1. w \in Busy(j)
          BY <2>2, <3>1 DEF Busy, Holders
        <4> QED BY <1>0, <3>1, <4>1 DEF InPlace
      <3>6. StageOf(j)' = IF WillRetry(w) THEN "backoff" ELSE "buried"
        <4>1. CASE WillRetry(w)
          <5>1. Busy(j)' = {w}
            BY <1>0, <2>2, <2>6, <3>1, <4>1, WorkOn
          <5> QED BY <1>0, <3>1, <4>1, <5>1 DEF InPlace
        <4>2. CASE ~WillRetry(w)
          <5>1. Busy(j)' = {} /\ ~Listed(j)' /\ j \notin delayed'
            BY <1>0, <2>2, <2>6, <3>1, <4>2, LetGo DEF Settle, ParkDelayed
          <5>2. ~Alive(j)'
            BY <5>1 DEF Alive
          <5>3. status'[j] = "dead"
            BY <1>0, <3>1, <4>2 DEF UpdateJobFields, HSetStatus, StoreTypeOK
          <5>4. Parking(j, FALSE)'
            BY <3>1, <4>2 DEF Parking, Holders
          <5> QED BY <1>0, <2>4, <4>2, <5>2, <5>3, <5>4 DEF InPlace
        <4> QED BY <4>1, <4>2
      <3>7. Life!Fail(j)
        <4>1. Life!Move(j, {"taken"}, IF WillRetry(w) THEN "backoff" ELSE "buried")
          BY <2>3, <3>5, <3>6, Moves
        <4> QED BY <3>3, <3>4, <4>1 DEF Life!Fail
      <3> QED BY <3>7 DEF Leads, Life!Next
    <2>7. CASE FetchNothing(w) \/ RejectUnhandled(w) \/ Complete(w)
      <3>1. Busy(j) = {w} /\ ~Alive(j)' /\ InStep(w)
        <4>1. Busy(j) = {w} /\ Busy(j)' = {} /\ ~Listed(j)' /\ (j \in delayed' <=> ParkDelayed(w))
          BY <1>0, <2>2, <2>7, LetGo DEF Working
        <4>2. ~ParkDelayed(w)
          BY <2>7 DEF FetchNothing, RejectUnhandled, Complete, ParkDelayed
        <4> QED BY <1>0, <4>1, <4>2 DEF Alive, Steady
      <3>2. StageOf(j) = "taken" /\ UNCHANGED attempts
        BY <1>0, <2>7, <3>1
           DEF InPlace, FetchNothing, RejectUnhandled, Complete, storeVars, hashVars
      <3>3. CASE FetchNothing(w) \/ RejectUnhandled(w)
        <4>1. status'[j] \in {"waiting", "failed"}
          BY <1>0, <2>2, <3>1, <3>3 DEF FetchNothing, RejectUnhandled, HSetStatus, StoreTypeOK,
                 InStep, storeVars, hashVars
        <4>2. StageOf(j)' = "stuck"
          BY <1>0, <2>4, <3>1, <4>1 DEF InPlace
        <4>3. Life!Strand(j)
          BY <2>3, <3>2, <4>2, Moves DEF Life!Strand
        <4> QED BY <4>3 DEF Leads, Life!Next
      <3>4. CASE Complete(w)
        <4>1. status'[j] = "completed"
          BY <1>0, <2>2, <3>4 DEF Complete, HSetStatus, StoreTypeOK
        <4>2. StageOf(j)' = "done"
          BY <1>0, <2>4, <3>1, <4>1 DEF InPlace
        <4>3. Life!Finish(j)
          BY <2>3, <3>2, <4>2, Moves DEF Life!Finish
        <4> QED BY <4>3 DEF Leads, Life!Next
      <3> QED BY <2>7, <3>3, <3>4
    <2>8. CASE ParkDelayed(w)
      <3>1. Busy(j) = {w} /\ j \in delayed'
        BY <1>0, <2>2, <2>8, LetGo DEF Working
      <3>2. wpc[w] = "park" /\ UNCHANGED attempts
        BY <2>8 DEF ParkDelayed, hashVars
      <3>3. StageOf(j) = "backoff" /\ StageOf(j)' = "backoff"
        BY <1>0, <3>1, <3>2 DEF InPlace
      <3> QED BY <2>3, <3>2, <3>3, Stays DEF Leads
    <2>9. CASE ParkDead(w) \/ Cleanup(w)
      <3>1. w \notin Busy(j) /\ Busy(j)' = Busy(j)
        BY <1>0, <2>2, <2>9, TidyUp DEF Working
      <3>2. UNCHANGED <<waiting, delayed, hashVars>>
        BY <2>9 DEF ParkDead, Cleanup
      <3>3. \A v \in Workers \ {w} :
               wjob'[v] = wjob[v] /\ wpc'[v] = wpc[v] /\ wattempts'[v] = wattempts[v]
        BY <1>0, <2>9, OtherWorkers DEF Working
      <3>4. (Listed(j)' <=> Listed(j)) /\ (Alive(j)' <=> Alive(j))
        BY <3>1, <3>2, ListsFrame DEF Alive
      <3>5. j \in dead' \/ Parking(j, FALSE)' <=> j \in dead \/ Parking(j, FALSE)
        <4>1. \A v \in Workers \ {w} : WillRetry(v)' <=> WillRetry(v)
          BY <3>3 DEF WillRetry, NextAttempt, Bump
        <4>2. ~(wjob'[w] = j /\ wpc'[w] = "park")
          BY <1>0, <2>9, StoreAssumption DEF ParkDead, Cleanup, Goto, NextRound, WorkerTypeOK
        <4>3. CASE ParkDead(w)
          <5>1. j \in dead' /\ Parking(j, FALSE)
            BY <1>0, <2>2, <4>3 DEF ParkDead, Parking, Holders, StoreTypeOK
          <5> QED BY <5>1
        <4>4. CASE Cleanup(w)
          <5>1. UNCHANGED dead /\ wpc[w] # "park"
            BY <4>4 DEF Cleanup
          <5> QED BY <3>3, <4>1, <4>2, <5>1 DEF Parking, Holders
        <4> QED BY <2>9, <4>3, <4>4
      <3>6. StageOf(j)' = StageOf(j)
        <4>1. CASE Listed(j) \/ j \in delayed
          BY <1>0, <3>2, <3>4, <4>1 DEF InPlace
        <4>2. ASSUME NEW v \in Busy(j) PROVE StageOf(j)' = StageOf(j)
          <5>1. v \in Busy(j)' /\ wpc'[v] = wpc[v]
            BY <3>1, <3>3, <4>2 DEF Busy, Holders
          <5> QED BY <1>0, <4>2, <5>1 DEF InPlace
        <4>3. CASE ~Alive(j)
          BY <1>0, <2>4, <3>2, <3>4, <3>5, <4>3 DEF InPlace, hashVars
        <4> QED BY <4>1, <4>2, <4>3 DEF Alive
      <3> QED BY <2>3, <3>2, <3>6, Stays DEF Leads, hashVars
    <2> QED BY <1>3, <2>5, <2>6, <2>7, <2>8, <2>9 DEF Worker, Working
  <1> QED BY <1>1, <1>2, <1>3

(* A producer's push submits the job. *)
LEMMA ProducerLeads ==
    ASSUME TypeOK, Whole, Solitary, Everywhere, Everywhere', NEW j \in Jobs, Producer(j)
    PROVE  Leads
  <1>0. Lone(j) /\ InPlace(j) /\ InPlace(j)' /\ Private(j)
    BY ProducerPrivate DEF Solitary, Alone, Everywhere
  <1>1. /\ ~Alive(j) /\ call[j] # "returned" /\ attempts'[j] = attempts[j]
        /\ Busy(j)' = {} /\ j \notin delayed'
        /\ Listed(j)' <=> PushJob(j) \/ ClaimKey(j)
        /\ call'[j] = "returned" <=> PushJob(j) \/ ClaimKey(j)
    BY <1>0, EnqueueAlone DEF Lone
  <1>2. \A i \in Jobs \ {j} : StageOf(i)' = StageOf(i)
    BY ProducerSame, SameStage
  <1>3. StageOf(j) = "none"
    BY <1>0, <1>1 DEF InPlace
  <1>4. UNCHANGED attempts
    <2>1. attempts \in [Jobs -> 0 .. AttemptsCap]
      BY DEF TypeOK, StoreTypeOK
    <2>2. attempts' = attempts \/ attempts' = [attempts EXCEPT ![j] = 0]
      BY DEF Producer, Enqueue, SdkEnqueue, SaveJob, PushJob, ClaimKey, LoseKey, DropDuplicate,
             storeVars, hashVars
    <2> QED BY <1>1, <2>1, <2>2
  <1>5. CASE PushJob(j) \/ ClaimKey(j)
    <2>1. StageOf(j)' = "queued"
      BY <1>0, <1>1, <1>5 DEF InPlace
    <2>2. Life!Submit(j)
      BY <1>2, <1>3, <1>4, <2>1, Moves DEF Life!Submit
    <2> QED BY <2>2 DEF Leads, Life!Next
  <1>6. CASE ~(PushJob(j) \/ ClaimKey(j))
    <2>1. ~Alive(j)' /\ call'[j] # "returned"
      BY <1>1, <1>6 DEF Alive
    <2>2. StageOf(j)' = "none"
      BY <1>0, <2>1 DEF InPlace
    <2> QED BY <1>2, <1>3, <1>4, <2>2, Stays DEF Leads
  <1> QED BY <1>5, <1>6

(* A scheduler releases a job whose back-off is over. *)
LEMMA DelaysLead ==
    ASSUME TypeOK, Whole, Solitary, Everywhere, Everywhere', NEW s \in Schedulers, Delays(s)
    PROVE  Leads
  <1>0. /\ SchedulerTypeOK /\ UNCHANGED <<workerVars, call, ajob, attempts>>
        /\ \A j \in Jobs : Lone(j) /\ Single(j) /\ InPlace(j) /\ InPlace(j)'
    BY DEF TypeOK, Delays, Solitary, Alone, Lone, Everywhere, queueVars, apiVars, ReadDue, ReadPriority,
           Release, storeVars, hashVars
  <1>1. CASE Release(s)
    <2>1. PICK j \in Jobs : sjob[s] = j
      BY <1>0, <1>1 DEF Release, SchedulerTypeOK
    <2>2. j \in delayed /\ Listed(j)'
      BY <1>0, <1>1, <2>1, ReleaseAlone DEF Solitary
    <2>3. StageOf(j) = "backoff" /\ StageOf(j)' = "queued"
      BY <1>0, <2>2 DEF InPlace
    <2>4. \A i \in Jobs \ {j} : StageOf(i)' = StageOf(i)
      BY <2>1, DelaysSame, SameStage
    <2>5. Life!Release(j)
      BY <1>0, <2>3, <2>4, Moves DEF Life!Release
    <2> QED BY <2>5 DEF Leads, Life!Next
  <1>2. CASE ~Release(s)
    <2>1. \A i \in Jobs : StageOf(i)' = StageOf(i)
      BY <1>2, DelaysSame, SameStage
    <2> QED BY <1>0, <2>1, Stays DEF Leads
  <1> QED BY <1>1, <1>2

(* A retry by hand revives a job that was buried or stuck. *)
LEMMA ApiLeads ==
    ASSUME TypeOK, Whole, NoRivals, Solitary, Everywhere, Everywhere',
           NEW r \in Requests, Api(r)
    PROVE  Leads
  <1>0. /\ ApiTypeOK /\ UNCHANGED <<workerVars, call>>
        /\ \A j \in Jobs : Lone(j) /\ Single(j) /\ InPlace(j) /\ InPlace(j)'
    BY DEF TypeOK, Api, Solitary, Alone, Lone, Everywhere, queueVars
  <1>1. CASE Retry(r)
    <2>1. PICK j \in Jobs : ajob[r] = j
      BY <1>0, <1>1 DEF Retry, ApiTypeOK
    <2>2. ~Alive(j) /\ Listed(j)'
      BY <1>0, <1>1, <2>1, RetryAlone
    <2>3. status[j] \in {"dead", "failed"} /\ call[j] = "returned"
      <3>1. Requested(j)
        BY <2>1 DEF Requested
      <3> QED BY <1>0, <3>1 DEF Lone, Single, Tame, Whole, InUse
    <2>4. StageOf(j) \in {"buried", "stuck"} /\ StageOf(j)' = "queued"
      BY <1>0, <2>2, <2>3 DEF InPlace
    <2>5. \A i \in Jobs \ {j} : StageOf(i)' = StageOf(i)
      <3>1. ajob'[r] = NoJob
        BY <1>0, <1>1 DEF Retry, ApiTypeOK
      <3> QED BY <2>1, <3>1, StoreAssumption, ApiSame, SameStage
    <2>6. attempts' = [attempts EXCEPT ![j] = 0]
      BY <1>1, <2>1 DEF Retry, UpdateJobFields
    <2>7. Life!Revive(j)
      BY <2>4, <2>5, <2>6, Moves DEF Life!Revive
    <2> QED BY <2>7 DEF Leads, Life!Next
  <1>2. CASE CheckRetryable(r)
    <2>1. UNCHANGED <<waiting, delayed, dead, status, attempts, call, wjob, wpc, wattempts>>
      BY <1>0, <1>2 DEF CheckRetryable, storeVars, listVars, hashVars, workerVars
    <2>2. \A i \in Jobs : StageOf(i)' = StageOf(i)
      BY <2>1 DEF StageOf, Running, Holders, Listed, Parking, WillRetry, NextAttempt, Bump
    <2> QED BY <2>1, <2>2, Stays DEF Leads
  <1> QED BY <1>1, <1>2 DEF Api

(* A job whose worker dies before it has put it anywhere is stuck. *)
LEMMA CrashLeads ==
    ASSUME TypeOK, Whole, Solitary, Everywhere, Everywhere', NEW n \in Nodes, Crash(n)
    PROVE  Leads
  <1>0. /\ WorkerTypeOK
        /\ UNCHANGED <<waiting, delayed, dead, status, attempts, call>>
        /\ \A j \in Jobs : Lone(j) /\ Single(j) /\ Steady(j) /\ InPlace(j) /\ InPlace(j)'
    BY DEF TypeOK, Solitary, Alone, Lone, Everywhere, Crash, storeVars, listVars, hashVars, queueVars
  <1>1. ASSUME NEW j \in Jobs
        PROVE  \/ StageOf(j)' = StageOf(j)
               \/ StageOf(j) \in {"taken", "backoff", "buried"} /\ StageOf(j)' = "stuck"
    <2>1. /\ Busy(j)' = {w \in Busy(j) : NodeOf[w] # n}
          /\ \A w \in Workers : NodeOf[w] # n =>
                wjob'[w] = wjob[w] /\ wpc'[w] = wpc[w] /\ wattempts'[w] = wattempts[w]
          /\ \A w \in Workers : NodeOf[w] = n => wjob'[w] = NoJob /\ wpc'[w] = "poll"
      BY <1>0, CrashAlone
    <2>2. Listed(j)' <=> Listed(j)
      BY <1>0, ListsFrame
    <2>3. CASE Listed(j) \/ j \in delayed
      BY <1>0, <2>2, <2>3 DEF InPlace
    <2>4. ASSUME NEW w \in Busy(j), NodeOf[w] # n PROVE StageOf(j)' = StageOf(j)
      <3>1. w \in Busy(j)' /\ wpc'[w] = wpc[w]
        BY <2>1, <2>4 DEF Busy, Holders
      <3> QED BY <1>0, <2>4, <3>1 DEF InPlace
    <2>5. ASSUME NEW w \in Busy(j), NodeOf[w] = n
          PROVE  StageOf(j) \in {"taken", "backoff"} /\ StageOf(j)' = "stuck"
      <3>1. Busy(j) = {w} /\ ~Listed(j) /\ j \notin delayed /\ call[j] = "returned"
            /\ InStep(w)
        BY <1>0, <2>5, HeldJob, HeldReturned DEF Busy, Holders, Steady
      <3>2. ~Alive(j)'
        BY <1>0, <2>1, <2>2, <2>5, <3>1 DEF Alive
      <3>3. status[j] \in {"waiting", "active", "delayed"}
        <4>1. wjob[w] = j /\ wpc[w] \in WorkerLabel \ {"poll", "cleanup"}
          BY <2>5, StoreAssumption DEF Busy, Holders, WorkerTypeOK, TypeOK
        <4> QED BY <3>1, <4>1 DEF InStep, WorkerLabel
      <3>4. StageOf(j)' = "stuck"
        BY <1>0, <3>1, <3>2, <3>3 DEF InPlace
      <3> QED BY <1>0, <2>5, <3>4 DEF InPlace
    <2>6. CASE ~Alive(j)
      <3>1. ~Alive(j)'
        BY <1>0, <2>1, <2>2, <2>6 DEF Alive
      <3>2. Parking(j, FALSE)' => Parking(j, FALSE)
        <4>1. \A w \in Workers : wpc'[w] = "park" =>
                 wjob'[w] = wjob[w] /\ wpc[w] = "park" /\ (WillRetry(w)' <=> WillRetry(w))
          BY <2>1 DEF WillRetry, NextAttempt, Bump
        <4> QED BY <4>1 DEF Parking, Holders
      <3> QED BY <1>0, <2>6, <3>1, <3>2 DEF InPlace
    <2> QED BY <2>3, <2>4, <2>5, <2>6 DEF Alive
  <1> DEFINE js == {j \in Jobs : StageOf(j)' # StageOf(j)}
  <1>2. Life!Die(js)
    <2>1. \A j \in js : StageOf(j) \in {"taken", "backoff", "buried"} /\ StageOf(j)' = "stuck"
      BY <1>1
    <2>2. \A j \in Jobs : StageOf(j)' = IF j \in js THEN "stuck" ELSE StageOf(j)
      BY <2>1
    <2> HIDE DEF js
    <2>3. js \subseteq Jobs
      BY DEF js
    <2> QED BY <1>0, <2>1, <2>2, <2>3 DEF Life!Die
  <1>3. js \in SUBSET Jobs
    OBVIOUS
  <1> QED BY <1>2, <1>3 DEF Leads, Life!Next

LEMMA LifeInit == Init => Life!Init
  <1> SUFFICES ASSUME Init, NEW j \in Jobs PROVE StageOf(j) = "none"
    BY DEF Init, StoreInit, Life!Init
  <1>1. Running(j) = {} /\ ~Listed(j) /\ call[j] # "returned"
    BY StoreAssumption DEF Init, StoreInit, QueueInit, WorkerInit, Running, Holders, Listed
  <1> QED BY <1>1 DEF StageOf

LEMMA LifeStep ==
    ASSUME TypeOK, Whole, NoRivals, Solitary, Everywhere, Everywhere', [Next]_vars
    PROVE  [Life!Next]_Lives
  <1> SUFFICES Leads
    BY DEF Leads
  <1>1. ASSUME \/ \E k \in Keys : KeyTtl(k)
               \/ \E j \in Jobs : HeartbeatExpires(j) \/ HeartbeatLapses(j) \/ EvictHash(j)
               \/ UNCHANGED vars
        PROVE  Leads
    <2>1. \A i \in Jobs : StageOf(i)' = StageOf(i)
      BY <1>1, FaultSame, SameStage
    <2>2. UNCHANGED attempts
      BY <1>1 DEF KeyTtl, KeyExpires, HeartbeatExpires, HeartbeatLapses, SetHeartbeatGone,
             EvictHash, vars, storeVars, hashVars
    <2> QED BY <2>1, <2>2, Stays DEF Leads
  <1>2. Watchdogs = {}
    BY DEF NoRivals
  <1> QED BY <1>1, <1>2, ProducerLeads, WorkerLeads, DelaysLead, ApiLeads, CrashLeads DEF Next

(* Without watchdogs, with one scheduler run and one retry at a time, the  *)
(* system implements JobLife: each of its steps takes at most one job from *)
(* one place to the next (Queue.ts 55-75, WorkerPool.ts 86-180,            *)
(* Scheduler.ts 43-60, routes.ts 148-155), a crash strands those a dead    *)
(* worker had not put anywhere, and every failure is counted once.         *)
THEOREM LivesAJobsLife ==
    ASSUME NoRivals
    PROVE  Spec => LeadsJobLife
  <1>1. Init => Life!Init
    BY LifeInit
  <1>2. TypeOK /\ Whole /\ Solitary /\ Everywhere /\ Everywhere' /\ [Next]_vars
        => [Life!Next]_Lives
    BY LifeStep
  <1>3. TypeOK /\ Whole /\ Solitary => Everywhere
    BY Places
  <1> QED BY <1>1, <1>2, <1>3, TypeCorrect, AlwaysWhole, AlwaysSolitary, PTL
          DEF Spec, LeadsJobLife, Life!Spec, Life!life, Lives
===============================================================================
