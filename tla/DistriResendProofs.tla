-------------------------- MODULE DistriResendProofs --------------------------
(***************************************************************************)
(* The system over a connection that breaks, for every value of the        *)
(* constants and any number of lost replies: what a command executed       *)
(* unseen may do, and what it may not.                                     *)
(***************************************************************************)
EXTENDS DistriResend, DistriLoss, DistriLife

(* The steps that somebody learns the outcome of, and the executions that  *)
(* nobody does.                                                            *)
Seen == [Next]_vars /\ UNCHANGED resent

UnseenWorker(w) == PollUnseen(w) \/ StatusUnseen(w) \/ ParkUnseen(w) \/ CleanupUnseen(w)

(* Every step is one of these. *)
LEMMA ResendSteps ==
    ASSUME [ResendNext]_resendVars
    PROVE  \/ Seen
           \/ \E j \in Jobs : PushUnseen(j) \/ ClaimUnseen(j) \/ AnswerOwn(j)
           \/ \E w \in Workers : UnseenWorker(w)
           \/ \E d \in Watchdogs : RequeueUnseen(d)
           \/ \E s \in Schedulers : ReleaseUnseen(s)
           \/ \E r \in Requests : RetryUnseen(r)
  BY DEF ResendNext, resendVars, Seen, UnseenWorker

-------------------------------------------------------------------------------
(* Type correctness. *)

(* Nobody but the store and the history changes when a reply is lost. *)
LEMMA LostReplyType ==
    ASSUME ResendTypeOK, StoreTypeOK', NEW c \in Commands, NEW j \in Jobs, LoseReply(c, j),
           abandoned' \subseteq abandoned, robbed' \subseteq robbed \cup {j},
           done' \subseteq done \cup {j}
    PROVE  ResendTypeOK'
  <1>1. UNCHANGED <<queueVars, workerVars, watchdogVars, schedulerVars, apiVars, faultVars>>
    BY DEF LoseReply
  <1>2. /\ QueueTypeOK' /\ WorkerTypeOK' /\ WatchdogTypeOK' /\ SchedulerTypeOK' /\ ApiTypeOK'
        /\ crashes' \in 0 .. MaxCrashes /\ lapses' \in 0 .. MaxLapses
        /\ expiries' \in [Keys -> 0 .. MaxExpiries] /\ evicted' \subseteq Jobs
    BY <1>1 DEF ResendTypeOK, TypeOK, QueueTypeOK, WorkerTypeOK, WatchdogTypeOK,
                SchedulerTypeOK, ApiTypeOK, queueVars, workerVars, watchdogVars,
                schedulerVars, apiVars, faultVars
  <1>3. abandoned' \subseteq Jobs /\ robbed' \subseteq Jobs /\ done' \subseteq Jobs
    BY DEF ResendTypeOK, TypeOK
  <1>4. resent' \subseteq Commands \X Jobs
    BY DEF ResendTypeOK, LoseReply
  <1> QED BY <1>2, <1>3, <1>4 DEF ResendTypeOK, TypeOK

LEMMA UnseenProducerType ==
    ASSUME ResendTypeOK, NEW j \in Jobs, PushUnseen(j) \/ ClaimUnseen(j) \/ AnswerOwn(j)
    PROVE  ResendTypeOK'
  <1>0. StoreTypeOK /\ Priority[j] \in PrioritySet
    BY StoreAssumption DEF ResendTypeOK, TypeOK
  <1>1. CASE PushUnseen(j) \/ ClaimUnseen(j)
    <2>1. waiting' \in [PrioritySet -> Seq(Jobs)]
      BY <1>0, <1>1, LPushType DEF PushUnseen, ClaimUnseen
    <2>2. StoreTypeOK'
      BY <1>0, <1>1, <2>1, StoreAssumption
         DEF PushUnseen, ClaimUnseen, StoreTypeOK, hashVars, aliveVars
    <2>3. UNCHANGED historyVars /\ \E c \in Commands : LoseReply(c, j)
      BY <1>1 DEF PushUnseen, ClaimUnseen, Commands
    <2> QED BY <2>2, <2>3, LostReplyType DEF historyVars
  <1>2. CASE AnswerOwn(j)
    BY <1>2 DEF AnswerOwn, ResendTypeOK, TypeOK, StoreTypeOK, QueueTypeOK, CallState,
                WorkerTypeOK, WatchdogTypeOK, SchedulerTypeOK, ApiTypeOK, storeVars, hashVars,
                listVars, aliveVars, workerVars, watchdogVars, schedulerVars, apiVars,
                faultVars, historyVars
  <1> QED BY <1>1, <1>2

LEMMA UnseenWorkerType ==
    ASSUME ResendTypeOK, NEW w \in Workers, UnseenWorker(w)
    PROVE  ResendTypeOK'
  <1>0. StoreTypeOK /\ WorkerTypeOK
    BY DEF ResendTypeOK, TypeOK
  <1>p. PRIORITIES[level[w]] \in PrioritySet
    BY <1>0, LevelType DEF WorkerTypeOK
  <1>1. CASE PollUnseen(w)
    <2>1. PICK j \in Jobs : j = Head(waiting[PRIORITIES[level[w]]])
      BY <1>0, <1>p, <1>1, PopType DEF PollUnseen
    <2>2. waiting' \in [PrioritySet -> Seq(Jobs)] /\ processing' \in [Jobs -> Nat]
      BY <1>0, <1>p, <1>1, PopType DEF PollUnseen
    <2>3. StoreTypeOK'
      BY <1>0, <1>1, <2>2 DEF PollUnseen, StoreTypeOK, hashVars, aliveVars
    <2>4. UNCHANGED historyVars /\ LoseReply("poll", j) /\ "poll" \in Commands
      BY <1>1, <2>1 DEF PollUnseen, Commands
    <2> QED BY <2>3, <2>4, LostReplyType DEF historyVars
  <1>2. CASE StatusUnseen(w)
    <2>1. wjob[w] \in Jobs
      BY <1>0, <1>2 DEF StatusUnseen, WorkerTypeOK
    <2>2. NextAttempt(w) \in 0 .. AttemptsCap
      BY <1>0, BumpType DEF NextAttempt, WorkerTypeOK
    <2>3. /\ hash' \in [Jobs -> Fields] /\ status' \in [Jobs -> JobStatus]
          /\ attempts' \in [Jobs -> 0 .. AttemptsCap]
      BY <1>0, <1>2, <2>1, <2>2, HSetStatusType, UpdateType
         DEF StatusUnseen, JobStatus, StoreTypeOK
    <2>4. StoreTypeOK'
      BY <1>0, <1>2, <2>3 DEF StatusUnseen, StoreTypeOK, listVars, aliveVars
    <2>5. /\ \E c \in Commands : LoseReply(c, wjob[w])
          /\ UNCHANGED <<abandoned, robbed>> /\ done' \subseteq done \cup {wjob[w]}
      BY <1>2 DEF StatusUnseen, Commands
    <2> QED BY <2>1, <2>4, <2>5, LostReplyType
  <1>3. CASE ParkUnseen(w)
    <2>1. wjob[w] \in Jobs
      BY <1>0, <1>3 DEF ParkUnseen, WorkerTypeOK
    <2>2. StoreTypeOK'
      BY <1>0, <1>3, <2>1 DEF ParkUnseen, StoreTypeOK, hashVars, aliveVars
    <2>3. UNCHANGED historyVars /\ \E c \in Commands : LoseReply(c, wjob[w])
      BY <1>3 DEF ParkUnseen, Commands
    <2> QED BY <2>1, <2>2, <2>3, LostReplyType DEF historyVars
  <1>4. CASE CleanupUnseen(w)
    <2>1. wjob[w] \in Jobs
      BY <1>0, <1>4 DEF CleanupUnseen, WorkerTypeOK
    <2>2. processing' \in [Jobs -> Nat]
      BY <1>0, <1>4, <2>1, LRemType DEF CleanupUnseen
    <2>3. StoreTypeOK'
      BY <1>0, <1>4, <2>1, <2>2 DEF CleanupUnseen, StoreTypeOK, hashVars
    <2>4. UNCHANGED historyVars /\ LoseReply("cleanup", wjob[w]) /\ "cleanup" \in Commands
      BY <1>4 DEF CleanupUnseen, Commands
    <2> QED BY <2>1, <2>3, <2>4, LostReplyType DEF historyVars
  <1> QED BY <1>1, <1>2, <1>3, <1>4 DEF UnseenWorker

LEMMA UnseenPushType ==
    ASSUME ResendTypeOK,
           \/ \E d \in Watchdogs : RequeueUnseen(d)
           \/ \E s \in Schedulers : ReleaseUnseen(s)
           \/ \E r \in Requests : RetryUnseen(r)
    PROVE  ResendTypeOK'
  <1>0. StoreTypeOK /\ WatchdogTypeOK /\ SchedulerTypeOK /\ ApiTypeOK
    BY DEF ResendTypeOK, TypeOK
  <1>1. ASSUME NEW d \in Watchdogs, RequeueUnseen(d) PROVE ResendTypeOK'
    <2>1. djob[d] \in Jobs
      BY <1>0, <1>1 DEF RequeueUnseen, WatchdogTypeOK
    <2>2. Bump(dattempts[d]) \in 0 .. AttemptsCap /\ "waiting" \in JobStatus
      BY <1>0, BumpType DEF WatchdogTypeOK, JobStatus
    <2>3. /\ LRemProcessing(djob[d]) /\ UpdateJobFields(djob[d], "waiting", Bump(dattempts[d]))
          /\ LPushWaiting(ListOf(dhash[d], djob[d]), djob[d])
      BY <1>1 DEF RequeueUnseen
    <2>4. /\ hash' \in [Jobs -> Fields] /\ status' \in [Jobs -> JobStatus]
          /\ attempts' \in [Jobs -> 0 .. AttemptsCap]
          /\ waiting' \in [PrioritySet -> Seq(Jobs)] /\ processing' \in [Jobs -> Nat]
      BY <1>0, <2>1, <2>2, <2>3, UpdateType, LPushType, LRemType, ListOfType
    <2>5. StoreTypeOK'
      BY <1>0, <1>1, <2>1, <2>4 DEF RequeueUnseen, StoreTypeOK
    <2>6. /\ LoseReply("requeue", djob[d]) /\ "requeue" \in Commands
          /\ abandoned' \subseteq abandoned /\ robbed' \subseteq robbed \cup {djob[d]}
          /\ UNCHANGED done
      BY <1>1 DEF RequeueUnseen, Robs, Commands
    <2> QED BY <2>1, <2>5, <2>6, LostReplyType
  <1>2. ASSUME NEW s \in Schedulers, ReleaseUnseen(s) PROVE ResendTypeOK'
    <2>1. sjob[s] \in Jobs /\ sprio[s] \in PrioritySet /\ "waiting" \in JobStatus
      BY <1>0, <1>2 DEF ReleaseUnseen, SchedulerTypeOK, JobStatus
    <2>2. /\ hash' \in [Jobs -> Fields] /\ status' \in [Jobs -> JobStatus]
          /\ waiting' \in [PrioritySet -> Seq(Jobs)]
      BY <1>0, <1>2, <2>1, HSetStatusType, LPushType DEF ReleaseUnseen
    <2>3. StoreTypeOK'
      BY <1>0, <1>2, <2>2 DEF ReleaseUnseen, StoreTypeOK, aliveVars
    <2>4. /\ LoseReply("release", sjob[s]) /\ "release" \in Commands
          /\ abandoned' \subseteq abandoned /\ UNCHANGED <<robbed, done>>
      BY <1>2 DEF ReleaseUnseen, Commands
    <2> QED BY <2>1, <2>3, <2>4, LostReplyType
  <1>3. ASSUME NEW r \in Requests, RetryUnseen(r) PROVE ResendTypeOK'
    <2>1. ajob[r] \in Jobs /\ Priority[ajob[r]] \in PrioritySet
          /\ "waiting" \in JobStatus /\ 0 \in 0 .. AttemptsCap
      BY <1>0, <1>3, StoreAssumption DEF RetryUnseen, ApiTypeOK, JobStatus
    <2>2. /\ hash' \in [Jobs -> Fields] /\ status' \in [Jobs -> JobStatus]
          /\ attempts' \in [Jobs -> 0 .. AttemptsCap]
          /\ waiting' \in [PrioritySet -> Seq(Jobs)]
      BY <1>0, <1>3, <2>1, UpdateType, LPushType DEF RetryUnseen
    <2>3. StoreTypeOK'
      BY <1>0, <1>3, <2>2 DEF RetryUnseen, StoreTypeOK, aliveVars
    <2>4. /\ LoseReply("retry", ajob[r]) /\ "retry" \in Commands
          /\ abandoned' \subseteq abandoned /\ UNCHANGED <<robbed, done>>
      BY <1>3 DEF RetryUnseen, Commands
    <2> QED BY <2>1, <2>3, <2>4, LostReplyType
  <1> QED BY <1>1, <1>2, <1>3

LEMMA ResendTypeStep ==
    ASSUME ResendTypeOK, [ResendNext]_resendVars
    PROVE  ResendTypeOK'
  <1>1. CASE Seen
    BY <1>1, TypeStep DEF Seen, ResendTypeOK
  <1> QED BY <1>1, ResendSteps, UnseenProducerType, UnseenWorkerType, UnseenPushType

(* Commands executed twice leave every variable in its type. *)
THEOREM ResendTypes == ResendSpec => []ResendTypeOK
  <1>1. ResendInit => ResendTypeOK
    BY TypeInit DEF ResendInit, ResendTypeOK
  <1> QED BY <1>1, ResendTypeStep, PTL DEF ResendSpec

-------------------------------------------------------------------------------
(* Duplicates.                                                             *)

(* The id of a call that has not returned may be on a list: the push or    *)
(* the claim was executed, its sender does not know.                       *)
Unseen(j) == <<"push", j>> \in resent \/ <<"claim", j>> \in resent

(* Inductive: an id comes into use with the return of its enqueue or with  *)
(* a push unseen.                                                          *)
WholeResent ==
    \A j \in Jobs :
        /\ InUse(j) => call[j] = "returned" \/ Unseen(j)
        /\ j \notin evicted /\ call[j] \in {"saved", "collided", "returned"}
              => hash[j] = "full"
        /\ call[j] # "returned" /\ ~Unseen(j) => status[j] = "waiting" /\ attempts[j] = 0

(* Inductive: who claimed a key unseen owns it until it runs out, so the   *)
(* same call, sent again, does not take its own claim for another's.       *)
ClaimsKept ==
    \A j \in Jobs :
        /\ Unseen(j) => call[j] # "none"
        /\ <<"push", j>> \in resent => KeyOf[j] = NoKey
        /\ call[j] \in {"collided", "rejected"} => KeyOf[j] # NoKey
        /\ <<"claim", j>> \in resent =>
              /\ KeyOf[j] \in Keys
              /\ call[j] = "saved" => idempotency[KeyOf[j]] = j \/ expiries[KeyOf[j]] > 0
              /\ call[j] \in {"collided", "rejected"} => expiries[KeyOf[j]] > 0

(* What a lost reply of no producer leaves alone. *)
Elsewhere ==
    /\ Respects
    /\ UNCHANGED <<call, idempotency, expiries>>
    /\ \A j \in Jobs : /\ <<"push", j>> \in resent' <=> <<"push", j>> \in resent
                       /\ <<"claim", j>> \in resent' <=> <<"claim", j>> \in resent

(* A worker writes only of the job it holds, also when it does so twice. *)
LEMMA UnseenWorkerElsewhere ==
    ASSUME TypeOK, NEW w \in Workers, UnseenWorker(w)
    PROVE  Elsewhere
  <1>0. /\ StoreTypeOK /\ WorkerTypeOK
        /\ UNCHANGED <<workerVars, watchdogVars, schedulerVars, apiVars, idempotency, call,
                       evicted, expiries>>
    BY DEF TypeOK, UnseenWorker, PollUnseen, StatusUnseen, ParkUnseen, CleanupUnseen, LoseReply,
           queueVars, faultVars
  <1>1. \E j : \E c \in Commands \ {"push", "claim"} : resent' = resent \cup {<<c, j>>}
    BY DEF UnseenWorker, PollUnseen, StatusUnseen, ParkUnseen, CleanupUnseen, LoseReply, Commands
  <1>2. ASSUME \A i \in Jobs : Stored(i)' => Stored(i) \/ i = wjob[w]
        PROVE  \A i \in Jobs : InUse(i)' => InUse(i)
    <2>1. Held(wjob[w])
      BY DEF Held, Holders
    <2> QED BY <1>0, <1>2, <2>1, UseFrame DEF InUse, Circulating
  <1>3. CASE PollUnseen(w)
    <2> DEFINE p == PRIORITIES[level[w]]
    <2>1. p \in PrioritySet /\ waiting[p] # <<>> /\ RPopLPush(p)
      BY <1>0, <1>3, LevelType DEF PollUnseen, WorkerTypeOK
    <2>2. /\ Listed(Head(waiting[p])) /\ Head(waiting[p]) \in Jobs
          /\ \A i \in Jobs : Listed(i)' => Listed(i)
      BY <1>0, <2>1, PopLists, PopType
    <2>3. processing' = [processing EXCEPT ![Head(waiting[p])] = @ + 1]
      BY <2>1 DEF RPopLPush
    <2>4. UNCHANGED <<delayed, dead, active, hashVars>>
      BY <1>3 DEF PollUnseen, aliveVars
    <2> HIDE DEF p
    <2>5. \A i \in Jobs : Stored(i)' => Stored(i)
      BY <1>0, <2>2, <2>3, <2>4 DEF Stored, StoreTypeOK
    <2> QED BY <1>0, <1>1, <1>2, <2>4, <2>5, WriteInUse DEF Elsewhere
  <1>4. CASE StatusUnseen(w)
    <2>1. wjob[w] \in Jobs /\ InUse(wjob[w])
      BY <1>0, <1>4 DEF StatusUnseen, WorkerTypeOK, InUse, Circulating, Held, Holders
    <2>2. NextAttempt(w) \in 0 .. AttemptsCap
      BY <1>0, BumpType DEF NextAttempt, WorkerTypeOK
    <2>3. \E st \in JobStatus, n \in 0 .. AttemptsCap :
             \/ HSetStatus(wjob[w], st) /\ UNCHANGED attempts
             \/ UpdateJobFields(wjob[w], st, n)
      BY <1>4, <2>2 DEF StatusUnseen, JobStatus
    <2>4. \A i \in Jobs : Stored(i)' => Stored(i)
      BY <1>4, UseFrame DEF StatusUnseen, aliveVars
    <2> QED BY <1>0, <1>1, <1>2, <2>1, <2>3, <2>4, WriteInUse DEF Elsewhere
  <1>5. CASE ParkUnseen(w) \/ CleanupUnseen(w)
    <2>1. \A i \in Jobs : Stored(i)' => Stored(i) \/ i = wjob[w]
      BY <1>0, <1>5 DEF ParkUnseen, CleanupUnseen, LRemProcessing, WorkerTypeOK, StoreTypeOK,
             Stored, Listed, aliveVars
    <2>2. UNCHANGED hashVars
      BY <1>5 DEF ParkUnseen, CleanupUnseen
    <2> QED BY <1>0, <1>1, <1>2, <2>1, <2>2, WriteInUse DEF Elsewhere
  <1> QED BY <1>3, <1>4, <1>5 DEF UnseenWorker

(* Nor do a watchdog, a scheduler and a request. *)
LEMMA UnseenPushElsewhere ==
    ASSUME TypeOK,
           \/ \E d \in Watchdogs : RequeueUnseen(d)
           \/ \E s \in Schedulers : ReleaseUnseen(s)
           \/ \E r \in Requests : RetryUnseen(r)
    PROVE  Elsewhere
  <1>0. /\ StoreTypeOK /\ WatchdogTypeOK /\ SchedulerTypeOK /\ ApiTypeOK
        /\ UNCHANGED <<workerVars, watchdogVars, schedulerVars, apiVars, idempotency, call,
                       evicted, expiries>>
    BY DEF TypeOK, RequeueUnseen, ReleaseUnseen, RetryUnseen, LoseReply, queueVars, faultVars
  <1>1. \E j : \E c \in Commands \ {"push", "claim"} : resent' = resent \cup {<<c, j>>}
    BY DEF RequeueUnseen, ReleaseUnseen, RetryUnseen, LoseReply, Commands
  <1>2. \E j \in Jobs, p \in PrioritySet, n \in 0 .. AttemptsCap :
           /\ InUse(j) /\ LPushWaiting(p, j)
           /\ \/ HSetStatus(j, "waiting") /\ UNCHANGED attempts
              \/ UpdateJobFields(j, "waiting", n)
           /\ LRemProcessing(j) \/ UNCHANGED processing
           /\ delayed' \subseteq delayed /\ dead' \subseteq dead /\ active' \subseteq active
    <2>1. ASSUME NEW d \in Watchdogs, RequeueUnseen(d)
          PROVE  /\ djob[d] \in Jobs /\ ListOf(dhash[d], djob[d]) \in PrioritySet
                 /\ Bump(dattempts[d]) \in 0 .. AttemptsCap /\ InUse(djob[d])
      BY <1>0, <2>1, ListOfType, BumpType
         DEF RequeueUnseen, WatchdogTypeOK, InUse, Circulating, Watched
    <2>2. ASSUME NEW s \in Schedulers, ReleaseUnseen(s)
          PROVE  /\ sjob[s] \in Jobs /\ sprio[s] \in PrioritySet
                 /\ 0 \in 0 .. AttemptsCap /\ InUse(sjob[s])
      BY <1>0, <2>2, StoreAssumption
         DEF ReleaseUnseen, SchedulerTypeOK, InUse, Circulating, Scheduled
    <2>3. ASSUME NEW r \in Requests, RetryUnseen(r)
          PROVE  /\ ajob[r] \in Jobs /\ Priority[ajob[r]] \in PrioritySet
                 /\ 0 \in 0 .. AttemptsCap /\ InUse(ajob[r])
      BY <1>0, <2>3, StoreAssumption DEF RetryUnseen, ApiTypeOK, InUse, Requested
    <2> QED BY <2>1, <2>2, <2>3 DEF RequeueUnseen, ReleaseUnseen, RetryUnseen, aliveVars
  <1>3. PICK j \in Jobs, p \in PrioritySet, n \in 0 .. AttemptsCap :
           /\ InUse(j) /\ LPushWaiting(p, j)
           /\ \/ HSetStatus(j, "waiting") /\ UNCHANGED attempts
              \/ UpdateJobFields(j, "waiting", n)
           /\ LRemProcessing(j) \/ UNCHANGED processing
           /\ delayed' \subseteq delayed /\ dead' \subseteq dead /\ active' \subseteq active
    BY <1>2
  <1>4. \A i \in Jobs : Listed(i)' <=> Listed(i) \/ i = j
    BY <1>0, <1>3, PushLists
  <1>5. \A i \in Jobs : processing'[i] > 0 => processing[i] > 0
    BY <1>0, <1>3 DEF LRemProcessing, StoreTypeOK
  <1>6. \A i \in Jobs : Stored(i)' => Stored(i) \/ i = j
    BY <1>3, <1>4, <1>5 DEF Stored
  <1>7. \A i \in Jobs : InUse(i)' => InUse(i)
    BY <1>0, <1>3, <1>6, UseFrame DEF InUse, Circulating
  <1>8. Respects
    BY <1>0, <1>3, <1>7, WriteInUse DEF JobStatus
  <1> QED BY <1>0, <1>1, <1>8 DEF Elsewhere

(* A push or a claim unseen brings its own id into use. *)
LEMMA UnseenUse ==
    ASSUME TypeOK, NEW j \in Jobs, PushUnseen(j) \/ ClaimUnseen(j) \/ AnswerOwn(j)
    PROVE  /\ \A i \in Jobs : InUse(i)' => InUse(i) \/ (i = j /\ Unseen(j)')
           /\ UNCHANGED <<hashVars, evicted, expiries>>
           /\ \A i \in Jobs : call'[i] # call[i] => i = j /\ call[j] = "saved"
                                                    /\ call'[j] = "returned"
           /\ \A i \in Jobs : Unseen(i) => Unseen(i)'
  <1>0. /\ StoreTypeOK /\ QueueTypeOK /\ Priority[j] \in PrioritySet
        /\ UNCHANGED <<workerVars, watchdogVars, schedulerVars, apiVars, hashVars, evicted,
                       expiries>>
    BY StoreAssumption DEF TypeOK, PushUnseen, ClaimUnseen, AnswerOwn, LoseReply, storeVars,
           faultVars
  <1>1. CASE PushUnseen(j) \/ ClaimUnseen(j)
    <2>1. \A i \in Jobs : Listed(i)' <=> Listed(i) \/ i = j
      BY <1>0, <1>1, PushLists DEF PushUnseen, ClaimUnseen
    <2>2. \A i \in Jobs : Stored(i)' => Stored(i) \/ i = j
      BY <1>1, <2>1 DEF PushUnseen, ClaimUnseen, Stored, aliveVars
    <2>3. \A i \in Jobs : Owner(i)' => Owner(i) \/ i = j
      BY <1>0, <1>1 DEF PushUnseen, ClaimUnseen, Owner, StoreTypeOK
    <2>4. \A i \in Jobs : InUse(i)' => InUse(i) \/ i = j
      BY <1>0, <2>2, <2>3, UseFrame DEF InUse, Circulating
    <2>5. UNCHANGED call /\ Unseen(j)' /\ \A i \in Jobs : Unseen(i) => Unseen(i)'
      BY <1>1 DEF PushUnseen, ClaimUnseen, LoseReply, Unseen, queueVars
    <2> QED BY <1>0, <2>4, <2>5
  <1>2. CASE AnswerOwn(j)
    <2>1. \A i \in Jobs : InUse(i)' => InUse(i)
      BY <1>0, <1>2, UseFrame DEF AnswerOwn, InUse, Circulating, storeVars, aliveVars
    <2> QED BY <1>0, <1>2, <2>1 DEF AnswerOwn, QueueTypeOK, Unseen
  <1> QED BY <1>1, <1>2

LEMMA WholeResentStep ==
    ASSUME ResendTypeOK, WholeResent, ClaimsKept, [ResendNext]_resendVars
    PROVE  WholeResent'
  <1>0. TypeOK
    BY DEF ResendTypeOK
  <1>1. CASE Respects /\ \A j \in Jobs : Unseen(j)' <=> Unseen(j)
    BY <1>1 DEF Respects, WholeResent
  <1>2. ASSUME NEW j \in Jobs, Producer(j), UNCHANGED resent PROVE WholeResent'
    <2>1. \A i \in Jobs : Unseen(i)' <=> Unseen(i)
      BY <1>2 DEF Unseen
    <2>2. \A i \in Jobs : InUse(i)' => call'[i] = "returned" \/ Unseen(i)'
      <3>1. \A i \in Jobs : InUse(i)' => InUse(i) \/ call'[i] = "returned"
        BY <1>0, <1>2, UseProducer
      <3> QED BY <1>0, <1>2, <2>1, <3>1, ProducerWrites DEF WholeResent
    <2> QED BY <1>0, <1>2, <2>1, <2>2, ProducerWrites DEF WholeResent
  <1>3. CASE Seen
    <2>1. UNCHANGED resent => \A j \in Jobs : Unseen(j)' <=> Unseen(j)
      BY DEF Unseen
    <2> QED BY <1>0, <1>1, <1>2, <1>3, <2>1, OthersRespect DEF Seen
  <1>4. CASE Elsewhere
    BY <1>1, <1>4 DEF Elsewhere, Unseen
  <1>5. ASSUME NEW j \in Jobs, PushUnseen(j) \/ ClaimUnseen(j) \/ AnswerOwn(j)
        PROVE  WholeResent'
    BY <1>0, <1>5, UnseenUse DEF WholeResent, hashVars
  <1> QED BY <1>0, <1>3, <1>4, <1>5, ResendSteps, UnseenWorkerElsewhere, UnseenPushElsewhere

LEMMA ClaimsKeptStep ==
    ASSUME ResendTypeOK, ClaimsKept, [ResendNext]_resendVars
    PROVE  ClaimsKept'
  <1>0. /\ TypeOK /\ call \in [Jobs -> CallState]
        /\ idempotency \in [Keys -> Jobs \cup {NoJob}]
        /\ expiries \in [Keys -> Nat]
    BY DistriAssumption DEF ResendTypeOK, TypeOK, QueueTypeOK, StoreTypeOK
  <1>1. CASE UNCHANGED <<call, claimed, idempotency, expiries, resent>>
    BY <1>1 DEF ClaimsKept, Unseen
  <1>2. CASE Elsewhere
    BY <1>2 DEF Elsewhere, ClaimsKept, Unseen
  <1>3. ASSUME NEW j \in Jobs, Producer(j), UNCHANGED resent PROVE ClaimsKept'
    <2>0. UNCHANGED expiries /\ KeyOf[j] \in Keys \cup {NoKey}
      BY <1>3, StoreAssumption DEF Producer, faultVars
    <2>1. CASE SaveJob(j) \/ PushJob(j) \/ DropDuplicate(j)
      BY <1>0, <1>3, <2>0, <2>1 DEF SaveJob, PushJob, DropDuplicate, ClaimsKept, Unseen
    <2>2. CASE ClaimKey(j)
      BY <1>0, <1>3, <2>0, <2>2, StoreAssumption DEF ClaimKey, ClaimsKept, Unseen
    <2>3. CASE LoseKey(j)
      BY <1>0, <1>3, <2>0, <2>3 DEF LoseKey, ClaimsKept, Unseen, storeVars
    <2> QED BY <1>3, <2>1, <2>2, <2>3 DEF Producer, SdkEnqueue, Enqueue
  <1>4. ASSUME NEW k \in Keys, KeyTtl(k), UNCHANGED resent PROVE ClaimsKept'
    <2>1. \A l \in Keys : IF l = k THEN expiries'[l] > 0
                          ELSE expiries'[l] = expiries[l] /\ idempotency'[l] = idempotency[l]
      BY <1>0, <1>4 DEF KeyTtl, KeyExpires
    <2>2. UNCHANGED call
      BY <1>4 DEF KeyTtl, KeyExpires, queueVars
    <2> QED BY <1>4, <2>1, <2>2 DEF ClaimsKept, Unseen
  <1>5. CASE Seen
    BY <1>1, <1>3, <1>4, <1>5, KeyFrame DEF Seen
  <1>6. ASSUME NEW j \in Jobs, PushUnseen(j) \/ ClaimUnseen(j) \/ AnswerOwn(j)
        PROVE  ClaimsKept'
    <2>0. UNCHANGED expiries /\ KeyOf[j] \in Keys \cup {NoKey} /\ j # NoJob
      BY <1>0, <1>6, UnseenUse, StoreAssumption
    <2>1. CASE PushUnseen(j)
      BY <1>0, <2>0, <2>1 DEF PushUnseen, LoseReply, queueVars, ClaimsKept, Unseen
    <2>2. CASE ClaimUnseen(j)
      BY <1>0, <2>0, <2>2, StoreAssumption
         DEF ClaimUnseen, LoseReply, queueVars, ClaimsKept, Unseen
    <2>3. CASE AnswerOwn(j)
      BY <1>0, <2>0, <2>3 DEF AnswerOwn, storeVars, ClaimsKept, Unseen
    <2> QED BY <1>6, <2>1, <2>2, <2>3
  <1> QED BY <1>0, <1>2, <1>5, <1>6, ResendSteps, UnseenWorkerElsewhere, UnseenPushElsewhere

(* What is inductive so far, in one piece. *)
ResendBase == ResendTypeOK /\ WholeResent /\ ClaimsKept

LEMMA AlwaysResendBase == ResendSpec => []ResendBase
  <1>1. ResendInit => WholeResent /\ ClaimsKept
    BY WholeInit DEF ResendInit, Whole, WholeResent, ClaimsKept, Unseen, Init, QueueInit
  <1>2. ResendTypeOK /\ WholeResent /\ ClaimsKept /\ [ResendNext]_resendVars
        => WholeResent' /\ ClaimsKept'
    BY WholeResentStep, ClaimsKeptStep
  <1>3. ResendTypeOK /\ WholeResent /\ ClaimsKept => ResendBase
    BY DEF ResendBase
  <1> QED BY <1>1, <1>2, <1>3, ResendTypes, PTL DEF ResendSpec

(* The hash that an enqueue deletes because it lost its key (Queue.ts 70)  *)
(* is that of no job a worker or a list holds, however often the claim is  *)
(* executed: the script (idempotentEnqueue.lua) returns the caller's own   *)
(* id to a caller that is the owner.  Only when the key ran out between    *)
(* two executions of the claim does the second one find another owner.     *)
THEOREM OnlyIdleDuplicates == ResendSpec => []DuplicatesAreIdle
  <1>1. ResendBase => DuplicatesAreIdle
    BY DEF ResendBase, WholeResent, ClaimsKept, Unseen, InUse, DuplicatesAreIdle
  <1> QED BY <1>1, AlwaysResendBase, PTL

-------------------------------------------------------------------------------
(* Losing a job.                                                           *)

(* The job has been put on a list at least once, seen or unseen. *)
Out(j) == call[j] = "returned" \/ (call[j] = "saved" /\ Unseen(j))

(* What an execution unseen may do to where job i is. *)
Unmoved(i) ==
    /\ UNCHANGED <<workerVars, watchdogVars, evicted>>
    /\ robbed \subseteq robbed' /\ resent \subseteq resent'
    /\ Listed(i) => \/ Listed(i)'
                    \/ <<"poll", i>> \in resent' /\ processing'[i] = processing[i] + 1
    /\ Kept(i) => Kept(i)' \/ Listed(i)'
    /\ \/ processing'[i] >= processing[i]
       \/ Listed(i)'
       \/ <<"cleanup", i>> \in resent' /\ (Labels => i \in Handled)
    /\ i \in abandoned => i \in abandoned' \/ Listed(i)'
    /\ Counted(i) /\ i \notin robbed' => Counted(i)' \/ <<"cleanup", i>> \in resent'

(* One that pushes an id or leaves the lists alone takes no job away. *)
LEMMA MovesNothing ==
    ASSUME TypeOK, NEW i \in Jobs,
           UNCHANGED <<workerVars, watchdogVars, evicted, robbed, processing>>,
           resent \subseteq resent', Listed(i) => Listed(i)', Kept(i) => Kept(i)' \/ Listed(i)',
           i \in abandoned => i \in abandoned' \/ Listed(i)'
    PROVE  Unmoved(i)
  <1>1. processing'[i] >= processing[i]
    BY DEF TypeOK, StoreTypeOK
  <1>2. Counted(i) => Counted(i)'
    BY DEF Counted, Holders, workerVars
  <1> QED BY <1>1, <1>2 DEF Unmoved

LEMMA UnseenProducerMoves ==
    ASSUME TypeOK, NEW j \in Jobs, PushUnseen(j) \/ ClaimUnseen(j) \/ AnswerOwn(j),
           NEW i \in Jobs
    PROVE  /\ Unmoved(i)
           /\ PushUnseen(j) \/ ClaimUnseen(j) => Listed(j)'
  <1>0. /\ UNCHANGED <<workerVars, watchdogVars, evicted, robbed, abandoned, done, processing,
                       delayed, dead>>
        /\ resent \subseteq resent'
    BY DEF PushUnseen, ClaimUnseen, AnswerOwn, LoseReply, storeVars, listVars, faultVars,
           historyVars
  <1>1. CASE PushUnseen(j) \/ ClaimUnseen(j)
    <2>1. Priority[j] \in PrioritySet /\ LPushWaiting(Priority[j], j)
      BY <1>1, StoreAssumption DEF PushUnseen, ClaimUnseen
    <2>2. \A k \in Jobs : Listed(k)' <=> Listed(k) \/ k = j
      BY <2>1, PushLists DEF TypeOK
    <2> QED BY <1>0, <2>2, MovesNothing DEF Kept
  <1>2. CASE AnswerOwn(j) /\ ~PushUnseen(j) /\ ~ClaimUnseen(j)
    <2>1. Listed(i)' <=> Listed(i)
      BY <1>2 DEF AnswerOwn, storeVars, listVars, Listed
    <2> QED BY <1>0, <1>2, <2>1, MovesNothing DEF Kept
  <1> QED BY <1>1, <1>2

LEMMA UnseenWorkerMoves ==
    ASSUME TypeOK, NEW w \in Workers, UnseenWorker(w), NEW i \in Jobs
    PROVE  Unmoved(i)
  <1>0. /\ StoreTypeOK /\ WorkerTypeOK /\ processing[i] \in Nat
        /\ UNCHANGED <<workerVars, watchdogVars, evicted, robbed, abandoned>>
        /\ resent \subseteq resent'
    BY DEF TypeOK, StoreTypeOK, UnseenWorker, PollUnseen, StatusUnseen, ParkUnseen,
           CleanupUnseen, LoseReply, faultVars, historyVars
  <1>1. CASE PollUnseen(w)
    <2> DEFINE p == PRIORITIES[level[w]]
    <2>1. p \in PrioritySet /\ waiting[p] # <<>> /\ RPopLPush(p)
      BY <1>0, <1>1, LevelType DEF PollUnseen, WorkerTypeOK
    <2>2. PICK h \in Jobs : h = Head(waiting[p])
      BY <1>0, <2>1, PopType
    <2>3. Listed(i) => Listed(i)' \/ i = h
      BY <1>0, <2>1, <2>2, PopLists
    <2>4. processing' = [processing EXCEPT ![h] = @ + 1] /\ <<"poll", h>> \in resent'
      BY <1>1, <2>1, <2>2 DEF RPopLPush, PollUnseen, LoseReply
    <2> HIDE DEF p
    <2>5. UNCHANGED <<delayed, dead, done>>
      BY <1>1 DEF PollUnseen, historyVars
    <2>6. CASE i # h
      <3>1. processing'[i] = processing[i]
        BY <1>0, <2>2, <2>4, <2>6 DEF StoreTypeOK
      <3>2. Counted(i) => Counted(i)'
        BY <1>0, <3>1 DEF Counted, Holders, workerVars
      <3> QED BY <1>0, <2>3, <2>5, <2>6, <3>1, <3>2 DEF Unmoved, Kept
    <2>7. CASE i = h
      <3>1. processing'[i] = processing[i] + 1
        BY <1>0, <2>4, <2>7 DEF StoreTypeOK
      <3>2. Counted(i) => Counted(i)'
        <4>1. Cardinality(Holders(i)) \in Nat /\ Holders(i)' = Holders(i)
          BY <1>0, HoldersFinite DEF Holders, workerVars
        <4> DEFINE n == Cardinality(Holders(i))
        <4>2. Cardinality(Holders(i)') = n /\ n \in Nat
          BY <4>1
        <4>3. Counted(i) => n <= processing[i]
          BY DEF Counted
        <4> HIDE DEF n
        <4>4. Counted(i) => n <= processing'[i]
          BY <1>0, <3>1, <4>2, <4>3
        <4> QED BY <4>2, <4>4 DEF Counted
      <3>3. processing'[i] >= processing[i]
        BY <1>0, <3>1
      <3> QED BY <1>0, <2>4, <2>5, <2>7, <3>1, <3>2, <3>3 DEF Unmoved, Kept
    <2> QED BY <2>6, <2>7
  <1>2. CASE StatusUnseen(w) \/ ParkUnseen(w)
    <2>1. Listed(i)' <=> Listed(i)
      BY <1>2 DEF StatusUnseen, ParkUnseen, listVars, Listed
    <2>2. UNCHANGED processing /\ (Kept(i) => Kept(i)')
      BY <1>2 DEF StatusUnseen, ParkUnseen, listVars, historyVars, Kept
    <2> QED BY <1>0, <2>1, <2>2, MovesNothing
  <1>3. CASE CleanupUnseen(w)
    <2>1. /\ wjob[w] \in Jobs /\ LRemProcessing(wjob[w]) /\ <<"cleanup", wjob[w]>> \in resent'
          /\ wpc[w] = "cleanup"
      BY <1>0, <1>3 DEF CleanupUnseen, WorkerTypeOK, LoseReply
    <2>2. (Listed(i) => Listed(i)') /\ (Kept(i) => Kept(i)') /\ UNCHANGED abandoned
      BY <1>3 DEF CleanupUnseen, historyVars, Kept, Listed
    <2>3. CASE i = wjob[w]
      <3>1. Labels => i \in Handled
        BY <2>1, <2>3 DEF Labels
      <3> QED BY <1>0, <2>1, <2>2, <2>3, <3>1 DEF Unmoved
    <2>4. CASE i # wjob[w]
      <3>1. processing'[i] = processing[i]
        BY <1>0, <2>1, <2>4 DEF StoreTypeOK, LRemProcessing
      <3>2. Counted(i) => Counted(i)'
        BY <1>0, <3>1 DEF Counted, Holders, workerVars
      <3> QED BY <1>0, <2>2, <3>1, <3>2 DEF Unmoved
    <2> QED BY <2>3, <2>4
  <1> QED BY <1>1, <1>2, <1>3 DEF UnseenWorker

LEMMA UnseenPushMoves ==
    ASSUME TypeOK, StoreTypeOK',
           \/ \E d \in Watchdogs : RequeueUnseen(d)
           \/ \E s \in Schedulers : ReleaseUnseen(s)
           \/ \E r \in Requests : RetryUnseen(r),
           NEW i \in Jobs
    PROVE  Unmoved(i)
  <1>0. /\ StoreTypeOK /\ WatchdogTypeOK /\ SchedulerTypeOK /\ ApiTypeOK
        /\ UNCHANGED <<workerVars, watchdogVars, evicted>>
        /\ resent \subseteq resent' /\ processing[i] \in Nat /\ processing'[i] \in Nat
    BY DEF TypeOK, StoreTypeOK, RequeueUnseen, ReleaseUnseen, RetryUnseen, LoseReply, faultVars
  <1>1. ASSUME NEW d \in Watchdogs, RequeueUnseen(d) PROVE Unmoved(i)
    <2>1. djob[d] \in Jobs /\ LRemProcessing(djob[d]) /\ Robs(d)
      BY <1>0, <1>1 DEF RequeueUnseen, WatchdogTypeOK
    <2>2. Listed(i)' <=> Listed(i) \/ i = djob[d]
      BY <1>0, <1>1, <2>1, PushLists, ListOfType DEF RequeueUnseen
    <2>3. /\ UNCHANGED <<delayed, dead, done>> /\ abandoned' = abandoned \ {djob[d]}
          /\ robbed \subseteq robbed'
      BY <1>1, <2>1 DEF RequeueUnseen, Robs
    <2>4. i # djob[d] => processing'[i] = processing[i]
      BY <1>0, <2>1 DEF LRemProcessing, StoreTypeOK
    <2>5. processing'[i] >= processing[i] \/ Listed(i)'
      BY <1>0, <2>2, <2>4
    <2>6. Counted(i) /\ i \notin robbed' => Counted(i)'
      BY <1>0, <2>1, CountedRobbed
    <2>7. /\ Listed(i) => Listed(i)'
          /\ Kept(i) => Kept(i)' \/ Listed(i)'
          /\ i \in abandoned => i \in abandoned' \/ Listed(i)'
      BY <2>2, <2>3 DEF Kept
    <2> QED BY <1>0, <2>3, <2>5, <2>6, <2>7 DEF Unmoved
  <1>2. ASSUME NEW s \in Schedulers, ReleaseUnseen(s) PROVE Unmoved(i)
    <2>1. sjob[s] \in Jobs /\ sprio[s] \in PrioritySet
      BY <1>0, <1>2 DEF ReleaseUnseen, SchedulerTypeOK
    <2>2. Listed(i)' <=> Listed(i) \/ i = sjob[s]
      BY <1>0, <1>2, <2>1, PushLists DEF ReleaseUnseen
    <2> QED BY <1>0, <1>2, <2>2, MovesNothing DEF ReleaseUnseen, Kept
  <1>3. ASSUME NEW r \in Requests, RetryUnseen(r) PROVE Unmoved(i)
    <2>1. ajob[r] \in Jobs /\ Priority[ajob[r]] \in PrioritySet
      BY <1>0, <1>3, StoreAssumption DEF RetryUnseen, ApiTypeOK
    <2>2. Listed(i)' <=> Listed(i) \/ i = ajob[r]
      BY <1>0, <1>3, <2>1, PushLists DEF RetryUnseen
    <2> QED BY <1>0, <1>3, <2>2, MovesNothing DEF RetryUnseen, Kept
  <1> QED BY <1>1, <1>2, <1>3

(* Inductive: a watchdog that read no hash read that of an evicted job, or *)
(* of a duplicate that had owned a key for a while.                        *)
MissingExplained ==
    \A d \in Watchdogs :
        djob[d] # NoJob /\ dhash[d] = "absent"
            => djob[d] \in evicted \/ call[djob[d]] = "rejected"

(* Inductive: the counts and places of DistriLoss, for the jobs of which   *)
(* nobody removed a token twice, or popped one unseen.                     *)
CountedResent ==
    \A j \in Jobs \ robbed : <<"cleanup", j>> \in resent \/ Counted(j)

UnhandledResent ==
    \A j \in Jobs \ (Handled \cup evicted) : Out(j) => Listed(j) \/ processing[j] > 0

TokenResent ==
    \A j \in Jobs \ (evicted \cup robbed) :
        Out(j) => <<"cleanup", j>> \in resent \/ Covered(j)

WorkerResent ==
    \A j \in Jobs \ (evicted \cup abandoned) :
        Out(j) => <<"poll", j>> \in resent \/ InReach(j)

LossBase == ResendBase /\ Labels /\ MissingExplained /\ CountedResent

(* A rejected call stays rejected, and a job is out when it is listed. *)
LEMMA SeenCalls ==
    ASSUME LossBase, Seen, NEW i \in Jobs
    PROVE  /\ call[i] = "rejected" => call'[i] = "rejected"
           /\ Out(i)' => Out(i) \/ Listed(i)'
           /\ Unseen(i)' <=> Unseen(i)
  <1>0. /\ TypeOK /\ call \in [Jobs -> CallState] /\ (Unseen(i)' <=> Unseen(i))
        /\ Unseen(i) => call[i] # "none"
    BY DEF LossBase, ResendBase, ResendTypeOK, TypeOK, QueueTypeOK, Seen, Unseen, ClaimsKept
  <1>1. \/ UNCHANGED call
        \/ \E j \in Jobs : Producer(j)
    BY KeyFrame DEF Seen, KeyTtl, KeyExpires, queueVars
  <1>2. /\ call[i] = "rejected" => call'[i] = "rejected"
        /\ call'[i] = "saved" => call[i] \in {"none", "saved"}
    BY <1>0, <1>1 DEF Producer, SdkEnqueue, Enqueue, SaveJob, PushJob, ClaimKey, LoseKey,
                      DropDuplicate
  <1>3. call'[i] = "returned" => call[i] = "returned" \/ Listed(i)'
    BY <1>0, CallReturns DEF Seen
  <1> QED BY <1>0, <1>2, <1>3 DEF Out

(* Who loses a reply learns nothing, and nothing is forgotten. *)
LEMMA UnseenFrame ==
    ASSUME ~Seen, [ResendNext]_resendVars
    PROVE  /\ UNCHANGED <<workerVars, watchdogVars, schedulerVars, apiVars, evicted>>
           /\ robbed \subseteq robbed' /\ resent \subseteq resent'
  BY ResendSteps
     DEF UnseenWorker, PushUnseen, ClaimUnseen, AnswerOwn, PollUnseen, StatusUnseen, ParkUnseen,
         CleanupUnseen, RequeueUnseen, ReleaseUnseen, RetryUnseen, Robs, LoseReply, faultVars,
         historyVars

(* A claim that is answered as the caller's own was executed unseen. *)
LEMMA UnseenCalls ==
    ASSUME LossBase, ~Seen, [ResendNext]_resendVars, NEW i \in Jobs
    PROVE  /\ Unmoved(i)
           /\ call[i] = "rejected" => call'[i] = "rejected"
           /\ Out(i)' => Out(i) \/ Listed(i)'
  <1>0. TypeOK /\ StoreTypeOK' /\ WholeResent
    BY ResendTypeStep DEF LossBase, ResendBase, ResendTypeOK, TypeOK
  <1>1. CASE Elsewhere /\ Unmoved(i)
    BY <1>1 DEF Elsewhere, Out, Unseen
  <1>2. ASSUME NEW j \in Jobs, PushUnseen(j) \/ ClaimUnseen(j)
        PROVE  /\ Unmoved(i)
               /\ call[i] = "rejected" => call'[i] = "rejected"
               /\ Out(i)' => Out(i) \/ Listed(i)'
    <2>1. UNCHANGED call /\ \A k \in Jobs \ {j} : Unseen(k)' <=> Unseen(k)
      BY <1>2 DEF PushUnseen, ClaimUnseen, LoseReply, queueVars, Unseen
    <2> QED BY <1>0, <1>2, <2>1, UnseenProducerMoves DEF Out
  <1>3. ASSUME NEW j \in Jobs, AnswerOwn(j)
        PROVE  /\ Unmoved(i)
               /\ call[i] = "rejected" => call'[i] = "rejected"
               /\ Out(i)' => Out(i) \/ Listed(i)'
    <2>1. InUse(j)
      BY <1>3, StoreAssumption DEF AnswerOwn, InUse, Circulating, Owner
    <2>2. Out(j)
      BY <1>0, <1>3, <2>1 DEF WholeResent, AnswerOwn, Out
    <2>3. \A k \in Jobs \ {j} : call'[k] = call[k] /\ (Unseen(k)' <=> Unseen(k))
      BY <1>0, <1>3 DEF AnswerOwn, TypeOK, QueueTypeOK, Unseen
    <2> QED BY <1>0, <1>3, <2>2, <2>3, UnseenProducerMoves DEF Out, AnswerOwn
  <1> QED BY <1>0, <1>1, <1>2, <1>3, ResendSteps, UnseenWorkerMoves, UnseenPushMoves,
             UnseenWorkerElsewhere, UnseenPushElsewhere

LEMMA LossBaseStep ==
    ASSUME LossBase, [ResendNext]_resendVars
    PROVE  Labels' /\ MissingExplained' /\ CountedResent'
  <1>0. /\ TypeOK /\ StoreTypeOK' /\ WholeResent /\ ClaimsKept /\ WatchdogTypeOK
        /\ Labels /\ MissingExplained /\ CountedResent
    BY ResendTypeStep DEF LossBase, ResendBase, ResendTypeOK, TypeOK
  <1>1. CASE Seen
    <2>1. [Next]_vars /\ UNCHANGED resent
      BY <1>1 DEF Seen
    <2>2. Labels'
      BY <1>0, <2>1, LabelsStep
    <2>3. ASSUME NEW d \in Watchdogs, djob'[d] # NoJob, dhash'[d] = "absent"
          PROVE  djob'[d] \in evicted' \/ call'[djob'[d]] = "rejected"
      <3>1. CASE djob'[d] = djob[d] /\ dhash[d] = "absent"
        <4>1. djob[d] \in Jobs
          BY <1>0, <2>3, <3>1 DEF WatchdogTypeOK
        <4> QED BY <1>0, <1>1, <2>1, <2>3, <3>1, <4>1, SeenCalls, Monotone DEF MissingExplained
      <3>2. CASE djob'[d] \in dids[d] /\ hash[djob'[d]] = "absent"
        <4>1. PICK j \in Jobs : j = djob'[d] /\ j \in dids[d]
          BY <1>0, <3>2 DEF WatchdogTypeOK
        <4>2. InUse(j) /\ hash[j] = "absent"
          BY <3>2, <4>1 DEF InUse, Circulating, Watched
        <4>3. j \in evicted \/ call[j] = "rejected"
          BY <1>0, <4>2 DEF WholeResent, ClaimsKept, TypeOK, QueueTypeOK, CallState
        <4> QED BY <1>1, <2>1, <4>1, <4>3, SeenCalls, Monotone
      <3> QED BY <1>0, <2>1, <2>3, <3>1, <3>2, HashRead
    <2>4. CountedResent'
      BY <1>0, <2>1, CountedStep, Monotone DEF CountedResent
    <2> QED BY <2>2, <2>3, <2>4 DEF MissingExplained
  <1>2. CASE ~Seen
    <2>1. /\ UNCHANGED <<workerVars, watchdogVars, evicted>>
          /\ \A i \in Jobs : Unmoved(i) /\ (call[i] = "rejected" => call'[i] = "rejected")
      BY <1>2, UnseenFrame, UnseenCalls
    <2>2. Labels'
      BY <1>0, <2>1 DEF Labels, workerVars
    <2>3. MissingExplained'
      BY <1>0, <2>1 DEF MissingExplained, watchdogVars, WatchdogTypeOK
    <2>4. CountedResent'
      BY <1>0, <2>1, UnseenFrame, <1>2 DEF Unmoved, CountedResent
    <2> QED BY <2>2, <2>3, <2>4
  <1> QED BY <1>1, <1>2

LEMMA AlwaysLossBase == ResendSpec => []LossBase
  <1>1. ResendInit => Labels /\ MissingExplained /\ CountedResent
    <2> SUFFICES ASSUME ResendInit PROVE Labels /\ MissingExplained /\ CountedResent
      OBVIOUS
    <2>1. Labels /\ MissingExplained
      BY DEF ResendInit, Init, WorkerInit, WatchdogInit, Labels, MissingExplained
    <2>2. Accounted
      BY TypeInit, AccountedInit DEF ResendInit
    <2> QED BY <2>1, <2>2 DEF Accounted, Counted, CountedResent
  <1>2. LossBase /\ [ResendNext]_resendVars => Labels' /\ MissingExplained' /\ CountedResent'
    BY LossBaseStep
  <1>3. ResendBase /\ Labels /\ MissingExplained /\ CountedResent <=> LossBase
    BY DEF LossBase
  <1> QED BY <1>1, <1>2, <1>3, AlwaysResendBase, PTL DEF ResendSpec

(* What a fetch or a watchdog reads of a job that is out is its whole hash. *)
LEMMA OutIsSound ==
    ASSUME LossBase, NEW i \in Jobs, i \notin evicted, Out(i)
    PROVE  Sound(i)
  BY StoreAssumption DEF LossBase, ResendBase, WholeResent, MissingExplained, Out, Sound

(* Seen or unseen, no step takes away the token of a job nobody handles. *)
LEMMA UnhandledResentStep ==
    ASSUME LossBase, UnhandledResent, [ResendNext]_resendVars
    PROVE  UnhandledResent'
  <1> SUFFICES ASSUME NEW i \in Jobs, i \notin Handled, i \notin evicted', Out(i)', ~Listed(i)'
               PROVE  processing'[i] > 0
    BY DEF UnhandledResent
  <1>0. /\ TypeOK /\ StoreTypeOK' /\ Labels
        /\ processing[i] \in Nat /\ processing'[i] \in Nat
    BY ResendTypeStep DEF LossBase, ResendBase, ResendTypeOK, TypeOK, StoreTypeOK
  <1>1. Out(i) /\ i \notin evicted
    BY SeenCalls, UnseenCalls, UnseenFrame, Monotone DEF Seen
  <1>2. Sound(i) /\ (Listed(i) \/ processing[i] > 0)
    BY <1>1, OutIsSound DEF UnhandledResent
  <1>3. CASE Seen
    BY <1>0, <1>2, <1>3, TokenKept DEF Seen
  <1>4. CASE ~Seen
    <2>1. Unmoved(i)
      BY <1>4, UnseenCalls
    <2>2. CASE processing[i] > 0
      BY <1>0, <2>1, <2>2 DEF Unmoved
    <2>3. CASE Listed(i)
      <3>1. processing'[i] = processing[i] + 1
        BY <2>1, <2>3 DEF Unmoved
      <3> QED BY <1>0, <3>1
    <2> QED BY <1>2, <2>2, <2>3
  <1> QED BY <1>3, <1>4

(* Only a worker's crash and a pop whose reply is lost take it from reach. *)
LEMMA WorkerResentStep ==
    ASSUME LossBase, WorkerResent, [ResendNext]_resendVars
    PROVE  WorkerResent'
  <1> SUFFICES ASSUME NEW i \in Jobs, i \notin evicted', i \notin abandoned', Out(i)',
                      ~Listed(i)', <<"poll", i>> \notin resent'
               PROVE  InReach(i)'
    BY DEF WorkerResent, InReach, Safe
  <1>0. TypeOK /\ Labels
    BY DEF LossBase, ResendBase, ResendTypeOK
  <1>1. Out(i) /\ i \notin evicted /\ <<"poll", i>> \notin resent
    BY SeenCalls, UnseenCalls, UnseenFrame, Monotone DEF Seen
  <1>2. CASE Seen
    <2>1. i \notin abandoned
      BY <1>0, <1>2, IndexLost DEF Seen
    <2>2. Sound(i) /\ InReach(i)
      BY <1>1, <2>1, OutIsSound DEF WorkerResent
    <2> QED BY <1>0, <1>2, <2>2, WorkerKept DEF Seen
  <1>3. CASE ~Seen
    <2>1. Unmoved(i)
      BY <1>3, UnseenCalls
    <2>2. InReach(i)
      BY <1>1, <2>1 DEF WorkerResent, Unmoved
    <2>3. Undecided(i)' = Undecided(i)
      BY <2>1 DEF Unmoved, Undecided, Holders, workerVars
    <2> QED BY <2>1, <2>2, <2>3 DEF Unmoved, InReach, Safe
  <1> QED BY <1>2, <1>3

(* Only a robbery and a clean-up executed twice take its token.            *)
LEMMA TokenResentStep ==
    ASSUME LossBase, TokenResent, [ResendNext]_resendVars
    PROVE  TokenResent'
  <1> SUFFICES ASSUME NEW i \in Jobs, i \notin evicted', i \notin robbed', Out(i)',
                      ~Listed(i)', <<"cleanup", i>> \notin resent'
               PROVE  Covered(i)'
    BY DEF TokenResent, Covered, Safe
  <1>0. TypeOK /\ StoreTypeOK' /\ Labels
    BY ResendTypeStep DEF LossBase, ResendBase, ResendTypeOK, TypeOK
  <1>1. /\ Out(i) /\ i \notin evicted /\ i \notin robbed /\ <<"cleanup", i>> \notin resent
    BY SeenCalls, UnseenCalls, UnseenFrame, Monotone DEF Seen
  <1>2. Sound(i) /\ Counted(i) /\ Covered(i)
    BY <1>1, OutIsSound DEF LossBase, CountedResent, TokenResent
  <1>3. CASE Seen
    BY <1>0, <1>2, <1>3, TokenCovers DEF Seen
  <1>4. CASE ~Seen
    <2>1. Unmoved(i)
      BY <1>4, UnseenCalls
    <2>2. /\ Cleaning(i)' = Cleaning(i) /\ Cardinality(Cleaning(i)) \in Nat
          /\ Cardinality(Cleaning(i)) <= processing[i]
          /\ processing[i] \in Nat /\ processing'[i] \in Nat
      <3> DEFINE n == Cardinality(Cleaning(i))
                 m == Cardinality(Holders(i))
      <3>1. Cleaning(i)' = Cleaning(i)
        BY <2>1 DEF Unmoved, Cleaning, Holders, workerVars
      <3>2. n \in Nat /\ m \in Nat /\ n <= m
        BY HoldersFinite DEF Cleaning
      <3>3. m <= processing[i] /\ processing[i] \in Nat /\ processing'[i] \in Nat
        BY <1>0, <1>2 DEF Counted, TypeOK, StoreTypeOK
      <3> HIDE DEF n, m
      <3>4. n <= processing[i]
        BY <3>2, <3>3
      <3> QED BY <3>1, <3>2, <3>3, <3>4 DEF n
    <2> DEFINE n == Cardinality(Cleaning(i))
    <2>3. Covered(i) <=> Safe(i) \/ n < processing[i]
      BY DEF Covered
    <2>4. Covered(i)' <=> Safe(i)' \/ n < processing'[i]
      BY <2>2 DEF Covered
    <2>5. /\ n \in Nat /\ n <= processing[i]
          /\ processing[i] \in Nat /\ processing'[i] \in Nat
      BY <2>2
    <2> HIDE DEF n
    <2>6. CASE Safe(i)
      <3>1. Safe(i)' \/ processing'[i] = processing[i] + 1
        BY <2>1, <2>6 DEF Unmoved, Safe
      <3> QED BY <2>4, <2>5, <3>1
    <2>7. CASE n < processing[i]
      <3>1. processing'[i] >= processing[i]
        BY <2>1 DEF Unmoved
      <3> QED BY <2>4, <2>5, <2>7, <3>1
    <2> QED BY <1>2, <2>3, <2>6, <2>7
  <1> QED BY <1>3, <1>4

(* A lost reply by itself loses no job: it takes a crash or a pop executed *)
(* unseen (WorkerPool.ts 86), and a robbery or a clean-up executed twice   *)
(* (WorkerPool.ts 185-189).                                                *)
THEOREM ResendLossNeedsTwo == ResendSpec => []LossNeedsTwo
  <1>1. ResendInit => UnhandledResent /\ TokenResent /\ WorkerResent
    BY DEF ResendInit, Init, QueueInit, UnhandledResent, TokenResent, WorkerResent, Out
  <1>2. LossBase /\ UnhandledResent /\ TokenResent /\ WorkerResent /\ [ResendNext]_resendVars
        => UnhandledResent' /\ TokenResent' /\ WorkerResent'
    BY UnhandledResentStep, TokenResentStep, WorkerResentStep
  <1>3. LossBase /\ UnhandledResent /\ TokenResent /\ WorkerResent => LossNeedsTwo
    <2> SUFFICES ASSUME LossBase, UnhandledResent, TokenResent, WorkerResent, NEW j \in Jobs,
                        call[j] = "returned", j \notin evicted, ~Findable(j)
                 PROVE  /\ j \in abandoned \/ <<"poll", j>> \in resent
                        /\ j \in robbed \/ <<"cleanup", j>> \in resent
      BY DEF LossNeedsTwo
    <2>1. TypeOK /\ Out(j)
      BY DEF LossBase, ResendBase, ResendTypeOK, Out
    <2>2. ~Covered(j) /\ ~(InReach(j) /\ (j \notin Handled => Listed(j) \/ processing[j] > 0))
      BY <2>1, FoundBy
    <2> QED BY <2>1, <2>2 DEF UnhandledResent, TokenResent, WorkerResent
  <1> QED BY <1>1, <1>2, <1>3, AlwaysLossBase, PTL DEF ResendSpec

-------------------------------------------------------------------------------
(* Running a job twice.                                                    *)

(* What RunTwiceNeedsPushOrVerdict blames.                                 *)
Dirty(j) ==
    \/ \E c \in Pushes \cup Verdicts : <<c, j>> \in resent
    \/ <<"claim", j>> \in resent /\ expiries[KeyOf[j]] > 0

(* Inductive: any other job that has a handler is in one place.  Its       *)
(* status may be ahead of the worker that has it, never with a verdict.    *)
AloneResent == \A j \in Handled : Dirty(j) \/ Alone(j)

(* A job that two pushes were sent for stays one. *)
LEMMA StaysDirty ==
    ASSUME ResendBase, [ResendNext]_resendVars, NEW j \in Jobs, Dirty(j)
    PROVE  Dirty(j)'
  <1>0. TypeOK /\ (<<"claim", j>> \in resent => KeyOf[j] \in Keys)
    BY DEF ResendBase, ResendTypeOK, ClaimsKept
  <1>1. resent \subseteq resent'
    <2>1. CASE Seen
      BY <2>1 DEF Seen
    <2> QED BY <2>1, UnseenFrame
  <1>2. \A k \in Keys : expiries[k] > 0 => expiries'[k] > 0
    <2>1. ASSUME NEW k \in Keys, KeyTtl(k) PROVE \A l \in Keys : expiries[l] > 0 => expiries'[l] > 0
      <3>1. expiries \in [Keys -> 0 .. MaxExpiries] /\ MaxExpiries \in Nat
        BY <1>0, DistriAssumption DEF TypeOK
      <3> QED BY <2>1, <3>1 DEF KeyTtl
    <2>2. CASE Seen
      <3>1. ASSUME NEW i \in Jobs, Producer(i) PROVE UNCHANGED expiries
        BY <3>1 DEF Producer, faultVars
      <3> QED BY <2>1, <2>2, <3>1, KeyFrame DEF Seen
    <2>3. CASE ~Seen
      BY <1>0, <2>3, ResendSteps, UnseenUse, UnseenWorkerElsewhere, UnseenPushElsewhere
         DEF Elsewhere
    <2> QED BY <2>2, <2>3
  <1> QED BY <1>0, <1>1, <1>2 DEF Dirty

(* A call under way whose push or claim was executed unseen goes on only   *)
(* with the answer that it owns the key.                                   *)
LEMMA CleanIsPrivate ==
    ASSUME ResendBase, NEW j \in Jobs, Producer(j) \/ ClaimUnseen(j), ~Dirty(j)
    PROVE  Private(j)
  <1>1. call[j] # "returned"
    BY DEF Producer, Enqueue, SdkEnqueue, SaveJob, PushJob, ClaimKey, LoseKey, DropDuplicate,
           ClaimUnseen
  <1>2. ~Unseen(j)
    <2>1. <<"push", j>> \notin resent
      BY DEF Dirty, Pushes
    <2>2. ASSUME <<"claim", j>> \in resent PROVE FALSE
      <3>1. /\ call[j] = "saved" /\ KeyOf[j] \in Keys /\ idempotency[KeyOf[j]] = j
        BY <1>1, <2>2 DEF ResendBase, ClaimsKept, Dirty, Unseen, Producer, Enqueue, SdkEnqueue,
               SaveJob, PushJob, ClaimKey, LoseKey, DropDuplicate, ClaimUnseen
      <3> QED BY <3>1, StoreAssumption DEF Producer, Enqueue, SdkEnqueue, SaveJob, PushJob,
               ClaimKey, LoseKey, DropDuplicate, ClaimUnseen
    <2> QED BY <2>1, <2>2 DEF Unseen
  <1> QED BY <1>1, <1>2 DEF ResendBase, WholeResent, Private

(* A step that is not about a job leaves it alone. *)
LEMMA SameAlone ==
    ASSUME NEW i \in Jobs, Alone(i), Same(i), UNCHANGED schedulerVars
    PROVE  Alone(i)'
  BY SameLone DEF Alone, DueIsDelayed, Same, schedulerVars

(* Nor does one that pushes the id of another. *)
LEMMA PushSame ==
    ASSUME TypeOK, NEW i \in Jobs, UNCHANGED <<workerVars, ajob>>, call'[i] = call[i],
           status'[i] = status[i], attempts'[i] = attempts[i],
           i \in delayed' <=> i \in delayed, i \in dead' <=> i \in dead,
           \/ UNCHANGED waiting
           \/ \E k \in Jobs \ {i}, p \in PrioritySet : LPushWaiting(p, k)
    PROVE  Same(i)
  <1>1. (Listed(i)' <=> Listed(i)) /\ (OneCopy(i) => OneCopy(i)')
    BY PushLists, PushCopies, ListsFrame DEF TypeOK
  <1> QED BY <1>1 DEF Same, workerVars, Requested

(* A claim executed unseen puts its job on one list, once. *)
LEMMA UnseenProducerAlone ==
    ASSUME ResendBase, NEW j \in Jobs, PushUnseen(j) \/ ClaimUnseen(j) \/ AnswerOwn(j),
           NEW i \in Jobs, ~Dirty(i), ~Dirty(i)', Alone(i)
    PROVE  Alone(i)'
  <1>0. /\ TypeOK /\ StoreTypeOK
        /\ UNCHANGED <<workerVars, schedulerVars, ajob, status, attempts, delayed, dead>>
    BY DEF ResendBase, ResendTypeOK, TypeOK, PushUnseen, ClaimUnseen, AnswerOwn, LoseReply,
           apiVars, storeVars, hashVars, listVars
  <1>p. Priority[j] \in PrioritySet
    BY StoreAssumption
  <1>1. CASE (PushUnseen(j) \/ ClaimUnseen(j)) /\ i # j
    <2>1. UNCHANGED call /\ LPushWaiting(Priority[j], j)
      BY <1>1 DEF PushUnseen, ClaimUnseen, LoseReply, queueVars
    <2> QED BY <1>0, <1>p, <1>1, <2>1, PushSame, SameAlone
  <1>2. CASE PushUnseen(j) /\ i = j
    BY <1>2 DEF PushUnseen, LoseReply, Dirty, Pushes
  <1>3. CASE ClaimUnseen(j) /\ i = j
    <2>1. Private(j) /\ LPushWaiting(Priority[j], j)
      BY <1>3, CleanIsPrivate DEF ClaimUnseen
    <2>2. Busy(j) = {} /\ ~Listed(j) /\ j \notin delayed /\ ~Requested(j)
          /\ status[j] = "waiting" /\ attempts[j] = 0
      BY <2>1 DEF Private, InUse, Circulating, Stored, Held, Busy
    <2>3. Listed(j)' /\ OneCopy(j)'
      BY <1>0, <1>p, <1>3, <2>1, <2>2, PushLists, PushCopies DEF Alone, Lone, Single, Tame
    <2>4. Busy(j)' = {} /\ ~Requested(j)'
      BY <1>0, <2>2 DEF workerVars, Busy, Holders, WillRetry, NextAttempt, Bump, Requested
    <2> QED BY <1>0, <1>3, <2>2, <2>3, <2>4 DEF Alone, Lone, Single, Tame, DueIsDelayed, schedulerVars
  <1>4. CASE AnswerOwn(j)
    <2>1. UNCHANGED waiting
      BY <1>4 DEF AnswerOwn, storeVars, listVars
    <2>2. Busy(i)' = Busy(i) /\ (Listed(i)' <=> Listed(i)) /\ (OneCopy(i)' <=> OneCopy(i))
      BY <1>0, <2>1, ListsFrame DEF workerVars, Busy, Holders, WillRetry, NextAttempt, Bump
    <2>3. \A w \in Busy(i) : AtWork(w)' <=> AtWork(w)
      BY <1>0 DEF AtWork, workerVars
    <2> QED BY <1>0, <2>2, <2>3
            DEF Alone, Lone, Single, Tame, Alive, DueIsDelayed, schedulerVars, Requested
  <1> QED BY <1>1, <1>2, <1>3, <1>4

(* A pop executed unseen takes the only copy, which nobody gets; the other *)
(* commands of a worker are about the job it has.                          *)
LEMMA UnseenWorkerAlone ==
    ASSUME TypeOK, Labels, NEW w \in Workers, UnseenWorker(w), NEW i \in Jobs \cap Handled,
           ~Dirty(i)', Alone(i)
    PROVE  Alone(i)'
  <1>0. /\ StoreTypeOK /\ WorkerTypeOK
        /\ UNCHANGED <<workerVars, schedulerVars, ajob, call>>
    BY DEF TypeOK, UnseenWorker, PollUnseen, StatusUnseen, ParkUnseen, CleanupUnseen, LoseReply,
           apiVars, queueVars
  <1>1. CASE PollUnseen(w)
    <2> DEFINE p == PRIORITIES[level[w]]
    <2>1. p \in PrioritySet /\ waiting[p] # <<>> /\ RPopLPush(p)
      BY <1>0, <1>1, LevelType DEF PollUnseen, WorkerTypeOK
    <2>2. UNCHANGED <<status, attempts, delayed, dead>>
      BY <1>1 DEF PollUnseen, hashVars
    <2> HIDE DEF p
    <2>3. (Listed(i)' => Listed(i)) /\ OneCopy(i)'
      BY <1>0, <2>1, PopLists, PopCopies DEF Alone, Lone, Single, Tame
    <2>4. Busy(i)' = Busy(i)
      BY <1>0 DEF workerVars, Busy, Holders, WillRetry, NextAttempt, Bump
    <2>5. \A v \in Busy(i) : AtWork(v)' <=> AtWork(v)
      BY <1>0, <2>2 DEF AtWork, workerVars
    <2> QED BY <1>0, <2>2, <2>3, <2>4, <2>5
            DEF Alone, Lone, Single, Tame, Alive, DueIsDelayed, schedulerVars, Requested
  <1>2. CASE StatusUnseen(w)
    <2>0. UNCHANGED <<delayed, dead, waiting>>
      BY <1>2 DEF StatusUnseen, listVars
    <2>1. CASE wjob[w] # i
      <3>1. status'[i] = status[i] /\ attempts'[i] = attempts[i]
        BY <1>0, <1>2, <2>1 DEF StatusUnseen, HSetStatus, UpdateJobFields, StoreTypeOK
      <3> QED BY <1>0, <2>0, <3>1, PushSame, SameAlone
    <2>2. CASE wjob[w] = i
      <3>1. /\ wpc[w] \in {"activate", "run", "settle"}
            /\ wpc[w] = "settle" => WillRetry(w)
        BY <1>2, <2>2 DEF StatusUnseen, LoseReply, Dirty, Verdicts, Labels
      <3>2. /\ status'[i] \in {"active", "completed", "delayed"}
            /\ attempts'[i] = attempts[i] \/ attempts'[i] < MaxAttempts[i]
        BY <1>0, <1>2, <2>2, <3>1
           DEF StatusUnseen, HSetStatus, UpdateJobFields, StoreTypeOK, WillRetry
      <3>3. w \in Busy(i)
        BY <2>2, <3>1 DEF Busy, Holders
      <3>4. Busy(i) = {w} /\ ~Listed(i) /\ i \notin delayed /\ ~Requested(i)
        BY <2>2, <3>3, HeldJob, HeldTame DEF Alone, Lone
      <3>5. /\ Busy(i)' = {w} /\ ~Listed(i)' /\ OneCopy(i)' /\ i \notin delayed'
            /\ ~Requested(i)'
        <4>1. Busy(i)' = Busy(i)
          BY <1>0 DEF workerVars, Busy, Holders, WillRetry, NextAttempt, Bump
        <4> QED BY <1>0, <2>0, <3>4, <4>1, ListsFrame DEF Requested, Alone, Lone, Single
      <3>6. AtWork(w)'
        BY <1>0, <2>2, <3>1, <3>2 DEF AtWork, workerVars
      <3>7. attempts'[i] = 0 \/ attempts'[i] < MaxAttempts[i]
        BY <3>2, <3>4 DEF Alone, Lone, Tame, Alive
      <3> QED BY <1>0, <2>0, <3>5, <3>6, <3>7
              DEF Alone, Lone, Single, Tame, DueIsDelayed, schedulerVars
    <2> QED BY <2>1, <2>2
  <1>3. CASE ParkUnseen(w)
    <2>1. UNCHANGED <<waiting, status, attempts>> /\ (i \in delayed' <=> i \in delayed)
      BY <1>3 DEF ParkUnseen, hashVars, LoseReply, Dirty, Pushes
    <2>2. \A v \in Busy(i) : AtWork(v)' <=> AtWork(v)
      BY <1>0, <2>1 DEF AtWork, workerVars
    <2>3. Busy(i)' = Busy(i)
      BY <1>0 DEF workerVars, Busy, Holders, WillRetry, NextAttempt, Bump
    <2>4. (Listed(i)' <=> Listed(i)) /\ (OneCopy(i)' <=> OneCopy(i))
      BY <2>1, ListsFrame
    <2>5. DueIsDelayed(i)'
      BY <1>0, <2>1 DEF Alone, DueIsDelayed, schedulerVars
    <2> QED BY <1>0, <2>1, <2>2, <2>3, <2>4, <2>5 DEF Alone, Lone, Single, Tame, Alive, Requested
  <1>4. CASE CleanupUnseen(w)
    <2>1. UNCHANGED <<waiting, status, attempts, delayed, dead>>
      BY <1>4 DEF CleanupUnseen, hashVars
    <2> QED BY <1>0, <2>1, PushSame, SameAlone
  <1> QED BY <1>1, <1>2, <1>3, <1>4 DEF UnseenWorker

(* What a scheduler or a request pushes unseen is dirty. *)
LEMMA UnseenPushAlone ==
    ASSUME TypeOK, NEW i \in Jobs, ~Dirty(i)', Alone(i),
           \/ \E s \in Schedulers : ReleaseUnseen(s)
           \/ \E r \in Requests : RetryUnseen(r)
    PROVE  Alone(i)'
  <1>0. /\ StoreTypeOK /\ SchedulerTypeOK /\ ApiTypeOK
        /\ UNCHANGED <<workerVars, schedulerVars, ajob, call>>
    BY DEF TypeOK, ReleaseUnseen, RetryUnseen, LoseReply, apiVars, queueVars
  <1>1. ASSUME NEW s \in Schedulers, ReleaseUnseen(s) PROVE Alone(i)'
    <2>1. /\ sjob[s] \in Jobs \ {i} /\ sprio[s] \in PrioritySet
          /\ LPushWaiting(sprio[s], sjob[s])
      BY <1>0, <1>1 DEF ReleaseUnseen, SchedulerTypeOK, LoseReply, Dirty, Pushes
    <2>2. /\ status'[i] = status[i] /\ attempts'[i] = attempts[i] /\ UNCHANGED dead
          /\ i \in delayed' <=> i \in delayed
      BY <1>0, <1>1, <2>1 DEF ReleaseUnseen, HSetStatus, StoreTypeOK
    <2> QED BY <1>0, <2>1, <2>2, PushSame, SameAlone
  <1>2. ASSUME NEW r \in Requests, RetryUnseen(r) PROVE Alone(i)'
    <2>1. /\ ajob[r] \in Jobs \ {i} /\ Priority[ajob[r]] \in PrioritySet
          /\ LPushWaiting(Priority[ajob[r]], ajob[r])
      BY <1>0, <1>2, StoreAssumption DEF RetryUnseen, ApiTypeOK, LoseReply, Dirty, Pushes
    <2>2. /\ status'[i] = status[i] /\ attempts'[i] = attempts[i] /\ UNCHANGED delayed
          /\ i \in dead' <=> i \in dead
      BY <1>0, <1>2, <2>1 DEF RetryUnseen, UpdateJobFields, HSetStatus, StoreTypeOK
    <2> QED BY <1>0, <2>1, <2>2, PushSame, SameAlone
  <1> QED BY <1>1, <1>2

LEMMA AloneResentStep ==
    ASSUME NoRivals, LossBase, AloneResent, [ResendNext]_resendVars
    PROVE  AloneResent'
  <1> SUFFICES ASSUME NEW i \in Handled, ~Dirty(i)' PROVE Alone(i)'
    BY DEF AloneResent
  <1>0. i \in Jobs \cap Handled
    BY DistriAssumption
  <1>1. ~Dirty(i) /\ Alone(i) /\ TypeOK /\ ResendBase /\ Labels
    BY <1>0, StaysDirty DEF AloneResent, LossBase, ResendBase, ResendTypeOK
  <1>2. CASE Seen
    BY <1>0, <1>1, <1>2, CleanIsPrivate, AloneStep DEF Seen
  <1>3. Watchdogs = {}
    BY DEF NoRivals
  <1> QED BY <1>0, <1>1, <1>2, <1>3, ResendSteps, UnseenProducerAlone, UnseenWorkerAlone,
             UnseenPushAlone

(* Without watchdogs, with one scheduler run and one retry at a time, it   *)
(* takes a push, or a verdict a retry acts on, executed twice to have two  *)
(* workers run a job: the pop (WorkerPool.ts 87), the status writes that   *)
(* condemn no job (WorkerPool.ts 118, 149, 168), the dead-letter push      *)
(* (WorkerPool.ts 180), the clean-up (WorkerPool.ts 185-189) and the claim *)
(* of a key that did not run out (scripts/idempotentEnqueue.lua) may be    *)
(* executed any number of times.                                           *)
THEOREM PushOrVerdictMakesTwo ==
    ASSUME NoRivals
    PROVE  ResendSpec => []RunTwiceNeedsPushOrVerdict
  <1>1. ResendInit => AloneResent
    BY SolitaryInit, DistriAssumption DEF ResendInit, Solitary, AloneResent
  <1>2. LossBase /\ AloneResent /\ [ResendNext]_resendVars => AloneResent'
    BY AloneResentStep
  <1>3. ASSUME NEW j \in Jobs, Alone(j) \/ j \notin Handled
        PROVE  ~(Cardinality(Handling(j)) > 1)
    <2>1. \A v, w \in Handling(j) : v = w
      BY <1>3 DEF Alone, Lone, Single, Busy, Handling
    <2> QED BY <2>1, OneOrNone
  <1>4. AloneResent => RunTwiceNeedsPushOrVerdict
    BY <1>3 DEF AloneResent, RunTwiceNeedsPushOrVerdict, Dirty
  <1> QED BY <1>1, <1>2, <1>4, AlwaysLossBase, PTL DEF ResendSpec
===============================================================================
