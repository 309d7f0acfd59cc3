----------------------------- MODULE DistriRecord -----------------------------
(***************************************************************************)
(* The system of Distri, step for step, with a record of two things that   *)
(* nobody in it keeps: which jobs were pushed because of something that    *)
(* was no longer so, and what was pushed while a worker was looking        *)
(* through the waiting lists.  No guard reads the record.                  *)
(***************************************************************************)
EXTENDS Distri

VARIABLES
    stray,  \* history: jobs that were pushed on the strength of a stale read
    late    \* history: what was pushed during the pass a worker is in

-------------------------------------------------------------------------------
(* How a job gets into two hands.  Three places push an id on a waiting    *)
(* list because of something they read earlier: the watchdog, the          *)
(* scheduler and the retry route.  Their MULTI does not look again, so it  *)
(* also pushes when what they read is no longer so.                        *)

(* Watchdog.ts 75-83: by the time the MULTI runs, the job it found stalled *)
(* is on a list, waits for its back-off, or a worker has it.               *)
StaleRequeue(j) ==
    /\ \E d \in Watchdogs : Requeue(d) /\ djob[d] = j
    /\ Listed(j) \/ j \in delayed \/ Running(j) # {} \/ Parking(j, TRUE)

(* Scheduler.ts 51-57: the id that came due is not delayed any more, its   *)
(* ZREM removes nothing, and the LPUSH goes through all the same.          *)
StaleRelease(j) ==
    /\ \E s \in Schedulers : Release(s) /\ sjob[s] = j
    /\ j \notin delayed

(* routes.ts 142-155: the job that was dead or failed when it was checked  *)
(* is not so any more.                                                     *)
StaleRetry(j) ==
    /\ \E r \in Requests : Retry(r) /\ ajob[r] = j
    /\ status[j] \notin {"dead", "failed"}

Astray(j) == StaleRequeue(j) \/ StaleRelease(j) \/ StaleRetry(j)

-------------------------------------------------------------------------------
(* The order of service.  A worker asks one waiting list after the other,  *)
(* each with a command of its own, so a job can be pushed on a list the    *)
(* worker has just found empty.                                            *)

IdsIn(p) == {j \in Jobs : \E i \in 1 .. Len(waiting[p]) : waiting[p][i] = j}

(* The jobs this step pushes. *)
Arrivals == UNION {IdsIn(p)' \ IdsIn(p) : p \in PrioritySet}

(* Is the worker still in the pass it was in? *)
SamePass(w) == wpc[w] = "poll" /\ wpc'[w] = "poll" /\ level'[w] # 1

-------------------------------------------------------------------------------
RecordInit ==
    /\ Init
    /\ stray = {}
    /\ late = [w \in Workers |-> {}]

RecordNext ==
    /\ Next
    /\ stray' = stray \cup {j \in Jobs : Astray(j)}
    /\ late' = [w \in Workers |-> IF SamePass(w) THEN late[w] \cup Arrivals ELSE {}]

recordVars == <<vars, stray, late>>

RecordSpec == RecordInit /\ [][RecordNext]_recordVars

FairRecordSpec == RecordSpec /\ Fairness

-------------------------------------------------------------------------------
(* Properties. *)

(* However many watchdogs, schedulers and retries there are, and whatever  *)
(* crashes: a job is in one place at a time - one worker runs it, or it    *)
(* is listed, or it is delayed - until one of the three pushes goes ahead  *)
(* on a stale read (Watchdog.ts 75-83, Scheduler.ts 51-57, routes.ts       *)
(* 142-155).  Nothing else in the system makes a job run twice at once.    *)
OnePlaceUnlessRaced ==
    /\ stray \subseteq Jobs
    /\ \A j \in Jobs \ stray :
          /\ Cardinality(Running(j)) <= 1
          /\ Listed(j) => Running(j) = {} /\ j \notin delayed
          /\ j \in delayed => Running(j) = {}

(* Where no watchdog runs, and scheduler runs and retries do not overlap,  *)
(* none of the three pushes is ever stale.                                 *)
NothingStray == stray = {}

(* A worker that comes to a list has left no job behind on a list of a     *)
(* higher priority but what was pushed while it was looking: every pass    *)
(* starts at the top again (WorkerPool.ts 85-88), whatever the worker did  *)
(* before, so a lower job overtakes a higher one by one pass at the most.  *)
OvertakesInPassing ==
    \A w \in Workers : wpc[w] = "poll" =>
        \A i \in 1 .. level[w] - 1 : IdsIn(PRIORITIES[i]) \subseteq late[w]
===============================================================================
