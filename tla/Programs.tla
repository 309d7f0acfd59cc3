------------------------------- MODULE Programs -------------------------------
(***************************************************************************)
(* The life of one process: the three services (index.ts, worker.ts,       *)
(* server.ts) from boot to a graceful shutdown, and the two scripts that   *)
(* start and stop pools of their own (benchmark.ts, debug-bench.ts).       *)
(*                                                                         *)
(* Node runs one callback at a time, from one await to the next: that is a *)
(* step.  A thread is a chain of callbacks: the main program, one delivery *)
(* of a signal, or the shutdown a benchmark's job handler starts; pc[t] is *)
(* the await it is suspended at.                                           *)
(***************************************************************************)
EXTENDS Naturals, FiniteSets

CONSTANTS
    Loops,     \* the worker loops of a pool
    Signals,   \* deliveries of SIGINT or SIGTERM
    JobCount,  \* jobs of a script's run
    Rounds     \* runs of benchmark.ts, of which the last measures latency

ASSUME ProgramsAssumption ==
    /\ JobCount \in Nat \ {0}
    /\ Rounds \in Nat \ {0}
    /\ Signals \cap {"main", "handler"} = {}
    /\ IsFiniteSet(Loops)

VARIABLES
    program,   \* what the process runs
    pc,        \* where each thread is
    round,     \* which run of benchmark.ts
    isRunning, \* WorkerPool.isRunning
    loop,      \* what each worker loop is doing
    promises,  \* WorkerPool.workerPromises
    joins,     \* the promises each shutdown waits for
    timers,    \* are the watchdog's and the scheduler's intervals set?
    socket,    \* fastify: "closed", "open" or "closing"
    inflight,  \* watchdog and scheduler runs and requests under way
    client,    \* the shared Redis client: "open", or "closed" by QUIT
    exit,      \* "none", or how the process ended
    queue,     \* jobs on the script's waiting list
    sent,      \* jobs the script has enqueued in this run
    completed  \* handlers that ran in this run

poolVars   == <<isRunning, loop, promises, joins>>
scriptVars == <<round, queue, sent, completed>>
aroundVars == <<timers, socket, inflight, client, exit>>
vars == <<program, pc, poolVars, scriptVars, aroundVars>>

Services == {"index", "worker", "server"}
Scripts  == {"benchmark", "debug"}
Threads  == {"main", "handler"} \cup Signals
Timers   == {"watchdog", "scheduler"}

(* benchmark.ts runs runThroughput several times, then runLatency. *)
Latency == program = "benchmark" /\ round = Rounds

TypeOK ==
    /\ program \in Services \cup Scripts
    /\ pc \in [Threads -> {"boot", "listen", "idle", "flush", "enqueue", "wait", "join",
                           "drain", "quit", "done"}]
    /\ round \in 1 .. Rounds
    /\ isRunning \in BOOLEAN
    /\ loop \in [Loops -> {"none", "poll", "pause", "job", "settling", "ended"}]
    /\ promises \in SUBSET Loops
    /\ joins \in [Threads -> SUBSET Loops]
    /\ timers \in BOOLEAN
    /\ socket \in {"closed", "open", "closing"}
    /\ inflight \subseteq Timers \cup {"request"}
    /\ client \in {"open", "closed"}
    /\ exit \in {"none", "clean", "failed"}
    /\ queue \in 0 .. JobCount
    /\ sent \in 0 .. JobCount
    /\ completed \in 0 .. JobCount

FirstAwait(p) ==
    CASE p \in {"index", "worker"} -> "boot"
      [] p = "server"              -> "listen"
      [] OTHER                     -> "flush"

Init ==
    /\ program \in Services \cup Scripts
    /\ pc = [t \in Threads |-> IF t = "main" THEN FirstAwait(program) ELSE "idle"]
    /\ round = 1
    /\ isRunning = FALSE
    /\ loop = [l \in Loops |-> "none"]
    /\ promises = {}
    /\ joins = [t \in Threads |-> {}]
    /\ timers = FALSE
    /\ socket = "closed"
    /\ inflight = {}
    /\ client = "open"
    /\ exit = "none"
    /\ queue = 0
    /\ sent = 0
    /\ completed = 0

Goto(t, label) == pc' = [pc EXCEPT ![t] = label]

-------------------------------------------------------------------------------
(* WorkerPool.start and shutdown up to its await.  No program starts a     *)
(* pool that runs: the early return of start() is never taken.             *)

StartPool ==
    /\ isRunning' = TRUE
    /\ loop' = [l \in Loops |-> "poll"]
    /\ promises' = Loops
    /\ UNCHANGED joins

HaltAndForget(t) ==
    /\ isRunning' = FALSE
    /\ joins' = [joins EXCEPT ![t] = promises]
    /\ promises' = {}

Halt(t) ==
    /\ isRunning' = FALSE
    /\ joins' = [joins EXCEPT ![t] = promises]
    /\ UNCHANGED promises

-------------------------------------------------------------------------------
(* The services. *)

(* start() of index.ts and worker.ts: pool, watchdog, scheduler. *)
Boot ==
    /\ pc["main"] = "boot"
    /\ StartPool
    /\ timers' = TRUE
    /\ Goto("main", IF program = "index" THEN "listen" ELSE "idle")
    /\ UNCHANGED <<program, scriptVars, socket, inflight, client, exit>>

Listen ==
    /\ pc["main"] = "listen"
    /\ socket = "closed"
    /\ socket' = "open"
    /\ Goto("main", "idle")
    /\ UNCHANGED <<program, poolVars, scriptVars, timers, inflight, client, exit>>

(* The port is taken, or the server was closed in the meantime. *)
ListenFails ==
    /\ pc["main"] = "listen"
    /\ exit' = "failed"
    /\ UNCHANGED <<program, pc, poolVars, scriptVars, timers, socket, inflight, client>>

(* shutdown() up to its first await; a second signal runs it again. *)
Signal(t) ==
    /\ t \in Signals
    /\ pc[t] = "idle"
    /\ program \in Services
    /\ pc["main"] # "boot"
    /\ \/ /\ program = "server"
          /\ socket' = "closing"
          /\ Goto(t, "drain")
          /\ UNCHANGED <<poolVars, timers>>
       \/ /\ program # "server"
          /\ timers' = FALSE
          /\ Halt(t)
          /\ Goto(t, "join")
          /\ UNCHANGED <<loop, socket>>
    /\ UNCHANGED <<program, scriptVars, inflight, client, exit>>

(* allSettled resolves; the promises are forgotten and the thread goes on. *)
Joined(t) ==
    /\ pc[t] = "join"
    /\ \A l \in joins[t] : loop[l] = "ended"
    /\ promises' = {}
    /\ \/ t = "handler" /\ Goto(t, "done") /\ UNCHANGED <<socket, client>>
       \/ /\ program = "index"
          /\ Goto(t, "drain")
          /\ socket' = "closing"
          /\ UNCHANGED client
       \/ /\ t # "handler"
          /\ program # "index"
          /\ Goto(t, "quit")
          /\ client' = "closed"
          /\ UNCHANGED socket
    /\ UNCHANGED <<program, scriptVars, isRunning, loop, joins, timers, inflight, exit>>

(* fastify.close() resolves once no request is open. *)
Drained(t) ==
    /\ pc[t] = "drain"
    /\ "request" \notin inflight
    /\ Goto(t, "quit")
    /\ client' = "closed"
    /\ UNCHANGED <<program, poolVars, scriptVars, timers, socket, inflight, exit>>

(* QUIT is answered, or refused and ignored: the process ends. *)
Quit(t) ==
    /\ pc[t] = "quit"
    /\ exit' = "clean"
    /\ UNCHANGED <<program, pc, poolVars, scriptVars, timers, socket, inflight, client>>

-------------------------------------------------------------------------------
(* The scripts. *)

FlushedOnly ==
    /\ pc["main"] = "flush"
    /\ queue' = 0
    /\ sent' = 0
    /\ IF Latency THEN StartPool ELSE UNCHANGED poolVars
    /\ Goto("main", "enqueue")
    /\ UNCHANGED <<program, round, completed, aroundVars>>

(* A run begins with FLUSHALL; runLatency starts its pool right away. *)
Flushed ==
    /\ pc["main"] = "flush"
    /\ queue' = 0
    /\ sent' = 0
    /\ completed' = 0
    /\ IF Latency THEN StartPool ELSE UNCHANGED poolVars
    /\ Goto("main", "enqueue")
    /\ UNCHANGED <<program, round, aroundVars>>

(* The other runs start it after the last enqueue. *)
Enqueued ==
    /\ pc["main"] = "enqueue"
    /\ queue' = queue + 1
    /\ sent' = sent + 1
    /\ \/ sent' < JobCount /\ UNCHANGED <<pc, poolVars>>
       \/ /\ sent' = JobCount
          /\ Goto("main", "wait")
          /\ IF Latency THEN UNCHANGED poolVars ELSE StartPool
    /\ UNCHANGED <<program, round, completed, aroundVars>>

(* The promise of runThroughput resolves: on to the next run. *)
NextRound ==
    /\ pc["main"] = "wait"
    /\ pc["handler"] = "done"
    /\ round' = round + 1
    /\ pc' = [pc EXCEPT !["main"] = "flush", !["handler"] = "idle"]
    /\ UNCHANGED <<program, poolVars, queue, sent, completed, aroundVars>>

(* The others wait for all jobs or a deadline, whichever comes first. *)
WaitOver ==
    /\ pc["main"] = "wait"
    /\ Latency \/ program = "debug"
    /\ Halt("main")
    /\ Goto("main", "join")
    /\ UNCHANGED <<program, loop, scriptVars, aroundVars>>

-------------------------------------------------------------------------------
(* The worker loops. *)

Becomes(l, label) == loop' = [loop EXCEPT ![l] = label]

Rerun == "poll"

(* while (this.isRunning) *)
NextTurn == IF isRunning THEN "poll" ELSE "ended"

(* A sleep that a stopping loop skips. *)
Pause == IF isRunning THEN "pause" ELSE "ended"

(* A service's list is filled by others: there may always be a job. *)
PollJob(l) ==
    /\ loop[l] = "poll"
    /\ \/ program \in Services /\ UNCHANGED queue
       \/ program \in Scripts /\ queue > 0 /\ queue' = queue - 1
    /\ Becomes(l, "job")
    /\ UNCHANGED <<pc, isRunning, joins, completed>>

PollEmpty(l) ==
    /\ loop[l] = "poll"
    /\ program \in Services \/ queue = 0
    /\ Becomes(l, Pause)
    /\ UNCHANGED <<pc, isRunning, joins, queue, completed>>

Wake(l) ==
    /\ loop[l] = "pause"
    /\ Becomes(l, NextTurn)
    /\ UNCHANGED <<pc, isRunning, joins, queue, completed>>

(* The last job of a throughput run: its handler calls shutdown(), *)
(* without awaiting it.                                            *)
IsLast == program = "benchmark" /\ ~Latency /\ completed + 1 = JobCount

Handle(l) ==
    /\ loop[l] = "job"
    /\ ~IsLast
    /\ Becomes(l, "settling")
    /\ completed' = IF program \in Services THEN completed ELSE completed + 1
    /\ UNCHANGED <<pc, isRunning, joins, queue>>

HandleLastAndResolve(l) ==
    /\ loop[l] = "job"
    /\ IsLast
    /\ Becomes(l, "settling")
    /\ completed' = completed + 1
    /\ isRunning' = FALSE
    /\ Goto("handler", "done")
    /\ UNCHANGED <<joins, queue>>

HandleLast(l) ==
    /\ loop[l] = "job"
    /\ IsLast
    /\ Becomes(l, "settling")
    /\ completed' = completed + 1
    /\ Halt("handler")
    /\ Goto("handler", "join")
    /\ UNCHANGED queue

(* processJob throws, on a partial hash for instance. *)
Throw(l) ==
    /\ loop[l] = "job"
    /\ program \in Services
    /\ Becomes(l, Pause)
    /\ UNCHANGED <<pc, isRunning, joins, queue, completed>>

SettledAfterShutdown(l) ==
    /\ loop[l] = "settling"
    /\ pc["handler"] # "join"
    /\ Becomes(l, NextTurn)
    /\ UNCHANGED <<pc, isRunning, joins, queue, completed>>

(* The handler has returned and the MULTIs after it are done. *)
Settled(l) ==
    /\ loop[l] = "settling"
    /\ Becomes(l, NextTurn)
    /\ UNCHANGED <<pc, isRunning, joins, queue, completed>>

LoopStep(l) ==
    /\ \/ PollJob(l) \/ PollEmpty(l) \/ Wake(l)
       \/ Handle(l) \/ HandleLast(l) \/ Throw(l) \/ Settled(l)
    /\ UNCHANGED <<program, round, promises, sent, aroundVars>>

-------------------------------------------------------------------------------
(* What else uses the client. *)

TimerFires(x) ==
    /\ timers
    /\ inflight' = inflight \cup {x}
    /\ UNCHANGED <<program, pc, poolVars, scriptVars, timers, socket, client, exit>>

Request ==
    /\ socket = "open"
    /\ inflight' = inflight \cup {"request"}
    /\ UNCHANGED <<program, pc, poolVars, scriptVars, timers, socket, client, exit>>

Finish(x) ==
    /\ x \in inflight
    /\ inflight' = inflight \ {x}
    /\ UNCHANGED <<program, pc, poolVars, scriptVars, timers, socket, client, exit>>

-------------------------------------------------------------------------------
MainStep ==
    Boot \/ Listen \/ ListenFails \/ Flushed \/ Enqueued \/ NextRound \/ WaitOver

ThreadStep(t) == Joined(t) \/ Drained(t) \/ Quit(t)

(* After exit nothing happens. *)
Next ==
    /\ exit = "none"
    /\ \/ MainStep
       \/ \E t \in Threads : Signal(t) \/ ThreadStep(t)
       \/ \E l \in Loops : LoopStep(l)
       \/ \E x \in Timers : TimerFires(x)
       \/ Request
       \/ \E x \in inflight : Finish(x)

Spec == Init /\ [][Next]_vars

(* The event loop runs every callback that is due; replies and timers      *)
(* come, handlers return.  Nobody has to send a signal or a request.       *)
Fairness ==
    /\ WF_vars(exit = "none" /\ MainStep)
    /\ \A t \in Threads : WF_vars(exit = "none" /\ ThreadStep(t))
    /\ \A l \in Loops : WF_vars(exit = "none" /\ LoopStep(l))
    /\ \A x \in Timers \cup {"request"} : WF_vars(exit = "none" /\ Finish(x))

FairSpec == Spec /\ Fairness

-------------------------------------------------------------------------------
Busy(l) == loop[l] \notin {"none", "ended"}

(* "Workers finish current jobs before stopping" (DOCUMENTATION.md 1101):  *)
(* when the client is closed and when the process ends by a shutdown, no   *)
(* loop has a job or a poll under way and no request is open, although a   *)
(* second signal runs shutdown() next to the first (index.ts 63-77,        *)
(* WorkerPool.ts 65-73).                                                   *)
GracefulExit ==
    client = "closed" \/ exit = "clean" =>
        (\A l \in Loops : ~Busy(l)) /\ "request" \notin inflight

(* A throughput run of benchmark.ts (48-82) finds no loop of the pool      *)
(* before it: none is left to take the jobs of the next run.               *)
RoundsApart ==
    pc["main"] = "flush" \/ (pc["main"] = "enqueue" /\ ~Latency) =>
        \A l \in Loops : ~Busy(l)

(* A signal ends the process, however many jobs there are still to take.   *)
Stops == \A t \in Signals : pc[t] # "idle" ~> exit # "none"

(* The scripts come to their end: a handler that calls shutdown() does not *)
(* wait for itself ("don't await inside handler to avoid deadlock",        *)
(* benchmark.ts 64).                                                       *)
ScriptsEnd == program \in Scripts ~> exit = "clean"
===============================================================================
