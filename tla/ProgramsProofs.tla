---------------------------- MODULE ProgramsProofs ----------------------------
(***************************************************************************)
(* Proofs about Programs: for any number of loops, signals, jobs and runs, *)
(* a shutdown leaves no work under way, the runs of the benchmark do not   *)
(* meet, and every variable keeps its type.                                *)
(***************************************************************************)
EXTENDS Programs, FiniteSetTheorems, TLAPS

Types ==
    /\ program \in Services \cup Scripts
    /\ pc \in [Threads -> {"boot", "listen", "idle", "flush", "enqueue", "wait", "join",
                           "drain", "quit", "done"}]
    /\ loop \in [Loops -> {"none", "poll", "pause", "job", "settling", "ended"}]
    /\ promises \in SUBSET Loops
    /\ joins \in [Threads -> SUBSET Loops]

(* Which thread can be where. *)
Places ==
    /\ program \in Services => /\ pc["main"] \in {"boot", "listen", "idle"}
                               /\ pc["handler"] = "idle"
    /\ program \in Scripts => /\ pc["main"] \in {"flush", "enqueue", "wait", "join", "quit"}
                              /\ \A t \in Signals : pc[t] = "idle"
    /\ pc["main"] = "boot" => /\ program \in {"index", "worker"}
                              /\ \A t \in Signals : pc[t] = "idle"
    /\ pc["main"] = "listen" => program \in {"index", "server"}
    /\ pc["handler"] # "idle" => program = "benchmark" /\ ~Latency /\ pc["main"] = "wait"
    /\ program = "benchmark" /\ pc["main"] \in {"join", "quit"} => Latency
    /\ \A t \in Signals : pc[t] \in {"idle", "join", "drain", "quit"}
    /\ program = "server" => \A t \in Signals : pc[t] # "join"
    /\ pc["handler"] \in {"idle", "join", "done"}
    /\ client = "closed" \/ exit = "clean" => \E t \in Threads : pc[t] = "quit"

AllEnded == \A l \in Loops : ~Busy(l)

(* A loop that is still busy is known to the pool, and to every shutdown   *)
(* that waits; behind a shutdown that has waited there is none.            *)
Awaited ==
    /\ \A l \in Loops : Busy(l) => l \in promises
    /\ \A t \in Threads : pc[t] = "join" => \A l \in Loops : Busy(l) => l \in joins[t]
    /\ \A t \in Threads : pc[t] \in {"drain", "quit", "done"} => AllEnded
    /\ program = "server" => AllEnded

(* A server that is being closed takes no request. *)
Closing ==
    /\ socket \in {"open", "closing"} \/ "request" \in inflight =>
          program \in {"index", "server"}
    /\ \A t \in Threads : pc[t] = "drain" => socket = "closing"
    /\ \A t \in Threads : pc[t] = "quit" =>
          /\ "request" \notin inflight
          /\ socket = "closing" \/ program \notin {"index", "server"}

Inv == Types /\ Places /\ Awaited /\ Closing /\ RoundsApart

USE DEF Services, Scripts, Threads, Timers

LEMMA InitInv == Init => Inv
BY ProgramsAssumption
   DEF Init, FirstAwait, Inv, Types, Places, Awaited, AllEnded, Busy, Closing, RoundsApart

(* A step of a loop wakes no other and is of a busy one; only the last     *)
(* handler of a throughput run touches a thread.                           *)
LEMMA LoopSteps ==
    ASSUME Types, NEW l \in Loops, LoopStep(l)
    PROVE  /\ \A m \in Loops : loop'[m] \notin {"none", "ended"} => Busy(m)
           /\ Busy(l)
           /\ loop' \in [Loops -> {"none", "poll", "pause", "job", "settling", "ended"}]
           /\ UNCHANGED <<program, round, promises, aroundVars>>
           /\ \/ UNCHANGED <<pc, joins>>
              \/ /\ IsLast
                 /\ pc' = [pc EXCEPT !["handler"] = "join"]
                 /\ joins' = [joins EXCEPT !["handler"] = promises]
<1>1. CASE HandleLast(l)
    BY <1>1 DEF LoopStep, HandleLast, Halt, Goto, Becomes, Types, Busy
<1>2. CASE PollJob(l) \/ PollEmpty(l) \/ Wake(l) \/ Handle(l) \/ Throw(l) \/ Settled(l)
    BY <1>2 DEF LoopStep, PollJob, PollEmpty, Wake, Handle, Throw, Settled, Becomes,
                NextTurn, Pause, Types, Busy
<1> QED BY <1>1, <1>2 DEF LoopStep

(* What a loop's step preserves. *)
LEMMA LoopStepInv ==
    ASSUME Inv, NEW l \in Loops, LoopStep(l)
    PROVE  Inv'
<1>1. Types /\ Places /\ Awaited /\ Closing /\ RoundsApart
    BY DEF Inv
<1>2. /\ \A m \in Loops : loop'[m] \notin {"none", "ended"} => Busy(m)
      /\ Busy(l)
      /\ loop' \in [Loops -> {"none", "poll", "pause", "job", "settling", "ended"}]
      /\ UNCHANGED <<program, round, promises, aroundVars>>
      /\ \/ UNCHANGED <<pc, joins>>
         \/ /\ IsLast
            /\ pc' = [pc EXCEPT !["handler"] = "join"]
            /\ joins' = [joins EXCEPT !["handler"] = promises]
    BY <1>1, LoopSteps
<1>3. UNCHANGED <<timers, socket, inflight, client, exit>>
    BY <1>2 DEF aroundVars
<1>4. Types'
    BY <1>1, <1>2 DEF Types
<1>5. IsLast => pc["main"] = "wait" /\ program = "benchmark" /\ ~Latency
    BY <1>1, <1>2 DEF IsLast, Latency, Places, RoundsApart, Awaited, AllEnded
<1>6. ~AllEnded
    BY <1>2 DEF AllEnded
<1>7. Places'
    BY <1>1, <1>2, <1>3, <1>5, <1>6, ProgramsAssumption
       DEF Places, Types, Latency, Awaited
<1>8. Awaited'
    BY <1>1, <1>2, <1>6, ProgramsAssumption DEF Awaited, AllEnded, Busy, Types
<1>9. Closing'
    BY <1>1, <1>2, <1>3, ProgramsAssumption DEF Closing, Types
<1>10. RoundsApart'
    BY <1>1, <1>2, <1>5, ProgramsAssumption DEF RoundsApart, Busy, Latency, Types
<1> QED BY <1>4, <1>7, <1>8, <1>9, <1>10 DEF Inv

(* The steps of the main program. *)
LEMMA MainStepInv ==
    ASSUME Inv, MainStep, exit = "none"
    PROVE  Inv'
<1>1. Types /\ Places /\ Awaited /\ Closing /\ RoundsApart
    BY DEF Inv
<1> USE ProgramsAssumption DEF scriptVars, poolVars, aroundVars
<1>2. CASE Boot
    <2>1. \A t \in Threads : pc'[t] \notin {"join", "drain", "quit", "done"}
        BY <1>1, <1>2 DEF Boot, Goto, Places, Types
    <2>2. Types'
        BY <1>1, <1>2 DEF Boot, StartPool, Goto, Types
    <2>3. program \in {"index", "worker"}
        BY <1>1, <1>2 DEF Boot, Places, Types
    <2>4. \A t \in Threads : pc[t] # "quit"
        BY <1>1, <1>2 DEF Boot, Places, Types
    <2>5. Places'
        BY <1>1, <1>2, <2>3, <2>4 DEF Boot, Goto, Places, Types, Latency
    <2>6. Awaited'
        BY <1>1, <1>2, <2>1, <2>3 DEF Boot, StartPool, Awaited, Types
    <2>7. Closing'
        BY <1>1, <1>2, <2>1 DEF Boot, Closing
    <2>8. RoundsApart'
        BY <1>1, <1>2, <2>3 DEF Boot, Goto, RoundsApart, Types
    <2> QED BY <2>2, <2>5, <2>6, <2>7, <2>8 DEF Inv
<1>3. CASE Listen
    <2>1. pc' = [pc EXCEPT !["main"] = "idle"] /\ socket' = "open" /\ socket = "closed"
        BY <1>3 DEF Listen, Goto
    <2>2. Types'
        BY <1>1, <1>3, <2>1 DEF Listen, Types
    <2>3. Places'
        BY <1>1, <1>3, <2>1 DEF Listen, Places, Types, Latency
    <2>4. Awaited'
        BY <1>1, <1>3, <2>1 DEF Listen, Awaited, AllEnded, Busy, Types
    <2>5. Closing'
        BY <1>1, <1>3, <2>1 DEF Listen, Closing, Places, Types
    <2>6. RoundsApart'
        BY <1>1, <1>3, <2>1 DEF Listen, RoundsApart, Types
    <2> QED BY <2>2, <2>3, <2>4, <2>5, <2>6 DEF Inv
<1>4. CASE ListenFails
    BY <1>1, <1>4
       DEF ListenFails, Inv, Types, Places, Latency, Awaited, AllEnded, Busy, Closing,
           RoundsApart
<1>5. CASE Flushed
    <2>1. /\ program \in Scripts
          /\ \A t \in Threads : t # "main" => pc[t] = "idle"
          /\ client # "closed"
        BY <1>1, <1>5 DEF Flushed, Places, Types
    <2>2. pc' = [pc EXCEPT !["main"] = "enqueue"] /\ UNCHANGED <<program, round, aroundVars>>
        BY <1>5 DEF Flushed, Goto
    <2>3. Types'
        BY <1>1, <1>5, <2>2 DEF Flushed, StartPool, Types
    <2>4. Places'
        BY <1>1, <2>1, <2>2 DEF Places, Types, Latency
    <2>5. \A t \in Threads : pc'[t] \in {"idle", "enqueue"}
        BY <1>1, <2>1, <2>2 DEF Types
    <2>6. Awaited'
        BY <1>1, <1>5, <2>1, <2>2, <2>5
           DEF Flushed, StartPool, Awaited, AllEnded, Busy, Types
    <2>7. Closing'
        BY <1>1, <2>2, <2>5 DEF Closing
    <2>8. RoundsApart'
        BY <1>1, <1>5, <2>2 DEF Flushed, RoundsApart, Latency, Types, Busy
    <2> QED BY <2>3, <2>4, <2>6, <2>7, <2>8 DEF Inv
<1>6. CASE Enqueued
    <2>1. /\ program \in Scripts
          /\ \A t \in Threads : t # "main" => pc[t] = "idle"
          /\ client # "closed"
        BY <1>1, <1>6 DEF Enqueued, Places, Types
    <2>2. /\ pc' = [pc EXCEPT !["main"] = "wait"] \/ pc' = pc
          /\ UNCHANGED <<program, round, aroundVars>>
        BY <1>6 DEF Enqueued, Goto
    <2>3. Types'
        BY <1>1, <1>6, <2>2 DEF Enqueued, StartPool, Types
    <2>4. Places'
        BY <1>1, <2>1, <2>2 DEF Places, Types, Latency
    <2>5. \A t \in Threads : pc'[t] \in {"idle", "enqueue", "wait"}
        BY <1>1, <1>6, <2>1, <2>2 DEF Enqueued, Types
    <2>6. Awaited'
        BY <1>1, <1>6, <2>1, <2>2, <2>5
           DEF Enqueued, StartPool, Awaited, AllEnded, Busy, Types
    <2>7. Closing'
        BY <1>1, <2>2, <2>5 DEF Closing
    <2>8. RoundsApart'
        BY <1>1, <1>6, <2>2 DEF Enqueued, Goto, RoundsApart, Latency, Types, Busy
    <2> QED BY <2>3, <2>4, <2>6, <2>7, <2>8 DEF Inv
<1>7. CASE NextRound
    <2>1. AllEnded /\ program = "benchmark" /\ ~Latency
        BY <1>1, <1>7 DEF NextRound, Awaited, Places
    <2>2. /\ pc' = [pc EXCEPT !["main"] = "flush", !["handler"] = "idle"]
          /\ UNCHANGED <<program, loop, promises, joins, aroundVars>>
        BY <1>7 DEF NextRound
    <2>3. Types'
        BY <1>1, <2>2 DEF Types
    <2>4. \A t \in Threads : t \in Signals => pc[t] = "idle"
        BY <1>1, <2>1 DEF Places
    <2>5. client # "closed" /\ exit # "clean"
        BY <1>1, <1>7, <2>1, <2>4 DEF NextRound, Places
    <2>6. Places'
        BY <1>1, <2>1, <2>2, <2>4, <2>5 DEF Places, Types
    <2>7. Awaited' /\ Closing' /\ RoundsApart'
        BY <1>1, <2>1, <2>2 DEF Awaited, Closing, RoundsApart, AllEnded, Busy, Types
    <2> QED BY <2>3, <2>6, <2>7 DEF Inv
<1>8. CASE WaitOver
    <2>1. /\ pc' = [pc EXCEPT !["main"] = "join"]
          /\ joins' = [joins EXCEPT !["main"] = promises]
          /\ UNCHANGED <<program, loop, promises, round, aroundVars>>
          /\ pc["main"] = "wait"
          /\ Latency \/ program = "debug"
        BY <1>8 DEF WaitOver, Halt, Goto
    <2>2. Types'
        BY <1>1, <2>1 DEF Types
    <2>3. Places'
        BY <1>1, <2>1 DEF Places, Types, Latency
    <2>4. Awaited'
        BY <1>1, <2>1 DEF Awaited, AllEnded, Busy, Types
    <2>5. Closing' /\ RoundsApart'
        BY <1>1, <2>1 DEF Closing, RoundsApart, Types
    <2> QED BY <2>2, <2>3, <2>4, <2>5 DEF Inv
<1> QED BY <1>2, <1>3, <1>4, <1>5, <1>6, <1>7, <1>8 DEF MainStep

(* The steps of a shutdown. *)
LEMMA ThreadStepInv ==
    ASSUME Inv, NEW t \in Threads, Signal(t) \/ ThreadStep(t), exit = "none"
    PROVE  Inv'
<1>1. Types /\ Places /\ Awaited /\ Closing /\ RoundsApart
    BY DEF Inv
<1> USE ProgramsAssumption DEF scriptVars, poolVars, aroundVars
<1>2. CASE Signal(t)
    <2>1. /\ t \in Signals
          /\ program \in Services
          /\ pc["main"] # "boot"
          /\ UNCHANGED <<program, loop, promises, round, inflight, client, exit>>
          /\ \/ /\ program = "server"
                /\ socket' = "closing"
                /\ pc' = [pc EXCEPT ![t] = "drain"]
                /\ UNCHANGED joins
             \/ /\ program # "server"
                /\ pc' = [pc EXCEPT ![t] = "join"]
                /\ joins' = [joins EXCEPT ![t] = promises]
                /\ UNCHANGED socket
          /\ pc[t] = "idle"
        BY <1>2 DEF Signal, Halt, Goto
    <2>2. Types'
        BY <1>1, <2>1 DEF Types
    <2>3. Places'
        BY <1>1, <2>1 DEF Places, Types, Latency
    <2>4. Awaited'
        BY <1>1, <2>1 DEF Awaited, AllEnded, Busy, Types
    <2>5. Closing'
        BY <1>1, <2>1 DEF Closing, Types
    <2>6. RoundsApart'
        BY <1>1, <2>1 DEF RoundsApart, Places, Types, Busy, Latency
    <2> QED BY <2>2, <2>3, <2>4, <2>5, <2>6 DEF Inv
<1>3. CASE Joined(t)
    <2>1. /\ pc[t] = "join"
          /\ UNCHANGED <<program, loop, joins, round, inflight, exit>>
          /\ promises' = {}
        BY <1>3 DEF Joined
    <2>2. AllEnded
        BY <1>1, <1>3, <2>1 DEF Joined, Awaited, AllEnded, Busy
    <2>3. AllEnded'
        BY <2>1, <2>2 DEF AllEnded, Busy
    <2>4. \/ /\ t = "handler"
             /\ pc' = [pc EXCEPT ![t] = "done"]
             /\ UNCHANGED <<socket, client>>
          \/ /\ program = "index"
             /\ pc' = [pc EXCEPT ![t] = "drain"]
             /\ socket' = "closing"
             /\ UNCHANGED client
          \/ /\ t # "handler"
             /\ program # "index"
             /\ pc' = [pc EXCEPT ![t] = "quit"]
             /\ client' = "closed"
             /\ UNCHANGED socket
        BY <1>3 DEF Joined, Goto
    <2>5. Types'
        BY <1>1, <2>1, <2>4 DEF Types
    <2>6. program = "index" => t \in Signals
        BY <1>1, <2>1 DEF Places
    <2>7. Places'
        BY <1>1, <2>1, <2>4, <2>6 DEF Places, Types, Latency
    <2>8. Awaited'
        BY <1>1, <2>1, <2>3, <2>4 DEF Awaited, AllEnded
    <2>9. program # "server"
        BY <1>1, <2>1 DEF Places, Types
    <2>10. Closing'
        BY <1>1, <2>1, <2>4, <2>9 DEF Closing, Types
    <2>11. RoundsApart'
        BY <2>3 DEF AllEnded, RoundsApart
    <2> QED BY <2>5, <2>7, <2>8, <2>10, <2>11 DEF Inv
<1>4. CASE Drained(t)
    <2>1. /\ pc[t] = "drain"
          /\ "request" \notin inflight
          /\ pc' = [pc EXCEPT ![t] = "quit"]
          /\ UNCHANGED <<program, loop, promises, joins, round, socket, inflight, exit>>
        BY <1>4 DEF Drained, Goto
    <2>2. AllEnded
        BY <1>1, <2>1 DEF Awaited
    <2>3. Types'
        BY <1>1, <2>1 DEF Types
    <2>4. t \in Signals
        BY <1>1, <2>1 DEF Places, Types
    <2>5. Places'
        BY <1>1, <2>1, <2>4 DEF Places, Types, Latency
    <2>6. Awaited' /\ RoundsApart'
        BY <1>1, <2>1, <2>2 DEF Awaited, RoundsApart, AllEnded, Busy, Types
    <2>7. Closing'
        BY <1>1, <2>1 DEF Closing, Types
    <2> QED BY <2>3, <2>5, <2>6, <2>7 DEF Inv
<1>5. CASE Quit(t)
    <2>1. /\ pc[t] = "quit"
          /\ UNCHANGED <<program, pc, loop, promises, joins, round, socket, inflight, client>>
        BY <1>5 DEF Quit
    <2> QED BY <1>1, <2>1 DEF Inv, Types, Places, Latency, Awaited, AllEnded, Busy, Closing,
                              RoundsApart
<1> QED BY <1>2, <1>3, <1>4, <1>5 DEF ThreadStep

(* Timers, requests and the ends of either. *)
LEMMA OtherStepInv ==
    ASSUME Inv,
           \/ \E x \in Timers : TimerFires(x)
           \/ Request
           \/ \E x \in inflight : Finish(x)
           \/ UNCHANGED vars
    PROVE  Inv'
<1>1. Types /\ Places /\ Awaited /\ Closing /\ RoundsApart
    BY DEF Inv
<1>2. UNCHANGED <<program, pc, loop, promises, joins, round, socket, client, exit>>
    BY DEF TimerFires, Request, Finish, vars, poolVars, scriptVars, aroundVars
<1>3. "request" \in inflight' => "request" \in inflight \/ socket = "open"
    BY DEF TimerFires, Request, Finish, vars, aroundVars
<1>4. Types' /\ Places' /\ Awaited' /\ RoundsApart'
    BY <1>1, <1>2 DEF Types, Places, Latency, Awaited, AllEnded, Busy, RoundsApart
<1>5. Closing'
    BY <1>1, <1>2, <1>3 DEF Closing
<1> QED BY <1>4, <1>5 DEF Inv

LEMMA InvStep == Inv /\ [Next]_vars => Inv'
BY LoopStepInv, MainStepInv, ThreadStepInv, OtherStepInv DEF Next

THEOREM ProgramsInvariant == Spec => []Inv
BY InitInv, InvStep, PTL DEF Spec

(* A shutdown lets every job and request finish (WorkerPool.ts 65-73). *)
THEOREM ExitIsGraceful == Spec => []GracefulExit
<1>1. Inv => GracefulExit
    BY DEF Inv, Places, Awaited, AllEnded, Closing, GracefulExit
<1> QED BY <1>1, ProgramsInvariant, PTL

(* The benchmark's pools do not overlap (benchmark.ts 48-82). *)
THEOREM RoundsAreApart == Spec => []RoundsApart
<1>1. Inv => RoundsApart
    BY DEF Inv
<1> QED BY <1>1, ProgramsInvariant, PTL

-------------------------------------------------------------------------------
(* The counters of the scripts.                                            *)

AtWork == {l \in Loops : loop[l] = "job"}

(* What the scripts do not count. *)
Flags ==
    /\ round \in 1 .. Rounds
    /\ isRunning \in BOOLEAN
    /\ timers \in BOOLEAN
    /\ socket \in {"closed", "open", "closing"}
    /\ inflight \subseteq Timers \cup {"request"}
    /\ client \in {"open", "closed"}
    /\ exit \in {"none", "clean", "failed"}

(* Every job a script has sent in this run is on the list, in a loop's     *)
(* hands or completed; a service counts none.                              *)
Counted ==
    /\ queue \in Nat /\ sent \in Nat /\ completed \in Nat
    /\ program \in Services => queue = 0 /\ sent = 0 /\ completed = 0
    /\ program \in Scripts => queue + Cardinality(AtWork) + completed = sent
    /\ sent <= JobCount
    /\ pc["main"] = "enqueue" => sent < JobCount

LEMMA AtWorkFinite == IsFiniteSet(AtWork) /\ Cardinality(AtWork) \in Nat
<1>1. AtWork \subseteq Loops
    BY DEF AtWork
<1> QED BY <1>1, ProgramsAssumption, FS_Subset, FS_CardinalityType

LEMMA AtWorkFiniteNext == IsFiniteSet(AtWork') /\ Cardinality(AtWork') \in Nat
<1>1. AtWork' \subseteq Loops
    BY DEF AtWork
<1> QED BY <1>1, ProgramsAssumption, FS_Subset, FS_CardinalityType

(* A loop that takes a job or gives it back is one more or one less. *)
LEMMA AtWorkStep ==
    ASSUME Types, NEW l \in Loops, NEW label, Becomes(l, label)
    PROVE  /\ loop[l] # "job" /\ label = "job" =>
                 Cardinality(AtWork') = Cardinality(AtWork) + 1
           /\ loop[l] = "job" /\ label # "job" =>
                 Cardinality(AtWork) = Cardinality(AtWork') + 1
           /\ loop[l] # "job" /\ label # "job" => AtWork' = AtWork
<1>0. loop' = [loop EXCEPT ![l] = label] /\ loop = [m \in Loops |-> loop[m]]
    BY DEF Becomes, Types
<1>1. CASE loop[l] # "job" /\ label = "job"
    <2>1. AtWork' = AtWork \cup {l} /\ l \notin AtWork
        BY <1>0, <1>1 DEF AtWork
    <2> QED BY <1>1, <2>1, AtWorkFinite, FS_AddElement
<1>2. CASE loop[l] = "job" /\ label # "job"
    <2>1. AtWork' = AtWork \ {l} /\ l \in AtWork
        BY <1>0, <1>2 DEF AtWork
    <2>2. Cardinality(AtWork') = Cardinality(AtWork) - 1 /\ Cardinality(AtWork) \in Nat
        BY <2>1, AtWorkFinite, FS_RemoveElement
    <2> QED BY <1>2, <2>2
<1>3. CASE loop[l] # "job" /\ label # "job"
    BY <1>0, <1>3 DEF AtWork
<1> QED BY <1>1, <1>2, <1>3

LEMMA CountedInit == Init => Flags /\ Counted
<1> SUFFICES ASSUME Init PROVE Flags /\ Counted
    OBVIOUS
<1>1. AtWork = {}
    BY DEF Init, AtWork
<1>2. Cardinality(AtWork) = 0
    BY <1>1, FS_EmptySet
<1>3. Flags
    <2>1. round \in 1 .. Rounds
        BY ProgramsAssumption DEF Init
    <2>2. isRunning \in BOOLEAN /\ timers \in BOOLEAN
        BY DEF Init
    <2>3. /\ socket = "closed" /\ inflight = {}
          /\ client = "open" /\ exit = "none"
        BY DEF Init
    <2> QED BY <2>1, <2>2, <2>3 DEF Flags
<1>4. pc["main"] # "enqueue" /\ program \in Services \cup Scripts
    BY DEF Init, FirstAwait
<1> QED BY <1>2, <1>3, <1>4, ProgramsAssumption DEF Init, Counted

LEMMA FlagsStep == Inv /\ Flags /\ [Next]_vars => Flags'
<1> SUFFICES ASSUME Inv, Flags, [Next]_vars PROVE Flags'
    OBVIOUS
<1> USE ProgramsAssumption DEF Flags, vars, poolVars, scriptVars, aroundVars
<1>1. CASE NextRound
    <2>1. program = "benchmark" /\ ~Latency
        BY <1>1 DEF NextRound, Inv, Places
    <2> QED BY <1>1, <2>1 DEF NextRound, Latency
<1>2. CASE Boot \/ Listen \/ ListenFails \/ Flushed \/ Enqueued \/ WaitOver
    BY <1>2 DEF Boot, Listen, ListenFails, Flushed, Enqueued, WaitOver, StartPool, Halt
<1>3. ASSUME NEW t \in Threads, Signal(t) \/ ThreadStep(t) PROVE Flags'
    BY <1>3 DEF Signal, ThreadStep, Joined, Drained, Quit, Halt
<1>4. ASSUME NEW l \in Loops, LoopStep(l) PROVE Flags'
    BY <1>4 DEF LoopStep, PollJob, PollEmpty, Wake, Handle, HandleLast, Throw, Settled, Halt
<1>5. ASSUME NEW x \in Timers, TimerFires(x) PROVE Flags'
    BY <1>5 DEF TimerFires
<1>6. CASE Request \/ \E x \in inflight : Finish(x)
    BY <1>6 DEF Request, Finish
<1>7. CASE UNCHANGED vars
    BY <1>7
<1> QED BY <1>1, <1>2, <1>3, <1>4, <1>5, <1>6, <1>7 DEF Next, MainStep

LEMMA CountedLoop ==
    ASSUME Inv, Counted, NEW l \in Loops, LoopStep(l)
    PROVE  Counted'
<1>0. /\ UNCHANGED <<program, sent>>
      /\ Types /\ program \in Services \cup Scripts
      /\ Cardinality(AtWork) \in Nat /\ Cardinality(AtWork') \in Nat
      /\ pc'["main"] = pc["main"]
    <2>1. pc'["main"] = pc["main"]
        BY DEF LoopStep, PollJob, PollEmpty, Wake, Handle, HandleLast, Throw, Settled, Goto,
               Inv, Types
    <2> QED BY <2>1, AtWorkFinite, AtWorkFiniteNext DEF LoopStep, Inv, Types
<1>1. CASE PollJob(l)
    <2>1. Cardinality(AtWork') = Cardinality(AtWork) + 1
        BY <1>0, <1>1, AtWorkStep DEF PollJob
    <2> QED BY <1>0, <1>1, <2>1 DEF PollJob, Counted
<1>2. CASE Handle(l) \/ HandleLast(l)
    <2>1. Cardinality(AtWork) = Cardinality(AtWork') + 1
        BY <1>0, <1>2, AtWorkStep DEF Handle, HandleLast
    <2>2. program \in Scripts => completed' = completed + 1 /\ queue' = queue
        BY <1>2 DEF Handle, HandleLast
    <2>3. program \in Services => completed' = completed /\ queue' = queue
        BY <1>2 DEF Handle, HandleLast, IsLast
    <2> QED BY <1>0, <2>1, <2>2, <2>3 DEF Counted
<1>3. CASE Throw(l)
    BY <1>0, <1>3 DEF Throw, Counted
<1>4. CASE PollEmpty(l) \/ Wake(l) \/ Settled(l)
    <2>1. AtWork' = AtWork /\ UNCHANGED <<queue, completed>>
        BY <1>0, <1>4, AtWorkStep DEF PollEmpty, Wake, Settled, NextTurn, Pause
    <2> QED BY <1>0, <2>1 DEF Counted
<1> QED BY <1>1, <1>2, <1>3, <1>4 DEF LoopStep

(* A pool is started when its loops have nothing. *)
LEMMA StartedIdle ==
    ASSUME Types
    PROVE  /\ (\A l \in Loops : ~Busy(l)) => Cardinality(AtWork) = 0
           /\ StartPool => Cardinality(AtWork') = 0
<1>1. (\A l \in Loops : ~Busy(l)) => AtWork = {}
    BY DEF AtWork, Busy
<1>2. StartPool => AtWork' = {}
    BY DEF AtWork, StartPool
<1> QED BY <1>1, <1>2, FS_EmptySet

LEMMA CountedMain ==
    ASSUME Inv, Counted, MainStep
    PROVE  Counted'
<1>0. Types /\ Places /\ RoundsApart /\ Cardinality(AtWork) \in Nat
    BY AtWorkFinite DEF Inv
<1> USE DEF scriptVars, poolVars
<1>1. CASE Boot
    BY <1>0, <1>1 DEF Boot, Places, Counted, Goto, Types
<1>2. CASE Listen \/ ListenFails \/ WaitOver
    <2>1. /\ UNCHANGED <<program, queue, sent, completed, loop>>
          /\ pc'["main"] = "enqueue" => pc["main"] = "enqueue"
        BY <1>0, <1>2 DEF Listen, ListenFails, WaitOver, Halt, Goto, Types
    <2> QED BY <2>1 DEF Counted, AtWork
<1>3. CASE Flushed
    <2>1. Cardinality(AtWork) = 0 /\ Cardinality(AtWork') = 0
        BY <1>0, <1>3, StartedIdle DEF Flushed, RoundsApart, AtWork
    <2> QED BY <1>0, <1>3, <2>1, ProgramsAssumption DEF Flushed, Counted, Places
<1>4. CASE Enqueued
    <2>1. program \in Scripts /\ UNCHANGED <<program, completed>>
        BY <1>0, <1>4 DEF Enqueued, Places, Types
    <2>2. Cardinality(AtWork') = Cardinality(AtWork)
        BY <1>0, <1>4, StartedIdle DEF Enqueued, RoundsApart, AtWork
    <2>3. /\ queue' = queue + 1 /\ sent' = sent + 1 /\ sent < JobCount
          /\ sent' < JobCount \/ (sent' = JobCount /\ pc'["main"] = "wait")
        BY <1>0, <1>4 DEF Enqueued, Counted, Goto, Types
    <2> QED BY <1>0, <2>1, <2>2, <2>3, ProgramsAssumption DEF Counted
<1>5. CASE NextRound
    <2>1. /\ UNCHANGED <<program, queue, sent, completed, loop>>
          /\ pc'["main"] # "enqueue"
        BY <1>0, <1>5 DEF NextRound, Types
    <2> QED BY <2>1 DEF Counted, AtWork
<1> QED BY <1>1, <1>2, <1>3, <1>4, <1>5 DEF MainStep

LEMMA CountedStep == Inv /\ Counted /\ [Next]_vars => Counted'
<1> SUFFICES ASSUME Inv, Counted, [Next]_vars PROVE Counted'
    OBVIOUS
<1>1. CASE MainStep
    BY <1>1, CountedMain
<1>2. ASSUME NEW l \in Loops, LoopStep(l) PROVE Counted'
    BY <1>2, CountedLoop
<1>3. ASSUME \/ \E t \in Threads : Signal(t) \/ ThreadStep(t)
             \/ \E x \in Timers : TimerFires(x)
             \/ Request
             \/ \E x \in inflight : Finish(x)
             \/ UNCHANGED vars
      PROVE  Counted'
    <2>1. /\ UNCHANGED <<program, queue, sent, completed, loop>>
          /\ pc'["main"] = "enqueue" => pc["main"] = "enqueue"
        BY <1>3 DEF Signal, ThreadStep, Joined, Drained, Quit, Halt, Goto, TimerFires, Request,
                    Finish, vars, poolVars, scriptVars, Inv, Types
    <2> QED BY <2>1 DEF Counted, AtWork
<1> QED BY <1>1, <1>2, <1>3 DEF Next

(* Every variable keeps its type; that the counters of the scripts stay    *)
(* within the number of jobs (benchmark.ts 48-82, debug-bench.ts 12-41)    *)
(* rests on every job of a run being counted in one place.                 *)
THEOREM ProgramsTypes == Spec => []TypeOK
<1>1. Init => Flags /\ Counted
    BY CountedInit
<1>2. Inv /\ Flags /\ Counted /\ [Next]_vars => Flags' /\ Counted'
    BY FlagsStep, CountedStep
<1>3. Inv /\ Flags /\ Counted => TypeOK
    <2> SUFFICES ASSUME Inv, Flags, Counted PROVE TypeOK
        OBVIOUS
    <2>1. Cardinality(AtWork) \in Nat
        BY AtWorkFinite
    <2>2. queue <= JobCount /\ completed <= JobCount
        BY <2>1, ProgramsAssumption DEF Counted, Inv, Types
    <2> QED BY <2>2, ProgramsAssumption DEF TypeOK, Inv, Types, Flags, Counted
<1> QED BY <1>1, <1>2, <1>3, ProgramsInvariant, PTL DEF Spec
===============================================================================
