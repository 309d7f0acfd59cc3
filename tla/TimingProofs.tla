----------------------------- MODULE TimingProofs -----------------------------
(***************************************************************************)
(* Proofs about Timing: whatever the intervals, the lag of the event loops *)
(* and the difference of the clocks, as long as a heartbeat outlives the   *)
(* interval and the lag, a living worker keeps its heartbeat, an orphan is *)
(* found in time, and a retry comes neither early nor late.                *)
(***************************************************************************)
EXTENDS Timing, TLAPS

(* The age of the key and the time since the last renewal are one. *)
BeatInv == job = "running" => ttl = HeartbeatTtl - HeartbeatInterval + beatIn

(* An orphan's key expires within the TTL; from then on the watchdog's     *)
(* timer has been running.                                                 *)
OrphanInv ==
    job = "orphaned" =>
        IF ttl > 0 THEN age + ttl <= HeartbeatTtl
        ELSE age <= HeartbeatTtl + (WatchdogInterval - checkIn)

(* Likewise for a delayed job, its due time and the scheduler's timer. *)
DelayInv ==
    job = "delayed" =>
        /\ attempts \in 1 .. MaxAttempts
        /\ age + dueIn >= BackoffBase(attempts) - Skew
        /\ dueIn > 0 => age + dueIn <= BackoffBase(attempts) + Jitter + Skew
        /\ dueIn <= 0 => age <= BackoffBase(attempts) + Jitter + Skew
                                + (SchedulerInterval - runIn)

Inv == TypeOK /\ BeatInv /\ OrphanInv /\ DelayInv

(* The backoff is a number and no more than the cap. *)
LEMMA BackoffBounds ==
    ASSUME NEW a \in 1 .. MaxAttempts
    PROVE  BackoffBase(a) \in Nat /\ BackoffBase(a) <= MaxDelay
BY TimingAssumption DEF BackoffBase

LEMMA InitInv == Init => Inv
BY TimingAssumption DEF Init, Inv, TypeOK, BeatInv, OrphanInv, DelayInv

LEMMA StepType == TypeOK /\ [Next]_vars => TypeOK'
<1> SUFFICES ASSUME TypeOK, [Next]_vars PROVE TypeOK'
    OBVIOUS
<1>1. CASE Take \/ FirstBeat
    BY <1>1, TimingAssumption DEF Take, FirstBeat, TypeOK, timers
<1>2. CASE Beat
    BY <1>2, TimingAssumption DEF Beat, TypeOK, timers
<1>3. CASE Finish
    BY <1>3, TimingAssumption DEF Finish, TypeOK, timers
<1>4. CASE Fail
    <2>1. attempts' \in 1 .. MaxAttempts
        BY <1>4, TimingAssumption DEF Fail, TypeOK
    <2>2. BackoffBase(attempts') \in Nat
        BY <2>1, BackoffBounds
    <2>3. PICK j \in 0 .. Jitter, d \in -Skew .. Skew : dueIn' = BackoffBase(attempts') + j + d
        BY <1>4 DEF Fail
    <2>4. dueIn' \in Int
        BY <2>2, <2>3, TimingAssumption
    <2> QED BY <1>4, <2>1, <2>4, TimingAssumption DEF Fail, TypeOK, timers
<1>5. CASE Crash
    BY <1>5, TimingAssumption DEF Crash, TypeOK, timers
<1>6. CASE Check
    BY <1>6, TimingAssumption DEF Check, TypeOK, timers
<1>7. CASE Run
    BY <1>7, TimingAssumption DEF Run, TypeOK
<1>8. CASE Tick
    BY <1>8, TimingAssumption DEF Tick, TypeOK
<1>9. CASE UNCHANGED vars
    BY <1>9 DEF vars, timers, TypeOK
<1> QED BY <1>1, <1>2, <1>3, <1>4, <1>5, <1>6, <1>7, <1>8, <1>9 DEF Next

LEMMA StepBeat == Inv /\ [Next]_vars => BeatInv'
<1> SUFFICES ASSUME Inv, [Next]_vars PROVE BeatInv'
    OBVIOUS
<1> USE TimingAssumption, PunctualAssumption DEF Inv, TypeOK, BeatInv
<1>1. CASE Take \/ FirstBeat \/ Beat
    BY <1>1 DEF Take, FirstBeat, Beat
<1>2. CASE Finish \/ Fail \/ Crash
    BY <1>2 DEF Finish, Fail, Crash
<1>3. CASE Check
    BY <1>3 DEF Check
<1>4. CASE Run
    BY <1>4 DEF Run
<1>5. CASE Tick
    BY <1>5 DEF Tick
<1>6. CASE UNCHANGED vars
    BY <1>6 DEF vars
<1> QED BY <1>1, <1>2, <1>3, <1>4, <1>5, <1>6 DEF Next

LEMMA StepOrphan == Inv /\ [Next]_vars => OrphanInv'
<1> SUFFICES ASSUME Inv, [Next]_vars PROVE OrphanInv'
    OBVIOUS
<1> USE TimingAssumption DEF Inv, TypeOK, OrphanInv
<1>1. CASE Take \/ FirstBeat \/ Beat \/ Finish \/ Fail
    BY <1>1 DEF Take, FirstBeat, Beat, Finish, Fail
<1>2. CASE Crash
    BY <1>2 DEF Crash, timers
<1>3. CASE Check
    BY <1>3 DEF Check
<1>4. CASE Run
    BY <1>4 DEF Run
<1>5. CASE Tick
    BY <1>5 DEF Tick
<1>6. CASE UNCHANGED vars
    BY <1>6 DEF vars, timers
<1> QED BY <1>1, <1>2, <1>3, <1>4, <1>5, <1>6 DEF Next

LEMMA StepDelay == Inv /\ [Next]_vars => DelayInv'
<1> SUFFICES ASSUME Inv, [Next]_vars, job' = "delayed" PROVE DelayInv'
    BY DEF DelayInv
<1> USE TimingAssumption DEF Inv, TypeOK, DelayInv
<1>1. CASE Take \/ FirstBeat \/ Beat \/ Finish \/ Crash
    BY <1>1 DEF Take, FirstBeat, Beat, Finish, Crash
<1>2. CASE Fail
    <2>1. attempts' \in 1 .. MaxAttempts /\ age' = 0 /\ runIn' = runIn
        BY <1>2 DEF Fail, timers
    <2>2. BackoffBase(attempts') \in Nat /\ BackoffBase(attempts') <= MaxDelay
        BY <2>1, BackoffBounds
    <2>3. PICK j \in 0 .. Jitter, d \in -Skew .. Skew : dueIn' = BackoffBase(attempts') + j + d
        BY <1>2 DEF Fail
    <2> QED BY <2>1, <2>2, <2>3
<1>3. CASE UNCHANGED <<attempts, dueIn, age, job>> /\ (Check \/ Run \/ UNCHANGED vars)
    <2>1. attempts \in 1 .. MaxAttempts
        BY <1>3
    <2>2. BackoffBase(attempts) \in Nat /\ BackoffBase(attempts) <= MaxDelay
        BY <2>1, BackoffBounds
    <2>3. runIn' = runIn \/ (dueIn > 0 /\ runIn' = SchedulerInterval)
        BY <1>3 DEF Check, Run, vars, timers
    <2>4. BackoffBase(attempts') = BackoffBase(attempts)
        BY <1>3
    <2> QED BY <1>3, <2>1, <2>2, <2>3, <2>4
<1>4. CASE Tick
    <2>1. attempts \in 1 .. MaxAttempts /\ attempts' = attempts /\ job = "delayed"
        BY <1>4 DEF Tick
    <2>2. BackoffBase(attempts) \in Nat /\ BackoffBase(attempts) <= MaxDelay
        BY <2>1, BackoffBounds
    <2>3. BackoffBase(attempts') = BackoffBase(attempts)
        BY <2>1
    <2>4. /\ age' = age + 1
          /\ runIn' = runIn - 1
          /\ dueIn' = IF dueIn > 0 THEN dueIn - 1 ELSE dueIn
        BY <1>4, <2>1 DEF Tick
    <2> QED BY <2>1, <2>2, <2>3, <2>4
<1>5. CASE Check \/ Run \/ UNCHANGED vars
    <2>1. job = "delayed"
        BY <1>5 DEF Check, Run, vars
    <2>2. UNCHANGED <<attempts, dueIn, age, job>>
        BY <1>5, <2>1 DEF Check, Run, vars
    <2> QED BY <1>3, <1>5, <2>2
<1> QED BY <1>1, <1>2, <1>4, <1>5 DEF Next

LEMMA InvStep == Inv /\ [Next]_vars => Inv'
<1>1. Inv => TypeOK
    BY DEF Inv
<1> QED BY <1>1, StepType, StepBeat, StepOrphan, StepDelay DEF Inv

(* The three invariants and the types hold together.                       *)
THEOREM TimingInvariant == Spec => []Inv
<1> QED BY InitInv, InvStep, PTL DEF Spec

(* The timers stay within their intervals and the lag (config/index.ts). *)
THEOREM TimingTypes == Spec => []TypeOK
<1>1. Inv => TypeOK
    BY DEF Inv
<1> QED BY <1>1, TimingInvariant, PTL

(* A living worker always has a heartbeat (WorkerPool.ts 134-138). *)
THEOREM LivingHaveHeartbeats == Spec => []HeartbeatHolds
<1>1. Inv => HeartbeatHolds
    BY TimingAssumption, PunctualAssumption DEF Inv, TypeOK, BeatInv, HeartbeatHolds
<1> QED BY <1>1, TimingInvariant, PTL

(* An orphan is requeued within TTL, interval and lag (Watchdog.ts 31-90). *)
THEOREM OrphansAreRescued == Spec => []RescuedInTime
<1>1. Inv => RescuedInTime
    BY TimingAssumption DEF Inv, TypeOK, OrphanInv, RescuedInTime
<1> QED BY <1>1, TimingInvariant, PTL

(* A retry is not late (Scheduler.ts 20-61). *)
THEOREM RetriesAreInTime == Spec => []RetriedInTime
<1>1. Inv => RetriedInTime
    <2> SUFFICES ASSUME Inv, job = "delayed"
                 PROVE  age <= BackoffBase(attempts) + Jitter + Skew + SchedulerInterval + Lag
        BY DEF RetriedInTime
    <2>1. attempts \in 1 .. MaxAttempts
        BY DEF Inv, DelayInv
    <2>2. BackoffBase(attempts) \in Nat
        BY <2>1, BackoffBounds
    <2> QED BY <2>2, TimingAssumption DEF Inv, TypeOK, DelayInv
<1> QED BY <1>1, TimingInvariant, PTL

(* Nor is it early (WorkerPool.ts 18-21). *)
THEOREM RetriesAreNotEarly == Spec => NotBeforeBackoff
<1>1. Inv /\ [Next]_vars =>
        (job = "delayed" /\ job' = "waiting" => age >= BackoffBase(attempts) - Skew)
    <2> SUFFICES ASSUME Inv, [Next]_vars, job = "delayed", job' = "waiting"
                 PROVE  age >= BackoffBase(attempts) - Skew
        OBVIOUS
    <2>1. dueIn <= 0
        BY DEF Next, Take, FirstBeat, Beat, Finish, Fail, Crash, Check, Run, Tick, vars
    <2>2. attempts \in 1 .. MaxAttempts
        BY DEF Inv, DelayInv
    <2>3. BackoffBase(attempts) \in Nat
        BY <2>2, BackoffBounds
    <2> QED BY <2>1, <2>3, TimingAssumption DEF Inv, TypeOK, DelayInv
<1> QED BY <1>1, TimingInvariant, PTL DEF Spec, NotBeforeBackoff
===============================================================================
