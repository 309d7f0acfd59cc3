------------------------------- MODULE JobLife -------------------------------
(***************************************************************************)
(* The life of a job as long as nobody takes it from anybody: it is in one *)
(* place at a time, and its handler is started at most MaxAttempts times   *)
(* between its submission, or a retry by hand, and its burial.             *)
(***************************************************************************)
EXTENDS Naturals

CONSTANTS Jobs, MaxAttempts

VARIABLES
    stage,  \* where each job is
    tries   \* how often its handler has failed since it was last submitted

life == <<stage, tries>>

Stages == {"none", "queued", "taken", "backoff", "done", "buried", "stuck"}

Init ==
    /\ stage = [j \in Jobs |-> "none"]
    /\ tries = [j \in Jobs |-> 0]

Move(j, from, to) == stage[j] \in from /\ stage' = [stage EXCEPT ![j] = to]

Submit(j)  == Move(j, {"none"}, "queued") /\ UNCHANGED tries
Take(j)    == Move(j, {"queued"}, "taken") /\ UNCHANGED tries
Finish(j)  == Move(j, {"taken"}, "done") /\ UNCHANGED tries
Release(j) == Move(j, {"backoff"}, "queued") /\ UNCHANGED tries

Fail(j) ==
    /\ Move(j, {"taken"}, IF tries[j] + 1 < MaxAttempts[j] THEN "backoff" ELSE "buried")
    /\ tries' = [tries EXCEPT ![j] = @ + 1]

(* Given up by a worker that has no handler for it. *)
Strand(j) == Move(j, {"taken"}, "stuck") /\ UNCHANGED tries

(* A retry by hand: the count starts again. *)
Revive(j) ==
    /\ Move(j, {"buried", "stuck"}, "queued")
    /\ tries' = [tries EXCEPT ![j] = 0]

(* A process dies with what its workers had not put anywhere yet. *)
Die(js) ==
    /\ \A j \in js : stage[j] \in {"taken", "backoff", "buried"}
    /\ stage' = [j \in Jobs |-> IF j \in js THEN "stuck" ELSE stage[j]]
    /\ UNCHANGED tries

Next ==
    \/ \E j \in Jobs : Submit(j) \/ Take(j) \/ Finish(j) \/ Fail(j) \/ Release(j)
                       \/ Strand(j) \/ Revive(j)
    \/ \E js \in SUBSET Jobs : Die(js)

Spec == Init /\ [][Next]_life
===============================================================================
