------------------------------ MODULE JobLedger ------------------------------
(***************************************************************************)
(* What the queue promises its callers, with no word about how: a job is   *)
(* run only if its enqueue returned, what has run has run, and a job in    *)
(* the books is eventually run, or buried in the dead-letter list, unless  *)
(* the store lost its record.  A buried job may be taken up again.         *)
(***************************************************************************)
CONSTANT Jobs

VARIABLES
    accepted,  \* jobs whose enqueue returned their id
    ran,       \* jobs whose handler resolved
    buried,    \* jobs in the dead-letter list
    lost       \* jobs whose record the store dropped

ledger == <<accepted, ran, buried, lost>>

Init == accepted = {} /\ ran = {} /\ buried = {} /\ lost = {}

Accept(j) == accepted' = accepted \cup {j} /\ UNCHANGED <<ran, buried, lost>>

Run(j) ==
    /\ j \in accepted
    /\ ran' = ran \cup {j}
    /\ UNCHANGED <<accepted, buried, lost>>

Bury(j) ==
    /\ j \in accepted
    /\ buried' = buried \cup {j}
    /\ UNCHANGED <<accepted, ran, lost>>

TakeUp(j) == buried' = buried \ {j} /\ UNCHANGED <<accepted, ran, lost>>

Lose(j) == lost' = lost \cup {j} /\ UNCHANGED <<accepted, ran, buried>>

Next == \E j \in Jobs : Accept(j) \/ Run(j) \/ Bury(j) \/ TakeUp(j) \/ Lose(j)

Open(j) == j \in accepted \ (ran \cup buried \cup lost)

Conclude(j) == Open(j) /\ (Run(j) \/ Bury(j))

SafeSpec == Init /\ [][Next]_ledger
Spec     == SafeSpec /\ \A j \in Jobs : WF_ledger(Conclude(j))
===============================================================================
