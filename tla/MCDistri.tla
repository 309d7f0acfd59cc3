------------------------------- MODULE MCDistri -------------------------------
(* Instances of Distri for TLC: named values for the constants a .cfg      *)
(* cannot write down.                                                      *)
EXTENDS Distri, TLC

CONSTANTS j1, j2, k1, n1, n2, w1, w2, d1, s1, s2

OneList    == <<"normal">>
TwoLists   == <<"high", "normal">>
NoPriority == [j \in Jobs |-> "normal"]
HighFirst  == [j \in Jobs |-> IF j = j1 THEN "high" ELSE "normal"]

Once  == [j \in Jobs |-> 1]
Twice == [j \in Jobs |-> 2]
Thrice == [j \in Jobs |-> 3]

NoKeys  == [j \in Jobs |-> NoKey]
SameKey == [j \in Jobs |-> k1]

Components == Workers \cup Watchdogs \cup Schedulers

(* Everything with index 1 is in process n1, the rest in n2. *)
Placed == [x \in Components |-> IF x \in {w1, d1, s1} THEN n1 ELSE n2]

(* Everything in one process, whose workers then are interchangeable, as   *)
(* are jobs that share a key and are all handled or all not.               *)
Together == [x \in Components |-> n1]

WorkersAndJobs == {f @@ g : f \in Permutations(Workers), g \in Permutations(Jobs)}
===============================================================================
