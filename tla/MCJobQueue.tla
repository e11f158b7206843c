------------------------------- MODULE MCJobQueue -------------------------------
(* Small instances of JobQueue. *)
EXTENDS JobQueue, TLC

CONSTANTS w1, w2, k1, k2

\* Worker processes are interchangeable (safety runs only).
WorkerSymmetry == Permutations(Workers)

OneJob == {1}
TwoJobs == 1..2
SamePriority == [j \in Jobs |-> 1]
NoneExclusive == [j \in Jobs |-> FALSE]
OneModelEach == [j \in Jobs |-> {k1}]
NoModels == [j \in Jobs |-> {}]

\* Job 2 overtakes job 1, is declared exclusive and shares a model with it.
MixedPriority == [j \in Jobs |-> IF j = 2 THEN 1 ELSE 2]
SecondExclusive == [j \in Jobs |-> j = 2]
SharedModels == [j \in Jobs |-> IF j = 1 THEN {k1, k2} ELSE {k1}]

UnitSize == [k \in Keys |-> 1]

\* The settings a fresh installation has: no budget, four slots nobody may use.
Sequential == {[budget |-> None, cap |-> 4]}
TwoAtOnce == {[budget |-> 2, cap |-> 2]}
Switching == {[budget |-> None, cap |-> 2], [budget |-> 2, cap |-> 2]}
================================================================================
