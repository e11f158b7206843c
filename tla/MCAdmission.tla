------------------------------ MODULE MCAdmission ------------------------------
(***************************************************************************)
(* What may run beside what.  Each behaviour follows one subject, named by *)
(* focus, while the others rest: the worker processes and their admission  *)
(* transactions, the same while the operator switches between sequential   *)
(* mode and a budget (switching), one call of plan_admissions over three   *)
(* jobs, two model keys and nine shapes of job, requests that enqueue, the *)
(* settings forms, and the checkpoints in an image engine.                 *)
(***************************************************************************)
EXTENDS MCJobQueue, Submission

CONSTANTS c1, c2, x, y

VARIABLES focus,
    call, at, rest, admitted, resident, used,               \* PlanLoop
    model, job, tick, memo, known, loaded, queue, prompt, flag, failed, doubt, blind

planVars == <<call, at, rest, admitted, resident, used>>
residencyVars == <<model, job, tick, memo, known, loaded, queue, prompt, flag, failed, doubt, blind>>
mcvars == <<vars, planVars, subVars, residencyVars, focus>>

Unlike == INSTANCE JobQueue WITH
    Keys <- {k1, k2}, Priority <- MixedPriority, Exclusive <- SecondExclusive,
    Models <- SharedModels, Size <- [k \in {k1, k2} |-> 1], SettingsChoices <- Switching,
    MaxFaults <- 0

Reading(k, b) == [key |-> k, footprint_bytes |-> b]

\* Unmeasured, sharing a key, sharing it at another size, two keys, oversize...
Shapes ==
    {[exclusive |-> FALSE, models |-> m] :
        m \in {{},
               {Reading("k1", None)},
               {Reading("k1", 1)},
               {Reading("k1", 2)},
               {Reading("k2", 1)},
               {Reading("k1", 1), Reading("k1", 2)},
               {Reading("k1", 1), Reading("k2", 1)},
               {Reading("k2", 4)}}}
    \cup {[exclusive |-> TRUE, models |-> {Reading("k1", 1)}]}

Shaped(id, prio, shape) ==
    [job_id |-> id, priority |-> prio, exclusive |-> shape.exclusive, models |-> shape.models]

\* Only job 1 varies its priority: with ids distinct that reaches every order
\* of three candidates up to renaming of shapes.
Placement(id) ==
    {[cands |-> {Shaped(id, p, s)}, running |-> {}] : p \in IF id = 1 THEN {1, 2} ELSE {1}, s \in Shapes}
    \cup {[cands |-> {}, running |-> {Shaped(id, 1, s)}] : s \in Shapes}

Calls ==
    {[cands   |-> a.cands \cup b.cands \cup c.cands,
      running |-> a.running \cup b.running \cup c.running,
      budget  |-> m[1],
      cap     |-> m[2]] :
        a \in Placement(1), b \in Placement(2),
        c \in Placement(3) \cup {[cands |-> {}, running |-> {}]},
        m \in ({None, 1, 2, 3} \X (1..3)) \cup {<<None, 0>>}}

P == INSTANCE PlanLoop WITH pc <- at, Inputs <- Calls

\* Two requests of one principal.
OnePrincipal == [c \in Clients |-> "ann"]

Checkpoints == {"a", "b", "c"}
CheckpointSize == [m \in Checkpoints |-> CASE m = "a" -> 3 [] m = "b" -> 1 [] OTHER -> 2]
R == INSTANCE Residency WITH
    Jobs <- 1..4, Models <- Checkpoints, Size <- CheckpointSize, Growth <- 0, Total <- 8,
    Budget <- 4, MaxFaults <- 1, faults <- failed

ASSUME R!ResidencyAssumption

PlanRests == call = <<>> /\ at = "done" /\ rest = {} /\ admitted = <<>> /\ resident = <<>> /\ used = 0
SubmissionRests ==
    SubInit /\ jobSettings = [retention |-> <<1, 1>>, budget |-> 0]
ResidencyRests == R!Init /\ model = [j \in 1..4 |-> "a"]

MCInit ==
    /\ focus \in {"workers", "switching", "plan", "enqueues", "forms", "engine"}
    /\ IF focus = "switching" THEN Unlike!Init ELSE Init
    /\ \/ focus \in {"workers", "switching"} /\ PlanRests /\ SubmissionRests /\ ResidencyRests
       \/ focus = "plan" /\ SubmissionRests /\ ResidencyRests /\ P!Init
       \/ focus = "enqueues" /\ PlanRests /\ SubmissionRests /\ ResidencyRests
       \/ focus = "forms" /\ PlanRests /\ SubInit /\ ResidencyRests
       \/ focus = "engine" /\ PlanRests /\ SubmissionRests /\ R!Init

Requests ==
    \/ \E c \in Clients : enqueue(c)
    \/ \E i \in Pks : Runs(i) \/ Ends(i) \/ cancel_job(i)

SettingsForms ==
    \E a \in Admins : \/ queue_settings_update(a)
                      \/ _update_retention_and_priority(a)
                      \/ _update_budget_and_concurrency(a)

\* Only the workers are meant to go on for ever.
Rests == focus \notin {"workers", "switching"} /\ UNCHANGED mcvars

MCNext ==
    \/ /\ focus = "workers" /\ Next
       /\ UNCHANGED <<planVars, subVars, residencyVars, focus>>
    \/ /\ focus = "switching" /\ Unlike!Next
       /\ UNCHANGED <<planVars, subVars, residencyVars, focus>>
    \/ /\ focus = "plan" /\ P!Next
       /\ UNCHANGED <<vars, subVars, residencyVars, focus>>
    \/ /\ focus = "enqueues" /\ Requests
       /\ UNCHANGED <<vars, planVars, residencyVars, focus>>
    \/ /\ focus = "forms" /\ SettingsForms
       /\ UNCHANGED <<vars, planVars, residencyVars, focus>>
    \/ /\ focus = "engine" /\ R!Next
       /\ UNCHANGED <<vars, planVars, subVars, focus>>
    \/ Rests

MCSpec == MCInit /\ [][MCNext]_mcvars

----------------------------------------------------------------------------
(* The subjects' own properties, each stated in its module.                *)

\* What an admission leaves running fits the settings its tick read.
AdmissionsFit ==
    [][\A w \in Workers : /\ focus = "workers" => FitsItsSettings(w)
                          /\ focus = "switching" => Unlike!FitsItsSettings(w)]_mcvars

\* The walk returns exactly the set the admission policy describes, in order.
WalkReturnsThePlan == focus = "plan" => P!WalkReturnsThePlan

\* What the adapter can tell is loaded fits the budget.
ToldLoadsFitTheBudget == focus = "engine" => R!ToldLoadsFitTheBudget
================================================================================
