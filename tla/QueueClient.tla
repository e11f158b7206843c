-------------------------------- MODULE QueueClient --------------------------------
(***************************************************************************)
(* The queue as the code that enqueues jobs and the handlers that run them *)
(* see it: a job waits, is claimed, is swept or given back, is cancelled,  *)
(* and ends with its last attempt's report or with a hook.  A component    *)
(* EXTENDS this module, gives its jobs a meaning, and adds what its        *)
(* handler does between "claimed" and "ok" or "bad".                       *)
(*                                                                         *)
(* An attempt is a pair of a job and the ordinal of its claim.             *)
(***************************************************************************)
EXTENDS Naturals, FiniteSets

CONSTANTS
    Jobs,       \* jobs, in the order they are enqueued
    Late,       \* TRUE: an attempt may outlive its claim
    MaxFaults   \* bound on killed processes and drains

ASSUME QueueClientAssumption ==
    /\ Jobs \subseteq Nat \ {0} /\ IsFiniteSet(Jobs)
    /\ Late \in BOOLEAN /\ MaxFaults \in Nat

VARIABLES
    job,        \* InferenceJob rows
    att,        \* where each attempt's handler is
    hooks,      \* terminal jobs whose on_terminal is scheduled
    faults      \* faults so far

queueVars == <<job, att, hooks, faults>>

Ended == {"succeeded", "failed", "cancelled"}

Tries == 1..(2 + MaxFaults)
Execs == Jobs \X Tries

JobRow ==
    [state : {"absent", "queued", "running"} \cup Ended,
     tries : {0} \cup Tries, lost : 0..1, outcome : {0} \cup Tries]

QueueTypeOK(pcs) ==
    /\ job \in [Jobs -> JobRow]
    /\ att \in [Execs -> pcs \cup {"none", "claimed", "ok", "bad", "over"}]
    /\ hooks \subseteq Jobs
    /\ faults \in 0..MaxFaults

QueueInit ==
    /\ job = [j \in Jobs |-> [state |-> "absent", tries |-> 0, lost |-> 0, outcome |-> 0]]
    /\ att = [e \in Execs |-> "none"]
    /\ hooks = {}
    /\ faults = 0

Row(j, state, lost, outcome) ==
    [state |-> state, tries |-> job[j].tries, lost |-> lost, outcome |-> outcome]

Executing(e) == att[e] \notin {"none", "over"}
HolderGone(j) == att[<<j, job[j].tries>>] = "over"
Holds(e) == job[e[1]].state = "running" /\ job[e[1]].tries = e[2]

\* Somebody will still do something for job j.
Active(j) ==
    \/ job[j].state \in {"queued", "running"}
    \/ j \in hooks
    \/ \E t \in Tries : Executing(<<j, t>>)

Faulty == faults < MaxFaults /\ faults' = faults + 1

Goes(e, from, to) == att[e] = from /\ att' = [att EXCEPT ![e] = to]

---------------------------------------------------------------------------
\* enqueue's insert, inside the caller's transaction.
Enqueued(j) ==
    /\ job[j].state = "absent"
    /\ job' = [job EXCEPT ![j] = Row(j, "queued", 0, 0)]

\* Jobs are numbered as they come.
NextJob == {j \in Jobs : job[j].state = "absent" /\ \A i \in Jobs : i < j => job[i].state # "absent"}

Claim(j) ==
    /\ job[j].state = "queued"
    /\ job' = [job EXCEPT ![j] = [Row(j, "running", job[j].lost, 0) EXCEPT !.tries = @ + 1]]
    /\ att' = [att EXCEPT ![<<j, job[j].tries + 1>>] = "claimed"]
    /\ UNCHANGED <<hooks, faults>>

\* The holder is gone, or with Late only its heartbeats are: once the job
\* waits again, the second time it fails and its hook is scheduled.
Sweep(j) ==
    /\ job[j].state = "running"
    /\ Late \/ HolderGone(j)
    /\ IF job[j].lost = 0
       THEN job' = [job EXCEPT ![j] = Row(j, "queued", 1, 0)] /\ UNCHANGED hooks
       ELSE job' = [job EXCEPT ![j] = Row(j, "failed", 1, 0)] /\ hooks' = hooks \cup {j}
    /\ UNCHANGED <<att, faults>>

\* A worker that is shut down gives the job back and exits, or with Late
\* exits some time later.
Drain(j) ==
    /\ job[j].state = "running" /\ ~HolderGone(j)
    /\ Faulty
    /\ job' = [job EXCEPT ![j] = Row(j, "queued", job[j].lost, 0)]
    /\ att' = IF Late THEN att ELSE [att EXCEPT ![<<j, job[j].tries>>] = "over"]
    /\ UNCHANGED hooks

\* Mutant: a running job can be cancelled.
Cancel_Running(j) ==
    /\ job[j].state \in {"queued", "running"}
    /\ job' = [job EXCEPT ![j] = Row(j, "cancelled", job[j].lost, 0)]
    /\ hooks' = hooks \cup {j}
    /\ UNCHANGED <<att, faults>>

\* Mutant: the hook is forgotten.
Cancel_NoHook(j) ==
    /\ job[j].state = "queued"
    /\ job' = [job EXCEPT ![j] = Row(j, "cancelled", job[j].lost, 0)]
    /\ UNCHANGED <<att, hooks, faults>>

Cancel(j) ==
    /\ job[j].state = "queued"
    /\ job' = [job EXCEPT ![j] = Row(j, "cancelled", job[j].lost, 0)]
    /\ hooks' = hooks \cup {j}
    /\ UNCHANGED <<att, faults>>

\* The worker's write-back, fenced by the claim token.
Outcome(e, state) ==
    IF Holds(e) THEN [job EXCEPT ![e[1]] = Row(e[1], state, job[e[1]].lost, e[2])] ELSE job

Report(e) ==
    /\ \/ Goes(e, "ok", "over") /\ job' = Outcome(e, "succeeded")
       \/ Goes(e, "bad", "over") /\ job' = Outcome(e, "failed")
    /\ UNCHANGED <<hooks, faults>>

\* The handler cannot be resolved: the job fails and the hook is scheduled,
\* whether or not the write-back was fenced off.
HandlerMissing(e) ==
    /\ Goes(e, "claimed", "over")
    /\ job' = Outcome(e, "failed")
    /\ hooks' = hooks \cup {e[1]}
    /\ UNCHANGED faults

WorkerDies(e) ==
    /\ Executing(e)
    /\ Faulty
    /\ att' = [att EXCEPT ![e] = "over"]
    /\ UNCHANGED <<job, hooks>>

\* A scheduled hook runs in the process that committed the terminal write.
HookRuns(j) ==
    /\ j \in hooks
    /\ hooks' = hooks \ {j}
    /\ UNCHANGED <<job, att, faults>>

QueueStep ==
    \/ \E j \in Jobs : Claim(j) \/ Sweep(j) \/ Drain(j) \/ Cancel(j)
    \/ \E e \in Execs : Report(e) \/ HandlerMissing(e) \/ WorkerDies(e)
================================================================================
