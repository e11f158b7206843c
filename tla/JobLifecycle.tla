------------------------------ MODULE JobLifecycle ------------------------------
(***************************************************************************)
(* What models/queue promises about one job, whoever executes it and       *)
(* however often: it is handed out to one holder at a time, its outcome is *)
(* the one the last holder reported, it is written once, and a job whose   *)
(* holder vanishes is retried exactly once.                                *)
(***************************************************************************)
EXTENDS Naturals

CONSTANT Jobs

VARIABLES
    status,     \* where the job is
    holder,     \* ordinal of its last hand-out
    lost,       \* how many holders vanished and were replaced, 0 or 1
    outcome     \* the holder whose result or error is stored, 0 for none

lifeVars == <<status, holder, lost, outcome>>

Outcomes == {"succeeded", "failed", "cancelled"}

LifeInit ==
    /\ status = [j \in Jobs |-> "absent"]
    /\ holder = [j \in Jobs |-> 0]
    /\ lost = [j \in Jobs |-> 0]
    /\ outcome = [j \in Jobs |-> 0]

\* The job moves from status a to status b.
Moves(j, a, b) == status[j] = a /\ status'[j] = b

SameHolder(j) == holder'[j] = holder[j]
SameLost(j) == lost'[j] = lost[j]
SameOutcome(j) == outcome'[j] = outcome[j]

Same(j) ==
    /\ status'[j] = status[j]
    /\ SameHolder(j) /\ SameLost(j) /\ SameOutcome(j)

Submit(j) ==
    /\ Moves(j, "absent", "queued")
    /\ SameHolder(j) /\ SameLost(j) /\ SameOutcome(j)

HandOut(j) ==
    /\ Moves(j, "queued", "running")
    /\ holder'[j] = holder[j] + 1
    /\ SameLost(j) /\ SameOutcome(j)

\* The holder returns the job unfinished; that is no loss.
Return(j) ==
    /\ Moves(j, "running", "queued")
    /\ SameHolder(j) /\ SameLost(j) /\ SameOutcome(j)

\* The holder is given up on, once, and the job waits again ...
Lose(j) ==
    /\ Moves(j, "running", "queued")
    /\ lost[j] = 0
    /\ lost'[j] = 1
    /\ SameHolder(j) /\ SameOutcome(j)

\* ... or goes straight to the next holder.
Replace(j) ==
    /\ Moves(j, "running", "running")
    /\ lost[j] = 0
    /\ lost'[j] = 1
    /\ holder'[j] = holder[j] + 1
    /\ SameOutcome(j)

\* The second holder to vanish is the last.
GiveUp(j) ==
    /\ Moves(j, "running", "failed")
    /\ lost[j] = 1
    /\ outcome'[j] = 0
    /\ SameHolder(j) /\ SameLost(j)

\* The holder reports, and it is the last one the job was handed to.
Report(j) ==
    /\ Moves(j, "running", "succeeded") \/ Moves(j, "running", "failed")
    /\ outcome'[j] = holder[j]
    /\ SameHolder(j) /\ SameLost(j)

Withdraw(j) ==
    /\ Moves(j, "queued", "cancelled")
    /\ SameHolder(j) /\ SameLost(j) /\ SameOutcome(j)

Forget(j) ==
    /\ status[j] \in Outcomes
    /\ status'[j] = "pruned"
    /\ SameHolder(j) /\ SameLost(j) /\ SameOutcome(j)

JobStep(j) ==
    \/ Submit(j) \/ HandOut(j) \/ Return(j) \/ Lose(j) \/ Replace(j)
    \/ GiveUp(j) \/ Report(j) \/ Withdraw(j) \/ Forget(j)

\* One transaction may move several jobs.
LifeNext == \A j \in Jobs : JobStep(j) \/ Same(j)

LifeSpec == LifeInit /\ [][LifeNext]_lifeVars
================================================================================
