--------------------------------- MODULE MCJobs ---------------------------------
(***************************************************************************)
(* Jobs from their enqueue to their end under the fairness of the          *)
(* deployment, and a turn of a conversation from its message to its end.   *)
(* Each behaviour follows one of the two, named by focus.                  *)
(***************************************************************************)
EXTENDS MCJobQueue

VARIABLES focus,
    turnJob, turnAtt, turnHooks, turnFaults, turn, message, tools, open, at, req, closing, gone, unhooked

turnVars == <<turnJob, turnAtt, turnHooks, turnFaults, turn, message, tools, open, at, req, closing, gone, unhooked>>
mcvars == <<vars, turnVars, focus>>

T == INSTANCE Turns WITH
    Jobs <- {1}, Late <- FALSE, MaxFaults <- 2, Requests <- {1, 2}, MaxTools <- 1, RequestsDie <- TRUE,
    job <- turnJob, att <- turnAtt, hooks <- turnHooks, faults <- turnFaults

ASSUME T!TurnsAssumption

MCInit == Init /\ T!Init /\ focus \in {"jobs", "turns"}

\* Only the queue is meant to go on for ever.
Rests == focus = "turns" /\ UNCHANGED mcvars

MCNext ==
    \/ focus = "jobs" /\ Next /\ UNCHANGED <<turnVars, focus>>
    \/ focus = "turns" /\ T!Next /\ UNCHANGED <<vars, focus>>
    \/ Rests

\* The queue's Fairness, as long as the queue is what is followed; with no
\* message posted none of the fair actions of Turns is enabled.
QueueFairness ==
    /\ \A w \in Workers : WF_vars(focus = "jobs" /\ MainThread(w))
    /\ \A j \in Jobs, w \in Workers : WF_vars(focus = "jobs" /\ PoolThread(j, w))
    /\ \A j \in Jobs : WF_vars(focus = "jobs" /\ GoStale(j) /\ Abandoned(j))
    /\ WF_vars(focus = "jobs" /\ \E h \in hookq : RunHook(h))

MCSpec == MCInit /\ [][MCNext]_mcvars /\ QueueFairness /\ T!Fairness

----------------------------------------------------------------------------
(* The subjects' own properties, each stated in its module.                *)

\* Every job a user enqueues reaches an outcome.
JobsFinish == focus = "jobs" => EveryJobFinishes

\* Every turn ends, unless the process that owed its hook was killed.
EveryTurnEnds == focus = "turns" => T!EveryTurnEnds
================================================================================
