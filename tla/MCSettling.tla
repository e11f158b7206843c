------------------------------- MODULE MCSettling -------------------------------
(***************************************************************************)
(* What must come to an end: documents under two requests, a sign-in       *)
(* lockout and stale caches of the navigation.  Each behaviour follows one *)
(* of them, named by focus, while the others have nothing to do.           *)
(***************************************************************************)
EXTENDS Documents, SignIn

CONSTANT None

VARIABLES focus,
    version, cache, clock, thread, writes

navVars == <<version, cache, clock, thread, writes>>
mcvars == <<vars, signVars, navVars, focus>>

\* One name in two spellings.
OneName == [s \in Spellings |-> "alice"]

\* Two request threads in one process, one in another.
A == INSTANCE Availability WITH
    Processes <- {"web", "worker"}, Threads <- {"t1", "t2", "t3"},
    Home <- [h \in {"t1", "t2", "t3"} |-> IF h = "t3" THEN "worker" ELSE "web"],
    MaxWrites <- 2

ASSUME A!AvailabilityAssumption

MCInit == Init /\ SignInit /\ A!NavInit /\ focus \in {"documents", "sign-in", "navigation"}

MCNext ==
    /\ UNCHANGED focus
    /\ \/ focus = "documents" /\ Next /\ UNCHANGED <<signVars, navVars>>
       \/ focus = "sign-in" /\ SignNext /\ UNCHANGED <<vars, navVars>>
       \/ focus = "navigation" /\ A!NavNext /\ UNCHANGED <<vars, signVars>>

\* At rest none of the fair actions of a module is enabled.
MCSpec == MCInit /\ [][MCNext]_mcvars /\ Fairness /\ WF_signVars(Tick) /\ A!NavFairness

----------------------------------------------------------------------------
(* The subjects' own properties, each stated in its module.                *)

\* An unfinished document becomes READY or FAILED or is deleted.
DocumentsSettle == focus = "documents" => EveryDocumentSettles

\* Once nobody writes any more every process settles on the last binding.
NavConverges == focus = "navigation" => A!NavConverges
================================================================================
