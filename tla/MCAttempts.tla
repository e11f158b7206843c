------------------------------ MODULE MCAttempts ------------------------------
(***************************************************************************)
(* Attempts of one job that follow and overtake one another.  What happens *)
(* around them is named by focus: faults under settings that stay, or an   *)
(* operator who switches the settings while nothing fails.                 *)
(***************************************************************************)
EXTENDS MCJobQueue

VARIABLE focus

mcvars == <<vars, focus>>

MCInit ==
    /\ Init
    /\ focus \in {"faults", "settings"}
    /\ focus = "faults" => settings.budget # None

MCNext ==
    /\ Next /\ UNCHANGED focus
    /\ focus = "faults" => UNCHANGED settings
    /\ focus = "settings" => UNCHANGED faults

MCSpec == MCInit /\ [][MCNext]_mcvars
================================================================================
