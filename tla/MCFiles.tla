--------------------------------- MODULE MCFiles ---------------------------------
(***************************************************************************)
(* Rows and the files they stand for.  Each behaviour follows one subject, *)
(* named by focus: the inputs and outputs of image generations             *)
(* (generations), or a backup and its restore (backups).                   *)
(***************************************************************************)
EXTENDS Generation, Backup

VARIABLE focus

mcvars == <<vars, bakVars, focus>>

ASSUME GenerationAssumption

\* Two full rows, or one: which of the documents has which content makes no
\* difference.
Shelves == {[d \in {"d1", "d2"} |-> "a"], [d \in {"d1", "d2"} |-> IF d = "d1" THEN "a" ELSE "none"]}

MCInit ==
    /\ Init /\ BakInit
    /\ file \in Shelves
    /\ focus \in {"generations", "backups"}
    /\ focus # "generations" => asked = [j \in Jobs |-> [upload |-> FALSE, admin |-> FALSE, turn |-> FALSE]]
    /\ focus # "backups" => file = CHOOSE f \in Shelves : TRUE

MCNext ==
    /\ UNCHANGED focus
    /\ \/ focus = "generations" /\ Next /\ UNCHANGED bakVars
       \/ focus = "backups" /\ BakNext /\ UNCHANGED vars

MCSpec == MCInit /\ [][MCNext]_mcvars
================================================================================
