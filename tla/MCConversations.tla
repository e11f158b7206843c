----------------------------- MODULE MCConversations -----------------------------
(***************************************************************************)
(* One conversation.  Each behaviour follows one side of it, named by      *)
(* focus: two requests, their jobs and the rows they write (turns), or     *)
(* what the models of a turn are given to read (prompt).                   *)
(***************************************************************************)
EXTENDS Turns, Prompt

VARIABLE focus

mcvars == <<vars, promptVars, focus>>

MCInit == Init /\ PromptInit /\ focus \in {"turns", "prompt"}

MCNext ==
    \/ focus = "turns" /\ Next /\ UNCHANGED <<promptVars, focus>>
    \/ focus = "prompt" /\ PromptNext /\ UNCHANGED <<vars, focus>>

MCSpec == MCInit /\ [][MCNext]_mcvars
================================================================================
