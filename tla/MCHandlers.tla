--------------------------------- MODULE MCHandlers ---------------------------------
(***************************************************************************)
(* Handlers that work in many small steps: the note made of a conversation *)
(* (notes), the loops of agents, flows and delegates inside a turn         *)
(* (loops), and the text of a recording, a scan or an image (media).  Each *)
(* behaviour follows one of the three, named by focus.                     *)
(***************************************************************************)
EXTENDS Notes, ToolLoop, Media

VARIABLE focus

mcvars == <<vars, loopVars, mediaVars, focus>>

\* Chains, cycles and shared delegates among three agents, two flows (one of
\* them with a step that mutates), and one permission or one binding missing.
Delegations ==
    {[x \in Agents |-> CASE x = "lead" -> l [] x = "helper" -> h [] x = "expert" -> e] :
        l \in {{"helper"}, {"helper", "expert"}, {"lead"}},
        h \in {{"expert"}, {"lead", "expert"}},
        e \in {{}, {"helper"}}}

Missing ==
    {<<{}, {}>>, <<{"look"}, {}>>, <<{"helper"}, {}>>, <<{}, {"look"}>>, <<{}, {"expert"}>>}

Setups ==
    {[grants |-> [x \in Agents |-> g[x] \cup Tools \cup {FlowRun}], flow |-> f,
      allowed |-> Keys \ m[1], bound |-> (Agents \cup Tools) \ m[2]] :
        g \in Delegations, f \in {<<"look", "look">>, <<"look", "change">>}, m \in Missing}

\* A turn that is over.
LoopRests ==
    /\ grants = <<>> /\ allowed = {} /\ flow = <<>> /\ bound = {}
    /\ frontier = {} /\ visited = {} /\ planned = {} /\ stack = <<>>
    /\ steps = 0 /\ recoveries = 0 /\ expired = FALSE /\ chats = 0
    /\ used = {} /\ heard = {} /\ taint = {} /\ late = FALSE /\ ended = "answered"

\* The model finds text in both units, in the first alone, or in neither.
MCInit ==
    /\ Init /\ MediaInit
    /\ texts # {2}
    /\ \/ focus = "notes" /\ LoopRests
       \/ focus = "loops" /\ LoopInit
       \/ focus = "media" /\ LoopRests
    /\ focus # "media" => kind = "image" /\ texts = {}

MCNext ==
    \/ focus = "notes" /\ Next /\ UNCHANGED <<loopVars, mediaVars, focus>>
    \/ focus = "loops" /\ LoopNext /\ UNCHANGED <<vars, mediaVars, focus>>
    \/ focus = "media" /\ MediaNext /\ UNCHANGED <<noteVars, loopVars, focus>>

MCSpec == MCInit /\ [][MCNext]_mcvars
==================================================================================
