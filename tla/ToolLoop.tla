---------------------------------- MODULE ToolLoop ----------------------------------
(***************************************************************************)
(* One agent turn from the inside (agents/runtime): the planner that tells *)
(* the queue which models the turn may load, and the loop that asks the    *)
(* model, runs the tool it names, and delegates to other agents, each in a *)
(* loop of its own on the same budget of steps, recoveries and time.       *)
(*                                                                         *)
(* A key names a plain tool, an agent (the tool agent.<slug>) or the tool  *)
(* flow.run.  A plain tool's role, artifact and label bear its own name,   *)
(* an agent's model role bears the agent's.                                *)
(***************************************************************************)
EXTENDS Integers, Sequences, FiniteSets

CONSTANTS
    Agents, Root,       \* agents, and the one the turn belongs to
    Tools, Mutating,    \* registered plain tools, and those that change state
    FlowRun,            \* the key flow.run
    Cases,              \* the grants, permissions, flows and bindings a turn may meet
    MaxSteps,           \* bound on max_steps
    MaxDepth            \* MAX_AGENT_DEPTH

Keys == Agents \cup Tools \cup {FlowRun}

ASSUME ToolLoopAssumption ==
    /\ Root \in Agents /\ Mutating \subseteq Tools
    /\ FlowRun \notin Agents \cup Tools /\ Agents \cap Tools = {}
    /\ \A c \in Cases :
        /\ c.grants \in [Agents -> SUBSET Keys] /\ c.allowed \subseteq Keys
        /\ c.flow \in Seq(Tools) /\ c.flow # <<>>
        /\ c.bound \subseteq Agents \cup Tools /\ Root \in c.bound
    /\ MaxSteps \in Nat \ {0} /\ MaxDepth \in Nat

VARIABLES
    \* fixed for the turn
    grants,     \* tool_keys of each agent
    allowed,    \* keys the acting principal may use
    flow,       \* the steps of the saved flow
    bound,      \* roles that resolve to a model
    \* the planner
    frontier, visited, planned,
    \* the turn
    stack,      \* the loops, the innermost last
    steps, recoveries, expired,
    chats,      \* answers the models gave
    used,       \* roles of the models and tools that were run
    heard,      \* artifacts whose text some loop has been given
    taint,      \* labels on the conversation
    late,       \* a loop has ended because time was up
    ended       \* how the turn ended

given == <<grants, allowed, flow, bound>>
plan == <<frontier, visited, planned>>
budget == <<steps, recoveries, expired>>
marks == <<used, heard, taint>>
loopVars == <<given, plan, stack, budget, chats, marks, late, ended>>

\* "ok" stands for "degraded" too, "error" for "param_error": the loop does
\* not tell them apart.
Failed == {"refused", "error"}
ToolOutcomes == {"ok"} \cup Failed

ToolOutcome == [kind : ToolOutcomes, arts : SUBSET Tools]
NoOutcome == [kind |-> "ok", arts |-> {}]

Frame ==
    [agent : Agents, offered : SUBSET Keys, arts : SUBSET Tools,
     pc : {"top", "asked", "calling", "flow", "delegated", "settling"},
     key : Keys, step : Nat, got : SUBSET Tools, out : ToolOutcome]

Depth == Len(stack) - 1
Top == stack[Len(stack)]
Exhausted == steps = 0

LoopTypeOK ==
    /\ grants \in [Agents -> SUBSET Keys] /\ allowed \subseteq Keys
    /\ flow \in Seq(Tools) /\ bound \subseteq Agents \cup Tools
    /\ frontier \subseteq Agents \X Nat /\ visited \subseteq Agents
    /\ planned \subseteq Agents \cup Tools
    /\ stack \in Seq(Frame) /\ Len(stack) <= MaxDepth + 1
    /\ steps \in 0..MaxSteps /\ recoveries \in 0..1 /\ chats \in Nat
    /\ {expired, late} \subseteq BOOLEAN
    /\ used \subseteq Agents \cup Tools /\ heard \subseteq Tools /\ taint \subseteq Tools
    /\ ended \in {"planning", "running", "answered", "timed_out", "raised"}

---------------------------------------------------------------------------
(* What may be called.                                                     *)

\* granted_tools: registered, not mutating, permitted.
Granted(a) == (grants[a] \ Mutating) \cap allowed

\* flow.run is offered when a flow is visible; a tool when its role resolves.
\* Agents outside "allowed" stand for those that are disabled or not visible.
AvailableTools(a) == {k \in Granted(a) : k \in Tools => k \in bound}

FlowRoles == {flow[i] : i \in DOMAIN flow}

NewFrame(a, offered) ==
    [agent |-> a, offered |-> offered, arts |-> {}, pc |-> "top", key |-> FlowRun,
     step |-> 0, got |-> {}, out |-> NoOutcome]

LoopInit ==
    /\ \E c \in Cases :
        grants = c.grants /\ allowed = c.allowed /\ flow = c.flow /\ bound = c.bound
    /\ frontier = {<<Root, 0>>} /\ visited = {Root} /\ planned = {Root}
    /\ stack = <<>>
    /\ steps = MaxSteps /\ recoveries = 1 /\ expired = FALSE
    /\ chats = 0 /\ used = {} /\ heard = {} /\ taint = {} /\ late = FALSE
    /\ ended = "planning"

---------------------------------------------------------------------------
(* plan_turn.                                                              *)

RolesOf(a) ==
    (Granted(a) \cap Tools) \cup (IF FlowRun \in Granted(a) THEN FlowRoles ELSE {})

Delegates(a, d) == IF d >= MaxDepth THEN {} ELSE (Granted(a) \cap Agents) \ visited

\* Mutant: an agent one level short of the limit is not followed.
PlanVisit_Shallow(a, d) ==
    LET next == IF d + 1 >= MaxDepth THEN {} ELSE Delegates(a, d) IN
    /\ <<a, d>> \in frontier
    /\ frontier' = (frontier \ {<<a, d>>}) \cup {<<b, d + 1>> : b \in next}
    /\ visited' = visited \cup next
    /\ planned' = planned \cup ((RolesOf(a) \cup next) \cap bound)
    /\ UNCHANGED <<given, stack, budget, chats, marks, late, ended>>

\* One agent of the frontier: its tools' roles, and the agents it may ask.
PlanVisit(a, d) ==
    LET next == Delegates(a, d) IN
    /\ <<a, d>> \in frontier
    /\ frontier' = (frontier \ {<<a, d>>}) \cup {<<b, d + 1>> : b \in next}
    /\ visited' = visited \cup next
    /\ planned' = planned \cup ((RolesOf(a) \cup next) \cap bound)
    /\ UNCHANGED <<given, stack, budget, chats, marks, late, ended>>

\* _run_turn: the job is claimed and the turn's own loop begins, unless the
\* model cannot call the tools there are.
BeginLoop ==
    /\ ended = "planning" /\ frontier = {}
    /\ \/ ended' = "running" /\ stack' = <<NewFrame(Root, AvailableTools(Root))>>
       \/ ended' = "answered" /\ AvailableTools(Root) # {} /\ UNCHANGED stack
    /\ used' = used \cup {Root}
    /\ UNCHANGED <<given, plan, budget, chats, heard, taint, late>>

---------------------------------------------------------------------------
(* run_loop.                                                               *)

Running == ended = "running"
At(pc) == Running /\ Top.pc = pc

Parent == stack[Len(stack) - 1]
Put(f) == [stack EXCEPT ![Len(stack)] = f]
PutParent(f) == Append(SubSeq(stack, 1, Len(stack) - 2), f)

Settling(f, kind, arts) == [f EXCEPT !.pc = "settling", !.out = [kind |-> kind, arts |-> arts]]

\* The innermost loop returns: the turn ends, or the call that started it has
\* its result.
Returns(how) ==
    IF Depth = 0
    THEN stack' = <<>> /\ ended' = how
    ELSE stack' = PutParent(Settling(Parent, "ok", Top.arts)) /\ UNCHANGED ended

TimePasses ==
    /\ Running /\ ~expired
    /\ expired' = TRUE
    /\ UNCHANGED <<given, plan, stack, steps, recoveries, chats, marks, late, ended>>

\* budget.expired, at the top of an iteration.
OutOfTime ==
    /\ At("top") /\ expired
    /\ Returns("timed_out")
    /\ late' = TRUE
    /\ UNCHANGED <<given, plan, budget, chats, marks>>

OutOfSteps ==
    /\ At("top") /\ ~expired /\ Exhausted
    /\ Returns("answered")
    /\ UNCHANGED <<given, plan, budget, chats, marks, late>>

AskModel ==
    /\ At("top") /\ ~expired /\ ~Exhausted
    /\ stack' = Put([Top EXCEPT !.pc = "asked"])
    /\ UNCHANGED <<given, plan, budget, chats, marks, late, ended>>

\* llm.chat raises: the end of the loop when time is up; otherwise the
\* exception leaves it, and the call of an outer loop reports an error.
ModelRaises ==
    /\ At("asked")
    /\ IF expired THEN late' = TRUE /\ Returns("timed_out")
       ELSE /\ UNCHANGED late
            /\ IF Depth = 0 THEN stack' = <<>> /\ ended' = "raised"
               ELSE stack' = PutParent(Settling(Parent, "error", {})) /\ UNCHANGED ended
    /\ UNCHANGED <<given, plan, budget, chats, marks>>

ModelAnswers ==
    /\ At("asked")
    /\ steps' = steps - 1 /\ chats' = chats + 1
    /\ Returns("answered")
    /\ UNCHANGED <<given, plan, recoveries, expired, marks, late>>

\* The model names a tool, one it was not offered perhaps; with time up the
\* tool is not run.
ModelCalls(k) ==
    /\ At("asked")
    /\ steps' = steps - 1 /\ chats' = chats + 1
    /\ IF expired THEN late' = TRUE /\ Returns("timed_out")
       ELSE /\ UNCHANGED <<late, ended>>
            /\ stack' = Put(IF k \in Top.offered THEN [Top EXCEPT !.pc = "calling", !.key = k]
                            ELSE Settling([Top EXCEPT !.key = k], "error", {}))
    /\ UNCHANGED <<given, plan, recoveries, expired, marks>>

---------------------------------------------------------------------------
(* invoke_tool.                                                            *)

\* What a plain tool's runner comes to: its artifact when it works.
RunnerOutcomes(t) == {[kind |-> k, arts |-> IF k \in Failed THEN {} ELSE {t}] : k \in ToolOutcomes}

CallPlain(t) ==
    /\ At("calling") /\ Top.key = t
    /\ \E o \in RunnerOutcomes(t) : stack' = Put(Settling(Top, o.kind, o.arts))
    /\ used' = used \cup {t}
    /\ UNCHANGED <<given, plan, budget, chats, heard, taint, late, ended>>

\* validate_tool_args refuses what the model sent.
BadArguments ==
    /\ At("calling")
    /\ stack' = Put(Settling(Top, "error", {}))
    /\ UNCHANGED <<given, plan, budget, chats, marks, late, ended>>

CannotDelegate(a) ==
    Depth >= MaxDepth \/ Exhausted \/ expired \/ a \notin bound

DelegateTools(a) ==
    IF Depth + 1 >= MaxDepth THEN AvailableTools(a) \ Agents ELSE AvailableTools(a)

RefuseDelegation(a) ==
    /\ At("calling") /\ Top.key = a /\ CannotDelegate(a)
    /\ stack' = Put(Settling(Top, "refused", {}))
    /\ UNCHANGED <<given, plan, budget, chats, marks, late, ended>>

\* run_agent_tool: a loop of its own for agent a, or the note that its model
\* cannot call tools.
Delegate(a) ==
    /\ At("calling") /\ Top.key = a /\ ~CannotDelegate(a)
    /\ \/ stack' = Append(Put([Top EXCEPT !.pc = "delegated"]), NewFrame(a, DelegateTools(a)))
       \/ DelegateTools(a) # {} /\ stack' = Put(Settling(Top, "ok", {}))
    /\ used' = used \cup {a}
    /\ UNCHANGED <<given, plan, budget, chats, heard, taint, late, ended>>

\* run_flow
BeginFlow ==
    /\ At("calling") /\ Top.key = FlowRun
    /\ stack' = Put([Top EXCEPT !.pc = "flow", !.step = 1, !.got = {}])
    /\ UNCHANGED <<given, plan, budget, chats, marks, late, ended>>

FlowDone == Top.step > Len(flow)

\* Mutant: what the steps so far have found is dropped with the flow.
FlowDegrades_Forgets ==
    /\ At("flow") /\ ~FlowDone /\ expired
    /\ stack' = Put(Settling(Top, "ok", {}))
    /\ heard' = heard \cup Top.got
    /\ UNCHANGED <<given, plan, budget, chats, used, taint, late, ended>>

\* Time is up between two steps: _degraded returns what there is.
FlowDegrades ==
    /\ At("flow") /\ ~FlowDone /\ expired
    /\ stack' = Put(Settling(Top, "ok", Top.got))
    /\ heard' = heard \cup Top.got
    /\ UNCHANGED <<given, plan, budget, chats, used, taint, late, ended>>

\* A step whose tool mutates refuses the flow; one that fails fails it, and
\* one that is refused, by the tool or for want of an entitlement, refuses it.
FlowStep ==
    LET t == flow[Top.step] IN
    /\ At("flow") /\ ~FlowDone /\ ~expired
    /\ IF t \in Mutating \/ t \notin allowed
       THEN stack' = Put(Settling(Top, "refused", {})) /\ UNCHANGED used
       ELSE /\ used' = used \cup {t}
            /\ \E o \in RunnerOutcomes(t) :
                stack' = Put(IF o.kind \in Failed THEN Settling(Top, o.kind, {})
                             ELSE [Top EXCEPT !.step = @ + 1, !.got = @ \cup o.arts])
    /\ UNCHANGED <<given, plan, budget, chats, heard, taint, late, ended>>

FlowFinishes ==
    /\ At("flow") /\ FlowDone
    /\ stack' = Put(Settling(Top, "ok", Top.got))
    /\ UNCHANGED <<given, plan, budget, chats, marks, late, ended>>

---------------------------------------------------------------------------
(* Back in run_loop.                                                       *)

\* The TOOL row with its taint in one transaction, then the text is put
\* before the model.  A refused tool is not offered again; without a
\* recovery left the loop says what failed and returns.
Settle ==
    LET o == Top.out
        f == [Top EXCEPT !.pc = "top", !.arts = @ \cup o.arts, !.key = FlowRun, !.out = NoOutcome,
                         !.step = 0, !.got = {},
                         !.offered = IF o.kind = "refused" THEN @ \ {Top.key} ELSE @]
    IN
    /\ At("settling")
    /\ taint' = taint \cup o.arts
    /\ heard' = heard \cup o.arts
    /\ IF o.kind \in Failed /\ recoveries = 0
       THEN Returns("answered") /\ UNCHANGED recoveries
       ELSE /\ recoveries' = recoveries - (IF o.kind \in Failed THEN 1 ELSE 0)
            /\ stack' = Put(f) /\ UNCHANGED ended
    /\ UNCHANGED <<given, plan, steps, expired, chats, used, late>>

Planning == \E p \in frontier : PlanVisit(p[1], p[2])

Invoking ==
    \/ \E t \in Tools : CallPlain(t)
    \/ BadArguments
    \/ \E a \in Agents : RefuseDelegation(a) \/ Delegate(a)
    \/ BeginFlow \/ FlowDegrades \/ FlowStep \/ FlowFinishes

LoopStep ==
    \/ OutOfTime \/ OutOfSteps \/ AskModel \/ ModelRaises \/ ModelAnswers
    \/ \E k \in Keys : ModelCalls(k)
    \/ Invoking \/ Settle

LoopNext == Planning \/ BeginLoop \/ TimePasses \/ LoopStep

\* The attempt goes on; the deadline need never come.
LoopFairness == WF_loopVars(Planning \/ BeginLoop \/ LoopStep)

LoopSpec == LoopInit /\ [][LoopNext]_loopVars /\ LoopFairness

---------------------------------------------------------------------------
(* Properties.                                                             *)

\* The budget is one for the whole turn: models answer at most max_steps
\* times, by all the loops that delegation started together (StepBudget,
\* run_agent_tool passes ctx.budget on).
OneBudget == chats <= MaxSteps

\* The planner's walk and the loop agree: no loop, however deep, and no step
\* of a flow runs a model role that was not declared to the queue, whichever
\* order the walk took (plan_turn, _tool_roles, available_tools).
PlanCoversTheTurn == (used \cap bound) \subseteq planned

\* What a model was told is on the conversation's taint, however the tool,
\* the flow or the delegate that told it came to its end (stamp_turn_taint,
\* _degraded).
ReadIsTainted == \A t \in heard : t \in taint \/ (Running /\ Top.pc = "settling" /\ t \in Top.out.arts)

\* A delegate's timeout is the turn's: its result reads like any other, but
\* the loops above must not take it for an answer (run_loop's timed_out).
TimeoutReachesTheTop == ended = "answered" => ~late

\* Every turn ends, although a refusal, an unknown tool and a delegate that
\* fails let the loop go on.
EveryLoopEnds == <>(ended \in {"answered", "timed_out", "raised"})
================================================================================
