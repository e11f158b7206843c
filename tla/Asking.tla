--------------------------------- MODULE Asking ---------------------------------
(***************************************************************************)
(* A question on the Ask page: the view checks the models and enqueues     *)
(* rag.ask, the handler resolves them again, retrieves what the asker may  *)
(* read at that moment, has the model answer, names the model, and records *)
(* the answer in a history pruned to its limit, each in statements of      *)
(* their own, while connections, bindings, permissions and the limit       *)
(* change under it.                                                        *)
(***************************************************************************)
EXTENDS QueueClient, Sequences

CONSTANTS
    Conns,      \* chat connections; each has one model, named as it is
    Sources,    \* documents that answer every question
    Limits,     \* values of RagSettings.history_limit
    MaxChanges  \* bound on changes of the bindings, permissions and settings

ASSUME AskingAssumption == Limits \subseteq Nat \ {0} /\ MaxChanges \in Nat

VARIABLES
    asked,      \* per job: the connection picked, or the role
    ctx,        \* per attempt: what the handler holds
    history,    \* AskRecord rows by pk
    limit,      \* RagSettings.history_limit
    role,       \* the connection bound to the answer role
    usable,     \* connections that are registered and the asker may use
    readable,   \* documents the asker may read
    changes     \* changes so far

askVars == <<queueVars, asked, ctx, history, limit, role, usable, readable, changes>>

NoConn == "none"
Picks == Conns \cup {"role"}
NoRow == [job |-> 0, name |-> NoConn, model |-> NoConn, cites |-> {}, allowed |-> {}]
NoCtx == [model |-> NoConn, name |-> NoConn, cites |-> {}, allowed |-> {}, cutoff |-> 0]

Context ==
    [model : Conns \cup {NoConn}, name : Conns \cup {NoConn}, cites : SUBSET Sources,
     allowed : SUBSET Sources, cutoff : Nat]

AskRecord ==
    [job : Jobs, name : Conns \cup {NoConn}, model : Conns, cites : SUBSET Sources,
     allowed : SUBSET Sources]

Pcs == {"resolved", "answered", "recorded", "pruning"}

Rows == {r \in DOMAIN history : history[r] # NoRow}

AskTypeOK ==
    /\ QueueTypeOK(Pcs)
    /\ asked \in [Jobs -> Picks]
    /\ ctx \in [Execs -> Context]
    /\ \A e \in Execs :
         /\ ctx[e].cutoff <= Len(history)
         /\ att[e] \in Pcs => ctx[e].model # NoConn
    /\ history \in Seq(AskRecord \cup {NoRow})
    /\ limit \in Limits /\ role \in Conns \cup {NoConn}
    /\ usable \subseteq Conns /\ readable \subseteq Sources
    /\ changes \in 0..MaxChanges

---------------------------------------------------------------------------
AskInit ==
    /\ QueueInit
    /\ asked = [j \in Jobs |-> "role"] /\ ctx = [e \in Execs |-> NoCtx]
    /\ history = <<>> /\ limit \in Limits
    /\ role \in Conns /\ usable = Conns /\ readable = Sources
    /\ changes = 0

config == <<limit, role, usable, readable, changes>>

\* The model a question gets: the pick while it is there and allowed, or
\* whatever the role is bound to; nothing otherwise.
Resolves(pick) ==
    IF pick = "role" THEN role ELSE IF pick \in usable THEN pick ELSE NoConn

\* The page's POST: both checks pass, the job is enqueued with the pick.
AskView(j, pick) ==
    /\ j \in NextJob
    /\ Resolves(pick) # NoConn
    /\ Enqueued(j)
    /\ asked' = [asked EXCEPT ![j] = pick]
    /\ UNCHANGED <<att, hooks, faults, ctx, history, config>>

At(e, from, to, fields) ==
    /\ Goes(e, from, to)
    /\ ctx' = [ctx EXCEPT ![e] = fields]
    /\ UNCHANGED <<job, hooks, faults, asked, history, config>>

\* The models are resolved again, whatever the view found.
_precheck(e) ==
    LET model == Resolves(asked[e[1]])
    IN  /\ model # NoConn
        /\ At(e, "claimed", "resolved", [NoCtx EXCEPT !.model = model, !.allowed = readable])

\* A role is unbound, a pick forbidden or gone, or an endpoint unreachable;
\* later the engine or the store may fail.
ModelUnavailable(e) == At(e, "claimed", "bad", NoCtx)
AnswerFails(e) == At(e, "resolved", "bad", NoCtx)

\* Mutant: the visibility is the one the question was asked with.
retrieve_nodes_Asked(e) == Sources

\* What is searched is what the asker may read when the handler asks.
retrieve_nodes(e) == readable

\* The name is the pick's own, or the role's as it is bound by then.
AnsweredBy(e) == IF asked[e[1]] # "role" THEN ctx[e].model ELSE role

\* The score floor may leave nothing: a fixed answer and no citation.
answer_question(e) ==
    \E cites \in {{}, retrieve_nodes(e)} :
        At(e, "resolved", "answered", [ctx[e] EXCEPT !.name = AnsweredBy(e), !.cites = cites])

record_ask(e) ==
    /\ Goes(e, "answered", "recorded")
    /\ history' = Append(history, [job |-> e[1], name |-> ctx[e].name, model |-> ctx[e].model,
                                   cites |-> ctx[e].cites, allowed |-> ctx[e].allowed])
    /\ UNCHANGED <<job, hooks, faults, asked, ctx, config>>

\* A history that cannot be written never fails the answer.
RecordFails(e) ==
    \E from \in {"answered", "recorded", "pruning"} : At(e, from, "ok", NoCtx)

\* The row at OFFSET limit, newest first; 0 when there is none.
Cutoff ==
    LET past == {r \in Rows : Cardinality({k \in Rows : k > r}) = limit}
    IN  IF past = {} THEN 0 ELSE CHOOSE r \in past : TRUE

PruneCutoff(e) == At(e, "recorded", "pruning", [ctx[e] EXCEPT !.cutoff = Cutoff])

_prune_ask_records(e) ==
    /\ Goes(e, "pruning", "ok")
    /\ history' = [r \in DOMAIN history |-> IF r <= ctx[e].cutoff THEN NoRow ELSE history[r]]
    /\ ctx' = [ctx EXCEPT ![e] = NoCtx]
    /\ UNCHANGED <<job, hooks, faults, asked, config>>

run_ask(e) ==
    \/ _precheck(e) \/ ModelUnavailable(e)
    \/ answer_question(e) \/ AnswerFails(e)
    \/ record_ask(e) \/ RecordFails(e)
    \/ PruneCutoff(e) \/ _prune_ask_records(e)

---------------------------------------------------------------------------
Changes ==
    /\ changes < MaxChanges /\ changes' = changes + 1
    /\ UNCHANGED <<queueVars, asked, ctx, history>>

RoleRebound(c) == Changes /\ role' = c /\ UNCHANGED <<limit, usable, readable>>

\* A connection removed takes its binding with it.
ConnectionRemoved(c) ==
    /\ c \in usable
    /\ Changes
    /\ usable' = usable \ {c} /\ role' = IF role = c THEN NoConn ELSE role
    /\ UNCHANGED <<limit, readable>>

\* The asker loses the model, and keeps what the role gives.
ModelForbidden(c) ==
    c \in usable /\ Changes /\ usable' = usable \ {c} /\ UNCHANGED <<limit, role, readable>>

DocumentWithdrawn(d) ==
    d \in readable /\ Changes /\ readable' = readable \ {d} /\ UNCHANGED <<limit, role, usable>>

\* Lowering the limit prunes nothing until the next answer.
_history_limit_update(n) ==
    n # limit /\ Changes /\ limit' = n /\ UNCHANGED <<role, usable, readable>>

Configure ==
    \/ \E c \in Conns : RoleRebound(c) \/ ConnectionRemoved(c) \/ ModelForbidden(c)
    \/ \E d \in Sources : DocumentWithdrawn(d)
    \/ \E n \in Limits : _history_limit_update(n)

\* rag.ask has no hook.
QueueMoves ==
    /\ QueueStep \/ \E j \in Jobs : HookRuns(j)
    /\ ctx' = [e \in Execs |-> IF att'[e] = "over" THEN NoCtx ELSE ctx[e]]
    /\ UNCHANGED <<asked, history, config>>

AskNext ==
    \/ \E j \in Jobs, pick \in Picks : AskView(j, pick)
    \/ \E e \in Execs : run_ask(e)
    \/ Configure
    \/ QueueMoves

AskSpec == AskInit /\ [][AskNext]_askVars

---------------------------------------------------------------------------
\* A question put to a picked model is answered and signed by that model or
\* not at all, whatever becomes of the pick while the job waits.
PickedModelAnswers ==
    \A r \in Rows : asked[history[r].job] # "role" =>
        history[r].model = asked[history[r].job] /\ history[r].name = history[r].model

\* A document withdrawn while the question waits is not cited: an answer
\* cites what the asker could read once the job ran.
WithdrawnIsNotCited == \A r \in Rows : history[r].cites \subseteq history[r].allowed

SmallestLimit == CHOOSE n \in Limits : \A m \in Limits : n <= m

\* Concurrent prunes, with limits read at different times, never take one of
\* the newest answers, as many as the smallest limit allows.
NewestAnswersAreKept ==
    \A r \in DOMAIN history : r + SmallestLimit > Len(history) => r \in Rows

\* An AskRecord "still reads exactly what answered the question at the time"
\* (tools/rag/models.py:568): its name is the name of its model.
RecordNamesItsModel == \A r \in Rows : history[r].name = history[r].model

================================================================================
