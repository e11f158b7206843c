----------------------------------- MODULE Turns -----------------------------------
(***************************************************************************)
(* One conversation (agents/chat, agents/runtime): requests start turns,   *)
(* agent.turn jobs answer them, hooks repair the turns whose job ended     *)
(* without its handler, people cancel and delete.  A turn is the USER row  *)
(* with the message and the ASSISTANT row that waits for the answer, which *)
(* are written with the job in one transaction, so a turn bears the number *)
(* of its job.  The rows of a conversation are ordered by an index that    *)
(* every writer reads first and writes afterwards; the database refuses an *)
(* index that is taken.                                                    *)
(***************************************************************************)
EXTENDS QueueClient, FiniteSetsExt

CONSTANTS
    Requests,       \* web requests that post a message, numbered
    MaxTools,       \* bound on the tool calls of one attempt
    RequestsDie     \* TRUE: web processes are killed

ASSUME TurnsAssumption ==
    MaxTools \in Nat /\ RequestsDie \in BOOLEAN /\ Requests \subseteq Nat

VARIABLES
    turn,       \* the ASSISTANT row of each turn
    message,    \* the index of its USER row, 0 for none
    tools,      \* TOOL rows
    open,       \* attempts with an unfinished ToolInvocation row
    at,         \* the index an attempt has read, or loaded with its turn
    req,        \* control state of each request
    closing,    \* hooks between their two statements
    gone,       \* the conversation was deleted
    unhooked    \* jobs whose hook died with its process

turnVars == <<turn, message, tools, open, at, req, closing, gone, unhooked>>
vars == <<queueVars, turnVars>>

TerminalTurnStates == {"done", "failed", "cancelled"}
InFlight == {"queued", "running"}

\* Indexes are counted from one, so that 0 says that there is none.
Indexes == Nat

Turn ==
    [state : {"absent"} \cup InFlight \cup TerminalTurnStates,
     index : Indexes, stamped : BOOLEAN]
NoTurn == [state |-> "absent", index |-> 0, stamped |-> FALSE]

Pcs == {"thinking", "calling", "placed", "finishing", "raised", "closing"}

RequestState == [pc : {"idle", "checked", "inserted", "stamping"}, turn : Jobs \cup {0}, index : Indexes]
IdleRequest == [pc |-> "idle", turn |-> 0, index |-> 0]

TypeOK ==
    /\ QueueTypeOK(Pcs)
    /\ turn \in [Jobs -> Turn]
    /\ message \in [Jobs -> Indexes]
    /\ \A x \in tools : x.job \in Jobs /\ x.try \in Tries /\ x.index \in Indexes
    /\ open \subseteq Execs
    /\ at \in [Execs -> Indexes]
    /\ req \in [Requests -> RequestState]
    /\ closing \subseteq Jobs
    /\ gone \in BOOLEAN
    /\ unhooked \subseteq Jobs

Init ==
    /\ QueueInit
    /\ turn = [j \in Jobs |-> NoTurn]
    /\ message = [j \in Jobs |-> 0]
    /\ tools = {}
    /\ open = {}
    /\ at = [e \in Execs |-> 0]
    /\ req = [r \in Requests |-> IdleRequest]
    /\ closing = {}
    /\ gone = FALSE
    /\ unhooked = {}

---------------------------------------------------------------------------
Written == {j \in Jobs : turn[j].state # "absent"}

\* The committed indexes of the conversation.
Taken ==
    {turn[j].index : j \in Written} \cup {message[j] : j \in Written} \cup {x.index : x \in tools}

\* Turn.next_index
NextIndex == Max(Taken \cup {0}) + 1

Busy == \E j \in Jobs : turn[j].state \in InFlight

---------------------------------------------------------------------------
(* start_turn.                                                             *)

\* Requests are anonymous: the first one that is not busy comes next.
Idle(r) == req[r].pc = "idle" /\ \A q \in Requests : q < r => req[q].pc # "idle"

\* The conversation is there, has no turn in flight, and preflight agrees.
CheckInFlight(r) ==
    /\ Idle(r) /\ ~gone /\ ~Busy /\ NextJob # {}
    /\ req' = [req EXCEPT ![r].pc = "checked"]
    /\ UNCHANGED <<queueVars, turn, message, tools, open, at, closing, gone, unhooked>>

\* The transaction opens and both rows are inserted at the indexes it reads.
InsertRows(r) ==
    /\ req[r].pc = "checked"
    /\ req' = [req EXCEPT ![r] =
                IF gone \/ NextJob = {} THEN IdleRequest
                ELSE [pc |-> "inserted", turn |-> 0, index |-> NextIndex]]
    /\ UNCHANGED <<queueVars, turn, message, tools, open, at, closing, gone, unhooked>>

\* Mutant: the rows are committed without the job.
CommitTurn_NoJob(r) ==
    /\ req[r].pc = "inserted"
    /\ {req[r].index, req[r].index + 1} \cap Taken = {}
    /\ \E j \in NextJob :
        /\ turn' = [turn EXCEPT ![j] =
                    [state |-> "queued", index |-> req[r].index + 1, stamped |-> FALSE]]
        /\ message' = [message EXCEPT ![j] = req[r].index]
    /\ req' = [req EXCEPT ![r] = IdleRequest]
    /\ UNCHANGED <<queueVars, tools, open, at, closing, gone, unhooked>>

\* enqueue's insert and the commit: rows and job appear together ...
CommitTurn(r) ==
    /\ req[r].pc = "inserted"
    /\ {req[r].index, req[r].index + 1} \cap Taken = {}
    /\ \E j \in NextJob :
        /\ Enqueued(j)
        /\ turn' = [turn EXCEPT ![j] =
                    [state |-> "queued", index |-> req[r].index + 1, stamped |-> FALSE]]
        /\ message' = [message EXCEPT ![j] = req[r].index]
        /\ req' = [req EXCEPT ![r] = [pc |-> "stamping", turn |-> j, index |-> 0]]
    /\ UNCHANGED <<att, hooks, faults, tools, open, at, closing, gone, unhooked>>

\* ... or nothing does: somebody took the index, the queue refused.
StartRefused(r) ==
    /\ req[r].pc = "inserted"
    /\ req' = [req EXCEPT ![r] = IdleRequest]
    /\ UNCHANGED <<queueVars, turn, message, tools, open, at, closing, gone, unhooked>>

\* The queue_job_id, after the commit.
Stamp(r) ==
    /\ req[r].pc = "stamping"
    /\ turn' = IF gone THEN turn ELSE [turn EXCEPT ![req[r].turn].stamped = TRUE]
    /\ req' = [req EXCEPT ![r] = IdleRequest]
    /\ UNCHANGED <<queueVars, message, tools, open, at, closing, gone, unhooked>>

RequestDies(r) ==
    /\ RequestsDie /\ req[r].pc # "idle"
    /\ Faulty
    /\ req' = [req EXCEPT ![r] = IdleRequest]
    /\ UNCHANGED <<job, att, hooks, turn, message, tools, open, at, closing, gone, unhooked>>

\* delete_conversation: the rows go, the jobs stay.  An insert that has not
\* committed holds a lock on the conversation.  (Counted as a fault, which
\* bounds what a run combines.)
DeleteConversation ==
    /\ ~gone /\ Faulty /\ \A r \in Requests : req[r].pc # "inserted"
    /\ gone' = TRUE
    /\ turn' = [j \in Jobs |-> NoTurn]
    /\ message' = [j \in Jobs |-> 0]
    /\ tools' = {}
    /\ UNCHANGED <<job, att, hooks, open, at, req, closing, unhooked>>

---------------------------------------------------------------------------
(* run_turn.                                                               *)

\* The turn is loaded and set to RUNNING, whoever has written it before.
BeginTurn(e) ==
    LET j == e[1] IN
    /\ Goes(e, "claimed", IF gone THEN "raised" ELSE "thinking")
    /\ at' = [at EXCEPT ![e] = turn[j].index]
    /\ turn' = IF gone THEN turn
               ELSE [turn EXCEPT ![j] =
                     [state |-> "running", index |-> @.index, stamped |-> TRUE]]
    /\ UNCHANGED <<job, hooks, faults, message, tools, open, req, closing, gone, unhooked>>

ToolRowsOf(e) == {x \in tools : x.job = e[1] /\ x.try = e[2]}

\* The model asks for a tool: the audit row is created before the runner runs.
CallTool(e) ==
    /\ Goes(e, "thinking", "calling")
    /\ Cardinality(ToolRowsOf(e)) < MaxTools
    /\ open' = open \cup {e}
    /\ UNCHANGED <<job, hooks, faults, turn, message, tools, at, req, closing, gone, unhooked>>

\* Whatever came of it, the audit row is finished, and the next index is read
\* for the TOOL row ...
FinishCall(e) ==
    /\ Goes(e, "calling", "placed")
    /\ open' = open \ {e}
    /\ at' = [at EXCEPT ![e] = NextIndex]
    /\ UNCHANGED <<job, hooks, faults, turn, message, tools, req, closing, gone, unhooked>>

\* ... and written, unless it is taken by now or the conversation is gone.
\* The turn in memory keeps the index it was loaded with.
WriteToolRow(e) ==
    /\ Goes(e, "placed", IF gone \/ at[e] \in Taken THEN "raised" ELSE "thinking")
    /\ tools' = IF gone \/ at[e] \in Taken THEN tools
                ELSE tools \cup {[job |-> e[1], try |-> e[2], index |-> at[e]]}
    /\ at' = [at EXCEPT ![e] = turn[e[1]].index]
    /\ UNCHANGED <<job, hooks, faults, turn, message, open, req, closing, gone, unhooked>>

\* Mutant: the answer stays where the placeholder was.
ReadAnswerIndex_Stays(e) ==
    /\ Goes(e, "thinking", "finishing")
    /\ UNCHANGED <<job, hooks, faults, turn, message, tools, open, at, req, closing, gone, unhooked>>

\* _finish: the answer moves behind every row written since.
ReadAnswerIndex(e) ==
    /\ Goes(e, "thinking", "finishing")
    /\ at' = [at EXCEPT ![e] = IF \E i \in Taken : i > at[e] THEN NextIndex ELSE at[e]]
    /\ UNCHANGED <<job, hooks, faults, turn, message, tools, open, req, closing, gone, unhooked>>

\* turn.save: an answer, or a FAILED turn with what there is of one.
SaveAnswer(e, state) ==
    LET j == e[1]
        refused == gone \/ (at[e] \in Taken /\ at[e] # turn[j].index)
    IN  /\ Goes(e, "finishing", IF refused THEN "raised" ELSE "ok")
        /\ turn' = IF refused THEN turn
                   ELSE [turn EXCEPT ![j] =
                         [state |-> state, index |-> at[e], stamped |-> @.stamped]]
        /\ at' = [at EXCEPT ![e] = 0]
        /\ UNCHANGED <<job, hooks, faults, message, tools, open, req, closing, gone, unhooked>>

\* The model, the gateway or the database raises.
Raise(e) ==
    /\ \E pc \in {"thinking", "calling"} : Goes(e, pc, "raised")
    /\ UNCHANGED <<job, hooks, faults, turnVars>>

\* run_turn's except: the turn FAILED ...
FailTurn(e) ==
    /\ Goes(e, "raised", "closing")
    /\ turn' = IF gone THEN turn
               ELSE [turn EXCEPT ![e[1]] =
                     [state |-> "failed", index |-> @.index, stamped |-> @.stamped]]
    /\ at' = [at EXCEPT ![e] = 0]
    /\ UNCHANGED <<job, hooks, faults, message, tools, open, req, closing, gone, unhooked>>

OpenOf(j) == {e \in open : e[1] = j}

\* Mutant: the open audit rows are left.
CloseCalls_Never(e) ==
    /\ Goes(e, "closing", "bad")
    /\ UNCHANGED <<job, hooks, faults, turnVars>>

\* ... and the job's audit rows closed, those of earlier attempts included.
CloseCalls(e) ==
    /\ Goes(e, "closing", "bad")
    /\ open' = open \ OpenOf(e[1])
    /\ UNCHANGED <<job, hooks, faults, turn, message, tools, at, req, closing, gone, unhooked>>

---------------------------------------------------------------------------
(* on_turn_terminal.                                                       *)

\* One conditional UPDATE ...
OnTurnTerminal(j) ==
    /\ HookRuns(j)
    /\ turn' = IF turn[j].state \notin InFlight THEN turn
               ELSE [turn EXCEPT ![j] =
                     [state |-> IF job[j].state = "cancelled" THEN "cancelled" ELSE "failed",
                      index |-> @.index, stamped |-> @.stamped]]
    /\ closing' = closing \cup {j}
    /\ UNCHANGED <<message, tools, open, at, req, gone, unhooked>>

\* ... and the audit rows of the job the turn is stamped with.
HookCloses(j) ==
    /\ j \in closing
    /\ closing' = closing \ {j}
    /\ open' = IF turn[j].stamped THEN open \ OpenOf(j) ELSE open
    /\ UNCHANGED <<queueVars, turn, message, tools, at, req, gone, unhooked>>

\* The process that committed the terminal write dies before its hook.
HookDies(j) ==
    /\ RequestsDie
    /\ Faulty
    /\ j \in hooks \cup closing
    /\ hooks' = hooks \ {j} /\ closing' = closing \ {j}
    /\ unhooked' = unhooked \cup {j}
    /\ UNCHANGED <<job, att, turn, message, tools, open, at, req, gone>>

---------------------------------------------------------------------------
RequestStep(r) == InsertRows(r) \/ CommitTurn(r) \/ Stamp(r)

AttemptStep(e) ==
    \/ BeginTurn(e) \/ FinishCall(e) \/ WriteToolRow(e)
    \/ ReadAnswerIndex(e) \/ SaveAnswer(e, "done") \/ FailTurn(e) \/ CloseCalls(e)
    \/ (Report(e) /\ UNCHANGED turnVars)

Next ==
    \/ \E r \in Requests : CheckInFlight(r) \/ RequestStep(r) \/ StartRefused(r) \/ RequestDies(r)
    \/ DeleteConversation
    \/ \E e \in Execs : AttemptStep(e) \/ CallTool(e) \/ Raise(e) \/ SaveAnswer(e, "failed")
    \/ \E j \in Jobs : OnTurnTerminal(j) \/ HookCloses(j) \/ HookDies(j)
    \/ QueueStep /\ UNCHANGED turnVars

Spec == Init /\ [][Next]_vars

\* Requests and attempts that have begun go on, workers poll for jobs and for
\* orphans, scheduled hooks run.
Fairness ==
    /\ \A r \in Requests : WF_vars(RequestStep(r)) /\ WF_vars(StartRefused(r))
    /\ \A e \in Execs : WF_vars(AttemptStep(e))
    /\ \A j \in Jobs :
        /\ WF_vars(Claim(j) /\ UNCHANGED turnVars)
        /\ WF_vars(job[j].state = "running" /\ HolderGone(j) /\ Sweep(j) /\ UNCHANGED turnVars)
        /\ WF_vars(OnTurnTerminal(j)) /\ WF_vars(HookCloses(j))

FairSpec == Spec /\ Fairness

---------------------------------------------------------------------------
(* Properties.                                                             *)

\* A turn is in flight only while something will end it: its job waits or
\* runs, an attempt is still to write, or a hook is scheduled.  Otherwise
\* start_turn answers "still working on the previous message" for ever, as it
\* does when the process that owed the hook was killed.
SomebodyAnswers == \A j \in Jobs \ unhooked : turn[j].state \in InFlight => Active(j)

\* What a person reads is in order: an answer stands behind its message and
\* behind every TOOL row its own attempt or an earlier one of the job wrote,
\* although each index is read in one statement and written in another
\* (next_index, _finish).
AnswersComeLast ==
    \A j \in Jobs :
        turn[j].state = "done" =>
            /\ message[j] < turn[j].index
            /\ \A x \in tools : x.job = j => x.index < turn[j].index

\* "Reads as still running for ever": a job that failed or was cancelled, and
\* whose hook has run, has no open audit row, whichever attempt opened it
\* (close_open_invocations).  The hook finds the job through the turn, so a
\* deleted conversation leaves its rows open.
FailureClosesCalls ==
    ~gone => \A j \in Jobs \ unhooked :
        job[j].state \in {"failed", "cancelled"} /\ ~Active(j) /\ j \notin closing => OpenOf(j) = {}

\* A turn the operator cancelled never comes back, be it drained, retried or
\* hooked (on_turn_terminal, run_turn's unconditional writes).
CancelledStaysCancelled ==
    [][\A j \in Jobs : turn[j].state = "cancelled" => turn'[j].state \in {"cancelled", "absent"}]_vars

\* Every turn ends, whatever dies, unless it is the process that owed its hook.
EveryTurnEnds ==
    \A j \in Jobs :
        turn[j].state \in InFlight ~> turn[j].state \notin InFlight \/ j \in unhooked

\* "A conversation's turns are written by exactly one agent.turn job at a
\* time (a turn is enqueued only after the previous one finished)" (next_index).
OneJobWrites == Cardinality({j \in Jobs : turn[j].state \in InFlight}) <= 1

\* No audit row reads as running once its job is over (agents/runtime/audit.py).
OverClosesCalls == \A j \in Jobs : ~Active(j) /\ j \notin closing => OpenOf(j) = {}
================================================================================
