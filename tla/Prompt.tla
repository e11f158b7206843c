---------------------------------- MODULE Prompt ----------------------------------
(***************************************************************************)
(* What a model is given to read (agents/runtime/prompt.py, and the loop   *)
(* that appends to it): the rows of a conversation replayed for the turn   *)
(* that runs, the files attached to it, and the results of the tools that  *)
(* turn and its delegates call.  A text is a sequence of pieces, each the  *)
(* words of somebody and fenced as data or not; what a piece says is left  *)
(* out.                                                                    *)
(***************************************************************************)
EXTENDS Naturals, Sequences, FiniteSets

CONSTANTS
    Users, Owner,   \* who may post, and whose conversation it is
    Window,         \* HISTORY_TURNS
    MaxTurns,       \* bound on turns
    MaxSteps,       \* max_steps, the answers models may give in one attempt
    MaxDepth,       \* MAX_AGENT_DEPTH
    MaxEvents       \* bound on tool calls and on attempts that die or raise, in all

ASSUME PromptAssumption ==
    /\ Users \cap {"nobody", "ours", "model", "document"} = {}
    /\ Owner \in Users /\ Window \in Nat \ {0} /\ {MaxTurns, MaxSteps, MaxDepth, MaxEvents} \subseteq Nat

VARIABLES
    rows,       \* the conversation's turns, by index
    made,       \* rows created
    turnJob,    \* each turn's job
    posted,     \* what could be replayed when each turn was posted
    again,      \* turns that an attempt had finished before
    shared,     \* some share names the conversation
    described,  \* turns whose image has a finished description
    stack,      \* the loops of the attempt that runs, the innermost last
    recoveries, \* what is left of the attempt's budget
    steps,
    events      \* attempts that died or raised

promptVars == <<rows, made, turnJob, posted, again, shared, described, stack, recoveries, steps, events>>
conversation == <<turnJob, posted, again, shared, described, events>>

Turns == 1..MaxTurns
Nobody == "nobody"
Keys == {"search", "plain", "flow", "agent"}
None == "none"

Piece == [who : Users \cup {"ours", "model", "document"}, fenced : BOOLEAN]
Says(who) == <<[who |-> who, fenced |-> FALSE]>>
Fence(text) == [i \in DOMAIN text |-> [text[i] EXCEPT !.fenced = TRUE]]

\* Where an answer quotes a tool's result.
Quote == [offset : Nat, length : Nat, key : Keys, last : Keys \cup {None}]

PromptRow ==
    [id : Nat, role : {"user", "assistant", "tool"}, by : Users \cup {Nobody}, turn : {0} \cup Turns, depth : Nat,
     done : BOOLEAN, text : Seq(Piece), file : BOOLEAN, key : Keys \cup {None}, last : Keys \cup {None},
     note : BOOLEAN, quotes : Seq(Quote)]

Message == [role : {"system", "user", "assistant", "tool"}, text : Seq(Piece)]

Failure == [key : Keys, last : Keys \cup {None}, text : Seq(Piece)]

\* One loop: what its model is given to read is the system message, the rows
\* replayed in the order of their indexes, and what is appended to them.
LoopFrame ==
    [turn : Turns, pc : {"top", "stuck"}, replayed : SUBSET [at : Nat, message : Message],
     msgs : Seq(Message), files : SUBSET [turn : {0} \cup Turns, shown : {"named", "described", "native"}],
     seen : SUBSET (1..made), text : Seq(Piece), key : Keys \cup {None}, last : Keys \cup {None},
     failures : Seq(Failure)]

BlankRow ==
    [id |-> 0, role |-> "user", by |-> Nobody, turn |-> 0, depth |-> 0, done |-> TRUE, text |-> <<>>,
     file |-> FALSE, key |-> None, last |-> None, note |-> FALSE, quotes |-> <<>>]

Question(t) == CHOOSE i \in DOMAIN rows : rows[i].turn = t /\ rows[i].role = "user"
Answer(t) == CHOOSE i \in DOMAIN rows : rows[i].turn = t /\ rows[i].role = "assistant"

PromptTypeOK ==
    /\ rows \in Seq(PromptRow) /\ made \in Nat
    /\ \A i \in DOMAIN rows :
        LET r == rows[i] IN
        /\ r.id \in 1..made /\ r.depth <= MaxDepth
        /\ \A k \in DOMAIN r.quotes : r.quotes[k].offset + r.quotes[k].length <= Len(r.text)
    /\ turnJob \in [Turns -> {"none", "queued", "running", "finished", "done", "failed"}]
    /\ again \subseteq Turns /\ described \subseteq Turns /\ shared \in BOOLEAN
    /\ stack \in Seq(LoopFrame) /\ Len(stack) <= MaxDepth + 1
    /\ recoveries \in 0..1 /\ steps \in 0..MaxSteps /\ events \in 0..MaxEvents

\* A conversation of the time when rows named no author.
PromptInit ==
    /\ made = 1 /\ rows = <<[BlankRow EXCEPT !.id = 1, !.text = Says(Owner)]>>
    /\ turnJob = [t \in Turns |-> "none"] /\ posted = [t \in Turns |-> {}]
    /\ again = {} /\ shared = FALSE /\ described = {} /\ stack = <<>>
    /\ recoveries = 1 /\ steps = 0 /\ events = 0

---------------------------------------------------------------------------
(* Whose words a tool's result is.                                         *)

\* Mutant: the outermost key alone decides.
_is_third_party_tool_result_Key(key, last) == key = "search"

\* A search, a flow whose last step is one, or a delegate.
_is_third_party_tool_result(key, last) ==
    key = "search" \/ key = "agent" \/ (key = "flow" /\ last = "search")

fence_tool_result_if_third_party(key, last, text) ==
    IF _is_third_party_tool_result(key, last) THEN Fence(text) ELSE text

\* The note on calls that were not run is taken off, and put back outside.
_tool_content(r) ==
    LET raw == IF r.note THEN SubSeq(r.text, 1, Len(r.text) - 1) ELSE r.text
    IN  fence_tool_result_if_third_party(r.key, r.last, raw) \o (IF r.note THEN Says("ours") ELSE <<>>)

tool_turn_messages(r) == [role |-> "tool", text |-> _tool_content(r)]

_replay_assistant_text(r) ==
    [i \in DOMAIN r.text |->
        [r.text[i] EXCEPT !.fenced =
            @ \/ \E k \in DOMAIN r.quotes :
                    LET q == r.quotes[k] IN
                    /\ _is_third_party_tool_result(q.key, q.last)
                    /\ i \in (q.offset + 1)..(q.offset + q.length)]]

---------------------------------------------------------------------------
(* The prompt of a turn.                                                   *)

_is_foreign_user_turn(r, u) == IF r.by = Nobody THEN shared ELSE r.by # u

Replayed(r, u) ==
    CASE r.role = "tool" -> tool_turn_messages(r)
      [] r.role = "assistant" -> [role |-> "assistant", text |-> _replay_assistant_text(r)]
      [] r.role = "user" ->
            [role |-> "user", text |-> IF _is_foreign_user_turn(r, u) THEN Fence(r.text) ELSE r.text]

Replayable(r) == r.done /\ r.depth = 0

\* The newest rows before the turn's own index.
Recent(t) ==
    LET before == {i \in 1..(Answer(t) - 1) : Replayable(rows[i])}
    IN  {i \in before : Cardinality({j \in before : j > i}) < Window}

history_messages(t, u) == {[at |-> i, message |-> Replayed(rows[i], u)] : i \in Recent(t)}

\* The latest question before the turn's index.
CarryingTurn(t) ==
    LET asked == {i \in 1..(Answer(t) - 1) : rows[i].role = "user"}
    IN  rows[CHOOSE i \in asked : \A j \in asked : j <= i].turn

\* A file of the chat alone may be opened by whoever attached it.
Readable(i, u) == rows[i].by = u

_attachment_line_tail(i, u, carrying) ==
    IF rows[i].turn # carrying /\ rows[i].turn \in described /\ Readable(i, u) THEN "described" ELSE "named"

\* The picture's path resolves for those who may open the file.
_native_image_block(i, u) == Readable(i, u)

\* The line of every image, and the picture itself for those this turn came
\* with when the model takes images and the reader may open them.
Attachments(t, u, native) ==
    LET carrying == CarryingTurn(t)
        images == {i \in DOMAIN rows : rows[i].role = "user" /\ rows[i].file}
    IN  {[turn |-> rows[i].turn, shown |-> _attachment_line_tail(i, u, carrying)] : i \in images}
        \cup {[turn |-> rows[i].turn, shown |-> "native"] :
                i \in {j \in images : native /\ rows[j].turn = carrying /\ _native_image_block(j, u)}}

_attachments_block(files) ==
    Says("ours") \o (IF \E f \in files : f.shown = "described" THEN Fence(Says("document")) ELSE <<>>)

Frame(t, replayed, msgs, files, seen) ==
    [turn |-> t, pc |-> "top", replayed |-> replayed, msgs |-> msgs, files |-> files, seen |-> seen,
     text |-> <<>>, key |-> None, last |-> None, failures |-> <<>>]

build_messages(t, native) ==
    LET u == rows[Question(t)].by
        files == Attachments(t, u, native)
    IN  Frame(t, history_messages(t, u), <<[role |-> "system", text |-> _attachments_block(files)]>>, files,
              {rows[i].id : i \in Recent(t)})

---------------------------------------------------------------------------
(* A turn is posted, and run.                                              *)
Post(u, file) ==
    /\ u = Owner \/ shared
    /\ file => \A i \in DOMAIN rows : ~rows[i].file
    /\ \E t \in Turns :
        /\ turnJob[t] = "none" /\ \A s \in 1..(t - 1) : turnJob[s] # "none"
        /\ rows' = rows \o <<[BlankRow EXCEPT !.id = made + 1, !.by = u, !.turn = t, !.text = Says(u), !.file = file],
                             [BlankRow EXCEPT !.id = made + 2, !.role = "assistant", !.turn = t, !.done = FALSE]>>
        /\ made' = made + 2
        /\ turnJob' = [turnJob EXCEPT ![t] = "queued"]
        /\ posted' = [posted EXCEPT ![t] = {rows[i].id : i \in {j \in DOMAIN rows : Replayable(rows[j])}} \cup {made + 1}]
    /\ UNCHANGED <<again, shared, described, stack, recoveries, steps, events>>

\* Shares and descriptions are read when a prompt is built, and a turn is
\* posted: they change between two attempts.
Share(on) ==
    /\ stack = <<>> /\ shared # on /\ shared' = on
    /\ UNCHANGED <<rows, made, turnJob, posted, again, described, stack, recoveries, steps, events>>

\* The image's sidecar is complete.
Describes(t) ==
    /\ stack = <<>> /\ t \notin described /\ \E i \in DOMAIN rows : rows[i].turn = t /\ rows[i].file
    /\ described' = described \cup {t}
    /\ UNCHANGED <<rows, made, turnJob, posted, again, shared, stack, recoveries, steps, events>>

_run_turn(t, native) ==
    /\ stack = <<>> /\ turnJob[t] = "queued"
    /\ native => \E i \in DOMAIN rows : rows[i].file
    /\ turnJob' = [turnJob EXCEPT ![t] = "running"]
    /\ rows' = [rows EXCEPT ![Answer(t)].done = FALSE]
    /\ stack' = <<build_messages(t, native)>> /\ recoveries' = 1 /\ steps' = MaxSteps
    /\ UNCHANGED <<made, posted, again, shared, described, events>>

---------------------------------------------------------------------------
(* The loop.                                                               *)
Depth == Len(stack) - 1
Top == stack[Len(stack)]
Free == stack # <<>> /\ Top.pc = "top"
Thinking == Free /\ steps > 0

EventsLeft == Cardinality({i \in DOMAIN rows : rows[i].role = "tool"}) + events < MaxEvents

\* The model names other calls beside its first, which are not run.
Discards == steps = MaxSteps

ToolRow(key, last, text, note, depth) ==
    [BlankRow EXCEPT !.id = made + 1, !.role = "tool", !.turn = Top.turn, !.depth = depth, !.key = key,
                     !.last = last, !.text = text \o (IF note THEN Says("ours") ELSE <<>>), !.note = note]

\* The row is written, and its messages appended to what the loop reads.
Settles(frame, row, text, failed) ==
    [frame EXCEPT
        !.msgs = Append(@, tool_turn_messages(row)),
        !.text = text, !.key = row.key, !.last = row.last,
        !.failures = IF failed THEN Append(@, [key |-> row.key, last |-> row.last, text |-> text]) ELSE @,
        !.pc = IF failed /\ recoveries = 0 THEN "stuck" ELSE "top"]

invoke_tool(key, last, text, failed) ==
    /\ Thinking /\ EventsLeft
    /\ LET row == ToolRow(key, last, text, Discards, Depth) IN
        /\ rows' = Append(rows, row) /\ made' = made + 1
        /\ stack' = [stack EXCEPT ![Len(stack)] = Settles(Top, row, text, failed)]
    /\ steps' = steps - 1
    /\ recoveries' = IF failed /\ recoveries > 0 THEN recoveries - 1 ELSE recoveries
    /\ UNCHANGED conversation

\* A failed call, a flow of one among them, says what this program says; a
\* flow returns its last step's text, after a sentence when it ran out of time.
Calls ==
    \/ invoke_tool("plain", None, Says("ours"), FALSE)
    \/ invoke_tool("search", None, Says("document"), FALSE)
    \/ \E key \in {"plain", "search", "flow"} : invoke_tool(key, None, Says("ours"), TRUE)
    \/ \E late \in {<<>>, Says("ours")} : invoke_tool("flow", "search", late \o Says("document"), FALSE)
    \/ invoke_tool("flow", "plain", Says("ours"), FALSE)

\* A delegate reads its task, which the model wrote, and shares the budget;
\* with none left, or at the depth limit, it is refused.
run_agent_tool ==
    /\ Thinking /\ EventsLeft
    /\ IF steps > 1 /\ Depth < MaxDepth
       THEN /\ steps' = steps - 1
            /\ stack' = Append(stack, Frame(Top.turn, {}, <<[role |-> "user", text |-> Says("model")]>>, {}, {}))
            /\ UNCHANGED <<rows, made, recoveries, conversation>>
       ELSE invoke_tool("agent", None, Says("ours"), TRUE)

\* The answer's row goes behind every later one.
Reindexed(i) == SubSeq(rows, 1, i - 1) \o SubSeq(rows, i + 1, Len(rows)) \o <<rows[i]>>

\* Late: the turn ran out of time, its answer is kept and the turn FAILED.
_finish(text, quotes, late) ==
    LET t == Top.turn
        moved == Reindexed(Answer(t))
        last == CHOOSE i \in DOMAIN moved : moved[i].turn = t /\ moved[i].role = "assistant"
    IN  /\ Depth = 0
        /\ rows' = [moved EXCEPT ![last].text = text, ![last].quotes = quotes, ![last].done = ~late]
        /\ turnJob' = [turnJob EXCEPT ![t] = "finished"]
        /\ stack' = <<>> /\ recoveries' = 1 /\ steps' = 0
        /\ UNCHANGED <<made, posted, again, shared, described, events>>

\* A delegate's last words are its caller's tool result, whatever they quote.
Returns(text, spent) ==
    /\ Depth > 0
    /\ LET row == ToolRow("agent", None, text, FALSE, Depth - 1) IN
        /\ rows' = Append(rows, row) /\ made' = made + 1
        /\ stack' = Append(SubSeq(stack, 1, Depth - 1), Settles(stack[Depth], row, text, FALSE))
    /\ steps' = steps - spent
    /\ UNCHANGED <<recoveries, conversation>>

Answers == Thinking /\ (_finish(Says("model"), <<>>, FALSE) \/ Returns(Says("model"), 1))

_honest_ending_provenance(frame) ==
    <<[offset |-> 1, length |-> Len(frame.text), key |-> frame.key, last |-> frame.last]>>

\* Out of steps or, at any moment, of time.
_honest_ending(late) ==
    /\ Free /\ (late \/ steps = 0)
    /\ LET quotes == IF Top.text = <<>> THEN <<>> ELSE _honest_ending_provenance(Top)
           text == Says("ours") \o Top.text
       IN  _finish(text, quotes, late) \/ Returns(text, 0)

\* A header, then a line for each: its own words, then the tool's.
_two_failures_quotes(failures) ==
    [k \in DOMAIN failures |->
        [offset |-> 2 * k, length |-> Len(failures[k].text), key |-> failures[k].key, last |-> failures[k].last]]

\* Failures another loop met are not this one's.
_two_failures_text ==
    /\ stack # <<>> /\ Top.pc = "stuck"
    /\ LET f == Top.failures
           line(k) == Says("ours") \o f[k].text
           text == Says("ours") \o (IF Len(f) = 1 THEN line(1) ELSE line(1) \o line(2))
       IN  _finish(text, _two_failures_quotes(f), FALSE) \/ Returns(text, 0)

---------------------------------------------------------------------------
WriteBack(t) ==
    /\ turnJob[t] = "finished" /\ turnJob' = [turnJob EXCEPT ![t] = "done"]
    /\ UNCHANGED <<rows, made, posted, again, shared, described, stack, recoveries, steps, events>>

\* The worker dies, before the answer or after it, and the job runs again.
Dies(t) ==
    /\ turnJob[t] \in {"running", "finished"} /\ EventsLeft
    /\ turnJob' = [turnJob EXCEPT ![t] = "queued"] /\ events' = events + 1
    /\ again' = IF turnJob[t] = "finished" THEN again \cup {t} ELSE again
    /\ IF turnJob[t] = "running" THEN stack' = <<>> /\ recoveries' = 1 /\ steps' = 0
       ELSE UNCHANGED <<stack, recoveries, steps>>
    /\ UNCHANGED <<rows, made, posted, shared, described>>

Raises ==
    /\ stack # <<>> /\ EventsLeft
    /\ turnJob' = [turnJob EXCEPT ![Top.turn] = "failed"] /\ stack' = <<>> /\ events' = events + 1
    /\ recoveries' = 1 /\ steps' = 0
    /\ UNCHANGED <<rows, made, posted, again, shared, described>>

PromptNext ==
    \/ \E u \in Users, file \in BOOLEAN : Post(u, file)
    \/ \E on \in BOOLEAN : Share(on)
    \/ \E t \in Turns : \/ Describes(t) \/ WriteBack(t) \/ Dies(t)
                        \/ \E native \in BOOLEAN : _run_turn(t, native)
    \/ Calls
    \/ \E late \in BOOLEAN : _honest_ending(late)
    \/ run_agent_tool \/ Answers \/ _two_failures_text \/ Raises

PromptSpec == PromptInit /\ [][PromptNext]_promptVars

---------------------------------------------------------------------------
Reader == rows[Question(Top.turn)].by
Messages(frame) ==
    {h.message : h \in frame.replayed} \cup {frame.msgs[i] : i \in DOMAIN frame.msgs}
Pieces(msg) == {msg.text[i] : i \in DOMAIN msg.text}

\* A document's words reach a model as fenced data only: in a search result,
\* in a flow's or a delegate's, quoted by an ending of this program or of a
\* delegate, when they are appended and in every replay
\* (prompt.py:_FENCED_TOOL_KEYS, _replay_assistant_text).
DocumentWordsAreFenced ==
    \A n \in DOMAIN stack : \A m \in Messages(stack[n]) : \A p \in Pieces(m) :
        p.who = "document" => p.fenced

\* Only the person a turn answers speaks to its model unfenced; where a row
\* names no author it is another's as long as the conversation is shared
\* (prompt.py:_is_foreign_user_turn).
OthersWordsAreFenced ==
    [][stack = <<>> /\ stack' # <<>> =>
        \A p \in UNION {Pieces(m) : m \in Messages(stack'[1])} :
            p.who \in Users \ {Reader'} => p.fenced \/ (p.who = Owner /\ ~shared)]_promptVars

\* Neither the picture nor its description reaches a turn of somebody who may
\* not open the file.
WithheldStaysWithheld ==
    \A n \in DOMAIN stack : \A f \in stack[n].files :
        f.shown \in {"native", "described"} => rows[Question(f.turn)].by = Reader

\* A turn is answered from the conversation as it was when it was posted,
\* whoever finishes meanwhile and however often it is tried, until an attempt
\* has finished it.
AnsweredAsPosted ==
    \A n \in DOMAIN stack :
        stack[n].turn \notin again => stack[n].seen \subseteq posted[stack[n].turn]

\* What is replayed keeps its order: an answer comes after every tool result
\* of its turn, those of attempts that died included.
AnswersFollowTheirTools ==
    \A i, j \in DOMAIN rows :
        /\ rows[i].role = "assistant" /\ rows[i].done
        /\ rows[j].role = "tool" /\ rows[j].turn = rows[i].turn
        => j < i
================================================================================
