----------------------------------- MODULE Notes -----------------------------------
(***************************************************************************)
(* Consolidation (rag.consolidate): the owner of a workstream has one of   *)
(* its conversations distilled into a note, a document of the stream that  *)
(* carries the conversation's tags as its labels.  The request looks for a *)
(* live job and enqueues in two statements; the attempt reads the          *)
(* transcript, has it distilled, writes the file, stages it, sets the      *)
(* note's fields, copies the tags, ingests, and puts on record how far the *)
(* note goes, each in a transaction of its own, while the conversation     *)
(* goes on or is deleted.                                                  *)
(*                                                                         *)
(* A text is the number of turns it covers: what turn i brought into the   *)
(* conversation is brought[i], and any later turn may repeat it.  The note *)
(* has one row for good, since its path is made from the conversation's    *)
(* id; ingestion is what Documents and Library show it to be.              *)
(***************************************************************************)
EXTENDS QueueClient

CONSTANTS
    Tags,       \* entitlements
    MaxTurns    \* bound on completed turns

ASSUME NotesAssumption == MaxTurns \in Nat

VARIABLES
    conv,       \* the conversation: its turns, tags and what is on record
    brought,    \* the tags of what each turn read
    post,       \* the request of each job
    through,    \* payload["through_index"] of each job
    read,       \* the transcript an attempt holds
    file,       \* NOTES_DIR/<conversation>.md
    note        \* the note's Document row, its stored copy and its passages

noteVars == <<conv, brought, post, through, read, file, note>>
vars == <<queueVars, noteVars>>

Pcs == {"read", "written", "staged", "fielded", "labelled", "processing", "ingested"}
Texts == 0..MaxTurns

TypeOK ==
    /\ QueueTypeOK(Pcs)
    /\ conv \in [alive : BOOLEAN, turns : Texts, tags : SUBSET Tags, through : Texts, newer : SUBSET Tags]
    /\ brought \in [1..MaxTurns -> SUBSET Tags]
    /\ post \in [Jobs -> {"idle", "checked", "over"}]
    /\ through \in [Jobs -> Texts]
    /\ read \in [Execs -> Texts]
    /\ file \in Texts
    /\ note \in [state : {"none", "pending", "processing", "ready", "failed"}, known : BOOLEAN,
                 copy : Texts, labels : SUBSET Tags, shown : Texts, stamp : SUBSET Tags]

Init ==
    /\ QueueInit
    /\ conv = [alive |-> TRUE, turns |-> 0, tags |-> {}, through |-> 0, newer |-> {}]
    /\ brought = [i \in 1..MaxTurns |-> {}]
    /\ post = [j \in Jobs |-> "idle"]
    /\ through = [j \in Jobs |-> 0]
    /\ read = [e \in Execs |-> 0]
    /\ file = 0
    /\ note = [state |-> "none", known |-> FALSE, copy |-> 0, labels |-> {}, shown |-> 0, stamp |-> {}]

Unsettled == note.state \in {"pending", "processing"}
Carried(text) == UNION {brought[i] : i \in 1..text}

---------------------------------------------------------------------------
(***************************************************************************)
(* The conversation.                                                       *)
(***************************************************************************)

\* A turn and the tags of what it read are committed together.
TurnCompletes(seen) ==
    /\ conv.alive /\ conv.turns < MaxTurns
    /\ conv' = [conv EXCEPT !.turns = @ + 1, !.tags = @ \cup seen,
                            !.newer = @ \cup (seen \ conv.tags)]
    /\ brought' = [brought EXCEPT ![conv.turns + 1] = seen]
    /\ UNCHANGED <<queueVars, post, through, read, file, note>>

\* Its turns and tags go with it; the note stays.
ConversationDeleted ==
    /\ conv.alive
    /\ conv' = [alive |-> FALSE, turns |-> 0, tags |-> {}, through |-> 0, newer |-> {}]
    /\ UNCHANGED <<queueVars, brought, post, through, read, file, note>>

---------------------------------------------------------------------------
(***************************************************************************)
(* The request.                                                            *)
(***************************************************************************)

LiveJob == \E i \in Jobs : job[i].state \in {"queued", "running"}

Check(j) ==
    /\ post[j] = "idle"
    /\ conv.alive /\ ~LiveJob /\ conv.turns > 0
    /\ post' = [post EXCEPT ![j] = "checked"]
    /\ through' = [through EXCEPT ![j] = conv.turns]
    /\ UNCHANGED <<queueVars, conv, brought, read, file, note>>

Submit(j) ==
    /\ post[j] = "checked"
    /\ post' = [post EXCEPT ![j] = "over"]
    /\ Enqueued(j)
    /\ UNCHANGED <<att, hooks, faults, conv, brought, through, read, file, note>>

\* No model is bound, the queue is not there or the quota is reached.
SubmitRefused(j) ==
    /\ post[j] = "checked"
    /\ post' = [post EXCEPT ![j] = "over"]
    /\ UNCHANGED <<queueVars, conv, brought, through, read, file, note>>

---------------------------------------------------------------------------
(***************************************************************************)
(* The attempt: run_consolidate.                                           *)
(***************************************************************************)

\* plan_consolidate asks for the machine alone.
ClaimAlone(j) ==
    /\ \A i \in Jobs : job[i].state # "running"
    /\ Claim(j)
    /\ UNCHANGED noteVars

Fails(e, from) ==
    /\ Goes(e, from, "bad")
    /\ UNCHANGED <<job, hooks, faults, noteVars>>

ReadTranscript(e) ==
    /\ conv.alive /\ conv.turns > 0
    /\ Goes(e, "claimed", "read")
    /\ read' = [read EXCEPT ![e] = conv.turns]
    /\ UNCHANGED <<job, hooks, faults, conv, brought, post, through, file, note>>

NothingToRead(e) == ~(conv.alive /\ conv.turns > 0) /\ Fails(e, "claimed")

\* The model distils and the file is written.
Distil(e) ==
    /\ Goes(e, "read", "written")
    /\ file' = read[e]
    /\ UNCHANGED <<job, hooks, faults, conv, brought, post, through, read, note>>

Restaged == [note EXCEPT !.state = "pending", !.copy = file, !.shown = 0, !.stamp = {}]

\* The same text leaves the row as it is; two distillations of the same
\* turns need not be the same.
Stage(e) ==
    /\ Goes(e, "written", "staged")
    /\ \/ note' = Restaged
       \/ note.state # "none" /\ note.copy = file /\ UNCHANGED note
    /\ UNCHANGED <<job, hooks, faults, conv, brought, post, through, read, file>>

\* Only now does the row bear the conversation's id.
SetFields(e) ==
    /\ Goes(e, "staged", "fielded")
    /\ note' = [note EXCEPT !.known = TRUE]
    /\ UNCHANGED <<job, hooks, faults, conv, brought, post, through, read, file>>

Labelled(ids) == [note EXCEPT !.labels = ids, !.stamp = IF note.shown > 0 THEN ids ELSE {}]

\* Mutant: the tags the conversation had when it was last put on record.
InheritTags_Recorded(e) ==
    /\ Goes(e, "fielded", "labelled")
    /\ note' = Labelled(conv.tags \ conv.newer)
    /\ UNCHANGED <<job, hooks, faults, conv, brought, post, through, read, file>>

\* The conversation's tags at this moment: a superset of what the text
\* holds, and nothing when the conversation is gone.
InheritTags(e) ==
    /\ Goes(e, "fielded", "labelled")
    /\ note' = Labelled(conv.tags)
    /\ UNCHANGED <<job, hooks, faults, conv, brought, post, through, read, file>>

BeginIngest(e) ==
    /\ Goes(e, "labelled", "processing")
    /\ note' = [note EXCEPT !.state = "processing"]
    /\ UNCHANGED <<job, hooks, faults, conv, brought, post, through, read, file>>

Ingest(e) ==
    /\ Goes(e, "processing", "ingested")
    /\ note' = [note EXCEPT !.state = "ready", !.shown = note.copy, !.stamp = note.labels]
    /\ UNCHANGED <<job, hooks, faults, conv, brought, post, through, read, file>>

IngestFails(e) ==
    /\ Goes(e, "processing", "bad")
    /\ note' = [note EXCEPT !.state = "failed"]
    /\ UNCHANGED <<job, hooks, faults, conv, brought, post, through, read, file>>

\* record_consolidation; "newer" is what has a later time than this one.
Record(e) ==
    /\ Goes(e, "ingested", "ok")
    /\ conv' = IF conv.alive THEN [conv EXCEPT !.through = through[e[1]], !.newer = {}] ELSE conv
    /\ UNCHANGED <<job, hooks, faults, brought, post, through, read, file, note>>

AttemptStep(e) ==
    \/ ReadTranscript(e) \/ NothingToRead(e)
    \/ Fails(e, "claimed") \/ Fails(e, "read") \/ Fails(e, "written")
    \/ Distil(e) \/ Stage(e) \/ SetFields(e) \/ InheritTags(e)
    \/ BeginIngest(e) \/ Ingest(e) \/ IngestFails(e) \/ Record(e)

---------------------------------------------------------------------------
\* on_terminal of rag.consolidate finds the row by the conversation's id.
OnConsolidateTerminal(j) ==
    /\ HookRuns(j)
    /\ note' = IF note.known /\ Unsettled THEN [note EXCEPT !.state = "failed"] ELSE note
    /\ UNCHANGED <<conv, brought, post, through, read, file>>

QueueMoves ==
    /\ \/ \E j \in Jobs : Sweep(j) \/ Drain(j) \/ Cancel(j)
       \/ \E e \in Execs : Report(e) \/ HandlerMissing(e) \/ WorkerDies(e)
    /\ UNCHANGED noteVars

Next ==
    \/ \E seen \in SUBSET Tags : TurnCompletes(seen)
    \/ ConversationDeleted
    \/ \E j \in Jobs : Check(j) \/ Submit(j) \/ SubmitRefused(j) \/ ClaimAlone(j) \/ OnConsolidateTerminal(j)
    \/ \E e \in Execs : AttemptStep(e)
    \/ QueueMoves

\* Workers are restarted and sweep, attempts and hooks run on.
Fairness ==
    /\ \A j \in Jobs : WF_vars(ClaimAlone(j)) /\ WF_vars(OnConsolidateTerminal(j))
    /\ \A j \in Jobs : WF_vars(Sweep(j) /\ UNCHANGED noteVars)
    /\ \A e \in Execs : WF_vars(AttemptStep(e)) /\ WF_vars(Report(e) /\ UNCHANGED noteVars)

Spec == Init /\ [][Next]_vars /\ Fairness

---------------------------------------------------------------------------
(***************************************************************************)
(* Properties.                                                             *)
(***************************************************************************)

\* "No laundering": while the conversation is there, the passages of its
\* note bear every tag of what the note's text may repeat, whatever the
\* conversation read between the transcript and the labels.
NoteCarriesItsTags == conv.alive => Carried(note.shown) \subseteq note.stamp

\* The stream page's "Up to date": when the record reaches the last turn
\* and the note is READY, the note covers every turn and is labelled with
\* every tag, although turns complete while it is written and two requests
\* may both find no live job.
UpToDateIsTrue ==
    (conv.alive /\ conv.through > 0 /\ conv.through >= conv.turns /\ note.state = "ready")
    => note.shown = conv.turns /\ conv.tags \subseteq note.labels

\* A note that bears its conversation's id does not stay PENDING or
\* PROCESSING, where the library refuses to repair it: it becomes READY or
\* FAILED, unless a handler that found it so failed before its own ingestion
\* (such a job has no hook).
RaisedEarly == \E j \in Jobs : job[j].state = "failed" /\ job[j].outcome > 0
NoteSettles == (note.known /\ Unsettled) ~> (~Unsettled \/ RaisedEarly)

\* jobs.py says of the labels of a note that "the tags are additive, so the
\* note's labels only ever grow".
LabelsOnlyGrow == [][note.labels \subseteq note'.labels]_vars

\* on_consolidate_terminal's docstring, "the stranded-note fix": no note is
\* "stuck at PENDING forever".
EveryNoteSettles == Unsettled ~> ~Unsettled
==================================================================================
