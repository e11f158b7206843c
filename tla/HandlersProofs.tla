------------------------------- MODULE HandlersProofs -------------------------------
(***************************************************************************)
(* Proofs about the handlers that MCHandlers follows: Notes for any number *)
(* of jobs, turns, tags and faults, ToolLoop for any agents, tools and     *)
(* grants, and Media for any number of units, jobs and faults.  Notes and  *)
(* Media rest on attempts that do not outlive their claim: with such an    *)
(* attempt another transcript could be staged between its labels and its   *)
(* ingestion, and two attempts could write one sidecar.                    *)
(***************************************************************************)
EXTENDS Notes, ToolLoop, Media, QueueClientProofs, FiniteSetTheorems

\* plan_consolidate asks for the machine alone, so no two jobs run.
OneRuns ==
    \A i, j \in Jobs : job[i].state = "running" /\ job[j].state = "running" => i = j

\* Every text there is covers turns that have completed, each with its tags on the
\* conversation.
TextsInv ==
    conv.alive =>
        /\ \A i \in 1..MaxTurns : i <= conv.turns => brought[i] \subseteq conv.tags
        /\ \A e \in Execs : read[e] <= conv.turns
        /\ file <= conv.turns
        /\ note.copy <= conv.turns
        /\ note.shown <= conv.turns

\* NoteCarriesItsTags made inductive: from the copying of the tags to the ingestion,
\* the labels cover the stored copy that is about to be shown.
NotesInv ==
    /\ TypeOK /\ ClaimsCounted /\ ExecutingHolds
    /\ OneRuns
    /\ TextsInv
    /\ NoteCarriesItsTags
    /\ conv.alive =>
          \A e \in Execs : att[e] \in {"labelled", "processing"} => Carried(note.copy) \subseteq note.labels

---------------------------------------------------------------------------
(* The queue's part.                                                       *)

(* Only a claim makes a job run.                                           *)
LEMMA OnlyAClaimRuns ==
    ASSUME QueueTypeOK(Pcs), NEW j \in Jobs, job'[j].state = "running", QueueMoves
    PROVE  job[j].state = "running"
<1>0. \A i \in Jobs : \A r : RowBecomes(i, r) => job'[i] = r /\ \A k \in Jobs : k # i => job'[k] = job[k]
  BY DEF QueueTypeOK, RowBecomes
<1>1. ASSUME NEW i \in Jobs, NEW s, NEW t, NEW l, NEW o, s # "running",
             RowBecomes(i, [state |-> s, tries |-> t, lost |-> l, outcome |-> o])
      PROVE  job[j].state = "running"
  BY <1>0, <1>1
<1>2. ASSUME NEW i \in Jobs, Sweep(i) \/ Drain(i) \/ Cancel(i) PROVE job[j].state = "running"
  <2>1. CASE Sweep(i)
    BY <1>1, <2>1, SweepRow
  <2>2. CASE Drain(i)
    BY <1>1, <2>2, DrainRow
  <2>3. CASE Cancel(i)
    BY <1>1, <2>3, CancelRow
  <2> QED BY <1>2, <2>1, <2>2, <2>3
<1>3. ASSUME NEW e \in Execs, Report(e) \/ HandlerMissing(e) PROVE job[j].state = "running"
  <2>1. PICK s \in {"succeeded", "failed"} : job' = Outcome(e, s)
    BY <1>3 DEF Report, HandlerMissing
  <2>2. CASE job' = job
    BY <2>2
  <2>3. CASE RowBecomes(e[1], [state |-> s, tries |-> job[e[1]].tries, lost |-> job[e[1]].lost, outcome |-> e[2]])
    BY <1>1, <2>1, <2>3, Pairs
  <2> QED BY <2>1, <2>2, <2>3, OutcomeRow
<1>4. ASSUME NEW e \in Execs, WorkerDies(e) PROVE job[j].state = "running"
  BY <1>4 DEF WorkerDies
<1> QED BY <1>2, <1>3, <1>4 DEF QueueMoves

(* At most one attempt of all the jobs executes.                           *)
LEMMA OneAttempt ==
    ASSUME ExecutingHolds, OneRuns, NEW e \in Execs, NEW f \in Execs, Executing(e), Executing(f)
    PROVE  e = f
BY OneExecutes, Pairs DEF ExecutingHolds, Holds, OneRuns

(* A step of the queue leaves the notes' invariant alone.                  *)
LEMMA QueueMovesKeep ==
    ASSUME NotesInv, ~Late, QueueMoves \/ \E j \in Jobs : ClaimAlone(j)
    PROVE  NotesInv'
<1>0. QueueStep /\ UNCHANGED noteVars
  BY DEF QueueMoves, ClaimAlone, QueueStep
<1>1. QueueTypeOK(Pcs) /\ ClaimsCounted /\ ExecutingHolds
  BY DEF NotesInv, TypeOK
<1>2. QueueTypeOK(Pcs)' /\ ClaimsCounted' /\ ExecutingHolds'
  BY <1>0, <1>1, QueueTypeStep, QueueHoldsStep
<1>3. TypeOK'
  BY <1>0, <1>2 DEF NotesInv, TypeOK, noteVars
<1>4. OneRuns'
  <2>1. ASSUME NEW j \in Jobs, ClaimAlone(j) PROVE OneRuns'
    <3>1. RowBecomes(j, [state |-> "running", tries |-> job[j].tries + 1, lost |-> job[j].lost, outcome |-> 0])
      BY <1>1, <2>1, ClaimRow DEF ClaimAlone
    <3>2. \A i \in Jobs : i # j => job'[i] = job[i]
      BY <1>1, <3>1 DEF RowBecomes, QueueTypeOK
    <3> QED BY <2>1, <3>2 DEF OneRuns, ClaimAlone
  <2>2. CASE QueueMoves
    BY <1>1, <2>2, OnlyAClaimRuns DEF NotesInv, OneRuns
  <2> QED BY <2>1, <2>2
<1>5. TextsInv' /\ NoteCarriesItsTags'
  BY <1>0 DEF NotesInv, TextsInv, NoteCarriesItsTags, Carried, noteVars
<1>6. \A e \in Execs : att'[e] \in {"labelled", "processing"} => att[e] = att'[e]
  BY <1>0, <1>1, EndsAreTold DEF OnlyTold
<1> QED BY <1>0, <1>2, <1>3, <1>4, <1>5, <1>6 DEF NotesInv, Carried, noteVars

---------------------------------------------------------------------------
(* The conversation and the requests.                                      *)

(* What a text repeats is on the conversation.                             *)
LEMMA CarriedIsTagged ==
    ASSUME TypeOK, TextsInv, conv.alive, NEW n \in Texts, n <= conv.turns
    PROVE  Carried(n) \subseteq conv.tags
BY NotesAssumption DEF TypeOK, TextsInv, Carried, Texts

(* What the turns so far brought in is not rewritten by the next one.      *)
LEMMA TurnKeeps ==
    ASSUME NotesInv, NEW seen \in SUBSET Tags, TurnCompletes(seen)
    PROVE  NotesInv'
<1>1. /\ conv.alive /\ conv.turns \in Nat /\ conv.turns < MaxTurns /\ conv.turns + 1 \in Texts
      /\ conv.tags \subseteq Tags /\ conv.newer \subseteq Tags /\ conv.through \in Texts
      /\ MaxTurns \in Nat
  BY NotesAssumption DEF TurnCompletes, NotesInv, TypeOK, Texts
<1>2. conv' = [alive |-> TRUE, turns |-> conv.turns + 1, tags |-> conv.tags \cup seen,
               through |-> conv.through, newer |-> conv.newer \cup (seen \ conv.tags)]
  BY <1>1 DEF TurnCompletes, NotesInv, TypeOK
<1>3. /\ brought' = [brought EXCEPT ![conv.turns + 1] = seen]
      /\ UNCHANGED <<job, att, hooks, faults, post, through, read, file, note>>
  BY DEF TurnCompletes, queueVars
<1>4. /\ brought \in [1..MaxTurns -> SUBSET Tags] /\ read \in [Execs -> Texts] /\ file \in Texts
      /\ note.copy \in Texts /\ note.shown \in Texts
  BY DEF NotesInv, TypeOK
<1>5. TypeOK'
  <2>1. brought' \in [1..MaxTurns -> SUBSET Tags]
    BY <1>3, <1>4
  <2>2. QueueTypeOK(Pcs)'
    BY <1>3 DEF NotesInv, TypeOK, QueueTypeOK
  <2> QED BY <1>1, <1>2, <1>3, <2>1, <2>2 DEF NotesInv, TypeOK
<1>6. \A n \in Texts : n <= conv.turns => Carried(n)' = Carried(n)
  BY <1>1, <1>3, <1>4 DEF Carried, Texts
<1>7. /\ \A e \in Execs : read[e] <= conv.turns
      /\ file <= conv.turns /\ note.copy <= conv.turns /\ note.shown <= conv.turns
      /\ \A i \in 1..MaxTurns : i <= conv.turns => brought[i] \subseteq conv.tags
  BY <1>1 DEF NotesInv, TextsInv
<1>8. TextsInv'
  <2>1. conv'.turns = conv.turns + 1 /\ conv'.tags = conv.tags \cup seen
    BY <1>2
  <2>2. ASSUME NEW i \in 1..MaxTurns, i <= conv.turns + 1
        PROVE  brought'[i] \subseteq conv.tags \cup seen
    <3>1. CASE i = conv.turns + 1
      BY <1>3, <1>4, <3>1
    <3>2. CASE i # conv.turns + 1
      <4>1. i <= conv.turns
        BY <1>1, <2>2, <3>2
      <4> QED BY <1>3, <1>4, <1>7, <3>2, <4>1
    <3> QED BY <3>1, <3>2
  <2>3. \A n \in Texts : n <= conv.turns => n <= conv.turns + 1
    BY <1>1 DEF Texts
  <2>4. \A e \in Execs : read'[e] <= conv.turns + 1
    BY <1>3, <1>4, <1>7, <2>3
  <2>5. file' <= conv.turns + 1 /\ note'.copy <= conv.turns + 1 /\ note'.shown <= conv.turns + 1
    BY <1>3, <1>4, <1>7, <2>3
  <2> QED BY <2>1, <2>2, <2>4, <2>5 DEF TextsInv
<1>9. NoteCarriesItsTags'
  BY <1>1, <1>3, <1>4, <1>6, <1>7 DEF NotesInv, NoteCarriesItsTags
<1>10. \A e \in Execs : att'[e] \in {"labelled", "processing"} => Carried(note.copy)' \subseteq note'.labels
  BY <1>1, <1>3, <1>4, <1>6, <1>7 DEF NotesInv
<1>11. ClaimsCounted' /\ ExecutingHolds' /\ OneRuns'
  BY <1>3 DEF NotesInv, ClaimsCounted, ExecutingHolds, Executing, Holds, OneRuns
<1> QED BY <1>3, <1>5, <1>8, <1>9, <1>10, <1>11 DEF NotesInv, Carried

(* Once the conversation is gone nothing is asked of the note.             *)
LEMMA ConversationGoes ==
    ASSUME NotesInv, ConversationDeleted
    PROVE  NotesInv'
<1>1. /\ conv' = [alive |-> FALSE, turns |-> 0, tags |-> {}, through |-> 0, newer |-> {}]
      /\ UNCHANGED <<job, att, hooks, faults, brought, post, through, read, file, note>>
  BY DEF ConversationDeleted, queueVars
<1>2. ~conv'.alive /\ 0 \in Texts
  BY <1>1, NotesAssumption DEF Texts
<1>3. TypeOK'
  BY <1>1, <1>2 DEF NotesInv, TypeOK, QueueTypeOK
<1>4. ClaimsCounted' /\ ExecutingHolds' /\ OneRuns'
  BY <1>1 DEF NotesInv, ClaimsCounted, ExecutingHolds, Executing, Holds, OneRuns
<1> QED BY <1>2, <1>3, <1>4 DEF NotesInv, TextsInv, NoteCarriesItsTags

(* A request reads, enqueues or is refused: no text and no attempt changes. *)
LEMMA RequestKeeps ==
    ASSUME NotesInv, NEW j \in Jobs, Check(j) \/ Submit(j) \/ SubmitRefused(j)
    PROVE  NotesInv'
<1>1. /\ UNCHANGED <<conv, brought, read, file, note, att, hooks, faults>>
      /\ post' \in [Jobs -> {"idle", "checked", "over"}]
      /\ through' \in [Jobs -> Texts]
  BY DEF Check, Submit, SubmitRefused, queueVars, NotesInv, TypeOK
<1>2. QueueTypeOK(Pcs)' /\ ClaimsCounted' /\ ExecutingHolds' /\ OneRuns'
  <2>0. QueueTypeOK(Pcs) /\ ClaimsCounted /\ ExecutingHolds /\ OneRuns
    BY DEF NotesInv, TypeOK
  <2>1. CASE Check(j) \/ SubmitRefused(j)
    <3>1. UNCHANGED <<job, att, hooks, faults>>
      BY <2>1 DEF Check, SubmitRefused, queueVars
    <3> QED BY <2>0, <3>1
      DEF QueueTypeOK, ClaimsCounted, ExecutingHolds, Executing, Holds, OneRuns
  <2>2. CASE Submit(j)
    <3>1. Enqueued(j)
      BY <2>2 DEF Submit
    <3>2. /\ QueueTypeOK(Pcs)' /\ ClaimsCounted' /\ ExecutingHolds'
          /\ job'[j].state = "queued" /\ \A i \in Jobs : i # j => job'[i] = job[i]
      BY <1>1, <2>0, <3>1, EnqueueStep
    <3> QED BY <2>0, <3>2 DEF OneRuns
  <2> QED BY <2>1, <2>2
<1> QED BY <1>1, <1>2 DEF NotesInv, TypeOK, TextsInv, NoteCarriesItsTags, Carried

---------------------------------------------------------------------------
(* The attempt.                                                            *)

\* The queue's part of the invariant after a handler's step of attempt e to `to`: no
\* other attempt is between its labels and its ingestion.
Stepped(e, to) ==
    /\ QueueTypeOK(Pcs)' /\ ClaimsCounted' /\ ExecutingHolds' /\ OneRuns'
    /\ \A f \in Execs : att'[f] \in {"labelled", "processing"} => f = e /\ to = att'[f]

(* A handler's step is the step of the only attempt that executes.         *)
LEMMA HandlerKeeps ==
    ASSUME NotesInv, NEW e \in Execs, NEW from \in Pcs \cup {"claimed"},
           NEW to \in Pcs \cup {"ok", "bad"}, Goes(e, from, to), UNCHANGED <<job, hooks, faults>>
    PROVE  Stepped(e, to) /\ att[e] = from
<1>1. QueueTypeOK(Pcs) /\ ClaimsCounted /\ ExecutingHolds /\ OneRuns
  BY DEF NotesInv, TypeOK
<1>2. from \notin {"none", "over"}
  BY DEF Pcs
<1>3. QueueTypeOK(Pcs)' /\ ClaimsCounted' /\ ExecutingHolds'
  BY <1>1, <1>2, HandlerStep
<1>4. OneRuns'
  BY <1>1 DEF OneRuns
<1>5. att[e] = from /\ att'[e] = to /\ \A f \in Execs : f # e => att'[f] = att[f]
  BY <1>1, GoesFacts
<1>6. Executing(e)
  BY <1>2, <1>5 DEF Executing
<1>7. ASSUME NEW f \in Execs, att'[f] \in {"labelled", "processing"} PROVE f = e
  <2>1. CASE f # e
    <3>1. Executing(f)
      BY <1>5, <1>7, <2>1 DEF Executing
    <3> QED BY <1>1, <1>6, <3>1, OneAttempt
  <2> QED BY <2>1
<1> QED BY <1>3, <1>4, <1>5, <1>7 DEF Stepped

(* The invariant after a step that leaves the conversation alone.          *)
LEMMA NoteKeeps ==
    ASSUME NotesInv, NEW e \in Execs, NEW to, Stepped(e, to),
           UNCHANGED <<conv, brought, post, through>>,
           read' \in [Execs -> Texts], file' \in Texts,
           note' \in [state : {"none", "pending", "processing", "ready", "failed"}, known : BOOLEAN,
                      copy : Texts, labels : SUBSET Tags, shown : Texts, stamp : SUBSET Tags],
           conv.alive => /\ \A f \in Execs : read'[f] <= conv.turns
                         /\ file' <= conv.turns
                         /\ note'.copy <= conv.turns /\ note'.shown <= conv.turns
                         /\ Carried(note'.shown) \subseteq note'.stamp
                         /\ to \in {"labelled", "processing"} => Carried(note'.copy) \subseteq note'.labels
    PROVE  NotesInv'
<1>1. TypeOK'
  BY DEF NotesInv, TypeOK, Stepped
<1>2. TextsInv'
  BY DEF NotesInv, TextsInv
<1>3. \A n : Carried(n)' = Carried(n)
  BY DEF Carried
<1>4. NoteCarriesItsTags'
  BY DEF NoteCarriesItsTags, Carried
<1>5. conv'.alive =>
        \A f \in Execs : att'[f] \in {"labelled", "processing"} => Carried(note.copy)' \subseteq note'.labels
  BY <1>3 DEF Stepped, Carried
<1> QED BY <1>1, <1>2, <1>4, <1>5 DEF NotesInv, Stepped

(* The facts about the note a step may use.                                *)
LEMMA NoteFacts ==
    ASSUME NotesInv
    PROVE  /\ note \in [state : {"none", "pending", "processing", "ready", "failed"}, known : BOOLEAN,
                        copy : Texts, labels : SUBSET Tags, shown : Texts, stamp : SUBSET Tags]
           /\ read \in [Execs -> Texts] /\ file \in Texts
           /\ conv.tags \subseteq Tags /\ conv.turns \in Texts
           /\ conv.alive => /\ \A f \in Execs : read[f] <= conv.turns
                            /\ file <= conv.turns
                            /\ note.copy <= conv.turns /\ note.shown <= conv.turns
                            /\ Carried(note.shown) \subseteq note.stamp
                            /\ \A n \in Texts : n <= conv.turns => Carried(n) \subseteq conv.tags
                            /\ \A f \in Execs : att[f] \in {"labelled", "processing"} =>
                                                   Carried(note.copy) \subseteq note.labels
           /\ 0 \in Texts /\ Carried(0) = {}
<1>1. TypeOK /\ TextsInv /\ NoteCarriesItsTags
  BY DEF NotesInv
<1>2. 0 \in Texts /\ Carried(0) = {}
  BY NotesAssumption DEF Texts, Carried
<1>3. conv.alive => \A n \in Texts : n <= conv.turns => Carried(n) \subseteq conv.tags
  BY <1>1, CarriedIsTagged
<1> QED BY <1>1, <1>2, <1>3 DEF NotesInv, TypeOK, TextsInv, NoteCarriesItsTags

(* The attempt's steps that change neither the file nor the note.          *)
LEMMA AttemptReads ==
    ASSUME NotesInv, NEW e \in Execs,
           \/ ReadTranscript(e) \/ NothingToRead(e)
           \/ Fails(e, "claimed") \/ Fails(e, "read") \/ Fails(e, "written")
    PROVE  NotesInv'
<1>1. CASE ReadTranscript(e)
  <2>1. Stepped(e, "read")
    BY <1>1, HandlerKeeps DEF ReadTranscript, Pcs
  <2>2. /\ read' = [read EXCEPT ![e] = conv.turns]
        /\ UNCHANGED <<conv, brought, post, through, file, note>>
    BY <1>1 DEF ReadTranscript
  <2>3. read' \in [Execs -> Texts] /\ \A f \in Execs : read'[f] = read[f] \/ read'[f] = conv.turns
    BY <2>2, NoteFacts
  <2>4. conv.turns <= conv.turns
    BY NoteFacts, NotesAssumption DEF Texts
  <2> QED BY <2>1, <2>2, <2>3, <2>4, NoteFacts, NoteKeeps
<1>2. CASE NothingToRead(e) \/ Fails(e, "claimed") \/ Fails(e, "read") \/ Fails(e, "written")
  <2>1. PICK from \in {"claimed", "read", "written"} : Fails(e, from)
    BY <1>2 DEF NothingToRead
  <2>2. Stepped(e, "bad")
    BY <2>1, HandlerKeeps DEF Fails, Pcs
  <2>3. UNCHANGED noteVars
    BY <2>1 DEF Fails
  <2> QED BY <2>2, <2>3, NoteFacts, NoteKeeps DEF noteVars
<1> QED BY <1>1, <1>2

(* The attempt writes its text and has it staged: nothing is shown of it yet. *)
LEMMA AttemptStages ==
    ASSUME NotesInv, NEW e \in Execs, Distil(e) \/ Stage(e) \/ SetFields(e)
    PROVE  NotesInv'
<1>1. CASE Distil(e)
  <2>1. Stepped(e, "written")
    BY <1>1, HandlerKeeps DEF Distil, Pcs
  <2>2. file' = read[e] /\ UNCHANGED <<conv, brought, post, through, read, note>>
    BY <1>1 DEF Distil
  <2> QED BY <2>1, <2>2, NoteFacts, NoteKeeps
<1>2. CASE Stage(e)
  <2>1. Stepped(e, "staged")
    BY <1>2, HandlerKeeps DEF Stage, Pcs
  <2>2. /\ UNCHANGED <<conv, brought, post, through, read, file>>
        /\ note' = Restaged \/ note' = note
    BY <1>2 DEF Stage
  <2>3. /\ Restaged \in [state : {"none", "pending", "processing", "ready", "failed"}, known : BOOLEAN,
                        copy : Texts, labels : SUBSET Tags, shown : Texts, stamp : SUBSET Tags]
        /\ Restaged.copy = file /\ Restaged.shown = 0 /\ Restaged.stamp = {}
    <3>1. /\ note \in [state : {"none", "pending", "processing", "ready", "failed"}, known : BOOLEAN,
                       copy : Texts, labels : SUBSET Tags, shown : Texts, stamp : SUBSET Tags]
          /\ file \in Texts /\ 0 \in Texts
      BY NoteFacts
    <3> QED BY <3>1 DEF Restaged
  <2>4. CASE note' = Restaged
    <3>1. conv.alive => 0 <= conv.turns
      BY NoteFacts, NotesAssumption DEF Texts
    <3> QED BY <2>1, <2>2, <2>3, <2>4, <3>1, NoteFacts, NoteKeeps
  <2>5. CASE note' = note
    BY <2>1, <2>2, <2>5, NoteFacts, NoteKeeps
  <2> QED BY <2>2, <2>4, <2>5
<1>3. CASE SetFields(e)
  <2>1. Stepped(e, "fielded")
    BY <1>3, HandlerKeeps DEF SetFields, Pcs
  <2>2. /\ UNCHANGED <<conv, brought, post, through, read, file>>
        /\ note' = [note EXCEPT !.known = TRUE]
    BY <1>3 DEF SetFields
  <2>3. /\ note' \in [state : {"none", "pending", "processing", "ready", "failed"}, known : BOOLEAN,
                      copy : Texts, labels : SUBSET Tags, shown : Texts, stamp : SUBSET Tags]
        /\ note'.copy = note.copy /\ note'.shown = note.shown /\ note'.stamp = note.stamp
    BY <2>2, NoteFacts
  <2> QED BY <2>1, <2>2, <2>3, NoteFacts, NoteKeeps
<1> QED BY <1>1, <1>2, <1>3

(* The tags are copied: they cover every text there is at that moment.     *)
LEMMA AttemptLabels ==
    ASSUME NotesInv, NEW e \in Execs, InheritTags(e)
    PROVE  NotesInv'
<1>1. Stepped(e, "labelled")
  BY HandlerKeeps DEF InheritTags, Pcs
<1>2. /\ UNCHANGED <<conv, brought, post, through, read, file>>
      /\ note' = [note EXCEPT !.labels = conv.tags,
                              !.stamp = IF note.shown > 0 THEN conv.tags ELSE {}]
  BY DEF InheritTags, Labelled
<1>3. note' = [state |-> note.state, known |-> note.known, copy |-> note.copy,
               labels |-> conv.tags, shown |-> note.shown,
               stamp |-> IF note.shown > 0 THEN conv.tags ELSE {}]
  BY <1>2, NoteFacts
<1>4. /\ note' \in [state : {"none", "pending", "processing", "ready", "failed"}, known : BOOLEAN,
                    copy : Texts, labels : SUBSET Tags, shown : Texts, stamp : SUBSET Tags]
      /\ note'.copy = note.copy /\ note'.shown = note.shown /\ note'.labels = conv.tags
      /\ note'.stamp = IF note.shown > 0 THEN conv.tags ELSE {}
  BY <1>3, NoteFacts
<1>5. note.shown > 0 \/ note.shown = 0
  BY NoteFacts, NotesAssumption DEF Texts
<1>6. conv.alive => Carried(note'.shown) \subseteq note'.stamp
  BY <1>4, <1>5, NoteFacts
<1>7. conv.alive => Carried(note'.copy) \subseteq note'.labels
  BY <1>4, NoteFacts
<1> QED BY <1>1, <1>2, <1>4, <1>6, <1>7, NoteFacts, NoteKeeps

(* The ingestion shows the copy under the labels that cover it.            *)
LEMMA AttemptIngests ==
    ASSUME NotesInv, NEW e \in Execs, BeginIngest(e) \/ Ingest(e) \/ IngestFails(e)
    PROVE  NotesInv'
<1>1. CASE BeginIngest(e)
  <2>1. Stepped(e, "processing") /\ att[e] = "labelled"
    BY <1>1, HandlerKeeps DEF BeginIngest, Pcs
  <2>2. /\ UNCHANGED <<conv, brought, post, through, read, file>>
        /\ note' = [note EXCEPT !.state = "processing"]
    BY <1>1 DEF BeginIngest
  <2>3. /\ note' \in [state : {"none", "pending", "processing", "ready", "failed"}, known : BOOLEAN,
                      copy : Texts, labels : SUBSET Tags, shown : Texts, stamp : SUBSET Tags]
        /\ note'.copy = note.copy /\ note'.shown = note.shown /\ note'.stamp = note.stamp
        /\ note'.labels = note.labels
    BY <2>2, NoteFacts
  <2> QED BY <2>1, <2>2, <2>3, NoteFacts, NoteKeeps
<1>2. CASE Ingest(e)
  <2>1. Stepped(e, "ingested") /\ att[e] = "processing"
    BY <1>2, HandlerKeeps DEF Ingest, Pcs
  <2>2. /\ UNCHANGED <<conv, brought, post, through, read, file>>
        /\ note' = [note EXCEPT !.state = "ready", !.shown = note.copy, !.stamp = note.labels]
    BY <1>2 DEF Ingest
  <2>a. note' = [state |-> "ready", known |-> note.known, copy |-> note.copy,
                 labels |-> note.labels, shown |-> note.copy, stamp |-> note.labels]
    BY <2>2, NoteFacts
  <2>3. /\ note' \in [state : {"none", "pending", "processing", "ready", "failed"}, known : BOOLEAN,
                      copy : Texts, labels : SUBSET Tags, shown : Texts, stamp : SUBSET Tags]
        /\ note'.copy = note.copy /\ note'.shown = note.copy /\ note'.stamp = note.labels
    BY <2>a, NoteFacts
  <2> QED BY <2>1, <2>2, <2>3, NoteFacts, NoteKeeps
<1>3. CASE IngestFails(e)
  <2>1. Stepped(e, "bad")
    BY <1>3, HandlerKeeps DEF IngestFails, Pcs
  <2>2. /\ UNCHANGED <<conv, brought, post, through, read, file>>
        /\ note' = [note EXCEPT !.state = "failed"]
    BY <1>3 DEF IngestFails
  <2>3. /\ note' \in [state : {"none", "pending", "processing", "ready", "failed"}, known : BOOLEAN,
                      copy : Texts, labels : SUBSET Tags, shown : Texts, stamp : SUBSET Tags]
        /\ note'.copy = note.copy /\ note'.shown = note.shown /\ note'.stamp = note.stamp
    BY <2>2, NoteFacts
  <2> QED BY <2>1, <2>2, <2>3, NoteFacts, NoteKeeps
<1> QED BY <1>1, <1>2, <1>3

(* Putting the note on record changes no tag, turn or text.                *)
LEMMA RecordKeeps ==
    ASSUME NotesInv, NEW e \in Execs, Record(e)
    PROVE  NotesInv'
<1>1. Stepped(e, "ok")
  BY HandlerKeeps DEF Record, Pcs
<1>2. /\ conv' = IF conv.alive THEN [conv EXCEPT !.through = through[e[1]], !.newer = {}] ELSE conv
      /\ UNCHANGED <<brought, post, through, read, file, note>>
  BY DEF Record
<1>3. through[e[1]] \in Texts
  BY Pairs DEF NotesInv, TypeOK
<1>4. /\ conv' \in [alive : BOOLEAN, turns : Texts, tags : SUBSET Tags, through : Texts, newer : SUBSET Tags]
      /\ conv'.alive = conv.alive /\ conv'.turns = conv.turns /\ conv'.tags = conv.tags
  BY <1>2, <1>3 DEF NotesInv, TypeOK
<1>5. TypeOK'
  BY <1>1, <1>2, <1>4 DEF NotesInv, TypeOK, Stepped
<1>6. TextsInv' /\ NoteCarriesItsTags'
  BY <1>2, <1>4 DEF NotesInv, TextsInv, NoteCarriesItsTags, Carried
<1> QED BY <1>1, <1>5, <1>6 DEF NotesInv, Stepped

(* The hook settles the note's row and shows nothing.                      *)
LEMMA HookKeeps ==
    ASSUME NotesInv, NEW j \in Jobs, OnConsolidateTerminal(j)
    PROVE  NotesInv'
<1>1. /\ UNCHANGED <<job, att, faults, conv, brought, post, through, read, file>>
      /\ hooks' \subseteq Jobs
      /\ note' = note \/ note' = [note EXCEPT !.state = "failed"]
  BY DEF OnConsolidateTerminal, HookRuns, NotesInv, TypeOK, QueueTypeOK
<1>2. /\ note' \in [state : {"none", "pending", "processing", "ready", "failed"}, known : BOOLEAN,
                    copy : Texts, labels : SUBSET Tags, shown : Texts, stamp : SUBSET Tags]
      /\ note'.copy = note.copy /\ note'.shown = note.shown /\ note'.stamp = note.stamp
      /\ note'.labels = note.labels
  BY <1>1, NoteFacts
<1>3. QueueTypeOK(Pcs)' /\ ClaimsCounted' /\ ExecutingHolds'
  BY <1>1, OtherStep DEF NotesInv, TypeOK
<1>4. TypeOK'
  BY <1>1, <1>2, <1>3 DEF NotesInv, TypeOK
<1>5. OneRuns' /\ TextsInv' /\ NoteCarriesItsTags'
  BY <1>1, <1>2 DEF NotesInv, OneRuns, TextsInv, NoteCarriesItsTags, Carried
<1> QED BY <1>1, <1>2, <1>3, <1>4, <1>5 DEF NotesInv, Carried

---------------------------------------------------------------------------
(* The theorems.                                                           *)

(* Nothing has happened yet.                                               *)
LEMMA NotesStart == Init => NotesInv
<1> SUFFICES ASSUME Init PROVE NotesInv
  OBVIOUS
<1>1. QueueTypeOK(Pcs) /\ ClaimsCounted /\ ExecutingHolds
  BY QueueTypeInit DEF Init
<1>2. 0 \in Texts /\ Carried(0) = {}
  BY NotesAssumption DEF Texts, Carried
<1>3. TypeOK
  BY <1>1, <1>2 DEF Init, TypeOK
<1>4. OneRuns
  BY DEF Init, QueueInit, OneRuns
<1>5. TextsInv /\ NoteCarriesItsTags
  BY <1>2 DEF Init, TextsInv, NoteCarriesItsTags
<1>6. \A e \in Execs : att[e] = "none"
  BY DEF Init, QueueInit
<1> QED BY <1>1, <1>3, <1>4, <1>5, <1>6 DEF NotesInv

(* Every step keeps the invariant.                                         *)
LEMMA NotesStep ==
    ASSUME NotesInv, ~Late, [Next]_vars
    PROVE  NotesInv'
<1>1. CASE QueueMoves \/ \E j \in Jobs : ClaimAlone(j)
  BY <1>1, QueueMovesKeep
<1>3. ASSUME NEW e \in Execs, AttemptStep(e) PROVE NotesInv'
  BY <1>3, AttemptReads, AttemptStages, AttemptLabels, AttemptIngests, RecordKeeps DEF AttemptStep
<1>4. CASE UNCHANGED vars
  BY <1>4 DEF vars, queueVars, noteVars, NotesInv, TypeOK, QueueTypeOK, ClaimsCounted, ExecutingHolds,
              Executing, Holds, OneRuns, TextsInv, NoteCarriesItsTags, Carried
<1> QED
  BY <1>1, <1>3, <1>4, TurnKeeps, ConversationGoes, RequestKeeps, HookKeeps DEF Next

(* No laundering: for any number of turns and tags, and whatever the        *)
(* conversation reads while its note is being made, claimed anew after a    *)
(* crash, or repaired, the note's passages bear the tags of everything      *)
(* their text may repeat, as long as no attempt outlives its claim.         *)
THEOREM NotesCarryTheirTags ==
    ASSUME ~Late PROVE Spec => []NoteCarriesItsTags
<1>1. NotesInv => NoteCarriesItsTags
  BY DEF NotesInv
<1> QED BY <1>1, NotesStart, NotesStep, PTL DEF Spec

---------------------------------------------------------------------------
(***************************************************************************)
(* The loops of a turn (ToolLoop), for any number of agents, tools, grants *)
(* and steps.                                                              *)
(***************************************************************************)

\* Who has been visited has had its roles declared or waits for it.  The
\* delegates of the first agent, and theirs, have been visited when the walk
\* has been there; further down that need not be so.
PlanInv ==
    /\ visited \cap bound \subseteq planned
    /\ \A a \in visited :
        (\E d \in Nat : <<a, d>> \in frontier) \/ RolesOf(a) \cap bound \subseteq planned
    /\ Root \in visited
    /\ <<Root, 0>> \in frontier => visited = {Root} /\ frontier = {<<Root, 0>>}
    /\ <<Root, 0>> \notin frontier /\ MaxDepth > 0 =>
        /\ Granted(Root) \cap Agents \subseteq visited
        /\ MaxDepth > 1 =>
            \A b \in Granted(Root) \cap Agents :
                <<b, 1>> \in frontier \/ Granted(b) \cap Agents \subseteq visited
    /\ ended # "planning" => frontier = {}

\* A loop offers and calls what its agent was granted.
GoodFrame(f) ==
    /\ f.offered \subseteq Granted(f.agent)
    /\ f.pc \in {"calling", "flow", "delegated"} => f.key \in Granted(f.agent)
    /\ f.pc = "flow" => f.key = FlowRun /\ f.step > 0

\* The first loop is the turn's, every other one was delegated by the one before it.
StackOK(s) ==
    /\ s # <<>> /\ s[1].agent = Root
    /\ \A i \in DOMAIN s : GoodFrame(s[i])
    /\ \A i \in 2..Len(s) : s[i].agent \in Granted(s[i - 1].agent)

\* With time up in some loop, the ones above it are on their way out.
OnItsWay(f) ==
    /\ f.pc = "asked" => steps > 0
    /\ late => f.pc = "top" \/ (f.pc = "settling" /\ f.out.kind = "ok")

LoopInv ==
    /\ LoopTypeOK
    /\ PlanInv
    /\ Running => StackOK(stack) /\ OnItsWay(Top)
    /\ late => expired /\ ended \notin {"planning", "answered"}


(* What may be called is a key, and what roles need is an agent or a tool. *)
LEMMA KeysAndRoles ==
    ASSUME LoopTypeOK, NEW a \in Agents
    PROVE  /\ Granted(a) \subseteq Keys /\ AvailableTools(a) \subseteq Granted(a)
           /\ DelegateTools(a) \subseteq Granted(a)
           /\ FlowRoles \subseteq Tools
           /\ \A t \in Granted(a) \cap Tools : t \in RolesOf(a)
           /\ FlowRun \in Granted(a) => FlowRoles \subseteq RolesOf(a)
BY DEF LoopTypeOK, Granted, AvailableTools, DelegateTools, FlowRoles, RolesOf

(* The roles of the visited agent are declared, and its delegates wait or  *)
(* were there before.                                                      *)
LEMMA VisitKeeps ==
    ASSUME LoopInv, NEW p \in frontier, PlanVisit(p[1], p[2])
    PROVE  LoopInv'
<1> DEFINE a == p[1]
           d == p[2]
           next == Delegates(a, d)
<1>0. a \in Agents /\ d \in Nat /\ p = <<a, d>> /\ MaxDepth \in Nat
  BY ToolLoopAssumption DEF LoopInv, LoopTypeOK
<1>1. /\ <<a, d>> \in frontier
      /\ frontier' = (frontier \ {<<a, d>>}) \cup {<<b, d + 1>> : b \in next}
      /\ visited' = visited \cup next
      /\ planned' = planned \cup ((RolesOf(a) \cup next) \cap bound)
      /\ UNCHANGED <<given, stack, budget, chats, marks, late, ended>>
  BY DEF PlanVisit
<1>2. next \subseteq Agents /\ next = IF d >= MaxDepth THEN {} ELSE (Granted(a) \cap Agents) \ visited
  BY DEF Delegates
<1>3. UNCHANGED <<grants, allowed, flow, bound, stack, steps, recoveries, expired, chats, used, heard,
                  taint, late, ended>>
  BY <1>1 DEF given, budget, marks
<1>4. /\ \A b : RolesOf(b)' = RolesOf(b) /\ Granted(b)' = Granted(b)
      /\ Running' = Running
  BY <1>3 DEF RolesOf, Granted, FlowRoles, Running
<1> HIDE DEF a, d, next
<1>5. LoopTypeOK'
  <2>1. frontier' \subseteq Agents \X Nat
    BY <1>0, <1>1, <1>2 DEF LoopInv, LoopTypeOK
  <2>2. visited' \subseteq Agents /\ planned' \subseteq Agents \cup Tools
    BY <1>1, <1>2 DEF LoopInv, LoopTypeOK
  <2> QED BY <1>3, <2>1, <2>2, Zenon DEF LoopInv, LoopTypeOK
<1>6. PlanInv'
  <2> USE DEF LoopInv
  <2>1. (visited \cap bound \subseteq planned)'
    BY <1>1, <1>2, <1>3 DEF PlanInv
  <2>2. ASSUME NEW b \in visited'
        PROVE  (\E n \in Nat : <<b, n>> \in frontier') \/ RolesOf(b) \cap bound \subseteq planned'
    <3>1. CASE b = a
      BY <1>1, <3>1
    <3>2. CASE b \in next
      <4>1. <<b, d + 1>> \in frontier' /\ d + 1 \in Nat
        BY <1>0, <1>1, <3>2
      <4> QED BY <4>1
    <3>3. CASE b \in visited /\ b # a
      <4>1. CASE \E n \in Nat : <<b, n>> \in frontier
        <5>1. PICK n \in Nat : <<b, n>> \in frontier
          BY <4>1
        <5>2. <<b, n>> # <<a, d>>
          BY <3>3
        <5> QED BY <1>1, <5>1, <5>2
      <4> QED BY <1>1, <3>3, <4>1 DEF PlanInv
    <3> QED BY <1>1, <2>2, <3>1, <3>2, <3>3
  <2>3. Root \in visited'
    BY <1>1 DEF PlanInv
  <2>4. <<Root, 0>> \notin frontier'
    <3>1. \A b \in next : <<b, d + 1>> # <<Root, 0>>
      BY <1>0
    <3>2. <<Root, 0>> \in frontier => <<Root, 0>> = <<a, d>>
      BY <1>1 DEF PlanInv
    <3> QED BY <1>1, <3>1, <3>2
  <2>5. ASSUME MaxDepth > 0 PROVE Granted(Root) \cap Agents \subseteq visited'
    <3>1. CASE <<Root, 0>> \in frontier
      <4>1. a = Root /\ d = 0
        BY <1>1, <3>1 DEF PlanInv
      <4> QED BY <1>0, <1>1, <1>2, <2>5, <4>1
    <3>2. CASE <<Root, 0>> \notin frontier
      BY <1>1, <2>5, <3>2 DEF PlanInv
    <3> QED BY <3>1, <3>2
  <2>6. ASSUME MaxDepth > 1, NEW b \in Granted(Root) \cap Agents
        PROVE  <<b, 1>> \in frontier' \/ Granted(b) \cap Agents \subseteq visited'
    <3>0. MaxDepth > 0
      BY <1>0, <2>6
    <3>1. CASE <<Root, 0>> \in frontier
      <4>1. a = Root /\ d = 0 /\ visited = {Root}
        BY <1>1, <3>1 DEF PlanInv
      <4>2. CASE b = Root
        BY <2>5, <3>0, <4>2
      <4>3. CASE b # Root
        <5>1. b \in next /\ d + 1 = 1
          BY <1>0, <1>2, <3>0, <4>1, <4>3
        <5> QED BY <1>1, <5>1
      <4> QED BY <4>2, <4>3
    <3>2. CASE <<Root, 0>> \notin frontier /\ <<b, 1>> = <<a, d>>
      <4>1. next = (Granted(b) \cap Agents) \ visited
        BY <1>0, <1>2, <2>6, <3>2
      <4> QED BY <1>1, <4>1
    <3>3. CASE <<Root, 0>> \notin frontier /\ <<b, 1>> # <<a, d>>
      BY <1>1, <2>6, <3>0, <3>3 DEF PlanInv
    <3> QED BY <3>1, <3>2, <3>3
  <2>7. ended' = "planning"
    BY <1>1, <1>3 DEF PlanInv
  <2> QED BY <1>3, <1>4, <2>1, <2>2, <2>3, <2>4, <2>5, <2>6, <2>7 DEF PlanInv
<1>7. Running' => (StackOK(stack) /\ OnItsWay(Top))'
  BY <1>3, <1>4, Zenon DEF LoopInv, StackOK, GoodFrame, OnItsWay, Top
<1> QED BY <1>3, <1>5, <1>6, <1>7 DEF LoopInv

---------------------------------------------------------------------------
(* What a step does to the stack.                                          *)

\* A frame a step may leave on top: OnItsWay, told of the state after it.
Leaves(f) ==
    /\ f \in Frame /\ GoodFrame(f)
    /\ f.pc = "asked" => steps' > 0
    /\ late' => f.pc = "top" \/ (f.pc = "settling" /\ f.out.kind = "ok")

\* The innermost loop goes on, starts another one, returns to the one above
\* it, or is the turn's own and ends it.
StackMove ==
    \/ \E f \in Frame : /\ Leaves(f) /\ f.agent = Top.agent
                        /\ stack' = Put(f) /\ UNCHANGED ended
    \/ \E f, g \in Frame : /\ GoodFrame(f) /\ f.agent = Top.agent
                           /\ Leaves(g) /\ g.agent \in Granted(Top.agent) /\ Depth < MaxDepth
                           /\ stack' = Append(Put(f), g) /\ UNCHANGED ended
    \/ \E f \in Frame : /\ Depth > 0 /\ Leaves(f) /\ f.agent = Parent.agent
                        /\ stack' = PutParent(f) /\ UNCHANGED ended
    \/ /\ stack' = <<>> /\ ended' \in {"answered", "timed_out", "raised"}
       /\ late' => ended' # "answered"

(* While the turn runs there is an innermost loop, and one above a deeper one. *)
LEMMA StackFacts ==
    ASSUME LoopInv, Running
    PROVE  /\ Len(stack) \in Nat \ {0} /\ Depth \in Nat /\ Depth <= MaxDepth /\ MaxDepth \in Nat
           /\ Top \in Frame /\ GoodFrame(Top) /\ Top.agent \in Agents
           /\ Depth > 0 => Parent \in Frame /\ GoodFrame(Parent)
<1>1. /\ stack \in Seq(Frame) /\ stack # <<>> /\ Len(stack) <= MaxDepth + 1 /\ MaxDepth \in Nat
      /\ \A i \in DOMAIN stack : GoodFrame(stack[i])
  BY ToolLoopAssumption DEF LoopInv, LoopTypeOK, StackOK
<1>2. Len(stack) \in Nat \ {0} /\ Depth \in Nat /\ Depth <= MaxDepth
  BY <1>1 DEF Depth
<1>3. Top \in Frame /\ GoodFrame(Top)
  BY <1>1, <1>2 DEF Top
<1>4. Depth > 0 => Parent \in Frame /\ GoodFrame(Parent)
  BY <1>1, <1>2 DEF Parent, Depth
<1> QED BY <1>1, <1>2, <1>3, <1>4 DEF Frame

(* A move leaves a stack of delegations and what is on its top.            *)
LEMMA MoveKeepsStack ==
    ASSUME LoopInv, Running, StackMove, UNCHANGED given
    PROVE  /\ stack' \in Seq(Frame) /\ Len(stack') <= MaxDepth + 1
           /\ Running' => StackOK(stack)' /\ OnItsWay(Top)'
<1> DEFINE n == Len(stack)
<1>0. /\ stack \in Seq(Frame) /\ n \in Nat \ {0} /\ n <= MaxDepth + 1 /\ MaxDepth \in Nat
      /\ StackOK(stack) /\ Top = stack[n] /\ Depth = n - 1
  BY StackFacts DEF LoopInv, LoopTypeOK, Top, Depth
<1>1. \A f : GoodFrame(f)' <=> GoodFrame(f)
  BY DEF GoodFrame, Granted, given
<1>2. \A b : Granted(b)' = Granted(b)
  BY DEF Granted, given
<1>3. ASSUME NEW f \in Frame, GoodFrame(f), f.agent = Top.agent
      PROVE  /\ Put(f) \in Seq(Frame) /\ Len(Put(f)) = n /\ Put(f)[n] = f
             /\ Put(f)[1].agent = Root
             /\ \A i \in 1..n : GoodFrame(Put(f)[i]) /\ Put(f)[i].agent = stack[i].agent
  BY <1>0, <1>3 DEF Put, StackOK
<1>4. ASSUME NEW f \in Frame, Leaves(f), f.agent = Top.agent, stack' = Put(f)
      PROVE  /\ stack' \in Seq(Frame) /\ Len(stack') <= MaxDepth + 1
             /\ StackOK(stack)' /\ OnItsWay(Top)'
  <2>1. /\ stack' \in Seq(Frame) /\ Len(stack') = n /\ stack'[n] = f /\ stack'[1].agent = Root
        /\ \A i \in 1..n : GoodFrame(stack'[i]) /\ stack'[i].agent = stack[i].agent
    BY <1>3, <1>4 DEF Leaves
  <2>2. StackOK(stack)'
    BY <1>0, <1>1, <1>2, <2>1 DEF StackOK
  <2>3. Top' = f
    BY <2>1 DEF Top
  <2> QED BY <1>0, <1>4, <2>1, <2>2, <2>3 DEF OnItsWay, Leaves
<1>5. ASSUME NEW f \in Frame, NEW g \in Frame, GoodFrame(f), f.agent = Top.agent, Leaves(g),
             g.agent \in Granted(Top.agent), Depth < MaxDepth, stack' = Append(Put(f), g)
      PROVE  /\ stack' \in Seq(Frame) /\ Len(stack') <= MaxDepth + 1
             /\ StackOK(stack)' /\ OnItsWay(Top)'
  <2>1. /\ Put(f) \in Seq(Frame) /\ Len(Put(f)) = n /\ Put(f)[1].agent = Root
        /\ \A i \in 1..n : GoodFrame(Put(f)[i]) /\ Put(f)[i].agent = stack[i].agent
    BY <1>3, <1>5
  <2>2. /\ stack' \in Seq(Frame) /\ Len(stack') = n + 1 /\ stack'[n + 1] = g
        /\ \A i \in 1..n : stack'[i] = Put(f)[i]
    BY <1>0, <1>5, <2>1
  <2>3. StackOK(stack)'
    <3>1. stack' # <<>> /\ stack'[1].agent = Root
      BY <1>0, <2>1, <2>2
    <3>2. \A i \in 1..(n + 1) : GoodFrame(stack'[i])
      BY <1>0, <1>5, <2>1, <2>2 DEF Leaves
    <3>3. \A i \in 2..(n + 1) : stack'[i].agent \in Granted(stack'[i - 1].agent)
      BY <1>0, <1>5, <2>1, <2>2 DEF StackOK
    <3> QED BY <1>1, <1>2, <2>2, <3>1, <3>2, <3>3 DEF StackOK
  <2>4. Top' = g
    BY <2>2 DEF Top
  <2> QED BY <1>0, <1>5, <2>2, <2>3, <2>4 DEF OnItsWay, Leaves
<1>6. ASSUME NEW f \in Frame, Depth > 0, Leaves(f), f.agent = Parent.agent, stack' = PutParent(f)
      PROVE  /\ stack' \in Seq(Frame) /\ Len(stack') <= MaxDepth + 1
             /\ StackOK(stack)' /\ OnItsWay(Top)'
  <2>1. /\ stack' \in Seq(Frame) /\ Len(stack') = n - 1 /\ stack'[n - 1] = f
        /\ \A i \in 1..(n - 2) : stack'[i] = stack[i]
    BY <1>0, <1>6 DEF PutParent
  <2>2. n - 1 \in 1..n /\ f.agent = stack[n - 1].agent /\ GoodFrame(f)
    BY <1>0, <1>6 DEF Parent, Leaves
  <2>3. StackOK(stack)'
    <3>1. \A i \in 1..(n - 1) : stack'[i].agent = stack[i].agent /\ (i # n - 1 => stack'[i] = stack[i])
      BY <1>0, <2>1, <2>2
    <3>2. stack' # <<>> /\ stack'[1].agent = Root
      BY <1>0, <1>6, <2>1, <3>1 DEF StackOK
    <3>3. \A i \in 1..(n - 1) : GoodFrame(stack'[i])
      BY <1>0, <2>1, <2>2, <3>1 DEF StackOK
    <3>4. \A i \in 2..(n - 1) : stack'[i].agent \in Granted(stack'[i - 1].agent)
      <4> TAKE i \in 2..(n - 1)
      <4>1. i \in 1..(n - 1) /\ i - 1 \in 1..(n - 1) /\ i \in 2..n
        BY <1>0
      <4>2. stack'[i].agent = stack[i].agent /\ stack'[i - 1].agent = stack[i - 1].agent
        BY <3>1, <4>1
      <4>3. stack[i].agent \in Granted(stack[i - 1].agent)
        BY <1>0, <4>1, Zenon DEF StackOK
      <4> QED BY <4>2, <4>3
    <3>5. stack' \in Seq(Frame) /\ Len(stack') = n - 1 /\ DOMAIN stack' = 1..(n - 1)
      BY <2>1
    <3> QED BY <1>1, <1>2, <3>2, <3>3, <3>4, <3>5 DEF StackOK
  <2>4. Top' = f
    BY <2>1 DEF Top
  <2> QED BY <1>0, <1>6, <2>1, <2>3, <2>4 DEF OnItsWay, Leaves
<1>7. ASSUME stack' = <<>>, ended' \in {"answered", "timed_out", "raised"}
      PROVE  stack' \in Seq(Frame) /\ Len(stack') <= MaxDepth + 1 /\ ~Running'
  BY <1>0, <1>7 DEF Running
<1> QED BY <1>4, <1>5, <1>6, <1>7 DEF StackMove


(* A call that has its result keeps the loop it belongs to.                *)
LEMMA SettlingFrame ==
    ASSUME NEW f \in Frame, GoodFrame(f), NEW how \in ToolOutcomes, NEW arts \in SUBSET Tools
    PROVE  /\ Settling(f, how, arts) \in Frame /\ GoodFrame(Settling(f, how, arts))
           /\ Settling(f, how, arts).agent = f.agent
           /\ Settling(f, how, arts).pc = "settling"
           /\ Settling(f, how, arts).out = [kind |-> how, arts |-> arts]
<1>1. [kind |-> how, arts |-> arts] \in ToolOutcome
  BY DEF ToolOutcome
<1> QED BY <1>1 DEF Settling, Frame, GoodFrame

(* It may be left on top, after a timeout further down only if it reads well. *)
LEMMA SettlingLeaves ==
    ASSUME NEW f \in Frame, GoodFrame(f), NEW how \in ToolOutcomes, NEW arts \in SUBSET Tools,
           late' => how = "ok"
    PROVE  /\ Settling(f, how, arts) \in Frame /\ Leaves(Settling(f, how, arts))
           /\ Settling(f, how, arts).agent = f.agent
<1> DEFINE g == Settling(f, how, arts)
<1>1. /\ g \in Frame /\ GoodFrame(g) /\ g.agent = f.agent /\ g.pc = "settling"
      /\ g.out = [kind |-> how, arts |-> arts]
  BY SettlingFrame
<1> HIDE DEF g
<1>2. Leaves(g)
  BY <1>1 DEF Leaves
<1> QED BY <1>1, <1>2 DEF g

(* A loop begins with what it is offered.                                  *)
LEMMA NewFrames ==
    ASSUME LoopTypeOK, NEW a \in Agents, NEW offered \in SUBSET Granted(a)
    PROVE  /\ NewFrame(a, offered) \in Frame /\ GoodFrame(NewFrame(a, offered))
           /\ NewFrame(a, offered).agent = a /\ NewFrame(a, offered).pc = "top"
<1>1. offered \subseteq Keys /\ FlowRun \in Keys
  BY KeysAndRoles DEF Keys
<1>2. NoOutcome \in ToolOutcome
  BY DEF NoOutcome, ToolOutcome, ToolOutcomes
<1> QED BY <1>1, <1>2 DEF NewFrame, Frame, GoodFrame

(* While a model is asked or a tool runs no loop has run out of time.      *)
LEMMA BusyIsEarly ==
    ASSUME LoopInv, NEW pc, At(pc)
    PROVE  /\ Running /\ Top.pc = pc
           /\ late => pc = "top" \/ (pc = "settling" /\ Top.out.kind = "ok")
           /\ pc = "asked" => steps > 0
BY DEF LoopInv, At, OnItsWay

(* A loop returns.                                                         *)
LEMMA ReturnMoves ==
    ASSUME LoopInv, Running, NEW how \in {"answered", "timed_out"}, Returns(how),
           late' => how # "answered"
    PROVE  StackMove
<1>1. CASE Depth = 0
  BY <1>1 DEF Returns, StackMove
<1>2. CASE Depth # 0
  <2>1. Depth > 0 /\ Parent \in Frame /\ GoodFrame(Parent) /\ Top.arts \in SUBSET Tools
    BY <1>2, StackFacts DEF Frame
  <2>2. "ok" \in ToolOutcomes
    BY DEF ToolOutcomes
  <2>3. PICK f : f = Settling(Parent, "ok", Top.arts)
    OBVIOUS
  <2>4. f \in Frame /\ Leaves(f) /\ f.agent = Parent.agent
    BY <2>1, <2>2, <2>3, SettlingLeaves
  <2>5. stack' = PutParent(f) /\ UNCHANGED ended
    BY <1>2, <2>3 DEF Returns
  <2> QED BY <2>1, <2>4, <2>5 DEF StackMove
<1> QED BY <1>1, <1>2

(* The innermost call has its result.                                      *)
LEMMA SettlingMoves ==
    ASSUME LoopInv, Running, NEW how \in ToolOutcomes, NEW arts \in SUBSET Tools,
           stack' = Put(Settling(Top, how, arts)), UNCHANGED ended, late' => how = "ok"
    PROVE  StackMove
<1>0. Top \in Frame /\ GoodFrame(Top)
  BY StackFacts
<1>1. PICK f : f = Settling(Top, how, arts)
  OBVIOUS
<1>2. f \in Frame /\ Leaves(f) /\ f.agent = Top.agent
  BY <1>1, <1>0, SettlingLeaves
<1> QED BY <1>1, <1>2 DEF StackMove

(* The innermost loop goes on.                                             *)
LEMMA TopMoves ==
    ASSUME NEW f, f \in Frame, Leaves(f), f.agent = Top.agent, stack' = Put(f), UNCHANGED ended
    PROVE  StackMove
BY DEF StackMove

\* What a step of a loop leaves of the rest: the budget, the marks, the deadline.
RestMove ==
    /\ UNCHANGED <<given, plan>>
    /\ steps' \in 0..MaxSteps /\ recoveries' \in 0..1 /\ chats' \in Nat
    /\ {expired', late'} \subseteq BOOLEAN /\ (late' => expired')
    /\ used' \subseteq Agents \cup Tools /\ heard' \subseteq Tools /\ taint' \subseteq Tools

(* Asking the model, and its answers.                                      *)
LEMMA AskMoves ==
    ASSUME LoopInv,
           \/ OutOfTime \/ OutOfSteps \/ AskModel \/ ModelRaises \/ ModelAnswers
           \/ \E k \in Keys : ModelCalls(k)
    PROVE  StackMove /\ RestMove /\ Running
<1>0. /\ UNCHANGED <<given, plan, used, heard, taint, expired, recoveries>>
      /\ Running /\ (\A pc : At(pc) => Top.pc = pc)
      /\ LoopTypeOK /\ MaxSteps \in Nat \ {0} /\ (late => expired)
      /\ {"ok", "error", "refused"} = ToolOutcomes /\ {} \in SUBSET Tools
  <2>1. /\ UNCHANGED <<given, plan, used, heard, taint, expired, recoveries>>
        /\ Running
    <3>1. ASSUME NEW k \in Keys, ModelCalls(k)
          PROVE  UNCHANGED <<given, plan, used, heard, taint, expired, recoveries>> /\ Running
      BY <3>1, Zenon DEF ModelCalls, At, marks
    <3> QED BY <3>1 DEF OutOfTime, OutOfSteps, AskModel, ModelRaises, ModelAnswers, At, budget, marks
  <2> QED BY <2>1, ToolLoopAssumption DEF At, LoopInv, ToolOutcomes, Failed
<1>1. Top \in Frame /\ GoodFrame(Top)
  BY <1>0, StackFacts
<1>2. CASE OutOfTime
  <2>1. expired /\ late' = TRUE /\ UNCHANGED <<steps, chats>> /\ Returns("timed_out")
    BY <1>2 DEF OutOfTime, budget
  <2> QED BY <1>0, <2>1, ReturnMoves DEF RestMove, LoopTypeOK
<1>3. CASE OutOfSteps
  <2>1. ~expired /\ UNCHANGED <<steps, chats, late>> /\ Returns("answered")
    BY <1>3 DEF OutOfSteps, budget
  <2> QED BY <1>0, <2>1, ReturnMoves DEF RestMove, LoopTypeOK
<1>4. CASE AskModel
  <2>1. /\ ~expired /\ steps # 0 /\ UNCHANGED <<steps, chats, late, ended>>
        /\ stack' = Put([Top EXCEPT !.pc = "asked"])
    BY <1>4 DEF AskModel, budget, Exhausted
  <2>2. /\ [Top EXCEPT !.pc = "asked"] \in Frame /\ GoodFrame([Top EXCEPT !.pc = "asked"])
        /\ [Top EXCEPT !.pc = "asked"].agent = Top.agent
    BY <1>1 DEF Frame, GoodFrame
  <2>3. steps' > 0 /\ ~late'
    BY <1>0, <2>1 DEF LoopTypeOK
  <2>4. StackMove
    BY <2>1, <2>2, <2>3, TopMoves DEF Leaves
  <2> QED BY <1>0, <2>1, <2>4 DEF RestMove, LoopTypeOK
<1>5. CASE ModelRaises
  <2>0. ~late /\ UNCHANGED <<steps, chats>> /\ Running
    BY <1>5, BusyIsEarly DEF ModelRaises, budget
  <2>1. CASE expired
    <3>1. late' = TRUE /\ Returns("timed_out")
      BY <1>5, <2>1 DEF ModelRaises
    <3> QED BY <1>0, <2>0, <2>1, <3>1, ReturnMoves DEF RestMove, LoopTypeOK
  <2>2. CASE ~expired /\ Depth = 0
    <3>1. UNCHANGED late /\ stack' = <<>> /\ ended' = "raised"
      BY <1>5, <2>2 DEF ModelRaises
    <3> QED BY <1>0, <2>0, <2>2, <3>1 DEF RestMove, LoopTypeOK, StackMove
  <2>3. CASE ~expired /\ Depth # 0
    <3>1. UNCHANGED late /\ stack' = PutParent(Settling(Parent, "error", {})) /\ UNCHANGED ended
      BY <1>5, <2>3 DEF ModelRaises
    <3>2. Depth > 0 /\ Parent \in Frame /\ GoodFrame(Parent)
      BY <1>0, <2>3, StackFacts
    <3>3. PICK f : f = Settling(Parent, "error", {})
      OBVIOUS
    <3>4. f \in Frame /\ Leaves(f) /\ f.agent = Parent.agent
      BY <1>0, <2>0, <3>1, <3>2, <3>3, SettlingLeaves
    <3>5. StackMove
      BY <3>1, <3>2, <3>3, <3>4 DEF StackMove
    <3> QED BY <1>0, <2>0, <2>3, <3>1, <3>5 DEF RestMove, LoopTypeOK
  <2> QED BY <2>1, <2>2, <2>3
<1>6. CASE ModelAnswers
  <2>1. steps' = steps - 1 /\ chats' = chats + 1 /\ UNCHANGED late /\ Returns("answered")
    BY <1>6 DEF ModelAnswers
  <2>2. ~late /\ steps > 0
    BY <1>6, BusyIsEarly DEF ModelAnswers
  <2>3. steps' \in 0..MaxSteps /\ chats' \in Nat
    BY <1>0, <2>1, <2>2 DEF LoopTypeOK
  <2> QED BY <1>0, <2>1, <2>2, <2>3, ReturnMoves DEF RestMove, LoopTypeOK
<1>7. ASSUME NEW k \in Keys, ModelCalls(k) PROVE StackMove /\ RestMove /\ Running
  <2>1. steps' = steps - 1 /\ chats' = chats + 1
    BY <1>7, Zenon DEF ModelCalls
  <2>2. ~late /\ steps > 0
    <3>1. At("asked")
      BY <1>7, Zenon DEF ModelCalls
    <3> QED BY <3>1, BusyIsEarly
  <2>3. steps' \in 0..MaxSteps /\ chats' \in Nat
    BY <1>0, <2>1, <2>2 DEF LoopTypeOK
  <2>4. CASE expired
    <3>1. late' = TRUE /\ Returns("timed_out")
      BY <1>7, <2>4, Zenon DEF ModelCalls
    <3> QED BY <1>0, <2>3, <2>4, <3>1, ReturnMoves DEF RestMove, LoopTypeOK
  <2>5. CASE ~expired
    <3>1. /\ UNCHANGED <<late, ended>>
          /\ stack' = Put(IF k \in Top.offered THEN [Top EXCEPT !.pc = "calling", !.key = k]
                          ELSE Settling([Top EXCEPT !.key = k], "error", {}))
      BY <1>7, <2>5, Zenon DEF ModelCalls
    <3>2. ASSUME k \in Top.offered PROVE StackMove
      <4>1. PICK f : f = [Top EXCEPT !.pc = "calling", !.key = k]
        OBVIOUS
      <4>2. f \in Frame /\ f.agent = Top.agent /\ f.pc = "calling" /\ f.key = k /\ f.offered = Top.offered
        BY <1>1, <4>1 DEF Frame
      <4>3. Leaves(f)
        BY <1>1, <2>2, <3>1, <3>2, <4>2 DEF Leaves, GoodFrame
      <4>4. stack' = Put(f) /\ UNCHANGED ended
        BY <3>1, <3>2, <4>1, Zenon
      <4> QED BY <4>2, <4>3, <4>4, TopMoves
    <3>3. ASSUME k \notin Top.offered PROVE StackMove
      <4>1. PICK g : g = [Top EXCEPT !.key = k]
        OBVIOUS
      <4>0. Top.pc = "asked"
        BY <1>7, Zenon DEF ModelCalls, At
      <4>2. /\ g \in Frame /\ g.agent = Top.agent /\ g.offered = Top.offered
            /\ g.pc = "asked"
        BY <1>1, <1>7, <4>0, <4>1 DEF Frame
      <4>3. GoodFrame(g)
        BY <1>1, <4>2 DEF GoodFrame
      <4>4. PICK f : f = Settling(g, "error", {})
        OBVIOUS
      <4>5. f \in Frame /\ Leaves(f) /\ f.agent = Top.agent
        BY <1>0, <2>2, <3>1, <4>2, <4>3, <4>4, SettlingLeaves
      <4>6. stack' = Put(f) /\ UNCHANGED ended
        BY <3>1, <3>3, <4>1, <4>4, Zenon
      <4> QED BY <4>5, <4>6, TopMoves
    <3>4. StackMove
      BY <3>2, <3>3
    <3> QED BY <1>0, <2>2, <2>3, <3>1, <3>4 DEF RestMove, LoopTypeOK
  <2> QED BY <2>4, <2>5
<1> QED BY <1>0, <1>2, <1>3, <1>4, <1>5, <1>6, <1>7

(* Running what the model named.                                           *)
LEMMA InvokeMoves ==
    ASSUME LoopInv, Invoking
    PROVE  StackMove /\ RestMove /\ Running
<1>0. /\ UNCHANGED <<given, plan, steps, recoveries, expired, chats, taint, late>>
      /\ Running
      /\ ~late
  <2>1. UNCHANGED <<given, plan, steps, recoveries, expired, chats, taint, late>>
    BY Zenon DEF Invoking, CallPlain, BadArguments, RefuseDelegation, Delegate, BeginFlow,
       FlowDegrades, FlowStep, FlowFinishes, budget, marks
  <2>2. At("calling") \/ At("flow")
    BY Zenon DEF Invoking, CallPlain, BadArguments, RefuseDelegation, Delegate, BeginFlow,
       FlowDegrades, FlowStep, FlowFinishes
  <2> QED BY <2>1, <2>2, BusyIsEarly
<1>1. Top \in Frame /\ GoodFrame(Top) /\ Top.agent \in Agents /\ LoopTypeOK
  BY <1>0, StackFacts DEF LoopInv
<1>2. {"ok", "error", "refused"} = ToolOutcomes /\ {} \in SUBSET Tools /\ Top.got \in SUBSET Tools
  BY <1>1 DEF ToolOutcomes, Failed, Frame
<1>3. ASSUME used' \subseteq Agents \cup Tools, heard' \subseteq Tools PROVE RestMove
  BY <1>0, <1>1, <1>3 DEF RestMove, LoopTypeOK, LoopInv
<1>4. ASSUME NEW how \in ToolOutcomes, NEW arts \in SUBSET Tools,
             stack' = Put(Settling(Top, how, arts)), UNCHANGED ended
      PROVE  StackMove
  BY <1>0, <1>4, SettlingMoves
<1>5. used \subseteq Agents \cup Tools /\ heard \subseteq Tools
  BY <1>1 DEF LoopTypeOK
<1>6. \A t \in Tools : \A o \in RunnerOutcomes(t) : o.kind \in ToolOutcomes /\ o.arts \in SUBSET Tools
  BY DEF RunnerOutcomes
<1>7. ASSUME NEW t \in Tools, CallPlain(t) PROVE StackMove /\ RestMove
  <2>1. PICK o \in RunnerOutcomes(t) : stack' = Put(Settling(Top, o.kind, o.arts))
    BY <1>7 DEF CallPlain
  <2>2. UNCHANGED <<heard, ended>> /\ used' = used \cup {t}
    BY <1>7 DEF CallPlain
  <2>3. StackMove
    BY <1>4, <1>6, <2>1, <2>2
  <2> QED BY <1>3, <1>5, <2>2, <2>3
<1>8. ASSUME BadArguments \/ \E a \in Agents : RefuseDelegation(a) PROVE StackMove /\ RestMove
  <2>1. UNCHANGED <<used, heard, ended>>
    BY <1>8 DEF BadArguments, RefuseDelegation, marks
  <2>2. PICK how \in {"error", "refused"} : stack' = Put(Settling(Top, how, {}))
    BY <1>8 DEF BadArguments, RefuseDelegation
  <2>3. StackMove
    BY <1>2, <1>4, <2>1, <2>2
  <2> QED BY <1>3, <1>5, <2>1, <2>3
<1>9. ASSUME NEW a \in Agents, Delegate(a) PROVE StackMove /\ RestMove
  <2>1. UNCHANGED <<heard, ended>> /\ used' = used \cup {a}
    BY <1>9 DEF Delegate
  <2>2. RestMove
    BY <1>3, <1>5, <2>1
  <2>3. CASE stack' = Put(Settling(Top, "ok", {}))
    BY <1>2, <1>4, <2>1, <2>2, <2>3
  <2>4. CASE stack' = Append(Put([Top EXCEPT !.pc = "delegated"]), NewFrame(a, DelegateTools(a)))
    <3>1. PICK f, g : f = [Top EXCEPT !.pc = "delegated"] /\ g = NewFrame(a, DelegateTools(a))
      OBVIOUS
    <3>2. Top.pc = "calling" /\ Top.key = a /\ Depth < MaxDepth
      <4>1. Top.pc = "calling" /\ Top.key = a /\ ~(Depth >= MaxDepth)
        BY <1>9 DEF Delegate, At, CannotDelegate
      <4> QED BY <1>0, <4>1, StackFacts
    <3>3. a \in Granted(Top.agent)
      BY <1>1, <3>2 DEF GoodFrame
    <3>4. f \in Frame /\ f.agent = Top.agent /\ GoodFrame(f)
      <4>1. f \in Frame /\ f.agent = Top.agent /\ f.offered = Top.offered /\ f.key = Top.key /\ f.pc = "delegated"
        BY <1>1, <3>1 DEF Frame
      <4> QED BY <1>1, <3>2, <3>3, <4>1 DEF GoodFrame
    <3>5. g \in Frame /\ g.agent = a /\ GoodFrame(g) /\ g.pc = "top"
      BY <1>1, <3>1, KeysAndRoles, NewFrames
    <3>6. Leaves(g)
      BY <3>5 DEF Leaves
    <3>7. StackMove
      BY <2>1, <2>4, <3>1, <3>2, <3>3, <3>4, <3>5, <3>6 DEF StackMove
    <3> QED BY <2>2, <3>7
  <2> QED BY <1>9, <2>3, <2>4 DEF Delegate
<1>10. ASSUME BeginFlow PROVE StackMove /\ RestMove
  <2>1. /\ UNCHANGED <<used, heard, ended>> /\ Top.pc = "calling" /\ Top.key = FlowRun
        /\ stack' = Put([Top EXCEPT !.pc = "flow", !.step = 1, !.got = {}])
    BY <1>10 DEF BeginFlow, marks, At
  <2>2. PICK f : f = [Top EXCEPT !.pc = "flow", !.step = 1, !.got = {}]
    OBVIOUS
  <2>3. /\ f \in Frame /\ f.agent = Top.agent /\ f.offered = Top.offered /\ f.key = Top.key
        /\ f.pc = "flow" /\ f.step = 1
    BY <1>1, <2>2 DEF Frame
  <2>4. Leaves(f)
    BY <1>0, <1>1, <2>1, <2>3 DEF Leaves, GoodFrame
  <2>5. StackMove
    BY <2>1, <2>2, <2>3, <2>4, TopMoves
  <2> QED BY <1>3, <1>5, <2>1, <2>5
<1>11. ASSUME FlowDegrades \/ FlowFinishes PROVE StackMove /\ RestMove
  <2>1. /\ UNCHANGED <<used, ended>> /\ heard' \subseteq heard \cup Top.got
        /\ stack' = Put(Settling(Top, "ok", Top.got))
    BY <1>11 DEF FlowDegrades, FlowFinishes, marks
  <2>2. StackMove
    BY <1>2, <1>4, <2>1
  <2>3. heard' \subseteq Tools /\ used' \subseteq Agents \cup Tools
    BY <1>2, <1>5, <2>1
  <2> QED BY <1>3, <2>2, <2>3
<1>12. ASSUME FlowStep PROVE StackMove /\ RestMove
  <2>0. PICK t : t = flow[Top.step]
    OBVIOUS
  <2>1. /\ UNCHANGED <<heard, ended>> /\ Top.pc = "flow" /\ ~FlowDone
        /\ \/ stack' = Put(Settling(Top, "refused", {})) /\ UNCHANGED used
           \/ /\ used' = used \cup {t}
              /\ \E o \in RunnerOutcomes(t) :
                    stack' = Put(IF o.kind \in Failed THEN Settling(Top, o.kind, {})
                                 ELSE [Top EXCEPT !.step = @ + 1, !.got = @ \cup o.arts])
    <3>1. UNCHANGED <<heard, ended>> /\ At("flow") /\ ~FlowDone
      BY <1>12, Zenon DEF FlowStep
    <3>2. \/ stack' = Put(Settling(Top, "refused", {})) /\ UNCHANGED used
          \/ /\ used' = used \cup {t}
             /\ \E o \in RunnerOutcomes(t) :
                   stack' = Put(IF o.kind \in Failed THEN Settling(Top, o.kind, {})
                                ELSE [Top EXCEPT !.step = @ + 1, !.got = @ \cup o.arts])
      BY <1>12, <2>0, Zenon DEF FlowStep
    <3> QED BY <3>1, <3>2, Zenon DEF At
  <2>2. t \in Tools
    <3>1. Top.step \in Nat /\ Top.step > 0 /\ flow \in Seq(Tools)
      BY <1>1, <2>1 DEF Frame, GoodFrame, LoopTypeOK
    <3>2. ~(Top.step > Len(flow))
      BY <2>1, Zenon DEF FlowDone
    <3>3. Top.step <= Len(flow)
      BY <3>1, <3>2
    <3> QED BY <2>0, <3>1, <3>3
  <2>3. CASE stack' = Put(Settling(Top, "refused", {})) /\ UNCHANGED used
    BY <1>2, <1>3, <1>4, <1>5, <2>1, <2>3
  <2>4. ASSUME NEW o \in RunnerOutcomes(t), used' = used \cup {t}, o.kind \in Failed,
               stack' = Put(Settling(Top, o.kind, {}))
        PROVE  StackMove /\ RestMove
    <3>1. StackMove
      BY <1>2, <1>4, <1>6, <2>1, <2>2, <2>4
    <3> QED BY <1>3, <1>5, <2>1, <2>2, <2>4, <3>1
  <2>5. ASSUME NEW o \in RunnerOutcomes(t), used' = used \cup {t},
               stack' = Put([Top EXCEPT !.step = @ + 1, !.got = @ \cup o.arts])
        PROVE  StackMove /\ RestMove
    <3>1. PICK f : f = [Top EXCEPT !.step = @ + 1, !.got = @ \cup o.arts]
      OBVIOUS
    <3>2. Top.step + 1 \in Nat /\ Top.step + 1 > 0 /\ Top.got \cup o.arts \subseteq Tools
      BY <1>1, <1>2, <1>6, <2>2 DEF Frame
    <3>3. /\ f \in Frame /\ f.agent = Top.agent /\ f.offered = Top.offered /\ f.key = Top.key
          /\ f.pc = "flow" /\ f.step = Top.step + 1
      BY <1>1, <2>1, <3>1, <3>2 DEF Frame
    <3>4. Leaves(f)
      BY <1>0, <1>1, <2>1, <3>2, <3>3 DEF Leaves, GoodFrame
    <3>5. StackMove
      BY <2>1, <2>5, <3>1, <3>3, <3>4, TopMoves
    <3> QED BY <1>3, <1>5, <2>1, <2>2, <2>5, <3>5
  <2> QED BY <2>1, <2>3, <2>4, <2>5
<1> QED BY <1>0, <1>7, <1>8, <1>9, <1>10, <1>11, <1>12 DEF Invoking

(* A result is settled: a row, a repair or the end of the loop.            *)
LEMMA SettleMoves ==
    ASSUME LoopInv, Settle
    PROVE  StackMove /\ RestMove /\ Running
<1> DEFINE o == Top.out
<1>0. At("settling") /\ UNCHANGED <<given, plan, steps, expired, chats, used, late>>
  BY Zenon DEF Settle
<1>1. Running /\ Top.pc = "settling" /\ (late => o.kind = "ok") /\ LoopTypeOK
  BY <1>0, BusyIsEarly DEF LoopInv
<1>2. Top \in Frame /\ GoodFrame(Top)
  BY <1>1, StackFacts
<1>3. o.arts \in SUBSET Tools /\ o.kind \in ToolOutcomes
  BY <1>2 DEF Frame, ToolOutcome
<1>4. taint' = taint \cup o.arts /\ heard' = heard \cup o.arts
  BY Zenon DEF Settle
<1>5. recoveries' \in 0..1 => RestMove
  BY <1>0, <1>1, <1>3, <1>4 DEF RestMove, LoopTypeOK, LoopInv
<1>6. CASE o.kind \in Failed /\ recoveries = 0
  <2>1. Returns("answered") /\ UNCHANGED recoveries
    BY <1>6, Zenon DEF Settle
  <2>2. ~late'
    BY <1>0, <1>1, <1>6 DEF Failed
  <2> QED BY <1>1, <1>5, <2>1, <2>2, ReturnMoves DEF LoopTypeOK
<1>7. CASE ~(o.kind \in Failed /\ recoveries = 0)
  <2>0. PICK f : f = [Top EXCEPT !.pc = "top", !.arts = Top.arts \cup o.arts, !.key = FlowRun,
                                 !.out = NoOutcome, !.step = 0, !.got = {},
                                 !.offered = IF o.kind = "refused" THEN Top.offered \ {Top.key}
                                             ELSE Top.offered]
    OBVIOUS
  <2>1. stack' = Put(f) /\ UNCHANGED ended
    BY <1>7, <2>0 DEF Settle
  <2>2. recoveries' = recoveries - (IF o.kind \in Failed THEN 1 ELSE 0)
    BY <1>7, Zenon DEF Settle
  <2>3. recoveries' \in 0..1
    BY <1>1, <1>7, <2>2 DEF LoopTypeOK
  <2>4. /\ f \in Frame /\ f.agent = Top.agent /\ f.pc = "top" /\ f.offered \subseteq Top.offered
    <3>1. NoOutcome \in ToolOutcome /\ FlowRun \in Keys
      BY DEF NoOutcome, ToolOutcome, ToolOutcomes, Keys
    <3> QED BY <1>2, <1>3, <2>0, <3>1 DEF Frame
  <2>5. Leaves(f)
    BY <1>2, <2>4 DEF Leaves, GoodFrame
  <2> QED BY <1>1, <1>5, <2>1, <2>3, <2>4, <2>5, TopMoves
<1> QED BY <1>6, <1>7

(* Every step of the planner and of the loops keeps the invariant.         *)
LEMMA LoopInvStep == LoopInv /\ [LoopNext]_loopVars => LoopInv'
<1> SUFFICES ASSUME LoopInv, [LoopNext]_loopVars PROVE LoopInv'
  OBVIOUS
<1>1. ASSUME Planning PROVE LoopInv'
  BY <1>1, VisitKeeps DEF Planning
<1>2. ASSUME LoopStep PROVE LoopInv'
  <2>1. StackMove /\ RestMove /\ Running
    BY <1>2, AskMoves, InvokeMoves, SettleMoves DEF LoopStep
  <2>2. UNCHANGED given /\ UNCHANGED <<grants, allowed, flow, bound, frontier, visited, planned>>
    BY <2>1 DEF RestMove, given, plan
  <2>3. /\ stack' \in Seq(Frame) /\ Len(stack') <= MaxDepth + 1
        /\ Running' => StackOK(stack)' /\ OnItsWay(Top)'
    BY <2>1, <2>2, MoveKeepsStack
  <2>4. /\ ended' \in {"running", "answered", "timed_out", "raised"}
        /\ late' => ended' # "answered"
    BY <2>1, Zenon DEF StackMove, Running
  <2>5. LoopTypeOK'
    BY <2>1, <2>2, <2>3, <2>4 DEF LoopInv, LoopTypeOK, RestMove
  <2>6. frontier = {}
    BY <2>1 DEF LoopInv, PlanInv, Running
  <2>7. PlanInv'
    BY <2>2, <2>6 DEF LoopInv, PlanInv, RolesOf, Granted, FlowRoles
  <2>8. late' => expired'
    BY <2>1 DEF RestMove
  <2> QED BY <2>3, <2>4, <2>5, <2>7, <2>8 DEF LoopInv
<1>3. ASSUME BeginLoop PROVE LoopInv'
  <2>1. /\ ended = "planning" /\ frontier = {} /\ used' = used \cup {Root}
        /\ UNCHANGED <<given, plan, budget, chats, heard, taint, late>>
    BY <1>3 DEF BeginLoop
  <2>2. UNCHANGED <<grants, allowed, flow, bound, frontier, visited, planned, steps, recoveries,
                    expired, chats, heard, taint, late>>
    BY <2>1 DEF given, plan, budget
  <2>3. ~late /\ LoopTypeOK /\ Root \in Agents /\ MaxDepth \in Nat /\ stack = stack
    BY <2>1, ToolLoopAssumption DEF LoopInv
  <2>4. PICK f : f = NewFrame(Root, AvailableTools(Root))
    OBVIOUS
  <2>5. f \in Frame /\ GoodFrame(f) /\ f.agent = Root /\ f.pc = "top"
    BY <2>3, <2>4, KeysAndRoles, NewFrames
  <2>6. PlanInv'
    BY <2>1, <2>2 DEF LoopInv, PlanInv, RolesOf, Granted, FlowRoles
  <2>7. CASE ended' = "running" /\ stack' = <<f>>
    <3>1. stack' \in Seq(Frame) /\ Len(stack') = 1 /\ stack'[1] = f
      BY <2>5, <2>7
    <3>2. LoopTypeOK'
      BY <2>1, <2>2, <2>3, <2>7, <3>1 DEF LoopTypeOK
    <3>3. Top' = f
      BY <3>1 DEF Top
    <3>4. \A g : GoodFrame(g)' <=> GoodFrame(g)
      BY <2>2 DEF GoodFrame, Granted
    <3>5. StackOK(stack)'
      BY <2>5, <3>1, <3>4 DEF StackOK
    <3>6. OnItsWay(Top)'
      BY <2>2, <2>3, <2>5, <3>3 DEF OnItsWay
    <3> QED BY <2>2, <2>3, <2>6, <3>2, <3>5, <3>6 DEF LoopInv
  <2>8. CASE ended' = "answered" /\ UNCHANGED stack
    <3>1. LoopTypeOK'
      BY <2>1, <2>2, <2>3, <2>8 DEF LoopTypeOK
    <3> QED BY <2>2, <2>3, <2>6, <2>8, <3>1 DEF LoopInv, Running
  <2> QED BY <1>3, <2>4, <2>7, <2>8 DEF BeginLoop
<1>4. ASSUME TimePasses \/ UNCHANGED loopVars PROVE LoopInv'
  <2>1. /\ UNCHANGED <<grants, allowed, flow, bound, frontier, visited, planned, stack, steps, recoveries,
                       chats, used, heard, taint, late, ended>>
        /\ expired' = TRUE \/ UNCHANGED expired
    BY <1>4 DEF TimePasses, loopVars, given, plan, budget, marks
  <2>2. LoopTypeOK'
    BY <2>1 DEF LoopInv, LoopTypeOK
  <2>3. PlanInv'
    BY <2>1 DEF LoopInv, PlanInv, RolesOf, Granted, FlowRoles
  <2>4. Running' => (StackOK(stack) /\ OnItsWay(Top))'
    BY <2>1 DEF LoopInv, StackOK, GoodFrame, OnItsWay, Top, Granted, Running
  <2> QED BY <2>1, <2>2, <2>3, <2>4 DEF LoopInv
<1> QED BY <1>1, <1>2, <1>3, <1>4 DEF LoopNext

(* The planner has the first agent before it, and no loop has begun.       *)
LEMMA LoopInvInit == LoopInit => LoopInv
<1> SUFFICES ASSUME LoopInit PROVE LoopInv
  OBVIOUS
<1>1. PICK c \in Cases : grants = c.grants /\ allowed = c.allowed /\ flow = c.flow /\ bound = c.bound
  BY DEF LoopInit
<1>2. LoopTypeOK
  <2>1. /\ grants \in [Agents -> SUBSET Keys] /\ allowed \subseteq Keys
        /\ flow \in Seq(Tools) /\ bound \subseteq Agents \cup Tools
    BY <1>1, ToolLoopAssumption
  <2>2. /\ frontier \subseteq Agents \X Nat /\ visited \subseteq Agents
        /\ planned \subseteq Agents \cup Tools
    BY ToolLoopAssumption DEF LoopInit
  <2>3. stack \in Seq(Frame) /\ Len(stack) <= MaxDepth + 1 /\ steps \in 0..MaxSteps
    BY ToolLoopAssumption DEF LoopInit
  <2>4. {expired, late} \subseteq BOOLEAN
    BY DEF LoopInit
  <2>5. /\ recoveries \in 0..1 /\ chats \in Nat
        /\ used \subseteq Agents \cup Tools /\ heard \subseteq Tools /\ taint \subseteq Tools
        /\ ended \in {"planning", "running", "answered", "timed_out", "raised"}
    BY DEF LoopInit
  <2> QED BY <2>1, <2>2, <2>3, <2>4, <2>5, Zenon DEF LoopTypeOK
<1>3. PlanInv
  BY DEF LoopInit, PlanInv
<1> QED BY <1>2, <1>3 DEF LoopInit, LoopInv, Running

---------------------------------------------------------------------------
(* What the turn may rely on.                                              *)

(* For any agents, grants and flows the loops keep their types: in          *)
(* particular no delegation is deeper than the limit, and steps and repairs *)
(* are never overdrawn, however the loops share them.                       *)
THEOREM LoopTypeCorrect == LoopSpec => []LoopTypeOK
<1>1. LoopInv => LoopTypeOK
  BY DEF LoopInv
<1> QED BY LoopInvInit, LoopInvStep, <1>1, PTL DEF LoopSpec

(* A delegate that ran out of time is never taken for an answer: the loops  *)
(* above it end as timed out, whatever they were about to do.               *)
THEOREM TimeoutsReachTheTop == LoopSpec => []TimeoutReachesTheTop
<1>1. LoopInv => TimeoutReachesTheTop
  BY DEF LoopInv, TimeoutReachesTheTop
<1> QED BY LoopInvInit, LoopInvStep, <1>1, PTL DEF LoopSpec

(* Nothing is put before a model that is not, in the same transaction, on   *)
(* the conversation's taint, or about to be: a flow cut short by the        *)
(* deadline has told what it found before its row is written.               *)
LEMMA TaintStep == LoopInv /\ ReadIsTainted /\ [LoopNext]_loopVars => ReadIsTainted'
<1> SUFFICES ASSUME LoopInv, ReadIsTainted, [LoopNext]_loopVars PROVE ReadIsTainted'
  OBVIOUS
<1>1. ASSUME heard \subseteq taint, UNCHANGED <<heard, taint>> PROVE ReadIsTainted'
  BY <1>1 DEF ReadIsTainted
<1>2. \A pc : pc # "settling" /\ At(pc) => heard \subseteq taint
  BY DEF At, ReadIsTainted
<1>3. CASE UNCHANGED <<heard, taint, stack, ended>>
  BY <1>3 DEF ReadIsTainted, Running, Top
<1>4. ASSUME BeginLoop PROVE ReadIsTainted'
  <2>1. ~Running /\ UNCHANGED <<heard, taint>>
    BY <1>4 DEF BeginLoop, Running
  <2> QED BY <1>1, <2>1 DEF ReadIsTainted
<1>5. CASE \/ OutOfTime \/ OutOfSteps \/ AskModel \/ ModelRaises \/ ModelAnswers
           \/ \E k \in Keys : ModelCalls(k)
  <2>1. UNCHANGED <<heard, taint>> /\ (At("top") \/ At("asked"))
    BY <1>5, Zenon DEF OutOfTime, OutOfSteps, AskModel, ModelRaises, ModelAnswers, ModelCalls, marks
  <2> QED BY <1>1, <1>2, <2>1
<1>6. CASE FlowDegrades
  <2>1. /\ At("flow") /\ stack' = Put(Settling(Top, "ok", Top.got)) /\ UNCHANGED <<taint, ended>>
        /\ heard' = heard \cup Top.got
    BY <1>6 DEF FlowDegrades
  <2>2. Running /\ Top \in Frame /\ GoodFrame(Top) /\ stack \in Seq(Frame) /\ Len(stack) \in Nat \ {0}
    BY <2>1, StackFacts DEF At, LoopInv, LoopTypeOK
  <2>3. PICK f : f = Settling(Top, "ok", Top.got)
    OBVIOUS
  <2>4. f \in Frame /\ f.pc = "settling" /\ f.out = [kind |-> "ok", arts |-> Top.got]
    <3>1. "ok" \in ToolOutcomes /\ Top.got \in SUBSET Tools
      BY <2>2 DEF ToolOutcomes, Frame
    <3> QED BY <2>2, <2>3, <3>1, SettlingFrame
  <2>5. Top' = f
    BY <2>1, <2>2, <2>3 DEF Put, Top
  <2>6. heard \subseteq taint
    BY <1>2, <2>1
  <2>7. Running'
    BY <2>1, <2>2 DEF Running
  <2> QED BY <2>1, <2>4, <2>5, <2>6, <2>7 DEF ReadIsTainted
<1>7. CASE \/ \E t \in Tools : CallPlain(t)
           \/ BadArguments
           \/ \E a \in Agents : RefuseDelegation(a) \/ Delegate(a)
           \/ BeginFlow \/ FlowStep \/ FlowFinishes
  <2>1. UNCHANGED <<heard, taint>> /\ (At("calling") \/ At("flow"))
    BY <1>7, Zenon DEF CallPlain, BadArguments, RefuseDelegation, Delegate, BeginFlow, FlowStep,
       FlowFinishes, marks
  <2> QED BY <1>1, <1>2, <2>1
<1>8. CASE Settle
  <2>1. /\ At("settling") /\ taint' = taint \cup Top.out.arts /\ heard' = heard \cup Top.out.arts
    BY <1>8, Zenon DEF Settle
  <2> QED BY <2>1 DEF ReadIsTainted
<1>9. ASSUME NEW p \in frontier, PlanVisit(p[1], p[2]) PROVE ReadIsTainted'
  BY <1>3, <1>9 DEF PlanVisit, marks
<1>10. CASE TimePasses \/ UNCHANGED loopVars
  BY <1>3, <1>10 DEF TimePasses, loopVars, marks
<1> QED BY <1>4, <1>5, <1>6, <1>7, <1>8, <1>9, <1>10, Zenon
        DEF LoopNext, LoopStep, Invoking, Planning

(* What a model was told is on the conversation's taint, however the tool,  *)
(* the flow or the delegate that told it came to its end, at any depth.     *)
THEOREM WhatIsReadTaints == LoopSpec => []ReadIsTainted
<1>1. LoopInit => ReadIsTainted
  BY DEF LoopInit, ReadIsTainted
<1> QED BY LoopInvInit, LoopInvStep, TaintStep, <1>1, PTL DEF LoopSpec

(* Down to two delegations the agents of the stack have all been visited by *)
(* the walk, and with room for one more so have their delegates.            *)
LEMMA StackIsVisited ==
    ASSUME LoopInv, Running, MaxDepth <= 2
    PROVE  /\ Top.agent \in visited
           /\ RolesOf(Top.agent) \cap bound \subseteq planned
           /\ Depth < MaxDepth => Granted(Top.agent) \cap Agents \subseteq visited
<1>0. /\ stack \in Seq(Frame) /\ Len(stack) \in Nat \ {0} /\ Len(stack) <= MaxDepth + 1 /\ MaxDepth \in Nat
      /\ Top = stack[Len(stack)] /\ Depth = Len(stack) - 1
      /\ stack[1].agent = Root
      /\ \A i \in 2..Len(stack) : stack[i].agent \in Granted(stack[i - 1].agent)
  BY StackFacts DEF LoopInv, LoopTypeOK, StackOK, Top, Depth
<1>1. /\ frontier = {} /\ Root \in visited
      /\ MaxDepth > 0 => Granted(Root) \cap Agents \subseteq visited
      /\ MaxDepth > 1 => \A b \in Granted(Root) \cap Agents : Granted(b) \cap Agents \subseteq visited
      /\ \A a \in visited : RolesOf(a) \cap bound \subseteq planned
  <2>1. PlanInv /\ frontier = {}
    BY DEF LoopInv, PlanInv, Running
  <2>2. \A a \in visited : RolesOf(a) \cap bound \subseteq planned
    BY <2>1, Zenon DEF PlanInv
  <2>3. /\ MaxDepth > 0 => Granted(Root) \cap Agents \subseteq visited
        /\ MaxDepth > 0 /\ MaxDepth > 1 =>
            \A b \in Granted(Root) \cap Agents : Granted(b) \cap Agents \subseteq visited
    BY <2>1, Zenon DEF PlanInv
  <2>4. Root \in visited
    BY <2>1, Zenon DEF PlanInv
  <2> QED BY <1>0, <2>1, <2>2, <2>3, <2>4
<1>2. \A i \in 1..Len(stack) : stack[i].agent \in Agents
  <2> TAKE i \in 1..Len(stack)
  <2>1. stack[i] \in Frame
    BY <1>0
  <2> QED BY <2>1 DEF Frame
<1>3. CASE Len(stack) = 1
  BY <1>0, <1>1, <1>3
<1>4. CASE Len(stack) = 2
  <2>1. Top.agent \in Granted(Root) \cap Agents /\ MaxDepth > 0
    BY <1>0, <1>2, <1>4
  <2>2. Depth < MaxDepth => MaxDepth > 1
    BY <1>0, <1>4
  <2> QED BY <1>1, <2>1, <2>2
<1>5. CASE Len(stack) = 3
  <2>1. stack[2].agent \in Granted(Root) \cap Agents /\ MaxDepth > 1 /\ ~(Depth < MaxDepth)
    BY <1>0, <1>2, <1>5
  <2>2. Top.agent \in Granted(stack[2].agent) \cap Agents
    BY <1>0, <1>2, <1>5
  <2> QED BY <1>1, <2>1, <2>2
<1>6. Len(stack) \in 1..3
  BY <1>0
<1> QED BY <1>3, <1>4, <1>5, <1>6

(* What is run was declared: the roles of the innermost agent's tools and   *)
(* flows, and the models of those it may ask.                               *)
LEMMA PlanStep ==
    LoopInv /\ PlanCoversTheTurn /\ MaxDepth <= 2 /\ [LoopNext]_loopVars => PlanCoversTheTurn'
<1> SUFFICES ASSUME LoopInv, PlanCoversTheTurn, MaxDepth <= 2, [LoopNext]_loopVars
             PROVE  PlanCoversTheTurn'
  OBVIOUS
<1>1. ASSUME UNCHANGED bound, planned \subseteq planned', UNCHANGED used PROVE PlanCoversTheTurn'
  BY <1>1 DEF PlanCoversTheTurn
<1>2. ASSUME NEW k \in planned \cup (Keys \ bound), UNCHANGED <<bound, planned>>, used' = used \cup {k}
      PROVE  PlanCoversTheTurn'
  BY <1>2 DEF PlanCoversTheTurn
<1>3. visited \cap bound \subseteq planned /\ Root \in visited
  BY DEF LoopInv, PlanInv
<1>4. ASSUME BeginLoop PROVE PlanCoversTheTurn'
  <2>1. UNCHANGED <<bound, planned>> /\ used' = used \cup {Root}
    BY <1>4 DEF BeginLoop, given, plan
  <2> QED BY <1>2, <1>3, <2>1, ToolLoopAssumption DEF Keys
<1>5. ASSUME NEW t \in Tools, CallPlain(t) PROVE PlanCoversTheTurn'
  <2>1. Running /\ Top.pc = "calling" /\ Top.key = t
    BY <1>5 DEF CallPlain, At
  <2>2. UNCHANGED <<bound, planned>> /\ used' = used \cup {t}
    BY <1>5 DEF CallPlain, given, plan
  <2>3. t \in Granted(Top.agent) /\ Top.agent \in Agents
    BY <2>1, StackFacts DEF GoodFrame
  <2>4. t \in RolesOf(Top.agent)
    BY <2>3, KeysAndRoles DEF LoopInv
  <2>5. t \in planned \cup (Keys \ bound)
    BY <2>1, <2>4, StackIsVisited DEF Keys
  <2> QED BY <1>2, <2>2, <2>5
<1>6. ASSUME NEW a \in Agents, Delegate(a) PROVE PlanCoversTheTurn'
  <2>1. Running /\ Top.pc = "calling" /\ Top.key = a /\ ~(Depth >= MaxDepth)
    BY <1>6 DEF Delegate, At, CannotDelegate
  <2>2. UNCHANGED <<bound, planned>> /\ used' = used \cup {a}
    BY <1>6 DEF Delegate, given, plan
  <2>3. a \in Granted(Top.agent) /\ Depth < MaxDepth
    BY <2>1, StackFacts DEF GoodFrame
  <2>4. a \in visited
    BY <2>1, <2>3, StackIsVisited
  <2>5. a \in planned \cup (Keys \ bound)
    BY <1>3, <2>4 DEF Keys
  <2> QED BY <1>2, <2>2, <2>5
<1>7. ASSUME FlowStep PROVE PlanCoversTheTurn'
  <2>1. Running /\ Top.pc = "flow" /\ ~FlowDone
    BY <1>7, Zenon DEF FlowStep, At
  <2>2. UNCHANGED <<bound, planned>>
    <3>1. UNCHANGED <<given, plan>>
      BY <1>7, Zenon DEF FlowStep
    <3> QED BY <3>1 DEF given, plan
  <2>3. UNCHANGED used \/ used' = used \cup {flow[Top.step]}
    BY <1>7, Zenon DEF FlowStep
  <2>4. Top \in Frame /\ FlowRun \in Granted(Top.agent) /\ Top.agent \in Agents /\ Top.step > 0
    BY <2>1, StackFacts DEF GoodFrame
  <2>5. flow[Top.step] \in FlowRoles
    <3>1. Top.step \in Nat /\ flow \in Seq(Tools)
      BY <2>4 DEF Frame, LoopInv, LoopTypeOK
    <3>2. Top.step <= Len(flow)
      BY <2>1, <3>1 DEF FlowDone
    <3> QED BY <2>4, <3>1, <3>2 DEF FlowRoles
  <2>6. flow[Top.step] \in RolesOf(Top.agent) /\ flow[Top.step] \in Tools
    BY <2>4, <2>5, KeysAndRoles DEF LoopInv
  <2>7. flow[Top.step] \in planned \cup (Keys \ bound)
    BY <2>1, <2>6, StackIsVisited DEF Keys
  <2> QED BY <1>1, <1>2, <2>2, <2>3, <2>7
<1>8. ASSUME NEW p \in frontier, PlanVisit(p[1], p[2]) PROVE PlanCoversTheTurn'
  BY <1>1, <1>8 DEF PlanVisit, given, marks
<1>9. CASE \/ OutOfTime \/ OutOfSteps \/ AskModel \/ ModelRaises \/ ModelAnswers
           \/ \E k \in Keys : ModelCalls(k)
  <2>1. UNCHANGED <<given, plan, used>>
    BY <1>9, Zenon DEF OutOfTime, OutOfSteps, AskModel, ModelRaises, ModelAnswers, ModelCalls, marks
  <2> QED BY <1>1, <2>1 DEF given, plan
<1>10. CASE \/ BadArguments \/ (\E a \in Agents : RefuseDelegation(a))
            \/ BeginFlow \/ FlowDegrades \/ FlowFinishes \/ Settle
  <2>1. UNCHANGED <<given, plan, used>>
    BY <1>10, Zenon DEF BadArguments, RefuseDelegation, BeginFlow, FlowDegrades, FlowFinishes, Settle,
       marks
  <2> QED BY <1>1, <2>1 DEF given, plan
<1>11. CASE TimePasses \/ UNCHANGED loopVars
  BY <1>1, <1>11 DEF TimePasses, loopVars, given, plan, marks
<1> QED BY <1>4, <1>5, <1>6, <1>7, <1>8, <1>9, <1>10, <1>11, Zenon
        DEF LoopNext, LoopStep, Invoking, Planning

(* The queue is told of every model a turn may load: whichever order the    *)
(* planner's walk takes, and whatever is granted, bound or in the flow, no   *)
(* loop runs a role that was not declared.  It rests on MAX_AGENT_DEPTH, 2   *)
(* in agents/limits.py: from 3 on an agent may be first met too deep for     *)
(* its own delegates to be followed.                                         *)
THEOREM EveryRoleIsDeclared ==
    ASSUME MaxDepth <= 2 PROVE LoopSpec => []PlanCoversTheTurn
<1>1. LoopInit => PlanCoversTheTurn
  BY DEF LoopInit, PlanCoversTheTurn
<1>2. LoopInv /\ PlanCoversTheTurn /\ [LoopNext]_loopVars => PlanCoversTheTurn'
  BY PlanStep
<1> QED BY LoopInvInit, LoopInvStep, <1>1, <1>2, PTL DEF LoopSpec

---------------------------------------------------------------------------
(***************************************************************************)
(* The text of a recording or a scan (Media), for any number of units,     *)
(* jobs and faults, with attempts that do not outlive their claim.         *)
(***************************************************************************)

Live(j) == job[j].state \in {"queued", "running"}

\* Where an attempt that has a checkpoint of its own may be.
Past == {"loop", "heard", "saved", "final", "extracted", "ok", "bad"}

\* EnqueueIngest waits until no job is live.
OneLive == \A i, j \in Jobs : Live(i) /\ Live(j) => i = j

\* A checkpoint counts the segments of the units it confirms.
Confirmed(j) ==
    /\ ckpt[j].written = Cardinality(Told(ckpt[j].next)) /\ ckpt[j].next <= Last
    /\ job[j].state = "absent" => ckpt[j] = NoCheckpoint

\* What an attempt holds is the text of the units it is past.
LoopSound(e) ==
    att[e] \in {"loop", "heard", "saved"} =>
        /\ loop[e].segs = Heard(loop[e].next) /\ loop[e].next <= Last
        /\ att[e] = "heard" => loop[e].next > 0

\* Every sidecar ever written holds the text of the first units.
SidecarSound == sidecar.there => \E n \in 0..Units : sidecar.segs = Heard(n)

\* An attempt transcribes when every slice is cut, and slices that a live job
\* may resume on are all there, unless they are being cut.
SlicesSound ==
    /\ \A e \in Execs : att[e] \in {"loop", "heard", "saved"} => work.slices = Units
    /\ \A j \in Jobs : Live(j) /\ ckpt[j] # NoCheckpoint /\ work.slices \notin {0, Units} =>
          \E t \in Tries : att[<<j, t>>] = "cutting"

\* Without a fault the attempt that checkpointed is still at work.
FirstAttempt ==
    faults = 0 => \A j \in Jobs : Live(j) /\ ckpt[j] # NoCheckpoint =>
        \E t \in Tries : att[<<j, t>>] \in Past

MediaInv ==
    /\ MediaTypeOK /\ ClaimsCounted /\ ExecutingHolds /\ OneLive
    /\ \A j \in Jobs : Confirmed(j)
    /\ \A e \in Execs : LoopSound(e)
    /\ SidecarSound /\ FinishedIsWhole /\ ReadyIsWhatItSays
    /\ kind = "audio" /\ faults < 2 => SlicesSound
    /\ FirstAttempt

---------------------------------------------------------------------------
(* The text of the first units.                                            *)

(* A list of segments is a sequence of units no longer than there are units. *)
LEMMA SegmentsAre == \A s : s \in Segments <=> s \in Seq(Unit) /\ Len(s) <= Units
<1>1. ASSUME NEW s \in Segments PROVE s \in Seq(Unit) /\ Len(s) <= Units
  <2>1. PICK n \in 0..Units : s \in [1..n -> Unit]
    BY DEF Segments
  <2> QED BY <2>1, MediaAssumption
<1>2. ASSUME NEW s \in Seq(Unit), Len(s) <= Units PROVE s \in Segments
  <2>1. s \in [1..Len(s) -> Unit] /\ Len(s) \in 0..Units
    BY <1>2, MediaAssumption
  <2> QED BY <2>1 DEF Segments
<1> QED BY <1>1, <1>2

(* A unit has been told when it is among the first ones.                   *)
LEMMA ToldOf ==
    ASSUME texts \subseteq Unit
    PROVE  /\ \A u \in texts : u \in Nat /\ u > 0
           /\ \A n : \A u : u \in Told(n) <=> u \in texts /\ u <= n
BY MediaAssumption DEF Told, Unit

(* How many segments the first units have.                                 *)
LEMMA ToldCounts ==
    ASSUME texts \subseteq Unit
    PROVE  /\ \A n \in Nat : /\ IsFiniteSet(Told(n)) /\ Cardinality(Told(n)) \in Nat
                             /\ Cardinality(Told(n)) <= n
           /\ \A n, m \in Nat : n <= m => Cardinality(Told(n)) <= Cardinality(Told(m))
           /\ Cardinality(Told(0)) = 0
<1>1. ASSUME NEW n \in Nat
      PROVE  IsFiniteSet(Told(n)) /\ Cardinality(Told(n)) \in Nat /\ Cardinality(Told(n)) <= n
  <2>1. Told(n) \subseteq 1..n
    <3>1. ASSUME NEW u \in Told(n) PROVE u \in 1..n
      BY <3>1, ToldOf
    <3> QED BY <3>1
  <2>2. IsFiniteSet(1..n) /\ Cardinality(1..n) = n
    BY FS_Interval
  <2> QED BY <2>1, <2>2, FS_Subset, FS_CardinalityType
<1>2. ASSUME NEW n \in Nat, NEW m \in Nat, n <= m PROVE Cardinality(Told(n)) <= Cardinality(Told(m))
  <2>1. Told(n) \subseteq Told(m)
    <3>1. ASSUME NEW u \in Told(n) PROVE u \in Told(m)
      <4>1. u \in texts /\ u \in Nat /\ u <= n
        BY ToldOf
      <4> QED BY <1>2, <4>1, ToldOf
    <3> QED BY <3>1
  <2> QED BY <1>1, <2>1, FS_Subset
<1>3. Cardinality(Told(0)) = 0
  <2>1. \A u : u \notin Told(0)
    BY ToldOf
  <2> QED BY <2>1, FS_EmptySet
<1> QED BY <1>1, <1>2, <1>3

(* Each unit that has text adds one segment, and no two the same count.    *)
LEMMA UnitCounts ==
    ASSUME texts \subseteq Unit, NEW n \in Nat
    PROVE  /\ n + 1 \notin texts => Told(n + 1) = Told(n)
           /\ n + 1 \in texts => Cardinality(Told(n + 1)) = Cardinality(Told(n)) + 1
           /\ n + 1 \in texts => \A u \in texts : Cardinality(Told(u)) = Cardinality(Told(n)) + 1 => u = n + 1
<1>1. ASSUME n + 1 \notin texts PROVE Told(n + 1) = Told(n)
  <2>1. ASSUME NEW u PROVE u \in Told(n + 1) <=> u \in Told(n)
    <3>1. u \in texts => (u <= n + 1 <=> u <= n)
      BY <1>1, ToldOf
    <3> QED BY <3>1, ToldOf
  <2> QED BY <2>1
<1>2. ASSUME NEW k \in Nat, k + 1 \in texts PROVE Cardinality(Told(k + 1)) = Cardinality(Told(k)) + 1
  <2>1. Told(k + 1) = Told(k) \cup {k + 1}
    <3>1. ASSUME NEW u PROVE u \in Told(k + 1) <=> u \in Told(k) \/ u = k + 1
      <4>1. u \in texts => (u <= k + 1 <=> u <= k \/ u = k + 1)
        BY ToldOf
      <4> QED BY <1>2, <4>1, ToldOf
    <3> QED BY <3>1
  <2>2. k + 1 \notin Told(k)
    BY ToldOf
  <2> QED BY <2>1, <2>2, ToldCounts, FS_AddElement
<1>3. ASSUME n + 1 \in texts, NEW u \in texts, Cardinality(Told(u)) = Cardinality(Told(n)) + 1 PROVE u = n + 1
  <2>1. u \in Nat /\ u > 0
    BY MediaAssumption DEF Unit
  <2>2. ASSUME u <= n PROVE FALSE
    BY <1>3, <2>1, <2>2, ToldCounts
  <2>3. ASSUME u > n + 1 PROVE FALSE
    <3>1. u - 1 \in Nat /\ (u - 1) + 1 = u /\ n + 1 <= u - 1
      BY <2>1, <2>3
    <3>2. Cardinality(Told(u)) = Cardinality(Told(u - 1)) + 1
      BY <1>2, <3>1
    <3>3. Cardinality(Told(n + 1)) <= Cardinality(Told(u - 1))
      BY <3>1, ToldCounts
    <3>4. Cardinality(Told(n + 1)) = Cardinality(Told(n)) + 1
      BY <1>2, <1>3
    <3> QED BY <1>3, <3>1, <3>2, <3>3, <3>4, ToldCounts
  <2> QED BY <2>1, <2>2, <2>3
<1> QED BY <1>1, <1>2, <1>3

(* Nothing, before the first unit.                                         *)
LEMMA HeardNothing == ASSUME texts \subseteq Unit PROVE Heard(0) = <<>> /\ Heard(0) \in Seq(Unit)
<1>1. Heard(0) = [i \in 1..0 |-> CHOOSE u \in texts : Cardinality(Told(u)) = i]
  BY ToldCounts DEF Heard
<1>2. DOMAIN Heard(0) = {}
  BY <1>1
<1>3. Heard(0) = <<>> /\ <<>> \in Seq(Unit)
  BY <1>1, <1>2
<1> QED BY <1>3, Zenon

(* What the model finds in the next unit continues the text.               *)
LEMMA HeardGoesOn ==
    ASSUME texts \subseteq Unit, NEW n \in Nat, n < Units, Heard(n) \in Seq(Unit)
    PROVE  /\ Heard(n) \o Text(n + 1) = Heard(n + 1)
           /\ Heard(n + 1) \in Seq(Unit) /\ Len(Heard(n + 1)) = Cardinality(Told(n + 1))
<1> DEFINE c == Cardinality(Told(n))
<1>0. c \in Nat /\ DOMAIN Heard(n) = 1..c /\ Len(Heard(n)) = c
  BY ToldCounts DEF Heard
<1>1. CASE n + 1 \notin texts
  <2>1. Heard(n + 1) = Heard(n)
    BY <1>1, UnitCounts DEF Heard
  <2>2. Text(n + 1) = <<>>
    BY <1>1 DEF Text
  <2> QED BY <1>0, <1>1, <2>1, <2>2, UnitCounts
<1>2. CASE n + 1 \in texts
  <2>1. Text(n + 1) = <<n + 1>> /\ n + 1 \in Unit /\ Cardinality(Told(n + 1)) = c + 1
    BY <1>2, UnitCounts DEF Text
  <2>2. (CHOOSE u \in texts : Cardinality(Told(u)) = c + 1) = n + 1
    BY <1>2, <2>1, UnitCounts
  <2>3. Heard(n + 1) = [i \in 1..(c + 1) |-> CHOOSE u \in texts : Cardinality(Told(u)) = i]
    BY <2>1 DEF Heard
  <2>4. Heard(n) = [i \in 1..c |-> CHOOSE u \in texts : Cardinality(Told(u)) = i]
    BY DEF Heard
  <2>5. /\ Heard(n) \o <<n + 1>> \in Seq(Unit) /\ Len(Heard(n) \o <<n + 1>>) = c + 1
        /\ \A i \in 1..c : (Heard(n) \o <<n + 1>>)[i] = Heard(n)[i]
        /\ (Heard(n) \o <<n + 1>>)[c + 1] = n + 1
    BY <1>0, <2>1
  <2>6. ASSUME NEW i \in 1..(c + 1) PROVE (Heard(n) \o <<n + 1>>)[i] = Heard(n + 1)[i]
    <3>1. CASE i = c + 1
      BY <1>0, <2>2, <2>3, <2>5, <3>1
    <3>2. CASE i # c + 1
      <4>1. i \in 1..c
        BY <1>0, <3>2
      <4>2. Heard(n)[i] = Heard(n + 1)[i]
        BY <2>3, <2>4, <4>1
      <4> QED BY <2>5, <4>1, <4>2
    <3> QED BY <3>1, <3>2
  <2>7. Heard(n) \o <<n + 1>> = Heard(n + 1)
    <3> DEFINE s == Heard(n) \o <<n + 1>>
    <3>1. s = [i \in 1..(c + 1) |-> s[i]]
      BY <1>0, <2>5
    <3>2. Heard(n + 1) = [i \in 1..(c + 1) |-> Heard(n + 1)[i]]
      BY <2>3
    <3> QED BY <2>6, <3>1, <3>2
  <2> QED BY <2>1, <2>5, <2>7
<1> QED BY <1>1, <1>2

(* What a checkpoint confirms of a longer text is the text of its units.   *)
LEMMA HeardBefore ==
    ASSUME texts \subseteq Unit, NEW m \in Nat, NEW n \in Nat, Heard(m) \in Seq(Unit),
           Cardinality(Told(n)) <= Len(Heard(m))
    PROVE  /\ SubSeq(Heard(m), 1, Cardinality(Told(n))) = Heard(n)
           /\ Heard(n) \in Seq(Unit) /\ Len(Heard(n)) <= Len(Heard(m))
<1> DEFINE c == Cardinality(Told(n))
           k == Cardinality(Told(m))
           s == SubSeq(Heard(m), 1, c)
<1>0. c \in Nat /\ k \in Nat /\ Len(Heard(m)) = k /\ c <= k
  BY ToldCounts DEF Heard
<1>1. /\ s \in Seq(Unit) /\ Len(s) = c
      /\ \A i \in 1..c : s[i] = Heard(m)[i]
  BY <1>0
<1>2. \A i \in 1..c : i \in 1..k
  BY <1>0
<1>3. \A i \in 1..c : Heard(n)[i] = Heard(m)[i]
  BY <1>2 DEF Heard
<1>4. s = [i \in 1..c |-> s[i]]
  BY <1>0, <1>1
<1>5. Heard(n) = [i \in 1..c |-> Heard(n)[i]]
  BY DEF Heard
<1>6. s = Heard(n)
  BY <1>1, <1>3, <1>4, <1>5
<1> QED BY <1>0, <1>1, <1>6

---------------------------------------------------------------------------
(* What the invariant says of the attempt at work.                         *)

SidecarRow == [there : BOOLEAN, done : BOOLEAN, readable : BOOLEAN, segs : Segments]
WorkRow == [wav : BOOLEAN, slices : 0..Units]
CkptRow == [next : 0..Units, written : 0..Units]
LoopRow == [next : 0..Units, segs : Segments]
DocRow == [state : {"pending", "processing", "ready", "failed"}, note : BOOLEAN,
           layer : BOOLEAN, segs : Segments]

(* The type invariant, by rows.                                            *)
LEMMA MediaRows ==
    MediaTypeOK <=> /\ QueueTypeOK(MediaPcs) /\ kind \in Kinds /\ texts \subseteq Unit
                    /\ sidecar \in SidecarRow /\ work \in WorkRow
                    /\ ckpt \in [Jobs -> CkptRow] /\ loop \in [Execs -> LoopRow] /\ doc \in DocRow
BY DEF MediaTypeOK, SidecarRow, WorkRow, CkptRow, LoopRow, DocRow

(* One attempt executes, whichever job it is of.                           *)
LEMMA OnlyAttempt ==
    ASSUME ExecutingHolds, OneLive, NEW e \in Execs, NEW f \in Execs, Executing(e), Executing(f)
    PROVE  e = f
<1>1. e[1] \in Jobs /\ f[1] \in Jobs
  BY Pairs
<1>2. Live(e[1]) /\ Live(f[1])
  BY DEF ExecutingHolds, Holds, Live
<1>3. e[1] = f[1]
  BY <1>1, <1>2 DEF OneLive
<1> QED BY <1>3, OneExecutes

(* What the attempt may take for granted of the slices and its checkpoint. *)
LEMMA AtWork ==
    ASSUME MediaInv, NEW e \in Execs, att[e] \in MediaPcs \cup {"claimed"}
    PROVE  /\ Executing(e) /\ Live(e[1]) /\ e[1] \in Jobs
           /\ kind = "audio" /\ faults < 2 /\ att[e] # "cutting" /\ ckpt[e[1]] # NoCheckpoint =>
                 work.slices \in {0, Units}
           /\ faults = 0 /\ ckpt[e[1]] # NoCheckpoint => att[e] \in Past
<1>1. Executing(e) /\ e[1] \in Jobs
  BY Pairs DEF Executing, MediaPcs
<1>2. Holds(e) /\ Live(e[1])
  BY <1>1 DEF MediaInv, ExecutingHolds, Holds, Live
<1>3. ASSUME kind = "audio", faults < 2, att[e] # "cutting", ckpt[e[1]] # NoCheckpoint, work.slices \notin {0, Units}
      PROVE  FALSE
  <2>1. PICK t \in Tries : att[<<e[1], t>>] = "cutting"
    BY <1>1, <1>2, <1>3 DEF MediaInv, SlicesSound
  <2>2. <<e[1], t>> \in Execs /\ Executing(<<e[1], t>>)
    BY <1>1, <2>1, Pairs DEF Executing
  <2>3. <<e[1], t>> = e
    BY <1>1, <2>2, OnlyAttempt DEF MediaInv
  <2> QED BY <1>3, <2>1, <2>3
<1>4. ASSUME faults = 0, ckpt[e[1]] # NoCheckpoint PROVE att[e] \in Past
  <2>1. PICK t \in Tries : att[<<e[1], t>>] \in Past
    BY <1>1, <1>2, <1>4 DEF MediaInv, FirstAttempt
  <2>2. <<e[1], t>> \in Execs /\ Executing(<<e[1], t>>)
    BY <1>1, <2>1, Pairs DEF Executing, Past
  <2>3. <<e[1], t>> = e
    BY <1>1, <2>2, OnlyAttempt DEF MediaInv
  <2> QED BY <2>1, <2>3
<1> QED BY <1>1, <1>2, <1>3, <1>4

(* The step of an attempt from one point to another keeps the invariant    *)
(* when what it writes is sound: its own text, the sidecar, the row, its    *)
(* checkpoint, and the slices where it matters.                            *)
LEMMA AttemptKeeps ==
    ASSUME MediaInv, NEW e \in Execs, NEW from \in MediaPcs \cup {"claimed"},
           NEW to \in MediaPcs \cup {"ok", "bad"}, Moves(e, from, to),
           sidecar' \in SidecarRow, work' \in WorkRow, ckpt' \in [Jobs -> CkptRow],
           loop' \in [Execs -> LoopRow], doc' \in DocRow,
           \A j \in Jobs : j # e[1] => ckpt'[j] = ckpt[j],
           ckpt' = ckpt \/ Confirmed(e[1])', LoopSound(e)',
           SidecarSound', FinishedIsWhole', ReadyIsWhatItSays',
           kind = "audio" /\ faults < 2 =>
              /\ to \in {"loop", "heard", "saved"} => work'.slices = Units
              /\ ckpt'[e[1]] # NoCheckpoint => work'.slices \in {0, Units} \/ to = "cutting",
           to \in Past \/ (from \notin Past /\ ckpt' = ckpt)
    PROVE  MediaInv'
<1>0. /\ MediaTypeOK /\ ClaimsCounted /\ ExecutingHolds /\ OneLive
      /\ QueueTypeOK(MediaPcs) /\ kind \in Kinds /\ texts \subseteq Unit
  BY MediaRows DEF MediaInv
<1>1. Goes(e, from, to) /\ UNCHANGED <<job, hooks, faults, kind, texts>> /\ from \notin {"none", "over"}
  BY DEF Moves, MediaPcs
<1>2. QueueTypeOK(MediaPcs)' /\ ClaimsCounted' /\ ExecutingHolds'
  BY <1>0, <1>1, HandlerStep
<1>3. att[e] = from /\ att'[e] = to /\ \A f \in Execs : f # e => att'[f] = att[f]
  BY <1>0, <1>1, GoesFacts
<1>4. MediaTypeOK'
  BY <1>0, <1>1, <1>2, MediaRows DEF MediaTypeOK, SidecarRow, WorkRow, CkptRow, LoopRow, DocRow
<1>5. \A j : Live(j)' <=> Live(j)
  BY <1>1 DEF Live
<1>6. OneLive'
  BY <1>0, <1>5 DEF OneLive
<1>7. /\ Executing(e) /\ Live(e[1]) /\ e[1] \in Jobs
      /\ faults = 0 /\ ckpt[e[1]] # NoCheckpoint => att[e] \in Past
  BY <1>3, AtWork
<1>8. \A f \in Execs : f # e => ~Executing(f) /\ ~Executing(f)'
  BY <1>0, <1>3, <1>7, OnlyAttempt DEF Executing
<1>9. \A f \in Execs : LoopSound(f)'
  BY <1>8 DEF LoopSound, Executing
<1>10. \A j \in Jobs : Confirmed(j)'
  <2>1. ASSUME NEW j \in Jobs, ckpt'[j] = ckpt[j] PROVE Confirmed(j)'
    <3>1. Confirmed(j)
      BY DEF MediaInv
    <3>2. \A n : Told(n)' = Told(n)
      BY <1>1 DEF Told
    <3>3. Last' = Last
      BY <1>1 DEF Last
    <3> QED BY <1>1, <2>1, <3>1, <3>2, <3>3 DEF Confirmed
  <2> QED BY <2>1
<1>11. ASSUME kind' = "audio", faults' < 2 PROVE SlicesSound'
  <2>1. \A f \in Execs : att'[f] \in {"loop", "heard", "saved"} => work'.slices = Units
    BY <1>1, <1>3, <1>8, <1>11 DEF Executing
  <2>2. ASSUME NEW j \in Jobs, Live(j)', ckpt'[j] # NoCheckpoint, work'.slices \notin {0, Units}
        PROVE  \E t \in Tries : att'[<<j, t>>] = "cutting"
    <3>1. j = e[1]
      BY <1>0, <1>5, <1>7, <2>2 DEF OneLive
    <3>2. to = "cutting"
      BY <1>1, <1>11, <2>2, <3>1
    <3> QED BY <1>3, <3>1, <3>2, Pairs
  <2> QED BY <2>1, <2>2 DEF SlicesSound, NoCheckpoint
<1>12. FirstAttempt'
  <2>1. ASSUME faults' = 0, NEW j \in Jobs, Live(j)', ckpt'[j] # NoCheckpoint
        PROVE  \E t \in Tries : att'[<<j, t>>] \in Past
    <3>1. j = e[1]
      BY <1>0, <1>5, <1>7, <2>1 DEF OneLive
    <3>2. to \in Past
      BY <1>1, <1>3, <1>7, <2>1, <3>1
    <3> QED BY <1>3, <3>1, <3>2, Pairs
  <2> QED BY <2>1 DEF FirstAttempt, NoCheckpoint
<1> QED BY <1>2, <1>4, <1>6, <1>9, <1>10, <1>11, <1>12 DEF MediaInv

(* What is said of texts stays said while the file is the same.            *)
LEMMA SameFile ==
    ASSUME UNCHANGED <<kind, texts>>
    PROVE  /\ \A n : Told(n)' = Told(n) /\ Heard(n)' = Heard(n)
           /\ Last' = Last /\ Whole' = Whole /\ Segments' = Segments
<1>1. \A n : Told(n)' = Told(n)
  BY DEF Told
<1>2. \A n : Heard(n)' = Heard(n)
  BY <1>1 DEF Heard, Told
<1>3. Last' = Last
  BY DEF Last
<1> QED BY <1>1, <1>2, <1>3 DEF Whole, Heard, Told, Last, Segments, Unit

(* The sidecar is sound as long as nobody writes it.                       *)
LEMMA SidecarStays ==
    ASSUME MediaInv, UNCHANGED <<kind, texts, sidecar>>, faults' \in Nat, faults' >= faults
    PROVE  SidecarSound' /\ FinishedIsWhole'
<1>0. SidecarSound /\ FinishedIsWhole /\ faults \in Nat
  BY MediaRows, Numbers DEF MediaInv
<1>1. SidecarSound'
  BY <1>0, SameFile DEF SidecarSound
<1>2. Undisturbed' => Undisturbed
  BY <1>0 DEF Undisturbed
<1>3. Finished' <=> Finished
  BY DEF Finished
<1> QED BY <1>0, <1>1, <1>2, <1>3, SameFile DEF FinishedIsWhole

(* So is the row, until it is READY anew.                                  *)
LEMMA RowStays ==
    ASSUME MediaInv, UNCHANGED <<kind, texts>>, faults' \in Nat, faults' >= faults,
           doc' = doc \/ doc'.state # "ready"
    PROVE  ReadyIsWhatItSays'
<1>0. ReadyIsWhatItSays /\ faults \in Nat
  BY MediaRows, Numbers DEF MediaInv
<1>1. Undisturbed' => Undisturbed
  BY <1>0 DEF Undisturbed
<1> QED BY <1>0, <1>1, SameFile DEF ReadyIsWhatItSays

(* A step that writes neither text nor checkpoint.                         *)
LEMMA QuietKeeps ==
    ASSUME MediaInv, NEW e \in Execs, NEW from \in MediaPcs \cup {"claimed"},
           NEW to \in {"started", "cutting", "fallback", "extracted", "ok", "bad"}, Moves(e, from, to),
           UNCHANGED <<sidecar, ckpt, loop>>,
           work' \in WorkRow, work'.slices = 0 \/ (work'.slices = work.slices /\ (from # "cutting" \/ to = "cutting")),
           doc' \in DocRow, ReadyIsWhatItSays',
           to \in Past \/ from \notin Past
    PROVE  MediaInv'
<1>1. Goes(e, from, to) /\ UNCHANGED <<job, hooks, faults, kind, texts>>
  BY DEF Moves
<1>2. /\ sidecar \in SidecarRow /\ ckpt \in [Jobs -> CkptRow] /\ loop \in [Execs -> LoopRow]
      /\ QueueTypeOK(MediaPcs) /\ faults \in Nat
  BY MediaRows, Numbers DEF MediaInv
<1>a. to \in MediaPcs \cup {"ok", "bad"}
  BY DEF MediaPcs
<1>3. att[e] = from /\ att'[e] = to
  BY <1>1, <1>2, <1>a, GoesFacts
<1>4. SidecarSound' /\ FinishedIsWhole'
  BY <1>1, <1>2, SidecarStays
<1>5. LoopSound(e)'
  BY <1>3 DEF LoopSound
<1>6. kind = "audio" /\ faults < 2 /\ ckpt'[e[1]] # NoCheckpoint => work'.slices \in {0, Units} \/ to = "cutting"
  BY <1>3, AtWork
<1>7. to \notin {"loop", "heard", "saved"}
  OBVIOUS
<1> QED BY <1>1, <1>2, <1>a, <1>4, <1>5, <1>6, <1>7, AttemptKeeps

(* The row fails and the slices are removed.                               *)
LEMMA FailedRow ==
    ASSUME MediaInv, FailDocument, UNCHANGED <<kind, texts, faults>>
    PROVE  /\ work' \in WorkRow /\ work'.slices = 0 /\ doc' \in DocRow /\ ReadyIsWhatItSays'
<1>1. doc \in DocRow /\ faults \in Nat /\ QueueTypeOK(MediaPcs)
  BY MediaRows, Numbers DEF MediaInv
<1>2. work' = [wav |-> FALSE, slices |-> 0] /\ doc' = [doc EXCEPT !.state = "failed"]
  BY DEF FailDocument, Unmade
<1>3. work' \in WorkRow /\ work'.slices = 0
  BY <1>2, MediaAssumption DEF WorkRow
<1>4. doc' \in DocRow /\ doc'.state = "failed"
  BY <1>1, <1>2 DEF DocRow
<1> QED BY <1>1, <1>3, <1>4, RowStays

(* The attempt begins, looks for a finished sidecar and for its model, and *)
(* may fail at any point.                                                  *)
LEMMA AttemptGoes ==
    ASSUME MediaInv, NEW e \in Execs,
           \/ Start(e) \/ Raises(e) \/ Reuse(e) \/ RoleUnavailable(e) \/ RoleUnavailableFails(e)
           \/ RefusesToGuess(e) \/ NothingToIndex(e)
    PROVE  MediaInv'
<1>0. /\ work \in WorkRow /\ doc \in DocRow /\ faults \in Nat /\ QueueTypeOK(MediaPcs)
  BY MediaRows, Numbers DEF MediaInv
<1>1. CASE Start(e)
  <2>1. /\ Moves(e, "claimed", "started") /\ UNCHANGED <<sidecar, work, ckpt, loop>>
        /\ doc' = [doc EXCEPT !.state = "processing"]
    BY <1>1 DEF Start
  <2>2. doc' \in DocRow /\ doc'.state = "processing" /\ UNCHANGED <<kind, texts, faults>>
    BY <1>0, <2>1 DEF DocRow, Moves
  <2>3. ReadyIsWhatItSays'
    BY <1>0, <2>2, RowStays
  <2> QED BY <1>0, <2>1, <2>2, <2>3, QuietKeeps DEF Past
<1>2. CASE Reuse(e) \/ RoleUnavailable(e)
  <2>1. PICK to \in {"extracted", "fallback"} : Moves(e, "started", to)
    BY <1>2 DEF Reuse, RoleUnavailable
  <2>2. UNCHANGED <<sidecar, work, ckpt, loop, doc>> /\ UNCHANGED <<kind, texts, faults>>
    BY <1>2, <2>1 DEF Reuse, RoleUnavailable, Moves
  <2>3. ReadyIsWhatItSays'
    BY <1>0, <2>2, RowStays
  <2> QED BY <1>0, <2>1, <2>2, <2>3, QuietKeeps DEF Past, MediaPcs
<1>3. CASE Raises(e) \/ RoleUnavailableFails(e) \/ RefusesToGuess(e) \/ NothingToIndex(e)
  <2>1. PICK pc \in MediaPcs : Moves(e, pc, "bad")
    BY <1>3 DEF Raises, RoleUnavailableFails, RefusesToGuess, NothingToIndex, MediaPcs
  <2>2. FailDocument /\ UNCHANGED <<sidecar, ckpt, loop>> /\ UNCHANGED <<kind, texts, faults>>
    BY <1>3, <2>1 DEF Raises, RoleUnavailableFails, RefusesToGuess, NothingToIndex, Moves
  <2> QED BY <2>1, <2>2, FailedRow, QuietKeeps DEF Past
<1> QED BY <1>1, <1>2, <1>3

(* The slices are begun and removed.                                       *)
LEMMA AttemptClears ==
    ASSUME MediaInv, NEW e \in Execs, ExtractAudio(e) \/ RemoveWork(e)
    PROVE  MediaInv'
<1>0. /\ work \in WorkRow /\ doc \in DocRow /\ faults \in Nat /\ QueueTypeOK(MediaPcs)
  BY MediaRows, Numbers DEF MediaInv
<1>1. UNCHANGED <<sidecar, ckpt, loop, doc>> /\ UNCHANGED <<kind, texts, faults>>
  BY DEF ExtractAudio, RemoveWork, Moves
<1>2. ReadyIsWhatItSays'
  BY <1>0, <1>1, RowStays
<1>3. CASE ExtractAudio(e)
  <2>1. Moves(e, "started", "cutting") /\ work' = [work EXCEPT !.wav = TRUE]
    BY <1>3 DEF ExtractAudio
  <2>2. work' \in WorkRow /\ work'.slices = work.slices
    BY <1>0, <2>1 DEF WorkRow
  <2> QED BY <1>0, <1>1, <1>2, <2>1, <2>2, QuietKeeps DEF MediaPcs, Past
<1>4. CASE RemoveWork(e)
  <2>1. Moves(e, "final", "extracted") /\ work' = [wav |-> FALSE, slices |-> 0]
    BY <1>4 DEF RemoveWork, Unmade
  <2>2. work' \in WorkRow /\ work'.slices = 0
    BY <2>1, MediaAssumption DEF WorkRow
  <2> QED BY <1>0, <1>1, <1>2, <2>1, <2>2, QuietKeeps DEF MediaPcs, Past
<1> QED BY <1>3, <1>4

(* What is indexed is the finished text, or the text layer with its note.  *)
LEMMA AttemptIndexes ==
    ASSUME MediaInv, NEW e \in Execs, Index(e) \/ IndexTextLayer(e)
    PROVE  MediaInv'
<1>0. /\ work \in WorkRow /\ sidecar \in SidecarRow /\ FinishedIsWhole /\ texts \subseteq Unit
  BY MediaRows DEF MediaInv
<1>1. UNCHANGED <<sidecar, work, ckpt, loop>> /\ UNCHANGED <<kind, texts, faults>>
  BY DEF Index, IndexTextLayer, Moves
<1>2. CASE Index(e)
  <2>1. Finished /\ Moves(e, "extracted", "ok")
    BY <1>2 DEF Index
  <2>2. doc' = [state |-> "ready", note |-> FALSE, layer |-> (kind = "mixed"), segs |-> sidecar.segs]
    BY <1>2 DEF Index, Ready
  <2>3. doc' \in DocRow
    BY <1>0, <2>2 DEF DocRow, SidecarRow
  <2>4. Undisturbed => sidecar.segs = Whole
    BY <1>0, <2>1 DEF FinishedIsWhole
  <2>5. Undisturbed' <=> Undisturbed
    BY <1>1 DEF Undisturbed
  <2>6. ReadyIsWhatItSays'
    BY <1>1, <2>2, <2>4, <2>5, SameFile DEF ReadyIsWhatItSays
  <2> QED BY <1>0, <1>1, <2>1, <2>3, <2>6, QuietKeeps DEF MediaPcs, Past
<1>3. CASE IndexTextLayer(e)
  <2>1. kind = "mixed" /\ Moves(e, "fallback", "ok")
    BY <1>3 DEF IndexTextLayer
  <2>2. doc' = [state |-> "ready", note |-> TRUE, layer |-> TRUE, segs |-> <<>>]
    BY <1>3, <2>1 DEF IndexTextLayer, Ready
  <2>3. <<>> \in Segments
    <3>1. <<>> \in Seq(Unit) /\ Len(<<>>) <= Units
      BY MediaAssumption
    <3> QED BY <3>1, SegmentsAre, Zenon
  <2>4. doc' \in DocRow
    BY <2>2, <2>3 DEF DocRow
  <2>5. ReadyIsWhatItSays'
    BY <2>2 DEF ReadyIsWhatItSays
  <2> QED BY <1>0, <1>1, <2>1, <2>4, <2>5, QuietKeeps DEF MediaPcs, Past
<1> QED BY <1>2, <1>3

---------------------------------------------------------------------------
(* The text grows unit by unit and is written.                             *)

(* What an attempt has in hand.                                            *)
LEMMA InHand ==
    ASSUME MediaInv, NEW e \in Execs
    PROVE  /\ QueueTypeOK(MediaPcs) /\ faults \in Nat /\ texts \subseteq Unit /\ kind \in Kinds
           /\ sidecar \in SidecarRow /\ work \in WorkRow /\ ckpt \in [Jobs -> CkptRow]
           /\ loop \in [Execs -> LoopRow] /\ doc \in DocRow
           /\ loop[e].next \in Nat /\ loop[e].next <= Units /\ Last \in Nat /\ Last <= Units /\ Last > 0
           /\ loop[e].segs \in Seq(Unit)
           /\ att[e] \in {"loop", "heard", "saved"} => loop[e].segs = Heard(loop[e].next) /\ loop[e].next <= Last
           /\ e[1] \in Jobs
<1>1. /\ QueueTypeOK(MediaPcs) /\ texts \subseteq Unit /\ kind \in Kinds
      /\ sidecar \in SidecarRow /\ work \in WorkRow /\ ckpt \in [Jobs -> CkptRow]
      /\ loop \in [Execs -> LoopRow] /\ doc \in DocRow /\ LoopSound(e)
  BY MediaRows DEF MediaInv
<1>2. loop[e].next \in 0..Units /\ loop[e].segs \in Segments
  BY <1>1 DEF LoopRow
<1>3. Last \in Nat /\ Last <= Units /\ Last > 0
  BY MediaAssumption DEF Last
<1> QED BY <1>1, <1>2, <1>3, SegmentsAre, Pairs, Numbers, MediaAssumption DEF LoopSound

(* A text that is the text of some first units may be in hand.             *)
LEMMA HeldRow ==
    ASSUME texts \subseteq Unit, NEW n \in Nat, n <= Units, Heard(n) \in Seq(Unit)
    PROVE  [next |-> n, segs |-> Heard(n)] \in LoopRow /\ Heard(n) \in Segments
<1>1. Len(Heard(n)) = Cardinality(Told(n)) /\ Cardinality(Told(n)) \in Nat /\ Cardinality(Told(n)) <= n
  BY ToldCounts DEF Heard
<1>2. Heard(n) \in Segments
  BY <1>1, SegmentsAre, MediaAssumption
<1>3. n \in 0..Units
  BY MediaAssumption
<1> QED BY <1>2, <1>3 DEF LoopRow

(* A resumed attempt starts from what its checkpoint confirms, any other   *)
(* from nothing.                                                           *)
LEMMA EnteredWith ==
    ASSUME MediaInv, NEW e \in Execs, Enter(e)
    PROVE  \E n \in Nat : /\ n <= Last /\ Heard(n) \in Seq(Unit)
                          /\ loop' = [loop EXCEPT ![e] = [next |-> n, segs |-> Heard(n)]]
<1>0. texts \subseteq Unit /\ sidecar \in SidecarRow /\ ckpt \in [Jobs -> CkptRow] /\ e[1] \in Jobs
  BY InHand
<1>1. CASE ~Resumes(e) \/ ~sidecar.there \/ ~sidecar.readable
  <2>1. loop' = [loop EXCEPT ![e] = [next |-> 0, segs |-> <<>>]]
    BY <1>1 DEF Enter, Reconcile, FromScratch
  <2>2. Heard(0) = <<>> /\ Heard(0) \in Seq(Unit)
    BY <1>0, HeardNothing
  <2>3. loop' = [loop EXCEPT ![e] = [next |-> 0, segs |-> Heard(0)]]
    BY <2>1, <2>2, Zenon
  <2>4. 0 <= Last /\ 0 \in Nat
    BY InHand
  <2> QED BY <2>2, <2>3, <2>4
<1>2. CASE Resumes(e) /\ sidecar.there /\ sidecar.readable
  <2> DEFINE n == ckpt[e[1]].next
             c == ckpt[e[1]].written
  <2>1. loop' = [loop EXCEPT ![e] = [next |-> n, segs |-> SubSeq(sidecar.segs, 1, c)]]
    BY <1>2 DEF Enter, Reconcile
  <2>2. ~(Len(sidecar.segs) < c)
    BY <1>2 DEF Enter, Behind
  <2>3. PICK m \in 0..Units : sidecar.segs = Heard(m)
    BY <1>2 DEF MediaInv, SidecarSound
  <2>4. c = Cardinality(Told(n)) /\ n <= Last /\ n \in Nat
    BY <1>0 DEF MediaInv, Confirmed, CkptRow
  <2>5. Heard(m) \in Seq(Unit) /\ m \in Nat
    BY <1>0, <2>3, SegmentsAre, MediaAssumption DEF SidecarRow
  <2>6. Cardinality(Told(n)) <= Len(Heard(m))
    <3>1. Len(Heard(m)) \in Nat /\ c \in Nat
      BY <1>0, <2>4, <2>5, ToldCounts
    <3> QED BY <2>2, <2>3, <2>4, <3>1
  <2>7. SubSeq(Heard(m), 1, Cardinality(Told(n))) = Heard(n) /\ Heard(n) \in Seq(Unit)
    BY <1>0, <2>4, <2>5, <2>6, HeardBefore
  <2>8. loop' = [loop EXCEPT ![e] = [next |-> n, segs |-> Heard(n)]]
    BY <2>1, <2>3, <2>4, <2>7
  <2> QED BY <2>4, <2>7, <2>8
<1> QED BY <1>1, <1>2

(* A step that changes what one attempt has in hand alone.                 *)
LEMMA HandKeeps ==
    ASSUME MediaInv, NEW e \in Execs, NEW from \in MediaPcs, NEW to \in {"loop", "heard"}, Moves(e, from, to),
           UNCHANGED <<sidecar, work, ckpt, doc>>,
           NEW n \in Nat, n <= Last, Heard(n) \in Seq(Unit), to = "heard" => n > 0,
           loop' = [loop EXCEPT ![e] = [next |-> n, segs |-> Heard(n)]],
           kind = "audio" /\ faults < 2 => work.slices = Units
    PROVE  MediaInv'
<1>0. /\ texts \subseteq Unit /\ faults \in Nat /\ doc \in DocRow /\ sidecar \in SidecarRow
      /\ loop \in [Execs -> LoopRow] /\ work \in WorkRow /\ ckpt \in [Jobs -> CkptRow] /\ n <= Units
  BY InHand, MediaAssumption
<1>1. Goes(e, from, to) /\ UNCHANGED <<job, hooks, faults, kind, texts>>
  BY DEF Moves
<1>2. SidecarSound' /\ FinishedIsWhole' /\ ReadyIsWhatItSays'
  BY <1>0, <1>1, SidecarStays, RowStays
<1>3. [next |-> n, segs |-> Heard(n)] \in LoopRow
  BY <1>0, HeldRow
<1>4. loop' \in [Execs -> LoopRow] /\ loop'[e] = [next |-> n, segs |-> Heard(n)]
  BY <1>0, <1>3
<1>5. att'[e] = to
  BY <1>1, GoesFacts, InHand DEF MediaPcs
<1>6. LoopSound(e)'
  BY <1>1, <1>4, <1>5, SameFile DEF LoopSound
<1>7. to \in MediaPcs \cup {"ok", "bad"} /\ to \in Past
  BY DEF MediaPcs, Past
<1> QED BY <1>0, <1>1, <1>2, <1>4, <1>6, <1>7, AttemptKeeps

(* Slices an attempt transcribes are all there, unless two faults have     *)
(* happened.                                                               *)
LEMMA SlicesThere ==
    ASSUME MediaInv, NEW e \in Execs, kind = "audio", faults < 2,
           \/ Enter(e)
           \/ att[e] \in {"loop", "heard", "saved"}
    PROVE  work.slices = Units
<1>1. CASE att[e] \in {"loop", "heard", "saved"}
  BY <1>1 DEF MediaInv, SlicesSound
<1>2. CASE Enter(e)
  <2>1. att[e] = "started" /\ ckpt[e[1]] # NoCheckpoint /\ work.slices > 0
    BY <1>2 DEF Enter, Moves, Goes, CanReuseSlices, Resuming
  <2>2. work.slices \in {0, Units}
    BY <2>1, AtWork DEF MediaPcs
  <2> QED BY <2>1, <2>2
<1> QED BY <1>1, <1>2

(* The attempt enters its loop, or hears the next unit.                    *)
LEMMA AttemptHears ==
    ASSUME MediaInv, NEW e \in Execs, Enter(e) \/ SlicesCut(e) \/ CallModel(e)
    PROVE  MediaInv'
<1>1. CASE Enter(e)
  <2>1. Moves(e, "started", "loop") /\ UNCHANGED <<sidecar, work, ckpt, doc>>
    BY <1>1 DEF Enter
  <2>2. PICK n \in Nat : /\ n <= Last /\ Heard(n) \in Seq(Unit)
                         /\ loop' = [loop EXCEPT ![e] = [next |-> n, segs |-> Heard(n)]]
    BY <1>1, EnteredWith
  <2> QED BY <1>1, <2>1, <2>2, HandKeeps, SlicesThere DEF MediaPcs
<1>2. CASE SlicesCut(e)
  <2>1. Moves(e, "cutting", "loop") /\ UNCHANGED <<sidecar, work, ckpt, doc>> /\ work.slices = Units
    BY <1>2 DEF SlicesCut
  <2>2. loop' = [loop EXCEPT ![e] = [next |-> 0, segs |-> <<>>]]
    BY <1>2 DEF SlicesCut, FromScratch
  <2>3. Heard(0) = <<>> /\ Heard(0) \in Seq(Unit)
    BY InHand, HeardNothing
  <2>4. loop' = [loop EXCEPT ![e] = [next |-> 0, segs |-> Heard(0)]]
    BY <2>2, <2>3, Zenon
  <2>5. 0 <= Last /\ 0 \in Nat
    BY InHand
  <2>6. "cutting" \in MediaPcs
    BY DEF MediaPcs
  <2> QED BY <2>1, <2>3, <2>4, <2>5, <2>6, HandKeeps
<1>3. CASE CallModel(e)
  <2> DEFINE n == loop[e].next
  <2>1. Moves(e, "loop", "heard") /\ UNCHANGED <<sidecar, work, ckpt, doc>> /\ n < Planned
    BY <1>3 DEF CallModel
  <2>2. att[e] = "loop"
    BY <2>1 DEF Moves, Goes
  <2>3. /\ texts \subseteq Unit /\ n \in Nat /\ work \in WorkRow /\ Last \in Nat /\ Last <= Units
        /\ loop[e].segs = Heard(n) /\ Heard(n) \in Seq(Unit)
    BY <2>2, InHand
  <2>4. Planned <= Last /\ Planned \in Nat
    BY <2>3, MediaAssumption DEF Planned, Last, WorkRow
  <2>5. n + 1 \in Nat /\ n + 1 <= Last /\ n < Units /\ n + 1 > 0
    BY <2>1, <2>3, <2>4, MediaAssumption
  <2>6. Heard(n) \o Text(n + 1) = Heard(n + 1) /\ Heard(n + 1) \in Seq(Unit)
    BY <2>3, <2>5, HeardGoesOn
  <2>7. loop' = [loop EXCEPT ![e] = [next |-> n + 1, segs |-> Heard(n + 1)]]
    BY <1>3, <2>3, <2>6 DEF CallModel
  <2>8. kind = "audio" /\ faults < 2 => work.slices = Units
    BY <2>2, SlicesThere
  <2> QED BY <2>1, <2>5, <2>6, <2>7, <2>8, HandKeeps DEF MediaPcs
<1> QED BY <1>1, <1>2, <1>3

(* What is written into the sidecar is the text in hand; it is called      *)
(* finished when that is the whole text, unless slices were missing.       *)
LEMMA AttemptWrites ==
    ASSUME MediaInv, NEW e \in Execs, WriteSidecar(e) \/ WriteFinal(e)
    PROVE  MediaInv'
<1> DEFINE n == loop[e].next
           done == WriteFinal(e)
<1>0. /\ texts \subseteq Unit /\ faults \in Nat /\ doc \in DocRow /\ QueueTypeOK(MediaPcs)
      /\ loop \in [Execs -> LoopRow] /\ work \in WorkRow /\ ckpt \in [Jobs -> CkptRow]
      /\ Last \in Nat /\ Last <= Units /\ Last > 0
  BY InHand
<1>1. PICK from \in {"loop", "heard"}, to \in {"saved", "final"}, b \in BOOLEAN :
          /\ Moves(e, from, to) /\ (b <=> to = "final")
          /\ b => (from = "heard" /\ kind = "image") \/ (from = "loop" /\ n >= Planned)
          /\ sidecar' = [there |-> TRUE, done |-> b, readable |-> TRUE, segs |-> loop[e].segs]
          /\ UNCHANGED <<work, ckpt, loop, doc>>
  <2>1. CASE WriteSidecar(e)
    BY <2>1 DEF WriteSidecar, Saved
  <2>2. CASE WriteFinal(e)
    <3>1. /\ (loop[e].next >= Planned /\ Moves(e, "loop", "final")) \/ (kind = "image" /\ Moves(e, "heard", "final"))
          /\ sidecar' = [there |-> TRUE, done |-> TRUE, readable |-> TRUE, segs |-> loop[e].segs]
          /\ UNCHANGED <<work, ckpt, loop, doc>>
      BY <2>2 DEF WriteFinal, Saved
    <3>2. CASE loop[e].next >= Planned /\ Moves(e, "loop", "final")
      BY <3>1, <3>2
    <3>3. CASE kind = "image" /\ Moves(e, "heard", "final")
      BY <3>1, <3>3
    <3> QED BY <3>1, <3>2, <3>3
  <2> QED BY <2>1, <2>2
<1>2. Goes(e, from, to) /\ UNCHANGED <<job, hooks, faults, kind, texts>>
  BY <1>1 DEF Moves
<1>3. att[e] = from /\ att'[e] = to
  BY <1>0, <1>2, GoesFacts DEF MediaPcs
<1>4. /\ loop[e].segs = Heard(n) /\ n <= Last /\ n \in Nat /\ Heard(n) \in Seq(Unit)
      /\ from = "heard" => n > 0
  BY <1>3, InHand DEF MediaInv, LoopSound
<1>5. Heard(n) \in Segments /\ n \in 0..Units
  <2>1. n <= Units /\ n \in 0..Units
    BY <1>0, <1>4, MediaAssumption
  <2> QED BY <1>0, <1>4, <2>1, HeldRow
<1>6. sidecar' \in SidecarRow /\ sidecar'.segs = Heard(n) /\ sidecar'.done = b
  BY <1>1, <1>4, <1>5 DEF SidecarRow
<1>7. SidecarSound'
  BY <1>2, <1>5, <1>6, SameFile DEF SidecarSound
<1>8. kind = "audio" /\ faults < 2 => work.slices = Units
  BY <1>3, SlicesThere
<1>9. FinishedIsWhole'
  <2>1. ASSUME b, Undisturbed PROVE n = Last
    <3>1. CASE from = "heard" /\ kind = "image"
      BY <1>0, <1>4, <3>1, MediaAssumption DEF Last
    <3>2. CASE from = "loop" /\ n >= Planned
      <4>1. Planned = Last
        BY <1>8, <2>1 DEF Planned, Last, Undisturbed
      <4> QED BY <1>0, <1>4, <3>2, <4>1
    <3> QED BY <1>1, <2>1, <3>1, <3>2
  <2>2. Undisturbed' <=> Undisturbed
    BY <1>2 DEF Undisturbed
  <2>3. Finished' => b
    BY <1>6 DEF Finished
  <2> QED BY <1>2, <1>6, <2>1, <2>2, <2>3, SameFile DEF FinishedIsWhole, Whole
<1>10. ReadyIsWhatItSays'
  BY <1>0, <1>1, <1>2, RowStays
<1>11. LoopSound(e)'
  <2>1. to = "final" \/ to = "saved"
    OBVIOUS
  <2>2. CASE to = "final"
    BY <1>3, <2>2 DEF LoopSound
  <2>3. CASE to = "saved"
    BY <1>1, <1>2, <1>3, <1>4, <2>3, SameFile DEF LoopSound
  <2> QED BY <2>1, <2>2, <2>3
<1>12. from \in MediaPcs \cup {"claimed"} /\ to \in MediaPcs \cup {"ok", "bad"} /\ to \in Past
  BY DEF MediaPcs, Past
<1> QED BY <1>0, <1>1, <1>2, <1>6, <1>7, <1>8, <1>9, <1>10, <1>11, <1>12, AttemptKeeps

(* A checkpoint confirms the text in hand.                                 *)
LEMMA AttemptConfirms ==
    ASSUME MediaInv, NEW e \in Execs, Checkpoint(e)
    PROVE  MediaInv'
<1> DEFINE n == loop[e].next
<1>0. /\ texts \subseteq Unit /\ faults \in Nat /\ doc \in DocRow /\ QueueTypeOK(MediaPcs)
      /\ loop \in [Execs -> LoopRow] /\ work \in WorkRow /\ ckpt \in [Jobs -> CkptRow]
      /\ sidecar \in SidecarRow /\ e[1] \in Jobs
  BY InHand
<1>1. Moves(e, "saved", "loop") /\ UNCHANGED <<sidecar, work, loop, doc>>
  BY DEF Checkpoint
<1>2. Goes(e, "saved", "loop") /\ UNCHANGED <<job, hooks, faults, kind, texts>>
  BY <1>1 DEF Moves
<1>3. att[e] = "saved" /\ att'[e] = "loop"
  BY <1>0, <1>2, GoesFacts DEF MediaPcs
<1>4. loop[e].segs = Heard(n) /\ n <= Last /\ n \in Nat /\ n <= Units
  BY <1>3, InHand
<1>5. Holds(e)
  BY <1>3, AtWork DEF MediaInv, ExecutingHolds, MediaPcs
<1>6. Len(loop[e].segs) = Cardinality(Told(n)) /\ Cardinality(Told(n)) \in Nat /\ Cardinality(Told(n)) <= n
  BY <1>0, <1>4, ToldCounts DEF Heard
<1>7. ckpt' = [ckpt EXCEPT ![e[1]] = [next |-> n, written |-> Cardinality(Told(n))]]
  BY <1>5, <1>6 DEF Checkpoint
<1>8. [next |-> n, written |-> Cardinality(Told(n))] \in CkptRow
  BY <1>4, <1>6, MediaAssumption DEF CkptRow
<1>9. /\ ckpt' \in [Jobs -> CkptRow] /\ \A j \in Jobs : j # e[1] => ckpt'[j] = ckpt[j]
      /\ ckpt'[e[1]] = [next |-> n, written |-> Cardinality(Told(n))]
  BY <1>0, <1>7, <1>8
<1>10. Confirmed(e[1])'
  <2>1. job'[e[1]].state # "absent"
    BY <1>2, <1>5 DEF Holds
  <2> QED BY <1>2, <1>4, <1>9, <2>1, SameFile DEF Confirmed
<1>11. SidecarSound' /\ FinishedIsWhole' /\ ReadyIsWhatItSays'
  BY <1>0, <1>1, <1>2, SidecarStays, RowStays
<1>12. LoopSound(e)'
  BY <1>1, <1>2, <1>3, <1>4, SameFile DEF LoopSound
<1>13. kind = "audio" /\ faults < 2 => work'.slices = Units
  BY <1>1, <1>3, SlicesThere
<1>14. "saved" \in MediaPcs \cup {"claimed"} /\ "loop" \in MediaPcs \cup {"ok", "bad"} /\ "loop" \in Past
  BY DEF MediaPcs, Past
<1> QED BY <1>0, <1>1, <1>2, <1>9, <1>10, <1>11, <1>12, <1>13, <1>14, AttemptKeeps

---------------------------------------------------------------------------
(* The steps that are not an attempt's own.                                *)

(* ffmpeg writes a slice: the attempt that cuts is the only one at work.   *)
LEMMA AttemptCuts ==
    ASSUME MediaInv, NEW e \in Execs, CutSlice(e)
    PROVE  MediaInv'
<1>0. /\ QueueTypeOK(MediaPcs) /\ ClaimsCounted /\ ExecutingHolds /\ OneLive /\ faults \in Nat
      /\ kind \in Kinds /\ texts \subseteq Unit /\ work \in WorkRow /\ sidecar \in SidecarRow
      /\ ckpt \in [Jobs -> CkptRow] /\ loop \in [Execs -> LoopRow] /\ doc \in DocRow
  BY MediaRows, Numbers DEF MediaInv
<1>1. /\ att[e] = "cutting" /\ work.slices < Units /\ work' = [work EXCEPT !.slices = work.slices + 1]
      /\ UNCHANGED <<job, att, hooks, faults>> /\ UNCHANGED <<kind, texts, sidecar, ckpt, loop, doc>>
  BY DEF CutSlice, queueVars
<1>2. work' \in WorkRow
  BY <1>0, <1>1, MediaAssumption DEF WorkRow
<1>3. QueueTypeOK(MediaPcs)' /\ ClaimsCounted' /\ ExecutingHolds' /\ OneLive'
  BY <1>0, <1>1 DEF QueueTypeOK, ClaimsCounted, ExecutingHolds, Executing, Holds, OneLive, Live
<1>4. MediaTypeOK'
  BY <1>0, <1>1, <1>2, <1>3, MediaRows DEF MediaTypeOK, SidecarRow, WorkRow, CkptRow, LoopRow, DocRow
<1>5. SidecarSound' /\ FinishedIsWhole' /\ ReadyIsWhatItSays'
  BY <1>0, <1>1, SidecarStays, RowStays
<1>6. \A j \in Jobs : Confirmed(j)'
  BY <1>1, SameFile DEF MediaInv, Confirmed
<1>7. \A f \in Execs : LoopSound(f)'
  BY <1>1, SameFile DEF MediaInv, LoopSound
<1>8. Executing(e) /\ Live(e[1]) /\ e[1] \in Jobs
  BY <1>1, AtWork DEF MediaPcs
<1>9. SlicesSound'
  <2>1. ASSUME NEW f \in Execs, att'[f] \in {"loop", "heard", "saved"} PROVE FALSE
    <3>1. Executing(f) /\ att[f] # "cutting"
      BY <1>1, <2>1 DEF Executing
    <3> QED BY <1>0, <1>1, <1>8, <3>1, OnlyAttempt
  <2>2. ASSUME NEW j \in Jobs, Live(j)' PROVE att'[<<j, e[2]>>] = "cutting" /\ e[2] \in Tries
    <3>1. j = e[1]
      BY <1>0, <1>1, <1>8, <2>2 DEF OneLive, Live
    <3> QED BY <1>1, <3>1, Pairs
  <2> QED BY <2>1, <2>2 DEF SlicesSound
<1>10. FirstAttempt'
  BY <1>1 DEF MediaInv, FirstAttempt, Live, NoCheckpoint
<1> QED BY <1>3, <1>4, <1>5, <1>6, <1>7, <1>9, <1>10 DEF MediaInv

(* A job is enqueued when none is live: it has no checkpoint.              *)
LEMMA EnqueueKeeps ==
    ASSUME MediaInv, NEW j \in Jobs, EnqueueIngest(j)
    PROVE  MediaInv'
<1>0. /\ QueueTypeOK(MediaPcs) /\ ClaimsCounted /\ ExecutingHolds /\ OneLive /\ faults \in Nat
      /\ kind \in Kinds /\ texts \subseteq Unit /\ work \in WorkRow /\ sidecar \in SidecarRow
      /\ ckpt \in [Jobs -> CkptRow] /\ loop \in [Execs -> LoopRow] /\ doc \in DocRow
  BY MediaRows, Numbers DEF MediaInv
<1>1. /\ Enqueued(j) /\ \A i \in Jobs : ~Live(i)
      /\ UNCHANGED <<att, hooks, faults>> /\ UNCHANGED <<kind, texts, sidecar, work, ckpt, loop>>
      /\ doc' = [doc EXCEPT !.state = "pending", !.note = FALSE]
  BY DEF EnqueueIngest, Live
<1>2. /\ QueueTypeOK(MediaPcs)' /\ ClaimsCounted' /\ ExecutingHolds'
      /\ job'[j].state = "queued" /\ \A i \in Jobs : i # j => job'[i] = job[i]
  BY <1>0, <1>1, EnqueueStep
<1>3. doc' \in DocRow /\ doc'.state # "ready"
  BY <1>0, <1>1 DEF DocRow
<1>4. MediaTypeOK'
  BY <1>0, <1>1, <1>2, <1>3, MediaRows DEF MediaTypeOK, SidecarRow, WorkRow, CkptRow, LoopRow, DocRow
<1>5. SidecarSound' /\ FinishedIsWhole' /\ ReadyIsWhatItSays'
  BY <1>0, <1>1, <1>3, SidecarStays, RowStays
<1>6. \A i \in Jobs : Live(i)' => i = j
  BY <1>1, <1>2 DEF Live
<1>7. OneLive'
  BY <1>6 DEF OneLive
<1>8. ckpt'[j] = NoCheckpoint
  BY <1>1 DEF MediaInv, Confirmed, Enqueued
<1>9. \A i \in Jobs : Confirmed(i)'
  <2>1. ASSUME NEW i \in Jobs PROVE Confirmed(i)'
    <3>1. Confirmed(i) /\ (job'[i].state = "absent" => job[i].state = "absent")
      BY <1>2 DEF MediaInv
    <3> QED BY <1>1, <3>1, SameFile DEF Confirmed, NoCheckpoint
  <2> QED BY <2>1
<1>10. \A e \in Execs : LoopSound(e)'
  BY <1>1, SameFile DEF MediaInv, LoopSound
<1>11. ASSUME NEW e \in Execs, att'[e] \in {"loop", "heard", "saved"} PROVE FALSE
  <2>1. Live(e[1]) /\ e[1] \in Jobs
    BY <1>1, <1>11, AtWork DEF MediaPcs
  <2> QED BY <1>1, <2>1
<1>12. \A i \in Jobs : Live(i)' => ckpt'[i] = NoCheckpoint
  BY <1>6, <1>8
<1>13. SlicesSound' /\ FirstAttempt'
  BY <1>11, <1>12 DEF SlicesSound, FirstAttempt, NoCheckpoint
<1> QED BY <1>2, <1>4, <1>5, <1>7, <1>9, <1>10, <1>13 DEF MediaInv

(* A hook fails the row, or a written sidecar is lost.                     *)
LEMMA OutsideKeeps ==
    ASSUME MediaInv, SidecarLost \/ \E j \in Jobs : OnIngestTerminal(j)
    PROVE  MediaInv'
<1>0. /\ QueueTypeOK(MediaPcs) /\ ClaimsCounted /\ ExecutingHolds /\ OneLive /\ faults \in Nat
      /\ kind \in Kinds /\ texts \subseteq Unit /\ work \in WorkRow /\ sidecar \in SidecarRow
      /\ ckpt \in [Jobs -> CkptRow] /\ loop \in [Execs -> LoopRow] /\ doc \in DocRow
      /\ hooks \subseteq Jobs
  BY MediaRows, Numbers DEF MediaInv, QueueTypeOK
<1>1. /\ UNCHANGED <<job, att>> /\ hooks' \subseteq Jobs
      /\ Faulty \/ UNCHANGED faults
      /\ UNCHANGED <<kind, texts, work, ckpt, loop>>
  BY <1>0 DEF SidecarLost, OnIngestTerminal, HookRuns
<1>2. faults' \in Nat /\ faults' >= faults
  BY <1>0, <1>1 DEF Faulty
<1>3. QueueTypeOK(MediaPcs)' /\ ClaimsCounted' /\ ExecutingHolds'
  BY <1>0, <1>1, OtherStep
<1>4. /\ sidecar' \in SidecarRow /\ doc' \in DocRow /\ SidecarSound' /\ FinishedIsWhole' /\ ReadyIsWhatItSays'
  <2>1. CASE SidecarLost
    <3>1. /\ sidecar' = [sidecar EXCEPT !.readable = FALSE] /\ UNCHANGED doc /\ sidecar.there
      BY <2>1 DEF SidecarLost
    <3>2. sidecar' \in SidecarRow /\ sidecar'.readable = FALSE /\ sidecar'.segs = sidecar.segs
      BY <1>0, <3>1 DEF SidecarRow
    <3>3. SidecarSound'
      BY <1>1, <3>1, <3>2, SameFile DEF MediaInv, SidecarSound
    <3>4. FinishedIsWhole'
      BY <3>2 DEF FinishedIsWhole, Finished
    <3> QED BY <1>0, <1>1, <1>2, <3>1, <3>2, <3>3, <3>4, RowStays
  <2>2. CASE \E j \in Jobs : OnIngestTerminal(j)
    <3>1. /\ doc' = doc \/ doc' = [doc EXCEPT !.state = "failed"]
          /\ UNCHANGED sidecar
      BY <2>2 DEF OnIngestTerminal
    <3>2. doc' \in DocRow /\ (doc' = doc \/ doc'.state # "ready")
      BY <1>0, <3>1 DEF DocRow
    <3> QED BY <1>0, <1>1, <1>2, <3>1, <3>2, SidecarStays, RowStays
  <2> QED BY <2>1, <2>2
<1>5. MediaTypeOK'
  BY <1>0, <1>1, <1>3, <1>4, MediaRows DEF MediaTypeOK, SidecarRow, WorkRow, CkptRow, LoopRow, DocRow
<1>6. OneLive' /\ \A j \in Jobs : Live(j)' <=> Live(j)
  BY <1>0, <1>1 DEF OneLive, Live
<1>7. \A j \in Jobs : Confirmed(j)'
  BY <1>1, SameFile DEF MediaInv, Confirmed, NoCheckpoint
<1>8. \A e \in Execs : LoopSound(e)'
  BY <1>1, SameFile DEF MediaInv, LoopSound
<1>9. kind' = "audio" /\ faults' < 2 => SlicesSound'
  BY <1>0, <1>1, <1>2, <1>6 DEF MediaInv, SlicesSound, NoCheckpoint
<1>10. FirstAttempt'
  BY <1>0, <1>1, <1>2, <1>6 DEF MediaInv, FirstAttempt, NoCheckpoint
<1> QED BY <1>3, <1>4, <1>5, <1>6, <1>7, <1>8, <1>9, <1>10 DEF MediaInv

(* The queue's own steps: a job loses its attempt to a fault alone.        *)
LEMMA QueueKeeps ==
    ASSUME MediaInv, ~Late, MediaQueueMoves
    PROVE  MediaInv'
<1>0. /\ QueueTypeOK(MediaPcs) /\ ClaimsCounted /\ ExecutingHolds /\ OneLive /\ faults \in Nat
      /\ kind \in Kinds /\ texts \subseteq Unit /\ work \in WorkRow /\ sidecar \in SidecarRow
      /\ ckpt \in [Jobs -> CkptRow] /\ loop \in [Execs -> LoopRow] /\ doc \in DocRow
  BY MediaRows, Numbers DEF MediaInv
<1>1. QueueStep /\ UNCHANGED <<kind, texts, sidecar, work, ckpt, loop, doc>>
  BY DEF MediaQueueMoves, mediaVars
<1>2. QueueTypeOK(MediaPcs)' /\ ClaimsCounted' /\ ExecutingHolds' /\ OnlyTold
  BY <1>0, <1>1, QueueTypeStep, QueueHoldsStep, EndsAreTold
<1>3. /\ Faulty \/ UNCHANGED faults
      /\ UNCHANGED faults => \A e \in Execs : Executing(e) =>
            \/ att'[e] = att[e] /\ job'[e[1]] = job[e[1]]
            \/ att[e] \in {"ok", "bad", "claimed"} /\ job'[e[1]].state \in Ended
  BY <1>0, <1>1, NoFaultNoLoss
<1>4. faults' \in Nat /\ faults' >= faults /\ (~UNCHANGED faults => faults' = faults + 1)
  BY <1>0, <1>3 DEF Faulty
<1>5. MediaTypeOK'
  BY <1>0, <1>1, <1>2, MediaRows DEF MediaTypeOK, SidecarRow, WorkRow, CkptRow, LoopRow, DocRow
<1>6. SidecarSound' /\ FinishedIsWhole' /\ ReadyIsWhatItSays'
  BY <1>0, <1>1, <1>4, SidecarStays, RowStays
<1>7. \A j \in Jobs : /\ Live(j)' => Live(j)
                      /\ job'[j].state = "absent" => job[j].state = "absent"
  <2>1. ASSUME NEW j \in Jobs, Live(j)' PROVE Live(j)
    <3>1. job[j].state \in {"absent", "queued", "running"} \cup Ended
      BY <1>0 DEF QueueTypeOK, JobRow
    <3>2. job[j].state # "absent" /\ job[j].state \notin Ended
      BY <1>2, <2>1 DEF OnlyTold, Live, Ended
    <3> QED BY <3>1, <3>2 DEF Live
  <2> QED BY <1>2, <2>1 DEF OnlyTold
<1>8. OneLive'
  BY <1>0, <1>7 DEF OneLive
<1>9. \A j \in Jobs : Confirmed(j)'
  BY <1>1, <1>7, SameFile DEF MediaInv, Confirmed, NoCheckpoint
<1>10. \A e \in Execs : att'[e] \in {"loop", "heard", "saved"} => att'[e] = att[e]
  BY <1>2 DEF OnlyTold
<1>11. \A e \in Execs : LoopSound(e)'
  BY <1>1, <1>10, SameFile DEF MediaInv, LoopSound
<1>12. ASSUME kind' = "audio", faults' < 2 PROVE SlicesSound'
  <2>1. SlicesSound
    BY <1>0, <1>1, <1>4, <1>12 DEF MediaInv
  <2>2. \A e \in Execs : att'[e] \in {"loop", "heard", "saved"} => work'.slices = Units
    BY <1>1, <1>10, <2>1 DEF SlicesSound
  <2>3. ASSUME NEW j \in Jobs, Live(j)', ckpt'[j] # NoCheckpoint, work'.slices \notin {0, Units}
        PROVE  \E t \in Tries : att'[<<j, t>>] = "cutting"
    <3>1. Live(j) /\ ckpt[j] # NoCheckpoint
      BY <1>1, <1>7, <2>3
    <3>2. PICK t \in Tries : att[<<j, t>>] = "cutting"
      BY <1>1, <2>1, <2>3, <3>1 DEF SlicesSound
    <3>3. <<j, t>> \in Execs /\ Executing(<<j, t>>) /\ <<j, t>>[1] = j
      BY <3>2, Pairs DEF Executing
    <3>4. CASE UNCHANGED faults
      BY <1>3, <3>2, <3>3, <3>4
    <3>5. CASE ~UNCHANGED faults
      <4>1. faults = 0
        BY <1>0, <1>4, <1>12, <3>5
      <4>2. att[<<j, t>>] \in Past
        BY <3>1, <3>2, <3>3, <4>1, AtWork DEF MediaPcs
      <4> QED BY <3>2, <4>2 DEF Past
    <3> QED BY <3>4, <3>5
  <2> QED BY <2>2, <2>3 DEF SlicesSound, NoCheckpoint
<1>13. FirstAttempt'
  <2>1. ASSUME faults' = 0, NEW j \in Jobs, Live(j)', ckpt'[j] # NoCheckpoint
        PROVE  \E t \in Tries : att'[<<j, t>>] \in Past
    <3>1. faults = 0 /\ UNCHANGED faults /\ Live(j) /\ ckpt[j] # NoCheckpoint
      BY <1>0, <1>1, <1>4, <1>7, <2>1
    <3>2. PICK t \in Tries : att[<<j, t>>] \in Past
      BY <3>1 DEF MediaInv, FirstAttempt
    <3>3. <<j, t>> \in Execs /\ Executing(<<j, t>>) /\ <<j, t>>[1] = j
      BY <3>2, Pairs DEF Executing, Past
    <3>4. job'[j].state \notin Ended
      BY <2>1 DEF Live, Ended
    <3>5. att'[<<j, t>>] = att[<<j, t>>]
      BY <1>3, <3>1, <3>3, <3>4
    <3> QED BY <3>2, <3>5
  <2> QED BY <2>1 DEF FirstAttempt, NoCheckpoint
<1> QED BY <1>2, <1>5, <1>6, <1>8, <1>9, <1>11, <1>12, <1>13 DEF MediaInv

(* No job, no text: the invariant holds at first.                          *)
LEMMA MediaStart == MediaInit => MediaInv
<1> SUFFICES ASSUME MediaInit PROVE MediaInv
  OBVIOUS
<1>1. QueueTypeOK(MediaPcs) /\ ClaimsCounted /\ ExecutingHolds
  BY QueueTypeInit DEF MediaInit
<1>2. /\ kind \in Kinds /\ texts \subseteq Unit /\ faults = 0
      /\ sidecar = NoSidecar /\ work = Unmade /\ ckpt = [j \in Jobs |-> NoCheckpoint]
      /\ loop = [e \in Execs |-> [next |-> 0, segs |-> <<>>]]
      /\ doc = [state |-> "pending", note |-> FALSE, layer |-> FALSE, segs |-> <<>>]
      /\ \A j \in Jobs : ~Live(j)
      /\ \A e \in Execs : att[e] = "none"
  BY DEF MediaInit, QueueInit, Live
<1>3. Heard(0) = <<>> /\ Heard(0) \in Seq(Unit)
  BY <1>2, HeardNothing
<1>4. [next |-> 0, segs |-> <<>>] \in LoopRow /\ <<>> \in Segments
  <2>1. [next |-> 0, segs |-> Heard(0)] \in LoopRow /\ Heard(0) \in Segments
    BY <1>2, <1>3, HeldRow, MediaAssumption
  <2> QED BY <1>3, <2>1, Zenon
<1>5. sidecar \in SidecarRow /\ doc \in DocRow
  BY <1>2, <1>4 DEF SidecarRow, DocRow, NoSidecar
<1>6. work \in WorkRow /\ ckpt \in [Jobs -> CkptRow] /\ loop \in [Execs -> LoopRow]
  BY <1>2, <1>4, MediaAssumption DEF WorkRow, CkptRow, Unmade, NoCheckpoint
<1>7. MediaTypeOK
  BY <1>1, <1>2, <1>5, <1>6, MediaRows
<1>8. OneLive
  BY <1>2 DEF OneLive
<1>9. ASSUME NEW j \in Jobs PROVE Confirmed(j)
  <2>1. ckpt[j] = NoCheckpoint /\ Cardinality(Told(0)) = 0 /\ 0 <= Last
    BY <1>2, ToldCounts, MediaAssumption DEF Last
  <2> QED BY <2>1 DEF Confirmed, NoCheckpoint
<1>10. \A e \in Execs : LoopSound(e)
  BY <1>2 DEF LoopSound
<1>11. SidecarSound /\ FinishedIsWhole /\ ReadyIsWhatItSays
  BY <1>2 DEF SidecarSound, FinishedIsWhole, ReadyIsWhatItSays, Finished, NoSidecar
<1>12. SlicesSound /\ FirstAttempt
  BY <1>2 DEF SlicesSound, FirstAttempt
<1> QED BY <1>1, <1>7, <1>8, <1>9, <1>10, <1>11, <1>12 DEF MediaInv

(* Every step keeps it.                                                    *)
LEMMA MediaGoes == ~Late /\ MediaInv /\ [MediaNext]_ingestVars => MediaInv'
<1> SUFFICES ASSUME ~Late, MediaInv, [MediaNext]_ingestVars PROVE MediaInv'
  OBVIOUS
<1>1. ASSUME NEW e \in Execs, MediaStep(e) PROVE MediaInv'
  BY <1>1, AttemptGoes, AttemptClears, AttemptIndexes, AttemptHears, AttemptWrites, AttemptConfirms,
     AttemptCuts DEF MediaStep
<1>2. ASSUME NEW j \in Jobs, EnqueueIngest(j) \/ OnIngestTerminal(j) PROVE MediaInv'
  BY <1>2, EnqueueKeeps, OutsideKeeps
<1>3. ASSUME SidecarLost \/ MediaQueueMoves PROVE MediaInv'
  BY <1>3, OutsideKeeps, QueueKeeps
<1>4. CASE UNCHANGED ingestVars
  <2>1. UNCHANGED <<job, att, hooks, faults>> /\ UNCHANGED <<kind, texts, sidecar, work, ckpt, loop, doc>>
    BY <1>4 DEF ingestVars, queueVars, mediaVars
  <2>2. MediaTypeOK' /\ ClaimsCounted' /\ ExecutingHolds' /\ OneLive'
    BY <2>1, SameFile DEF MediaInv, MediaTypeOK, QueueTypeOK, ClaimsCounted, ExecutingHolds, Executing, Holds,
       OneLive, Live
  <2>3. (\A j \in Jobs : Confirmed(j)') /\ (\A e \in Execs : LoopSound(e)')
    BY <2>1, SameFile DEF MediaInv, Confirmed, LoopSound, NoCheckpoint
  <2>4. SidecarSound' /\ FinishedIsWhole' /\ ReadyIsWhatItSays'
    <3>1. faults \in Nat
      BY MediaRows, Numbers DEF MediaInv
    <3> QED BY <2>1, <3>1, SidecarStays, RowStays
  <2>5. (kind' = "audio" /\ faults' < 2 => SlicesSound') /\ FirstAttempt'
    BY <2>1 DEF MediaInv, SlicesSound, FirstAttempt, Live, NoCheckpoint
  <2> QED BY <2>2, <2>3, <2>4, <2>5 DEF MediaInv
<1> QED BY <1>1, <1>2, <1>3, <1>4 DEF MediaNext

---------------------------------------------------------------------------
(* What the rest of the program may rely on.                               *)

(* For any units, jobs and faults the tables keep their types: no index or *)
(* count goes past the units there are.                                    *)
THEOREM MediaTypeCorrect == ASSUME ~Late PROVE MediaSpec => []MediaTypeOK
<1>1. MediaInv => MediaTypeOK
  BY DEF MediaInv
<1> QED BY <1>1, MediaStart, MediaGoes, PTL DEF MediaSpec

(* A finished sidecar holds the text of every unit once and in order: what *)
(* an attempt appended and did not confirm is cut off by the next, and what *)
(* it confirmed is never behind its text; a recording needs the slices of  *)
(* its first attempt, which one fault does not lose.                       *)
THEOREM SidecarsAreWhole == ASSUME ~Late PROVE MediaSpec => []FinishedIsWhole
<1>1. MediaInv => FinishedIsWhole
  BY DEF MediaInv
<1> QED BY <1>1, MediaStart, MediaGoes, PTL DEF MediaSpec

(* A READY document is searchable by all of its text, or by its text layer *)
(* alone with the note about the skipped pages.                            *)
THEOREM ReadyDocumentsAreWhole == ASSUME ~Late PROVE MediaSpec => []ReadyIsWhatItSays
<1>1. MediaInv => ReadyIsWhatItSays
  BY DEF MediaInv
<1> QED BY <1>1, MediaStart, MediaGoes, PTL DEF MediaSpec
================================================================================
