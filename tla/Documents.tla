-------------------------------- MODULE Documents --------------------------------
(***************************************************************************)
(* The library's documents (tools/rag): a file arrives at one path of the  *)
(* watched inbox, a request stages it (row, managed copy) and enqueues a   *)
(* rag.ingest job, attempts of that job index the copy, and the row's      *)
(* status says how far it got.  Nothing serialises these: the request      *)
(* spans a transaction and file operations it cannot roll back, the        *)
(* attempts write the row without asking whether they still hold the job.  *)
(* The queue is the one JobLifecycle promises, no better.                  *)
(*                                                                         *)
(* A version stands for the bytes of the file and for their SHA-256.       *)
(***************************************************************************)
EXTENDS Naturals, FiniteSets, FiniteSetsExt

CONSTANTS
    Docs,           \* primary keys, in the order they are given out
    Versions,       \* contents the file at the path may have
    Jobs,           \* rag.ingest jobs, in the order they are enqueued
    Requests,       \* web requests and the watcher thread
    Tabular,        \* TRUE: a .csv/.xlsx path, FALSE: a prose one
    Late,           \* TRUE: an attempt may outlive its claim
    RequestsDie,    \* TRUE: the process of a request may be killed
    MaxFaults,      \* bound on killed processes and drains
    MaxArrivals     \* bound on files written into the inbox

ASSUME NumbersAssumption ==
    /\ Docs \subseteq Nat \ {0} /\ IsFiniteSet(Docs)
    /\ Versions \subseteq Nat \ {0} /\ IsFiniteSet(Versions)
    /\ Jobs \subseteq Nat \ {0} /\ IsFiniteSet(Jobs)
    /\ MaxFaults \in Nat /\ MaxArrivals \in Nat

ASSUME FlagsAssumption == {Tabular, Late, RequestsDie} \subseteq BOOLEAN

VARIABLES
    inbox,      \* the file at the path, 0 for none
    doc,        \* Document rows
    file,       \* the managed copy of each document, 0 for none
    copies,     \* how many times each version's passages are in the index
    req,        \* control state of each request
    job,        \* InferenceJob rows of kind rag.ingest
    exec,       \* executions of run_ingest
    hooks,      \* terminal jobs whose on_terminal is scheduled
    faults,     \* faults so far
    arrivals,   \* files written so far
    met         \* history: documents at which two met, or whose new file was taken
                \* away while they were staged

vars == <<inbox, doc, file, copies, req, job, exec, hooks, faults, arrivals, met>>

---------------------------------------------------------------------------
(* Types.                                                                  *)

Live == {"pending", "processing", "ready", "failed"}
Unfinished == {"pending", "processing"}

Document == [status : Live \cup {"absent", "deleted"}, file_hash : Versions \cup {0}]

RequestStates ==
    {"idle", "written", "compared", "hashed", "unlink", "found", "cleared", "new", "raced",
     "staged", "reload", "delete_chunks", "delete_files", "delete_row"}

\* A reupload is an upload that found its own bytes at the path (dest_unchanged).
Doors == {"upload", "reupload", "watcher", "page"}

Request ==
    [pc : RequestStates, door : Doors,
     doc : Docs \cup {0}, hash : Versions \cup {0}]

JobStates == {"absent", "queued", "running", "succeeded", "failed", "cancelled"}

\* An attempt is named by its job and the ordinal of the claim.
Tries == 1..(2 + MaxFaults)
Execs == Jobs \X Tries

Job ==
    [state : JobStates, doc : Docs \cup {0}, sha : Versions \cup {0},
     tries : {0} \cup Tries, lost : 0..1, outcome : {0} \cup Tries]

ExecStates ==
    {"none", "claimed", "marked", "checked", "read", "emptied",
     "indexed", "ok", "raised", "bad", "over"}

Exec == [pc : ExecStates, got : Versions \cup {0}]

TypeOK ==
    /\ inbox \in Versions \cup {0}
    /\ doc \in [Docs -> Document]
    /\ file \in [Docs -> Versions \cup {0}]
    /\ copies \in [Docs -> [Versions -> Nat]]
    /\ req \in [Requests -> Request]
    /\ job \in [Jobs -> Job]
    /\ exec \in [Execs -> Exec]
    /\ hooks \subseteq Jobs
    /\ faults \in 0..MaxFaults
    /\ arrivals \in 0..MaxArrivals
    /\ met \subseteq Docs

NoCopies == [v \in Versions |-> 0]

\* A request at pc, about document d and content h.
At(pc, door, d, h) == [pc |-> pc, door |-> door, doc |-> d, hash |-> h]
Idle == At("idle", "page", 0, 0)

\* A job's row with new bookkeeping and its payload unchanged.
Row(x, state, tries, lost, outcome) ==
    [state |-> state, doc |-> x.doc, sha |-> x.sha,
     tries |-> tries, lost |-> lost, outcome |-> outcome]

NoJob ==
    [state |-> "absent", doc |-> 0, sha |-> 0, tries |-> 0, lost |-> 0, outcome |-> 0]

Init ==
    /\ inbox = 0
    /\ doc = [d \in Docs |-> [status |-> "absent", file_hash |-> 0]]
    /\ file = [d \in Docs |-> 0]
    /\ copies = [d \in Docs |-> NoCopies]
    /\ req = [r \in Requests |-> Idle]
    /\ job = [j \in Jobs |-> NoJob]
    /\ exec = [e \in Execs |-> [pc |-> "none", got |-> 0]]
    /\ hooks = {}
    /\ faults = 0
    /\ arrivals = 0
    /\ met = {}

---------------------------------------------------------------------------
(* Who is busy with what.                                                  *)

Rows == {d \in Docs : doc[d].status \in Live}

\* document_at_path: the first row with this original_path.
DocumentAtPath == IF Rows = {} THEN 0 ELSE Min(Rows)

DocOf(e) == job[e[1]].doc
ShaOf(e) == job[e[1]].sha

Executing(e) == exec[e].pc \notin {"none", "over"}
HolderGone(j) == exec[<<j, job[j].tries>>].pc = "over"
Holds(e) == job[e[1]].state = "running" /\ job[e[1]].tries = e[2]

BeingIngested(d) ==
    \/ \E j \in Jobs : job[j].doc = d /\ job[j].state \in {"queued", "running"}
    \/ \E e \in Execs : Executing(e) /\ DocOf(e) = d

\* Request r comes to document d, where an attempt or another request may be;
\* met remembers that and restrains nobody.
ComesTo(r, d) ==
    met' = IF BeingIngested(d) \/ \E s \in Requests : s # r /\ req[s].doc = d THEN met \cup {d} ELSE met

Faulty == faults < MaxFaults /\ faults' = faults + 1

\* Every request may end in one more job.
Started == {j \in Jobs : job[j].state # "absent"}
MayStart ==
    Cardinality(Started) + Cardinality({r \in Requests : req[r].pc # "idle"}) < Cardinality(Jobs)

Goes(r, pc) == req' = [req EXCEPT ![r] = At(pc, req[r].door, req[r].doc, req[r].hash)]
Ends(r) == req' = [req EXCEPT ![r] = Idle]

---------------------------------------------------------------------------
(* Staging: the file at the path becomes a row and a managed copy.         *)

\* stage_and_enqueue_one writes the upload to its place in the inbox.
UploadWrites(r, v) ==
    /\ req[r].pc = "idle" /\ MayStart
    /\ arrivals < MaxArrivals /\ arrivals' = arrivals + 1
    /\ inbox' = v
    /\ req' = [req EXCEPT ![r] = At("written", "upload", 0, 0)]
    /\ UNCHANGED <<doc, file, copies, job, exec, hooks, faults, met>>

\* Somebody drops a file into the watched folder.
Dropped(v) ==
    /\ arrivals < MaxArrivals /\ arrivals' = arrivals + 1
    /\ inbox' = v
    /\ UNCHANGED <<doc, file, copies, req, job, exec, hooks, faults, met>>

\* poll_once: the size held still for STABLE_AFTER_SECONDS.
WatcherPicks(r) ==
    /\ req[r].pc = "idle" /\ MayStart
    /\ inbox # 0
    /\ \A s \in Requests : req[s].door # "watcher"
    /\ req' = [req EXCEPT ![r] = At("compared", "watcher", 0, 0)]
    /\ UNCHANGED <<inbox, doc, file, copies, job, exec, hooks, faults, arrivals, met>>

\* stage_and_enqueue_one compares the upload with the row at the path, before
\* the staging that may move the file away.
Compare(r) ==
    LET d == DocumentAtPath IN
    /\ req[r].pc = "written"
    /\ req' = [req EXCEPT ![r] =
                IF d = 0 THEN At("compared", "upload", 0, 0)
                ELSE IF inbox = 0 THEN At("raced", "upload", 0, 0)
                ELSE IF doc[d].file_hash = inbox THEN At("compared", "reupload", 0, 0)
                ELSE At("compared", "upload", 0, 0)]
    /\ UNCHANGED <<inbox, doc, file, copies, job, exec, hooks, faults, arrivals, met>>

\* stage_document up to the transaction: the file is there and is hashed, or
\* FileNotFoundError.
Hash(r) ==
    /\ req[r].pc = "compared"
    /\ req' = [req EXCEPT ![r] =
                At(IF inbox = 0 THEN "raced" ELSE "hashed", req[r].door, 0, inbox)]
    /\ UNCHANGED <<inbox, doc, file, copies, job, exec, hooks, faults, arrivals, met>>

\* The read of the existing row: the same hash means there is nothing to do.
\* A reupload then removes its copy; an upload that only now finds its bytes
\* staged is reported as failed and leaves it, as the watcher does.
Lookup(r) ==
    LET d == DocumentAtPath IN
    /\ req[r].pc = "hashed"
    /\ IF d = 0 THEN Goes(r, "new")
       ELSE IF doc[d].file_hash # req[r].hash
       THEN req' = [req EXCEPT ![r] = At("found", req[r].door, d, req[r].hash)]
       ELSE IF req[r].door = "reupload" THEN Goes(r, "unlink")
       ELSE Ends(r)
    /\ IF d # 0 /\ doc[d].file_hash # req[r].hash THEN ComesTo(r, d) ELSE UNCHANGED met
    /\ UNCHANGED <<inbox, doc, file, copies, job, exec, hooks, faults, arrivals>>

\* StageRefused or an over-long recording: an upload removes its copy, the
\* watcher leaves the file in the inbox.
Refuse(r) ==
    /\ req[r].pc = "hashed"
    /\ IF req[r].door = "watcher" THEN Ends(r) ELSE Goes(r, "unlink")
    /\ UNCHANGED <<inbox, doc, file, copies, job, exec, hooks, faults, arrivals, met>>

\* dest.unlink(missing_ok=True)
Unlink(r) ==
    /\ req[r].pc = "unlink"
    /\ inbox' = 0
    /\ Ends(r)
    /\ UNCHANGED <<doc, file, copies, job, exec, hooks, faults, arrivals, met>>

\* _delete_existing_data: the chunks and the files go at once, whatever
\* becomes of the transaction; DocumentRows go with it.
DeleteExistingData(r) ==
    LET d == req[r].doc IN
    /\ req[r].pc = "found"
    /\ copies' = IF Tabular THEN copies ELSE [copies EXCEPT ![d] = NoCopies]
    /\ file' = [file EXCEPT ![d] = 0]
    /\ Goes(r, "cleared")
    /\ UNCHANGED <<inbox, doc, job, exec, hooks, faults, arrivals, met>>

FreshDoc == {d \in Docs : doc[d].status = "absent"}

\* The row is saved (a row deleted meanwhile is inserted again), the file is
\* moved to the document's directory and the transaction commits ...
StageCommits(r) ==
    /\ req[r].pc \in {"new", "cleared"}
    /\ inbox # 0
    /\ req[r].pc = "new" => FreshDoc # {}
    /\ LET d == IF req[r].pc = "new" THEN Min(FreshDoc) ELSE req[r].doc IN
       /\ doc' = [doc EXCEPT ![d] = [status |-> "pending", file_hash |-> req[r].hash]]
       /\ file' = [file EXCEPT ![d] = inbox]
       /\ copies' = IF Tabular THEN [copies EXCEPT ![d] = NoCopies] ELSE copies
       /\ req' = [req EXCEPT ![r] = At("staged", req[r].door, d, req[r].hash)]
    /\ inbox' = 0
    /\ UNCHANGED <<job, exec, hooks, faults, arrivals, met>>

\* ... or the file is gone and the transaction is rolled back: the row is what
\* it was, its passages and its copy are not.
StageRollsBack(r) ==
    /\ req[r].pc \in {"new", "cleared"}
    /\ inbox = 0
    /\ Goes(r, "raced")
    /\ met' = IF req[r].pc = "cleared" THEN met \cup {req[r].doc} ELSE met
    /\ UNCHANGED <<inbox, doc, file, copies, job, exec, hooks, faults, arrivals>>

\* The FileNotFoundError branch: "queued" when there is a row, else "failed".
ReportRaced(r) ==
    /\ req[r].pc = "raced"
    /\ Ends(r)
    /\ UNCHANGED <<inbox, doc, file, copies, job, exec, hooks, faults, arrivals, met>>

---------------------------------------------------------------------------
(* The shared tail of enqueue_ingest and enqueue_reingest.                 *)

FreshJob == {j \in Jobs : job[j].state = "absent"}

EnqueueIngestJob(r) ==
    /\ req[r].pc = "staged" /\ FreshJob # {}
    /\ job' = [job EXCEPT ![Min(FreshJob)] =
                [state |-> "queued", doc |-> req[r].doc, sha |-> req[r].hash,
                 tries |-> 0, lost |-> 0, outcome |-> 0]]
    /\ Ends(r)
    /\ UNCHANGED <<inbox, doc, file, copies, exec, hooks, faults, arrivals, met>>

\* _fail_document, and every doc.save(update_fields=...): a row that is gone
\* is not written.
Saved(d, status) ==
    IF d \in Rows
    THEN [doc EXCEPT ![d] = [status |-> status, file_hash |-> doc[d].file_hash]]
    ELSE doc

\* QueueQuotaExceeded, QueueUnavailable or anything else.  To a reupload the
\* missing job looks like an unchanged file.  Without a row the save raises.
EnqueueRefused(r) ==
    /\ req[r].pc = "staged"
    /\ doc' = Saved(req[r].doc, "failed")
    /\ IF req[r].door = "reupload" /\ req[r].doc \in Rows THEN Goes(r, "unlink") ELSE Ends(r)
    /\ UNCHANGED <<inbox, file, copies, job, exec, hooks, faults, arrivals, met>>

---------------------------------------------------------------------------
(* The library page's own operations.                                      *)

\* document_reingest reads the row and refuses one under way.
ReingestLoads(r, d) ==
    /\ req[r].pc = "idle" /\ MayStart
    /\ d \in Rows /\ doc[d].status \notin Unfinished
    /\ ComesTo(r, d)
    /\ req' = [req EXCEPT ![r] = At("reload", "page", d, 0)]
    /\ UNCHANGED <<inbox, doc, file, copies, job, exec, hooks, faults, arrivals>>

\* enqueue_reingest: the managed copy is hashed again and the row is pending.
\* A missing copy, or a row deleted meanwhile, ends the request.
ReingestSaves(r) ==
    LET d == req[r].doc IN
    /\ req[r].pc = "reload"
    /\ IF d \in Rows /\ file[d] # 0
       THEN /\ doc' = [doc EXCEPT ![d] = [status |-> "pending", file_hash |-> file[d]]]
            /\ req' = [req EXCEPT ![r] = At("staged", req[r].door, d, file[d])]
       ELSE Ends(r) /\ UNCHANGED doc
    /\ UNCHANGED <<inbox, file, copies, job, exec, hooks, faults, arrivals, met>>

DeleteLoads(r, d) ==
    /\ req[r].pc = "idle" /\ MayStart
    /\ d \in Rows
    /\ ComesTo(r, d)
    /\ req' = [req EXCEPT ![r] = At("delete_chunks", "page", d, 0)]
    /\ UNCHANGED <<inbox, doc, file, copies, job, exec, hooks, faults, arrivals>>

\* delete_document: chunks, then files, then the row with its DocumentRows.
DeleteDocument(r) ==
    LET d == req[r].doc IN
    \/ /\ req[r].pc = "delete_chunks"
       /\ copies' = IF Tabular THEN copies ELSE [copies EXCEPT ![d] = NoCopies]
       /\ Goes(r, "delete_files")
       /\ UNCHANGED <<doc, file>>
    \/ /\ req[r].pc = "delete_files"
       /\ file' = [file EXCEPT ![d] = 0]
       /\ Goes(r, "delete_row")
       /\ UNCHANGED <<doc, copies>>
    \/ /\ req[r].pc = "delete_row"
       /\ doc' = [doc EXCEPT ![d] = [status |-> "deleted", file_hash |-> 0]]
       /\ copies' = IF Tabular THEN [copies EXCEPT ![d] = NoCopies] ELSE copies
       /\ Ends(r)
       /\ UNCHANGED file

Delete(r) ==
    /\ DeleteDocument(r)
    /\ UNCHANGED <<inbox, job, exec, hooks, faults, arrivals, met>>

\* The web process or the watcher is killed: an open transaction is undone.
RequestDies(r) ==
    /\ RequestsDie /\ req[r].pc # "idle"
    /\ Faulty
    /\ Ends(r)
    /\ UNCHANGED <<inbox, doc, file, copies, job, exec, hooks, arrivals, met>>

---------------------------------------------------------------------------
(* An execution of run_ingest.                                             *)

\* Only the steps between Read and InsertInIndex know what was read.
Steps(e, from, to) ==
    /\ exec[e].pc = from
    /\ exec' = [exec EXCEPT ![e] = [pc |-> to, got |-> IF to = "emptied" THEN exec[e].got ELSE 0]]

\* Document.objects.get and the PROCESSING write; without a row nothing of the
\* document is written.
MarkProcessing(e) ==
    /\ Steps(e, "claimed", IF DocOf(e) \in Rows THEN "marked" ELSE "bad")
    /\ doc' = Saved(DocOf(e), "processing")
    /\ UNCHANGED <<inbox, file, copies, req, job, hooks, faults, arrivals, met>>

\* The managed copy must have the hash the payload carries.
CheckHash(e) ==
    /\ Steps(e, "marked", IF file[DocOf(e)] = ShaOf(e) THEN "checked" ELSE "raised")
    /\ UNCHANGED <<inbox, doc, file, copies, req, job, hooks, faults, arrivals, met>>

\* The copy is read again to be parsed.
Read(e) ==
    /\ exec[e].pc = "checked"
    /\ exec' = [exec EXCEPT ![e] =
                [pc |-> IF file[DocOf(e)] = 0 THEN "raised" ELSE "read",
                 got |-> file[DocOf(e)]]]
    /\ UNCHANGED <<inbox, doc, file, copies, req, job, hooks, faults, arrivals, met>>

\* Any cap, model, parser or embedding error on the way.
Raise(e) ==
    /\ \E pc \in {"checked", "read", "emptied"} : Steps(e, pc, "raised")
    /\ UNCHANGED <<inbox, doc, file, copies, req, job, hooks, faults, arrivals, met>>

\* Mutant: the chunks are inserted beside the ones of the run before.
EmptyIndex_Never(e) ==
    /\ Steps(e, "read", "emptied")
    /\ UNCHANGED <<inbox, doc, file, copies, req, job, hooks, faults, arrivals, met>>

\* _ingest_prose deletes the document's chunks first, _ingest_tabular has
\* nothing of the kind.
EmptyIndex(e) ==
    /\ Steps(e, "read", "emptied")
    /\ copies' = IF Tabular THEN copies ELSE [copies EXCEPT ![DocOf(e)] = NoCopies]
    /\ UNCHANGED <<inbox, doc, file, req, job, hooks, faults, arrivals, met>>

\* _ingest_tabular saves the schema and its rows have a foreign key ...
RowRefused(d) == Tabular /\ d \notin Rows

\* ... while insert_nodes asks nobody whether the document is still there.
InsertInIndex(e) ==
    LET d == DocOf(e) IN
    /\ Steps(e, "emptied", IF RowRefused(d) THEN "raised" ELSE "indexed")
    /\ copies' = IF RowRefused(d) THEN copies
                 ELSE [copies EXCEPT ![d] = [copies[d] EXCEPT ![exec[e].got] = @ + 1]]
    /\ UNCHANGED <<inbox, doc, file, req, job, hooks, faults, arrivals, met>>

MarkReady(e) ==
    /\ Steps(e, "indexed", IF DocOf(e) \in Rows THEN "ok" ELSE "raised")
    /\ doc' = Saved(DocOf(e), "ready")
    /\ UNCHANGED <<inbox, file, copies, req, job, hooks, faults, arrivals, met>>

\* run_ingest_or_fail catches whatever was raised.
MarkFailed(e) ==
    /\ Steps(e, "raised", "bad")
    /\ doc' = Saved(DocOf(e), "failed")
    /\ UNCHANGED <<inbox, file, copies, req, job, hooks, faults, arrivals, met>>

\* Mutant: any attempt writes back.
Outcome_Unfenced(e, state) ==
    [job EXCEPT ![e[1]] = [@ EXCEPT !.state = state, !.outcome = e[2]]]

\* The worker's write-back, fenced by the claim token.
Outcome(e, state) ==
    IF Holds(e)
    THEN [job EXCEPT ![e[1]] = Row(job[e[1]], state, e[2], job[e[1]].lost, e[2])]
    ELSE job

Report(e) ==
    /\ \/ Steps(e, "ok", "over") /\ job' = Outcome(e, "succeeded")
       \/ Steps(e, "bad", "over") /\ job' = Outcome(e, "failed")
    /\ UNCHANGED <<inbox, doc, file, copies, req, hooks, faults, arrivals, met>>

\* The handler cannot be resolved: the job fails and the hook is scheduled.
HandlerMissing(e) ==
    /\ Steps(e, "claimed", "over")
    /\ job' = Outcome(e, "failed")
    /\ hooks' = hooks \cup {e[1]}
    /\ UNCHANGED <<inbox, doc, file, copies, req, faults, arrivals, met>>

WorkerDies(e) ==
    /\ Executing(e)
    /\ Faulty
    /\ exec' = [exec EXCEPT ![e] = [pc |-> "over", got |-> 0]]
    /\ UNCHANGED <<inbox, doc, file, copies, req, job, hooks, arrivals, met>>

---------------------------------------------------------------------------
(* What JobLifecycle allows the queue to do with a job.                    *)

Claim(j) ==
    /\ job[j].state = "queued"
    /\ job' = [job EXCEPT ![j] = Row(job[j], "running", job[j].tries + 1, job[j].lost, 0)]
    /\ exec' = [exec EXCEPT ![<<j, job[j].tries + 1>>] = [pc |-> "claimed", got |-> 0]]
    /\ UNCHANGED <<inbox, doc, file, copies, req, hooks, faults, arrivals, met>>

\* The holder is gone, or with Late only its heartbeats are.
Sweep(j) ==
    /\ job[j].state = "running"
    /\ Late \/ HolderGone(j)
    /\ IF job[j].lost = 0
       THEN /\ job' = [job EXCEPT ![j] = Row(job[j], "queued", job[j].tries, 1, 0)]
            /\ UNCHANGED hooks
       ELSE /\ job' = [job EXCEPT ![j] = Row(job[j], "failed", job[j].tries, 1, 0)]
            /\ hooks' = hooks \cup {j}
    /\ UNCHANGED <<inbox, doc, file, copies, req, exec, faults, arrivals, met>>

\* A worker that is shut down gives the job back and exits, or with Late
\* exits some time later.
Drain(j) ==
    /\ job[j].state = "running" /\ ~HolderGone(j)
    /\ Faulty
    /\ job' = [job EXCEPT ![j] = Row(job[j], "queued", job[j].tries, job[j].lost, 0)]
    /\ exec' = IF Late THEN exec
               ELSE [exec EXCEPT ![<<j, job[j].tries>>] = [pc |-> "over", got |-> 0]]
    /\ UNCHANGED <<inbox, doc, file, copies, req, hooks, arrivals, met>>

\* Mutant: the hook is forgotten.
Cancel_NoHook(j) ==
    /\ job[j].state = "queued"
    /\ job' = [job EXCEPT ![j].state = "cancelled"]
    /\ UNCHANGED <<inbox, doc, file, copies, req, exec, hooks, faults, arrivals, met>>

Cancel(j) ==
    /\ job[j].state = "queued"
    /\ job' = [job EXCEPT ![j] = Row(job[j], "cancelled", job[j].tries, job[j].lost, 0)]
    /\ hooks' = hooks \cup {j}
    /\ UNCHANGED <<inbox, doc, file, copies, req, exec, faults, arrivals, met>>

\* Mutant: only a PENDING row is repaired.
OnIngestTerminal_PendingOnly(j) ==
    /\ j \in hooks
    /\ hooks' = hooks \ {j}
    /\ doc' = IF doc[job[j].doc].status = "pending" THEN Saved(job[j].doc, "failed") ELSE doc
    /\ UNCHANGED <<inbox, file, copies, req, job, exec, faults, arrivals, met>>

\* on_ingest_terminal: one conditional UPDATE.
OnIngestTerminal(j) ==
    LET d == job[j].doc IN
    /\ j \in hooks
    /\ hooks' = hooks \ {j}
    /\ doc' = IF doc[d].status \in Unfinished THEN Saved(d, "failed") ELSE doc
    /\ UNCHANGED <<inbox, file, copies, req, job, exec, faults, arrivals, met>>

---------------------------------------------------------------------------
RequestStep(r) ==
    \/ Compare(r) \/ Hash(r) \/ Lookup(r) \/ Unlink(r) \/ DeleteExistingData(r)
    \/ StageCommits(r) \/ StageRollsBack(r) \/ ReportRaced(r)
    \/ EnqueueIngestJob(r) \/ ReingestSaves(r) \/ Delete(r)

ExecStep(e) ==
    \/ MarkProcessing(e) \/ CheckHash(e) \/ Read(e) \/ EmptyIndex(e)
    \/ InsertInIndex(e) \/ MarkReady(e) \/ MarkFailed(e) \/ Report(e)

Next ==
    \/ \E v \in Versions : Dropped(v)
    \/ \E r \in Requests :
        \/ \E v \in Versions : UploadWrites(r, v)
        \/ WatcherPicks(r)
        \/ \E d \in Docs : ReingestLoads(r, d) \/ DeleteLoads(r, d)
        \/ RequestStep(r)
        \/ Refuse(r) \/ EnqueueRefused(r) \/ RequestDies(r)
    \/ \E e \in Execs : ExecStep(e) \/ Raise(e) \/ HandlerMissing(e) \/ WorkerDies(e)
    \/ \E j \in Jobs : Claim(j) \/ Sweep(j) \/ Drain(j) \/ Cancel(j) \/ OnIngestTerminal(j)

Spec == Init /\ [][Next]_vars

\* Requests and handler threads run on, workers poll for jobs and for
\* orphans, a scheduled hook runs.
Fairness ==
    /\ \A r \in Requests : WF_vars(RequestStep(r))
    /\ \A e \in Execs : WF_vars(ExecStep(e))
    /\ \A j \in Jobs : WF_vars(Claim(j)) /\ WF_vars(OnIngestTerminal(j))
    /\ \A j \in Jobs : WF_vars(job[j].state = "running" /\ HolderGone(j) /\ Sweep(j))

FairSpec == Spec /\ Fairness

---------------------------------------------------------------------------
(* Properties.                                                             *)

\* Nobody is about to change document d.
AtRest(d) ==
    /\ ~BeingIngested(d)
    /\ \A r \in Requests : req[r].doc # d
    /\ \A j \in hooks : job[j].doc # d

\* The index holds exactly one copy of version v for document d, and nothing else.
IndexedOnce(d, v) == copies[d] = [NoCopies EXCEPT ![v] = 1]

\* A row at rest tells the truth, whatever crashes, retries, cancellations and
\* re-ingests came before, unless two were once busy with its document or the
\* file it was staged from was taken away: READY, the managed copy is the file
\* file_hash names and the index holds that file's passages exactly once;
\* FAILED, there is a copy to retry with; deleted, nothing is left
\* (run_ingest_for, _ingest_prose, enqueue_reingest, delete_document).
RestingRowsAreTrue ==
    \A d \in Docs \ met : AtRest(d) =>
        /\ doc[d].status = "ready" => file[d] = doc[d].file_hash /\ IndexedOnce(d, doc[d].file_hash)
        /\ doc[d].status = "failed" => file[d] # 0
        /\ doc[d].status = "deleted" => file[d] = 0 /\ copies[d] = NoCopies

\* Every failure state a document can reach is reachable by Retry: a FAILED
\* document at rest still has the managed copy enqueue_reingest needs.
FailedCanRetry ==
    \A d \in Docs : doc[d].status = "failed" /\ AtRest(d) => file[d] # 0

\* A document that is PENDING or PROCESSING is somebody's business: a request
\* is about to enqueue its job, a job of it waits or runs, an attempt is under
\* way or a hook is scheduled.  Otherwise Retry refuses it for ever
\* (document_reingest) and staging the same file again skips it.
SomebodyIsResponsible ==
    \A d \in Docs :
        doc[d].status \in Unfinished =>
            \/ BeingIngested(d)
            \/ \E r \in Requests : req[r].pc = "staged" /\ req[r].doc = d
            \/ \E j \in hooks : job[j].doc = d

\* What SomebodyIsResponsible needs to be inductive: the attempt of a running
\* job is still to write the row, or is gone and will be swept.
Keeper(d) ==
    \/ \E r \in Requests : req[r].pc = "staged" /\ req[r].doc = d
    \/ \E j \in hooks : job[j].doc = d
    \/ \E j \in Jobs : job[j].doc = d /\ job[j].state = "queued"
    \/ \E j \in Jobs : /\ job[j].doc = d /\ job[j].state = "running"
                       /\ exec[<<j, job[j].tries>>].pc \notin {"ok", "bad"}

Kept == \A d \in Docs : doc[d].status \in Unfinished => Keeper(d)

\* Without Late an attempt that executes holds its job.
ExecutingHolds == \A e \in Execs : Executing(e) => Holds(e)

\* A job is claimed once, and once more for each time it came back.
TriesBounded ==
    \A j \in Jobs :
        /\ job[j].state \in {"absent", "queued"} => job[j].tries <= job[j].lost + faults
        /\ job[j].tries <= job[j].lost + faults + 1

\* The fields a step relies on are there.
WellFormed ==
    /\ \A r \in Requests :
        /\ req[r].pc \in {"found", "cleared", "staged", "reload", "delete_chunks",
                          "delete_files", "delete_row"} => req[r].doc \in Docs
        /\ req[r].pc \in {"hashed", "found", "cleared", "new", "staged"} =>
            req[r].hash \in Versions
    /\ \A j \in Jobs :
        /\ job[j].state # "absent" => job[j].doc \in Docs /\ job[j].sha \in Versions
        /\ job[j].state = "running" => job[j].tries \in Tries
        /\ j \in hooks => job[j].state # "absent"
    /\ \A e \in Execs :
        /\ Executing(e) => job[e[1]].state # "absent"
        /\ exec[e].pc \in {"read", "emptied"} => exec[e].got \in Versions

\* No document is stranded: one that is PENDING or PROCESSING becomes READY
\* or FAILED, or is deleted.
EveryDocumentSettles ==
    \A d \in Docs : doc[d].status \in Unfinished ~> doc[d].status \notin Unfinished

\* The jobs behind the documents live the life models/queue promises.
Queue == INSTANCE JobLifecycle WITH
    status <- [j \in Jobs |-> job[j].state],
    holder <- [j \in Jobs |-> job[j].tries],
    lost <- [j \in Jobs |-> job[j].lost],
    outcome <- [j \in Jobs |-> job[j].outcome]

\* What this module assumes of the queue is what JobLifecycle promises: one
\* holder at a time, one outcome from the last holder, one retry.
QueueAsPromised == Queue!LifeSpec
================================================================================
