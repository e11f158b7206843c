----------------------------------- MODULE Media -----------------------------------
(***************************************************************************)
(* One document whose text a model has to produce (tools/rag/media.py and  *)
(* the run half of ingest.py): a recording, transcribed slice by slice, a  *)
(* PDF with pages that have no text layer, read page by page, or an image. *)
(* The text accumulates in the sidecar extract.json; after each slice or   *)
(* page (a unit) the sidecar is replaced and then the job is checkpointed, *)
(* so that an attempt that follows a dead or drained one resumes.          *)
(*                                                                         *)
(* A segment is the unit it came from; a unit may have no text.            *)
(***************************************************************************)
EXTENDS QueueClient, Sequences

CONSTANT Units      \* number of slices of the recording, or of textless pages

ASSUME MediaAssumption == Units \in Nat \ {0}

VARIABLES
    kind,       \* what the file is
    texts,      \* the units in which the model finds text
    sidecar,    \* extract.json
    work,       \* work/: the WAV and the slices
    ckpt,       \* InferenceJob.checkpoint of each job
    loop,       \* segments and next index an attempt holds
    doc         \* the Document row and what is indexed

mediaVars == <<kind, texts, sidecar, work, ckpt, loop, doc>>
ingestVars == <<queueVars, mediaVars>>

Kinds == {"audio", "mixed", "scanned", "image"}
Unit == 1..Units
Segments == UNION {[1..n -> Unit] : n \in 0..Units}

NoSidecar == [there |-> FALSE, done |-> FALSE, readable |-> TRUE, segs |-> <<>>]
Unmade == [wav |-> FALSE, slices |-> 0]
NoCheckpoint == [next |-> 0, written |-> 0]

MediaPcs == {"started", "cutting", "loop", "heard", "saved", "final", "fallback", "extracted"}

MediaTypeOK ==
    /\ QueueTypeOK(MediaPcs)
    /\ kind \in Kinds /\ texts \subseteq Unit
    /\ sidecar \in [there : BOOLEAN, done : BOOLEAN, readable : BOOLEAN, segs : Segments]
    /\ work \in [wav : BOOLEAN, slices : 0..Units]
    /\ ckpt \in [Jobs -> [next : 0..Units, written : 0..Units]]
    /\ loop \in [Execs -> [next : 0..Units, segs : Segments]]
    /\ doc \in [state : {"pending", "processing", "ready", "failed"}, note : BOOLEAN,
                layer : BOOLEAN, segs : Segments]

MediaInit ==
    /\ QueueInit
    /\ kind \in Kinds /\ texts \in SUBSET Unit
    /\ kind = "image" => Units = 1 \/ texts \in {{}, {1}}
    /\ sidecar = NoSidecar /\ work = Unmade
    /\ ckpt = [j \in Jobs |-> NoCheckpoint]
    /\ loop = [e \in Execs |-> [next |-> 0, segs |-> <<>>]]
    /\ doc = [state |-> "pending", note |-> FALSE, layer |-> FALSE, segs |-> <<>>]

Pdf == kind \in {"mixed", "scanned"}
\* An image is one unit.
Last == IF kind = "image" THEN 1 ELSE Units

\* What the model finds in unit u.
Text(u) == IF u \in texts THEN <<u>> ELSE <<>>

\* The text of the first n units: as many segments as have text, the i-th of
\* them at place i.
Told(n) == {u \in texts : u <= n}
Heard(n) == [i \in 1..Cardinality(Told(n)) |-> CHOOSE u \in texts : Cardinality(Told(u)) = i]
Whole == Heard(Last)

---------------------------------------------------------------------------
(***************************************************************************)
(* The request: the document was staged, or the operator re-ingests it.    *)
(***************************************************************************)

EnqueueIngest(j) ==
    /\ j \in NextJob
    /\ doc.state # "processing" /\ \A i \in Jobs : job[i].state \notin {"queued", "running"}
    /\ Enqueued(j)
    /\ doc' = [doc EXCEPT !.state = "pending", !.note = FALSE]
    /\ UNCHANGED <<att, hooks, faults, kind, texts, sidecar, work, ckpt, loop>>

---------------------------------------------------------------------------
(***************************************************************************)
(* The attempt: run_ingest_for.                                            *)
(***************************************************************************)

Moves(e, from, to) == Goes(e, from, to) /\ UNCHANGED <<job, hooks, faults, kind, texts>>

Start(e) ==
    /\ Moves(e, "claimed", "started")
    /\ doc' = [doc EXCEPT !.state = "processing"]
    /\ UNCHANGED <<sidecar, work, ckpt, loop>>

\* run_ingest_or_fail.
FailDocument == doc' = [doc EXCEPT !.state = "failed"] /\ work' = Unmade

\* Any step may raise: a cap that was lowered, a file that changed, the
\* engine, the disk.
Raises(e) ==
    /\ \E pc \in MediaPcs : Moves(e, pc, "bad")
    /\ FailDocument
    /\ UNCHANGED <<sidecar, ckpt, loop>>

Finished == sidecar.there /\ sidecar.readable /\ sidecar.done

\* _reuse_finished_sidecar, before any model is resolved.
Reuse(e) ==
    /\ Finished
    /\ Moves(e, "started", "extracted")
    /\ UNCHANGED <<sidecar, work, ckpt, loop, doc>>

\* The role may be unbound, or its endpoint down, whenever it is asked: a PDF
\* goes on without the model, anything else fails.
RoleUnavailable(e) ==
    /\ ~Finished /\ Pdf
    /\ Moves(e, "started", "fallback")
    /\ UNCHANGED <<sidecar, work, ckpt, loop, doc>>

RoleUnavailableFails(e) ==
    /\ ~Finished /\ ~Pdf
    /\ Moves(e, "started", "bad")
    /\ FailDocument
    /\ UNCHANGED <<sidecar, ckpt, loop>>

Resuming(e) == ckpt[e[1]] # NoCheckpoint

\* Mutant: what the last attempt appended without confirming is kept.
Reconcile_KeepsTail(e) ==
    IF ~sidecar.there \/ ~sidecar.readable THEN [next |-> 0, segs |-> <<>>]
    ELSE [next |-> ckpt[e[1]].next, segs |-> sidecar.segs]

\* _reconcile_sidecar_resume: back to what the checkpoint confirms.
Reconcile(e) ==
    IF ~sidecar.there \/ ~sidecar.readable THEN [next |-> 0, segs |-> <<>>]
    ELSE [next |-> ckpt[e[1]].next, segs |-> SubSeq(sidecar.segs, 1, ckpt[e[1]].written)]

Behind(e) == sidecar.there /\ sidecar.readable /\ Len(sidecar.segs) < ckpt[e[1]].written

FromScratch == [next |-> 0, segs |-> <<>>]

CanReuseSlices(e) == Resuming(e) /\ work.wav /\ work.slices > 0

\* What an attempt resumes from: a recording needs its slices, a page is
\* rendered again.
Resumes(e) == IF kind = "audio" THEN CanReuseSlices(e) ELSE Pdf /\ Resuming(e)

Enter(e) ==
    /\ ~Finished
    /\ kind = "audio" => CanReuseSlices(e)
    /\ Resumes(e) => ~Behind(e)
    /\ Moves(e, "started", "loop")
    /\ loop' = [loop EXCEPT ![e] = IF Resumes(e) THEN Reconcile(e) ELSE FromScratch]
    /\ UNCHANGED <<sidecar, work, ckpt, doc>>

\* "the sidecar is behind its own checkpoint, which should never happen".
RefusesToGuess(e) ==
    /\ ~Finished /\ Resumes(e) /\ Behind(e)
    /\ Moves(e, "started", "bad")
    /\ FailDocument
    /\ UNCHANGED <<sidecar, ckpt, loop>>

\* extract_audio.
ExtractAudio(e) ==
    /\ ~Finished /\ kind = "audio" /\ ~CanReuseSlices(e)
    /\ Moves(e, "started", "cutting")
    /\ work' = [work EXCEPT !.wav = TRUE]
    /\ UNCHANGED <<sidecar, ckpt, loop, doc>>

\* slice_audio: ffmpeg writes one slice after another over what is there.
CutSlice(e) ==
    /\ att[e] = "cutting" /\ work.slices < Units
    /\ work' = [work EXCEPT !.slices = @ + 1]
    /\ UNCHANGED <<queueVars, kind, texts, sidecar, ckpt, loop, doc>>

SlicesCut(e) ==
    /\ work.slices = Units
    /\ Moves(e, "cutting", "loop")
    /\ loop' = [loop EXCEPT ![e] = FromScratch]
    /\ UNCHANGED <<sidecar, work, ckpt, doc>>

\* The slices there are on disk, the pages the scan found.
Planned == IF kind = "audio" THEN work.slices ELSE Last

CallModel(e) ==
    /\ loop[e].next < Planned
    /\ Moves(e, "loop", "heard")
    /\ loop' = [loop EXCEPT ![e] = [next |-> @.next + 1, segs |-> @.segs \o Text(@.next + 1)]]
    /\ UNCHANGED <<sidecar, work, ckpt, doc>>

Saved(segs, done) == [there |-> TRUE, done |-> done, readable |-> TRUE, segs |-> segs]

\* An image has no unit to confirm.
WriteSidecar(e) ==
    /\ kind # "image"
    /\ Moves(e, "heard", "saved")
    /\ sidecar' = Saved(loop[e].segs, FALSE)
    /\ UNCHANGED <<work, ckpt, loop, doc>>

\* ctx.checkpoint, fenced by the claim.
Checkpoint(e) ==
    /\ Moves(e, "saved", "loop")
    /\ ckpt' = IF Holds(e)
               THEN [ckpt EXCEPT ![e[1]] = [next |-> loop[e].next, written |-> Len(loop[e].segs)]]
               ELSE ckpt
    /\ UNCHANGED <<sidecar, work, loop, doc>>

\* _finish_driver: the sidecar, the row, and the work directory.
WriteFinal(e) ==
    /\ \/ loop[e].next >= Planned /\ Moves(e, "loop", "final")
       \/ kind = "image" /\ Moves(e, "heard", "final")
    /\ sidecar' = Saved(loop[e].segs, TRUE)
    /\ UNCHANGED <<work, ckpt, loop, doc>>

RemoveWork(e) ==
    /\ Moves(e, "final", "extracted")
    /\ work' = Unmade
    /\ UNCHANGED <<sidecar, ckpt, loop, doc>>

Ready(segs, note) ==
    [state |-> "ready", note |-> note, layer |-> kind = "mixed", segs |-> segs]

\* _source_documents with a finished sidecar, and the text layer beside it.
Index(e) ==
    /\ Finished
    /\ Moves(e, "extracted", "ok")
    /\ doc' = Ready(sidecar.segs, FALSE)
    /\ UNCHANGED <<sidecar, work, ckpt, loop>>

\* The text-only fallback: no sidecar, and a text layer.
IndexTextLayer(e) ==
    /\ kind = "mixed" /\ ~sidecar.there
    /\ Moves(e, "fallback", "ok")
    /\ doc' = Ready(<<>>, TRUE)
    /\ UNCHANGED <<sidecar, work, ckpt, loop>>

\* A sidecar that is not finished or not readable, or nothing to fall back to.
NothingToIndex(e) ==
    /\ \/ Moves(e, "extracted", "bad") /\ ~Finished
       \/ Moves(e, "fallback", "bad") /\ (sidecar.there \/ kind = "scanned")
    /\ FailDocument
    /\ UNCHANGED <<sidecar, ckpt, loop>>

MediaStep(e) ==
    \/ Start(e) \/ Raises(e) \/ Reuse(e) \/ RoleUnavailable(e) \/ RoleUnavailableFails(e)
    \/ Enter(e) \/ RefusesToGuess(e) \/ ExtractAudio(e) \/ CutSlice(e) \/ SlicesCut(e)
    \/ CallModel(e) \/ WriteSidecar(e) \/ Checkpoint(e) \/ WriteFinal(e) \/ RemoveWork(e)
    \/ Index(e) \/ IndexTextLayer(e) \/ NothingToIndex(e)

---------------------------------------------------------------------------
\* on_ingest_terminal.
OnIngestTerminal(j) ==
    /\ HookRuns(j)
    /\ doc' = IF doc.state \in {"pending", "processing"} THEN [doc EXCEPT !.state = "failed"] ELSE doc
    /\ UNCHANGED <<kind, texts, sidecar, work, ckpt, loop>>

\* A lost write leaves extract.json empty: it is replaced, never flushed.
SidecarLost ==
    /\ Faulty
    /\ sidecar.there /\ sidecar' = [sidecar EXCEPT !.readable = FALSE]
    /\ UNCHANGED <<job, att, hooks, kind, texts, work, ckpt, loop, doc>>

MediaQueueMoves == QueueStep /\ UNCHANGED mediaVars

MediaNext ==
    \/ \E j \in Jobs : EnqueueIngest(j) \/ OnIngestTerminal(j)
    \/ \E e \in Execs : MediaStep(e)
    \/ SidecarLost
    \/ MediaQueueMoves

MediaSpec == MediaInit /\ [][MediaNext]_ingestVars

---------------------------------------------------------------------------
(***************************************************************************)
(* Properties.                                                             *)
(***************************************************************************)

\* A sidecar that says it is finished holds the text of every unit once and
\* in order, wherever the attempts before died, were drained or resumed.
\* (A recording whose second attempt is drained while ffmpeg cuts is the
\* exception: two faults, and FinishedIsWholeAlways.)
Undisturbed == kind = "audio" => faults < 2
FinishedIsWhole == Finished /\ Undisturbed => sidecar.segs = Whole

\* A READY document is searchable by exactly what its page says: all of its
\* text, or with the note about skipped pages its text layer alone.
ReadyIsWhatItSays ==
    doc.state = "ready" =>
        /\ doc.note => doc.layer /\ doc.segs = <<>>
        /\ ~doc.note /\ Undisturbed => doc.segs = Whole /\ (doc.layer <=> kind = "mixed")

\* transcribe_to_sidecar's docstring: without the WAV or the slices a resumed
\* attempt degrades "to a slower, but still correct, full re-run".
FinishedIsWholeAlways == Finished => sidecar.segs = Whole
==================================================================================
