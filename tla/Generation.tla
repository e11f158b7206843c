--------------------------------- MODULE Generation ---------------------------------
(***************************************************************************)
(* One image generation (tools/vision and the ComfyUI adapter): a page     *)
(* stages the upload and enqueues a vision.generate job, or a turn of an   *)
(* agent generates directly; an attempt writes a GenerationJob row, stores *)
(* the inputs, submits the graph and saves the engine's reference in a     *)
(* second statement; then the attempt and any number of open cards refresh *)
(* the row from the engine.  A refresh asks the engine without a lock, in  *)
(* up to three requests, and locks the row only to write what it heard.    *)
(*                                                                         *)
(* A job that is re-run after a sweep submits a second generation, so a    *)
(* generation bears the name of the attempt that made it.                  *)
(***************************************************************************)
EXTENDS QueueClient

\* Restarts of the engine count among the faults that MaxFaults bounds.
CONSTANT Cards      \* cards open in browsers, polling one generation at a time

GenerationAssumption == IsFiniteSet(Cards) /\ Cards \cap Execs = {}

VARIABLES
    asked,      \* what each job is: a page's or a turn's, with an upload or not
    post,       \* the web request that enqueues the job
    staged,     \* the staged upload: its JobInput row without a job and its file
    gen,        \* GenerationJob rows
    dir,        \* what is in each generation's managed directory
    removing,   \* deletions between the row and the files
    look,       \* refreshes under way
    prompt,     \* what the engine knows
    left        \* generations with files in the engine's own output folder

genVars == <<asked, post, staged, gen, dir, removing, look, prompt, left>>
vars == <<queueVars, genVars>>

\* Who asks matters for an upload only; a turn passes references it has.
Request ==
    {r \in [upload : BOOLEAN, admin : BOOLEAN, turn : BOOLEAN] :
        (r.turn => ~r.upload) /\ (r.admin => r.upload)}

Terminal == {"done", "failed"}
Kinds == {"none", "rejected", "engine", "lost"}

Gen ==
    [state : {"absent", "queued", "running", "deleted"} \cup Terminal,
     kind : Kinds, ref : BOOLEAN, correlated : BOOLEAN, outputs : BOOLEAN]
NoGen == [state |-> "absent", kind |-> "none", ref |-> FALSE, correlated |-> FALSE, outputs |-> FALSE]

Known(e) == gen[e].state \notin {"absent", "deleted"}

Lookers == Execs \cup Cards
Answers == {"none", "running", "failed", "lost", "done", "empty"}
Look == [at : Execs \cup {<<>>}, pc : {"history", "queue", "fetch", "lock"} \cup {"idle"}, heard : Answers]
Idle == [at |-> <<>>, pc |-> "idle", heard |-> "none"]

Pcs == {"resolved", "created", "stored", "accepted", "refused", "sent", "waiting"}

TypeOK ==
    /\ QueueTypeOK(Pcs)
    /\ asked \in [Jobs -> Request]
    /\ post \in [Jobs -> {"idle", "staged", "over"}]
    /\ staged \in [Jobs -> {"none", "fresh", "old", "pruned"}]
    /\ gen \in [Execs -> Gen]
    /\ dir \in [Execs -> SUBSET {"input", "output"}]
    /\ removing \subseteq {e \in Execs : gen[e].state = "deleted"}
    /\ look \in [Lookers -> Look]
    /\ prompt \in [Execs -> {"none", "pending", "running", "images", "blank", "error", "forgotten"}]
    /\ left \subseteq Execs

Init ==
    /\ QueueInit
    /\ asked \in [Jobs -> Request]
    /\ post = [j \in Jobs |-> "idle"]
    /\ staged = [j \in Jobs |-> "none"]
    /\ gen = [e \in Execs |-> NoGen]
    /\ dir = [e \in Execs |-> {}]
    /\ removing = {}
    /\ look = [x \in Lookers |-> Idle]
    /\ prompt = [e \in Execs |-> "none"]
    /\ left = {}

---------------------------------------------------------------------------
(***************************************************************************)
(* The page: views.generate, and the pruning every submission starts with. *)
(***************************************************************************)

Pruned == [j \in Jobs |-> IF staged[j] = "old" THEN "pruned" ELSE staged[j]]

\* prune_staged_inputs and stage_upload.
Stage(j) ==
    /\ post[j] = "idle"
    /\ post' = [post EXCEPT ![j] = "staged"]
    /\ staged' = IF asked[j].upload THEN [Pruned EXCEPT ![j] = "fresh"] ELSE Pruned
    /\ UNCHANGED <<queueVars, asked, gen, dir, removing, look, prompt, left>>

Submit(j) ==
    /\ post[j] = "staged"
    /\ post' = [post EXCEPT ![j] = "over"]
    /\ Enqueued(j)
    /\ UNCHANGED <<att, hooks, faults, asked, staged, gen, dir, removing, look, prompt, left>>

\* The queue is unavailable and the upload is discarded; or the quota is
\* reached, or the process dies, and the upload stays.
SubmitFails(j) ==
    /\ post[j] = "staged"
    /\ post' = [post EXCEPT ![j] = "over"]
    /\ staged' \in {staged, [staged EXCEPT ![j] = "none"]}
    /\ UNCHANGED <<queueVars, asked, gen, dir, removing, look, prompt, left>>

\* VISION_STAGED_UPLOAD_TTL passes.
Age(j) ==
    /\ staged[j] = "fresh"
    /\ staged' = [staged EXCEPT ![j] = "old"]
    /\ UNCHANGED <<queueVars, asked, post, gen, dir, removing, look, prompt, left>>

\* Somebody else submits a generation.
PruneStagedInputs ==
    /\ staged' = Pruned
    /\ UNCHANGED <<queueVars, asked, post, gen, dir, removing, look, prompt, left>>

---------------------------------------------------------------------------
(***************************************************************************)
(* The attempt: run_generate and submit_job.                               *)
(***************************************************************************)

Step(e, from, to) == Goes(e, from, to) /\ UNCHANGED <<job, hooks, faults, asked, post>>

UploadThere(j) == asked[j].upload => staged[j] \in {"fresh", "old"}

\* resolve_inputs: a staged upload has no owner, so only an administrator's
\* job finds it.
ResolveInputs(e) ==
    /\ asked[e[1]].upload => asked[e[1]].admin
    /\ UploadThere(e[1])
    /\ Step(e, "claimed", "resolved")
    /\ UNCHANGED <<staged, gen, dir, removing, look, prompt, left>>

\* No such upload for this actor.
InputReferenceError(e) ==
    /\ asked[e[1]].upload
    /\ ~asked[e[1]].admin \/ ~UploadThere(e[1])
    /\ Step(e, "claimed", "bad")
    /\ UNCHANGED <<staged, gen, dir, removing, look, prompt, left>>

\* No model, wrong parameters, or the engine fails its health check.
VisionUnavailable(e) ==
    /\ Step(e, "resolved", "bad")
    /\ UNCHANGED <<staged, gen, dir, removing, look, prompt, left>>

CreateRow(e) ==
    /\ Step(e, "resolved", "created")
    /\ gen' = [gen EXCEPT ![e].state = "queued"]
    /\ UNCHANGED <<staged, dir, removing, look, prompt, left>>

\* store_input and its JobInput row: a row whose generation is gone is
\* refused, with the file already written; an upload that is gone raises,
\* and so may the disk.
StoreInputs(e) ==
    \/ /\ ~asked[e[1]].upload
       /\ Step(e, "created", "stored")
       /\ UNCHANGED <<staged, gen, dir, removing, look, prompt, left>>
    \/ /\ asked[e[1]].upload /\ UploadThere(e[1])
       /\ dir' = [dir EXCEPT ![e] = @ \cup {"input"}]
       /\ Step(e, "created", IF Known(e) THEN "stored" ELSE "bad")
       /\ UNCHANGED <<staged, gen, removing, look, prompt, left>>
    \/ /\ asked[e[1]].upload
       /\ Step(e, "created", "bad")
       /\ UNCHANGED <<staged, gen, dir, removing, look, prompt, left>>

\* The engine takes the graph, with the inputs it was sent before.
SubmitAccepted(e) ==
    /\ asked[e[1]].upload => "input" \in dir[e]
    /\ Step(e, "stored", "accepted")
    /\ prompt' = [prompt EXCEPT ![e] = "pending"]
    /\ UNCHANGED <<staged, gen, dir, removing, look, left>>

\* It refuses it, the input is not there to send, or no answer comes back:
\* then it may have taken it.
SubmitRefused(e) ==
    /\ Step(e, "stored", "refused")
    /\ prompt' \in {prompt, [prompt EXCEPT ![e] = "pending"]}
    /\ UNCHANGED <<staged, gen, dir, removing, look, left>>

\* _fail, whose save needs the row.
FailSubmission(e) ==
    /\ Step(e, "refused", IF Known(e) THEN "sent" ELSE "bad")
    /\ gen' = IF Known(e)
              THEN [gen EXCEPT ![e].state = "failed", ![e].kind = "rejected"]
              ELSE gen
    /\ UNCHANGED <<staged, dir, removing, look, prompt, left>>

\* Mutant: the reference is kept in memory only.
SaveEngineRef_Forgets(e) ==
    /\ Step(e, "accepted", IF Known(e) THEN "sent" ELSE "bad")
    /\ UNCHANGED <<staged, gen, dir, removing, look, prompt, left>>

SaveEngineRef(e) ==
    /\ Step(e, "accepted", IF Known(e) THEN "sent" ELSE "bad")
    /\ gen' = IF Known(e) THEN [gen EXCEPT ![e].ref = TRUE] ELSE gen
    /\ UNCHANGED <<staged, dir, removing, look, prompt, left>>

\* correlate_queue_job, which a turn's tool has no use for.
Correlate(e) ==
    /\ Step(e, "sent", "waiting")
    /\ gen' = IF Known(e) /\ ~asked[e[1]].turn THEN [gen EXCEPT ![e].correlated = TRUE] ELSE gen
    /\ UNCHANGED <<staged, dir, removing, look, prompt, left>>

---------------------------------------------------------------------------
(***************************************************************************)
(* refresh_job, by an attempt that waits (x = e) or by an open card.       *)
(***************************************************************************)

\* A card of job_status or queue_job_status reads the row and asks if the
\* row is not terminal and has a reference.
CardAsks(x, e) ==
    /\ x \in Cards /\ look[x].pc = "idle"
    /\ Known(e) /\ gen[e].state \notin Terminal /\ gen[e].ref
    /\ look' = [look EXCEPT ![x] = [at |-> e, pc |-> "history", heard |-> "none"]]
    /\ UNCHANGED <<queueVars, asked, post, staged, gen, dir, removing, prompt, left>>

\* One round of wait_for; the attempt's own copy of the row has a reference.
WaitAsks(e) ==
    /\ att[e] = "waiting" /\ look[e].pc = "idle"
    /\ gen[e].ref
    /\ look' = [look EXCEPT ![e] = [at |-> e, pc |-> "history", heard |-> "none"]]
    /\ UNCHANGED <<queueVars, asked, post, staged, gen, dir, removing, prompt, left>>

\* A submission that failed is terminal in the attempt's own hands.
WaitEndsAtOnce(e) ==
    /\ ~gen[e].ref
    /\ Step(e, "waiting", "ok")
    /\ UNCHANGED <<staged, gen, dir, removing, look, prompt, left>>

\* The deadline: the row is returned as it is.
WaitTimesOut(e) ==
    /\ look[e].pc = "idle" /\ gen[e].ref
    /\ Step(e, "waiting", "ok")
    /\ UNCHANGED <<staged, gen, dir, removing, look, prompt, left>>

Asking(x) == look[x].pc # "idle" /\ (x \in Execs => att[x] = "waiting")

Hears(x, pc, heard) ==
    /\ look' = [look EXCEPT ![x].pc = pc, ![x].heard = heard]
    /\ UNCHANGED <<queueVars, asked, post, staged, gen, dir, removing, prompt, left>>

Rests(x) ==
    /\ look' = [look EXCEPT ![x] = Idle]
    /\ UNCHANGED <<queueVars, asked, post, staged, gen, dir, removing, prompt, left>>

\* status: the history answers for a finished prompt.
AskHistory(x) ==
    /\ Asking(x) /\ look[x].pc = "history"
    /\ CASE prompt[look[x].at] = "images" -> Hears(x, "fetch", "done")
         [] prompt[look[x].at] \in {"error", "blank"} -> Hears(x, "lock", "failed")
         [] OTHER -> Hears(x, "queue", "none")

\* _queue_state: a second request, some time later.
AskQueue(x) ==
    /\ Asking(x) /\ look[x].pc = "queue"
    /\ CASE prompt[look[x].at] = "running" -> Hears(x, "lock", "running")
         [] prompt[look[x].at] = "pending" -> Rests(x)
         [] OTHER -> Hears(x, "lock", "lost")

\* fetch_outputs reads the history again: one that is gone has no images.
FetchOutputs(x) ==
    /\ Asking(x) /\ look[x].pc = "fetch"
    /\ \/ prompt[look[x].at] = "images" /\ look[x].at \in left /\ Hears(x, "lock", "done")
       \/ prompt[look[x].at] # "images" /\ Hears(x, "lock", "empty")

\* Any of the requests fails, the images cannot be fetched: nothing is
\* written.
Unreachable(x) ==
    /\ Asking(x) /\ look[x].pc \in {"history", "queue", "fetch"}
    /\ Rests(x)

\* The caller of a refresh that has ended: an attempt returns the row if it
\* is terminal; the row of a deleted generation raises.
Ends(x, state) ==
    /\ look' = [look EXCEPT ![x] = Idle]
    /\ IF x \in Execs /\ state \in Terminal THEN att' = [att EXCEPT ![x] = "ok"]
       ELSE IF x \in Execs /\ state = "deleted" THEN att' = [att EXCEPT ![x] = "bad"]
       ELSE UNCHANGED att

NextState(heard) == CASE heard \in {"done", "empty"} -> "done" [] heard = "running" -> "running" [] OTHER -> "failed"

Told(e, heard) ==
    [gen[e] EXCEPT
        !.state = NextState(heard),
        !.kind = CASE heard = "failed" -> "engine" [] heard = "lost" -> "lost" [] OTHER -> "none",
        !.outputs = heard = "done"]

\* Mutant: the locked row is not looked at before it is written.
WriteAnswer_Blind(x) ==
    /\ Asking(x) /\ look[x].pc = "lock"
    /\ LET e == look[x].at IN
       /\ gen' = IF Known(e) THEN [gen EXCEPT ![e] = Told(e, look[x].heard)] ELSE gen
       /\ dir' = IF Known(e) /\ look[x].heard = "done"
                 THEN [dir EXCEPT ![e] = @ \cup {"output"}] ELSE dir
       /\ Ends(x, gen'[e].state)
    /\ UNCHANGED <<job, hooks, faults, asked, post, staged, removing, prompt, left>>

\* Under the row's lock: a terminal row is left alone, a missing one raises.
WriteAnswer(x) ==
    /\ Asking(x) /\ look[x].pc = "lock"
    /\ LET e == look[x].at
           open == Known(e) /\ gen[e].state \notin Terminal
       IN
       /\ gen' = IF open THEN [gen EXCEPT ![e] = Told(e, look[x].heard)] ELSE gen
       /\ dir' = IF open /\ look[x].heard = "done" THEN [dir EXCEPT ![e] = @ \cup {"output"}] ELSE dir
       /\ Ends(x, gen'[e].state)
    /\ UNCHANGED <<job, hooks, faults, asked, post, staged, removing, prompt, left>>

---------------------------------------------------------------------------
(***************************************************************************)
(* Deletion, the engine files page, and the engine itself.                 *)
(***************************************************************************)

\* delete_job: the row and its children in one transaction; whoever holds
\* the row in memory keeps its reference.
DeleteRow(e) ==
    /\ Known(e)
    /\ gen' = [gen EXCEPT ![e] = [NoGen EXCEPT !.state = "deleted", !.ref = gen[e].ref]]
    /\ removing' = removing \cup {e}
    /\ UNCHANGED <<queueVars, asked, post, staged, dir, look, prompt, left>>

\* remove_job_files, remove_engine_files.
RemoveFiles(e) ==
    /\ e \in removing
    /\ removing' = removing \ {e}
    /\ dir' = [dir EXCEPT ![e] = {}]
    /\ left' = left \ {e}
    /\ UNCHANGED <<queueVars, asked, post, staged, gen, look, prompt>>

RemoverDies(e) ==
    /\ e \in removing
    /\ Faulty
    /\ removing' = removing \ {e}
    /\ UNCHANGED <<job, att, hooks, asked, post, staged, gen, dir, look, prompt, left>>

\* An administrator deletes the engine's copy.
EngineFilesDelete(e) ==
    /\ e \in left
    /\ left' = left \ {e}
    /\ UNCHANGED <<queueVars, asked, post, staged, gen, dir, removing, look, prompt>>

EngineSteps(e, to) ==
    /\ prompt' = [prompt EXCEPT ![e] = to]
    /\ UNCHANGED <<queueVars, asked, post, staged, gen, dir, removing, look>>

\* The engine runs one prompt at a time.
EngineStarts(e) ==
    /\ prompt[e] = "pending" /\ \A f \in Execs : prompt[f] # "running"
    /\ EngineSteps(e, "running") /\ UNCHANGED left

EngineEnds(e) ==
    /\ prompt[e] = "running"
    /\ \/ EngineSteps(e, "images") /\ left' = left \cup {e}
       \/ \E to \in {"blank", "error"} : EngineSteps(e, to) /\ UNCHANGED left

\* It forgets its queue and its history, and keeps its files.
EngineRestarts ==
    /\ Faulty
    /\ prompt' = [e \in Execs |-> IF prompt[e] = "none" THEN "none" ELSE "forgotten"]
    /\ UNCHANGED <<job, att, hooks, asked, post, staged, gen, dir, removing, look, left>>

---------------------------------------------------------------------------
AttemptStep(e) ==
    \/ ResolveInputs(e) \/ InputReferenceError(e) \/ VisionUnavailable(e) \/ CreateRow(e)
    \/ StoreInputs(e) \/ SubmitAccepted(e) \/ SubmitRefused(e) \/ FailSubmission(e)
    \/ SaveEngineRef(e) \/ Correlate(e)
    \/ WaitAsks(e) \/ WaitEndsAtOnce(e) \/ WaitTimesOut(e)

Refresh(x) ==
    \/ AskHistory(x) \/ AskQueue(x) \/ FetchOutputs(x) \/ Unreachable(x) \/ WriteAnswer(x)

PageStep == \E j \in Jobs : Stage(j) \/ Submit(j) \/ SubmitFails(j) \/ Age(j)

FileStep ==
    \/ PruneStagedInputs
    \/ \E e \in Execs : DeleteRow(e) \/ RemoveFiles(e) \/ RemoverDies(e) \/ EngineFilesDelete(e)

EngineStep == EngineRestarts \/ \E e \in Execs : EngineStarts(e) \/ EngineEnds(e)

\* The kind registers no hook: a scheduled hook does nothing.
Hook(j) == HookRuns(j) /\ UNCHANGED genVars

\* What a process was asking the engine goes with it.
QueueMoves ==
    /\ QueueStep
    /\ look' = [x \in Lookers |-> IF x \in Execs /\ att'[x] = "over" THEN Idle ELSE look[x]]
    /\ UNCHANGED <<asked, post, staged, gen, dir, removing, prompt, left>>

Next ==
    \/ QueueMoves
    \/ \E j \in Jobs : Hook(j)
    \/ \E e \in Execs : AttemptStep(e)
    \/ \E x \in Cards, e \in Execs : CardAsks(x, e)
    \/ \E x \in Lookers : Refresh(x)
    \/ PageStep \/ FileStep \/ EngineStep

Spec == Init /\ [][Next]_vars

---------------------------------------------------------------------------
(***************************************************************************)
(* Properties                                                              *)
(***************************************************************************)

\* Whoever refreshes with a stale copy, a committed outcome stays: a
\* generation that is done or failed keeps its state, its kind and its
\* outputs until it is deleted (refresh_job's guarantee to concurrent
\* callers).
OutcomesStand ==
    [][\A e \in Execs : gen[e].state \in Terminal =>
          gen'[e] = gen[e] \/ gen'[e].state = "deleted"
          \/ gen'[e] = [gen[e] EXCEPT !.correlated = TRUE]]_vars

\* A generation that shows outputs has their files in its directory, also
\* while it is being deleted by a process that may die half way.
ShownOutputsAreOnDisk ==
    \A e \in Execs : gen[e].state = "done" /\ gen[e].outputs => "output" \in dir[e]

\* When a page's job has succeeded, the card that polls it can follow its
\* generation to an end: the row is correlated, and is terminal or can
\* still be refreshed.  Only a deletion takes it away.
SucceededIsFollowable ==
    \A j \in Jobs : job[j].state = "succeeded" =>
        LET g == gen[<<j, job[j].outcome>>] IN
        \/ g.state = "deleted"
        \/ (g.correlated \/ asked[j].turn) /\ (g.state \in Terminal \/ g.ref)

\* A failure is somebody's word: the engine refused it or reported it, or
\* no longer had the prompt in its queue or as running.  An engine that does
\* not answer fails nothing.
FailuresAreTold ==
    \A e \in Execs : gen[e].state = "failed" =>
        \/ gen[e].kind = "rejected" /\ ~gen[e].ref
        \/ gen[e].kind = "engine" /\ prompt[e] \in {"blank", "error", "forgotten"}
        \/ gen[e].kind = "lost" /\ prompt[e] \notin {"pending", "running"}

\* The upload of a job that was enqueued is there for every attempt, re-runs
\* included, until it is old enough to be pruned.
UploadOutlivesAttempts ==
    \A j \in Jobs : asked[j].upload /\ job[j].state # "absent" =>
        staged[j] \in {"fresh", "old", "pruned"}

\* Without a crash, deleting a generation leaves no output of it in its
\* directory, whatever refresh was storing outputs at the time.
DeletedLeavesNoOutput ==
    faults = 0 => \A e \in Execs :
        gen[e].state = "deleted" /\ e \notin removing => "output" \notin dir[e]

---------------------------------------------------------------------------
\* What the adapter says of itself: a generation is done only with an image
\* to show (comfyui.py, status).
DoneHasImages == \A e \in Execs : gen[e].state = "done" => gen[e].outputs

\* What the services say: a prompt is lost when the engine was restarted
\* or forgot it (services.py, LOST_MESSAGE).
LostMeansForgotten == \A e \in Execs : gen[e].kind = "lost" => prompt[e] = "forgotten"

\* What the job kind says: a reference answers for the job's actor as it
\* did when the job was enqueued (jobs.py, run_generate), so an upload that
\* was accepted is found for as long as it is kept.
AcceptedUploadsResolve ==
    \A j \in Jobs, t \in Tries :
        job[j].state = "failed" /\ job[j].outcome = t /\ asked[j].upload
        /\ gen[<<j, t>>].state = "absent" =>
            asked[j].admin \/ staged[j] \notin {"fresh", "old"}
================================================================================
