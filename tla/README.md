# A TLA+ model of farabunker

farabunker is a self-hosted assistant: a Django application (web processes, a
folder watcher, one or more worker processes) over one Postgres database, a
managed file store and local inference engines.  What makes it hard to get
right is not any one algorithm but that long work (ingesting a document,
answering a turn, generating an image, re-encoding the library) is done by
workers that may die, be shut down or be given up on while they still run,
against rows that requests go on changing, and that what a person may see is
decided again and again over rows that other people change meanwhile.  This
directory models that core, checks it with TLC on small instances and proves
parts of it with TLAPS for every size.

## 1. Inventory

| Component (source) | State | Operations | Hard because | Correct when |
|---|---|---|---|---|
| Admission scheduler (`models/queue/scheduler.py`) | none: a pure function of running and queued jobs, budget, cap | `plan_admissions` and its memory arithmetic | shared models, unmeasured models, oversize and exclusive jobs, running totals kept incrementally | what it admits fits, an idle machine admits its head, the loop computes the policy |
| Job queue (`models/queue/backend.py`, `claim.py`, `models.py`, `views.py`) | `InferenceJob`, `JobSettings` | enqueue + cap + prune, cancel, claim + sweep, two settings forms | several workers, READ COMMITTED reads, claims that outlive their holder, check-then-insert | one holder, one outcome, from the last holder; one retry; slots and budget kept; forms do not undo one another |
| Workers (`models/queue/worker.py`, `run_jobs`) | main loop, thread pool, tokens, heartbeats | tick, launch, execute, checkpoint, write back, drain, shutdown | crash, signal, database error at any step; a thread that finishes after its row was given away | fenced write-backs, nothing lost, every job ends, hooks run |
| Residency (`worker.py:855-1204`, `models/contracts/engines/comfyui.py`) | the adapter's run memo, the engine's memory and queue | evict, unload, measure | what is loaded is remembered, not known; unload is polled | what the adapter can tell is loaded fits, what it forgets is gone |
| Document ingestion (`tools/rag/ingest.py`, `jobs.py`, `services.py`, `store.py`, `views.py`) | `Document`, `DocumentRow`, managed copies, chunks, the inbox | stage (upload, watcher), enqueue, re-ingest, delete, `rag.ingest`, terminal hook | a transaction and file operations it cannot undo; handlers that write rows without a fence; requests that meet attempts | READY can be trusted, FAILED can be retried, nothing is stranded, deletion is complete |
| Media sidecars (`tools/rag/media.py`, `sidecar.py`) | `extract.json`, `work/`, checkpoint | transcribe/extract in resumable slices | resume after a drain or a sweep, atomic replace | a finished sidecar is whole, a resumed one repeats one unit |
| Document library (`tools/rag/access.py`, `labels.py`, `workstreams.py`, `retrieval.py`) | labels, scopes, attachments, pins, stamps on passages | label, unlabel, scope, attach, pin, restamp, search | the stamps the retriever filters on are a copy written by somebody else's statement | lists, row checks and searches agree |
| Asking (`tools/rag/jobs.py`, `services.py`, `views.py`) | `AskRecord`, `AskSettings` | ask, resolve, retrieve, record, prune | the model and the asker's rights change while the question runs | a picked model answers itself, nothing withdrawn is cited |
| Consolidation (`tools/rag/jobs.py`) | the note of a conversation | request, distil, stage, label, ingest, record | eight transactions against a conversation that goes on or is deleted | a note bears every tag of its text and settles |
| Agent turns (`agents/chat/service.py`, `agents/runtime/jobs.py`, `service.py`) | `Conversation`, `Turn`, `ToolInvocation` | start, run, cancel, delete, terminal hook | read-then-write of the next index, unfenced status writes, check-then-act on the turn in flight | somebody will end every turn, answers come last, a cancelled turn stays cancelled |
| Tool loop (`agents/runtime/loop.py`, `bindings.py`, `delegate.py`, `flow.py`) | stack of loops, shared budget, deadline, taint | plan, ask, run a tool, delegate, flow | recursion through agents and flows that share one budget | one budget, only planned models, taint marked, timeouts surface |
| Prompts (`agents/runtime/prompt.py`) | none of its own: rows, attachments, provenance | replay, window, fence, attach | live messages and replayed ones must agree about whose words are data | document and foreign words are fenced, withheld stays withheld |
| Workstreams and shares (`agents/visibility.py`, `workstreams.py`, `shares.py`, `entitlements.py`, `runtime/taint.py`) | streams, conversations, shares, tags, walls | create, share, move, duplicate, wall, delete | two gates at different times, shares without foreign keys, tags that grow | lists and predicates agree, tags follow the content |
| Identity (`identity/services.py`, `access.py`, `views.py`, `admin.py`) | accounts, groups, entitlements, grants, posture | promote, demote, deactivate, grant, switch, adopt | load-then-write pages, whole-row saves | the services keep an administrator, a personal box is open |
| Sign-in (`identity/throttle.py`, `audit.py`) | audit rows | count, refuse, record | counting and recording are two statements | guesses are bounded, a lockout ends |
| Model registry (`models/registry/*`, `tools/rag/services.py`) | connections, role bindings, `Materialization` | register, edit, remove, bind, re-encode, ingest | the record of what encoded the table is written by three parties | one width, ready means searchable, only a whole run replaces the record |
| Availability (`models/registry/availability.py`) | one cache per process | read, invalidate, expire | transactions, threads, other processes | only committed bindings are cached, caches converge |
| Image generation (`tools/vision/services.py`, `jobs.py`, `engines/comfyui.py`) | `GenerationJob`, staged uploads, input and output files, engine history | submit, refresh, store, delete, prune | crash between submit and save, stale refreshes, re-runs | outcomes stand, shown outputs exist, a submission can be followed |
| Backup and restore (`foundation/ops`) | manifest, dump, file tree, services | refuse, copy, fold in, verify, restore | web serves while the copy runs; commands are killed | rows come with their files, refusing changes nothing |
| Setup, landing, settings area, shell; other engines' adapters | none of their own | pages, HTTP, rendering | | not modelled |

Requests and the watcher write domain rows and call
`models.queue.backend.enqueue`; workers claim jobs in one transaction under an
advisory lock and call the kind's handler in a pool thread; handlers write the
domain rows themselves; when a job ends without its handler having spoken
(cancel, second orphaning, unresolvable handler) the queue calls the kind's
`on_terminal` hook after the commit.  So each domain component is a client of
the queue's promise, and the model is layered the same way: `JobLifecycle` is
the promise, `JobQueue` implements it, `Documents` is shown to assume no more,
and `QueueClient` is the queue as every other client sees it.

`PROJECT.json` lists the components with their status, and the hazards, each at
its line with the properties that would catch it.

## 2. Modules

| Module | Models | Extends or instantiates |
|---|---|---|
| `Scheduler` | `scheduler.py` as set-valued operators: the admission policy in closed form | |
| `PlanLoop` | `plan_admissions` as the loop the code runs, one action per branch of an iteration | `Scheduler` |
| `JobLifecycle` | the abstract life of a job | |
| `JobQueue` | tables, admission transaction, worker processes, threads, hooks | `Scheduler`, refines `JobLifecycle` |
| `QueueClient` | jobs, claims, sweeps, drains, cancels, hooks as a client sees them | |
| `Submission` | enqueue against itself, cancel, prune; the two settings forms | |
| `Residency` | eviction, unload, memo and measurement of one image engine | |
| `Documents` | staging, attempts, hooks, library operations for the files of one path | refines `JobLifecycle` |
| `Media` | sidecar, slices, checkpoint and text of one document | `QueueClient` |
| `Library` | who may read a document, and which passages a search returns | |
| `Asking` | two questions on the Ask page | `QueueClient` |
| `Notes` | consolidation | `QueueClient` |
| `Turns` | one conversation's turns | `QueueClient` |
| `ToolLoop` | planner and loops of one turn | |
| `Prompt` | what the models of a turn are given to read | |
| `Identity`, `Sharing` | accounts and posture; streams, conversations, shares | `Sharing` extends `Identity` |
| `SignIn` | lockout | |
| `Registry` | connections, embeddings binding, re-encode | |
| `Availability` | navigation caches | |
| `Generation` | one image generation per job attempt | `QueueClient` |
| `Backup` | backup and restore | |
| `...Proofs` | theorems about the module they are named after | |

`MC` modules are the instances.  A run is one `MC` module in which several
components live side by side: a variable `focus`, chosen in the initial state
and never changed, names the component whose steps the behaviour takes, and the
others stay at their initial state.  The components do not share state in a
run, so this checks each as if it were alone, with one start of the checker for
a question of the system rather than one for each module.  A property of a
component that rests holds or is guarded by its focus.  Where components do
meet (queue and client, ingestion and library), the meeting is inside a module:
`QueueClient`'s actions are those `JobLifecycle` allows, and `Library` has the
steps of an ingestion that touch stamps.

### Scheduler, PlanLoop, JobQueue

`PlanAdmissions` says which candidates an admission takes: the maximal prefix of
the priority order that fits, with the exclusive and oversize rules.  `PlanLoop`
has the variables of the Python function (`used`, the resident keys, the
admitted list) and its early returns as actions.  Sizes are small naturals;
`None` is an unmeasured model.

A step of `JobQueue` is one committed statement or transaction, or what one
process does between two.  `row` is the table; `claims` counts claims and stands
for the random claim token (a uuid never repeats, so "the token of the n-th
claim" loses nothing); `heartbeat_at` is only stale or not.  The admission
transaction takes two steps because under READ COMMITTED its two reads may see
different states (`ClaimBegin`: lock, sweep, read running; `ClaimAdmit`: read
queued, plan, claim, commit).  A worker's main thread is `pc`, its pool threads
are the records in `exec`, an attempt that lost its row stays in `exec` until its
thread ends.  Hooks are a set `hookq` between the commit that schedules them and
`RunHook`.  Handlers are external: they checkpoint, then succeed or raise.
Faults, bounded together by `MaxFaults`: a worker crash at any step, a signal, a
tick that raises, a write-back that is lost, a web process that dies before its
hook.  `TimelyHeartbeats = FALSE` lets the rows of a live worker go stale, which
is what a long blocking unload does.

### QueueClient and its clients

`job` is the row's status, `att` what the attempts do, an attempt being a pair
of a job and the ordinal of its claim; `Sweep`, `Drain`, `Crash`, `Cancel`,
`Finish` and the hooks are those of the queue.  A client gives attempts their
program counter and adds its rows.  `Late = TRUE` lets an attempt outlive its
claim.  A number of a job is also the number of what it was enqueued for (a
turn, a question, a generation), since every job is written with it.

### Documents

The documents are those with one `original_path`: staging deduplicates by path
and never looks at another path's rows, so paths are independent.  A version
stands for a file's bytes and for their SHA-256.  `copies[d][v]` counts how often
the passages (or rows) of version v are in the index for document d.  A request
(`req`) is a program counter with what it has read; `door` says who it is, and an
upload that found its own bytes at the path before staging is a `reupload`
(`dest_unchanged` in the code, compared long after it was computed).  Where a
transaction and the file system disagree the model follows the code:
`_delete_existing_data` removes chunks and files at once, the row change waits
for the commit, and `DocumentRow`s go with the transaction.

Two switches say what surrounds a run rather than what the code does: `Late` and
`RequestsDie` (web processes are killed); `Tabular` says which kind of file is
ingested.  With both switches TRUE the module is the unrestricted system; a run
turns on the ones a property survives.  Requests touch a document at any time, also
while it is ingested.  `met` is a history variable and restrains nobody: the
documents at which two were busy at once (a request or a job came to a document
another was working on), and those whose new file was taken away between the
upload and the staging's commit.

### Turns, ToolLoop, Prompt, Notes

`Turns` follows the rows: the USER and the ASSISTANT row of a turn and its job
are one transaction, tool rows and invocations come one by one, and every writer
reads the next index before it inserts.  `ToolLoop` follows one turn inside: the
planner's walk, then a stack of loops, one per delegate, over one
budget of model answers, repairs and time; `MCHandlers` extends it, `Notes`
and `Media`, and a behaviour follows one of the three.  `Prompt` keeps texts as sequences of
pieces, each with whose words they are and whether they are fenced, and asks of
every message a model is sent, live or replayed.  `Notes` has one action per
transaction of `run_consolidate`; a text is the number of turns it covers.

### Identity, Sharing, SignIn, Registry, Availability

A page loads its rows (`Open...`), decides, and writes later; what a service does
in one transaction under a row lock is one step.  `Sharing` has the two gates:
`GateOne` at the moment of sharing, `StreamAccess` at every read.  `SignIn` keeps
the audit log's failed sign-ins with their ages, up to the window.
In `Registry` a model stands for its fingerprint (engine, model id, dimension),
and console requests, ingests and the re-encode run are processes with a program
counter.  In `Availability` the bindings are a version number, and threads of one
process share a cache and a generation.

### Library, Asking, Media, Generation, Residency, Backup

`Library` keeps tables and stamps apart; a label change is a transaction that
commits with its stamps, an ingestion replaces passages without stamps and
re-stamps them in two statements.  `Generation` separates the graph's submission
from saving the engine's reference, and a refresh from its write under the row
lock.  In `Residency` what the engine holds is ghost state, the adapter sees only
memory readings and its memo.  In `Backup` a command is a program counter over
the row set, the file tree and the destination.

## 3. Runs

Every property below has a mutant in `PROJECT.json`: a plausible bug in the code
it is about, under which TLC finds the property violated with the same
configuration.

| Run | Subjects (focus) and instance | Shows |
|---|---|---|
| `admission` | two workers in sequential mode with one fault; two workers without faults while the operator switches between sequential mode and a budget, with one job exclusive and overtaking; every call of `plan_admissions` over three jobs of nine shapes, five budgets, caps 0 to 3; two requests at the cap, one prune; two administrators on two forms; four jobs on three checkpoints of an engine with room for them | every admission fits the settings its tick read (slots of the whole machine, memory, exclusive jobs alone), two handlers of one job overlap only in a drain's last moments; the loop computes the policy (`WalkReturnsThePlan`); the cap is exceeded by the documented race only; forms do not undo one another; what the adapter can tell is loaded fits the budget |
| `attempts` | one job, two workers, late heartbeats, and either two faults or settings that switch | fencing (`LastClaimDecides`), a live attempt's heartbeat is never cancelled by an earlier one's clean-up, refinement of `JobLifecycle`, checkpoints never go back |
| `administration` | two accounts, a group, an entitlement, two requests; a stream, two conversations, a tool, two changes; two connections, three models, two documents, three edits | the services keep an administrator; a share not marked dormant opens, tags follow content; one width, ready means searchable, and only a whole run replaces the record |
| `jobs` | one job, one fault, late heartbeats, fairness; one turn, two requests, two faults, killed requests, fairness | every queued job ends; every turn ends unless the process that owed its hook was killed |
| `settling` | two requests on two documents, two jobs, one fault, fairness; one name in two spellings, two posts, threshold 2; three threads in two processes, two writes | an unfinished document has somebody who will change it, and settles; a row at rest agrees with its file and its passages unless two met at its document; a lockout window bounds the guesses; caches converge |
| `handlers` | two requests to consolidate a conversation of up to two turns, one tag, two faults; three agents, two tools and a flow in 60 delegation graphs, three steps, depth 2; an ingestion and a re-ingestion of a recording, PDF or image of two units, two faults | a note carries the tags of its text; the planner's declaration covers every model a turn uses, what was read is tainted; a sidecar that says it is finished is whole |
| `corpus` | one document, label, stream, two chats, four principals, one label writer, one failure; the files of one path with late attempts and killed requests; two questions, two connections | lists and searches agree and stamps are current while labels, pins, walls and ingestions interleave; the queue under `Documents` is `JobLifecycle`; an answer cites nothing withdrawn before its retrieval |
| `files` | one generation job, a fault, an open card; a backup, its restore and a second run, one edit, one kill | outcomes of a generation stand, a submission can be followed; rows come back with their files |
| `conversations` | two requests, two jobs, one fault, one tool call each, killed requests; an owner and a guest, two turns, two steps, one delegate | somebody answers every turn, answers come last, a failure closes its calls, cancelled stays cancelled; whatever a model is sent, a document's words are fenced |

The modules state more than the runs list, so that the runs stay few and quick:
their type invariants and the remaining invariants and action properties hold in
the same instances (name one in a configuration of the module, or of the run's
module with the instance's prefix).

Bounds.  Two workers are enough for every race between an attempt and its
successor and between two admissions; two faults let a job be orphaned twice,
which is where its retry ends, and let a drain meet a crash.  Two versions tell a
stale passage from a current one, two jobs allow an ingest and a re-ingest, of the
same file or of another, each with its retry; two requests give every pairwise race of uploads, watcher,
re-ingest and delete; the second document number is reached when the first is
deleted and the file dropped again.  Two units of a recording are the fewest of
which one can be missing.  Three checkpoints and a budget of four are the fewest
with which two fit beside each other and a third does not.  Three candidates with
only the first one's priority varying reach every order up to renaming.  Two
conversations make a copy or a move possible, two connections a rebind, and a
third model a rebind to what is recorded already.  For the properties that
section 5 proves the theorems remove the bounds; the others are shown for these
instances only.

`CHECK_DEADLOCK FALSE` stands where everything a run follows comes to its end:
bounded faults, requests and jobs run out.  The queue never stops (workers poll),
so the runs that extend it check for deadlock, and the subjects that do end there
have an explicit resting step (`Rests`).

### Disagreements between the code and what is said of it

Three are runs that TLC must find violated, each with a finding in `PROJECT.json`
that quotes the sentence.

- `find_disjoint`: the assertion at the top of `plan_admissions` can fire,
  because a drain commits between the admission's two reads.
- `find_note`: a conversation deleted while its note is distilled again costs the
  note its labels.
- `find_truncated`: a work directory left half cut by a drain is taken for whole,
  and a truncated transcript is READY for good.

The modules state further claims of docs, comments and docstrings that the code
does not keep.  No run is kept for them; the table says how to see each (the
property as the only `INVARIANT` or `PROPERTY` of a configuration of the module).

| Claim | Property | Constants | What happens |
|---|---|---|---|
| "every failure state a document can reach is reachable by Retry" (`docs/adr/0014-media-ingestion.md:1064`) | `Documents!FailedCanRetry` | those of `settling`, three arrivals | two stagings of a changed file; the loser's `_delete_existing_data` removes the winner's managed copy (`ingest.py:1366`, 1396), the document fails and can be neither retried nor uploaded again |
| rows are SQL "so numeric/aggregate questions stay accurate" (`tools/rag/models.py:391`) | `Documents!RestingRowsAreTrue` | `Tabular` | re-ingesting a spreadsheet inserts its rows a second time (`ingest.py:859`) |
| "The stranded-Document class of failure is closed by construction" (`0014-media-ingestion.md:1064`) | `Documents!EveryDocumentSettles` | `RequestsDie` | a process killed between staging and enqueueing leaves a document PENDING for ever (`ingest.py:1919`) |
| "a cache writer that reads the fact itself cannot cache the wrong thing" (`tools/rag/labels.py:118`) | `Library!CacheIsNeverWrong` | those of `corpus` | the re-stamp reads the labels, a label transaction commits, the re-stamp writes what it read (`labels.py:170`, 222) |
| a success without images is "reported as a failure rather than a silent `done`" (`engines/comfyui.py:1262`) | `Generation!DoneHasImages` | those of `files` | outputs that cannot be fetched leave a done row without images (`services.py:1224-1273`) |
| lost means the engine does not know the job (`tools/vision/services.py:55`, `models.py:97`) | `Generation!LostMeansForgotten` | those of `files` | history and queue are asked one after the other; a graph that moves between them is in neither answer |
| an input reference "must answer for THIS job's actor exactly as it did at enqueue time" (`tools/vision/jobs.py:283`) | `Generation!AcceptedUploadsResolve` | those of `files` | a staged upload belongs to no job yet and is visible to administrators only (`services.py:769-772`), so the job of anybody else's upload fails when it is claimed |
| the last-admin guard applies in the admin site "exactly as they do on the users page" (`identity/admin.py:39-45`) | `Identity!NeverWithoutAdministrator` | two accounts, two requests | the admin site saves the whole account it loaded, over a promotion committed since |
| the record "still reads exactly what answered the question" (`tools/rag/models.py:559`) | `Asking!RecordNamesItsModel` | those of `corpus` | the connection's name is read after the answer (`jobs.py:264`) |
| a growth-only footprint is never recorded (`engines/comfyui.py:786`) | `Residency!MeasuredCoversTheModel` | two checkpoints of equal size that fit together, `Growth = 1` | the memo compares with the last run only (`comfyui.py:297`) |
| an unmeasured loaded model is "not a persistent gap" (`models/queue/worker.py:948`) | `Residency!LoadedFitsTheBudget` | those of `admission`, no fault | the second run of a model in a row has no size, and eviction counts 0 for it |
| a model is never believed gone when it is not (`engines/comfyui.py:1012`) | `Residency!ForgottenMeansGone` | five jobs, no fault | `unload` pops the memo that a submission just wrote |
| "The one gap even this leaves" (`docs/OPERATIONS.md:1280`) | `Backup!OwnFileOrNone` | two edits, one run | a file replaced between dump and copy: the old row beside the new file |
| no drift banner means the library is encoded with the bound model (`models/registry/drift.py`) | `Registry!NoDriftMeansEncoded` | those of `administration` | a rebind away and back while documents are ingested in between |

Further behaviours a reader of the code should know of, found while modelling:

- Queue: `on_terminal` can be called for a job that is queued or running again
  (`worker.py:724`, against `jobkinds.py:232`); an attempt with `attempt == 0` can
  find a checkpoint, because a drain gives the row back without counting
  (`worker.py:1336`, against `jobkinds.py:75`); the prune's cutoff is by primary
  key, not by time of finishing.
- Documents: when two meet at a document (`met`), a first attempt can write READY
  over the passages of an earlier file (`ingest.py:1625`), and a document deleted
  during an attempt gets passages from a later `insert_nodes` (`ingest.py:783`).
  A staging that rolls back because its file was taken away leaves the row READY
  with neither copy nor passages: `_delete_existing_data` removed both, at once,
  before the move that failed (`ingest.py:1366`, 1396; `StageRollsBack`).
- Turns: two requests may both see no turn in flight (`service.py:273`; `Turns!OneJobWrites`); a crash
  after `_finish` and before the write-back runs a finished turn again, which then
  may read the other question as its own; an invocation a crashed attempt left
  open stays open if the retry succeeds (`Turns!OverClosesCalls`); a hook is lost with its process; deleting
  a conversation leaves audit rows open.
- Tool loop: a model that raises in a delegate costs no step; the taint resolver's
  failure is swallowed, so a result may go untainted.
- Identity and shares: the posture row is read and written back whole and loses a
  concurrent change (`identity/services.py:299-354`); a share inserted while its
  stream is deleted stays, inert; a copy of a conversation whose source is deleted
  meanwhile is untagged (`visibility.py:614-622`).
- Library: passages of a document deleted during its ingestion stay, stamped
  universal; a bulk label computes its set from an unlocked read
  (`views.py:849`); the pin limit is check-then-insert (`workstreams.py:111`).
- Notes (`EveryNoteSettles`, against the "stranded-note fix" of `on_consolidate_terminal`): a handler that raises after staging and before ingesting leaves the note
  PENDING, which is why `NotesSettle` excepts it.
- Media: an attempt killed between the final sidecar and the removal of `work/`
  leaves the directory for good.
- Generation: an input stored after its job's deletion stays on disk; an I/O error
  or a crash before the reference is saved leaves a queued row nobody can follow;
  a deletion that races a refresh answers 500.
- Registry: a request that dies between saving a binding and stamping the record
  misses the first stamp; an edit that races a removal inserts the row again; a
  duplicate re-encode check is check-then-enqueue; an edit saves the whole row
  over a footprint measured since.
- Availability: a thread switch between comparing the generation and storing can
  publish a stale set until it expires (against `availability.py:80-89`).
- Backup: a refused forced run has already had its dump replaced by the shell; the
  dump is verified only after the files are in place.

## 4. Fairness

`JobQueue!Fairness` assumes of each worker that its main thread goes on and is
restarted after an exit or a crash (`compose.yaml:195`, `restart:
unless-stopped`), of each pool thread that it ends (handlers have engine
timeouts), of time that the heartbeat of an abandoned row becomes stale, and that
scheduled hooks run.  It assumes nothing about signals, crashes, cancellations or
settings.  A drain is given its grace period (`stop_grace_period: 30s`,
`compose.yaml:226`, against 20 s in `worker.py`).  A job of low priority may
starve behind an endless inflow of higher ones; the code documents that, and the
instance has no inflow.

`Documents!Fairness`, `Turns!Fairness` and `Notes!Fairness` assume that requests
and attempts that have begun go on, that workers claim queued jobs, that orphans
whose holder is gone are swept, and that scheduled hooks run; nobody has to
upload, post, retry, cancel or delete.  `LoopFairness` assumes that the
attempt goes on, not that its deadline comes.  `SignIn` needs only that time
passes (`Tick`), since a lockout is to end whatever is tried.  `Availability`
needs requests that end and cached values that expire.

## 5. Proofs

All theorems are for every value of the constants under the named assumptions of
the module they are about, which TLC evaluates on the runs.

`JobQueueProofs` (`QueueAssumption`: finite sets of numbers, positive identities):

- `TypeCorrect`: `Spec => []TypeOK`.
- `Invariance`: `Spec => []QueueInv`, the inductive invariant.  `LastClaimDecides`
  alone is not inductive: a claim on a row that already had an outcome would
  break it, and so would two admission transactions open at once or a swept row
  changed under the sweeping transaction.  `QueueInv` adds that an unfinished row
  has no outcome, that no checkpoint is newer than the last claim, that one
  transaction holds the lock and that its swept rows stay running until it commits.
- `Fencing`: `Spec => []LastClaimDecides`.
- `Refinement`: `Spec => ImplementsLifecycle`.
- `CheckpointSafety`: `Spec => CheckpointNeverGoesBack`.

The argument is made once: `EveryStepIsARowStep` classifies what any of the thirty
actions does to one row (nothing, enqueue, claim, give back, sweep, report,
checkpoint, cancel, prune), and the invariant, the refinement and the checkpoint
property follow per class of row step.

`DocumentsProofs` (`NumbersAssumption`, `FlagsAssumption`):

- `TypeCorrect`: `Spec => []TypeOK`, late attempts and killed requests included.
  Needs `TriesBounded` (a job is claimed once, once more per fault and once more
  for its retry, so the ordinal stays in range) and `WellFormed` (a step finds the
  document, the hash and the attempt it relies on).
- `NeverStranded`: without `Late` and `RequestsDie`,
  `Spec => []SomebodyIsResponsible`.  `ExecutingHolds` says that an attempt that
  executes holds its job; `Kept` says that every unfinished document has a keeper:
  a staged request, a hook, a queued job, or a running job whose attempt has not
  yet written READY or FAILED.  A running job whose attempt has already written is
  not a keeper, since its report will not touch the row again; that is the
  strengthening the invariant needs.  The two excluded cases are exactly where it
  fails (section 3, RequestsDie).
- `RestingRowsTellTheTruth`: without `Late`, `RequestsDie` and `Tabular`,
  `Spec => []RestingRowsAreTrue`, through any number of faults, retries,
  cancellations, re-ingests and deletions.  The invariant, `Sound`, follows a
  document whoever is busy with it: one request or one job at a time (`AloneAt`),
  whose hash is the row's (`HashKnown`); copy and index fit the row except while a
  request is clearing them (`FilesFit`); and an attempt has established what the
  step it is at relies on, say that the index is empty before it inserts (`Knows`).
  Two jobs' attempts are kept apart by `ExecutingHolds`.  The argument is by who
  tends the document: `QuietSteps` for steps elsewhere, `TendedStays` for a step of
  the one who tends it, and `Arrives` for somebody coming, who finds nobody or puts
  the document into `met`.  `RestingRowsAreTrue` is false with any one of the
  three flags: TLC finds the behaviours with one request.  `Late`: an attempt whose
  job was given away goes on writing.  `RequestsDie`: a request stops between the
  removal of the passages and the change of the row.  `Tabular`: the attempt does not empty
  the index first.
- `QueueIsAsPromised`: `Spec => QueueAsPromised`, late attempts, killed requests and
  sweeps of orphans included: `Documents` too implements `JobLifecycle`, with the
  same mapping as `JobQueue`.  So the queue the clients are modelled on and the queue
  with its workers keep one and the same promise.  `EveryStepIsAMove` names the one
  row a step moves and how.

`JobQueueProofs`, the attempts in memory:

- `AttemptsAreRegistered`: `Spec => []AttemptInv`.  Tokens of attempts are unique
  and never newer than the job's claims; the attempt of the newest claim is
  registered in its worker's `_active_tokens`; an attempt is only claimed while its
  main thread is between the claim and the submission, and is then the newest of
  its worker.
- `OwnedRowsStayFresh`: `Spec => []OwnedRowsAreHeartbeated`, from `Fencing` (a
  running row carries the last claim's token) and `AttemptInv`.
- `OneHandlerAtATime`: `Spec => []OverlapOnlyInDrain`; the hypothesis
  `TimelyHeartbeats` is in the property.  `TimelyInv` follows a superseded attempt:
  a swept row was stale, what a drain has on its list was claimed and is executed
  by the draining worker alone, a dead worker executes nothing, and a handler that
  goes on either stands on the current claim or its worker is giving back.

`JobQueueProofs`, about `Submission` (`SubmissionAssumption`: positive caps, one of
them the largest):

- `SubmissionTypeCorrect`: `SubSpec => []SubTypeOK`.
- `TheRaceIsBounded`: `SubSpec => []CapHoldsUpToTheRace`, for any number of clients and
  caps that change in between.  `RaceInv` counts one principal's active jobs together
  with its requests between the count and the insert: a request joins them only when
  its count, taken earlier, was below the cap it read, so with k of them on their way
  there are at most the largest cap and as many more as there are other clients.
- `SavedFormsAreInForce`: `SubSpec => SavedFormsStand`: a save writes its own form's
  fields.

`QueueClientProofs` (`QueueClientAssumption`) has no theorem of its own.  It proves,
once for all clients, what a step of the queue may do to a client: what claim,
sweep, drain, cancel and report do to the row, that claims stay in range, that an
attempt that executes holds its job while none is late, that no end goes untold
(`EndsAreTold`), that only a fault takes an attempt away from a live job
(`NoFaultNoLoss`), and that success is reported by the attempt that had it
(`SuccessIsReported`).

`TurnsProofs` (extends the former; all but the first without `Late`):

- `TypeCorrect`: with the bound on indices, so that `NextIndex` is a number behind
  every row.
- `InFlightIsActive`, `AnswersStandLast`, `FailedJobsAreClosed`,
  `CancelledIsFinal`: `[]SomebodyAnswers`, `[]AnswersComeLast`,
  `[]FailureClosesCalls`, `CancelledStaysCancelled`, from one invariant `RowsInv`.
  `AnswersComeLast` speaks of finished turns only; the invariant needs `AtWork`, what
  an attempt knows at each program point (the index it remembers lies behind the
  rows of its job once it is `finishing`), and `OrderedRows` for the placeholder.
  `FailureClosesCalls` needs that every open call belongs to a stamped turn, or the
  hook could not find it.

and about `Prompt` (`PromptAssumption`: the owner is a user, no user is called like
one of the program's own speakers):

- `PromptTypeCorrect`: `PromptSpec => []PromptTypeOK`.
- `DocumentsAreFenced`: `PromptSpec => []DocumentWordsAreFenced`, any number of users,
  turns, steps and delegates inside each other.  The property speaks of what is in a
  loop's prompt; `PromptInv` speaks of what can still get there.  Of a row
  (`SoundRow`): a message holds no document's words, and what the code makes of a
  tool row or an answer when it replays it is fenced.  Of a loop (`SoundFrame`): its
  last result, which a delegate returns and a limit ending quotes, is fenced by the
  key it came under or needs no fence (`SafeResult`), and its failures, which an
  ending quotes without a fence, are this program's words.  An answer keeps document
  words unfenced in its row: it is the ranges it records (`QuotesFit`) that
  `_replay_assistant_text` fences.  `AnswerReplayed` shows that a replay takes no
  fence away, and the limit ending's step that its range covers what it quotes.  TLC checked `PromptInv` before it was proved.

`GenerationProofs` (late attempts included):

- `TypeCorrect`; `CardsFollowSuccess`: `[]SucceededIsFollowable`;
  `OutcomesAreFinal`: `OutcomesStand`.  `Reached` ties each attempt's program point
  to the stage its row has reached; rows only grow (`RowGrows`), so a page that
  writes a stale answer cannot take back what a card follows.  The step lemmas
  establish `Keeps`, from which the invariant follows once (`KeepsInvariant`).

and about `Backup` (`BackupAssumption`; `Strict` or not):

- `BackupTypeCorrect`: `BakSpec => []BakTypeOK`.
- `RowsComeBackWithTheirFiles`: `BakSpec => []RowsComeWithTheirFiles`, any number of
  documents, edits, runs and kills.  The property speaks of the moment after a
  restore; `BackupInv` follows one dump there: while files are copied for it, every
  document not touched since still has the dump's row and that row's file, and what
  is listed is what was copied (`CopySound`); a manifest that names a dump was written
  for it, and a dump of a later run is another one (`ManifestSound`); a restore puts
  back what the manifest lists (`PutSound`); and no request is open while web is down
  (`BackSound`).  TLC checked `BackupInv` with `Strict` on and off before it was
  proved.

`AdministrationProofs`, about `Registry` (`RegistryAssumption`), `Identity`,
`Sharing` and `SignIn` (`SignInAssumption`):

- `RegistryTypeCorrect`, `TableHasOneWidth`, `ReadyIsFound`; and `RecordIsEarned`
  where `Alone`, that is where nothing else ingests during a re-encode.
  `RunIsHonest` is the strengthening: what a run has passed is encoded or the run is
  remembered as bad, and with `Alone` all of it with the run's model.
- `LastAdministratorStays`: `AccountsSpec => ServicesKeepAnAdministrator`.  The
  argument is about the moment of the locked read: a service refuses unless
  somebody else administers, and forms in flight are well formed.
- `StreamsAreTagged` and `LiveSharesOpen`, for `ShSpec`.  `Contained` (a
  conversation lies in a live stream that has its tags) is kept by a copy only with
  `CopyHasItsSource`: a copy in the making has its source in its own stream, or the
  source is gone, tags and all.
- `SignInTypeCorrect`, `LockoutBoundsTheGuesses`: `SignSpec => []GuessesAreBounded`,
  for any number of names, spellings and posts.  The property is inductive with the
  types: a post that is let past adds one to the posts when the failures are below
  the threshold, a wrong password moves one from the posts to the failures, and the
  clock only takes rows away.

`LibraryProofs` (`LibraryAssumption`):

- `TypeCorrect`; `StampsStayCurrent`: `[]StampsAreCurrent`; `SearchAndListsAgree`:
  `[]SearchMatchesTheLists`.  `StampInv` says of every document what its passages,
  an ingestion's read-ahead and a label change in its transaction carry: the current
  stamps, or a mark that they were overtaken.  An attached document has one chat, so
  its place is a function of the tables.  TLC checked `LibraryInv` on the run's
  instance before it was proved.

and about `Asking` (`AskingAssumption`; late attempts included):

- `AskTypeCorrect`: `AskSpec => []AskTypeOK`.
- `WithdrawnStaysUncited`: `AskSpec => []WithdrawnIsNotCited`.  An attempt may cite what
  was readable when it was resolved; access is only taken away, so until its retrieval
  whatever is readable is among that (`AskInv`), and what it cites was read then.

`HandlersProofs` (`NotesAssumption`; without `Late`):

- `NotesCarryTheirTags`: `[]NoteCarriesItsTags`.  One attempt runs at a time, an
  attempt's text repeats only what the conversation's tags cover, and from the
  labelling to the processing the note's labels cover the stored copy.

and, in the same module, about `ToolLoop` (`ToolLoopAssumption`: finite sets, positive
limits; any grants, declarations, bindings and flow):

- `LoopTypeCorrect`, `TimeoutsReachTheTop` (`[]TimeoutReachesTheTop`) and
  `WhatIsReadTaints` (`[]ReadIsTainted`).  `StackOK` describes the stack: the first
  loop is the turn's, each other one runs an agent its caller is granted, and a loop
  calls only what it was granted.  `OnItsWay` says where a deadline that has passed
  is noted: in the result of the loop that settles, or at the top.
- `EveryRoleIsDeclared`: `[]PlanCoversTheTurn`, assuming `MaxDepth <= 2`.  `PlanInv`
  says that who was visited has its roles declared or waits in the frontier, and that
  the delegates of the first agent, and theirs, are visited once the walk has been
  there.  The bound is essential, and is the code's (`agents/limits.py:94`,
  `MAX_AGENT_DEPTH = 2`): the walk remembers agents, not depths
  (`agents/runtime/jobs.py:145-188`), so with three levels an agent first met at the
  bottom is not expanded when it is met again higher up, and TLC finds a turn that
  runs an undeclared role.

and about `Media` (`MediaAssumption`: at least one unit; without `Late`):

- `MediaTypeCorrect`, `SidecarsAreWhole` (`[]FinishedIsWhole`) and
  `ReadyDocumentsAreWhole` (`[]ReadyIsWhatItSays`, which no run lists), from
  `MediaInv`.  `FinishedIsWhole` speaks of finished sidecars only; the invariant says
  of every sidecar ever written that it holds the text of the first units
  (`SidecarSound`), of a checkpoint that it counts the segments of the units it
  confirms (`Confirmed`), and of an attempt that it holds the text of the units it is
  past (`LoopSound`), so that cutting the sidecar back to the checkpoint gives the
  text of the confirmed units (`HeardBefore`, whether or not the sidecar ran ahead).
  A recording also needs its slices.  `SlicesSound` holds until the second fault, and
  it needs `FirstAttempt`: without a fault the attempt that checkpointed is still at
  work, because only a fault takes an attempt away from a live job
  (`NoFaultNoLoss`).  With two faults the invariant breaks where `find_truncated`
  does.  TLC checked `MediaInv` with two and three units and faults before it was
  proved.

Without `Late` means: an attempt does not outlive its claim.  The runs of those
properties make the same choice; what late attempts do is checked for `Documents`
(run `corpus`) and proved for `Generation` and for the queue itself (`Fencing`).

Only model-checked:

- liveness (`JobsFinish`, `EveryTurnEnds`, `DocumentsSettle`, `NavConverges`): TLAPS
  has no fairness or `ENABLED` reasoning here;
- what rests on sums and folds over sets (`AdmissionsFit`, `WalkReturnsThePlan`,
  `ToldLoadsFitTheBudget`): what a recursion computes for every input is out of the
  prover's reach.

## 6. What is left out

Of the queue: Postgres deadlocks and errors inside the drain loop; `SKIP LOCKED`
in finer grain than "locked rows are not swept"; progress texts (merged with
checkpoints); the measured size of a model is fixed in `JobQueue` (it is not in
`Residency`); the order in which a pool picks up threads.

Of documents and media: the command line's synchronous `ingest_path`; deletions of
chunks that fail and are swallowed; the reasons of a refusal; the read of the row
and the hash of the upload in `stage_and_enqueue_one` are one step; rolled-back
stagings other than for a missing file; attempts that outlive their claim and write
the sidecar (`Media` has `Late`, no run turns it on).

Of chat: titles, wording, token budgets, timestamps, the random fence markers (live
and replayed texts are equal up to them), attachments as inline prose, stream
instructions; users are never deleted.  Of shares: the admin pages other than
accounts.

Of asking and retrieval: ranking, deduplication and locators of citations, tabular
answers, the search page.  Of images: the gallery, the workflow graphs, sizes.  Of
the registry: discovery and connection tests, a re-encode outside the queue
(`Alone = FALSE`), a changed environment across restarts without a record.  Of
backups: a damaged disk (`Strict = TRUE` is not run, section 5 covers it).

Of the system: engines other than the image engine, pages, settings of rendering.

## 7. Plan

1. Done: every component of section 1 but the last row, their runs and findings.
2. Done: the theorems of section 5.
3. Every safety property a passing run checks has its theorem, but for those on
   sums and folds.  Next would be the documents two meet at (`met`): which of the
   outcomes section 3 lists can a lock on the row exclude?
