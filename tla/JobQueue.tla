-------------------------------- MODULE JobQueue --------------------------------
(***************************************************************************)
(* The inference queue of models/queue: the rows web processes write       *)
(* (backend.py), the admission transaction (claim.py) and the worker       *)
(* processes with their pool threads (worker.py).                          *)
(*                                                                         *)
(* A step is one committed statement or transaction, or one step of a      *)
(* process between two of them.  A row of InferenceJob keeps the columns   *)
(* the control depends on; heartbeat_at is only "stale or not", a claim    *)
(* token is the ordinal of the claim that drew it (uuid4 never repeats),   *)
(* and `outcome` (the result or the error) and `checkpoint` are the token  *)
(* of the attempt that wrote them, 0 for NULL or the sweep's own error.    *)
(***************************************************************************)
EXTENDS Scheduler

CONSTANTS
    Jobs,           \* primary keys, handed out in increasing order
    Workers,        \* worker processes (host:pid slots)
    Web,            \* the web processes, as the runner of a cancel hook
    Keys,           \* models, as the (engine, endpoint, tag) key
    Priority, Exclusive, Models,    \* what planner and kind fixed for each job
    Size,           \* what measuring a model reports
    SettingsChoices,    \* the JobSettings an operator may save
    RetentionLimit, WindowSize,
    MaxFaults,      \* bound on signals, crashes and database errors
    TimelyHeartbeats    \* TRUE: a live worker always beats before its rows go stale

ASSUME QueueAssumption ==
    /\ Jobs \subseteq Nat
    /\ IsFiniteSet(Jobs)
    /\ Workers # {}
    /\ Web \notin Workers
    /\ Priority \in [Jobs -> Nat]
    /\ Exclusive \in [Jobs -> BOOLEAN]
    /\ Models \in [Jobs -> SUBSET Keys]
    /\ Size \in [Keys -> Nat]
    /\ SettingsChoices # {}
    /\ SettingsChoices \subseteq [budget : Nat \cup {None}, cap : Nat]
    /\ RetentionLimit \in Nat
    /\ WindowSize \in Nat
    /\ MaxFaults \in Nat
    /\ TimelyHeartbeats \in BOOLEAN

VARIABLES
    row,        \* the table InferenceJob
    claims,     \* how many claims a job has had: the last token drawn for it
    foot,       \* footprint_for: the registry's measured footprint of a model
    settings,   \* the table JobSettings
    tx,         \* what the admission transaction of a worker has swept and read
    pc,         \* where the main thread of a worker is
    stopping,   \* Worker._stopping
    pool,       \* the size its thread pool was created with
    seen,       \* settings_row, as read at the top of tick
    active,     \* Worker._active_tokens, 0 for a job that is not in it
    todo,       \* the claims a requeue loop has still to give back
    exec,       \* the attempts a live process knows of
    hookq,      \* on_commit hooks that have not run yet
    hooks,      \* the outcomes on_terminal has been called with, per job
    faults

rowVars == <<row, claims>>
procVars == <<pc, stopping, pool, seen, active, todo>>
hookVars == <<hookq, hooks>>
vars == <<row, claims, foot, settings, tx, pc, stopping, pool, seen,
          active, todo, exec, hookq, hooks, faults>>

----------------------------------------------------------------------------
(* Types.                                                                  *)

TerminalStates == {"succeeded", "failed", "cancelled"}

RowStates == {"absent", "queued", "running", "pruned"} \cup TerminalStates

Row == [state : RowStates, token : Nat, attempts : {0, 1}, stale : BOOLEAN,
        checkpoint : Nat, outcome : Nat]

\* A claim descriptor and the attempt made of it.
Attempt == [worker : Workers, job : Jobs, token : Nat,
            stage : {"claimed", "submitted", "handler", "unresolved", "written"},
            attempt : {0, 1}, resume : Nat]

Places == {"down", "idle", "tick", "tx", "claimed", "unlaunch", "drain", "requeue"}

Hook == [job : Jobs, outcome : {"failed", "cancelled"}, by : Workers \cup {Web}]

NoTx == [swept |-> {}, running |-> {}]

TypeOK ==
    /\ row \in [Jobs -> Row]
    /\ claims \in [Jobs -> Nat]
    /\ foot \in [Keys -> Nat \cup {None}]
    /\ settings \in SettingsChoices
    /\ tx \in [Workers -> [swept : SUBSET Jobs, running : SUBSET Jobs]]
    /\ pc \in [Workers -> Places]
    /\ stopping \in [Workers -> BOOLEAN]
    /\ pool \in [Workers -> Nat]
    /\ seen \in [Workers -> SettingsChoices]
    /\ active \in [Workers -> [Jobs -> Nat]]
    /\ todo \in [Workers -> SUBSET (Jobs \X Nat)]
    /\ exec \subseteq Attempt
    /\ hookq \subseteq Hook
    /\ hooks \in [Jobs -> SUBSET {"failed", "cancelled"}]
    /\ faults \in 0..MaxFaults

Init ==
    /\ row = [j \in Jobs |-> [state |-> "absent", token |-> 0, attempts |-> 0,
                              stale |-> FALSE, checkpoint |-> 0, outcome |-> 0]]
    /\ claims = [j \in Jobs |-> 0]
    /\ foot = [k \in Keys |-> None]
    /\ settings \in SettingsChoices
    /\ tx = [w \in Workers |-> NoTx]
    /\ pc = [w \in Workers |-> "down"]
    /\ stopping = [w \in Workers |-> FALSE]
    /\ pool = [w \in Workers |-> 1]
    /\ seen = [w \in Workers |-> settings]
    /\ active = [w \in Workers |-> [j \in Jobs |-> 0]]
    /\ todo = [w \in Workers |-> {}]
    /\ exec = {}
    /\ hookq = {}
    /\ hooks = [j \in Jobs |-> {}]
    /\ faults = 0

----------------------------------------------------------------------------
(* Rows and the conditional UPDATEs on them.                               *)

In(state) == {j \in Jobs : row[j].state = state}

\* filter(pk=job_id, state=RUNNING, claim_token=token) matches the row.
Holds(j, t) == row[j].state = "running" /\ row[j].token = t

\* The row is not locked by the sweep of an open admission transaction.
Unlocked(j) == \A w \in Workers : j \notin tx[w].swept

\* Mutant: the UPDATE checks the state and forgets the token.
UpdateIfHeld_AnyToken(j, t, newRow) ==
    /\ Unlocked(j)
    /\ row' = IF row[j].state = "running" THEN [row EXCEPT ![j] = newRow] ELSE row

\* An UPDATE of the row the attempt still holds; matches nothing otherwise.
UpdateIfHeld(j, t, newRow) ==
    /\ Unlocked(j)
    /\ row' = IF Holds(j, t) THEN [row EXCEPT ![j] = newRow] ELSE row

\* Mutant: giving a claim back also resets its checkpoint.
GivenBack_Fresh(r) ==
    [r EXCEPT !.state = "queued", !.token = 0, !.stale = FALSE, !.checkpoint = 0]

\* The UPDATE of _requeue_unlaunched and _drain_inflight: attempts, progress and
\* checkpoint stay as they are.
GivenBack(r) == [r EXCEPT !.state = "queued", !.token = 0, !.stale = FALSE]

\* Mutant: every orphan is retried, however often it was lost.
Swept_Always(r) == [GivenBack(r) EXCEPT !.attempts = r.attempts + 1]

\* _sweep_orphans on one stale row: requeued the first time, failed the second.
Swept(r) ==
    IF r.attempts = 0
    THEN [GivenBack(r) EXCEPT !.attempts = 1]
    ELSE [r EXCEPT !.state = "failed"]

\* The FAILED write of _execute: the error is the attempt's.
FailedBy(r, t) == [r EXCEPT !.state = "failed", !.outcome = t]

\* The admission UPDATE of claim_and_admit.
Claimed(r, t) == [r EXCEPT !.state = "running", !.token = t, !.stale = FALSE]

\* _prune_finished_jobs: terminal rows older than the RetentionLimit newest ones.
Prunable(finished) ==
    {j \in finished : Cardinality({i \in finished : i > j}) >= RetentionLimit}

----------------------------------------------------------------------------
(* Web processes: backend.py and the settings form.                        *)

\* enqueue: the INSERT and, unless its query fails, the prune that follows it.
Enqueue(j) ==
    /\ row[j].state = "absent"
    /\ \A i \in Jobs : i < j => row[i].state # "absent"
    /\ \E gone \in {Prunable(UNION {In(s) : s \in TerminalStates}), {}} :
         row' = [i \in Jobs |->
                   IF i = j THEN [row[i] EXCEPT !.state = "queued"]
                   ELSE IF i \in gone THEN [row[i] EXCEPT !.state = "pruned"]
                   ELSE row[i]]
    /\ UNCHANGED <<claims, foot, settings, tx, procVars, exec, hookVars, faults>>

\* cancel_job on a queued row; on any other it changes nothing.
Cancel(j) ==
    /\ row[j].state = "queued"
    /\ row' = [row EXCEPT ![j].state = "cancelled"]
    /\ hookq' = hookq \cup {[job |-> j, outcome |-> "cancelled", by |-> Web]}
    /\ UNCHANGED <<claims, foot, settings, tx, procVars, exec, hooks, faults>>

SaveSettings(s) ==
    /\ s # settings
    /\ settings' = s
    /\ UNCHANGED <<rowVars, foot, tx, procVars, exec, hookVars, faults>>

\* invoke_on_terminal, called once the transaction that scheduled it committed.
RunHook(h) ==
    /\ h \in hookq
    /\ hookq' = hookq \ {h}
    /\ hooks' = [hooks EXCEPT ![h.job] = @ \cup {h.outcome}]
    /\ UNCHANGED <<rowVars, foot, settings, tx, procVars, exec, faults>>

\* The web process dies after the commit and before the hook.
WebCrash ==
    /\ faults < MaxFaults
    /\ faults' = faults + 1
    /\ \E h \in hookq : h.by = Web
    /\ hookq' = {h \in hookq : h.by # Web}
    /\ UNCHANGED <<rowVars, foot, settings, tx, procVars, exec, hooks>>

----------------------------------------------------------------------------
(* The main thread of a worker: run_forever and tick.                      *)

AttemptsOf(w) == {e \in exec : e.worker = w}

\* What the main thread holds in tick's local variable `claimed`.
Unlaunched(w) == {e \in AttemptsOf(w) : e.stage = "claimed"}

\* Attempts with a future in the pool: done ones are gone from exec.
Inflight(w) == {e \in AttemptsOf(w) : e.stage # "claimed"}

\* The on_commit hooks of its own transaction run before the thread goes on.
HooksRun(w) == \A h \in hookq : h.by # w

Start(w) ==
    /\ pc[w] = "down"
    /\ pc' = [pc EXCEPT ![w] = "idle"]
    /\ stopping' = [stopping EXCEPT ![w] = FALSE]
    /\ pool' = [pool EXCEPT ![w] = IF settings.cap > 1 THEN settings.cap ELSE 1]
    /\ UNCHANGED <<rowVars, foot, settings, tx, seen, active, todo, exec, hookVars, faults>>

\* _handle_signal: SIGTERM or SIGINT only raises the flag.
Signal(w) ==
    /\ pc[w] # "down"
    /\ ~stopping[w]
    /\ faults < MaxFaults
    /\ faults' = faults + 1
    /\ stopping' = [stopping EXCEPT ![w] = TRUE]
    /\ UNCHANGED <<rowVars, foot, settings, tx, pc, pool, seen, active, todo, exec, hookVars>>

\* _maybe_heartbeat, when its throttle lets it through.  One UPDATE for all the
\* tokens in hand: it waits for rows an open sweep has locked.
Heartbeat(w) ==
    /\ pc[w] \in {"idle", "claimed"}
    /\ HooksRun(w)
    /\ LET mine == {j \in Jobs : Holds(j, active[w][j])}
       IN  /\ \E j \in mine : row[j].stale
           /\ \A j \in mine : Unlocked(j)
           /\ row' = [j \in Jobs |-> IF j \in mine THEN [row[j] EXCEPT !.stale = FALSE]
                                                   ELSE row[j]]
    /\ UNCHANGED <<claims, foot, settings, tx, procVars, exec, hookVars, faults>>

\* The top of tick, up to reading the settings.
TickBegin(w) ==
    /\ pc[w] = "idle"
    /\ ~stopping[w]
    /\ HooksRun(w)
    /\ pc' = [pc EXCEPT ![w] = "tick"]
    /\ seen' = [seen EXCEPT ![w] = settings]
    /\ UNCHANGED <<rowVars, foot, settings, tx, stopping, pool, active, todo, exec, hookVars, faults>>

\* Nobody holds the advisory lock: it belongs to the worker inside the transaction.
LockFree == \A w \in Workers : pc[w] # "tx"

\* pg_try_advisory_xact_lock fails: nothing is claimed this tick.
LockBusy(w) ==
    /\ pc[w] = "tick"
    /\ ~LockFree
    /\ pc' = [pc EXCEPT ![w] = "idle"]
    /\ UNCHANGED <<rowVars, foot, settings, tx, stopping, pool, seen, active, todo, exec, hookVars, faults>>

\* Mutants: no advisory lock; only this worker's rows counted; no orphan sweep.
ClaimBegin_NoLock(w) ==
    /\ pc[w] = "tick"
    /\ LET orphans == {j \in In("running") : row[j].stale}
       IN  tx' = [tx EXCEPT ![w] = [swept |-> orphans, running |-> In("running") \ orphans]]
    /\ pc' = [pc EXCEPT ![w] = "tx"]
    /\ UNCHANGED <<rowVars, foot, settings, stopping, pool, seen, active, todo, exec, hookVars, faults>>

ClaimBegin_OwnRows(w) ==
    /\ pc[w] = "tick"
    /\ LockFree
    /\ LET orphans == {j \in In("running") : row[j].stale}
       IN  tx' = [tx EXCEPT ![w] =
                    [swept   |-> orphans,
                     running |-> {j \in In("running") \ orphans : active[w][j] # 0}]]
    /\ pc' = [pc EXCEPT ![w] = "tx"]
    /\ UNCHANGED <<rowVars, foot, settings, stopping, pool, seen, active, todo, exec, hookVars, faults>>

ClaimBegin_NoSweep(w) ==
    /\ pc[w] = "tick"
    /\ LockFree
    /\ tx' = [tx EXCEPT ![w] = [swept |-> {}, running |-> In("running")]]
    /\ pc' = [pc EXCEPT ![w] = "tx"]
    /\ UNCHANGED <<rowVars, foot, settings, stopping, pool, seen, active, todo, exec, hookVars, faults>>

\* claim_and_admit up to its read of the running rows: lock, sweep, SELECT.  The
\* swept rows stay locked; the change itself is visible at the commit.
ClaimBegin(w) ==
    /\ pc[w] = "tick"
    /\ LockFree
    /\ LET orphans == {j \in In("running") : row[j].stale}
       IN  tx' = [tx EXCEPT ![w] = [swept |-> orphans, running |-> In("running") \ orphans]]
    /\ pc' = [pc EXCEPT ![w] = "tx"]
    /\ UNCHANGED <<rowVars, foot, settings, stopping, pool, seen, active, todo, exec, hookVars, faults>>

\* _sched_candidate, with its footprints resolved now.
SchedCandidate(j) ==
    [job_id |-> j, priority |-> Priority[j], exclusive |-> Exclusive[j],
     models |-> {[key |-> k, footprint_bytes |-> foot[k]] : k \in Models[j]}]

SchedCandidates(js) == {SchedCandidate(j) : j \in js}

\* The queued rows as this transaction sees them, its own sweep included.
QueuedRows(w) == In("queued") \cup {j \in tx[w].swept : row[j].attempts = 0}

\* candidate_rows: the head of the queue, WindowSize rows of it.
CandidateRows(w) ==
    {c.job_id : c \in CandidateWindow(SchedCandidates(QueuedRows(w)), WindowSize)}

\* plan_admissions called with the rows read.
AdmittedRows(w) ==
    {c.job_id : c \in PlanAdmissions(SchedCandidates(CandidateRows(w)),
                                     SchedCandidates(tx[w].running),
                                     seen[w].budget, seen[w].cap)}

\* The descriptor returned for an admitted row.
NewAttempt(w, j, r) ==
    [worker |-> w, job |-> j, token |-> claims[j] + 1, stage |-> "claimed",
     attempt |-> r.attempts, resume |-> r.checkpoint]

\* Mutant: the tokens are never registered, so nothing heartbeats them.
Registered_Never(w, js) == active

\* tick's loop over the descriptors: the tokens this worker is to heartbeat.
Registered(w, js) ==
    [active EXCEPT ![w] = [j \in Jobs |-> IF j \in js THEN claims[j] + 1 ELSE @[j]]]

\* The rest of claim_and_admit, its commit, and tick's registration of the tokens.
ClaimAdmit(w) ==
    /\ pc[w] = "tx"
    /\ CandidateRows(w) \cap tx[w].running = {}
    /\ LET swept    == [j \in Jobs |-> IF j \in tx[w].swept THEN Swept(row[j]) ELSE row[j]]
           admitted == AdmittedRows(w)
       IN  /\ row' = [j \in Jobs |-> IF j \in admitted THEN Claimed(swept[j], claims[j] + 1)
                                                       ELSE swept[j]]
           /\ claims' = [j \in Jobs |-> IF j \in admitted THEN claims[j] + 1 ELSE claims[j]]
           /\ exec' = exec \cup {NewAttempt(w, j, swept[j]) : j \in admitted}
           /\ active' = Registered(w, admitted)
           /\ pc' = [pc EXCEPT ![w] = IF admitted = {} THEN "idle" ELSE "claimed"]
           /\ hookq' = hookq \cup {[job |-> j, outcome |-> "failed", by |-> w] :
                                     j \in {i \in tx[w].swept : row[i].attempts = 1}}
    /\ tx' = [tx EXCEPT ![w] = NoTx]
    /\ UNCHANGED <<foot, settings, stopping, pool, seen, todo, hooks, faults>>

\* run_forever leaves its loop: the exception of a tick abandons what the tick
\* held in local variables and rolls an open transaction back.
AbandonTick(w) ==
    /\ pc' = [pc EXCEPT ![w] = "drain"]
    /\ tx' = [tx EXCEPT ![w] = NoTx]
    /\ exec' = exec \ Unlaunched(w)
    /\ todo' = [todo EXCEPT ![w] = {}]

\* plan_admissions asserts that no row was read both as running and as queued.
ClaimAsserts(w) ==
    /\ pc[w] = "tx"
    /\ CandidateRows(w) \cap tx[w].running # {}
    /\ AbandonTick(w)
    /\ UNCHANGED <<rowVars, foot, settings, stopping, pool, seen, active, hookVars, faults>>

\* Any statement of the tick fails, the eviction's queries included.
TickRaises(w) ==
    /\ pc[w] \in {"idle", "tick", "tx", "claimed", "unlaunch"}
    /\ faults < MaxFaults
    /\ faults' = faults + 1
    /\ AbandonTick(w)
    /\ UNCHANGED <<rowVars, foot, settings, stopping, pool, seen, active, hookVars>>

\* _launch for every claimed descriptor, once the eviction is over.
Launch(w) ==
    /\ pc[w] = "claimed"
    /\ ~stopping[w]
    /\ HooksRun(w)
    /\ exec' = (exec \ Unlaunched(w))
                 \cup {[e EXCEPT !.stage = "submitted"] : e \in Unlaunched(w)}
    /\ pc' = [pc EXCEPT ![w] = "idle"]
    /\ UNCHANGED <<rowVars, foot, settings, tx, stopping, pool, seen, active, todo, hookVars, faults>>

\* _requeue_unlaunched up to its loop: the tokens leave _active_tokens first.
Unlaunch(w) ==
    /\ pc[w] = "claimed"
    /\ stopping[w]
    /\ HooksRun(w)
    /\ LET mine == Unlaunched(w)
       IN  /\ exec' = exec \ mine
           /\ todo' = [todo EXCEPT ![w] = {<<e.job, e.token>> : e \in mine}]
           /\ active' = [active EXCEPT ![w] =
                           [j \in Jobs |-> IF \E e \in mine : e.job = j THEN 0 ELSE @[j]]]
    /\ pc' = [pc EXCEPT ![w] = "unlaunch"]
    /\ UNCHANGED <<rowVars, foot, settings, tx, stopping, pool, seen, hookVars, faults>>

\* One turn of the requeue loop, of _requeue_unlaunched or of _drain_inflight.
GiveBack(w, j, t) ==
    /\ pc[w] \in {"unlaunch", "requeue"}
    /\ <<j, t>> \in todo[w]
    /\ UpdateIfHeld(j, t, GivenBack(row[j]))
    /\ todo' = [todo EXCEPT ![w] = @ \ {<<j, t>>}]
    /\ UNCHANGED <<claims, foot, settings, tx, pc, stopping, pool, seen, active, exec, hookVars, faults>>

UnlaunchDone(w) ==
    /\ pc[w] = "unlaunch"
    /\ todo[w] = {}
    /\ pc' = [pc EXCEPT ![w] = "idle"]
    /\ UNCHANGED <<rowVars, foot, settings, tx, stopping, pool, seen, active, todo, exec, hookVars, faults>>

\* The loop ends between two ticks.
StopLoop(w) ==
    /\ pc[w] = "idle"
    /\ stopping[w]
    /\ HooksRun(w)
    /\ pc' = [pc EXCEPT ![w] = "drain"]
    /\ UNCHANGED <<rowVars, foot, settings, tx, stopping, pool, seen, active, todo, exec, hookVars, faults>>

\* _drain_inflight: all futures done, or the grace period is over.
DrainTimeout(w) ==
    /\ pc[w] = "drain"
    /\ HooksRun(w)
    /\ todo' = [todo EXCEPT ![w] = {<<e.job, e.token>> : e \in Inflight(w)}]
    /\ pc' = [pc EXCEPT ![w] = "requeue"]
    /\ UNCHANGED <<rowVars, foot, settings, tx, stopping, pool, seen, active, exec, hookVars, faults>>

\* The process is gone: threads, tokens, futures and hooks with it.
Dies(w) ==
    /\ pc' = [pc EXCEPT ![w] = "down"]
    /\ exec' = exec \ AttemptsOf(w)
    /\ active' = [active EXCEPT ![w] = [j \in Jobs |-> 0]]
    /\ todo' = [todo EXCEPT ![w] = {}]
    /\ hookq' = {h \in hookq : h.by # w}
    /\ tx' = [tx EXCEPT ![w] = NoTx]

\* The end of _shutdown: os._exit, or a clean return when nothing is in flight.
Exit(w) ==
    /\ pc[w] = "requeue"
    /\ todo[w] = {}
    /\ Dies(w)
    /\ UNCHANGED <<rowVars, foot, settings, stopping, pool, seen, hooks, faults>>

\* The process is killed, or its host goes away, at any point.
Crash(w) ==
    /\ pc[w] # "down"
    /\ faults < MaxFaults
    /\ faults' = faults + 1
    /\ Dies(w)
    /\ UNCHANGED <<rowVars, foot, settings, stopping, pool, seen, hooks>>

----------------------------------------------------------------------------
(* The pool threads: _execute.                                             *)

\* Attempts that occupy a thread.
Threads(w) == {e \in AttemptsOf(w) : e.stage \in {"handler", "unresolved", "written"}}

Becomes(e, stage) == exec' = (exec \ {e}) \cup {[e EXCEPT !.stage = stage]}

\* A pool thread takes the attempt and its handler resolves.
ExecStart(e) ==
    /\ e.stage = "submitted"
    /\ Cardinality(Threads(e.worker)) < pool[e.worker]
    /\ Becomes(e, "handler")
    /\ UNCHANGED <<rowVars, foot, settings, tx, procVars, hookVars, faults>>

\* It does not resolve: FAILED if the row is still held, and the hook in any case.
ResolveFails(e) ==
    /\ e.stage = "submitted"
    /\ Cardinality(Threads(e.worker)) < pool[e.worker]
    /\ UpdateIfHeld(e.job, e.token, FailedBy(row[e.job], e.token))
    /\ Becomes(e, "unresolved")
    /\ UNCHANGED <<claims, foot, settings, tx, procVars, hookVars, faults>>

\* invoke_on_terminal from the thread, right after its FAILED write.
ThreadHook(e) ==
    /\ e.stage = "unresolved"
    /\ hooks' = [hooks EXCEPT ![e.job] = @ \cup {"failed"}]
    /\ Becomes(e, "written")
    /\ UNCHANGED <<rowVars, foot, settings, tx, procVars, hookq, faults>>

\* ctx.checkpoint() of a running handler (ctx.report() has the same guard).
Checkpoint(e) ==
    /\ e.stage = "handler"
    /\ Holds(e.job, e.token)
    /\ row[e.job].checkpoint # e.token
    /\ UpdateIfHeld(e.job, e.token, [row[e.job] EXCEPT !.checkpoint = e.token])
    /\ UNCHANGED <<claims, foot, settings, tx, procVars, exec, hookVars, faults>>

\* The handler returned: SUCCEEDED, progress and checkpoint cleared.
Succeed(e) ==
    /\ e.stage = "handler"
    /\ UpdateIfHeld(e.job, e.token,
                    [row[e.job] EXCEPT !.state = "succeeded", !.outcome = e.token,
                                       !.checkpoint = 0])
    /\ Becomes(e, "written")
    /\ UNCHANGED <<claims, foot, settings, tx, procVars, hookVars, faults>>

\* The handler raised: FAILED, the checkpoint kept.
Fail(e) ==
    /\ e.stage = "handler"
    /\ UpdateIfHeld(e.job, e.token, FailedBy(row[e.job], e.token))
    /\ Becomes(e, "written")
    /\ UNCHANGED <<claims, foot, settings, tx, procVars, hookVars, faults>>

\* Mutant: the attempt takes the job out of _active_tokens whoever owns it by now.
LeavesPool_PopsAlways(e) ==
    /\ active' = [active EXCEPT ![e.worker][e.job] = 0]
    /\ exec' = exec \ {e}

\* The `finally` of _execute: the job leaves _active_tokens only if this attempt is
\* still its owner there.
LeavesPool(e) ==
    /\ active' = IF active[e.worker][e.job] = e.token
                 THEN [active EXCEPT ![e.worker][e.job] = 0]
                 ELSE active
    /\ exec' = exec \ {e}

\* The write itself fails, and its exception leaves _execute through the `finally`:
\* no measurement, no hook, and the row is left to the sweep.
WritebackLost(e) ==
    /\ e.stage \in {"submitted", "handler"}
    /\ e.stage = "submitted" => Cardinality(Threads(e.worker)) < pool[e.worker]
    /\ faults < MaxFaults
    /\ faults' = faults + 1
    /\ LeavesPool(e)
    /\ UNCHANGED <<rowVars, foot, settings, tx, pc, stopping, pool, seen, todo, hookVars>>

\* _measure_and_record, which learns the size of some of the models, and the end of
\* the attempt.
Finally(e) ==
    /\ e.stage = "written"
    /\ \E measured \in SUBSET Models[e.job] :
         foot' = [k \in Keys |-> IF k \in measured THEN Size[k] ELSE foot[k]]
    /\ LeavesPool(e)
    /\ UNCHANGED <<rowVars, settings, tx, pc, stopping, pool, seen, todo, hookVars, faults>>

----------------------------------------------------------------------------
(* Time.                                                                   *)

\* No live process will refresh the row's heartbeat.
Abandoned(j) ==
    \A w \in Workers : pc[w] = "down" \/ active[w][j] # row[j].token

\* STALE_AFTER_SECONDS pass without a heartbeat.  A worker that is alive but late
\* (a long unload, a slow database) is as stale as a dead one.
GoStale(j) ==
    /\ row[j].state = "running"
    /\ ~row[j].stale
    /\ TimelyHeartbeats => Abandoned(j)
    /\ row' = [row EXCEPT ![j].stale = TRUE]
    /\ UNCHANGED <<claims, foot, settings, tx, procVars, exec, hookVars, faults>>

----------------------------------------------------------------------------

WebStep ==
    \/ \E j \in Jobs : Enqueue(j) \/ Cancel(j)
    \/ \E s \in SettingsChoices : SaveSettings(s)
    \/ \E h \in hookq : RunHook(h)
    \/ WebCrash

WorkerStep(w) ==
    \/ Start(w) \/ Signal(w) \/ Heartbeat(w)
    \/ TickBegin(w) \/ LockBusy(w) \/ ClaimBegin(w) \/ ClaimAdmit(w)
    \/ ClaimAsserts(w) \/ TickRaises(w)
    \/ Launch(w) \/ Unlaunch(w) \/ UnlaunchDone(w)
    \/ \E d \in todo[w] : GiveBack(w, d[1], d[2])
    \/ StopLoop(w) \/ DrainTimeout(w) \/ Exit(w) \/ Crash(w)

ThreadStep(e) ==
    \/ ExecStart(e) \/ ResolveFails(e) \/ ThreadHook(e)
    \/ Checkpoint(e) \/ Succeed(e) \/ Fail(e) \/ WritebackLost(e) \/ Finally(e)

Next ==
    \/ WebStep
    \/ \E w \in Workers : WorkerStep(w)
    \/ \E e \in exec : ThreadStep(e)
    \/ \E j \in Jobs : GoStale(j)

Spec == Init /\ [][Next]_vars

\* What the deployment and the code keep doing: the container runtime restarts a
\* worker, its main thread goes on through tick and shutdown, a pool thread picks
\* up and finishes what was submitted (every handler returns or raises), hooks run,
\* and the clock makes a row nobody refreshes stale.  Signals, crashes, database
\* errors, cancels, saves and late heartbeats are never forced to happen.
MainThread(w) ==
    \/ Start(w) \/ TickBegin(w) \/ LockBusy(w) \/ ClaimBegin(w) \/ ClaimAdmit(w)
    \/ ClaimAsserts(w) \/ Launch(w) \/ Unlaunch(w) \/ UnlaunchDone(w)
    \/ \E d \in todo[w] : GiveBack(w, d[1], d[2])
    \/ StopLoop(w) \/ DrainTimeout(w) \/ Exit(w)

PoolThread(j, w) ==
    \E e \in exec :
        /\ e.job = j
        /\ e.worker = w
        /\ ExecStart(e) \/ ResolveFails(e) \/ ThreadHook(e)
             \/ Succeed(e) \/ Fail(e) \/ Finally(e)

Fairness ==
    /\ \A w \in Workers : WF_vars(MainThread(w))
    /\ \A j \in Jobs, w \in Workers : WF_vars(PoolThread(j, w))
    /\ \A j \in Jobs : WF_vars(GoStale(j) /\ Abandoned(j))
    /\ WF_vars(\E h \in hookq : RunHook(h))

FairSpec == Spec /\ Fairness

----------------------------------------------------------------------------
(* Properties.                                                             *)

Live(j) == row[j].state \in {"queued", "running"}

Finished(j) == row[j].state \in TerminalStates \cup {"pruned"}

\* Fencing: however many attempts of a job are still executing somewhere, a running
\* row carries the token of its last claim and a stored result or error is the last
\* claim's: a superseded attempt's UPDATE matches no row.
LastClaimDecides ==
    \A j \in Jobs :
        /\ row[j].state = "running" => row[j].token = claims[j] /\ claims[j] > 0
        /\ row[j].outcome # 0 => row[j].outcome = claims[j]
        /\ row[j].state = "succeeded" => row[j].outcome # 0

\* LastClaimDecides made inductive.  An unfinished row has no outcome, no checkpoint
\* is newer than the last claim, one transaction holds the advisory lock, and the
\* rows it has swept stay running, locked, until it commits.
RowInv(j) ==
    /\ row[j].state = "running" => row[j].token = claims[j] /\ claims[j] > 0
    /\ row[j].outcome # 0 => row[j].outcome = claims[j]
    /\ row[j].state = "succeeded" => row[j].outcome # 0
    /\ row[j].state \in {"absent", "queued", "running"} => row[j].outcome = 0
    /\ row[j].checkpoint <= claims[j]

TxInv ==
    /\ \A v, w \in Workers : pc[v] = "tx" /\ pc[w] = "tx" => v = w
    /\ \A w \in Workers : pc[w] # "tx" => tx[w] = NoTx
    /\ \A w \in Workers : \A j \in tx[w].swept : row[j].state = "running"

QueueInv == TypeOK /\ TxInv /\ \A j \in Jobs : RowInv(j)

\* The queue implements JobLifecycle: one holder at a time, one outcome, one retry.
Lifecycle == INSTANCE JobLifecycle WITH
    status  <- [j \in Jobs |-> row[j].state],
    holder  <- claims,
    lost    <- [j \in Jobs |-> row[j].attempts],
    outcome <- [j \in Jobs |-> row[j].outcome]

ImplementsLifecycle == Lifecycle!LifeSpec

\* A checkpoint is written by the attempt that holds the row, survives every
\* requeue (a drain's, a sweep's) and is dropped by success alone, so the next
\* attempt resumes from the newest state ever saved.
CheckpointNeverGoesBack ==
    [][\A j \in Jobs :
          row'[j].checkpoint # row[j].checkpoint =>
             \/ row'[j].checkpoint > row[j].checkpoint /\ row'[j].checkpoint = claims[j]
             \/ row'[j].checkpoint = 0 /\ row'[j].state = "succeeded"]_vars

\* How many jobs may run under settings s: without a budget, one.
Slots(s) == IF s.budget = None THEN 1 ELSE s.cap

\* The machine-wide limit: the admission transactions of several workers, their
\* sweeps, and the requeues that overlap them never leave more rows running than
\* the most generous settings ever saved allow.
SlotsRespected ==
    Cardinality(In("running")) <= Max({Slots(s) : s \in SettingsChoices})

\* What a committed admission leaves running fits the settings its tick read: the
\* slots and, when several jobs run, the memory budget, although rows ended or came
\* back and settings were saved between the transaction's reads and its commit.
FitsItsSettings(w) ==
    (pc[w] = "tx" /\ pc'[w] = "claimed") =>
        LET running == SchedCandidates({j \in Jobs : row'[j].state = "running"})
        IN  /\ Cardinality(running) <= Slots(seen[w])
            /\ Cardinality(running) > 1 =>
                  /\ ResidentBytes(running) <= seen[w].budget
                  /\ \A c \in running : ~EffectivelyExclusive(c, seen[w].budget)

AdmissionFits == [][\A w \in Workers : FitsItsSettings(w)]_vars

\* A job whose planner declared it exclusive has the only running row, even while
\* the operator switches between sequential mode and a budget.
ExclusiveRunsAlone ==
    \A i, j \in In("running") : i # j => ~Exclusive[i]

\* Every attempt of a worker still in its loop whose row is its own is among the
\* tokens that worker heartbeats: no earlier attempt's clean-up, and no reclaim by
\* the same process, takes it out.
OwnedRowsAreHeartbeated ==
    \A e \in exec :
        (Holds(e.job, e.token) /\ e.stage \in {"claimed", "submitted", "handler"}) =>
            active[e.worker][e.job] = e.token

\* With heartbeats on time, two handlers of one job overlap only while the older
\* one's process is in the last moments of a drain, its grace period over.
OverlapOnlyInDrain ==
    TimelyHeartbeats =>
        \A e, f \in exec :
            (e.job = f.job /\ e.token < f.token /\ e.stage = "handler" /\ f.stage = "handler")
                => pc[e.worker] = "requeue"

\* Every job a user enqueues reaches an outcome, through crashes, drains, lost
\* writes and orphan sweeps, as long as these stop and a slot exists.
EveryJobFinishes ==
    \A j \in Jobs : row[j].state = "queued" ~> Finished(j)

\* A job cancelled in the queue, or failed by the sweep with no attempt left to
\* report, gets its on_terminal hook, unless a process died between the commit and
\* the hook: nothing else leaves a Document or a Turn waiting for it.
EndsWithoutHandler(j) ==
    row[j].state = "cancelled" \/ (row[j].state = "failed" /\ row[j].outcome = 0)

HookFollows ==
    \A j \in Jobs : EndsWithoutHandler(j) ~> (hooks[j] # {} \/ faults > 0)

----------------------------------------------------------------------------
(* What an assertion says that the code does not do.                        *)

\* plan_admissions asserts "a job cannot appear in both `candidates` (queued) and
\* `running`": no row the open transaction read as running is queued by the time
\* it reads the candidates.
PlanInputsDisjoint ==
    \A w \in Workers : pc[w] = "tx" => CandidateRows(w) \cap tx[w].running = {}
================================================================================
