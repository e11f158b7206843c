------------------------------- MODULE Residency -------------------------------
(***************************************************************************)
(* One image engine, the worker and its jobs: a job is admitted by the     *)
(* footprints measured so far, the tick unloads what the plan does not     *)
(* need before the job starts, the job's submission remembers how much     *)
(* memory was free, and the measurement after it records what is missing.  *)
(* The adapter's memory is one run memo; the engine's is modelled from how *)
(* the adapter uses it.                                                    *)
(***************************************************************************)
EXTENDS Naturals, Sequences, FiniteSets, FiniteSetsExt

CONSTANTS
    Jobs,       \* jobs that generate, in queue order
    Models,     \* checkpoints registered at the endpoint
    Size,       \* what each takes when loaded
    Growth,     \* what its caches take more when it runs again
    Total,      \* the machine's memory
    Budget,     \* JobSettings.memory_budget_bytes, 0 for None
    MaxFaults   \* bound on reads that fail, refusals and expiries

ResidencyAssumption ==
    /\ Jobs \subseteq Nat \ {0} /\ IsFiniteSet(Jobs) /\ IsFiniteSet(Models)
    /\ Size \in [Models -> Nat \ {0}] /\ {Growth, Total, Budget, MaxFaults} \subseteq Nat
    /\ Total >= MapThenSumSet(LAMBDA m : Size[m] + Growth, Models)

VARIABLES
    model,      \* the checkpoint of each job
    job,        \* where each job is, whether it runs alone, its baseline
    tick,       \* the worker's tick: the job it is launching, the unload
    memo,       \* _RUN_MEMO at the endpoint
    known,      \* measured_footprint_bytes by checkpoint
    loaded,     \* engine: memory each checkpoint takes
    queue,      \* engine: prompts that wait
    prompt,     \* engine: the prompt that runs, 0 for none
    flag,       \* engine: /free is asked for and not yet done
    faults,     \* faults so far
    doubt,      \* an imprecision the adapter documents has happened
    blind       \* since the engine was empty, eviction was told of less than
                \* the unneeded checkpoints that are loaded

resVars == <<model, job, tick, memo, known, loaded, queue, prompt, flag, faults, doubt, blind>>
engineVars == <<loaded, queue, prompt, flag>>

SmallestCredible == 1
Bytes == 0..Total
Unreadable == Total + 1
Nothing == "nothing"
NoMemo == [model |-> Nothing, free |-> 0, foot |-> 0, resident |-> FALSE, run |-> 0]
Idle == [at |-> "idle", job |-> 0, before |-> 0, rise |-> 0]

JobRow == [at : {"waiting", "admitted", "launched", "baselined", "posted", "running", "finished",
                 "measured", "done"},
           alone : BOOLEAN, free : Bytes \cup {Unreadable}, seen : {0} \cup Jobs]

TypeOK ==
    /\ model \in [Jobs -> Models] /\ job \in [Jobs -> JobRow]
    /\ tick.at \in {"idle", "list", "read", "post", "poll", "risen", "pop", "start"}
    /\ tick.job \in {0} \cup Jobs /\ tick.before \in Bytes \cup {Unreadable} /\ tick.rise \in Bytes
    /\ memo.model \in Models \cup {Nothing} /\ memo.free \in Bytes /\ memo.foot \in Bytes
    /\ known \in [Models -> Bytes] /\ loaded \in [Models -> Bytes]
    /\ queue \in Seq(Jobs) /\ prompt \in {0} \cup Jobs /\ flag \in BOOLEAN
    /\ faults \in 0..MaxFaults /\ {doubt, blind} \subseteq BOOLEAN

---------------------------------------------------------------------------
Init ==
    /\ model \in [Jobs -> Models]
    /\ job = [j \in Jobs |-> [at |-> "waiting", alone |-> FALSE, free |-> 0, seen |-> 0]]
    /\ tick = Idle /\ memo = NoMemo /\ known = [m \in Models |-> 0]
    /\ loaded = [m \in Models |-> 0] /\ queue = <<>> /\ prompt = 0 /\ flag = FALSE
    /\ faults = 0 /\ doubt = FALSE /\ blind = FALSE

Used == MapThenSumSet(LAMBDA m : loaded[m], Models)
Free == Total - Used

Faulty == faults < MaxFaults /\ faults' = faults + 1 /\ doubt' = TRUE /\ UNCHANGED blind
Sound == UNCHANGED <<faults, doubt, blind>>

---------------------------------------------------------------------------
(* The engine, as the adapter's requests find it. *)
PromptStarts ==
    /\ prompt = 0 /\ queue # <<>>
    /\ prompt' = Head(queue) /\ queue' = Tail(queue)
    /\ LET m == model[Head(queue)]
       IN  loaded' = [loaded EXCEPT ![m] = IF @ = 0 THEN Size[m] ELSE Size[m] + Growth]
    /\ UNCHANGED <<model, job, tick, memo, known, flag>> /\ Sound

PromptEnds ==
    /\ prompt # 0
    /\ prompt' = 0
    /\ UNCHANGED <<model, job, tick, memo, known, loaded, queue, flag>> /\ Sound

\* unload_all_models, some time after the POST was answered.
ModelsFreed ==
    /\ flag /\ prompt = 0
    /\ flag' = FALSE /\ loaded' = [m \in Models |-> 0] /\ blind' = FALSE
    /\ UNCHANGED <<model, job, tick, memo, known, queue, prompt, faults, doubt>>

---------------------------------------------------------------------------
(* Admission and the eviction of what the plan does not need. *)
Running == {j \in Jobs : job[j].at \notin {"waiting", "done"}}
Needed == {model[j] : j \in Running}

Admit(j) ==
    /\ tick.at = "idle"
    /\ job[j].at = "waiting" /\ \A i \in Jobs : i < j => job[i].at # "waiting"
    /\ LET alone == known[model[j]] = 0 \/ Budget = 0
           plan == MapThenSumSet(LAMBDA m : known[m], Needed \cup {model[j]})
       IN  /\ \/ Running = {}
              \/ ~alone /\ (\A i \in Running : ~job[i].alone) /\ plan <= Budget
           /\ job' = [job EXCEPT ![j].at = "admitted", ![j].alone = alone]
    /\ tick' = [Idle EXCEPT !.at = IF Budget = 0 THEN "start" ELSE "list", !.job = j]
    /\ UNCHANGED <<model, memo, known, engineVars>> /\ Sound

Untold == \E m \in Models \ Needed : loaded[m] > (IF m = memo.model THEN memo.foot ELSE 0)

\* Mutant: what the new job's own model adds is left out.
_residency_snapshot_Bare(m) == memo.foot > Budget

\* list_installed says that the memo's model is loaded, and how much it took.
_residency_snapshot(m) ==
    memo.foot + (IF m = memo.model THEN 0 ELSE known[m]) > Budget

_evict_to_match_plan ==
    /\ tick.at = "list"
    /\ blind' = (blind \/ Untold)
    /\ LET j == tick.job
           evict == /\ memo # NoMemo /\ memo.model \notin Needed
                    /\ job[j].alone \/ _residency_snapshot(model[j])
       IN  tick' = [tick EXCEPT !.at = IF evict THEN "read" ELSE "start"]
    /\ UNCHANGED <<model, job, memo, known, engineVars, faults, doubt>>

Larger(a, b) == IF a > b THEN a ELSE b

UnloadReads ==
    /\ tick.at = "read"
    /\ \/ tick' = [tick EXCEPT !.at = "post", !.before = Free,
                               !.rise = Larger(SmallestCredible, memo.foot \div 2)] /\ Sound
       \/ tick' = [tick EXCEPT !.at = "post", !.before = Unreadable] /\ Faulty
    /\ UNCHANGED <<model, job, memo, known, engineVars>>

\* The POST is answered at once or refused.
UnloadPosts ==
    /\ tick.at = "post"
    /\ \/ flag' = TRUE /\ tick' = [tick EXCEPT !.at = "poll"] /\ Sound
       \/ UNCHANGED flag /\ tick' = [tick EXCEPT !.at = "start"] /\ Faulty
    /\ UNCHANGED <<model, job, memo, known, loaded, queue, prompt>>

\* Memory has risen by the threshold, or there is nothing to compare with.
UnloadPolls ==
    /\ tick.at = "poll"
    /\ tick.before = Unreadable \/ Free >= tick.before + tick.rise
    /\ tick' = [tick EXCEPT !.at = "risen"]
    /\ UNCHANGED <<model, job, memo, known, engineVars>> /\ Sound

\* The queue is asked once more; while a prompt runs the poll goes on, but
\* not without a baseline.
UnloadSettles ==
    /\ tick.at = "risen"
    /\ tick' = [tick EXCEPT !.at = IF prompt = 0 THEN "pop"
                                   ELSE IF tick.before = Unreadable THEN "start" ELSE "poll"]
    /\ UNCHANGED <<model, job, memo, known, engineVars>> /\ Sound

UnloadTimesOut ==
    /\ tick.at \in {"poll", "risen"}
    /\ tick' = [tick EXCEPT !.at = "start"] /\ Faulty
    /\ UNCHANGED <<model, job, memo, known, engineVars>>

\* The memo is dropped, whichever run it is of by now.
UnloadPops ==
    /\ tick.at = "pop"
    /\ memo' = NoMemo /\ tick' = [tick EXCEPT !.at = "start"]
    /\ UNCHANGED <<model, job, known, engineVars>> /\ Sound

unload == UnloadReads \/ UnloadPosts \/ UnloadPolls \/ UnloadSettles \/ UnloadTimesOut \/ UnloadPops

\* The job starts, whatever unload answered.
_launch ==
    /\ tick.at = "start"
    /\ job' = [job EXCEPT ![tick.job].at = "launched"] /\ tick' = Idle
    /\ UNCHANGED <<model, memo, known, engineVars>> /\ Sound

---------------------------------------------------------------------------
(* A job's thread: submit, wait, measure. *)
Step(j, from, to) == job[j].at = from /\ job' = [job EXCEPT ![j].at = to]

SubmitReads(j) ==
    /\ job[j].at = "launched"
    /\ \/ job' = [job EXCEPT ![j].at = "baselined", ![j].free = Free] /\ Sound
       \/ job' = [job EXCEPT ![j].at = "baselined", ![j].free = Unreadable] /\ Faulty
    /\ UNCHANGED <<model, tick, memo, known, engineVars>>

SubmitPosts(j) ==
    /\ Step(j, "baselined", "posted")
    /\ queue' = Append(queue, j)
    /\ UNCHANGED <<model, tick, memo, known, loaded, prompt, flag>> /\ Sound

\* A new run replaces the memo; the model was resident if the last run here
\* was of the same one.
_remember_run(j) ==
    /\ Step(j, "posted", "running")
    /\ memo' = IF job[j].free = Unreadable THEN memo
               ELSE [model |-> model[j], free |-> job[j].free, foot |-> 0,
                     resident |-> memo.model = model[j], run |-> j]
    /\ UNCHANGED <<model, tick, known, engineVars>> /\ Sound

Follows(j) ==
    /\ Step(j, "running", "finished")
    /\ prompt # j /\ \A i \in DOMAIN queue : queue[i] # j
    /\ UNCHANGED <<model, tick, memo, known, engineVars>> /\ Sound

\* loaded_footprint looks at the memo, then reads what is free.
MeasureLooks(j) ==
    /\ job[j].at = "finished"
    /\ LET mine == memo.model = model[j] /\ ~memo.resident
       IN  job' = [job EXCEPT ![j].at = IF mine THEN "measured" ELSE "done",
                              ![j].free = IF mine THEN memo.free ELSE 0,
                              ![j].seen = IF mine THEN memo.run ELSE 0]
    /\ UNCHANGED <<model, tick, memo, known, engineVars>> /\ Sound

Attributed(j) == memo.run = job[j].seen

\* What is missing since the baseline is the footprint, when it is credible:
\* it is kept in the memo it was measured against, and recorded.
MeasureRecords(j) ==
    /\ job[j].at = "measured"
    /\ LET credible == job[j].free >= Free + SmallestCredible
           delta == job[j].free - Free
       IN  /\ memo' = IF credible /\ Attributed(j) THEN [memo EXCEPT !.foot = delta] ELSE memo
           /\ known' = IF credible THEN [known EXCEPT ![model[j]] = delta] ELSE known
    /\ job' = [job EXCEPT ![j].at = "done", ![j].free = 0, ![j].seen = 0]
    /\ UNCHANGED <<model, tick, engineVars>> /\ Sound

MeasureFails(j) ==
    /\ job[j].at = "measured"
    /\ job' = [job EXCEPT ![j].at = "done", ![j].free = 0, ![j].seen = 0]
    /\ Faulty
    /\ UNCHANGED <<model, tick, memo, known, engineVars>>

\* The memo ages out while the engine keeps the model.
MemoExpires ==
    /\ memo # NoMemo
    /\ memo' = NoMemo /\ Faulty
    /\ UNCHANGED <<model, job, tick, known, engineVars>>

_execute(j) ==
    \/ SubmitReads(j) \/ SubmitPosts(j) \/ _remember_run(j) \/ Follows(j)
    \/ MeasureLooks(j) \/ MeasureRecords(j) \/ MeasureFails(j)

Next ==
    \/ PromptStarts \/ PromptEnds \/ ModelsFreed
    \/ \E j \in Jobs : Admit(j) \/ _execute(j)
    \/ _evict_to_match_plan \/ unload \/ _launch
    \/ MemoExpires

Spec == Init /\ [][Next]_resVars

---------------------------------------------------------------------------
\* unload "returns True only once the effect was actually observed": when the
\* tick drops the memo, the engine has nothing left to free.
SettledMeansFreed == tick.at = "pop" /\ ~doubt => ~flag

\* An admitted exclusive job has the machine to itself: its checkpoint loads
\* after what was there is gone, not on top of it.
ExclusiveLoadsAlone ==
    prompt # 0 /\ ~doubt /\ Budget # 0 /\ job[prompt].alone =>
        \A m \in Models \ {model[prompt]} : loaded[m] = 0

\* What is loaded fits the budget when it is the plan's, growth aside
\* (worker.py:948-956 calls the exceptions one tick's).
LoadedFitsTheBudget ==
    prompt # 0 /\ ~doubt /\ Budget # 0 /\ ~job[prompt].alone =>
        Budget + Growth * Cardinality({m \in Models : loaded[m] # 0}) >= Used

\* It does while the last run tells what is loaded: eviction counts what the
\* memo measured and what the admitted job adds.
ToldLoadsFitTheBudget == ~blind => LoadedFitsTheBudget

\* "Believing a model went away when it did not is the one error here that
\* could leave two large checkpoints resident at once" (comfyui.py:1012-1014):
\* with no memo and no submission under way, nothing is loaded.
ForgottenMeansGone ==
    memo = NoMemo /\ ~doubt /\ (\A j \in Jobs : job[j].at # "posted") => Used = 0

\* A footprint is an over-count, "never a growth-only number"
\* (comfyui.py:787): admission never plans with less than a model takes.
MeasuredCoversTheModel == ~doubt => \A m \in Models : known[m] # 0 => known[m] >= Size[m]
================================================================================
