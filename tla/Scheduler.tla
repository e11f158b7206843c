------------------------------- MODULE Scheduler -------------------------------
(***************************************************************************)
(* The admission policy of models/queue/scheduler.py: which of the queued  *)
(* jobs may start beside the ones already running.                         *)
(*                                                                         *)
(* A candidate is a record [job_id, priority, exclusive, models]; models   *)
(* is the set of [key, footprint_bytes] readings of its tuple (a repeated  *)
(* reading changes nothing, see DedupBytes).  The function walks the       *)
(* candidates in (priority, job_id) order and stops at the first one that  *)
(* does not fit; here the same decision is a set: a candidate is admitted  *)
(* iff it and everything ahead of it fits.  PlanLoop walks the list the    *)
(* way the code does and TLC compares the two.                             *)
(***************************************************************************)
EXTENDS Integers, FiniteSets, FiniteSetsExt

\* Python's None: "no budget" (sequential mode), or a footprint nobody has measured.
CONSTANT None

ASSUME NoneAssumption == None \notin Int

----------------------------------------------------------------------------

\* The keys mentioned by a set of readings.
KeysOf(models) == {m.key : m \in models}

\* One size per key: None if any reading of the key is None, else the largest.
DedupBytes(models) ==
    [k \in KeysOf(models) |->
        LET values == {m.footprint_bytes : m \in {x \in models : x.key = k}}
        IN  IF None \in values THEN None ELSE Max(values)]

HasUnknown(models) == \E m \in models : m.footprint_bytes = None

\* Total of the known sizes, each key counted once.
TotalBytes(models) ==
    LET byKey == DedupBytes(models)
        known == {k \in DOMAIN byKey : byKey[k] # None}
    IN  MapThenSumSet(LAMBDA k : byKey[k], known)

ModelsOf(jobs) == UNION {c.models : c \in jobs}

\* resident_bytes: what the jobs hold in memory together.
ResidentBytes(jobs) == TotalBytes(ModelsOf(jobs))

\* Why the job must run alone is left out; that it must is not.
EffectivelyExclusive(c, budget) ==
    \/ c.exclusive
    \/ c.models = {}
    \/ HasUnknown(c.models)
    \/ budget # None /\ TotalBytes(c.models) > budget

----------------------------------------------------------------------------

\* The queue order: smaller priority first, then the older row.
Before(c, d) ==
    \/ c.priority < d.priority
    \/ c.priority = d.priority /\ c.job_id < d.job_id

Ahead(cands, c) == {d \in cands : Before(d, c)}

\* The rows of the candidate scan: the first `window` of the queue.
CandidateWindow(cands, window) ==
    {c \in cands : Cardinality(Ahead(cands, c)) < window}

\* One turn of the admission loop, everything ahead of c having been admitted.
FitsAfterAhead(c, cands, running, budget, cap) ==
    LET ahead == Ahead(cands, c)
    IN  /\ Cardinality(running) + Cardinality(ahead) < cap
        /\ \/ /\ EffectivelyExclusive(c, budget)
              /\ running = {}
              /\ ahead = {}
           \/ /\ ~EffectivelyExclusive(c, budget)
              /\ \A d \in ahead : ~EffectivelyExclusive(d, budget)
              /\ ResidentBytes(running \cup ahead \cup {c}) <= budget

\* plan_admissions, as the set of admitted candidates.
PlanAdmissions(cands, running, budget, cap) ==
    IF cap <= 0 THEN {}
    ELSE IF budget = None
         THEN {c \in cands : running = {} /\ Ahead(cands, c) = {}}
         ELSE IF \E r \in running : EffectivelyExclusive(r, budget)
              THEN {}
              ELSE {c \in cands :
                      \A d \in Ahead(cands, c) \cup {c} :
                          FitsAfterAhead(d, cands, running, budget, cap)}
================================================================================
