------------------------------- MODULE Submission -------------------------------
(***************************************************************************)
(* How a job enters the queue: the settings are read once, the principal's *)
(* active jobs are counted, the row is inserted and finished rows beyond   *)
(* the retention limit are pruned, each in a statement of its own and      *)
(* without a lock, while the worker runs jobs, the console cancels them    *)
(* and administrators save the queue's settings, a form at a time.         *)
(***************************************************************************)
EXTENDS Naturals, FiniteSets

CONSTANTS
    Clients,    \* requests that enqueue, one job after another
    Owner,      \* the principal each acts for; "service" is exempt from the cap
    Admins,     \* administrators on the settings page
    Caps,       \* values of max_queued_per_principal
    Limits,     \* values of retention_limit
    MaxRows,    \* bound on jobs
    MaxSaves    \* bound on settings forms opened

ASSUME SubmissionAssumption ==
    /\ IsFiniteSet(Clients) /\ DOMAIN Owner = Clients
    /\ Caps \subseteq Nat \ {0} /\ \E n \in Caps : \A m \in Caps : m <= n
    /\ Limits \subseteq Nat \ {0}
    /\ MaxRows \in Nat /\ MaxSaves \in Nat

VARIABLES
    rows,       \* InferenceJob by pk: state, priority and actor
    client,     \* where each request is and what it has read
    jobSettings, \* the JobSettings row
    form,       \* the form each administrator has open, and the row read for it
    saved,      \* the last value each form was told is saved
    saves,      \* forms opened so far
    capped      \* no request has gone uncounted for want of the settings row

subVars == <<rows, client, jobSettings, form, saved, saves, capped>>

Pks == 1..MaxRows
Priorities == {1, 2}
DefaultPriority == 2
Active == {"queued", "running"}
TERMINAL_STATES == {"ended", "cancelled"}  \* succeeded and failed prune alike

Settings == [retention : Caps \X Limits, budget : {0, 1}]
Forms == {"retention", "budget"}
Unread == <<0, 0>>  \* JobSettings was unreadable
Closed == [of |-> "none", read |-> [retention |-> Unread, budget |-> 0]]

JobRow == [state : {"absent", "deleted"} \cup Active \cup TERMINAL_STATES,
           priority : Priorities, actor : {"service"} \cup {Owner[c] : c \in Clients}]

ClientRow ==
    [at : {"idle", "count", "insert", "prune", "delete"}, read : (Caps \X Limits) \cup {Unread},
     asked : {0} \cup Priorities, pk : {0} \cup Pks, cutoff : {0} \cup Pks,
     told : {"nothing", "queued", "quota", "unavailable"}]

SubTypeOK ==
    /\ rows \in [Pks -> JobRow]
    /\ client \in [Clients -> ClientRow]
    /\ jobSettings \in Settings
    /\ form \in [Admins -> [of : Forms, read : Settings] \cup {Closed}]
    /\ saved \in Settings
    /\ saves \in 0..MaxSaves
    /\ capped \in BOOLEAN

---------------------------------------------------------------------------
SubInit ==
    /\ jobSettings \in Settings /\ saved = jobSettings
    /\ rows = [i \in Pks |-> [state |-> "absent", priority |-> 1, actor |-> "service"]]
    /\ client = [c \in Clients |-> [at |-> "idle", read |-> Unread, asked |-> 0, pk |-> 0,
                                    cutoff |-> 0, told |-> "nothing"]]
    /\ form = [a \in Admins |-> Closed]
    /\ saves = 0
    /\ capped = TRUE

Goes(c, to) == client' = [client EXCEPT ![c] = to]

Told(c, what) ==
    Goes(c, [at |-> "idle", read |-> Unread, asked |-> 0, pk |-> client[c].pk, cutoff |-> 0,
             told |-> what])

\* enqueue reads JobSettings once; unreadable is None.
Begin(c) ==
    /\ client[c].at = "idle"
    /\ \E read \in {jobSettings.retention, Unread}, asked \in {0, 1} :
         /\ Goes(c, [at |-> "count", read |-> read, asked |-> asked, pk |-> 0, cutoff |-> 0,
                     told |-> "nothing"])
         /\ capped' = (capped /\ (read # Unread \/ Owner[c] = "service"))
    /\ UNCHANGED <<rows, jobSettings, form, saved, saves>>

Counted(who) == Cardinality({i \in Pks : rows[i].state \in Active /\ rows[i].actor = who})

\* Mutant: the cap counts only the jobs that wait.
OverCap_WaitingOnly(c) ==
    /\ Owner[c] # "service" /\ client[c].read # Unread
    /\ Cardinality({i \in Pks : rows[i].state = "queued" /\ rows[i].actor = Owner[c]})
         >= client[c].read[1]

OverCap(c) ==
    /\ Owner[c] # "service" /\ client[c].read # Unread
    /\ Counted(Owner[c]) >= client[c].read[1]

_enforce_principal_quota(c) ==
    /\ client[c].at = "count"
    /\ IF OverCap(c) THEN Told(c, "quota") ELSE Goes(c, [client[c] EXCEPT !.at = "insert"])
    /\ UNCHANGED <<rows, jobSettings, form, saved, saves, capped>>

\* Where no priority was asked for, the default comes from the row read at
\* the top, or from a second read that fails with the first one.
_resolve_priority(c) ==
    IF client[c].asked # 0 THEN client[c].asked ELSE DefaultPriority

Insert(c) ==
    /\ client[c].at = "insert"
    /\ \E i \in Pks :
         /\ rows[i].state = "absent" /\ \A k \in 1..(i - 1) : rows[k].state # "absent"
         /\ rows' = [rows EXCEPT ![i] = [state |-> "queued", priority |-> _resolve_priority(c),
                                       actor |-> Owner[c]]]
         /\ IF client[c].read = Unread
            THEN Goes(c, [client[c] EXCEPT !.at = "idle", !.asked = 0, !.pk = i, !.told = "queued"])
            ELSE Goes(c, [client[c] EXCEPT !.at = "prune", !.pk = i])
    /\ UNCHANGED <<jobSettings, form, saved, saves, capped>>

\* The tables are unreachable, or the planner raises: _guarded reports it.
InsertFails(c) ==
    /\ client[c].at = "insert"
    /\ Told(c, "unavailable")
    /\ UNCHANGED <<rows, jobSettings, form, saved, saves, capped>>

FinishedRows == {i \in Pks : rows[i].state \in TERMINAL_STATES}

\* The row at OFFSET limit, newest first; 0 when there is none.
Beyond(limit) ==
    LET past == {i \in FinishedRows : Cardinality({k \in FinishedRows : k > i}) = limit}
    IN  IF past = {} THEN 0 ELSE CHOOSE i \in past : TRUE

PruneCutoff(c) ==
    /\ client[c].at = "prune"
    /\ LET cutoff == Beyond(client[c].read[2])
       IN  IF cutoff = 0 THEN Told(c, "queued")
                         ELSE Goes(c, [client[c] EXCEPT !.at = "delete", !.cutoff = cutoff])
    /\ UNCHANGED <<rows, jobSettings, form, saved, saves, capped>>

PruneDelete(c) ==
    /\ client[c].at = "delete"
    /\ rows' = [i \in Pks |-> IF i <= client[c].cutoff /\ i \in FinishedRows
                             THEN [rows[i] EXCEPT !.state = "deleted"] ELSE rows[i]]
    /\ Told(c, "queued")
    /\ UNCHANGED <<jobSettings, form, saved, saves, capped>>

\* Housekeeping that fails is logged: the job is queued all the same.
PruneFails(c) ==
    /\ client[c].at \in {"prune", "delete"}
    /\ Told(c, "queued")
    /\ UNCHANGED <<rows, jobSettings, form, saved, saves, capped>>

enqueue(c) ==
    \/ Begin(c) \/ _enforce_principal_quota(c)
    \/ Insert(c) \/ InsertFails(c)
    \/ PruneCutoff(c) \/ PruneDelete(c) \/ PruneFails(c)

---------------------------------------------------------------------------
\* The rows the scheduler would take before row i, and the position the
\* console and the status pages show.
_priority_pk_ahead(i) ==
    {k \in Pks : /\ rows[k].state = "queued"
                 /\ \/ rows[k].priority < rows[i].priority
                    \/ rows[k].priority = rows[i].priority /\ k < i}

Position(i) == Cardinality(_priority_pk_ahead(i)) + 1

RowBecomes(i, from, to) ==
    /\ rows[i].state = from
    /\ rows' = [rows EXCEPT ![i].state = to]
    /\ UNCHANGED <<client, jobSettings, form, saved, saves, capped>>

\* The worker may take a later job past one that does not fit.
Runs(i) == RowBecomes(i, "queued", "running")

Ends(i) == RowBecomes(i, "running", "ended")

\* queue_job_cancel; who may see the row is not a matter of its state.
cancel_job(i) == RowBecomes(i, "queued", "cancelled")

---------------------------------------------------------------------------
\* A settings form: the row is read, then saved by the fields of the form.
queue_settings_update(a) ==
    /\ form[a] = Closed /\ saves < MaxSaves
    /\ saves' = saves + 1
    /\ \E f \in Forms : form' = [form EXCEPT ![a] = [of |-> f, read |-> jobSettings]]
    /\ UNCHANGED <<rows, client, jobSettings, saved, capped>>

\* Mutant: the whole row is saved, as it was read.
Saves_WholeRow(a, f, value) ==
    /\ form[a].of = f
    /\ jobSettings' = [form[a].read EXCEPT ![f] = value]
    /\ saved' = [saved EXCEPT ![f] = value]
    /\ form' = [form EXCEPT ![a] = Closed]
    /\ UNCHANGED <<rows, client, saves, capped>>

Saves(a, f, value) ==
    /\ form[a].of = f
    /\ jobSettings' = [jobSettings EXCEPT ![f] = value]
    /\ saved' = [saved EXCEPT ![f] = value]
    /\ form' = [form EXCEPT ![a] = Closed]
    /\ UNCHANGED <<rows, client, saves, capped>>

_update_retention_and_priority(a) ==
    \E cap \in Caps, limit \in Limits : Saves(a, "retention", <<cap, limit>>)

_update_budget_and_concurrency(a) == \E budget \in {0, 1} : Saves(a, "budget", budget)

SubNext ==
    \/ \E c \in Clients : enqueue(c)
    \/ \E i \in Pks : Runs(i) \/ Ends(i) \/ cancel_job(i)
    \/ \E a \in Admins : queue_settings_update(a) \/ _update_retention_and_priority(a)
                         \/ _update_budget_and_concurrency(a)

SubSpec == SubInit /\ [][SubNext]_subVars

---------------------------------------------------------------------------
Largest(S) == CHOOSE n \in S : \A m \in S : m <= n
Smallest(S) == CHOOSE n \in S : \A m \in S : n <= m

\* The accepted race of the cap: a principal's active jobs exceed it by no
\* more than the other requests that could be counting at the same time
\* (backend.py:324-336), as long as the settings row could be read.
CapHoldsUpToTheRace ==
    \A c \in Clients :
        LET peers == {d \in Clients : Owner[d] = Owner[c]}
        IN  capped /\ Owner[c] # "service"
                => Counted(Owner[c]) <= Largest(Caps) + Cardinality(peers) - 1

\* Concurrent prunes, each with the limit it read, never take one of the
\* newest finished jobs: at least a whole retention of later jobs had ended.
NewestAreKept ==
    \A i \in Pks : rows[i].state = "deleted" =>
        Cardinality({k \in Pks : k > i /\ rows[k].state \in TERMINAL_STATES \cup {"deleted"}})
            >= Smallest(Limits)

\* A job disappears only once it has ended, however long ago the cutoff was
\* read.
LiveJobsStay ==
    [][\A i \in Pks : rows[i].state \in Active => rows'[i].state # "deleted"]_rows

\* "Nothing was queued" is true: a request told that the queue is not
\* available, or that the cap is reached, has left no row.
RefusedMeansNoRow ==
    \A c \in Clients : client[c].told \in {"unavailable", "quota"} => client[c].pk = 0

\* While a job waits, only a job of a smaller priority number can push it
\* back.
OnlyUrgencyOvertakes ==
    [][\A i \in Pks :
         rows[i].state = "queued" /\ rows'[i].state = "queued" /\ Position(i)' > Position(i)
             => \E k \in Pks : /\ rows[k].state = "absent" /\ rows'[k].state = "queued"
                               /\ rows'[k].priority < rows[i].priority]_rows

\* Two administrators on different forms do not undo each other: the value a
\* form was last told is saved is the one in force.
SavedFormsStand == jobSettings = saved
================================================================================
