---------------------------- MODULE QueueClientProofs ----------------------------
(***************************************************************************)
(* What every client of the queue may rely on: the bookkeeping keeps its   *)
(* types, an attempt that executes holds its job unless attempts may       *)
(* outlive their claim, and a step of the queue ends a job only in ways a  *)
(* client hears of.  pcs are the client's own points of an attempt.        *)
(***************************************************************************)
EXTENDS QueueClient, TLAPS

(* A job is claimed once, and once more for its retry and for each fault;  *)
(* an attempt that has begun was claimed.                                  *)
ClaimsCounted ==
    \A j \in Jobs :
        /\ job[j].tries + (IF job[j].state = "queued" THEN 1 ELSE 0) <= 1 + job[j].lost + faults
        /\ job[j].state = "absent" => job[j].tries = 0

(* An attempt that executes holds its job.                                 *)
ExecutingHolds == \A e \in Execs : Executing(e) => Holds(e)

(* An attempt is a pair of a job and the number of its claim.              *)
LEMMA Pairs ==
    /\ \A e \in Execs : e = <<e[1], e[2]>> /\ e[1] \in Jobs /\ e[2] \in Tries
    /\ \A j \in Jobs, t \in Tries : <<j, t>> \in Execs
BY DEF Execs

(* The counters of the queue as numbers with their bounds. *)
LEMMA Numbers ==
    ASSUME NEW pcs, QueueTypeOK(pcs)
    PROVE  /\ faults \in Nat /\ faults <= MaxFaults /\ MaxFaults \in Nat
           /\ \A j \in Jobs : /\ job[j].tries \in Nat /\ job[j].tries <= 2 + MaxFaults
                              /\ job[j].lost \in {0, 1} /\ job[j].outcome \in {0} \cup Tries
BY QueueClientAssumption DEF QueueTypeOK, JobRow, Tries

(* A queued job's next claim is an attempt within the bounds. *)
LEMMA ClaimInRange ==
    ASSUME NEW pcs, QueueTypeOK(pcs), ClaimsCounted, NEW j \in Jobs, job[j].state = "queued"
    PROVE  job[j].tries + 1 \in Tries /\ <<j, job[j].tries + 1>> \in Execs
<1>1. job[j].tries + 1 <= 1 + job[j].lost + faults
  BY DEF ClaimsCounted
<1>2. job[j].tries + 1 \in Tries
  BY <1>1, Numbers DEF Tries
<1> QED BY <1>2, Pairs

(* One attempt of a job executes at a time.                                *)
LEMMA OneExecutes ==
    ASSUME ExecutingHolds, NEW e \in Execs, NEW f \in Execs, e[1] = f[1], Executing(e), Executing(f)
    PROVE  e = f
BY Pairs DEF ExecutingHolds, Holds

---------------------------------------------------------------------------
(* Types.                                                                  *)

LEMMA QueueTypeInit ==
    ASSUME NEW pcs, QueueInit PROVE QueueTypeOK(pcs) /\ ClaimsCounted /\ ExecutingHolds
<1>1. QueueTypeOK(pcs)
  BY QueueClientAssumption DEF QueueInit, QueueTypeOK, JobRow, Ended
<1>2. ClaimsCounted
  BY <1>1, Numbers DEF QueueInit, ClaimsCounted
<1>3. ExecutingHolds
  BY DEF QueueInit, ExecutingHolds, Executing
<1> QED BY <1>1, <1>2, <1>3

(* What a step of an attempt's program counter leaves alone.               *)
LEMMA GoesFacts ==
    ASSUME NEW pcs, QueueTypeOK(pcs), NEW e \in Execs, NEW from,
           NEW to \in pcs \cup {"none", "claimed", "ok", "bad", "over"}, Goes(e, from, to)
    PROVE  /\ att[e] = from /\ att'[e] = to
           /\ \A f \in Execs : f # e => att'[f] = att[f]
           /\ att' \in [Execs -> pcs \cup {"none", "claimed", "ok", "bad", "over"}]
BY DEF QueueTypeOK, Goes

(* A handler's own step changes nothing of the queue.                      *)
LEMMA HandlerStep ==
    ASSUME NEW pcs, QueueTypeOK(pcs), ClaimsCounted, NEW e \in Execs, NEW from,
           NEW to \in pcs \cup {"none", "claimed", "ok", "bad", "over"}, Goes(e, from, to),
           UNCHANGED <<job, hooks, faults>>
    PROVE  /\ QueueTypeOK(pcs)' /\ ClaimsCounted'
           /\ from \notin {"none", "over"} /\ ExecutingHolds => ExecutingHolds'
<1>1. QueueTypeOK(pcs)'
  BY GoesFacts DEF QueueTypeOK
<1>2. ClaimsCounted'
  BY DEF ClaimsCounted
<1>3. ASSUME from \notin {"none", "over"}, ExecutingHolds PROVE ExecutingHolds'
  <2>1. \A f \in Execs : Executing(f)' => Executing(f)
    BY <1>3, GoesFacts DEF Executing
  <2> QED BY <1>3, <2>1 DEF ExecutingHolds, Holds
<1> QED BY <1>1, <1>2, <1>3

(* A step that leaves the jobs and their attempts alone.                   *)
LEMMA OtherStep ==
    ASSUME NEW pcs, QueueTypeOK(pcs), ClaimsCounted, UNCHANGED <<job, att>>, hooks' \subseteq Jobs,
           Faulty \/ UNCHANGED faults
    PROVE  QueueTypeOK(pcs)' /\ ClaimsCounted' /\ (ExecutingHolds => ExecutingHolds')
<1>1. faults' \in 0..MaxFaults /\ faults <= faults'
  BY Numbers DEF Faulty
<1>2. QueueTypeOK(pcs)'
  BY <1>1 DEF QueueTypeOK
<1>3. ASSUME NEW j \in Jobs
      PROVE  /\ job'[j].tries + (IF job'[j].state = "queued" THEN 1 ELSE 0) <= 1 + job'[j].lost + faults'
             /\ job'[j].state = "absent" => job'[j].tries = 0
  BY <1>1, Numbers DEF ClaimsCounted
<1>4. ExecutingHolds => ExecutingHolds'
  BY DEF ExecutingHolds, Executing, Holds
<1> QED BY <1>2, <1>3, <1>4 DEF ClaimsCounted

(* A job is enqueued.                                                      *)
LEMMA EnqueueStep ==
    ASSUME NEW pcs, QueueTypeOK(pcs), ClaimsCounted, NEW j \in Jobs, Enqueued(j),
           UNCHANGED <<att, hooks, faults>>
    PROVE  /\ QueueTypeOK(pcs)' /\ ClaimsCounted' /\ (ExecutingHolds => ExecutingHolds')
           /\ job'[j].state = "queued" /\ \A i \in Jobs : i # j => job'[i] = job[i]
<1>1. /\ job[j].state = "absent" /\ job[j].tries = 0
      /\ job' = [job EXCEPT ![j] = [state |-> "queued", tries |-> 0, lost |-> 0, outcome |-> 0]]
  BY DEF Enqueued, Row, ClaimsCounted
<1>2. job'[j] = [state |-> "queued", tries |-> 0, lost |-> 0, outcome |-> 0] /\ \A i \in Jobs : i # j => job'[i] = job[i]
  BY <1>1 DEF QueueTypeOK
<1>3. QueueTypeOK(pcs)'
  BY <1>1 DEF QueueTypeOK, JobRow
<1>4. ClaimsCounted'
  BY <1>2, Numbers DEF ClaimsCounted
<1>5. ExecutingHolds => ExecutingHolds'
  BY <1>1, <1>2, Pairs DEF ExecutingHolds, Executing, Holds
<1> QED BY <1>2, <1>3, <1>4, <1>5

---------------------------------------------------------------------------
(* The queue's own steps, as changes of one row and one attempt.           *)

(* The row of job j becomes r, the others stay.                            *)
RowBecomes(j, r) == job' = [job EXCEPT ![j] = r]

(* What a claim does to the row and to the attempts. *)
LEMMA ClaimRow ==
    ASSUME NEW pcs, QueueTypeOK(pcs), ClaimsCounted, NEW j \in Jobs, Claim(j)
    PROVE  /\ job[j].state = "queued" /\ job[j].tries + 1 \in Tries
           /\ RowBecomes(j, [state |-> "running", tries |-> job[j].tries + 1, lost |-> job[j].lost, outcome |-> 0])
           /\ att' = [att EXCEPT ![<<j, job[j].tries + 1>>] = "claimed"]
           /\ UNCHANGED <<hooks, faults>>
<1>1. job[j].state = "queued" /\ job[j].tries + 1 \in Tries
  BY ClaimInRange DEF Claim
<1>2. [Row(j, "running", job[j].lost, 0) EXCEPT !.tries = @ + 1] =
      [state |-> "running", tries |-> job[j].tries + 1, lost |-> job[j].lost, outcome |-> 0]
  BY DEF Row
<1> QED BY <1>1, <1>2 DEF Claim, RowBecomes

(* What the sweep does: a job whose holder went silent is queued once more, then failed with its hook. *)
LEMMA SweepRow ==
    ASSUME NEW j \in Jobs, Sweep(j)
    PROVE  /\ job[j].state = "running" /\ UNCHANGED <<att, faults>>
           /\ Late \/ att[<<j, job[j].tries>>] = "over"
           /\ \/ /\ job[j].lost = 0 /\ UNCHANGED hooks
                 /\ RowBecomes(j, [state |-> "queued", tries |-> job[j].tries, lost |-> 1, outcome |-> 0])
              \/ /\ job[j].lost # 0 /\ hooks' = hooks \cup {j}
                 /\ RowBecomes(j, [state |-> "failed", tries |-> job[j].tries, lost |-> 1, outcome |-> 0])
BY DEF Sweep, Row, RowBecomes, HolderGone

(* What a drain does: the job is given back and its retry is not spent. *)
LEMMA DrainRow ==
    ASSUME NEW j \in Jobs, Drain(j)
    PROVE  /\ job[j].state = "running" /\ Faulty /\ UNCHANGED hooks
           /\ RowBecomes(j, [state |-> "queued", tries |-> job[j].tries, lost |-> job[j].lost, outcome |-> 0])
           /\ att' = IF Late THEN att ELSE [att EXCEPT ![<<j, job[j].tries>>] = "over"]
BY DEF Drain, Row, RowBecomes

(* What a cancellation does to a queued job. *)
LEMMA CancelRow ==
    ASSUME NEW j \in Jobs, Cancel(j)
    PROVE  /\ job[j].state = "queued" /\ hooks' = hooks \cup {j} /\ UNCHANGED <<att, faults>>
           /\ RowBecomes(j, [state |-> "cancelled", tries |-> job[j].tries, lost |-> job[j].lost, outcome |-> 0])
BY DEF Cancel, Row, RowBecomes

(* An attempt's outcome is written only while it holds the job. *)
LEMMA OutcomeRow ==
    ASSUME NEW e \in Execs, NEW state, job' = Outcome(e, state)
    PROVE  \/ ~Holds(e) /\ job' = job
           \/ Holds(e) /\ RowBecomes(e[1], [state |-> state, tries |-> job[e[1]].tries,
                                            lost |-> job[e[1]].lost, outcome |-> e[2]])
BY DEF Outcome, Row, RowBecomes

(* Types and the count after one row has become r.                         *)
LEMMA RowKeepsTypes ==
    ASSUME NEW pcs, QueueTypeOK(pcs), ClaimsCounted, NEW j \in Jobs, NEW r \in JobRow, RowBecomes(j, r),
           att' \in [Execs -> pcs \cup {"none", "claimed", "ok", "bad", "over"}], hooks' \subseteq Jobs,
           Faulty \/ UNCHANGED faults,
           r.state # "absent",
           r.tries + (IF r.state = "queued" THEN 1 ELSE 0) <= 1 + r.lost + faults'
    PROVE  QueueTypeOK(pcs)' /\ ClaimsCounted'
<1>1. faults' \in 0..MaxFaults /\ faults <= faults'
  BY Numbers DEF Faulty
<1>2. job'[j] = r /\ \A i \in Jobs : i # j => job'[i] = job[i]
  BY DEF RowBecomes, QueueTypeOK
<1>3. QueueTypeOK(pcs)'
  BY <1>1 DEF QueueTypeOK, RowBecomes
<1>4. ASSUME NEW i \in Jobs
      PROVE  /\ job'[i].tries + (IF job'[i].state = "queued" THEN 1 ELSE 0) <= 1 + job'[i].lost + faults'
             /\ job'[i].state = "absent" => job'[i].tries = 0
  <2>1. CASE i = j
    BY <1>2, <2>1
  <2>2. CASE i # j
    <3>1. job'[i] = job[i]
      BY <1>2, <2>2
    <3>2. job[i].tries + (IF job[i].state = "queued" THEN 1 ELSE 0) <= 1 + job[i].lost + faults
      BY DEF ClaimsCounted
    <3>3. job[i].state = "absent" => job[i].tries = 0
      BY DEF ClaimsCounted
    <3>4. job[i].tries \in Nat /\ job[i].lost \in {0, 1} /\ faults \in Nat /\ faults' \in Nat
      BY <1>1, Numbers
    <3> QED BY <1>1, <3>1, <3>2, <3>3, <3>4
  <2> QED BY <2>1, <2>2
<1> QED BY <1>3, <1>4 DEF ClaimsCounted

(* Every step of the queue's own keeps the types and the count.            *)
LEMMA QueueTypeStep ==
    ASSUME NEW pcs, QueueTypeOK(pcs), ClaimsCounted, QueueStep
    PROVE  QueueTypeOK(pcs)' /\ ClaimsCounted'
<1> DEFINE Goal == QueueTypeOK(pcs)' /\ ClaimsCounted'
<1> DEFINE Points == pcs \cup {"none", "claimed", "ok", "bad", "over"}
<1>0. \A j \in Jobs : /\ job[j] \in JobRow
                      /\ job[j].tries + (IF job[j].state = "queued" THEN 1 ELSE 0) <= 1 + job[j].lost + faults
  BY DEF QueueTypeOK, ClaimsCounted
<1>a. att \in [Execs -> Points] /\ hooks \subseteq Jobs
  BY DEF QueueTypeOK
<1>1. ASSUME NEW j \in Jobs, Claim(j) PROVE Goal
  <2> DEFINE r == [state |-> "running", tries |-> job[j].tries + 1, lost |-> job[j].lost, outcome |-> 0]
  <2>0. job[j].tries + 1 \in Tries /\ RowBecomes(j, r) /\ UNCHANGED <<hooks, faults>>
    BY <1>1, ClaimRow
  <2>1. r \in JobRow /\ RowBecomes(j, r) /\ UNCHANGED <<hooks, faults>>
    BY <1>0, <2>0 DEF JobRow
  <2>2. r.tries + (IF r.state = "queued" THEN 1 ELSE 0) <= 1 + r.lost + faults'
    <3>1. job[j].state = "queued"
      BY <1>1, ClaimRow
    <3> QED BY <1>0, <2>1, <3>1, Numbers
  <2>3. att' \in [Execs -> Points]
    BY <1>1, <1>a, ClaimRow
  <2> QED BY <1>a, <2>1, <2>2, <2>3, RowKeepsTypes
<1>2. ASSUME NEW j \in Jobs, Sweep(j) PROVE Goal
  <2>1. CASE job[j].lost = 0
    <3> DEFINE r == [state |-> "queued", tries |-> job[j].tries, lost |-> 1, outcome |-> 0]
    <3>1. RowBecomes(j, r) /\ UNCHANGED <<att, hooks, faults>> /\ job[j].state = "running"
      BY <1>2, <2>1, SweepRow
    <3>2. r \in JobRow
      BY <1>0 DEF JobRow
    <3>3. r.tries + (IF r.state = "queued" THEN 1 ELSE 0) <= 1 + r.lost + faults'
      BY <1>0, <2>1, <3>1, Numbers
    <3> QED BY <1>a, <3>1, <3>2, <3>3, RowKeepsTypes
  <2>2. CASE job[j].lost # 0
    <3> DEFINE r == [state |-> "failed", tries |-> job[j].tries, lost |-> 1, outcome |-> 0]
    <3>1. RowBecomes(j, r) /\ UNCHANGED <<att, faults>> /\ hooks' = hooks \cup {j} /\ job[j].state = "running"
      BY <1>2, <2>2, SweepRow
    <3>2. r \in JobRow
      BY <1>0 DEF JobRow, Ended
    <3>3. r.tries + (IF r.state = "queued" THEN 1 ELSE 0) <= 1 + r.lost + faults'
      BY <1>0, <2>2, <3>1, Numbers
    <3> QED BY <1>a, <3>1, <3>2, <3>3, RowKeepsTypes
  <2> QED BY <2>1, <2>2
<1>3. ASSUME NEW j \in Jobs, Drain(j) PROVE Goal
  <2> DEFINE r == [state |-> "queued", tries |-> job[j].tries, lost |-> job[j].lost, outcome |-> 0]
  <2>1. RowBecomes(j, r) /\ Faulty /\ UNCHANGED hooks /\ job[j].state = "running"
    BY <1>3, DrainRow
  <2>2. r \in JobRow
    BY <1>0 DEF JobRow
  <2>3. faults' = faults + 1
    BY <2>1 DEF Faulty
  <2>4. r.tries + (IF r.state = "queued" THEN 1 ELSE 0) <= 1 + r.lost + faults'
    BY <1>0, <2>1, <2>3, Numbers
  <2>5. att' \in [Execs -> Points]
    BY <1>3, <1>a, DrainRow
  <2> QED BY <1>a, <2>1, <2>2, <2>4, <2>5, RowKeepsTypes
<1>4. ASSUME NEW j \in Jobs, Cancel(j) PROVE Goal
  <2> DEFINE r == [state |-> "cancelled", tries |-> job[j].tries, lost |-> job[j].lost, outcome |-> 0]
  <2>1. RowBecomes(j, r) /\ hooks' = hooks \cup {j} /\ UNCHANGED <<att, faults>> /\ job[j].state = "queued"
    BY <1>4, CancelRow
  <2>2. r \in JobRow
    BY <1>0 DEF JobRow, Ended
  <2>3. r.tries + (IF r.state = "queued" THEN 1 ELSE 0) <= 1 + r.lost + faults'
    BY <1>0, <2>1, Numbers
  <2> QED BY <1>a, <2>1, <2>2, <2>3, RowKeepsTypes
<1>5. ASSUME NEW e \in Execs, Report(e) \/ HandlerMissing(e) PROVE Goal
  <2>1. PICK s \in {"succeeded", "failed"} : job' = Outcome(e, s)
    BY <1>5 DEF Report, HandlerMissing
  <2>2. e[1] \in Jobs /\ e[2] \in Tries
    BY Pairs
  <2>3. att' \in [Execs -> Points] /\ hooks' \subseteq Jobs /\ UNCHANGED faults
    BY <1>5, <1>a, <2>2 DEF Report, HandlerMissing, Goes
  <2>4. CASE job' = job
    <3>1. QueueTypeOK(pcs)'
      BY <2>3, <2>4 DEF QueueTypeOK
    <3>2. ClaimsCounted'
      BY <2>3, <2>4 DEF ClaimsCounted
    <3> QED BY <3>1, <3>2
  <2>5. CASE Holds(e) /\ job' # job
    <3> DEFINE r == [state |-> s, tries |-> job[e[1]].tries, lost |-> job[e[1]].lost, outcome |-> e[2]]
    <3>1. RowBecomes(e[1], r)
      BY <2>1, <2>5, OutcomeRow
    <3>2. r \in JobRow
      BY <1>0, <2>2 DEF JobRow, Ended
    <3>3. job[e[1]].state = "running"
      BY <2>5 DEF Holds
    <3>4. r.tries + (IF r.state = "queued" THEN 1 ELSE 0) <= 1 + r.lost + faults'
      BY <1>0, <2>2, <2>3, <3>3, Numbers
    <3> QED BY <2>2, <2>3, <3>1, <3>2, <3>4, RowKeepsTypes
  <2> QED BY <2>1, <2>4, <2>5, OutcomeRow
<1>6. ASSUME NEW e \in Execs, WorkerDies(e) PROVE Goal
  <2>1. att' \in [Execs -> Points] /\ Faulty /\ UNCHANGED <<job, hooks>>
    BY <1>6, <1>a DEF WorkerDies
  <2>2. faults' \in 0..MaxFaults /\ faults <= faults'
    BY <2>1, Numbers DEF Faulty
  <2>3. QueueTypeOK(pcs)'
    BY <2>1, <2>2 DEF QueueTypeOK
  <2>4. ASSUME NEW j \in Jobs
        PROVE  /\ job'[j].tries + (IF job'[j].state = "queued" THEN 1 ELSE 0) <= 1 + job'[j].lost + faults'
               /\ job'[j].state = "absent" => job'[j].tries = 0
    BY <2>1, <2>2, Numbers DEF ClaimsCounted
  <2> QED BY <2>3, <2>4 DEF ClaimsCounted
<1> QED BY <1>1, <1>2, <1>3, <1>4, <1>5, <1>6 DEF QueueStep

---------------------------------------------------------------------------
(* Attempts that do not outlive their claim.                               *)

(* After a step that changes attempt e and the rows of its job alone.      *)
LEMMA HoldsAfter ==
    ASSUME NEW pcs, QueueTypeOK(pcs), ExecutingHolds, NEW j \in Jobs,
           \A i \in Jobs : i # j => job'[i] = job[i],
           \A f \in Execs : f[1] # j => att'[f] = att[f],
           \A f \in Execs : f[1] = j /\ Executing(f)' => Holds(f)'
    PROVE  ExecutingHolds'
<1>1. ASSUME NEW f \in Execs, Executing(f)', f[1] # j PROVE Holds(f)'
  BY <1>1, Pairs DEF ExecutingHolds, Executing, Holds
<1> QED BY <1>1 DEF ExecutingHolds

(* While no attempt outlives its claim, a step of the queue leaves every executing attempt the holder
   of its job. *)
LEMMA QueueHoldsStep ==
    ASSUME NEW pcs, QueueTypeOK(pcs), ClaimsCounted, ExecutingHolds, ~Late, QueueStep
    PROVE  ExecutingHolds'
<1>0. /\ \A j \in Jobs : \A r : RowBecomes(j, r) => job'[j] = r /\ \A i \in Jobs : i # j => job'[i] = job[i]
      /\ att \in [Execs -> pcs \cup {"none", "claimed", "ok", "bad", "over"}]
  BY DEF QueueTypeOK, RowBecomes
<1>a. \A f \in Execs : Executing(f) => job[f[1]].state = "running" /\ job[f[1]].tries = f[2]
  BY DEF ExecutingHolds, Holds
<1>1. ASSUME NEW j \in Jobs, Claim(j) PROVE ExecutingHolds'
  <2> DEFINE c == <<j, job[j].tries + 1>>
  <2>a. /\ job[j].state = "queued" /\ job[j].tries + 1 \in Tries
        /\ RowBecomes(j, [state |-> "running", tries |-> job[j].tries + 1, lost |-> job[j].lost, outcome |-> 0])
        /\ att' = [att EXCEPT ![c] = "claimed"]
    BY <1>1, ClaimRow
  <2>1. /\ job[j].state = "queued" /\ c \in Execs /\ job'[j].state = "running" /\ job'[j].tries = job[j].tries + 1
        /\ att' = [att EXCEPT ![c] = "claimed"]
        /\ \A i \in Jobs : i # j => job'[i] = job[i]
    BY <1>0, <2>a, Pairs
  <2>2. ASSUME NEW f \in Execs, f[1] = j, Executing(f)' PROVE Holds(f)'
    <3>1. f = c
      <4>1. SUFFICES ASSUME f # c PROVE FALSE
        OBVIOUS
      <4>2. att'[f] = att[f]
        BY <1>0, <2>1, <4>1
      <4> QED BY <1>a, <2>1, <2>2, <4>2 DEF Executing
    <3> QED BY <2>1, <3>1 DEF Holds
  <2>3. \A f \in Execs : f[1] # j => att'[f] = att[f]
    BY <1>0, <2>1
  <2> QED BY <2>1, <2>2, <2>3, HoldsAfter
<1>2. ASSUME NEW j \in Jobs, Sweep(j) PROVE ExecutingHolds'
  <2>1. /\ att[<<j, job[j].tries>>] = "over" /\ UNCHANGED att
        /\ \A i \in Jobs : i # j => job'[i] = job[i]
    BY <1>0, <1>2, SweepRow
  <2>2. ASSUME NEW f \in Execs, f[1] = j, Executing(f)' PROVE FALSE
    <3>1. Executing(f) /\ f = <<j, job[j].tries>>
      BY <1>a, <2>1, <2>2, Pairs DEF Executing
    <3> QED BY <2>1, <3>1 DEF Executing
  <2> QED BY <2>1, <2>2, HoldsAfter
<1>3. ASSUME NEW j \in Jobs, Drain(j) PROVE ExecutingHolds'
  <2>1. /\ att' = [att EXCEPT ![<<j, job[j].tries>>] = "over"]
        /\ \A i \in Jobs : i # j => job'[i] = job[i]
    BY <1>0, <1>3, DrainRow
  <2>2. ASSUME NEW f \in Execs, f[1] = j, Executing(f)' PROVE FALSE
    <3>1. f = <<j, f[2]>>
      BY <2>2, Pairs
    <3>2. CASE f = <<j, job[j].tries>>
      BY <1>0, <2>1, <2>2, <3>2 DEF Executing
    <3>3. CASE f # <<j, job[j].tries>>
      <4>1. att'[f] = att[f]
        BY <1>0, <2>1, <3>3
      <4> QED BY <1>a, <2>2, <3>1, <3>3, <4>1 DEF Executing
    <3> QED BY <3>2, <3>3
  <2>3. \A f \in Execs : f[1] # j => att'[f] = att[f]
    BY <1>0, <2>1
  <2> QED BY <2>1, <2>2, <2>3, HoldsAfter
<1>4. ASSUME NEW j \in Jobs, Cancel(j) PROVE ExecutingHolds'
  <2>1. /\ job[j].state = "queued" /\ UNCHANGED att
        /\ \A i \in Jobs : i # j => job'[i] = job[i]
    BY <1>0, <1>4, CancelRow
  <2>2. ASSUME NEW f \in Execs, f[1] = j, Executing(f)' PROVE FALSE
    BY <1>a, <2>1, <2>2 DEF Executing
  <2> QED BY <2>1, <2>2, HoldsAfter
<1>5. ASSUME NEW e \in Execs, Report(e) \/ HandlerMissing(e) PROVE ExecutingHolds'
  <2>1. PICK s \in {"succeeded", "failed"} : job' = Outcome(e, s)
    BY <1>5 DEF Report, HandlerMissing
  <2>2. /\ e[1] \in Jobs /\ Executing(e) /\ att' = [att EXCEPT ![e] = "over"]
        /\ \A i \in Jobs : i # e[1] => job'[i] = job[i]
    BY <1>0, <1>5, <2>1, OutcomeRow, Pairs DEF Report, HandlerMissing, Goes, Executing
  <2>3. ASSUME NEW f \in Execs, f[1] = e[1], Executing(f)' PROVE FALSE
    <3>1. f # e
      BY <1>0, <2>2, <2>3 DEF Executing
    <3>2. Executing(f)
      BY <1>0, <2>2, <2>3, <3>1 DEF Executing
    <3> QED BY <2>2, <2>3, <3>1, <3>2, OneExecutes
  <2>4. \A f \in Execs : f[1] # e[1] => att'[f] = att[f]
    BY <1>0, <2>2
  <2> QED BY <2>2, <2>3, <2>4, HoldsAfter
<1>6. ASSUME NEW e \in Execs, WorkerDies(e) PROVE ExecutingHolds'
  <2>1. \A f \in Execs : Executing(f)' => Executing(f)
    BY <1>0, <1>6 DEF WorkerDies, Executing
  <2> QED BY <1>6, <2>1 DEF WorkerDies, ExecutingHolds, Holds
<1> QED BY <1>1, <1>2, <1>3, <1>4, <1>5, <1>6 DEF QueueStep

---------------------------------------------------------------------------
(* How a client hears of a job's end.                                      *)

(* A step of the queue creates no job and revives none, and ends one only  *)
(* with its attempt's report or with a hook; nothing else moves an attempt *)
(* than a claim and an end.                                                *)
OnlyTold ==
    /\ \A j \in Jobs :
        /\ job'[j].state = "absent" <=> job[j].state = "absent"
        /\ job[j].state \in Ended => job'[j].state = job[j].state
        /\ job'[j].state \in Ended /\ job[j].state \notin Ended =>
              \/ j \in hooks'
              \/ job'[j].state = "succeeded" /\ \E e \in Execs : e[1] = j /\ att[e] = "ok"
              \/ job'[j].state = "failed" /\ \E e \in Execs : e[1] = j /\ att[e] = "bad"
    /\ hooks \subseteq hooks'
    /\ \A j \in hooks' \ hooks : job'[j].state \in {"failed", "cancelled"}
    /\ \A e \in Execs : att'[e] = att[e] \/ att'[e] \in {"claimed", "over"}

(* A step that changes the unfinished row of job j alone.                  *)
RowTold(j) ==
    /\ \A i \in Jobs : i # j => job'[i] = job[i]
    /\ job[j].state \notin Ended \cup {"absent"} /\ job'[j].state # "absent"
    /\ \/ job'[j].state \notin Ended /\ UNCHANGED hooks
       \/ job'[j].state \in {"failed", "cancelled"} /\ hooks' = hooks \cup {j}
       \/ job'[j].state = "succeeded" /\ UNCHANGED hooks /\ \E e \in Execs : e[1] = j /\ att[e] = "ok"
       \/ job'[j].state = "failed" /\ UNCHANGED hooks /\ \E e \in Execs : e[1] = j /\ att[e] = "bad"
    /\ \A e \in Execs : att'[e] = att[e] \/ att'[e] \in {"claimed", "over"}

(* When one row alone changes and its end is told, every end of that step is told. *)
LEMMA OneRowTold ==
    ASSUME NEW j \in Jobs, RowTold(j) PROVE OnlyTold
<1> USE DEF RowTold
<1>1. ASSUME NEW i \in Jobs
      PROVE  /\ job'[i].state = "absent" <=> job[i].state = "absent"
             /\ job[i].state \in Ended => job'[i].state = job[i].state
  <2>1. CASE i = j
    BY <2>1
  <2>2. CASE i # j
    BY <2>2
  <2> QED BY <2>1, <2>2
<1>2. ASSUME NEW i \in Jobs, job'[i].state \in Ended, job[i].state \notin Ended
      PROVE  \/ i \in hooks'
             \/ job'[i].state = "succeeded" /\ \E e \in Execs : e[1] = i /\ att[e] = "ok"
             \/ job'[i].state = "failed" /\ \E e \in Execs : e[1] = i /\ att[e] = "bad"
  <2>1. i = j
    BY <1>2
  <2> QED BY <1>2, <2>1
<1>3. hooks \subseteq hooks' /\ \A i \in hooks' \ hooks : job'[i].state \in {"failed", "cancelled"}
  OBVIOUS
<1> QED BY <1>1, <1>2, <1>3 DEF OnlyTold

(* A job that ends is told to its owner: by a hook, or by the attempt that ends it. *)
LEMMA EndsAreTold ==
    ASSUME NEW pcs, QueueTypeOK(pcs), ClaimsCounted, ExecutingHolds, ~Late, QueueStep
    PROVE  OnlyTold
<1>0. /\ \A j \in Jobs : \A r : RowBecomes(j, r) => job'[j] = r /\ \A i \in Jobs : i # j => job'[i] = job[i]
      /\ att \in [Execs -> pcs \cup {"none", "claimed", "ok", "bad", "over"}]
      /\ hooks \subseteq Jobs
  BY DEF QueueTypeOK, RowBecomes
<1>1. ASSUME NEW j \in Jobs, Claim(j) PROVE OnlyTold
  <2>a. RowBecomes(j, [state |-> "running", tries |-> job[j].tries + 1, lost |-> job[j].lost, outcome |-> 0])
    BY <1>1, ClaimRow
  <2>1. /\ job[j].state = "queued" /\ job'[j].state = "running" /\ UNCHANGED hooks
        /\ \A i \in Jobs : i # j => job'[i] = job[i]
        /\ att' = [att EXCEPT ![<<j, job[j].tries + 1>>] = "claimed"]
    BY <1>0, <1>1, <2>a, ClaimRow
  <2>2. \A e \in Execs : att'[e] = att[e] \/ att'[e] \in {"claimed", "over"}
    BY <1>0, <2>1
  <2>3. RowTold(j)
    BY <2>1, <2>2 DEF RowTold, Ended
  <2> QED BY <2>3, OneRowTold
<1>2. ASSUME NEW j \in Jobs, Sweep(j) PROVE OnlyTold
  <2>a. \/ /\ UNCHANGED hooks
           /\ RowBecomes(j, [state |-> "queued", tries |-> job[j].tries, lost |-> 1, outcome |-> 0])
        \/ /\ hooks' = hooks \cup {j}
           /\ RowBecomes(j, [state |-> "failed", tries |-> job[j].tries, lost |-> 1, outcome |-> 0])
    BY <1>2, SweepRow
  <2>1. /\ job[j].state = "running" /\ UNCHANGED att
        /\ \A i \in Jobs : i # j => job'[i] = job[i]
        /\ \/ job'[j].state = "queued" /\ UNCHANGED hooks
           \/ job'[j].state = "failed" /\ hooks' = hooks \cup {j}
    BY <1>0, <1>2, <2>a DEF Sweep
  <2>2. RowTold(j)
    BY <2>1 DEF RowTold, Ended
  <2> QED BY <2>2, OneRowTold
<1>3. ASSUME NEW j \in Jobs, Drain(j) PROVE OnlyTold
  <2>a. RowBecomes(j, [state |-> "queued", tries |-> job[j].tries, lost |-> job[j].lost, outcome |-> 0])
    BY <1>3, DrainRow
  <2>1. /\ job[j].state = "running" /\ job'[j].state = "queued" /\ UNCHANGED hooks
        /\ \A i \in Jobs : i # j => job'[i] = job[i]
        /\ att' = [att EXCEPT ![<<j, job[j].tries>>] = "over"]
    BY <1>0, <1>3, <2>a, DrainRow
  <2>2. \A e \in Execs : att'[e] = att[e] \/ att'[e] \in {"claimed", "over"}
    BY <1>0, <2>1
  <2>3. RowTold(j)
    BY <2>1, <2>2 DEF RowTold, Ended
  <2> QED BY <2>3, OneRowTold
<1>4. ASSUME NEW j \in Jobs, Cancel(j) PROVE OnlyTold
  <2>a. RowBecomes(j, [state |-> "cancelled", tries |-> job[j].tries, lost |-> job[j].lost, outcome |-> 0])
    BY <1>4, CancelRow
  <2>1. /\ job[j].state = "queued" /\ job'[j].state = "cancelled" /\ UNCHANGED att
        /\ hooks' = hooks \cup {j} /\ \A i \in Jobs : i # j => job'[i] = job[i]
    BY <1>0, <1>4, <2>a, CancelRow
  <2>2. RowTold(j)
    BY <2>1 DEF RowTold, Ended
  <2> QED BY <2>2, OneRowTold
<1>5. ASSUME NEW e \in Execs, Report(e) PROVE OnlyTold
  <2>1. PICK s \in {"succeeded", "failed"} :
            /\ job' = Outcome(e, s)
            /\ s = "succeeded" => att[e] = "ok"
            /\ s = "failed" => att[e] = "bad"
    BY <1>5 DEF Report, Goes
  <2>2. Holds(e) /\ e[1] \in Jobs /\ UNCHANGED hooks
    BY <1>5, Pairs DEF Report, Goes, ExecutingHolds, Executing
  <2>a. RowBecomes(e[1], [state |-> s, tries |-> job[e[1]].tries, lost |-> job[e[1]].lost, outcome |-> e[2]])
    BY <2>1, <2>2, OutcomeRow
  <2>3. job[e[1]].state = "running" /\ job'[e[1]].state = s /\ \A i \in Jobs : i # e[1] => job'[i] = job[i]
    BY <1>0, <2>a, <2>2 DEF Holds
  <2>4. \A f \in Execs : att'[f] = att[f] \/ att'[f] \in {"claimed", "over"}
    BY <1>0, <1>5 DEF Report, Goes
  <2>5. RowTold(e[1])
    BY <2>1, <2>2, <2>3, <2>4 DEF RowTold, Ended
  <2> QED BY <2>5, Pairs, OneRowTold
<1>6. ASSUME NEW e \in Execs, HandlerMissing(e) PROVE OnlyTold
  <2>1. Holds(e) /\ e[1] \in Jobs /\ hooks' = hooks \cup {e[1]}
    BY <1>6, Pairs DEF HandlerMissing, Goes, ExecutingHolds, Executing
  <2>a. RowBecomes(e[1], [state |-> "failed", tries |-> job[e[1]].tries, lost |-> job[e[1]].lost, outcome |-> e[2]])
    BY <1>6, <2>1, OutcomeRow DEF HandlerMissing
  <2>2. /\ job[e[1]].state = "running" /\ job'[e[1]].state = "failed"
        /\ \A i \in Jobs : i # e[1] => job'[i] = job[i]
    BY <1>0, <2>a, <2>1 DEF Holds
  <2>3. \A f \in Execs : att'[f] = att[f] \/ att'[f] \in {"claimed", "over"}
    BY <1>0, <1>6 DEF HandlerMissing, Goes
  <2>4. RowTold(e[1])
    BY <2>1, <2>2, <2>3 DEF RowTold, Ended
  <2> QED BY <2>4, Pairs, OneRowTold
<1>7. ASSUME NEW e \in Execs, WorkerDies(e) PROVE OnlyTold
  <2>1. UNCHANGED <<job, hooks>> /\ \A f \in Execs : att'[f] = att[f] \/ att'[f] \in {"claimed", "over"}
    BY <1>0, <1>7 DEF WorkerDies
  <2> QED BY <2>1 DEF OnlyTold
<1> QED BY <1>1, <1>2, <1>3, <1>4, <1>5, <1>6, <1>7 DEF QueueStep

(* Without a fault an attempt at work and its row stay as they are, unless *)
(* its report ends the job.                                                *)
LEMMA NoFaultNoLoss ==
    ASSUME NEW pcs, QueueTypeOK(pcs), ClaimsCounted, ExecutingHolds, ~Late, QueueStep
    PROVE  /\ Faulty \/ UNCHANGED faults
           /\ UNCHANGED faults => \A e \in Execs : Executing(e) =>
                 \/ att'[e] = att[e] /\ job'[e[1]] = job[e[1]]
                 \/ att[e] \in {"ok", "bad", "claimed"} /\ job'[e[1]].state \in Ended
<1> DEFINE Kept == \A e \in Execs : Executing(e) =>
                      \/ att'[e] = att[e] /\ job'[e[1]] = job[e[1]]
                      \/ att[e] \in {"ok", "bad", "claimed"} /\ job'[e[1]].state \in Ended
<1>0. /\ faults \in Nat
      /\ \A j \in Jobs : \A r : RowBecomes(j, r) => job'[j] = r /\ \A i \in Jobs : i # j => job'[i] = job[i]
      /\ \A f \in Execs : \A pc : att' = [att EXCEPT ![f] = pc] => \A e \in Execs : e # f => att'[e] = att[e]
  BY Numbers DEF QueueTypeOK, RowBecomes
<1>a. \A e \in Execs : Executing(e) => /\ e[1] \in Jobs /\ job[e[1]].state = "running"
                                       /\ e = <<e[1], job[e[1]].tries>> /\ att[e] # "over"
  BY Pairs DEF ExecutingHolds, Holds, Executing
<1>1. ASSUME NEW j \in Jobs, \A i \in Jobs : i # j => job'[i] = job[i],
             \A e \in Execs : Executing(e) => e[1] # j /\ att'[e] = att[e]
      PROVE  Kept
  BY <1>1, <1>a
<1>2. ASSUME NEW j \in Jobs, Claim(j) PROVE UNCHANGED faults /\ Kept
  <2>1. /\ job[j].state = "queued" /\ \A i \in Jobs : i # j => job'[i] = job[i]
        /\ <<j, job[j].tries + 1>> \in Execs /\ att' = [att EXCEPT ![<<j, job[j].tries + 1>>] = "claimed"]
        /\ UNCHANGED faults
    BY <1>0, <1>2, ClaimRow, Pairs
  <2>2. ASSUME NEW e \in Execs, Executing(e) PROVE e[1] # j /\ att'[e] = att[e]
    <3>1. e[1] # j
      BY <1>a, <2>1, <2>2
    <3>2. e # <<j, job[j].tries + 1>>
      BY <3>1
    <3> QED BY <1>0, <2>1, <3>1, <3>2
  <2> QED BY <1>1, <2>1, <2>2
<1>3. ASSUME NEW j \in Jobs, Sweep(j) PROVE UNCHANGED faults /\ Kept
  <2>1. /\ att[<<j, job[j].tries>>] = "over" /\ UNCHANGED <<att, faults>>
        /\ \A i \in Jobs : i # j => job'[i] = job[i]
    BY <1>0, <1>3, SweepRow
  <2>2. \A e \in Execs : Executing(e) => e[1] # j /\ att'[e] = att[e]
    BY <1>a, <2>1
  <2> QED BY <1>1, <2>1, <2>2
<1>4. ASSUME NEW j \in Jobs, Cancel(j) PROVE UNCHANGED faults /\ Kept
  <2>1. /\ job[j].state = "queued" /\ UNCHANGED <<att, faults>>
        /\ \A i \in Jobs : i # j => job'[i] = job[i]
    BY <1>0, <1>4, CancelRow
  <2>2. \A e \in Execs : Executing(e) => e[1] # j /\ att'[e] = att[e]
    BY <1>a, <2>1
  <2> QED BY <1>1, <2>1, <2>2
<1>5. ASSUME NEW f \in Execs, Report(f) \/ HandlerMissing(f) PROVE UNCHANGED faults /\ Kept
  <2>1. PICK s \in {"succeeded", "failed"} :
            /\ att[f] \in {"ok", "bad", "claimed"} /\ att' = [att EXCEPT ![f] = "over"]
            /\ job' = Outcome(f, s) /\ UNCHANGED faults
    BY <1>5 DEF Report, HandlerMissing, Goes
  <2>2. Executing(f) /\ Holds(f) /\ f[1] \in Jobs
    BY <1>a, <2>1, Pairs DEF Executing, ExecutingHolds
  <2>a. RowBecomes(f[1], [state |-> s, tries |-> job[f[1]].tries, lost |-> job[f[1]].lost, outcome |-> f[2]])
    BY <2>1, <2>2, OutcomeRow
  <2>3. /\ job'[f[1]].state = s /\ \A i \in Jobs : i # f[1] => job'[i] = job[i]
    BY <1>0, <2>2, <2>a
  <2>4. ASSUME NEW e \in Execs, Executing(e)
        PROVE  \/ att'[e] = att[e] /\ job'[e[1]] = job[e[1]]
               \/ att[e] \in {"ok", "bad", "claimed"} /\ job'[e[1]].state \in Ended
    <3>1. CASE e = f
      BY <2>1, <2>3, <3>1 DEF Ended
    <3>2. CASE e # f
      BY <1>0, <1>a, <2>1, <2>2, <2>3, <2>4, <3>2
    <3> QED BY <3>1, <3>2
  <2> QED BY <2>1, <2>4
<1>6. ASSUME Faulty PROVE ~UNCHANGED faults
  BY <1>0, <1>6 DEF Faulty
<1>7. ASSUME NEW j \in Jobs, Drain(j) PROVE Faulty
  BY <1>7 DEF Drain
<1>8. ASSUME NEW e \in Execs, WorkerDies(e) PROVE Faulty
  BY <1>8 DEF WorkerDies
<1> QED BY <1>2, <1>3, <1>4, <1>5, <1>6, <1>7, <1>8 DEF QueueStep

---------------------------------------------------------------------------
(* Attempts that may outlive their claim.                                  *)

(* An attempt that has begun was claimed.                                  *)
Begun == \A e \in Execs : att[e] # "none" => e[2] <= job[e[1]].tries

(* An attempt goes on, ends, or begins with its claim.                     *)
Begins == \A e \in Execs : att'[e] = att[e] \/ att'[e] = "over" \/ (att[e] = "none" /\ att'[e] = "claimed")

(* A job succeeds with the report of one of its attempts.                  *)
SuccessReported ==
    \A j \in Jobs : job'[j].state = "succeeded" =>
        \/ job'[j] = job[j]
        \/ \E e \in Execs : e[1] = j /\ att[e] = "ok" /\ job'[j].outcome = e[2]

(* The claims of a job only grow in number.                                *)
ClaimsGrow == \A j \in Jobs : job'[j].tries >= job[j].tries

(* Claims are never taken back. *)
LEMMA RowsGrow ==
    ASSUME NEW pcs, QueueTypeOK(pcs), ClaimsCounted, QueueStep
    PROVE  ClaimsGrow
<1>0. \A j \in Jobs : \A r : RowBecomes(j, r) => job'[j] = r /\ \A i \in Jobs : i # j => job'[i] = job[i]
  BY DEF QueueTypeOK, RowBecomes
<1>1. \A j \in Jobs : job[j].tries \in Nat
  BY Numbers
<1>2. ASSUME NEW j \in Jobs, \A i \in Jobs : i # j => job'[i] = job[i], job'[j].tries \in {job[j].tries, job[j].tries + 1}
      PROVE  ClaimsGrow
  <2>1. ASSUME NEW i \in Jobs PROVE job'[i].tries >= job[i].tries
    <3>1. CASE i = j
      <4>1. job'[i].tries = job[i].tries \/ job'[i].tries = job[i].tries + 1
        BY <1>2, <3>1
      <4> QED BY <1>1, <4>1
    <3>2. CASE i # j
      <4>1. job'[i].tries = job[i].tries
        BY <1>2, <3>2
      <4> QED BY <1>1, <4>1
    <3> QED BY <3>1, <3>2
  <2> QED BY <2>1 DEF ClaimsGrow
<1>3. ASSUME UNCHANGED job PROVE ClaimsGrow
  BY <1>1, <1>3 DEF ClaimsGrow
<1>4. ASSUME NEW j \in Jobs, Claim(j) PROVE ClaimsGrow
  <2>1. RowBecomes(j, [state |-> "running", tries |-> job[j].tries + 1, lost |-> job[j].lost, outcome |-> 0])
    BY <1>4, ClaimRow
  <2> QED BY <1>0, <1>2, <2>1
<1>5. ASSUME NEW j \in Jobs, Sweep(j) PROVE ClaimsGrow
  <2>1. PICK s : RowBecomes(j, [state |-> s, tries |-> job[j].tries, lost |-> 1, outcome |-> 0])
    BY <1>5, SweepRow
  <2> QED BY <1>0, <1>2, <2>1
<1>6. ASSUME NEW j \in Jobs, Drain(j) PROVE ClaimsGrow
  <2>1. RowBecomes(j, [state |-> "queued", tries |-> job[j].tries, lost |-> job[j].lost, outcome |-> 0])
    BY <1>6, DrainRow
  <2> QED BY <1>0, <1>2, <2>1
<1>7. ASSUME NEW j \in Jobs, Cancel(j) PROVE ClaimsGrow
  <2>1. RowBecomes(j, [state |-> "cancelled", tries |-> job[j].tries, lost |-> job[j].lost, outcome |-> 0])
    BY <1>7, CancelRow
  <2> QED BY <1>0, <1>2, <2>1
<1>8. ASSUME NEW e \in Execs, Report(e) \/ HandlerMissing(e) PROVE ClaimsGrow
  <2>1. PICK s : job' = Outcome(e, s)
    BY <1>8 DEF Report, HandlerMissing
  <2>2. CASE job' = job
    BY <1>3, <2>2
  <2>3. CASE RowBecomes(e[1], [state |-> s, tries |-> job[e[1]].tries, lost |-> job[e[1]].lost, outcome |-> e[2]])
    BY <1>0, <1>2, <2>3, Pairs
  <2> QED BY <2>1, <2>2, <2>3, OutcomeRow
<1>9. ASSUME NEW e \in Execs, WorkerDies(e) PROVE ClaimsGrow
  BY <1>3, <1>9 DEF WorkerDies
<1> QED BY <1>4, <1>5, <1>6, <1>7, <1>8, <1>9 DEF QueueStep

(* Whatever the queue does, an attempt begins only when it is claimed.     *)
LEMMA AttemptsBegin ==
    ASSUME NEW pcs, QueueTypeOK(pcs), ClaimsCounted, Begun, QueueStep
    PROVE  Begins /\ Begun'
<1>0. /\ att \in [Execs -> pcs \cup {"none", "claimed", "ok", "bad", "over"}]
      /\ \A j \in Jobs : \A r : RowBecomes(j, r) => job'[j] = r
      /\ \A j \in Jobs : job[j].tries \in Nat /\ job'[j].tries >= job[j].tries /\ job'[j].tries \in Nat
  <2>1. QueueTypeOK(pcs)' /\ ClaimsGrow
    BY QueueTypeStep, RowsGrow
  <2>2. \A j \in Jobs : job[j].tries \in Nat /\ job'[j].tries \in Nat
    BY <2>1, QueueClientAssumption DEF QueueTypeOK, JobRow, Tries
  <2> QED BY <2>1, <2>2 DEF QueueTypeOK, RowBecomes, ClaimsGrow
<1>a. \A e \in Execs : e[1] \in Jobs /\ e[2] \in Tries /\ e[2] \in Nat
  BY Pairs DEF Tries
(* An attempt other than c is where it was, or over.                       *)
<1>1. ASSUME NEW c \in Execs, \A e \in Execs \ {c} : att'[e] = att[e] \/ (att[e] # "none" /\ att'[e] = "over"),
             c[2] <= job'[c[1]].tries
      PROVE  Begun'
  <2>1. ASSUME NEW e \in Execs, att'[e] # "none" PROVE e[2] <= job'[e[1]].tries
    <3>1. CASE e = c
      BY <1>1, <3>1
    <3>2. CASE e # c
      <4>1. att[e] # "none"
        BY <1>1, <2>1, <3>2
      <4>2. e[2] <= job[e[1]].tries
        BY <4>1 DEF Begun
      <4> QED BY <1>0, <1>a, <4>2
    <3> QED BY <3>1, <3>2
  <2> QED BY <2>1 DEF Begun
<1>2. ASSUME NEW e \in Execs, att[e] # "none" PROVE e[2] <= job'[e[1]].tries
  <2>1. e[2] <= job[e[1]].tries
    BY <1>2 DEF Begun
  <2> QED BY <1>0, <1>a, <2>1
<1>3. ASSUME UNCHANGED att PROVE Begins /\ Begun'
  BY <1>2, <1>3 DEF Begins, Begun
<1>4. ASSUME NEW j \in Jobs, Claim(j) PROVE Begins /\ Begun'
  <2> DEFINE c == <<j, job[j].tries + 1>>
  <2>1. /\ c \in Execs /\ att' = [att EXCEPT ![c] = "claimed"]
        /\ job'[j].tries = job[j].tries + 1
    <3>1. RowBecomes(j, [state |-> "running", tries |-> job[j].tries + 1, lost |-> job[j].lost, outcome |-> 0])
      BY <1>4, ClaimRow
    <3> QED BY <1>0, <1>4, <3>1, ClaimRow, Pairs
  <2>2. att[c] = "none"
    BY <1>0, <2>1 DEF Begun
  <2>3. att'[c] = "claimed" /\ \A e \in Execs \ {c} : att'[e] = att[e]
    BY <1>0, <2>1
  <2>4. Begins
    BY <2>2, <2>3 DEF Begins
  <2>5. c[2] <= job'[c[1]].tries
    BY <1>0, <2>1
  <2> QED BY <1>1, <2>1, <2>3, <2>4, <2>5
<1>5. ASSUME NEW e \in Execs, att[e] # "none", att' = [att EXCEPT ![e] = "over"] PROVE Begins /\ Begun'
  <2>1. att'[e] = "over" /\ \A f \in Execs \ {e} : att'[f] = att[f]
    BY <1>0, <1>5
  <2>2. Begins
    BY <2>1 DEF Begins
  <2> QED BY <1>1, <1>2, <1>5, <2>1, <2>2
<1>6. ASSUME NEW j \in Jobs, Sweep(j) \/ Cancel(j) PROVE Begins /\ Begun'
  BY <1>3, <1>6 DEF Sweep, Cancel
<1>7. ASSUME NEW j \in Jobs, Drain(j) PROVE Begins /\ Begun'
  <2> DEFINE c == <<j, job[j].tries>>
  <2>1. att' = att \/ att' = [att EXCEPT ![c] = "over"]
    BY <1>7 DEF Drain
  <2>2. ASSUME att' = [att EXCEPT ![c] = "over"] PROVE Begins /\ Begun'
    <3>1. \A e \in Execs : att'[e] = att[e] \/ (e = c /\ att'[e] = "over")
      BY <1>0, <2>2
    <3>2. Begins
      BY <3>1 DEF Begins
    <3>3. \A e \in Execs : e = c => e[2] <= job'[e[1]].tries
      BY <1>0, <1>a
    <3>4. ASSUME NEW e \in Execs, att'[e] # "none" PROVE e[2] <= job'[e[1]].tries
      BY <1>2, <3>1, <3>3, <3>4
    <3> QED BY <3>2, <3>4 DEF Begun
  <2> QED BY <1>3, <2>1, <2>2
<1>8. ASSUME NEW e \in Execs, Report(e) \/ HandlerMissing(e) \/ WorkerDies(e) PROVE Begins /\ Begun'
  <2>1. att[e] # "none" /\ att' = [att EXCEPT ![e] = "over"]
    BY <1>8 DEF Report, HandlerMissing, WorkerDies, Goes, Executing
  <2> QED BY <1>5, <2>1
<1> QED BY <1>4, <1>6, <1>7, <1>8 DEF QueueStep

(* A job is done only by the report of an attempt that succeeded. *)
LEMMA SuccessIsReported ==
    ASSUME NEW pcs, QueueTypeOK(pcs), ClaimsCounted, QueueStep
    PROVE  SuccessReported
<1>0. \A j \in Jobs : \A r : RowBecomes(j, r) => job'[j] = r /\ \A i \in Jobs : i # j => job'[i] = job[i]
  BY DEF QueueTypeOK, RowBecomes
<1>1. ASSUME NEW j \in Jobs, \A i \in Jobs : i # j => job'[i] = job[i], job'[j].state # "succeeded"
      PROVE  SuccessReported
  BY <1>1 DEF SuccessReported
<1>2. ASSUME NEW j \in Jobs, Claim(j) PROVE SuccessReported
  <2>1. RowBecomes(j, [state |-> "running", tries |-> job[j].tries + 1, lost |-> job[j].lost, outcome |-> 0])
    BY <1>2, ClaimRow
  <2> QED BY <1>0, <1>1, <2>1
<1>3. ASSUME NEW j \in Jobs, Sweep(j) PROVE SuccessReported
  <2>1. PICK s \in {"queued", "failed"} :
            RowBecomes(j, [state |-> s, tries |-> job[j].tries, lost |-> 1, outcome |-> 0])
    BY <1>3, SweepRow
  <2> QED BY <1>0, <1>1, <2>1
<1>4. ASSUME NEW j \in Jobs, Drain(j) PROVE SuccessReported
  <2>1. RowBecomes(j, [state |-> "queued", tries |-> job[j].tries, lost |-> job[j].lost, outcome |-> 0])
    BY <1>4, DrainRow
  <2> QED BY <1>0, <1>1, <2>1
<1>5. ASSUME NEW j \in Jobs, Cancel(j) PROVE SuccessReported
  <2>1. RowBecomes(j, [state |-> "cancelled", tries |-> job[j].tries, lost |-> job[j].lost, outcome |-> 0])
    BY <1>5, CancelRow
  <2> QED BY <1>0, <1>1, <2>1
<1>6. ASSUME NEW e \in Execs, Report(e) \/ HandlerMissing(e) PROVE SuccessReported
  <2>1. PICK s \in {"succeeded", "failed"} : job' = Outcome(e, s) /\ (s = "succeeded" => att[e] = "ok")
    BY <1>6 DEF Report, HandlerMissing, Goes
  <2>2. CASE job' = job
    BY <2>2 DEF SuccessReported
  <2>3. CASE RowBecomes(e[1], [state |-> s, tries |-> job[e[1]].tries, lost |-> job[e[1]].lost, outcome |-> e[2]])
    <3>1. /\ job'[e[1]].state = s /\ job'[e[1]].outcome = e[2] /\ e[1] \in Jobs
          /\ \A i \in Jobs : i # e[1] => job'[i] = job[i]
      BY <1>0, <2>3, Pairs
    <3> QED BY <2>1, <3>1 DEF SuccessReported
  <2> QED BY <2>1, <2>2, <2>3, OutcomeRow
<1>7. ASSUME NEW e \in Execs, WorkerDies(e) PROVE SuccessReported
  BY <1>7 DEF WorkerDies, SuccessReported
<1> QED BY <1>2, <1>3, <1>4, <1>5, <1>6, <1>7 DEF QueueStep
====================================================================================
