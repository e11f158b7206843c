----------------------------- MODULE JobQueueProofs -----------------------------
(***************************************************************************)
(* Proofs about JobQueue for any number of jobs, workers and faults, any   *)
(* settings, models and footprints, and about Submission for any number of *)
(* requests, caps and saves.                                               *)
(***************************************************************************)
EXTENDS JobQueue, Submission, TLAPS, FiniteSetTheorems

(* The row updates keep the type of a row. *)
LEMMA RowUpdates ==
    ASSUME NEW r \in Row, NEW t \in Nat
    PROVE  /\ GivenBack(r) \in Row
           /\ Swept(r) \in Row
           /\ Claimed(r, t) \in Row
           /\ FailedBy(r, t) \in Row
           /\ \A st \in RowStates : [r EXCEPT !.state = st] \in Row
           /\ \A b \in BOOLEAN : [r EXCEPT !.stale = b] \in Row
           /\ [r EXCEPT !.checkpoint = t] \in Row
           /\ [r EXCEPT !.state = "succeeded", !.outcome = t, !.checkpoint = 0] \in Row
BY DEF Row, RowStates, TerminalStates, GivenBack, Swept, Claimed, FailedBy

(* The columns the row updates leave behind. *)
LEMMA RowFields ==
    ASSUME NEW r \in Row, NEW t \in Nat
    PROVE  /\ LET g == GivenBack(r)
              IN  /\ g.state = "queued" /\ g.attempts = r.attempts
                  /\ g.outcome = r.outcome /\ g.checkpoint = r.checkpoint
           /\ LET f == FailedBy(r, t)
              IN  /\ f.state = "failed" /\ f.attempts = r.attempts
                  /\ f.outcome = t /\ f.checkpoint = r.checkpoint
           /\ LET c == Claimed(r, t)
              IN  /\ c.state = "running" /\ c.token = t /\ c.attempts = r.attempts
                  /\ c.outcome = r.outcome /\ c.checkpoint = r.checkpoint
           /\ LET s == Swept(r)
              IN  /\ r.attempts = 0 => s.state = "queued"
                  /\ r.attempts = 1 => s.state = "failed"
                  /\ s.attempts = 1
                  /\ s.outcome = r.outcome /\ s.checkpoint = r.checkpoint
           /\ LET d == [r EXCEPT !.state = "succeeded", !.outcome = t, !.checkpoint = 0]
              IN  /\ d.state = "succeeded" /\ d.attempts = r.attempts
                  /\ d.outcome = t /\ d.checkpoint = 0
           /\ LET p == [r EXCEPT !.checkpoint = t]
              IN  /\ p.state = r.state /\ p.token = r.token /\ p.attempts = r.attempts
                  /\ p.outcome = r.outcome /\ p.checkpoint = t
<1>1. GivenBack(r) \in Row
  BY RowUpdates
<1> QED BY <1>1 DEF Row, GivenBack, Swept, Claimed, FailedBy

(* What an admission picks are rows the transaction reads as queued. *)
LEMMA AdmittedAreQueued ==
    ASSUME TypeOK, NEW w \in Workers
    PROVE  /\ AdmittedRows(w) \subseteq QueuedRows(w)
           /\ QueuedRows(w) \subseteq Jobs
<1>1. QueuedRows(w) \subseteq Jobs
  BY DEF QueuedRows, In, TypeOK
<1>2. ASSUME NEW js \in SUBSET Jobs, NEW j \in {c.job_id : c \in SchedCandidates(js)}
      PROVE  j \in js
  BY <1>2 DEF SchedCandidates, SchedCandidate
<1>3. CandidateRows(w) \subseteq QueuedRows(w)
  <2>1. CandidateRows(w) \subseteq {c.job_id : c \in SchedCandidates(QueuedRows(w))}
    BY DEF CandidateRows, CandidateWindow
  <2> QED BY <1>1, <1>2, <2>1
<1>4. AdmittedRows(w) \subseteq {c.job_id : c \in SchedCandidates(CandidateRows(w))}
  BY DEF AdmittedRows, PlanAdmissions
<1> QED BY <1>1, <1>2, <1>3, <1>4

----------------------------------------------------------------------------
(* Type correctness.                                                       *)

LEMMA TypeInit == Init => TypeOK
BY QueueAssumption DEF Init, TypeOK, Row, RowStates, Attempt, Hook, Places, NoTx

(* A step of a web process keeps the types. *)
LEMMA TypeWeb == TypeOK /\ WebStep => TypeOK'
<1> SUFFICES ASSUME TypeOK, WebStep PROVE TypeOK'
  OBVIOUS
<1> USE DEF TypeOK
<1>1. ASSUME NEW j \in Jobs, Enqueue(j) PROVE TypeOK'
  <2>1. \A i \in Jobs : /\ row[i] \in Row
                        /\ [row[i] EXCEPT !.state = "queued"] \in Row
                        /\ [row[i] EXCEPT !.state = "pruned"] \in Row
    BY RowUpdates DEF RowStates
  <2>2. row' \in [Jobs -> Row]
    BY <1>1, <2>1 DEF Enqueue
  <2> QED BY <1>1, <2>2 DEF Enqueue, procVars, hookVars
<1>2. ASSUME NEW j \in Jobs, Cancel(j) PROVE TypeOK'
  <2>1. row' \in [Jobs -> Row]
    BY <1>2, RowUpdates DEF Cancel, RowStates, TerminalStates
  <2>2. hookq' \subseteq Hook
    BY <1>2 DEF Cancel, Hook
  <2> QED BY <1>2, <2>1, <2>2 DEF Cancel, procVars
<1>3. ASSUME NEW s \in SettingsChoices, SaveSettings(s) PROVE TypeOK'
  BY <1>3 DEF SaveSettings, rowVars, procVars, hookVars
<1>4. ASSUME NEW h \in hookq, RunHook(h) PROVE TypeOK'
  <2>1. h.job \in Jobs /\ h.outcome \in {"failed", "cancelled"}
    BY DEF Hook
  <2> QED BY <1>4, <2>1 DEF RunHook, rowVars, procVars
<1>5. ASSUME WebCrash PROVE TypeOK'
  BY <1>5, QueueAssumption DEF WebCrash, rowVars, procVars
<1> QED BY <1>1, <1>2, <1>3, <1>4, <1>5 DEF WebStep

(* An UPDATE of a held row. *)
LEMMA TypeUpdateIfHeld ==
    ASSUME TypeOK, NEW j \in Jobs, NEW t \in Nat, NEW r \in Row, UpdateIfHeld(j, t, r)
    PROVE  row' \in [Jobs -> Row]
BY DEF TypeOK, UpdateIfHeld

(* A step of a worker's main thread, or its death, keeps the types. *)
LEMMA TypeWorker ==
    ASSUME TypeOK, NEW w \in Workers, WorkerStep(w)
    PROVE  TypeOK'
<1> USE DEF TypeOK
<1>1. CASE Start(w)
  <2>1. settings.cap \in Nat
    BY QueueAssumption
  <2> QED BY <1>1, <2>1 DEF Start, rowVars, hookVars, Places
<1>2. CASE Signal(w)
  BY <1>2, QueueAssumption DEF Signal, rowVars, hookVars
<1>3. CASE Heartbeat(w)
  <2>1. \A i \in Jobs : row[i] \in Row /\ [row[i] EXCEPT !.stale = FALSE] \in Row
    BY RowUpdates
  <2>2. row' \in [Jobs -> Row]
    BY <1>3, <2>1 DEF Heartbeat
  <2> QED BY <1>3, <2>2 DEF Heartbeat, procVars, hookVars
<1>4. CASE TickBegin(w)
  BY <1>4 DEF TickBegin, rowVars, hookVars, Places
<1>5. CASE LockBusy(w)
  BY <1>5 DEF LockBusy, rowVars, hookVars, Places
<1>6. CASE ClaimBegin(w)
  BY <1>6 DEF ClaimBegin, rowVars, hookVars, Places, In
<1>7. CASE ClaimAdmit(w)
  <2> DEFINE swept == [j \in Jobs |-> IF j \in tx[w].swept THEN Swept(row[j]) ELSE row[j]]
             admitted == AdmittedRows(w)
  <2>1. admitted \subseteq Jobs
    BY AdmittedAreQueued
  <2>2. ASSUME NEW j \in Jobs
        PROVE  swept[j] \in Row /\ Claimed(swept[j], claims[j] + 1) \in Row
    <3>1. row[j] \in Row /\ claims[j] + 1 \in Nat
      OBVIOUS
    <3>2. Swept(row[j]) \in Row
      BY <3>1, RowUpdates
    <3>3. swept[j] \in Row
      BY <3>1, <3>2
    <3> HIDE DEF swept
    <3> QED BY <3>1, <3>3, RowUpdates
  <2>3. row' \in [Jobs -> Row]
    BY <1>7, <2>2 DEF ClaimAdmit
  <2>4. claims' \in [Jobs -> Nat]
    BY <1>7 DEF ClaimAdmit
  <2>5. exec' \subseteq Attempt
    <3>1. \A j \in admitted : NewAttempt(w, j, swept[j]) \in Attempt
      BY <2>1, <2>2 DEF NewAttempt, Attempt, Row
    <3> QED BY <1>7, <3>1 DEF ClaimAdmit
  <2>6. active' \in [Workers -> [Jobs -> Nat]]
    BY <1>7 DEF ClaimAdmit, Registered
  <2>7. hookq' \subseteq Hook
    <3>1. \A j \in Jobs : [job |-> j, outcome |-> "failed", by |-> w] \in Hook
      BY DEF Hook
    <3>2. tx[w].swept \subseteq Jobs
      OBVIOUS
    <3> QED BY <1>7, <3>1, <3>2 DEF ClaimAdmit
  <2>8. pc' \in [Workers -> Places] /\ tx' \in [Workers -> [swept : SUBSET Jobs, running : SUBSET Jobs]]
    BY <1>7 DEF ClaimAdmit, Places, NoTx
  <2> HIDE DEF swept, admitted
  <2> QED BY <1>7, <2>3, <2>4, <2>5, <2>6, <2>7, <2>8 DEF ClaimAdmit
<1>8. CASE ClaimAsserts(w)
  BY <1>8 DEF ClaimAsserts, AbandonTick, NoTx, rowVars, hookVars, Places
<1>9. CASE TickRaises(w)
  BY <1>9, QueueAssumption DEF TickRaises, AbandonTick, NoTx, rowVars, hookVars, Places
<1>10. CASE Launch(w)
  <2>1. ASSUME NEW e \in Unlaunched(w) PROVE [e EXCEPT !.stage = "submitted"] \in Attempt
    <3>1. e \in Attempt
      BY DEF Unlaunched, AttemptsOf
    <3> QED BY <3>1 DEF Attempt
  <2>2. exec' \subseteq Attempt
    BY <1>10, <2>1 DEF Launch
  <2> QED BY <1>10, <2>2 DEF Launch, rowVars, hookVars, Places
<1>11. CASE Unlaunch(w)
  <2>1. \A e \in Unlaunched(w) : e.job \in Jobs /\ e.token \in Nat
    BY DEF Unlaunched, AttemptsOf, Attempt
  <2>2. todo' \in [Workers -> SUBSET (Jobs \X Nat)]
    BY <1>11, <2>1 DEF Unlaunch
  <2>3. active' \in [Workers -> [Jobs -> Nat]]
    BY <1>11 DEF Unlaunch
  <2> QED BY <1>11, <2>2, <2>3 DEF Unlaunch, rowVars, hookVars, Places
<1>12. CASE UnlaunchDone(w)
  BY <1>12 DEF UnlaunchDone, rowVars, hookVars, Places
<1>13. ASSUME NEW d \in todo[w], GiveBack(w, d[1], d[2]) PROVE TypeOK'
  <2>1. d[1] \in Jobs /\ d[2] \in Nat
    OBVIOUS
  <2>2. row' \in [Jobs -> Row]
    BY <1>13, <2>1, RowUpdates, TypeUpdateIfHeld DEF GiveBack
  <2> QED BY <1>13, <2>2 DEF GiveBack, hookVars
<1>14. CASE StopLoop(w)
  BY <1>14 DEF StopLoop, rowVars, hookVars, Places
<1>15. CASE DrainTimeout(w)
  <2>1. \A e \in Inflight(w) : e.job \in Jobs /\ e.token \in Nat
    BY DEF Inflight, AttemptsOf, Attempt
  <2>2. todo' \in [Workers -> SUBSET (Jobs \X Nat)]
    BY <1>15, <2>1 DEF DrainTimeout
  <2> QED BY <1>15, <2>2 DEF DrainTimeout, rowVars, hookVars, Places
<1>16. CASE Exit(w)
  BY <1>16 DEF Exit, Dies, NoTx, rowVars, Places
<1>17. CASE Crash(w)
  BY <1>17, QueueAssumption DEF Crash, Dies, NoTx, rowVars, Places
<1> QED
  BY <1>1, <1>2, <1>3, <1>4, <1>5, <1>6, <1>7, <1>8, <1>9, <1>10, <1>11, <1>12,
     <1>13, <1>14, <1>15, <1>16, <1>17 DEF WorkerStep

(* One attempt changes stage. *)
LEMMA TypeBecomes ==
    ASSUME TypeOK, NEW e \in exec,
           NEW stage \in {"claimed", "submitted", "handler", "unresolved", "written"},
           Becomes(e, stage)
    PROVE  exec' \subseteq Attempt
BY DEF TypeOK, Becomes, Attempt

(* A step of a job's thread keeps the types. *)
LEMMA TypeThread ==
    ASSUME TypeOK, NEW e \in exec, ThreadStep(e)
    PROVE  TypeOK'
<1>0. e.job \in Jobs /\ e.token \in Nat /\ e.worker \in Workers
  BY DEF TypeOK, Attempt
<1>1. row[e.job] \in Row
  BY <1>0 DEF TypeOK
<1>2. CASE ExecStart(e)
  <2>1. exec' \subseteq Attempt
    BY <1>2, TypeBecomes DEF ExecStart
  <2> QED BY <1>2, <2>1 DEF TypeOK, ExecStart, rowVars, procVars, hookVars
<1>3. CASE ResolveFails(e)
  <2>1. exec' \subseteq Attempt
    BY <1>3, TypeBecomes DEF ResolveFails
  <2>2. row' \in [Jobs -> Row]
    BY <1>0, <1>1, <1>3, RowUpdates, TypeUpdateIfHeld DEF ResolveFails
  <2> QED BY <1>3, <2>1, <2>2 DEF TypeOK, ResolveFails, procVars, hookVars
<1>4. CASE ThreadHook(e)
  <2>1. exec' \subseteq Attempt
    BY <1>4, TypeBecomes DEF ThreadHook
  <2> QED BY <1>0, <1>4, <2>1 DEF TypeOK, ThreadHook, rowVars, procVars
<1>5. CASE Checkpoint(e)
  <2>1. row' \in [Jobs -> Row]
    BY <1>0, <1>1, <1>5, RowUpdates, TypeUpdateIfHeld DEF Checkpoint
  <2> QED BY <1>5, <2>1 DEF TypeOK, Checkpoint, procVars, hookVars
<1>6. CASE Succeed(e)
  <2>1. exec' \subseteq Attempt
    BY <1>6, TypeBecomes DEF Succeed
  <2>2. row' \in [Jobs -> Row]
    BY <1>0, <1>1, <1>6, RowUpdates, TypeUpdateIfHeld DEF Succeed
  <2> QED BY <1>6, <2>1, <2>2 DEF TypeOK, Succeed, procVars, hookVars
<1>7. CASE Fail(e)
  <2>1. exec' \subseteq Attempt
    BY <1>7, TypeBecomes DEF Fail
  <2>2. row' \in [Jobs -> Row]
    BY <1>0, <1>1, <1>7, RowUpdates, TypeUpdateIfHeld DEF Fail
  <2> QED BY <1>7, <2>1, <2>2 DEF TypeOK, Fail, procVars, hookVars
<1>8. CASE WritebackLost(e) \/ Finally(e)
  <2>1. LeavesPool(e)
    BY <1>8 DEF WritebackLost, Finally
  <2>2. active' \in [Workers -> [Jobs -> Nat]] /\ exec' \subseteq Attempt
    BY <1>0, <2>1 DEF TypeOK, LeavesPool
  <2>3. foot' \in [Keys -> Nat \cup {None}]
    BY <1>8, QueueAssumption DEF TypeOK, WritebackLost, Finally
  <2>4. faults' \in 0..MaxFaults
    BY <1>8, QueueAssumption DEF TypeOK, WritebackLost, Finally
  <2> QED
    BY <1>8, <2>2, <2>3, <2>4 DEF TypeOK, WritebackLost, Finally, rowVars, hookVars
<1> QED
  BY <1>2, <1>3, <1>4, <1>5, <1>6, <1>7, <1>8 DEF ThreadStep

(* Every step keeps the types. *)
LEMMA TypeNext == TypeOK /\ [Next]_vars => TypeOK'
<1> SUFFICES ASSUME TypeOK, [Next]_vars PROVE TypeOK'
  OBVIOUS
<1>1. ASSUME NEW j \in Jobs, GoStale(j) PROVE TypeOK'
  <2>1. row' \in [Jobs -> Row]
    BY <1>1, RowUpdates DEF GoStale, TypeOK
  <2> QED BY <1>1, <2>1 DEF GoStale, TypeOK, procVars, hookVars
<1>2. CASE UNCHANGED vars
  BY <1>2 DEF TypeOK, vars
<1> QED BY <1>1, <1>2, TypeWeb, TypeWorker, TypeThread DEF Next

(* Rows, processes, attempts and hooks keep their shape whatever is          *)
(* interleaved: in particular a job's `attempts` never passes 1.             *)
THEOREM TypeCorrect == Spec => []TypeOK
BY TypeInit, TypeNext, PTL DEF Spec

----------------------------------------------------------------------------
(* Fencing.  Every step of the system changes a row in one of the ways      *)
(* below; the invariant, the refinement and the checkpoint property are     *)
(* then facts about one row.                                                *)

SameClaims(j) == claims'[j] = claims[j]

Untouched(j) == row'[j] = row[j] /\ SameClaims(j)

\* Heartbeat, or the lack of one.
Beaten(j) ==
    /\ SameClaims(j)
    /\ \/ row'[j] = [row[j] EXCEPT !.stale = FALSE] /\ Unlocked(j)
       \/ row'[j] = [row[j] EXCEPT !.stale = TRUE] /\ (TimelyHeartbeats => Abandoned(j))

Inserted(j) ==
    /\ row[j].state = "absent"
    /\ row'[j] = [row[j] EXCEPT !.state = "queued"]
    /\ SameClaims(j)

Deleted(j) ==
    /\ row[j].state \in TerminalStates
    /\ row'[j] = [row[j] EXCEPT !.state = "pruned"]
    /\ SameClaims(j)

Withdrawn(j) ==
    /\ row[j].state = "queued"
    /\ row'[j] = [row[j] EXCEPT !.state = "cancelled"]
    /\ SameClaims(j)

\* A requeue loop still has the claim that holds the row; its attempt is over.
ToGiveBack(j) == \E w \in Workers : <<j, row[j].token>> \in todo[w]

AttemptOver(j) ==
    \E e \in exec : /\ e.job = j
                    /\ e.token = row[j].token
                    /\ Becomes(e, "unresolved") \/ Becomes(e, "written")

\* The row is running and no sweep has locked it; the writer holds its token.
WrittenByHolder(j) ==
    /\ row[j].state = "running"
    /\ Unlocked(j)
    /\ SameClaims(j)
    /\ \/ row'[j] = GivenBack(row[j]) /\ ToGiveBack(j)
       \/ row'[j] = FailedBy(row[j], row[j].token) /\ AttemptOver(j)
       \/ row'[j] = [row[j] EXCEPT !.state = "succeeded", !.outcome = row[j].token,
                                   !.checkpoint = 0]
             /\ AttemptOver(j)
       \/ row'[j] = [row[j] EXCEPT !.checkpoint = row[j].token]
             /\ row[j].checkpoint # row[j].token

\* The admission transaction of worker w commits.
Committed(w, j) ==
    /\ pc[w] = "tx"
    /\ tx' = [tx EXCEPT ![w] = NoTx]
    /\ \/ /\ j \notin tx[w].swept
          /\ row[j].state = "queued"
          /\ row'[j] = Claimed(row[j], claims[j] + 1)
          /\ claims'[j] = claims[j] + 1
       \/ /\ j \in tx[w].swept
          /\ row[j].attempts = 0 \/ row[j].state = "queued"
          /\ row'[j] = Claimed(Swept(row[j]), claims[j] + 1)
          /\ claims'[j] = claims[j] + 1
       \/ /\ j \in tx[w].swept
          /\ row'[j] = Swept(row[j])
          /\ SameClaims(j)

RowStep(j) ==
    \/ Untouched(j) \/ Beaten(j) \/ Inserted(j) \/ Deleted(j) \/ Withdrawn(j)
    \/ WrittenByHolder(j)
    \/ \E w \in Workers : Committed(w, j)

(* A conditional UPDATE either misses the row or is the holder's. *)
LEMMA HeldUpdate ==
    ASSUME TypeOK, NEW i \in Jobs, NEW t \in Nat, NEW r, UpdateIfHeld(i, t, r),
           NEW j \in Jobs
    PROVE  \/ row'[j] = row[j]
           \/ /\ j = i
              /\ row[j].state = "running"
              /\ row[j].token = t
              /\ Unlocked(j)
              /\ row'[j] = r
BY DEF TypeOK, UpdateIfHeld, Holds

(* Seen from one job's row, every step of the queue is one of the few row steps, or leaves the row and
   its attempts alone. *)
LEMMA EveryStepIsARowStep ==
    ASSUME TypeOK, Next, NEW j \in Jobs
    PROVE  RowStep(j)
<1>1. ASSUME row' = row, claims' = claims PROVE RowStep(j)
  BY <1>1 DEF RowStep, Untouched, SameClaims
<1>2. CASE WebStep
  <2>1. ASSUME NEW i \in Jobs, Enqueue(i) PROVE RowStep(j)
    <3>1. SameClaims(j)
      BY <2>1 DEF Enqueue, SameClaims
    <3>2. PICK gone \in {Prunable(UNION {In(s) : s \in TerminalStates}), {}} :
            row' = [k \in Jobs |->
                     IF k = i THEN [row[k] EXCEPT !.state = "queued"]
                     ELSE IF k \in gone THEN [row[k] EXCEPT !.state = "pruned"]
                     ELSE row[k]]
      BY <2>1 DEF Enqueue
    <3>3. \A k \in gone : row[k].state \in TerminalStates
      <4>1. gone \subseteq UNION {In(s) : s \in TerminalStates}
        BY <3>2 DEF Prunable
      <4>2. \A s \in TerminalStates : \A k \in In(s) : row[k].state = s
        BY DEF In
      <4> QED BY <4>1, <4>2
    <3>4. row[i].state = "absent"
      BY <2>1 DEF Enqueue
    <3> QED BY <3>1, <3>2, <3>3, <3>4 DEF RowStep, Inserted, Deleted, Untouched
  <2>2. ASSUME NEW i \in Jobs, Cancel(i) PROVE RowStep(j)
    BY <2>2 DEF Cancel, TypeOK, RowStep, Withdrawn, Untouched, SameClaims
  <2>3. ASSUME NEW s \in SettingsChoices, SaveSettings(s) PROVE RowStep(j)
    BY <1>1, <2>3 DEF SaveSettings, rowVars
  <2>4. ASSUME NEW h \in hookq, RunHook(h) PROVE RowStep(j)
    BY <1>1, <2>4 DEF RunHook, rowVars
  <2>5. ASSUME WebCrash PROVE RowStep(j)
    BY <1>1, <2>5 DEF WebCrash, rowVars
  <2> QED BY <1>2, <2>1, <2>2, <2>3, <2>4, <2>5 DEF WebStep
<1>3. ASSUME NEW w \in Workers, WorkerStep(w) PROVE RowStep(j)
  <2>1. CASE Heartbeat(w)
    <3>1. row'[j] = row[j] \/ (row'[j] = [row[j] EXCEPT !.stale = FALSE] /\ Unlocked(j))
      BY <2>1 DEF Heartbeat
    <3> QED BY <2>1, <3>1 DEF Heartbeat, RowStep, Untouched, Beaten, SameClaims
  <2>2. CASE ClaimAdmit(w)
    <3> DEFINE swept == [i \in Jobs |-> IF i \in tx[w].swept THEN Swept(row[i]) ELSE row[i]]
    <3>1. pc[w] = "tx" /\ tx' = [tx EXCEPT ![w] = NoTx]
      BY <2>2 DEF ClaimAdmit
    <3>2. /\ row' = [i \in Jobs |-> IF i \in AdmittedRows(w) THEN Claimed(swept[i], claims[i] + 1)
                                                           ELSE swept[i]]
          /\ claims' = [i \in Jobs |-> IF i \in AdmittedRows(w) THEN claims[i] + 1 ELSE claims[i]]
      BY <2>2 DEF ClaimAdmit
    <3>3. j \in AdmittedRows(w) =>
            row[j].state = "queued" \/ (j \in tx[w].swept /\ row[j].attempts = 0)
      BY AdmittedAreQueued DEF QueuedRows, In
    <3>4. CASE j \in tx[w].swept
      <4>1. swept[j] = Swept(row[j])
        BY <3>4
      <4> HIDE DEF swept
      <4> QED BY <3>1, <3>2, <3>3, <3>4, <4>1 DEF RowStep, Committed, SameClaims
    <3>5. CASE j \notin tx[w].swept
      <4>1. swept[j] = row[j]
        BY <3>5
      <4> HIDE DEF swept
      <4> QED BY <3>1, <3>2, <3>3, <3>5, <4>1 DEF RowStep, Committed, Untouched, SameClaims
    <3> QED BY <3>4, <3>5
  <2>3. ASSUME NEW d \in todo[w], GiveBack(w, d[1], d[2]) PROVE RowStep(j)
    <3>1. d[1] \in Jobs /\ d[2] \in Nat
      BY DEF TypeOK
    <3>2. UpdateIfHeld(d[1], d[2], GivenBack(row[d[1]])) /\ SameClaims(j)
      BY <2>3 DEF GiveBack, SameClaims
    <3>3. \/ row'[j] = row[j]
          \/ /\ j = d[1] /\ row[j].token = d[2]
             /\ row[j].state = "running" /\ Unlocked(j)
             /\ row'[j] = GivenBack(row[j])
      BY <3>1, <3>2, HeldUpdate
    <3>4. <<d[1], d[2]>> \in todo[w]
      BY <2>3 DEF GiveBack
    <3> QED BY <3>2, <3>3, <3>4 DEF RowStep, Untouched, WrittenByHolder, ToGiveBack
  <2>4. CASE ~(Heartbeat(w) \/ ClaimAdmit(w) \/ \E d \in todo[w] : GiveBack(w, d[1], d[2]))
    BY <1>1, <1>3, <2>4
    DEF WorkerStep, Start, Signal, TickBegin, LockBusy, ClaimBegin, ClaimAsserts, TickRaises,
        Launch, Unlaunch, UnlaunchDone, StopLoop, DrainTimeout, Exit, Crash, rowVars
  <2> QED BY <2>1, <2>2, <2>3, <2>4
<1>4. ASSUME NEW e \in exec, ThreadStep(e) PROVE RowStep(j)
  <2>0. e.job \in Jobs /\ e.token \in Nat
    BY DEF TypeOK, Attempt
  <2>1. CASE ResolveFails(e)
    BY <2>0, <2>1, HeldUpdate
    DEF ResolveFails, RowStep, Untouched, WrittenByHolder, AttemptOver, SameClaims
  <2>2. CASE Checkpoint(e)
    BY <2>0, <2>2, HeldUpdate DEF Checkpoint, RowStep, Untouched, WrittenByHolder, SameClaims
  <2>3. CASE Succeed(e)
    <3> DEFINE done == [row[e.job] EXCEPT !.state = "succeeded", !.outcome = e.token,
                                          !.checkpoint = 0]
    <3>1. UpdateIfHeld(e.job, e.token, done) /\ SameClaims(j)
      BY <2>3 DEF Succeed, SameClaims
    <3>2. \/ row'[j] = row[j]
          \/ /\ j = e.job
             /\ row[j].state = "running"
             /\ row[j].token = e.token
             /\ Unlocked(j)
             /\ row'[j] = done
      <4> HIDE DEF done
      <4> QED BY <2>0, <3>1, HeldUpdate
    <3>3. CASE row'[j] = row[j]
      BY <3>1, <3>3 DEF RowStep, Untouched
    <3>4. CASE row'[j] # row[j]
      <4>1. row'[j] = [row[j] EXCEPT !.state = "succeeded", !.outcome = row[j].token,
                                     !.checkpoint = 0]
        BY <3>2, <3>4, Zenon
      <4>2. AttemptOver(j)
        BY <2>3, <3>2, <3>4, Zenon DEF Succeed, AttemptOver
      <4> QED BY <3>1, <3>2, <3>4, <4>1, <4>2, Zenon DEF RowStep, WrittenByHolder
    <3> QED BY <3>3, <3>4
  <2>4. CASE Fail(e)
    BY <2>0, <2>4, HeldUpdate
    DEF Fail, RowStep, Untouched, WrittenByHolder, AttemptOver, SameClaims
  <2>5. CASE ExecStart(e) \/ ThreadHook(e) \/ WritebackLost(e) \/ Finally(e)
    BY <1>1, <2>5 DEF ExecStart, ThreadHook, WritebackLost, Finally, rowVars
  <2> QED BY <1>4, <2>1, <2>2, <2>3, <2>4, <2>5 DEF ThreadStep
<1>5. ASSUME NEW i \in Jobs, GoStale(i) PROVE RowStep(j)
  <2>1. \/ row'[j] = row[j]
        \/ row'[j] = [row[j] EXCEPT !.stale = TRUE] /\ (TimelyHeartbeats => Abandoned(j))
    BY <1>5 DEF GoStale, TypeOK
  <2> QED BY <1>5, <2>1 DEF GoStale, RowStep, Untouched, Beaten, SameClaims
<1> QED BY <1>2, <1>3, <1>4, <1>5 DEF Next

(* A row step of a job keeps what is invariant about that job. *)
LEMMA RowInvStep ==
    ASSUME TypeOK, TxInv, NEW j \in Jobs, RowInv(j), RowStep(j)
    PROVE  RowInv(j)'
<1>0. row[j] \in Row /\ claims[j] \in Nat
  BY DEF TypeOK
<1>1. CASE Untouched(j)
  BY <1>1 DEF Untouched, SameClaims, RowInv
<1>2. CASE Beaten(j)
  BY <1>0, <1>2 DEF Beaten, SameClaims, RowInv, Row
<1>3. CASE Inserted(j) \/ Deleted(j) \/ Withdrawn(j)
  BY <1>0, <1>3
  DEF Inserted, Deleted, Withdrawn, SameClaims, RowInv, Row, TerminalStates
<1>4. CASE WrittenByHolder(j)
  <2>1. row[j].token \in Nat /\ row[j].token = claims[j] /\ row[j].outcome = 0 /\ claims[j] > 0
    BY <1>0, <1>4 DEF WrittenByHolder, RowInv, Row
  <2>2. CASE row'[j] = GivenBack(row[j])
    BY <1>0, <1>4, <2>1, <2>2, RowFields DEF WrittenByHolder, SameClaims, RowInv
  <2>3. CASE row'[j] = FailedBy(row[j], row[j].token)
    BY <1>0, <1>4, <2>1, <2>3, RowFields DEF WrittenByHolder, SameClaims, RowInv
  <2>4. CASE row'[j] = [row[j] EXCEPT !.state = "succeeded", !.outcome = row[j].token,
                                      !.checkpoint = 0]
    <3>1. row'[j].state = "succeeded" /\ row'[j].outcome = claims[j] /\ row'[j].checkpoint = 0
      BY <1>0, <2>1, <2>4 DEF Row
    <3> QED BY <1>0, <1>4, <2>1, <3>1 DEF WrittenByHolder, SameClaims, RowInv
  <2>5. CASE row'[j] = [row[j] EXCEPT !.checkpoint = row[j].token]
    <3>1. /\ row'[j].state = "running" /\ row'[j].outcome = 0 /\ row'[j].checkpoint = claims[j]
          /\ row'[j].token = claims[j]
      BY <1>0, <1>4, <2>1, <2>5 DEF WrittenByHolder, Row
    <3> QED BY <1>0, <1>4, <2>1, <3>1 DEF WrittenByHolder, SameClaims, RowInv
  <2> QED BY <1>4, <2>2, <2>3, <2>4, <2>5 DEF WrittenByHolder
<1>5. ASSUME NEW w \in Workers, Committed(w, j) PROVE RowInv(j)'
  <2>1. j \in tx[w].swept => row[j].state = "running"
    BY DEF TxInv
  <2>2. row[j].checkpoint \in Nat /\ claims[j] + 1 \in Nat /\ Swept(row[j]) \in Row
    <3>1. Swept(row[j]) \in Row
      BY <1>0, RowUpdates
    <3>2. row[j].checkpoint \in Nat
      BY <1>0 DEF Row
    <3> QED BY <1>0, <3>1, <3>2
  <2>3. CASE row'[j] = Claimed(row[j], claims[j] + 1) /\ row[j].state = "queued"
               /\ claims'[j] = claims[j] + 1
    BY <1>0, <2>2, <2>3, RowFields DEF RowInv
  <2>4. CASE row'[j] = Claimed(Swept(row[j]), claims[j] + 1) /\ j \in tx[w].swept
               /\ claims'[j] = claims[j] + 1
    <3>1. /\ row'[j].state = "running" /\ row'[j].token = claims[j] + 1
          /\ row'[j].outcome = row[j].outcome /\ row'[j].checkpoint = row[j].checkpoint
      BY <1>0, <2>2, <2>4, RowFields
    <3> QED BY <1>0, <2>1, <2>2, <2>4, <3>1 DEF RowInv
  <2>5. CASE row'[j] = Swept(row[j]) /\ j \in tx[w].swept /\ SameClaims(j)
    <3>1. /\ row'[j].state \in {"queued", "failed"}
          /\ row'[j].outcome = row[j].outcome /\ row'[j].checkpoint = row[j].checkpoint
      <4>1. row[j].attempts \in {0, 1}
        BY <1>0 DEF Row
      <4> QED BY <1>0, <2>2, <2>5, <4>1, RowFields
    <3> QED BY <1>0, <2>1, <2>2, <2>5, <3>1 DEF RowInv, SameClaims
  <2> QED BY <1>5, <2>3, <2>4, <2>5 DEF Committed
<1> QED BY <1>1, <1>2, <1>3, <1>4, <1>5 DEF RowStep

(* The lock and the rows it protects. *)
LEMMA TxInvStep ==
    ASSUME TypeOK, TxInv, Next, \A j \in Jobs : RowStep(j)
    PROVE  TxInv'
<1>1. ASSUME pc' = pc, tx' = tx PROVE TxInv'
  <2>1. ASSUME NEW w \in Workers, NEW j \in tx[w].swept PROVE row'[j].state = "running"
    <3>1. j \in Jobs /\ row[j] \in Row /\ row[j].state = "running" /\ ~Unlocked(j)
      BY DEF TypeOK, TxInv, Unlocked
    <3>2. ASSUME NEW v \in Workers, Committed(v, j) PROVE FALSE
      <4>1. tx[v] = NoTx
        BY <1>1, <3>2 DEF Committed, TypeOK
      <4> QED BY <3>1, <3>2, <4>1 DEF Committed, NoTx
    <3> QED BY <3>1, <3>2
      DEF RowStep, Untouched, Beaten, Inserted, Deleted, Withdrawn, WrittenByHolder,
          TerminalStates, Row
  <2> QED BY <1>1, <2>1 DEF TxInv
<1>2. CASE WebStep
  BY <1>1, <1>2 DEF WebStep, Enqueue, Cancel, SaveSettings, RunHook, WebCrash, procVars
<1>3. ASSUME NEW w \in Workers, WorkerStep(w) PROVE TxInv'
  <2>1. ASSUME row' = row,
               \/ tx' = tx
               \/ tx' = [tx EXCEPT ![w] = NoTx],
               NEW p \in Places, p # "tx", pc' = [pc EXCEPT ![w] = p],
               pc[w] = "tx" => tx' = [tx EXCEPT ![w] = NoTx]
        PROVE  TxInv'
    <3>1. \A v \in Workers : tx'[v] = NoTx \/ tx'[v] = tx[v]
      BY <2>1 DEF TypeOK
    <3>2. \A v \in Workers : pc'[v] = "tx" => v # w /\ pc[v] = "tx"
      BY <2>1 DEF TypeOK
    <3>3. \A v \in Workers : pc'[v] # "tx" => tx'[v] = NoTx
      <4>1. ASSUME NEW v \in Workers, pc'[v] # "tx" PROVE tx'[v] = NoTx
        <5>1. CASE pc[v] # "tx"
          BY <3>1, <5>1 DEF TxInv
        <5>2. CASE pc[v] = "tx"
          BY <2>1, <4>1, <5>2 DEF TypeOK
        <5> QED BY <5>1, <5>2
      <4> QED BY <4>1
    <3>4. \A v \in Workers : \A j \in tx'[v].swept : row'[j].state = "running"
      <4>1. NoTx.swept = {}
        BY DEF NoTx
      <4> QED BY <2>1, <3>1, <4>1 DEF TxInv
    <3> QED BY <3>2, <3>3, <3>4 DEF TxInv
  <2>2. CASE ClaimBegin(w)
    BY <2>2 DEF ClaimBegin, LockFree, TxInv, TypeOK, In, rowVars
  <2>3. CASE ClaimAdmit(w)
    <3>1. tx' = [tx EXCEPT ![w] = NoTx] /\ pc[w] = "tx"
      BY <2>3 DEF ClaimAdmit
    <3>2. \A v \in Workers : tx'[v] = NoTx
      BY <3>1 DEF TxInv, TypeOK
    <3>3. \A v \in Workers : pc'[v] # "tx"
      BY <2>3, <3>1 DEF ClaimAdmit, TxInv, TypeOK
    <3> QED BY <3>2, <3>3 DEF TxInv, NoTx
  <2>4. CASE Start(w)
    BY <2>1, <2>4 DEF Start, rowVars, Places
  <2>5. CASE TickBegin(w)
    BY <2>1, <2>5 DEF TickBegin, rowVars, Places
  <2>6. CASE LockBusy(w)
    BY <2>1, <2>6 DEF LockBusy, rowVars, Places
  <2>7. CASE ClaimAsserts(w) \/ TickRaises(w)
    BY <2>1, <2>7 DEF ClaimAsserts, TickRaises, AbandonTick, rowVars, Places
  <2>8. CASE Launch(w) \/ Unlaunch(w) \/ UnlaunchDone(w)
    BY <2>1, <2>8 DEF Launch, Unlaunch, UnlaunchDone, rowVars, Places
  <2>9. CASE StopLoop(w) \/ DrainTimeout(w)
    BY <2>1, <2>9 DEF StopLoop, DrainTimeout, rowVars, Places
  <2>10. CASE Exit(w) \/ Crash(w)
    BY <2>1, <2>10 DEF Exit, Crash, Dies, rowVars, Places
  <2>11. CASE Signal(w) \/ Heartbeat(w) \/ \E d \in todo[w] : GiveBack(w, d[1], d[2])
    BY <1>1, <2>11 DEF Signal, Heartbeat, GiveBack, procVars
  <2> QED
    BY <1>3, <2>2, <2>3, <2>4, <2>5, <2>6, <2>7, <2>8, <2>9, <2>10, <2>11 DEF WorkerStep
<1>4. ASSUME NEW e \in exec, ThreadStep(e) PROVE TxInv'
  BY <1>1, <1>4
  DEF ThreadStep, ExecStart, ResolveFails, ThreadHook, Checkpoint, Succeed, Fail,
      WritebackLost, Finally, procVars
<1>5. ASSUME NEW j \in Jobs, GoStale(j) PROVE TxInv'
  BY <1>1, <1>5 DEF GoStale, procVars
<1> QED BY <1>2, <1>3, <1>4, <1>5 DEF Next

(* The inductive invariant of the queue holds at first. *)
LEMMA InvInit == Init => QueueInv
<1> SUFFICES ASSUME Init PROVE QueueInv
  OBVIOUS
<1>1. TypeOK
  BY TypeInit
<1>2. TxInv
  BY DEF Init, TxInv, NoTx
<1>3. \A j \in Jobs : RowInv(j)
  BY DEF Init, RowInv
<1> QED BY <1>1, <1>2, <1>3 DEF QueueInv

(* Every step of the queue keeps its inductive invariant. *)
LEMMA InvNext == QueueInv /\ [Next]_vars => QueueInv'
<1> SUFFICES ASSUME QueueInv, [Next]_vars PROVE QueueInv'
  OBVIOUS
<1>1. TypeOK'
  BY TypeNext DEF QueueInv
<1>2. CASE Next
  <2>1. \A j \in Jobs : RowStep(j)
    BY <1>2, EveryStepIsARowStep DEF QueueInv
  <2>2. TxInv'
    BY <1>2, <2>1, TxInvStep DEF QueueInv
  <2>3. \A j \in Jobs : RowInv(j)'
    BY <2>1, RowInvStep DEF QueueInv
  <2> QED BY <1>1, <2>2, <2>3 DEF QueueInv
<1>3. CASE UNCHANGED vars
  BY <1>1, <1>3 DEF QueueInv, TxInv, RowInv, vars
<1> QED BY <1>2, <1>3

(* The inductive invariant holds in every reachable state, for every number of jobs, workers and
   faults. *)
THEOREM Invariance == Spec => []QueueInv
BY InvInit, InvNext, PTL DEF Spec

(* Fencing: a running row carries the token of the job's last claim and a    *)
(* stored result or error is that claim's, for any number of workers,        *)
(* crashes, drains, sweeps and superseded attempts.                          *)
THEOREM Fencing == Spec => []LastClaimDecides
<1>1. QueueInv => LastClaimDecides
  BY DEF QueueInv, RowInv, LastClaimDecides
<1> QED BY <1>1, Invariance, PTL

----------------------------------------------------------------------------
(* What a row step means outside.                                          *)

(* A step of the queue moves each job along an edge of JobLifecycle. *)
LEMMA RowStepIsLifecycleStep ==
    ASSUME TypeOK, TypeOK', TxInv, NEW j \in Jobs, RowInv(j), RowStep(j)
    PROVE  Lifecycle!JobStep(j) \/ Lifecycle!Same(j)
<1>0. /\ row[j] \in Row /\ claims[j] \in Nat /\ row[j].attempts \in {0, 1}
      /\ row[j].token \in Nat
  BY DEF TypeOK, Row
<1>1. CASE Untouched(j) \/ Beaten(j)
  <2>1. /\ row'[j].state = row[j].state /\ row'[j].attempts = row[j].attempts
        /\ row'[j].outcome = row[j].outcome /\ claims'[j] = claims[j]
    BY <1>0, <1>1 DEF Untouched, Beaten, SameClaims, Row
  <2> QED BY <2>1
    DEF Lifecycle!Same, Lifecycle!SameHolder, Lifecycle!SameLost, Lifecycle!SameOutcome
<1>2. CASE Inserted(j) \/ Deleted(j) \/ Withdrawn(j)
  <2>1. /\ row'[j].attempts = row[j].attempts /\ row'[j].outcome = row[j].outcome
        /\ claims'[j] = claims[j]
        /\ \/ row[j].state = "absent" /\ row'[j].state = "queued"
           \/ row[j].state \in TerminalStates /\ row'[j].state = "pruned"
           \/ row[j].state = "queued" /\ row'[j].state = "cancelled"
    BY <1>0, <1>2 DEF Inserted, Deleted, Withdrawn, SameClaims, Row
  <2> QED BY <2>1
    DEF Lifecycle!JobStep, Lifecycle!Submit, Lifecycle!Forget, Lifecycle!Withdraw,
        Lifecycle!Moves, Lifecycle!SameHolder, Lifecycle!SameLost, Lifecycle!SameOutcome,
        Lifecycle!Outcomes, TerminalStates
<1>3. CASE WrittenByHolder(j)
  <2>1. row[j].state = "running" /\ row[j].token = claims[j] /\ claims'[j] = claims[j]
    BY <1>3 DEF WrittenByHolder, RowInv, SameClaims
  <2>2. CASE row'[j] = GivenBack(row[j])
    BY <1>0, <2>1, <2>2, RowFields
    DEF Lifecycle!JobStep, Lifecycle!Return, Lifecycle!Moves, Lifecycle!SameHolder,
        Lifecycle!SameLost, Lifecycle!SameOutcome
  <2>3. CASE row'[j] = FailedBy(row[j], row[j].token)
    BY <1>0, <2>1, <2>3, RowFields
    DEF Lifecycle!JobStep, Lifecycle!Report, Lifecycle!Moves, Lifecycle!SameHolder,
        Lifecycle!SameLost
  <2>4. CASE row'[j] = [row[j] EXCEPT !.state = "succeeded", !.outcome = row[j].token,
                                      !.checkpoint = 0]
    <3>1. /\ row'[j].state = "succeeded" /\ row'[j].outcome = claims[j]
          /\ row'[j].attempts = row[j].attempts
      BY <1>0, <2>1, <2>4 DEF Row
    <3> QED BY <2>1, <3>1
      DEF Lifecycle!JobStep, Lifecycle!Report, Lifecycle!Moves, Lifecycle!SameHolder,
          Lifecycle!SameLost
  <2>5. CASE row'[j] = [row[j] EXCEPT !.checkpoint = row[j].token]
    <3>1. /\ row'[j].state = row[j].state /\ row'[j].outcome = row[j].outcome
          /\ row'[j].attempts = row[j].attempts
      BY <1>0, <2>5 DEF Row
    <3> QED BY <2>1, <3>1
      DEF Lifecycle!Same, Lifecycle!SameHolder, Lifecycle!SameLost, Lifecycle!SameOutcome
  <2> QED BY <1>3, <2>2, <2>3, <2>4, <2>5 DEF WrittenByHolder
<1>4. ASSUME NEW w \in Workers, Committed(w, j)
      PROVE  Lifecycle!JobStep(j) \/ Lifecycle!Same(j)
  <2>1. j \in tx[w].swept => row[j].state = "running" /\ row[j].outcome = 0
    BY DEF TxInv, RowInv
  <2>2. claims[j] + 1 \in Nat /\ Swept(row[j]) \in Row
    <3>1. Swept(row[j]) \in Row
      BY <1>0, RowUpdates
    <3> QED BY <1>0, <3>1
  <2>3. CASE row'[j] = Claimed(row[j], claims[j] + 1) /\ row[j].state = "queued"
               /\ claims'[j] = claims[j] + 1
    BY <1>0, <2>2, <2>3, RowFields
    DEF Lifecycle!JobStep, Lifecycle!HandOut, Lifecycle!Moves, Lifecycle!SameLost,
        Lifecycle!SameOutcome
  <2>4. CASE /\ row'[j] = Claimed(Swept(row[j]), claims[j] + 1)
             /\ j \in tx[w].swept
             /\ row[j].attempts = 0 \/ row[j].state = "queued"
             /\ claims'[j] = claims[j] + 1
    <3>1. /\ row'[j].state = "running" /\ row'[j].attempts = 1
          /\ row'[j].outcome = row[j].outcome
      BY <1>0, <2>2, <2>4, RowFields
    <3>2. row[j].state = "running" /\ row[j].attempts = 0
      BY <2>1, <2>4
    <3> QED BY <2>4, <3>1, <3>2
      DEF Lifecycle!JobStep, Lifecycle!Replace, Lifecycle!Moves, Lifecycle!SameOutcome
  <2>5. CASE row'[j] = Swept(row[j]) /\ j \in tx[w].swept /\ SameClaims(j)
    <3>1. /\ row'[j].attempts = 1 /\ row'[j].outcome = row[j].outcome
          /\ \/ row[j].attempts = 0 /\ row'[j].state = "queued"
             \/ row[j].attempts = 1 /\ row'[j].state = "failed"
      BY <1>0, <2>5, RowFields
    <3> QED BY <2>1, <2>5, <3>1
      DEF SameClaims, Lifecycle!JobStep, Lifecycle!Lose, Lifecycle!GiveUp, Lifecycle!Moves,
          Lifecycle!SameHolder, Lifecycle!SameLost, Lifecycle!SameOutcome
  <2> QED BY <1>4, <2>3, <2>4, <2>5 DEF Committed
<1> QED BY <1>1, <1>2, <1>3, <1>4 DEF RowStep

(* An empty queue is an initial state of the abstract life cycle. *)
LEMMA InitRefines == Init => Lifecycle!LifeInit
BY DEF Init, Lifecycle!LifeInit

(* Every step of the queue is a step of the abstract life cycle of a job, or leaves it where it is. *)
LEMMA NextRefines == QueueInv /\ QueueInv' /\ [Next]_vars => [Lifecycle!LifeNext]_(Lifecycle!lifeVars)
<1> SUFFICES ASSUME QueueInv, QueueInv', [Next]_vars
             PROVE  [Lifecycle!LifeNext]_(Lifecycle!lifeVars)
  OBVIOUS
<1>1. CASE Next
  <2>1. ASSUME NEW j \in Jobs PROVE Lifecycle!JobStep(j) \/ Lifecycle!Same(j)
    BY <1>1, EveryStepIsARowStep, RowStepIsLifecycleStep DEF QueueInv
  <2> QED BY <2>1 DEF Lifecycle!LifeNext
<1>2. CASE UNCHANGED vars
  BY <1>2 DEF vars, Lifecycle!lifeVars
<1> QED BY <1>1, <1>2

(* The queue of rows, workers, threads and transactions implements the       *)
(* lifecycle of JobLifecycle: one holder at a time, one outcome, written     *)
(* once and by the last holder, and one retry of a job whose worker          *)
(* vanished.                                                                 *)
THEOREM Refinement == Spec => ImplementsLifecycle
BY Invariance, InitRefines, NextRefines, PTL DEF Spec, ImplementsLifecycle, Lifecycle!LifeSpec

(* A checkpoint only moves forward to the current claim's, or is cleared by  *)
(* success: requeues keep it and a superseded attempt cannot write it.       *)
LEMMA RowStepKeepsCheckpoint ==
    ASSUME TypeOK, TxInv, NEW j \in Jobs, RowInv(j), RowStep(j),
           row'[j].checkpoint # row[j].checkpoint
    PROVE  \/ row'[j].checkpoint > row[j].checkpoint /\ row'[j].checkpoint = claims[j]
           \/ row'[j].checkpoint = 0 /\ row'[j].state = "succeeded"
<1>0. /\ row[j] \in Row /\ claims[j] \in Nat /\ row[j].token \in Nat
      /\ row[j].checkpoint \in Nat
  BY DEF TypeOK, Row
<1>1. ~Untouched(j) /\ ~Beaten(j)
  BY <1>0 DEF Untouched, Beaten, Row
<1>2. ~Inserted(j) /\ ~Deleted(j) /\ ~Withdrawn(j)
  BY <1>0 DEF Inserted, Deleted, Withdrawn, Row
<1>3. ASSUME NEW w \in Workers, Committed(w, j) PROVE FALSE
  <2>1. claims[j] + 1 \in Nat /\ Swept(row[j]) \in Row
    <3>1. Swept(row[j]) \in Row
      BY <1>0, RowUpdates
    <3> QED BY <1>0, <3>1
  <2> QED BY <1>0, <1>3, <2>1, RowFields DEF Committed
<1>4. WrittenByHolder(j)
  BY <1>1, <1>2, <1>3 DEF RowStep
<1>5. row[j].state = "running" /\ row[j].token = claims[j]
  BY <1>4 DEF WrittenByHolder, RowInv
<1>6. row'[j] # GivenBack(row[j]) /\ row'[j] # FailedBy(row[j], row[j].token)
  BY <1>0, RowFields
<1>7. CASE row'[j] = [row[j] EXCEPT !.state = "succeeded", !.outcome = row[j].token,
                                    !.checkpoint = 0]
  BY <1>0, <1>7 DEF Row
<1>8. CASE /\ row'[j] = [row[j] EXCEPT !.checkpoint = row[j].token]
           /\ row[j].checkpoint # row[j].token
  <2>1. row'[j].checkpoint = claims[j]
    BY <1>0, <1>5, <1>8 DEF Row
  <2>2. row[j].checkpoint <= claims[j]
    BY DEF RowInv
  <2> QED BY <1>0, <1>5, <1>8, <2>1, <2>2
<1> QED BY <1>4, <1>6, <1>7, <1>8 DEF WrittenByHolder

(* The checkpoint property, over every behaviour of the queue. *)
THEOREM CheckpointSafety == Spec => CheckpointNeverGoesBack
<1> DEFINE Kept ==
      \A j \in Jobs :
          row'[j].checkpoint # row[j].checkpoint =>
             \/ row'[j].checkpoint > row[j].checkpoint /\ row'[j].checkpoint = claims[j]
             \/ row'[j].checkpoint = 0 /\ row'[j].state = "succeeded"
<1>1. QueueInv /\ [Next]_vars => [Kept]_vars
  BY EveryStepIsARowStep, RowStepKeepsCheckpoint DEF QueueInv
<1> QED BY <1>1, Invariance, PTL DEF Spec, CheckpointNeverGoesBack

----------------------------------------------------------------------------
(* The attempts a worker knows of.                                         *)

\* OwnedRowsAreHeartbeated made inductive.  An attempt of the newest claim, whatever
\* its stage, is registered under its own token; an attempt still in tick's local
\* variable is the newest its worker has of that job, so giving it back unregisters
\* no other.
AttemptInv ==
    /\ \A e \in exec : e.token <= claims[e.job]
    /\ \A e, f \in exec : e.job = f.job /\ e.token = f.token => e = f
    /\ \A e \in exec : e.token = claims[e.job] => active[e.worker][e.job] = e.token
    /\ \A e \in exec : e.stage = "claimed" => pc[e.worker] = "claimed"
    /\ \A e, f \in exec :
          f.stage = "claimed" /\ e.worker = f.worker /\ e.job = f.job => e.token <= f.token

(* Fields of the attempts in memory. *)
LEMMA AttemptFields ==
    ASSUME TypeOK, NEW e \in exec
    PROVE  /\ e \in Attempt
           /\ e.worker \in Workers /\ e.job \in Jobs /\ e.token \in Nat
           /\ row[e.job] \in Row /\ claims[e.job] \in Nat
BY DEF TypeOK, Attempt

(* The attempt e at another stage. *)
LEMMA NextStage ==
    ASSUME NEW e \in Attempt, NEW st
    PROVE  LET f == [e EXCEPT !.stage = st]
           IN  /\ f.worker = e.worker /\ f.job = e.job /\ f.token = e.token
               /\ f.stage = st
BY DEF Attempt

(* Attempts may leave memory, as long as those that stay keep their token and *)
(* their worker's main thread where it was.                                   *)
LEMMA AttemptsThinOut ==
    ASSUME TypeOK, AttemptInv, claims' = claims, exec' \subseteq exec,
           \A f \in exec' : f.token = claims[f.job] =>
                               active'[f.worker][f.job] = active[f.worker][f.job],
           \A f \in exec' : f.stage = "claimed" => pc'[f.worker] = pc[f.worker]
    PROVE  AttemptInv'
BY DEF AttemptInv

(* A pool thread takes its attempt to the next stage. *)
LEMMA AttemptMovesOn ==
    ASSUME TypeOK, AttemptInv, claims' = claims, active' = active, pc' = pc,
           NEW e \in exec, NEW st, st # "claimed", Becomes(e, st)
    PROVE  AttemptInv'
<1> DEFINE g == [e EXCEPT !.stage = st]
<1>1. g.worker = e.worker /\ g.job = e.job /\ g.token = e.token /\ g.stage = st
  BY AttemptFields, NextStage
<1>2. exec' = (exec \ {e}) \cup {g}
  BY DEF Becomes
<1> HIDE DEF g
<1> QED BY <1>1, <1>2 DEF AttemptInv

(* The attempts of a claim are handed to the pool. *)
LEMMA AttemptsLaunch ==
    ASSUME TypeOK, AttemptInv, NEW w \in Workers, Launch(w)
    PROVE  AttemptInv'
<1> DEFINE Launched(e) == [e EXCEPT !.stage = "submitted"]
<1>1. /\ exec' = (exec \ Unlaunched(w)) \cup {Launched(e) : e \in Unlaunched(w)}
      /\ claims' = claims /\ active' = active
      /\ \A v \in Workers : v # w => pc'[v] = pc[v]
  BY DEF Launch, rowVars, TypeOK
<1>2. \A e \in Unlaunched(w) :
        /\ e \in exec
        /\ LET g == Launched(e)
           IN  g.worker = e.worker /\ g.job = e.job /\ g.token = e.token /\ g.stage = "submitted"
  BY AttemptFields, NextStage DEF Unlaunched, AttemptsOf
<1>3. \A f \in exec : f.worker = w /\ f.stage = "claimed" => f \in Unlaunched(w)
  BY DEF Unlaunched, AttemptsOf
<1> HIDE DEF Launched
<1>4. \A f \in exec' : \E e \in exec :
        /\ f.worker = e.worker /\ f.job = e.job /\ f.token = e.token
        /\ \/ f = e /\ e \notin Unlaunched(w)
           \/ f = Launched(e) /\ f.stage = "submitted"
  BY <1>1, <1>2
<1>5. \A f \in exec' : f.token <= claims'[f.job]
  BY <1>1, <1>4 DEF AttemptInv
<1>6. \A f, g \in exec' : f.job = g.job /\ f.token = g.token => f = g
  <2> SUFFICES ASSUME NEW f \in exec', NEW g \in exec', f.job = g.job, f.token = g.token
               PROVE  f = g
    OBVIOUS
  <2>1. CASE f \in exec \ Unlaunched(w)
    BY <1>1, <1>2, <2>1 DEF AttemptInv
  <2>2. CASE f \in {Launched(e) : e \in Unlaunched(w)}
    BY <1>1, <1>2, <2>2 DEF AttemptInv
  <2> QED BY <1>1, <2>1, <2>2
<1>7. \A f \in exec' : f.token = claims'[f.job] => active'[f.worker][f.job] = f.token
  BY <1>1, <1>4 DEF AttemptInv
<1>8. \A f \in exec' : f.stage = "claimed" => f \in exec /\ f.worker # w /\ f.worker \in Workers
  BY <1>3, <1>4, AttemptFields
<1>9. \A f \in exec' : f.stage = "claimed" => pc'[f.worker] = "claimed"
  BY <1>1, <1>8 DEF AttemptInv
<1>10. \A e, f \in exec' :
         f.stage = "claimed" /\ e.worker = f.worker /\ e.job = f.job => e.token <= f.token
  BY <1>4, <1>8 DEF AttemptInv
<1> QED BY <1>5, <1>6, <1>7, <1>9, <1>10 DEF AttemptInv

(* A claimed attempt that is given back unregisters only itself. *)
LEMMA AttemptsUnlaunch ==
    ASSUME TypeOK, AttemptInv, NEW w \in Workers, Unlaunch(w)
    PROVE  AttemptInv'
<1>1. /\ exec' = exec \ Unlaunched(w)
      /\ claims' = claims
      /\ active' = [active EXCEPT ![w] =
                      [j \in Jobs |-> IF \E e \in Unlaunched(w) : e.job = j THEN 0 ELSE @[j]]]
      /\ \A v \in Workers : v # w => pc'[v] = pc[v]
  BY DEF Unlaunch, rowVars, TypeOK
<1>2. ASSUME NEW f \in exec', f.token = claims[f.job]
      PROVE  active'[f.worker][f.job] = active[f.worker][f.job]
  <2>1. f \in exec /\ f \notin Unlaunched(w)
    BY <1>1
  <2>2. f.worker = w => ~\E e \in Unlaunched(w) : e.job = f.job
    <3> SUFFICES ASSUME f.worker = w, NEW e \in Unlaunched(w), e.job = f.job PROVE FALSE
      OBVIOUS
    <3>1. e \in exec /\ e.stage = "claimed" /\ e.worker = w
      BY DEF Unlaunched, AttemptsOf
    <3>2. f.token <= e.token /\ e.token <= claims[f.job]
      BY <2>1, <3>1 DEF AttemptInv
    <3>3. e.token \in Nat /\ claims[f.job] \in Nat
      BY <2>1, <3>1, AttemptFields
    <3>4. e.token = f.token
      BY <1>2, <3>2, <3>3
    <3> QED BY <2>1, <3>1, <3>4 DEF AttemptInv
  <2>3. f.worker \in Workers /\ f.job \in Jobs /\ active \in [Workers -> [Jobs -> Nat]]
    BY <2>1, AttemptFields DEF TypeOK
  <2> QED BY <1>1, <2>2, <2>3
<1>3. ASSUME NEW f \in exec', f.stage = "claimed" PROVE pc'[f.worker] = pc[f.worker]
  <2>1. f \in exec /\ f.worker # w
    BY <1>1, <1>3 DEF Unlaunched, AttemptsOf
  <2> QED BY <1>1, <2>1, AttemptFields
<1> QED BY <1>1, <1>2, <1>3, AttemptsThinOut

(* The end of an attempt unregisters nobody else's token. *)
LEMMA AttemptsEnd ==
    ASSUME TypeOK, AttemptInv, NEW e \in exec, LeavesPool(e), claims' = claims, pc' = pc
    PROVE  AttemptInv'
<1>1. exec' = exec \ {e}
  BY DEF LeavesPool
<1>2. ASSUME NEW f \in exec', f.token = claims[f.job]
      PROVE  active'[f.worker][f.job] = active[f.worker][f.job]
  <2>1. f \in exec /\ f # e /\ active[f.worker][f.job] = f.token
    BY <1>1, <1>2 DEF AttemptInv
  <2>2. ~(f.job = e.job /\ f.token = e.token)
    BY <2>1 DEF AttemptInv
  <2>3. /\ f.worker \in Workers /\ f.job \in Jobs /\ e.worker \in Workers /\ e.job \in Jobs
        /\ active \in [Workers -> [Jobs -> Nat]]
    BY <2>1, AttemptFields DEF TypeOK
  <2>4. CASE active[e.worker][e.job] = e.token
    <3>1. ~(f.worker = e.worker /\ f.job = e.job)
      BY <2>1, <2>2, <2>4
    <3>2. active' = [active EXCEPT ![e.worker][e.job] = 0]
      BY <2>4 DEF LeavesPool
    <3> QED BY <2>3, <3>1, <3>2
  <2>5. CASE active[e.worker][e.job] # e.token
    BY <2>5 DEF LeavesPool
  <2> QED BY <2>4, <2>5
<1> QED BY <1>1, <1>2, AttemptsThinOut

(* A claim: the new attempts carry tokens nobody has had, and are registered. *)
LEMMA AttemptsBegin ==
    ASSUME TypeOK, AttemptInv, NEW w \in Workers, ClaimAdmit(w)
    PROVE  AttemptInv'
<1> DEFINE swept == [j \in Jobs |-> IF j \in tx[w].swept THEN Swept(row[j]) ELSE row[j]]
           admitted == AdmittedRows(w)
           New(j) == NewAttempt(w, j, swept[j])
<1>1. admitted \subseteq Jobs
  BY AdmittedAreQueued
<1>2. /\ exec' = exec \cup {New(j) : j \in admitted}
      /\ pc[w] = "tx"
      /\ pc' = [pc EXCEPT ![w] = IF admitted = {} THEN "idle" ELSE "claimed"]
      /\ claims' = [j \in Jobs |-> IF j \in admitted THEN claims[j] + 1 ELSE claims[j]]
      /\ active' = [active EXCEPT ![w] =
                      [j \in Jobs |-> IF j \in admitted THEN claims[j] + 1 ELSE @[j]]]
  BY DEF ClaimAdmit, Registered
<1>3. \A j \in admitted :
        /\ New(j).worker = w /\ New(j).job = j /\ New(j).token = claims[j] + 1
        /\ New(j).stage = "claimed"
  BY DEF NewAttempt
<1> HIDE DEF swept, admitted, New
<1>4. claims \in [Jobs -> Nat] /\ active \in [Workers -> [Jobs -> Nat]] /\ pc \in [Workers -> Places]
  BY DEF TypeOK
<1>5. \A j \in Jobs : claims'[j] \in Nat /\ claims[j] <= claims'[j]
                      /\ (j \in admitted => claims'[j] = claims[j] + 1)
                      /\ (j \notin admitted => claims'[j] = claims[j])
  BY <1>2, <1>4
<1>6. \A e \in exec : e.worker \in Workers /\ e.job \in Jobs /\ e.token \in Nat
                      /\ e.token <= claims[e.job]
  BY AttemptFields DEF AttemptInv
<1>7. \A f \in exec' : f \in exec \/ \E j \in admitted : f = New(j)
  BY <1>2
<1>8. \A f \in exec' : f.token <= claims'[f.job]
  <2> SUFFICES ASSUME NEW f \in exec' PROVE f.token <= claims'[f.job]
    OBVIOUS
  <2>1. CASE f \in exec
    BY <1>4, <1>5, <1>6, <2>1
  <2>2. ASSUME NEW j \in admitted, f = New(j) PROVE f.token <= claims'[f.job]
    BY <1>1, <1>3, <1>5, <2>2
  <2> QED BY <1>7, <2>1, <2>2
<1>9. \A e \in exec : \A j \in admitted : e.job = j => e.token < New(j).token
  BY <1>1, <1>3, <1>4, <1>6
<1>10. \A f, g \in exec' : f.job = g.job /\ f.token = g.token => f = g
  <2> SUFFICES ASSUME NEW f \in exec', NEW g \in exec', f.job = g.job, f.token = g.token
               PROVE  f = g
    OBVIOUS
  <2>1. CASE f \in exec /\ g \in exec
    BY <2>1 DEF AttemptInv
  <2>2. ASSUME NEW e \in exec, NEW j \in admitted, e.job = New(j).job, e.token = New(j).token
        PROVE  FALSE
    BY <1>1, <1>3, <1>4, <1>6, <1>9, <2>2
  <2>3. \A i, j \in admitted : New(i).job = New(j).job => New(i) = New(j)
    BY <1>3
  <2> QED BY <1>7, <2>1, <2>2, <2>3
<1>11. ASSUME NEW f \in exec', f.token = claims'[f.job]
       PROVE  active'[f.worker][f.job] = f.token
  <2>1. CASE f \in exec
    <3>1. f.job \notin admitted
      BY <1>4, <1>5, <1>6, <1>11, <2>1
    <3>2. active'[f.worker][f.job] = active[f.worker][f.job]
      BY <1>2, <1>4, <1>6, <2>1, <3>1
    <3> QED BY <1>5, <1>6, <1>11, <2>1, <3>1, <3>2 DEF AttemptInv
  <2>2. ASSUME NEW j \in admitted, f = New(j) PROVE active'[f.worker][f.job] = f.token
    BY <1>1, <1>2, <1>3, <1>4, <2>2
  <2> QED BY <1>7, <2>1, <2>2
<1>12. ASSUME NEW f \in exec', f.stage = "claimed"
       PROVE  pc'[f.worker] = "claimed" /\ (f \in exec => f.worker # w)
  <2>1. CASE f \in exec
    <3>1. pc[f.worker] = "claimed" /\ f.worker # w
      BY <1>2, <1>12, <2>1 DEF AttemptInv
    <3> QED BY <1>2, <1>4, <1>6, <2>1, <3>1
  <2>2. CASE f \notin exec
    <3>1. PICK j \in admitted : f = New(j)
      BY <1>7, <2>2
    <3> QED BY <1>2, <1>3, <1>4, <2>2, <3>1
  <2> QED BY <2>1, <2>2
<1>13. ASSUME NEW e \in exec', NEW f \in exec',
              f.stage = "claimed", e.worker = f.worker, e.job = f.job
       PROVE  e.token <= f.token
  <2>1. CASE f \in exec
    <3>1. f.worker # w
      BY <1>12, <1>13, <2>1
    <3>2. e \in exec
      BY <1>3, <1>7, <1>13, <3>1
    <3> QED BY <1>13, <2>1, <3>2 DEF AttemptInv
  <2>2. CASE f \notin exec
    <3>1. PICK j \in admitted : f = New(j)
      BY <1>7, <2>2
    <3>2. CASE e \in exec
      <4>1. e.token < f.token
        BY <1>3, <1>9, <1>13, <3>1, <3>2
      <4>2. e.token \in Nat /\ f.token \in Nat
        BY <1>1, <1>3, <1>4, <1>6, <3>1, <3>2
      <4> QED BY <4>1, <4>2
    <3>3. CASE e \notin exec
      <4>1. PICK i \in admitted : e = New(i)
        BY <1>7, <3>3
      <4>2. e.token = f.token /\ f.token \in Nat
        BY <1>1, <1>3, <1>4, <1>13, <3>1, <4>1
      <4> QED BY <4>2
    <3> QED BY <3>2, <3>3
  <2> QED BY <2>1, <2>2
<1> QED BY <1>8, <1>10, <1>11, <1>12, <1>13 DEF AttemptInv

(* Every step keeps AttemptInv. *)
LEMMA AttemptInvStep ==
    ASSUME TypeOK, AttemptInv, Next
    PROVE  AttemptInv'
<1>1. ASSUME exec' = exec, claims' = claims, active' = active,
             \A e \in exec : e.stage = "claimed" => pc'[e.worker] = pc[e.worker]
      PROVE  AttemptInv'
  BY <1>1, AttemptsThinOut
<1>2. CASE WebStep
  BY <1>1, <1>2
  DEF WebStep, Enqueue, Cancel, SaveSettings, RunHook, WebCrash, rowVars, procVars
<1>3. ASSUME NEW w \in Workers, WorkerStep(w) PROVE AttemptInv'
  <2>1. ASSUME NEW p, pc' = [pc EXCEPT ![w] = p], pc[w] # "claimed"
        PROVE  \A e \in exec : e.stage = "claimed" => pc'[e.worker] = pc[e.worker]
    BY <2>1 DEF AttemptInv, TypeOK
  <2>2. CASE Start(w) \/ TickBegin(w) \/ LockBusy(w) \/ ClaimBegin(w)
    BY <1>1, <2>1, <2>2 DEF Start, TickBegin, LockBusy, ClaimBegin, rowVars
  <2>3. CASE UnlaunchDone(w) \/ StopLoop(w) \/ DrainTimeout(w)
    BY <1>1, <2>1, <2>3 DEF UnlaunchDone, StopLoop, DrainTimeout, rowVars
  <2>4. CASE Signal(w) \/ Heartbeat(w) \/ \E d \in todo[w] : GiveBack(w, d[1], d[2])
    BY <1>1, <2>4 DEF Signal, Heartbeat, GiveBack, rowVars, procVars
  <2>5. CASE ClaimAsserts(w) \/ TickRaises(w)
    <3>1. /\ exec' = exec \ Unlaunched(w) /\ claims' = claims /\ active' = active
          /\ pc' = [pc EXCEPT ![w] = "drain"]
      BY <2>5 DEF ClaimAsserts, TickRaises, AbandonTick, rowVars
    <3>2. \A f \in exec' : f.stage = "claimed" => pc'[f.worker] = pc[f.worker]
      BY <3>1 DEF Unlaunched, AttemptsOf, TypeOK
    <3> QED BY <3>1, <3>2, AttemptsThinOut
  <2>6. CASE Exit(w) \/ Crash(w)
    <3>1. /\ exec' = exec \ AttemptsOf(w) /\ claims' = claims
          /\ active' = [active EXCEPT ![w] = [j \in Jobs |-> 0]]
          /\ pc' = [pc EXCEPT ![w] = "down"]
      BY <2>6 DEF Exit, Crash, Dies, rowVars
    <3>2. \A f \in exec' : f \in exec /\ f.worker # w
      BY <3>1 DEF AttemptsOf
    <3>3. \A f \in exec' : active'[f.worker] = active[f.worker] /\ pc'[f.worker] = pc[f.worker]
      BY <3>1, <3>2 DEF TypeOK
    <3> QED BY <3>1, <3>2, <3>3, AttemptsThinOut
  <2> QED
    BY <1>3, <2>2, <2>3, <2>4, <2>5, <2>6, AttemptsBegin, AttemptsLaunch, AttemptsUnlaunch
    DEF WorkerStep
<1>4. ASSUME NEW e \in exec, ThreadStep(e) PROVE AttemptInv'
  <2>1. CASE ExecStart(e) \/ ResolveFails(e) \/ ThreadHook(e) \/ Succeed(e) \/ Fail(e)
    <3>1. claims' = claims /\ active' = active /\ pc' = pc
      BY <2>1 DEF ExecStart, ResolveFails, ThreadHook, Succeed, Fail, rowVars, procVars
    <3>2. Becomes(e, "handler") \/ Becomes(e, "unresolved") \/ Becomes(e, "written")
      BY <2>1, Zenon DEF ExecStart, ResolveFails, ThreadHook, Succeed, Fail
    <3>3. "handler" # "claimed" /\ "unresolved" # "claimed" /\ "written" # "claimed"
      OBVIOUS
    <3> QED BY <3>1, <3>2, <3>3, AttemptMovesOn
  <2>2. CASE Checkpoint(e)
    BY <1>1, <2>2 DEF Checkpoint, procVars
  <2>3. CASE WritebackLost(e) \/ Finally(e)
    BY <2>3, AttemptsEnd DEF WritebackLost, Finally, rowVars
  <2> QED BY <1>4, <2>1, <2>2, <2>3 DEF ThreadStep
<1>5. ASSUME NEW j \in Jobs, GoStale(j) PROVE AttemptInv'
  BY <1>1, <1>5 DEF GoStale, procVars
<1> QED BY <1>2, <1>3, <1>4, <1>5 DEF Next

(* Every worker knows its own attempts by the tokens they carry. *)
THEOREM AttemptsAreRegistered == Spec => []AttemptInv
<1>1. Init => AttemptInv
  BY DEF Init, AttemptInv
<1>2. TypeOK /\ AttemptInv /\ [Next]_vars => AttemptInv'
  <2>1. TypeOK /\ AttemptInv /\ UNCHANGED vars => AttemptInv'
    BY DEF AttemptInv, vars
  <2> QED BY <2>1, AttemptInvStep
<1> QED BY <1>1, <1>2, TypeCorrect, PTL DEF Spec

(* A worker heartbeats every row it still owns: whatever other attempts of   *)
(* the same job it runs, ends, gives back or has lost, the token of the      *)
(* attempt that holds the row is in its _active_tokens.                      *)
THEOREM OwnedRowsStayFresh == Spec => []OwnedRowsAreHeartbeated
<1>1. QueueInv /\ AttemptInv => OwnedRowsAreHeartbeated
  <2> SUFFICES ASSUME QueueInv, AttemptInv, NEW e \in exec, Holds(e.job, e.token)
               PROVE  active[e.worker][e.job] = e.token
    BY DEF OwnedRowsAreHeartbeated
  <2>1. e.job \in Jobs
    BY AttemptFields DEF QueueInv
  <2>2. e.token = claims[e.job]
    BY <2>1 DEF Holds, QueueInv, RowInv
  <2> QED BY <2>2 DEF AttemptInv
<1> QED BY <1>1, Invariance, AttemptsAreRegistered, PTL

----------------------------------------------------------------------------
(* Heartbeats on time.                                                     *)

\* The attempt may still be executing, or about to.
Going(e) == e.stage \in {"claimed", "submitted", "handler"}

ClaimStands(e) == Holds(e.job, e.token) /\ ~row[e.job].stale

\* OverlapOnlyInDrain made inductive.  Until its worker's grace period is over, a
\* going attempt holds its row and the row is fresh: what a sweep has locked stays
\* stale, and what a requeue loop still has to give back is the claim of no attempt
\* but those a drain has given up on.
TimelyInv ==
    /\ \A w \in Workers : \A j \in tx[w].swept : row[j].stale
    /\ \A w \in Workers : \A d \in todo[w] :
          /\ d[2] <= claims[d[1]]
          /\ \A e \in exec : e.job = d[1] /\ e.token = d[2] => pc[e.worker] = "requeue"
    /\ \A e \in exec : pc[e.worker] # "down"
    /\ \A e \in exec : Going(e) => pc[e.worker] = "requeue" \/ ClaimStands(e)

(* The stale mark of a row that is not rewritten. *)
LEMMA StaleField ==
    ASSUME NEW r \in Row
    PROVE  /\ [r EXCEPT !.stale = TRUE].stale = TRUE
           /\ \A b \in BOOLEAN : /\ [r EXCEPT !.stale = b].state = r.state
                                 /\ [r EXCEPT !.stale = b].token = r.token
                                 /\ [r EXCEPT !.stale = b].stale = b
           /\ \A t : /\ [r EXCEPT !.checkpoint = t].stale = r.stale
                     /\ [r EXCEPT !.checkpoint = t].state = r.state
                     /\ [r EXCEPT !.checkpoint = t].token = r.token
BY DEF Row

(* A row a sweep has locked stays stale until the sweep commits. *)
LEMMA SweptStaysStale ==
    ASSUME TypeOK, TxInv, NEW w \in Workers, NEW j \in tx[w].swept, row[j].stale, RowStep(j)
    PROVE  row'[j].stale \/ tx'[w] = NoTx
<1>0. j \in Jobs /\ row[j] \in Row /\ row[j].state = "running" /\ ~Unlocked(j)
  BY DEF TypeOK, TxInv, Unlocked
<1>1. CASE Untouched(j)
  BY <1>1 DEF Untouched
<1>2. CASE Beaten(j)
  BY <1>0, <1>2, StaleField DEF Beaten
<1>3. ~Inserted(j) /\ ~Deleted(j) /\ ~Withdrawn(j) /\ ~WrittenByHolder(j)
  BY <1>0 DEF Inserted, Deleted, Withdrawn, WrittenByHolder, TerminalStates
<1>4. ASSUME NEW v \in Workers, Committed(v, j) PROVE tx'[w] = NoTx
  <2>1. pc[w] = "tx"
    BY DEF TxInv, NoTx
  <2>2. v = w
    BY <1>4, <2>1 DEF Committed, TxInv
  <2> QED BY <1>4, <2>2 DEF Committed, TypeOK
<1> QED BY <1>1, <1>2, <1>3, <1>4 DEF RowStep

(* An attempt in memory after a step was there before it, under the same claim *)
(* and no further on, or was made by the claim the step commits.               *)
Continues(f, e) ==
    /\ e.worker = f.worker /\ e.job = f.job /\ e.token = f.token
    /\ Going(f) => Going(e)
    /\ pc[e.worker] = "requeue" => pc'[e.worker] = "requeue"
    /\ pc[e.worker] # "down" => pc'[e.worker] # "down"

Fresh(f) ==
    /\ f.job \in Jobs
    /\ claims[f.job] < f.token
    /\ pc'[f.worker] = "claimed"
    /\ ClaimStands(f)'

(* The columns of a row that has just been claimed. *)
LEMMA ClaimedFields ==
    ASSUME NEW r \in Row, NEW t
    PROVE  Claimed(r, t).state = "running" /\ Claimed(r, t).token = t /\ ~Claimed(r, t).stale
BY DEF Row, Claimed

(* The attempts of a claim are fresh. *)
LEMMA ClaimMakesFresh ==
    ASSUME TypeOK, NEW w \in Workers, ClaimAdmit(w), NEW f \in exec'
    PROVE  Fresh(f) \/ (f \in exec /\ Continues(f, f))
<1> DEFINE swept == [j \in Jobs |-> IF j \in tx[w].swept THEN Swept(row[j]) ELSE row[j]]
           admitted == AdmittedRows(w)
           Made(j) == NewAttempt(w, j, swept[j])
<1>1. admitted \subseteq Jobs
  BY AdmittedAreQueued
<1>2. \A j \in Jobs : swept[j] \in Row
  BY RowUpdates DEF TypeOK
<1>3. /\ exec' = exec \cup {Made(j) : j \in admitted}
      /\ pc[w] = "tx"
      /\ pc' = [pc EXCEPT ![w] = IF admitted = {} THEN "idle" ELSE "claimed"]
      /\ row' = [j \in Jobs |-> IF j \in admitted THEN Claimed(swept[j], claims[j] + 1)
                                                  ELSE swept[j]]
  BY DEF ClaimAdmit
<1>4. \A j \in admitted : /\ Made(j).worker = w /\ Made(j).job = j
                          /\ Made(j).token = claims[j] + 1
  BY DEF NewAttempt
<1> HIDE DEF swept, admitted, Made
<1>5. claims \in [Jobs -> Nat] /\ pc \in [Workers -> Places]
  BY DEF TypeOK
<1>6. CASE f \in exec
  <2>1. pc'[f.worker] = pc[f.worker] \/ (pc[f.worker] = "tx" /\ pc'[f.worker] \in {"idle", "claimed"})
    BY <1>3, <1>5, <1>6, AttemptFields
  <2> QED BY <1>6, <2>1 DEF Continues
<1>7. ASSUME NEW j \in admitted, f = Made(j) PROVE Fresh(f)
  <2>1. /\ row'[j].state = "running" /\ row'[j].token = claims[j] + 1 /\ ~row'[j].stale
    BY <1>1, <1>2, <1>3, ClaimedFields
  <2>2. pc'[w] = "claimed" /\ claims[j] < claims[j] + 1
    BY <1>1, <1>3, <1>5
  <2> QED BY <1>1, <1>4, <1>7, <2>1, <2>2 DEF Fresh, ClaimStands, Holds
<1> QED BY <1>3, <1>6, <1>7

(* Where the attempts of the next state come from. *)
LEMMA AttemptsContinue ==
    ASSUME TypeOK, Next, NEW f \in exec'
    PROVE  Fresh(f) \/ \E e \in exec : Continues(f, e)
<1>1. ASSUME pc' = pc, f \in exec PROVE Continues(f, f)
  BY <1>1 DEF Continues
<1>2. CASE WebStep
  BY <1>1, <1>2
  DEF WebStep, Enqueue, Cancel, SaveSettings, RunHook, WebCrash, procVars
<1>3. ASSUME NEW w \in Workers, WorkerStep(w) PROVE Fresh(f) \/ \E e \in exec : Continues(f, e)
  <2>1. ASSUME f \in exec, NEW p \in Places, pc' = [pc EXCEPT ![w] = p], pc[w] # "requeue", p # "down"
        PROVE  Continues(f, f)
    BY <2>1, AttemptFields DEF Continues, TypeOK
  <2>2. CASE Start(w) \/ TickBegin(w) \/ LockBusy(w) \/ ClaimBegin(w)
    BY <2>1, <2>2 DEF Start, TickBegin, LockBusy, ClaimBegin, Places
  <2>3. CASE UnlaunchDone(w) \/ StopLoop(w) \/ DrainTimeout(w)
    BY <2>1, <2>3 DEF UnlaunchDone, StopLoop, DrainTimeout, Places
  <2>4. CASE Signal(w) \/ Heartbeat(w) \/ \E d \in todo[w] : GiveBack(w, d[1], d[2])
    BY <1>1, <2>4 DEF Signal, Heartbeat, GiveBack, procVars
  <2>5. CASE ClaimAsserts(w) \/ TickRaises(w)
    <3>1. /\ exec' = exec \ Unlaunched(w)
          /\ pc' = [pc EXCEPT ![w] = "drain"] /\ pc[w] # "requeue"
      BY <2>5 DEF ClaimAsserts, TickRaises, AbandonTick
    <3> QED BY <2>1, <3>1 DEF Places
  <2>6. CASE Exit(w) \/ Crash(w)
    <3>1. exec' = exec \ AttemptsOf(w) /\ pc' = [pc EXCEPT ![w] = "down"]
      BY <2>6 DEF Exit, Crash, Dies
    <3>2. f \in exec /\ f.worker # w /\ f.worker \in Workers
      BY <3>1, AttemptFields DEF AttemptsOf
    <3>3. pc'[f.worker] = pc[f.worker]
      BY <3>1, <3>2 DEF TypeOK
    <3> QED BY <3>2, <3>3 DEF Continues
  <2>7. CASE ClaimAdmit(w)
    BY <2>7, ClaimMakesFresh
  <2>8. CASE Unlaunch(w)
    <3>1. /\ exec' = exec \ Unlaunched(w)
          /\ pc' = [pc EXCEPT ![w] = "unlaunch"] /\ pc[w] = "claimed"
      BY <2>8 DEF Unlaunch
    <3> QED BY <2>1, <3>1 DEF Places
  <2>9. CASE Launch(w)
    <3>1. /\ exec' = (exec \ Unlaunched(w))
                       \cup {[e EXCEPT !.stage = "submitted"] : e \in Unlaunched(w)}
          /\ pc' = [pc EXCEPT ![w] = "idle"] /\ pc[w] = "claimed"
      BY <2>9 DEF Launch
    <3>2. CASE f \in exec
      BY <2>1, <3>1, <3>2 DEF Places
    <3>3. CASE f \notin exec
      <4>1. PICK e \in Unlaunched(w) : f = [e EXCEPT !.stage = "submitted"]
        BY <3>1, <3>3
      <4>2. e \in exec /\ e.worker = w /\ e.stage = "claimed"
        BY DEF Unlaunched, AttemptsOf
      <4>3. e.worker = f.worker /\ e.job = f.job /\ e.token = f.token
        BY <4>1, <4>2, AttemptFields, NextStage
      <4>4. pc'[w] = "idle"
        BY <3>1 DEF TypeOK
      <4> QED BY <3>1, <4>2, <4>3, <4>4 DEF Continues, Going
    <3> QED BY <3>2, <3>3
  <2> QED BY <1>3, <2>2, <2>3, <2>4, <2>5, <2>6, <2>7, <2>8, <2>9 DEF WorkerStep
<1>4. ASSUME NEW e \in exec, ThreadStep(e) PROVE \E d \in exec : Continues(f, d)
  <2>1. pc' = pc
    BY <1>4, Zenon
    DEF ThreadStep, ExecStart, ResolveFails, ThreadHook, Checkpoint, Succeed, Fail,
        WritebackLost, Finally, procVars
  <2>2. CASE f \in exec
    BY <1>1, <2>1, <2>2
  <2>3. CASE f \notin exec
    <3>1. \/ exec' = exec \/ exec' = exec \ {e}
          \/ Becomes(e, "handler") /\ e.stage = "submitted"
          \/ Becomes(e, "unresolved") \/ Becomes(e, "written")
      BY <1>4, Zenon
      DEF ThreadStep, ExecStart, ResolveFails, ThreadHook, Checkpoint, Succeed, Fail,
          WritebackLost, Finally, LeavesPool
    <3>2. PICK st \in {"handler", "unresolved", "written"} :
            Becomes(e, st) /\ (st = "handler" => e.stage = "submitted")
      BY <2>3, <3>1
    <3>3. f = [e EXCEPT !.stage = st]
      BY <2>3, <3>2 DEF Becomes
    <3>4. e.worker = f.worker /\ e.job = f.job /\ e.token = f.token /\ f.stage = st
      BY <3>3, AttemptFields, NextStage
    <3>5. Going(f) => Going(e)
      BY <3>2, <3>4 DEF Going
    <3> QED BY <2>1, <3>4, <3>5 DEF Continues
  <2> QED BY <2>2, <2>3
<1>5. ASSUME NEW j \in Jobs, GoStale(j) PROVE Continues(f, f) /\ f \in exec
  BY <1>1, <1>5 DEF GoStale, procVars
<1> QED BY <1>2, <1>3, <1>4, <1>5 DEF Next

(* The row of a going attempt stays its own, and fresh, unless a drain gave it up. *)
LEMMA ClaimKeepsStanding ==
    ASSUME TypeOK, TxInv, AttemptInv, TimelyInv, TimelyHeartbeats,
           NEW e \in exec, ClaimStands(e), pc[e.worker] # "requeue", RowStep(e.job),
           e.token = claims[e.job],
           NEW f \in exec', Continues(f, e), Going(f)
    PROVE  ClaimStands(e)'
<1> DEFINE j == e.job
<1>0. /\ e.worker \in Workers /\ j \in Jobs /\ row[j] \in Row
      /\ row[j].state = "running" /\ row[j].token = e.token /\ ~row[j].stale
      /\ pc[e.worker] # "down" /\ active[e.worker][j] = e.token
  BY AttemptFields DEF ClaimStands, Holds, TimelyInv, AttemptInv
<1> SUFFICES row'[j].state = "running" /\ row'[j].token = e.token /\ ~row'[j].stale
  BY DEF ClaimStands, Holds
<1> HIDE DEF j
<1>1. CASE Untouched(j)
  BY <1>0, <1>1 DEF Untouched
<1>2. CASE Beaten(j)
  <2>1. ~Abandoned(j)
    BY <1>0 DEF Abandoned
  <2>2. row'[j] = [row[j] EXCEPT !.stale = FALSE]
    BY <1>2, <2>1 DEF Beaten
  <2> QED BY <1>0, <2>2, StaleField
<1>3. ~Inserted(j) /\ ~Deleted(j) /\ ~Withdrawn(j)
  BY <1>0 DEF Inserted, Deleted, Withdrawn, TerminalStates
<1>4. ASSUME NEW w \in Workers PROVE ~Committed(w, j)
  BY <1>0 DEF Committed, TimelyInv
<1>5. CASE WrittenByHolder(j)
  <2>1. ~ToGiveBack(j)
    <3> SUFFICES ASSUME NEW w \in Workers, <<j, row[j].token>> \in todo[w] PROVE FALSE
      BY DEF ToGiveBack
    <3> DEFINE d == <<j, row[j].token>>
    <3>1. d[1] = e.job /\ d[2] = e.token
      BY <1>0 DEF j
    <3> HIDE DEF d
    <3>2. d \in todo[w]
      BY DEF d
    <3>3. pc[e.worker] = "requeue"
      BY <3>1, <3>2 DEF TimelyInv
    <3> QED BY <3>3
  <2>2. ~AttemptOver(j)
    <3> SUFFICES ASSUME NEW g \in exec, g.job = j, g.token = row[j].token,
                        NEW st \in {"unresolved", "written"}, Becomes(g, st)
                 PROVE  FALSE
      BY DEF AttemptOver
    <3>1. g = e
      BY <1>0 DEF AttemptInv, j
    <3>2. f \in exec \ {e} \/ f = [e EXCEPT !.stage = st]
      BY <3>1 DEF Becomes
    <3>3. f \notin exec \ {e}
      BY DEF Continues, AttemptInv
    <3>4. f.stage = st
      <4>1. f = [e EXCEPT !.stage = st] /\ e \in Attempt
        BY <3>2, <3>3, AttemptFields
      <4> QED BY <4>1, NextStage
    <3> QED BY <3>4 DEF Going
  <2>3. row'[j] = [row[j] EXCEPT !.checkpoint = row[j].token]
    BY <1>5, <2>1, <2>2 DEF WrittenByHolder
  <2> QED BY <1>0, <2>3, StaleField
<1>6. RowStep(j)
  BY DEF j
<1> QED BY <1>1, <1>2, <1>3, <1>4, <1>5, <1>6 DEF RowStep

(* What a requeue loop has to do: the rest of what it had, claims it has just     *)
(* taken out of memory, or what a drain has given up on.                          *)
LEMMA TodoFacts ==
    ASSUME TypeOK, Next, NEW w \in Workers, NEW d \in todo'[w]
    PROVE  \/ d \in todo[w]
           \/ \E m \in exec : d = <<m.job, m.token>> /\ exec' = exec \ Unlaunched(w)
                              /\ m \in Unlaunched(w) /\ claims' = claims
           \/ \E m \in exec : d = <<m.job, m.token>> /\ exec' = exec /\ claims' = claims
                              /\ m.worker = w /\ pc'[w] = "requeue"
<1>1. CASE UNCHANGED todo
  BY <1>1
<1>2. CASE WebStep
  BY <1>1, <1>2
  DEF WebStep, Enqueue, Cancel, SaveSettings, RunHook, WebCrash, procVars
<1>3. ASSUME NEW v \in Workers, WorkerStep(v)
      PROVE  \/ d \in todo[w]
             \/ \E m \in exec : d = <<m.job, m.token>> /\ exec' = exec \ Unlaunched(w)
                                /\ m \in Unlaunched(w) /\ claims' = claims
             \/ \E m \in exec : d = <<m.job, m.token>> /\ exec' = exec /\ claims' = claims
                                /\ m.worker = w /\ pc'[w] = "requeue"
  <2>1. ASSUME NEW s, todo' = [todo EXCEPT ![v] = s], s = {} PROVE d \in todo[w]
    BY <2>1 DEF TypeOK
  <2>2. CASE ClaimAsserts(v) \/ TickRaises(v) \/ Exit(v) \/ Crash(v)
    BY <2>1, <2>2 DEF ClaimAsserts, TickRaises, AbandonTick, Exit, Crash, Dies
  <2>3. CASE Unlaunch(v)
    <3>1. /\ exec' = exec \ Unlaunched(v) /\ claims' = claims
          /\ todo' = [todo EXCEPT ![v] = {<<e.job, e.token>> : e \in Unlaunched(v)}]
          /\ Unlaunched(v) \subseteq exec
      BY <2>3 DEF Unlaunch, Unlaunched, AttemptsOf, rowVars
    <3>2. CASE v = w
      BY <3>1, <3>2 DEF TypeOK
    <3>3. CASE v # w
      BY <3>1, <3>3 DEF TypeOK
    <3> QED BY <3>2, <3>3
  <2>4. CASE DrainTimeout(v)
    <3>1. /\ exec' = exec /\ claims' = claims
          /\ todo' = [todo EXCEPT ![v] = {<<e.job, e.token>> : e \in Inflight(v)}]
          /\ pc' = [pc EXCEPT ![v] = "requeue"]
          /\ \A m \in Inflight(v) : m \in exec /\ m.worker = v
      BY <2>4 DEF DrainTimeout, Inflight, AttemptsOf, rowVars
    <3>2. CASE v = w
      BY <3>1, <3>2 DEF TypeOK
    <3>3. CASE v # w
      BY <3>1, <3>3 DEF TypeOK
    <3> QED BY <3>2, <3>3
  <2>5. ASSUME NEW c \in todo[v], GiveBack(v, c[1], c[2]) PROVE d \in todo[w]
    <3>1. todo' = [todo EXCEPT ![v] = @ \ {<<c[1], c[2]>>}]
      BY <2>5 DEF GiveBack
    <3> QED BY <3>1 DEF TypeOK
  <2>6. CASE Start(v) \/ Signal(v) \/ Heartbeat(v) \/ TickBegin(v) \/ LockBusy(v) \/ ClaimBegin(v)
    BY <1>1, <2>6 DEF Start, Signal, Heartbeat, TickBegin, LockBusy, ClaimBegin, procVars
  <2>7. CASE ClaimAdmit(v) \/ Launch(v) \/ UnlaunchDone(v) \/ StopLoop(v)
    BY <1>1, <2>7 DEF ClaimAdmit, Launch, UnlaunchDone, StopLoop
  <2> QED BY <1>3, <2>2, <2>3, <2>4, <2>5, <2>6, <2>7 DEF WorkerStep
<1>4. ASSUME NEW e \in exec, ThreadStep(e) PROVE UNCHANGED todo
  BY <1>4, Zenon
  DEF ThreadStep, ExecStart, ResolveFails, ThreadHook, Checkpoint, Succeed, Fail,
      WritebackLost, Finally, procVars
<1>5. ASSUME NEW j \in Jobs, GoStale(j) PROVE UNCHANGED todo
  BY <1>5 DEF GoStale, procVars
<1> QED BY <1>1, <1>2, <1>3, <1>4, <1>5 DEF Next

(* What a transaction has swept: what it had, or what it has just read as stale. *)
LEMMA SweptFacts ==
    ASSUME TypeOK, Next, NEW w \in Workers, NEW j \in tx'[w].swept
    PROVE  \/ j \in tx[w].swept /\ tx'[w] = tx[w]
           \/ row' = row /\ row[j].stale
<1>1. CASE UNCHANGED tx
  BY <1>1
<1>2. CASE WebStep
  BY <1>1, <1>2
  DEF WebStep, Enqueue, Cancel, SaveSettings, RunHook, WebCrash, procVars
<1>3. ASSUME NEW v \in Workers, WorkerStep(v)
      PROVE  \/ j \in tx[w].swept /\ tx'[w] = tx[w]
             \/ row' = row /\ row[j].stale
  <2>1. ASSUME tx' = [tx EXCEPT ![v] = NoTx] PROVE j \in tx[w].swept /\ tx'[w] = tx[w]
    <3>1. NoTx.swept = {}
      BY DEF NoTx
    <3> QED BY <2>1, <3>1 DEF TypeOK
  <2>2. CASE ClaimAdmit(v) \/ ClaimAsserts(v) \/ TickRaises(v) \/ Exit(v) \/ Crash(v)
    BY <2>1, <2>2, Zenon
    DEF ClaimAdmit, ClaimAsserts, TickRaises, AbandonTick, Exit, Crash, Dies
  <2>3. CASE ClaimBegin(v)
    <3> DEFINE orphans == {i \in In("running") : row[i].stale}
    <3>1. /\ tx' = [tx EXCEPT ![v] = [swept |-> orphans, running |-> In("running") \ orphans]]
          /\ row' = row
      BY <2>3 DEF ClaimBegin, rowVars
    <3>2. \A i \in orphans : row[i].stale
      OBVIOUS
    <3> HIDE DEF orphans
    <3>3. CASE v = w
      BY <3>1, <3>2, <3>3 DEF TypeOK
    <3>4. CASE v # w
      BY <3>1, <3>4 DEF TypeOK
    <3> QED BY <3>3, <3>4
  <2>4. CASE Start(v) \/ Signal(v) \/ Heartbeat(v) \/ TickBegin(v) \/ LockBusy(v)
    BY <1>1, <2>4 DEF Start, Signal, Heartbeat, TickBegin, LockBusy
  <2>5. CASE Launch(v) \/ Unlaunch(v) \/ UnlaunchDone(v) \/ StopLoop(v) \/ DrainTimeout(v)
    BY <1>1, <2>5 DEF Launch, Unlaunch, UnlaunchDone, StopLoop, DrainTimeout
  <2>6. CASE \E c \in todo[v] : GiveBack(v, c[1], c[2])
    BY <1>1, <2>6 DEF GiveBack
  <2> QED BY <1>3, <2>2, <2>3, <2>4, <2>5, <2>6 DEF WorkerStep
<1>4. ASSUME NEW e \in exec, ThreadStep(e) PROVE UNCHANGED tx
  BY <1>4, Zenon
  DEF ThreadStep, ExecStart, ResolveFails, ThreadHook, Checkpoint, Succeed, Fail,
      WritebackLost, Finally
<1>5. ASSUME NEW i \in Jobs, GoStale(i) PROVE UNCHANGED tx
  BY <1>5 DEF GoStale
<1> QED BY <1>1, <1>2, <1>3, <1>4, <1>5 DEF Next

(* Claims are only ever added. *)
LEMMA ClaimsGrow ==
    ASSUME TypeOK, NEW j \in Jobs, RowStep(j)
    PROVE  claims[j] \in Nat /\ claims'[j] \in Nat /\ claims[j] <= claims'[j]
<1>1. claims[j] \in Nat
  BY DEF TypeOK
<1> QED
  BY <1>1 DEF RowStep, Untouched, Beaten, Inserted, Deleted, Withdrawn, WrittenByHolder,
              Committed, SameClaims

(* Every step keeps TimelyInv. *)
LEMMA TimelyInvStep ==
    ASSUME QueueInv, AttemptInv, AttemptInv', TypeOK', TimelyInv, TimelyHeartbeats, Next
    PROVE  TimelyInv'
<1>0. TypeOK /\ TxInv /\ \A j \in Jobs : RowInv(j) /\ RowStep(j)
  BY EveryStepIsARowStep DEF QueueInv
<1>1. ASSUME NEW w \in Workers, NEW j \in tx'[w].swept PROVE row'[j].stale
  <2>1. CASE j \in tx[w].swept /\ tx'[w] = tx[w]
    <3>1. j \in Jobs /\ row[j].stale /\ tx[w] # NoTx
      BY <1>0, <2>1 DEF TypeOK, TimelyInv, NoTx
    <3> QED BY <1>0, <2>1, <3>1, SweptStaysStale
  <2> QED BY <1>0, <2>1, SweptFacts
<1>2. ASSUME NEW w \in Workers, NEW d \in todo'[w]
      PROVE  /\ d[2] <= claims'[d[1]]
             /\ \A f \in exec' : f.job = d[1] /\ f.token = d[2] => pc'[f.worker] = "requeue"
  <2>1. CASE d \in todo[w]
    <3>1. /\ d[1] \in Jobs /\ d[2] \in Nat /\ d[2] <= claims[d[1]]
          /\ \A e \in exec : e.job = d[1] /\ e.token = d[2] => pc[e.worker] = "requeue"
      BY <1>0, <2>1 DEF TypeOK, TimelyInv
    <3>2. claims[d[1]] \in Nat /\ claims'[d[1]] \in Nat /\ claims[d[1]] <= claims'[d[1]]
      BY <1>0, <3>1, ClaimsGrow
    <3>3. ASSUME NEW f \in exec', f.job = d[1], f.token = d[2] PROVE pc'[f.worker] = "requeue"
      <4>1. ~Fresh(f)
        BY <3>1, <3>2, <3>3 DEF Fresh
      <4>2. PICK e \in exec : Continues(f, e)
        BY <1>0, <4>1, AttemptsContinue
      <4> QED BY <3>1, <3>3, <4>2 DEF Continues
    <3> QED BY <3>1, <3>2, <3>3
  <2>2. ASSUME NEW m \in exec, d = <<m.job, m.token>>, exec' = exec \ Unlaunched(w),
               m \in Unlaunched(w), claims' = claims
        PROVE  /\ d[2] <= claims'[d[1]]
               /\ \A f \in exec' : f.job = d[1] /\ f.token = d[2] => pc'[f.worker] = "requeue"
    BY <2>2 DEF AttemptInv
  <2>3. ASSUME NEW m \in exec, d = <<m.job, m.token>>, exec' = exec, claims' = claims,
               m.worker = w, pc'[w] = "requeue"
        PROVE  /\ d[2] <= claims'[d[1]]
               /\ \A f \in exec' : f.job = d[1] /\ f.token = d[2] => pc'[f.worker] = "requeue"
    BY <2>3 DEF AttemptInv
  <2> QED BY <1>0, <2>1, <2>2, <2>3, TodoFacts
<1>3. ASSUME NEW f \in exec' PROVE pc'[f.worker] # "down"
  <2>1. CASE Fresh(f)
    BY <2>1 DEF Fresh
  <2>2. ASSUME NEW e \in exec, Continues(f, e) PROVE pc'[f.worker] # "down"
    BY <2>2 DEF Continues, TimelyInv
  <2> QED BY <1>0, <2>1, <2>2, AttemptsContinue
<1>4. ASSUME NEW f \in exec', Going(f), pc'[f.worker] # "requeue" PROVE ClaimStands(f)'
  <2>1. CASE Fresh(f)
    BY <2>1 DEF Fresh
  <2>2. ASSUME NEW e \in exec, Continues(f, e) PROVE ClaimStands(f)'
    <3>1. pc[e.worker] # "requeue" /\ ClaimStands(e)
      BY <1>4, <2>2 DEF Continues, TimelyInv
    <3>2. e.job \in Jobs /\ e.token = claims[e.job]
      BY <1>0, <3>1, AttemptFields DEF ClaimStands, Holds, RowInv
    <3>3. ClaimStands(e)'
      BY <1>0, <1>4, <2>2, <3>1, <3>2, ClaimKeepsStanding
    <3> QED BY <2>2, <3>3 DEF Continues, ClaimStands, Holds
  <2> QED BY <1>0, <2>1, <2>2, AttemptsContinue
<1> QED BY <1>1, <1>2, <1>3, <1>4 DEF TimelyInv

(* With heartbeats on time, the handlers of two attempts of one job run at     *)
(* once only while the older one's worker is past the grace period of its      *)
(* drain: whatever crashes, failed writes, sweeps and requeues have happened.  *)
THEOREM OneHandlerAtATime == Spec => []OverlapOnlyInDrain
<1>1. Init => TimelyInv
  BY DEF Init, TimelyInv, NoTx
<1>2. TimelyHeartbeats /\ QueueInv /\ QueueInv' /\ AttemptInv /\ AttemptInv' /\ TimelyInv
        /\ [Next]_vars => TimelyInv'
  <2>1. TimelyInv /\ UNCHANGED vars => TimelyInv'
    BY DEF TimelyInv, ClaimStands, Holds, vars
  <2> QED BY <2>1, TimelyInvStep DEF QueueInv
<1>3. QueueInv /\ AttemptInv /\ TimelyInv => OverlapOnlyInDrain
  <2> SUFFICES ASSUME QueueInv, AttemptInv, TimelyInv, NEW e \in exec, NEW f \in exec,
                      e.job = f.job, e.token < f.token, e.stage = "handler"
               PROVE  pc[e.worker] = "requeue"
    BY DEF OverlapOnlyInDrain
  <2>1. TypeOK /\ \A j \in Jobs : RowInv(j)
    BY DEF QueueInv
  <2>2. e.token \in Nat /\ f.token \in Nat /\ e.job \in Jobs /\ claims[e.job] \in Nat
    BY <2>1, AttemptFields
  <2>3. CASE ClaimStands(e)
    <3>1. e.token = claims[e.job] /\ f.token <= claims[e.job]
      BY <2>1, <2>2, <2>3 DEF ClaimStands, Holds, RowInv, AttemptInv
    <3> QED BY <2>2, <3>1
  <2> QED BY <2>3 DEF TimelyInv, Going
<1>4. ~TimelyHeartbeats => OverlapOnlyInDrain
  BY DEF OverlapOnlyInDrain
<1>5. CASE TimelyHeartbeats
  BY <1>1, <1>2, <1>3, <1>5, Invariance, AttemptsAreRegistered, PTL DEF Spec
<1>6. CASE ~TimelyHeartbeats
  BY <1>4, <1>6, PTL
<1> QED BY <1>5, <1>6

---------------------------------------------------------------------------
(* Submission: how jobs enter the queue, and the settings forms.           *)

(* An insert, a prune and the worker's steps keep the type of a row. *)
LEMMA RowsStayTyped ==
    ASSUME SubTypeOK, [SubNext]_subVars
    PROVE  rows' \in [Pks -> JobRow]
<1> USE DEF SubTypeOK, JobRow, Active, TERMINAL_STATES
<1>1. ASSUME NEW c \in Clients, Insert(c)
      PROVE  rows' \in [Pks -> JobRow]
  <2>1. PICK i \in Pks : rows' = [rows EXCEPT ![i] = [state |-> "queued",
                                    priority |-> _resolve_priority(c), actor |-> Owner[c]]]
    BY <1>1 DEF Insert
  <2>2. client[c].asked \in {0} \cup Priorities
    BY DEF ClientRow
  <2>3. _resolve_priority(c) \in Priorities
    BY <2>2 DEF _resolve_priority, DefaultPriority, Priorities
  <2>4. Owner[c] \in {Owner[d] : d \in Clients}
    OBVIOUS
  <2> QED BY <2>1, <2>3, <2>4
<1>2. ASSUME NEW c \in Clients, PruneDelete(c)
      PROVE  rows' \in [Pks -> JobRow]
  BY <1>2 DEF PruneDelete
<1>3. ASSUME NEW i \in Pks, Runs(i) \/ Ends(i) \/ cancel_job(i)
      PROVE  rows' \in [Pks -> JobRow]
  BY <1>3 DEF Runs, Ends, cancel_job, RowBecomes
<1>4. ASSUME UNCHANGED rows
      PROVE  rows' \in [Pks -> JobRow]
  BY <1>4
<1>5. ASSUME NEW c \in Clients, enqueue(c), ~Insert(c), ~PruneDelete(c)
      PROVE  UNCHANGED rows
  BY <1>5 DEF enqueue, Begin, _enforce_principal_quota, InsertFails, PruneCutoff, PruneFails
<1>6. ASSUME NEW a \in Admins,
             queue_settings_update(a) \/ _update_retention_and_priority(a)
               \/ _update_budget_and_concurrency(a)
      PROVE  UNCHANGED rows
  BY <1>6 DEF queue_settings_update, _update_retention_and_priority,
              _update_budget_and_concurrency, Saves
<1>7. CASE UNCHANGED subVars
  BY <1>4, <1>7 DEF subVars
<1>8. CASE SubNext
  <2> USE DEF SubNext
  <2>1. CASE \E c \in Clients : enqueue(c)
    BY <1>1, <1>2, <1>4, <1>5, <2>1
  <2>2. CASE \E i \in Pks : Runs(i) \/ Ends(i) \/ cancel_job(i)
    BY <1>3, <2>2
  <2>3. CASE \E a \in Admins : \/ queue_settings_update(a)
                               \/ _update_retention_and_priority(a)
                               \/ _update_budget_and_concurrency(a)
    BY <1>4, <1>6, <2>3
  <2> QED BY <1>8, <2>1, <2>2, <2>3
<1> QED BY <1>7, <1>8

(* The cutoff of a prune is a row, or there is none. *)
LEMMA CutoffIsARow ==
    ASSUME NEW limit
    PROVE  Beyond(limit) \in {0} \cup Pks
<1> DEFINE past == {i \in FinishedRows : Cardinality({k \in FinishedRows : k > i}) = limit}
<1>1. past \subseteq Pks
  BY DEF FinishedRows
<1> HIDE DEF past
<1>2. Beyond(limit) = IF past = {} THEN 0 ELSE CHOOSE i \in past : TRUE
  BY DEF Beyond, past
<1> QED BY <1>1, <1>2

(* The steps of a request to enqueue, and cancel, keep the types.          *)
LEMMA RequestsStayTyped ==
    ASSUME SubTypeOK, [SubNext]_subVars
    PROVE  client' \in [Clients -> ClientRow]
<1> USE DEF SubTypeOK
<1>1. ASSUME NEW c \in Clients, NEW to \in ClientRow, Goes(c, to)
      PROVE  client' \in [Clients -> ClientRow]
  BY <1>1 DEF Goes
<1>2. ASSUME NEW c \in Clients, NEW what \in {"queued", "quota", "unavailable"}, Told(c, what)
      PROVE  client' \in [Clients -> ClientRow]
  BY <1>1, <1>2 DEF Told, ClientRow
<1>3. ASSUME NEW c \in Clients, enqueue(c)
      PROVE  client' \in [Clients -> ClientRow]
  <2>1. CASE Begin(c)
    <3>1. PICK read \in {jobSettings.retention, Unread}, asked \in {0, 1} :
            Goes(c, [at |-> "count", read |-> read, asked |-> asked, pk |-> 0, cutoff |-> 0,
                     told |-> "nothing"])
      BY <2>1 DEF Begin
    <3>2. jobSettings.retention \in Caps \X Limits
      BY DEF Settings
    <3> QED BY <1>1, <3>1, <3>2 DEF ClientRow, Priorities
  <2>2. CASE _enforce_principal_quota(c)
    BY <1>1, <1>2, <2>2 DEF _enforce_principal_quota, ClientRow
  <2>3. CASE Insert(c)
    <3>1. PICK i \in Pks :
            IF client[c].read = Unread
            THEN Goes(c, [client[c] EXCEPT !.at = "idle", !.asked = 0, !.pk = i, !.told = "queued"])
            ELSE Goes(c, [client[c] EXCEPT !.at = "prune", !.pk = i])
      BY <2>3 DEF Insert
    <3>2. /\ [client[c] EXCEPT !.at = "idle", !.asked = 0, !.pk = i, !.told = "queued"] \in ClientRow
          /\ [client[c] EXCEPT !.at = "prune", !.pk = i] \in ClientRow
      BY DEF ClientRow
    <3> QED BY <1>1, <3>1, <3>2
  <2>4. CASE PruneCutoff(c)
    BY <1>1, <1>2, <2>4, CutoffIsARow DEF PruneCutoff, ClientRow
  <2>5. CASE InsertFails(c) \/ PruneDelete(c) \/ PruneFails(c)
    BY <1>2, <2>5 DEF InsertFails, PruneDelete, PruneFails
  <2> QED BY <1>3, <2>1, <2>2, <2>3, <2>4, <2>5 DEF enqueue
<1>4. CASE UNCHANGED client
  BY <1>4
<1>5. ASSUME NEW i \in Pks, Runs(i) \/ Ends(i) \/ cancel_job(i)
      PROVE  UNCHANGED client
  BY <1>5 DEF Runs, Ends, cancel_job, RowBecomes
<1>6. ASSUME NEW a \in Admins,
             queue_settings_update(a) \/ _update_retention_and_priority(a)
               \/ _update_budget_and_concurrency(a)
      PROVE  UNCHANGED client
  BY <1>6 DEF queue_settings_update, _update_retention_and_priority,
              _update_budget_and_concurrency, Saves
<1>7. CASE UNCHANGED subVars
  BY <1>4, <1>7 DEF subVars
<1> QED BY <1>3, <1>4, <1>5, <1>6, <1>7 DEF SubNext

(* The saves of the two forms keep the types.                              *)
LEMMA SettingsStayTyped ==
    ASSUME SubTypeOK, [SubNext]_subVars
    PROVE  /\ jobSettings' \in Settings /\ saved' \in Settings
           /\ form' \in [Admins -> [of : Forms, read : Settings] \cup {Closed}]
           /\ saves' \in 0..MaxSaves /\ capped' \in BOOLEAN
<1> DEFINE Goal == /\ jobSettings' \in Settings /\ saved' \in Settings
                   /\ form' \in [Admins -> [of : Forms, read : Settings] \cup {Closed}]
                   /\ saves' \in 0..MaxSaves /\ capped' \in BOOLEAN
<1> USE DEF SubTypeOK
<1>1. CASE UNCHANGED <<jobSettings, form, saved, saves>> /\ capped' \in BOOLEAN
  BY <1>1
<1>2. ASSUME NEW a \in Admins, queue_settings_update(a)
      PROVE  Goal
  BY <1>2, SubmissionAssumption DEF queue_settings_update
<1>3. ASSUME NEW a \in Admins, _update_retention_and_priority(a)
      PROVE  Goal
  BY <1>3 DEF _update_retention_and_priority, Saves, Settings
<1>4. ASSUME NEW a \in Admins, _update_budget_and_concurrency(a)
      PROVE  Goal
  BY <1>4 DEF _update_budget_and_concurrency, Saves, Settings
<1>5. ASSUME NEW c \in Clients, enqueue(c)
      PROVE  UNCHANGED <<jobSettings, form, saved, saves>> /\ capped' \in BOOLEAN
  BY <1>5 DEF enqueue, Begin, _enforce_principal_quota, Insert, InsertFails, PruneCutoff,
              PruneDelete, PruneFails
<1>6. ASSUME NEW i \in Pks, Runs(i) \/ Ends(i) \/ cancel_job(i)
      PROVE  UNCHANGED <<jobSettings, form, saved, saves>> /\ capped' \in BOOLEAN
  BY <1>6 DEF Runs, Ends, cancel_job, RowBecomes
<1>7. CASE UNCHANGED subVars
  BY <1>1, <1>7 DEF subVars
<1> QED BY <1>1, <1>2, <1>3, <1>4, <1>5, <1>6, <1>7 DEF SubNext

(* The first state is well typed.                                          *)
LEMMA SubmissionTypeInit == SubInit => SubTypeOK
BY SubmissionAssumption
   DEF SubInit, SubTypeOK, JobRow, Active, TERMINAL_STATES, Priorities, ClientRow, Settings

(* So is every later one.                                                  *)
LEMMA SubmissionTypeStep == SubTypeOK /\ [SubNext]_subVars => SubTypeOK'
BY RowsStayTyped, RequestsStayTyped, SettingsStayTyped DEF SubTypeOK

(* Every variable stays in its range. *)
THEOREM SubmissionTypeCorrect == SubSpec => []SubTypeOK
BY SubmissionTypeInit, SubmissionTypeStep, PTL DEF SubSpec

---------------------------------------------------------------------------
(* The race of the cap, principal by principal.                            *)

ActiveOf(who) == {i \in Pks : rows[i].state \in Active /\ rows[i].actor = who}
Peers(who) == {c \in Clients : Owner[c] = who}
Inserting(who) == {c \in Peers(who) : client[c].at = "insert"}

\* Requests that were counted and have yet to insert have their room.
RoomFor(who) ==
    Cardinality(ActiveOf(who)) + Cardinality(Inserting(who))
        <= Largest(Caps) + Cardinality(Peers(who)) - 1

RaceInv ==
    /\ SubTypeOK
    /\ capped => \A c \in Clients : Owner[c] # "service" =>
         /\ client[c].at = "count" => client[c].read # Unread
         /\ RoomFor(Owner[c])

(* The caps have a largest, which is positive.                             *)
LEMMA LargestCap ==
    /\ Largest(Caps) \in Nat \ {0}
    /\ \A n \in Caps : n <= Largest(Caps)
BY SubmissionAssumption DEF Largest

(* The sets the race is counted in are finite.                             *)
LEMMA RaceSetsAreFinite ==
    ASSUME NEW who
    PROVE  /\ IsFiniteSet(ActiveOf(who)) /\ Cardinality(ActiveOf(who)) \in Nat
           /\ IsFiniteSet(Peers(who)) /\ Cardinality(Peers(who)) \in Nat
           /\ IsFiniteSet(Inserting(who)) /\ Cardinality(Inserting(who)) \in Nat
           /\ Cardinality(Inserting(who)) <= Cardinality(Peers(who))
<1>1. IsFiniteSet(Pks)
  BY SubmissionAssumption, FS_Interval DEF Pks
<1>2. ActiveOf(who) \subseteq Pks /\ Peers(who) \subseteq Clients /\ Inserting(who) \subseteq Peers(who)
  BY DEF ActiveOf, Peers, Inserting
<1>3. IsFiniteSet(ActiveOf(who)) /\ IsFiniteSet(Peers(who))
  BY <1>1, <1>2, FS_Subset, SubmissionAssumption
<1>4. IsFiniteSet(Inserting(who)) /\ Cardinality(Inserting(who)) <= Cardinality(Peers(who))
  BY <1>2, <1>3, FS_Subset
<1> QED BY <1>3, <1>4, FS_CardinalityType

(* A step of a request changes no other request; only Begin leads to the    *)
(* count and only a count that passes leads to the insert.                 *)
LEMMA RequestsStepAlone ==
    ASSUME SubTypeOK, NEW c \in Clients, enqueue(c)
    PROVE  /\ \A d \in Clients \ {c} : client'[d] = client[d]
           /\ client'[c].at = "count" => Begin(c)
           /\ client'[c].at = "insert" => _enforce_principal_quota(c)
<1> DEFINE Goal == /\ \A d \in Clients \ {c} : client'[d] = client[d]
                   /\ client'[c].at = "count" => Begin(c)
                   /\ client'[c].at = "insert" => _enforce_principal_quota(c)
<1>1. client \in [Clients -> ClientRow] /\ client[c] \in ClientRow
  BY DEF SubTypeOK
<1>2. ASSUME NEW to, Goes(c, to)
      PROVE  client'[c] = to /\ \A d \in Clients \ {c} : client'[d] = client[d]
  BY <1>1, <1>2 DEF Goes
<1>3. ASSUME NEW what, Told(c, what)
      PROVE  client'[c].at = "idle" /\ \A d \in Clients \ {c} : client'[d] = client[d]
  BY <1>2, <1>3 DEF Told
<1>4. CASE Begin(c)
  <2>1. PICK read, asked :
          Goes(c, [at |-> "count", read |-> read, asked |-> asked, pk |-> 0, cutoff |-> 0,
                   told |-> "nothing"])
    BY <1>4 DEF Begin
  <2> QED BY <1>2, <1>4, <2>1
<1>5. CASE _enforce_principal_quota(c)
  <2>1. CASE OverCap(c)
    BY <1>3, <1>5, <2>1 DEF _enforce_principal_quota
  <2>2. CASE ~OverCap(c)
    <3>1. Goes(c, [client[c] EXCEPT !.at = "insert"])
      BY <1>5, <2>2 DEF _enforce_principal_quota
    <3>2. client'[c].at = "insert"
      BY <1>1, <1>2, <3>1 DEF ClientRow
    <3> QED BY <1>2, <1>5, <3>1, <3>2
  <2> QED BY <2>1, <2>2
<1>6. CASE Insert(c)
  <2>1. PICK i : \/ Goes(c, [client[c] EXCEPT !.at = "idle", !.asked = 0, !.pk = i, !.told = "queued"])
                 \/ Goes(c, [client[c] EXCEPT !.at = "prune", !.pk = i])
    BY <1>6 DEF Insert
  <2>2. client'[c].at \in {"idle", "prune"}
    <3>1. /\ [client[c] EXCEPT !.at = "idle", !.asked = 0, !.pk = i, !.told = "queued"].at = "idle"
          /\ [client[c] EXCEPT !.at = "prune", !.pk = i].at = "prune"
      BY <1>1 DEF ClientRow
    <3> QED BY <1>2, <2>1, <3>1
  <2>3. \A d \in Clients \ {c} : client'[d] = client[d]
    BY <1>2, <2>1
  <2> QED BY <2>2, <2>3
<1>7. CASE PruneCutoff(c)
  <2>1. PICK n : Told(c, "queued") \/ Goes(c, [client[c] EXCEPT !.at = "delete", !.cutoff = n])
    BY <1>7 DEF PruneCutoff
  <2>2. client'[c].at \in {"idle", "delete"}
    <3>1. [client[c] EXCEPT !.at = "delete", !.cutoff = n].at = "delete"
      BY <1>1 DEF ClientRow
    <3> QED BY <1>2, <1>3, <2>1, <3>1
  <2> QED BY <1>2, <1>3, <2>1, <2>2
<1>8. CASE InsertFails(c) \/ PruneDelete(c) \/ PruneFails(c)
  BY <1>3, <1>8 DEF InsertFails, PruneDelete, PruneFails
<1> QED BY <1>4, <1>5, <1>6, <1>7, <1>8 DEF enqueue

(* Fewer active jobs and fewer requests about to insert leave room. *)
LEMMA LessLeavesRoom ==
    ASSUME NEW who, RoomFor(who),
           ActiveOf(who)' \subseteq ActiveOf(who), Inserting(who)' \subseteq Inserting(who)
    PROVE  RoomFor(who)'
<1>1. /\ Cardinality(ActiveOf(who)') <= Cardinality(ActiveOf(who))
      /\ Cardinality(Inserting(who)') <= Cardinality(Inserting(who))
      /\ IsFiniteSet(ActiveOf(who)') /\ IsFiniteSet(Inserting(who)')
  BY RaceSetsAreFinite, FS_Subset
<1>2. Cardinality(ActiveOf(who)') \in Nat /\ Cardinality(Inserting(who)') \in Nat
  BY <1>1, FS_CardinalityType
<1>3. Peers(who)' = Peers(who)
  BY DEF Peers
<1>4. Cardinality(ActiveOf(who)') + Cardinality(Inserting(who)')
        <= Largest(Caps) + Cardinality(Peers(who)) - 1
  BY <1>1, <1>2, RaceSetsAreFinite, LargestCap DEF RoomFor
<1> QED BY <1>3, <1>4 DEF RoomFor

(* A request that passes the count takes a place below the cap: whoever is  *)
(* about to insert beside it is one of its peers.                           *)
LEMMA PassingTheCountLeavesRoom ==
    ASSUME SubTypeOK, NEW c \in Clients, NEW who, who # "service", RoomFor(who),
           Owner[c] # "service" => client[c].read # Unread,
           _enforce_principal_quota(c)
    PROVE  RoomFor(who)'
<1> USE DEF SubTypeOK
<1>1. ActiveOf(who)' = ActiveOf(who) /\ Peers(who)' = Peers(who)
  BY DEF _enforce_principal_quota, ActiveOf, Peers
<1>2. CASE OverCap(c) \/ Owner[c] # who
  <2>1. Inserting(who)' \subseteq Inserting(who)
    BY <1>2 DEF _enforce_principal_quota, Told, Goes, Inserting, Peers
  <2> QED BY <1>1, <2>1, LessLeavesRoom
<1>3. CASE ~OverCap(c) /\ Owner[c] = who
  <2>1. client[c].read \in Caps \X Limits
    BY <1>3 DEF ClientRow
  <2>2. client[c].read[1] \in Caps
    BY <2>1
  <2>3. Cardinality(ActiveOf(who)) < client[c].read[1]
    <3>1. ~(Counted(who) >= client[c].read[1])
      BY <1>3 DEF OverCap
    <3>2. Counted(who) = Cardinality(ActiveOf(who))
      BY DEF Counted, ActiveOf
    <3>3. client[c].read[1] \in Nat /\ Cardinality(ActiveOf(who)) \in Nat
      BY <2>2, RaceSetsAreFinite, SubmissionAssumption
    <3> HIDE DEF SubTypeOK
    <3> QED BY <3>1, <3>2, <3>3
  <2>4. Inserting(who)' \subseteq Peers(who)
    BY DEF Inserting, Peers
  <2>5. /\ Cardinality(Inserting(who)') \in Nat
        /\ Cardinality(Inserting(who)') <= Cardinality(Peers(who))
    BY <2>4, RaceSetsAreFinite, FS_Subset, FS_CardinalityType
  <2>6. /\ Cardinality(ActiveOf(who)) <= Largest(Caps) - 1
        /\ Cardinality(ActiveOf(who)) \in Nat /\ Cardinality(Peers(who)) \in Nat
    <3>1. client[c].read[1] \in Nat /\ client[c].read[1] <= Largest(Caps)
      BY <2>2, LargestCap, SubmissionAssumption
    <3>2. Cardinality(ActiveOf(who)) \in Nat /\ Cardinality(Peers(who)) \in Nat
      BY RaceSetsAreFinite
    <3> HIDE DEF SubTypeOK
    <3> QED BY <2>3, <3>1, <3>2, LargestCap
  <2>7. Cardinality(ActiveOf(who)) + Cardinality(Inserting(who)')
          <= Largest(Caps) + Cardinality(Peers(who)) - 1
    BY <2>5, <2>6, LargestCap
  <2> QED BY <1>1, <2>7 DEF RoomFor
<1> QED BY <1>2, <1>3

(* An insert makes a row of a place already taken. *)
LEMMA InsertKeepsRoom ==
    ASSUME SubTypeOK, NEW c \in Clients, NEW who, RoomFor(who), Insert(c)
    PROVE  RoomFor(who)'
<1> USE DEF SubTypeOK
<1>1. PICK i \in Pks : /\ rows[i].state = "absent"
                       /\ rows' = [rows EXCEPT ![i] = [state |-> "queued",
                                    priority |-> _resolve_priority(c), actor |-> Owner[c]]]
  BY DEF Insert
<1>5. client'[c].at # "insert" /\ \A d \in Clients \ {c} : client'[d] = client[d]
  <2>1. enqueue(c) /\ ~_enforce_principal_quota(c)
    BY DEF Insert, enqueue, _enforce_principal_quota
  <2> QED BY <2>1, RequestsStepAlone
<1>2. CASE Owner[c] # who
  <2>1. ActiveOf(who)' \subseteq ActiveOf(who)
    BY <1>1, <1>2 DEF ActiveOf
  <2>2. Inserting(who)' \subseteq Inserting(who)
    BY <1>5, <1>2 DEF Inserting, Peers
  <2> QED BY <2>1, <2>2, LessLeavesRoom
<1>3. CASE Owner[c] = who
  <2>1. ActiveOf(who)' = ActiveOf(who) \cup {i}
    BY <1>1, <1>3 DEF ActiveOf, Active
  <2>2. c \in Inserting(who) /\ Inserting(who)' = Inserting(who) \ {c}
    BY <1>5, <1>3 DEF Inserting, Peers, Insert
  <2>3. /\ Cardinality(ActiveOf(who)') <= Cardinality(ActiveOf(who)) + 1
        /\ Cardinality(ActiveOf(who)') \in Nat
        /\ Cardinality(Inserting(who)') = Cardinality(Inserting(who)) - 1
    <3>1. /\ IsFiniteSet(ActiveOf(who)) /\ Cardinality(ActiveOf(who)) \in Nat
          /\ IsFiniteSet(Inserting(who))
      BY RaceSetsAreFinite
    <3>2. Cardinality(ActiveOf(who) \cup {i}) \in {Cardinality(ActiveOf(who)),
                                                  Cardinality(ActiveOf(who)) + 1}
      BY <3>1, FS_AddElement
    <3>3. Cardinality(Inserting(who) \ {c}) = Cardinality(Inserting(who)) - 1
      BY <2>2, <3>1, FS_RemoveElement
    <3> HIDE DEF SubTypeOK
    <3> QED BY <2>1, <2>2, <3>1, <3>2, <3>3
  <2>4. Peers(who)' = Peers(who)
    BY DEF Peers
  <2>5. Cardinality(ActiveOf(who)') + Cardinality(Inserting(who)')
          <= Largest(Caps) + Cardinality(Peers(who)) - 1
    BY <2>3, RaceSetsAreFinite, LargestCap DEF RoomFor
  <2> QED BY <2>4, <2>5 DEF RoomFor
<1> QED BY <1>2, <1>3

(* Every other step takes no place. *)
LEMMA OtherStepsLeaveRoom ==
    ASSUME SubTypeOK, [SubNext]_subVars, NEW who, RoomFor(who),
           \A c \in Clients : ~Insert(c) /\ ~_enforce_principal_quota(c)
    PROVE  RoomFor(who)'
<1> USE DEF SubTypeOK
<1>1. ASSUME NEW c \in Clients, enqueue(c)
      PROVE  ActiveOf(who)' \subseteq ActiveOf(who) /\ Inserting(who)' \subseteq Inserting(who)
  <2>3. client'[c].at # "insert" /\ \A d \in Clients \ {c} : client'[d] = client[d]
    BY <1>1, RequestsStepAlone
  <2>1. CASE Begin(c) \/ InsertFails(c) \/ PruneCutoff(c) \/ PruneFails(c)
    <3>1. UNCHANGED rows
      BY <2>1 DEF Begin, InsertFails, PruneCutoff, PruneFails
    <3> QED BY <2>3, <3>1 DEF ActiveOf, Inserting, Peers
  <2>2. CASE PruneDelete(c)
    <3>1. \A i \in Pks : rows'[i].state \in Active => rows'[i] = rows[i]
      BY <2>2 DEF PruneDelete, Active, JobRow
    <3> QED BY <2>3, <3>1 DEF ActiveOf, Inserting, Peers
  <2> QED BY <1>1, <2>1, <2>2 DEF enqueue
<1>2. ASSUME NEW i \in Pks, Runs(i) \/ Ends(i) \/ cancel_job(i)
      PROVE  ActiveOf(who)' \subseteq ActiveOf(who) /\ Inserting(who)' \subseteq Inserting(who)
  <2>1. UNCHANGED client /\ rows[i].state \in Active
        /\ \A k \in Pks : rows'[k].actor = rows[k].actor
                          /\ (k # i => rows'[k] = rows[k])
    BY <1>2 DEF Runs, Ends, cancel_job, RowBecomes, Active, JobRow
  <2> QED BY <2>1 DEF ActiveOf, Inserting, Peers
<1>3. ASSUME NEW a \in Admins,
             queue_settings_update(a) \/ _update_retention_and_priority(a)
               \/ _update_budget_and_concurrency(a)
      PROVE  UNCHANGED <<rows, client>>
  BY <1>3 DEF queue_settings_update, _update_retention_and_priority,
              _update_budget_and_concurrency, Saves
<1>4. UNCHANGED <<rows, client>> => /\ ActiveOf(who)' \subseteq ActiveOf(who)
                                    /\ Inserting(who)' \subseteq Inserting(who)
  BY DEF ActiveOf, Inserting, Peers
<1>5. ActiveOf(who)' \subseteq ActiveOf(who) /\ Inserting(who)' \subseteq Inserting(who)
  BY <1>1, <1>2, <1>3, <1>4 DEF SubNext, subVars
<1> QED BY <1>5, LessLeavesRoom

(* A request that is counted has read the settings, as long as capped says *)
(* so.                                                                     *)
LEMMA CountedRequestsHaveRead ==
    ASSUME RaceInv, [SubNext]_subVars, capped', NEW c \in Clients, Owner[c] # "service"
    PROVE  capped /\ (client'[c].at = "count" => client'[c].read # Unread)
<1> USE DEF RaceInv, SubTypeOK
<1>1. ASSUME NEW d \in Clients, Begin(d)
      PROVE  capped /\ (client'[c].at = "count" => client'[c].read # Unread)
  <2>1. PICK read \in {jobSettings.retention, Unread}, asked \in {0, 1} :
          /\ Goes(d, [at |-> "count", read |-> read, asked |-> asked, pk |-> 0, cutoff |-> 0,
                      told |-> "nothing"])
          /\ capped' = (capped /\ (read # Unread \/ Owner[d] = "service"))
    BY <1>1 DEF Begin
  <2>2. capped /\ (read # Unread \/ Owner[d] = "service")
    BY <2>1
  <2>3. client'[d].read = read /\ \A b \in Clients \ {d} : client'[b] = client[b]
    BY <2>1 DEF Goes
  <2>4. c # d => (client[c].at = "count" => client[c].read # Unread)
    BY <2>2
  <2> QED BY <2>2, <2>3, <2>4
<1>2. ASSUME NEW d \in Clients, enqueue(d), ~Begin(d)
      PROVE  UNCHANGED capped /\ (client'[c].at = "count" => UNCHANGED client[c])
  <2>1. UNCHANGED capped
    BY <1>2 DEF enqueue, _enforce_principal_quota, Insert, InsertFails, PruneCutoff,
                PruneDelete, PruneFails
  <2> QED BY <1>2, <2>1, RequestsStepAlone
<1>3. ASSUME NEW i \in Pks, Runs(i) \/ Ends(i) \/ cancel_job(i)
      PROVE  UNCHANGED <<capped, client>>
  BY <1>3 DEF Runs, Ends, cancel_job, RowBecomes
<1>4. ASSUME NEW a \in Admins,
             queue_settings_update(a) \/ _update_retention_and_priority(a)
               \/ _update_budget_and_concurrency(a)
      PROVE  UNCHANGED <<capped, client>>
  BY <1>4 DEF queue_settings_update, _update_retention_and_priority,
              _update_budget_and_concurrency, Saves
<1> QED BY <1>1, <1>2, <1>3, <1>4 DEF SubNext, subVars

(* The invariant, over every step of Submission.                           *)
LEMMA RaceInvHolds == SubSpec => []RaceInv
<1>1. SubInit => RaceInv
  <2> SUFFICES ASSUME SubInit, NEW c \in Clients
               PROVE  client[c].at # "count" /\ RoomFor(Owner[c])
    BY SubmissionTypeInit DEF RaceInv
  <2>1. ActiveOf(Owner[c]) = {} /\ Inserting(Owner[c]) = {} /\ c \in Peers(Owner[c])
    BY DEF SubInit, ActiveOf, Inserting, Peers, Active
  <2>2. Cardinality(ActiveOf(Owner[c])) = 0 /\ Cardinality(Inserting(Owner[c])) = 0
    BY <2>1, FS_EmptySet
  <2>3. client[c].at # "count"
    BY DEF SubInit
  <2> QED BY <2>2, <2>3, RaceSetsAreFinite, LargestCap DEF RoomFor
<1>2. RaceInv /\ [SubNext]_subVars => RaceInv'
  <2> SUFFICES ASSUME RaceInv, [SubNext]_subVars
               PROVE  RaceInv'
    OBVIOUS
  <2>1. SubTypeOK'
    BY SubmissionTypeStep DEF RaceInv
  <2>2. ASSUME capped', NEW c \in Clients, Owner[c] # "service"
        PROVE  /\ client'[c].at = "count" => client'[c].read # Unread
               /\ RoomFor(Owner[c])'
    <3>1. capped /\ (client'[c].at = "count" => client'[c].read # Unread)
      BY <2>2, CountedRequestsHaveRead
    <3>2. PICK who : who = Owner[c]
      OBVIOUS
    <3>3. SubTypeOK /\ RoomFor(who) /\ who # "service"
      BY <2>2, <3>1, <3>2 DEF RaceInv
    <3>4. ASSUME NEW d \in Clients, _enforce_principal_quota(d)
          PROVE  RoomFor(who)'
      <4>1. Owner[d] # "service" => client[d].read # Unread
        BY <3>1, <3>4 DEF RaceInv, _enforce_principal_quota
      <4> QED BY <3>3, <3>4, <4>1, PassingTheCountLeavesRoom
    <3>5. RoomFor(who)'
      BY <3>3, <3>4, InsertKeepsRoom, OtherStepsLeaveRoom
    <3>6. RoomFor(Owner[c])'
      BY <3>2, <3>5
    <3> QED BY <3>1, <3>6
  <2> QED BY <2>1, <2>2 DEF RaceInv
<1> QED BY <1>1, <1>2, PTL DEF SubSpec

(* The accepted race of the cap (backend.py:324-336) is all there is: for   *)
(* any number of requests, principals and rows, a principal has at most as  *)
(* many active jobs over the cap as it has other requests in flight.        *)
THEOREM TheRaceIsBounded == SubSpec => []CapHoldsUpToTheRace
<1>1. RaceInv => CapHoldsUpToTheRace
  <2> SUFFICES ASSUME RaceInv, capped, NEW c \in Clients, Owner[c] # "service"
               PROVE  Counted(Owner[c])
                        <= Largest(Caps) + Cardinality({d \in Clients : Owner[d] = Owner[c]}) - 1
    BY DEF CapHoldsUpToTheRace
  <2>1. RoomFor(Owner[c])
    BY DEF RaceInv
  <2>2. Counted(Owner[c]) = Cardinality(ActiveOf(Owner[c]))
    BY DEF Counted, ActiveOf
  <2> QED BY <2>1, <2>2, RaceSetsAreFinite, LargestCap DEF RoomFor, Peers
<1> QED BY <1>1, RaceInvHolds, PTL

(* The value each form was last told is saved is in force, whoever saves    *)
(* what in between.                                                         *)
THEOREM SavedFormsAreInForce == SubSpec => []SavedFormsStand
<1>1. SubInit => SavedFormsStand
  BY DEF SubInit, SavedFormsStand
<1>2. SavedFormsStand /\ [SubNext]_subVars => SavedFormsStand'
  <2> SUFFICES ASSUME SavedFormsStand, [SubNext]_subVars
               PROVE  SavedFormsStand'
    OBVIOUS
  <2>1. ASSUME NEW c \in Clients, enqueue(c)
        PROVE  UNCHANGED <<jobSettings, saved>>
    BY <2>1 DEF enqueue, Begin, _enforce_principal_quota, Insert, InsertFails, PruneCutoff,
                PruneDelete, PruneFails
  <2>2. ASSUME NEW i \in Pks, Runs(i) \/ Ends(i) \/ cancel_job(i)
        PROVE  UNCHANGED <<jobSettings, saved>>
    BY <2>2 DEF Runs, Ends, cancel_job, RowBecomes
  <2>3. ASSUME NEW a \in Admins, queue_settings_update(a)
        PROVE  UNCHANGED <<jobSettings, saved>>
    BY <2>3 DEF queue_settings_update
  <2>4. ASSUME NEW a \in Admins, NEW f, NEW value, Saves(a, f, value)
        PROVE  jobSettings' = saved'
    BY <2>4 DEF Saves, SavedFormsStand
  <2> QED BY <2>1, <2>2, <2>3, <2>4
          DEF SubNext, subVars, SavedFormsStand, _update_retention_and_priority,
              _update_budget_and_concurrency
<1> QED BY <1>1, <1>2, PTL DEF SubSpec
================================================================================
