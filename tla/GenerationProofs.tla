---------------------------- MODULE GenerationProofs ----------------------------
(***************************************************************************)
(* What one image generation may rely on, whatever outlives what: an       *)
(* outcome that was written stays, and a job that succeeded left a row its *)
(* card can follow.  And what a restore brings back: the rows of a backup  *)
(* with the files they are about.                                          *)
(***************************************************************************)
EXTENDS Generation, QueueClientProofs, Backup

(* The row's card has something to follow: the row is terminal or has a    *)
(* reference to ask the engine for, unless it was deleted.                 *)
Followable(e) ==
    \/ gen[e].state = "deleted"
    \/ /\ gen[e].correlated \/ asked[e[1]].turn
       /\ gen[e].state \in Terminal \/ gen[e].ref

(* How far an attempt has come says how far its row has.                   *)
Untouched(e) == gen[e].state = "absent" /\ ~gen[e].ref
Unsubmitted(e) == gen[e].state \in {"queued", "deleted"} /\ ~gen[e].ref
Submitted(e) == gen[e].state # "absent" /\ (gen[e].state \in Terminal \cup {"deleted"} \/ gen[e].ref)
Settled(e) == gen[e].state # "absent" /\ Followable(e)

Reached(e) ==
    /\ att[e] \in {"none", "claimed", "resolved"} => Untouched(e)
    /\ att[e] \in {"created", "stored", "refused", "accepted"} => Unsubmitted(e)
    /\ att[e] = "sent" => Submitted(e)
    /\ att[e] \in {"waiting", "ok"} => Settled(e)

(* Whoever asks the engine asks for a generation it has a reference of.    *)
LooksAtSubmitted == \A x \in Lookers : look[x].pc # "idle" => look[x].at \in Execs /\ gen[look[x].at].ref

(* A job that succeeded did so with an attempt whose row can be followed.  *)
SuccessesFollowed ==
    /\ \A j \in Jobs : job[j].state = "succeeded" => job[j].outcome \in Tries
    /\ \A e \in Execs : job[e[1]].state = "succeeded" /\ job[e[1]].outcome = e[2] => Followable(e)

TypeInv == TypeOK /\ ClaimsCounted
GenInv == Begun /\ LooksAtSubmitted /\ SuccessesFollowed /\ \A e \in Execs : Reached(e)

---------------------------------------------------------------------------
(* One row and the attempt that makes it.                                  *)

(* Somebody else than the attempt changes the row: it is deleted, or an    *)
(* answer of the engine is written into an open row.                       *)
RowMoves(e) ==
    \/ gen'[e] = gen[e]
    \/ Known(e) /\ gen'[e].state = "deleted" /\ gen'[e].ref = gen[e].ref
    \/ /\ Known(e) /\ gen[e].state \notin Terminal /\ gen[e].ref /\ gen'[e].ref
       /\ gen'[e].state \in {"done", "failed", "running"}
       /\ gen'[e].correlated = gen[e].correlated

SameStage(e) ==
    \/ att'[e] \in {"over", "bad"}
    \/ {att[e], att'[e]} \subseteq {"none", "claimed", "resolved"}
    \/ {att[e], att'[e]} \subseteq {"created", "stored", "refused", "accepted"}
    \/ att[e] = "sent" /\ att'[e] = "sent"
    \/ {att[e], att'[e]} \subseteq {"waiting", "ok"}

(* A reference is never forgotten, and what a card can follow stays so.    *)
RowGrows(e) ==
    /\ gen[e].ref => gen'[e].ref
    /\ gen[e].state # "absent" => gen'[e].state # "absent"
    /\ gen[e].state = "deleted" => gen'[e].state = "deleted"
    /\ Followable(e) => Followable(e)'

(* A row of a generation that moves on never loses what had been found out about it. *)
LEMMA MovesGrow ==
    ASSUME NEW e \in Execs, RowMoves(e), UNCHANGED asked PROVE RowGrows(e)
BY DEF RowMoves, RowGrows, Followable, Known, Terminal

(* A row that moves on within its attempt's stage stays consistent with what that stage has done. *)
LEMMA StageStays ==
    ASSUME NEW e \in Execs, Reached(e), RowMoves(e), SameStage(e), UNCHANGED asked
    PROVE  Reached(e)'
<1>1. RowGrows(e)
  BY MovesGrow
<1>2. Untouched(e) => Untouched(e)'
  BY DEF RowMoves, Untouched, Known
<1>3. Unsubmitted(e) => Unsubmitted(e)'
  BY DEF RowMoves, Unsubmitted, Known
<1>4. Submitted(e) => Submitted(e)'
  BY DEF RowMoves, Submitted, Known, Terminal
<1>5. Settled(e) => Settled(e)'
  BY <1>1 DEF RowGrows, Settled
<1> QED BY <1>2, <1>3, <1>4, <1>5 DEF Reached, SameStage

(* What a look may do: end, go on, or begin at a row with a reference.     *)
LookMoves ==
    \A x \in Lookers :
        \/ look'[x].pc = "idle"
        \/ look[x].pc # "idle" /\ look'[x].at = look[x].at
        \/ look'[x].at \in Execs /\ gen[look'[x].at].ref

(* What a page is about to look up was handed to the server by the generation it looks at, and stays so
   while rows only grow. *)
LEMMA LooksStay ==
    ASSUME LooksAtSubmitted, LookMoves, \A e \in Execs : RowGrows(e)
    PROVE  LooksAtSubmitted'
BY DEF LooksAtSubmitted, LookMoves, RowGrows

(* Once a generation is known to have succeeded, what a card follows it by stays there while rows only
   grow and the queue reports each success. *)
LEMMA SuccessesStay ==
    ASSUME TypeOK, SuccessesFollowed, SuccessReported, \A e \in Execs : Reached(e) /\ RowGrows(e)
    PROVE  SuccessesFollowed'
<1>1. ASSUME NEW j \in Jobs, job'[j].state = "succeeded" PROVE job'[j].outcome \in Tries
  BY <1>1, Pairs DEF SuccessReported, SuccessesFollowed
<1>2. ASSUME NEW e \in Execs, job'[e[1]].state = "succeeded", job'[e[1]].outcome = e[2]
      PROVE  Followable(e)'
  <2>1. Followable(e) => Followable(e)'
    BY DEF RowGrows
  <2>2. CASE job'[e[1]] = job[e[1]]
    BY <1>2, <2>1, <2>2 DEF SuccessesFollowed
  <2>3. CASE \E f \in Execs : f[1] = e[1] /\ att[f] = "ok" /\ job'[e[1]].outcome = f[2]
    <3>1. PICK f \in Execs : f[1] = e[1] /\ att[f] = "ok" /\ job'[e[1]].outcome = f[2]
      BY <2>3
    <3>2. f = e
      <4>1. f[1] = e[1] /\ f[2] = e[2]
        BY <1>2, <3>1
      <4>2. f = <<f[1], f[2]>> /\ e = <<e[1], e[2]>>
        BY Pairs
      <4> QED BY <4>1, <4>2
    <3> QED BY <2>1, <3>1, <3>2 DEF Reached, Settled
  <2> QED BY <1>2, <2>2, <2>3, Pairs DEF SuccessReported
<1> QED BY <1>1, <1>2 DEF SuccessesFollowed

(* An attempt that has begun has been claimed: the steps that neither claim nor begin one keep that. *)
LEMMA BegunStays ==
    ASSUME Begun, \A j \in Jobs : job'[j].tries = job[j].tries,
           \A e \in Execs : att[e] = "none" => att'[e] = "none"
    PROVE  Begun'
<1>1. \A e \in Execs : e[1] \in Jobs
  BY Pairs
<1> QED BY <1>1 DEF Begun

---------------------------------------------------------------------------
(* Steps that leave the rows of generations alone, or change one of them.  *)

(* Everything the invariant needs to know of a step.                       *)
Keeps ==
    /\ TypeInv' /\ Begun'
    /\ UNCHANGED asked /\ SuccessReported /\ LookMoves
    /\ \A e \in Execs : RowGrows(e) /\ Reached(e)'

(* What the step lemmas establish (Keeps) is enough for the invariant in the next state. *)
LEMMA KeepsInvariant ==
    ASSUME TypeInv, GenInv, Keeps PROVE TypeInv' /\ GenInv'
<1>1. LooksAtSubmitted'
  BY LooksStay DEF Keeps, GenInv
<1>2. SuccessesFollowed'
  BY SuccessesStay DEF Keeps, GenInv, TypeInv
<1> QED BY <1>1, <1>2 DEF Keeps, GenInv

(* The types, conjunct by conjunct, now and afterwards.                    *)
LEMMA GenTypeParts ==
    /\ TypeOK <=>
        /\ QueueTypeOK(Pcs)
        /\ asked \in [Jobs -> Request]
        /\ post \in [Jobs -> {"idle", "staged", "over"}]
        /\ staged \in [Jobs -> {"none", "fresh", "old", "pruned"}]
        /\ gen \in [Execs -> Gen]
        /\ dir \in [Execs -> SUBSET {"input", "output"}]
        /\ removing \subseteq {e \in Execs : gen[e].state = "deleted"}
        /\ look \in [Lookers -> Look]
        /\ prompt \in [Execs -> {"none", "pending", "running", "images", "blank", "error", "forgotten"}]
        /\ left \subseteq Execs
    /\ TypeOK' <=>
        /\ QueueTypeOK(Pcs)'
        /\ asked' \in [Jobs -> Request]
        /\ post' \in [Jobs -> {"idle", "staged", "over"}]
        /\ staged' \in [Jobs -> {"none", "fresh", "old", "pruned"}]
        /\ gen' \in [Execs -> Gen]
        /\ dir' \in [Execs -> SUBSET {"input", "output"}]
        /\ removing' \subseteq {e \in Execs : gen'[e].state = "deleted"}
        /\ look' \in [Lookers -> Look]
        /\ prompt' \in [Execs -> {"none", "pending", "running", "images", "blank", "error", "forgotten"}]
        /\ left' \subseteq Execs
BY DEF TypeOK

(* The files of a step, of the pages, the engine and the deletions.        *)
FilesTyped ==
    /\ post' \in [Jobs -> {"idle", "staged", "over"}]
    /\ staged' \in [Jobs -> {"none", "fresh", "old", "pruned"}]
    /\ dir' \in [Execs -> SUBSET {"input", "output"}]
    /\ prompt' \in [Execs -> {"none", "pending", "running", "images", "blank", "error", "forgotten"}]
    /\ left' \subseteq Execs

(* Looks that stay where they are, or end.                                 *)
LEMMA SameLooks == ASSUME UNCHANGED look PROVE LookMoves
BY DEF LookMoves

(* A step that leaves the rows alone, and the queue.                       *)
LEMMA AroundStep ==
    ASSUME TypeInv, GenInv, UNCHANGED <<job, att, asked, gen>>, hooks' \subseteq Jobs, Faulty \/ UNCHANGED faults,
           FilesTyped, removing' \subseteq removing, look' \in [Lookers -> Look], LookMoves
    PROVE  Keeps
<1>1. QueueTypeOK(Pcs)' /\ ClaimsCounted'
  BY OtherStep, GenTypeParts DEF TypeInv
<1>2. TypeInv'
  BY <1>1, GenTypeParts DEF TypeInv, FilesTyped
<1>3. \A e \in Execs : RowMoves(e)
  BY DEF RowMoves
<1>4. \A e \in Execs : RowGrows(e) /\ Reached(e)'
  <2>1. \A e \in Execs : RowGrows(e)
    BY <1>3, MovesGrow
  <2>2. \A e \in Execs : Reached(e)'
    BY DEF GenInv, Reached, Untouched, Unsubmitted, Submitted, Settled, Followable
  <2> QED BY <2>1, <2>2
<1>5. Begun' /\ SuccessReported
  BY DEF GenInv, Begun, SuccessReported
<1> QED BY <1>2, <1>4, <1>5 DEF Keeps

(* Deleting a row, or writing the engine's answer into it, while its       *)
(* attempts do nothing or see the end of their look.                       *)
LEMMA RowStep ==
    ASSUME TypeInv, GenInv, UNCHANGED <<job, hooks, faults, asked>>,
           QueueTypeOK(Pcs)', ClaimsCounted',
           \A e \in Execs : RowMoves(e) /\ SameStage(e) /\ (att[e] = "none" => att'[e] = "none"),
           gen' \in [Execs -> Gen], FilesTyped,
           removing' \subseteq {e \in Execs : gen'[e].state = "deleted"},
           look' \in [Lookers -> Look], LookMoves
    PROVE  Keeps
<1>1. TypeInv'
  BY GenTypeParts DEF TypeInv, FilesTyped
<1>2. \A e \in Execs : RowGrows(e) /\ Reached(e)'
  BY MovesGrow, StageStays DEF GenInv
<1>3. Begun' /\ SuccessReported
  BY BegunStays DEF GenInv, SuccessReported
<1> QED BY <1>1, <1>2, <1>3 DEF Keeps

(* An attempt's own step: it goes on, and its own row may change.          *)
OwnRow(e) ==
    /\ \A f \in Execs : f # e => gen'[f] = gen[f]
    /\ gen' \in [Execs -> Gen]

(* One step of one attempt, from one program point to another, that moves its own row forward keeps the
   invariant. *)
LEMMA AttemptKeeps ==
    ASSUME TypeInv, GenInv, NEW e \in Execs, NEW from, from \notin {"none", "over"},
           NEW to \in Pcs \cup {"none", "claimed", "ok", "bad", "over"}, to # "none",
           Step(e, from, to), OwnRow(e), FilesTyped, UNCHANGED removing,
           gen[e].state = "deleted" => gen'[e].state = "deleted",
           look' \in [Lookers -> Look], LookMoves,
           RowGrows(e), Reached(e)'
    PROVE  Keeps
<1>1. /\ Goes(e, from, to) /\ UNCHANGED <<job, hooks, faults, asked, post>>
      /\ QueueTypeOK(Pcs) /\ ClaimsCounted
  BY GenTypeParts DEF Step, TypeInv
<1>2. QueueTypeOK(Pcs)' /\ ClaimsCounted'
  BY <1>1, HandlerStep
<1>3. att[e] = from /\ att'[e] = to /\ \A f \in Execs : f # e => att'[f] = att[f]
  BY <1>1, GoesFacts
<1>4. ASSUME NEW f \in Execs PROVE RowGrows(f) /\ Reached(f)'
  <2>1. CASE f # e
    <3>1. RowMoves(f) /\ Reached(f) /\ gen'[f] = gen[f] /\ att'[f] = att[f]
      BY <1>3, <2>1 DEF OwnRow, RowMoves, GenInv
    <3>2. Reached(f)'
      BY <1>1, <3>1 DEF Reached, Untouched, Unsubmitted, Submitted, Settled, Followable
    <3> QED BY <1>1, <3>1, <3>2, MovesGrow
  <2> QED BY <2>1
<1>5. removing' \subseteq {f \in Execs : gen'[f].state = "deleted"}
  BY GenTypeParts DEF TypeInv, OwnRow
<1>6. TypeInv'
  BY <1>1, <1>2, <1>5, GenTypeParts DEF TypeInv, FilesTyped, OwnRow
<1>7. \A f \in Execs : att[f] = "none" => att'[f] = "none"
  BY <1>3
<1>8. Begun' /\ SuccessReported
  BY <1>1, <1>7, BegunStays DEF GenInv, SuccessReported
<1> QED BY <1>1, <1>4, <1>6, <1>8 DEF Keeps

---------------------------------------------------------------------------
(* The actions.                                                            *)

(* Fresh rows, looks and answers are what they should be.                  *)
LEMMA Values ==
    /\ Idle \in Look /\ Idle.pc = "idle"
    /\ \A e \in Execs : [at |-> e, pc |-> "history", heard |-> "none"] \in Look
    /\ \A l \in Look, pc \in {"history", "queue", "fetch", "lock"}, heard \in Answers :
          [l EXCEPT !.pc = pc, !.heard = heard] \in Look
<1>1. Idle \in Look /\ Idle.pc = "idle" /\ \A e \in Execs : [at |-> e, pc |-> "history", heard |-> "none"] \in Look
  BY DEF Idle, Look, Answers
<1>2. ASSUME NEW l \in Look, NEW pc \in {"history", "queue", "fetch", "lock"}, NEW heard \in Answers
      PROVE  [l EXCEPT !.pc = pc, !.heard = heard] \in Look
  BY DEF Look
<1> QED BY <1>1, <1>2

(* The parts of the type invariant that speak of files, prompts, pages and rows, one by one. *)
LEMMA FilesOfNow == ASSUME TypeInv PROVE
    /\ post \in [Jobs -> {"idle", "staged", "over"}]
    /\ staged \in [Jobs -> {"none", "fresh", "old", "pruned"}]
    /\ dir \in [Execs -> SUBSET {"input", "output"}]
    /\ prompt \in [Execs -> {"none", "pending", "running", "images", "blank", "error", "forgotten"}]
    /\ left \subseteq Execs /\ hooks \subseteq Jobs /\ look \in [Lookers -> Look]
    /\ gen \in [Execs -> Gen] /\ removing \subseteq {e \in Execs : gen[e].state = "deleted"}
    /\ asked \in [Jobs -> Request] /\ QueueTypeOK(Pcs) /\ ClaimsCounted
BY GenTypeParts DEF TypeInv, QueueTypeOK

(* The page and the pruning: uploads are staged, forgotten and pruned.     *)
LEMMA PageKeeps ==
    ASSUME TypeInv, GenInv, PageStep \/ PruneStagedInputs PROVE Keeps
<1>1. Pruned \in [Jobs -> {"none", "fresh", "old", "pruned"}]
  BY FilesOfNow DEF Pruned
<1>2. ASSUME NEW j \in Jobs, Stage(j) \/ SubmitFails(j) \/ Age(j) PROVE Keeps
  <2>1. UNCHANGED <<job, att, hooks, faults, asked, gen, dir, removing, look, prompt, left>>
    BY <1>2 DEF Stage, SubmitFails, Age, queueVars
  <2>2. FilesTyped
    <3>1. post' \in [Jobs -> {"idle", "staged", "over"}]
      BY <1>2, FilesOfNow DEF Stage, SubmitFails, Age
    <3>2. staged' \in [Jobs -> {"none", "fresh", "old", "pruned"}]
      BY <1>1, <1>2, FilesOfNow DEF Stage, SubmitFails, Age
    <3> QED BY <2>1, <3>1, <3>2, FilesOfNow DEF FilesTyped
  <2>3. LookMoves
    BY <2>1, SameLooks
  <2> QED BY <2>1, <2>2, <2>3, AroundStep, FilesOfNow
<1>3. ASSUME NEW j \in Jobs, Submit(j) PROVE Keeps
  <2>1. /\ Enqueued(j) /\ UNCHANGED <<att, hooks, faults, asked, staged, gen, dir, removing, look, prompt, left>>
        /\ post' = [post EXCEPT ![j] = "over"]
    BY <1>3 DEF Submit
  <2>2. /\ QueueTypeOK(Pcs)' /\ ClaimsCounted'
        /\ job'[j].state = "queued" /\ \A i \in Jobs : i # j => job'[i] = job[i]
    BY <2>1, EnqueueStep, FilesOfNow
  <2>3. TypeInv'
    BY <2>1, <2>2, FilesOfNow, GenTypeParts DEF TypeInv
  <2>4. SuccessReported
    BY <2>2 DEF SuccessReported
  <2>5. Begun'
    <3>1. job'[j].tries = job[j].tries
      BY <2>1, FilesOfNow DEF Enqueued, Row, QueueTypeOK
    <3> QED BY <2>1, <2>2, <3>1, BegunStays DEF GenInv
  <2>6. \A e \in Execs : RowGrows(e) /\ Reached(e)'
    <3>1. \A e \in Execs : RowMoves(e)
      BY <2>1 DEF RowMoves
    <3>2. \A e \in Execs : Reached(e)'
      BY <2>1 DEF GenInv, Reached, Untouched, Unsubmitted, Submitted, Settled, Followable
    <3> QED BY <2>1, <3>1, <3>2, MovesGrow
  <2>7. LookMoves
    BY <2>1, SameLooks
  <2> QED BY <2>1, <2>3, <2>4, <2>5, <2>6, <2>7 DEF Keeps
<1>4. ASSUME PruneStagedInputs PROVE Keeps
  <2>1. UNCHANGED <<job, att, hooks, faults, asked, post, gen, dir, removing, look, prompt, left>> /\ staged' = Pruned
    BY <1>4 DEF PruneStagedInputs, queueVars
  <2>2. FilesTyped
    BY <1>1, <2>1, FilesOfNow DEF FilesTyped
  <2> QED BY <2>1, <2>2, SameLooks, AroundStep, FilesOfNow
<1> QED BY <1>2, <1>3, <1>4 DEF PageStep

(* Files and the engine; hooks, which do nothing here.                     *)
LEMMA AroundKeeps ==
    ASSUME TypeInv, GenInv,
           \/ \E e \in Execs : RemoveFiles(e) \/ RemoverDies(e) \/ EngineFilesDelete(e)
           \/ EngineStep
           \/ \E j \in Jobs : Hook(j)
    PROVE  Keeps
<1>1. UNCHANGED <<job, att, asked, gen, look, post, staged>> /\ removing' \subseteq removing
  BY DEF RemoveFiles, RemoverDies, EngineFilesDelete, EngineStep, EngineRestarts, EngineStarts, EngineEnds,
         EngineSteps, Hook, HookRuns, queueVars, genVars
<1>2. (Faulty \/ UNCHANGED faults) /\ hooks' \subseteq Jobs
  BY FilesOfNow DEF RemoveFiles, RemoverDies, EngineFilesDelete, EngineStep, EngineRestarts, EngineStarts, EngineEnds,
         EngineSteps, Hook, HookRuns, queueVars, genVars
<1>3. dir' \in [Execs -> SUBSET {"input", "output"}]
  BY FilesOfNow DEF RemoveFiles, RemoverDies, EngineFilesDelete, EngineStep, EngineRestarts, EngineStarts, EngineEnds,
         EngineSteps, Hook, HookRuns, queueVars, genVars
<1>4. prompt' \in [Execs -> {"none", "pending", "running", "images", "blank", "error", "forgotten"}]
  BY FilesOfNow DEF RemoveFiles, RemoverDies, EngineFilesDelete, EngineStep, EngineRestarts, EngineStarts, EngineEnds,
         EngineSteps, Hook, HookRuns, queueVars, genVars
<1>5. left' \subseteq Execs
  BY FilesOfNow DEF RemoveFiles, RemoverDies, EngineFilesDelete, EngineStep, EngineRestarts, EngineStarts, EngineEnds,
         EngineSteps, Hook, HookRuns, queueVars, genVars
<1>6. FilesTyped
  BY <1>1, <1>3, <1>4, <1>5, FilesOfNow DEF FilesTyped
<1> QED BY <1>1, <1>2, <1>6, SameLooks, AroundStep, FilesOfNow

(* A generation is deleted.                                                *)
LEMMA DeleteRowKeeps ==
    ASSUME TypeInv, GenInv, NEW e \in Execs, DeleteRow(e) PROVE Keeps
<1>1. /\ Known(e) /\ UNCHANGED <<job, att, hooks, faults, asked, post, staged, dir, look, prompt, left>>
      /\ removing' = removing \cup {e}
      /\ gen' = [gen EXCEPT ![e] = [NoGen EXCEPT !.state = "deleted", !.ref = gen[e].ref]]
  BY DEF DeleteRow, queueVars
<1>2. /\ [NoGen EXCEPT !.state = "deleted", !.ref = gen[e].ref] \in Gen
      /\ [NoGen EXCEPT !.state = "deleted", !.ref = gen[e].ref].state = "deleted"
      /\ [NoGen EXCEPT !.state = "deleted", !.ref = gen[e].ref].ref = gen[e].ref
  <2>1. gen[e].ref \in BOOLEAN
    BY FilesOfNow DEF Gen
  <2> QED BY <2>1 DEF NoGen, Gen, Kinds
<1>3. /\ gen' \in [Execs -> Gen] /\ gen'[e].state = "deleted" /\ gen'[e].ref = gen[e].ref
      /\ \A f \in Execs : f # e => gen'[f] = gen[f]
  BY <1>1, <1>2, FilesOfNow
<1>4. \A f \in Execs : RowMoves(f) /\ SameStage(f) /\ (att[f] = "none" => att'[f] = "none")
  <2>1. \A f \in Execs : RowMoves(f)
    BY <1>1, <1>3 DEF RowMoves
  <2>2. \A f \in Execs : SameStage(f)
    BY <1>1, FilesOfNow DEF SameStage, QueueTypeOK, Pcs
  <2> QED BY <1>1, <2>1, <2>2
<1>5. FilesTyped
  BY <1>1, FilesOfNow DEF FilesTyped
<1>6. QueueTypeOK(Pcs)' /\ ClaimsCounted'
  BY <1>1, OtherStep, FilesOfNow
<1>7. removing' \subseteq {f \in Execs : gen'[f].state = "deleted"}
  BY <1>1, <1>3, FilesOfNow
<1>8. LookMoves /\ look' \in [Lookers -> Look]
  BY <1>1, SameLooks, FilesOfNow
<1> QED BY <1>1, <1>3, <1>4, <1>5, <1>6, <1>7, <1>8, RowStep

(* One look goes on, ends or begins; the others stay.                      *)
LEMMA OneLook ==
    ASSUME TypeInv, NEW x \in Lookers, NEW l \in Look, look' = [look EXCEPT ![x] = l],
           \/ l.pc = "idle"
           \/ look[x].pc # "idle" /\ l.at = look[x].at
           \/ l.at \in Execs /\ gen[l.at].ref
    PROVE  LookMoves /\ look' \in [Lookers -> Look]
<1>1. look'[x] = l /\ (\A y \in Lookers : y # x => look'[y] = look[y]) /\ look' \in [Lookers -> Look]
  BY FilesOfNow
<1> QED BY <1>1 DEF LookMoves

(* A card or a waiting attempt asks; the engine answers, or does not.      *)
LEMMA AskingKeeps ==
    ASSUME TypeInv, GenInv, NEW x \in Lookers,
           \/ \E e \in Execs : CardAsks(x, e)
           \/ x \in Execs /\ WaitAsks(x)
           \/ AskHistory(x) \/ AskQueue(x) \/ FetchOutputs(x) \/ Unreachable(x)
    PROVE  Keeps
<1> DEFINE Same == UNCHANGED <<queueVars, asked, post, staged, gen, dir, removing, prompt, left>>
<1>1. ASSUME Same, LookMoves, look' \in [Lookers -> Look] PROVE Keeps
  <2>1. UNCHANGED <<job, att, hooks, faults, asked, post, staged, gen, dir, removing, prompt, left>>
    BY <1>1 DEF queueVars
  <2>2. FilesTyped
    BY <2>1, FilesOfNow DEF FilesTyped
  <2> QED BY <1>1, <2>1, <2>2, AroundStep, FilesOfNow
<1>2. ASSUME NEW e \in Execs, gen[e].ref, look' = [look EXCEPT ![x] = [at |-> e, pc |-> "history", heard |-> "none"]]
      PROVE  LookMoves /\ look' \in [Lookers -> Look]
  BY <1>2, OneLook, Values
<1>3. ASSUME NEW e \in Execs, CardAsks(x, e) PROVE Keeps
  BY <1>1, <1>2, <1>3 DEF CardAsks
<1>4. ASSUME x \in Execs, WaitAsks(x) PROVE Keeps
  BY <1>1, <1>2, <1>4 DEF WaitAsks
<1>5. ASSUME look[x].pc # "idle", NEW pc \in {"history", "queue", "fetch", "lock"}, NEW heard \in Answers, Hears(x, pc, heard)
      PROVE  Keeps
  <2> DEFINE l == [look[x] EXCEPT !.pc = pc, !.heard = heard]
  <2>1. look[x] \in Look
    BY FilesOfNow
  <2>2. l \in Look /\ l.at = look[x].at
    BY <2>1, Values DEF Look
  <2>3. look' = [look EXCEPT ![x] = l]
    BY <1>5 DEF Hears
  <2>4. LookMoves /\ look' \in [Lookers -> Look]
    BY <1>5, <2>2, <2>3, OneLook
  <2> QED BY <1>1, <1>5, <2>4 DEF Hears
<1>6. ASSUME Rests(x) PROVE Keeps
  <2>1. look' = [look EXCEPT ![x] = Idle]
    BY <1>6 DEF Rests
  <2>2. LookMoves /\ look' \in [Lookers -> Look]
    BY <2>1, Values, OneLook
  <2> QED BY <1>1, <1>6, <2>2 DEF Rests
<1>7. ASSUME AskHistory(x) PROVE Keeps
  <2>1. look[x].pc # "idle" /\ (Hears(x, "fetch", "done") \/ Hears(x, "lock", "failed") \/ Hears(x, "queue", "none"))
    BY <1>7 DEF AskHistory
  <2> QED BY <1>5, <2>1 DEF Answers
<1>8. ASSUME AskQueue(x) PROVE Keeps
  <2>1. look[x].pc # "idle" /\ (Hears(x, "lock", "running") \/ Rests(x) \/ Hears(x, "lock", "lost"))
    BY <1>8 DEF AskQueue
  <2> QED BY <1>5, <1>6, <2>1 DEF Answers
<1>9. ASSUME FetchOutputs(x) PROVE Keeps
  <2>1. look[x].pc # "idle" /\ (Hears(x, "lock", "done") \/ Hears(x, "lock", "empty"))
    BY <1>9 DEF FetchOutputs
  <2> QED BY <1>5, <2>1 DEF Answers
<1>10. ASSUME Unreachable(x) PROVE Keeps
  BY <1>6, <1>10 DEF Unreachable
<1> QED BY <1>3, <1>4, <1>7, <1>8, <1>9, <1>10

(* What is written of an answer.                                           *)
LEMMA ToldFacts ==
    ASSUME TypeInv, NEW e \in Execs, NEW heard \in Answers
    PROVE  /\ Told(e, heard) \in Gen /\ Told(e, heard).state \in {"done", "failed", "running"}
           /\ Told(e, heard).ref = gen[e].ref /\ Told(e, heard).correlated = gen[e].correlated
<1>1. gen[e] \in Gen
  BY FilesOfNow
<1>2. NextState(heard) \in {"done", "failed", "running"}
  BY DEF NextState
<1> DEFINE kind == CASE heard = "failed" -> "engine" [] heard = "lost" -> "lost" [] OTHER -> "none"
<1>3. kind \in Kinds
  BY DEF Kinds
<1>5. Told(e, heard) = [gen[e] EXCEPT !.state = NextState(heard), !.kind = kind, !.outputs = heard = "done"]
  BY DEF Told
<1> DEFINE shown == heard = "done"
<1>6. shown \in BOOLEAN
  OBVIOUS
<1>7. Told(e, heard) = [gen[e] EXCEPT !.state = NextState(heard), !.kind = kind, !.outputs = shown]
  BY <1>5
<1> HIDE DEF kind, shown
<1> DEFINE t == [gen[e] EXCEPT !.state = NextState(heard), !.kind = kind, !.outputs = shown]
<1>8. t \in Gen /\ t.state = NextState(heard) /\ t.ref = gen[e].ref /\ t.correlated = gen[e].correlated
  <2> DEFINE g == gen[e]  s == NextState(heard)
  <2>1. g \in Gen /\ s \in {"done", "failed", "running"}
    BY <1>1, <1>2
  <2> HIDE DEF g, s
  <2>2. LET r == [g EXCEPT !.state = s, !.kind = kind, !.outputs = shown] IN
        r \in Gen /\ r.state = s /\ r.ref = g.ref /\ r.correlated = g.correlated
    BY <1>3, <1>6, <2>1 DEF Gen, Terminal
  <2> QED BY <2>2 DEF g, s
<1> HIDE DEF t
<1>9. Told(e, heard) = t
  BY <1>7 DEF t
<1> QED BY <1>2, <1>8, <1>9

(* A page that writes the answer it got from the server changes no finished outcome. *)
LEMMA WriteAnswerKeeps ==
    ASSUME TypeInv, GenInv, NEW x \in Lookers, WriteAnswer(x) PROVE Keeps
<1> DEFINE e == look[x].at
<1> DEFINE open == Known(e) /\ gen[e].state \notin Terminal
<1>1. /\ Asking(x) /\ look[x].pc = "lock"
      /\ gen' = IF open THEN [gen EXCEPT ![e] = Told(e, look[x].heard)] ELSE gen
      /\ dir' = IF open /\ look[x].heard = "done" THEN [dir EXCEPT ![e] = @ \cup {"output"}] ELSE dir
      /\ Ends(x, gen'[e].state)
      /\ UNCHANGED <<job, hooks, faults, asked, post, staged, removing, prompt, left>>
  BY DEF WriteAnswer
<1>2. e \in Execs /\ gen[e].ref /\ look[x].heard \in Answers /\ look[x].pc # "idle"
  BY <1>1, FilesOfNow DEF GenInv, LooksAtSubmitted, Look
<1>3. gen' \in [Execs -> Gen] /\ \A f \in Execs : RowMoves(f)
  <2>1. CASE ~open
    BY <1>1, <2>1, FilesOfNow DEF RowMoves
  <2>2. CASE open
    <3>1. gen' = [gen EXCEPT ![e] = Told(e, look[x].heard)]
      BY <1>1, <2>2
    <3>2. /\ Told(e, look[x].heard) \in Gen /\ Told(e, look[x].heard).state \in {"done", "failed", "running"}
          /\ Told(e, look[x].heard).ref = gen[e].ref /\ Told(e, look[x].heard).correlated = gen[e].correlated
      BY <1>2, ToldFacts
    <3>3. gen'[e] = Told(e, look[x].heard) /\ (\A f \in Execs : f # e => gen'[f] = gen[f]) /\ gen' \in [Execs -> Gen]
      BY <1>2, <3>1, <3>2, FilesOfNow
    <3> QED BY <1>2, <2>2, <3>2, <3>3 DEF RowMoves
  <2> QED BY <2>1, <2>2
<1>4. look' = [look EXCEPT ![x] = Idle]
  BY <1>1 DEF Ends
<1>5. LookMoves /\ look' \in [Lookers -> Look]
  BY <1>4, OneLook, Values
<1>6. UNCHANGED att \/ (x \in Execs /\ att[x] = "waiting" /\ \E to \in {"ok", "bad"} : att' = [att EXCEPT ![x] = to])
  BY <1>1 DEF Ends, Asking
<1>7. /\ QueueTypeOK(Pcs)' /\ ClaimsCounted'
      /\ \A f \in Execs : SameStage(f) /\ (att[f] = "none" => att'[f] = "none")
  <2>1. CASE UNCHANGED att
    <3>1. QueueTypeOK(Pcs)' /\ ClaimsCounted'
      BY <1>1, <2>1, OtherStep, FilesOfNow
    <3>2. \A f \in Execs : SameStage(f)
      BY <2>1, FilesOfNow DEF SameStage, QueueTypeOK, Pcs
    <3> QED BY <2>1, <3>1, <3>2
  <2>2. ASSUME x \in Execs, att[x] = "waiting", NEW to \in {"ok", "bad"}, att' = [att EXCEPT ![x] = to]
        PROVE  /\ QueueTypeOK(Pcs)' /\ ClaimsCounted'
               /\ \A f \in Execs : SameStage(f) /\ (att[f] = "none" => att'[f] = "none")
    <3>1. Goes(x, "waiting", to)
      BY <2>2 DEF Goes
    <3>2. QueueTypeOK(Pcs)' /\ ClaimsCounted'
      BY <1>1, <2>2, <3>1, HandlerStep, FilesOfNow
    <3>3. att'[x] = to /\ \A f \in Execs : f # x => att'[f] = att[f]
      BY <2>2, FilesOfNow DEF QueueTypeOK
    <3>4. \A f \in Execs : SameStage(f)
      BY <2>2, <3>3, FilesOfNow DEF SameStage, QueueTypeOK, Pcs
    <3> QED BY <2>2, <3>2, <3>3, <3>4
  <2> QED BY <1>6, <2>1, <2>2
<1>8. dir' \in [Execs -> SUBSET {"input", "output"}]
  BY <1>1, <1>2, FilesOfNow
<1>9. FilesTyped
  BY <1>1, <1>8, FilesOfNow DEF FilesTyped
<1>10. removing' \subseteq {f \in Execs : gen'[f].state = "deleted"}
  BY <1>1, <1>3, FilesOfNow DEF RowMoves, Known
<1> QED BY <1>1, <1>3, <1>5, <1>7, <1>9, <1>10, RowStep

(* An attempt goes on, or gives up; its row stays.                         *)
LEMMA GoesOn ==
    ASSUME TypeInv, GenInv, NEW e \in Execs, NEW from, from \notin {"none", "over"},
           NEW to \in Pcs \cup {"none", "claimed", "ok", "bad", "over"}, to # "none", Step(e, from, to),
           UNCHANGED <<gen, removing, look>>, FilesTyped,
           \/ to \in {"over", "bad"}
           \/ {from, to} \subseteq {"none", "claimed", "resolved"}
           \/ {from, to} \subseteq {"created", "stored", "refused", "accepted"}
           \/ {from, to} \subseteq {"waiting", "ok"}
    PROVE  Keeps
<1>1. att[e] = from /\ att'[e] = to /\ UNCHANGED asked
  BY GoesFacts, FilesOfNow DEF Step
<1>2. RowMoves(e) /\ SameStage(e) /\ OwnRow(e)
  BY <1>1, FilesOfNow DEF RowMoves, SameStage, OwnRow
<1>3. RowGrows(e) /\ Reached(e)'
  BY <1>1, <1>2, MovesGrow, StageStays DEF GenInv
<1>4. LookMoves /\ look' \in [Lookers -> Look]
  BY SameLooks, FilesOfNow
<1> QED BY <1>2, <1>3, <1>4, AttemptKeeps

(* The attempt changes its own row.                                        *)
LEMMA GoesOnWithRow ==
    ASSUME TypeInv, GenInv, NEW e \in Execs, NEW from, from \notin {"none", "over"},
           NEW to \in Pcs \cup {"none", "claimed", "ok", "bad", "over"}, to # "none", Step(e, from, to),
           NEW r \in Gen, gen' = [gen EXCEPT ![e] = r],
           gen[e].state = "deleted" => r.state = "deleted",
           UNCHANGED <<staged, dir, removing, look, prompt, left>>,
           RowGrows(e), Reached(e)'
    PROVE  Keeps
<1>1. gen'[e] = r /\ OwnRow(e)
  BY FilesOfNow DEF OwnRow
<1>2. FilesTyped
  BY FilesOfNow DEF FilesTyped, Step
<1>3. LookMoves /\ look' \in [Lookers -> Look]
  BY SameLooks, FilesOfNow
<1> QED BY <1>1, <1>2, <1>3, AttemptKeeps

(* What an attempt changes of its row, field by field.                     *)
LEMMA RowValues ==
    ASSUME NEW g \in Gen
    PROVE  /\ LET r == [g EXCEPT !.state = "queued"] IN
              r \in Gen /\ r.state = "queued" /\ r.ref = g.ref
           /\ LET r == [g EXCEPT !.state = "failed", !.kind = "rejected"] IN
              r \in Gen /\ r.state = "failed" /\ r.ref = g.ref
           /\ LET r == [g EXCEPT !.ref = TRUE] IN
              r \in Gen /\ r.ref = TRUE /\ r.state = g.state /\ r.correlated = g.correlated
           /\ LET r == [g EXCEPT !.correlated = TRUE] IN
              r \in Gen /\ r.correlated = TRUE /\ r.state = g.state /\ r.ref = g.ref
<1>1. LET r == [g EXCEPT !.state = "queued"] IN r \in Gen /\ r.state = "queued" /\ r.ref = g.ref
  BY DEF Gen
<1>2. LET r == [g EXCEPT !.state = "failed", !.kind = "rejected"] IN r \in Gen /\ r.state = "failed" /\ r.ref = g.ref
  BY DEF Gen, Terminal, Kinds
<1>3. LET r == [g EXCEPT !.ref = TRUE] IN r \in Gen /\ r.ref = TRUE /\ r.state = g.state /\ r.correlated = g.correlated
  BY DEF Gen
<1>4. LET r == [g EXCEPT !.correlated = TRUE] IN r \in Gen /\ r.correlated = TRUE /\ r.state = g.state /\ r.ref = g.ref
  BY DEF Gen
<1> QED BY <1>1, <1>2, <1>3, <1>4

(* Before its row exists, and while its inputs are stored and sent.        *)
LEMMA SubmissionKeeps ==
    ASSUME TypeInv, GenInv, NEW e \in Execs,
           \/ ResolveInputs(e) \/ InputReferenceError(e) \/ VisionUnavailable(e)
           \/ StoreInputs(e) \/ SubmitAccepted(e) \/ SubmitRefused(e)
           \/ WaitEndsAtOnce(e) \/ WaitTimesOut(e)
    PROVE  Keeps
<1>1. UNCHANGED <<staged, gen, removing, look, left>>
  BY DEF ResolveInputs, InputReferenceError, VisionUnavailable, StoreInputs, SubmitAccepted, SubmitRefused,
         WaitEndsAtOnce, WaitTimesOut
<1>2. dir' \in [Execs -> SUBSET {"input", "output"}]
  BY FilesOfNow DEF ResolveInputs, InputReferenceError, VisionUnavailable, StoreInputs, SubmitAccepted, SubmitRefused,
         WaitEndsAtOnce, WaitTimesOut
<1>3. prompt' \in [Execs -> {"none", "pending", "running", "images", "blank", "error", "forgotten"}]
  BY FilesOfNow DEF ResolveInputs, InputReferenceError, VisionUnavailable, StoreInputs, SubmitAccepted, SubmitRefused,
         WaitEndsAtOnce, WaitTimesOut
<1>4. PICK from \in {"claimed", "resolved", "created", "stored", "waiting"},
           to \in {"resolved", "bad", "stored", "accepted", "refused", "ok"} :
        /\ Step(e, from, to)
        /\ \/ to = "bad"
           \/ from = "claimed" /\ to = "resolved"
           \/ from \in {"created", "stored"} /\ to \in {"stored", "accepted", "refused"}
           \/ from = "waiting" /\ to = "ok"
  BY DEF ResolveInputs, InputReferenceError, VisionUnavailable, StoreInputs, SubmitAccepted, SubmitRefused,
         WaitEndsAtOnce, WaitTimesOut
<1>5. UNCHANGED post
  BY <1>4 DEF Step
<1>6. FilesTyped
  BY <1>1, <1>2, <1>3, <1>5, FilesOfNow DEF FilesTyped
<1>7. to \in Pcs \cup {"none", "claimed", "ok", "bad", "over"} /\ to # "none" /\ from \notin {"none", "over"}
  BY DEF Pcs
<1>8. \/ to \in {"over", "bad"}
      \/ {from, to} \subseteq {"none", "claimed", "resolved"}
      \/ {from, to} \subseteq {"created", "stored", "refused", "accepted"}
      \/ {from, to} \subseteq {"waiting", "ok"}
  BY <1>4
<1> QED BY <1>1, <1>4, <1>6, <1>7, <1>8, GoesOn

(* An attempt that creates its row starts a row nobody had. *)
LEMMA CreateRowKeeps ==
    ASSUME TypeInv, GenInv, NEW e \in Execs, CreateRow(e) PROVE Keeps
<1> DEFINE r == [gen[e] EXCEPT !.state = "queued"]
<1>1. gen[e] \in Gen /\ gen \in [Execs -> Gen]
  BY FilesOfNow
<1>2. r \in Gen /\ r.state = "queued" /\ r.ref = gen[e].ref
  BY <1>1, RowValues, Zenon
<1>3. /\ Step(e, "resolved", "created") /\ gen' = [gen EXCEPT ![e].state = "queued"]
      /\ UNCHANGED <<staged, dir, removing, look, prompt, left>>
  BY DEF CreateRow
<1>4. gen' = [gen EXCEPT ![e] = r]
  BY <1>1, <1>3
<1> HIDE DEF r
<1>5. gen'[e] = r
  BY <1>1, <1>4
<1>6. att[e] = "resolved" /\ att'[e] = "created" /\ Reached(e)
  BY <1>3, GoesFacts, FilesOfNow DEF Step, GenInv, Pcs
<1>7. gen[e].state = "absent" /\ ~gen[e].ref
  BY <1>6 DEF Reached, Untouched
<1>8. RowGrows(e) /\ Reached(e)'
  BY <1>2, <1>5, <1>6, <1>7 DEF RowGrows, Followable, Terminal, Reached, Unsubmitted
<1> QED BY <1>2, <1>3, <1>4, <1>7, <1>8, GoesOnWithRow DEF Pcs

(* A refusal, and the reference of a submission that was accepted, are     *)
(* saved into a row that is still there.                                   *)
LEMMA SavingKeeps ==
    ASSUME TypeInv, GenInv, NEW e \in Execs, FailSubmission(e) \/ SaveEngineRef(e) PROVE Keeps
<1>1. PICK from \in {"refused", "accepted"} : Step(e, from, IF Known(e) THEN "sent" ELSE "bad")
  BY DEF FailSubmission, SaveEngineRef
<1>2. UNCHANGED <<staged, dir, removing, look, prompt, left>> /\ UNCHANGED post
  BY <1>1 DEF FailSubmission, SaveEngineRef, Step
<1>3. FilesTyped
  BY <1>2, FilesOfNow DEF FilesTyped
<1>4. CASE ~Known(e)
  <2>1. UNCHANGED gen /\ Step(e, from, "bad")
    BY <1>1, <1>4 DEF FailSubmission, SaveEngineRef
  <2> QED BY <1>2, <1>3, <2>1, GoesOn DEF Pcs
<1>5. CASE Known(e)
  <2>1. gen[e] \in Gen /\ gen \in [Execs -> Gen]
    BY FilesOfNow
  <2>2. Step(e, from, "sent")
    BY <1>1, <1>5
  <2>3. att[e] = from /\ att'[e] = "sent" /\ Reached(e)
    BY <2>2, GoesFacts, FilesOfNow DEF Step, GenInv, Pcs
  <2>4. gen[e].state = "queued" /\ ~gen[e].ref
    BY <1>1, <1>5, <2>3 DEF Reached, Unsubmitted, Known
  <2>5. ASSUME NEW r \in Gen, gen' = [gen EXCEPT ![e] = r], r.state = "failed" \/ (r.state = "queued" /\ r.ref)
        PROVE  Keeps
    <3>1. gen'[e] = r
      BY <2>1, <2>5
    <3>2. RowGrows(e) /\ Reached(e)'
      BY <2>3, <2>4, <2>5, <3>1 DEF RowGrows, Followable, Terminal, Reached, Submitted
    <3> QED BY <1>2, <2>2, <2>4, <2>5, <3>2, GoesOnWithRow DEF Pcs
  <2>6. CASE FailSubmission(e)
    <3> DEFINE r == [gen[e] EXCEPT !.state = "failed", !.kind = "rejected"]
    <3>1. r \in Gen /\ r.state = "failed"
      BY <2>1, RowValues, Zenon
    <3>2. gen' = [gen EXCEPT ![e].state = "failed", ![e].kind = "rejected"]
      BY <1>5, <2>6 DEF FailSubmission
    <3>3. gen' = [gen EXCEPT ![e] = r]
      BY <2>1, <3>2
    <3> QED BY <2>5, <3>1, <3>3
  <2>7. CASE SaveEngineRef(e)
    <3> DEFINE r == [gen[e] EXCEPT !.ref = TRUE]
    <3>0. r \in Gen /\ r.state = gen[e].state /\ r.ref = TRUE
      BY <2>1, RowValues, Zenon
    <3>1. r \in Gen /\ r.state = "queued" /\ r.ref
      BY <2>4, <3>0
    <3>2. gen' = [gen EXCEPT ![e].ref = TRUE]
      BY <1>5, <2>7 DEF SaveEngineRef
    <3>3. gen' = [gen EXCEPT ![e] = r]
      BY <2>1, <3>2
    <3> QED BY <2>5, <3>1, <3>3
  <2> QED BY <2>6, <2>7
<1> QED BY <1>4, <1>5

(* An attempt that learns the server's number for its prompt writes it to its own row. *)
LEMMA CorrelateKeeps ==
    ASSUME TypeInv, GenInv, NEW e \in Execs, Correlate(e) PROVE Keeps
<1>1. /\ Step(e, "sent", "waiting") /\ UNCHANGED <<staged, dir, removing, look, prompt, left>>
      /\ gen' = IF Known(e) /\ ~asked[e[1]].turn THEN [gen EXCEPT ![e].correlated = TRUE] ELSE gen
      /\ UNCHANGED asked
  BY DEF Correlate, Step
<1>2. gen[e] \in Gen /\ gen \in [Execs -> Gen]
  BY FilesOfNow
<1>3. att[e] = "sent" /\ att'[e] = "waiting" /\ Submitted(e)
  BY <1>1, GoesFacts, FilesOfNow DEF Step, GenInv, Pcs, Reached
<1>4. CASE ~(Known(e) /\ ~asked[e[1]].turn)
  <2>1. UNCHANGED gen
    BY <1>1, <1>4
  <2>2. Settled(e)'
    BY <1>1, <1>3, <1>4, <2>1 DEF Submitted, Settled, Followable, Known
  <2>3. Reached(e)'
    BY <1>3, <2>2 DEF Reached
  <2>4. RowMoves(e) /\ OwnRow(e)
    BY <1>2, <2>1 DEF RowMoves, OwnRow
  <2>5. RowGrows(e)
    BY <1>1, <2>4, MovesGrow
  <2>6. FilesTyped
    BY <1>1, FilesOfNow DEF FilesTyped, Step
  <2>7. LookMoves /\ look' \in [Lookers -> Look]
    BY <1>1, SameLooks, FilesOfNow
  <2> QED BY <1>1, <2>1, <2>3, <2>4, <2>5, <2>6, <2>7, AttemptKeeps DEF Pcs
<1>5. CASE Known(e) /\ ~asked[e[1]].turn
  <2> DEFINE r == [gen[e] EXCEPT !.correlated = TRUE]
  <2>1. r \in Gen /\ r.correlated = TRUE /\ r.state = gen[e].state /\ r.ref = gen[e].ref
    BY <1>2, RowValues, Zenon
  <2>2. gen' = [gen EXCEPT ![e].correlated = TRUE]
    BY <1>1, <1>5
  <2>3. gen' = [gen EXCEPT ![e] = r]
    BY <1>2, <2>2
  <2> HIDE DEF r
  <2>4. gen'[e] = r
    BY <1>2, <2>3
  <2>5. gen'[e].state = gen[e].state /\ gen'[e].correlated /\ (gen[e].ref <=> gen'[e].ref)
    BY <2>1, <2>4
  <2>6. RowGrows(e)
    BY <1>1, <2>5 DEF RowGrows, Followable
  <2>7. Settled(e)'
    BY <1>3, <2>5 DEF Submitted, Settled, Followable
  <2>8. Reached(e)'
    BY <1>3, <2>7 DEF Reached
  <2> QED BY <1>1, <2>1, <2>3, <2>6, <2>8, GoesOnWithRow DEF Pcs
<1> QED BY <1>4, <1>5

(* The queue moves: attempts begin and end, and a dead process asks        *)
(* nothing more.                                                           *)
LEMMA QueueKeeps ==
    ASSUME TypeInv, GenInv, QueueMoves PROVE Keeps
<1>1. /\ QueueStep /\ UNCHANGED <<asked, post, staged, gen, dir, removing, prompt, left>>
      /\ look' = [x \in Lookers |-> IF x \in Execs /\ att'[x] = "over" THEN Idle ELSE look[x]]
  BY DEF QueueMoves
<1>2. QueueTypeOK(Pcs)' /\ ClaimsCounted'
  BY <1>1, QueueTypeStep, FilesOfNow
<1>3. Begins /\ Begun' /\ SuccessReported
  BY <1>1, AttemptsBegin, SuccessIsReported, FilesOfNow DEF GenInv
<1>4. LookMoves /\ look' \in [Lookers -> Look]
  <2>1. Idle \in Look /\ Idle.pc = "idle" /\ \A x \in Lookers : look[x] \in Look
    <3>1. look \in [Lookers -> Look]
      BY FilesOfNow
    <3>2. Idle \in Look /\ Idle.pc = "idle"
      BY DEF Idle, Look, Answers
    <3> QED BY <3>1, <3>2
  <2>2. \A x \in Lookers : look'[x] = Idle \/ look'[x] = look[x]
    BY <1>1
  <2>3. LookMoves
    BY <2>1, <2>2 DEF LookMoves
  <2>4. look' \in [Lookers -> Look]
    BY <1>1, <2>1
  <2> QED BY <2>3, <2>4
<1>5. TypeInv'
  BY <1>1, <1>2, <1>4, FilesOfNow, GenTypeParts DEF TypeInv
<1>6. ASSUME NEW e \in Execs PROVE RowGrows(e) /\ Reached(e)'
  <2>1. RowMoves(e)
    BY <1>1 DEF RowMoves
  <2>2. CASE att'[e] = att[e] \/ att'[e] = "over"
    <3>1. SameStage(e)
      BY <2>2, FilesOfNow DEF SameStage, QueueTypeOK, Pcs
    <3> QED BY <1>1, <2>1, <3>1, MovesGrow, StageStays DEF GenInv
  <2>3. CASE att[e] = "none" /\ att'[e] = "claimed"
    <3>1. SameStage(e)
      BY <2>3 DEF SameStage
    <3> QED BY <1>1, <2>1, <3>1, MovesGrow, StageStays DEF GenInv
  <2> QED BY <1>3, <2>2, <2>3 DEF Begins
<1> QED BY <1>1, <1>3, <1>4, <1>5, <1>6 DEF Keeps

---------------------------------------------------------------------------
(* The results.                                                            *)

LEMMA GenInit == Init => TypeInv /\ GenInv
<1> SUFFICES ASSUME Init PROVE TypeInv /\ GenInv
  OBVIOUS
<1>1. /\ QueueInit /\ asked \in [Jobs -> Request] /\ post = [j \in Jobs |-> "idle"]
      /\ staged = [j \in Jobs |-> "none"] /\ gen = [e \in Execs |-> NoGen] /\ dir = [e \in Execs |-> {}]
      /\ removing = {} /\ look = [x \in Lookers |-> Idle] /\ prompt = [e \in Execs |-> "none"] /\ left = {}
  BY DEF Init
<1>2. NoGen \in Gen /\ NoGen.state = "absent" /\ NoGen.ref = FALSE
  BY DEF NoGen, Gen, Kinds
<1>3. TypeInv
  <2>1. QueueTypeOK(Pcs) /\ ClaimsCounted
    BY <1>1, QueueTypeInit
  <2>2. Idle \in Look
    BY DEF Idle, Look, Answers
  <2> QED BY <1>1, <1>2, <2>1, <2>2 DEF TypeInv, TypeOK
<1>4. \A e \in Execs : att[e] = "none" /\ job[e[1]].state = "absent"
  BY <1>1, Pairs DEF QueueInit
<1>5. \A e \in Execs : Reached(e)
  BY <1>1, <1>2, <1>4 DEF Reached, Untouched
<1>6. SuccessesFollowed
  BY <1>1, <1>4 DEF QueueInit, SuccessesFollowed
<1>7. LooksAtSubmitted
  <2>1. \A x \in Lookers : look[x].pc = "idle"
    BY <1>1 DEF Idle
  <2> QED BY <2>1 DEF LooksAtSubmitted
<1> QED BY <1>3, <1>4, <1>5, <1>6, <1>7 DEF GenInv, Begun

(* Every step of the requests, the attempts, the pages, the hooks and the removals keeps the invariant. *)
LEMMA NextKeeps == ASSUME TypeInv, GenInv, Next PROVE Keeps
<1>1. CASE QueueMoves
  BY <1>1, QueueKeeps
<1>2. CASE \E j \in Jobs : Hook(j)
  BY <1>2, AroundKeeps
<1>3. ASSUME NEW e \in Execs, AttemptStep(e) PROVE Keeps
  <2>1. e \in Lookers
    BY DEF Lookers
  <2>2. CASE WaitAsks(e)
    BY <2>1, <2>2, AskingKeeps
  <2>3. CASE CreateRow(e)
    BY <2>3, CreateRowKeeps
  <2>4. CASE FailSubmission(e) \/ SaveEngineRef(e)
    BY <2>4, SavingKeeps
  <2>5. CASE Correlate(e)
    BY <2>5, CorrelateKeeps
  <2> QED BY <1>3, <2>2, <2>3, <2>4, <2>5, SubmissionKeeps DEF AttemptStep
<1>4. ASSUME NEW x \in Cards, NEW e \in Execs, CardAsks(x, e) PROVE Keeps
  BY <1>4, AskingKeeps DEF Lookers
<1>5. ASSUME NEW x \in Lookers, Refresh(x) PROVE Keeps
  BY <1>5, AskingKeeps, WriteAnswerKeeps DEF Refresh
<1>6. CASE PageStep
  BY <1>6, PageKeeps
<1>7. CASE FileStep
  BY <1>7, PageKeeps, AroundKeeps, DeleteRowKeeps DEF FileStep
<1>8. CASE EngineStep
  BY <1>8, AroundKeeps
<1> QED BY <1>1, <1>2, <1>3, <1>4, <1>5, <1>6, <1>7, <1>8 DEF Next

(* The invariant is inductive. *)
LEMMA GenStep == TypeInv /\ GenInv /\ [Next]_vars => (TypeInv /\ GenInv)'
<1> SUFFICES ASSUME TypeInv, GenInv, [Next]_vars PROVE (TypeInv /\ GenInv)'
  OBVIOUS
<1>1. CASE Next
  BY <1>1, NextKeeps, KeepsInvariant
<1>2. CASE UNCHANGED vars
  <2>1. /\ UNCHANGED <<job, att, hooks, faults>>
        /\ UNCHANGED <<asked, post, staged, gen, dir, removing, look, prompt, left>>
    BY <1>2 DEF vars, queueVars, genVars
  <2>2. FilesTyped
    BY <2>1, FilesOfNow DEF FilesTyped
  <2>3. Keeps
    BY <2>1, <2>2, SameLooks, FilesOfNow, AroundStep
  <2> QED BY <2>3, KeepsInvariant
<1> QED BY <1>1, <1>2

(* The invariant holds in every reachable state. *)
LEMMA GenInvariant == Spec => [](TypeInv /\ GenInv)
BY GenInit, GenStep, PTL DEF Spec

(* The rows of jobs, generations, uploads, looks and the engine's prompts  *)
(* hold what they are declared to hold.                                    *)
THEOREM TypeCorrect == Spec => []TypeOK
<1>1. TypeInv /\ GenInv => TypeOK
  BY DEF TypeInv
<1> QED BY <1>1, GenInvariant, PTL

(* When a page's job has succeeded, its card can follow the generation to  *)
(* an end, whichever attempt's report was the one that counted, and        *)
(* whatever an attempt that lost its claim still does.                     *)
THEOREM CardsFollowSuccess == Spec => []SucceededIsFollowable
<1>1. TypeInv /\ GenInv => SucceededIsFollowable
  <2> SUFFICES ASSUME GenInv, NEW j \in Jobs, job[j].state = "succeeded"
               PROVE  Followable(<<j, job[j].outcome>>)
    BY DEF SucceededIsFollowable, Followable
  <2>1. <<j, job[j].outcome>> \in Execs
    BY Pairs DEF GenInv, SuccessesFollowed
  <2> QED BY <2>1 DEF GenInv, SuccessesFollowed
<1> QED BY <1>1, GenInvariant, PTL

(* A committed outcome stays: whatever stale copy a refresh, a submission  *)
(* or a re-run holds, a generation that is done or failed keeps its state, *)
(* kind and outputs until it is deleted.                                   *)
Stands ==
    \A e \in Execs : gen[e].state \in Terminal =>
        gen'[e] = gen[e] \/ gen'[e].state = "deleted" \/ gen'[e] = [gen[e] EXCEPT !.correlated = TRUE]

(* A step that changes one row, and one that has no outcome yet.           *)
LEMMA OpenRowStands ==
    ASSUME NEW e \in Execs, NEW r, gen \in [Execs -> Gen], gen[e].state \notin Terminal, gen' = [gen EXCEPT ![e] = r]
    PROVE  Stands
BY DEF Stands

(* No step turns one outcome of a generation into another. *)
LEMMA OutcomeStep ==
    ASSUME TypeInv, GenInv, [Next]_vars PROVE Stands
<1>0. gen \in [Execs -> Gen] /\ \A e \in Execs : Reached(e)
  BY FilesOfNow DEF GenInv, LooksAtSubmitted, Lookers
<1>1. ASSUME UNCHANGED gen PROVE Stands
  BY <1>1 DEF Stands
<1>2. ASSUME NEW e \in Execs, CreateRow(e) PROVE Stands
  <2>1. att[e] = "resolved" /\ gen' = [gen EXCEPT ![e].state = "queued"]
    BY <1>2 DEF CreateRow, Step, Goes
  <2>2. gen[e].state \notin Terminal
    BY <1>0, <2>1 DEF Reached, Untouched, Terminal
  <2> QED BY <1>0, <2>1, <2>2, OpenRowStands
<1>3. ASSUME NEW e \in Execs, FailSubmission(e) \/ SaveEngineRef(e) PROVE Stands
  <2>1. att[e] \in {"refused", "accepted"}
    BY <1>3 DEF FailSubmission, SaveEngineRef, Step, Goes
  <2>2. gen[e].state \notin Terminal
    BY <1>0, <2>1 DEF Reached, Unsubmitted, Terminal
  <2>3. \/ UNCHANGED gen
        \/ gen' = [gen EXCEPT ![e] = [gen[e] EXCEPT !.state = "failed", !.kind = "rejected"]]
        \/ gen' = [gen EXCEPT ![e] = [gen[e] EXCEPT !.ref = TRUE]]
    BY <1>0, <1>3 DEF FailSubmission, SaveEngineRef
  <2> QED BY <1>0, <1>1, <2>2, <2>3, OpenRowStands
<1>4. ASSUME NEW e \in Execs, Correlate(e) PROVE Stands
  <2>1. UNCHANGED gen \/ gen' = [gen EXCEPT ![e].correlated = TRUE]
    BY <1>4 DEF Correlate
  <2>2. ASSUME gen' = [gen EXCEPT ![e].correlated = TRUE] PROVE Stands
    BY <1>0, <2>2 DEF Stands
  <2> QED BY <1>1, <2>1, <2>2
<1>5. ASSUME NEW e \in Execs, DeleteRow(e) PROVE Stands
  <2>1. gen' = [gen EXCEPT ![e] = [NoGen EXCEPT !.state = "deleted", !.ref = gen[e].ref]]
    BY <1>5 DEF DeleteRow
  <2>2. gen'[e] = [NoGen EXCEPT !.state = "deleted", !.ref = gen[e].ref] /\ \A f \in Execs : f # e => gen'[f] = gen[f]
    BY <1>0, <2>1
  <2>3. gen'[e].state = "deleted"
    BY <2>2 DEF NoGen
  <2> QED BY <2>2, <2>3 DEF Stands
<1>6. ASSUME NEW x \in Lookers, WriteAnswer(x) PROVE Stands
  <2> DEFINE e == look[x].at
  <2>1. e \in Execs
    BY <1>6 DEF WriteAnswer, GenInv, LooksAtSubmitted
  <2>2. UNCHANGED gen \/ (gen[e].state \notin Terminal /\ gen' = [gen EXCEPT ![e] = Told(e, look[x].heard)])
    BY <1>6 DEF WriteAnswer
  <2> QED BY <1>0, <1>1, <2>1, <2>2, OpenRowStands
<1>7. ASSUME NEW e \in Execs, AttemptStep(e) PROVE Stands
  <2>1. \/ UNCHANGED gen \/ CreateRow(e) \/ FailSubmission(e) \/ SaveEngineRef(e) \/ Correlate(e)
    BY <1>7 DEF AttemptStep, ResolveInputs, InputReferenceError, VisionUnavailable, StoreInputs, SubmitAccepted,
                SubmitRefused, WaitAsks, WaitEndsAtOnce, WaitTimesOut
  <2> QED BY <1>1, <1>2, <1>3, <1>4, <2>1
<1>8. ASSUME NEW x \in Lookers, Refresh(x) PROVE Stands
  <2>1. UNCHANGED gen \/ WriteAnswer(x)
    BY <1>8 DEF Refresh, AskHistory, AskQueue, FetchOutputs, Unreachable, Hears, Rests
  <2> QED BY <1>1, <1>6, <2>1
<1>9. ASSUME PageStep \/ FileStep \/ EngineStep PROVE Stands
  <2>1. UNCHANGED gen \/ \E e \in Execs : DeleteRow(e)
    BY <1>9 DEF PageStep, FileStep, EngineStep, Stage, Submit, SubmitFails, Age, PruneStagedInputs, RemoveFiles,
                RemoverDies, EngineFilesDelete, EngineRestarts, EngineStarts, EngineEnds, EngineSteps
  <2> QED BY <1>1, <1>5, <2>1
<1>10. ASSUME QueueMoves \/ (\E j \in Jobs : Hook(j)) \/ (\E x \in Cards, e \in Execs : CardAsks(x, e)) PROVE Stands
  <2>1. UNCHANGED gen
    BY <1>10 DEF QueueMoves, Hook, CardAsks, genVars
  <2> QED BY <1>1, <2>1
<1>11. CASE UNCHANGED vars
  BY <1>1, <1>11 DEF vars, genVars
<1> QED BY <1>7, <1>8, <1>9, <1>10, <1>11 DEF Next

(* Whoever refreshes with a stale copy, a committed outcome stays.         *)
THEOREM OutcomesAreFinal == Spec => OutcomesStand
<1>1. TypeInv /\ GenInv /\ [Next]_vars => [Stands]_vars
  BY OutcomeStep
<1>2. [Stands]_vars => [\A e \in Execs : gen[e].state \in Terminal =>
          gen'[e] = gen[e] \/ gen'[e].state = "deleted"
          \/ gen'[e] = [gen[e] EXCEPT !.correlated = TRUE]]_vars
  BY DEF Stands
<1> QED BY <1>1, <1>2, GenInvariant, PTL DEF Spec, OutcomesStand

---------------------------------------------------------------------------
(* Backup.  The dump is taken first and the files after it while web may   *)
(* go on serving, so the invariant follows one dump from the rows it holds *)
(* to the files copied for it (CopySound), to the manifest that is written *)
(* about both (ManifestSound), to the files put back (PutSound) and the    *)
(* rows that follow them (BackSound), for every document not touched.      *)
Copying == {"dumped", "checked", "planned", "copying", "folding"}
Putting == {"putting", "verifying", "replacing"}
Dumped(d) == dest.dump.row[d] # NoRow

\* The manifest on disk records, for every row of its dump that nobody
\* touched, the file of that row.
ManifestSound ==
    dest.manifest.dump # NoDump =>
        /\ dest.manifest.at = "written"
        /\ dest.manifest.dump = dest.dump =>
             \A d \in Docs \ touched : Dumped(d) => dest.manifest.files[d] = dest.dump.row[d].sha

\* A backup with a dump works on the rows and files of the dump.
CopySound ==
    op.at \in Copying /\ op.dump =>
        /\ dest.dump # NoDump
        /\ \A d \in Docs \ touched : Dumped(d) =>
             /\ row[d] = dest.dump.row[d] /\ file[d] = row[d].sha /\ edit.doc # d
             /\ op.at = "copying" /\ d \notin op.todo => op.listed[d] = file[d]
             /\ op.at = "folding" => op.listed[d] = file[d]

\* A restore puts the files of the manifest back, and its dump's rows last.
PutSound ==
    op.at \in Putting =>
        /\ dest.files = dest.manifest.files
        /\ \A d \in Docs \ touched : ~(op.at = "putting" /\ d \in op.todo) =>
             dest.files[d] = None \/ file[d] = dest.files[d]
        /\ op.at \in {"verifying", "replacing"} =>
             dest.manifest.dump # NoDump /\ dest.manifest.dump = dest.dump
        /\ op.at = "replacing" => ~services.web

\* What is back stays sound under later edits; none is open while web is down.
BackSound ==
    /\ ~services.web => edit = NoEdit
    /\ op.at = "restored" /\ dest.manifest.dump # NoDump =>
         /\ edit # NoEdit => file[edit.doc] = edit.to
         /\ \A d \in Docs \ touched : d # edit.doc /\ row[d] # NoRow => file[d] = row[d].sha

BackupInv == BakTypeOK /\ ManifestSound /\ CopySound /\ PutSound /\ BackSound

---------------------------------------------------------------------------
(* A row that is there is about some content, which is never None.         *)
LEMMA RowsAreRecords ==
    /\ \A r \in Rows : r # NoRow => r.sha \in Contents /\ r.sha # None
    /\ NoRow \in Rows
BY BackupAssumption DEF Rows, NoRow

(* An empty backup directory is well typed, and holds the dump of no run.  *)
LEMMA EmptyDestTyped ==
    EmptyDest \in Dest /\ NoDump \in Dumps /\ NoDump.run = 0 /\ NoManifest.dump = NoDump /\ NoFiles \in Files
BY BackupAssumption, RowsAreRecords
   DEF EmptyDest, Dest, NoDump, Dumps, NoManifest, NoFiles, Files

(* What is recorded on disk stays sound while only more is touched. *)
LEMMA ManifestStays ==
    ASSUME ManifestSound, dest'.dump = dest.dump, dest'.manifest = dest.manifest,
           touched \subseteq touched'
    PROVE  ManifestSound'
BY DEF ManifestSound, Dumped

---------------------------------------------------------------------------
(* The box in use. *)
LEMMA EditBeginsStep ==
    ASSUME BackupInv, NEW d \in Docs, NEW to \in Contents \cup {None}, EditBegins(d, to)
    PROVE  BackupInv'
<1> USE DEF BackupInv
<1>0. /\ services.web /\ edit = NoEdit /\ edit' = [doc |-> d, to |-> to] /\ file' = [file EXCEPT ![d] = to]
      /\ count' = [count EXCEPT !.edits = @ + 1] /\ count.edits < MaxEdits
      /\ touched' = IF op.at \in Busy THEN touched \cup {d} ELSE touched
      /\ UNCHANGED <<row, services, op, dest>>
  BY DEF EditBegins, Touches
<1>1. BakTypeOK'
  BY <1>0, BackupAssumption DEF BakTypeOK, Files
<1>2. ManifestSound'
  BY <1>0, ManifestStays
<1>3. \A c \in Docs \ {d} : file'[c] = file[c]
  BY <1>0 DEF BakTypeOK, Files
<1>4. file'[d] = to
  BY <1>0 DEF BakTypeOK, Files
<1>5. CopySound'
  BY <1>0, <1>3, BackupAssumption DEF CopySound, Copying, Busy, Dumped, NoEdit
<1>6. PutSound'
  BY <1>0, <1>3 DEF PutSound, Putting, Busy
<1>7. BackSound'
  BY <1>0, <1>3, <1>4, BackupAssumption DEF BackSound, NoEdit
<1> QED BY <1>1, <1>2, <1>5, <1>6, <1>7

(* A request that commits makes its row agree with the file it has moved.  *)
LEMMA EditCommitsStep ==
    ASSUME BackupInv, EditCommits
    PROVE  BackupInv'
<1> USE DEF BackupInv
<1> DEFINE r == IF edit.to = None THEN NoRow ELSE [sha |-> edit.to, state |-> "pending"]
<1>0. /\ edit # NoEdit /\ edit' = NoEdit /\ row' = [row EXCEPT ![edit.doc] = r]
      /\ touched' = IF op.at \in Busy THEN touched \cup {edit.doc} ELSE touched
      /\ UNCHANGED <<file, services, op, dest, count>>
  BY DEF EditCommits, Touches
<1>1. r \in Rows /\ (r # NoRow => r.sha = edit.to)
  BY <1>0, BackupAssumption DEF BakTypeOK, Rows, NoRow
<1> HIDE DEF r
<1>2. BakTypeOK'
  <2>1. touched' \subseteq Docs
    BY <1>0 DEF BakTypeOK, CopySound, NoEdit
  <2> QED BY <1>0, <1>1, <2>1 DEF BakTypeOK, NoEdit
<1>3. ManifestSound'
  BY <1>0, ManifestStays
<1>4. \A c \in Docs : c # edit.doc => row'[c] = row[c]
  BY <1>0 DEF BakTypeOK
<1>5. CopySound'
  BY <1>0, <1>4, BackupAssumption DEF CopySound, Copying, Busy, Dumped, NoEdit
<1>6. PutSound'
  BY <1>0 DEF PutSound, Putting, Busy
<1>7. BackSound'
  <2>1. ASSUME op.at = "restored", dest.manifest.dump # NoDump, NEW c \in Docs \ touched,
               row'[c] # NoRow
        PROVE  file[c] = row'[c].sha
    <3>1. CASE c = edit.doc
      <4>1. row'[c] = r
        BY <1>0, <3>1 DEF BakTypeOK
      <4> QED BY <1>0, <1>1, <2>1, <3>1, <4>1 DEF BackSound
    <3>2. CASE c # edit.doc
      BY <1>4, <2>1, <3>2 DEF BackSound
    <3> QED BY <3>1, <3>2
  <2> QED BY <1>0, <2>1 DEF BackSound, Busy
<1> QED BY <1>2, <1>3, <1>5, <1>6, <1>7

(* The worker changes the state of a row, never the content it is about.   *)
LEMMA WorkerMovesStep ==
    ASSUME BackupInv, NEW d \in Docs, NEW from \in {"pending", "processing"},
           NEW to \in {"processing", "ready"}, WorkerMoves(d, from, to)
    PROVE  BackupInv'
<1> USE DEF BackupInv
<1>0. /\ row[d].state = from /\ row' = [row EXCEPT ![d].state = to] /\ edit.doc # d
      /\ touched' = IF op.at \in Busy THEN touched \cup {d} ELSE touched
      /\ UNCHANGED <<file, edit, services, op, dest, count>>
  BY DEF WorkerMoves, Touches
<1>1. row[d] \in Rows /\ row[d] # NoRow
  BY <1>0 DEF BakTypeOK, NoRow, None
<1>2. /\ row'[d] \in Rows /\ row'[d].sha = row[d].sha
      /\ row' \in [Docs -> Rows] /\ \A c \in Docs \ {d} : row'[c] = row[c]
  BY <1>0, <1>1 DEF BakTypeOK, Rows
<1>3. BakTypeOK'
  BY <1>0, <1>2 DEF BakTypeOK
<1>4. ManifestSound'
  BY <1>0, ManifestStays
<1>5. CopySound'
  BY <1>0, <1>2 DEF CopySound, Copying, Busy, Dumped
<1>6. PutSound'
  BY <1>0 DEF PutSound, Putting, Busy
<1>7. BackSound'
  BY <1>0, <1>1, <1>2 DEF BackSound
<1> QED BY <1>3, <1>4, <1>5, <1>6, <1>7

(* Stopping waits for the open request; neither touches rows or files.     *)
LEMMA ServicesStep ==
    ASSUME BackupInv, StopServices \/ StartServices
    PROVE  BackupInv'
<1> USE DEF BackupInv
<1>0. /\ UNCHANGED <<row, file, edit, op, dest, touched, count>> /\ op.at \in Finished
      /\ services' \in [web : BOOLEAN, worker : BOOLEAN]
      /\ ~services'.web => edit = NoEdit
  <2>1. CASE StopServices
    BY <2>1, BackupAssumption DEF StopServices, NoCommand
  <2>2. CASE StartServices
    BY <2>2 DEF StartServices, NoCommand
  <2> QED BY <2>1, <2>2
<1>1. BakTypeOK'
  BY <1>0 DEF BakTypeOK
<1>2. ManifestSound'
  BY <1>0, ManifestStays
<1>3. CopySound' /\ PutSound'
  BY <1>0 DEF CopySound, Copying, PutSound, Putting, Finished
<1>4. BackSound'
  BY <1>0 DEF BackSound
<1> QED BY <1>1, <1>2, <1>3, <1>4

---------------------------------------------------------------------------
(* A backup. *)
LEMMA PgDumpStep ==
    ASSUME BackupInv, NEW fresh \in BOOLEAN, NEW force \in BOOLEAN, PgDump(fresh, force)
    PROVE  BackupInv'
<1> USE DEF BackupInv
<1> DEFINE base == IF fresh THEN EmptyDest ELSE dest
<1> DEFINE dump == [row |-> row, run |-> count.runs + 1]
<1>0. /\ count.runs < MaxRuns /\ dest' = [base EXCEPT !.dump = dump]
      /\ op' = [NoOp EXCEPT !.at = "dumped", !.force = force, !.dump = TRUE, !.fresh = fresh]
      /\ touched' = Unsettled /\ count' = [count EXCEPT !.runs = @ + 1]
      /\ UNCHANGED <<row, file, edit, services>>
  BY DEF PgDump
<1>1. /\ count.runs \in Nat /\ MaxRuns \in Nat /\ row \in [Docs -> Rows] /\ file \in Files
      /\ dest \in Dest /\ edit \in [doc : Docs, to : Contents \cup {None}] \cup {NoEdit}
      /\ services \in [web : BOOLEAN, worker : BOOLEAN]
      /\ dest.manifest.dump.run <= dest.dump.run /\ dest.dump.run <= count.runs
      /\ dest.manifest.dump.run \in Nat /\ dest.dump.run \in Nat
      /\ count \in [edits : 0..MaxEdits, runs : 0..MaxRuns, kills : 0..MaxKills]
  BY BackupAssumption DEF BakTypeOK, Dest, Dumps
<1>2. dump \in Dumps /\ dump.run = count.runs + 1 /\ dump.row = row
  BY <1>0, <1>1 DEF Dumps
<1>3. base \in Dest /\ base.manifest.dump.run \in Nat /\ base.manifest.dump.run <= count.runs
  BY <1>1, EmptyDestTyped DEF EmptyDest, NoManifest, Dest
<1> HIDE DEF base, dump
<1>4. dest' \in Dest /\ dest'.dump = dump /\ dest'.manifest = base.manifest
  BY <1>0, <1>2, <1>3 DEF Dest
<1>5. /\ op' \in Command /\ op'.at = "dumped" /\ op'.dump = TRUE
  BY <1>0, EmptyDestTyped DEF NoOp, Command, Finished, Busy
<1>6. BakTypeOK'
  <2>1. touched' \subseteq Docs /\ count'.runs = count.runs + 1
        /\ count' \in [edits : 0..MaxEdits, runs : 0..MaxRuns, kills : 0..MaxKills]
    BY <1>0, <1>1 DEF Unsettled
  <2>2. dest'.manifest.dump.run <= dest'.dump.run /\ dest'.dump.run <= count'.runs
    BY <1>1, <1>2, <1>3, <1>4, <2>1
  <2> QED BY <1>0, <1>1, <1>4, <1>5, <2>1, <2>2 DEF BakTypeOK
<1>7. dest'.manifest.dump # dest'.dump /\ dest'.dump # NoDump
  BY <1>1, <1>2, <1>3, <1>4, EmptyDestTyped
<1>8. ManifestSound'
  <2>1. CASE fresh
    BY <1>4, <2>1, EmptyDestTyped DEF ManifestSound, base, EmptyDest
  <2>2. CASE ~fresh
    BY <1>4, <1>7, <2>2 DEF ManifestSound, base
  <2> QED BY <2>1, <2>2
<1>9. CopySound'
  BY <1>0, <1>2, <1>4, <1>5, <1>7 DEF CopySound, Copying, Dumped, Unsettled
<1>10. PutSound'
  BY <1>5 DEF PutSound, Putting
<1>11. BackSound'
  BY <1>0, <1>5 DEF BackSound
<1> QED BY <1>6, <1>8, <1>9, <1>10, <1>11

(* A backup of the files alone leaves the dump that is there, or none.     *)
LEMMA FilesOnlyStep ==
    ASSUME BackupInv, NEW fresh \in BOOLEAN, NEW force \in BOOLEAN, FilesOnly(fresh, force)
    PROVE  BackupInv'
<1> USE DEF BackupInv
<1>0. /\ count.runs < MaxRuns /\ dest' = IF fresh THEN EmptyDest ELSE dest
      /\ op' = [NoOp EXCEPT !.at = "dumped", !.force = force, !.fresh = fresh]
      /\ touched' = IF fresh THEN Unsettled ELSE touched
      /\ count' = [count EXCEPT !.runs = @ + 1]
      /\ UNCHANGED <<row, file, edit, services>>
  BY DEF FilesOnly
<1>1. op' \in Command /\ op'.at = "dumped" /\ op'.dump = FALSE
  BY <1>0, EmptyDestTyped DEF NoOp, Command, Finished, Busy
<1>2. BakTypeOK'
  <2>1. /\ count'.runs = count.runs + 1 /\ count.runs \in Nat
        /\ count' \in [edits : 0..MaxEdits, runs : 0..MaxRuns, kills : 0..MaxKills]
    BY <1>0, BackupAssumption DEF BakTypeOK
  <2>2. touched' \subseteq Docs
    BY <1>0 DEF BakTypeOK, Unsettled
  <2>3. /\ dest' \in Dest /\ dest'.manifest.dump.run <= dest'.dump.run /\ dest'.dump.run <= count'.runs
    <3>1. CASE fresh
      BY <1>0, <2>1, <3>1, EmptyDestTyped DEF EmptyDest
    <3>2. CASE ~fresh
      BY <1>0, <2>1, <3>2 DEF BakTypeOK, Dest, Dumps
    <3> QED BY <3>1, <3>2
  <2> QED BY <1>0, <1>1, <2>1, <2>2, <2>3 DEF BakTypeOK
<1>3. ManifestSound'
  <2>1. CASE fresh
    BY <1>0, <2>1, EmptyDestTyped DEF ManifestSound, EmptyDest
  <2>2. CASE ~fresh
    BY <1>0, <2>2, ManifestStays
  <2> QED BY <2>1, <2>2
<1>4. CopySound' /\ PutSound'
  BY <1>1 DEF CopySound, PutSound, Putting
<1>5. BackSound'
  BY <1>0, <1>1 DEF BackSound
<1> QED BY <1>2, <1>3, <1>4, <1>5

(* What is left of a command that has ended.                               *)
LEMMA EndsAsFacts ==
    ASSUME BakTypeOK, NEW how \in {"refused", "aborted", "done"}
    PROVE  EndsAs(how) \in Command /\ EndsAs(how).at = how
BY EmptyDestTyped DEF BakTypeOK, EndsAs, NoOp, Command, Finished

(* A step that ends a command, with what is on disk unchanged. *)
LEMMA CommandEnds ==
    ASSUME BackupInv, NEW how \in {"refused", "aborted", "done"}, op' = EndsAs(how),
           UNCHANGED <<row, file, edit, services, dest, touched>>,
           count' \in [edits : 0..MaxEdits, runs : 0..MaxRuns, kills : 0..MaxKills],
           count'.runs = count.runs
    PROVE  BackupInv'
<1> USE DEF BackupInv
<1>1. op' \in Command /\ op'.at = how
  BY EndsAsFacts
<1>2. BakTypeOK'
  BY <1>1 DEF BakTypeOK
<1>3. ManifestSound'
  BY ManifestStays
<1>4. CopySound' /\ PutSound' /\ BackSound'
  BY <1>1 DEF CopySound, PutSound, Copying, Putting, BackSound
<1> QED BY <1>2, <1>3, <1>4

(* A step of a backup that leaves the dump and the manifest on disk. *)
LEMMA BackupGoesOn ==
    ASSUME BackupInv, op.at \in Copying, op' \in Command, op'.at \in Copying, op'.dump = op.dump,
           UNCHANGED <<row, file, edit, services, touched, count>>,
           dest' \in Dest, dest'.dump = dest.dump, dest'.manifest = dest.manifest,
           op'.at = "copying" =>
               \A d \in Docs : \/ d \in op'.todo \/ op'.listed[d] = file[d] \/ file[d] = None
                               \/ op.at = "copying" /\ d \notin op.todo /\ op'.listed[d] = op.listed[d],
           op'.at = "folding" => op.at = "copying" /\ op.todo = {} /\ op'.listed = op.listed
    PROVE  BackupInv'
<1> USE DEF BackupInv
<1>1. BakTypeOK'
  BY DEF BakTypeOK
<1>2. ManifestSound'
  BY ManifestStays
<1>3. PutSound' /\ BackSound'
  BY DEF PutSound, Copying, Putting, BackSound
<1>4. ASSUME NEW d \in Docs \ touched, Dumped(d), op.dump
      PROVE  file[d] # None
  BY <1>4, RowsAreRecords DEF CopySound, BakTypeOK, Dumped
<1>5. CopySound'
  BY <1>4 DEF CopySound, Dumped
<1> QED BY <1>1, <1>2, <1>3, <1>5

(* A backup's own steps. *)
LEMMA RunBackupStep ==
    ASSUME BackupInv, run_backup
    PROVE  BackupInv'
<1> USE DEF BackupInv
<1>0. /\ op \in Command /\ dest \in Dest /\ file \in Files
      /\ count \in [edits : 0..MaxEdits, runs : 0..MaxRuns, kills : 0..MaxKills]
  BY DEF BakTypeOK
<1>1. CASE check_active_work
  <2>1. CASE op' = EndsAs("refused")
    BY <1>0, <1>1, <2>1, CommandEnds DEF check_active_work
  <2>2. CASE op' # EndsAs("refused")
    <3>1. op' = [op EXCEPT !.at = "checked", !.active = In({"pending", "processing"})] /\ op.at = "dumped"
      BY <1>1, <2>2 DEF check_active_work
    <3>2. op' \in Command /\ op'.at = "checked" /\ op'.dump = op.dump
      BY <1>0, <3>1 DEF Command, Busy, In
    <3> QED BY <1>0, <1>1, <3>1, <3>2, BackupGoesOn DEF check_active_work, Copying
  <2> QED BY <2>1, <2>2
<1>2. CASE planned_file_paths
  <2>1. CASE op' = EndsAs("refused")
    BY <1>0, <1>2, <2>1, CommandEnds DEF planned_file_paths
  <2>2. CASE op' # EndsAs("refused")
    <3>1. op' = [op EXCEPT !.at = "planned"] /\ op.at = "checked"
      BY <1>2, <2>2 DEF planned_file_paths
    <3>2. op' \in Command /\ op'.at = "planned" /\ op'.dump = op.dump
      BY <1>0, <3>1 DEF Command, Busy
    <3> QED BY <1>0, <1>2, <3>1, <3>2, BackupGoesOn DEF planned_file_paths, Copying
  <2> QED BY <2>1, <2>2
<1>3. CASE _walk_root
  <2>1. op' = [op EXCEPT !.at = "copying", !.todo = Present(file)] /\ op.at = "planned"
    BY <1>3 DEF _walk_root
  <2>2. /\ op' \in Command /\ op'.at = "copying" /\ op'.dump = op.dump
        /\ \A d \in Docs : d \in op'.todo \/ file[d] = None
    BY <1>0, <2>1 DEF Command, Busy, Present
  <2> QED BY <1>0, <1>3, <2>1, <2>2, BackupGoesOn DEF _walk_root, Copying
<1>4. CASE fold_in_dump
  <2>1. op' = [op EXCEPT !.at = "folding"] /\ op.at = "copying" /\ op.todo = {}
    BY <1>4 DEF fold_in_dump
  <2>2. op' \in Command /\ op'.at = "folding" /\ op'.dump = op.dump /\ op'.listed = op.listed
    BY <1>0, <2>1 DEF Command, Busy
  <2> QED BY <1>0, <1>4, <2>1, <2>2, BackupGoesOn DEF fold_in_dump, Copying
<1>5. CASE build_manifest
  <2>1. /\ op.at = "folding" /\ op' = EndsAs("done")
        /\ dest' = [dest EXCEPT !.manifest = [at |-> "written", files |-> op.listed, active |-> op.active,
                                              dump |-> IF op.dump THEN dest.dump ELSE NoDump]]
        /\ UNCHANGED <<row, file, edit, services, touched, count>>
    BY <1>5 DEF build_manifest
  <2>2. /\ dest'.dump = dest.dump /\ dest'.manifest.at = "written" /\ dest'.manifest.files = op.listed
        /\ dest'.manifest.dump = IF op.dump THEN dest.dump ELSE NoDump
        /\ dest' \in Dest
    BY <1>0, <2>1, EmptyDestTyped DEF Dest, Command
  <2>3. op' \in Command /\ op'.at = "done"
    BY <2>1, EndsAsFacts
  <2>4. BakTypeOK'
    <3>1. dest.dump.run \in Nat
      BY <1>0, BackupAssumption DEF Dest, Dumps
    <3> QED BY <2>1, <2>2, <2>3, <3>1, EmptyDestTyped DEF BakTypeOK
  <2>5. ManifestSound'
    BY <2>1, <2>2 DEF ManifestSound, CopySound, Copying, Dumped
  <2>6. CopySound' /\ PutSound' /\ BackSound'
    BY <2>1, <2>3 DEF CopySound, Copying, PutSound, Putting, BackSound
  <2> QED BY <2>4, <2>5, <2>6
<1>6. ASSUME NEW d \in Docs, _copy_and_hash(d)
      PROVE  BackupInv'
  <2>1. CASE file[d] = None
    BY <1>0, <1>6, <2>1, CommandEnds DEF _copy_and_hash
  <2>2. CASE file[d] # None
    <3>1. /\ op.at = "copying" /\ d \in op.todo
          /\ dest' = [dest EXCEPT !.files[d] = file[d]]
          /\ op' = [op EXCEPT !.todo = @ \ {d}, !.listed[d] = file[d], !.wrote = TRUE]
          /\ UNCHANGED <<row, file, edit, services, touched, count>>
      BY <1>6, <2>2 DEF _copy_and_hash
    <3>2. dest' \in Dest /\ dest'.dump = dest.dump /\ dest'.manifest = dest.manifest
      BY <1>0, <3>1 DEF Dest, Files
    <3>3. /\ op' \in Command /\ op'.at = "copying" /\ op'.dump = op.dump
          /\ op'.todo = op.todo \ {d} /\ op'.listed = [op.listed EXCEPT ![d] = file[d]]
      BY <1>0, <3>1 DEF Command, Files
    <3>4. \A c \in Docs : c \in op'.todo \/ op'.listed[c] = file[c]
                          \/ (op.at = "copying" /\ c \notin op.todo /\ op'.listed[c] = op.listed[c])
      BY <1>0, <3>1, <3>3 DEF Command, Files
    <3> QED BY <3>1, <3>2, <3>3, <3>4, BackupGoesOn DEF Copying
  <2> QED BY <2>1, <2>2
<1> QED BY <1>1, <1>2, <1>3, <1>4, <1>5, <1>6 DEF run_backup

---------------------------------------------------------------------------
(* A disaster and a restore. *)
LEMMA DisasterStep ==
    ASSUME BackupInv, Disaster
    PROVE  BackupInv'
<1> USE DEF BackupInv
<1>0. /\ op.at \in Finished /\ edit = NoEdit /\ row' = [d \in Docs |-> NoRow] /\ file' = NoFiles
      /\ UNCHANGED <<edit, services, op, dest, touched, count>>
  BY DEF Disaster, NoCommand
<1>1. BakTypeOK'
  BY <1>0, EmptyDestTyped, RowsAreRecords DEF BakTypeOK
<1>2. ManifestSound'
  BY <1>0, ManifestStays
<1>3. CopySound' /\ PutSound' /\ BackSound'
  BY <1>0 DEF CopySound, Copying, PutSound, Putting, Finished, BackSound
<1> QED BY <1>1, <1>2, <1>3

(* A restore begins on a tree that is the manifest's, or is refused.       *)
LEMMA RunRestoreStep ==
    ASSUME BackupInv, NEW force \in BOOLEAN, run_restore(force)
    PROVE  BackupInv'
<1> USE DEF BackupInv
<1>0. UNCHANGED <<row, file, edit, services, dest, touched, count>>
  BY DEF run_restore
<1>1. \/ op' = [NoOp EXCEPT !.at = "refused"]
      \/ /\ op' = [NoOp EXCEPT !.at = "putting", !.force = force, !.todo = Present(dest.files)]
         /\ dest.files = dest.manifest.files
  BY DEF run_restore, validate_files_tree
<1>2. /\ op' \in Command
      /\ \/ op'.at = "refused"
         \/ op'.at = "putting" /\ op'.todo = Present(dest.files) /\ dest.files = dest.manifest.files
  BY <1>1, EmptyDestTyped DEF NoOp, Command, Finished, Busy, Present
<1>3. BakTypeOK' /\ ManifestSound'
  BY <1>0, <1>2, ManifestStays DEF BakTypeOK
<1>4. CopySound' /\ BackSound'
  BY <1>0, <1>2 DEF CopySound, Copying, BackSound
<1>5. PutSound'
  BY <1>0, <1>2 DEF PutSound, Putting, Present
<1> QED BY <1>3, <1>4, <1>5

(* Each file put back is the one the backup directory holds.               *)
LEMMA CopyFilesTreeStep ==
    ASSUME BackupInv, NEW d \in Docs, copy_files_tree(d)
    PROVE  BackupInv'
<1> USE DEF BackupInv
<1>0. /\ op.at = "putting" /\ d \in op.todo /\ file' = [file EXCEPT ![d] = dest.files[d]]
      /\ op' = [op EXCEPT !.todo = @ \ {d}, !.wrote = TRUE]
      /\ UNCHANGED <<row, edit, services, dest, touched, count>>
  BY DEF copy_files_tree
<1>1. /\ op' \in Command /\ op'.at = "putting" /\ op'.todo = op.todo \ {d}
      /\ file' \in Files /\ file'[d] = dest.files[d] /\ \A c \in Docs \ {d} : file'[c] = file[c]
  BY <1>0 DEF BakTypeOK, Command, Dest, Files
<1>2. BakTypeOK' /\ ManifestSound'
  BY <1>0, <1>1, ManifestStays DEF BakTypeOK
<1>3. CopySound' /\ BackSound'
  BY <1>0, <1>1 DEF CopySound, Copying, BackSound
<1>4. PutSound'
  BY <1>0, <1>1 DEF PutSound, Putting
<1> QED BY <1>2, <1>3, <1>4

(* Only the dump the manifest was written for goes on to pg_restore.       *)
LEMMA BuildDbBlockStep ==
    ASSUME BackupInv, build_db_block
    PROVE  BackupInv'
<1> USE DEF BackupInv
<1> DEFINE at == IF dest.manifest.dump = NoDump THEN "restored"
                 ELSE IF dest.manifest.dump = dest.dump THEN "verifying" ELSE "aborted"
<1>0. /\ op.at = "putting" /\ op.todo = {} /\ op' = [op EXCEPT !.at = at]
      /\ UNCHANGED <<row, file, edit, services, dest, touched, count>>
  BY DEF build_db_block
<1>1. /\ op' \in Command /\ op'.at = at
  BY <1>0 DEF BakTypeOK, Command, Finished, Busy
<1>2. BakTypeOK' /\ ManifestSound'
  BY <1>0, <1>1, ManifestStays DEF BakTypeOK
<1>3. CopySound' /\ BackSound'
  BY <1>0, <1>1 DEF CopySound, Copying, BackSound
<1>4. PutSound'
  BY <1>0, <1>1 DEF PutSound, Putting
<1> QED BY <1>2, <1>3, <1>4

(* web stops, then the rows of the dump replace what is there.             *)
LEMMA RestoreDbStep ==
    ASSUME BackupInv, RESTORE_DB_SEQUENCE
    PROVE  BackupInv'
<1> USE DEF BackupInv
<1>1. CASE op.at = "verifying"
  <2>0. /\ edit = NoEdit /\ services' = [web |-> FALSE, worker |-> FALSE]
        /\ op' = [op EXCEPT !.at = "replacing"]
        /\ UNCHANGED <<row, file, edit, dest, touched, count>>
    BY <1>1 DEF RESTORE_DB_SEQUENCE
  <2>1. op' \in Command /\ op'.at = "replacing" /\ ~services'.web
    BY <2>0 DEF BakTypeOK, Command, Busy
  <2>2. BakTypeOK' /\ ManifestSound'
    BY <2>0, <2>1, ManifestStays DEF BakTypeOK
  <2>3. CopySound' /\ BackSound'
    BY <2>0, <2>1 DEF CopySound, Copying, BackSound
  <2>4. PutSound'
    BY <1>1, <2>0, <2>1 DEF PutSound, Putting
  <2> QED BY <2>2, <2>3, <2>4
<1>2. CASE op.at = "replacing"
  <2>0. /\ row' = dest.dump.row /\ op' = [op EXCEPT !.at = "restored"]
        /\ UNCHANGED <<file, edit, services, dest, touched, count>>
    BY <1>2 DEF RESTORE_DB_SEQUENCE
  <2>1. op' \in Command /\ op'.at = "restored"
    BY <2>0 DEF BakTypeOK, Command, Finished
  <2>2. BakTypeOK' /\ ManifestSound'
    BY <2>0, <2>1, ManifestStays DEF BakTypeOK, Dest, Dumps
  <2>3. CopySound' /\ PutSound'
    BY <2>1 DEF CopySound, Copying, PutSound, Putting
  <2>4. edit = NoEdit /\ dest.manifest.dump # NoDump /\ dest.manifest.dump = dest.dump
        /\ dest.files = dest.manifest.files
    BY <1>2 DEF PutSound, Putting, BackSound
  <2>5. ASSUME NEW d \in Docs \ touched, row'[d] # NoRow
        PROVE  file[d] = row'[d].sha
    <3>1. dest.manifest.files[d] = row'[d].sha
      BY <2>0, <2>4, <2>5 DEF ManifestSound, Dumped
    <3>2. row'[d].sha # None
      BY <2>0, <2>5, RowsAreRecords DEF BakTypeOK, Dest, Dumps
    <3> QED BY <1>2, <2>4, <2>5, <3>1, <3>2 DEF PutSound, Putting
  <2>6. BackSound'
    BY <2>0, <2>4, <2>5 DEF BackSound
  <2> QED BY <2>2, <2>3, <2>6
<1> QED BY <1>1, <1>2 DEF RESTORE_DB_SEQUENCE

(* A kill leaves the directory as it was, or a manifest nobody accepts.    *)
LEMMA KilledStep ==
    ASSUME BackupInv, Killed
    PROVE  BackupInv'
<1> USE DEF BackupInv
<1>0. /\ op.at \in Busy /\ count.kills < MaxKills /\ op' = EndsAs("aborted")
      /\ count' = [count EXCEPT !.kills = @ + 1]
      /\ UNCHANGED <<row, file, edit, services, touched>>
  BY DEF Killed
<1>1. /\ count' \in [edits : 0..MaxEdits, runs : 0..MaxRuns, kills : 0..MaxKills]
      /\ count'.runs = count.runs
  BY <1>0, BackupAssumption DEF BakTypeOK
<1>2. CASE UNCHANGED dest
  BY <1>0, <1>1, <1>2, CommandEnds
<1>3. CASE dest' = [dest EXCEPT !.manifest = [NoManifest EXCEPT !.at = Broken]]
  <2>1. /\ dest' \in Dest /\ dest'.manifest.dump = NoDump /\ dest'.dump = dest.dump
    BY <1>3, EmptyDestTyped DEF BakTypeOK, Dest, NoManifest
  <2>2. op' \in Command /\ op'.at = "aborted"
    BY <1>0, EndsAsFacts
  <2>3. dest.dump.run \in Nat /\ NoDump.run = 0
    BY BackupAssumption, EmptyDestTyped DEF BakTypeOK, Dest, Dumps
  <2>4. BakTypeOK'
    BY <1>0, <1>1, <2>1, <2>2, <2>3 DEF BakTypeOK
  <2>5. ManifestSound'
    BY <2>1 DEF ManifestSound
  <2>6. CopySound' /\ PutSound' /\ BackSound'
    BY <1>0, <2>2 DEF CopySound, Copying, PutSound, Putting, BackSound
  <2> QED BY <2>4, <2>5, <2>6
<1> QED BY <1>2, <1>3 DEF Killed

(* A box without a backup.                                                 *)
LEMMA BackupStarts == BakInit => BackupInv
<1> SUFFICES ASSUME BakInit
             PROVE  BackupInv
  OBVIOUS
<1>1. /\ op = NoOp /\ op \in Command /\ op.at = "idle"
  BY EmptyDestTyped DEF BakInit, NoOp, Command, Finished
<1>2. dest = EmptyDest /\ dest \in Dest /\ dest.manifest.dump = NoDump /\ dest.dump = NoDump
  BY EmptyDestTyped DEF BakInit, EmptyDest
<1>3. row \in [Docs -> Rows]
  BY BackupAssumption, RowsAreRecords DEF BakInit, Files, Rows
<1>4. BakTypeOK
  BY <1>1, <1>2, <1>3, BackupAssumption, EmptyDestTyped DEF BakInit, BakTypeOK
<1>5. ManifestSound /\ CopySound /\ PutSound /\ BackSound
  BY <1>1, <1>2 DEF BakInit, ManifestSound, CopySound, Copying, PutSound, Putting, BackSound
<1> QED BY <1>4, <1>5 DEF BackupInv

(* The invariant, over every step of the box, a backup and a restore.      *)
LEMMA BackupInvariant == BakSpec => []BackupInv
<1>1. BakInit => BackupInv
  BY BackupStarts
<1>2. BackupInv /\ [BakNext]_bakVars => BackupInv'
  <2> SUFFICES ASSUME BackupInv, [BakNext]_bakVars
               PROVE  BackupInv'
    OBVIOUS
  <2>1. CASE UNCHANGED bakVars
    BY <2>1 DEF bakVars, BackupInv, BakTypeOK, ManifestSound, CopySound, PutSound, BackSound, Dumped
  <2>2. ASSUME NEW d \in Docs, NEW c \in Contents, stage_document(d, c)
        PROVE  BackupInv'
    BY <2>2, EditBeginsStep DEF stage_document
  <2>3. ASSUME NEW d \in Docs, delete_document(d)
        PROVE  BackupInv'
    BY <2>3, EditBeginsStep DEF delete_document
  <2>4. ASSUME NEW d \in Docs, WorkerMoves(d, "pending", "processing") \/ WorkerMoves(d, "processing", "ready")
        PROVE  BackupInv'
    BY <2>4, WorkerMovesStep
  <2> QED BY <2>1, <2>2, <2>3, <2>4, CopyFilesTreeStep, EditCommitsStep, ServicesStep, PgDumpStep,
             FilesOnlyStep, RunBackupStep, DisasterStep, RunRestoreStep, BuildDbBlockStep,
             RestoreDbStep, KilledStep DEF BakNext
<1> QED BY <1>1, <1>2, PTL DEF BakSpec

(***************************************************************************)
(* backup.py and its restore keep the rows, the files, the backup          *)
(* directory, the manifest and the command in their types, however often   *)
(* either is killed: no manifest is of a later dump than the one beside    *)
(* it, and a request that is open names a document.                        *)
(***************************************************************************)
THEOREM BackupTypeCorrect == BakSpec => []BakTypeOK
BY BackupInvariant, PTL DEF BackupInv

(***************************************************************************)
(* After manage.py restore and the pg_restore it prints, every document    *)
(* nobody changed while it was backed up or restored has the file its row  *)
(* is about: run_backup copies what the dump's rows say, the manifest      *)
(* names that dump alone, and run_restore refuses a tree that is not the   *)
(* manifest's.                                                             *)
(***************************************************************************)
THEOREM RowsComeBackWithTheirFiles == BakSpec => []RowsComeWithTheirFiles
<1>1. BackupInv => RowsComeWithTheirFiles
  BY BackupAssumption DEF BackupInv, BackSound, RowsComeWithTheirFiles, Back, NoEdit
<1> QED BY <1>1, BackupInvariant, PTL
=============================================================================
