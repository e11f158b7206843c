-------------------------------- MODULE PlanLoop --------------------------------
(***************************************************************************)
(* plan_admissions of models/queue/scheduler.py, one loop turn per step,   *)
(* with the running totals the code keeps (`resident_keys`, `used`) in     *)
(* place of the recomputed ones of module Scheduler.                       *)
(***************************************************************************)
EXTENDS Scheduler, Sequences, Functions

CONSTANT Inputs     \* the calls considered: [cands, running, budget, cap]

VARIABLES
    call,           \* the arguments of the call
    pc,             \* "enter", "walk" or "done"
    rest,           \* `ordered`, the candidates the loop has not reached
    admitted,       \* the list the function returns, as candidates
    resident,       \* `resident_keys`
    used            \* `used`

vars == <<call, pc, rest, admitted, resident, used>>

Init ==
    /\ call \in Inputs
    /\ pc = "enter"
    /\ rest = call.cands
    /\ admitted = <<>>
    /\ resident = <<>>
    /\ used = 0

\* ordered[0]
HeadCand == CHOOSE c \in rest : \A d \in rest \ {c} : Before(c, d)

Return(list) ==
    /\ admitted' = list
    /\ pc' = "done"
    /\ UNCHANGED <<call, rest, resident, used>>

\* max_concurrent <= 0: nothing may start.
ReturnNoSlots ==
    /\ pc = "enter"
    /\ call.cap <= 0
    /\ Return(<<>>)

\* No budget: the head alone, and only on an idle machine.
ReturnSequential ==
    /\ pc = "enter"
    /\ call.cap > 0
    /\ call.budget = None
    /\ Return(IF call.running # {} \/ rest = {} THEN <<>> ELSE <<HeadCand>>)

\* Rule 3: a running job that must run alone blocks the round.
ReturnBlocked ==
    /\ pc = "enter"
    /\ call.cap > 0
    /\ call.budget # None
    /\ \E r \in call.running : EffectivelyExclusive(r, call.budget)
    /\ Return(<<>>)

StartWalk ==
    /\ pc = "enter"
    /\ call.cap > 0
    /\ call.budget # None
    /\ \A r \in call.running : ~EffectivelyExclusive(r, call.budget)
    /\ pc' = "walk"
    /\ resident' = DedupBytes(ModelsOf(call.running))
    /\ used' = ResidentBytes(call.running)
    /\ UNCHANGED <<call, rest, admitted>>

SlotsFull == Cardinality(call.running) + Len(admitted) >= call.cap

\* resident_keys.get(key, 0)
ResidentAt(k) == IF k \in DOMAIN resident THEN resident[k] ELSE 0

\* Mutant: a model two jobs share is paid for twice.
Marginal_Full(c) ==
    LET sizes == DedupBytes(c.models)
    IN  MapThenSumSet(LAMBDA k : sizes[k], DOMAIN sizes)

\* What c adds to memory beyond the keys already resident.
Marginal(c) ==
    LET sizes == DedupBytes(c.models)
    IN  MapThenSumSet(LAMBDA k : Max({0, sizes[k] - ResidentAt(k)}), DOMAIN sizes)

WalkEnds ==
    /\ pc = "walk"
    /\ rest = {} \/ SlotsFull
    /\ Return(admitted)

\* Rule 5: alone on an idle machine, and the walk stops either way.
WalkMeetsExclusive ==
    /\ pc = "walk"
    /\ rest # {}
    /\ ~SlotsFull
    /\ EffectivelyExclusive(HeadCand, call.budget)
    /\ Return(IF call.running = {} /\ admitted = <<>> THEN <<HeadCand>> ELSE admitted)

\* Rule 9: the first candidate over budget stops the walk; nothing is backfilled.
WalkOverBudget ==
    /\ pc = "walk"
    /\ rest # {}
    /\ ~SlotsFull
    /\ ~EffectivelyExclusive(HeadCand, call.budget)
    /\ used + Marginal(HeadCand) > call.budget
    /\ Return(admitted)

WalkAdmits ==
    /\ pc = "walk"
    /\ rest # {}
    /\ ~SlotsFull
    /\ ~EffectivelyExclusive(HeadCand, call.budget)
    /\ used + Marginal(HeadCand) <= call.budget
    /\ admitted' = Append(admitted, HeadCand)
    /\ resident' = LET sizes == DedupBytes(HeadCand.models)
                   IN  [k \in DOMAIN resident \cup DOMAIN sizes |->
                          IF k \in DOMAIN sizes
                          THEN Max({ResidentAt(k), sizes[k]})
                          ELSE resident[k]]
    /\ used' = used + Marginal(HeadCand)
    /\ rest' = rest \ {HeadCand}
    /\ UNCHANGED <<call, pc>>

Next ==
    \/ ReturnNoSlots
    \/ ReturnSequential
    \/ ReturnBlocked
    \/ StartWalk
    \/ WalkEnds
    \/ WalkMeetsExclusive
    \/ WalkOverBudget
    \/ WalkAdmits

Spec == Init /\ [][Next]_vars /\ WF_vars(Next)

----------------------------------------------------------------------------

Admitted == Range(admitted)

Plan == PlanAdmissions(call.cands, call.running, call.budget, call.cap)

\* The walk returns exactly the set PlanAdmissions describes, in queue order.
WalkReturnsThePlan ==
    pc = "done" =>
        /\ Admitted = Plan
        /\ \A i, j \in DOMAIN admitted : i < j => Before(admitted[i], admitted[j])

\* Loop invariant: the incremental `used` (a sum of marginals, never recounted)
\* is the deduplicated footprint of everything running or admitted so far.
UsedIsResident ==
    pc = "walk" =>
        used = ResidentBytes(call.running \cup Admitted)

\* Rules 5 to 7: whenever a round leaves two or more jobs on the machine because
\* it admitted something, no job of theirs must run alone and together they fit.
CompanyFitsTheBudget ==
    LET together == call.running \cup Admitted
    IN  (pc = "done" /\ admitted # <<>> /\ Cardinality(together) > 1) =>
            /\ call.budget # None
            /\ ResidentBytes(together) <= call.budget
            /\ \A c \in together : ~EffectivelyExclusive(c, call.budget)
            /\ Cardinality(together) <= call.cap

\* Rule 6: on an idle machine with a free slot the head of the queue is always
\* admitted, whatever its size and whether or not anyone ever measured it.
IdleMachineAdmitsTheHead ==
    (pc = "done" /\ call.running = {} /\ call.cands # {} /\ call.cap > 0) =>
        \E c \in Admitted : Ahead(call.cands, c) = {}

\* Rule 3's own remark: testing running jobs with the narrower predicate (without
\* "larger than the budget") admits the same set, because `used` is then already
\* over the budget and a marginal cost is never negative.
NarrowBlockPlan ==
    IF call.cap <= 0 \/ call.budget = None
       \/ \E r \in call.running : EffectivelyExclusive(r, None)
    THEN {}
    ELSE {c \in call.cands : \A d \in Ahead(call.cands, c) \cup {c} :
            FitsAfterAhead(d, call.cands, call.running, call.budget, call.cap)}

NarrowBlockIsEnough ==
    (pc = "done" /\ call.budget # None) => Admitted = NarrowBlockPlan

\* claim.py's remark on CANDIDATE_WINDOW: a scan of at least as many rows as
\* there are slots never changes what is admitted.
WindowNeverTruncates ==
    (pc = "done" /\ call.cap > 0) =>
        Admitted = PlanAdmissions(CandidateWindow(call.cands, call.cap),
                                  call.running, call.budget, call.cap)

\* Raising the memory budget (or setting one at all) never takes an admission away.
LargerBudgetAdmitsMore ==
    pc = "done" =>
        LET larger == IF call.budget = None THEN 0 ELSE call.budget + 1
        IN  Admitted \subseteq
                PlanAdmissions(call.cands, call.running, larger, call.cap)
================================================================================
