-------------------------------- MODULE TurnsProofs --------------------------------
(***************************************************************************)
(* Proofs about Turns for any number of requests, jobs, tool calls and     *)
(* faults, with requests and hooks that die with their process.  The       *)
(* properties of the rows need attempts that do not outlive their claim.   *)
(* Then about Prompt: what a model is given to read.                       *)
(***************************************************************************)
EXTENDS Turns, Prompt, QueueClientProofs, WellFoundedInduction, SequenceTheorems, FiniteSetTheorems

---------------------------------------------------------------------------
(* The next index.                                                         *)

(* A set of naturals with a bound has a largest element, which Max returns. *)
LEMMA MaxOfBounded ==
    ASSUME NEW S \in SUBSET Nat, 0 \in S, NEW b \in Nat, \A i \in S : i <= b
    PROVE  Max(S) \in S /\ \A i \in S : i <= Max(S)
<1> DEFINE B == {c \in Nat : \A i \in S : i <= c}
<1>1. PICK m \in B : \A c \in B : ~(<<c, m>> \in OpToRel(<, Nat))
  <2>1. B \subseteq Nat /\ B # {}
    OBVIOUS
  <2> QED BY <2>1, NatLessThanWellFounded, WFMin
<1>2. m \in S
  <2>1. SUFFICES ASSUME m \notin S PROVE FALSE
    OBVIOUS
  <2>2. m \in Nat /\ m # 0 /\ \A i \in S : i < m
    BY <2>1
  <2>3. m - 1 \in B /\ m - 1 < m
    BY <2>2
  <2>4. <<m - 1, m>> \in Nat \X Nat /\ <<m - 1, m>>[1] < <<m - 1, m>>[2]
    BY <2>2, <2>3
  <2>5. <<m - 1, m>> \in OpToRel(<, Nat)
    BY <2>4, Zenon DEF OpToRel
  <2> QED BY <1>1, <2>3, <2>5
<1>3. \A i \in S : m >= i
  OBVIOUS
<1>4. \E x \in S : \A i \in S : x >= i
  BY <1>2, <1>3
<1>5. Max(S) \in S /\ \A i \in S : Max(S) >= i
  BY <1>4 DEF Max
<1> QED BY <1>5

(* Every index of the conversation lies below some number. *)
Bounded == \E b \in Nat : \A i \in Taken : i <= b

(* The indices a conversation has given out are numbers. *)
LEMMA TakenAreNumbers == TypeOK => Taken \subseteq Nat
BY DEF TypeOK, Taken, Written, Turn, Indexes

(* next_index lies above every index there is. *)
LEMMA NextIndexIsNew ==
    ASSUME TypeOK, Bounded
    PROVE  NextIndex \in Nat /\ NextIndex # 0 /\ \A i \in Taken : i < NextIndex
<1> DEFINE S == Taken \cup {0}
<1>1. S \in SUBSET Nat /\ 0 \in S
  BY TakenAreNumbers
<1>2. PICK b \in Nat : \A i \in Taken : i <= b
  BY DEF Bounded
<1>3. \A i \in S : i <= b
  BY <1>2
<1>4. Max(S) \in S /\ \A i \in S : i <= Max(S)
  BY <1>1, <1>3, MaxOfBounded
<1>5. Max(S) \in Nat
  BY <1>1, <1>4
<1> QED BY <1>1, <1>4, <1>5 DEF NextIndex

(* Rows that lie below one more number keep the indexes bounded. *)
LEMMA StillBounded ==
    ASSUME TypeOK, Bounded, NEW m \in Nat, \A i \in Taken' : i \in Taken \/ (i \in Nat /\ i <= m)
    PROVE  Bounded'
<1>1. PICK b \in Nat : \A i \in Taken : i <= b
  BY DEF Bounded
<1>2. Taken \subseteq Nat
  BY TakenAreNumbers
<1>3. PICK c \in Nat : m <= c /\ b <= c
  <2>1. m <= m + b /\ b <= m + b /\ m + b \in Nat
    OBVIOUS
  <2> QED BY <2>1
<1>4. ASSUME NEW i \in Taken' PROVE i <= c
  <2>1. i \in Nat /\ (i <= b \/ i <= m)
    BY <1>1, <1>2
  <2> QED BY <1>3, <2>1
<1> QED BY <1>4 DEF Bounded
---------------------------------------------------------------------------
(* Types.                                                                  *)

TypeInv == TypeOK /\ ClaimsCounted /\ Bounded

RowsTypeOK ==
    /\ turn \in [Jobs -> Turn]
    /\ message \in [Jobs -> Indexes]
    /\ \A x \in tools : x.job \in Jobs /\ x.try \in Tries /\ x.index \in Indexes
    /\ open \subseteq Execs
    /\ at \in [Execs -> Indexes]
    /\ req \in [Requests -> RequestState]
    /\ closing \subseteq Jobs
    /\ gone \in BOOLEAN
    /\ unhooked \subseteq Jobs

(* The type invariant in two parts: the queue's and the rows'. *)
LEMMA TypeParts ==
    /\ TypeOK <=> QueueTypeOK(Pcs) /\ RowsTypeOK
    /\ TypeOK' <=> QueueTypeOK(Pcs)' /\ RowsTypeOK'
BY DEF TypeOK, RowsTypeOK

(* The types and the bound on the indices hold at first. *)
LEMMA TypeInit == Init => TypeInv
<1> SUFFICES ASSUME Init PROVE TypeInv
  OBVIOUS
<1>1. QueueTypeOK(Pcs) /\ ClaimsCounted
  BY QueueTypeInit DEF Init
<1>2. RowsTypeOK
  BY DEF Init, RowsTypeOK, Turn, NoTurn, Indexes, RequestState, IdleRequest
<1>3. Taken = {}  \/ Taken = {0}
  <2>1. Written = {}
    BY DEF Init, Written, NoTurn
  <2>2. \A i \in Taken : FALSE
    BY <2>1 DEF Init, Taken
  <2> QED BY <2>2
<1>4. Bounded
  BY <1>3 DEF Bounded
<1> QED BY <1>1, <1>2, <1>4, TypeParts DEF TypeInv

(* One turn's rows, or none, changed.                                      *)
LEMMA OneTurnBounded ==
    ASSUME TypeOK, Bounded, NEW j \in Jobs, UNCHANGED tools,
           \A i \in Jobs : i # j => turn'[i] = turn[i] /\ message'[i] = message[i],
           turn'[j].index \in Nat, message'[j] \in Nat
    PROVE  Bounded'
<1> DEFINE m == turn'[j].index + message'[j]
<1>1. m \in Nat /\ turn'[j].index <= m /\ message'[j] <= m
  OBVIOUS
<1>2. ASSUME NEW i \in Taken' PROVE i \in Taken \/ (i \in Nat /\ i <= m)
  <2>1. CASE \E x \in tools : i = x.index
    BY <2>1 DEF Taken
  <2>2. ASSUME NEW k \in Jobs, turn'[k].state # "absent", i = turn'[k].index \/ i = message'[k]
        PROVE  i \in Taken \/ (i \in Nat /\ i <= m)
    <3>1. CASE k = j
      BY <1>1, <2>2, <3>1
    <3>2. CASE k # j
      BY <2>2, <3>2 DEF Taken, Written
    <3> QED BY <3>1, <3>2
  <2> QED BY <2>1, <2>2 DEF Taken, Written
<1> HIDE DEF m
<1> QED BY <1>1, <1>2, StillBounded

(* A step that writes no index keeps the indices bounded. *)
LEMMA SameRowsBounded ==
    ASSUME Bounded, UNCHANGED <<turn, message, tools>> PROVE Bounded'
<1>1. Taken' = Taken
  BY DEF Taken, Written
<1> QED BY <1>1 DEF Bounded

(* What InsertRows and the attempts read as next index is a number.        *)
LEMMA NextIndexIsNumber == TypeInv => NextIndex \in Indexes
BY NextIndexIsNew DEF TypeInv, Indexes

(* The fields of one turn are replaced by values of their types.           *)
LEMMA OneTurnTyped ==
    ASSUME TypeOK, NEW j \in Jobs, NEW s \in InFlight \cup TerminalTurnStates, NEW i \in Nat, NEW b \in BOOLEAN,
           turn' = [turn EXCEPT ![j] = [state |-> s, index |-> i, stamped |-> b]]
    PROVE  /\ turn' \in [Jobs -> Turn]
           /\ turn'[j] = [state |-> s, index |-> i, stamped |-> b]
           /\ \A k \in Jobs : k # j => turn'[k] = turn[k]
BY DEF TypeOK, Turn, Indexes, InFlight, TerminalTurnStates

(* The fields of a turn and of a message, typed. *)
LEMMA TurnFields ==
    ASSUME TypeOK, NEW j \in Jobs
    PROVE  turn[j].index \in Nat /\ turn[j].stamped \in BOOLEAN /\ message[j] \in Nat
BY DEF TypeOK, Turn, Indexes

(* What a step of a request changes, unless it commits or stamps: its own  *)
(* control state.                                                          *)
LEMMA QuietRequest ==
    ASSUME TypeOK, TypeInv, NEW r \in Requests,
           CheckInFlight(r) \/ InsertRows(r) \/ StartRefused(r) \/ RequestDies(r)
    PROVE  /\ UNCHANGED <<job, att, hooks, turn, message, tools, open, at, closing, gone, unhooked>>
           /\ Faulty \/ UNCHANGED faults
           /\ \E x \in RequestState :
                /\ req' = [req EXCEPT ![r] = x]
                /\ x.pc = "inserted" => ~gone
                /\ x.pc # "stamping"
<1>0. req \in [Requests -> RequestState] /\ NextIndex \in Indexes /\ IdleRequest \in RequestState
  BY NextIndexIsNumber DEF TypeOK, RequestState, IdleRequest, Indexes
<1>a. UNCHANGED <<job, att, hooks, turn, message, tools, open, at, closing, gone, unhooked>>
  BY DEF CheckInFlight, InsertRows, StartRefused, RequestDies, queueVars
<1>b. Faulty \/ UNCHANGED faults
  BY DEF CheckInFlight, InsertRows, StartRefused, RequestDies, queueVars
<1>1. CASE CheckInFlight(r)
  <2> DEFINE x == [pc |-> "checked", turn |-> req[r].turn, index |-> req[r].index]
  <2>1. req[r] \in RequestState
    BY <1>0
  <2>2. x \in RequestState /\ x.pc = "checked"
    BY <2>1 DEF RequestState
  <2>3. [req[r] EXCEPT !.pc = "checked"] = x
    BY <2>1 DEF RequestState
  <2>4. req' = [req EXCEPT ![r] = [req[r] EXCEPT !.pc = "checked"]]
    BY <1>0, <1>1 DEF CheckInFlight
  <2>5. req' = [req EXCEPT ![r] = x]
    BY <2>3, <2>4
  <2> HIDE DEF x
  <2> QED BY <1>a, <1>b, <2>2, <2>5
<1>2. CASE InsertRows(r)
  <2>1. PICK x \in {IdleRequest, [pc |-> "inserted", turn |-> 0, index |-> NextIndex]} :
            req' = [req EXCEPT ![r] = x] /\ (gone => x = IdleRequest)
    BY <1>2 DEF InsertRows
  <2>2. x \in RequestState /\ (x.pc = "inserted" => ~gone) /\ x.pc # "stamping"
    BY <1>0, <2>1 DEF RequestState, IdleRequest
  <2> QED BY <1>a, <1>b, <2>1, <2>2
<1>3. CASE StartRefused(r) \/ RequestDies(r)
  <2>1. req' = [req EXCEPT ![r] = IdleRequest]
    BY <1>3 DEF StartRefused, RequestDies
  <2> QED BY <1>0, <1>a, <1>b, <2>1 DEF IdleRequest
<1> QED BY <1>1, <1>2, <1>3

(* The states and indexes of the turns are as they were.                   *)
SameTurns == \A k \in Jobs : turn'[k].state = turn[k].state /\ turn'[k].index = turn[k].index

(* A step that writes turns without touching their indices keeps the indices bounded. *)
LEMMA SameTurnsBounded ==
    ASSUME Bounded, SameTurns, UNCHANGED <<message, tools>> PROVE Bounded' /\ Taken' = Taken
<1>1. Written' = Written
  BY DEF Written, SameTurns
<1>2. {turn'[j].index : j \in Written'} = {turn[j].index : j \in Written}
  BY <1>1 DEF SameTurns, Written
<1>3. {message'[j] : j \in Written'} = {message[j] : j \in Written}
  BY <1>1
<1>4. Taken' = Taken
  BY <1>2, <1>3 DEF Taken
<1> QED BY <1>4 DEF Bounded

(* The rows and the job of a turn appear together.                         *)
LEMMA CommitFacts ==
    ASSUME TypeOK, NEW r \in Requests, CommitTurn(r)
    PROVE  \E j \in Jobs :
            /\ Enqueued(j) /\ job[j].state = "absent" /\ req[r].pc = "inserted" /\ req[r].index \in Nat
            /\ req[r].index \notin Taken /\ req[r].index + 1 \notin Taken
            /\ turn' \in [Jobs -> Turn] /\ message' \in [Jobs -> Indexes]
            /\ turn'[j] = [state |-> "queued", index |-> req[r].index + 1, stamped |-> FALSE]
            /\ message'[j] = req[r].index
            /\ \A k \in Jobs : k # j => turn'[k] = turn[k] /\ message'[k] = message[k]
            /\ req' \in [Requests -> RequestState]
            /\ req' = [req EXCEPT ![r] = [pc |-> "stamping", turn |-> j, index |-> 0]]
            /\ UNCHANGED <<att, hooks, faults, tools, open, at, closing, gone, unhooked>>
<1>1. PICK j \in Jobs :
        /\ Enqueued(j)
        /\ turn' = [turn EXCEPT ![j] = [state |-> "queued", index |-> req[r].index + 1, stamped |-> FALSE]]
        /\ message' = [message EXCEPT ![j] = req[r].index]
        /\ req' = [req EXCEPT ![r] = [pc |-> "stamping", turn |-> j, index |-> 0]]
  BY DEF CommitTurn, NextJob
<1>2. /\ req[r].pc = "inserted" /\ {req[r].index, req[r].index + 1} \cap Taken = {}
      /\ UNCHANGED <<att, hooks, faults, tools, open, at, closing, gone, unhooked>>
  BY DEF CommitTurn
<1>3. req[r].index \in Nat
  BY DEF TypeOK, RequestState, Indexes
<1>4. /\ turn' \in [Jobs -> Turn]
      /\ turn'[j] = [state |-> "queued", index |-> req[r].index + 1, stamped |-> FALSE]
      /\ \A k \in Jobs : k # j => turn'[k] = turn[k]
  <2>1. "queued" \in InFlight \cup TerminalTurnStates /\ req[r].index + 1 \in Nat
    BY <1>3 DEF InFlight
  <2> QED BY <1>1, <2>1, OneTurnTyped
<1>5. /\ message' \in [Jobs -> Indexes] /\ message'[j] = req[r].index
      /\ \A k \in Jobs : k # j => message'[k] = message[k]
  BY <1>1, <1>3 DEF TypeOK, Indexes
<1>6. req' \in [Requests -> RequestState]
  <2>1. [pc |-> "stamping", turn |-> j, index |-> 0] \in RequestState
    BY DEF RequestState, Indexes
  <2> QED BY <1>1, <2>1 DEF TypeOK
<1>7. job[j].state = "absent" /\ req[r].index \notin Taken /\ req[r].index + 1 \notin Taken
  BY <1>1, <1>2 DEF Enqueued
<1> QED BY <1>1, <1>2, <1>3, <1>4, <1>5, <1>6, <1>7

(* A stamp leaves the other fields alone.                                  *)
LEMMA StampOne ==
    ASSUME NEW x \in Turn
    PROVE  LET y == [x EXCEPT !.stamped = TRUE]
           IN  y \in Turn /\ y.state = x.state /\ y.index = x.index /\ y.stamped = TRUE
BY DEF Turn

(* What a request's stamp of the job on the turn does. *)
LEMMA StampFacts ==
    ASSUME TypeOK, NEW r \in Requests, Stamp(r)
    PROVE  /\ turn' \in [Jobs -> Turn] /\ SameTurns
           /\ \A k \in Jobs : turn[k].stamped => turn'[k].stamped
           /\ req' \in [Requests -> RequestState] /\ req' = [req EXCEPT ![r] = IdleRequest]
           /\ UNCHANGED <<job, att, hooks, faults, message, tools, open, at, closing, gone, unhooked>>
<1>1. /\ turn' = turn \/ turn' = [turn EXCEPT ![req[r].turn].stamped = TRUE]
      /\ req' = [req EXCEPT ![r] = IdleRequest]
      /\ UNCHANGED <<job, att, hooks, faults, message, tools, open, at, closing, gone, unhooked>>
  BY DEF Stamp, queueVars
<1>2. turn \in [Jobs -> Turn]
  BY DEF TypeOK
<1>3. turn' \in [Jobs -> Turn] /\ SameTurns /\ \A k \in Jobs : turn[k].stamped => turn'[k].stamped
  <2>1. CASE turn' = turn
    BY <1>2, <2>1 DEF SameTurns
  <2>2. CASE turn' = [turn EXCEPT ![req[r].turn].stamped = TRUE]
    <3> DEFINE j == req[r].turn
    <3>1. CASE j \in Jobs
      <4>1. turn[j] \in Turn
        BY <1>2, <3>1
      <4>2. turn'[j] = [turn[j] EXCEPT !.stamped = TRUE] /\ \A k \in Jobs : k # j => turn'[k] = turn[k]
        BY <1>2, <2>2, <3>1
      <4>3. /\ turn'[j] \in Turn /\ turn'[j].state = turn[j].state /\ turn'[j].index = turn[j].index
            /\ turn'[j].stamped
        BY <4>1, <4>2, StampOne
      <4>4. turn' \in [Jobs -> Turn]
        <5>1. turn' = [k \in Jobs |-> turn'[k]]
          BY <1>2, <2>2
        <5>2. \A k \in Jobs : turn'[k] \in Turn
          BY <1>2, <4>2, <4>3
        <5> QED BY <5>1, <5>2
      <4> QED BY <4>2, <4>3, <4>4 DEF SameTurns
    <3>2. CASE j \notin Jobs
      <4>1. turn' = turn
        BY <1>2, <2>2, <3>2
      <4> QED BY <1>2, <4>1 DEF SameTurns
    <3> QED BY <3>1, <3>2
  <2> QED BY <1>1, <2>1, <2>2
<1>4. req' \in [Requests -> RequestState]
  BY <1>1 DEF TypeOK, RequestState, IdleRequest, Indexes
<1> QED BY <1>1, <1>3, <1>4

(* Requests.                                                               *)
LEMMA RequestTypeStep ==
    ASSUME TypeInv, NEW r \in Requests,
           CheckInFlight(r) \/ RequestStep(r) \/ StartRefused(r) \/ RequestDies(r)
    PROVE  TypeInv'
<1>0. TypeOK /\ QueueTypeOK(Pcs) /\ ClaimsCounted /\ Bounded /\ RowsTypeOK /\ hooks \subseteq Jobs
  BY TypeParts DEF TypeInv, QueueTypeOK
<1>1. CASE CheckInFlight(r) \/ InsertRows(r) \/ StartRefused(r) \/ RequestDies(r)
  <2>1. /\ UNCHANGED <<job, att, hooks, turn, message, tools, open, at, closing, gone, unhooked>>
        /\ Faulty \/ UNCHANGED faults
        /\ \E x \in RequestState : req' = [req EXCEPT ![r] = x]
    BY <1>0, <1>1, QuietRequest
  <2>2. RowsTypeOK'
    BY <1>0, <2>1 DEF RowsTypeOK
  <2>3. UNCHANGED <<job, att>> /\ hooks' \subseteq Jobs
    BY <1>0, <2>1
  <2>4. QueueTypeOK(Pcs)' /\ ClaimsCounted'
    BY <1>0, <2>1, <2>3, OtherStep
  <2>5. UNCHANGED <<turn, message, tools>>
    BY <2>1
  <2>6. Bounded'
    BY <1>0, <2>5, SameRowsBounded
  <2> QED BY <2>2, <2>4, <2>6, TypeParts DEF TypeInv
<1>2. CASE CommitTurn(r)
  <2>1. PICK j \in Jobs :
            /\ Enqueued(j) /\ req[r].index \in Nat
            /\ turn' \in [Jobs -> Turn] /\ message' \in [Jobs -> Indexes]
            /\ turn'[j] = [state |-> "queued", index |-> req[r].index + 1, stamped |-> FALSE]
            /\ message'[j] = req[r].index
            /\ \A k \in Jobs : k # j => turn'[k] = turn[k] /\ message'[k] = message[k]
            /\ req' \in [Requests -> RequestState]
            /\ UNCHANGED <<att, hooks, faults, tools, open, at, closing, gone, unhooked>>
    BY <1>0, <1>2, CommitFacts
  <2>2. UNCHANGED <<att, hooks, faults>>
    BY <2>1
  <2>3. QueueTypeOK(Pcs)' /\ ClaimsCounted'
    BY <1>0, <2>1, <2>2, EnqueueStep
  <2>4. RowsTypeOK'
    BY <1>0, <2>1 DEF RowsTypeOK
  <2>5. turn'[j].index \in Nat /\ message'[j] \in Nat /\ UNCHANGED tools
    BY <2>1
  <2>6. \A i \in Jobs : i # j => turn'[i] = turn[i] /\ message'[i] = message[i]
    BY <2>1
  <2>7. Bounded'
    BY <1>0, <2>5, <2>6, OneTurnBounded
  <2> QED BY <2>3, <2>4, <2>7, TypeParts DEF TypeInv
<1>3. CASE Stamp(r)
  <2>1. /\ turn' \in [Jobs -> Turn] /\ SameTurns
        /\ req' \in [Requests -> RequestState]
        /\ UNCHANGED <<job, att, hooks, faults, message, tools, open, at, closing, gone, unhooked>>
    BY <1>0, <1>3, StampFacts
  <2>2. RowsTypeOK'
    BY <1>0, <2>1 DEF RowsTypeOK
  <2>3. UNCHANGED <<job, att>> /\ hooks' \subseteq Jobs /\ (Faulty \/ UNCHANGED faults)
    BY <1>0, <2>1
  <2>4. QueueTypeOK(Pcs)' /\ ClaimsCounted'
    BY <1>0, <2>3, OtherStep
  <2>5. UNCHANGED <<message, tools>>
    BY <2>1
  <2>6. Bounded'
    BY <1>0, <2>1, <2>5, SameTurnsBounded
  <2> QED BY <2>2, <2>4, <2>6, TypeParts DEF TypeInv
<1> QED BY <1>1, <1>2, <1>3 DEF RequestStep

---------------------------------------------------------------------------
(* What each step of an attempt changes.                                   *)

(* The attempt moves on and the queue is left alone.                       *)
Moved(e, from, to) ==
    /\ att[e] = from /\ att'[e] = to /\ \A f \in Execs : f # e => att'[f] = att[f]
    /\ att' \in [Execs -> Pcs \cup {"none", "claimed", "ok", "bad", "over"}]
    /\ UNCHANGED <<job, hooks, faults>>

(* The attempt remembers index i.                                          *)
Remembers(e, i) ==
    /\ at' \in [Execs -> Indexes] /\ at'[e] = i /\ \A f \in Execs : f # e => at'[f] = at[f]

(* The turn of job j becomes t.                                            *)
Becomes(j, t) ==
    /\ turn' \in [Jobs -> Turn] /\ turn'[j] = t /\ \A k \in Jobs : k # j => turn'[k] = turn[k]

(* One attempt's step from one program point to another, as the lemmas below use it. *)
LEMMA MovesOn ==
    ASSUME TypeOK, NEW e \in Execs, NEW from, NEW to \in Pcs \cup {"none", "claimed", "ok", "bad", "over"},
           Goes(e, from, to), UNCHANGED <<job, hooks, faults>>
    PROVE  Moved(e, from, to)
<1>1. QueueTypeOK(Pcs)
  BY DEF TypeOK
<1> QED BY <1>1, GoesFacts DEF Moved

(* An attempt that remembers an index changes its own memory alone. *)
LEMMA RemembersIndex ==
    ASSUME TypeOK, NEW e \in Execs, NEW i \in Nat, at' = [at EXCEPT ![e] = i]
    PROVE  Remembers(e, i)
BY DEF TypeOK, Remembers, Indexes

(* The fields of an attempt and of its job's turn, typed. *)
LEMMA Fields ==
    ASSUME TypeOK, NEW e \in Execs
    PROVE  /\ e[1] \in Jobs /\ e[2] \in Tries /\ e = <<e[1], e[2]>> /\ at[e] \in Nat
           /\ turn[e[1]].index \in Nat /\ turn[e[1]].stamped \in BOOLEAN /\ message[e[1]] \in Nat
<1>1. e[1] \in Jobs /\ e[2] \in Tries /\ e = <<e[1], e[2]>>
  BY Pairs
<1>2. at[e] \in Nat
  BY DEF TypeOK, Indexes
<1> QED BY <1>1, <1>2, TurnFields

(* What beginning a turn does. *)
LEMMA BeginFacts ==
    ASSUME TypeOK, NEW e \in Execs, BeginTurn(e)
    PROVE  /\ Moved(e, "claimed", IF gone THEN "raised" ELSE "thinking")
           /\ Remembers(e, turn[e[1]].index)
           /\ IF gone THEN UNCHANGED turn
              ELSE Becomes(e[1], [state |-> "running", index |-> turn[e[1]].index, stamped |-> TRUE])
           /\ UNCHANGED <<message, tools, open, req, closing, gone, unhooked>>
<1>1. /\ Goes(e, "claimed", IF gone THEN "raised" ELSE "thinking")
      /\ at' = [at EXCEPT ![e] = turn[e[1]].index]
      /\ turn' = IF gone THEN turn
                 ELSE [turn EXCEPT ![e[1]] = [state |-> "running", index |-> turn[e[1]].index, stamped |-> TRUE]]
      /\ UNCHANGED <<job, hooks, faults, message, tools, open, req, closing, gone, unhooked>>
  BY Fields DEF BeginTurn, TypeOK
<1>2. Moved(e, "claimed", IF gone THEN "raised" ELSE "thinking")
  BY <1>1, MovesOn DEF Pcs
<1>3. Remembers(e, turn[e[1]].index)
  BY <1>1, Fields, RemembersIndex
<1>4. ~gone => Becomes(e[1], [state |-> "running", index |-> turn[e[1]].index, stamped |-> TRUE])
  BY <1>1, Fields, OneTurnTyped DEF Becomes, InFlight
<1> QED BY <1>1, <1>2, <1>3, <1>4

(* What opening a tool call does. *)
LEMMA CallFacts ==
    ASSUME TypeOK, NEW e \in Execs, CallTool(e)
    PROVE  /\ Moved(e, "thinking", "calling") /\ open' = open \cup {e}
           /\ UNCHANGED <<turn, message, tools, at, req, closing, gone, unhooked>>
<1>1. /\ Goes(e, "thinking", "calling") /\ open' = open \cup {e}
      /\ UNCHANGED <<job, hooks, faults, turn, message, tools, at, req, closing, gone, unhooked>>
  BY DEF CallTool
<1> QED BY <1>1, MovesOn DEF Pcs

(* What the end of a tool call does: the row's index is read for the write that follows. *)
LEMMA FinishCallFacts ==
    ASSUME TypeInv, NEW e \in Execs, FinishCall(e)
    PROVE  /\ Moved(e, "calling", "placed") /\ Remembers(e, NextIndex) /\ open' = open \ {e}
           /\ UNCHANGED <<turn, message, tools, req, closing, gone, unhooked>>
<1>0. TypeOK /\ NextIndex \in Nat
  BY NextIndexIsNumber DEF TypeInv, Indexes
<1>1. /\ Goes(e, "calling", "placed") /\ open' = open \ {e} /\ at' = [at EXCEPT ![e] = NextIndex]
      /\ UNCHANGED <<job, hooks, faults, turn, message, tools, req, closing, gone, unhooked>>
  BY DEF FinishCall
<1>2. Moved(e, "calling", "placed")
  BY <1>0, <1>1, MovesOn DEF Pcs
<1>3. Remembers(e, NextIndex)
  BY <1>0, <1>1, RemembersIndex
<1> QED BY <1>1, <1>2, <1>3

(* What writing the tool row does: an index that was taken meanwhile raises. *)
LEMMA WriteFacts ==
    ASSUME TypeOK, NEW e \in Execs, WriteToolRow(e)
    PROVE  /\ Moved(e, "placed", IF gone \/ at[e] \in Taken THEN "raised" ELSE "thinking")
           /\ Remembers(e, turn[e[1]].index)
           /\ IF gone \/ at[e] \in Taken THEN UNCHANGED tools
              ELSE tools' = tools \cup {[job |-> e[1], try |-> e[2], index |-> at[e]]}
           /\ UNCHANGED <<turn, message, open, req, closing, gone, unhooked>>
<1>1. /\ Goes(e, "placed", IF gone \/ at[e] \in Taken THEN "raised" ELSE "thinking")
      /\ at' = [at EXCEPT ![e] = turn[e[1]].index]
      /\ IF gone \/ at[e] \in Taken THEN UNCHANGED tools
         ELSE tools' = tools \cup {[job |-> e[1], try |-> e[2], index |-> at[e]]}
      /\ UNCHANGED <<job, hooks, faults, turn, message, open, req, closing, gone, unhooked>>
  BY DEF WriteToolRow
<1>2. Moved(e, "placed", IF gone \/ at[e] \in Taken THEN "raised" ELSE "thinking")
  BY <1>1, MovesOn DEF Pcs
<1>3. Remembers(e, turn[e[1]].index)
  BY <1>1, Fields, RemembersIndex
<1> QED BY <1>1, <1>2, <1>3

(* What reading the answer's index does: past every row, or past those the attempt read. *)
LEMMA AnswerFacts ==
    ASSUME TypeInv, NEW e \in Execs, ReadAnswerIndex(e)
    PROVE  /\ Moved(e, "thinking", "finishing")
           /\ \/ Remembers(e, NextIndex)
              \/ Remembers(e, at[e]) /\ \A i \in Taken : i <= at[e]
           /\ UNCHANGED <<turn, message, tools, open, req, closing, gone, unhooked>>
<1>0. TypeOK /\ NextIndex \in Nat /\ at[e] \in Nat
  BY NextIndexIsNumber, Fields DEF TypeInv, Indexes
<1>1. /\ Goes(e, "thinking", "finishing")
      /\ at' = [at EXCEPT ![e] = IF \E i \in Taken : i > at[e] THEN NextIndex ELSE at[e]]
      /\ UNCHANGED <<job, hooks, faults, turn, message, tools, open, req, closing, gone, unhooked>>
  BY DEF ReadAnswerIndex
<1>2. Moved(e, "thinking", "finishing")
  BY <1>0, <1>1, MovesOn DEF Pcs
<1>3. CASE \E i \in Taken : i > at[e]
  <2>1. at' = [at EXCEPT ![e] = NextIndex]
    BY <1>1, <1>3
  <2> QED BY <1>0, <1>1, <1>2, <2>1, RemembersIndex
<1>4. CASE ~ \E i \in Taken : i > at[e]
  <2>1. at' = [at EXCEPT ![e] = at[e]]
    BY <1>1, <1>4
  <2>2. \A i \in Taken : i <= at[e]
    BY <1>0, <1>4, TakenAreNumbers
  <2> QED BY <1>0, <1>1, <1>2, <2>1, <2>2, RemembersIndex
<1> QED BY <1>3, <1>4

(* What saving the answer does, or its refusal when the conversation is gone. *)
LEMMA SaveFacts ==
    ASSUME TypeOK, NEW e \in Execs, NEW s \in {"done", "failed"}, SaveAnswer(e, s)
    PROVE  /\ Remembers(e, 0)
           /\ \/ Moved(e, "finishing", "raised") /\ UNCHANGED turn
              \/ /\ Moved(e, "finishing", "ok") /\ ~gone
                 /\ Becomes(e[1], [state |-> s, index |-> at[e], stamped |-> turn[e[1]].stamped])
           /\ UNCHANGED <<message, tools, open, req, closing, gone, unhooked>>
<1> DEFINE refused == gone \/ (at[e] \in Taken /\ at[e] # turn[e[1]].index)
<1>1. /\ Goes(e, "finishing", IF refused THEN "raised" ELSE "ok")
      /\ turn' = IF refused THEN turn
                 ELSE [turn EXCEPT ![e[1]] = [state |-> s, index |-> at[e], stamped |-> turn[e[1]].stamped]]
      /\ at' = [at EXCEPT ![e] = 0]
      /\ UNCHANGED <<job, hooks, faults, message, tools, open, req, closing, gone, unhooked>>
  BY Fields DEF SaveAnswer, TypeOK
<1>2. Moved(e, "finishing", IF refused THEN "raised" ELSE "ok")
  <2> HIDE DEF refused
  <2> QED BY <1>1, MovesOn DEF Pcs
<1>3. Remembers(e, 0)
  BY <1>1, RemembersIndex
<1>4. ~refused => Becomes(e[1], [state |-> s, index |-> at[e], stamped |-> turn[e[1]].stamped]) /\ ~gone
  <2>1. s \in InFlight \cup TerminalTurnStates
    BY DEF TerminalTurnStates
  <2> QED BY <1>1, <2>1, Fields, OneTurnTyped DEF Becomes
<1> HIDE DEF refused
<1> QED BY <1>1, <1>2, <1>3, <1>4

(* What an exception in an attempt does. *)
LEMMA RaiseFacts ==
    ASSUME TypeOK, NEW e \in Execs, Raise(e)
    PROVE  /\ \E pc \in {"thinking", "calling"} : Moved(e, pc, "raised")
           /\ UNCHANGED turnVars
<1>1. PICK pc \in {"thinking", "calling"} : Goes(e, pc, "raised")
  BY DEF Raise
<1>2. UNCHANGED <<job, hooks, faults>> /\ UNCHANGED turnVars
  BY DEF Raise
<1> QED BY <1>1, <1>2, MovesOn DEF Pcs

(* What marking the turn failed does. *)
LEMMA FailFacts ==
    ASSUME TypeOK, NEW e \in Execs, FailTurn(e)
    PROVE  /\ Moved(e, "raised", "closing") /\ Remembers(e, 0)
           /\ IF gone THEN UNCHANGED turn
              ELSE Becomes(e[1], [state |-> "failed", index |-> turn[e[1]].index, stamped |-> turn[e[1]].stamped])
           /\ UNCHANGED <<message, tools, open, req, closing, gone, unhooked>>
<1>1. /\ Goes(e, "raised", "closing")
      /\ turn' = IF gone THEN turn
                 ELSE [turn EXCEPT ![e[1]] =
                        [state |-> "failed", index |-> turn[e[1]].index, stamped |-> turn[e[1]].stamped]]
      /\ at' = [at EXCEPT ![e] = 0]
      /\ UNCHANGED <<job, hooks, faults, message, tools, open, req, closing, gone, unhooked>>
  BY Fields DEF FailTurn, TypeOK
<1>2. Moved(e, "raised", "closing")
  BY <1>1, MovesOn DEF Pcs
<1>3. Remembers(e, 0)
  BY <1>1, RemembersIndex
<1>4. ~gone => Becomes(e[1], [state |-> "failed", index |-> turn[e[1]].index, stamped |-> turn[e[1]].stamped])
  BY <1>1, Fields, OneTurnTyped DEF Becomes, TerminalTurnStates
<1> QED BY <1>1, <1>2, <1>3, <1>4

(* What closing the open calls of a failed turn does. *)
LEMMA CloseFacts ==
    ASSUME TypeOK, NEW e \in Execs, CloseCalls(e)
    PROVE  /\ Moved(e, "closing", "bad") /\ open' = open \ OpenOf(e[1])
           /\ UNCHANGED <<turn, message, tools, at, req, closing, gone, unhooked>>
<1>1. /\ Goes(e, "closing", "bad") /\ open' = open \ OpenOf(e[1])
      /\ UNCHANGED <<job, hooks, faults, turn, message, tools, at, req, closing, gone, unhooked>>
  BY DEF CloseCalls
<1> QED BY <1>1, MovesOn DEF Pcs

---------------------------------------------------------------------------
(* Types, step by step.                                                    *)

(* An attempt's move keeps the queue's types.                              *)
LEMMA MovedTypes ==
    ASSUME TypeInv, NEW e \in Execs, NEW from, NEW to, Moved(e, from, to)
    PROVE  QueueTypeOK(Pcs)' /\ ClaimsCounted'
<1>1. QueueTypeOK(Pcs) /\ ClaimsCounted
  BY DEF TypeInv, TypeOK
<1>2. QueueTypeOK(Pcs)'
  BY <1>1 DEF Moved, QueueTypeOK
<1>3. ClaimsCounted'
  BY <1>1 DEF Moved, ClaimsCounted
<1> QED BY <1>2, <1>3

(* One turn that takes a number for its index keeps them all bounded.      *)
LEMMA BecomesBounded ==
    ASSUME TypeInv, NEW j \in Jobs, NEW t, t.index \in Nat, Becomes(j, t), UNCHANGED <<message, tools>>
    PROVE  Bounded'
<1>1. /\ TypeOK /\ Bounded /\ UNCHANGED tools /\ turn'[j].index \in Nat /\ message'[j] \in Nat
      /\ \A i \in Jobs : i # j => turn'[i] = turn[i] /\ message'[i] = message[i]
  BY TurnFields DEF TypeInv, Becomes
<1> QED BY <1>1, OneTurnBounded

(* Every step of an attempt keeps the types and the bound. *)
LEMMA AttemptTypeStep ==
    ASSUME TypeInv, NEW e \in Execs,
           \/ BeginTurn(e) \/ CallTool(e) \/ FinishCall(e) \/ WriteToolRow(e) \/ ReadAnswerIndex(e)
           \/ SaveAnswer(e, "done") \/ SaveAnswer(e, "failed") \/ Raise(e) \/ FailTurn(e) \/ CloseCalls(e)
    PROVE  TypeInv'
<1>0. TypeOK /\ Bounded /\ RowsTypeOK
  BY TypeParts DEF TypeInv
<1>j. e[1] \in Jobs /\ e[2] \in Tries /\ at[e] \in Nat /\ turn[e[1]].index \in Nat
  BY <1>0, Fields
<1>1. CASE BeginTurn(e)
  <2> DEFINE t == [state |-> "running", index |-> turn[e[1]].index, stamped |-> TRUE]
  <2>1. /\ Moved(e, "claimed", IF gone THEN "raised" ELSE "thinking") /\ Remembers(e, turn[e[1]].index)
        /\ UNCHANGED turn \/ Becomes(e[1], t)
        /\ UNCHANGED <<message, tools, open, req, closing, gone, unhooked>>
    BY <1>0, <1>1, BeginFacts
  <2>2. QueueTypeOK(Pcs)' /\ ClaimsCounted'
    BY <2>1, MovedTypes
  <2>3. RowsTypeOK'
    BY <1>0, <2>1 DEF RowsTypeOK, Remembers, Becomes
  <2>4. UNCHANGED <<message, tools>> /\ t.index \in Nat
    BY <1>j, <2>1
  <2>5. Bounded'
    BY <1>0, <1>j, <2>1, <2>4, BecomesBounded, SameRowsBounded
  <2> QED BY <2>2, <2>3, <2>5, TypeParts DEF TypeInv
<1>2. CASE CallTool(e)
  <2>1. /\ Moved(e, "thinking", "calling") /\ open' = open \cup {e}
        /\ UNCHANGED <<turn, message, tools, at, req, closing, gone, unhooked>>
    BY <1>0, <1>2, CallFacts
  <2>2. QueueTypeOK(Pcs)' /\ ClaimsCounted'
    BY <2>1, MovedTypes
  <2>3. RowsTypeOK'
    BY <1>0, <2>1 DEF RowsTypeOK
  <2>4. UNCHANGED <<turn, message, tools>>
    BY <2>1
  <2>5. Bounded'
    BY <1>0, <2>4, SameRowsBounded
  <2> QED BY <2>2, <2>3, <2>5, TypeParts DEF TypeInv
<1>3. CASE FinishCall(e)
  <2>1. /\ Moved(e, "calling", "placed") /\ Remembers(e, NextIndex) /\ open' = open \ {e}
        /\ UNCHANGED <<turn, message, tools, req, closing, gone, unhooked>>
    BY <1>3, FinishCallFacts
  <2>2. QueueTypeOK(Pcs)' /\ ClaimsCounted'
    BY <2>1, MovedTypes
  <2>3. RowsTypeOK'
    BY <1>0, <2>1 DEF RowsTypeOK, Remembers
  <2>4. UNCHANGED <<turn, message, tools>>
    BY <2>1
  <2>5. Bounded'
    BY <1>0, <2>4, SameRowsBounded
  <2> QED BY <2>2, <2>3, <2>5, TypeParts DEF TypeInv
<1>4. CASE WriteToolRow(e)
  <2> DEFINE row == [job |-> e[1], try |-> e[2], index |-> at[e]]
  <2>1. /\ Moved(e, "placed", IF gone \/ at[e] \in Taken THEN "raised" ELSE "thinking")
        /\ Remembers(e, turn[e[1]].index) /\ (tools' = tools \/ tools' = tools \cup {row})
        /\ UNCHANGED <<turn, message, open, req, closing, gone, unhooked>>
    BY <1>0, <1>4, WriteFacts
  <2>2. QueueTypeOK(Pcs)' /\ ClaimsCounted'
    BY <2>1, MovedTypes
  <2>3. \A x \in tools' : x \in tools \/ x = row
    BY <2>1
  <2>4. RowsTypeOK'
    <3>1. \A x \in tools' : x.job \in Jobs /\ x.try \in Tries /\ x.index \in Indexes
      BY <1>0, <1>j, <2>3 DEF RowsTypeOK, Indexes
    <3> QED BY <1>0, <2>1, <3>1 DEF RowsTypeOK, Remembers
  <2>5. \A i \in Taken' : i \in Taken \/ (i \in Nat /\ i <= at[e])
    <3>1. Written' = Written
      BY <2>1 DEF Written
    <3>2. \A x \in tools' : x.index \in {y.index : y \in tools} \/ x.index = at[e]
      BY <2>3
    <3>3. \A i \in Taken' : i \in Taken \/ i = at[e]
      BY <2>1, <3>1, <3>2 DEF Taken
    <3> QED BY <1>j, <3>3
  <2>6. Bounded'
    BY <1>0, <1>j, <2>5, StillBounded
  <2> QED BY <2>2, <2>4, <2>6, TypeParts DEF TypeInv
<1>5. CASE ReadAnswerIndex(e)
  <2>1. /\ Moved(e, "thinking", "finishing") /\ (Remembers(e, NextIndex) \/ Remembers(e, at[e]))
        /\ UNCHANGED <<turn, message, tools, open, req, closing, gone, unhooked>>
    BY <1>5, AnswerFacts
  <2>2. QueueTypeOK(Pcs)' /\ ClaimsCounted'
    BY <2>1, MovedTypes
  <2>3. RowsTypeOK'
    BY <1>0, <2>1 DEF RowsTypeOK, Remembers
  <2>4. UNCHANGED <<turn, message, tools>>
    BY <2>1
  <2>5. Bounded'
    BY <1>0, <2>4, SameRowsBounded
  <2> QED BY <2>2, <2>3, <2>5, TypeParts DEF TypeInv
<1>6. ASSUME NEW s \in {"done", "failed"}, SaveAnswer(e, s) PROVE TypeInv'
  <2> DEFINE t == [state |-> s, index |-> at[e], stamped |-> turn[e[1]].stamped]
  <2>1. /\ Remembers(e, 0) /\ (UNCHANGED turn \/ Becomes(e[1], t))
        /\ \E to : Moved(e, "finishing", to)
        /\ UNCHANGED <<message, tools, open, req, closing, gone, unhooked>>
    BY <1>0, <1>6, SaveFacts
  <2>2. QueueTypeOK(Pcs)' /\ ClaimsCounted'
    BY <2>1, MovedTypes
  <2>3. RowsTypeOK'
    BY <1>0, <2>1 DEF RowsTypeOK, Remembers, Becomes
  <2>4. UNCHANGED <<message, tools>> /\ t.index \in Nat
    BY <1>j, <2>1
  <2>5. Bounded'
    BY <1>0, <1>j, <2>1, <2>4, BecomesBounded, SameRowsBounded
  <2> QED BY <2>2, <2>3, <2>5, TypeParts DEF TypeInv
<1>7. CASE Raise(e)
  <2>1. \E pc : Moved(e, pc, "raised")
    BY <1>0, <1>7, RaiseFacts
  <2>2. UNCHANGED <<turn, message, tools>> /\ UNCHANGED <<open, at, req, closing, gone, unhooked>>
    BY <1>0, <1>7, RaiseFacts DEF turnVars
  <2>3. QueueTypeOK(Pcs)' /\ ClaimsCounted'
    BY <2>1, MovedTypes
  <2>4. RowsTypeOK'
    BY <1>0, <2>2 DEF RowsTypeOK
  <2>5. Bounded'
    BY <1>0, <2>2, SameRowsBounded
  <2> QED BY <2>3, <2>4, <2>5, TypeParts DEF TypeInv
<1>8. CASE FailTurn(e)
  <2> DEFINE t == [state |-> "failed", index |-> turn[e[1]].index, stamped |-> turn[e[1]].stamped]
  <2>1. /\ Moved(e, "raised", "closing") /\ Remembers(e, 0)
        /\ UNCHANGED turn \/ Becomes(e[1], t)
        /\ UNCHANGED <<message, tools, open, req, closing, gone, unhooked>>
    BY <1>0, <1>8, FailFacts
  <2>2. QueueTypeOK(Pcs)' /\ ClaimsCounted'
    BY <2>1, MovedTypes
  <2>3. RowsTypeOK'
    BY <1>0, <2>1 DEF RowsTypeOK, Remembers, Becomes
  <2>4. UNCHANGED <<message, tools>> /\ t.index \in Nat
    BY <1>j, <2>1
  <2>5. Bounded'
    BY <1>0, <1>j, <2>1, <2>4, BecomesBounded, SameRowsBounded
  <2> QED BY <2>2, <2>3, <2>5, TypeParts DEF TypeInv
<1>9. CASE CloseCalls(e)
  <2>1. /\ Moved(e, "closing", "bad") /\ open' = open \ OpenOf(e[1])
        /\ UNCHANGED <<turn, message, tools, at, req, closing, gone, unhooked>>
    BY <1>0, <1>9, CloseFacts
  <2>2. QueueTypeOK(Pcs)' /\ ClaimsCounted'
    BY <2>1, MovedTypes
  <2>3. RowsTypeOK'
    BY <1>0, <2>1 DEF RowsTypeOK
  <2>4. UNCHANGED <<turn, message, tools>>
    BY <2>1
  <2>5. Bounded'
    BY <1>0, <2>4, SameRowsBounded
  <2> QED BY <2>2, <2>3, <2>5, TypeParts DEF TypeInv
<1> QED BY <1>1, <1>2, <1>3, <1>4, <1>5, <1>6, <1>7, <1>8, <1>9

(* The hook's first statement settles a turn that is in flight.            *)
LEMMA HookFacts ==
    ASSUME TypeOK, NEW j \in Jobs, OnTurnTerminal(j)
    PROVE  /\ j \in hooks /\ hooks' = hooks \ {j} /\ closing' = closing \cup {j}
           /\ IF turn[j].state \notin InFlight THEN UNCHANGED turn
              ELSE Becomes(j, [state |-> IF job[j].state = "cancelled" THEN "cancelled" ELSE "failed",
                               index |-> turn[j].index, stamped |-> turn[j].stamped])
           /\ UNCHANGED <<job, att, faults, message, tools, open, at, req, gone, unhooked>>
<1>1. /\ j \in hooks /\ hooks' = hooks \ {j} /\ closing' = closing \cup {j}
      /\ turn' = IF turn[j].state \notin InFlight THEN turn
                 ELSE [turn EXCEPT ![j] =
                        [state |-> IF job[j].state = "cancelled" THEN "cancelled" ELSE "failed",
                         index |-> turn[j].index, stamped |-> turn[j].stamped]]
      /\ UNCHANGED <<job, att, faults, message, tools, open, at, req, gone, unhooked>>
  BY DEF OnTurnTerminal, HookRuns, TypeOK
<1>2. turn[j].state \in InFlight =>
          Becomes(j, [state |-> IF job[j].state = "cancelled" THEN "cancelled" ELSE "failed",
                      index |-> turn[j].index, stamped |-> turn[j].stamped])
  <2> DEFINE s == IF job[j].state = "cancelled" THEN "cancelled" ELSE "failed"
  <2>1. s \in InFlight \cup TerminalTurnStates
    BY DEF TerminalTurnStates
  <2>2. turn[j].state \in InFlight =>
          turn' = [turn EXCEPT ![j] = [state |-> s, index |-> turn[j].index, stamped |-> turn[j].stamped]]
    BY <1>1
  <2> HIDE DEF s
  <2>3. turn[j].state \in InFlight =>
          Becomes(j, [state |-> s, index |-> turn[j].index, stamped |-> turn[j].stamped])
    BY <2>1, <2>2, TurnFields, OneTurnTyped DEF Becomes
  <2> QED BY <2>3 DEF s
<1> QED BY <1>1, <1>2

(* Every step of a terminal hook keeps the types and the bound. *)
LEMMA HookTypeStep ==
    ASSUME TypeInv, NEW j \in Jobs, OnTurnTerminal(j) \/ HookCloses(j) \/ HookDies(j)
    PROVE  TypeInv'
<1>0. TypeOK /\ QueueTypeOK(Pcs) /\ ClaimsCounted /\ Bounded /\ RowsTypeOK /\ hooks \subseteq Jobs
  BY TypeParts DEF TypeInv, QueueTypeOK
<1>1. QueueTypeOK(Pcs)' /\ ClaimsCounted'
  <2>1. UNCHANGED <<job, att>> /\ hooks' \subseteq Jobs /\ (Faulty \/ UNCHANGED faults)
    BY <1>0 DEF OnTurnTerminal, HookRuns, HookCloses, HookDies, queueVars
  <2> QED BY <1>0, <2>1, OtherStep
<1>2. CASE OnTurnTerminal(j)
  <2> DEFINE t == [state |-> IF job[j].state = "cancelled" THEN "cancelled" ELSE "failed",
                   index |-> turn[j].index, stamped |-> turn[j].stamped]
  <2>1. /\ closing' = closing \cup {j} /\ (UNCHANGED turn \/ Becomes(j, t))
        /\ UNCHANGED <<job, att, faults, message, tools, open, at, req, gone, unhooked>>
    BY <1>0, <1>2, HookFacts
  <2>2. RowsTypeOK'
    BY <1>0, <2>1 DEF RowsTypeOK, Becomes
  <2>3. UNCHANGED <<message, tools>> /\ t.index \in Nat
    BY <1>0, <2>1, TurnFields
  <2>4. Bounded'
    BY <1>0, <2>1, <2>3, BecomesBounded, SameRowsBounded
  <2> QED BY <1>1, <2>2, <2>4, TypeParts DEF TypeInv
<1>3. CASE HookCloses(j) \/ HookDies(j)
  <2>1. RowsTypeOK'
    BY <1>0, <1>3 DEF HookCloses, HookDies, RowsTypeOK
  <2>2. UNCHANGED <<turn, message, tools>>
    BY <1>3 DEF HookCloses, HookDies
  <2>3. Bounded'
    BY <1>0, <2>2, SameRowsBounded
  <2> QED BY <1>1, <2>1, <2>3, TypeParts DEF TypeInv
<1> QED BY <1>2, <1>3

(* What deleting the conversation does. *)
LEMMA DeleteFacts ==
    ASSUME DeleteConversation
    PROVE  /\ ~gone /\ gone' = TRUE /\ tools' = {} /\ Taken' = {} /\ Faulty
           /\ \A r \in Requests : req[r].pc # "inserted"
           /\ turn' = [j \in Jobs |-> NoTurn] /\ message' = [j \in Jobs |-> 0]
           /\ UNCHANGED <<job, att, hooks, open, at, req, closing, unhooked>>
<1>1. /\ ~gone /\ gone' = TRUE /\ tools' = {} /\ Faulty /\ \A r \in Requests : req[r].pc # "inserted"
      /\ turn' = [j \in Jobs |-> NoTurn] /\ message' = [j \in Jobs |-> 0]
      /\ UNCHANGED <<job, att, hooks, open, at, req, closing, unhooked>>
  BY DEF DeleteConversation
<1>2. Written' = {}
  BY <1>1 DEF Written, NoTurn
<1>3. \A i \in Taken' : FALSE
  BY <1>1, <1>2 DEF Taken
<1> QED BY <1>1, <1>3

(* Every step keeps the types and the bound. *)
LEMMA TypeStep == ASSUME TypeInv, [Next]_vars PROVE TypeInv'
<1>0. TypeOK /\ QueueTypeOK(Pcs) /\ ClaimsCounted /\ Bounded /\ RowsTypeOK /\ hooks \subseteq Jobs
  BY TypeParts DEF TypeInv, QueueTypeOK
<1>1. CASE DeleteConversation
  <2>1. /\ turn' = [j \in Jobs |-> NoTurn] /\ message' = [j \in Jobs |-> 0] /\ tools' = {} /\ gone' = TRUE
        /\ Taken' = {} /\ Faulty /\ UNCHANGED <<job, att, hooks, open, at, req, closing, unhooked>>
    BY <1>1, DeleteFacts
  <2>2. UNCHANGED <<job, att>> /\ hooks' \subseteq Jobs
    BY <1>0, <2>1
  <2>3. QueueTypeOK(Pcs)' /\ ClaimsCounted'
    BY <1>0, <2>1, <2>2, OtherStep
  <2>4. NoTurn \in Turn /\ 0 \in Indexes
    BY DEF NoTurn, Turn, Indexes
  <2>5. RowsTypeOK'
    BY <1>0, <2>1, <2>4 DEF RowsTypeOK
  <2>6. Bounded'
    BY <2>1 DEF Bounded
  <2> QED BY <2>3, <2>5, <2>6, TypeParts DEF TypeInv
<1>2. CASE (QueueStep \/ \E e \in Execs : Report(e)) /\ UNCHANGED turnVars
  <2>1. QueueStep /\ UNCHANGED <<turn, message, tools>> /\ UNCHANGED <<open, at, req, closing, gone, unhooked>>
    BY <1>2 DEF QueueStep, turnVars
  <2>2. QueueTypeOK(Pcs)' /\ ClaimsCounted'
    BY <1>0, <2>1, QueueTypeStep
  <2>3. RowsTypeOK'
    BY <1>0, <2>1 DEF RowsTypeOK
  <2>4. Bounded'
    BY <1>0, <2>1, SameRowsBounded
  <2> QED BY <2>2, <2>3, <2>4, TypeParts DEF TypeInv
<1>3. CASE UNCHANGED vars
  <2>1. UNCHANGED <<job, att, hooks, faults>> /\ UNCHANGED <<turn, message, tools>>
        /\ UNCHANGED <<open, at, req, closing, gone, unhooked>>
    BY <1>3 DEF vars, queueVars, turnVars
  <2>2. UNCHANGED <<job, att>> /\ hooks' \subseteq Jobs /\ (Faulty \/ UNCHANGED faults)
    BY <1>0, <2>1
  <2>3. QueueTypeOK(Pcs)' /\ ClaimsCounted'
    BY <1>0, <2>2, OtherStep
  <2>4. RowsTypeOK'
    BY <1>0, <2>1 DEF RowsTypeOK
  <2>5. Bounded'
    BY <1>0, <2>1, SameRowsBounded
  <2> QED BY <2>3, <2>4, <2>5, TypeParts DEF TypeInv
<1>4. CASE \E r \in Requests : CheckInFlight(r) \/ RequestStep(r) \/ StartRefused(r) \/ RequestDies(r)
  BY <1>4, RequestTypeStep
<1>5. CASE \E e \in Execs : \/ BeginTurn(e) \/ CallTool(e) \/ FinishCall(e) \/ WriteToolRow(e)
                            \/ ReadAnswerIndex(e) \/ SaveAnswer(e, "done") \/ SaveAnswer(e, "failed")
                            \/ Raise(e) \/ FailTurn(e) \/ CloseCalls(e)
  BY <1>5, AttemptTypeStep
<1>6. CASE \E j \in Jobs : OnTurnTerminal(j) \/ HookCloses(j) \/ HookDies(j)
  BY <1>6, HookTypeStep
<1> QED BY <1>1, <1>2, <1>3, <1>4, <1>5, <1>6 DEF Next, AttemptStep

(* Rows, requests, attempts and hooks keep their types, and an attempt's   *)
(* ordinal stays in range: a job is claimed once, and once more for its    *)
(* retry and for each fault.                                               *)
THEOREM TypeCorrect == Spec => []TypeOK
<1>1. Spec => []TypeInv
  BY TypeInit, TypeStep, PTL DEF Spec
<1> QED BY <1>1, PTL DEF TypeInv

---------------------------------------------------------------------------
(* The rows of a conversation whose attempts do not outlive their claim.   *)

(* A deleted conversation has no rows and nobody about to write them.      *)
Empty ==
    gone =>
        /\ \A j \in Jobs : turn[j].state = "absent"
        /\ tools = {}
        /\ \A r \in Requests : req[r].pc # "inserted"

(* A turn has a job, and a job its turn until the conversation is deleted. *)
Paired ==
    \A j \in Jobs :
        /\ job[j].state = "absent" =>
              turn[j].state = "absent" /\ OpenOf(j) = {} /\ \A x \in tools : x.job # j
        /\ ~gone /\ job[j].state # "absent" => turn[j].state # "absent"

(* Hooks are for jobs that failed or were cancelled.                       *)
HooksOver == \A j \in hooks : job[j].state \in {"failed", "cancelled"}

(* A turn in flight has a job that waits or runs, or a hook scheduled.     *)
Kept ==
    \A j \in Jobs \ unhooked :
        turn[j].state \in InFlight => job[j].state \in {"queued", "running"} \/ j \in hooks

(* A failed or cancelled job has no open audit row, or a hook to close it. *)
Closed ==
    ~gone => \A j \in Jobs \ unhooked :
        job[j].state \in {"failed", "cancelled"} => OpenOf(j) = {} \/ j \in hooks \/ j \in closing

(* A cancelled turn's job is cancelled.                                    *)
CancelledTogether == \A j \in Jobs : turn[j].state = "cancelled" => job[j].state = "cancelled"

(* The hook will find the job of an open audit row by its turn's stamp.    *)
OpenStamped(j) == ~gone /\ OpenOf(j) # {} => turn[j].stamped

(* The rows of turn j are in order once it is done, and its TOOL rows      *)
(* never stand where its answer is.                                        *)
OrderedRows(j) ==
    /\ turn[j].state # "absent" => message[j] < turn[j].index
    /\ \A x \in tools :
        x.job = j => x.index # turn[j].index /\ (turn[j].state = "done" => x.index < turn[j].index)

(* An attempt at work has its turn to itself, running and stamped, and     *)
(* carries the index it was loaded with; about to write the answer it      *)
(* carries an index behind all its rows.  One that is through with its     *)
(* turn has ended it, and closed the audit rows if it failed.              *)
AtWork(e) ==
    /\ ~gone /\ att[e] \in {"thinking", "calling", "placed", "finishing"} =>
          turn[e[1]].state = "running" /\ turn[e[1]].stamped
    /\ ~gone /\ att[e] = "thinking" => at[e] = turn[e[1]].index
    /\ ~gone /\ att[e] = "finishing" =>
          message[e[1]] < at[e] /\ \A x \in tools : x.job = e[1] => x.index < at[e]
    /\ att[e] \in {"closing", "bad", "ok"} => turn[e[1]].state \notin InFlight
    /\ att[e] = "bad" => OpenOf(e[1]) = {}

RowsInv ==
    /\ ExecutingHolds
    /\ Empty
    /\ Paired
    /\ HooksOver
    /\ Kept
    /\ Closed
    /\ CancelledTogether
    /\ \A j \in Jobs : OpenStamped(j) /\ OrderedRows(j)
    /\ \A e \in Execs : AtWork(e)

(* What is invariant about the rows holds at first. *)
LEMMA RowsInit == Init => RowsInv
<1> SUFFICES ASSUME Init PROVE RowsInv
  OBVIOUS
<1>1. ExecutingHolds
  BY QueueTypeInit DEF Init
<1>2. /\ gone = FALSE /\ tools = {} /\ hooks = {} /\ open = {}
      /\ \A j \in Jobs : turn[j].state = "absent" /\ job[j].state = "absent"
      /\ \A e \in Execs : att[e] = "none"
  BY DEF Init, QueueInit, NoTurn
<1>3. \A j \in Jobs : OpenOf(j) = {}
  BY <1>2 DEF OpenOf
<1>4. Empty /\ Paired /\ HooksOver /\ Kept /\ Closed /\ CancelledTogether
  BY <1>2, <1>3 DEF Empty, Paired, HooksOver, Kept, Closed, CancelledTogether, InFlight
<1>5. \A j \in Jobs : OpenStamped(j) /\ OrderedRows(j)
  BY <1>2, <1>3 DEF OpenStamped, OrderedRows
<1>6. \A e \in Execs : AtWork(e)
  BY <1>2 DEF AtWork
<1> QED BY <1>1, <1>4, <1>5, <1>6 DEF RowsInv

(* An attempt that executes has its job running, and to itself.            *)
LEMMA ItsOwnJob ==
    ASSUME RowsInv, NEW e \in Execs, att[e] \notin {"none", "over"}
    PROVE  /\ e[1] \in Jobs /\ job[e[1]].state = "running"
           /\ \A f \in Execs : f # e /\ f[1] = e[1] => att[f] \in {"none", "over"}
<1>1. Executing(e) /\ ExecutingHolds
  BY DEF Executing, RowsInv
<1>2. e[1] \in Jobs /\ job[e[1]].state = "running"
  BY <1>1, Pairs DEF ExecutingHolds, Holds
<1>3. ASSUME NEW f \in Execs, f # e, f[1] = e[1], att[f] \notin {"none", "over"} PROVE FALSE
  <2>1. Executing(f)
    BY <1>3 DEF Executing
  <2> QED BY <1>1, <1>3, <2>1, OneExecutes
<1> QED BY <1>2, <1>3

(* What a step of attempt e leaves alone.                                  *)
Local(e) ==
    /\ \A k \in Jobs : k # e[1] => turn'[k] = turn[k]
    /\ turn'[e[1]] = turn[e[1]] \/ turn'[e[1]].state \in {"running", "done", "failed"}
    /\ gone => turn' = turn /\ tools' = tools
    /\ \A f \in Execs : f # e => at'[f] = at[f]
    /\ \A f \in Execs : f[1] # e[1] => (f \in open' <=> f \in open)
    /\ \A x \in tools' : x \in tools \/ x.job = e[1]
    /\ UNCHANGED <<message, req, closing, gone, unhooked>>

(* A step of attempt e that leaves its own rows as they ought to be.       *)
LEMMA LocalStep ==
    ASSUME TypeOK, TypeOK', RowsInv, NEW e \in Execs, NEW from, NEW to,
           Moved(e, from, to), from \notin {"none", "over"}, Local(e),
           AtWork(e)', OpenStamped(e[1])', OrderedRows(e[1])'
    PROVE  RowsInv'
<1>0. /\ att[e] \notin {"none", "over"} /\ UNCHANGED <<job, hooks>>
      /\ \A f \in Execs : f # e => att'[f] = att[f]
      /\ open \subseteq Execs /\ open' \subseteq Execs
  BY DEF Moved, TypeOK
<1>1. /\ e[1] \in Jobs /\ job[e[1]].state = "running"
      /\ \A f \in Execs : f # e /\ f[1] = e[1] => att[f] \in {"none", "over"}
  BY <1>0, ItsOwnJob
<1>2. ExecutingHolds'
  <2>1. \A f \in Execs : Executing(f)' => Executing(f)
    BY <1>0 DEF Executing
  <2> QED BY <1>0, <2>1 DEF RowsInv, ExecutingHolds, Holds
<1>3. Empty'
  BY DEF RowsInv, Empty, Local
<1>4. \A j \in Jobs : j # e[1] => OpenOf(j)' = OpenOf(j)
  BY <1>0 DEF OpenOf, Local
<1>5. Paired'
  <2>1. ASSUME NEW j \in Jobs, job[j].state = "absent"
        PROVE  turn'[j].state = "absent" /\ OpenOf(j)' = {} /\ \A x \in tools' : x.job # j
    <3>1. j # e[1]
      BY <1>1, <2>1
    <3> QED BY <1>4, <2>1, <3>1 DEF RowsInv, Paired, Local
  <2>2. ASSUME NEW j \in Jobs, ~gone, job[j].state # "absent" PROVE turn'[j].state # "absent"
    BY <2>2 DEF RowsInv, Paired, Local
  <2> QED BY <1>0, <2>1, <2>2 DEF Paired, Local
<1>6. HooksOver'
  BY <1>0 DEF RowsInv, HooksOver
<1>7. Kept'
  BY <1>0, <1>1 DEF RowsInv, Kept, Local
<1>8. Closed'
  BY <1>0, <1>1, <1>4 DEF RowsInv, Closed, Local
<1>9. CancelledTogether'
  BY <1>0, <1>1 DEF RowsInv, CancelledTogether, Local
<1>10. ASSUME NEW j \in Jobs PROVE OpenStamped(j)' /\ OrderedRows(j)'
  <2>1. CASE j = e[1]
    BY <2>1
  <2>2. CASE j # e[1]
    <3>1. turn'[j] = turn[j] /\ OpenOf(j)' = OpenOf(j) /\ UNCHANGED <<gone, message>>
      BY <1>4, <2>2 DEF Local
    <3>2. OpenStamped(j)'
      BY <3>1 DEF RowsInv, OpenStamped
    <3>3. \A x \in tools' : x.job = j => x \in tools
      BY <2>2 DEF Local
    <3>4. OrderedRows(j)'
      BY <3>1, <3>3 DEF RowsInv, OrderedRows
    <3> QED BY <3>2, <3>4
  <2> QED BY <2>1, <2>2
<1>11. ASSUME NEW f \in Execs PROVE AtWork(f)'
  <2>1. CASE f = e
    BY <2>1
  <2>2. CASE f # e /\ f[1] = e[1]
    <3>1. att'[f] \in {"none", "over"}
      BY <1>0, <1>1, <2>2
    <3> QED BY <3>1 DEF AtWork
  <2>3. CASE f[1] # e[1]
    <3>1. /\ f # e /\ att'[f] = att[f] /\ at'[f] = at[f] /\ f[1] \in Jobs /\ turn'[f[1]] = turn[f[1]]
          /\ UNCHANGED <<gone, message>>
      BY <1>0, <2>3, Pairs DEF Local
    <3>2. OpenOf(f[1])' = OpenOf(f[1])
      BY <1>4, <2>3, <3>1
    <3>3. \A x \in tools' : x.job = f[1] => x \in tools
      BY <2>3 DEF Local
    <3>4. AtWork(f)
      BY DEF RowsInv
    <3> QED BY <3>1, <3>2, <3>3, <3>4 DEF AtWork
  <2> QED BY <2>1, <2>2, <2>3
<1> QED BY <1>2, <1>3, <1>5, <1>6, <1>7, <1>8, <1>9, <1>10, <1>11 DEF RowsInv

(* The attempts' steps, one by one.                                        *)
LEMMA AttemptRowsStep ==
    ASSUME TypeInv, TypeInv', RowsInv, NEW e \in Execs,
           \/ BeginTurn(e) \/ CallTool(e) \/ FinishCall(e) \/ WriteToolRow(e) \/ ReadAnswerIndex(e)
           \/ SaveAnswer(e, "done") \/ SaveAnswer(e, "failed") \/ Raise(e) \/ FailTurn(e) \/ CloseCalls(e)
    PROVE  RowsInv'
<1>0. TypeOK /\ TypeOK' /\ AtWork(e) /\ Empty /\ Paired
  BY DEF TypeInv, RowsInv
<1>j. /\ e[1] \in Jobs /\ e[2] \in Tries /\ e = <<e[1], e[2]>> /\ at[e] \in Nat
      /\ turn[e[1]].index \in Nat /\ message[e[1]] \in Nat
  BY <1>0, Fields
<1>k. OpenStamped(e[1]) /\ OrderedRows(e[1])
  BY <1>j DEF RowsInv
<1>l. att[e] \notin {"none", "over"} => job[e[1]].state = "running"
  BY ItsOwnJob
<1>1. CASE BeginTurn(e)
  <2> DEFINE t == [state |-> "running", index |-> turn[e[1]].index, stamped |-> TRUE]
  <2>1. /\ Moved(e, "claimed", IF gone THEN "raised" ELSE "thinking") /\ Remembers(e, turn[e[1]].index)
        /\ IF gone THEN UNCHANGED turn ELSE Becomes(e[1], t)
        /\ UNCHANGED <<message, tools, open, req, closing, gone, unhooked>>
    BY <1>0, <1>1, BeginFacts
  <2>a. att[e] = "claimed" /\ att'[e] = IF gone THEN "raised" ELSE "thinking"
    BY <2>1 DEF Moved
  <2>b. /\ \A k \in Jobs : k # e[1] => turn'[k] = turn[k]
        /\ gone => turn' = turn
        /\ ~gone => turn'[e[1]] = t
        /\ at'[e] = turn[e[1]].index /\ \A f \in Execs : f # e => at'[f] = at[f]
    BY <2>1 DEF Becomes, Remembers
  <2>2. Local(e)
    BY <2>1, <2>b DEF Local
  <2>3. AtWork(e)'
    BY <2>1, <2>a, <2>b DEF AtWork
  <2>4. OpenStamped(e[1])'
    BY <2>1, <2>b DEF OpenStamped
  <2>5. OrderedRows(e[1])'
    <3>1. CASE gone
      BY <1>k, <2>1, <2>b, <3>1 DEF OrderedRows
    <3>2. CASE ~gone
      <4>1. turn[e[1]].state # "absent"
        BY <1>0, <1>j, <1>l, <2>a, <3>2 DEF Paired
      <4> QED BY <1>k, <2>1, <2>b, <3>2, <4>1 DEF OrderedRows
    <3> QED BY <3>1, <3>2
  <2> QED BY <1>0, <2>1, <2>2, <2>3, <2>4, <2>5, LocalStep
<1>2. CASE CallTool(e)
  <2>1. /\ Moved(e, "thinking", "calling") /\ open' = open \cup {e}
        /\ UNCHANGED <<turn, message, tools, at, req, closing, gone, unhooked>>
    BY <1>0, <1>2, CallFacts
  <2>a. att[e] = "thinking" /\ att'[e] = "calling"
    BY <2>1 DEF Moved
  <2>2. Local(e)
    BY <2>1 DEF Local
  <2>3. AtWork(e)'
    BY <1>0, <2>1, <2>a DEF AtWork
  <2>4. OpenStamped(e[1])'
    BY <1>0, <2>1, <2>a DEF OpenStamped, AtWork
  <2>5. OrderedRows(e[1])'
    BY <1>k, <2>1 DEF OrderedRows
  <2> QED BY <1>0, <2>1, <2>2, <2>3, <2>4, <2>5, LocalStep
<1>3. CASE FinishCall(e)
  <2>1. /\ Moved(e, "calling", "placed") /\ Remembers(e, NextIndex) /\ open' = open \ {e}
        /\ UNCHANGED <<turn, message, tools, req, closing, gone, unhooked>>
    BY <1>3, FinishCallFacts
  <2>a. att[e] = "calling" /\ att'[e] = "placed" /\ \A f \in Execs : f # e => at'[f] = at[f]
    BY <2>1 DEF Moved, Remembers
  <2>2. Local(e)
    BY <2>1, <2>a DEF Local
  <2>3. AtWork(e)'
    BY <1>0, <2>1, <2>a DEF AtWork
  <2>4. OpenStamped(e[1])'
    BY <1>0, <2>1, <2>a DEF OpenStamped, AtWork
  <2>5. OrderedRows(e[1])'
    BY <1>k, <2>1 DEF OrderedRows
  <2> QED BY <1>0, <2>1, <2>2, <2>3, <2>4, <2>5, LocalStep
<1>4. CASE WriteToolRow(e)
  <2> DEFINE refused == gone \/ at[e] \in Taken
  <2> DEFINE row == [job |-> e[1], try |-> e[2], index |-> at[e]]
  <2>1. /\ Moved(e, "placed", IF refused THEN "raised" ELSE "thinking") /\ Remembers(e, turn[e[1]].index)
        /\ IF refused THEN UNCHANGED tools ELSE tools' = tools \cup {row}
        /\ UNCHANGED <<turn, message, open, req, closing, gone, unhooked>>
    BY <1>0, <1>4, WriteFacts
  <2>r. gone => refused
    OBVIOUS
  <2>n. ~refused => at[e] \notin Taken
    OBVIOUS
  <2> HIDE DEF refused
  <2>a. /\ att[e] = "placed" /\ att'[e] = IF refused THEN "raised" ELSE "thinking"
        /\ at'[e] = turn[e[1]].index /\ \A f \in Execs : f # e => at'[f] = at[f]
    BY <2>1 DEF Moved, Remembers
  <2>b. \A x \in tools' : x \in tools \/ (x = row /\ ~refused)
    BY <2>1
  <2>2. Local(e)
    BY <2>1, <2>a, <2>b, <2>r DEF Local
  <2>3. AtWork(e)'
    BY <1>0, <2>1, <2>a DEF AtWork
  <2>4. OpenStamped(e[1])'
    BY <1>0, <2>1, <2>a DEF OpenStamped, AtWork
  <2>5. OrderedRows(e[1])'
    <3>1. CASE refused
      BY <1>k, <2>1, <3>1 DEF OrderedRows
    <3>2. CASE ~refused
      <4>1. turn[e[1]].state = "running"
        BY <1>0, <2>a, <2>r, <3>2 DEF AtWork
      <4>2. turn[e[1]].index \in Taken
        BY <1>j, <4>1 DEF Taken, Written
      <4>3. row.index # turn[e[1]].index
        BY <2>n, <3>2, <4>2
      <4> QED BY <1>k, <2>1, <2>b, <4>1, <4>3 DEF OrderedRows
    <3> QED BY <3>1, <3>2
  <2> QED BY <1>0, <2>1, <2>2, <2>3, <2>4, <2>5, LocalStep
<1>5. CASE ReadAnswerIndex(e)
  <2>1. /\ Moved(e, "thinking", "finishing")
        /\ \/ Remembers(e, NextIndex)
           \/ Remembers(e, at[e]) /\ \A i \in Taken : i <= at[e]
        /\ UNCHANGED <<turn, message, tools, open, req, closing, gone, unhooked>>
    BY <1>5, AnswerFacts
  <2>a. /\ att[e] = "thinking" /\ att'[e] = "finishing" /\ \A f \in Execs : f # e => at'[f] = at[f]
        /\ \/ at'[e] = NextIndex
           \/ at'[e] = at[e] /\ \A i \in Taken : i <= at[e]
    BY <2>1 DEF Moved, Remembers
  <2>2. Local(e)
    BY <2>1, <2>a DEF Local
  <2>3. AtWork(e)'
    <3>1. ASSUME ~gone PROVE message[e[1]] < at'[e] /\ \A x \in tools : x.job = e[1] => x.index < at'[e]
      <4>1. turn[e[1]].state = "running" /\ at[e] = turn[e[1]].index
        BY <1>0, <2>a, <3>1 DEF AtWork
      <4>2. message[e[1]] \in Taken /\ \A x \in tools : x.index \in Taken
        BY <1>j, <4>1 DEF Taken, Written
      <4>3. message[e[1]] < at[e] /\ \A x \in tools : x.job = e[1] => x.index # at[e]
        BY <1>k, <4>1 DEF OrderedRows
      <4>4. CASE at'[e] = NextIndex
        BY <4>2, <4>4, NextIndexIsNew DEF TypeInv
      <4>5. CASE at'[e] = at[e] /\ \A i \in Taken : i <= at[e]
        <5>1. \A x \in tools : x.index \in Nat
          BY <1>0, <4>2, TakenAreNumbers
        <5> QED BY <1>j, <4>2, <4>3, <4>5, <5>1
      <4> QED BY <2>a, <4>4, <4>5
    <3> QED BY <1>0, <2>1, <2>a, <3>1 DEF AtWork
  <2>4. OpenStamped(e[1])'
    BY <1>0, <2>1, <2>a DEF OpenStamped, AtWork
  <2>5. OrderedRows(e[1])'
    BY <1>k, <2>1 DEF OrderedRows
  <2> QED BY <1>0, <2>1, <2>2, <2>3, <2>4, <2>5, LocalStep
<1>6. ASSUME NEW s \in {"done", "failed"}, SaveAnswer(e, s) PROVE RowsInv'
  <2> DEFINE t == [state |-> s, index |-> at[e], stamped |-> turn[e[1]].stamped]
  <2>1. /\ Remembers(e, 0)
        /\ \/ Moved(e, "finishing", "raised") /\ UNCHANGED turn
           \/ Moved(e, "finishing", "ok") /\ ~gone /\ Becomes(e[1], t)
        /\ UNCHANGED <<message, tools, open, req, closing, gone, unhooked>>
    BY <1>0, <1>6, SaveFacts
  <2>a. /\ att[e] = "finishing" /\ \A f \in Execs : f # e => at'[f] = at[f]
        /\ \/ att'[e] = "raised" /\ turn' = turn
           \/ /\ att'[e] = "ok" /\ ~gone /\ turn'[e[1]] = t
              /\ \A k \in Jobs : k # e[1] => turn'[k] = turn[k]
    BY <2>1 DEF Moved, Remembers, Becomes
  <2>2. Local(e)
    BY <2>1, <2>a DEF Local
  <2>3. AtWork(e)'
    BY <2>1, <2>a DEF AtWork, InFlight
  <2>4. OpenStamped(e[1])'
    <3>1. turn'[e[1]].stamped = turn[e[1]].stamped
      BY <2>a
    <3>2. UNCHANGED <<gone, open>> /\ OpenOf(e[1])' = OpenOf(e[1])
      BY <2>1 DEF OpenOf
    <3> QED BY <1>k, <3>1, <3>2, Zenon DEF OpenStamped
  <2>5. OrderedRows(e[1])'
    <3>1. CASE turn' = turn
      BY <1>k, <2>1, <3>1 DEF OrderedRows
    <3>2. CASE ~gone /\ turn'[e[1]] = t
      <4>1. message[e[1]] < at[e] /\ \A x \in tools : x.job = e[1] => x.index < at[e]
        BY <1>0, <2>a, <3>2 DEF AtWork
      <4>2. \A x \in tools : x.index \in Nat
        BY <1>0 DEF TypeOK, Indexes
      <4> QED BY <1>j, <2>1, <3>2, <4>1, <4>2 DEF OrderedRows
    <3> QED BY <2>a, <3>1, <3>2
  <2>6. \E to : Moved(e, "finishing", to)
    BY <2>1
  <2> QED BY <1>0, <2>2, <2>3, <2>4, <2>5, <2>6, LocalStep
<1>7. CASE Raise(e)
  <2>1. PICK pc \in {"thinking", "calling"} : Moved(e, pc, "raised")
    BY <1>0, <1>7, RaiseFacts
  <2>2. UNCHANGED <<turn, message, tools, open, at, req, closing, gone, unhooked>>
    BY <1>0, <1>7, RaiseFacts DEF turnVars
  <2>3. Local(e)
    BY <2>2 DEF Local
  <2>4. AtWork(e)'
    BY <2>1 DEF Moved, AtWork
  <2>5. OpenStamped(e[1])' /\ OrderedRows(e[1])'
    BY <1>k, <2>2 DEF OpenStamped, OrderedRows, OpenOf
  <2> QED BY <1>0, <2>1, <2>3, <2>4, <2>5, LocalStep
<1>8. CASE FailTurn(e)
  <2> DEFINE t == [state |-> "failed", index |-> turn[e[1]].index, stamped |-> turn[e[1]].stamped]
  <2>1. /\ Moved(e, "raised", "closing") /\ Remembers(e, 0)
        /\ IF gone THEN UNCHANGED turn ELSE Becomes(e[1], t)
        /\ UNCHANGED <<message, tools, open, req, closing, gone, unhooked>>
    BY <1>0, <1>8, FailFacts
  <2>a. /\ att[e] = "raised" /\ att'[e] = "closing" /\ \A f \in Execs : f # e => at'[f] = at[f]
        /\ \A k \in Jobs : k # e[1] => turn'[k] = turn[k]
        /\ gone => turn' = turn
        /\ ~gone => turn'[e[1]] = t
    BY <2>1 DEF Moved, Remembers, Becomes
  <2>2. Local(e)
    BY <2>1, <2>a DEF Local
  <2>3. AtWork(e)'
    <3>1. turn'[e[1]].state \notin InFlight
      BY <1>0, <1>j, <2>a DEF Empty, InFlight
    <3> QED BY <2>a, <3>1 DEF AtWork
  <2>4. OpenStamped(e[1])'
    <3>1. turn'[e[1]].stamped = turn[e[1]].stamped
      BY <2>a
    <3>2. UNCHANGED <<gone, open>> /\ OpenOf(e[1])' = OpenOf(e[1])
      BY <2>1 DEF OpenOf
    <3> QED BY <1>k, <3>1, <3>2, Zenon DEF OpenStamped
  <2>5. OrderedRows(e[1])'
    <3>1. CASE gone
      BY <1>k, <2>1, <2>a, <3>1 DEF OrderedRows
    <3>2. CASE ~gone
      <4>1. turn[e[1]].state # "absent"
        BY <1>0, <1>j, <1>l, <2>a, <3>2 DEF Paired
      <4> QED BY <1>k, <2>1, <2>a, <3>2, <4>1 DEF OrderedRows
    <3> QED BY <3>1, <3>2
  <2> QED BY <1>0, <2>1, <2>2, <2>3, <2>4, <2>5, LocalStep
<1>9. CASE CloseCalls(e)
  <2>1. /\ Moved(e, "closing", "bad") /\ open' = open \ OpenOf(e[1])
        /\ UNCHANGED <<turn, message, tools, at, req, closing, gone, unhooked>>
    BY <1>0, <1>9, CloseFacts
  <2>a. att[e] = "closing" /\ att'[e] = "bad"
    BY <2>1 DEF Moved
  <2>b. OpenOf(e[1])' = {} /\ \A f \in Execs : f[1] # e[1] => (f \in open' <=> f \in open)
    BY <2>1 DEF OpenOf
  <2>2. Local(e)
    BY <2>1, <2>b DEF Local
  <2>3. AtWork(e)'
    BY <1>0, <2>1, <2>a, <2>b DEF AtWork
  <2>4. OpenStamped(e[1])'
    BY <2>b DEF OpenStamped
  <2>5. OrderedRows(e[1])'
    BY <1>k, <2>1 DEF OrderedRows
  <2> QED BY <1>0, <2>1, <2>2, <2>3, <2>4, <2>5, LocalStep
<1> QED BY <1>1, <1>2, <1>3, <1>4, <1>5, <1>6, <1>7, <1>8, <1>9

(* Requests.                                                               *)
LEMMA RequestRowsStep ==
    ASSUME TypeInv, TypeInv', RowsInv, NEW r \in Requests,
           CheckInFlight(r) \/ RequestStep(r) \/ StartRefused(r) \/ RequestDies(r)
    PROVE  RowsInv'
<1>0. /\ TypeOK /\ QueueTypeOK(Pcs) /\ ClaimsCounted /\ open \subseteq Execs
      /\ req \in [Requests -> RequestState]
      /\ ExecutingHolds /\ Empty /\ Paired /\ HooksOver /\ Kept /\ Closed /\ CancelledTogether
      /\ \A j \in Jobs : OpenStamped(j) /\ OrderedRows(j)
      /\ \A e \in Execs : AtWork(e)
  BY DEF TypeInv, TypeOK, RowsInv
<1>1. CASE CheckInFlight(r) \/ InsertRows(r) \/ StartRefused(r) \/ RequestDies(r)
  <2>1. PICK x \in RequestState : req' = [req EXCEPT ![r] = x] /\ (x.pc = "inserted" => ~gone)
    BY <1>0, <1>1, QuietRequest
  <2>2. UNCHANGED <<job, att, hooks, turn, message, tools, open, at, closing, gone, unhooked>>
    BY <1>0, <1>1, QuietRequest
  <2>3. Empty'
    BY <1>0, <2>1, <2>2 DEF Empty
  <2>5. ExecutingHolds' /\ Paired' /\ HooksOver' /\ Kept' /\ Closed' /\ CancelledTogether'
    BY <1>0, <2>2
    DEF ExecutingHolds, Executing, Holds, Paired, HooksOver, Kept, Closed, CancelledTogether, OpenOf
  <2>6. \A j \in Jobs : OpenStamped(j)' /\ OrderedRows(j)'
    BY <1>0, <2>2 DEF OpenStamped, OrderedRows, OpenOf
  <2>7. \A e \in Execs : AtWork(e)'
    BY <1>0, <2>2 DEF AtWork, OpenOf
  <2> QED BY <2>3, <2>5, <2>6, <2>7 DEF RowsInv
<1>2. CASE CommitTurn(r)
  <2>1. PICK j \in Jobs :
            /\ Enqueued(j) /\ job[j].state = "absent" /\ req[r].pc = "inserted" /\ req[r].index \in Nat
            /\ turn'[j] = [state |-> "queued", index |-> req[r].index + 1, stamped |-> FALSE]
            /\ message'[j] = req[r].index
            /\ \A k \in Jobs : k # j => turn'[k] = turn[k] /\ message'[k] = message[k]
            /\ UNCHANGED <<att, hooks, faults, tools, open, at, closing, gone, unhooked>>
    BY <1>0, <1>2, CommitFacts
  <2>2. UNCHANGED <<att, hooks, faults>>
    BY <2>1
  <2>3. ExecutingHolds' /\ job'[j].state = "queued" /\ \A i \in Jobs : i # j => job'[i] = job[i]
    BY <1>0, <2>1, <2>2, EnqueueStep
  <2>4. ~gone /\ ~gone' /\ OpenOf(j) = {} /\ \A x \in tools : x.job # j
    BY <1>0, <2>1 DEF Empty, Paired
  <2>5. \A e \in Execs : e[1] = j => att[e] \in {"none", "over"}
    BY <1>0, <2>1 DEF ExecutingHolds, Executing, Holds
  <2>6. \A k \in Jobs : OpenOf(k)' = OpenOf(k)
    BY <2>1 DEF OpenOf
  <2>7. Empty'
    BY <2>4 DEF Empty
  <2>8. Paired'
    BY <1>0, <2>1, <2>3, <2>6 DEF Paired
  <2>9. HooksOver'
    BY <1>0, <2>1, <2>3 DEF HooksOver, QueueTypeOK
  <2>10. Kept'
    BY <1>0, <2>1, <2>3 DEF Kept
  <2>11. Closed'
    BY <1>0, <2>1, <2>3, <2>6 DEF Closed
  <2>12. CancelledTogether'
    BY <1>0, <2>1, <2>3 DEF CancelledTogether
  <2>13. ASSUME NEW k \in Jobs PROVE OpenStamped(k)' /\ OrderedRows(k)'
    <3>1. CASE k = j
      <4>1. OpenStamped(k)'
        BY <2>4, <2>6, <3>1 DEF OpenStamped
      <4>2. OrderedRows(k)'
        BY <2>1, <2>4, <3>1 DEF OrderedRows
      <4> QED BY <4>1, <4>2
    <3>2. CASE k # j
      <4>1. turn'[k] = turn[k] /\ message'[k] = message[k] /\ UNCHANGED <<tools, gone>>
        BY <2>1, <3>2
      <4> QED BY <1>0, <2>6, <4>1 DEF OpenStamped, OrderedRows
    <3> QED BY <3>1, <3>2
  <2>14. ASSUME NEW e \in Execs PROVE AtWork(e)'
    <3>1. CASE e[1] = j
      BY <2>1, <2>5, <3>1 DEF AtWork
    <3>2. CASE e[1] # j
      <4>1. /\ e[1] \in Jobs /\ turn'[e[1]] = turn[e[1]] /\ message'[e[1]] = message[e[1]]
            /\ UNCHANGED <<att, at, tools, gone>>
        BY <2>1, <3>2, Pairs
      <4> QED BY <1>0, <2>6, <4>1 DEF AtWork
    <3> QED BY <3>1, <3>2
  <2> QED BY <2>3, <2>7, <2>8, <2>9, <2>10, <2>11, <2>12, <2>13, <2>14 DEF RowsInv
<1>3. CASE Stamp(r)
  <2>1. /\ SameTurns /\ \A k \in Jobs : turn[k].stamped => turn'[k].stamped
        /\ req' = [req EXCEPT ![r] = IdleRequest]
        /\ UNCHANGED <<job, att, hooks, faults, message, tools, open, at, closing, gone, unhooked>>
    BY <1>0, <1>3, StampFacts
  <2>2. \A k \in Jobs : OpenOf(k)' = OpenOf(k)
    BY <2>1 DEF OpenOf
  <2>3. Empty'
    BY <1>0, <2>1 DEF Empty, SameTurns, IdleRequest
  <2>4. ExecutingHolds' /\ HooksOver'
    BY <1>0, <2>1 DEF ExecutingHolds, Executing, Holds, HooksOver
  <2>5. Paired' /\ Kept' /\ Closed' /\ CancelledTogether'
    BY <1>0, <2>1, <2>2 DEF Paired, Kept, Closed, CancelledTogether, SameTurns
  <2>6. ASSUME NEW k \in Jobs PROVE OpenStamped(k)' /\ OrderedRows(k)'
    <3>1. OpenStamped(k)'
      BY <1>0, <2>1, <2>2 DEF OpenStamped
    <3>2. OrderedRows(k)'
      BY <1>0, <2>1 DEF OrderedRows, SameTurns
    <3> QED BY <3>1, <3>2
  <2>7. ASSUME NEW e \in Execs PROVE AtWork(e)'
    <3>1. e[1] \in Jobs /\ AtWork(e)
      BY <1>0, Pairs
    <3>2. /\ turn'[e[1]].state = turn[e[1]].state /\ turn'[e[1]].index = turn[e[1]].index
          /\ turn[e[1]].stamped => turn'[e[1]].stamped
          /\ OpenOf(e[1])' = OpenOf(e[1]) /\ UNCHANGED <<att, at, tools, gone, message>>
      BY <2>1, <2>2, <3>1 DEF SameTurns
    <3> QED BY <3>1, <3>2 DEF AtWork
  <2> QED BY <2>3, <2>4, <2>5, <2>6, <2>7 DEF RowsInv
<1> QED BY <1>1, <1>2, <1>3 DEF RequestStep

(* Hooks.                                                                  *)
LEMMA HookRowsStep ==
    ASSUME TypeInv, TypeInv', RowsInv, NEW j \in Jobs, OnTurnTerminal(j) \/ HookCloses(j) \/ HookDies(j)
    PROVE  RowsInv'
<1>0. /\ TypeOK /\ open \subseteq Execs
      /\ ExecutingHolds /\ Empty /\ Paired /\ HooksOver /\ Kept /\ Closed /\ CancelledTogether
      /\ \A k \in Jobs : OpenStamped(k) /\ OrderedRows(k)
      /\ \A e \in Execs : AtWork(e)
  BY DEF TypeInv, TypeOK, RowsInv
<1>1. CASE OnTurnTerminal(j)
  <2> DEFINE t == [state |-> IF job[j].state = "cancelled" THEN "cancelled" ELSE "failed",
                   index |-> turn[j].index, stamped |-> turn[j].stamped]
  <2>1. /\ j \in hooks /\ hooks' = hooks \ {j} /\ closing' = closing \cup {j}
        /\ IF turn[j].state \notin InFlight THEN UNCHANGED turn ELSE Becomes(j, t)
        /\ UNCHANGED <<job, att, faults, message, tools, open, at, req, gone, unhooked>>
    BY <1>0, <1>1, HookFacts
  <2>2. /\ job[j].state \in {"failed", "cancelled"}
        /\ \A e \in Execs : e[1] = j => att[e] \in {"none", "over"}
    BY <1>0, <2>1 DEF HooksOver, ExecutingHolds, Executing, Holds
  <2>3. /\ \A k \in Jobs : k # j => turn'[k] = turn[k]
        /\ turn'[j].state \notin InFlight /\ turn'[j].index = turn[j].index
        /\ turn'[j].stamped = turn[j].stamped
        /\ turn'[j].state = turn[j].state \/ (turn'[j].state = t.state /\ turn[j].state \in InFlight)
    <3>1. CASE turn[j].state \notin InFlight
      BY <2>1, <3>1
    <3>2. CASE turn[j].state \in InFlight
      <4>1. turn'[j] = t /\ \A k \in Jobs : k # j => turn'[k] = turn[k]
        BY <2>1, <3>2 DEF Becomes
      <4>2. t.state \notin InFlight
        BY DEF InFlight
      <4> QED BY <3>2, <4>1, <4>2
    <3> QED BY <3>1, <3>2
  <2>4. \A k \in Jobs : OpenOf(k)' = OpenOf(k)
    BY <2>1 DEF OpenOf
  <2>5. ExecutingHolds' /\ HooksOver'
    BY <1>0, <2>1 DEF ExecutingHolds, Executing, Holds, HooksOver
  <2>6. Empty'
    BY <1>0, <2>1, <2>3 DEF Empty, InFlight
  <2>7. Paired'
    BY <1>0, <2>1, <2>2, <2>3, <2>4 DEF Paired, InFlight
  <2>8. Kept' /\ Closed'
    BY <1>0, <2>1, <2>3, <2>4 DEF Kept, Closed
  <2>9. CancelledTogether'
    BY <1>0, <2>1, <2>3 DEF CancelledTogether
  <2>10. ASSUME NEW k \in Jobs PROVE OpenStamped(k)' /\ OrderedRows(k)'
    <3>1. turn'[k].stamped = turn[k].stamped /\ UNCHANGED <<gone, message, tools>>
      BY <2>1, <2>3
    <3>2. turn'[k].index = turn[k].index /\ (turn'[k].state = turn[k].state \/ (k = j /\ turn[j].state \in InFlight))
      BY <2>3
    <3>3. OpenStamped(k)'
      BY <1>0, <2>4, <3>1, Zenon DEF OpenStamped
    <3>4. OrderedRows(k)'
      BY <1>0, <2>3, <3>1, <3>2 DEF OrderedRows, InFlight
    <3> QED BY <3>3, <3>4
  <2>11. ASSUME NEW e \in Execs PROVE AtWork(e)'
    <3>1. CASE e[1] = j
      BY <2>1, <2>2, <3>1 DEF AtWork
    <3>2. CASE e[1] # j
      <4>1. /\ e[1] \in Jobs /\ turn'[e[1]] = turn[e[1]] /\ OpenOf(e[1])' = OpenOf(e[1])
            /\ UNCHANGED <<att, at, tools, gone, message>>
        BY <2>1, <2>3, <2>4, <3>2, Pairs
      <4> QED BY <1>0, <4>1 DEF AtWork
    <3> QED BY <3>1, <3>2
  <2> QED BY <2>5, <2>6, <2>7, <2>8, <2>9, <2>10, <2>11 DEF RowsInv
<1>2. CASE HookCloses(j)
  <2>1. /\ closing' = closing \ {j} /\ open' = IF turn[j].stamped THEN open \ OpenOf(j) ELSE open
        /\ UNCHANGED <<job, att, hooks, faults, turn, message, tools, at, req, gone, unhooked>>
    BY <1>2 DEF HookCloses, queueVars
  <2>2. \A k \in Jobs : OpenOf(k)' \subseteq OpenOf(k) /\ (k # j => OpenOf(k)' = OpenOf(k))
    BY <2>1 DEF OpenOf
  <2>3. ~gone => OpenOf(j)' = {}
    <3>1. CASE turn[j].stamped
      BY <2>1, <3>1 DEF OpenOf
    <3>2. CASE ~turn[j].stamped
      BY <1>0, <2>2, <3>2 DEF OpenStamped
    <3> QED BY <3>1, <3>2
  <2>4. ExecutingHolds' /\ HooksOver' /\ Empty' /\ Kept' /\ CancelledTogether'
    BY <1>0, <2>1 DEF ExecutingHolds, Executing, Holds, HooksOver, Empty, Kept, CancelledTogether
  <2>5. Paired'
    BY <1>0, <2>1, <2>2 DEF Paired
  <2>6. Closed'
    BY <1>0, <2>1, <2>2, <2>3 DEF Closed
  <2>7. ASSUME NEW k \in Jobs PROVE OpenStamped(k)' /\ OrderedRows(k)'
    <3>1. OpenStamped(k)'
      BY <1>0, <2>1, <2>2 DEF OpenStamped
    <3>2. OrderedRows(k)'
      BY <1>0, <2>1 DEF OrderedRows
    <3> QED BY <3>1, <3>2
  <2>8. ASSUME NEW e \in Execs PROVE AtWork(e)'
    <3>1. e[1] \in Jobs /\ AtWork(e) /\ OpenOf(e[1])' \subseteq OpenOf(e[1])
      BY <1>0, <2>2, Pairs
    <3> QED BY <2>1, <3>1 DEF AtWork
  <2> QED BY <2>4, <2>5, <2>6, <2>7, <2>8 DEF RowsInv
<1>3. CASE HookDies(j)
  <2>1. /\ hooks' = hooks \ {j} /\ closing' = closing \ {j} /\ unhooked' = unhooked \cup {j}
        /\ UNCHANGED <<job, att, turn, message, tools, open, at, req, gone>>
    BY <1>3 DEF HookDies
  <2>2. \A k \in Jobs : OpenOf(k)' = OpenOf(k)
    BY <2>1 DEF OpenOf
  <2>3. ExecutingHolds' /\ HooksOver' /\ Empty' /\ CancelledTogether'
    BY <1>0, <2>1 DEF ExecutingHolds, Executing, Holds, HooksOver, Empty, CancelledTogether
  <2>4. Paired' /\ Kept' /\ Closed'
    BY <1>0, <2>1, <2>2 DEF Paired, Kept, Closed
  <2>5. \A k \in Jobs : OpenStamped(k)' /\ OrderedRows(k)'
    BY <1>0, <2>1, <2>2 DEF OpenStamped, OrderedRows
  <2>6. \A e \in Execs : AtWork(e)'
    BY <1>0, <2>1 DEF AtWork, OpenOf
  <2> QED BY <2>3, <2>4, <2>5, <2>6 DEF RowsInv
<1> QED BY <1>1, <1>2, <1>3

(* The conversation is deleted.                                            *)
LEMMA DeleteRowsStep ==
    ASSUME TypeInv, RowsInv, DeleteConversation PROVE RowsInv'
<1>0. ExecutingHolds /\ Paired /\ HooksOver /\ \A e \in Execs : AtWork(e)
  BY DEF RowsInv
<1>1. /\ gone' = TRUE /\ tools' = {} /\ \A r \in Requests : req'[r].pc # "inserted"
      /\ turn' = [j \in Jobs |-> NoTurn] /\ message' = [j \in Jobs |-> 0]
      /\ UNCHANGED <<job, att, hooks, open, at, closing, unhooked>>
  BY DeleteFacts
<1>2. \A j \in Jobs : turn'[j].state = "absent" /\ OpenOf(j)' = OpenOf(j)
  BY <1>1 DEF NoTurn, OpenOf
<1>3. ExecutingHolds' /\ HooksOver' /\ Empty'
  BY <1>0, <1>1, <1>2 DEF ExecutingHolds, Executing, Holds, HooksOver, Empty
<1>4. Paired' /\ Kept' /\ Closed' /\ CancelledTogether'
  BY <1>0, <1>1, <1>2 DEF Paired, Kept, Closed, CancelledTogether, InFlight
<1>5. \A j \in Jobs : OpenStamped(j)' /\ OrderedRows(j)'
  BY <1>1, <1>2 DEF OpenStamped, OrderedRows
<1>6. ASSUME NEW e \in Execs PROVE AtWork(e)'
  <2>1. e[1] \in Jobs
    BY Pairs
  <2> QED BY <1>0, <1>1, <1>2, <2>1 DEF AtWork, InFlight
<1> QED BY <1>3, <1>4, <1>5, <1>6 DEF RowsInv

(* The queue moves and the rows do not.                                    *)
LEMMA QueueRowsStep ==
    ASSUME TypeInv, TypeInv', RowsInv, ~Late, QueueStep, UNCHANGED turnVars
    PROVE  RowsInv'
<1>0. /\ QueueTypeOK(Pcs) /\ ClaimsCounted
      /\ ExecutingHolds /\ Empty /\ Paired /\ HooksOver /\ Kept /\ Closed /\ CancelledTogether
      /\ \A j \in Jobs : OpenStamped(j) /\ OrderedRows(j)
      /\ \A e \in Execs : AtWork(e)
      /\ hooks \subseteq Jobs
      /\ \A j \in Jobs : job'[j].state \in {"absent", "queued", "running"} \cup Ended
  BY DEF TypeInv, TypeOK, RowsInv, QueueTypeOK, JobRow
<1>1. UNCHANGED <<turn, message, tools, open, at, req, closing, gone, unhooked>>
  BY DEF turnVars
<1>2. ExecutingHolds' /\ OnlyTold
  BY <1>0, QueueHoldsStep, EndsAreTold
<1>3. \A j \in Jobs : OpenOf(j)' = OpenOf(j)
  BY <1>1 DEF OpenOf
<1>4. Empty' /\ Paired' /\ CancelledTogether'
  BY <1>0, <1>1, <1>2, <1>3 DEF Empty, Paired, CancelledTogether, OnlyTold, Ended
<1>5. HooksOver'
  BY <1>0, <1>2 DEF HooksOver, OnlyTold, Ended
<1>6. ASSUME NEW j \in Jobs, NEW e \in Execs, e[1] = j
      PROVE  /\ att[e] = "ok" => turn[j].state \notin InFlight
             /\ att[e] = "bad" => turn[j].state \notin InFlight /\ OpenOf(j) = {}
  BY <1>0, <1>6 DEF AtWork
<1>7. ASSUME NEW j \in Jobs \ unhooked', turn'[j].state \in InFlight
      PROVE  job'[j].state \in {"queued", "running"} \/ j \in hooks'
  <2>1. job[j].state \in {"queued", "running"} \/ j \in hooks
    BY <1>0, <1>1, <1>7 DEF Kept
  <2>2. CASE j \in hooks
    BY <1>2, <2>2 DEF OnlyTold
  <2>3. CASE job[j].state \in {"queued", "running"}
    <3>1. CASE job'[j].state \in Ended
      BY <1>1, <1>2, <1>6, <1>7, <2>3, <3>1 DEF OnlyTold, Ended
    <3>2. CASE job'[j].state \notin Ended
      BY <1>0, <1>2, <2>3, <3>2 DEF OnlyTold
    <3> QED BY <3>1, <3>2
  <2> QED BY <2>1, <2>2, <2>3
<1>8. ASSUME ~gone', NEW j \in Jobs \ unhooked', job'[j].state \in {"failed", "cancelled"}
      PROVE  OpenOf(j)' = {} \/ j \in hooks' \/ j \in closing'
  <2>1. CASE job[j].state \in Ended
    BY <1>0, <1>1, <1>2, <1>3, <1>8, <2>1 DEF Closed, OnlyTold
  <2>2. CASE job[j].state \notin Ended
    <3>1. j \in hooks' \/ \E e \in Execs : e[1] = j /\ att[e] = "bad"
      BY <1>2, <1>8, <2>2 DEF OnlyTold, Ended
    <3> QED BY <1>3, <1>6, <3>1
  <2> QED BY <2>1, <2>2
<1>9. \A j \in Jobs : OpenStamped(j)' /\ OrderedRows(j)'
  BY <1>0, <1>1, <1>3 DEF OpenStamped, OrderedRows
<1>10. ASSUME NEW e \in Execs PROVE AtWork(e)'
  <2>1. e[1] \in Jobs /\ AtWork(e) /\ (att'[e] = att[e] \/ att'[e] \in {"claimed", "over"})
    BY <1>0, <1>2, Pairs DEF OnlyTold
  <2> QED BY <1>1, <1>3, <2>1 DEF AtWork
<1> QED BY <1>2, <1>4, <1>5, <1>7, <1>8, <1>9, <1>10 DEF RowsInv, Kept, Closed

(* While no attempt outlives its claim, every step keeps what is invariant about the rows. *)
LEMMA RowsStep ==
    ASSUME TypeInv, TypeInv', RowsInv, ~Late, [Next]_vars PROVE RowsInv'
<1>1. CASE DeleteConversation
  BY <1>1, DeleteRowsStep
<1>2. CASE (QueueStep \/ \E e \in Execs : Report(e)) /\ UNCHANGED turnVars
  <2>1. QueueStep
    BY <1>2 DEF QueueStep
  <2> QED BY <1>2, <2>1, QueueRowsStep
<1>3. CASE UNCHANGED vars
  <2>1. UNCHANGED <<job, att, hooks, faults, turn, message, tools, open, at, req, closing, gone, unhooked>>
    BY <1>3 DEF vars, queueVars, turnVars
  <2> QED BY <2>1
      DEF RowsInv, ExecutingHolds, Executing, Holds, Empty, Paired, HooksOver, Kept, Closed, CancelledTogether,
          OpenStamped, OrderedRows, AtWork, OpenOf
<1>4. CASE \E r \in Requests : CheckInFlight(r) \/ RequestStep(r) \/ StartRefused(r) \/ RequestDies(r)
  BY <1>4, RequestRowsStep
<1>5. CASE \E e \in Execs : \/ BeginTurn(e) \/ CallTool(e) \/ FinishCall(e) \/ WriteToolRow(e)
                            \/ ReadAnswerIndex(e) \/ SaveAnswer(e, "done") \/ SaveAnswer(e, "failed")
                            \/ Raise(e) \/ FailTurn(e) \/ CloseCalls(e)
  BY <1>5, AttemptRowsStep
<1>6. CASE \E j \in Jobs : OnTurnTerminal(j) \/ HookCloses(j) \/ HookDies(j)
  BY <1>6, HookRowsStep
<1> QED BY <1>1, <1>2, <1>3, <1>4, <1>5, <1>6 DEF Next, AttemptStep

---------------------------------------------------------------------------
(* The theorems.                                                           *)

(* The invariant holds when no attempt outlives its claim.                 *)
LEMMA RowsAlways == ASSUME ~Late PROVE Spec => [](TypeInv /\ RowsInv)
<1>1. Init => TypeInv /\ RowsInv
  BY TypeInit, RowsInit
<1>2. TypeInv /\ RowsInv /\ [Next]_vars => (TypeInv /\ RowsInv)'
  BY TypeStep, RowsStep
<1> QED BY <1>1, <1>2, PTL DEF Spec

(* A turn is in flight only while something will end it: its job waits or  *)
(* runs, or its hook is scheduled; the process that owed the hook may have *)
(* been killed.                                                            *)
THEOREM InFlightIsActive == ASSUME ~Late PROVE Spec => []SomebodyAnswers
<1>1. RowsInv => SomebodyAnswers
  BY DEF RowsInv, Kept, SomebodyAnswers, Active
<1> QED BY <1>1, RowsAlways, PTL

(* An answer stands behind its message and behind every TOOL row of its    *)
(* job, whoever wrote rows between the reading of its index and its write. *)
THEOREM AnswersStandLast == ASSUME ~Late PROVE Spec => []AnswersComeLast
<1>1. TypeInv /\ RowsInv => AnswersComeLast
  BY DEF RowsInv, OrderedRows, AnswersComeLast
<1> QED BY <1>1, RowsAlways, PTL

(* A job that failed or was cancelled leaves no open audit row once its    *)
(* hook has run, whichever of its attempts opened it.                      *)
THEOREM FailedJobsAreClosed == ASSUME ~Late PROVE Spec => []FailureClosesCalls
<1>1. RowsInv => FailureClosesCalls
  BY DEF RowsInv, Closed, FailureClosesCalls, Active
<1> QED BY <1>1, RowsAlways, PTL

(* No step of a request, an attempt or a hook revives a cancelled turn.    *)
THEOREM CancelledIsFinal == ASSUME ~Late PROVE Spec => CancelledStaysCancelled
<1> DEFINE Stays == \A j \in Jobs : turn[j].state = "cancelled" => turn'[j].state \in {"cancelled", "absent"}
<1>1. ASSUME TypeInv, RowsInv, [Next]_vars PROVE Stays
  <2>0. /\ TypeOK /\ CancelledTogether
        /\ \A e \in Execs : att[e] \notin {"none", "over"} => job[e[1]].state = "running"
    BY <1>1, ItsOwnJob DEF TypeInv, RowsInv
  <2>1. CASE DeleteConversation
    BY <2>1, DeleteFacts DEF NoTurn
  <2>2. CASE UNCHANGED turn
    BY <2>2
  <2>3. ASSUME NEW r \in Requests, RequestStep(r) PROVE Stays
    <3>1. CASE InsertRows(r)
      BY <3>1 DEF InsertRows
    <3>2. CASE CommitTurn(r)
      <4>1. PICK j \in Jobs : job[j].state = "absent" /\ \A k \in Jobs : k # j => turn'[k] = turn[k]
        BY <2>0, <3>2, CommitFacts
      <4> QED BY <2>0, <4>1 DEF CancelledTogether
    <3>3. CASE Stamp(r)
      <4>1. SameTurns
        BY <2>0, <3>3, StampFacts
      <4> QED BY <4>1 DEF SameTurns
    <3> QED BY <2>3, <3>1, <3>2, <3>3 DEF RequestStep
  <2>4. ASSUME NEW e \in Execs, att[e] \notin {"none", "over"}, \A k \in Jobs : k # e[1] => turn'[k] = turn[k]
        PROVE  Stays
    BY <2>0, <2>4 DEF CancelledTogether
  <2>5. ASSUME NEW e \in Execs, BeginTurn(e) \/ FailTurn(e) PROVE Stays
    <3>1. att[e] \notin {"none", "over"} /\ \A k \in Jobs : k # e[1] => turn'[k] = turn[k]
      BY <2>0, <2>5, BeginFacts, FailFacts DEF Moved, Becomes
    <3> QED BY <2>4, <3>1
  <2>6. ASSUME NEW e \in Execs, NEW s \in {"done", "failed"}, SaveAnswer(e, s) PROVE Stays
    <3>1. att[e] \notin {"none", "over"} /\ \A k \in Jobs : k # e[1] => turn'[k] = turn[k]
      BY <2>0, <2>6, SaveFacts DEF Moved, Becomes
    <3> QED BY <2>4, <3>1
  <2>7. ASSUME NEW j \in Jobs, OnTurnTerminal(j) PROVE Stays
    <3>1. IF turn[j].state \notin InFlight THEN UNCHANGED turn ELSE \A k \in Jobs : k # j => turn'[k] = turn[k]
      BY <2>0, <2>7, HookFacts DEF Becomes
    <3> QED BY <3>1 DEF InFlight
  <2>8. CASE \E e \in Execs : CallTool(e) \/ FinishCall(e) \/ WriteToolRow(e) \/ ReadAnswerIndex(e)
                              \/ Raise(e) \/ CloseCalls(e)
    <3>1. UNCHANGED turn
      BY <2>8 DEF CallTool, FinishCall, WriteToolRow, ReadAnswerIndex, Raise, CloseCalls, turnVars
    <3> QED BY <2>2, <3>1
  <2>9. CASE \/ \E r \in Requests : CheckInFlight(r) \/ StartRefused(r) \/ RequestDies(r)
             \/ \E j \in Jobs : HookCloses(j) \/ HookDies(j)
    <3>1. UNCHANGED turn
      BY <2>9 DEF CheckInFlight, StartRefused, RequestDies, HookCloses, HookDies
    <3> QED BY <2>2, <3>1
  <2>10. CASE UNCHANGED turnVars \/ UNCHANGED vars
    <3>1. UNCHANGED turn
      BY <2>10 DEF turnVars, vars
    <3> QED BY <2>2, <3>1
  <2> HIDE DEF Stays
  <2> QED BY <1>1, <2>1, <2>3, <2>5, <2>6, <2>7, <2>8, <2>9, <2>10 DEF Next, AttemptStep
<1>2. TypeInv /\ RowsInv /\ [Next]_vars => [Stays]_vars
  BY <1>1
<1> QED BY <1>2, RowsAlways, PTL DEF Spec, CancelledStaysCancelled

(***************************************************************************)
(* The prompt of a turn, and the loops that append to it.                  *)
(***************************************************************************)

---------------------------------------------------------------------------
(* Texts: sequences of pieces, and where a document's words stand fenced.  *)

FencedText(text) == \A i \in DOMAIN text : text[i].who = "document" => text[i].fenced
SafeResult(key, last, text) == _is_third_party_tool_result(key, last) \/ FencedText(text)

RowSound(r) ==
    /\ r.role = "user" => \A i \in DOMAIN r.text : r.text[i].who # "document"
    /\ r.role = "tool" => FencedText(_tool_content(r))
    /\ r.role = "assistant" => FencedText(_replay_assistant_text(r))

FrameSound(f) ==
    /\ \A h \in f.replayed : FencedText(h.message.text)
    /\ \A i \in DOMAIN f.msgs : FencedText(f.msgs[i].text)
    /\ SafeResult(f.key, f.last, f.text) /\ (f.key = None => f.text = <<>>)
    /\ \A k \in DOMAIN f.failures : f.failures[k].text = Says("ours")
    /\ f.pc = "stuck" => Len(f.failures) \in 1..2
    /\ f.pc = "top" => Len(f.failures) = 0 \/ (Len(f.failures) = 1 /\ recoveries = 0)

HasAnswer(t) == \E i \in DOMAIN rows : rows[i].turn = t /\ rows[i].role = "assistant"

QuotesFit(r) == \A k \in DOMAIN r.quotes : r.quotes[k].offset + r.quotes[k].length <= Len(r.text)

SoundRow == {r \in PromptRow : r.id \in 1..made /\ r.depth <= MaxDepth /\ QuotesFit(r) /\ RowSound(r)}

SoundFrame == {f \in LoopFrame : FrameSound(f) /\ HasAnswer(f.turn)}

PromptInv ==
    /\ rows \in Seq(SoundRow) /\ made \in Nat
    /\ turnJob \in [Turns -> {"none", "queued", "running", "finished", "done", "failed"}]
    /\ again \subseteq Turns /\ described \subseteq Turns /\ shared \in BOOLEAN
    /\ recoveries \in 0..1 /\ steps \in 0..MaxSteps /\ events \in 0..MaxEvents
    /\ stack \in Seq(SoundFrame) /\ Len(stack) <= MaxDepth + 1
    /\ \A n \in 1..Len(stack) : n < Len(stack) => stack[n].pc = "top"
    /\ \A s \in Turns : turnJob[s] # "none" => HasAnswer(s)

(* A speaker's words alone. *)
LEMMA WordsOf ==
    ASSUME NEW who \in Users \cup {"ours", "model", "document"}
    PROVE  /\ Says(who) \in Seq(Piece) /\ Len(Says(who)) = 1
           /\ DOMAIN Says(who) = {1} /\ Says(who)[1].who = who
           /\ who # "document" => FencedText(Says(who))
<1>1. [who |-> who, fenced |-> FALSE] \in Piece
  BY DEF Piece
<1>2. Says(who) = <<[who |-> who, fenced |-> FALSE]>>
  BY DEF Says
<1>3. Says(who) \in Seq(Piece) /\ Len(Says(who)) = 1 /\ Says(who)[1].who = who
  BY <1>1, <1>2
<1>4. DOMAIN Says(who) = {1}
  BY <1>3, LenProperties
<1> QED BY <1>3, <1>4 DEF FencedText

(* Nothing is a text without a document's words. *)
LEMMA EmptyText == <<>> \in Seq(Piece) /\ FencedText(<<>>) /\ Len(<<>>) = 0
BY EmptySeq DEF FencedText

(* A fenced text is as long, and no piece of it is bare. *)
LEMMA FencedWords ==
    ASSUME NEW text \in Seq(Piece)
    PROVE  /\ Fence(text) \in Seq(Piece) /\ Len(Fence(text)) = Len(text) /\ FencedText(Fence(text))
<1>1. Len(text) \in Nat /\ DOMAIN text = 1..Len(text) /\ \A i \in 1..Len(text) : text[i] \in Piece
  BY LenProperties
<1>2. Fence(text) \in [1..Len(text) -> Piece]
  BY <1>1 DEF Fence, Piece
<1>3. Fence(text) \in Seq(Piece)
  BY <1>1, <1>2, SeqDef
<1>4. DOMAIN Fence(text) = 1..Len(text) /\ DOMAIN Fence(text) = 1..Len(Fence(text)) /\ Len(Fence(text)) \in Nat
  BY <1>2, <1>3, LenProperties
<1>5. Len(Fence(text)) = Len(text)
  BY <1>1, <1>4
<1>6. FencedText(Fence(text))
  BY <1>1 DEF Fence, FencedText, Piece
<1> QED BY <1>3, <1>5, <1>6

(* What is fenced in both parts is fenced in the whole. *)
LEMMA JoinedWords ==
    ASSUME NEW a \in Seq(Piece), NEW b \in Seq(Piece)
    PROVE  /\ a \o b \in Seq(Piece) /\ Len(a \o b) = Len(a) + Len(b)
           /\ Len(a) \in Nat /\ Len(b) \in Nat /\ DOMAIN (a \o b) = 1..(Len(a) + Len(b))
           /\ \A i \in 1..(Len(a) + Len(b)) : (a \o b)[i] = IF i <= Len(a) THEN a[i] ELSE b[i - Len(a)]
           /\ FencedText(a) /\ FencedText(b) => FencedText(a \o b)
<1>1. /\ a \o b \in Seq(Piece) /\ Len(a \o b) = Len(a) + Len(b)
      /\ \A i \in 1..(Len(a) + Len(b)) : (a \o b)[i] = IF i <= Len(a) THEN a[i] ELSE b[i - Len(a)]
  BY ConcatProperties
<1>2. /\ Len(a) \in Nat /\ Len(b) \in Nat /\ DOMAIN (a \o b) = 1..(Len(a) + Len(b))
      /\ DOMAIN a = 1..Len(a) /\ DOMAIN b = 1..Len(b)
  BY <1>1, LenProperties
<1>3. ASSUME FencedText(a), FencedText(b)
      PROVE  FencedText(a \o b)
  BY <1>1, <1>2, <1>3 DEF FencedText
<1> QED BY <1>1, <1>2, <1>3

(* The same of a text that has a name. *)
LEMMA WordsJoin ==
    ASSUME NEW a \in Seq(Piece), NEW b \in Seq(Piece), FencedText(a), FencedText(b), NEW c, c = a \o b
    PROVE  c \in Seq(Piece) /\ FencedText(c) /\ Len(c) = Len(a) + Len(b)
<1>1. a \o b \in Seq(Piece) /\ Len(a \o b) = Len(a) + Len(b) /\ FencedText(a \o b)
  BY JoinedWords
<1> QED BY <1>1

(* A note behind a text, and the text without it. *)
LEMMA NoteTakenOff ==
    ASSUME NEW a \in Seq(Piece)
    PROVE  LET whole == a \o Says("ours")
           IN  whole \in Seq(Piece) /\ SubSeq(whole, 1, Len(whole) - 1) = a
<1> DEFINE b == Says("ours")
<1>1. b \in Seq(Piece) /\ Len(b) = 1
  BY WordsOf
<1> HIDE DEF b
<1> DEFINE whole == a \o b
<1>2. /\ whole \in Seq(Piece) /\ Len(whole) = Len(a) + 1 /\ Len(a) \in Nat
      /\ \A i \in 1..Len(a) : whole[i] = a[i] /\ whole[i] \in Piece
  <2>1. /\ whole \in Seq(Piece) /\ Len(whole) = Len(a) + Len(b) /\ Len(a) \in Nat
        /\ \A i \in 1..(Len(a) + Len(b)) : whole[i] = IF i <= Len(a) THEN a[i] ELSE b[i - Len(a)]
    BY <1>1, JoinedWords
  <2>2. \A i \in 1..Len(a) : a[i] \in Piece
    BY ElementOfSeq
  <2> HIDE DEF whole
  <2> QED BY <1>1, <2>1, <2>2
<1> HIDE DEF whole
<1> DEFINE part == SubSeq(whole, 1, Len(a))
<1>3. part \in Seq(Piece) /\ Len(part) = Len(a) /\ \A i \in 1..Len(a) : part[i] = whole[i]
  BY <1>2, SubSeqProperties
<1>4. part = a
  BY <1>2, <1>3, SeqEqual
<1> QED BY <1>2, <1>4 DEF whole, b

---------------------------------------------------------------------------
(* Rows, and what a replay shows of them.                                  *)

(* The content of a tool row, whole or with its note. *)
LEMMA ContentTyped ==
    ASSUME NEW r \in PromptRow
    PROVE  _tool_content(r) \in Seq(Piece)
<1> DEFINE raw == IF r.note THEN SubSeq(r.text, 1, Len(r.text) - 1) ELSE r.text
<1> DEFINE tail == IF r.note THEN Says("ours") ELSE <<>>
<1>1. r.text \in Seq(Piece)
  BY DEF PromptRow
<1>2. raw \in Seq(Piece)
  <2>1. Len(r.text) \in Nat /\ \A i \in 1..Len(r.text) : r.text[i] \in Piece
    BY <1>1, LenProperties, ElementOfSeq
  <2>2. SubSeq(r.text, 1, Len(r.text) - 1) \in Seq(Piece)
    <3>1. Len(r.text) - 1 \in Int /\ 1 \in Int /\ \A i \in 1..(Len(r.text) - 1) : r.text[i] \in Piece
      BY <2>1
    <3> QED BY <3>1, SubSeqProperties
  <2> QED BY <1>1, <2>2
<1>3. tail \in Seq(Piece)
  BY WordsOf, EmptyText
<1> HIDE DEF raw, tail
<1>4. fence_tool_result_if_third_party(r.key, r.last, raw) \in Seq(Piece)
  BY <1>2, FencedWords DEF fence_tool_result_if_third_party
<1>5. _tool_content(r) = fence_tool_result_if_third_party(r.key, r.last, raw) \o tail
  BY DEF _tool_content, raw, tail
<1> QED BY <1>3, <1>4, <1>5, JoinedWords

(* A row before anything is written into it. *)
LEMMA BlankTyped ==
    /\ BlankRow \in PromptRow /\ BlankRow.done = TRUE /\ BlankRow.by = Nobody /\ BlankRow.quotes = <<>>
    /\ BlankRow.text = <<>> /\ BlankRow.role = "user" /\ BlankRow.depth = 0 /\ BlankRow.turn = 0
<1>1. <<>> \in Seq(Piece) /\ <<>> \in Seq(Quote)
  BY EmptySeq
<1> QED BY <1>1 DEF BlankRow, PromptRow, Nobody, None

(* Without quotes all of them fit. *)
LEMMA NoQuotes ==
    ASSUME NEW r, r.quotes = <<>>
    PROVE  QuotesFit(r)
BY DEF QuotesFit

(* A tool row as it is written, its note behind the text, is safe to replay *)
(* when the text is safe to show.                                           *)
LEMMA ToolRowWritten ==
    ASSUME made \in Nat, NEW key \in Keys, NEW last \in Keys \cup {None}, NEW text \in Seq(Piece),
           NEW note \in BOOLEAN, NEW depth \in Nat, Top.turn \in Turns,
           NEW r, r = ToolRow(key, last, text, note, depth)
    PROVE  /\ r \in PromptRow /\ r.id = made + 1 /\ r.role = "tool" /\ r.depth = depth
           /\ r.quotes = <<>> /\ r.key = key /\ r.last = last /\ r.turn = Top.turn
           /\ SafeResult(key, last, text) => FencedText(_tool_content(r))
<1> DEFINE tail == IF note THEN Says("ours") ELSE <<>>
<1>1. tail \in Seq(Piece) /\ FencedText(tail)
  BY WordsOf, EmptyText
<1>2. text \o tail \in Seq(Piece)
  BY <1>1, JoinedWords
<1>3. /\ r \in PromptRow /\ r.id = made + 1 /\ r.role = "tool" /\ r.depth = depth
      /\ r.quotes = <<>> /\ r.key = key /\ r.last = last /\ r.turn = Top.turn
      /\ r.note = note /\ r.text = text \o tail
  <2> HIDE DEF tail
  <2> DEFINE id == made + 1
  <2> DEFINE asked == Top.turn
  <2> DEFINE whole == text \o tail
  <2>1. r = [BlankRow EXCEPT !.id = id, !.role = "tool", !.turn = asked, !.depth = depth, !.key = key,
                            !.last = last, !.text = whole, !.note = note]
    BY DEF ToolRow, tail
  <2>2. id \in Nat /\ asked \in Turns /\ whole \in Seq(Piece)
    BY <1>2
  <2> HIDE DEF id, asked, whole
  <2>3. /\ r \in PromptRow /\ r.id = id /\ r.role = "tool" /\ r.turn = asked /\ r.depth = depth
        /\ r.key = key /\ r.last = last /\ r.text = whole /\ r.note = note /\ r.quotes = <<>>
    BY <2>1, <2>2, BlankTyped DEF PromptRow
  <2> QED BY <2>3 DEF id, asked, whole
<1> HIDE DEF tail
<1>4. ASSUME SafeResult(key, last, text)
      PROVE  FencedText(_tool_content(r))
  <2> DEFINE raw == IF r.note THEN SubSeq(r.text, 1, Len(r.text) - 1) ELSE r.text
  <2>1. raw = text
    <3>1. CASE note
      BY <1>3, <3>1, NoteTakenOff DEF tail
    <3>2. CASE ~note
      <4>1. text \o <<>> = text
        BY ConcatEmptySeq
      <4> QED BY <1>3, <3>2, <4>1 DEF tail
    <3> QED BY <3>1, <3>2
  <2>2. _tool_content(r) = fence_tool_result_if_third_party(key, last, text) \o tail
    BY <1>3, <2>1 DEF _tool_content, tail
  <2>3. /\ fence_tool_result_if_third_party(key, last, text) \in Seq(Piece)
        /\ FencedText(fence_tool_result_if_third_party(key, last, text))
    BY <1>4, FencedWords DEF fence_tool_result_if_third_party, SafeResult
  <2> QED BY <1>1, <2>2, <2>3, JoinedWords
<1> QED BY <1>3, <1>4

(* An answer is replayed piece for piece, some of them fenced. *)
LEMMA AnswerReplayed ==
    ASSUME NEW r \in PromptRow
    PROVE  /\ _replay_assistant_text(r) \in Seq(Piece)
           /\ DOMAIN _replay_assistant_text(r) = DOMAIN r.text
           /\ FencedText(r.text) => FencedText(_replay_assistant_text(r))
<1> DEFINE n == Len(r.text)
<1>1. r.text \in Seq(Piece)
  BY DEF PromptRow
<1>2. n \in Nat /\ DOMAIN r.text = 1..n /\ \A i \in 1..n : r.text[i] \in Piece
  BY <1>1, LenProperties, ElementOfSeq
<1> HIDE DEF n
<1> DEFINE replay == _replay_assistant_text(r)
<1>3. replay \in [1..n -> Piece]
  BY <1>2 DEF _replay_assistant_text, Piece
<1>4. replay \in Seq(Piece)
  BY <1>2, <1>3, SeqDef
<1>5. \A i \in 1..n : replay[i].who = r.text[i].who /\ (r.text[i].fenced => replay[i].fenced)
  BY <1>2 DEF _replay_assistant_text, Piece
<1> HIDE DEF replay
<1>6. DOMAIN replay = 1..n
  BY <1>3
<1> QED BY <1>2, <1>4, <1>5, <1>6 DEF replay, FencedText

(* What a sound row shows in a replay. *)
LEMMA ReplayIsFenced ==
    ASSUME NEW r \in PromptRow, RowSound(r), NEW u
    PROVE  Replayed(r, u) \in Message /\ FencedText(Replayed(r, u).text)
<1>0. r.role \in {"user", "assistant", "tool"} /\ r.text \in Seq(Piece)
  BY DEF PromptRow
<1>1. CASE r.role = "tool"
  BY <1>1, ContentTyped DEF Replayed, tool_turn_messages, Message, RowSound
<1>2. CASE r.role = "assistant"
  BY <1>2, AnswerReplayed DEF Replayed, Message, RowSound
<1>3. CASE r.role = "user"
  <2> DEFINE said == IF _is_foreign_user_turn(r, u) THEN Fence(r.text) ELSE r.text
  <2>1. Replayed(r, u) = [role |-> "user", text |-> said]
    BY <1>3 DEF Replayed
  <2>2. said \in Seq(Piece) /\ FencedText(said)
    <3>1. CASE _is_foreign_user_turn(r, u)
      BY <1>0, <3>1, FencedWords
    <3>2. CASE ~_is_foreign_user_turn(r, u)
      BY <1>0, <1>3, <3>2 DEF RowSound, FencedText
    <3> QED BY <3>1, <3>2
  <2> HIDE DEF said
  <2> QED BY <2>1, <2>2 DEF Message
<1> QED BY <1>0, <1>1, <1>2, <1>3

---------------------------------------------------------------------------
(* Rows and frames from one state to the next.                             *)

(* The types follow. *)
LEMMA InvGivesTypes == PromptInv => PromptTypeOK
<1> SUFFICES ASSUME PromptInv
             PROVE  PromptTypeOK
  OBVIOUS
<1>1. SoundRow \subseteq PromptRow /\ SoundFrame \subseteq LoopFrame
  BY DEF SoundRow, SoundFrame
<1>2. rows \in Seq(PromptRow) /\ stack \in Seq(LoopFrame)
  BY <1>1, SeqMonotonic DEF PromptInv
<1>3. \A i \in DOMAIN rows : rows[i] \in SoundRow
  BY LenProperties, ElementOfSeq DEF PromptInv
<1>4. \A i \in DOMAIN rows :
        LET r == rows[i] IN
        /\ r.id \in 1..made /\ r.depth <= MaxDepth
        /\ \A k \in DOMAIN r.quotes : r.quotes[k].offset + r.quotes[k].length <= Len(r.text)
  BY <1>3 DEF SoundRow, QuotesFit
<1> QED BY <1>2, <1>4 DEF PromptInv, PromptTypeOK

(* Rows and what they are. *)
LEMMA RowFacts ==
    ASSUME PromptInv
    PROVE  /\ Len(rows) \in Nat /\ DOMAIN rows = 1..Len(rows)
           /\ \A i \in 1..Len(rows) : rows[i] \in SoundRow /\ rows[i] \in PromptRow /\ RowSound(rows[i])
BY LenProperties, ElementOfSeq DEF PromptInv, SoundRow

(* Frames and what they are. *)
LEMMA FrameFacts ==
    ASSUME PromptInv
    PROVE  /\ Len(stack) \in Nat /\ DOMAIN stack = 1..Len(stack)
           /\ stack # <<>> => Len(stack) \in 1..(MaxDepth + 1)
           /\ \A n \in 1..Len(stack) :
                /\ stack[n] \in SoundFrame /\ stack[n] \in LoopFrame
                /\ FrameSound(stack[n]) /\ HasAnswer(stack[n].turn)
<1>1. Len(stack) \in Nat /\ DOMAIN stack = 1..Len(stack)
  BY LenProperties DEF PromptInv
<1>2. stack # <<>> => Len(stack) \in Nat \ {0}
  BY EmptySeq DEF PromptInv
<1>3. \A n \in 1..Len(stack) : stack[n] \in SoundFrame
  BY ElementOfSeq DEF PromptInv
<1> QED BY <1>1, <1>2, <1>3, PromptAssumption DEF PromptInv, SoundFrame

(* With more rows, and no attempt begun, what stood stands. *)
LEMMA SoundnessStands ==
    ASSUME PromptInv, made' \in Nat, made <= made', recoveries' = recoveries \/ recoveries' = 0,
           \A t \in Turns : HasAnswer(t) => HasAnswer(t)'
    PROVE  SoundRow \subseteq SoundRow' /\ SoundFrame \subseteq SoundFrame'
<1> USE DEF PromptInv
<1>1. 1..made \subseteq 1..made'
  OBVIOUS
<1>2. ASSUME NEW r \in SoundRow
      PROVE  r \in SoundRow'
  BY <1>1, <1>2 DEF SoundRow
<1>3. ASSUME NEW f \in SoundFrame
      PROVE  f \in SoundFrame'
  <2>1. f \in LoopFrame'
    BY <1>1, <1>3 DEF SoundFrame, LoopFrame
  <2>2. FrameSound(f)'
    BY <1>3 DEF SoundFrame, FrameSound, LoopFrame
  <2>3. HasAnswer(f.turn)'
    BY <1>3 DEF SoundFrame, LoopFrame
  <2> QED BY <2>1, <2>2, <2>3 DEF SoundFrame
<1> QED BY <1>2, <1>3

(* A step that writes no row and keeps the loops. *)
LEMMA NothingRead ==
    ASSUME PromptInv, UNCHANGED <<rows, made, stack, recoveries, steps>>
    PROVE  /\ rows' \in Seq(SoundRow') /\ made' \in Nat /\ recoveries' \in 0..1 /\ steps' \in 0..MaxSteps
           /\ stack' \in Seq(SoundFrame') /\ Len(stack') <= MaxDepth + 1
           /\ \A n \in 1..Len(stack') : n < Len(stack') => stack'[n].pc = "top"
           /\ \A t : HasAnswer(t)' = HasAnswer(t)
<1>1. \A t : HasAnswer(t)' = HasAnswer(t)
  BY DEF HasAnswer
<1>2. SoundRow' = SoundRow /\ SoundFrame' = SoundFrame
  BY DEF SoundRow, SoundFrame, LoopFrame, FrameSound, HasAnswer
<1> QED BY <1>1, <1>2 DEF PromptInv

(* A loop that begins has read nothing but what it is given. *)
LEMMA FrameBegins ==
    ASSUME NEW t \in Turns, NEW replayed \in SUBSET [at : Nat, message : Message], NEW msgs \in Seq(Message),
           NEW files \in SUBSET [turn : {0} \cup Turns, shown : {"named", "described", "native"}],
           NEW seen \in SUBSET (1..made),
           \A h \in replayed : FencedText(h.message.text), \A i \in DOMAIN msgs : FencedText(msgs[i].text)
    PROVE  LET f == Frame(t, replayed, msgs, files, seen)
           IN  f \in LoopFrame /\ FrameSound(f) /\ f.turn = t /\ f.pc = "top"
<1> DEFINE f == Frame(t, replayed, msgs, files, seen)
<1>1. <<>> \in Seq(Piece) /\ <<>> \in Seq(Failure) /\ Len(<<>>) = 0 /\ FencedText(<<>>)
  BY EmptySeq, EmptyText
<1>2. f = [turn |-> t, pc |-> "top", replayed |-> replayed, msgs |-> msgs, files |-> files, seen |-> seen,
           text |-> <<>>, key |-> None, last |-> None, failures |-> <<>>]
  BY DEF Frame
<1> HIDE DEF f
<1>3. f \in LoopFrame
  BY <1>1, <1>2 DEF LoopFrame
<1>4. FrameSound(f)
  <2>1. \A k \in DOMAIN f.failures : f.failures[k].text = Says("ours")
    BY <1>2
  <2>2. SafeResult(f.key, f.last, f.text)
    BY <1>1, <1>2 DEF SafeResult
  <2> QED BY <1>1, <1>2, <2>1, <2>2 DEF FrameSound
<1> QED BY <1>2, <1>3, <1>4 DEF f

(* A loop reads its call's row; a failure takes from the recoveries, or the *)
(* loop is stuck.                                                           *)
LEMMA FrameSettles ==
    ASSUME NEW f \in LoopFrame, FrameSound(f), f.pc = "top", NEW r \in PromptRow, r.key \in Keys,
           FencedText(_tool_content(r)), NEW text \in Seq(Piece), SafeResult(r.key, r.last, text),
           NEW failed \in BOOLEAN, failed => text = Says("ours"), recoveries \in 0..1,
           recoveries' = IF failed /\ recoveries > 0 THEN recoveries - 1 ELSE recoveries,
           NEW g, g = Settles(f, r, text, failed)
    PROVE  g \in LoopFrame /\ FrameSound(g)' /\ g.turn = f.turn /\ (~failed => g.pc = "top")
<1> DEFINE msg == tool_turn_messages(r)
<1> DEFINE failure == [key |-> r.key, last |-> r.last, text |-> text]
<1> DEFINE failures == IF failed THEN Append(f.failures, failure) ELSE f.failures
<1> DEFINE pc == IF failed /\ recoveries = 0 THEN "stuck" ELSE "top"
<1>1. msg \in Message /\ FencedText(msg.text)
  BY ContentTyped DEF tool_turn_messages, Message
<1>2. f.msgs \in Seq(Message) /\ f.failures \in Seq(Failure) /\ r.last \in Keys \cup {None}
  BY DEF LoopFrame, PromptRow
<1>3. failure \in Failure /\ failure.text = text
  BY <1>2 DEF Failure
<1> HIDE DEF msg, failure
<1> DEFINE msgs == Append(f.msgs, msg)
<1>4. /\ msgs \in Seq(Message) /\ Len(msgs) = Len(f.msgs) + 1 /\ msgs[Len(msgs)] = msg
      /\ \A i \in 1..Len(f.msgs) : msgs[i] = f.msgs[i]
      /\ Len(f.msgs) \in Nat /\ DOMAIN f.msgs = 1..Len(f.msgs) /\ DOMAIN msgs = 1..Len(msgs)
  <2>1. msgs \in Seq(Message) /\ Len(msgs) = Len(f.msgs) + 1 /\ msgs[Len(f.msgs) + 1] = msg
        /\ \A i \in 1..Len(f.msgs) : msgs[i] = f.msgs[i]
    BY <1>1, <1>2, AppendProperties
  <2> QED BY <1>2, <2>1, LenProperties
<1> HIDE DEF msgs
<1>5. \A i \in DOMAIN msgs : FencedText(msgs[i].text)
  BY <1>1, <1>4 DEF FrameSound
<1>6. /\ failures \in Seq(Failure) /\ \A k \in DOMAIN failures : failures[k].text = Says("ours")
      /\ Len(f.failures) \in Nat /\ Len(failures) = IF failed THEN Len(f.failures) + 1 ELSE Len(f.failures)
  <2>1. CASE ~failed
    BY <1>2, <2>1, LenProperties DEF FrameSound
  <2>2. CASE failed
    <3> DEFINE more == Append(f.failures, failure)
    <3>1. /\ more \in Seq(Failure) /\ Len(more) = Len(f.failures) + 1 /\ more[Len(f.failures) + 1] = failure
          /\ \A i \in 1..Len(f.failures) : more[i] = f.failures[i]
      BY <1>2, <1>3, AppendProperties
    <3>2. /\ Len(f.failures) \in Nat /\ DOMAIN f.failures = 1..Len(f.failures)
          /\ DOMAIN more = 1..(Len(f.failures) + 1)
      BY <1>2, <3>1, LenProperties
    <3> HIDE DEF more
    <3>3. \A k \in DOMAIN more : more[k].text = Says("ours")
      BY <1>3, <2>2, <3>1, <3>2 DEF FrameSound
    <3> QED BY <2>2, <3>1, <3>2, <3>3 DEF more
  <2> QED BY <2>1, <2>2
<1>7. /\ pc = "stuck" => Len(failures) \in 1..2
      /\ pc = "top" => Len(failures) = 0 \/ (Len(failures) = 1 /\ recoveries' = 0)
      /\ pc \in {"top", "stuck"} /\ (~failed => pc = "top")
  <2>1. Len(f.failures) = 0 \/ (Len(f.failures) = 1 /\ recoveries = 0)
    BY DEF FrameSound
  <2> HIDE DEF failures
  <2>2. CASE ~failed
    BY <1>6, <2>1, <2>2
  <2>3. CASE failed /\ recoveries = 0
    <3>1. pc = "stuck"
      BY <2>3
    <3>2. Len(failures) \in 1..2
      <4>1. Len(f.failures) \in Nat /\ Len(failures) = Len(f.failures) + 1
        BY <1>6, <2>3
      <4>2. Len(f.failures) = 0 \/ Len(f.failures) = 1
        BY <2>1
      <4> DEFINE n == Len(f.failures)
      <4> HIDE DEF n
      <4>3. n \in {0, 1} /\ Len(failures) = n + 1
        BY <4>1, <4>2 DEF n
      <4> QED BY <4>3
    <3> QED BY <2>3, <3>1, <3>2
  <2>4. CASE failed /\ recoveries = 1
    BY <1>6, <2>1, <2>4
  <2> QED BY <2>2, <2>3, <2>4
<1> DEFINE key == r.key
<1> DEFINE last == r.last
<1> HIDE DEF failures, pc
<1>8. g = [f EXCEPT !.msgs = msgs, !.text = text, !.key = key, !.last = last, !.failures = failures, !.pc = pc]
  BY DEF Settles, msgs, msg, failures, failure, pc
<1>9. key \in Keys /\ last \in Keys \cup {None} /\ SafeResult(key, last, text) /\ key # None
  BY <1>2 DEF Keys, None
<1> HIDE DEF key, last
<1>10. /\ g \in LoopFrame /\ g.turn = f.turn /\ g.pc = pc /\ g.replayed = f.replayed /\ g.msgs = msgs
       /\ g.failures = failures /\ g.text = text /\ g.key = key /\ g.last = last
  BY <1>4, <1>6, <1>7, <1>8, <1>9 DEF LoopFrame
<1>11. FrameSound(g)'
  BY <1>5, <1>6, <1>7, <1>9, <1>10 DEF FrameSound
<1> QED BY <1>7, <1>10, <1>11

(* A tool row behind the others. *)
LEMMA RowAppended ==
    ASSUME PromptInv, NEW r \in PromptRow, r.role = "tool", r.id = made + 1, r.depth <= MaxDepth, r.quotes = <<>>,
           FencedText(_tool_content(r)), rows' = Append(rows, r), made' = made + 1,
           recoveries' = recoveries \/ recoveries' = 0
    PROVE  /\ rows' \in Seq(SoundRow') /\ made' \in Nat /\ SoundFrame \subseteq SoundFrame'
           /\ \A t \in Turns : HasAnswer(t) => HasAnswer(t)'
<1>1. made' \in Nat /\ made <= made'
  BY DEF PromptInv
<1>2. \A t : HasAnswer(t) => HasAnswer(t)'
  <2>1. /\ DOMAIN rows = 1..Len(rows) /\ DOMAIN rows' = 1..(Len(rows) + 1) /\ Len(rows) \in Nat
        /\ \A i \in 1..Len(rows) : rows'[i] = rows[i]
    <3>1. rows \in Seq(PromptRow)
      BY InvGivesTypes DEF PromptTypeOK
    <3>2. /\ rows' \in Seq(PromptRow) /\ Len(rows') = Len(rows) + 1
          /\ \A i \in 1..Len(rows) : rows'[i] = rows[i]
      BY <3>1, AppendProperties
    <3> QED BY <3>1, <3>2, LenProperties
  <2> QED BY <2>1 DEF HasAnswer
<1>3. SoundRow \subseteq SoundRow' /\ SoundFrame \subseteq SoundFrame'
  BY <1>1, <1>2, SoundnessStands
<1>4. r \in SoundRow'
  <2>1. r.id \in 1..made'
    BY <1>1 DEF PromptInv
  <2>2. QuotesFit(r)
    BY NoQuotes
  <2>3. RowSound(r)
    BY DEF RowSound
  <2> QED BY <2>1, <2>2, <2>3 DEF SoundRow
<1>5. rows \in Seq(SoundRow')
  BY <1>3, SeqMonotonic DEF PromptInv
<1>6. Append(rows, r) \in Seq(SoundRow')
  BY <1>4, <1>5, AppendProperties
<1> QED BY <1>1, <1>2, <1>3, <1>6

(* A loop calls a tool. *)
LEMMA InvokeToolStep ==
    ASSUME PromptInv, NEW key \in Keys, NEW last \in Keys \cup {None}, NEW text \in Seq(Piece), NEW failed \in BOOLEAN,
           SafeResult(key, last, text), failed => text = Says("ours"), invoke_tool(key, last, text, failed)
    PROVE  PromptInv'
<1>a. PICK n, d, f : n = Len(stack) /\ d = n - 1 /\ f = stack[n]
  OBVIOUS
<1>b. PICK note \in BOOLEAN : note = Discards
  BY DEF Discards
<1>c. PICK r : r = ToolRow(key, last, text, note, d)
  OBVIOUS
<1>d. PICK g : g = Settles(f, r, text, failed)
  OBVIOUS
<1>1. /\ stack # <<>> /\ Top = f /\ f.pc = "top" /\ steps > 0
      /\ rows' = Append(rows, r) /\ made' = made + 1
      /\ stack' = [stack EXCEPT ![n] = g] /\ steps' = steps - 1
      /\ recoveries' = IF failed /\ recoveries > 0 THEN recoveries - 1 ELSE recoveries
      /\ UNCHANGED conversation
  BY <1>a, <1>b, <1>c, <1>d DEF invoke_tool, Thinking, Free, Top, Depth
<1>2. /\ n \in 1..(MaxDepth + 1) /\ n \in Nat /\ n \in 1..Len(stack) /\ d \in Nat /\ d <= MaxDepth
      /\ f \in SoundFrame /\ f \in LoopFrame /\ FrameSound(f) /\ HasAnswer(f.turn) /\ f.turn \in Turns
  <2>1. n \in 1..(MaxDepth + 1) /\ n \in Nat /\ n \in 1..Len(stack) /\ d \in Nat /\ d <= MaxDepth
    BY <1>a, <1>1, FrameFacts, PromptAssumption
  <2>2. f \in SoundFrame /\ f \in LoopFrame /\ FrameSound(f) /\ HasAnswer(f.turn)
    BY <1>a, <2>1, FrameFacts
  <2> QED BY <2>1, <2>2 DEF LoopFrame
<1>3. /\ r \in PromptRow /\ r.id = made + 1 /\ r.role = "tool" /\ r.depth = d
      /\ r.quotes = <<>> /\ r.key = key /\ r.last = last /\ FencedText(_tool_content(r))
  <2>1. made \in Nat /\ Top.turn \in Turns
    BY <1>1, <1>2 DEF PromptInv
  <2> QED BY <1>c, <1>2, <2>1, ToolRowWritten
<1>4. recoveries' \in 0..1 /\ (recoveries' = recoveries \/ recoveries' = 0) /\ recoveries \in 0..1
  BY <1>1 DEF PromptInv
<1>5. /\ rows' \in Seq(SoundRow') /\ made' \in Nat /\ SoundFrame \subseteq SoundFrame'
      /\ \A t \in Turns : HasAnswer(t) => HasAnswer(t)'
  BY <1>1, <1>2, <1>3, <1>4, RowAppended
<1>6. g \in SoundFrame'
  <2>0. r.key \in Keys /\ SafeResult(r.key, r.last, text)
    BY <1>3
  <2>1. g \in LoopFrame /\ FrameSound(g)' /\ g.turn = f.turn
    <3>1. f \in LoopFrame /\ FrameSound(f) /\ f.pc = "top"
      BY <1>1, <1>2
    <3>2. r \in PromptRow /\ FencedText(_tool_content(r))
      BY <1>3
    <3>3. recoveries \in 0..1
      BY <1>4
    <3>4. recoveries' = IF failed /\ recoveries > 0 THEN recoveries - 1 ELSE recoveries
      BY <1>1
    <3> QED BY <1>d, <2>0, <3>1, <3>2, <3>3, <3>4, FrameSettles
  <2>2. g \in LoopFrame'
    BY <1>1, <2>1 DEF LoopFrame, PromptInv
  <2>3. HasAnswer(g.turn)'
    BY <1>2, <1>5, <2>1
  <2> QED BY <2>1, <2>2, <2>3 DEF SoundFrame
<1>7. /\ stack' \in Seq(SoundFrame') /\ Len(stack') = n
      /\ \A i \in 1..n : stack'[i] = IF i = n THEN g ELSE stack[i]
  <2>1. stack \in Seq(SoundFrame')
    BY <1>5, SeqMonotonic DEF PromptInv
  <2>2. /\ [stack EXCEPT ![n] = g] \in Seq(SoundFrame') /\ Len([stack EXCEPT ![n] = g]) = Len(stack)
        /\ \A i \in 1..Len(stack) : [stack EXCEPT ![n] = g][i] = IF i = n THEN g ELSE stack[i]
    BY <1>2, <1>6, <2>1, ExceptSeq
  <2> QED BY <1>a, <1>1, <2>2
<1>8. \A i \in 1..Len(stack') : i < Len(stack') => stack'[i].pc = "top"
  BY <1>a, <1>2, <1>7 DEF PromptInv
<1>9. steps' \in 0..MaxSteps /\ Len(stack') <= MaxDepth + 1
  BY <1>1, <1>2, <1>7, PromptAssumption DEF PromptInv
<1> QED BY <1>1, <1>4, <1>5, <1>7, <1>8, <1>9 DEF PromptInv, conversation

(* A delegate's last words, fenced whatever they are. *)
LEMMA ReturnsStep ==
    ASSUME PromptInv, stack # <<>>, NEW text \in Seq(Piece), NEW spent \in Nat, spent <= steps, Returns(text, spent)
    PROVE  PromptInv'
<1>a. PICK n, d, e : n = Len(stack) /\ d = n - 1 /\ e = d - 1
  OBVIOUS
<1>b. PICK r : r = ToolRow("agent", None, text, FALSE, e)
  OBVIOUS
<1>c. PICK g : g = Settles(stack[d], r, text, FALSE)
  OBVIOUS
<1>1. /\ d > 0 /\ rows' = Append(rows, r) /\ made' = made + 1
      /\ stack' = Append(SubSeq(stack, 1, e), g) /\ steps' = steps - spent
      /\ recoveries' = recoveries /\ UNCHANGED conversation
  BY <1>a, <1>b, <1>c DEF Returns, Depth
<1>2. /\ n \in 1..(MaxDepth + 1) /\ n \in Nat /\ d \in 1..n /\ d < n /\ d \in Nat /\ e \in Nat /\ e < d
      /\ e <= MaxDepth /\ MaxDepth \in Nat
  BY <1>a, <1>1, FrameFacts, PromptAssumption
<1>3. /\ stack[d] \in LoopFrame /\ FrameSound(stack[d]) /\ HasAnswer(stack[d].turn) /\ stack[d].pc = "top"
      /\ Top.turn \in Turns /\ stack[d].turn \in Turns
  <2>1. stack[d] \in LoopFrame /\ FrameSound(stack[d]) /\ HasAnswer(stack[d].turn) /\ stack[n] \in LoopFrame
    BY <1>a, <1>2, FrameFacts
  <2>2. stack[d].pc = "top"
    BY <1>a, <1>2 DEF PromptInv
  <2> QED BY <1>a, <2>1, <2>2 DEF Top, LoopFrame
<1>4. /\ SafeResult("agent", None, text) /\ "agent" \in Keys /\ None \in Keys \cup {None} /\ FALSE \in BOOLEAN
      /\ made \in Nat /\ recoveries \in 0..1
  BY DEF SafeResult, _is_third_party_tool_result, Keys, PromptInv
<1>5. /\ r \in PromptRow /\ r.id = made + 1 /\ r.role = "tool" /\ r.depth = e
      /\ r.quotes = <<>> /\ r.key = "agent" /\ r.last = None /\ FencedText(_tool_content(r))
  <2>1. PICK note \in BOOLEAN : note = FALSE
    BY Zenon
  <2>2. PICK key, last : key = "agent" /\ last = None
    OBVIOUS
  <2>3. r = ToolRow(key, last, text, note, e)
    BY <1>b, <2>1, <2>2, Zenon
  <2>4. key \in Keys /\ last \in Keys \cup {None} /\ SafeResult(key, last, text)
    BY <1>4, <2>2
  <2>5. /\ r \in PromptRow /\ r.id = made + 1 /\ r.role = "tool" /\ r.depth = e
        /\ r.quotes = <<>> /\ r.key = key /\ r.last = last /\ FencedText(_tool_content(r))
    BY <1>2, <1>3, <1>4, <2>3, <2>4, ToolRowWritten
  <2> QED BY <2>2, <2>5
<1>6. /\ rows' \in Seq(SoundRow') /\ made' \in Nat /\ SoundFrame \subseteq SoundFrame'
      /\ \A t \in Turns : HasAnswer(t) => HasAnswer(t)'
  BY <1>1, <1>2, <1>5, RowAppended
<1>7. g \in SoundFrame' /\ g.pc = "top"
  <2>0. r.key \in Keys /\ SafeResult(r.key, r.last, text)
    BY <1>4, <1>5
  <2>1. PICK f : f = stack[d]
    OBVIOUS
  <2>2. g \in LoopFrame /\ FrameSound(g)' /\ g.turn = f.turn /\ g.pc = "top"
    <3>1. f \in LoopFrame /\ FrameSound(f) /\ f.pc = "top" /\ g = Settles(f, r, text, FALSE)
      BY <1>c, <1>3, <2>1
    <3>2. recoveries' = IF FALSE /\ recoveries > 0 THEN recoveries - 1 ELSE recoveries
      BY <1>1
    <3> QED BY <1>4, <1>5, <2>0, <3>1, <3>2, FrameSettles
  <2>3. g \in LoopFrame'
    BY <1>1, <1>4, <2>2 DEF LoopFrame
  <2>4. HasAnswer(g.turn)'
    <3>1. g.turn \in Turns /\ HasAnswer(g.turn)
      BY <1>3, <2>1, <2>2
    <3> QED BY <1>6, <3>1
  <2> QED BY <2>2, <2>3, <2>4 DEF SoundFrame
<1>8. PICK outer : outer = SubSeq(stack, 1, e)
  OBVIOUS
<1>9. outer \in Seq(SoundFrame') /\ Len(outer) = e /\ \A i \in 1..e : outer[i] = stack[i]
  <2>1. \A i \in 1..e : stack[i] \in SoundFrame'
    BY <1>a, <1>2, <1>6, FrameFacts
  <2>2. 1 \in Int /\ e \in Int
    BY <1>2
  <2>3. /\ outer \in Seq(SoundFrame') /\ Len(outer) = IF 1 <= e THEN e - 1 + 1 ELSE 0
        /\ \A i \in 1 .. e - 1 + 1 : outer[i] = stack[1 + i - 1]
    BY <1>8, <2>1, <2>2, SubSeqProperties
  <2> QED BY <1>2, <2>3
<1>10. /\ stack' \in Seq(SoundFrame') /\ Len(stack') = d
       /\ \A i \in 1..e : stack'[i] = stack[i]
  <2>1. stack' = Append(outer, g)
    BY <1>1, <1>8
  <2>2. /\ Append(outer, g) \in Seq(SoundFrame') /\ Len(Append(outer, g)) = Len(outer) + 1
        /\ \A i \in 1..Len(outer) : Append(outer, g)[i] = outer[i]
    BY <1>7, <1>9, AppendProperties
  <2>3. Len(outer) = e /\ e + 1 = d
    BY <1>a, <1>2, <1>9
  <2>4. stack' \in Seq(SoundFrame') /\ Len(stack') = d
    BY <2>1, <2>2, <2>3
  <2>5. \A i \in 1..e : stack'[i] = stack[i]
    BY <1>9, <2>1, <2>2, <2>3
  <2> QED BY <2>4, <2>5
<1>11. \A i \in 1..Len(stack') : i < Len(stack') => stack'[i].pc = "top"
  <2> SUFFICES ASSUME NEW i \in 1..Len(stack'), i < Len(stack')
               PROVE  stack'[i].pc = "top"
    OBVIOUS
  <2>1. i \in 1..e /\ i \in 1..Len(stack) /\ i < Len(stack)
    BY <1>a, <1>2, <1>10
  <2> QED BY <1>10, <2>1 DEF PromptInv
<1>12. steps' \in 0..MaxSteps
  BY <1>1, PromptAssumption DEF PromptInv
<1>13. Len(stack') <= MaxDepth + 1
  BY <1>2, <1>10
<1> QED BY <1>1, <1>6, <1>10, <1>11, <1>12, <1>13, <1>4 DEF PromptInv, conversation

(* A delegate begins, or is refused. *)
LEMMA RunAgentToolStep ==
    ASSUME PromptInv, run_agent_tool
    PROVE  PromptInv'
<1>1. CASE invoke_tool("agent", None, Says("ours"), TRUE)
  <2>1. Says("ours") \in Seq(Piece) /\ SafeResult("agent", None, Says("ours"))
    BY WordsOf DEF SafeResult, _is_third_party_tool_result
  <2> QED BY <1>1, <2>1, InvokeToolStep DEF Keys
<1>2. CASE ~invoke_tool("agent", None, Says("ours"), TRUE)
  <2> DEFINE n == Len(stack)
  <2> DEFINE msgs == <<[role |-> "user", text |-> Says("model")]>>
  <2>0. PICK g : g = Frame(Top.turn, {}, msgs, {}, {})
    OBVIOUS
  <2>1. /\ stack # <<>> /\ Top.pc = "top" /\ steps > 1 /\ Depth < MaxDepth /\ steps' = steps - 1
        /\ stack' = Append(stack, g) /\ UNCHANGED <<rows, made, recoveries, conversation>>
    BY <1>2, <2>0 DEF run_agent_tool, Thinking, Free
  <2>2. /\ n \in Nat /\ n >= 1 /\ n + 1 <= MaxDepth + 1 /\ Top = stack[n] /\ Top.turn \in Turns
        /\ stack[n].pc = "top" /\ HasAnswer(Top.turn) /\ MaxDepth \in Nat
    BY <2>1, FrameFacts, PromptAssumption DEF Top, Depth, LoopFrame
  <2>3. msgs \in Seq(Message) /\ DOMAIN msgs = {1} /\ FencedText(msgs[1].text)
    <3>1. Says("model") \in Seq(Piece) /\ FencedText(Says("model"))
      BY WordsOf
    <3>2. [role |-> "user", text |-> Says("model")] \in Message
      BY <3>1 DEF Message
    <3>3. msgs \in Seq(Message) /\ Len(msgs) = 1 /\ msgs[1].text = Says("model")
      BY <3>2
    <3> HIDE DEF msgs
    <3> QED BY <3>1, <3>3, LenProperties
  <2> HIDE DEF msgs
  <2>4. g \in LoopFrame /\ FrameSound(g) /\ g.turn = Top.turn /\ g.pc = "top"
    <3>1. \A h \in {} : FencedText(h.message.text)
      OBVIOUS
    <3> QED BY <2>0, <2>2, <2>3, <3>1, FrameBegins
  <2>5. SoundRow' = SoundRow /\ SoundFrame' = SoundFrame /\ \A t : HasAnswer(t)' = HasAnswer(t)
    BY <2>1 DEF SoundRow, SoundFrame, LoopFrame, FrameSound, HasAnswer
  <2>6. /\ stack' \in Seq(SoundFrame) /\ Len(stack') = n + 1
        /\ \A i \in 1..n : stack'[i] = stack[i]
    <3>1. g \in SoundFrame
      BY <2>2, <2>4 DEF SoundFrame
    <3> QED BY <2>1, <3>1, AppendProperties DEF PromptInv
  <2>7. \A i \in 1..Len(stack') : i < Len(stack') => stack'[i].pc = "top"
    BY <2>2, <2>6 DEF PromptInv
  <2>8. steps' \in 0..MaxSteps
    BY <2>1, PromptAssumption DEF PromptInv
  <2> QED BY <2>1, <2>2, <2>5, <2>6, <2>7, <2>8 DEF PromptInv, conversation
<1> QED BY <1>1, <1>2

---------------------------------------------------------------------------
(* A turn's answer.                                                        *)

(* The row that is an answer. *)
LEMMA AnswerIsThere ==
    ASSUME PromptInv, NEW t, HasAnswer(t)
    PROVE  /\ Answer(t) \in 1..Len(rows)
           /\ rows[Answer(t)].turn = t /\ rows[Answer(t)].role = "assistant"
BY RowFacts DEF HasAnswer, Answer

HasAllRows(moved) == \A i \in 1..Len(rows) : \E j \in 1..Len(rows) : moved[j] = rows[i]

(* Putting a row behind the others keeps them all. *)
LEMMA RowsReindexed ==
    ASSUME PromptInv, NEW a \in 1..Len(rows), NEW moved, moved = Reindexed(a)
    PROVE  /\ moved \in Seq(SoundRow) /\ Len(moved) = Len(rows) /\ moved[Len(rows)] = rows[a]
           /\ HasAllRows(moved)
<1>1. PICK n : n = Len(rows)
  OBVIOUS
<1>2. PICK front, back : front = SubSeq(rows, 1, a - 1) /\ back = SubSeq(rows, a + 1, n)
  OBVIOUS
<1>3. n \in Nat /\ a \in 1..n /\ \A i \in 1..n : rows[i] \in SoundRow
  BY <1>1, RowFacts
<1>4. front \in Seq(SoundRow) /\ Len(front) = a - 1 /\ \A i \in 1..(a - 1) : front[i] = rows[i]
  <2>1. PICK m : m = a - 1
    OBVIOUS
  <2>2. 1 \in Int /\ m \in Int /\ \A i \in 1..m : rows[i] \in SoundRow
    BY <1>3, <2>1
  <2>3. /\ front \in Seq(SoundRow) /\ Len(front) = IF 1 <= m THEN m - 1 + 1 ELSE 0
        /\ \A i \in 1..(m - 1 + 1) : front[i] = rows[1 + i - 1]
    BY <1>2, <2>1, <2>2, SubSeqProperties
  <2> QED BY <1>3, <2>1, <2>3
<1>5. back \in Seq(SoundRow) /\ Len(back) = n - a /\ \A i \in 1..(n - a) : back[i] = rows[a + i]
  <2>1. PICK m : m = a + 1
    OBVIOUS
  <2>2. m \in Int /\ n \in Int /\ \A i \in m..n : rows[i] \in SoundRow
    BY <1>3, <2>1
  <2>3. /\ back \in Seq(SoundRow) /\ Len(back) = IF m <= n THEN n - m + 1 ELSE 0
        /\ \A i \in 1..(n - m + 1) : back[i] = rows[m + i - 1]
    BY <1>2, <2>1, <2>2, SubSeqProperties
  <2> QED BY <1>3, <2>1, <2>3
<1>6. PICK one : one = <<rows[a]>>
  OBVIOUS
<1>7. one \in Seq(SoundRow) /\ Len(one) = 1 /\ one[1] = rows[a]
  BY <1>3, <1>6
<1>8. PICK others : others = front \o back
  OBVIOUS
<1>9. /\ others \in Seq(SoundRow) /\ Len(others) = n - 1
      /\ \A i \in 1..(n - 1) : others[i] = IF i <= a - 1 THEN rows[i] ELSE rows[i + 1]
  <2>1. /\ others \in Seq(SoundRow) /\ Len(others) = Len(front) + Len(back)
        /\ \A i \in 1..(Len(front) + Len(back)) :
            others[i] = IF i <= Len(front) THEN front[i] ELSE back[i - Len(front)]
    BY <1>4, <1>5, <1>8, ConcatProperties
  <2>2. Len(front) + Len(back) = n - 1
    BY <1>3, <1>4, <1>5
  <2>3. ASSUME NEW i \in 1..(n - 1)
        PROVE  others[i] = IF i <= a - 1 THEN rows[i] ELSE rows[i + 1]
    <3>1. CASE i <= a - 1
      BY <1>3, <1>4, <2>1, <2>2, <3>1
    <3>2. CASE i > a - 1
      <4>1. i - (a - 1) \in 1..(n - a) /\ a + (i - (a - 1)) = i + 1
        BY <1>3, <3>2
      <4>2. others[i] = back[i - (a - 1)]
        BY <1>3, <1>4, <2>1, <2>2, <3>2
      <4> QED BY <1>3, <1>5, <3>2, <4>1, <4>2
    <3> QED BY <1>3, <3>1, <3>2
  <2> QED BY <2>1, <2>2, <2>3
<1>10. moved = others \o one
  BY <1>1, <1>2, <1>6, <1>8 DEF Reindexed
<1>11. /\ moved \in Seq(SoundRow) /\ Len(moved) = n
       /\ \A i \in 1..n : moved[i] = IF i <= n - 1 THEN others[i] ELSE one[i - (n - 1)]
  <2>1. /\ moved \in Seq(SoundRow) /\ Len(moved) = Len(others) + Len(one)
        /\ \A i \in 1..(Len(others) + Len(one)) :
            moved[i] = IF i <= Len(others) THEN others[i] ELSE one[i - Len(others)]
    <3>1. others \in Seq(SoundRow) /\ one \in Seq(SoundRow)
      BY <1>7, <1>9
    <3>2. /\ others \o one \in Seq(SoundRow) /\ Len(others \o one) = Len(others) + Len(one)
          /\ \A i \in 1..(Len(others) + Len(one)) :
              (others \o one)[i] = IF i <= Len(others) THEN others[i] ELSE one[i - Len(others)]
      BY <3>1, ConcatProperties
    <3> QED BY <1>10, <3>2, Zenon
  <2>2. Len(others) + Len(one) = n
    BY <1>3, <1>7, <1>9
  <2> QED BY <1>9, <2>1, <2>2
<1>12. moved[n] = rows[a]
  BY <1>3, <1>7, <1>11
<1>13. ASSUME NEW i \in 1..n
       PROVE  \E j \in 1..n : moved[j] = rows[i]
  <2>1. CASE i < a
    <3>1. moved[i] = rows[i]
      BY <1>3, <1>9, <1>11, <2>1
    <3> QED BY <3>1
  <2>2. CASE i > a
    <3>1. PICK j : j = i - 1
      OBVIOUS
    <3>2. j \in 1..n /\ j <= n - 1 /\ j > a - 1 /\ j + 1 = i
      BY <1>3, <2>2, <3>1
    <3>3. moved[j] = rows[i]
      <4>1. j \in 1..(n - 1)
        BY <1>3, <3>2
      <4>2. moved[j] = others[j]
        BY <1>11, <3>2
      <4>3. others[j] = rows[j + 1]
        BY <1>9, <3>2, <4>1
      <4> QED BY <3>2, <4>2, <4>3
    <3> QED BY <3>2, <3>3
  <2>3. CASE i = a
    BY <1>3, <1>12, <2>3
  <2> QED BY <1>3, <2>1, <2>2, <2>3
<1> QED BY <1>1, <1>11, <1>12, <1>13 DEF HasAllRows

(* The answer is written, behind every other row, and the attempt is over. *)
LEMMA FinishStep ==
    ASSUME PromptInv, stack # <<>>, NEW text \in Seq(Piece), NEW quotes \in Seq(Quote), NEW late \in BOOLEAN,
           \A k \in DOMAIN quotes : quotes[k].offset + quotes[k].length <= Len(text),
           \A r \in PromptRow : r.text = text /\ r.quotes = quotes => FencedText(_replay_assistant_text(r)),
           _finish(text, quotes, late)
    PROVE  PromptInv'
<1>1. PICK t : t = Top.turn
  OBVIOUS
<1>2. t \in Turns /\ HasAnswer(t)
  BY <1>1, FrameFacts DEF Top, LoopFrame
<1>3. PICK a, moved : a = Answer(t) /\ moved = Reindexed(a)
  OBVIOUS
<1>4. a \in 1..Len(rows) /\ rows[a].turn = t /\ rows[a].role = "assistant"
  BY <1>2, <1>3, AnswerIsThere
<1>5. PICK n : n = Len(rows)
  OBVIOUS
<1>6. /\ moved \in Seq(SoundRow) /\ Len(moved) = n /\ moved[n] = rows[a] /\ n \in Nat /\ n \in 1..n
      /\ \A i \in 1..n : \E j \in 1..n : moved[j] = rows[i]
  <2>1. /\ moved \in Seq(SoundRow) /\ Len(moved) = Len(rows) /\ moved[Len(rows)] = rows[a] /\ HasAllRows(moved)
    BY <1>3, <1>4, RowsReindexed
  <2>2. n \in Nat /\ n \in 1..n
    BY <1>4, <1>5, RowFacts
  <2> QED BY <1>5, <2>1, <2>2 DEF HasAllRows
<1>7. DOMAIN moved = 1..n /\ \A i \in 1..n : moved[i] \in SoundRow
  BY <1>6, LenProperties, ElementOfSeq
<1>8. PICK last : last = CHOOSE i \in DOMAIN moved : moved[i].turn = t /\ moved[i].role = "assistant"
  OBVIOUS
<1>9. last \in 1..n /\ moved[last].turn = t /\ moved[last].role = "assistant"
  BY <1>4, <1>6, <1>7, <1>8
<1>10. PICK done \in BOOLEAN : done = ~late
  OBVIOUS
<1>11. PICK r : r = [moved[last] EXCEPT !.text = text, !.quotes = quotes, !.done = done]
  OBVIOUS
<1>12. /\ rows' = [moved EXCEPT ![last] = r] /\ turnJob' = [turnJob EXCEPT ![t] = "finished"]
       /\ stack' = <<>> /\ recoveries' = 1 /\ steps' = 0
       /\ UNCHANGED <<made, posted, again, shared, described, events>>
  <2>1. /\ rows' = [moved EXCEPT ![last].text = text, ![last].quotes = quotes, ![last].done = done]
        /\ turnJob' = [turnJob EXCEPT ![t] = "finished"]
        /\ stack' = <<>> /\ recoveries' = 1 /\ steps' = 0
        /\ UNCHANGED <<made, posted, again, shared, described, events>>
    BY <1>1, <1>3, <1>8, <1>10 DEF _finish
  <2>2. moved \in [1..n -> SoundRow]
    BY <1>6, LenProperties
  <2>3. [moved EXCEPT ![last].text = text, ![last].quotes = quotes, ![last].done = done] = [moved EXCEPT ![last] = r]
    BY <1>9, <1>11, <2>2
  <2> QED BY <2>1, <2>3
<1>13. /\ r \in PromptRow /\ r.text = text /\ r.quotes = quotes /\ r.turn = t /\ r.role = "assistant"
       /\ r.id = moved[last].id /\ r.depth = moved[last].depth
  <2>1. moved[last] \in PromptRow
    BY <1>7, <1>9 DEF SoundRow
  <2> QED BY <1>9, <1>11, <2>1 DEF PromptRow
<1>14. r \in SoundRow
  <2>1. r.id \in 1..made /\ r.depth <= MaxDepth
    BY <1>7, <1>9, <1>13 DEF SoundRow
  <2>2. QuotesFit(r)
    BY <1>13 DEF QuotesFit
  <2>3. RowSound(r)
    BY <1>13 DEF RowSound
  <2> QED BY <1>13, <2>1, <2>2, <2>3 DEF SoundRow
<1>15. SoundRow' = SoundRow
  BY <1>12 DEF SoundRow
<1>16. /\ rows' \in Seq(SoundRow') /\ DOMAIN rows' = 1..n
       /\ \A i \in 1..n : rows'[i] = IF i = last THEN r ELSE moved[i]
  <2>1. /\ [moved EXCEPT ![last] = r] \in Seq(SoundRow) /\ Len([moved EXCEPT ![last] = r]) = Len(moved)
        /\ \A i \in 1..Len(moved) : [moved EXCEPT ![last] = r][i] = IF i = last THEN r ELSE moved[i]
    BY <1>6, <1>9, <1>14, ExceptSeq
  <2> QED BY <1>6, <1>12, <1>15, <2>1, LenProperties
<1>17. \A s : HasAnswer(s) => HasAnswer(s)'
  <2> SUFFICES ASSUME NEW s, HasAnswer(s)
               PROVE  HasAnswer(s)'
    OBVIOUS
  <2>1. PICK i \in 1..n : rows[i].turn = s /\ rows[i].role = "assistant"
    BY <1>5, RowFacts DEF HasAnswer
  <2>2. PICK j \in 1..n : moved[j] = rows[i]
    BY <1>6
  <2>3. rows'[j].turn = s /\ rows'[j].role = "assistant"
    BY <1>9, <1>13, <1>16, <2>1, <2>2
  <2> QED BY <1>16, <2>3 DEF HasAnswer
<1>18. stack' \in Seq(SoundFrame') /\ Len(stack') = 0
  BY <1>12, EmptySeq
<1>19. \A s \in Turns : turnJob'[s] # "none" => HasAnswer(s)'
  BY <1>2, <1>12, <1>17 DEF PromptInv
<1>20. /\ turnJob' \in [Turns -> {"none", "queued", "running", "finished", "done", "failed"}]
       /\ steps' \in 0..MaxSteps /\ recoveries' \in 0..1 /\ MaxDepth + 1 \in Nat
  BY <1>2, <1>12, PromptAssumption DEF PromptInv
<1> QED BY <1>12, <1>16, <1>18, <1>19, <1>20 DEF PromptInv

---------------------------------------------------------------------------
(* The steps of a loop.                                                    *)

(* What a call returns is safe to show under its key. *)
LEMMA CallsStep ==
    ASSUME PromptInv, Calls
    PROVE  PromptInv'
<1>1. /\ Says("ours") \in Seq(Piece) /\ FencedText(Says("ours")) /\ Says("document") \in Seq(Piece)
      /\ <<>> \in Seq(Piece)
  BY WordsOf, EmptyText
<1>2. \A key, last : SafeResult(key, last, Says("ours"))
  BY <1>1 DEF SafeResult
<1>3. \A text : SafeResult("search", None, text) /\ SafeResult("flow", "search", text)
  BY DEF SafeResult, _is_third_party_tool_result
<1>4. {"plain", "search", "flow"} \subseteq Keys /\ {None, "plain", "search"} \subseteq Keys \cup {None}
  BY DEF Keys
<1>5. CASE invoke_tool("plain", None, Says("ours"), FALSE)
  BY <1>1, <1>2, <1>4, <1>5, InvokeToolStep
<1>6. CASE invoke_tool("search", None, Says("document"), FALSE)
  BY <1>1, <1>3, <1>4, <1>6, InvokeToolStep
<1>7. ASSUME NEW key \in {"plain", "search", "flow"}, invoke_tool(key, None, Says("ours"), TRUE)
      PROVE  PromptInv'
  BY <1>1, <1>2, <1>4, <1>7, InvokeToolStep
<1>8. ASSUME NEW late \in {<<>>, Says("ours")}, invoke_tool("flow", "search", late \o Says("document"), FALSE)
      PROVE  PromptInv'
  <2>1. PICK text : text = late \o Says("document")
    OBVIOUS
  <2>2. text \in Seq(Piece)
    BY <1>1, <2>1, JoinedWords
  <2> QED BY <1>3, <1>4, <1>8, <2>1, <2>2, InvokeToolStep
<1>9. CASE invoke_tool("flow", "plain", Says("ours"), FALSE)
  BY <1>1, <1>2, <1>4, <1>9, InvokeToolStep
<1> QED BY <1>5, <1>6, <1>7, <1>8, <1>9 DEF Calls

(* A loop ends in its model's words. *)
LEMMA AnswersStep ==
    ASSUME PromptInv, Answers
    PROVE  PromptInv'
<1>1. stack # <<>> /\ steps > 0
  BY DEF Answers, Thinking, Free
<1>2. PICK text : text = Says("model")
  OBVIOUS
<1>3. text \in Seq(Piece) /\ FencedText(text)
  BY <1>2, WordsOf
<1>4. CASE _finish(text, <<>>, FALSE)
  <2>1. <<>> \in Seq(Quote) /\ \A k \in DOMAIN <<>> : <<>>[k].offset + <<>>[k].length <= Len(text)
    BY EmptySeq
  <2>2. \A r \in PromptRow : r.text = text /\ r.quotes = <<>> => FencedText(_replay_assistant_text(r))
    BY <1>3, AnswerReplayed
  <2> QED BY <1>1, <1>3, <1>4, <2>1, <2>2, FinishStep
<1>5. CASE Returns(text, 1)
  <2>1. 1 \in Nat /\ 1 <= steps
    BY <1>1 DEF PromptInv
  <2> QED BY <1>1, <1>3, <1>5, <2>1, ReturnsStep
<1> QED BY <1>2, <1>4, <1>5 DEF Answers

(* The last result's words, quoted by this program: where the tool is a     *)
(* third party's the quote says so, elsewhere they are safe as they are.    *)
LEMMA HonestEndingStep ==
    ASSUME PromptInv, NEW late \in BOOLEAN, _honest_ending(late)
    PROVE  PromptInv'
<1>1. stack # <<>> /\ Top.pc = "top"
  BY DEF _honest_ending, Free
<1>2. PICK f : f = Top
  OBVIOUS
<1>3. f \in LoopFrame /\ FrameSound(f)
  BY <1>1, <1>2, FrameFacts DEF Top
<1>4. PICK ours, text, quotes :
        /\ ours = Says("ours") /\ text = ours \o f.text
        /\ quotes = IF f.text = <<>> THEN <<>> ELSE _honest_ending_provenance(f)
  OBVIOUS
<1>5. _finish(text, quotes, late) \/ Returns(text, 0)
  BY <1>2, <1>4 DEF _honest_ending
<1>6. ours \in Seq(Piece) /\ Len(ours) = 1 /\ DOMAIN ours = {1} /\ FencedText(ours) /\ f.text \in Seq(Piece)
  BY <1>3, <1>4, WordsOf DEF LoopFrame
<1>7. /\ text \in Seq(Piece) /\ Len(text) = 1 + Len(f.text) /\ Len(f.text) \in Nat
      /\ DOMAIN text = 1..(1 + Len(f.text)) /\ text[1] = ours[1]
      /\ FencedText(f.text) => FencedText(text)
  <2>1. /\ text \in Seq(Piece) /\ Len(text) = Len(ours) + Len(f.text) /\ Len(f.text) \in Nat
        /\ DOMAIN text = 1..(Len(ours) + Len(f.text))
        /\ \A i \in 1..(Len(ours) + Len(f.text)) : text[i] = IF i <= Len(ours) THEN ours[i] ELSE f.text[i - Len(ours)]
        /\ FencedText(ours) /\ FencedText(f.text) => FencedText(text)
    BY <1>4, <1>6, JoinedWords
  <2> QED BY <1>6, <2>1
<1>8. quotes \in Seq(Quote) /\ \A k \in DOMAIN quotes : quotes[k].offset + quotes[k].length <= Len(text)
  <2>1. CASE f.text = <<>>
    BY <1>4, <2>1, EmptySeq
  <2>2. CASE f.text # <<>>
    <3>1. PICK q : q = [offset |-> 1, length |-> Len(f.text), key |-> f.key, last |-> f.last]
      OBVIOUS
    <3>2. quotes = <<q>>
      BY <1>4, <2>2, <3>1 DEF _honest_ending_provenance
    <3>3. q \in Quote /\ q.offset = 1 /\ q.length = Len(f.text)
      BY <1>3, <1>7, <2>2, <3>1 DEF Quote, LoopFrame, FrameSound
    <3> QED BY <1>7, <3>2, <3>3
  <2> QED BY <2>1, <2>2
<1>9. ASSUME NEW r \in PromptRow, r.text = text, r.quotes = quotes
      PROVE  FencedText(_replay_assistant_text(r))
  <2>1. CASE FencedText(f.text)
    BY <1>7, <1>9, <2>1, AnswerReplayed
  <2>2. CASE ~FencedText(f.text)
    <3>1. _is_third_party_tool_result(f.key, f.last)
      BY <1>3, <2>2 DEF FrameSound, SafeResult
    <3>2. f.text # <<>>
      BY <2>2, EmptyText
    <3>3. PICK q : q = [offset |-> 1, length |-> Len(f.text), key |-> f.key, last |-> f.last]
      OBVIOUS
    <3>4. r.quotes = <<q>> /\ q.offset = 1 /\ q.length = Len(f.text) /\ q.key = f.key /\ q.last = f.last
      BY <1>4, <1>9, <3>2, <3>3 DEF _honest_ending_provenance
    <3>5. 1 \in DOMAIN r.quotes /\ r.quotes[1] = q
      BY <3>4
    <3>6. ASSUME NEW i \in DOMAIN r.text, r.text[i].who = "document"
          PROVE  _replay_assistant_text(r)[i].fenced
      <4>1. text[1].who # "document"
        BY <1>4, <1>7, WordsOf
      <4>2. i \in 2..(1 + Len(f.text))
        BY <1>7, <1>9, <3>6, <4>1
      <4>3. i \in (q.offset + 1)..(q.offset + q.length)
        BY <1>7, <3>4, <4>2
      <4>4. \E k \in DOMAIN r.quotes :
                LET x == r.quotes[k] IN
                /\ _is_third_party_tool_result(x.key, x.last)
                /\ i \in (x.offset + 1)..(x.offset + x.length)
        BY <3>1, <3>4, <3>5, <4>3
      <4>5. r.text[i] \in Piece
        BY <1>7, <1>9, ElementOfSeq
      <4> QED BY <4>4, <4>5 DEF _replay_assistant_text, Piece
    <3>7. \A i \in DOMAIN r.text : _replay_assistant_text(r)[i].who = r.text[i].who
      <4>1. \A i \in DOMAIN r.text : r.text[i] \in Piece
        BY <1>7, <1>9, ElementOfSeq
      <4> QED BY <4>1 DEF _replay_assistant_text, Piece
    <3> QED BY <3>6, <3>7, AnswerReplayed DEF FencedText
  <2> QED BY <2>1, <2>2
<1>10. CASE _finish(text, quotes, late)
  BY <1>1, <1>7, <1>8, <1>9, <1>10, FinishStep
<1>11. CASE Returns(text, 0)
  <2>1. 0 \in Nat /\ 0 <= steps
    BY DEF PromptInv
  <2> QED BY <1>1, <1>7, <1>11, <2>1, ReturnsStep
<1> QED BY <1>5, <1>10, <1>11

(* Each failure's words are this program's own, after a line's beginning. *)
LEMMA TwoFailuresStep ==
    ASSUME PromptInv, _two_failures_text
    PROVE  PromptInv'
<1>1. stack # <<>> /\ Top.pc = "stuck"
  BY DEF _two_failures_text
<1>2. PICK f, n : f = Top.failures /\ n = Len(f)
  OBVIOUS
<1>3. /\ f \in Seq(Failure) /\ n \in 1..2 /\ DOMAIN f = 1..n
      /\ \A k \in 1..n : f[k] \in Failure /\ f[k].text = Says("ours")
  <2>1. Top \in LoopFrame /\ FrameSound(Top)
    BY <1>1, FrameFacts DEF Top
  <2>2. f \in Seq(Failure) /\ n \in 1..2 /\ \A k \in DOMAIN f : f[k].text = Says("ours")
    BY <1>1, <1>2, <2>1 DEF LoopFrame, FrameSound
  <2> QED BY <1>2, <2>2, LenProperties, ElementOfSeq
<1>4. PICK ours, line, two, text, quotes :
        /\ ours = Says("ours") /\ line = ours \o ours /\ two = line \o line
        /\ text = ours \o (IF n = 1 THEN line ELSE two) /\ quotes = _two_failures_quotes(f)
  OBVIOUS
<1>5. _finish(text, quotes, FALSE) \/ Returns(text, 0)
  <2>1. Says("ours") \o f[1].text = line /\ (n # 1 => Says("ours") \o f[2].text = line)
    <3>1. f[1].text = Says("ours") /\ (n # 1 => f[2].text = Says("ours"))
      BY <1>3
    <3>2. line = Says("ours") \o Says("ours")
      BY <1>4
    <3> QED BY <3>1, <3>2
  <2> QED BY <1>2, <1>4, <2>1 DEF _two_failures_text
<1>6. ours \in Seq(Piece) /\ Len(ours) = 1 /\ FencedText(ours)
  BY <1>4, WordsOf
<1>7. line = ours \o ours /\ two = line \o line /\ text = ours \o (IF n = 1 THEN line ELSE two)
  BY <1>4
<1>8. /\ line \in Seq(Piece) /\ Len(line) = 2 /\ FencedText(line)
      /\ two \in Seq(Piece) /\ Len(two) = 4 /\ FencedText(two)
  <2>1. line \in Seq(Piece) /\ FencedText(line) /\ Len(line) = Len(ours) + Len(ours)
    BY <1>6, <1>7, WordsJoin
  <2>2. two \in Seq(Piece) /\ FencedText(two) /\ Len(two) = Len(line) + Len(line)
    BY <1>7, <2>1, WordsJoin
  <2> QED BY <1>6, <2>1, <2>2
<1>9. text \in Seq(Piece) /\ Len(text) = 1 + 2 * n /\ FencedText(text)
  <2>1. CASE n = 1
    <3>1. text \in Seq(Piece) /\ FencedText(text) /\ Len(text) = Len(ours) + Len(line)
      BY <1>6, <1>7, <1>8, <2>1, WordsJoin
    <3> QED BY <1>6, <1>8, <2>1, <3>1
  <2>2. CASE n = 2
    <3>1. text \in Seq(Piece) /\ FencedText(text) /\ Len(text) = Len(ours) + Len(two)
      <4>1. text = ours \o two
        BY <1>7, <2>2
      <4> QED BY <1>6, <1>8, <4>1, WordsJoin
    <3> QED BY <1>6, <1>8, <2>2, <3>1
  <2> QED BY <1>3, <2>1, <2>2
<1>10. quotes \in Seq(Quote) /\ \A k \in DOMAIN quotes : quotes[k].offset + quotes[k].length <= Len(text)
  <2>1. \A k \in 1..n : Len(f[k].text) = 1
    BY <1>3, <1>4, <1>6
  <2>2. quotes = [k \in 1..n |-> [offset |-> 2 * k, length |-> 1, key |-> f[k].key, last |-> f[k].last]]
    BY <1>3, <1>4, <2>1 DEF _two_failures_quotes
  <2>3. quotes \in [1..n -> Quote]
    BY <1>3, <2>2 DEF Quote, Failure
  <2>4. quotes \in Seq(Quote)
    BY <1>3, <2>3, SeqDef
  <2> QED BY <1>3, <1>9, <2>2, <2>4
<1>11. \A r \in PromptRow : r.text = text /\ r.quotes = quotes => FencedText(_replay_assistant_text(r))
  BY <1>9, AnswerReplayed
<1>12. CASE _finish(text, quotes, FALSE)
  BY <1>1, <1>9, <1>10, <1>11, <1>12, FinishStep
<1>13. CASE Returns(text, 0)
  <2>1. 0 \in Nat /\ 0 <= steps
    BY DEF PromptInv
  <2> QED BY <1>1, <1>9, <1>13, <2>1, ReturnsStep
<1> QED BY <1>5, <1>12, <1>13

---------------------------------------------------------------------------
(* The steps of a conversation.                                            *)

(* A question and its answer to come. *)
LEMMA PostedStep ==
    ASSUME PromptInv, NEW u \in Users, NEW file \in BOOLEAN, Post(u, file)
    PROVE  PromptInv'
<1>1. PICK t \in Turns :
        /\ turnJob[t] = "none"
        /\ rows' = rows \o <<[BlankRow EXCEPT !.id = made + 1, !.by = u, !.turn = t, !.text = Says(u), !.file = file],
                             [BlankRow EXCEPT !.id = made + 2, !.role = "assistant", !.turn = t, !.done = FALSE]>>
        /\ made' = made + 2 /\ turnJob' = [turnJob EXCEPT ![t] = "queued"]
        /\ UNCHANGED <<again, shared, described, stack, recoveries, steps, events>>
  BY DEF Post
<1>2. PICK q, a, i, j, said :
        /\ i = made + 1 /\ j = made + 2 /\ said = Says(u)
        /\ q = [BlankRow EXCEPT !.id = i, !.by = u, !.turn = t, !.text = said, !.file = file]
        /\ a = [BlankRow EXCEPT !.id = j, !.role = "assistant", !.turn = t, !.done = FALSE]
  OBVIOUS
<1>3. /\ i \in Nat /\ j \in Nat /\ made \in Nat /\ made' \in Nat /\ made <= made'
      /\ i \in 1..made' /\ j \in 1..made' /\ MaxDepth \in Nat
  BY <1>1, <1>2, PromptAssumption DEF PromptInv
<1>4. u # "document" /\ said \in Seq(Piece) /\ DOMAIN said = {1} /\ said[1].who = u
  BY <1>2, WordsOf, PromptAssumption
<1>5. q \in PromptRow /\ q.id = i /\ q.role = "user" /\ q.depth = 0 /\ q.text = said /\ q.quotes = <<>>
  BY <1>2, <1>3, <1>4, BlankTyped DEF PromptRow
<1>6. /\ a \in PromptRow /\ a.id = j /\ a.role = "assistant" /\ a.turn = t /\ a.depth = 0 /\ a.text = <<>>
      /\ a.quotes = <<>>
  BY <1>2, <1>3, BlankTyped DEF PromptRow
<1>7. q \in SoundRow'
  BY <1>3, <1>4, <1>5, NoQuotes DEF SoundRow, RowSound
<1>8. a \in SoundRow'
  <2>1. FencedText(_replay_assistant_text(a))
    BY <1>6, AnswerReplayed, EmptyText
  <2> QED BY <1>3, <1>6, <2>1, NoQuotes DEF SoundRow, RowSound
<1>9. PICK n, more : n = Len(rows) /\ more = <<q, a>>
  OBVIOUS
<1>10. n \in Nat /\ DOMAIN rows = 1..n /\ rows \in Seq(PromptRow)
  BY <1>9, RowFacts, InvGivesTypes DEF PromptTypeOK
<1>11. /\ more \in Seq(PromptRow) /\ more \in Seq(SoundRow') /\ Len(more) = 2 /\ more[1] = q /\ more[2] = a
  BY <1>5, <1>6, <1>7, <1>8, <1>9
<1>12. rows' = rows \o more
  BY <1>1, <1>2, <1>9
<1>13. /\ DOMAIN rows' = 1..(n + 2) /\ \A k \in 1..(n + 2) : rows'[k] = IF k <= n THEN rows[k] ELSE more[k - n]
  <2>1. /\ rows \o more \in Seq(PromptRow) /\ Len(rows \o more) = n + 2
        /\ \A k \in 1..(n + 2) : (rows \o more)[k] = IF k <= n THEN rows[k] ELSE more[k - n]
    BY <1>9, <1>10, <1>11, ConcatProperties
  <2> QED BY <1>12, <2>1, LenProperties
<1>14. \A s : HasAnswer(s) => HasAnswer(s)'
  BY <1>10, <1>13 DEF HasAnswer
<1>15. HasAnswer(t)'
  <2>1. n + 2 \in DOMAIN rows' /\ rows'[n + 2] = a
    BY <1>10, <1>11, <1>13
  <2> QED BY <1>6, <2>1 DEF HasAnswer
<1>16. SoundRow \subseteq SoundRow' /\ SoundFrame \subseteq SoundFrame'
  BY <1>1, <1>3, <1>14, SoundnessStands
<1>17. rows' \in Seq(SoundRow')
  <2>1. rows \in Seq(SoundRow')
    BY <1>16, SeqMonotonic DEF PromptInv
  <2> QED BY <1>11, <1>12, <2>1, ConcatProperties
<1>18. stack' \in Seq(SoundFrame')
  BY <1>1, <1>16, SeqMonotonic DEF PromptInv
<1>19. \A s \in Turns : turnJob'[s] # "none" => HasAnswer(s)'
  BY <1>1, <1>14, <1>15 DEF PromptInv
<1> QED BY <1>1, <1>3, <1>17, <1>18, <1>19 DEF PromptInv

(* The prompt a turn begins with: rows replayed, files named. *)
LEMMA PromptBuilt ==
    ASSUME PromptInv, NEW t \in Turns, NEW native \in BOOLEAN, HasAnswer(t)
    PROVE  LET g == build_messages(t, native)
           IN  g \in LoopFrame /\ FrameSound(g) /\ g.turn = t /\ g.pc = "top"
<1>1. PICK u, files, replayed, seen, text, msgs :
        /\ u = rows[Question(t)].by /\ files = Attachments(t, u, native) /\ replayed = history_messages(t, u)
        /\ seen = {rows[i].id : i \in Recent(t)} /\ text = _attachments_block(files)
        /\ msgs = <<[role |-> "system", text |-> text]>>
  OBVIOUS
<1>2. Recent(t) \subseteq 1..Len(rows)
  BY AnswerIsThere, RowFacts DEF Recent
<1>3. /\ replayed \in SUBSET [at : Nat, message : Message]
      /\ \A h \in replayed : FencedText(h.message.text)
  <2>1. \A i \in Recent(t) :
            i \in Nat /\ Replayed(rows[i], u) \in Message /\ FencedText(Replayed(rows[i], u).text)
    BY <1>2, RowFacts, ReplayIsFenced
  <2> QED BY <1>1, <2>1 DEF history_messages
<1>4. seen \in SUBSET (1..made)
  BY <1>1, <1>2, RowFacts DEF SoundRow
<1>5. files \in SUBSET [turn : {0} \cup Turns, shown : {"named", "described", "native"}]
  <2>1. \A i \in DOMAIN rows : rows[i].turn \in {0} \cup Turns
    BY RowFacts DEF PromptRow
  <2>2. \A i, c : _attachment_line_tail(i, u, c) \in {"named", "described", "native"}
    BY DEF _attachment_line_tail
  <2> QED BY <1>1, <2>1, <2>2 DEF Attachments
<1>6. text \in Seq(Piece) /\ FencedText(text)
  <2>1. PICK ours, tail :
            /\ ours = Says("ours")
            /\ tail = IF \E f \in files : f.shown = "described" THEN Fence(Says("document")) ELSE <<>>
            /\ text = ours \o tail
    BY <1>1 DEF _attachments_block
  <2>2. tail \in Seq(Piece) /\ FencedText(tail)
    BY <2>1, WordsOf, FencedWords, EmptyText
  <2>3. ours \in Seq(Piece) /\ FencedText(ours)
    BY <2>1, WordsOf
  <2> QED BY <2>1, <2>2, <2>3, WordsJoin
<1>7. msgs \in Seq(Message) /\ \A i \in DOMAIN msgs : FencedText(msgs[i].text)
  <2>1. [role |-> "system", text |-> text] \in Message
    BY <1>6 DEF Message
  <2>2. msgs \in Seq(Message) /\ Len(msgs) = 1 /\ msgs[1].text = text
    BY <1>1, <2>1
  <2> QED BY <1>6, <2>2, LenProperties
<1>8. build_messages(t, native) = Frame(t, replayed, msgs, files, seen)
  BY <1>1 DEF build_messages
<1>9. PICK g : g = Frame(t, replayed, msgs, files, seen)
  OBVIOUS
<1>10. g \in LoopFrame /\ FrameSound(g) /\ g.turn = t /\ g.pc = "top"
  BY <1>3, <1>4, <1>5, <1>7, <1>9, FrameBegins
<1> QED BY <1>8, <1>9, <1>10

(* An attempt begins. *)
LEMMA RunTurnStep ==
    ASSUME PromptInv, NEW t \in Turns, NEW native \in BOOLEAN, _run_turn(t, native)
    PROVE  PromptInv'
<1>1. PICK a, g : a = Answer(t) /\ g = build_messages(t, native)
  OBVIOUS
<1>2. HasAnswer(t)
  BY DEF _run_turn, PromptInv
<1>3. g \in LoopFrame /\ FrameSound(g) /\ g.turn = t /\ g.pc = "top"
  BY <1>1, <1>2, PromptBuilt
<1>4. /\ rows' = [rows EXCEPT ![a].done = FALSE] /\ turnJob' = [turnJob EXCEPT ![t] = "running"]
      /\ stack' = <<g>> /\ recoveries' = 1 /\ steps' = MaxSteps
      /\ UNCHANGED <<made, posted, again, shared, described, events>>
  BY <1>1 DEF _run_turn
<1>5. a \in 1..Len(rows) /\ rows[a] \in SoundRow /\ rows[a] \in PromptRow /\ rows[a].role = "assistant"
  BY <1>1, <1>2, AnswerIsThere, RowFacts
<1>6. PICK r : r = [rows[a] EXCEPT !.done = FALSE]
  OBVIOUS
<1>7. /\ r \in PromptRow /\ r.id = rows[a].id /\ r.role = rows[a].role /\ r.turn = rows[a].turn
      /\ r.depth = rows[a].depth /\ r.text = rows[a].text /\ r.quotes = rows[a].quotes
  BY <1>5, <1>6 DEF PromptRow
<1>8. r \in SoundRow
  <2>1. _replay_assistant_text(r) = _replay_assistant_text(rows[a])
    BY <1>7 DEF _replay_assistant_text
  <2>2. FencedText(_replay_assistant_text(r))
    BY <1>5, <2>1 DEF SoundRow, RowSound
  <2> QED BY <1>5, <1>7, <2>2 DEF SoundRow, RowSound, QuotesFit
<1>9. SoundRow' = SoundRow
  BY <1>4 DEF SoundRow
<1>10. PICK n : n = Len(rows)
  OBVIOUS
<1>11. /\ rows' \in Seq(SoundRow) /\ DOMAIN rows' = 1..n /\ DOMAIN rows = 1..n
       /\ \A i \in 1..n : rows'[i] = IF i = a THEN r ELSE rows[i]
  <2>1. /\ [rows EXCEPT ![a] = r] \in Seq(SoundRow) /\ Len([rows EXCEPT ![a] = r]) = Len(rows)
        /\ \A i \in 1..Len(rows) : [rows EXCEPT ![a] = r][i] = IF i = a THEN r ELSE rows[i]
    BY <1>5, <1>8, ExceptSeq DEF PromptInv
  <2>2. rows' = [rows EXCEPT ![a] = r]
    BY <1>4, <1>6
  <2> QED BY <1>10, <2>1, <2>2, LenProperties, RowFacts
<1>12. \A s : HasAnswer(s) => HasAnswer(s)'
  BY <1>7, <1>11 DEF HasAnswer
<1>13. g \in SoundFrame'
  <2>1. g \in LoopFrame'
    BY <1>3, <1>4 DEF LoopFrame
  <2>2. FrameSound(g)'
    <3>1. Len(g.failures) = 0
      <4>1. g.failures = <<>>
        BY <1>1 DEF build_messages, Frame
      <4> QED BY <4>1
    <3> QED BY <1>3, <3>1 DEF FrameSound
  <2> QED BY <1>2, <1>3, <1>12, <2>1, <2>2 DEF SoundFrame
<1>14. stack' \in Seq(SoundFrame') /\ Len(stack') = 1
  BY <1>4, <1>13
<1>15. \A s \in Turns : turnJob'[s] # "none" => HasAnswer(s)'
  BY <1>2, <1>4, <1>12 DEF PromptInv
<1>16. /\ turnJob' \in [Turns -> {"none", "queued", "running", "finished", "done", "failed"}]
       /\ steps' \in 0..MaxSteps /\ recoveries' \in 0..1 /\ 1 <= MaxDepth + 1
  BY <1>4, PromptAssumption DEF PromptInv
<1> QED BY <1>4, <1>9, <1>11, <1>14, <1>15, <1>16 DEF PromptInv

(* The attempt is over without an answer. *)
LEMMA AttemptEnds ==
    ASSUME PromptInv, UNCHANGED <<rows, made, shared, described>>,
           stack' = <<>>, recoveries' = 1, steps' = 0, again' \subseteq Turns, events' \in 0..MaxEvents,
           NEW t \in Turns, HasAnswer(t), NEW outcome \in {"queued", "failed"}, turnJob' = [turnJob EXCEPT ![t] = outcome]
    PROVE  PromptInv'
<1>1. SoundRow' = SoundRow /\ \A s : HasAnswer(s)' = HasAnswer(s)
  BY DEF SoundRow, HasAnswer
<1>2. stack' \in Seq(SoundFrame') /\ Len(stack') = 0
  BY EmptySeq
<1>3. /\ turnJob' \in [Turns -> {"none", "queued", "running", "finished", "done", "failed"}]
      /\ steps' \in 0..MaxSteps /\ recoveries' \in 0..1 /\ 0 <= MaxDepth + 1
  BY PromptAssumption DEF PromptInv
<1>4. \A s \in Turns : turnJob'[s] # "none" => HasAnswer(s)'
  BY <1>1 DEF PromptInv
<1> QED BY <1>1, <1>2, <1>3, <1>4 DEF PromptInv

(* What happens beside the loop. *)
LEMMA BesideTheLoop ==
    ASSUME PromptInv,
           \/ \E on \in BOOLEAN : Share(on)
           \/ \E t \in Turns : Describes(t) \/ WriteBack(t) \/ Dies(t)
           \/ Raises
    PROVE  PromptInv'
<1>1. ASSUME NEW on \in BOOLEAN, Share(on)
      PROVE  PromptInv'
  BY <1>1, NothingRead DEF Share, PromptInv
<1>2. ASSUME NEW t \in Turns, Describes(t)
      PROVE  PromptInv'
  BY <1>2, NothingRead DEF Describes, PromptInv
<1>3. ASSUME NEW t \in Turns, WriteBack(t)
      PROVE  PromptInv'
  BY <1>3, NothingRead DEF WriteBack, PromptInv
<1>4. EventsLeft => events + 1 \in 0..MaxEvents
  <2>1. Cardinality({i \in DOMAIN rows : rows[i].role = "tool"}) \in Nat
    <3>1. IsFiniteSet(DOMAIN rows)
      BY RowFacts, FS_Interval
    <3> QED BY <3>1, FS_Subset, FS_CardinalityType
  <2> QED BY <2>1, PromptAssumption DEF EventsLeft, PromptInv
<1>5. ASSUME NEW t \in Turns, Dies(t)
      PROVE  PromptInv'
  <2>1. /\ turnJob[t] \in {"running", "finished"} /\ turnJob' = [turnJob EXCEPT ![t] = "queued"]
        /\ events' \in 0..MaxEvents /\ again' \subseteq Turns
        /\ UNCHANGED <<rows, made, shared, described>> /\ HasAnswer(t)
    BY <1>4, <1>5 DEF Dies, PromptInv
  <2>2. CASE turnJob[t] = "running"
    BY <1>5, <2>1, <2>2, AttemptEnds DEF Dies
  <2>3. CASE turnJob[t] = "finished"
    BY <1>5, <2>1, <2>3, NothingRead DEF Dies, PromptInv
  <2> QED BY <2>1, <2>2, <2>3
<1>6. CASE Raises
  <2>1. PICK t : t = Top.turn
    OBVIOUS
  <2>2. t \in Turns /\ HasAnswer(t)
    BY <1>6, <2>1, FrameFacts DEF Raises, Top, LoopFrame
  <2>3. events' \in 0..MaxEvents /\ again' \subseteq Turns
    BY <1>4, <1>6 DEF Raises, PromptInv
  <2> QED BY <1>6, <2>1, <2>2, <2>3, AttemptEnds DEF Raises
<1> QED BY <1>1, <1>2, <1>3, <1>5, <1>6

(* The invariant, over every step of Prompt. *)
LEMMA PromptInvHolds == PromptSpec => []PromptInv
<1>1. PromptInit => PromptInv
  <2> SUFFICES ASSUME PromptInit
               PROVE  PromptInv
    OBVIOUS
  <2>1. PICK r, said : said = Says(Owner) /\ r = [BlankRow EXCEPT !.id = 1, !.text = said]
    OBVIOUS
  <2>2. said \in Seq(Piece) /\ DOMAIN said = {1} /\ said[1].who # "document"
    BY <2>1, WordsOf, PromptAssumption
  <2>3. /\ r \in PromptRow /\ r.id = 1 /\ r.role = "user" /\ r.depth = 0 /\ r.text = said /\ r.quotes = <<>>
    BY <2>1, <2>2, BlankTyped DEF PromptRow
  <2>4. made = 1 /\ rows = <<r>> /\ stack = <<>>
    BY <2>1 DEF PromptInit
  <2>5. r \in SoundRow
    BY <2>2, <2>3, <2>4, NoQuotes, PromptAssumption DEF SoundRow, RowSound
  <2>6. rows \in Seq(SoundRow)
    BY <2>4, <2>5
  <2>7. stack \in Seq(SoundFrame) /\ Len(stack) = 0
    BY <2>4, EmptySeq
  <2>8. /\ turnJob \in [Turns -> {"none", "queued", "running", "finished", "done", "failed"}]
        /\ \A s \in Turns : turnJob[s] = "none"
        /\ again = {} /\ described = {} /\ shared = FALSE
    BY DEF PromptInit
  <2>9. recoveries \in 0..1 /\ steps \in 0..MaxSteps /\ events \in 0..MaxEvents /\ MaxDepth \in Nat
    BY PromptAssumption DEF PromptInit
  <2>10. Len(stack) <= MaxDepth + 1 /\ \A n \in 1..Len(stack) : n < Len(stack) => stack[n].pc = "top"
    BY <2>7, <2>9
  <2>11. made \in Nat /\ shared \in BOOLEAN /\ again \subseteq Turns /\ described \subseteq Turns
    BY <2>4, <2>8
  <2> QED BY <2>6, <2>7, <2>8, <2>9, <2>10, <2>11 DEF PromptInv
<1>2. PromptInv /\ [PromptNext]_promptVars => PromptInv'
  <2> SUFFICES ASSUME PromptInv, [PromptNext]_promptVars
               PROVE  PromptInv'
    OBVIOUS
  <2>1. CASE UNCHANGED promptVars
    BY <2>1, NothingRead DEF promptVars, PromptInv
  <2>2. ASSUME NEW u \in Users, NEW file \in BOOLEAN, Post(u, file)
        PROVE  PromptInv'
    BY <2>2, PostedStep
  <2>3. ASSUME NEW t \in Turns, NEW native \in BOOLEAN, _run_turn(t, native)
        PROVE  PromptInv'
    BY <2>3, RunTurnStep
  <2>4. ASSUME NEW late \in BOOLEAN, _honest_ending(late)
        PROVE  PromptInv'
    BY <2>4, HonestEndingStep
  <2> QED BY <2>1, <2>2, <2>3, <2>4, BesideTheLoop, CallsStep, RunAgentToolStep, AnswersStep, TwoFailuresStep
          DEF PromptNext
<1> QED BY <1>1, <1>2, PTL DEF PromptSpec

(***************************************************************************)
(* Rows, prompts and loops keep their types: what an answer quotes lies    *)
(* within it, and delegates are no deeper than MAX_AGENT_DEPTH.            *)
(***************************************************************************)
THEOREM PromptTypeCorrect == PromptSpec => []PromptTypeOK
BY PromptInvHolds, InvGivesTypes, PTL

(***************************************************************************)
(* A document's words reach no model unfenced, whichever tool, flow or     *)
(* delegate brings them, whatever ending quotes them and however often     *)
(* they are replayed, for any number of turns, steps, users and depths.    *)
(***************************************************************************)
THEOREM DocumentsAreFenced == PromptSpec => []DocumentWordsAreFenced
<1>1. PromptInv => DocumentWordsAreFenced
  <2> SUFFICES ASSUME PromptInv, NEW n \in DOMAIN stack, NEW m \in Messages(stack[n]), NEW p \in Pieces(m),
                      p.who = "document"
               PROVE  p.fenced
    BY DEF DocumentWordsAreFenced
  <2>1. FencedText(m.text)
    BY FrameFacts DEF FrameSound, Messages
  <2> QED BY <2>1 DEF FencedText, Pieces
<1> QED BY <1>1, PromptInvHolds, PTL
====================================================================================
