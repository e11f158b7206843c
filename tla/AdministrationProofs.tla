---------------------------- MODULE AdministrationProofs ----------------------------
(***************************************************************************)
(* What administrators and owners may rely on: the chunk table and its     *)
(* record under rebinds, ingests and re-encodes; the last administrator;   *)
(* the tags of a shared workstream; the sign-in lockout.                   *)
(***************************************************************************)
EXTENDS Registry, Sharing, SignIn, TLAPS, FiniteSetTheorems

(***************************************************************************)
(* The model registry.                                                     *)
(***************************************************************************)

Runs ==
    [step : {"none", "credited", "sweeping", "failed"}, credit : Models \cup {Unset},
     target : Models \cup {Unset}, todo : SUBSET Docs, bad : BOOLEAN]

(* A request that writes a connection back names one, with its model.      *)
SavesAModel == \A s \in Sessions : console[s].step = "save" => console[s].conn \in Conns /\ console[s].model \in Models

RegistryTypes == TypeOK /\ run \in Runs /\ SavesAModel

(* Everything a run has passed is encoded, or the run is remembered bad;   *)
(* while it is alone, nothing else embeds.                                 *)
RunIsHonest ==
    /\ run.step = "sweeping" => run.target \in Models
    /\ run.step = "sweeping" /\ ~run.bad =>
          \A d \in Docs \ run.todo : status[d] = "ready" => chunks[d] # Unset
    /\ Alone /\ ~RunIsOver => \A d \in Docs : ing[d] = Unset
    /\ Alone /\ run.step = "sweeping" /\ ~run.bad => \A d \in Docs \ run.todo : chunks[d] = run.target

RegistryInv == RegistryTypes /\ OneWidth /\ ReadyIsSearchable /\ RunIsHonest

(* The types, conjunct by conjunct, now and afterwards.                    *)
LEMMA RegistryParts ==
    /\ TypeOK <=>
        /\ env \in Envs
        /\ conns \in [Conns -> Models \cup {Unset}]
        /\ role \in {c \in Conns : conns[c] # Unset} \cup {Unset}
        /\ stamp \in Models \cup {Unset}
        /\ width \in {Dims[m] : m \in Models} \cup {Unset}
        /\ chunks \in [Docs -> Models \cup {Unset}]
        /\ status \in [Docs -> {"queued", "ready", "failed"}]
        /\ console \in [Sessions -> Request]
        /\ ing \in [Docs -> Models \cup {Unset}]
        /\ run.step \in {"none", "credited", "sweeping", "failed"}
        /\ {run.credit, run.target} \subseteq Models \cup {Unset}
        /\ run.todo \subseteq Docs /\ run.bad \in BOOLEAN
        /\ edits \in 0..MaxEdits /\ faults \in 0..MaxFaults
    /\ TypeOK' <=>
        /\ env' \in Envs
        /\ conns' \in [Conns -> Models \cup {Unset}]
        /\ role' \in {c \in Conns : conns'[c] # Unset} \cup {Unset}
        /\ stamp' \in Models \cup {Unset}
        /\ width' \in {Dims[m] : m \in Models} \cup {Unset}
        /\ chunks' \in [Docs -> Models \cup {Unset}]
        /\ status' \in [Docs -> {"queued", "ready", "failed"}]
        /\ console' \in [Sessions -> Request]
        /\ ing' \in [Docs -> Models \cup {Unset}]
        /\ run'.step \in {"none", "credited", "sweeping", "failed"}
        /\ {run'.credit, run'.target} \subseteq Models \cup {Unset}
        /\ run'.todo \subseteq Docs /\ run'.bad \in BOOLEAN
        /\ edits' \in 0..MaxEdits /\ faults' \in 0..MaxFaults
BY DEF TypeOK

(* The model in use is a model.                                            *)
LEMMA ActiveIsAModel ==
    ASSUME RegistryAssumption, TypeOK PROVE Active \in Models \cup {Unset}
BY DEF RegistryAssumption, TypeOK, Active

(* What a run's row may become.                                            *)
LEMMA RunValues ==
    ASSUME NEW r \in Runs
    PROVE  /\ NoRun \in Runs /\ NoRun.step = "none"
           /\ LET f == [NoRun EXCEPT !.step = "failed"] IN f \in Runs /\ f.step = "failed"
           /\ \A m \in Models : LET f == [NoRun EXCEPT !.step = "credited", !.credit = m] IN
                f \in Runs /\ f.step = "credited"
           /\ \A m \in Models : LET f == [r EXCEPT !.step = "sweeping", !.target = m, !.todo = Docs] IN
                f \in Runs /\ f.step = "sweeping" /\ f.target = m /\ f.todo = Docs
           /\ \A d : LET f == [r EXCEPT !.todo = @ \ {d}] IN
                f \in Runs /\ f.step = r.step /\ f.target = r.target /\ f.todo = r.todo \ {d} /\ f.bad = r.bad
           /\ \A d : LET f == [r EXCEPT !.todo = @ \ {d}, !.bad = TRUE] IN
                f \in Runs /\ f.step = r.step /\ f.target = r.target /\ f.todo = r.todo \ {d} /\ f.bad = TRUE
<1>1. NoRun \in Runs /\ NoRun.step = "none" BY DEF NoRun, Runs
<1>2. LET f == [NoRun EXCEPT !.step = "failed"] IN f \in Runs /\ f.step = "failed" BY DEF NoRun, Runs
<1>3. ASSUME NEW m \in Models
      PROVE  LET f == [NoRun EXCEPT !.step = "credited", !.credit = m] IN f \in Runs /\ f.step = "credited"
  BY DEF NoRun, Runs
<1>4. ASSUME NEW m \in Models
      PROVE  LET f == [r EXCEPT !.step = "sweeping", !.target = m, !.todo = Docs] IN
             f \in Runs /\ f.step = "sweeping" /\ f.target = m /\ f.todo = Docs
  BY DEF Runs
<1>5. ASSUME NEW d
      PROVE  LET f == [r EXCEPT !.todo = @ \ {d}] IN
             f \in Runs /\ f.step = r.step /\ f.target = r.target /\ f.todo = r.todo \ {d} /\ f.bad = r.bad
  BY DEF Runs
<1>6. ASSUME NEW d
      PROVE  LET f == [r EXCEPT !.todo = @ \ {d}, !.bad = TRUE] IN
             f \in Runs /\ f.step = r.step /\ f.target = r.target /\ f.todo = r.todo \ {d} /\ f.bad = TRUE
  BY DEF Runs
<1> QED BY <1>1, <1>2, <1>3, <1>4, <1>5, <1>6, Zenon

(* A console step touches no index: it keeps all but the types.            *)
LEMMA ConsoleKeepsIndex ==
    ASSUME RegistryInv, UNCHANGED index PROVE OneWidth' /\ ReadyIsSearchable' /\ RunIsHonest' /\ run' \in Runs
BY DEF RegistryInv, RegistryTypes, OneWidth, ReadyIsSearchable, RunIsHonest, RunIsOver, index

(* A step of the console keeps the registry's rows typed, lets no role be saved without a model, and
   touches no vector table. *)
LEMMA ConsoleTypes ==
    ASSUME RegistryAssumption, RegistryInv, ConsoleStep PROVE TypeOK' /\ SavesAModel' /\ UNCHANGED index
<1>0. /\ TypeOK /\ SavesAModel /\ MaxEdits \in Nat /\ Active \in Models \cup {Unset}
      /\ Unset \notin Conns /\ Unset \notin Models
  BY ActiveIsAModel DEF RegistryInv, RegistryTypes, RegistryAssumption
<1>1. UNCHANGED index
  BY DEF ConsoleStep, AddConnection, EditReads, EditSaves, EditStamps, RemoveReads, RemoveStamps, RemoveDeletes,
         AssignReads, AssignStamps, AssignBinds, RequestDies
<1>2. edits' \in 0..MaxEdits
  BY <1>0, RegistryParts
     DEF ConsoleStep, AddConnection, EditReads, EditSaves, EditStamps, RemoveReads, RemoveStamps, RemoveDeletes,
         AssignReads, AssignStamps, AssignBinds, RequestDies, Opens
<1>3. stamp' \in Models \cup {Unset}
  BY <1>0, RegistryParts
     DEF ConsoleStep, AddConnection, EditReads, EditSaves, EditStamps, RemoveReads, RemoveStamps, RemoveDeletes,
         AssignReads, AssignStamps, AssignBinds, RequestDies, Stamped, Request
(* A request opens, goes on and closes.                                    *)
<1> DEFINE ConsoleOK == console' \in [Sessions -> Request] /\ SavesAModel'
<1>a. NoRequest \in Request /\ NoRequest.step = "none"
  BY DEF NoRequest, Request
<1>b. ASSUME NEW s \in Sessions, NEW r \in Request, console' = [console EXCEPT ![s] = r],
             r.step = "save" => r.conn \in Conns /\ r.model \in Models
      PROVE  ConsoleOK
  BY <1>0, <1>b, RegistryParts DEF SavesAModel
<1>c. ASSUME NEW s \in Sessions, Closes(s) PROVE ConsoleOK
  BY <1>a, <1>b, <1>c DEF Closes
<1>d. ASSUME NEW s \in Sessions, NEW t \in {"stamp", "delete", "bind"}, Goes(s, t)
      PROVE  ConsoleOK
  <2>1. LET r == [console[s] EXCEPT !.step = t] IN r \in Request /\ r.step = t
    BY <1>0, RegistryParts DEF Request
  <2>2. console' = [console EXCEPT ![s] = [console[s] EXCEPT !.step = t]]
    BY <1>0, <1>d, RegistryParts DEF Goes
  <2> QED BY <1>b, <2>1, <2>2
<1>4. ConsoleOK
  <2>1. ASSUME NEW c \in Conns, NEW m \in Models, AddConnection(c, m) PROVE ConsoleOK
    BY <1>0, <2>1, RegistryParts DEF AddConnection, SavesAModel
  <2>2. ASSUME NEW s \in Sessions, NEW c \in Conns, NEW m \in Models, EditReads(s, c, m) PROVE ConsoleOK
    <3> DEFINE r == [step |-> "save", conn |-> c, model |-> m,
                     before |-> IF role = c /\ m # conns[c] THEN conns[c] ELSE Unset]
    <3>1. r \in Request /\ r.conn \in Conns /\ r.model \in Models
      BY <1>0, RegistryParts DEF Request
    <3> QED BY <1>b, <2>2, <3>1 DEF EditReads, Opens
  <2>3. ASSUME NEW s \in Sessions, NEW c \in Conns, RemoveReads(s, c) PROVE ConsoleOK
    <3> DEFINE r == [step |-> IF role = c THEN "remove" ELSE "delete", conn |-> c, model |-> Unset,
                     before |-> IF role = c THEN conns[c] ELSE Unset]
    <3>1. r \in Request /\ r.step # "save"
      BY <1>0, RegistryParts DEF Request
    <3> QED BY <1>b, <2>3, <3>1 DEF RemoveReads, Opens
  <2>4. ASSUME NEW s \in Sessions, NEW c \in Conns \cup {Unset}, AssignReads(s, c) PROVE ConsoleOK
    <3> DEFINE stamps == c # role /\ stamp = Unset /\ Active # Unset
    <3> DEFINE r == [step |-> IF stamps THEN "assign" ELSE "bind", conn |-> c, model |-> Unset,
                     before |-> IF stamps THEN Active ELSE Unset]
    <3>1. r \in Request /\ r.step # "save"
      BY <1>0 DEF Request
    <3>2. console' = [console EXCEPT ![s] = r]
      BY <2>4 DEF AssignReads, Opens
    <3> QED BY <1>b, <3>1, <3>2
  <2>5. ASSUME NEW s \in Sessions,
               \/ EditSaves(s) \/ EditStamps(s) \/ RemoveStamps(s) \/ RemoveDeletes(s)
               \/ AssignStamps(s) \/ AssignBinds(s) \/ RequestDies(s)
        PROVE  ConsoleOK
    BY <1>c, <1>d, <2>5
       DEF EditSaves, EditStamps, RemoveStamps, RemoveDeletes, AssignStamps, AssignBinds, RequestDies
  <2> QED BY <2>1, <2>2, <2>3, <2>4, <2>5 DEF ConsoleStep
(* Rows are added, changed and removed; the role follows a removed row.     *)
<1> DEFINE RowsOK == /\ conns' \in [Conns -> Models \cup {Unset}]
                     /\ role' \in {c \in Conns : conns'[c] # Unset} \cup {Unset}
<1> HIDE DEF ConsoleOK
<1>5. RowsOK
  <2>1. ASSUME UNCHANGED <<conns, role>> PROVE RowsOK
    BY <1>0, <2>1, RegistryParts
  <2>2. ASSUME NEW c \in Conns, NEW m \in Models, conns' = [conns EXCEPT ![c] = m], UNCHANGED role PROVE RowsOK
    BY <1>0, <2>2, RegistryParts
  <2>3. ASSUME NEW c \in Conns, NEW m \in Models, AddConnection(c, m) PROVE RowsOK
    BY <2>2, <2>3 DEF AddConnection
  <2>4. ASSUME NEW s \in Sessions, EditSaves(s) PROVE RowsOK
    <3>1. console[s].conn \in Conns /\ console[s].model \in Models
      BY <1>0, <2>4 DEF EditSaves, SavesAModel
    <3> QED BY <2>2, <2>4, <3>1 DEF EditSaves
  <2>5. ASSUME NEW s \in Sessions, RemoveDeletes(s) PROVE RowsOK
    <3>1. /\ conns' = [conns EXCEPT ![console[s].conn] = Unset]
          /\ role' = IF role = console[s].conn THEN Unset ELSE role
      BY <2>5 DEF RemoveDeletes
    <3> QED BY <1>0, <3>1, RegistryParts
  <2>6. ASSUME NEW s \in Sessions, AssignBinds(s) PROVE RowsOK
    <3>1. console[s].conn \in Conns \cup {Unset}
      BY <1>0, RegistryParts DEF Request
    <3>2. /\ UNCHANGED conns
          /\ role' = IF console[s].conn = Unset \/ conns[console[s].conn] # Unset THEN console[s].conn ELSE role
      BY <2>6 DEF AssignBinds
    <3> QED BY <1>0, <3>1, <3>2, RegistryParts
  <2>7. ASSUME NEW s \in Sessions, EditStamps(s) \/ RemoveStamps(s) \/ AssignStamps(s) \/ RequestDies(s) PROVE RowsOK
    BY <2>1, <2>7 DEF EditStamps, RemoveStamps, AssignStamps, RequestDies
  <2>8. ASSUME NEW s \in Sessions, NEW c \in Conns \cup {Unset},
               RemoveReads(s, c) \/ AssignReads(s, c) \/ \E m \in Models : EditReads(s, c, m)
        PROVE  RowsOK
    BY <2>1, <2>8 DEF RemoveReads, AssignReads, EditReads
  <2> HIDE DEF RowsOK
  <2> QED BY <2>3, <2>4, <2>5, <2>6, <2>7, <2>8 DEF ConsoleStep
<1>6. TypeOK'
  BY <1>0, <1>1, <1>2, <1>3, <1>4, <1>5, RegistryParts DEF index, ConsoleOK
<1> QED BY <1>1, <1>4, <1>6 DEF ConsoleOK

(* What the index's types are now.                                         *)
LEMMA IndexOfNow == ASSUME RegistryAssumption, RegistryInv PROVE
    /\ width \in {Dims[m] : m \in Models} \cup {Unset} /\ chunks \in [Docs -> Models \cup {Unset}]
    /\ status \in [Docs -> {"queued", "ready", "failed"}] /\ ing \in [Docs -> Models \cup {Unset}]
    /\ run \in Runs /\ Active \in Models \cup {Unset}
    /\ \A m \in Models : m # Unset /\ Dims[m] # Unset /\ Dims[m] \in Nat
BY ActiveIsAModel, RegistryParts DEF RegistryInv, RegistryTypes, RegistryAssumption

(* An index step leaves the registry alone.                                *)
LEMMA IndexTypes ==
    ASSUME RegistryAssumption, RegistryInv, UNCHANGED <<env, conns, role, console, edits>>,
           stamp' \in Models \cup {Unset},
           width' \in {Dims[m] : m \in Models} \cup {Unset}, chunks' \in [Docs -> Models \cup {Unset}],
           status' \in [Docs -> {"queued", "ready", "failed"}], ing' \in [Docs -> Models \cup {Unset}],
           run' \in Runs, UNCHANGED faults \/ Faulty
    PROVE  RegistryTypes'
<1>1. faults' \in 0..MaxFaults
  BY RegistryParts DEF RegistryInv, RegistryTypes, RegistryAssumption, Faulty
<1>2. /\ run'.step \in {"none", "credited", "sweeping", "failed"}
      /\ {run'.credit, run'.target} \subseteq Models \cup {Unset}
      /\ run'.todo \subseteq Docs /\ run'.bad \in BOOLEAN
  BY DEF Runs
<1>3. TypeOK'
  BY <1>1, <1>2, RegistryParts DEF RegistryInv, RegistryTypes
<1> QED BY <1>3 DEF RegistryInv, RegistryTypes, SavesAModel

(* One document is ingested: it is not listed as ready before its chunks   *)
(* are in the table, and they are of the table's width.                    *)
LEMMA IngestKeeps ==
    ASSUME RegistryAssumption, RegistryInv, NEW d \in Docs, IngestResolves(d) \/ IngestInserts(d) \/ IngestFails(d)
    PROVE  RegistryInv'
<1> USE IndexOfNow
<1>0. UNCHANGED <<env, conns, role, stamp, console, edits, run>> /\ (UNCHANGED faults \/ Faulty)
  BY DEF IngestResolves, IngestInserts, IngestFails, registry
<1>1. /\ width' \in {Dims[m] : m \in Models} \cup {Unset} /\ chunks' \in [Docs -> Models \cup {Unset}]
      /\ status' \in [Docs -> {"queued", "ready", "failed"}] /\ ing' \in [Docs -> Models \cup {Unset}]
  <2>1. CASE IngestResolves(d)
    BY <2>1 DEF IngestResolves
  <2>2. CASE IngestInserts(d)
    BY <2>2 DEF IngestInserts
  <2>3. CASE IngestFails(d)
    BY <2>3 DEF IngestFails
  <2> QED BY <2>1, <2>2, <2>3
<1>2. \A f \in Docs \ {d} : chunks'[f] = chunks[f] /\ status'[f] = status[f] /\ ing'[f] = ing[f]
  BY DEF IngestResolves, IngestInserts, IngestFails
<1>3. RegistryTypes'
  <2>1. stamp' \in Models \cup {Unset}
    BY <1>0, RegistryParts DEF RegistryInv, RegistryTypes
  <2> QED BY <1>0, <1>1, <2>1, IndexTypes
<1>4. OneWidth'
  <2>1. \A f \in Docs : chunks[f] # Unset => width = Dims[chunks[f]]
    BY DEF RegistryInv, OneWidth
  <2>2. CASE IngestResolves(d)
    <3>1. width' = width \/ width = Unset
      BY <2>2 DEF IngestResolves
    <3>2. chunks'[d] = chunks[d] \/ chunks'[d] = Unset
      BY <2>2 DEF IngestResolves
    <3>3. width = Unset => \A f \in Docs : chunks[f] = Unset
      BY <2>1
    <3> QED BY <1>2, <2>1, <2>2, <3>1, <3>2, <3>3 DEF OneWidth, IngestResolves
  <2>3. CASE IngestInserts(d)
    <3>1. width' = width \/ width = Unset
      BY <2>3 DEF IngestInserts
    <3>2. UNCHANGED chunks \/ (chunks'[d] = ing[d] /\ Dims[ing[d]] = width')
      BY <2>3 DEF IngestInserts
    <3>3. width = Unset => \A f \in Docs : chunks[f] = Unset
      BY <2>1
    <3> QED BY <1>2, <2>1, <3>1, <3>2, <3>3 DEF OneWidth
  <2>4. CASE IngestFails(d)
    BY <2>1, <2>4 DEF OneWidth, IngestFails
  <2> QED BY <2>2, <2>3, <2>4
<1>5. status'[d] = "ready" => chunks'[d] # Unset
  BY DEF IngestResolves, IngestInserts, IngestFails
<1>6. ReadyIsSearchable'
  BY <1>0, <1>2, <1>5 DEF RegistryInv, ReadyIsSearchable
<1>7. Alone /\ ~RunIsOver => ing[d] = Unset /\ UNCHANGED <<chunks, ing>>
  <2>1. Alone /\ ~RunIsOver => ing[d] = Unset
    BY DEF RegistryInv, RunIsHonest
  <2> QED BY <2>1 DEF IngestResolves, IngestInserts, IngestFails, Exclusive
<1>8. RunIsHonest'
  <2>1. run.step = "sweeping" => run.target \in Models
    BY DEF RegistryInv, RunIsHonest
  <2>2. run.step = "sweeping" /\ ~run.bad => \A f \in Docs \ run.todo : status[f] = "ready" => chunks[f] # Unset
    BY DEF RegistryInv, RunIsHonest
  <2>3. run.step = "sweeping" /\ ~run.bad => \A f \in Docs \ run.todo : status'[f] = "ready" => chunks'[f] # Unset
    BY <1>2, <1>5, <2>2
  <2>4. Alone /\ ~RunIsOver => \A f \in Docs : ing'[f] = Unset
    BY <1>7 DEF RegistryInv, RunIsHonest
  <2>5. Alone /\ run.step = "sweeping" /\ ~run.bad => \A f \in Docs \ run.todo : chunks'[f] = run.target
    BY <1>7 DEF RegistryInv, RunIsHonest, RunIsOver
  <2> QED BY <1>0, <2>1, <2>3, <2>4, <2>5 DEF RunIsHonest, RunIsOver
<1> QED BY <1>3, <1>4, <1>6, <1>8 DEF RegistryInv

(* A run begins, or is over.                                               *)
LEMMA RunBeginsOrEnds ==
    ASSUME RegistryAssumption, RegistryInv, RunCredits \/ RunEnds \/ RunDies PROVE RegistryInv'
<1> USE IndexOfNow
<1>0. UNCHANGED <<env, conns, role, console, edits, width, chunks, status, ing>> /\ (UNCHANGED faults \/ Faulty)
  BY DEF RunCredits, RunEnds, RunDies, registry
<1>1. stamp' \in Models \cup {Unset}
  <2>1. stamp' \in {stamp, run.credit}
    BY DEF RunCredits, RunEnds, RunDies, registry
  <2> QED BY <2>1, RegistryParts DEF RegistryInv, RegistryTypes
<1>2. /\ run' \in Runs
      /\ \/ run'.step = "credited" /\ (Alone => \A d \in Docs : ing[d] = Unset)
         \/ run'.step = "failed"
         \/ run'.step = "none" /\ run.step = "sweeping" /\ run.todo = {} /\ ~run.bad
  <2>1. CASE RunCredits
    <3>1. run' = [NoRun EXCEPT !.step = "credited", !.credit = Active] /\ Active \in Models
      BY <2>1 DEF RunCredits
    <3>2. run' \in Runs /\ run'.step = "credited"
      BY <3>1 DEF NoRun, Runs
    <3> QED BY <2>1, <3>2 DEF RunCredits
  <2>2. CASE RunEnds \/ RunDies
    <3>1. \/ run' = [NoRun EXCEPT !.step = "failed"]
          \/ run' = NoRun /\ run.step = "sweeping" /\ run.todo = {} /\ ~run.bad
      BY <2>2 DEF RunEnds, RunDies
    <3>2. ASSUME run' = [NoRun EXCEPT !.step = "failed"] PROVE run' \in Runs /\ run'.step = "failed"
      BY <3>2 DEF NoRun, Runs
    <3>3. ASSUME run' = NoRun PROVE run' \in Runs /\ run'.step = "none"
      BY <3>3 DEF NoRun, Runs
    <3> QED BY <3>1, <3>2, <3>3
  <2> QED BY <2>1, <2>2
<1>3. RegistryTypes'
  BY <1>0, <1>1, <1>2, IndexTypes
<1>4. OneWidth'
  BY <1>0 DEF RegistryInv, OneWidth
<1>5. ReadyIsSearchable'
  <2>1. CASE run'.step = "none"
    BY <1>0, <1>2, <2>1 DEF RegistryInv, ReadyIsSearchable, RunIsHonest
  <2> QED BY <2>1 DEF ReadyIsSearchable
<1>6. RunIsHonest'
  BY <1>0, <1>2 DEF RunIsHonest, RunIsOver
<1> QED BY <1>3, <1>4, <1>5, <1>6 DEF RegistryInv

(* A run starts to encode: a table that is dropped is empty.               *)
LEMMA RunResolvesKeeps ==
    ASSUME RegistryAssumption, RegistryInv, NEW reshape \in BOOLEAN, RunResolves(reshape) PROVE RegistryInv'
<1> USE IndexOfNow
<1>0. UNCHANGED <<env, conns, role, stamp, console, edits, status, ing, faults>> /\ run.step = "credited"
  BY DEF RunResolves, registry
<1>a. stamp' \in Models \cup {Unset} /\ status' \in [Docs -> {"queued", "ready", "failed"}]
  BY <1>0, RegistryParts DEF RegistryInv, RegistryTypes
<1>b. Alone => \A d \in Docs : ing'[d] = Unset
  BY <1>0 DEF RegistryInv, RunIsHonest, RunIsOver
<1>1. CASE Active = Unset
  <2>1. run' = [NoRun EXCEPT !.step = "failed"] /\ UNCHANGED <<width, chunks>>
    BY <1>1 DEF RunResolves
  <2>2. run' \in Runs /\ run'.step = "failed"
    BY <2>1 DEF NoRun, Runs
  <2>3. RegistryTypes'
    BY <1>0, <1>a, <2>1, <2>2, IndexTypes
  <2> QED BY <2>1, <2>2, <2>3 DEF RegistryInv, OneWidth, ReadyIsSearchable, RunIsHonest, RunIsOver
<1>2. CASE Active # Unset
  <2> DEFINE drop == width # Unset /\ (reshape \/ width # Dims[Active])
  <2>1. /\ Active \in Models /\ run' = [run EXCEPT !.step = "sweeping", !.target = Active, !.todo = Docs]
        /\ width' = IF drop \/ width = Unset THEN Dims[Active] ELSE width
        /\ chunks' = IF drop THEN [d \in Docs |-> Unset] ELSE chunks
    BY <1>2 DEF RunResolves, ToReencode
  <2>2. run' \in Runs /\ run'.step = "sweeping" /\ run'.target = Active /\ run'.todo = Docs
    <3> DEFINE r == run
    <3>1. r \in Runs /\ Active \in Models
      BY <2>1
    <3> HIDE DEF r
    <3>2. LET f == [r EXCEPT !.step = "sweeping", !.target = Active, !.todo = Docs] IN
          f \in Runs /\ f.step = "sweeping" /\ f.target = Active /\ f.todo = Docs
      BY <3>1 DEF Runs
    <3> QED BY <2>1, <3>2 DEF r
  <2>3. width' \in {Dims[m] : m \in Models} \cup {Unset} /\ chunks' \in [Docs -> Models \cup {Unset}]
    BY <2>1
  <2>4. RegistryTypes'
    BY <1>0, <1>a, <2>2, <2>3, IndexTypes
  <2>5. OneWidth'
    <3>1. CASE drop
      BY <2>1, <3>1 DEF OneWidth
    <3>2. CASE ~drop /\ width = Unset
      <4>1. \A d \in Docs : chunks[d] = Unset
        BY <3>2 DEF RegistryInv, OneWidth
      <4> QED BY <2>1, <3>2, <4>1 DEF OneWidth
    <3>3. CASE ~drop /\ width # Unset
      BY <2>1, <3>3 DEF RegistryInv, OneWidth
    <3> QED BY <3>1, <3>2, <3>3
  <2>6. ReadyIsSearchable' /\ RunIsHonest'
    BY <1>b, <2>1, <2>2 DEF ReadyIsSearchable, RunIsHonest
  <2> QED BY <2>4, <2>5, <2>6 DEF RegistryInv
<1> QED BY <1>1, <1>2

(* One document is encoded, or the run is remembered bad.                  *)
LEMMA RunEncodesKeeps ==
    ASSUME RegistryAssumption, RegistryInv, NEW d \in Docs, RunEncodes(d) PROVE RegistryInv'
<1> USE IndexOfNow
<1>0. /\ UNCHANGED <<env, conns, role, stamp, console, edits, width, status, ing>>
      /\ UNCHANGED faults \/ Faulty
      /\ run.step = "sweeping" /\ d \in run.todo
  BY DEF RunEncodes, registry
<1>a. /\ stamp' \in Models \cup {Unset} /\ status' \in [Docs -> {"queued", "ready", "failed"}]
      /\ width' \in {Dims[m] : m \in Models} \cup {Unset} /\ ing' \in [Docs -> Models \cup {Unset}]
      /\ run.target \in Models
  BY <1>0, RegistryParts DEF RegistryInv, RegistryTypes, RunIsHonest
<1>b. Alone => \A f \in Docs : ing'[f] = Unset
  BY <1>0 DEF RegistryInv, RunIsHonest, RunIsOver
<1>1. CASE /\ Dims[run.target] = width /\ chunks' = [chunks EXCEPT ![d] = run.target]
           /\ run' = [run EXCEPT !.todo = @ \ {d}]
  <2> DEFINE r == run
  <2>1. r \in Runs
    OBVIOUS
  <2> HIDE DEF r
  <2>2. LET f == [r EXCEPT !.todo = @ \ {d}] IN
        f \in Runs /\ f.step = r.step /\ f.target = r.target /\ f.todo = r.todo \ {d} /\ f.bad = r.bad
    BY <2>1 DEF Runs
  <2>3. /\ run' \in Runs /\ run'.step = "sweeping" /\ run'.target = run.target /\ run'.todo = run.todo \ {d}
        /\ run'.bad = run.bad
    BY <1>0, <1>1, <2>2 DEF r
  <2>4. /\ chunks' \in [Docs -> Models \cup {Unset}] /\ chunks'[d] = run.target /\ run.target # Unset
        /\ \A f \in Docs \ {d} : chunks'[f] = chunks[f]
    BY <1>1, <1>a
  <2>5. RegistryTypes'
    BY <1>0, <1>a, <2>3, <2>4, IndexTypes
  <2>6. OneWidth'
    BY <1>0, <1>1, <2>4 DEF RegistryInv, OneWidth
  <2>7. ReadyIsSearchable'
    BY <2>3 DEF ReadyIsSearchable
  <2>8. ASSUME ~run.bad, NEW f \in Docs \ run'.todo
        PROVE  (status'[f] = "ready" => chunks'[f] # Unset) /\ (Alone => chunks'[f] = run.target)
    <3>1. CASE f = d
      BY <2>4, <3>1
    <3>2. CASE f # d
      <4>1. f \in Docs \ run.todo /\ chunks'[f] = chunks[f] /\ status'[f] = status[f]
        BY <1>0, <2>3, <2>4, <3>2
      <4> QED BY <1>0, <2>8, <4>1 DEF RegistryInv, RunIsHonest
    <3> QED BY <3>1, <3>2
  <2>9. RunIsHonest'
    BY <1>a, <1>b, <2>3, <2>8 DEF RunIsHonest
  <2> QED BY <2>5, <2>6, <2>7, <2>9 DEF RegistryInv
<1>2. CASE /\ chunks' = [chunks EXCEPT ![d] = Unset]
           /\ run' = [run EXCEPT !.todo = @ \ {d}, !.bad = TRUE]
  <2> DEFINE r == run
  <2>1. r \in Runs
    OBVIOUS
  <2> HIDE DEF r
  <2>2. LET f == [r EXCEPT !.todo = @ \ {d}, !.bad = TRUE] IN
        f \in Runs /\ f.step = r.step /\ f.target = r.target /\ f.bad = TRUE
    BY <2>1 DEF Runs
  <2>3. run' \in Runs /\ run'.step = "sweeping" /\ run'.target = run.target /\ run'.bad = TRUE
    BY <1>0, <1>2, <2>2 DEF r
  <2>4. /\ chunks' \in [Docs -> Models \cup {Unset}] /\ chunks'[d] = Unset
        /\ \A f \in Docs \ {d} : chunks'[f] = chunks[f]
    BY <1>2
  <2>5. RegistryTypes'
    BY <1>0, <1>a, <2>3, <2>4, IndexTypes
  <2>6. OneWidth'
    BY <1>0, <2>4 DEF RegistryInv, OneWidth
  <2>7. ReadyIsSearchable' /\ RunIsHonest'
    BY <1>a, <1>b, <2>3 DEF ReadyIsSearchable, RunIsHonest
  <2> QED BY <2>5, <2>6, <2>7 DEF RegistryInv
<1> QED BY <1>1, <1>2 DEF RunEncodes

(* The fingerprint on record changes only at the end of a whole run.       *)
WholeRun ==
    stamp # Unset /\ stamp' # stamp => \E m \in Models : \A d \in Docs : chunks[d] = m /\ ing[d] = Unset

(* With one process alone, a step replaces an index's record only when every document is encoded with
   one model and none is being ingested. *)
LEMMA RecordStep ==
    ASSUME RegistryAssumption, Alone, RegistryInv, [Next]_vars PROVE WholeRun
<1>1. CASE ConsoleStep
  <2>1. \A m : stamp # Unset => Stamped(m) = stamp
    BY DEF Stamped
  <2> QED BY <1>1, <2>1 DEF WholeRun, ConsoleStep, AddConnection, EditReads, EditSaves, EditStamps, RemoveReads,
             RemoveStamps, RemoveDeletes, AssignReads, AssignStamps, AssignBinds, RequestDies
<1>2. CASE RunEnds
  <2>1. run.step = "sweeping" /\ run.todo = {} /\ (run.bad => UNCHANGED stamp)
    BY <1>2 DEF RunEnds
  <2>2. CASE run.bad
    BY <2>1, <2>2 DEF WholeRun
  <2>3. CASE ~run.bad
    <3>1. run.target \in Models /\ \A d \in Docs : chunks[d] = run.target /\ ing[d] = Unset
      BY <2>1, <2>3 DEF RegistryInv, RunIsHonest, RunIsOver
    <3> QED BY <3>1 DEF WholeRun
  <2> QED BY <2>2, <2>3
<1>3. CASE IndexStep /\ ~RunEnds
  <2>1. UNCHANGED stamp
    <3>1. ASSUME NEW d \in Docs, IngestResolves(d) \/ IngestInserts(d) \/ IngestFails(d) \/ RunEncodes(d)
          PROVE  UNCHANGED stamp
      BY <3>1 DEF IngestResolves, IngestInserts, IngestFails, RunEncodes, registry
    <3>2. ASSUME NEW reshape \in BOOLEAN, RunResolves(reshape) PROVE UNCHANGED stamp
      BY <3>2 DEF RunResolves, registry
    <3>3. RunCredits \/ RunDies => UNCHANGED stamp
      BY DEF RunCredits, RunDies, registry
    <3> QED BY <1>3, <3>1, <3>2, <3>3 DEF IndexStep
  <2> QED BY <2>1 DEF WholeRun
<1>4. CASE UNCHANGED vars
  BY <1>4 DEF WholeRun, vars
<1> QED BY <1>1, <1>2, <1>3, <1>4 DEF Next

(* A fresh installation has no record, no pass and no vector, so the registry's invariant holds. *)
LEMMA RegistryInit == ASSUME RegistryAssumption PROVE Init => RegistryInv
<1> SUFFICES ASSUME Init PROVE RegistryInv
  OBVIOUS
<1>1. /\ env \in Envs /\ conns = [c \in Conns |-> Unset] /\ role = Unset /\ stamp = Unset /\ width = Unset
      /\ chunks = [d \in Docs |-> Unset] /\ status = [d \in Docs |-> "queued"]
      /\ console = [s \in Sessions |-> NoRequest] /\ ing = [d \in Docs |-> Unset] /\ run = NoRun
      /\ edits = 0 /\ faults = 0
  BY DEF Init
<1>2. NoRun \in Runs /\ NoRun.step = "none" /\ NoRequest \in Request /\ NoRequest.step = "none"
  BY DEF NoRun, Runs, NoRequest, Request
<1>3. /\ run.step \in {"none", "credited", "sweeping", "failed"}
      /\ {run.credit, run.target} \subseteq Models \cup {Unset}
      /\ run.todo \subseteq Docs /\ run.bad \in BOOLEAN
  BY <1>1, <1>2 DEF Runs
<1>4. RegistryTypes
  BY <1>1, <1>2, <1>3 DEF RegistryTypes, TypeOK, SavesAModel, RegistryAssumption
<1> QED BY <1>1, <1>2, <1>4 DEF RegistryInv, OneWidth, ReadyIsSearchable, RunIsHonest, RunIsOver

(* Every step of the consoles, the re-embedding passes and the ingestions keeps the registry's
   invariant. *)
LEMMA RegistryStep ==
    ASSUME RegistryAssumption PROVE RegistryInv /\ [Next]_vars => RegistryInv'
<1> SUFFICES ASSUME RegistryInv, [Next]_vars PROVE RegistryInv'
  OBVIOUS
<1>1. CASE ConsoleStep
  <2>1. TypeOK' /\ SavesAModel' /\ UNCHANGED index
    BY <1>1, ConsoleTypes
  <2> QED BY <2>1, ConsoleKeepsIndex DEF RegistryInv, RegistryTypes
<1>2. CASE IndexStep
  BY <1>2, IngestKeeps, RunBeginsOrEnds, RunResolvesKeeps, RunEncodesKeeps DEF IndexStep
<1>3. CASE UNCHANGED vars
  <2>1. UNCHANGED index /\ UNCHANGED <<conns, role, stamp, console, edits>>
    BY <1>3 DEF vars, index
  <2>2. TypeOK' /\ SavesAModel'
    BY <2>1, RegistryParts DEF RegistryInv, RegistryTypes, SavesAModel, index
  <2> QED BY <2>1, <2>2, ConsoleKeepsIndex DEF RegistryInv, RegistryTypes
<1> QED BY <1>1, <1>2, <1>3 DEF Next

(* The registry's invariant holds in every reachable state. *)
LEMMA RegistryInvariant == ASSUME RegistryAssumption PROVE Spec => []RegistryInv
BY RegistryInit, RegistryStep, PTL DEF Spec

(* The registry, the console, the index and the run hold what they are     *)
(* declared to hold; a bound role names a connection that exists.          *)
THEOREM RegistryTypeCorrect == ASSUME RegistryAssumption PROVE Spec => []TypeOK
<1>1. RegistryInv => TypeOK
  BY DEF RegistryInv, RegistryTypes
<1> QED BY <1>1, RegistryInvariant, PTL

(* Whatever the order of rebinds, ingests and re-encodes, the table holds  *)
(* vectors of its own width only.                                          *)
THEOREM TableHasOneWidth == ASSUME RegistryAssumption PROVE Spec => []OneWidth
<1>1. RegistryInv => OneWidth
  BY DEF RegistryInv
<1> QED BY <1>1, RegistryInvariant, PTL

(* A document listed as ready is found by searches, unless a re-encode is  *)
(* under way or has failed, also where re-encodes and ingests overlap.     *)
THEOREM ReadyIsFound == ASSUME RegistryAssumption PROVE Spec => []ReadyIsSearchable
<1>1. RegistryInv => ReadyIsSearchable
  BY DEF RegistryInv
<1> QED BY <1>1, RegistryInvariant, PTL

(* Where re-encodes run alone, a recorded fingerprint is replaced only by  *)
(* a run that left every document encoded, and all with one model.         *)
THEOREM RecordIsEarned ==
    ASSUME RegistryAssumption, Alone PROVE Spec => OnlyAWholeRunReplacesTheRecord
<1>1. RegistryInv /\ [Next]_vars => [WholeRun]_vars
  BY RecordStep
<1>2. [WholeRun]_vars => [stamp # Unset /\ stamp' # stamp =>
         \E m \in Models : \A d \in Docs : chunks[d] = m /\ ing[d] = Unset]_vars
  BY DEF WholeRun
<1> QED BY <1>1, <1>2, RegistryInvariant, PTL DEF Spec, OnlyAWholeRunReplacesTheRecord

---------------------------------------------------------------------------
(***************************************************************************)
(* Accounts.                                                               *)
(***************************************************************************)

Forms == [op : {"form", "save"}, user : Users, active : BOOLEAN, super : BOOLEAN]

(* Accounts are whole, and so is a form in flight.                         *)
AccountsInv ==
    /\ account \in [Users -> Account]
    /\ req = [r \in Requests |-> req[r]]
    /\ \A r \in Requests : req[r].op \in {"form", "save"} => req[r] \in Forms

Administers(a) == a.exists /\ a.active /\ a.super

(* One column of one account changes.                                      *)
LEMMA AccountColumns ==
    ASSUME NEW a \in Account, NEW v \in BOOLEAN, NEW w \in BOOLEAN
    PROVE  /\ LET b == [a EXCEPT !.super = v] IN
              b \in Account /\ b.exists = a.exists /\ b.active = a.active /\ b.super = v
           /\ LET b == [a EXCEPT !.active = w] IN
              b \in Account /\ b.exists = a.exists /\ b.active = w /\ b.super = a.super
           /\ LET b == [a EXCEPT !.super = v, !.active = w] IN
              b \in Account /\ b.exists = a.exists /\ b.active = w /\ b.super = v
<1>1. LET b == [a EXCEPT !.super = v] IN b \in Account /\ b.exists = a.exists /\ b.active = a.active /\ b.super = v
  BY DEF Account
<1>2. LET b == [a EXCEPT !.active = w] IN b \in Account /\ b.exists = a.exists /\ b.active = w /\ b.super = a.super
  BY DEF Account
<1>3. LET b == [a EXCEPT !.super = v, !.active = w] IN
      b \in Account /\ b.exists = a.exists /\ b.active = w /\ b.super = v
  BY DEF Account
<1> QED BY <1>1, <1>2, <1>3

(* The account of u becomes b: somebody else, or u, still administers.     *)
LEMMA OneAccount ==
    ASSUME account \in [Users -> Account], NEW u, NEW b, account' = [account EXCEPT ![u] = b], b \in Account
    PROVE  /\ account' \in [Users -> Account]
           /\ (\E v \in Users \ {u} : Administers(account[v])) => HasAdministrator'
           /\ u \in Users /\ Administers(b) => HasAdministrator'
<1>1. account' \in [Users -> Account] /\ (\A v \in Users \ {u} : account'[v] = account[v]) /\ (u \in Users => account'[u] = b)
  OBVIOUS
<1>2. ASSUME NEW v \in Users \ {u}, Administers(account[v]) PROVE HasAdministrator'
  <2>1. account'[v] = account[v]
    BY <1>1
  <2> QED BY <1>2, <2>1 DEF Administers, HasAdministrator
<1>3. ASSUME u \in Users, Administers(b) PROVE HasAdministrator'
  BY <1>1, <1>3 DEF Administers, HasAdministrator
<1> QED BY <1>1, <1>2, <1>3

(* Whoever is not the last administrator leaves one behind.                *)
LEMMA NotTheLast ==
    ASSUME NEW u, HasAdministrator, ~LastAdmin(u) PROVE \E v \in Users \ {u} : Administers(account[v])
BY DEF HasAdministrator, LastAdmin, ActiveSuperusers, Administers

(* When there is an administrator and u is not one, somebody other than u is. *)
LEMMA SomebodyElse ==
    ASSUME NEW u, HasAdministrator, ~Administers(account[u]) PROVE \E v \in Users \ {u} : Administers(account[v])
BY DEF HasAdministrator, Administers

(* What an account's step must keep.                                       *)
KeepsAdmin == account' \in [Users -> Account] /\ (HasAdministrator => HasAdministrator')

(* A step that writes no account leaves the services their administrator. *)
LEMMA SameAccounts == ASSUME AccountsInv, UNCHANGED account PROVE KeepsAdmin
BY DEF AccountsInv, KeepsAdmin, HasAdministrator

(* A new account takes no administrator away, and the accounts stay typed. *)
LEMMA UserCreateKeeps ==
    ASSUME AccountsInv, NEW s, NEW u \in Users, NEW b \in BOOLEAN, UserCreate(s, u, b) PROVE KeepsAdmin
<1> DEFINE super == box.posture = "personal" \/ b
<1> DEFINE a == [exists |-> TRUE, active |-> TRUE, super |-> super]
<1>1. account' = [account EXCEPT ![u] = a] /\ ~account[u].exists
  BY DEF UserCreate, CreateUser
<1>2. a \in Account
  BY DEF Account
<1>3. ~Administers(account[u])
  BY <1>1 DEF Administers
<1> HIDE DEF a
<1> QED BY <1>1, <1>2, <1>3, OneAccount, SomebodyElse DEF AccountsInv, KeepsAdmin

(* The services of the users page.                                         *)
LEMMA EditUserKeeps ==
    ASSUME AccountsInv, NEW r \in Requests, EditUser(r) PROVE KeepsAdmin
<1> DEFINE u == req[r].user
<1> DEFINE a == account[u]
<1>0. account \in [Users -> Account]
  BY DEF AccountsInv
<1>a. CASE UNCHANGED account
  BY <1>a, SameAccounts
<1>b. CASE u \notin Users
  <2>1. UNCHANGED account
    BY <1>0, <1>b DEF EditUser, SetSuperuser, DeactivateUser, ReactivateUser
  <2> QED BY <2>1, SameAccounts
<1>c. ASSUME account' # account, u \in Users PROVE KeepsAdmin
  <2>0. a \in Account
    BY <1>0, <1>c
  <2>1. \/ account' = [account EXCEPT ![u].super = TRUE]
        \/ account' = [account EXCEPT ![u].super = FALSE] /\ ~LastAdmin(u)
        \/ account' = [account EXCEPT ![u].active = FALSE] /\ ~LastAdmin(u)
        \/ account' = [account EXCEPT ![u].active = TRUE]
    BY <1>c DEF EditUser, SetSuperuser, DeactivateUser, ReactivateUser
  <2>2. PICK b \in {[a EXCEPT !.super = TRUE], [a EXCEPT !.super = FALSE], [a EXCEPT !.active = FALSE], [a EXCEPT !.active = TRUE]} :
            /\ account' = [account EXCEPT ![u] = b]
            /\ b \in {[a EXCEPT !.super = TRUE], [a EXCEPT !.active = TRUE]} \/ ~LastAdmin(u)
    BY <1>0, <2>1
  <2> HIDE DEF a
  <2>3. b \in Account /\ (b \in {[a EXCEPT !.super = TRUE], [a EXCEPT !.active = TRUE]} => (Administers(a) => Administers(b)))
    <3>1. [a EXCEPT !.super = TRUE] \in Account /\ (Administers(a) => Administers([a EXCEPT !.super = TRUE]))
      <4> DEFINE c == [a EXCEPT !.super = TRUE]
      <4>1. c \in Account /\ c.exists = a.exists /\ c.active = a.active /\ c.super = TRUE
        BY <2>0 DEF Account
      <4> HIDE DEF c
      <4>2. c \in Account /\ (Administers(a) => Administers(c))
        BY <4>1, Zenon DEF Administers
      <4> QED BY <4>2 DEF c
    <3>2. [a EXCEPT !.active = TRUE] \in Account /\ (Administers(a) => Administers([a EXCEPT !.active = TRUE]))
      <4> DEFINE c == [a EXCEPT !.active = TRUE]
      <4>1. c \in Account /\ c.exists = a.exists /\ c.super = a.super /\ c.active = TRUE
        BY <2>0 DEF Account
      <4> HIDE DEF c
      <4>2. c \in Account /\ (Administers(a) => Administers(c))
        BY <4>1, Zenon DEF Administers
      <4> QED BY <4>2 DEF c
    <3>3. [a EXCEPT !.super = FALSE] \in Account /\ [a EXCEPT !.active = FALSE] \in Account
      BY <2>0 DEF Account
    <3> QED BY <3>1, <3>2, <3>3, Zenon
  <2>4. CASE ~LastAdmin(u)
    BY <1>0, <2>2, <2>3, <2>4, OneAccount, NotTheLast DEF KeepsAdmin
  <2>5. CASE Administers(a) => Administers(b)
    <3>1. CASE Administers(a)
      BY <1>0, <1>c, <2>2, <2>3, <2>5, <3>1, OneAccount DEF KeepsAdmin
    <3>2. CASE ~Administers(a)
      BY <1>0, <2>2, <2>3, <3>2, OneAccount, SomebodyElse DEF KeepsAdmin, a
    <3> QED BY <3>1, <3>2
  <2> QED BY <2>2, <2>3, <2>4, <2>5
<1> QED BY <1>a, <1>b, <1>c

(* The change form of the admin site, where a guarded column differs.      *)
LEMMA ApplyFormKeeps ==
    ASSUME AccountsInv, NEW r \in Requests, ApplyForm(r) PROVE KeepsAdmin
<1> DEFINE q == req[r]  u == q.user  a == account[u]
<1>0. account \in [Users -> Account] /\ q \in Forms /\ u \in Users /\ a \in Account
  BY DEF AccountsInv, ApplyForm, Forms
<1>a. CASE UNCHANGED account
  BY <1>a, SameAccounts
<1>b. CASE account' # account
  <2> DEFINE b == [a EXCEPT !.super = q.super, !.active = q.active]
  <2>1. /\ account' = [account EXCEPT ![u].super = q.super, ![u].active = q.active]
        /\ ~(a.super /\ ~q.super /\ LastAdmin(u))
        /\ ~(a.active /\ ~q.active /\ q.super /\ ActiveSuperusers \subseteq {u})
    BY <1>b DEF ApplyForm
  <2>2. account' = [account EXCEPT ![u] = b]
    BY <1>0, <2>1
  <2>3. b \in Account /\ b.exists = a.exists /\ b.active = q.active /\ b.super = q.super
    <3> DEFINE v == q.super  w == q.active
    <3>1. v \in BOOLEAN /\ w \in BOOLEAN /\ a \in Account
      BY <1>0 DEF Forms
    <3> HIDE DEF v, w, a
    <3>2. LET c == [a EXCEPT !.super = v, !.active = w] IN
          c \in Account /\ c.exists = a.exists /\ c.active = w /\ c.super = v
      BY <3>1 DEF Account
    <3> QED BY <3>2 DEF v, w
  <2> HIDE DEF b
  <2>4. CASE \E v \in Users \ {u} : Administers(account[v])
    BY <1>0, <2>2, <2>3, <2>4, OneAccount DEF KeepsAdmin
  <2>5. CASE ~HasAdministrator
    BY <1>0, <2>2, <2>3, <2>5, OneAccount DEF KeepsAdmin
  <2>6. CASE HasAdministrator /\ ~\E v \in Users \ {u} : Administers(account[v])
    <3>1. LastAdmin(u) /\ Administers(a)
      BY <2>6, NotTheLast, SomebodyElse
    <3>2. ActiveSuperusers \subseteq {u}
      BY <3>1 DEF LastAdmin
    <3>3. q.super /\ q.active
      BY <2>1, <3>1, <3>2 DEF Administers
    <3>4. Administers(b)
      BY <2>3, <3>1, <3>3, Zenon DEF Administers
    <3> QED BY <1>0, <2>2, <2>3, <3>4, OneAccount DEF KeepsAdmin
  <2> QED BY <2>4, <2>5, <2>6
<1> QED BY <1>a, <1>b

(* The save of the whole row keeps the types, and no more.                 *)
LEMMA SaveFormKeeps ==
    ASSUME AccountsInv, NEW r \in Requests, SaveForm(r) PROVE account' \in [Users -> Account]
<1> DEFINE q == req[r]  u == q.user  a == account[u]
<1>0. account \in [Users -> Account] /\ q \in Forms /\ u \in Users /\ a \in Account
  BY DEF AccountsInv, SaveForm, Forms
<1>1. account' = [account EXCEPT ![u] = [a EXCEPT !.super = q.super, !.active = q.active]]
  BY <1>0 DEF SaveForm
<1>2. [a EXCEPT !.super = q.super, !.active = q.active] \in Account
  BY <1>0 DEF Forms, Account
<1> QED BY <1>0, <1>1, <1>2

(* The requests in flight stay whole.                                      *)
FormsKept ==
    /\ req' = [r \in Requests |-> req'[r]]
    /\ \A r \in Requests : req'[r].op \in {"form", "save"} => req'[r] \in Forms

(* When one request's record changes, and it holds a form if it is editing, the requests in flight stay
   well formed. *)
LEMMA OneRequest ==
    ASSUME AccountsInv, NEW r \in Requests, NEW x, req' = [req EXCEPT ![r] = x],
           x.op \in {"form", "save"} => x \in Forms
    PROVE  FormsKept
<1>1. req'[r] = x /\ (\A s \in Requests \ {r} : req'[s] = req[s]) /\ req' = [s \in Requests |-> req'[s]]
  BY DEF AccountsInv
<1>2. ASSUME NEW s \in Requests, req'[s].op \in {"form", "save"} PROVE req'[s] \in Forms
  BY <1>1, <1>2 DEF AccountsInv
<1> QED BY <1>1, <1>2 DEF FormsKept

(* Every step of the account pages leaves the forms that requests hold between their read and their
   save well formed. *)
LEMMA RequestsKeep == ASSUME AccountsInv, AccountsNext PROVE FormsKept
<1>1. ASSUME NEW r \in Requests, req' = [req EXCEPT ![r] = Idle] PROVE FormsKept
  <2>1. Idle.op = "idle"
    BY DEF Idle
  <2> QED BY <1>1, <2>1, OneRequest
<1>2. ASSUME UNCHANGED req PROVE FormsKept
  BY <1>2 DEF AccountsInv, FormsKept
<1>3. ASSUME NEW s \in Signed, NEW u \in Users, NEW b \in BOOLEAN, UserCreate(s, u, b) PROVE FormsKept
  BY <1>2, <1>3 DEF UserCreate
<1>4. ASSUME NEW r \in Requests, NEW s \in Signed, NEW u \in Users,
             NEW op \in {"promote", "demote", "deactivate", "reactivate"}, LoadUser(r, s, u, op) PROVE FormsKept
  <2> DEFINE x == [op |-> op, user |-> u, seen |-> account[u]]
  <2>1. x.op \notin {"form", "save"}
    OBVIOUS
  <2> QED BY <1>4, <2>1, OneRequest DEF LoadUser
<1>5. ASSUME NEW r \in Requests, NEW s \in Signed, NEW u \in Users, NEW a \in BOOLEAN, NEW b \in BOOLEAN,
             LoadForm(r, s, u, a, b) PROVE FormsKept
  <2> DEFINE x == [op |-> "form", user |-> u, active |-> a, super |-> b]
  <2>1. x \in Forms
    BY DEF Forms
  <2> QED BY <1>5, <2>1, OneRequest DEF LoadForm
<1>6. ASSUME NEW r \in Requests, ApplyForm(r) PROVE FormsKept
  <2>1. req' = [req EXCEPT ![r] = Idle] \/ req' = [req EXCEPT ![r].op = "save"]
    BY <1>6 DEF ApplyForm
  <2>2. ASSUME req' = [req EXCEPT ![r].op = "save"] PROVE FormsKept
    <3> DEFINE x == [req[r] EXCEPT !.op = "save"]
    <3>1. req[r] \in Forms
      BY <1>6 DEF AccountsInv, ApplyForm
    <3>2. x \in Forms
      BY <3>1 DEF Forms
    <3>3. req' = [req EXCEPT ![r] = x]
      BY <2>2 DEF AccountsInv
    <3> QED BY <3>2, <3>3, OneRequest
  <2> QED BY <1>1, <2>1, <2>2
<1>7. ASSUME NEW r \in Requests, NEW s \in Signed, NEW change \in Changes, LoadPosture(r, s, change) PROVE FormsKept
  <2> DEFINE x == [op |-> "posture", row |-> PostureRow(box, change)]
  <2>1. x.op \notin {"form", "save"}
    OBVIOUS
  <2> QED BY <1>7, <2>1, OneRequest DEF LoadPosture
<1>8. ASSUME NEW r \in Requests, EditUser(r) \/ SaveForm(r) \/ SavePosture(r) PROVE FormsKept
  BY <1>1, <1>8 DEF EditUser, SaveForm, SavePosture
<1> QED BY <1>3, <1>4, <1>5, <1>6, <1>7, <1>8 DEF AccountsNext

(* Every step but the whole-row save keeps an administrator.               *)
LEMMA AccountsStep ==
    ASSUME AccountsInv, AccountsNext
    PROVE  AccountsInv' /\ ((\E r \in Requests : SaveForm(r)) \/ KeepsAdmin)
<1>1. (\E r \in Requests : SaveForm(r)) \/ KeepsAdmin
  <2>1. ASSUME NEW r \in Requests, NEW s \in Signed, NEW u \in Users,
               \/ \E op \in {"promote", "demote", "deactivate", "reactivate"} : LoadUser(r, s, u, op)
               \/ \E a, b \in BOOLEAN : LoadForm(r, s, u, a, b)
        PROVE  KeepsAdmin
    BY <2>1, SameAccounts DEF LoadUser, LoadForm
  <2>2. ASSUME NEW r \in Requests, NEW s \in Signed, NEW change \in Changes, LoadPosture(r, s, change) PROVE KeepsAdmin
    BY <2>2, SameAccounts DEF LoadPosture
  <2>3. ASSUME NEW r \in Requests, SavePosture(r) PROVE KeepsAdmin
    BY <2>3, SameAccounts DEF SavePosture
  <2> QED BY <2>1, <2>2, <2>3, UserCreateKeeps, EditUserKeeps, ApplyFormKeeps DEF AccountsNext
<1>2. account' \in [Users -> Account]
  BY <1>1, SaveFormKeeps DEF KeepsAdmin
<1> QED BY <1>1, <1>2, RequestsKeep DEF AccountsInv, FormsKept

(* In every reachable state the accounts, and the forms read from them that requests still hold, are
   well formed. *)
LEMMA AccountsInvariant == AccountsSpec => []AccountsInv
<1>1. IdentityInit => AccountsInv
  <2> SUFFICES ASSUME IdentityInit PROVE AccountsInv
    OBVIOUS
  <2>1. account = [u \in Users |-> Nobody] /\ req = [r \in Requests |-> Idle]
    BY DEF IdentityInit
  <2>2. Nobody \in Account /\ Idle.op = "idle"
    BY DEF Nobody, Account, Idle
  <2> QED BY <2>1, <2>2 DEF AccountsInv
<1>2. AccountsInv /\ [AccountsNext]_idvars => AccountsInv'
  <2>1. AccountsInv /\ UNCHANGED idvars => AccountsInv'
    BY DEF AccountsInv, idvars
  <2> QED BY <2>1, AccountsStep
<1> QED BY <1>1, <1>2, PTL DEF AccountsSpec

(* Whatever demotions, deactivations and forms of different administrators *)
(* race, no step but the whole-row save of the admin site's form takes the *)
(* last active administrator away.                                         *)
THEOREM LastAdministratorStays == AccountsSpec => ServicesKeepAnAdministrator
<1> DEFINE Kept == (\E r \in Requests : SaveForm(r)) \/ (HasAdministrator => HasAdministrator')
<1>1. AccountsInv /\ [AccountsNext]_idvars => [Kept]_idvars
  BY AccountsStep DEF KeepsAdmin
<1>2. [Kept]_idvars => [(\E r \in Requests : SaveForm(r)) \/ (HasAdministrator => HasAdministrator')]_idvars
  OBVIOUS
<1> HIDE DEF Kept
<1> QED BY <1>1, <1>2, AccountsInvariant, PTL DEF AccountsSpec, ServicesKeepAnAdministrator

---------------------------------------------------------------------------
(***************************************************************************)
(* Shared workstreams.                                                     *)
(***************************************************************************)

StreamRows == [state : RowStates, owner : Principals \cup {None}, wall : SUBSET Ents, tags : SUBSET Ents]
ConvRows ==
    [state : RowStates, owner : Principals \cup {None}, stream : Streams \cup {None},
     tags : SUBSET Ents, text : SUBSET Ents]
Starts == [op : {"start"}, who : Principals, conv : Convs, stream : Streams \cup {None}]
Copies ==
    [op : {"copy"}, who : Principals, from : Convs, conv : Convs, stream : Streams \cup {None}, text : SUBSET Ents]

RowsTyped == stream \in [Streams -> StreamRows] /\ conv \in [Convs -> ConvRows]
PageTyped == (page.op = "start" => page \in Starts) /\ (page.op = "copy" => page \in Copies)

(* A conversation is in a stream that is there, and carries no tag its     *)
(* stream does not.                                                        *)
Contained ==
    \A c \in Convs : conv[c].stream # None =>
        /\ stream[conv[c].stream].state = "live"
        /\ conv[c].tags \subseteq stream[conv[c].stream].tags

(* The copy that is being made comes from a conversation of its stream, or *)
(* from one that was deleted with its tags.                                *)
CopyHasItsSource ==
    page.op = "copy" =>
        /\ page.stream # None => stream[page.stream].state # "new"
        /\ \/ conv[page.from].state = "live" /\ conv[page.from].stream = page.stream
           \/ conv[page.from].state = "gone" /\ conv[page.from].tags = {}

SharingInv == RowsTyped /\ PageTyped /\ Contained /\ CopyHasItsSource /\ grants \subseteq Grant

(* The rows that are written from the empty ones: a conversation that was  *)
(* made, copied or deleted, a stream that was made or deleted.             *)
LEMMA NewRows ==
    ASSUME NEW p \in Principals \cup {None}, NEW s \in RowStates, NEW m \in Streams \cup {None}
    PROVE  /\ LET x == [NoStream EXCEPT !.state = s] IN x \in StreamRows /\ x.state = s /\ x.tags = {}
           /\ LET x == [NoConv EXCEPT !.state = s] IN
              x \in ConvRows /\ x.state = s /\ x.stream = None /\ x.tags = {}
           /\ LET x == [NoConv EXCEPT !.state = s, !.owner = p] IN
              x \in ConvRows /\ x.state = s /\ x.stream = None /\ x.tags = {}
           /\ LET x == [NoConv EXCEPT !.state = s, !.owner = p, !.stream = m] IN
              x \in ConvRows /\ x.state = s /\ x.stream = m /\ x.tags = {}
BY DEF NoStream, NoConv, StreamRows, ConvRows, RowStates

(* Whoever asks is a principal.                                            *)
LEMMA CallersArePrincipals == Callers \subseteq Principals
BY DEF Callers, PrincipalFor, UserRow, Principals, Signed

(* A step that leaves every conversation where it is and every stream with *)
(* its state and tags.                                                     *)
Undisturbed ==
    /\ \A c \in Convs : /\ conv'[c].state = conv[c].state /\ conv'[c].stream = conv[c].stream
                        /\ conv'[c].tags = conv[c].tags
    /\ \A w \in Streams : stream'[w].state = stream[w].state /\ stream'[w].tags = stream[w].tags

(* A step that moves no row's state, place or tags and no request in flight keeps what the shares and
   the copies rest on. *)
LEMMA UndisturbedKeeps ==
    ASSUME SharingInv, Undisturbed, RowsTyped', UNCHANGED page, grants' \subseteq Grant
    PROVE  SharingInv'
<1>1. PageTyped'
  BY DEF SharingInv, PageTyped
<1>2. \A c \in Convs : conv[c].stream \in Streams \cup {None}
  BY DEF SharingInv, RowsTyped, ConvRows
<1>3. Contained'
  BY <1>2 DEF SharingInv, Contained, Undisturbed
<1>4. CopyHasItsSource'
  <2>1. page.op = "copy" => page.stream \in Streams \cup {None} /\ page.from \in Convs
    BY DEF SharingInv, PageTyped, Copies
  <2> QED BY <2>1 DEF SharingInv, CopyHasItsSource, Undisturbed
<1> QED BY <1>1, <1>3, <1>4 DEF SharingInv

(* A step that touches neither conversations nor streams nor the page.     *)
LEMMA ElsewhereKeeps ==
    ASSUME SharingInv, UNCHANGED <<stream, conv, page>>, grants' \subseteq Grant PROVE SharingInv'
<1>1. Undisturbed /\ RowsTyped'
  BY DEF Undisturbed, SharingInv, RowsTyped
<1> QED BY <1>1, UndisturbedKeeps

(* One row becomes x.                                                      *)
LEMMA OneConv ==
    ASSUME SharingInv, NEW c, NEW x \in ConvRows, conv' = [conv EXCEPT ![c] = x], UNCHANGED stream
    PROVE  /\ RowsTyped' /\ (c \in Convs => conv'[c] = x)
           /\ \A d \in Convs : d # c => conv'[d] = conv[d]
BY DEF SharingInv, RowsTyped

(* When one stream's row is written with a well-typed row, the rows stay typed and the others are what
   they were. *)
LEMMA OneStream ==
    ASSUME SharingInv, NEW w, NEW x \in StreamRows, stream' = [stream EXCEPT ![w] = x], UNCHANGED conv
    PROVE  /\ RowsTyped' /\ (w \in Streams => stream'[w] = x)
           /\ \A v \in Streams : v # w => stream'[v] = stream[v]
BY DEF SharingInv, RowsTyped

(* What the invariant says, for use.                                       *)
LEMMA SharingNow == ASSUME SharingInv PROVE
    /\ stream \in [Streams -> StreamRows] /\ conv \in [Convs -> ConvRows] /\ grants \subseteq Grant
    /\ \A c \in Convs : conv[c].stream \in Streams \cup {None}
    /\ \A c \in Convs : conv[c].stream # None =>
        stream[conv[c].stream].state = "live" /\ conv[c].tags \subseteq stream[conv[c].stream].tags
    /\ page.op = "start" => page \in Starts /\ page.stream \in Streams \cup {None} /\ page.who \in Principals
                            /\ page.conv \in Convs
    /\ page.op = "copy" => /\ page \in Copies /\ page.stream \in Streams \cup {None} /\ page.who \in Principals
                           /\ page.conv \in Convs /\ page.from \in Convs /\ page.text \in SUBSET Ents
BY DEF SharingInv, RowsTyped, PageTyped, Contained, ConvRows, Starts, Copies

(* A stream is made, or its wall is changed.                               *)
LEMMA StreamPagesKeep ==
    ASSUME SharingInv, NEW p \in Callers, NEW w \in Streams, NEW wanted \in SUBSET Ents,
           WorkstreamNew(p, w, wanted) \/ WorkstreamScope(p, w, wanted)
    PROVE  SharingInv'
<1> USE SharingNow
<1>0. p \in Principals /\ UNCHANGED <<conv, page, grants>>
  BY CallersArePrincipals DEF WorkstreamNew, WorkstreamScope, idRows
<1>1. CASE WorkstreamNew(p, w, wanted)
  <2> DEFINE x == [[NoStream EXCEPT !.state = "live", !.owner = p] EXCEPT !.wall = wanted]
  <2>1. x \in StreamRows /\ x.state = "live"
    BY <1>0 DEF NoStream, StreamRows, RowStates
  <2>2. stream' = [stream EXCEPT ![w] = x] /\ stream[w].state = "new"
    BY <1>1 DEF WorkstreamNew, NewStream
  <2> HIDE DEF x
  <2>3. RowsTyped' /\ stream'[w] = x /\ \A v \in Streams : v # w => stream'[v] = stream[v]
    BY <1>0, <2>1, <2>2, OneStream
  <2>4. \A c \in Convs : conv[c].stream # w \/ conv[c].stream = None
    BY <2>2
  <2>5. Contained'
    BY <1>0, <2>3, <2>4 DEF Contained
  <2>6. CopyHasItsSource'
    BY <1>0, <2>1, <2>3 DEF SharingInv, CopyHasItsSource
  <2> QED BY <1>0, <2>3, <2>5, <2>6 DEF SharingInv, PageTyped
<1>2. CASE WorkstreamScope(p, w, wanted)
  <2> DEFINE x == [stream[w] EXCEPT !.wall = wanted]
  <2>1. x \in StreamRows /\ x.state = stream[w].state /\ x.tags = stream[w].tags
    <3>1. stream[w] \in StreamRows
      OBVIOUS
    <3> QED BY <3>1 DEF StreamRows
  <2>2. stream' = [stream EXCEPT ![w] = x]
    BY <1>2 DEF WorkstreamScope
  <2> HIDE DEF x
  <2>3. RowsTyped' /\ stream'[w] = x /\ \A v \in Streams : v # w => stream'[v] = stream[v]
    BY <1>0, <2>1, <2>2, OneStream
  <2>4. Undisturbed
    BY <1>0, <2>1, <2>3 DEF Undisturbed
  <2> QED BY <1>0, <2>3, <2>4, UndisturbedKeeps
<1> QED BY <1>1, <1>2

(* Shares, labels, the posture and the two pages that only count are       *)
(* elsewhere.                                                              *)
LEMMA ElsewhereSteps ==
    ASSUME SharingInv,
           \/ \E p \in Callers, w \in Streams, s \in Subjects : ShareStreamPage(p, w, s)
           \/ \E p \in Callers, c \in Convs, s \in Subjects, l \in Levels : ShareConversation(p, c, s, l)
           \/ \E p \in Callers, x \in shares : RevokeShare(p, x)
           \/ \E p \in Callers, w \in Streams : OpenDelete(p, w)
           \/ \E p \in Callers, t \in Tools, E \in SUBSET Ents : SetToolLabels(p, t, E)
           \/ \E p \in Callers, t \in Tools, e \in Ents, b \in BOOLEAN : EntitlementAxisAction(p, e, t, b)
           \/ SwitchPosture
    PROVE  SharingInv'
<1>1. UNCHANGED <<stream, conv, page, grants>>
  BY DEF ShareStreamPage, ShareConversation, RevokeShare, OpenDelete, SetToolLabels, EntitlementAxisAction,
         SwitchPosture, idRows
<1> QED BY <1>1, ElsewhereKeeps DEF SharingInv

(* The pages of groups and entitlements write grants of the right form.    *)
LEMMA GrantsStayGrants ==
    ASSUME SharingInv, ChangeHoldings PROVE grants' \subseteq Grant
<1> USE SharingNow
<1>1. PICK p \in Callers : \/ EntitlementAction(p) \/ GroupEdit(p) \/ GroupsPage(p)
                           \/ \E e \in Ents : CreateEntitlement(p, e)
  BY DEF ChangeHoldings
<1>2. CASE EntitlementAction(p)
  <2>1. PICK e \in Ents : \/ \E s \in Users \cup Groups, k \in Roles : GrantTo(p, e, s, k)
                          \/ \E g \in grants : RevokeGrant(p, g)
                          \/ \E g \in grants, k \in Roles : SetGrantRole(p, g, k)
    BY <1>2 DEF EntitlementAction
  <2>2. ASSUME NEW s \in Users \cup Groups, NEW k \in Roles, GrantTo(p, e, s, k) PROVE grants' \subseteq Grant
    BY <2>2 DEF GrantTo, Grant
  <2>3. ASSUME NEW g \in grants, RevokeGrant(p, g) PROVE grants' \subseteq Grant
    BY <2>3 DEF RevokeGrant
  <2>4. ASSUME NEW g \in grants, NEW k \in Roles, SetGrantRole(p, g, k) PROVE grants' \subseteq Grant
    <3>1. g \in Grant
      OBVIOUS
    <3>2. [g EXCEPT !.role = k] \in Grant
      BY <3>1 DEF Grant
    <3> QED BY <2>4, <3>2 DEF SetGrantRole
  <2> QED BY <2>1, <2>2, <2>3, <2>4
<1>3. CASE GroupEdit(p) \/ GroupsPage(p) \/ \E e \in Ents : CreateEntitlement(p, e)
  BY <1>3 DEF GroupEdit, GroupsPage, CreateEntitlement, DeleteGroup, AddGroupMember, RemoveGroupMember, CreateGroup
<1> QED BY <1>1, <1>2, <1>3

(* A change of the groups, the memberships and the grants touches no stream, no conversation and no
   request in flight. *)
LEMMA HoldingsKeep == ASSUME SharingInv, ChangeHoldings PROVE SharingInv'
<1>1. UNCHANGED <<stream, conv, page>>
  BY DEF ChangeHoldings
<1> QED BY <1>1, GrantsStayGrants, ElsewhereKeeps

(* A request that will make a conversation notes what it read.             *)
LEMMA PagesOpen ==
    ASSUME SharingInv, NEW p \in Callers, NEW c \in Convs,
           \/ \E w \in Streams \cup {None} : OpenStart(p, c, w)
           \/ \E d \in Convs : CopyTurns(p, c, d)
    PROVE  SharingInv'
<1> USE SharingNow
<1>1. UNCHANGED <<stream, conv, grants>>
  BY DEF OpenStart, CopyTurns, idRows
<1>2. RowsTyped' /\ Contained' /\ grants' \subseteq Grant
  BY <1>1 DEF SharingInv, RowsTyped, Contained
<1>3. ASSUME NEW w \in Streams \cup {None}, OpenStart(p, c, w) PROVE PageTyped' /\ CopyHasItsSource'
  BY <1>3, CallersArePrincipals DEF OpenStart, PageTyped, CopyHasItsSource, Starts, Copies
<1>4. ASSUME NEW d \in Convs, CopyTurns(p, c, d) PROVE PageTyped' /\ CopyHasItsSource'
  <2>1. page' = [op |-> "copy", who |-> p, from |-> c, conv |-> d, stream |-> conv[c].stream, text |-> conv[c].text]
        /\ conv[c].state = "live"
    BY <1>4 DEF CopyTurns, VisibleConversations
  <2>2. conv[c] \in ConvRows
    OBVIOUS
  <2>3. conv[c].text \in SUBSET Ents /\ conv[c].stream \in Streams \cup {None}
    BY <2>2 DEF ConvRows
  <2>4. page' \in Copies /\ page'.op = "copy" /\ page'.from = c /\ page'.stream = conv[c].stream
    BY <2>1, <2>3, CallersArePrincipals DEF Copies
  <2>5. page'.stream # None => stream'[page'.stream].state # "new"
    BY <1>1, <2>4
  <2> QED BY <1>1, <2>1, <2>4, <2>5 DEF PageTyped, CopyHasItsSource
<1> QED BY <1>2, <1>3, <1>4 DEF SharingInv

(* One conversation becomes x, and nothing is being copied any more, or    *)
(* what is being copied still has its source.                              *)
LEMMA ConvBecomes ==
    ASSUME SharingInv, NEW c \in Convs, NEW x \in ConvRows, conv' = [conv EXCEPT ![c] = x],
           UNCHANGED <<stream, grants>>, page'.op \notin {"start", "copy"} \/ UNCHANGED page,
           x.stream # None => stream[x.stream].state = "live" /\ x.tags \subseteq stream[x.stream].tags,
           page'.op = "copy" => page.from # c \/ (x.state = "gone" /\ x.tags = {})
    PROVE  SharingInv'
<1> USE SharingNow
<1>1. RowsTyped' /\ conv'[c] = x /\ \A d \in Convs : d # c => conv'[d] = conv[d]
  BY OneConv
<1>2. PageTyped' /\ grants' \subseteq Grant
  BY DEF SharingInv, PageTyped
<1>3. Contained'
  BY <1>1 DEF Contained
<1>4. CopyHasItsSource'
  BY <1>1 DEF SharingInv, CopyHasItsSource
<1> QED BY <1>1, <1>2, <1>3, <1>4 DEF SharingInv

(* The page drops its request without a row.                               *)
LEMMA PageDrops == ASSUME SharingInv, page' = NoPage, UNCHANGED <<stream, conv, grants>> PROVE SharingInv'
BY DEF SharingInv, RowsTyped, PageTyped, Contained, CopyHasItsSource, NoPage

(* conversation_start's second half.                                       *)
LEMMA FinishStartKeeps == ASSUME SharingInv, FinishStart PROVE SharingInv'
<1> USE SharingNow
<1>1. page.op = "start" /\ page.conv \in Convs /\ page.who \in Principals /\ page.stream \in Streams \cup {None}
      /\ page \in Starts /\ UNCHANGED <<stream, grants>>
  BY DEF FinishStart, idRows
<1>2. CASE page.stream # None /\ ~stream[page.stream].state = "live"
  BY <1>1, <1>2, PageDrops DEF FinishStart
<1>3. CASE ~(page.stream # None /\ ~stream[page.stream].state = "live")
  <2> DEFINE x == [NoConv EXCEPT !.state = "live", !.owner = page.who, !.stream = page.stream]
  <2>1. x \in ConvRows /\ x.stream = page.stream /\ x.tags = {}
    BY <1>1 DEF NoConv, ConvRows, RowStates
  <2>2. conv' = [conv EXCEPT ![page.conv] = x] /\ page' = [page EXCEPT !.op = "first"]
    BY <1>3 DEF FinishStart
  <2>3. page'.op = "first"
    BY <1>1, <2>2 DEF Starts
  <2> HIDE DEF x
  <2> QED BY <1>1, <1>3, <2>1, <2>2, <2>3, ConvBecomes
<1> QED BY <1>2, <1>3

(* A conversation that goes leaves no tag behind.                          *)
LEMMA GoneRow ==
    LET x == [NoConv EXCEPT !.state = "gone"] IN
    x \in ConvRows /\ x.state = "gone" /\ x.stream = None /\ x.tags = {}
BY DEF RowStates, NoConv, ConvRows

(* A conversation that goes takes nothing with it that a share or a page in flight rests on. *)
LEMMA ConversationGoes ==
    ASSUME SharingInv, NEW c \in Convs, conv' = [conv EXCEPT ![c] = [NoConv EXCEPT !.state = "gone"]],
           UNCHANGED <<stream, grants>>, page'.op \notin {"start", "copy"} \/ UNCHANGED page
    PROVE  SharingInv'
<1> DEFINE x == [NoConv EXCEPT !.state = "gone"]
<1>1. x \in ConvRows /\ x.state = "gone" /\ x.stream = None /\ x.tags = {}
  BY GoneRow
<1>2. conv' = [conv EXCEPT ![c] = x]
  OBVIOUS
<1> HIDE DEF x
<1> QED BY <1>1, <1>2, ConvBecomes

(* The first message of a conversation, and its deletion.                  *)
LEMMA FirstTurnKeeps == ASSUME SharingInv, NEW b, FirstTurn(b) PROVE SharingInv'
<1>1. page' = NoPage /\ UNCHANGED <<stream, grants>> /\ page'.op \notin {"start", "copy"}
  BY DEF FirstTurn, NoPage, idRows
<1>2. CASE b \/ page.conv \notin Convs
  <2>1. UNCHANGED conv
    BY <1>2, SharingNow DEF FirstTurn
  <2> QED BY <1>1, <2>1, PageDrops
<1>3. CASE ~b /\ page.conv \in Convs
  <2>1. conv' = [conv EXCEPT ![page.conv] = [NoConv EXCEPT !.state = "gone"]]
    BY <1>3 DEF FirstTurn
  <2> QED BY <1>1, <1>3, <2>1, ConversationGoes
<1> QED BY <1>2, <1>3

(* The delete view of a conversation keeps what the shares and the copies rest on. *)
LEMMA DeletionKeeps ==
    ASSUME SharingInv, NEW p \in Callers, NEW c \in Convs, ConversationDelete(p, c) PROVE SharingInv'
<1>1. conv' = [conv EXCEPT ![c] = [NoConv EXCEPT !.state = "gone"]] /\ UNCHANGED <<stream, page, grants>>
  BY DEF ConversationDelete, DeleteConversation, idRows
<1> QED BY <1>1, ConversationGoes

(* The local command makes a conversation nobody is copying into.          *)
LEMMA CommandKeeps == ASSUME SharingInv, NEW c \in Convs, CommandMakes(c) PROVE SharingInv'
<1> DEFINE x == [NoConv EXCEPT !.state = "live", !.owner = "service"]
<1>1. x \in ConvRows /\ x.stream = None /\ x.tags = {}
  BY DEF NoConv, ConvRows, RowStates, Principals
<1>2. conv' = [conv EXCEPT ![c] = x] /\ conv[c].state = "new" /\ UNCHANGED <<stream, page, grants>>
  BY DEF CommandMakes, idRows
<1>3. page.op = "copy" => page.from # c
  BY <1>2 DEF SharingInv, CopyHasItsSource
<1> HIDE DEF x
<1> QED BY <1>1, <1>2, <1>3, ConvBecomes

(* The copy takes its tags from a source that is in the stream, or from    *)
(* one that has gone with its tags; the stream is there.                   *)
LEMMA CopyTagsKeep == ASSUME SharingInv, CopyTags PROVE SharingInv'
<1> USE SharingNow
<1>1. page.op = "copy" /\ page' = NoPage /\ UNCHANGED <<stream, grants>> /\ page'.op \notin {"start", "copy"}
  BY DEF CopyTags, NoPage, idRows
<1>2. CASE page.stream # None /\ stream[page.stream].state = "gone"
  BY <1>1, <1>2, PageDrops DEF CopyTags
<1>3. CASE ~(page.stream # None /\ stream[page.stream].state = "gone")
  <2> DEFINE x == [state |-> "live", owner |-> page.who, stream |-> page.stream,
                   tags |-> conv[page.from].tags, text |-> page.text]
  <2>1. conv[page.from] \in ConvRows
    BY <1>1
  <2>2. x \in ConvRows /\ x.state = "live" /\ x.stream = page.stream /\ x.tags = conv[page.from].tags
    BY <1>1, <2>1 DEF ConvRows, RowStates
  <2>3. conv' = [conv EXCEPT ![page.conv] = x]
    BY <1>3 DEF CopyTags
  <2>4. page.stream # None =>
            stream[page.stream].state = "live" /\ conv[page.from].tags \subseteq stream[page.stream].tags
    <3> SUFFICES ASSUME page.stream # None
                 PROVE  stream[page.stream].state = "live"
                        /\ conv[page.from].tags \subseteq stream[page.stream].tags
      OBVIOUS
    <3>1. page.stream \in Streams /\ stream[page.stream] \in StreamRows
      BY <1>1
    <3>2. stream[page.stream].state \in RowStates
      BY <3>1 DEF StreamRows
    <3>3. stream[page.stream].state = "live"
      BY <1>1, <1>3, <3>2 DEF SharingInv, CopyHasItsSource, RowStates
    <3> QED BY <1>1, <3>3 DEF SharingInv, CopyHasItsSource
  <2> HIDE DEF x
  <2> QED BY <1>1, <2>2, <2>3, <2>4, ConvBecomes
<1> QED BY <1>2, <1>3

(* A conversation and its stream are tagged together.                      *)
LEMMA StampKeeps == ASSUME SharingInv, NEW c \in Convs, NEW e \in Ents, StampTurnTaint(c, e) PROVE SharingInv'
<1> USE SharingNow
<1>1. conv[c].state = "live" /\ UNCHANGED <<page, grants>>
      /\ conv' = [conv EXCEPT ![c].text = @ \cup {e}, ![c].tags = @ \cup {e}]
      /\ stream' = IF conv[c].stream = None THEN stream ELSE [stream EXCEPT ![conv[c].stream].tags = @ \cup {e}]
  BY DEF StampTurnTaint, idRows
<1>2. /\ conv' \in [Convs -> ConvRows]
      /\ \A d \in Convs : /\ conv'[d].state = conv[d].state /\ conv'[d].stream = conv[d].stream
                          /\ conv'[d].tags = IF d = c THEN conv[d].tags \cup {e} ELSE conv[d].tags
  <2> DEFINE x == [conv[c] EXCEPT !.text = @ \cup {e}, !.tags = @ \cup {e}]
  <2>1. conv[c] \in ConvRows
    OBVIOUS
  <2>2. x \in ConvRows /\ x.state = conv[c].state /\ x.stream = conv[c].stream /\ x.tags = conv[c].tags \cup {e}
    BY <2>1 DEF ConvRows
  <2>3. conv' = [conv EXCEPT ![c] = x]
    BY <1>1
  <2> HIDE DEF x
  <2> QED BY <2>2, <2>3
<1>3. /\ stream' \in [Streams -> StreamRows]
      /\ \A w \in Streams : /\ stream'[w].state = stream[w].state /\ stream[w].tags \subseteq stream'[w].tags
                            /\ w = conv[c].stream /\ w # None => e \in stream'[w].tags
  <2>1. CASE conv[c].stream = None
    BY <1>1, <2>1
  <2>2. CASE conv[c].stream # None
    <3> DEFINE v == conv[c].stream
               x == [stream[v] EXCEPT !.tags = @ \cup {e}]
    <3>1. v \in Streams /\ stream[v] \in StreamRows
      BY <2>2
    <3>2. x \in StreamRows /\ x.state = stream[v].state /\ x.tags = stream[v].tags \cup {e}
      BY <3>1 DEF StreamRows
    <3>3. stream' = [stream EXCEPT ![v] = x]
      BY <1>1, <2>2
    <3> HIDE DEF x
    <3> QED BY <3>1, <3>2, <3>3
  <2> QED BY <2>1, <2>2
<1>4. RowsTyped' /\ PageTyped' /\ grants' \subseteq Grant
  BY <1>1, <1>2, <1>3 DEF RowsTyped, SharingInv, PageTyped
<1>5. Contained'
  <2> SUFFICES ASSUME NEW d \in Convs, conv'[d].stream # None
               PROVE  stream'[conv'[d].stream].state = "live"
                      /\ conv'[d].tags \subseteq stream'[conv'[d].stream].tags
    BY DEF Contained
  <2> DEFINE w == conv[d].stream
  <2>1. conv'[d].stream = w /\ w \in Streams /\ stream[w].state = "live" /\ conv[d].tags \subseteq stream[w].tags
    BY <1>2
  <2>2. conv'[d].tags = IF d = c THEN conv[d].tags \cup {e} ELSE conv[d].tags
    BY <1>2
  <2>3. d = c => e \in stream'[w].tags
    BY <1>2, <1>3, <2>1
  <2> QED BY <1>3, <2>1, <2>2, <2>3
<1>6. CopyHasItsSource'
  BY <1>1, <1>2, <1>3 DEF SharingInv, CopyHasItsSource
<1> QED BY <1>4, <1>5, <1>6 DEF SharingInv

(* An entitlement that goes is taken from both sides.                      *)
LEMMA EntitlementGoes ==
    ASSUME SharingInv, NEW p \in Callers, NEW e \in Ents, DeleteEntitlementRows(p, e) PROVE SharingInv'
<1>1. /\ stream' = [w \in Streams |-> [stream[w] EXCEPT !.wall = @ \ {e}, !.tags = @ \ {e}]]
      /\ conv' = [c \in Convs |-> [conv[c] EXCEPT !.tags = @ \ {e}]]
  BY DEF DeleteEntitlementRows
<1>0. UNCHANGED page /\ grants' \subseteq Grant
  <2>1. UNCHANGED page /\ grants' = {g \in grants : g.ent # e}
    BY DEF DeleteEntitlementRows, DeleteEntitlement
  <2> QED BY <2>1 DEF SharingInv
<1>2. ASSUME NEW w \in Streams PROVE stream'[w] \in StreamRows /\ stream'[w].state = stream[w].state
                                     /\ stream'[w].tags = stream[w].tags \ {e}
  <2>1. stream[w] \in StreamRows
    BY SharingNow
  <2>2. stream'[w] = [stream[w] EXCEPT !.wall = @ \ {e}, !.tags = @ \ {e}]
    BY <1>1
  <2> QED BY <2>1, <2>2 DEF StreamRows
<1>3. ASSUME NEW c \in Convs PROVE conv'[c] \in ConvRows /\ conv'[c].state = conv[c].state
                                   /\ conv'[c].stream = conv[c].stream /\ conv'[c].tags = conv[c].tags \ {e}
  <2>1. conv[c] \in ConvRows
    BY SharingNow
  <2>2. conv'[c] = [conv[c] EXCEPT !.tags = @ \ {e}]
    BY <1>1
  <2> QED BY <2>1, <2>2 DEF ConvRows
<1>4. RowsTyped' /\ PageTyped'
  <2>1. stream' \in [Streams -> StreamRows]
    BY <1>1, <1>2
  <2>2. conv' \in [Convs -> ConvRows]
    BY <1>1, <1>3
  <2> QED BY <1>0, <2>1, <2>2 DEF RowsTyped, SharingInv, PageTyped
<1>5. Contained'
  <2> SUFFICES ASSUME NEW c \in Convs, conv'[c].stream # None
               PROVE  stream'[conv'[c].stream].state = "live"
                      /\ conv'[c].tags \subseteq stream'[conv'[c].stream].tags
    BY DEF Contained
  <2> DEFINE w == conv[c].stream
  <2>1. conv'[c].stream = w /\ w \in Streams /\ stream[w].state = "live" /\ conv[c].tags \subseteq stream[w].tags
    BY <1>3, SharingNow
  <2> QED BY <1>2, <1>3, <2>1
<1>6. CopyHasItsSource'
  <2> SUFFICES ASSUME page.op = "copy"
               PROVE  /\ page.stream # None => stream'[page.stream].state # "new"
                      /\ \/ conv'[page.from].state = "live" /\ conv'[page.from].stream = page.stream
                         \/ conv'[page.from].state = "gone" /\ conv'[page.from].tags = {}
    BY <1>0 DEF CopyHasItsSource
  <2>1. page.from \in Convs /\ page.stream \in Streams \cup {None}
    BY SharingNow
  <2> QED BY <1>2, <1>3, <2>1 DEF SharingInv, CopyHasItsSource
<1> QED BY <1>0, <1>4, <1>5, <1>6 DEF SharingInv

(* Rows change hands: every row keeps its state and its tags.              *)
LEMMA OwnersChange ==
    ASSUME SharingInv, UNCHANGED <<page, grants>>,
           stream' = [w \in Streams |-> stream'[w]], conv' = [c \in Convs |-> conv'[c]],
           \A w \in Streams : \E o \in Principals \cup {None} : stream'[w] = [stream[w] EXCEPT !.owner = o],
           \A c \in Convs : \E o \in Principals \cup {None} : conv'[c] = [conv[c] EXCEPT !.owner = o]
    PROVE  SharingInv'
<1>1. ASSUME NEW w \in Streams PROVE stream'[w] \in StreamRows /\ stream'[w].state = stream[w].state
                                     /\ stream'[w].tags = stream[w].tags
  <2>1. stream[w] \in StreamRows
    BY SharingNow
  <2>2. PICK o \in Principals \cup {None} : stream'[w] = [stream[w] EXCEPT !.owner = o]
    OBVIOUS
  <2> QED BY <2>1, <2>2 DEF StreamRows
<1>2. ASSUME NEW c \in Convs PROVE conv'[c] \in ConvRows /\ conv'[c].state = conv[c].state
                                   /\ conv'[c].stream = conv[c].stream /\ conv'[c].tags = conv[c].tags
  <2>1. conv[c] \in ConvRows
    BY SharingNow
  <2>2. PICK o \in Principals \cup {None} : conv'[c] = [conv[c] EXCEPT !.owner = o]
    OBVIOUS
  <2> QED BY <2>1, <2>2 DEF ConvRows
<1>3. stream' \in [Streams -> StreamRows] /\ conv' \in [Convs -> ConvRows]
  BY <1>1, <1>2
<1>4. RowsTyped' /\ Undisturbed /\ grants' \subseteq Grant
  BY <1>1, <1>2, <1>3 DEF RowsTyped, Undisturbed, SharingInv
<1> QED BY <1>4, UndisturbedKeeps

(* adopt_open_rows and reassign_owner give rows to an account.             *)
LEMMA OwnersKeep ==
    ASSUME SharingInv,
           \/ \E u \in Users : AdoptOpenRows(u)
           \/ \E f \in Users \cup {"open", "service"}, t \in Users : ReassignOwner(f, t)
    PROVE  SharingInv'
<1>0. \A w \in Streams : stream[w].owner \in Principals \cup {None}
  BY SharingNow DEF StreamRows
<1>00. \A c \in Convs : conv[c].owner \in Principals \cup {None}
  BY SharingNow DEF ConvRows
<1>1. ASSUME NEW u \in Users, AdoptOpenRows(u) PROVE SharingInv'
  <2> DEFINE new(o) == IF o = "open" THEN u ELSE o
  <2>1. UNCHANGED <<page, grants>>
        /\ stream' = [w \in Streams |-> [stream[w] EXCEPT !.owner = new(stream[w].owner)]]
        /\ conv' = [c \in Convs |-> [conv[c] EXCEPT !.owner = new(conv[c].owner)]]
    BY <1>1 DEF AdoptOpenRows, idRows
  <2>2. \A o \in Principals \cup {None} : new(o) \in Principals \cup {None}
    BY DEF Principals
  <2> HIDE DEF new
  <2>3. stream' = [w \in Streams |-> stream'[w]] /\ conv' = [c \in Convs |-> conv'[c]]
    BY <2>1
  <2>4. \A w \in Streams : stream'[w] = [stream[w] EXCEPT !.owner = new(stream[w].owner)]
    BY <2>1
  <2>5. \A c \in Convs : conv'[c] = [conv[c] EXCEPT !.owner = new(conv[c].owner)]
    BY <2>1
  <2>6. \A w \in Streams : \E o \in Principals \cup {None} : stream'[w] = [stream[w] EXCEPT !.owner = o]
    BY <1>0, <2>2, <2>4
  <2>7. \A c \in Convs : \E o \in Principals \cup {None} : conv'[c] = [conv[c] EXCEPT !.owner = o]
    BY <1>00, <2>2, <2>5
  <2> QED BY <2>1, <2>3, <2>6, <2>7, OwnersChange
<1>2. ASSUME NEW f \in Users \cup {"open", "service"}, NEW t \in Users, ReassignOwner(f, t) PROVE SharingInv'
  <2> DEFINE new(o) == IF o = f THEN t ELSE o
  <2>1. UNCHANGED <<page, grants>>
        /\ stream' = [w \in Streams |-> [stream[w] EXCEPT !.owner = new(stream[w].owner)]]
        /\ conv' = [c \in Convs |-> [conv[c] EXCEPT !.owner = new(conv[c].owner)]]
    BY <1>2 DEF ReassignOwner, idRows
  <2>2. \A o \in Principals \cup {None} : new(o) \in Principals \cup {None}
    BY DEF Principals
  <2> HIDE DEF new
  <2>3. stream' = [w \in Streams |-> stream'[w]] /\ conv' = [c \in Convs |-> conv'[c]]
    BY <2>1
  <2>4. \A w \in Streams : stream'[w] = [stream[w] EXCEPT !.owner = new(stream[w].owner)]
    BY <2>1
  <2>5. \A c \in Convs : conv'[c] = [conv[c] EXCEPT !.owner = new(conv[c].owner)]
    BY <2>1
  <2>6. \A w \in Streams : \E o \in Principals \cup {None} : stream'[w] = [stream[w] EXCEPT !.owner = o]
    BY <1>0, <2>2, <2>4
  <2>7. \A c \in Convs : \E o \in Principals \cup {None} : conv'[c] = [conv[c] EXCEPT !.owner = o]
    BY <1>00, <2>2, <2>5
  <2> QED BY <2>1, <2>3, <2>6, <2>7, OwnersChange
<1> QED BY <1>1, <1>2

(* A stream that is deleted holds no conversation.                         *)
LEMMA FinishDeleteKeeps == ASSUME SharingInv, FinishDelete PROVE SharingInv'
<1> USE SharingNow
<1>1. UNCHANGED <<conv, page, grants>>
  BY DEF FinishDelete, idRows
<1>2. CASE UNCHANGED stream
  BY <1>1, <1>2, ElsewhereKeeps
<1>3. CASE ~UNCHANGED stream
  <2> DEFINE w == closing
             x == [NoStream EXCEPT !.state = "gone"]
  <2>1. stream' = [stream EXCEPT ![w] = x] /\ \A c \in Convs : conv[c].stream # w
    BY <1>3 DEF FinishDelete
  <2>2. x \in StreamRows /\ x.state = "gone"
    BY DEF NoStream, StreamRows, RowStates
  <2> HIDE DEF x, w
  <2>3. RowsTyped' /\ (w \in Streams => stream'[w] = x) /\ \A v \in Streams : v # w => stream'[v] = stream[v]
    BY <1>1, <2>1, <2>2, OneStream
  <2>4. Contained'
    BY <1>1, <2>1, <2>3 DEF Contained
  <2>5. CopyHasItsSource'
    BY <1>1, <2>2, <2>3 DEF SharingInv, CopyHasItsSource
  <2> QED BY <1>1, <2>3, <2>4, <2>5 DEF SharingInv, PageTyped
<1> QED BY <1>2, <1>3

(* What the shares and the copies rest on holds at first. *)
LEMMA SharingInit == ASSUME ShInit PROVE SharingInv
<1>1. NoStream \in StreamRows
  BY DEF NoStream, StreamRows, RowStates
<1>2. NoConv \in ConvRows /\ NoConv.stream = None
  BY DEF NoConv, ConvRows, RowStates
<1>3. RowsTyped
  BY <1>1, <1>2 DEF ShInit, RowsTyped
<1>4. PageTyped /\ CopyHasItsSource
  BY DEF ShInit, PageTyped, CopyHasItsSource, NoPage
<1>5. Contained
  BY <1>2 DEF ShInit, Contained
<1>6. grants \subseteq Grant
  BY DEF ShInit, Grant, Roles
<1> QED BY <1>3, <1>4, <1>5, <1>6 DEF SharingInv

(* Every action keeps it.                                                  *)
LEMMA SharingStep == ASSUME SharingInv, [ShNext]_shvars PROVE SharingInv'
<1>1. CASE UNCHANGED shvars
  BY <1>1, ElsewhereKeeps DEF shvars, SharingInv
<1>2. CASE ShNext
  <2>1. CASE \E p \in Callers, w \in Streams, E \in SUBSET Ents : WorkstreamNew(p, w, E) \/ WorkstreamScope(p, w, E)
    BY <2>1, StreamPagesKeep
  <2>2. CASE \/ \E p \in Callers, w \in Streams, s \in Subjects : ShareStreamPage(p, w, s)
             \/ \E p \in Callers, c \in Convs, s \in Subjects, l \in Levels : ShareConversation(p, c, s, l)
             \/ \E p \in Callers, x \in shares : RevokeShare(p, x)
             \/ \E p \in Callers, w \in Streams : OpenDelete(p, w)
             \/ \E p \in Callers, t \in Tools, E \in SUBSET Ents : SetToolLabels(p, t, E)
             \/ \E p \in Callers, t \in Tools, e \in Ents, b \in BOOLEAN : EntitlementAxisAction(p, e, t, b)
             \/ SwitchPosture
    BY <2>2, ElsewhereSteps
  <2>3. CASE \/ \E p \in Callers, c \in Convs, w \in Streams \cup {None} : OpenStart(p, c, w)
             \/ \E p \in Callers, c, d \in Convs : CopyTurns(p, c, d)
    BY <2>3, PagesOpen
  <2>4. CASE FinishStart \/ CopyTags \/ FinishDelete \/ ChangeHoldings \/ \E b \in BOOLEAN : FirstTurn(b)
    BY <2>4, FinishStartKeeps, CopyTagsKeep, FinishDeleteKeeps, HoldingsKeep, FirstTurnKeeps
  <2>5. CASE \/ \E p \in Callers, c \in Convs : ConversationDelete(p, c)
             \/ \E c \in Convs : CommandMakes(c)
             \/ \E c \in Convs, e \in Ents : StampTurnTaint(c, e)
             \/ \E p \in Callers, e \in Ents : DeleteEntitlementRows(p, e)
    BY <2>5, DeletionKeeps, CommandKeeps, StampKeeps, EntitlementGoes
  <2>6. CASE \/ \E u \in Users : AdoptOpenRows(u)
             \/ \E f \in Users \cup {"open", "service"}, t \in Users : ReassignOwner(f, t)
    BY <2>6, OwnersKeep
  <2> QED BY <1>2, <2>1, <2>2, <2>3, <2>4, <2>5, <2>6 DEF ShNext
<1> QED BY <1>1, <1>2

(* What the shares and the copies rest on holds in every reachable state. *)
LEMMA SharingInvariant == ShSpec => []SharingInv
BY SharingInit, SharingStep, PTL DEF ShSpec

(* agents/runtime/taint.py with agents/shares.py: a workstream carries the *)
(* tags of every conversation in it, whatever is stamped, copied, deleted  *)
(* and shared meanwhile, so gate one asks for all of them.                 *)
THEOREM StreamsAreTagged == ShSpec => []StreamCarriesItsTags
<1>1. SharingInv => StreamCarriesItsTags
  BY DEF SharingInv, Contained, StreamCarriesItsTags
<1> QED BY <1>1, SharingInvariant, PTL

(* share_list_for against stream_access: a share the owner's list does not *)
(* mark dormant opens the stream to everyone it reaches.                   *)
THEOREM LiveSharesOpen == ShSpec => []LiveShareOpens
<1>1. ASSUME grants \subseteq Grant PROVE LiveShareOpens
  <2> SUFFICES ASSUME AccountsOn, NEW s \in shares, ~ShareIsDormant(s), NEW u \in Users, s \in ReachedBy(u)
               PROVE  stream[s.target].tags \subseteq HeldIds(u)
    BY DEF LiveShareOpens, StreamAccess
  <2>1. stream[s.target].tags \subseteq {g.ent : g \in {h \in grants : h.subject = s.subject}}
    BY DEF ShareIsDormant, SubjectIds
  <2>2. s.subject = u \/ <<s.subject, u>> \in members
    BY DEF ReachedBy
  <2>3. \A g \in grants : g.role \in Roles
    BY <1>1 DEF Grant
  <2>4. {h \in grants : h.subject = s.subject} \subseteq GrantsOf(u, Roles)
    BY <2>2, <2>3 DEF GrantsOf
  <2>5. HeldIds(u) = {g.ent : g \in GrantsOf(u, Roles)}
    BY DEF HeldIds
  <2> QED BY <2>1, <2>4, <2>5
<1>2. SharingInv => LiveShareOpens
  BY <1>1 DEF SharingInv
<1> QED BY <1>2, SharingInvariant, PTL

(***************************************************************************)
(* The sign-in lockout: a name's failures in the window, and the posts     *)
(* already past the count.                                                 *)
(***************************************************************************)

SignInInv == SignTypeOK /\ GuessesAreBounded

(* The values of a function are no more than its arguments. *)
LEMMA ImagesAreNoMore ==
    ASSUME NEW S, NEW T, NEW f \in [S -> T], IsFiniteSet(S), \A t \in T : \E s \in S : f[s] = t
    PROVE  /\ IsFiniteSet(T) /\ Cardinality(T) <= Cardinality(S)
           /\ Cardinality(T) \in Nat /\ Cardinality(S) \in Nat
<1>1. f \in Surjection(S, T)
  BY DEF Surjection
<1> QED BY <1>1, FS_Surjection, FS_CardinalityType

(* The window's rows leave a primary key free. *)
LEMMA FreshPkIsFresh ==
    ASSUME SignTypeOK
    PROVE  FreshPk \in Nat /\ \A row \in failures : row.pk # FreshPk
<1> DEFINE pks == {row.pk : row \in failures}
<1> DEFINE n == Cardinality(failures)
<1>1. n \in Nat /\ IsFiniteSet(pks) /\ Cardinality(pks) <= n /\ Cardinality(pks) \in Nat
  <2> DEFINE pk == [row \in failures |-> row.pk]
  <2>1. pk \in [failures -> pks] /\ \A i \in pks : \E row \in failures : pk[row] = i
    OBVIOUS
  <2> HIDE DEF pk, pks
  <2> QED BY <2>1, ImagesAreNoMore DEF SignTypeOK
<1>2. IsFiniteSet(0..n) /\ Cardinality(0..n) = n + 1
  BY <1>1, FS_Interval
<1>3. ~(0..n \subseteq pks)
  BY <1>1, <1>2, FS_Subset
<1>4. \E i \in 0..n : \A row \in failures : row.pk # i
  BY <1>3
<1> QED BY <1>1, <1>4 DEF FreshPk

(* The posts past the count are among the posts. *)
LEMMA PastTheCountIsFinite ==
    ASSUME NEW n
    PROVE  /\ PastTheCount(n) \subseteq Posts /\ IsFiniteSet(PastTheCount(n))
           /\ Cardinality(PastTheCount(n)) \in Nat /\ Cardinality(Posts) \in Nat
           /\ Cardinality(PastTheCount(n)) <= Cardinality(Posts)
BY SignInAssumption, FS_Subset, FS_CardinalityType DEF PastTheCount

(* So are a name's failures. *)
LEMMA FailuresAreFinite ==
    ASSUME SignTypeOK, NEW n
    PROVE  IsFiniteSet(FailuresOf(n)) /\ Failed(n) \in Nat
BY FS_Subset, FS_CardinalityType DEF SignTypeOK, FailuresOf, Failed

(* A post is past the count of its own name, which was below the threshold. *)
LEMMA PostStep ==
    ASSUME SignInInv, NEW p \in Posts, NEW s \in Spellings, Post(p, s)
    PROVE  SignInInv'
<1> USE DEF SignInInv
<1>1. CASE UNCHANGED signing
  <2>1. UNCHANGED signVars
    BY <1>1 DEF Post, signVars
  <2> QED BY <2>1 DEF signVars, SignTypeOK, GuessesAreBounded, Failed, FailuresOf, PastTheCount
<1>2. CASE ~LockedOut(s) /\ signing' = [signing EXCEPT ![p] = s]
  <2>1. SignTypeOK'
    BY <1>2 DEF Post, SignTypeOK
  <2>2. ASSUME NEW n \in Names
        PROVE  Failed(n)' + Cardinality(PastTheCount(n)') <= Threshold - 1 + Cardinality(Posts)
    <3>1. Failed(n)' = Failed(n)
      BY DEF Post, Failed, FailuresOf
    <3>2. CASE n = Canonical[s]
      <4>1. Failed(n) <= Threshold - 1
        BY <1>2, <3>2, FailuresAreFinite, SignInAssumption DEF LockedOut
      <4>2. PastTheCount(n)' \subseteq Posts
        BY DEF PastTheCount
      <4>3. Cardinality(PastTheCount(n)') \in Nat /\ Cardinality(PastTheCount(n)') <= Cardinality(Posts)
            /\ Cardinality(Posts) \in Nat
        BY <4>2, SignInAssumption, FS_Subset, FS_CardinalityType
      <4> QED BY <3>1, <4>1, <4>3, FailuresAreFinite, SignInAssumption
    <3>3. CASE n # Canonical[s]
      <4>1. PastTheCount(n)' = PastTheCount(n)
        BY <1>2, <3>3 DEF Post, PastTheCount, SignTypeOK
      <4> QED BY <3>1, <4>1 DEF GuessesAreBounded
    <3> QED BY <3>2, <3>3
  <2> QED BY <2>1, <2>2 DEF GuessesAreBounded
<1> QED BY <1>1, <1>2 DEF Post

(* A post that ends leaves its place to the failure it writes. *)
LEMMA PostEnds ==
    ASSUME SignInInv, NEW p \in Posts, WrongPassword(p) \/ RightPassword(p)
    PROVE  SignInInv'
<1> USE DEF SignInInv
<1> DEFINE name == Canonical[signing[p]]
<1> DEFINE written == [pk |-> FreshPk, name |-> name, age |-> 0]
<1>0. /\ signing[p] # NoPost /\ signing[p] \in Spellings /\ name \in Names
      /\ signing' = [signing EXCEPT ![p] = NoPost]
      /\ failures' = failures \/ failures' = failures \cup {written}
      /\ signedIn' \subseteq Names
  BY DEF WrongPassword, RightPassword, RecordFailure, SignTypeOK, Names
<1>1. written \in AuditEvent
  BY <1>0, FreshPkIsFresh, SignInAssumption DEF AuditEvent, Ages
<1> HIDE DEF written
<1>2. SignTypeOK'
  BY <1>0, <1>1, FS_AddElement DEF SignTypeOK
<1>3. ASSUME NEW n \in Names
      PROVE  Failed(n)' + Cardinality(PastTheCount(n)') <= Threshold - 1 + Cardinality(Posts)
  <2>1. CASE n = name
    <3>1. p \in PastTheCount(n) /\ PastTheCount(n)' = PastTheCount(n) \ {p}
      BY <1>0, <2>1 DEF PastTheCount, SignTypeOK
    <3>2. /\ Cardinality(PastTheCount(n)') = Cardinality(PastTheCount(n)) - 1
          /\ Cardinality(PastTheCount(n)) \in Nat /\ Cardinality(PastTheCount(n)') \in Nat
      BY <3>1, PastTheCountIsFinite, FS_RemoveElement, FS_CardinalityType
    <3>3. FailuresOf(n)' = FailuresOf(n) \/ FailuresOf(n)' = FailuresOf(n) \cup {written}
      BY <1>0, <2>1 DEF FailuresOf, written
    <3>4. Failed(n)' <= Failed(n) + 1 /\ Failed(n)' \in Nat /\ Failed(n) \in Nat
      <4>1. CASE FailuresOf(n)' = FailuresOf(n)
        BY <4>1, FailuresAreFinite DEF Failed
      <4>2. CASE FailuresOf(n)' = FailuresOf(n) \cup {written}
        <5> DEFINE F == FailuresOf(n)
        <5>1. IsFiniteSet(F) /\ Cardinality(F) \in Nat
          BY FailuresAreFinite, FS_CardinalityType
        <5> HIDE DEF F
        <5>2. Cardinality(F \cup {written}) = IF written \in F THEN Cardinality(F) ELSE Cardinality(F) + 1
          BY <5>1, FS_AddElement
        <5> QED BY <4>2, <5>1, <5>2 DEF Failed, F
      <4> QED BY <3>3, <4>1, <4>2
    <3> QED BY <3>2, <3>4, PastTheCountIsFinite, SignInAssumption DEF GuessesAreBounded
  <2>2. CASE n # name
    <3>1. FailuresOf(n)' = FailuresOf(n) /\ PastTheCount(n)' = PastTheCount(n)
      BY <1>0, <2>2 DEF FailuresOf, written, PastTheCount, SignTypeOK
    <3> QED BY <3>1 DEF GuessesAreBounded, Failed
  <2> QED BY <2>1, <2>2
<1> QED BY <1>2, <1>3 DEF GuessesAreBounded

(* With time no name has more failures in the window. *)
LEMMA TickStep ==
    ASSUME SignInInv, Tick
    PROVE  SignInInv'
<1> USE DEF SignInInv
<1> DEFINE Older(row) == [row EXCEPT !.age = @ + 1]
<1> DEFINE kept == {x \in failures : x.age < Window}
<1>0. failures' = {Older(row) : row \in kept} /\ UNCHANGED <<signing, signedIn>>
  BY DEF Tick
<1>1. \A row \in kept : Older(row) \in AuditEvent /\ Older(row).name = row.name
  BY SignInAssumption DEF SignTypeOK, AuditEvent, Ages
<1>2. IsFiniteSet(kept)
  BY FS_Subset DEF SignTypeOK
<1> HIDE DEF Older
<1>3. SignTypeOK'
  <2> DEFINE f == [row \in kept |-> Older(row)]
  <2>1. f \in [kept -> failures'] /\ \A x \in failures' : \E row \in kept : f[row] = x
    BY <1>0
  <2>2. IsFiniteSet(failures')
    <3> HIDE DEF f, kept
    <3> QED BY <1>2, <2>1, ImagesAreNoMore
  <2>3. failures' \subseteq AuditEvent
    BY <1>0, <1>1
  <2> QED BY <1>0, <2>2, <2>3 DEF SignTypeOK
<1>4. ASSUME NEW n \in Names
      PROVE  Failed(n)' <= Failed(n) /\ Failed(n)' \in Nat
  <2> DEFINE mine == {row \in kept : row.name = n}
  <2>1. FailuresOf(n)' = {Older(row) : row \in mine}
    BY <1>0, <1>1 DEF FailuresOf
  <2>2. mine \subseteq FailuresOf(n) /\ IsFiniteSet(mine)
    BY <1>2, FS_Subset DEF FailuresOf
  <2>3. Cardinality(mine) <= Failed(n) /\ Cardinality(mine) \in Nat
    BY <2>2, FailuresAreFinite, FS_Subset, FS_CardinalityType DEF Failed
  <2>4. Cardinality({Older(row) : row \in mine}) <= Cardinality(mine)
        /\ Cardinality({Older(row) : row \in mine}) \in Nat
    <3> DEFINE f == [row \in mine |-> Older(row)]
    <3> DEFINE images == {Older(row) : row \in mine}
    <3>1. f \in [mine -> images] /\ \A x \in images : \E row \in mine : f[row] = x
      OBVIOUS
    <3> HIDE DEF f, mine, images
    <3>2. IsFiniteSet(images) /\ Cardinality(images) <= Cardinality(mine) /\ Cardinality(images) \in Nat
      BY <2>2, <3>1, ImagesAreNoMore
    <3> QED BY <3>2 DEF images
  <2> QED BY <2>1, <2>3, <2>4, FailuresAreFinite DEF Failed
<1>5. \A n : PastTheCount(n)' = PastTheCount(n)
  BY <1>0 DEF PastTheCount
<1> QED BY <1>3, <1>4, <1>5, FailuresAreFinite, PastTheCountIsFinite, SignInAssumption DEF GuessesAreBounded

(* The invariant, over every step of SignIn. *)
LEMMA SignInInvHolds == SignSpec => []SignInInv
<1>1. SignInit => SignInInv
  <2> SUFFICES ASSUME SignInit
               PROVE  SignInInv
    OBVIOUS
  <2>1. SignTypeOK
    BY FS_EmptySet DEF SignInit, SignTypeOK
  <2>2. \A n : FailuresOf(n) = {} /\ PastTheCount(n) = {}
    BY DEF SignInit, FailuresOf, PastTheCount
  <2>3. GuessesAreBounded
    <3>1. Cardinality({}) = 0 /\ Cardinality(Posts) \in Nat /\ Threshold - 1 \in Nat
      BY FS_EmptySet, FS_CardinalityType, SignInAssumption
    <3>2. \A n : Failed(n) = 0 /\ Cardinality(PastTheCount(n)) = 0
      BY <2>2, <3>1 DEF Failed
    <3> QED BY <3>1, <3>2 DEF GuessesAreBounded
  <2> QED BY <2>1, <2>3 DEF SignInInv
<1>2. SignInInv /\ [SignNext]_signVars => SignInInv'
  <2> SUFFICES ASSUME SignInInv, [SignNext]_signVars
               PROVE  SignInInv'
    OBVIOUS
  <2>1. CASE UNCHANGED signVars
    BY <2>1 DEF SignInInv, signVars, SignTypeOK, GuessesAreBounded, Failed, FailuresOf, PastTheCount
  <2>2. ASSUME NEW n \in Names, SignOut(n)
        PROVE  SignInInv'
    BY <2>2 DEF SignInInv, SignOut, SignTypeOK, GuessesAreBounded, Failed, FailuresOf, PastTheCount
  <2> QED BY <2>1, <2>2, PostStep, PostEnds, TickStep DEF SignNext
<1> QED BY <1>1, <1>2, PTL DEF SignSpec

(***************************************************************************)
(* LoginView keeps failed_logins_since and the posts in flight in their    *)
(* types; a name's rows in the window are finitely many.                   *)
(***************************************************************************)
THEOREM SignInTypeCorrect == SignSpec => []SignTypeOK
BY SignInInvHolds, PTL DEF SignInInv

(***************************************************************************)
(* However many posts pass LoginView's count together, and however the     *)
(* name is spelled, a window holds fewer than FAILURE_THRESHOLD failures   *)
(* of it and one for each post.                                            *)
(***************************************************************************)
THEOREM LockoutBoundsTheGuesses == SignSpec => []GuessesAreBounded
BY SignInInvHolds, PTL DEF SignInInv
=============================================================================
