---------------------------------- MODULE Registry ----------------------------------
(***************************************************************************)
(* The model registry and the embeddings role: the connections an operator *)
(* registers, the binding of the role to one of them, the Materialization  *)
(* row that remembers what the chunk table was encoded with, and the three *)
(* parties that touch the table or the row: console requests, ingests and  *)
(* the re-encode run.                                                      *)
(*                                                                         *)
(* A model stands for its fingerprint (engine, model id, dimension).       *)
(***************************************************************************)
EXTENDS Naturals, FiniteSets

CONSTANTS
    Conns,        \* primary keys of connections
    Models,       \* fingerprints a connection may have
    Dims,         \* [Models -> dimension of the vectors]
    Envs,         \* what the environment may pin for the role
    Docs,         \* prose documents
    Sessions,     \* consoles used at the same time
    Alone,        \* TRUE: re-encodes run as exclusive jobs, FALSE: `manage.py reencode` too
    MaxEdits,     \* bound on console requests
    MaxFaults,    \* bound on failed embedder calls and killed runs
    RequestsDie,  \* TRUE: a console request may die between two statements
    Unset

RegistryAssumption ==
    /\ Unset \notin Conns \cup Models \cup Nat
    /\ Envs \subseteq Models \cup {Unset}
    /\ Dims \in [Models -> Nat \ {0}]
    /\ MaxEdits \in Nat /\ MaxFaults \in Nat
    /\ Alone \in BOOLEAN /\ RequestsDie \in BOOLEAN

VARIABLES
    env,      \* the model the environment pins, or Unset
    conns,    \* [Conns -> the connection's model, or Unset: no such row]
    role,     \* RoleBinding.connection of the embeddings role
    stamp,    \* Materialization.fingerprint, or Unset: no such row
    width,    \* width of the live chunk table's vectors, or Unset: no table
    chunks,   \* [Docs -> the model its chunks were encoded with, or Unset]
    status,   \* [Docs -> Document.status]
    console,      \* [Sessions -> the console request between two statements]
    ing,      \* [Docs -> the model an ingest embeds with, or Unset]
    run,      \* the re-encode
    edits, faults

vars == <<env, conns, role, stamp, width, chunks, status, console, ing, run, edits, faults>>

NoRequest == [step |-> "none", conn |-> Unset, model |-> Unset, before |-> Unset]

Request ==
    [step : {"none", "save", "stamp", "remove", "delete", "assign", "bind"},
     conn : Conns \cup {Unset}, model : Models \cup {Unset}, before : Models \cup {Unset}]

NoRun == [step |-> "none", credit |-> Unset, target |-> Unset, todo |-> {}, bad |-> FALSE]

TypeOK ==
    /\ env \in Envs
    /\ conns \in [Conns -> Models \cup {Unset}]
    /\ role \in {c \in Conns : conns[c] # Unset} \cup {Unset}
    /\ stamp \in Models \cup {Unset}
    /\ width \in {Dims[m] : m \in Models} \cup {Unset}
    /\ chunks \in [Docs -> Models \cup {Unset}]
    /\ status \in [Docs -> {"queued", "ready", "failed"}]
    /\ console \in [Sessions -> Request]
    /\ ing \in [Docs -> Models \cup {Unset}]
    /\ run.step \in {"none", "credited", "sweeping", "failed"}
    /\ {run.credit, run.target} \subseteq Models \cup {Unset}
    /\ run.todo \subseteq Docs /\ run.bad \in BOOLEAN
    /\ edits \in 0..MaxEdits /\ faults \in 0..MaxFaults

Init ==
    /\ env \in Envs
    /\ conns = [c \in Conns |-> Unset]
    /\ role = Unset /\ stamp = Unset /\ width = Unset
    /\ chunks = [d \in Docs |-> Unset]
    /\ status = [d \in Docs |-> "queued"]
    /\ console = [s \in Sessions |-> NoRequest]
    /\ ing = [d \in Docs |-> Unset]
    /\ run = NoRun
    /\ edits = 0 /\ faults = 0

index == <<env, width, chunks, status, ing, run, faults>>

---------------------------------------------------------------------------
(* Resolution and drift.                                                   *)

\* resolve: the binding, then the environment's override, then an error.
Active == IF role # Unset THEN conns[role] ELSE env

Drifted == stamp # Unset /\ Active # Unset /\ Active # stamp

RunIsOver == run.step \in {"none", "failed"}

---------------------------------------------------------------------------
(* Console requests.  One that would change the model of the bound         *)
(* embeddings role is sent twice, the second time confirmed.               *)

Opens(s, r) ==
    /\ console[s] = NoRequest
    /\ edits < MaxEdits /\ edits' = edits + 1
    /\ console' = [console EXCEPT ![s] = r]

Goes(s, step) == console' = [console EXCEPT ![s].step = step]
Closes(s) == console' = [console EXCEPT ![s] = NoRequest]

\* The first fingerprint only: an existing row is never overwritten.
Stamped(m) == IF stamp = Unset THEN m ELSE stamp

\* connection_add and machine_model_add insert a row in one statement.
AddConnection(c, m) ==
    /\ conns[c] = Unset
    /\ \A s \in Sessions : console[s].conn # c
    /\ edits < MaxEdits /\ edits' = edits + 1
    /\ conns' = [conns EXCEPT ![c] = m]
    /\ UNCHANGED <<role, stamp, console, index>>

\* The edit form: the row and its bound roles are read, a fingerprint that
\* changes under the embeddings role is remembered.
EditReads(s, c, m) ==
    /\ conns[c] # Unset
    /\ Opens(s, [step |-> "save", conn |-> c, model |-> m,
                 before |-> IF role = c /\ m # conns[c] THEN conns[c] ELSE Unset])
    /\ UNCHANGED <<conns, role, stamp, index>>

\* instance.save(): the whole row, inserted again if it is gone.
EditSaves(s) ==
    /\ console[s].step = "save"
    /\ conns' = [conns EXCEPT ![console[s].conn] = console[s].model]
    /\ IF console[s].before = Unset THEN Closes(s) ELSE Goes(s, "stamp")
    /\ UNCHANGED <<role, stamp, edits, index>>

EditStamps(s) ==
    /\ console[s].step = "stamp"
    /\ stamp' = Stamped(console[s].before)
    /\ Closes(s)
    /\ UNCHANGED <<conns, role, edits, index>>

RemoveReads(s, c) ==
    /\ conns[c] # Unset
    /\ Opens(s, [step |-> IF role = c THEN "remove" ELSE "delete", conn |-> c, model |-> Unset,
                 before |-> IF role = c THEN conns[c] ELSE Unset])
    /\ UNCHANGED <<conns, role, stamp, index>>

RemoveStamps(s) ==
    /\ console[s].step = "remove"
    /\ stamp' = Stamped(console[s].before)
    /\ Goes(s, "delete")
    /\ UNCHANGED <<conns, role, edits, index>>

\* The delete clears every binding of the row (SET_NULL).
RemoveDeletes(s) ==
    /\ console[s].step = "delete"
    /\ conns' = [conns EXCEPT ![console[s].conn] = Unset]
    /\ role' = IF role = console[s].conn THEN Unset ELSE role
    /\ Closes(s)
    /\ UNCHANGED <<stamp, edits, index>>

\* role_assign: the choice is a connection or "unbind".  A change of an
\* embeddings role stamps what it resolved to before, if it resolved.
AssignReads(s, c) ==
    /\ c # Unset => conns[c] # Unset
    /\ LET stamps == c # role /\ stamp = Unset /\ Active # Unset
       IN Opens(s, [step |-> IF stamps THEN "assign" ELSE "bind", conn |-> c, model |-> Unset,
                    before |-> IF stamps THEN Active ELSE Unset])
    /\ UNCHANGED <<conns, role, stamp, index>>

AssignStamps(s) ==
    /\ console[s].step = "assign"
    /\ stamp' = Stamped(console[s].before)
    /\ Goes(s, "bind")
    /\ UNCHANGED <<conns, role, edits, index>>

\* A connection removed meanwhile violates the foreign key: nothing is saved.
AssignBinds(s) ==
    /\ console[s].step = "bind"
    /\ role' = IF console[s].conn = Unset \/ conns[console[s].conn] # Unset THEN console[s].conn ELSE role
    /\ Closes(s)
    /\ UNCHANGED <<conns, stamp, edits, index>>

RequestDies(s) ==
    /\ RequestsDie
    /\ console[s] # NoRequest
    /\ Closes(s)
    /\ UNCHANGED <<conns, role, stamp, edits, index>>

ConsoleStep ==
    \/ \E c \in Conns, m \in Models : AddConnection(c, m) \/ \E s \in Sessions : EditReads(s, c, m)
    \/ \E s \in Sessions, c \in Conns : RemoveReads(s, c) \/ AssignReads(s, c)
    \/ \E s \in Sessions : AssignReads(s, Unset)
    \/ \E s \in Sessions :
         \/ EditSaves(s) \/ EditStamps(s) \/ RemoveStamps(s) \/ RemoveDeletes(s)
         \/ AssignStamps(s) \/ AssignBinds(s) \/ RequestDies(s)

---------------------------------------------------------------------------
(* Ingests.                                                                *)

registry == <<env, conns, role, stamp, console, edits>>

Faulty == faults < MaxFaults /\ faults' = faults + 1

Exclusive == Alone => RunIsOver

\* The embedder is resolved and the document's old chunks are deleted.
IngestResolves(d) ==
    /\ ing[d] = Unset
    /\ Exclusive
    /\ IF Active = Unset
       THEN /\ status[d] # "failed" /\ status' = [status EXCEPT ![d] = "failed"]
            /\ UNCHANGED <<width, chunks, ing>>
       ELSE /\ ing' = [ing EXCEPT ![d] = Active]
            /\ width' = IF width = Unset THEN Dims[Active] ELSE width
            /\ chunks' = [chunks EXCEPT ![d] = Unset]
            /\ status' = [status EXCEPT ![d] = "queued"]
    /\ UNCHANGED <<registry, run, faults>>

\* Vectors of another width are refused by the table.
IngestInserts(d) ==
    /\ ing[d] # Unset
    /\ LET w == IF width = Unset THEN Dims[ing[d]] ELSE width
       IN /\ width' = w
          /\ IF Dims[ing[d]] = w
             THEN /\ chunks' = [chunks EXCEPT ![d] = ing[d]]
                  /\ status' = [status EXCEPT ![d] = "ready"]
             ELSE status' = [status EXCEPT ![d] = "failed"] /\ UNCHANGED chunks
    /\ ing' = [ing EXCEPT ![d] = Unset]
    /\ UNCHANGED <<registry, run, faults>>

IngestFails(d) ==
    /\ ing[d] # Unset
    /\ Faulty
    /\ ing' = [ing EXCEPT ![d] = Unset]
    /\ status' = [status EXCEPT ![d] = "failed"]
    /\ UNCHANGED <<registry, width, chunks, run>>

---------------------------------------------------------------------------
(* The re-encode.                                                          *)

\* run_rematerialize: the fingerprint to credit is read before the callback.
RunCredits ==
    /\ RunIsOver
    /\ Alone => \A d \in Docs : ing[d] = Unset
    /\ Active # Unset
    /\ run' = [NoRun EXCEPT !.step = "credited", !.credit = Active]
    /\ UNCHANGED <<registry, width, chunks, status, ing, faults>>

\* Mutant: a document is re-encoded only if nothing else could be wrong with it.
ToReencode_Queued == {d \in Docs : status[d] # "ready"}

\* Every prose document, whatever its status (media excepted).
ToReencode == Docs

\* Mutant: a table of the wrong width is kept.
RunResolves_InPlace(reshape) ==
    /\ run.step = "credited"
    /\ IF Active = Unset
       THEN run' = [NoRun EXCEPT !.step = "failed"] /\ UNCHANGED <<width, chunks>>
       ELSE /\ run' = [run EXCEPT !.step = "sweeping", !.target = Active, !.todo = ToReencode]
            /\ width' = Dims[Active] /\ UNCHANGED chunks
    /\ UNCHANGED <<registry, status, ing, faults>>

\* reencode_all resolves the role again; a width that changed, or a table
\* whose shape is no longer the one the settings ask for, drops the table.
RunResolves(reshape) ==
    /\ run.step = "credited"
    /\ IF Active = Unset
       THEN run' = [NoRun EXCEPT !.step = "failed"] /\ UNCHANGED <<width, chunks>>
       ELSE LET drop == width # Unset /\ (reshape \/ width # Dims[Active])
            IN /\ run' = [run EXCEPT !.step = "sweeping", !.target = Active, !.todo = ToReencode]
               /\ width' = IF drop \/ width = Unset THEN Dims[Active] ELSE width
               /\ chunks' = IF drop THEN [d \in Docs |-> Unset] ELSE chunks
    /\ UNCHANGED <<registry, status, ing, faults>>

\* One document: its chunks are deleted and inserted again; an error is
\* remembered and the loop goes on.
RunEncodes(d) ==
    /\ run.step = "sweeping" /\ d \in run.todo
    /\ \/ /\ Dims[run.target] = width
          /\ chunks' = [chunks EXCEPT ![d] = run.target]
          /\ run' = [run EXCEPT !.todo = @ \ {d}]
          /\ UNCHANGED faults
       \/ /\ (Dims[run.target] # width /\ UNCHANGED faults) \/ Faulty
          /\ chunks' = [chunks EXCEPT ![d] = Unset]
          /\ run' = [run EXCEPT !.todo = @ \ {d}, !.bad = TRUE]
    /\ UNCHANGED <<registry, width, status, ing>>

\* Mutant: a partial run is a success.
RunEnds_Partial ==
    /\ run.step = "sweeping" /\ run.todo = {}
    /\ stamp' = run.credit /\ run' = NoRun
    /\ UNCHANGED <<env, conns, role, console, edits, width, chunks, status, ing, faults>>

\* The row is written after a callback that returned, and not after one
\* that raised.
RunEnds ==
    /\ run.step = "sweeping" /\ run.todo = {}
    /\ IF run.bad
       THEN run' = [NoRun EXCEPT !.step = "failed"] /\ UNCHANGED stamp
       ELSE run' = NoRun /\ stamp' = run.credit
    /\ UNCHANGED <<env, conns, role, console, edits, width, chunks, status, ing, faults>>

RunDies ==
    /\ ~RunIsOver
    /\ Faulty
    /\ run' = [NoRun EXCEPT !.step = "failed"]
    /\ UNCHANGED <<registry, width, chunks, status, ing>>

IndexStep ==
    \/ \E d \in Docs : IngestResolves(d) \/ IngestInserts(d) \/ IngestFails(d) \/ RunEncodes(d)
    \/ RunCredits \/ RunEnds \/ RunDies
    \/ \E reshape \in BOOLEAN : RunResolves(reshape)

Next == ConsoleStep \/ IndexStep

Spec == Init /\ [][Next]_vars

---------------------------------------------------------------------------
(* Properties.                                                             *)

NoRequestOpen == \A s \in Sessions : console[s] = NoRequest

\* The first change of the role, by an edit, a removal or an assignment,
\* puts on record the model the table was encoded with: until then, and in
\* the step that ends it, nothing in the table is of a third model, one
\* neither on record nor in use (_stamp_first_materialization's callers).
FirstChangeIsOnRecord ==
    [][stamp = Unset /\ NoRequestOpen' =>
         \A d \in Docs : {chunks'[d], ing'[d]} \subseteq {stamp', Active', Unset}]_vars

\* A recorded fingerprint is replaced only by a run that left every
\* document encoded, and all of them with one model: a partial, failed or
\* killed run leaves the drift banner up (run_rematerialize, reencode_all).
OnlyAWholeRunReplacesTheRecord ==
    [][stamp # Unset /\ stamp' # stamp =>
         \E m \in Models : \A d \in Docs : chunks[d] = m /\ ing[d] = Unset]_vars

\* A document listed as ready is found by searches, unless a re-encode is
\* under way or ended in a failure the queue page shows (reencode_all's
\* "silent index data loss" comment).
ReadyIsSearchable ==
    run.step = "none" => \A d \in Docs : status[d] = "ready" => chunks[d] # Unset

\* Whatever the order of rebinds, ingests and re-encodes, the table holds
\* vectors of its own width only (drop_chunk_table, get_vector_store).
OneWidth == \A d \in Docs : chunks[d] # Unset => width = Dims[chunks[d]]

\* What Materialization claims of an index without drift: its data was
\* encoded with the model the role resolves to.
NoDriftMeansEncoded ==
    stamp # Unset /\ ~Drifted /\ Active # Unset /\ NoRequestOpen /\ run.step = "none" =>
        \A d \in Docs : chunks[d] \in {Active, Unset}
=====================================================================================
