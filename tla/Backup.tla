--------------------------------- MODULE Backup ---------------------------------
(***************************************************************************)
(* manage.py backup and manage.py restore with the commands their docs put *)
(* around them: the queue's services stop, pg_dump writes the dump, the    *)
(* managed files are copied and hashed while web goes on serving, and the  *)
(* manifest closes the backup; later its files, then its rows, come back   *)
(* to this box or to an empty one. Either command may be killed anywhere.  *)
(***************************************************************************)
EXTENDS Naturals

CONSTANTS
    Docs,       \* documents, by id
    Contents,   \* what a managed file may hold
    Strict,     \* web is stopped for the backup too
    MaxEdits,   \* bound on uploads and deletions
    MaxRuns,    \* bound on backups taken
    MaxKills    \* bound on killed commands

None == "none"

ASSUME BackupAssumption ==
    /\ None \notin Docs /\ None \notin Contents
    /\ Strict \in BOOLEAN /\ {MaxEdits, MaxRuns, MaxKills} \subseteq Nat

VARIABLES
    row,        \* the documents' rows
    file,       \* DOCUMENTS_DIR
    edit,       \* the request web is in the middle of
    services,   \* web and worker, up or stopped
    op,         \* the operator's command
    dest,       \* the backup directory
    touched,    \* documents amiss at the dump, or changed while a command worked
    count       \* edits, runs and kills so far

bakVars == <<row, file, edit, services, op, dest, touched, count>>

Broken == "broken"
NoRow == [sha |-> None, state |-> None]
Rows == [sha : Contents, state : {"pending", "processing", "ready"}] \cup {NoRow}
Files == [Docs -> Contents \cup {None}]
NoFiles == [d \in Docs |-> None]
NoDump == [row |-> [d \in Docs |-> NoRow], run |-> 0]
NoManifest == [at |-> None, files |-> NoFiles, dump |-> NoDump, active |-> {}]
EmptyDest == [files |-> NoFiles, dump |-> NoDump, manifest |-> NoManifest]
NoEdit == [doc |-> None, to |-> None]
NoOp == [at |-> "idle", force |-> FALSE, dump |-> FALSE, fresh |-> FALSE, wrote |-> FALSE,
         todo |-> {}, listed |-> NoFiles, active |-> {}]

Finished == {"idle", "refused", "aborted", "done", "restored"}
Busy == {"dumped", "checked", "planned", "copying", "folding", "validated", "putting", "verifying",
         "replacing"}

Dumps == [row : [Docs -> Rows], run : 0..MaxRuns]

Dest ==
    [files : Files, dump : Dumps,
     manifest : [at : {None, Broken, "written"}, files : Files, dump : Dumps, active : SUBSET Docs]]

Command ==
    [at : Finished \cup Busy, force : BOOLEAN, dump : BOOLEAN, fresh : BOOLEAN, wrote : BOOLEAN,
     todo : SUBSET Docs, listed : Files, active : SUBSET Docs]

BakTypeOK ==
    /\ row \in [Docs -> Rows] /\ file \in Files
    /\ edit \in [doc : Docs, to : Contents \cup {None}] \cup {NoEdit}
    /\ services \in [web : BOOLEAN, worker : BOOLEAN]
    /\ op \in Command /\ dest \in Dest
    /\ dest.manifest.dump.run <= dest.dump.run /\ dest.dump.run <= count.runs
    /\ touched \subseteq Docs
    /\ count \in [edits : 0..MaxEdits, runs : 0..MaxRuns, kills : 0..MaxKills]

BakInit ==
    /\ file \in Files /\ edit = NoEdit
    /\ row = [d \in Docs |-> IF file[d] = None THEN NoRow ELSE [sha |-> file[d], state |-> "ready"]]
    /\ services = [web |-> TRUE, worker |-> TRUE]
    /\ op = NoOp /\ dest = EmptyDest /\ touched = {}
    /\ count = [edits |-> 0, runs |-> 0, kills |-> 0]

---------------------------------------------------------------------------
(* The program that is backed up: a request moves the file before its row  *)
(* commits, the worker takes what is pending.                              *)
\* A document that changes while a backup or a restore is under way.
Touches(d) == touched' = IF op.at \in Busy THEN touched \cup {d} ELSE touched

EditBegins(d, to) ==
    /\ services.web /\ edit = NoEdit /\ count.edits < MaxEdits
    /\ edit' = [doc |-> d, to |-> to] /\ file' = [file EXCEPT ![d] = to]
    /\ count' = [count EXCEPT !.edits = @ + 1] /\ Touches(d)
    /\ UNCHANGED <<row, services, op, dest>>

stage_document(d, c) == file[d] # c /\ EditBegins(d, c)

delete_document(d) == row[d] # NoRow /\ EditBegins(d, None)

EditCommits ==
    /\ edit # NoEdit
    /\ row' = [row EXCEPT ![edit.doc] = IF edit.to = None THEN NoRow ELSE [sha |-> edit.to, state |-> "pending"]]
    /\ edit' = NoEdit /\ Touches(edit.doc)
    /\ UNCHANGED <<file, services, op, dest, count>>

WorkerMoves(d, from, to) ==
    /\ services.worker /\ edit.doc # d
    /\ row[d].state = from /\ row' = [row EXCEPT ![d].state = to]
    /\ Touches(d)
    /\ UNCHANGED <<file, edit, services, op, dest, count>>

---------------------------------------------------------------------------
(* manage.py backup. *)
NoCommand == op.at \in Finished

StopServices ==
    /\ NoCommand /\ services.worker /\ edit = NoEdit
    /\ services' = [web |-> ~Strict, worker |-> FALSE]
    /\ UNCHANGED <<row, file, edit, op, dest, touched, count>>

StartServices ==
    /\ NoCommand /\ ~services.worker
    /\ services' = [web |-> TRUE, worker |-> TRUE]
    /\ UNCHANGED <<row, file, edit, op, dest, touched, count>>

\* Changing as the backup begins, or come back apart from an earlier restore.
Unsettled == {d \in Docs : d = edit.doc \/ (row[d] # NoRow /\ file[d] # row[d].sha)}

\* The shell's redirect replaces the dump in the directory it names.
PgDump(fresh, force) ==
    /\ NoCommand /\ count.runs < MaxRuns
    /\ dest' = [(IF fresh THEN EmptyDest ELSE dest) EXCEPT !.dump = [row |-> row, run |-> count.runs + 1]]
    /\ op' = [NoOp EXCEPT !.at = "dumped", !.force = force, !.dump = TRUE, !.fresh = fresh]
    /\ touched' = Unsettled
    /\ count' = [count EXCEPT !.runs = @ + 1]
    /\ UNCHANGED <<row, file, edit, services>>

\* A copy of the files alone, --dump not given.
FilesOnly(fresh, force) ==
    /\ NoCommand /\ count.runs < MaxRuns
    /\ dest' = IF fresh THEN EmptyDest ELSE dest
    /\ op' = [NoOp EXCEPT !.at = "dumped", !.force = force, !.fresh = fresh]
    /\ touched' = IF fresh THEN Unsettled ELSE touched
    /\ count' = [count EXCEPT !.runs = @ + 1]
    /\ UNCHANGED <<row, file, edit, services>>

EndsAs(how) == [NoOp EXCEPT !.at = how, !.fresh = op.fresh, !.wrote = op.wrote]

In(states) == {d \in Docs : row[d].state \in states}

check_active_work ==
    /\ op.at = "dumped"
    /\ op' = IF ~op.force /\ In({"processing"}) # {} THEN EndsAs("refused")
             ELSE [op EXCEPT !.at = "checked", !.active = In({"pending", "processing"})]
    /\ UNCHANGED <<row, file, edit, services, dest, touched, count>>

\* Nothing lies there but the dump this run was given.
validate_dest_emptiness ==
    dest.files = NoFiles /\ dest.manifest = NoManifest /\ (op.dump \/ dest.dump = NoDump)

Present(f) == {d \in Docs : f[d] # None}

planned_file_paths ==
    /\ op.at = "checked"
    /\ LET refuse == \/ ~op.force /\ ~validate_dest_emptiness
                     \/ ~(Present(dest.files) \subseteq Present(file))
       IN  op' = IF refuse THEN EndsAs("refused") ELSE [op EXCEPT !.at = "planned"]
    /\ UNCHANGED <<row, file, edit, services, dest, touched, count>>

\* The copy's own walk, after the one the check was made on.
_walk_root ==
    /\ op.at = "planned"
    /\ op' = [op EXCEPT !.at = "copying", !.todo = Present(file)]
    /\ UNCHANGED <<row, file, edit, services, dest, touched, count>>

\* One pass: what is written is what is recorded. A file that is gone ends
\* the run with an error.
_copy_and_hash(d) ==
    /\ op.at = "copying" /\ d \in op.todo
    /\ IF file[d] = None
       THEN op' = EndsAs("aborted") /\ UNCHANGED dest
       ELSE /\ dest' = [dest EXCEPT !.files[d] = file[d]]
            /\ op' = [op EXCEPT !.todo = @ \ {d}, !.listed[d] = file[d], !.wrote = TRUE]
    /\ UNCHANGED <<row, file, edit, services, touched, count>>

fold_in_dump ==
    /\ op.at = "copying" /\ op.todo = {}
    /\ op' = [op EXCEPT !.at = "folding"]
    /\ UNCHANGED <<row, file, edit, services, dest, touched, count>>

build_manifest ==
    /\ op.at = "folding"
    /\ dest' = [dest EXCEPT !.manifest = [at |-> "written", files |-> op.listed, active |-> op.active,
                                          dump |-> IF op.dump THEN dest.dump ELSE NoDump]]
    /\ op' = EndsAs("done")
    /\ UNCHANGED <<row, file, edit, services, touched, count>>

run_backup ==
    \/ check_active_work \/ planned_file_paths \/ _walk_root \/ fold_in_dump \/ build_manifest
    \/ \E d \in Docs : _copy_and_hash(d)

---------------------------------------------------------------------------
(* manage.py restore, the pg_restore it prints, and what is lost before.   *)
Disaster ==
    /\ NoCommand /\ edit = NoEdit /\ dest.manifest.at # None
    /\ row' = [d \in Docs |-> NoRow] /\ file' = NoFiles
    /\ UNCHANGED <<edit, services, op, dest, touched, count>>

\* validate_files_tree on what lies there now.
validate_files_tree == dest.files = dest.manifest.files

run_restore(force) ==
    /\ NoCommand /\ dest.manifest.at # None
    /\ LET refuse == \/ dest.manifest.at = Broken
                     \/ ~force /\ (file # NoFiles \/ In({"processing"}) # {})
                     \/ ~validate_files_tree
       IN  op' = IF refuse THEN [NoOp EXCEPT !.at = "refused"]
                 ELSE [NoOp EXCEPT !.at = "putting", !.force = force, !.todo = Present(dest.files)]
    /\ UNCHANGED <<row, file, edit, services, dest, touched, count>>

\* Mutant: a file that is there stays.
copy_files_tree_Keeps(d) ==
    /\ op.at = "putting" /\ d \in op.todo
    /\ file' = IF file[d] = None THEN [file EXCEPT ![d] = dest.files[d]] ELSE file
    /\ op' = [op EXCEPT !.todo = @ \ {d}, !.wrote = TRUE]
    /\ UNCHANGED <<row, edit, services, dest, touched, count>>

copy_files_tree(d) ==
    /\ op.at = "putting" /\ d \in op.todo
    /\ file' = [file EXCEPT ![d] = dest.files[d]]
    /\ op' = [op EXCEPT !.todo = @ \ {d}, !.wrote = TRUE]
    /\ UNCHANGED <<row, edit, services, dest, touched, count>>

\* A backup without a dump ends here; a dump that is not the manifest's is
\* refused, the files being in place already.
build_db_block ==
    /\ op.at = "putting" /\ op.todo = {}
    /\ op' = [op EXCEPT !.at = IF dest.manifest.dump = NoDump THEN "restored"
                               ELSE IF dest.manifest.dump = dest.dump THEN "verifying" ELSE "aborted"]
    /\ UNCHANGED <<row, file, edit, services, dest, touched, count>>

RESTORE_DB_SEQUENCE ==
    \/ /\ op.at = "verifying" /\ edit = NoEdit
       /\ services' = [web |-> FALSE, worker |-> FALSE] /\ op' = [op EXCEPT !.at = "replacing"]
       /\ UNCHANGED <<row, file, edit, dest, touched, count>>
    \/ /\ op.at = "replacing"
       /\ row' = dest.dump.row /\ op' = [op EXCEPT !.at = "restored"]
       /\ UNCHANGED <<file, edit, services, dest, touched, count>>

---------------------------------------------------------------------------
\* A killed command leaves what it has written; write_text truncates first.
Killed ==
    /\ op.at \in Busy /\ count.kills < MaxKills
    /\ op' = EndsAs("aborted")
    /\ \/ UNCHANGED dest
       \/ op.at = "folding" /\ dest' = [dest EXCEPT !.manifest = [NoManifest EXCEPT !.at = Broken]]
    /\ count' = [count EXCEPT !.kills = @ + 1]
    /\ UNCHANGED <<row, file, edit, services, touched>>

BakNext ==
    \/ \E d \in Docs : \/ \E c \in Contents : stage_document(d, c)
                       \/ delete_document(d) \/ copy_files_tree(d)
                       \/ WorkerMoves(d, "pending", "processing") \/ WorkerMoves(d, "processing", "ready")
    \/ EditCommits
    \/ StopServices \/ StartServices
    \/ \E fresh, force \in BOOLEAN : PgDump(fresh, force) \/ FilesOnly(fresh, force)
    \/ run_backup
    \/ Disaster
    \/ \E force \in BOOLEAN : run_restore(force)
    \/ build_db_block \/ RESTORE_DB_SEQUENCE
    \/ Killed

BakSpec == BakInit /\ [][BakNext]_bakVars

---------------------------------------------------------------------------
Back == op.at = "restored" /\ ~services.web /\ dest.manifest.dump # NoDump

\* A document nobody changed while it was backed up or restored comes back
\* with the file its row is about, to an empty box or over a later one.
RowsComeWithTheirFiles ==
    Back => \A d \in Docs \ touched : row[d] # NoRow => file[d] = row[d].sha

\* "A single pass, so the recorded hash always describes the bytes actually
\* written" (backup.py:475-476), and nothing stale lies beside it: a run that
\* ends well is a backup restore accepts, whatever web did meanwhile in a
\* directory of its own, and in a reused one when web did nothing.
DoneMeansRestorable ==
    op.at = "done" /\ (op.fresh \/ touched = {}) => validate_files_tree

\* "Nothing is mutated on refusal": a refused command has written nothing, to
\* the backup that is there or to the box.
RefusalChangesNothing == op.at = "refused" => ~op.wrote

\* restore names every document that comes back unfinished (what the backup
\* counted as pending or processing).
UnfinishedAreNamed ==
    Back => \A d \in Docs \ touched :
                row[d].state \in {"pending", "processing"} => d \in dest.manifest.active

\* "A delete in that window leaves a database row whose file is gone", an
\* upload "an orphan file with no database row" (OPERATIONS.md:1281-1284):
\* a row never comes back with a file that is not its own.
OwnFileOrNone ==
    Back => \A d \in Docs : row[d] # NoRow => file[d] \in {None, row[d].sha}
================================================================================
