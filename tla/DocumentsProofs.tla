----------------------------- MODULE DocumentsProofs -----------------------------
(***************************************************************************)
(* Proofs about Documents for any number of documents, versions, jobs,     *)
(* requests and faults; each theorem says whether attempts may be late,    *)
(* requests may die and the file may be tabular.                           *)
(***************************************************************************)
EXTENDS Documents, TLAPS, WellFoundedInduction

(* The library's Min returns an element of a set of naturals. *)
LEMMA MinOfNaturals ==
    ASSUME NEW S \in SUBSET Nat, S # {}
    PROVE  Min(S) \in S
<1>1. PICK x \in S : \A y \in S : ~(<<y, x>> \in OpToRel(<, Nat))
  BY NatLessThanWellFounded, WFMin
<1>2. ASSUME NEW y \in S, y < x PROVE FALSE
  <2>1. <<y, x>> \in Nat \X Nat
    OBVIOUS
  <2>2. <<y, x>>[1] < <<y, x>>[2]
    BY <1>2
  <2>3. <<y, x>> \in OpToRel(<, Nat)
    BY <2>1, <2>2, Zenon DEF OpToRel
  <2> QED BY <1>1, <2>3
<1>3. \A y \in S : x =< y
  BY <1>2
<1> QED BY <1>3 DEF Min

(* The next primary key and the next job are new ones; the row looked up is a row. *)
LEMMA FreshChoices ==
    /\ FreshDoc # {} => Min(FreshDoc) \in Docs /\ doc[Min(FreshDoc)].status = "absent"
    /\ FreshJob # {} => Min(FreshJob) \in Jobs /\ job[Min(FreshJob)].state = "absent"
    /\ DocumentAtPath \in Docs \cup {0}
<1>1. FreshDoc \in SUBSET Nat /\ FreshJob \in SUBSET Nat /\ Rows \in SUBSET Nat
  BY NumbersAssumption DEF FreshDoc, FreshJob, Rows
<1>2. FreshDoc # {} => Min(FreshDoc) \in FreshDoc
  BY <1>1, MinOfNaturals
<1>3. FreshJob # {} => Min(FreshJob) \in FreshJob
  BY <1>1, MinOfNaturals
<1>4. Rows # {} => Min(Rows) \in Rows
  BY <1>1, MinOfNaturals
<1> QED BY <1>2, <1>3, <1>4 DEF FreshDoc, FreshJob, DocumentAtPath, Rows

(* A status write keeps the table well typed and touches one row's status. *)
LEMMA SavedRows ==
    ASSUME TypeOK, NEW d, NEW s \in Live
    PROVE  /\ Saved(d, s) \in [Docs -> Document]
           /\ \A c \in Docs : c # d => Saved(d, s)[c] = doc[c]
           /\ d \in Docs /\ doc[d].status \in Live => Saved(d, s)[d].status = s
           /\ d \in Docs /\ doc[d].status \notin Live => Saved(d, s)[d] = doc[d]
BY DEF TypeOK, Saved, Rows, Document, Live

(* The bookkeeping of jobs and faults are numbers within their bounds. *)
LEMMA Numbers ==
    ASSUME TypeOK
    PROVE  /\ faults \in Nat /\ faults <= MaxFaults
           /\ \A j \in Jobs : /\ job[j].tries \in Nat /\ job[j].lost \in {0, 1}
                              /\ job[j].outcome \in {0} \cup Tries
                              /\ job[j].doc \in Docs \cup {0} /\ job[j].sha \in Versions \cup {0}
BY NumbersAssumption DEF TypeOK, Job, Tries

(* A row with new bookkeeping is a job row. *)
LEMMA JobRows ==
    ASSUME TypeOK, NEW j \in Jobs, NEW s \in JobStates, NEW n \in {0} \cup Tries,
           NEW l \in 0..1, NEW o \in {0} \cup Tries
    PROVE  /\ Row(job[j], s, n, l, o) \in Job
           /\ [job EXCEPT ![j] = Row(job[j], s, n, l, o)] \in [Jobs -> Job]
BY DEF TypeOK, Job, Row

(* The copies are counted by documents and versions. *)
LEMMA CopyCounts ==
    ASSUME TypeOK, NEW d \in Docs
    PROVE  /\ [copies EXCEPT ![d] = NoCopies] \in [Docs -> [Versions -> Nat]]
           /\ \A v \in Versions :
                [copies EXCEPT ![d] = [copies[d] EXCEPT ![v] = @ + 1]] \in [Docs -> [Versions -> Nat]]
BY DEF TypeOK, NoCopies

(* Where the attempt of an executing job belongs. *)
LEMMA ExecFacts ==
    ASSUME TypeOK, WellFormed, NEW e \in Execs
    PROVE  /\ e[1] \in Jobs /\ e[2] \in Tries
           /\ exec[e] \in Exec
           /\ Executing(e) => DocOf(e) \in Docs /\ ShaOf(e) \in Versions
BY DEF TypeOK, WellFormed, Execs, DocOf, ShaOf

(* The type invariant and what it needs. *)
DataInv == TypeOK /\ TriesBounded /\ WellFormed


(* Every step keeps the fields in place and the claims counted. *)
LEMMA DataStep == DataInv /\ [Next]_vars => DataInv'
<1> SUFFICES ASSUME DataInv, [Next]_vars PROVE DataInv'
  OBVIOUS
<1> USE DEF DataInv
<1>1. ASSUME NEW v \in Versions, Dropped(v) PROVE DataInv'
  <2>1. TypeOK'
    BY <1>1, NumbersAssumption DEF TypeOK, Dropped, WellFormed
  <2>2. TriesBounded'
    BY <1>1 DEF TriesBounded, Dropped
  <2>3. WellFormed'
    BY <1>1, <2>1 DEF TypeOK, WellFormed, Executing, Dropped
  <2> QED BY <2>1, <2>2, <2>3
<1>2. ASSUME NEW r \in Requests, NEW v \in Versions, UploadWrites(r, v) PROVE DataInv'
  <2>1. TypeOK'
    BY <1>2, NumbersAssumption DEF TypeOK, Request, RequestStates, Doors, UploadWrites, Idle,
       At, WellFormed
  <2>2. TriesBounded'
    BY <1>2 DEF TriesBounded, UploadWrites
  <2>3. WellFormed'
    BY <1>2, <2>1 DEF TypeOK, Request, RequestStates, Doors, WellFormed, Executing,
       UploadWrites, Idle, At
  <2> QED BY <2>1, <2>2, <2>3
<1>3. ASSUME NEW r \in Requests, WatcherPicks(r) PROVE DataInv'
  <2>1. TypeOK'
    BY <1>3, NumbersAssumption DEF TypeOK, Request, RequestStates, Doors, WatcherPicks, Idle,
       At, WellFormed
  <2>2. TriesBounded'
    BY <1>3 DEF TriesBounded, WatcherPicks
  <2>3. WellFormed'
    BY <1>3, <2>1 DEF TypeOK, Request, RequestStates, Doors, WellFormed, Executing,
       WatcherPicks, Idle, At
  <2> QED BY <2>1, <2>2, <2>3
<1>4. ASSUME NEW r \in Requests, Compare(r) PROVE DataInv'
  <2>1. TypeOK'
    BY <1>4, FreshChoices, NumbersAssumption DEF TypeOK, Request, RequestStates, Doors,
       Compare, At, WellFormed
  <2>2. TriesBounded'
    BY <1>4 DEF TriesBounded, Compare
  <2>3. WellFormed'
    BY <1>4, FreshChoices, <2>1 DEF TypeOK, Request, RequestStates, Doors, WellFormed,
       Executing, Compare, At
  <2> QED BY <2>1, <2>2, <2>3
<1>5. ASSUME NEW r \in Requests, Hash(r) PROVE DataInv'
  <2>1. TypeOK'
    BY <1>5, NumbersAssumption DEF TypeOK, Request, RequestStates, Doors, Hash, At, WellFormed
  <2>2. TriesBounded'
    BY <1>5 DEF TriesBounded, Hash
  <2>3. WellFormed'
    BY <1>5, <2>1 DEF TypeOK, Request, RequestStates, Doors, WellFormed, Executing, Hash, At
  <2> QED BY <2>1, <2>2, <2>3
<1>6. ASSUME NEW r \in Requests, Lookup(r) PROVE DataInv'
  <2>1. TypeOK'
    <3>1. req' \in [Requests -> Request]
      BY <1>6, FreshChoices DEF TypeOK, Request, RequestStates, Doors, Lookup, Goes, Ends, Idle,
         At, WellFormed
    <3>2. met' \subseteq Docs
      BY <1>6, FreshChoices DEF TypeOK, Lookup, ComesTo
    <3> QED BY <1>6, <3>1, <3>2 DEF TypeOK, Lookup
  <2>2. TriesBounded'
    BY <1>6 DEF TriesBounded, Lookup
  <2>3. WellFormed'
    BY <1>6, FreshChoices, <2>1 DEF TypeOK, Request, RequestStates, Doors, WellFormed,
       Executing, Lookup, Goes, Ends, Idle, At
  <2> QED BY <2>1, <2>2, <2>3
<1>7. ASSUME NEW r \in Requests, Refuse(r) PROVE DataInv'
  <2>1. TypeOK'
    BY <1>7, NumbersAssumption DEF TypeOK, Request, RequestStates, Doors, Refuse, Goes, Ends,
       Idle, At, WellFormed
  <2>2. TriesBounded'
    BY <1>7 DEF TriesBounded, Refuse
  <2>3. WellFormed'
    BY <1>7, <2>1 DEF TypeOK, Request, RequestStates, Doors, WellFormed, Executing, Refuse,
       Goes, Ends, Idle, At
  <2> QED BY <2>1, <2>2, <2>3
<1>8. ASSUME NEW r \in Requests, Unlink(r) PROVE DataInv'
  <2>1. TypeOK'
    BY <1>8, NumbersAssumption DEF TypeOK, Request, RequestStates, Doors, Unlink, Ends, Idle,
       At, WellFormed
  <2>2. TriesBounded'
    BY <1>8 DEF TriesBounded, Unlink
  <2>3. WellFormed'
    BY <1>8, <2>1 DEF TypeOK, Request, RequestStates, Doors, WellFormed, Executing, Unlink,
       Ends, Idle, At
  <2> QED BY <2>1, <2>2, <2>3
<1>9. ASSUME NEW r \in Requests, DeleteExistingData(r) PROVE DataInv'
  <2>1. TypeOK'
    BY <1>9, NumbersAssumption DEF TypeOK, Request, RequestStates, Doors, DeleteExistingData,
       Goes, NoCopies, At, WellFormed
  <2>2. TriesBounded'
    BY <1>9 DEF TriesBounded, DeleteExistingData
  <2>3. WellFormed'
    BY <1>9, <2>1 DEF TypeOK, Request, RequestStates, Doors, WellFormed, Executing,
       DeleteExistingData, Goes, NoCopies, At
  <2> QED BY <2>1, <2>2, <2>3
<1>10. ASSUME NEW r \in Requests, StageCommits(r) PROVE DataInv'
  <2>1. TypeOK'
    BY <1>10, FreshChoices, NumbersAssumption DEF TypeOK, Document, Live, Request,
       RequestStates, Doors, StageCommits, NoCopies, FreshDoc, At, WellFormed
  <2>2. TriesBounded'
    BY <1>10 DEF TriesBounded, StageCommits
  <2>3. WellFormed'
    <3>1. req[r].pc \in {"new", "cleared"} /\ UNCHANGED <<job, exec, hooks>>
      BY <1>10 DEF StageCommits
    <3>2. req[r].hash \in Versions /\ (req[r].pc = "cleared" => req[r].doc \in Docs)
      BY <3>1 DEF WellFormed
    <3>3. PICK d \in Docs : req' = [req EXCEPT ![r] = At("staged", req[r].door, d, req[r].hash)]
      BY <1>10, <3>1, <3>2, FreshChoices DEF StageCommits
    <3>4. req'[r].doc \in Docs /\ req'[r].hash \in Versions
      BY <3>2, <3>3 DEF TypeOK, At
    <3>5. \A s \in Requests : s # r => req'[s] = req[s]
      BY <3>3 DEF TypeOK
    <3> QED BY <3>1, <3>4, <3>5 DEF WellFormed, Executing
  <2> QED BY <2>1, <2>2, <2>3
<1>11. ASSUME NEW r \in Requests, StageRollsBack(r) PROVE DataInv'
  <2>1. TypeOK'
    BY <1>11, NumbersAssumption DEF TypeOK, Request, RequestStates, Doors, StageRollsBack,
       Goes, At, WellFormed
  <2>2. TriesBounded'
    BY <1>11 DEF TriesBounded, StageRollsBack
  <2>3. WellFormed'
    BY <1>11, <2>1 DEF TypeOK, Request, RequestStates, Doors, WellFormed, Executing,
       StageRollsBack, Goes, At
  <2> QED BY <2>1, <2>2, <2>3
<1>12. ASSUME NEW r \in Requests, ReportRaced(r) PROVE DataInv'
  <2>1. TypeOK'
    BY <1>12, NumbersAssumption DEF TypeOK, Request, RequestStates, Doors, ReportRaced, Ends,
       Idle, At, WellFormed
  <2>2. TriesBounded'
    BY <1>12 DEF TriesBounded, ReportRaced
  <2>3. WellFormed'
    BY <1>12, <2>1 DEF TypeOK, Request, RequestStates, Doors, WellFormed, Executing,
       ReportRaced, Ends, Idle, At
  <2> QED BY <2>1, <2>2, <2>3
<1>13. ASSUME NEW r \in Requests, EnqueueIngestJob(r) PROVE DataInv'
  <2>0. job' \in [Jobs -> Job]
    <3>1. req[r].doc \in Docs /\ req[r].hash \in Versions
      BY <1>13 DEF EnqueueIngestJob, WellFormed
    <3>2. [state |-> "queued", doc |-> req[r].doc, sha |-> req[r].hash,
           tries |-> 0, lost |-> 0, outcome |-> 0] \in Job
      BY <3>1 DEF Job, JobStates
    <3> QED BY <1>13, <3>2 DEF EnqueueIngestJob, TypeOK
  <2>1. TypeOK'
    BY <1>13, <2>0 DEF TypeOK, EnqueueIngestJob, Ends, Goes, Idle, At, Request, RequestStates, Doors
  <2>2. TriesBounded'
    BY <1>13, FreshChoices, Numbers DEF TypeOK, Request, RequestStates, Doors, Job, JobStates,
       Execs, TriesBounded, EnqueueIngestJob, Ends, Idle, FreshJob, At, NoJob
  <2>3. WellFormed'
    BY <1>13, FreshChoices, <2>1 DEF TypeOK, Request, RequestStates, Doors, Job, JobStates,
       Execs, WellFormed, Executing, EnqueueIngestJob, Ends, Idle, FreshJob, At, NoJob
  <2> QED BY <2>1, <2>2, <2>3
<1>14. ASSUME NEW r \in Requests, EnqueueRefused(r) PROVE DataInv'
  <2>0. doc' \in [Docs -> Document]
    BY <1>14, SavedRows DEF EnqueueRefused, Live
  <2>a. PICK x \in Request : x.pc \in {"idle", "unlink"} /\ req' = [req EXCEPT ![r] = x]
    <3>1. Idle \in Request /\ Idle.pc = "idle"
      BY DEF Idle, At, Request, RequestStates, Doors
    <3>2. /\ At("unlink", req[r].door, req[r].doc, req[r].hash) \in Request
          /\ At("unlink", req[r].door, req[r].doc, req[r].hash).pc = "unlink"
      BY DEF TypeOK, At, Request, RequestStates
    <3> QED BY <1>14, <3>1, <3>2 DEF EnqueueRefused, Goes, Ends
  <2>1. TypeOK'
    BY <1>14, <2>0, <2>a DEF TypeOK, EnqueueRefused
  <2>2. TriesBounded'
    BY <1>14 DEF TriesBounded, EnqueueRefused
  <2>3. WellFormed'
    <3>1. UNCHANGED <<job, exec, hooks>>
      BY <1>14 DEF EnqueueRefused
    <3> QED BY <2>a, <3>1 DEF WellFormed, Executing, TypeOK
  <2> QED BY <2>1, <2>2, <2>3
<1>15. ASSUME NEW r \in Requests, ReingestSaves(r) PROVE DataInv'
  <2>0. req[r].doc \in Docs /\ req[r].door \in Doors
    BY <1>15 DEF ReingestSaves, WellFormed, TypeOK, Request
  <2>a. ASSUME file[req[r].doc] \in Versions, req[r].doc \in Rows PROVE TypeOK' /\ WellFormed'
    <3>1. /\ doc' = [doc EXCEPT ![req[r].doc] = [status |-> "pending", file_hash |-> file[req[r].doc]]]
          /\ req' = [req EXCEPT ![r] = At("staged", req[r].door, req[r].doc, file[req[r].doc])]
      BY <1>15, <2>a, NumbersAssumption DEF ReingestSaves
    <3>2. [status |-> "pending", file_hash |-> file[req[r].doc]] \in Document
      BY <2>a DEF Document, Live
    <3>3. At("staged", req[r].door, req[r].doc, file[req[r].doc]) \in Request
      BY <2>0, <2>a DEF At, Request, RequestStates
    <3>4. TypeOK'
      BY <1>15, <3>1, <3>2, <3>3 DEF ReingestSaves, TypeOK
    <3>5. WellFormed'
      BY <1>15, <2>0, <2>a, <3>1 DEF ReingestSaves, WellFormed, Executing, TypeOK, At
    <3> QED BY <3>4, <3>5
  <2>b. ASSUME ~(file[req[r].doc] \in Versions /\ req[r].doc \in Rows) PROVE TypeOK' /\ WellFormed'
    <3>1. UNCHANGED doc /\ req' = [req EXCEPT ![r] = Idle]
      BY <1>15, <2>0, <2>b DEF ReingestSaves, Ends, TypeOK
    <3>2. TypeOK'
      BY <1>15, <3>1 DEF ReingestSaves, TypeOK, Idle, At, Request, RequestStates, Doors
    <3>3. WellFormed'
      BY <1>15, <3>1 DEF ReingestSaves, WellFormed, Executing, TypeOK, Idle, At
    <3> QED BY <3>2, <3>3
  <2>1. TypeOK' /\ WellFormed'
    BY <2>a, <2>b
  <2>2. TriesBounded'
    BY <1>15 DEF TriesBounded, ReingestSaves
  <2> QED BY <2>1, <2>2
<1>16. ASSUME NEW r \in Requests, Delete(r) PROVE DataInv'
  <2>1. TypeOK'
    BY <1>16, NumbersAssumption DEF TypeOK, Document, Live, Request, RequestStates, Doors,
       Delete, Goes, Ends, Idle, NoCopies, DeleteDocument, At, WellFormed
  <2>2. TriesBounded'
    BY <1>16 DEF TriesBounded, Delete
  <2>3. WellFormed'
    <3>1. req[r].doc \in Docs /\ UNCHANGED <<job, exec, hooks>>
      BY <1>16 DEF Delete, DeleteDocument, WellFormed
    <3>2. \/ \E pc \in {"delete_files", "delete_row"} :
               req' = [req EXCEPT ![r] = At(pc, req[r].door, req[r].doc, req[r].hash)]
          \/ req' = [req EXCEPT ![r] = Idle]
      BY <1>16 DEF Delete, DeleteDocument, Goes, Ends
    <3> QED BY <3>1, <3>2 DEF WellFormed, Executing, TypeOK, At, Idle
  <2> QED BY <2>1, <2>2, <2>3
<1>17. ASSUME NEW r \in Requests, RequestDies(r) PROVE DataInv'
  <2>1. TypeOK'
    BY <1>17, NumbersAssumption DEF TypeOK, Request, RequestStates, Doors, RequestDies, Ends,
       Idle, Faulty, At, WellFormed
  <2>2. TriesBounded'
    BY <1>17, Numbers DEF TypeOK, Request, RequestStates, Doors, TriesBounded, RequestDies,
       Ends, Idle, Faulty, At
  <2>3. WellFormed'
    BY <1>17, <2>1 DEF TypeOK, Request, RequestStates, Doors, WellFormed, Executing,
       RequestDies, Ends, Idle, Faulty, At
  <2> QED BY <2>1, <2>2, <2>3
<1>18. ASSUME NEW r \in Requests, NEW d \in Docs, ReingestLoads(r, d) PROVE DataInv'
  <2>1. TypeOK'
    BY <1>18, NumbersAssumption DEF TypeOK, Request, RequestStates, Doors, ReingestLoads,
       ComesTo, Idle, Rows, At, WellFormed
  <2>2. TriesBounded'
    BY <1>18 DEF TriesBounded, ReingestLoads
  <2>3. WellFormed'
    BY <1>18, <2>1 DEF TypeOK, Request, RequestStates, Doors, WellFormed, Executing,
       ReingestLoads, Idle, Rows, At
  <2> QED BY <2>1, <2>2, <2>3
<1>19. ASSUME NEW r \in Requests, NEW d \in Docs, DeleteLoads(r, d) PROVE DataInv'
  <2>1. TypeOK'
    BY <1>19, NumbersAssumption DEF TypeOK, Request, RequestStates, Doors, DeleteLoads, Idle,
       ComesTo, Rows, At, WellFormed
  <2>2. TriesBounded'
    BY <1>19 DEF TriesBounded, DeleteLoads
  <2>3. WellFormed'
    BY <1>19, <2>1 DEF TypeOK, Request, RequestStates, Doors, WellFormed, Executing,
       DeleteLoads, Idle, Rows, At
  <2> QED BY <2>1, <2>2, <2>3
<1>20. ASSUME NEW e \in Execs, MarkProcessing(e) PROVE DataInv'
  <2>0. doc' \in [Docs -> Document]
    BY <1>20, SavedRows DEF MarkProcessing, Live
  <2>1. TypeOK'
    BY <1>20, <2>0 DEF TypeOK, MarkProcessing, Steps, Exec, ExecStates
  <2>2. TriesBounded'
    BY <1>20 DEF TriesBounded, MarkProcessing
  <2>3. WellFormed'
    BY <1>20, <2>1 DEF TypeOK, WellFormed, Executing, MarkProcessing, Steps, Exec
  <2> QED BY <2>1, <2>2, <2>3
<1>21. ASSUME NEW e \in Execs, CheckHash(e) PROVE DataInv'
  <2>1. TypeOK'
    BY <1>21, NumbersAssumption DEF TypeOK, Exec, ExecStates, Execs, CheckHash, Steps, DocOf,
       ShaOf, WellFormed
  <2>2. TriesBounded'
    BY <1>21 DEF TriesBounded, CheckHash
  <2>3. WellFormed'
    BY <1>21, <2>1 DEF TypeOK, Exec, ExecStates, Execs, WellFormed, Executing, CheckHash,
       Steps, DocOf, ShaOf
  <2> QED BY <2>1, <2>2, <2>3
<1>22. ASSUME NEW e \in Execs, Read(e) PROVE DataInv'
  <2>1. TypeOK'
    <3>1. DocOf(e) \in Docs
      BY <1>22, ExecFacts DEF Read, Executing
    <3>2. file[DocOf(e)] \in Versions \cup {0}
      BY <3>1 DEF TypeOK
    <3> QED BY <1>22, <3>2 DEF TypeOK, Read, Exec, ExecStates
  <2>2. TriesBounded'
    BY <1>22 DEF TriesBounded, Read
  <2>3. WellFormed'
    BY <1>22, <2>1 DEF TypeOK, Exec, ExecStates, Execs, WellFormed, Executing, Read, DocOf
  <2> QED BY <2>1, <2>2, <2>3
<1>23. ASSUME NEW e \in Execs, Raise(e) PROVE DataInv'
  <2>1. TypeOK'
    BY <1>23, NumbersAssumption DEF TypeOK, Exec, ExecStates, Execs, Raise, Steps, WellFormed
  <2>2. TriesBounded'
    BY <1>23 DEF TriesBounded, Raise
  <2>3. WellFormed'
    BY <1>23, <2>1 DEF TypeOK, Exec, ExecStates, Execs, WellFormed, Executing, Raise, Steps
  <2> QED BY <2>1, <2>2, <2>3
<1>24. ASSUME NEW e \in Execs, EmptyIndex(e) PROVE DataInv'
  <2>1. TypeOK'
    BY <1>24, NumbersAssumption DEF TypeOK, Exec, ExecStates, Execs, EmptyIndex, Steps,
       NoCopies, DocOf, WellFormed
  <2>2. TriesBounded'
    BY <1>24 DEF TriesBounded, EmptyIndex
  <2>3. WellFormed'
    BY <1>24, <2>1 DEF TypeOK, Exec, ExecStates, Execs, WellFormed, Executing, EmptyIndex,
       Steps, NoCopies, DocOf
  <2> QED BY <2>1, <2>2, <2>3
<1>25. ASSUME NEW e \in Execs, InsertInIndex(e) PROVE DataInv'
  <2>1. TypeOK'
    <3>1. DocOf(e) \in Docs /\ exec[e].got \in Versions
      BY <1>25, ExecFacts DEF InsertInIndex, Steps, Executing, WellFormed
    <3>2. copies' \in [Docs -> [Versions -> Nat]]
      BY <1>25, <3>1, CopyCounts DEF InsertInIndex, TypeOK
    <3>3. exec' \in [Execs -> Exec]
      BY <1>25 DEF InsertInIndex, Steps, TypeOK, Exec, ExecStates
    <3> QED BY <1>25, <3>2, <3>3 DEF TypeOK, InsertInIndex
  <2>2. TriesBounded'
    BY <1>25 DEF TriesBounded, InsertInIndex
  <2>3. WellFormed'
    BY <1>25, <2>1 DEF TypeOK, Exec, ExecStates, Execs, WellFormed, Executing, InsertInIndex,
       Steps, DocOf, Rows
  <2> QED BY <2>1, <2>2, <2>3
<1>26. ASSUME NEW e \in Execs, MarkReady(e) PROVE DataInv'
  <2>0. doc' \in [Docs -> Document]
    BY <1>26, SavedRows DEF MarkReady, Live
  <2>1. TypeOK'
    BY <1>26, <2>0 DEF TypeOK, MarkReady, Steps, Exec, ExecStates
  <2>2. TriesBounded'
    BY <1>26 DEF TriesBounded, MarkReady
  <2>3. WellFormed'
    BY <1>26, <2>1 DEF TypeOK, WellFormed, Executing, MarkReady, Steps, Exec
  <2> QED BY <2>1, <2>2, <2>3
<1>27. ASSUME NEW e \in Execs, MarkFailed(e) PROVE DataInv'
  <2>0. doc' \in [Docs -> Document]
    BY <1>27, SavedRows DEF MarkFailed, Live
  <2>1. TypeOK'
    BY <1>27, <2>0 DEF TypeOK, MarkFailed, Steps, Exec, ExecStates
  <2>2. TriesBounded'
    BY <1>27 DEF TriesBounded, MarkFailed
  <2>3. WellFormed'
    BY <1>27, <2>1 DEF TypeOK, WellFormed, Executing, MarkFailed, Steps, Exec
  <2> QED BY <2>1, <2>2, <2>3
<1>28. ASSUME NEW e \in Execs, Report(e) PROVE DataInv'
  <2>1. TypeOK'
    BY <1>28, NumbersAssumption DEF TypeOK, Job, JobStates, Exec, ExecStates, Execs, Report,
       Steps, Outcome, Holds, Row, WellFormed
  <2>2. TriesBounded'
    BY <1>28, Numbers DEF TypeOK, Job, JobStates, Exec, ExecStates, Execs, TriesBounded,
       Report, Steps, Outcome, Holds, Row
  <2>3. WellFormed'
    <3>1. e[1] \in Jobs
      BY ExecFacts
    <3>2. UNCHANGED <<req, hooks>> /\ exec' = [exec EXCEPT ![e] = [pc |-> "over", got |-> 0]]
      BY <1>28 DEF Report, Steps
    <3>3. \A i \in Jobs : /\ job'[i].state = "absent" <=> job[i].state = "absent"
                          /\ job'[i].state = "running" => job[i].state = "running"
                          /\ job'[i].doc = job[i].doc /\ job'[i].sha = job[i].sha
                          /\ job'[i].tries = job[i].tries
      BY <1>28, <3>1 DEF Report, Outcome, Holds, Row, TypeOK
    <3>4. \A f \in Execs : f[1] \in Jobs
      BY DEF Execs
    <3> QED BY <3>2, <3>3, <3>4 DEF WellFormed, Executing, TypeOK
  <2> QED BY <2>1, <2>2, <2>3
<1>29. ASSUME NEW e \in Execs, HandlerMissing(e) PROVE DataInv'
  <2>1. TypeOK'
    BY <1>29, NumbersAssumption DEF TypeOK, Job, JobStates, Exec, ExecStates, Execs,
       HandlerMissing, Steps, Outcome, Holds, Row, WellFormed
  <2>2. TriesBounded'
    BY <1>29, Numbers DEF TypeOK, Job, JobStates, Exec, ExecStates, Execs, TriesBounded,
       HandlerMissing, Steps, Outcome, Holds, Row
  <2>3. WellFormed'
    BY <1>29, <2>1 DEF TypeOK, Job, JobStates, Exec, ExecStates, Execs, WellFormed, Executing,
       HandlerMissing, Steps, Outcome, Holds, Row
  <2> QED BY <2>1, <2>2, <2>3
<1>30. ASSUME NEW e \in Execs, WorkerDies(e) PROVE DataInv'
  <2>1. TypeOK'
    BY <1>30, NumbersAssumption DEF TypeOK, Exec, ExecStates, Execs, WorkerDies, Faulty, WellFormed
  <2>2. TriesBounded'
    BY <1>30, Numbers DEF TypeOK, Exec, ExecStates, Execs, TriesBounded, WorkerDies, Faulty
  <2>3. WellFormed'
    BY <1>30, <2>1 DEF TypeOK, Exec, ExecStates, Execs, WellFormed, Executing, WorkerDies, Faulty
  <2> QED BY <2>1, <2>2, <2>3
<1>31. ASSUME NEW j \in Jobs, Claim(j) PROVE DataInv'
  <2>1. TypeOK'
    <3>1. job[j].tries + 1 \in Tries
      BY <1>31, Numbers, NumbersAssumption DEF Claim, TriesBounded, Tries
    <3>2. job' \in [Jobs -> Job]
      BY <1>31, <3>1, Numbers, JobRows DEF Claim, JobStates
    <3>3. exec' \in [Execs -> Exec]
      BY <1>31 DEF Claim, TypeOK, Exec, ExecStates
    <3> QED BY <1>31, <3>2, <3>3 DEF TypeOK, Claim
  <2>2. TriesBounded'
    BY <1>31, Numbers DEF TypeOK, Job, JobStates, Exec, ExecStates, Execs, TriesBounded, Claim, Row
  <2>3. WellFormed'
    BY <1>31, <2>1 DEF TypeOK, Job, JobStates, Exec, ExecStates, Execs, WellFormed, Executing,
       Claim, Row
  <2> QED BY <2>1, <2>2, <2>3
<1>32. ASSUME NEW j \in Jobs, Sweep(j) PROVE DataInv'
  <2>0. /\ job[j].state = "running" /\ job[j].tries \in Tries
        /\ UNCHANGED <<inbox, doc, file, copies, req, exec, faults, arrivals, met>>
        /\ hooks' \subseteq hooks \cup {j}
        /\ \E s \in {"queued", "failed"} :
              /\ job' = [job EXCEPT ![j] = Row(job[j], s, job[j].tries, 1, 0)]
              /\ s = "queued" => job[j].lost = 0
    BY <1>32 DEF Sweep, WellFormed
  <2>1. TypeOK'
    <3>1. job' \in [Jobs -> Job]
      <4>1. PICK s \in {"queued", "failed"} :
               job' = [job EXCEPT ![j] = Row(job[j], s, job[j].tries, 1, 0)]
        BY <2>0
      <4>2. s \in JobStates /\ 1 \in 0..1 /\ job[j].tries \in {0} \cup Tries
        BY <2>0 DEF JobStates
      <4> QED BY <4>1, <4>2, JobRows
    <3> QED BY <2>0, <3>1 DEF TypeOK
  <2>2. TriesBounded'
    BY <2>0, Numbers DEF TriesBounded, Row, TypeOK
  <2>3. WellFormed'
    <3>1. \A i \in Jobs : /\ job'[i].state = "absent" <=> job[i].state = "absent"
                          /\ job'[i].state = "running" => job[i].state = "running"
                          /\ job'[i].doc = job[i].doc /\ job'[i].sha = job[i].sha
                          /\ job'[i].tries = job[i].tries
      BY <2>0 DEF Row, TypeOK
    <3>2. \A f \in Execs : f[1] \in Jobs
      BY DEF Execs
    <3> QED BY <2>0, <3>1, <3>2 DEF WellFormed, Executing
  <2> QED BY <2>1, <2>2, <2>3
<1>33. ASSUME NEW j \in Jobs, Drain(j) PROVE DataInv'
  <2>1. TypeOK'
    BY <1>33, NumbersAssumption DEF TypeOK, Job, JobStates, Exec, ExecStates, Execs, Drain,
       Faulty, HolderGone, Row, WellFormed
  <2>2. TriesBounded'
    <3>1. /\ job' = [job EXCEPT ![j] = Row(job[j], "queued", job[j].tries, job[j].lost, 0)]
          /\ faults' = faults + 1
      BY <1>33 DEF Drain, Faulty
    <3> QED BY <3>1, Numbers DEF TypeOK, TriesBounded, Row
  <2>3. WellFormed'
    BY <1>33, <2>1 DEF TypeOK, Job, JobStates, Exec, ExecStates, Execs, WellFormed, Executing,
       Drain, Faulty, HolderGone, Row
  <2> QED BY <2>1, <2>2, <2>3
<1>34. ASSUME NEW j \in Jobs, Cancel(j) PROVE DataInv'
  <2>1. TypeOK'
    BY <1>34, NumbersAssumption DEF TypeOK, Job, JobStates, Execs, Cancel, Row, WellFormed
  <2>2. TriesBounded'
    BY <1>34, Numbers DEF TypeOK, Job, JobStates, Execs, TriesBounded, Cancel, Row
  <2>3. WellFormed'
    BY <1>34, <2>1 DEF TypeOK, Job, JobStates, Execs, WellFormed, Executing, Cancel, Row
  <2> QED BY <2>1, <2>2, <2>3
<1>35. ASSUME NEW j \in Jobs, OnIngestTerminal(j) PROVE DataInv'
  <2>0. doc' \in [Docs -> Document]
    BY <1>35, SavedRows DEF OnIngestTerminal, Live, TypeOK
  <2>1. TypeOK'
    BY <1>35, <2>0 DEF TypeOK, OnIngestTerminal
  <2>2. TriesBounded'
    BY <1>35 DEF TriesBounded, OnIngestTerminal
  <2>3. WellFormed'
    BY <1>35, <2>1 DEF TypeOK, Document, Live, WellFormed, Executing, OnIngestTerminal, Saved,
       Rows, Unfinished
  <2> QED BY <2>1, <2>2, <2>3
<1>36. CASE UNCHANGED vars
  BY <1>36 DEF vars, TypeOK, TriesBounded, WellFormed, Executing
<1> QED BY <1>1, <1>2, <1>3, <1>4, <1>5, <1>6, <1>7, <1>8, <1>9, <1>10, <1>11, <1>12, <1>13,
   <1>14, <1>15, <1>16, <1>17, <1>18, <1>19, <1>20, <1>21, <1>22, <1>23, <1>24, <1>25, <1>26,
   <1>27, <1>28, <1>29, <1>30, <1>31, <1>32, <1>33, <1>34, <1>35, <1>36 DEF Next, RequestStep,
   ExecStep

(* The initial states. *)
LEMMA DataInit == Init => DataInv
<1> SUFFICES ASSUME Init PROVE DataInv
  OBVIOUS
<1>1. TypeOK
  BY NumbersAssumption DEF Init, TypeOK, Document, Request, RequestStates, Doors, Job, JobStates,
     Exec, ExecStates, NoCopies, NoJob, Idle, At
<1>2. TriesBounded
  BY NumbersAssumption DEF Init, TriesBounded, NoJob
<1>3. WellFormed
  BY DEF Init, WellFormed, Executing, NoJob, Idle, At, Execs
<1> QED BY <1>1, <1>2, <1>3 DEF DataInv

(* Every variable of stage_document, run_ingest and the queue keeps its     *)
(* type, and in particular no job is claimed more often than its faults     *)
(* and its one retry allow, whatever the bounds, late attempts included.    *)
THEOREM TypeCorrect == Spec => []TypeOK
<1>1. DataInv => TypeOK
  BY DEF DataInv
<1> QED BY DataInit, DataStep, <1>1, PTL DEF Spec

---------------------------------------------------------------------------
(* Without late attempts an execution holds its job's claim.               *)

(* An attempt is a pair, so two attempts of one job with one ordinal agree. *)
LEMMA Pairs ==
    ASSUME NEW e \in Execs
    PROVE  e = <<e[1], e[2]>> /\ e[1] \in Jobs /\ e[2] \in Tries
BY DEF Execs

(* While no attempt outlives its claim, whoever executes an attempt still holds its job: every step
   keeps that. *)
LEMMA HoldsStep ==
    ASSUME ~Late, DataInv, ExecutingHolds, [Next]_vars
    PROVE  ExecutingHolds'
<1> USE DEF DataInv
<1>1. ASSUME UNCHANGED <<job, exec>> PROVE ExecutingHolds'
  BY <1>1 DEF ExecutingHolds, Executing, Holds
<1>2. ASSUME NEW e \in Execs, UNCHANGED job, Executing(e),
             \A f \in Execs : f # e => exec'[f] = exec[f]
      PROVE ExecutingHolds'
  BY <1>2 DEF ExecutingHolds, Executing, Holds
<1>3. ASSUME NEW r \in Requests, EnqueueIngestJob(r) PROVE ExecutingHolds'
  <2>1. UNCHANGED exec /\ Min(FreshJob) \in Jobs /\ job[Min(FreshJob)].state = "absent"
    BY <1>3, FreshChoices DEF EnqueueIngestJob
  <2>2. \A i \in Jobs : i # Min(FreshJob) => job'[i] = job[i]
    BY <1>3 DEF EnqueueIngestJob, TypeOK
  <2> QED BY <2>1, <2>2, Pairs DEF ExecutingHolds, Executing, Holds
<1>4. ASSUME NEW e \in Execs, Report(e) \/ HandlerMissing(e) PROVE ExecutingHolds'
  <2>1. exec' = [exec EXCEPT ![e] = [pc |-> "over", got |-> 0]] /\ Executing(e)
    BY <1>4 DEF Report, HandlerMissing, Steps, Executing
  <2>2. \A i \in Jobs : i # e[1] => job'[i] = job[i]
    BY <1>4, Pairs DEF Report, HandlerMissing, Outcome, TypeOK
  <2>3. ~Executing(e)'
    BY <2>1 DEF Executing, TypeOK
  <2>4. ASSUME NEW f \in Execs, f # e, Executing(f)' PROVE Holds(f)'
    <3>1. exec'[f] = exec[f]
      BY <2>1, <2>4 DEF TypeOK
    <3>2. Holds(f) /\ Holds(e)
      BY <2>1, <2>4, <3>1 DEF ExecutingHolds, Executing
    <3>3. f[1] # e[1]
      BY <2>4, <3>2, Pairs DEF Holds
    <3> QED BY <2>2, <3>2, <3>3, Pairs DEF Holds
  <2> QED BY <2>3, <2>4 DEF ExecutingHolds
<1>5. ASSUME NEW j \in Jobs, Claim(j) PROVE ExecutingHolds'
  <2>1. /\ job[j].state = "queued"
        /\ job' = [job EXCEPT ![j] = Row(job[j], "running", job[j].tries + 1, job[j].lost, 0)]
        /\ \A f \in Execs : f # <<j, job[j].tries + 1>> => exec'[f] = exec[f]
    BY <1>5 DEF Claim, TypeOK
  <2>2. ASSUME NEW f \in Execs, Executing(f)' PROVE Holds(f)'
    <3>1. CASE f = <<j, job[j].tries + 1>>
      BY <2>1, <3>1 DEF Holds, Row, TypeOK
    <3>2. CASE f # <<j, job[j].tries + 1>>
      <4>1. Holds(f)
        BY <2>1, <2>2, <3>2 DEF ExecutingHolds, Executing
      <4>2. f[1] # j
        BY <2>1, <4>1 DEF Holds
      <4> QED BY <2>1, <4>1, <4>2, Pairs DEF Holds, TypeOK
    <3> QED BY <3>1, <3>2
  <2> QED BY <2>2 DEF ExecutingHolds
<1>6. ASSUME NEW j \in Jobs, Sweep(j) \/ Cancel(j) PROVE ExecutingHolds'
  <2>1. ~(job[j].state = "running") \/ ~Executing(<<j, job[j].tries>>)
    BY <1>6 DEF Sweep, Cancel, HolderGone, Executing
  <2>2. UNCHANGED exec /\ \A i \in Jobs : i # j => job'[i] = job[i]
    BY <1>6 DEF Sweep, Cancel, TypeOK
  <2>3. ASSUME NEW f \in Execs, Executing(f)' PROVE Holds(f)'
    <3>1. Executing(f) /\ Holds(f)
      BY <2>2, <2>3 DEF ExecutingHolds, Executing
    <3>2. f[1] # j
      BY <2>1, <3>1, Pairs DEF Holds
    <3> QED BY <2>2, <3>1, <3>2, Pairs DEF Holds
  <2> QED BY <2>3 DEF ExecutingHolds
<1>7. ASSUME NEW j \in Jobs, Drain(j) PROVE ExecutingHolds'
  <2>1. /\ job[j].state = "running"
        /\ exec' = [exec EXCEPT ![<<j, job[j].tries>>] = [pc |-> "over", got |-> 0]]
        /\ \A i \in Jobs : i # j => job'[i] = job[i]
    BY <1>7 DEF Drain, TypeOK
  <2>2. ASSUME NEW f \in Execs, Executing(f)' PROVE Holds(f)'
    <3>1. f # <<j, job[j].tries>> /\ exec'[f] = exec[f]
      BY <2>1, <2>2 DEF Executing, TypeOK
    <3>2. Holds(f)
      BY <2>2, <3>1 DEF ExecutingHolds, Executing
    <3>3. f[1] # j
      BY <3>1, <3>2, Pairs DEF Holds
    <3> QED BY <2>1, <3>2, <3>3, Pairs DEF Holds
  <2> QED BY <2>2 DEF ExecutingHolds
<1>8. ASSUME NEW v \in Versions, Dropped(v) PROVE ExecutingHolds'
  BY <1>1, <1>8 DEF Dropped
<1>9. ASSUME NEW r \in Requests, NEW v \in Versions, UploadWrites(r, v) PROVE ExecutingHolds'
  BY <1>1, <1>9 DEF UploadWrites
<1>10. ASSUME NEW r \in Requests, NEW d \in Docs, ReingestLoads(r, d) \/ DeleteLoads(r, d)
       PROVE ExecutingHolds'
  BY <1>1, <1>10 DEF ReingestLoads, DeleteLoads
<1>11. ASSUME NEW r \in Requests,
              \/ WatcherPicks(r) \/ Compare(r) \/ Hash(r) \/ Lookup(r) \/ Refuse(r) \/ Unlink(r)
              \/ DeleteExistingData(r) \/ StageCommits(r) \/ StageRollsBack(r)
              \/ ReportRaced(r) \/ EnqueueRefused(r) \/ ReingestSaves(r) \/ Delete(r)
              \/ RequestDies(r)
       PROVE ExecutingHolds'
  <2>1. UNCHANGED <<job, exec>>
    BY <1>11 DEF WatcherPicks, Compare, Hash, Lookup, Refuse, Unlink, DeleteExistingData,
       StageCommits,
       StageRollsBack, ReportRaced, EnqueueRefused, ReingestSaves, Delete, RequestDies
  <2> QED BY <1>1, <2>1
<1>12. ASSUME NEW e \in Execs,
              \/ MarkProcessing(e) \/ CheckHash(e) \/ Read(e) \/ EmptyIndex(e)
              \/ InsertInIndex(e) \/ MarkReady(e) \/ MarkFailed(e) \/ Raise(e) \/ WorkerDies(e)
       PROVE ExecutingHolds'
  <2>1. Executing(e) /\ UNCHANGED job
    BY <1>12 DEF MarkProcessing, CheckHash, Read, EmptyIndex, InsertInIndex, MarkReady,
       MarkFailed, Raise, WorkerDies, Steps, Executing
  <2>2. \E x : exec' = [exec EXCEPT ![e] = x]
    BY <1>12 DEF MarkProcessing, CheckHash, Read, EmptyIndex, InsertInIndex, MarkReady,
       MarkFailed, Raise, WorkerDies, Steps
  <2>3. \A f \in Execs : f # e => exec'[f] = exec[f]
    BY <2>2 DEF TypeOK
  <2> QED BY <1>2, <2>1, <2>3
<1>13. ASSUME NEW j \in Jobs, OnIngestTerminal(j) PROVE ExecutingHolds'
  BY <1>1, <1>13 DEF OnIngestTerminal
<1>14. CASE UNCHANGED vars
  BY <1>1, <1>14 DEF vars
<1> QED BY <1>3, <1>4, <1>5, <1>6, <1>7, <1>8, <1>9, <1>10, <1>11, <1>12, <1>13, <1>14
        DEF Next, RequestStep, ExecStep

---------------------------------------------------------------------------
(* Every unfinished document has a keeper.                                 *)

(* A step of requests and of the inbox that leaves the staged ones alone. *)
LEMMA StagedStay ==
    ASSUME UNCHANGED <<job, exec, hooks>>, NEW d,
           \A s \in Requests : req[s].pc = "staged" /\ req[s].doc = d =>
                                 req'[s].pc = "staged" /\ req'[s].doc = d
    PROVE  Keeper(d) => Keeper(d)'
BY DEF Keeper

(* A step of an attempt matters to its own document only. *)
LEMMA AttemptAlone ==
    ASSUME DataInv, UNCHANGED <<job, req, hooks>>, NEW e \in Execs,
           \A f \in Execs : f # e => exec'[f] = exec[f],
           NEW d \in Docs, d # DocOf(e) \/ exec'[e].pc \notin {"ok", "bad"}
    PROVE  Keeper(d) => Keeper(d)'
<1>1. \A j \in Jobs : job[j].state = "running" => <<j, job[j].tries>> \in Execs
  BY DEF DataInv, WellFormed, Execs
<1>2. ASSUME NEW j \in Jobs, job[j].doc = d, job[j].state = "running",
             exec[<<j, job[j].tries>>].pc \notin {"ok", "bad"}
      PROVE  exec'[<<j, job[j].tries>>].pc \notin {"ok", "bad"}
  <2>1. CASE <<j, job[j].tries>> = e
    BY <1>2, <2>1 DEF DocOf
  <2>2. CASE <<j, job[j].tries>> # e
    BY <1>1, <1>2, <2>2
  <2> QED BY <2>1, <2>2
<1> QED BY <1>2 DEF Keeper

(* While requests are not killed, every step leaves each unfinished document somebody who will change
   it. *)
LEMMA KeptStep ==
    ASSUME ~Late, ~RequestsDie, DataInv, ExecutingHolds, Kept, [Next]_vars
    PROVE  Kept'
<1> USE DEF DataInv
<1>1. ASSUME UNCHANGED <<doc, job, exec, hooks>>,
             \A s \in Requests : req[s].pc = "staged" => req'[s] = req[s]
      PROVE  Kept'
  BY <1>1, StagedStay DEF Kept
<1>2. ASSUME NEW r \in Requests, req[r].pc # "staged", NEW x, req' = [req EXCEPT ![r] = x]
      PROVE  \A s \in Requests : req[s].pc = "staged" => req'[s] = req[s]
  BY <1>2 DEF TypeOK
<1>3. ASSUME NEW v \in Versions, Dropped(v) PROVE Kept'
  BY <1>1, <1>3 DEF Dropped
<1>4. ASSUME NEW r \in Requests, NEW v \in Versions, UploadWrites(r, v) PROVE Kept'
  BY <1>1, <1>2, <1>4 DEF UploadWrites
<1>5. ASSUME NEW r \in Requests, NEW d \in Docs, ReingestLoads(r, d) \/ DeleteLoads(r, d)
      PROVE  Kept'
  BY <1>1, <1>2, <1>5 DEF ReingestLoads, DeleteLoads
<1>6. ASSUME NEW r \in Requests,
             \/ WatcherPicks(r) \/ Compare(r) \/ Hash(r) \/ Lookup(r) \/ Refuse(r) \/ Unlink(r)
             \/ DeleteExistingData(r) \/ StageRollsBack(r) \/ ReportRaced(r)
      PROVE  Kept'
  <2>1. req[r].pc # "staged" /\ UNCHANGED <<doc, job, exec, hooks>>
    BY <1>6 DEF WatcherPicks, Compare, Hash, Lookup, Refuse, Unlink, DeleteExistingData,
       StageRollsBack, ReportRaced
  <2>2. \E x : req' = [req EXCEPT ![r] = x]
    BY <1>6 DEF WatcherPicks, Compare, Hash, Lookup, Refuse, Unlink, DeleteExistingData,
       StageRollsBack, ReportRaced, Goes, Ends
  <2> QED BY <1>1, <1>2, <2>1, <2>2
<1>7. ASSUME NEW r \in Requests, StageCommits(r) \/ ReingestSaves(r) PROVE Kept'
  <2>1. /\ req[r].pc # "staged" /\ UNCHANGED <<job, exec, hooks>>
        /\ req[r].pc \in {"cleared", "reload"} => req[r].doc \in Docs
    BY <1>7 DEF StageCommits, ReingestSaves, WellFormed
  <2>2. CASE UNCHANGED doc /\ req' = [req EXCEPT ![r] = Idle]
    BY <1>1, <1>2, <2>1, <2>2
  <2>3. ASSUME NEW d \in Docs, NEW x, NEW h,
               doc' = [doc EXCEPT ![d] = x],
               req' = [req EXCEPT ![r] = At("staged", req[r].door, d, h)]
        PROVE  Kept'
    <3>1. Keeper(d)'
      BY <2>3 DEF Keeper, At, TypeOK
    <3>2. \A s \in Requests : req[s].pc = "staged" => req'[s] = req[s]
      BY <1>2, <2>1, <2>3
    <3>3. \A c \in Docs : c # d => doc'[c] = doc[c]
      BY <2>3 DEF TypeOK
    <3>4. \A c \in Docs : Keeper(c) => Keeper(c)'
      BY <2>1, <3>2, StagedStay
    <3> QED BY <3>1, <3>3, <3>4 DEF Kept
  <2>4. ASSUME StageCommits(r) PROVE Kept'
    BY <2>1, <2>3, <2>4, FreshChoices DEF StageCommits
  <2>5. ASSUME ReingestSaves(r) PROVE Kept'
    BY <2>1, <2>2, <2>3, <2>5 DEF ReingestSaves, Ends
  <2> QED BY <1>7, <2>4, <2>5
<1>8. ASSUME NEW r \in Requests, EnqueueIngestJob(r) PROVE Kept'
  <2> DEFINE i == Min(FreshJob)
  <2>1. i \in Jobs /\ job[i].state = "absent" /\ UNCHANGED <<doc, exec, hooks>>
    BY <1>8, FreshChoices DEF EnqueueIngestJob
  <2>2. /\ job'[i].state = "queued" /\ job'[i].doc = req[r].doc
        /\ \A j \in Jobs : j # i => job'[j] = job[j]
        /\ \A s \in Requests : s # r => req'[s] = req[s]
    BY <1>8, <2>1 DEF EnqueueIngestJob, Ends, TypeOK
  <2>3. i \notin hooks
    BY <2>1 DEF WellFormed
  <2>4. \A c \in Docs : c = req[r].doc => Keeper(c)'
    BY <2>1, <2>2 DEF Keeper
  <2>5. ASSUME NEW c \in Docs, c # req[r].doc PROVE Keeper(c) => Keeper(c)'
    <3>1. \A j \in Jobs : j \in hooks \/ job[j].state \in {"queued", "running"} => job'[j] = job[j]
      BY <2>1, <2>2, <2>3
    <3>2. \A s \in Requests : req[s].doc = c => req'[s] = req[s]
      BY <2>2, <2>5
    <3> QED BY <2>1, <3>1, <3>2 DEF Keeper, TypeOK
  <2> QED BY <2>1, <2>4, <2>5 DEF Kept
<1>9. ASSUME NEW r \in Requests, EnqueueRefused(r) PROVE Kept'
  <2>1. UNCHANGED <<job, exec, hooks>> /\ doc' = Saved(req[r].doc, "failed")
    BY <1>9 DEF EnqueueRefused
  <2>2. \A s \in Requests : s # r => req'[s] = req[s]
    BY <1>9 DEF EnqueueRefused, Goes, Ends, TypeOK
  <2>3. ASSUME NEW c \in Docs, c # req[r].doc, doc'[c].status \in Unfinished PROVE Keeper(c)'
    <3>1. doc'[c] = doc[c]
      BY <2>1, <2>3, SavedRows DEF Live
    <3> QED BY <2>1, <2>2, <2>3, <3>1, StagedStay DEF Kept
  <2>4. req[r].doc \in Docs => doc'[req[r].doc].status \notin Unfinished
    BY <2>1, SavedRows DEF Live, Unfinished
  <2> QED BY <2>3, <2>4 DEF Kept
<1>10. ASSUME NEW r \in Requests, Delete(r) PROVE Kept'
  <2>1. /\ req[r].pc # "staged" /\ UNCHANGED <<job, exec, hooks>>
        /\ \E x : req' = [req EXCEPT ![r] = x]
    BY <1>10 DEF Delete, DeleteDocument, Goes, Ends
  <2>2. \A c \in Docs : Keeper(c) => Keeper(c)'
    BY <1>2, <2>1, StagedStay
  <2>3. \A c \in Docs : doc'[c].status \in Unfinished => doc[c].status \in Unfinished
    BY <1>10 DEF Delete, DeleteDocument, TypeOK, Unfinished
  <2> QED BY <2>2, <2>3 DEF Kept
<1>11. ASSUME NEW e \in Execs,
              \/ CheckHash(e) \/ Read(e) \/ EmptyIndex(e) \/ InsertInIndex(e)
              \/ Raise(e) \/ WorkerDies(e)
       PROVE  Kept'
  <2>1. /\ UNCHANGED <<doc, job, req, hooks>>
        /\ \E pc, got : /\ exec' = [exec EXCEPT ![e] = [pc |-> pc, got |-> got]]
                        /\ pc \notin {"ok", "bad"}
    BY <1>11 DEF CheckHash, Read, EmptyIndex, InsertInIndex, Raise, WorkerDies, Steps
  <2>2. exec'[e].pc \notin {"ok", "bad"} /\ \A f \in Execs : f # e => exec'[f] = exec[f]
    BY <2>1 DEF TypeOK
  <2> QED BY <2>1, <2>2, AttemptAlone DEF Kept
<1>12. ASSUME NEW e \in Execs, NEW s \in Live, NEW pc,
              UNCHANGED <<job, req, hooks>>, doc' = Saved(DocOf(e), s), Executing(e),
              exec' = [exec EXCEPT ![e] = [pc |-> pc, got |-> 0]],
              \/ pc \notin {"ok", "bad"}
              \/ s \notin Unfinished
              \/ DocOf(e) \notin Rows
       PROVE  Kept'
  <2>1. \A f \in Execs : f # e => exec'[f] = exec[f]
    BY <1>12 DEF TypeOK
  <2>2. \A c \in Docs : c # DocOf(e) /\ Keeper(c) => Keeper(c)'
    BY <1>12, <2>1, AttemptAlone
  <2>3. \A c \in Docs : c # DocOf(e) => doc'[c] = doc[c]
    BY <1>12, SavedRows
  <2>4. DocOf(e) \in Docs /\ Holds(e) /\ e[1] \in Jobs /\ e = <<e[1], job[e[1]].tries>>
    BY <1>12, ExecFacts, Pairs DEF ExecutingHolds, Holds
  <2>5. doc'[DocOf(e)].status \in Unfinished => Keeper(DocOf(e))'
    <3>1. CASE pc \notin {"ok", "bad"}
      <4>1. exec'[e].pc \notin {"ok", "bad"}
        BY <1>12, <3>1 DEF TypeOK
      <4> QED BY <1>12, <2>4, <4>1 DEF Keeper, Holds, DocOf
    <3>2. CASE s \notin Unfinished \/ DocOf(e) \notin Rows
      BY <1>12, <2>4, <3>2, SavedRows DEF Rows, Live, Unfinished
    <3> QED BY <1>12, <3>1, <3>2
  <2>6. DocOf(e)' = DocOf(e)
    BY <1>12 DEF DocOf
  <2> QED BY <2>2, <2>3, <2>5, <2>6 DEF Kept
<1>13. ASSUME NEW e \in Execs, MarkProcessing(e) PROVE Kept'
  <2>1. Executing(e) /\ "processing" \in Live
    BY <1>13 DEF MarkProcessing, Steps, Executing, Live
  <2>2. CASE DocOf(e) \in Rows
    BY <1>12, <1>13, <2>1, <2>2 DEF MarkProcessing, Steps
  <2>3. CASE DocOf(e) \notin Rows
    BY <1>12, <1>13, <2>1, <2>3 DEF MarkProcessing, Steps
  <2> QED BY <2>2, <2>3
<1>14. ASSUME NEW e \in Execs, MarkReady(e) PROVE Kept'
  <2>1. Executing(e) /\ "ready" \in Live /\ "ready" \notin Unfinished
    BY <1>14 DEF MarkReady, Steps, Executing, Live, Unfinished
  <2> QED BY <1>12, <1>14, <2>1 DEF MarkReady, Steps
<1>15. ASSUME NEW e \in Execs, MarkFailed(e) PROVE Kept'
  <2>1. Executing(e) /\ "failed" \in Live /\ "failed" \notin Unfinished
    BY <1>15 DEF MarkFailed, Steps, Executing, Live, Unfinished
  <2> QED BY <1>12, <1>15, <2>1 DEF MarkFailed, Steps
<1>16. ASSUME NEW e \in Execs, Report(e) PROVE Kept'
  <2>1. /\ UNCHANGED <<doc, req, hooks>> /\ exec[e].pc \in {"ok", "bad"}
        /\ exec' = [exec EXCEPT ![e] = [pc |-> "over", got |-> 0]]
    BY <1>16 DEF Report, Steps
  <2>2. Holds(e) /\ e[1] \in Jobs /\ e = <<e[1], job[e[1]].tries>>
    BY <2>1, Pairs DEF ExecutingHolds, Executing, Holds
  <2>3. /\ \A j \in Jobs : j # e[1] => job'[j] = job[j]
        /\ job'[e[1]].doc = job[e[1]].doc
    BY <1>16, <2>2 DEF Report, Outcome, Row, TypeOK
  <2>4. \A j \in Jobs : j # e[1] /\ job[j].state = "running" =>
            exec'[<<j, job[j].tries>>] = exec[<<j, job[j].tries>>]
    BY <2>1, <2>2 DEF TypeOK, WellFormed, Execs
  <2>5. \A c \in Docs : Keeper(c) => Keeper(c)'
    BY <2>1, <2>2, <2>3, <2>4 DEF Keeper, Holds, TypeOK
  <2> QED BY <2>1, <2>5 DEF Kept
<1>17. ASSUME UNCHANGED <<doc, req>>, NEW j \in Jobs, hooks \subseteq hooks', Keeper(job[j].doc)',
              job'[j].doc = job[j].doc,
              \A i \in Jobs : i # j => job'[i] = job[i],
              \A i \in Jobs, n \in Tries : i # j => exec'[<<i, n>>] = exec[<<i, n>>]
       PROVE  Kept'
  <2>1. ASSUME NEW c \in Docs, c # job[j].doc PROVE Keeper(c) => Keeper(c)'
    <3>1. \A i \in Jobs : job[i].doc = c => job'[i] = job[i]
      BY <1>17, <2>1
    <3>2. \A i \in Jobs : job[i].doc = c /\ job[i].state = "running" =>
              exec'[<<i, job[i].tries>>] = exec[<<i, job[i].tries>>]
      BY <1>17, <2>1 DEF WellFormed
    <3> QED BY <1>17, <3>1, <3>2 DEF Keeper, TypeOK
  <2> QED BY <1>17, <2>1 DEF Kept
<1>18. ASSUME NEW e \in Execs, HandlerMissing(e) PROVE Kept'
  <2>1. /\ UNCHANGED <<doc, req>> /\ hooks' = hooks \cup {e[1]} /\ e[1] \in Jobs
        /\ exec' = [exec EXCEPT ![e] = [pc |-> "over", got |-> 0]]
    BY <1>18, Pairs DEF HandlerMissing, Steps
  <2>2. /\ \A j \in Jobs : j # e[1] => job'[j] = job[j]
        /\ job'[e[1]].doc = job[e[1]].doc
    BY <1>18, <2>1 DEF HandlerMissing, Outcome, Row, TypeOK
  <2>3. \A i \in Jobs, n \in Tries : i # e[1] => exec'[<<i, n>>] = exec[<<i, n>>]
    BY <2>1 DEF TypeOK, Execs
  <2>4. Keeper(job[e[1]].doc)'
    BY <2>1, <2>2 DEF Keeper
  <2> QED BY <1>17, <2>1, <2>2, <2>3, <2>4
<1>19. ASSUME NEW j \in Jobs, Claim(j) PROVE Kept'
  <2>1. job'[j].state = "running" /\ job'[j].doc = job[j].doc /\ job'[j].tries = job[j].tries + 1
    BY <1>19 DEF Claim, Row, TypeOK
  <2>2. <<j, job[j].tries + 1>> \in Execs
    BY <1>19, Numbers, NumbersAssumption DEF Claim, TriesBounded, Tries, Execs
  <2>3. /\ exec'[<<j, job[j].tries + 1>>].pc = "claimed"
        /\ \A i \in Jobs, n \in Tries : i # j => exec'[<<i, n>>] = exec[<<i, n>>]
    BY <1>19, <2>2 DEF Claim, TypeOK, Execs
  <2>4. Keeper(job[j].doc)'
    BY <2>1, <2>3 DEF Keeper
  <2> QED BY <1>17, <1>19, <2>1, <2>3, <2>4 DEF Claim, TypeOK
<1>20. ASSUME NEW j \in Jobs, Sweep(j) \/ Cancel(j) PROVE Kept'
  <2>1. /\ UNCHANGED <<doc, req, exec>> /\ hooks \subseteq hooks'
        /\ \E s, l : /\ job' = [job EXCEPT ![j] = Row(job[j], s, job[j].tries, l, 0)]
                     /\ s = "queued" \/ j \in hooks'
    BY <1>20 DEF Sweep, Cancel
  <2>2. /\ job'[j].doc = job[j].doc /\ (job'[j].state = "queued" \/ j \in hooks')
        /\ \A i \in Jobs : i # j => job'[i] = job[i]
    BY <2>1 DEF Row, TypeOK
  <2>3. Keeper(job[j].doc)'
    BY <2>2 DEF Keeper
  <2> QED BY <1>17, <2>1, <2>2, <2>3
<1>21. ASSUME NEW j \in Jobs, Drain(j) PROVE Kept'
  <2>1. /\ UNCHANGED <<doc, req, hooks>>
        /\ job' = [job EXCEPT ![j] = Row(job[j], "queued", job[j].tries, job[j].lost, 0)]
        /\ exec' = [exec EXCEPT ![<<j, job[j].tries>>] = [pc |-> "over", got |-> 0]]
    BY <1>21 DEF Drain
  <2>2. /\ job'[j].doc = job[j].doc /\ job'[j].state = "queued"
        /\ \A i \in Jobs : i # j => job'[i] = job[i]
        /\ \A i \in Jobs, n \in Tries : i # j => exec'[<<i, n>>] = exec[<<i, n>>]
    BY <2>1 DEF Row, TypeOK, Execs
  <2>3. Keeper(job[j].doc)'
    BY <2>2 DEF Keeper
  <2> QED BY <1>17, <2>1, <2>2, <2>3
<1>22. ASSUME NEW j \in Jobs, OnIngestTerminal(j) PROVE Kept'
  <2>1. UNCHANGED <<req, job, exec>> /\ hooks' = hooks \ {j}
    BY <1>22 DEF OnIngestTerminal
  <2>2. \A c \in Docs : c # job[j].doc => doc'[c] = doc[c] /\ (Keeper(c) => Keeper(c)')
    <3>1. \A c \in Docs : c # job[j].doc => doc'[c] = doc[c]
      BY <1>22, SavedRows DEF OnIngestTerminal, Live
    <3>2. \A c \in Docs : c # job[j].doc /\ Keeper(c) => Keeper(c)'
      BY <2>1 DEF Keeper
    <3> QED BY <3>1, <3>2
  <2>3. job[j].doc \in Docs => doc'[job[j].doc].status \notin Unfinished
    BY <1>22, SavedRows DEF OnIngestTerminal, Live, Unfinished
  <2> QED BY <2>2, <2>3 DEF Kept
<1>23. CASE UNCHANGED vars
  BY <1>1, <1>23 DEF vars
<1>24. ASSUME NEW r \in Requests, RequestDies(r) PROVE Kept'
  BY <1>24 DEF RequestDies
<1> QED BY <1>3, <1>4, <1>5, <1>6, <1>7, <1>8, <1>9, <1>10, <1>11, <1>13, <1>14, <1>15, <1>16,
           <1>18, <1>19, <1>20, <1>21, <1>22, <1>23, <1>24
        DEF Next, RequestStep, ExecStep

(* No document is stranded while the processes that stage are not killed    *)
(* and attempts keep their claims: PENDING and PROCESSING rows always have   *)
(* a request about to enqueue, a job, an attempt or a hook, however many     *)
(* requests, workers' deaths, drains, retries and cancellations meet.        *)
THEOREM NeverStranded ==
    ASSUME ~Late, ~RequestsDie
    PROVE  Spec => []SomebodyIsResponsible
<1>1. Init => ExecutingHolds /\ Kept
  BY DEF Init, ExecutingHolds, Executing, Kept, Unfinished
<1>2. DataInv /\ ExecutingHolds /\ Kept /\ [Next]_vars => ExecutingHolds' /\ Kept'
  BY HoldsStep, KeptStep
<1>3. Kept => SomebodyIsResponsible
  BY DEF Kept, Keeper, SomebodyIsResponsible, BeingIngested
<1> QED BY DataInit, DataStep, <1>1, <1>2, <1>3, PTL DEF Spec

---------------------------------------------------------------------------
(* A row at rest tells the truth.                                          *)

\* Where a request has found its document and may still change it ...
Tending ==
    {"found", "cleared", "staged", "reload", "delete_chunks", "delete_files", "delete_row"}
\* ... and where the document's passages or its copy are gone for a while.
Clearing == {"cleared", "delete_files", "delete_row"}

Tends(r, d) == req[r].doc = d /\ req[r].pc \in Tending
Active(j) == job[j].state \in {"queued", "running"}

\* A row not given out yet is known to nobody.
Untouched ==
    \A d \in Docs : doc[d].status = "absent" =>
        /\ \A r \in Requests : req[r].doc # d
        /\ \A j \in Jobs : job[j].doc # d

\* One request or one job is busy with d, and no more.
AloneAt(d) ==
    /\ \A i, j \in Jobs : Active(i) /\ Active(j) /\ job[i].doc = d /\ job[j].doc = d => i = j
    /\ \A r \in Requests, j \in Jobs : Tends(r, d) /\ Active(j) => job[j].doc # d
    /\ \A r, s \in Requests : Tends(r, d) /\ Tends(s, d) => r = s

\* Whoever is busy with d finds a row, and it has the hash the job carries.
HashKnown(d) ==
    /\ (\E r \in Requests : Tends(r, d)) \/ (\E j \in Jobs : Active(j) /\ job[j].doc = d) =>
        doc[d].status \in Live
    /\ \A r \in Requests : Tends(r, d) /\ req[r].pc = "staged" => doc[d].file_hash = req[r].hash
    /\ \A j \in Jobs : Active(j) /\ job[j].doc = d => doc[d].file_hash = job[j].sha

\* Copy and index fit the row, except while a request is clearing them.
FilesFit(d) ==
    /\ doc[d].status \in Live /\ (\A r \in Requests : Tends(r, d) => req[r].pc \notin Clearing) =>
        /\ file[d] # 0
        /\ doc[d].status = "ready" => file[d] = doc[d].file_hash /\ IndexedOnce(d, doc[d].file_hash)
    /\ doc[d].status = "deleted" => file[d] = 0 /\ copies[d] = NoCopies
    /\ \A r \in Requests : Tends(r, d) =>
        /\ req[r].pc \in {"delete_files", "delete_row"} => copies[d] = NoCopies
        /\ req[r].pc = "delete_row" => file[d] = 0

\* What an attempt of d has established by the step it is at.
Knows(e, d) ==
    LET pc == exec[e].pc IN
    /\ pc \in {"marked", "checked", "read", "emptied", "indexed"} => doc[d].status # "ready"
    /\ pc \in {"checked", "read", "emptied", "indexed"} => file[d] = ShaOf(e)
    /\ pc \in {"read", "emptied"} => exec[e].got = ShaOf(e)
    /\ pc = "emptied" => copies[d] = NoCopies
    /\ pc = "indexed" => IndexedOnce(d, ShaOf(e))

SoundAt(d) ==
    /\ AloneAt(d) /\ HashKnown(d) /\ FilesFit(d)
    /\ \A e \in Execs : DocOf(e) = d => Knows(e, d)

\* The inductive invariant behind RestingRowsAreTrue.
Sound == Untouched /\ \A d \in Docs \ met : SoundAt(d)

(* At rest the invariant is the property. *)
LEMMA SoundRestsInTruth ==
    ASSUME TypeOK, Sound
    PROVE  RestingRowsAreTrue
<1> SUFFICES ASSUME NEW d \in Docs \ met, AtRest(d)
             PROVE  /\ doc[d].status = "ready" =>
                        file[d] = doc[d].file_hash /\ IndexedOnce(d, doc[d].file_hash)
                    /\ doc[d].status = "failed" => file[d] # 0
                    /\ doc[d].status = "deleted" => file[d] = 0 /\ copies[d] = NoCopies
  BY DEF RestingRowsAreTrue
<1>1. FilesFit(d)
  BY DEF Sound, SoundAt
<1>2. \A r \in Requests : ~Tends(r, d)
  BY DEF AtRest, Tends
<1> QED BY <1>1, <1>2 DEF FilesFit, Live

(* The row looked up is a row. *)
LEMMA PathRow == DocumentAtPath # 0 => DocumentAtPath \in Rows
<1>1. Rows \in SUBSET Nat
  BY NumbersAssumption DEF Rows
<1> QED BY <1>1, MinOfNaturals DEF DocumentAtPath

(* Zero is no document. *)
LEMMA ZeroIsNoDocument == 0 \notin Docs
BY NumbersAssumption

(* A step that leaves copy and index of c alone keeps c sound when nobody   *)
(* new becomes busy with c, its row keeps its hash and becomes READY no     *)
(* more, no request that was clearing c lets go of it, and an attempt of c  *)
(* that moves has established what its new place asks for.                  *)
LEMMA Stays ==
    ASSUME NEW c \in Docs, SoundAt(c),
           file'[c] = file[c], copies'[c] = copies[c],
           \/ doc'[c] = doc[c]
           \/ /\ doc[c].status \in Live /\ doc'[c].status \in Live \ {"ready"}
              /\ doc'[c].file_hash = doc[c].file_hash,
           \A r \in Requests :
              \/ req'[r] = req[r]
              \/ ~Tends(r, c)' /\ (Tends(r, c) => req[r].pc \notin Clearing),
           \A j \in Jobs : job'[j].doc = c =>
              /\ job[j].doc = c /\ job'[j].sha = job[j].sha
              /\ Active(j)' => Active(j),
           \A e \in Execs : DocOf(e)' = c => exec'[e] = exec[e] \/ Knows(e, c)'
    PROVE  SoundAt(c)'
<1>1. \A r \in Requests : Tends(r, c)' => Tends(r, c) /\ req'[r] = req[r]
  BY DEF Tends
<1>2. \A j \in Jobs : Active(j)' /\ job'[j].doc = c =>
          Active(j) /\ job[j].doc = c /\ job'[j].sha = job[j].sha
  OBVIOUS
<1>3. AloneAt(c)'
  BY <1>1, <1>2 DEF SoundAt, AloneAt
<1>4. HashKnown(c)'
  <2>1. /\ doc'[c].status \in Live <=> doc[c].status \in Live
        /\ doc'[c].file_hash = doc[c].file_hash
    OBVIOUS
  <2> QED BY <1>1, <1>2, <2>1 DEF SoundAt, HashKnown
<1>5. FilesFit(c)'
  <2>1. (\A r \in Requests : Tends(r, c)' => req'[r].pc \notin Clearing) =>
            \A r \in Requests : Tends(r, c) => req[r].pc \notin Clearing
    BY DEF Tends
  <2>2. doc'[c].status \in Live => doc[c].status \in Live
    OBVIOUS
  <2>3. doc'[c].status = "ready" => doc'[c] = doc[c]
    BY DEF Live
  <2>4. doc'[c].status = "deleted" => doc'[c] = doc[c]
    BY DEF Live
  <2> QED BY <1>1, <2>1, <2>2, <2>3, <2>4 DEF SoundAt, FilesFit, IndexedOnce, NoCopies
<1>6. ASSUME NEW e \in Execs, DocOf(e)' = c PROVE Knows(e, c)'
  <2>1. e[1] \in Jobs
    BY Pairs
  <2>2. CASE exec'[e] = exec[e]
    <3>1. DocOf(e) = c /\ ShaOf(e)' = ShaOf(e)
      BY <1>6, <2>1 DEF DocOf, ShaOf
    <3>2. Knows(e, c)
      BY <3>1 DEF SoundAt
    <3>3. doc[c].status # "ready" => doc'[c].status # "ready"
      OBVIOUS
    <3> QED BY <2>2, <3>1, <3>2, <3>3 DEF Knows, IndexedOnce, NoCopies
  <2> QED BY <1>6, <2>2
<1> QED BY <1>3, <1>4, <1>5, <1>6 DEF SoundAt

(* Rows not given out stay unknown when no row is taken back and requests   *)
(* and jobs turn to rows that are there.                                    *)
LEMMA UntouchedStays ==
    ASSUME Untouched,
           \A d \in Docs : doc'[d].status = "absent" => doc[d].status = "absent",
           \A r \in Requests : req'[r].doc \in Docs =>
              req'[r].doc = req[r].doc \/ doc'[req'[r].doc].status # "absent",
           \A j \in Jobs : job'[j].doc \in Docs =>
              job'[j].doc = job[j].doc \/ doc'[job'[j].doc].status # "absent"
    PROVE  Untouched'
BY DEF Untouched

(* A request that comes to a row nobody is busy with keeps it sound. *)
LEMMA Arrives ==
    ASSUME TypeOK, NEW d \in Docs, SoundAt(d), d \in Rows, ~BeingIngested(d),
           NEW r \in Requests, req[r].pc \notin Tending,
           \A s \in Requests : s # r => req[s].doc # d /\ req'[s] = req[s],
           req'[r].pc \in {"found", "reload", "delete_chunks"},
           UNCHANGED <<doc, file, copies, job, exec>>
    PROVE  SoundAt(d)'
<1>1. \A s \in Requests : ~Tends(s, d)
  BY DEF Tends
<1>2. \A s \in Requests : Tends(s, d)' => s = r
  BY DEF Tends
<1>3. \A j \in Jobs : ~(Active(j) /\ job[j].doc = d)
  BY DEF BeingIngested, Active
<1>4. AloneAt(d)'
  BY <1>2, <1>3 DEF AloneAt, Active
<1>5. HashKnown(d)'
  BY <1>2, <1>3 DEF HashKnown, Active, Rows
<1>6. FilesFit(d)'
  BY <1>1, <1>2 DEF SoundAt, FilesFit, IndexedOnce, Clearing
<1>7. \A e \in Execs : DocOf(e)' = d => Knows(e, d)'
  BY DEF SoundAt, Knows, DocOf, ShaOf, IndexedOnce
<1> QED BY <1>4, <1>5, <1>6, <1>7 DEF SoundAt

(* A request that writes nothing of c, and is not about c before or after   *)
(* in a way that counts, keeps c sound.                                     *)
LEMMA QuietRequest ==
    ASSUME NEW c \in Docs, SoundAt(c), NEW r \in Requests,
           UNCHANGED <<job, exec>>,
           doc'[c] = doc[c], file'[c] = file[c], copies'[c] = copies[c],
           \A s \in Requests : s # r => req'[s] = req[s],
           ~Tends(r, c)', Tends(r, c) => req[r].pc \notin Clearing
    PROVE  SoundAt(c)'
<1>1. \A s \in Requests :
        \/ req'[s] = req[s]
        \/ ~Tends(s, c)' /\ (Tends(s, c) => req[s].pc \notin Clearing)
  OBVIOUS
<1>2. \A j \in Jobs : Active(j)' <=> Active(j)
  BY DEF Active
<1> QED BY <1>1, <1>2, Stays

(* The steps of requests that neither touch a document nor come to one.     *)
LEMMA QuietSteps ==
    ASSUME DataInv, Sound,
           \/ \E v \in Versions : Dropped(v)
           \/ \E r \in Requests :
                 \/ \E v \in Versions : UploadWrites(r, v)
                 \/ WatcherPicks(r) \/ Compare(r) \/ Hash(r) \/ Refuse(r) \/ Unlink(r)
                 \/ StageRollsBack(r) \/ ReportRaced(r)
    PROVE  Sound'
<1>1. CASE \E v \in Versions : Dropped(v)
  <2>1. UNCHANGED <<doc, file, copies, req, job, exec, met>>
    BY <1>1 DEF Dropped
  <2>2. Untouched'
    BY <2>1, UntouchedStays DEF Sound
  <2>3. ASSUME NEW c \in Docs \ met' PROVE SoundAt(c)'
    <3>1. SoundAt(c) /\ \A j \in Jobs : Active(j)' <=> Active(j)
      BY <2>1 DEF Sound, Active
    <3> QED BY <2>1, <3>1, Stays
  <2> QED BY <2>2, <2>3 DEF Sound
<1>2. ASSUME NEW r \in Requests,
             \/ \E v \in Versions : UploadWrites(r, v)
             \/ WatcherPicks(r) \/ Compare(r) \/ Hash(r) \/ Refuse(r) \/ Unlink(r)
             \/ StageRollsBack(r) \/ ReportRaced(r)
      PROVE  Sound'
  <2>1. UNCHANGED <<doc, file, copies, job, exec>> /\ met \subseteq met'
    BY <1>2 DEF UploadWrites, WatcherPicks, Compare, Hash, Refuse, Unlink, StageRollsBack, ReportRaced
  <2>2. \A s \in Requests : s # r => req'[s] = req[s]
    BY <1>2 DEF UploadWrites, WatcherPicks, Compare, Hash, Refuse, Unlink, StageRollsBack,
                ReportRaced, Goes, Ends, DataInv, TypeOK
  <2>3. /\ req'[r].pc \notin Tending
        /\ req'[r].doc \in {0, req[r].doc}
    BY <1>2 DEF UploadWrites, WatcherPicks, Compare, Hash, Refuse, Unlink, StageRollsBack,
                ReportRaced, Goes, Ends, At, Idle, Tending, DataInv, TypeOK
  <2>4. req[r].pc \notin Clearing \/ req[r].doc \in met'
    BY <1>2 DEF UploadWrites, WatcherPicks, Compare, Hash, Refuse, Unlink, StageRollsBack,
                ReportRaced, Clearing
  <2>5. Untouched'
    BY <2>1, <2>2, <2>3, ZeroIsNoDocument, UntouchedStays DEF Sound
  <2>6. ASSUME NEW c \in Docs \ met' PROVE SoundAt(c)'
    <3>1. SoundAt(c)
      BY <2>1 DEF Sound
    <3>2. ~Tends(r, c)' /\ (Tends(r, c) => req[r].pc \notin Clearing)
      BY <2>3, <2>4 DEF Tends
    <3> QED BY <2>1, <2>2, <3>1, <3>2, QuietRequest
  <2> QED BY <2>5, <2>6 DEF Sound
<1> QED BY <1>1, <1>2

(* A request that finds its document in the table, from the path or from    *)
(* the page.                                                                *)
LEMMA ComingSteps ==
    ASSUME DataInv, Sound, NEW r \in Requests,
           Lookup(r) \/ \E d \in Docs : ReingestLoads(r, d) \/ DeleteLoads(r, d)
    PROVE  Sound'
<1> USE DEF DataInv
<1>1. ASSUME NEW d \in Rows, ComesTo(r, d), req'[r].doc = d, req[r].pc \notin Tending,
             req'[r].pc \in {"found", "reload", "delete_chunks"},
             \A s \in Requests : s # r => req'[s] = req[s],
             UNCHANGED <<doc, file, copies, job, exec>>
      PROVE  Sound'
  <2>1. d \in Docs /\ doc[d].status # "absent"
    BY DEF Rows, Live
  <2>2. Untouched'
    BY <1>1, <2>1, UntouchedStays DEF Sound
  <2>3. ASSUME NEW c \in Docs \ met' PROVE SoundAt(c)'
    <3>1. SoundAt(c)
      BY <1>1 DEF Sound, ComesTo
    <3>2. CASE c = d
      <4>1. ~BeingIngested(d) /\ \A s \in Requests : s # r => req[s].doc # d
        BY <1>1, <3>2 DEF ComesTo
      <4> QED BY <1>1, <2>1, <3>1, <3>2, <4>1, Arrives
    <3>3. CASE c # d
      <4>1. ~Tends(r, c)' /\ ~Tends(r, c)
        BY <1>1, <3>3 DEF Tends
      <4> QED BY <1>1, <3>1, <4>1, QuietRequest
    <3> QED BY <3>2, <3>3
  <2> QED BY <2>2, <2>3 DEF Sound
<1>2. ASSUME NEW d \in Docs, ReingestLoads(r, d) \/ DeleteLoads(r, d) PROVE Sound'
  <2>1. d \in Rows /\ ComesTo(r, d) /\ UNCHANGED <<doc, file, copies, job, exec>>
    BY <1>2 DEF ReingestLoads, DeleteLoads
  <2>2. req'[r].doc = d /\ req'[r].pc \in {"reload", "delete_chunks"} /\ req[r].pc \notin Tending
    BY <1>2 DEF ReingestLoads, DeleteLoads, TypeOK, At, Tending
  <2>3. \A s \in Requests : s # r => req'[s] = req[s]
    BY <1>2 DEF ReingestLoads, DeleteLoads, TypeOK
  <2> QED BY <1>1, <2>1, <2>2, <2>3
<1>3. CASE Lookup(r)
  <2>1. /\ req[r].pc = "hashed" /\ UNCHANGED <<doc, file, copies, job, exec>>
        /\ req[r].pc \notin Tending
    BY <1>3 DEF Lookup, Tending
  <2>2. \A s \in Requests : s # r => req'[s] = req[s]
    BY <1>3 DEF Lookup, Goes, Ends, TypeOK
  <2>3. CASE DocumentAtPath # 0 /\ doc[DocumentAtPath].file_hash # req[r].hash
    <3>1. DocumentAtPath \in Rows
      BY <2>3, PathRow
    <3>2. /\ ComesTo(r, DocumentAtPath)
          /\ req' = [req EXCEPT ![r] = At("found", req[r].door, DocumentAtPath, req[r].hash)]
      BY <1>3, <2>3 DEF Lookup
    <3>3. req'[r].doc = DocumentAtPath /\ req'[r].pc = "found"
      BY <3>2 DEF TypeOK, At
    <3> QED BY <1>1, <2>1, <2>2, <3>1, <3>2, <3>3
  <2>4. CASE ~(DocumentAtPath # 0 /\ doc[DocumentAtPath].file_hash # req[r].hash)
    <3>1. UNCHANGED met /\ (Goes(r, "new") \/ Goes(r, "unlink") \/ Ends(r))
      BY <1>3, <2>4 DEF Lookup
    <3>2. req'[r].pc \notin Tending /\ req'[r].doc \in {0, req[r].doc}
      BY <3>1 DEF Goes, Ends, At, Idle, Tending, TypeOK
    <3>3. Untouched'
      BY <2>1, <2>2, <3>2, ZeroIsNoDocument, UntouchedStays DEF Sound
    <3>4. ASSUME NEW c \in Docs \ met' PROVE SoundAt(c)'
      <4>1. SoundAt(c) /\ ~Tends(r, c)' /\ ~Tends(r, c)
        BY <2>1, <3>1, <3>2 DEF Sound, Tends
      <4> QED BY <2>1, <2>2, <4>1, QuietRequest
    <3> QED BY <3>3, <3>4 DEF Sound
  <2> QED BY <2>3, <2>4
<1> QED BY <1>2, <1>3

(* A document a request is busy with has no job and no attempt under way. *)
LEMMA TendedAlone ==
    ASSUME DataInv, ExecutingHolds, NEW d \in Docs, SoundAt(d), NEW r \in Requests, Tends(r, d)
    PROVE  /\ \A s \in Requests : s # r => ~Tends(s, d)
           /\ \A j \in Jobs : ~(Active(j) /\ job[j].doc = d)
           /\ \A e \in Execs : DocOf(e) = d => ~Executing(e)
           /\ doc[d].status \in Live
<1>1. \A s \in Requests : s # r => ~Tends(s, d)
  BY DEF SoundAt, AloneAt
<1>2. \A j \in Jobs : ~(Active(j) /\ job[j].doc = d)
  BY DEF SoundAt, AloneAt
<1>3. ASSUME NEW e \in Execs, DocOf(e) = d, Executing(e) PROVE FALSE
  <2>1. e[1] \in Jobs /\ Holds(e)
    BY <1>3, Pairs DEF ExecutingHolds
  <2> QED BY <1>2, <1>3, <2>1 DEF Holds, Active, DocOf
<1>4. doc[d].status \in Live
  BY DEF SoundAt, HashKnown
<1> QED BY <1>1, <1>2, <1>3, <1>4

(* A document only request r is busy with after a step is sound when its    *)
(* row, copy and index fit.                                                 *)
LEMMA OnlyTended ==
    ASSUME NEW d \in Docs, NEW r \in Requests,
           \A s \in Requests : s # r => ~Tends(s, d)',
           \A j \in Jobs : ~(Active(j) /\ job[j].doc = d)',
           \A e \in Execs : DocOf(e)' = d => ~Executing(e)',
           Tends(r, d)' => /\ doc'[d].status \in Live
                           /\ req'[r].pc = "staged" => doc'[d].file_hash = req'[r].hash,
           FilesFit(d)'
    PROVE  SoundAt(d)'
<1>1. AloneAt(d)' /\ HashKnown(d)'
  BY DEF AloneAt, HashKnown
<1>2. \A e \in Execs : DocOf(e)' = d => Knows(e, d)'
  BY DEF Executing, Knows
<1> QED BY <1>1, <1>2 DEF SoundAt

(* The document a request is busy with stays sound when the step leaves the *)
(* jobs alone and the request's own place, row, copy and index fit.         *)
LEMMA TendedStays ==
    ASSUME DataInv, ExecutingHolds, NEW d \in Docs, SoundAt(d), NEW r \in Requests, Tends(r, d),
           UNCHANGED <<job, exec>>,
           \A s \in Requests : s # r => req'[s] = req[s],
           Tends(r, d)' => /\ doc'[d].status \in Live
                           /\ req'[r].pc = "staged" => doc'[d].file_hash = req'[r].hash,
           FilesFit(d)'
    PROVE  SoundAt(d)'
<1>1. \A s \in Requests : s # r => ~Tends(s, d)'
  BY TendedAlone DEF Tends
<1>2. \A j \in Jobs : ~(Active(j) /\ job[j].doc = d)'
  BY TendedAlone DEF Active
<1>3. \A e \in Execs : DocOf(e)' = d => ~Executing(e)'
  BY TendedAlone DEF DocOf, Executing
<1> QED BY <1>1, <1>2, <1>3, OnlyTended

(* The passages and the copy of the version before go. *)
LEMMA ClearingStep ==
    ASSUME ~Tabular, DataInv, ExecutingHolds, Sound, NEW r \in Requests, DeleteExistingData(r)
    PROVE  Sound'
<1> USE DEF DataInv
<1>0. PICK d \in Docs : d = req[r].doc
  BY DEF DeleteExistingData, WellFormed
<1>1. d \in Docs /\ Tends(r, d)
  BY <1>0 DEF DeleteExistingData, Tends, Tending
<1>2. /\ UNCHANGED <<doc, job, exec, met>>
      /\ copies' = [copies EXCEPT ![d] = NoCopies] /\ file' = [file EXCEPT ![d] = 0]
      /\ req' = [req EXCEPT ![r] = At("cleared", req[r].door, d, req[r].hash)]
  BY <1>0 DEF DeleteExistingData, Goes
<1>3. req'[r].pc = "cleared" /\ req'[r].doc = d /\ \A s \in Requests : s # r => req'[s] = req[s]
  BY <1>2 DEF TypeOK, At
<1>4. /\ copies'[d] = NoCopies /\ file'[d] = 0
      /\ \A c \in Docs : c # d => copies'[c] = copies[c] /\ file'[c] = file[c]
  BY <1>1, <1>2 DEF TypeOK
<1>5. Untouched'
  BY <1>0, <1>2, <1>3, UntouchedStays DEF Sound
<1>6. ASSUME NEW c \in Docs \ met' PROVE SoundAt(c)'
  <2>1. SoundAt(c)
    BY <1>2 DEF Sound
  <2>2. CASE c = d
    <3>1. Tends(r, d)' /\ \A s \in Requests : s # r => ~Tends(s, d)'
      BY <1>1, <1>3, <2>1, <2>2, TendedAlone DEF Tends, Tending
    <3>2. FilesFit(d)'
      BY <1>3, <1>4, <3>1 DEF FilesFit, Clearing, NoCopies
    <3>3. doc'[d].status \in Live
      BY <1>1, <1>2, <2>1, <2>2, TendedAlone
    <3> QED BY <1>1, <1>2, <1>3, <2>1, <2>2, <3>2, <3>3, TendedStays
  <2>3. CASE c # d
    <3>1. ~Tends(r, c)' /\ ~Tends(r, c)
      BY <1>0, <1>3, <2>3 DEF Tends
    <3> QED BY <1>2, <1>3, <1>4, <2>1, <2>3, <3>1, QuietRequest
  <2> QED BY <2>2, <2>3
<1> QED BY <1>5, <1>6 DEF Sound

(* The row, the passages and the copy of a deleted document go one by one. *)
LEMMA DeletingStep ==
    ASSUME ~Tabular, DataInv, ExecutingHolds, Sound, NEW r \in Requests, Delete(r)
    PROVE  Sound'
<1> USE DEF DataInv
<1>0. PICK d \in Docs : d = req[r].doc
  BY DEF Delete, DeleteDocument, WellFormed
<1>1. d = req[r].doc /\ Tends(r, d) /\ UNCHANGED <<job, exec, met>>
  BY <1>0 DEF Delete, DeleteDocument, Tends, Tending
<1>2. /\ \A s \in Requests : s # r => req'[s] = req[s]
      /\ \A c \in Docs : c # d => doc'[c] = doc[c] /\ copies'[c] = copies[c] /\ file'[c] = file[c]
      /\ req'[r].doc \in {0, d}
  BY <1>1 DEF Delete, DeleteDocument, Goes, Ends, At, Idle, TypeOK
<1>3. doc'[d].status # "absent" \/ doc'[d] = doc[d]
  BY <1>1 DEF Delete, DeleteDocument, TypeOK
<1>4. Untouched'
  BY <1>1, <1>2, <1>3, ZeroIsNoDocument, UntouchedStays DEF Sound
<1>5. ASSUME NEW c \in Docs \ met' PROVE SoundAt(c)'
  <2>1. SoundAt(c)
    BY <1>1 DEF Sound
  <2>2. CASE c # d
    <3>1. ~Tends(r, c)' /\ ~Tends(r, c)
      BY <1>1, <1>2, <2>2, ZeroIsNoDocument DEF Tends
    <3> QED BY <1>1, <1>2, <2>1, <2>2, <3>1, QuietRequest
  <2>3. CASE c = d
    <3>0. /\ \A s \in Requests : s # r => ~Tends(s, d)'
          /\ doc[d].status \in Live
      BY <1>1, <1>2, <2>1, <2>3, TendedAlone DEF Tends
    <3>1. CASE req[r].pc = "delete_chunks"
      <4>1. copies'[d] = NoCopies /\ doc'[d] = doc[d] /\ req'[r].pc = "delete_files" /\ req'[r].doc = d
        BY <1>1, <3>1 DEF Delete, DeleteDocument, Goes, At, TypeOK
      <4>2. FilesFit(d)'
        <5>1. Tends(r, d)'
          BY <4>1 DEF Tends, Tending
        <5> QED BY <3>0, <4>1, <5>1 DEF FilesFit, Clearing, NoCopies, Live
      <4> QED BY <1>1, <1>2, <2>1, <2>3, <3>0, <4>1, <4>2, TendedStays
    <3>2. CASE req[r].pc = "delete_files"
      <4>1. /\ copies'[d] = copies[d] /\ doc'[d] = doc[d] /\ file'[d] = 0
            /\ req'[r].pc = "delete_row" /\ req'[r].doc = d
        BY <1>1, <3>2 DEF Delete, DeleteDocument, Goes, At, TypeOK
      <4>2. copies[d] = NoCopies
        BY <1>1, <2>1, <2>3, <3>2 DEF SoundAt, FilesFit
      <4>3. FilesFit(d)'
        <5>1. Tends(r, d)'
          BY <4>1 DEF Tends, Tending
        <5> QED BY <3>0, <4>1, <4>2, <5>1 DEF FilesFit, Clearing, NoCopies
      <4> QED BY <1>1, <1>2, <2>1, <2>3, <3>0, <4>1, <4>3, TendedStays
    <3>3. CASE req[r].pc = "delete_row"
      <4>1. /\ copies'[d] = copies[d] /\ file'[d] = file[d]
            /\ doc'[d] = [status |-> "deleted", file_hash |-> 0] /\ req'[r].doc = 0
        BY <1>1, <3>3 DEF Delete, DeleteDocument, Ends, Idle, At, TypeOK
      <4>2. copies[d] = NoCopies /\ file[d] = 0
        BY <1>1, <2>1, <2>3, <3>3 DEF SoundAt, FilesFit
      <4>3. ~Tends(r, d)'
        BY <1>1, <4>1, ZeroIsNoDocument DEF Tends
      <4>4. FilesFit(d)'
        BY <3>0, <4>1, <4>2, <4>3 DEF FilesFit, NoCopies, Live
      <4> QED BY <1>1, <1>2, <2>1, <2>3, <4>3, <4>4, TendedStays
    <3> QED BY <3>1, <3>2, <3>3 DEF Delete, DeleteDocument
  <2> QED BY <2>2, <2>3
<1> QED BY <1>4, <1>5 DEF Sound

(* The staging commits: a new row, or the row whose passages and copy it cleared. *)
LEMMA CommittingStep ==
    ASSUME ~Tabular, DataInv, DataInv', ExecutingHolds, Sound, NEW r \in Requests, StageCommits(r)
    PROVE  Sound'
<1> USE DEF DataInv
<1>1. /\ req[r].pc \in {"new", "cleared"} /\ inbox # 0
      /\ req[r].pc = "new" => FreshDoc # {}
      /\ UNCHANGED <<copies, job, exec, met>>
  BY DEF StageCommits
<1>2. PICK d \in Docs :
        /\ req[r].pc = "new" => doc[d].status = "absent"
        /\ req[r].pc = "cleared" => d = req[r].doc
        /\ doc' = [doc EXCEPT ![d] = [status |-> "pending", file_hash |-> req[r].hash]]
        /\ file' = [file EXCEPT ![d] = inbox]
        /\ req' = [req EXCEPT ![r] = At("staged", req[r].door, d, req[r].hash)]
  <2>1. req[r].pc = "new" => Min(FreshDoc) \in Docs /\ doc[Min(FreshDoc)].status = "absent"
    BY <1>1, FreshChoices
  <2>2. req[r].pc = "cleared" => req[r].doc \in Docs
    BY DEF WellFormed
  <2>3. CASE req[r].pc = "new"
    BY <2>1, <2>3 DEF StageCommits
  <2>4. CASE req[r].pc = "cleared"
    BY <2>2, <2>4 DEF StageCommits
  <2> QED BY <1>1, <2>3, <2>4
<1>3. /\ \A s \in Requests : s # r => req'[s] = req[s]
      /\ req'[r].pc = "staged" /\ req'[r].doc = d /\ req'[r].hash = req[r].hash
      /\ \A c \in Docs : c # d => doc'[c] = doc[c] /\ file'[c] = file[c]
      /\ doc'[d] = [status |-> "pending", file_hash |-> req[r].hash] /\ file'[d] = inbox
  BY <1>2 DEF TypeOK, At
<1>4. Untouched'
  BY <1>1, <1>3, UntouchedStays DEF Sound
<1>5. ASSUME NEW c \in Docs \ met' PROVE SoundAt(c)'
  <2>1. SoundAt(c)
    BY <1>1 DEF Sound
  <2>2. CASE c # d
    <3>1. ~Tends(r, c)' /\ ~Tends(r, c)
      BY <1>1, <1>2, <1>3, <2>2 DEF Tends, Tending
    <3> QED BY <1>1, <1>3, <2>1, <2>2, <3>1, QuietRequest
  <2>3. CASE c = d
    <3>1. FilesFit(d)'
      <4>1. \A s \in Requests : s # r => ~Tends(s, d)
        <5>1. CASE req[r].pc = "new"
          BY <1>2, <5>1 DEF Sound, Untouched, Tends
        <5>2. CASE req[r].pc = "cleared"
          <6>1. Tends(r, d)
            BY <1>2, <5>2 DEF Tends, Tending
          <6> QED BY <2>1, <2>3, <6>1, TendedAlone
        <5> QED BY <1>1, <5>1, <5>2
      <4> QED BY <1>1, <1>3, <4>1 DEF FilesFit, Tends
    <3>2. doc'[d].status \in Live /\ doc'[d].file_hash = req'[r].hash
      BY <1>3 DEF Live
    <3>3. CASE req[r].pc = "cleared"
      <4>1. Tends(r, d)
        BY <1>2, <3>3 DEF Tends, Tending
      <4> QED BY <1>1, <1>3, <2>1, <2>3, <3>1, <3>2, <4>1, TendedStays
    <3>4. CASE req[r].pc = "new"
      <4>1. (\A s \in Requests : req[s].doc # d) /\ (\A j \in Jobs : job[j].doc # d)
        BY <1>2, <3>4 DEF Sound, Untouched
      <4>2. \A s \in Requests : s # r => ~Tends(s, d)'
        BY <1>3, <4>1 DEF Tends
      <4>3. \A j \in Jobs : ~(Active(j) /\ job[j].doc = d)'
        BY <1>1, <4>1
      <4>4. \A e \in Execs : DocOf(e)' # d
        BY <1>1, <4>1, Pairs DEF DocOf
      <4> QED BY <2>3, <3>1, <3>2, <4>2, <4>3, <4>4, OnlyTended
    <3> QED BY <1>1, <3>3, <3>4
  <2> QED BY <2>2, <2>3
<1> QED BY <1>4, <1>5 DEF Sound

(* The page's retry hashes the managed copy again and resets the row. *)
LEMMA ReingestStep ==
    ASSUME DataInv, ExecutingHolds, Sound, NEW r \in Requests, ReingestSaves(r)
    PROVE  Sound'
<1> USE DEF DataInv
<1>1. PICK d \in Docs : d = req[r].doc
  BY DEF ReingestSaves, WellFormed
<1>2. /\ req[r].pc = "reload" /\ Tends(r, d)
      /\ UNCHANGED <<file, copies, job, exec, met>>
  BY <1>1 DEF ReingestSaves, Tends, Tending
<1>3. CASE d \in Rows /\ file[d] # 0
  <2>1. /\ doc' = [doc EXCEPT ![d] = [status |-> "pending", file_hash |-> file[d]]]
        /\ req' = [req EXCEPT ![r] = At("staged", req[r].door, d, file[d])]
    BY <1>1, <1>3 DEF ReingestSaves
  <2>2. /\ \A s \in Requests : s # r => req'[s] = req[s]
        /\ req'[r].pc = "staged" /\ req'[r].doc = d /\ req'[r].hash = file[d]
        /\ \A c \in Docs : c # d => doc'[c] = doc[c]
        /\ doc'[d] = [status |-> "pending", file_hash |-> file[d]]
    BY <2>1 DEF TypeOK, At
  <2>3. Untouched'
    BY <1>2, <2>2, UntouchedStays DEF Sound
  <2>4. ASSUME NEW c \in Docs \ met' PROVE SoundAt(c)'
    <3>1. SoundAt(c)
      BY <1>2 DEF Sound
    <3>2. CASE c # d
      <4>1. ~Tends(r, c)' /\ ~Tends(r, c)
        BY <1>1, <2>2, <3>2 DEF Tends
      <4> QED BY <1>2, <2>2, <3>1, <3>2, <4>1, QuietRequest
    <3>3. CASE c = d
      <4>1. \A s \in Requests : s # r => ~Tends(s, d)
        BY <1>2, <3>1, <3>3, TendedAlone
      <4>2. FilesFit(d)'
        BY <1>2, <1>3, <2>2, <4>1 DEF FilesFit, Tends
      <4>3. doc'[d].status \in Live /\ doc'[d].file_hash = req'[r].hash
        BY <2>2 DEF Live
      <4> QED BY <1>2, <2>2, <3>1, <3>3, <4>2, <4>3, TendedStays
    <3> QED BY <3>2, <3>3
  <2> QED BY <2>3, <2>4 DEF Sound
<1>4. CASE ~(d \in Rows /\ file[d] # 0)
  <2>1. UNCHANGED doc /\ req' = [req EXCEPT ![r] = Idle]
    BY <1>1, <1>4 DEF ReingestSaves, Ends
  <2>2. req'[r].pc \notin Tending /\ req'[r].doc = 0 /\ \A s \in Requests : s # r => req'[s] = req[s]
    BY <2>1 DEF TypeOK, Idle, At, Tending
  <2>3. Untouched'
    BY <1>2, <2>1, <2>2, ZeroIsNoDocument, UntouchedStays DEF Sound
  <2>4. ASSUME NEW c \in Docs \ met' PROVE SoundAt(c)'
    <3>1. SoundAt(c) /\ ~Tends(r, c)' /\ req[r].pc \notin Clearing
      BY <1>2, <2>2 DEF Sound, Tends, Clearing
    <3> QED BY <1>2, <2>1, <2>2, <3>1, QuietRequest
  <2> QED BY <2>3, <2>4 DEF Sound
<1> QED BY <1>3, <1>4

(* The staged document gets its job ... *)
LEMMA EnqueueStep ==
    ASSUME DataInv, DataInv', ExecutingHolds, Sound, NEW r \in Requests, EnqueueIngestJob(r)
    PROVE  Sound'
<1> USE DEF DataInv
<1>1. PICK d \in Docs : d = req[r].doc
  BY DEF EnqueueIngestJob, WellFormed
<1>2. PICK j \in Jobs :
        /\ job[j].state = "absent"
        /\ job' = [job EXCEPT ![j] = [state |-> "queued", doc |-> d, sha |-> req[r].hash,
                                      tries |-> 0, lost |-> 0, outcome |-> 0]]
  BY <1>1, FreshChoices DEF EnqueueIngestJob
<1>3. /\ req[r].pc = "staged" /\ Tends(r, d)
      /\ UNCHANGED <<doc, file, copies, exec, met>>
      /\ req' = [req EXCEPT ![r] = Idle]
  BY <1>1 DEF EnqueueIngestJob, Tends, Tending, Ends
<1>4. /\ req'[r].pc \notin Tending /\ req'[r].doc = 0 /\ \A s \in Requests : s # r => req'[s] = req[s]
      /\ \A i \in Jobs : i # j => job'[i] = job[i]
      /\ job'[j].doc = d /\ job'[j].sha = req[r].hash
  BY <1>2, <1>3 DEF TypeOK, Idle, At, Tending
<1>5. Untouched'
  <2>1. doc[d].status # "absent"
    BY <1>1 DEF Sound, Untouched
  <2> QED BY <1>3, <1>4, <2>1, ZeroIsNoDocument, UntouchedStays DEF Sound
<1>6. ASSUME NEW c \in Docs \ met' PROVE SoundAt(c)'
  <2>1. SoundAt(c)
    BY <1>3 DEF Sound
  <2>2. CASE c # d
    <3>1. \A i \in Jobs : job'[i].doc = c => job'[i] = job[i]
      BY <1>4, <2>2
    <3>2. \A i \in Jobs : job'[i].doc = c => (Active(i)' => Active(i))
      BY <3>1 DEF Active
    <3>3. \A s \in Requests :
            \/ req'[s] = req[s]
            \/ ~Tends(s, c)' /\ (Tends(s, c) => req[s].pc \notin Clearing)
      BY <1>1, <1>4, <2>2 DEF Tends
    <3> QED BY <1>3, <2>1, <3>1, <3>2, <3>3, Stays
  <2>3. CASE c = d
    <3>1. /\ \A s \in Requests : s # r => ~Tends(s, d)
          /\ \A i \in Jobs : ~(Active(i) /\ job[i].doc = d)
          /\ \A e \in Execs : DocOf(e) = d => ~Executing(e)
          /\ doc[d].status \in Live
      BY <1>3, <2>1, <2>3, TendedAlone
    <3>2. \A s \in Requests : ~Tends(s, d)'
      BY <1>4, <3>1 DEF Tends
    <3>3. \A i \in Jobs : Active(i)' /\ job'[i].doc = d => i = j
      BY <1>4, <3>1 DEF Active
    <3>4. AloneAt(d)'
      BY <3>2, <3>3 DEF AloneAt
    <3>5. HashKnown(d)'
      <4>1. doc[d].file_hash = req[r].hash
        BY <1>3, <2>1, <2>3 DEF SoundAt, HashKnown
      <4> QED BY <1>3, <1>4, <3>1, <3>2, <3>3, <4>1 DEF HashKnown
    <3>6. FilesFit(d)'
      <4>1. \A s \in Requests : Tends(s, d) => req[s].pc \notin Clearing
        BY <1>3, <3>1 DEF Clearing
      <4> QED BY <1>3, <2>1, <2>3, <3>2, <4>1 DEF SoundAt, FilesFit, IndexedOnce, NoCopies
    <3>7. ASSUME NEW e \in Execs, DocOf(e)' = d PROVE Knows(e, d)'
      <4>1. ~Executing(e)
        <5>1. CASE e[1] = j
          BY <1>2, <5>1, Pairs DEF WellFormed
        <5>2. CASE e[1] # j
          BY <1>4, <3>1, <3>7, <5>2, Pairs DEF DocOf
        <5> QED BY <5>1, <5>2
      <4> QED BY <1>3, <4>1 DEF Executing, Knows
    <3> QED BY <2>3, <3>4, <3>5, <3>6, <3>7 DEF SoundAt
  <2> QED BY <2>2, <2>3
<1> QED BY <1>5, <1>6 DEF Sound

(* ... or cannot have one and is failed. *)
LEMMA RefusedStep ==
    ASSUME DataInv, Sound, NEW r \in Requests, EnqueueRefused(r)
    PROVE  Sound'
<1> USE DEF DataInv
<1>1. PICK d \in Docs : d = req[r].doc
  BY DEF EnqueueRefused, WellFormed
<1>2. /\ req[r].pc = "staged" /\ doc' = Saved(d, "failed")
      /\ UNCHANGED <<file, copies, job, exec, met>>
  BY <1>1 DEF EnqueueRefused
<1>3. /\ req'[r].pc \notin Tending /\ req'[r].doc \in {0, d}
      /\ \A s \in Requests : s # r => req'[s] = req[s]
  BY <1>1 DEF EnqueueRefused, Goes, Ends, Idle, At, Tending, TypeOK
<1>4. \A c \in Docs : c # d => doc'[c] = doc[c]
  BY <1>2, SavedRows DEF Live
<1>5. \/ doc'[d] = doc[d]
      \/ /\ doc[d].status \in Live /\ doc'[d].status \in Live \ {"ready"}
         /\ doc'[d].file_hash = doc[d].file_hash
  BY <1>2 DEF Saved, Rows, Live, TypeOK
<1>6. Untouched'
  <2>1. \A c \in Docs : doc'[c].status = "absent" => doc[c].status = "absent"
    BY <1>4, <1>5 DEF Live
  <2> QED BY <1>1, <1>2, <1>3, <2>1, ZeroIsNoDocument, UntouchedStays DEF Sound
<1>7. ASSUME NEW c \in Docs \ met' PROVE SoundAt(c)'
  <2>1. SoundAt(c) /\ ~Tends(r, c)' /\ req[r].pc \notin Clearing
    BY <1>2, <1>3 DEF Sound, Tends, Clearing
  <2>2. \A s \in Requests :
          \/ req'[s] = req[s]
          \/ ~Tends(s, c)' /\ (Tends(s, c) => req[s].pc \notin Clearing)
    BY <1>3, <2>1
  <2>3. \A j \in Jobs : Active(j)' <=> Active(j)
    BY <1>2 DEF Active
  <2>4. \/ doc'[c] = doc[c]
        \/ /\ doc[c].status \in Live /\ doc'[c].status \in Live \ {"ready"}
           /\ doc'[c].file_hash = doc[c].file_hash
    BY <1>4, <1>5
  <2> QED BY <1>2, <2>1, <2>2, <2>3, <2>4, Stays
<1> QED BY <1>6, <1>7 DEF Sound

(* An executing attempt is alone with its document, whose row has its hash. *)
LEMMA TryingAlone ==
    ASSUME DataInv, ExecutingHolds, NEW e \in Execs, Executing(e),
           NEW d \in Docs, DocOf(e) = d, SoundAt(d)
    PROVE  /\ \A r \in Requests : ~Tends(r, d)
           /\ \A f \in Execs : f # e /\ DocOf(f) = d => ~Executing(f)
           /\ doc[d].status \in Live
           /\ doc[d].file_hash = ShaOf(e)
           /\ file[d] # 0
<1>1. e[1] \in Jobs /\ Holds(e) /\ Active(e[1]) /\ job[e[1]].doc = d
  BY Pairs DEF ExecutingHolds, Holds, Active, DocOf
<1>2. \A r \in Requests : ~Tends(r, d)
  BY <1>1 DEF SoundAt, AloneAt
<1>3. ASSUME NEW f \in Execs, f # e, DocOf(f) = d, Executing(f) PROVE FALSE
  <2>1. f[1] \in Jobs /\ Holds(f) /\ Active(f[1]) /\ job[f[1]].doc = d
    BY <1>3, Pairs DEF ExecutingHolds, Holds, Active, DocOf
  <2>2. f[1] = e[1]
    BY <1>1, <2>1 DEF SoundAt, AloneAt
  <2>3. f[2] = e[2]
    BY <1>1, <2>1, <2>2 DEF Holds
  <2> QED BY <1>3, <2>2, <2>3, Pairs
<1>4. doc[d].status \in Live /\ doc[d].file_hash = ShaOf(e)
  BY <1>1 DEF SoundAt, HashKnown, ShaOf
<1>5. file[d] # 0
  BY <1>2, <1>4 DEF SoundAt, FilesFit
<1>6. \A f \in Execs : f # e /\ DocOf(f) = d => ~Executing(f)
  BY <1>3
<1> QED BY <1>2, <1>4, <1>5, <1>6

(* A step of the queue or of an attempt that touches neither copies nor     *)
(* passages, makes no row READY and starts no job keeps everything sound,   *)
(* if an attempt that moves has established what its new place asks for.    *)
LEMMA AttemptMoves ==
    ASSUME DataInv, Sound,
           UNCHANGED <<file, copies, req, met>>,
           UNCHANGED doc \/ \E d \in Docs, s \in Live \ {"ready"} : doc' = Saved(d, s),
           \A j \in Jobs : /\ job'[j].doc = job[j].doc /\ job'[j].sha = job[j].sha
                           /\ Active(j)' => Active(j),
           \A e \in Execs : exec'[e] = exec[e] \/ \A d \in Docs \ met : DocOf(e) = d => Knows(e, d)'
    PROVE  Sound'
<1> USE DEF DataInv
<1>1. \A c \in Docs :
        \/ doc'[c] = doc[c]
        \/ /\ doc[c].status \in Live /\ doc'[c].status \in Live \ {"ready"}
           /\ doc'[c].file_hash = doc[c].file_hash
  BY DEF Saved, Rows, TypeOK
<1>2. Untouched'
  <2>1. \A c \in Docs : doc'[c].status = "absent" => doc[c].status = "absent"
    BY <1>1 DEF Live
  <2> QED BY <2>1, UntouchedStays DEF Sound
<1>3. ASSUME NEW c \in Docs \ met' PROVE SoundAt(c)'
  <2>1. SoundAt(c)
    BY DEF Sound
  <2>2. \A f \in Execs : DocOf(f)' = c => exec'[f] = exec[f] \/ Knows(f, c)'
    BY Pairs DEF DocOf
  <2> QED BY <1>1, <2>1, <2>2, Stays
<1> QED BY <1>2, <1>3 DEF Sound

(* The steps of an attempt up to the read, its failures and its end. *)
LEMMA AttemptStep ==
    ASSUME DataInv, ExecutingHolds, Sound, NEW e \in Execs,
           \/ MarkProcessing(e) \/ CheckHash(e) \/ Read(e) \/ Raise(e) \/ MarkFailed(e)
           \/ Report(e) \/ HandlerMissing(e) \/ WorkerDies(e)
    PROVE  Sound'
<1> USE DEF DataInv
<1>0. e[1] \in Jobs /\ Executing(e) /\ DocOf(e) \in Docs
  <2>1. Executing(e)
    BY DEF MarkProcessing, CheckHash, Read, Raise, MarkFailed, Report, HandlerMissing,
           WorkerDies, Steps, Executing
  <2> QED BY <2>1, ExecFacts
<1>1. UNCHANGED <<file, copies, req, met>>
  BY DEF MarkProcessing, CheckHash, Read, Raise, MarkFailed, Report, HandlerMissing, WorkerDies
<1>2. UNCHANGED doc \/ \E d \in Docs, s \in Live \ {"ready"} : doc' = Saved(d, s)
  BY <1>0 DEF MarkProcessing, CheckHash, Read, Raise, MarkFailed, Report, HandlerMissing,
         WorkerDies, Live
<1>3. \A f \in Execs : f # e => exec'[f] = exec[f]
  BY DEF MarkProcessing, CheckHash, Read, Raise, MarkFailed, Report, HandlerMissing, WorkerDies,
         Steps, TypeOK
<1>4. \A j \in Jobs : /\ job'[j].doc = job[j].doc /\ job'[j].sha = job[j].sha
                      /\ Active(j)' => Active(j)
  <2>1. CASE UNCHANGED job
    BY <2>1 DEF Active
  <2>2. ASSUME NEW s \in {"succeeded", "failed"}, job' = Outcome(e, s)
        PROVE  \A j \in Jobs : /\ job'[j].doc = job[j].doc /\ job'[j].sha = job[j].sha
                               /\ Active(j)' => Active(j)
    BY <1>0, <2>2 DEF Outcome, Holds, Row, Active, TypeOK
  <2> QED BY <2>1, <2>2 DEF MarkProcessing, CheckHash, Read, Raise, MarkFailed, Report,
             HandlerMissing, WorkerDies
<1>5. ASSUME NEW d \in Docs \ met, DocOf(e) = d PROVE Knows(e, d)'
  <2>1. SoundAt(d) /\ Knows(e, d)
    BY <1>5 DEF Sound, SoundAt
  <2>2. ShaOf(e) \in Versions /\ ShaOf(e)' = ShaOf(e)
    BY <1>0, <1>4, ExecFacts DEF ShaOf
  <2>3. CASE MarkProcessing(e)
    <3>1. d \in Rows
      BY <1>0, <1>5, <2>1, TryingAlone DEF Rows
    <3>2. exec'[e].pc = "marked" /\ doc'[d].status = "processing"
      BY <1>5, <2>3, <3>1, SavedRows DEF MarkProcessing, Steps, TypeOK, Rows, Live
    <3> QED BY <3>2 DEF Knows
  <2>4. CASE CheckHash(e)
    <3>1. UNCHANGED <<doc, file>> /\ exec[e].pc = "marked"
      BY <2>4 DEF CheckHash, Steps
    <3>2. exec'[e].pc = IF file[d] = ShaOf(e) THEN "checked" ELSE "raised"
      BY <1>5, <2>4 DEF CheckHash, Steps, TypeOK
    <3> QED BY <2>1, <2>2, <3>1, <3>2 DEF Knows
  <2>5. CASE Read(e)
    <3>1. UNCHANGED <<doc, file>> /\ exec[e].pc = "checked"
      BY <2>5 DEF Read
    <3>2. exec'[e].pc = "raised" \/ (exec'[e].pc = "read" /\ exec'[e].got = file[d])
      BY <1>5, <2>5 DEF Read, TypeOK
    <3> QED BY <2>1, <2>2, <3>1, <3>2 DEF Knows
  <2>6. CASE Raise(e) \/ MarkFailed(e) \/ Report(e) \/ HandlerMissing(e) \/ WorkerDies(e)
    <3>1. exec'[e].pc \in {"raised", "bad", "over"}
      BY <2>6 DEF Raise, MarkFailed, Report, HandlerMissing, WorkerDies, Steps, TypeOK
    <3> QED BY <3>1 DEF Knows
  <2> QED BY <2>3, <2>4, <2>5, <2>6
<1> QED BY <1>1, <1>2, <1>3, <1>4, <1>5, AttemptMoves

(* Passages of one version, after none, are that version's exactly once. *)
LEMMA OncePlusNone ==
    ASSUME TypeOK, NEW d \in Docs, NEW v \in Versions, copies[d] = NoCopies,
           copies' = [copies EXCEPT ![d] = [copies[d] EXCEPT ![v] = @ + 1]]
    PROVE  copies'[d] = [NoCopies EXCEPT ![v] = 1]
BY DEF TypeOK, NoCopies

(* The steps of an attempt that change the index, and the READY write. *)
LEMMA IndexingStep ==
    ASSUME ~Tabular, DataInv, ExecutingHolds, Sound, NEW e \in Execs,
           EmptyIndex(e) \/ InsertInIndex(e) \/ MarkReady(e)
    PROVE  Sound'
<1> USE DEF DataInv
<1>0. PICK d \in Docs : d = DocOf(e) /\ Executing(e) /\ e[1] \in Jobs /\ ShaOf(e) \in Versions
  <2>1. Executing(e)
    BY DEF EmptyIndex, InsertInIndex, MarkReady, Steps, Executing
  <2> QED BY <2>1, ExecFacts
<1>1. UNCHANGED <<file, req, job, met>>
  BY DEF EmptyIndex, InsertInIndex, MarkReady
<1>2. \A f \in Execs : f # e => exec'[f] = exec[f]
  BY DEF EmptyIndex, InsertInIndex, MarkReady, Steps, TypeOK
<1>3. \A c \in Docs : c # d => doc'[c] = doc[c] /\ copies'[c] = copies[c]
  <2>1. "ready" \in Live
    BY DEF Live
  <2> QED BY <1>0, <2>1, SavedRows DEF EmptyIndex, InsertInIndex, MarkReady, TypeOK
<1>4. doc'[d].status = "absent" => doc[d].status = "absent"
  BY <1>0 DEF EmptyIndex, InsertInIndex, MarkReady, Saved, Rows, TypeOK
<1>5. Untouched'
  BY <1>1, <1>3, <1>4, UntouchedStays DEF Sound
<1>6. ASSUME NEW c \in Docs \ met', c # d PROVE SoundAt(c)'
  <2>1. SoundAt(c) /\ doc'[c] = doc[c] /\ copies'[c] = copies[c]
    BY <1>1, <1>3, <1>6 DEF Sound
  <2>2. \A f \in Execs : DocOf(f)' = c => exec'[f] = exec[f]
    BY <1>0, <1>1, <1>2, <1>6 DEF DocOf
  <2>3. \A j \in Jobs : Active(j)' <=> Active(j)
    BY <1>1 DEF Active
  <2> QED BY <1>1, <2>1, <2>2, <2>3, Stays
<1>7. ASSUME d \notin met' PROVE SoundAt(d)'
  <2>1. SoundAt(d) /\ Knows(e, d)
    BY <1>0, <1>1, <1>7 DEF Sound, SoundAt
  <2>2. /\ \A r \in Requests : ~Tends(r, d)
        /\ \A f \in Execs : f # e /\ DocOf(f) = d => ~Executing(f)
        /\ doc[d].status \in Live
        /\ doc[d].file_hash = ShaOf(e)
        /\ file[d] # 0
    BY <1>0, <2>1, TryingAlone
  <2>3. doc'[d].status \in Live /\ doc'[d].file_hash = doc[d].file_hash
    BY <1>0, <2>2 DEF EmptyIndex, InsertInIndex, MarkReady, Saved, Rows, TypeOK, Live
  <2>4. AloneAt(d)'
    BY <1>1, <2>1 DEF SoundAt, AloneAt, Tends, Active
  <2>5. HashKnown(d)'
    BY <1>1, <2>1, <2>2, <2>3 DEF SoundAt, HashKnown, Tends, Active
  <2>6. ShaOf(e)' = ShaOf(e) /\ DocOf(e)' = d /\ \A f \in Execs : DocOf(f)' = DocOf(f)
    BY <1>0, <1>1 DEF ShaOf, DocOf
  <2>7. \A f \in Execs : f # e /\ DocOf(f)' = d => Knows(f, d)'
    BY <1>2, <2>2, <2>6 DEF Executing, Knows
  <2>8. FilesFit(d)' /\ Knows(e, d)'
    <3>1. ASSUME doc'[d].status = "ready" =>
                    file'[d] = doc'[d].file_hash /\ IndexedOnce(d, doc[d].file_hash)'
          PROVE  FilesFit(d)'
      BY <1>1, <2>2, <2>3, <3>1 DEF FilesFit, Tends, Live
    <3>2. CASE EmptyIndex(e)
      <4>1. /\ exec[e].pc = "read" /\ exec'[e].pc = "emptied" /\ exec'[e].got = exec[e].got
            /\ copies'[d] = NoCopies /\ UNCHANGED doc
        BY <1>0, <3>2 DEF EmptyIndex, Steps, TypeOK
      <4>2. doc[d].status # "ready"
        BY <2>1, <4>1 DEF Knows
      <4> QED BY <1>1, <2>1, <2>6, <3>1, <4>1, <4>2 DEF Knows, NoCopies
    <3>3. CASE InsertInIndex(e)
      <4>1. /\ exec[e].pc = "emptied" /\ exec'[e].pc = "indexed" /\ UNCHANGED doc
            /\ copies' = [copies EXCEPT ![d] = [copies[d] EXCEPT ![exec[e].got] = @ + 1]]
        BY <1>0, <3>3 DEF InsertInIndex, Steps, RowRefused, TypeOK
      <4>2. /\ doc[d].status # "ready" /\ copies[d] = NoCopies
            /\ file[d] = ShaOf(e) /\ exec[e].got = ShaOf(e)
        BY <2>1, <4>1 DEF Knows
      <4>3. copies'[d] = [NoCopies EXCEPT ![ShaOf(e)] = 1]
        BY <1>0, <4>1, <4>2, OncePlusNone
      <4>4. IndexedOnce(d, ShaOf(e))'
        BY <2>6, <4>3 DEF IndexedOnce, NoCopies
      <4> QED BY <1>1, <2>6, <3>1, <4>1, <4>2, <4>4 DEF Knows
    <3>4. CASE MarkReady(e)
      <4>1. /\ exec[e].pc = "indexed" /\ exec'[e].pc \in {"ok", "raised"} /\ UNCHANGED copies
        BY <1>0, <3>4 DEF MarkReady, Steps, TypeOK
      <4>2. file[d] = ShaOf(e) /\ IndexedOnce(d, ShaOf(e))
        BY <2>1, <4>1 DEF Knows
      <4>3. file'[d] = doc'[d].file_hash /\ IndexedOnce(d, doc[d].file_hash)'
        BY <1>1, <2>2, <2>3, <4>1, <4>2 DEF IndexedOnce, NoCopies
      <4> QED BY <3>1, <4>1, <4>3 DEF Knows
    <3> QED BY <3>2, <3>3, <3>4
  <2>9. \A f \in Execs : DocOf(f)' = d => Knows(f, d)'
    BY <2>7, <2>8
  <2> QED BY <2>4, <2>5, <2>8, <2>9 DEF SoundAt
<1>8. \A c \in Docs \ met' : SoundAt(c)'
  BY <1>6, <1>7
<1> QED BY <1>5, <1>8 DEF Sound

(* What the queue does to a job, and the hook that repairs the row. *)
LEMMA QueueStep ==
    ASSUME DataInv, Sound, NEW j \in Jobs,
           Claim(j) \/ Sweep(j) \/ Drain(j) \/ Cancel(j) \/ OnIngestTerminal(j)
    PROVE  Sound'
<1> USE DEF DataInv
<1>1. UNCHANGED <<file, copies, req, met>>
  BY DEF Claim, Sweep, Drain, Cancel, OnIngestTerminal
<1>2. UNCHANGED doc \/ \E d \in Docs, s \in Live \ {"ready"} : doc' = Saved(d, s)
  <2>1. j \in hooks => job[j].doc \in Docs
    BY DEF WellFormed
  <2> QED BY <2>1 DEF Claim, Sweep, Drain, Cancel, OnIngestTerminal, Live
<1>3. \A i \in Jobs : /\ job'[i].doc = job[i].doc /\ job'[i].sha = job[i].sha
                      /\ Active(i)' => Active(i)
  <2>1. CASE UNCHANGED job
    BY <2>1 DEF Active
  <2>2. CASE Claim(j) \/ Sweep(j) \/ Drain(j) \/ Cancel(j)
    <3>1. /\ Active(j)
          /\ \E s, t, l : job' = [job EXCEPT ![j] = Row(job[j], s, t, l, 0)]
      BY <2>2 DEF Claim, Sweep, Drain, Cancel, Active
    <3>2. /\ job'[j].doc = job[j].doc /\ job'[j].sha = job[j].sha
          /\ \A i \in Jobs : i # j => job'[i] = job[i]
      BY <3>1 DEF Row, TypeOK
    <3> QED BY <3>1, <3>2 DEF Active
  <2> QED BY <2>1, <2>2 DEF OnIngestTerminal
<1>4. \A e \in Execs : exec'[e] = exec[e] \/ exec'[e].pc \in {"claimed", "over"}
  <2>1. \/ UNCHANGED exec
        \/ exec' = [exec EXCEPT ![<<j, job[j].tries + 1>>] = [pc |-> "claimed", got |-> 0]]
        \/ exec' = [exec EXCEPT ![<<j, job[j].tries>>] = [pc |-> "over", got |-> 0]]
    BY DEF Claim, Sweep, Drain, Cancel, OnIngestTerminal
  <2>2. ASSUME NEW x, NEW pc \in {"claimed", "over"}, exec' = [exec EXCEPT ![x] = [pc |-> pc, got |-> 0]]
        PROVE  \A e \in Execs : exec'[e] = exec[e] \/ exec'[e].pc \in {"claimed", "over"}
    BY <2>2 DEF TypeOK
  <2> QED BY <2>1, <2>2
<1>5. \A e \in Execs : exec'[e] = exec[e] \/ \A d \in Docs \ met : DocOf(e) = d => Knows(e, d)'
  BY <1>4 DEF Knows
<1> QED BY <1>1, <1>2, <1>3, <1>5, AttemptMoves

(* Every step keeps the rows at rest sound. *)
LEMMA SoundStep ==
    ASSUME ~Late, ~RequestsDie, ~Tabular, DataInv, DataInv', ExecutingHolds, Sound, [Next]_vars
    PROVE  Sound'
<1>1. ASSUME NEW r \in Requests, RequestStep(r) PROVE Sound'
  BY <1>1, QuietSteps, ComingSteps, ClearingStep, CommittingStep, EnqueueStep, ReingestStep,
     DeletingStep DEF RequestStep
<1>2. ASSUME NEW r \in Requests,
             \/ \E v \in Versions : UploadWrites(r, v)
             \/ WatcherPicks(r) \/ Refuse(r) \/ EnqueueRefused(r)
             \/ \E d \in Docs : ReingestLoads(r, d) \/ DeleteLoads(r, d)
      PROVE  Sound'
  BY <1>2, QuietSteps, ComingSteps, RefusedStep
<1>3. ASSUME NEW r \in Requests, RequestDies(r) PROVE FALSE
  BY <1>3 DEF RequestDies
<1>4. ASSUME NEW v \in Versions, Dropped(v) PROVE Sound'
  BY <1>4, QuietSteps
<1>5. ASSUME NEW e \in Execs, ExecStep(e) \/ Raise(e) \/ HandlerMissing(e) \/ WorkerDies(e)
      PROVE  Sound'
  BY <1>5, AttemptStep, IndexingStep DEF ExecStep
<1>6. ASSUME NEW j \in Jobs,
             Claim(j) \/ Sweep(j) \/ Drain(j) \/ Cancel(j) \/ OnIngestTerminal(j)
      PROVE  Sound'
  BY <1>6, QueueStep
<1>7. CASE UNCHANGED vars
  <2>1. UNCHANGED <<doc, file, copies, req, job, exec, met>>
    BY <1>7 DEF vars
  <2>2. Untouched'
    BY <2>1, UntouchedStays DEF Sound
  <2>3. ASSUME NEW c \in Docs \ met' PROVE SoundAt(c)'
    <3>1. SoundAt(c) /\ \A j \in Jobs : Active(j)' <=> Active(j)
      BY <2>1 DEF Sound, Active
    <3> QED BY <2>1, <3>1, Stays
  <2> QED BY <2>2, <2>3 DEF Sound
<1> QED BY <1>1, <1>2, <1>3, <1>4, <1>5, <1>6, <1>7 DEF Next

(* A row at rest tells the truth about its copy and its passages, unless    *)
(* two were once busy with its document or its new file was taken away:     *)
(* however many documents, requests and jobs there are, whatever crashes,   *)
(* drains, retries, cancellations, refusals and re-ingests came before.  An *)
(* attempt that outlives its claim, a killed request and a tabular file are *)
(* left out: each of them can leave a row that is wrong.                    *)
THEOREM RestingRowsTellTheTruth ==
    ASSUME ~Late, ~RequestsDie, ~Tabular
    PROVE  Spec => []RestingRowsAreTrue
<1>1. Init => ExecutingHolds /\ Sound
  <2> SUFFICES ASSUME Init PROVE ExecutingHolds /\ Sound
    OBVIOUS
  <2>1. ExecutingHolds
    BY DEF Init, ExecutingHolds, Executing
  <2>2. /\ \A r \in Requests : req[r].doc = 0 /\ req[r].pc = "idle"
        /\ \A j \in Jobs : job[j].doc = 0 /\ job[j].state = "absent"
        /\ \A d \in Docs : doc[d].status = "absent"
        /\ \A e \in Execs : exec[e].pc = "none"
    BY DEF Init, Idle, At, NoJob
  <2>3. Untouched
    BY <2>2, ZeroIsNoDocument DEF Untouched
  <2>4. ASSUME NEW d \in Docs PROVE SoundAt(d)
    <3>1. (\A r \in Requests : ~Tends(r, d)) /\ \A j \in Jobs : ~Active(j)
      BY <2>2 DEF Tends, Tending, Active
    <3>2. AloneAt(d) /\ HashKnown(d)
      BY <3>1 DEF AloneAt, HashKnown
    <3>3. FilesFit(d)
      BY <2>2, <3>1 DEF FilesFit, Live
    <3>4. \A e \in Execs : Knows(e, d)
      BY <2>2 DEF Knows
    <3> QED BY <3>2, <3>3, <3>4 DEF SoundAt
  <2> QED BY <2>1, <2>3, <2>4 DEF Sound
<1>2. DataInv /\ DataInv' /\ ExecutingHolds /\ Sound /\ [Next]_vars => ExecutingHolds' /\ Sound'
  BY HoldsStep, SoundStep
<1>3. DataInv /\ Sound => RestingRowsAreTrue
  BY SoundRestsInTruth DEF DataInv
<1> QED BY DataInit, DataStep, <1>1, <1>2, <1>3, PTL DEF Spec

---------------------------------------------------------------------------
(* The jobs behind the documents live the life JobLifecycle promises.      *)

\* A job's row now and after a step: where it was and where it goes, with its
\* claims, its losses and the attempt whose outcome it has.
Becomes(j, from, to, tries, lost, outcome) ==
    /\ job[j].state = from /\ job'[j].state = to
    /\ job'[j].tries = tries /\ job'[j].lost = lost /\ job'[j].outcome = outcome

\* What a step may do to one job.
JobMove(j) ==
    LET n == job[j].tries
        l == job[j].lost
    IN
    \/ job'[j] = job[j]
    \/ Becomes(j, "absent", "queued", 0, 0, 0)
    \/ Becomes(j, "queued", "running", n + 1, l, 0)
    \/ Becomes(j, "queued", "cancelled", n, l, 0)
    \/ Becomes(j, "running", "queued", n, l, 0)
    \/ Becomes(j, "running", "queued", n, 1, 0) /\ l = 0
    \/ Becomes(j, "running", "failed", n, 1, 0) /\ l = 1
    \/ Becomes(j, "running", "succeeded", n, l, n)
    \/ Becomes(j, "running", "failed", n, l, n)

\* A job nobody enqueued has no past, and one that waits or runs no outcome:
\* what the life cycle's steps take for granted.
BlankRow(j) ==
    /\ job[j].state = "absent" => job[j].tries = 0 /\ job[j].lost = 0
    /\ job[j].state \in {"absent", "queued", "running"} => job[j].outcome = 0

Blank == \A j \in Jobs : BlankRow(j)

(* A step that writes one job's row leaves the others as they are. *)
LEMMA OtherRowsStay ==
    ASSUME TypeOK, NEW j \in Jobs, NEW i \in Jobs, i # j,
           NEW x, job' = [job EXCEPT ![j] = x]
    PROVE  job'[i] = job[i]
BY DEF TypeOK

(* Every step makes one of the moves, for every job. *)
LEMMA EveryStepIsAMove ==
    ASSUME DataInv, [Next]_vars, NEW i \in Jobs
    PROVE  JobMove(i)
<1> USE DEF DataInv
<1>1. CASE UNCHANGED job
  BY <1>1 DEF JobMove
<1>2. ASSUME NEW r \in Requests, EnqueueIngestJob(r) PROVE JobMove(i)
  <2>1. PICK j \in Jobs :
          /\ job[j].state = "absent"
          /\ job' = [job EXCEPT ![j] =
                [state |-> "queued", doc |-> req[r].doc, sha |-> req[r].hash,
                 tries |-> 0, lost |-> 0, outcome |-> 0]]
    BY <1>2, FreshChoices DEF EnqueueIngestJob
  <2>2. i # j => job'[i] = job[i]
    BY <2>1 DEF TypeOK
  <2>3. Becomes(j, "absent", "queued", 0, 0, 0)
    BY <2>1 DEF TypeOK, Becomes
  <2> QED BY <2>2, <2>3 DEF JobMove
<1>3. ASSUME NEW j \in Jobs, Claim(j) PROVE JobMove(i)
  <2>1. /\ job[j].state = "queued"
        /\ job' = [job EXCEPT ![j] = Row(job[j], "running", job[j].tries + 1, job[j].lost, 0)]
    BY <1>3 DEF Claim
  <2>2. Becomes(j, "queued", "running", job[j].tries + 1, job[j].lost, 0)
    BY <2>1 DEF TypeOK, Row, Becomes
  <2> QED BY <2>1, <2>2, OtherRowsStay DEF JobMove
<1>4. ASSUME NEW j \in Jobs, Cancel(j) PROVE JobMove(i)
  <2>1. /\ job[j].state = "queued"
        /\ job' = [job EXCEPT ![j] = Row(job[j], "cancelled", job[j].tries, job[j].lost, 0)]
    BY <1>4 DEF Cancel
  <2>2. Becomes(j, "queued", "cancelled", job[j].tries, job[j].lost, 0)
    BY <2>1 DEF TypeOK, Row, Becomes
  <2> QED BY <2>1, <2>2, OtherRowsStay DEF JobMove
<1>5. ASSUME NEW j \in Jobs, Drain(j) PROVE JobMove(i)
  <2>1. /\ job[j].state = "running"
        /\ job' = [job EXCEPT ![j] = Row(job[j], "queued", job[j].tries, job[j].lost, 0)]
    BY <1>5 DEF Drain
  <2>2. Becomes(j, "running", "queued", job[j].tries, job[j].lost, 0)
    BY <2>1 DEF TypeOK, Row, Becomes
  <2> QED BY <2>1, <2>2, OtherRowsStay DEF JobMove
<1>6. ASSUME NEW j \in Jobs, Sweep(j) PROVE JobMove(i)
  <2>0. job[j].state = "running" /\ job[j].lost \in {0, 1}
    BY <1>6, Numbers DEF Sweep
  <2>1. CASE job[j].lost = 0
    <3>1. job' = [job EXCEPT ![j] = Row(job[j], "queued", job[j].tries, 1, 0)]
      BY <1>6, <2>1 DEF Sweep
    <3>2. Becomes(j, "running", "queued", job[j].tries, 1, 0)
      BY <2>0, <3>1 DEF TypeOK, Row, Becomes
    <3> QED BY <2>1, <3>1, <3>2, OtherRowsStay DEF JobMove
  <2>2. CASE job[j].lost = 1
    <3>1. job' = [job EXCEPT ![j] = Row(job[j], "failed", job[j].tries, 1, 0)]
      BY <1>6, <2>2 DEF Sweep
    <3>2. Becomes(j, "running", "failed", job[j].tries, 1, 0)
      BY <2>0, <3>1 DEF TypeOK, Row, Becomes
    <3> QED BY <2>2, <3>1, <3>2, OtherRowsStay DEF JobMove
  <2> QED BY <2>0, <2>1, <2>2
<1>7. ASSUME NEW e \in Execs, Report(e) \/ HandlerMissing(e) PROVE JobMove(i)
  <2>1. e[1] \in Jobs
    BY DEF Execs
  <2>2. PICK s \in {"succeeded", "failed"} : job' = Outcome(e, s)
    BY <1>7 DEF Report, HandlerMissing
  <2>3. CASE Holds(e)
    <3>1. /\ job[e[1]].state = "running" /\ job[e[1]].tries = e[2]
          /\ job' = [job EXCEPT ![e[1]] = Row(job[e[1]], s, e[2], job[e[1]].lost, e[2])]
      BY <2>2, <2>3 DEF Holds, Outcome
    <3>2. Becomes(e[1], "running", s, job[e[1]].tries, job[e[1]].lost, job[e[1]].tries)
      BY <2>1, <3>1 DEF TypeOK, Row, Becomes
    <3>3. i # e[1] => job'[i] = job[i]
      BY <2>1, <3>1, OtherRowsStay
    <3> QED BY <3>2, <3>3 DEF JobMove
  <2>4. CASE ~Holds(e)
    BY <2>2, <2>4 DEF Outcome, JobMove
  <2> QED BY <2>3, <2>4
<1>8. ASSUME NEW e \in Execs,
             \/ MarkProcessing(e) \/ CheckHash(e) \/ Read(e) \/ EmptyIndex(e) \/ InsertInIndex(e)
             \/ MarkReady(e) \/ MarkFailed(e) \/ Raise(e) \/ WorkerDies(e)
      PROVE  UNCHANGED job
  BY <1>8 DEF MarkProcessing, CheckHash, Read, EmptyIndex, InsertInIndex, MarkReady, MarkFailed,
              Raise, WorkerDies
<1>9. ASSUME NEW r \in Requests,
             \/ Compare(r) \/ Hash(r) \/ Lookup(r) \/ Unlink(r) \/ DeleteExistingData(r)
             \/ StageCommits(r) \/ StageRollsBack(r) \/ ReportRaced(r) \/ ReingestSaves(r)
             \/ Delete(r) \/ Refuse(r) \/ EnqueueRefused(r) \/ RequestDies(r) \/ WatcherPicks(r)
             \/ \E v \in Versions : UploadWrites(r, v)
             \/ \E d \in Docs : ReingestLoads(r, d) \/ DeleteLoads(r, d)
      PROVE  UNCHANGED job
  BY <1>9 DEF Compare, Hash, Lookup, Unlink, DeleteExistingData, StageCommits, StageRollsBack,
              ReportRaced, ReingestSaves, Delete, Refuse, EnqueueRefused, RequestDies,
              WatcherPicks, UploadWrites, ReingestLoads, DeleteLoads
<1>10. ASSUME NEW v \in Versions, Dropped(v) PROVE UNCHANGED job
  BY <1>10 DEF Dropped
<1>11. ASSUME NEW j \in Jobs, OnIngestTerminal(j) PROVE UNCHANGED job
  BY <1>11 DEF OnIngestTerminal
<1>12. CASE UNCHANGED vars
  BY <1>1, <1>12 DEF vars
<1> QED BY <1>1, <1>2, <1>3, <1>4, <1>5, <1>6, <1>7, <1>8, <1>9, <1>10, <1>11, <1>12, Zenon
        DEF Next, RequestStep, ExecStep

(* The moves keep the rows blank that have to be. *)
LEMMA BlankStep == DataInv /\ Blank /\ [Next]_vars => Blank'
<1> SUFFICES ASSUME DataInv, Blank, [Next]_vars, NEW j \in Jobs PROVE BlankRow(j)'
  BY DEF Blank
<1> QED BY EveryStepIsAMove DEF Blank, BlankRow, JobMove, Becomes

(* A move of a job is a step of the abstract life cycle, or none at all. *)
LEMMA MoveIsLifecycleStep ==
    ASSUME DataInv, Blank, NEW j \in Jobs, JobMove(j)
    PROVE  Queue!JobStep(j) \/ Queue!Same(j)
<1>0. BlankRow(j)
  BY DEF Blank
<1>1. CASE job'[j] = job[j]
  BY <1>1 DEF Queue!Same, Queue!SameHolder, Queue!SameLost, Queue!SameOutcome
<1>2. CASE job'[j] # job[j]
  BY <1>0, <1>2
  DEF BlankRow, JobMove, Becomes, Queue!JobStep, Queue!Submit, Queue!HandOut, Queue!Return,
      Queue!Lose, Queue!GiveUp, Queue!Report, Queue!Withdraw, Queue!Moves, Queue!SameHolder,
      Queue!SameLost, Queue!SameOutcome
<1> QED BY <1>1, <1>2

(* No job at all is an initial state of the abstract life cycle. *)
LEMMA QueueInitRefines == Init => Queue!LifeInit
BY DEF Init, NoJob, Queue!LifeInit

(* Every step is a step of the abstract life cycle, or leaves it alone. *)
LEMMA QueueNextRefines ==
    DataInv /\ Blank /\ [Next]_vars => [Queue!LifeNext]_(Queue!lifeVars)
<1> SUFFICES ASSUME DataInv, Blank, [Next]_vars PROVE Queue!LifeNext
  OBVIOUS
<1> QED BY EveryStepIsAMove, MoveIsLifecycleStep DEF Queue!LifeNext

(* The jobs behind the documents implement JobLifecycle whatever requests,  *)
(* deaths, drains, sweeps and late attempts meet: one holder at a time, one *)
(* outcome from the last holder, one retry.  What the documents rely on is  *)
(* therefore what JobQueueProofs shows the queue of rows and workers to     *)
(* implement: both modules refine the one abstract specification.           *)
THEOREM QueueIsAsPromised == Spec => QueueAsPromised
<1>1. Init => Blank
  BY DEF Init, NoJob, Blank, BlankRow
<1> QED BY DataInit, DataStep, <1>1, BlankStep, QueueInitRefines, QueueNextRefines, PTL
        DEF Spec, QueueAsPromised, Queue!LifeSpec

================================================================================
