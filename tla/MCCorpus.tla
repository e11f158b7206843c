-------------------------------- MODULE MCCorpus --------------------------------
(***************************************************************************)
(* What the library holds, shows and answers.  Each behaviour follows one  *)
(* subject, named by focus: who may read a document and find its passages  *)
(* (library), the files of one path and the queue under them (ingestion),  *)
(* or two questions on the Ask page (asking).                              *)
(***************************************************************************)
EXTENDS Library, Asking

VARIABLES focus,
    inbox, docRow, file, copies, req, docJob, exec, docHooks, docFaults, arrivals, met

ingestionVars == <<inbox, docRow, file, copies, req, docJob, exec, docHooks, docFaults, arrivals, met>>
mcvars == <<vars, ingestionVars, askVars, focus>>

\* One document, one stream, a chat in the stream and a chat outside it.
MCHomeOf == [c \in Convs |-> IF c = "c1" THEN "s1" ELSE None]

Person(n, admin, all, un, held, owned, sees, manages) ==
    [name |-> n, all |-> all, admin |-> admin, unlabelled |-> un, held |-> held, owned |-> owned,
     sees |-> sees, manages |-> manages]

\* The administrator, an entitlement's owner who has the stream, a reader of
\* what has no label, and an account that sees nothing.
MCPrincipals ==
    {Person("admin", TRUE, TRUE, TRUE, {}, {}, Streams, Streams),
     Person("ann", FALSE, FALSE, TRUE, {"e1"}, {"e1"}, Streams, Streams),
     Person("bob", FALSE, FALSE, TRUE, {}, {}, {}, {}),
     Person("zed", FALSE, FALSE, FALSE, {}, {}, {}, {})}

\* Two contents of one path, attempts that outlive their claim, requests that
\* are killed.
D == INSTANCE Documents WITH
    Docs <- {1, 2}, Versions <- {1, 2}, Jobs <- {1}, Requests <- {"r1"}, Tabular <- FALSE,
    Late <- TRUE, RequestsDie <- TRUE, MaxFaults <- 1, MaxArrivals <- 2,
    doc <- docRow, job <- docJob, hooks <- docHooks, faults <- docFaults

ASSUME LibraryAssumption

\* Which of the two connections has the role at first makes no difference; the
\* history starts with the larger limit.
MCInit ==
    /\ Init /\ D!Init /\ AskInit
    /\ role = "a" /\ limit = 2
    /\ \/ focus = "library"
       \/ focus \in {"ingestion", "asking"} /\ \A s \in Streams : stream[s].universal

MCNext ==
    \/ focus = "library" /\ Next /\ UNCHANGED <<ingestionVars, askVars, focus>>
    \/ focus = "ingestion" /\ D!Next /\ UNCHANGED <<vars, askVars, focus>>
    \/ focus = "asking" /\ AskNext /\ UNCHANGED <<vars, ingestionVars, focus>>

MCSpec == MCInit /\ [][MCNext]_mcvars

----------------------------------------------------------------------------
(* The other subjects' own properties, each stated in its module.          *)

\* The queue under the documents does only what the abstract job life cycle
\* allows, with late attempts and killed requests.
QueueAsPromised ==
    D!Queue!LifeInit /\ [][focus = "ingestion" => D!Queue!LifeNext]_ingestionVars
================================================================================
