-------------------------------- MODULE Availability --------------------------------
(***************************************************************************)
(* The cached answer to "which roles have a model bound" that every page's *)
(* navigation reads.  Each process keeps its own copy, drops it when a     *)
(* binding it wrote is committed, and lets it expire for the sake of the   *)
(* bindings other processes wrote.                                         *)
(*                                                                         *)
(* The bindings are a version number: the writes committed so far.         *)
(***************************************************************************)
EXTENDS Naturals

CONSTANTS
    Processes,   \* web, worker, watcher
    Threads,     \* request threads
    Home,        \* [Threads -> Processes]
    MaxWrites,   \* bound on binding writes
    None

AvailabilityAssumption ==
    /\ Home \in [Threads -> Processes]
    /\ MaxWrites \in Nat
    /\ None \notin Nat

VARIABLES
    version,   \* committed writes
    cache,     \* [Processes -> the version cached, or None]
    clock,     \* [Processes -> invalidations so far (_GENERATION)]
    thread,    \* [Threads -> what the request is doing]
    writes     \* writes begun

navVars == <<version, cache, clock, thread, writes>>

Commits == 0..MaxWrites

NavIdle == [step |-> "idle", seen |-> 0, clock |-> 0]

NavTypeOK ==
    /\ version \in Commits /\ writes \in Commits
    /\ cache \in [Processes -> Commits \cup {None}]
    /\ clock \in [Processes -> Commits]
    /\ thread \in [Threads -> [step : {"idle", "writing", "committed", "miss", "read", "store"},
                               seen : Commits, clock : Commits]]

NavInit ==
    /\ version = 0 /\ writes = 0
    /\ cache = [p \in Processes |-> None]
    /\ clock = [p \in Processes |-> 0]
    /\ thread = [t \in Threads |-> NavIdle]

---------------------------------------------------------------------------
\* A transaction that saves or deletes a binding begins; one at a time
\* (the rows are few and the writers contend for them).
WriteBegins(t) ==
    /\ thread[t] = NavIdle
    /\ \A u \in Threads : thread[u].step # "writing"
    /\ writes < MaxWrites /\ writes' = writes + 1
    /\ thread' = [thread EXCEPT ![t].step = "writing"]
    /\ UNCHANGED <<version, cache, clock>>

\* Inside the transaction the writer reads its own write, past the cache.
Own(t) == IF thread[t].step = "writing" THEN version + 1 ELSE version

WriteCommits(t) ==
    /\ thread[t].step = "writing"
    /\ version' = version + 1
    /\ thread' = [thread EXCEPT ![t].step = "committed"]
    /\ UNCHANGED <<cache, clock, writes>>

WriteRollsBack(t) ==
    /\ thread[t].step = "writing"
    /\ thread' = [thread EXCEPT ![t] = NavIdle]
    /\ UNCHANGED <<version, cache, clock, writes>>

\* invalidate, once the transaction has committed.
Invalidate(t) ==
    /\ thread[t].step = "committed"
    /\ clock' = [clock EXCEPT ![Home[t]] = @ + 1]
    /\ cache' = [cache EXCEPT ![Home[t]] = None]
    /\ thread' = [thread EXCEPT ![t] = NavIdle]
    /\ UNCHANGED <<version, writes>>

\* bound_role_keys inside an atomic block: neither reads nor writes the cache.
ReadInTransaction(t) ==
    /\ thread[t].step = "writing" /\ Own(t) > version
    /\ UNCHANGED navVars

\* A miss notes the generation, reads the table, compares, stores.
ReadMisses(t) ==
    /\ thread[t] = NavIdle /\ cache[Home[t]] = None
    /\ thread' = [thread EXCEPT ![t] = [step |-> "miss", seen |-> 0, clock |-> clock[Home[t]]]]
    /\ UNCHANGED <<version, cache, clock, writes>>

ReadTable(t) ==
    /\ thread[t].step = "miss"
    /\ thread' = [thread EXCEPT ![t].step = "read", ![t].seen = version]
    /\ UNCHANGED <<version, cache, clock, writes>>

ReadCompares(t) ==
    /\ thread[t].step = "read"
    /\ thread' = [thread EXCEPT ![t] =
                    IF @.clock = clock[Home[t]] THEN [@ EXCEPT !.step = "store"] ELSE NavIdle]
    /\ UNCHANGED <<version, cache, clock, writes>>

ReadStores(t) ==
    /\ thread[t].step = "store"
    /\ cache' = [cache EXCEPT ![Home[t]] = thread[t].seen]
    /\ thread' = [thread EXCEPT ![t] = NavIdle]
    /\ UNCHANGED <<version, clock, writes>>

\* Mutant: cached for the life of the process.
Expires_Never(p) == FALSE /\ UNCHANGED navVars

Expires(p) ==
    /\ cache[p] # None
    /\ cache' = [cache EXCEPT ![p] = None]
    /\ UNCHANGED <<version, clock, thread, writes>>

NavThread(t) ==
    \/ WriteCommits(t) \/ WriteRollsBack(t) \/ Invalidate(t)
    \/ ReadTable(t) \/ ReadCompares(t) \/ ReadStores(t)

NavNext ==
    \/ \E t \in Threads :
         WriteBegins(t) \/ ReadInTransaction(t) \/ ReadMisses(t) \/ NavThread(t)
    \/ \E p \in Processes : Expires(p)

\* Requests end; a cached value expires after its thirty seconds.
NavFairness ==
    /\ \A t \in Threads : WF_navVars(NavThread(t))
    /\ \A p \in Processes : WF_navVars(Expires(p))

NavSpec == NavInit /\ [][NavNext]_navVars /\ NavFairness

---------------------------------------------------------------------------
\* No page of any process is drawn from a binding that was never committed
\* (the bypass inside a transaction).
OnlyCommittedIsCached == \A p \in Processes : cache[p] # None => cache[p] <= version

Older(p) == cache[p] # None /\ cache[p] < version

\* Once nobody writes any more (writes are bounded here) every process
\* settles on the last binding: its own writers' readers by the
\* invalidation, a store that slipped in between a comparison and an
\* invalidation, and the other processes, by the expiry (CACHE_TTL_SECONDS).
NavConverges == <>[](\A p \in Processes : ~Older(p))
=====================================================================================
