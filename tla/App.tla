--------------------------------- MODULE App --------------------------------
(***************************************************************************)
(* The application around the components: app/main.py, the handlers of     *)
(* app/api/routes.py and app/observability/metrics.py.  The handlers run   *)
(* in threads of the server's pool and share three things: the module      *)
(* variable _orchestrator, which the first request sets, the metrics       *)
(* registry, and the retrieval cache of module Cache, whose steps are the  *)
(* searches of this module.                                                *)
(*                                                                         *)
(* An orchestrator of the default settings keeps its stores in memory; it  *)
(* is here the set of the documents it holds, to which an ingestion adds   *)
(* in one step (module Orchestrator has the steps of the two stores).      *)
(* A document has the number of the request that brings it.  The cache is  *)
(* switched on, as it is by default.                                       *)
(***************************************************************************)
EXTENDS Cache, FiniteSets, Functions

CONSTANTS Matching(_, _), \* the documents that a cache key finds among documents
          MaxRequests     \* bound: requests

\* Every request may be an ingestion.
Docs == 1..MaxRequests

ASSUME AppAssumption ==
    /\ MaxRequests \in 0..MaxCalls
    /\ Enabled
    /\ Values = SUBSET Docs
    /\ \A k \in Keys, docs \in SUBSET Docs : Matching(k, docs) \subseteq docs

VARIABLES orchestrators, \* what each RAGOrchestrator constructed holds, oldest first
          served,        \* the one _orchestrator is; 0 is None
          at,            \* where the request of each thread is
          kind,          \* the route it has called
          orch,          \* the handler's local variable `orch`
          doc,           \* the document it brings; 0 for none
          counters,      \* the metrics registry
          seen,          \* what its /metrics has read
          requests,      \* requests so far
          calm,          \* history: its request found _orchestrator set for good
          acked,         \* history: documents answered with 201
          calmAcked      \* history: those of calm requests

history == <<calm, acked, calmAcked>>
own == <<orchestrators, served, at, kind, orch, doc, counters, seen, requests, history>>
appvars == <<vars, own>>

Kinds == {"ingest", "search", "query", "look", "metrics"}
Places == {"idle", "assign", "fetch", "store", "count", "cached", "generate", "caches",
           "stats", "reply"}

Names == {"documents", "retrievals", "queries"}
NothingRead == [documents |-> 0, retrievals |-> 0, queries |-> 0, cache |-> 0, lookups |-> 0]

AppInit ==
    /\ Init
    /\ orchestrators = <<>> /\ served = 0
    /\ at = [t \in Threads |-> "idle"]
    /\ kind = [t \in Threads |-> "look"]
    /\ orch = [t \in Threads |-> 0]
    /\ doc = [t \in Threads |-> 0]
    /\ counters = [n \in Names |-> 0]
    /\ seen = [t \in Threads |-> NothingRead]
    /\ requests = 0
    /\ calm = [t \in Threads |-> FALSE]
    /\ acked = {} /\ calmAcked = {}

Move(t, from, to) == at[t] = from /\ at' = [at EXCEPT ![t] = to]

\* A counter of the registry; inc() and observe() hold its lock.
Count(name) == counters' = [counters EXCEPT ![name] = @ + 1]

\* The handler returns or raises, and its local variables go.
Forget(t) ==
    /\ kind' = [kind EXCEPT ![t] = "look"]
    /\ orch' = [orch EXCEPT ![t] = 0]
    /\ doc' = [doc EXCEPT ![t] = 0]
    /\ calm' = [calm EXCEPT ![t] = FALSE]

Created == UNION {orchestrators[o] : o \in DOMAIN orchestrators}

-----------------------------------------------------------------------------
\* Two faults: each thread of the pool makes sure of an orchestrator for itself;
\* the orchestrator is taken to be there.
NonePerThread(t) == orch[t] = 0
NoneNever(t) == FALSE

\* if _orchestrator is None
None(t) == served = 0

\* Two threads that read None before either has assigned construct two orchestrators.
NobodyAssigns == \A t \in Threads : at[t] # "assign"

\* A request reaches a thread of the pool, whose handler begins with
\* get_orchestrator(), except that of /metrics.
Request(t, k) ==
    /\ requests < MaxRequests
    /\ requests' = requests + 1
    /\ kind' = [kind EXCEPT ![t] = k]

Check(t, k) ==
    /\ k # "metrics"
    /\ Request(t, k)
    /\ Move(t, "idle", IF None(t) THEN "assign" ELSE "fetch")
    /\ doc' = [doc EXCEPT ![t] = IF k = "ingest" THEN requests' ELSE 0]
    /\ calm' = [calm EXCEPT ![t] = served # 0 /\ NobodyAssigns]
    /\ UNCHANGED <<vars, orchestrators, served, orch, counters, seen, acked, calmAcked>>

\* _orchestrator = RAGOrchestrator(): the new one, whose stores are empty, can be
\* seen by nobody until it is assigned.
Assign(t) ==
    /\ Move(t, "assign", "fetch")
    /\ orchestrators' = Append(orchestrators, {})
    /\ served' = Len(orchestrators) + 1
    /\ UNCHANGED <<vars, kind, orch, doc, counters, seen, requests, history>>

\* return _orchestrator: the variable is read again
Fetch(t, kinds, to) ==
    /\ kind[t] \in kinds
    /\ Move(t, "fetch", to)
    /\ orch' = [orch EXCEPT ![t] = served]

-----------------------------------------------------------------------------
\* GET /health and GET /documents/{id} read the vector store and change nothing.
Look(t) ==
    /\ kind[t] = "look"
    /\ Move(t, "fetch", "idle")
    /\ Forget(t)
    /\ UNCHANGED <<vars, orchestrators, served, counters, seen, requests, acked, calmAcked>>

\* POST /documents: ingest_documents() of one item, which is loaded, embedded and
\* added to the two stores of the orchestrator.
BeginIngest(t) ==
    /\ Fetch(t, {"ingest"}, "store")
    /\ UNCHANGED <<vars, orchestrators, served, kind, doc, counters, seen, requests, history>>

Store(t) ==
    /\ Move(t, "store", "count")
    /\ orchestrators' = [orchestrators EXCEPT ![orch[t]] = @ \cup {doc[t]}]
    /\ UNCHANGED <<vars, served, kind, orch, doc, counters, seen, requests, history>>

\* The item has an error and nothing is stored: 422.
StoreFails(t) ==
    /\ Move(t, "store", "idle")
    /\ Forget(t)
    /\ UNCHANGED <<vars, orchestrators, served, counters, seen, requests, acked,
                   calmAcked>>

\* inc("ingest.documents"), and the handler answers 201.
CountDocument(t) ==
    /\ Move(t, "count", "idle")
    /\ Count("documents")
    /\ acked' = acked \cup {doc[t]}
    /\ calmAcked' = IF calm[t] THEN calmAcked \cup {doc[t]} ELSE calmAcked
    /\ Forget(t)
    /\ UNCHANGED <<vars, orchestrators, served, seen, requests>>

-----------------------------------------------------------------------------
\* POST /search and POST /query: orch.search(q) is a call of the registry's
\* cached_call(), one step of Cache at a time; its factory searches the stores of
\* this thread's orchestrator.
BeginSearch(t, k) ==
    /\ Fetch(t, {"search", "query"}, "cached")
    /\ Call(t, k)
    /\ UNCHANGED <<orchestrators, served, kind, doc, counters, seen, requests, history>>

Search(t) ==
    /\ \/ LookUpName(t) \/ CreateCache(t) \/ FetchCache(t) \/ Get(t) \/ PutValue(t)
       \/ orch[t] # 0 /\ RunFactory(t, Matching(key[t], orchestrators[orch[t]]))
    /\ UNCHANGED own

\* Nothing of the handlers catches an exception of the retriever: the handler of
\* main.py answers with the status of the error.
SearchRaises(t) ==
    /\ FactoryRaises(t)
    /\ Move(t, "cached", "idle")
    /\ Forget(t)
    /\ UNCHANGED <<orchestrators, served, counters, seen, requests, acked, calmAcked>>

\* cached_call() has returned.  A search answers; a query observes the latency of
\* the retrieval, and without candidates answers that there is no evidence.
SearchReturns(t) ==
    LET more == kind[t] = "query" /\ val[t] # {}
    IN  /\ pc[t] = "idle"
        /\ Move(t, "cached", IF more THEN "generate" ELSE "idle")
        /\ IF kind[t] = "query" THEN Count("retrievals") ELSE UNCHANGED counters
        /\ IF more THEN UNCHANGED <<kind, orch, doc, calm>> ELSE Forget(t)
        /\ UNCHANGED <<vars, orchestrators, served, seen, requests, acked, calmAcked>>

\* The answer is generated (module Answering): inc("rag.queries").
Generate(t) ==
    /\ Move(t, "generate", "idle")
    /\ Count("queries")
    /\ Forget(t)
    /\ UNCHANGED <<vars, orchestrators, served, seen, requests, acked, calmAcked>>

GenerateRaises(t) ==
    /\ Move(t, "generate", "idle")
    /\ Forget(t)
    /\ UNCHANGED <<vars, orchestrators, served, counters, seen, requests, acked,
                   calmAcked>>

-----------------------------------------------------------------------------
Lookups(c) == caches[c].hits + caches[c].misses

\* GET /metrics: get_registry().snapshot(), under its lock
ReadCounters(t) ==
    /\ Request(t, "metrics")
    /\ Move(t, "idle", "caches")
    /\ seen' = [seen EXCEPT ![t] = [documents |-> counters["documents"],
                    retrievals |-> counters["retrievals"], queries |-> counters["queries"],
                    cache |-> 0, lookups |-> 0]]
    /\ UNCHANGED <<vars, orchestrators, served, orch, doc, counters, history>>

See(t, from, to, reading) ==
    /\ Move(t, from, to)
    /\ seen' = [seen EXCEPT ![t] = reading]
    /\ UNCHANGED <<vars, orchestrators, served, kind, orch, doc, counters, requests, history>>

\* for name, c in self._caches.items()
ReadCaches(t) == See(t, "caches", IF current = 0 THEN "reply" ELSE "stats",
                     [seen[t] EXCEPT !.cache = current])

\* c.stats(), under the lock of c
ReadStats(t) == See(t, "stats", "reply", [seen[t] EXCEPT !.lookups = Lookups(seen[t].cache)])

Reply(t) ==
    /\ Move(t, "reply", "idle")
    /\ seen' = [seen EXCEPT ![t] = NothingRead]
    /\ Forget(t)
    /\ UNCHANGED <<vars, orchestrators, served, counters, requests, acked, calmAcked>>

-----------------------------------------------------------------------------
Handle(t) ==
    \/ Assign(t) \/ Look(t)
    \/ BeginIngest(t) \/ Store(t) \/ StoreFails(t) \/ CountDocument(t)
    \/ Search(t) \/ SearchRaises(t) \/ SearchReturns(t)
    \/ Generate(t) \/ GenerateRaises(t)
    \/ ReadCounters(t) \/ ReadCaches(t) \/ ReadStats(t) \/ Reply(t)

AppNext == \E t \in Threads : \/ \E k \in Kinds : Check(t, k)
                              \/ \E k \in Keys : BeginSearch(t, k)
                              \/ Handle(t)

AppSpec == AppInit /\ [][AppNext]_appvars

-----------------------------------------------------------------------------
Readings == [documents : Nat, retrievals : Nat, queries : Nat, cache : 0..Len(caches),
             lookups : Nat]

\* Every variable keeps its type, and a handler that is past get_orchestrator() has
\* an orchestrator, also when it read _orchestrator while others were setting it.
AppTypeOK ==
    /\ orchestrators \in Seq(SUBSET Docs)
    /\ served \in 0..Len(orchestrators)
    /\ at \in [Threads -> Places]
    /\ kind \in [Threads -> Kinds]
    /\ orch \in [Threads -> 0..Len(orchestrators)]
    /\ doc \in [Threads -> {0} \cup Docs]
    /\ counters \in [Names -> Nat]
    /\ seen \in [Threads -> Readings]
    /\ requests \in 0..MaxRequests
    /\ calm \in [Threads -> BOOLEAN]
    /\ calmAcked \subseteq acked /\ acked \subseteq Docs
    /\ \A t \in Threads :
          /\ at[t] \in {"store", "count", "cached", "generate"} => orch[t] # 0
          /\ at[t] \in {"store", "count"} => doc[t] # 0
          /\ pc[t] # "idle" => at[t] = "cached"

\* What is acknowledged stays: the orchestrator that serves holds every document
\* of a request that came when there was an orchestrator and no request was about to
\* assign one.  All that main.py:37 can lose is what the racing first requests store,
\* and nothing at all when only one orchestrator is ever constructed.
LostOnlyByRace ==
    /\ served # 0 => calmAcked \subseteq orchestrators[served]
    /\ Len(orchestrators) = 1 => acked \subseteq orchestrators[1]
    /\ acked \subseteq Created

LookupSum == SumFunction([c \in DOMAIN caches |-> Lookups(c)])

\* The figures of /metrics are consistent though they are read in three steps while
\* requests go on: no more acknowledged documents than counted ones, no more of these
\* than stored ones; no more queries than retrievals, and no more of these than
\* lookups in the cache (unless two caches were created, and one is out of sight).
CountsAgree ==
    /\ Cardinality(acked) <= counters["documents"]
    /\ counters["documents"] <= Cardinality(Created)
    /\ counters["queries"] <= counters["retrievals"]
    /\ counters["retrievals"] <= LookupSum
    /\ \A t \in Threads :
          /\ seen[t].queries <= seen[t].retrievals
          /\ at[t] = "reply" /\ Len(caches) <= 1 => seen[t].retrievals <= seen[t].lookups
=============================================================================
