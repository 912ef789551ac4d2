----------------------------- MODULE Orchestrator ---------------------------
(***************************************************************************)
(* RAGOrchestrator of app/pipeline.py and the /documents, /search and      *)
(* /query routes in front of it: threads of the server's pool ingest       *)
(* documents into the vector store and the lexical index, and retrieve     *)
(* from both through the retrieval cache.                                  *)
(*                                                                         *)
(* One call of the vector store is one step (AtomicVectorStore, which      *)
(* VectorStore implements), and so is one of the cache (get and put of     *)
(* Cache).  The search of the database is approximate and may miss rows.   *)
(* A search of the lexical index is one step that may find any of what is  *)
(* there: what the index can lose by its dirty flag or by searches beside  *)
(* an add() is in LexicalIndex.  A document is a unit, searched for as one *)
(* chunk.  Its id is drawn at random when it is loaded, so every ingestion *)
(* of a text makes a new document.                                         *)
(***************************************************************************)
EXTENDS Naturals, Sequences, FiniteSets

CONSTANTS Threads,       \* the threads of the server's pool
          Texts,         \* the texts that can be loaded and embedded
          Unloadable,    \* items the loader, parser or chunker rejects
          Unembeddable,  \* items that load but that an embedding service rejects
          Misfit,        \* items that it embeds in vectors of which one is too short or
                         \* too long
          Uploads,       \* the [route, items] of the requests to /documents...
          Requests,      \* the [text, least, methods, top] of searches
          DefaultLeast,  \* settings.min_similarity_threshold
          Sim(_, _),     \* similarity of a query text and a document text
          DenseWeighs,   \* whether similarity counts in the fused score: alpha > 0 or
                         \* the fusion is by ranks
          CandidateLimit,\* settings.candidate_limit
          CacheEnabled,  \* settings.cache_enabled
          Configurations,\* the <<store, embedder>> that the settings may name
          MaxCalls,      \* bound: requests served altogether
          MaxFailures,   \* bound: failures of the embedding service and the database
          MaxRestarts    \* bound: restarts of the process

Items == Texts \cup Unloadable \cup Unembeddable \cup Misfit

ASSUME OrchestratorAssumption ==
    /\ Texts \cap (Unloadable \cup Unembeddable \cup Misfit) = {}
    /\ Unloadable \cap (Unembeddable \cup Misfit) = {} /\ Unembeddable \cap Misfit = {}
    /\ \A q, x \in Items : Sim(q, x) \in Nat
    /\ Uploads \subseteq [route : {"/documents", "/documents/batch"}, items : Seq(Items) \ {<<>>}]
    /\ \A u \in Uploads : u.route = "/documents" => Len(u.items) = 1
    /\ Requests \subseteq [text : Texts, least : Nat, methods : SUBSET {"dense", "lexical"},
                           top : Nat \ {0}]
    /\ Uploads # {} /\ Requests # {}
    /\ CacheEnabled \in BOOLEAN /\ DenseWeighs \in BOOLEAN /\ CandidateLimit \in Nat
    /\ Configurations \subseteq {"memory", "pgvector"} \X {"mock", "openai"}
    /\ MaxCalls \in Nat /\ MaxFailures \in Nat /\ MaxRestarts \in Nat

VARIABLES store,     \* the class of self.vector_store, by settings.database_url
          embedder,  \* settings.embedding_provider
          vectors,   \* the documents in self.vector_store
          lexical,   \* the documents in self.lexical_index
          cached,    \* the "retrieval" cache: key -> documents found
          ingested,  \* the counter ingest.documents of the metrics registry
          pc,        \* the next step of each thread
          upload,    \* the upload it serves
          results,   \* ingest_documents: the results so far
          doc,       \* ingest_documents: the document of the current item
          request,   \* the search or query it serves
          found,     \* search: the candidates
          fresh,     \* search: whether they are not from the cache
          reply,     \* the last response of each thread
          acked,     \* history: documents whose ingestion was reported a success
          expected,  \* history: `acked` when the thread's search began
          before,    \* history: `acked` when the process last started
          created,   \* documents loaded so far: the source of fresh ids
          calls,     \* requests so far
          failures,  \* failures of a service so far
          restarts   \* restarts so far

settings == <<store, embedder>>
stores == <<vectors, lexical, cached>>
ingesting == <<upload, results, doc>>
searching == <<request, found, fresh, expected>>
history == <<acked, before>>
bounds == <<created, calls, failures, restarts>>
vars == <<settings, stores, ingested, pc, ingesting, searching, reply, history, bounds>>

NoReply == [kind |-> "none"]
NoDoc == [id |-> 0]
SomeUpload == CHOOSE u \in Uploads : TRUE
SomeRequest == CHOOSE r \in Requests : TRUE

EachThread(v) == [t \in Threads |-> v]

Init ==
    /\ \E c \in Configurations : store = c[1] /\ embedder = c[2]
    /\ pc = EachThread("idle") /\ reply = EachThread(NoReply)
    /\ upload = EachThread(SomeUpload) /\ results = EachThread(<<>>) /\ doc = EachThread(NoDoc)
    /\ request = EachThread(SomeRequest) /\ found = EachThread({}) /\ fresh = EachThread(TRUE)
    /\ expected = EachThread({})
    /\ vectors = {} /\ lexical = {} /\ cached = [k \in {} |-> {}]
    /\ ingested = 0
    /\ acked = {} /\ before = {}
    /\ created = 0 /\ calls = 0 /\ failures = 0 /\ restarts = 0

Goto(t, from, to) == pc[t] = from /\ pc' = [pc EXCEPT ![t] = to]

NewCall == calls < MaxCalls /\ calls' = calls + 1

-----------------------------------------------------------------------------
\* POST /documents and /documents/batch: ingest_documents(items)

CallIngest(t, u) ==
    /\ NewCall
    /\ Goto(t, "idle", "load")
    /\ upload' = [upload EXCEPT ![t] = u]
    /\ reply' = [reply EXCEPT ![t] = NoReply]
    /\ UNCHANGED <<stores, ingested, results, doc, searching, history, created, failures, restarts>>

Item(t) == upload[t].items[Len(results[t]) + 1]

\* The result of an item, then the next turn of the loop or the end of it.
Report(t, r) ==
    /\ results' = [results EXCEPT ![t] = Append(@, r)]
    /\ pc' = [pc EXCEPT ![t] = IF Len(results[t]) + 1 = Len(upload[t].items)
                               THEN "respond" ELSE "load"]

\* svc.ingest_text(...) raises: the item's result has no document id.
LoadFails(t) ==
    /\ pc[t] = "load" /\ Item(t) \in Unloadable
    /\ Report(t, [id |-> 0, ok |-> FALSE])
    /\ UNCHANGED <<stores, ingested, upload, doc, searching, reply, history, bounds>>

LoadAs(t, id) ==
    /\ Goto(t, "load", "embed")
    /\ doc' = [doc EXCEPT ![t] = [id |-> id, text |-> Item(t)]]
    /\ created' = created + 1
    /\ UNCHANGED <<stores, ingested, upload, results, searching, reply, history, calls, failures,
                   restarts>>

\* svc.ingest_text(...) returns: load, parse, chunk
LoadSucceeds(t) == LoadAs(t, created + 1) /\ Item(t) \notin Unloadable

\* Two faults: the first bad item ends the batch; the document id is taken from the
\* place of the item in its batch.
LoadEndsBatch(t) ==
    \/ /\ Goto(t, "load", "respond")
       /\ Item(t) \in Unloadable
       /\ results' = [results EXCEPT ![t] = Append(@, [id |-> 0, ok |-> FALSE])]
       /\ UNCHANGED <<stores, ingested, upload, doc, searching, reply, history, bounds>>
    \/ LoadSucceeds(t)
LoadByPlace(t) == \/ LoadFails(t)
                  \/ LoadAs(t, Len(results[t]) + 1) /\ Item(t) \notin Unloadable

Load(t) == LoadFails(t) \/ LoadSucceeds(t)

\* embed_texts() raises; the mock provider embeds everything.
Rejected(item) == embedder = "openai" /\ item \in Unembeddable

EmbedThen(t, next, counted) ==
    /\ pc[t] = "embed"
    /\ IF Rejected(Item(t))
       THEN Report(t, [id |-> doc[t].id, ok |-> FALSE])
       ELSE Goto(t, "embed", next) /\ UNCHANGED results
    /\ ingested' = ingested + counted
    /\ UNCHANGED <<stores, upload, doc, searching, reply, history, bounds>>

\* Two faults: the vector store is skipped; a failed embedding counts as ingested.
EmbedSkipsStore(t) == EmbedThen(t, "index", 0)
EmbedCounts(t) == EmbedThen(t, "store", IF Rejected(Item(t)) THEN 1 ELSE 0)

\* vectors = embedding_provider.embed_texts(...); when it raises, the item's result
\* has the document id and the error
Embed(t) == EmbedThen(t, "store", 0)

\* One of the vectors does not have the dimension of the store.
Misfits(item) == embedder = "openai" /\ item \in Misfit

Unfit(item) == Rejected(item) \/ Misfits(item)

StoreThen(t, next) ==
    /\ Goto(t, "store", next)
    /\ ~Misfits(Item(t))
    /\ vectors' = vectors \cup {doc[t]}
    /\ UNCHANGED <<lexical, cached, ingested, ingesting, searching, reply, history, bounds>>

\* A fault: the lexical index is skipped.
StoreVectorsOnly(t) == StoreThen(t, "success")

\* self.vector_store.add(...)
StoreVectors(t) == StoreThen(t, "index")

ServiceFails == failures < MaxFailures /\ failures' = failures + 1

\* PgVectorStore.add() raises, because its transaction was rolled back or because
\* the connection was lost after the commit: the item's result has the error.
StoreFails(t, committed) ==
    /\ pc[t] = "store" /\ store = "pgvector"
    /\ ServiceFails
    /\ Report(t, [id |-> doc[t].id, ok |-> FALSE])
    /\ vectors' = IF committed THEN vectors \cup {doc[t]} ELSE vectors
    /\ UNCHANGED <<lexical, cached, ingested, upload, doc, searching, reply, history, created,
                   calls, restarts>>

\* add() raises at a vector that does not fit: the database rolls back, in memory the
\* chunks in front of it, if there are any, stay.
StoreRefuses(t, some) ==
    /\ pc[t] = "store" /\ Misfits(Item(t))
    /\ some => store = "memory"
    /\ Report(t, [id |-> doc[t].id, ok |-> FALSE])
    /\ vectors' = IF some THEN vectors \cup {doc[t]} ELSE vectors
    /\ UNCHANGED <<lexical, cached, ingested, upload, doc, searching, reply, history, bounds>>

\* self.lexical_index.add(chunks)
IndexLexically(t) ==
    /\ Goto(t, "index", "success")
    /\ lexical' = lexical \cup {doc[t]}
    /\ UNCHANGED <<vectors, cached, ingested, ingesting, searching, reply, history, bounds>>

\* results.append(...), then the counter
Succeed(t) ==
    /\ pc[t] = "success"
    /\ Report(t, [id |-> doc[t].id, ok |-> TRUE])
    /\ ingested' = ingested + 1
    /\ UNCHANGED <<stores, upload, doc, searching, reply, history, bounds>>

\* The route builds its response.  /documents turns an error into 422; the batch
\* route builds an IngestResponse for each result, and one without a document id
\* fails validation: the whole request is a 500 although documents were stored.
Status(route, rs) ==
    IF route = "/documents" THEN IF rs[1].ok THEN 201 ELSE 422
    ELSE IF \E i \in DOMAIN rs : rs[i].id = 0 THEN 500 ELSE 201

Respond(t) ==
    LET rs == results[t]
        status == Status(upload[t].route, rs)
    IN  /\ Goto(t, "respond", "idle")
        /\ reply' = [reply EXCEPT ![t] = [kind |-> "ingest", upload |-> upload[t],
                                          status |-> status, results |-> rs]]
        /\ acked' = IF status = 201
                    THEN acked \cup {d \in vectors : \E i \in DOMAIN rs :
                                                        rs[i].ok /\ rs[i].id = d.id}
                    ELSE acked
        /\ upload' = [upload EXCEPT ![t] = SomeUpload]
        /\ results' = [results EXCEPT ![t] = <<>>]
        /\ doc' = [doc EXCEPT ![t] = NoDoc]
        /\ UNCHANGED <<stores, ingested, searching, before, bounds>>

-----------------------------------------------------------------------------
\* RAGOrchestrator.search, for POST /search and as the first part of POST /query

\* Only /search takes methods and a threshold; /query has the defaults.
IsDefault(r) == r.methods = {"dense", "lexical"} /\ r.least = DefaultLeast

CallSearch(t, r, route) ==
    /\ NewCall
    /\ route = "/query" => IsDefault(r)
    /\ pc[t] = "idle"
    /\ pc' = [pc EXCEPT ![t] = IF route = "/search" THEN "search" ELSE "query"]
    /\ request' = [request EXCEPT ![t] = r]
    /\ expected' = [expected EXCEPT ![t] = acked]
    /\ reply' = [reply EXCEPT ![t] = NoReply]
    /\ UNCHANGED <<stores, ingested, ingesting, found, fresh, history, created, failures, restarts>>

\* A fault: the kind of the vector store is not looked at.
UsesCacheAnyway == CacheEnabled
UsesCache == CacheEnabled /\ store = "memory"

\* The parameters of a query that cached_call makes its key of: not min_similarity.
KeyOf(r) == <<"search", r.text, r.top, r.methods>>

\* Each step of a search has two names, for the two routes it may be part of.
At(t, step) == pc[t] = step[1] \/ pc[t] = step[2]
Advance(t, step, to) ==
    \/ Goto(t, step[1], to[1])
    \/ Goto(t, step[2], to[2])

Begin == <<"search", "query">>
Dense == <<"search dense", "query dense">>
Lexical == <<"search lexical", "query lexical">>
Fill == <<"search fill", "query fill">>
Done == <<"search done", "query done">>

\* hit = cache.get(key)
GetCached(t) ==
    LET key == KeyOf(request[t])
        hit == UsesCache /\ key \in DOMAIN cached
    IN  /\ Advance(t, Begin, IF hit THEN Done ELSE Dense)
        /\ found' = IF hit THEN [found EXCEPT ![t] = cached[key]] ELSE found
        /\ fresh' = [fresh EXCEPT ![t] = ~hit]
        /\ UNCHANGED <<stores, ingested, ingesting, request, expected, reply, history, bounds>>

\* query() runs the pipeline with asyncio.run(), and so does embed_texts() of the
\* OpenAI-compatible provider: inside the first, the second raises.
NestedLoop(t) == embedder = "openai" /\ pc[t] = "query dense"

\* The sets a ranking of S by similarity to the query text q may have at its top when it
\* is cut to n.
BestOf(S, n, q) ==
    {T \in SUBSET S : /\ Cardinality(T) <= n /\ (T # S => Cardinality(T) = n)
                      /\ \A d \in T, e \in S \ T : Sim(q, d.text) >= Sim(q, e.text)}

\* vector_store.search(qvec, top_k * 2, min_similarity): in memory exact; the index of
\* the database (ivfflat) looks into some of its lists only.
DenseHits(r) ==
    LET near == {d \in vectors : Sim(r.text, d.text) >= r.least}
    IN  IF store = "memory" THEN BestOf(near, 2 * r.top, r.text)
        ELSE {T \in SUBSET near : Cardinality(T) <= 2 * r.top}

\* HybridRetriever.retrieve: the dense half
SearchDense(t) ==
    LET r == request[t]
    IN  /\ "dense" \in r.methods => ~NestedLoop(t)
        /\ Advance(t, Dense, Lexical)
        /\ IF "dense" \in r.methods
           THEN \E T \in DenseHits(r) : found' = [found EXCEPT ![t] = T]
           ELSE UNCHANGED found
        /\ UNCHANGED <<stores, ingested, ingesting, request, fresh, expected, reply, history, bounds>>

\* The request ends, and what its thread kept for it is gone.
Finish(t, r) ==
    /\ reply' = [reply EXCEPT ![t] = r]
    /\ request' = [request EXCEPT ![t] = SomeRequest]
    /\ found' = [found EXCEPT ![t] = {}]
    /\ fresh' = [fresh EXCEPT ![t] = TRUE]
    /\ expected' = [expected EXCEPT ![t] = {}]

\* The embedding service or the database fails: the exception ends the request.
RetrieveFails(t, exception) ==
    /\ "dense" \in request[t].methods
    /\ IF NestedLoop(t) THEN exception = "RuntimeError" /\ UNCHANGED failures
       ELSE /\ \/ exception = "EmbeddingError" /\ embedder = "openai"
               \/ exception = "OperationalError" /\ store = "pgvector"
            /\ ServiceFails
    /\ Advance(t, Dense, <<"idle", "idle">>)
    /\ Finish(t, [kind |-> exception])
    /\ UNCHANGED <<stores, ingested, ingesting, history, created, calls, restarts>>

\* lexical_index.search(text, top_k * 2): at most so many of what has been added.
LexicalHits(r) == IF "lexical" \in r.methods
                  THEN {H \in SUBSET lexical : Cardinality(H) <= 2 * r.top} ELSE {{}}

\* The candidates are cut twice, after the fusion and after they are sorted again; of
\* the dense half alone the most similar remain.
Cut(r) == IF r.top <= CandidateLimit THEN r.top ELSE CandidateLimit
Fused(r, dense, hits) ==
    IF r.methods = {"dense"} /\ DenseWeighs THEN BestOf(dense, Cut(r), r.text)
    ELSE {F \in SUBSET (dense \cup hits) :
             Cardinality(F) <= Cut(r) /\ (F # dense \cup hits => Cardinality(F) = Cut(r))}

\* HybridRetriever.retrieve: the lexical half, and the fusion of the two
SearchLexical(t) ==
    LET r == request[t]
    IN  /\ Advance(t, Lexical, IF UsesCache THEN Fill ELSE Done)
        /\ \E H \in LexicalHits(r) : \E F \in Fused(r, found[t], H) :
              found' = [found EXCEPT ![t] = F]
        /\ UNCHANGED <<stores, ingested, ingesting, request, fresh, expected, reply, history, bounds>>

\* A search that another thread makes at the time has rebuilt the index from a snapshot
\* that was empty: self._bm25 is None (LexicalIndex has the steps).
LexicalFails(t) ==
    /\ "lexical" \in request[t].methods /\ lexical # {}
    /\ \E u \in Threads \ {t} : At(u, Lexical) /\ "lexical" \in request[u].methods
    /\ Advance(t, Lexical, <<"idle", "idle">>)
    /\ Finish(t, [kind |-> "AttributeError"])
    /\ UNCHANGED <<stores, ingested, ingesting, history, bounds>>

\* cache.put(key, val)
FillCache(t) ==
    LET key == KeyOf(request[t])
    IN  /\ Advance(t, Fill, Done)
        /\ cached' = [k \in DOMAIN cached \cup {key} |-> IF k = key THEN found[t] ELSE cached[k]]
        /\ UNCHANGED <<vectors, lexical, ingested, ingesting, searching, reply, history, bounds>>

Answer(t, kind) == Finish(t, [kind |-> kind, request |-> request[t], found |-> found[t],
                              fresh |-> fresh[t], expected |-> expected[t]])

\* POST /search returns the candidates.
ReturnSearch(t) ==
    /\ Goto(t, "search done", "idle")
    /\ Answer(t, "found")
    /\ UNCHANGED <<stores, ingested, ingesting, history, bounds>>

\* query_async: without candidates the answer is "insufficient".
AnswerWithoutEvidence(t) ==
    /\ found[t] = {}
    /\ Goto(t, "query done", "idle")
    /\ Answer(t, "insufficient")
    /\ UNCHANGED <<stores, ingested, ingesting, history, bounds>>

\* query_async: rerank, context and generate (module Answering); an error of the
\* reranker or the language model is the request's.
Generate(t, kind) ==
    /\ found[t] # {}
    /\ Goto(t, "query done", "idle")
    /\ Answer(t, kind)
    /\ UNCHANGED <<stores, ingested, ingesting, history, bounds>>

\* The process is killed and starts again: only a database keeps the vectors, and
\* nothing reads them back into the lexical index.  An in-memory store forgets what
\* it has acknowledged; that is documented, so the history forgets it too.
Restart ==
    /\ restarts < MaxRestarts
    /\ restarts' = restarts + 1
    /\ pc' = EachThread("idle") /\ reply' = EachThread(NoReply)
    /\ upload' = EachThread(SomeUpload) /\ results' = EachThread(<<>>) /\ doc' = EachThread(NoDoc)
    /\ request' = EachThread(SomeRequest) /\ found' = EachThread({}) /\ fresh' = EachThread(TRUE)
    /\ expected' = EachThread({})
    /\ lexical' = {} /\ cached' = [k \in {} |-> {}]
    /\ ingested' = 0
    /\ IF store = "memory" THEN vectors' = {} /\ acked' = {} ELSE UNCHANGED <<vectors, acked>>
    /\ before' = acked'
    /\ UNCHANGED <<created, calls, failures>>

-----------------------------------------------------------------------------
Exceptions == {"RuntimeError", "EmbeddingError", "OperationalError"}

IngestStep(t) == \/ Load(t) \/ Embed(t) \/ StoreVectors(t) \/ IndexLexically(t)
                 \/ \E committed \in BOOLEAN : StoreFails(t, committed)
                 \/ \E some \in BOOLEAN : StoreRefuses(t, some)
                 \/ Succeed(t) \/ Respond(t)
RetrieveStep(t) == \/ GetCached(t) \/ SearchDense(t) \/ SearchLexical(t) \/ LexicalFails(t)
                   \/ FillCache(t)
                   \/ \E exception \in Exceptions : RetrieveFails(t, exception)
AnswerStep(t) == \/ ReturnSearch(t) \/ AnswerWithoutEvidence(t)
                 \/ \E kind \in {"answer", "error"} : Generate(t, kind)
ThreadStep(t) == /\ IngestStep(t) \/ RetrieveStep(t) \/ AnswerStep(t)
                 /\ UNCHANGED settings
EnvironmentStep == /\ \/ \E t \in Threads, u \in Uploads : CallIngest(t, u)
                      \/ \E t \in Threads, r \in Requests, route \in {"/search", "/query"} :
                            CallSearch(t, r, route)
                      \/ Restart
                   /\ UNCHANGED settings

Next == (\E t \in Threads : ThreadStep(t)) \/ EnvironmentStep

Spec == Init /\ [][Next]_vars

-----------------------------------------------------------------------------
Documents == [id : Nat \ {0}, text : Items]
Results == [id : Nat, ok : BOOLEAN]

\* Every variable has its shape, and a document id has one text.
TypeOK ==
    /\ vectors \cup lexical \cup acked \subseteq Documents /\ before \subseteq acked
    /\ \A d, e \in vectors \cup lexical : d.id = e.id => d = e
    /\ \A k \in DOMAIN cached : cached[k] \subseteq Documents
    /\ ingested \in Nat
    /\ upload \in [Threads -> Uploads]
    /\ \A t \in Threads : /\ results[t] \in Seq(Results)
                          /\ Len(results[t]) <= Len(upload[t].items)
                          /\ found[t] \subseteq Documents /\ expected[t] \subseteq Documents
    /\ request \in [Threads -> Requests] /\ fresh \in [Threads -> BOOLEAN]
    /\ calls \in 0..MaxCalls /\ failures \in 0..MaxFailures /\ restarts \in 0..MaxRestarts

Quiet == \A t \in Threads : pc[t] = "idle"

\* A lexical hit always has its vectors: a chunk that /search returns can be looked
\* up in the store (the order of the two adds, pipeline.py:137-138).
LexicalHasVectors == lexical \subseteq vectors

\* What an ingestion has reported a success stays searchable: in the vector store,
\* across restarts when that is a database, and in the lexical index as long as the
\* process runs.  (Nothing reads the database back into the lexical index.)
AckedIsSearchable == acked \subseteq vectors /\ acked \ before \subseteq lexical

\* A bad item does not touch the others ("a single bad document does not abort the
\* batch", pipeline.py:100): each item of a request has one result, in its place, and
\* it is a success exactly when the document is in the lexical index; where no database
\* can fail, exactly when the item can be loaded and embedded in vectors that fit.
FailuresAreIsolated ==
    \A t \in Threads : reply[t].kind = "ingest" =>
        LET items == reply[t].upload.items
            rs == reply[t].results
        IN  /\ Len(rs) = Len(items)
            /\ \A i \in DOMAIN items :
                  /\ rs[i].ok <=> \E d \in lexical : d.id = rs[i].id
                  /\ store = "memory" =>
                        (rs[i].ok <=> items[i] \notin Unloadable /\ ~Unfit(items[i]))

\* The counter ingest.documents is the number of documents both stores hold,
\* whenever no request is under way.
DocumentsAreCounted == Quiet => ingested = Cardinality(vectors \cap lexical)

Near(r, d) == "dense" \in r.methods /\ Sim(r.text, d.text) >= r.least

SearchReplies == {reply[t] : t \in {u \in Threads :
                     reply[u].kind \in {"found", "insufficient", "answer", "error"}}}

\* A search by vectors returns nothing below its threshold.
OnlyMatches == \A a \in SearchReplies :
                  a.request.methods = {"dense"} =>
                      \A d \in a.found : Near(a.request, d)

\* "Don't cache for backends that may have changed out-of-band" (pipeline.py:165): a
\* search by vectors that was not answered from the cache, and with a database any such
\* search, gives documents above its own threshold and no more than it asked for.  In
\* memory it has seen every document that had been acknowledged when it began: one that
\* is near enough and not among the candidates was cut off by candidates that are as
\* near, although it may have been cut three times on the way (hybrid.py:113-137).  The
\* index of a database is approximate and promises no more than the first part.
SearchesAreFresh ==
    \A a \in SearchReplies :
        a.request.methods = {"dense"} /\ (store = "pgvector" \/ a.fresh) =>
            /\ \A d \in a.found : Near(a.request, d)
            /\ Cardinality(a.found) <= Cut(a.request)
            /\ store = "memory" /\ DenseWeighs =>
                 \A d \in a.expected \ a.found : Near(a.request, d) =>
                     /\ Cardinality(a.found) = Cut(a.request)
                     /\ \A e \in a.found :
                           Sim(a.request.text, e.text) >= Sim(a.request.text, d.text)

\* "any compatible server can be plugged in by changing only EMBEDDING_BASE_URL"
\* (embeddings/provider.py:110): no request ends because of how the program calls it.
NoNestedLoop == \A t \in Threads : reply[t].kind # "RuntimeError"

\* A request that ends in a server error has stored nothing: the client may send it
\* again.
ErrorStoresNothing ==
    \A t \in Threads : reply[t].kind = "ingest" /\ reply[t].status = 500 =>
        ~\E i \in DOMAIN reply[t].results : reply[t].results[i].ok
=============================================================================
