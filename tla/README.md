# A TLA+ model of Production RAG

This directory holds TLA+ modules for the retrieval-augmented generation service
in `src/`: a FastAPI application that stores documents as chunks with embedding
vectors, retrieves chunks by vectors and by BM25, and asks a language model for
an answer that cites them. The modules are checked with TLC; theorems about them
are proved with TLAPS. `PROJECT.json` lists components, runs, the code behind
each definition, the hazards and the findings.

## The system

One process, one uvicorn worker. Handlers declared with `def` run in a pool of
threads and share one `RAGOrchestrator` (`app/main.py`), and through it every
object below. `/documents/upload` is `async` and runs on the event loop itself.

| component | state it keeps | operations | what is hard, what makes it right |
|---|---|---|---|
| Lexical index, `storage/vector_store.py` 79-178 | `_by_id`, `_tokens`, `_dirty`, `_bm25`; no lock | add, remove, search with a lazy rebuild | several unlocked statements per call; a position is the only link of a score to its chunk; every stored chunk is ranked |
| In-memory vector store, 194-321 | `_vectors`, `_chunks`, `_doc_to_chunks`; an `RLock` | add, search, get, list, count, delete, reset | an add that raises half-way; the three dicts describe the same chunks; calls are atomic |
| PostgreSQL store, `storage/pgvector_store.py` | table `rag_chunks`; an event loop in a thread of its own | the same, each as a schema transaction and a transaction of its own | interleaving at every statement, locks, deadlocks, rollback, lost connections, crashes; the version of a document that was stored last is whole, acknowledged rows are durable |
| Cache registry, `caching/registry.py` | named LRU caches, each with a lock | cached_call, clear | lookup, creation, factory and fill are separate steps; the cap and the order of eviction |
| Orchestrator, `pipeline.py` | the stores, the cache, counters | ingest_documents, search, query | per-item failure isolation, the order of the two adds, what the cache key leaves out, services that fail |
| Retriever, `retrieval/hybrid.py` | none | retrieve: vectors, then BM25, then fusion | two indexes asked at different moments; normalisation of equal, negative or missing scores |
| Rerankers, `reranking/reranker.py` | none | rerank | order, ties, the cut |
| Context builder, `context/builder.py` | none | build | three budgets at their boundary, duplicates |
| LLM providers, `generation/provider.py` | none | complete_async with retries | which outcome is retried, how often, which error is reported |
| Generation, `generation/service.py`, `prompt.py` | none | generate, validate_citations | only evidence in the context is cited |
| Embedding providers, `embeddings/provider.py` | none | embed_texts | batches, answers that are shuffled or short; which event loop it is called from |
| Chunkers, `chunking/chunker.py` | none | chunk: fixed, sentence, recursive | nothing of the text is lost, sizes with the overlap, offsets |
| Loader and ingestion, `ingestion/` | none | load_text, load_bytes, load_file, ingest_many | the order of the checks, files that vanish, failure isolation |
| Metrics, tracing, logging | counters under a lock | inc, observe, snapshot | counted once; figures read in several steps fit together |
| API routes, application, `api/routes.py`, `main.py` | the orchestrator singleton | the HTTP surface | status codes; two first requests can each construct an orchestrator |
| Evaluation, `evaluation/metrics.py` | none | evaluate | gold looked up before a query runs, failed and malformed cases, empty lists |
| Benchmarks, datasets, models, settings | none | scripts, data, declarations | |

Components interact by plain calls in the thread of the request. What threads
share is the two indexes, the cache, the metrics and (with a database) the
table; each request's own data stays with its thread.

## The modules

| module | what it models |
|---|---|
| `PyDict` | a Python dict with its insertion order: get, set, delete, keys, values, `move_to_end` |
| `Ranking` | a ranking by score, ties in order of position, and its first k |
| `LexicalIndex` | the lexical index, one action per statement that touches shared state. `pc[t]` is the next statement of thread `t`; `byId`, `tokens`, `dirty`, `bm25` are the fields of the object, `corpus` the token lists a thread holds in a local variable |
| `AtomicLexicalIndex` | its abstract specification: add, remove and search take effect at one instant on one dict |
| `LexicalIndexProofs` | theorems about `LexicalIndex` |
| `VectorStore` | the in-memory store: `lock` is the owner of the `RLock`, the loop of `add()` takes a step per chunk, and raises on a vector of the wrong length |
| `AtomicVectorStore` | its abstract specification: one table of chunks |
| `VectorStoreProofs` | theorems about `VectorStore` and `PgVectorStore` |
| `Cache` | `CacheRegistry` and `LRUCache`: `cache_for()` in its three unlocked steps, then get, factory and put; `clear()` |
| `Orchestrator` | `ingest_documents()`, `search()` and the routes around them. Below it are the abstract stores: `vectors`, `lexical` and `cached` change in one step per call. What a search may find is a choice: the database's index is approximate, and of the lexical index any part may be found |
| `Answering` | `query_async()` after its retrieval: the reranker, a step of the context builder's loop per candidate, a step of the retry loop per request to the model, a step of `validate_citations()` per marker |
| `PgVectorStore` | the PostgreSQL store: a step per statement; `rows` are the committed rows, `written` the rows a running transaction has locked, `seen` those that a `DELETE` has found and locks one by one |
| `AnsweringProofs` | theorems about `Answering` |
| `OrchestratorProofs` | theorems about `Orchestrator` |
| `App` | `get_orchestrator()` and the handlers of all routes. `served` is the module variable `_orchestrator`, `orchestrators` what each object constructed holds; `at[t]` is where the request of thread `t` is, and while it is in `cached` its thread takes the steps of `Cache`; `counters` is the metrics registry |
| `AppProofs` | theorems about `Cache` and about `App`, which extends it |
| `Chunker` | the three chunkers as operators on texts: windows, sentences, the recursive split, the overlap, the offsets |
| `Loader` | the loader as operators: limits, decoding, normalisation, JSON, HTML, PDF |
| `Ingestion` | a batch on its way through loader, chunker, embedder and stores. `pc` is the place in the loop over the items; the batches of `embed_texts_async()` are steps of their own, and so is the reading of a file. `stored` and `indexed` are what the two stores hold of each item, after an `add()` that raised half-way too |
| `IngestionProofs` | theorems about `Chunker`, `Loader` and `Ingestion` |
| `HybridFusion` | min-max normalisation, the linear and the reciprocal-rank fusion, the sorts and cuts of `retrieve()`, as operators |
| `Evaluation` | `Evaluator.evaluate()`: a step for the gold of a case, for its retrieval, for its measures; others ingest meanwhile, and a malformed case ends it |
| `EvaluationProofs` | theorems about `HybridFusion` and `Evaluation` |
| `Induction` | lemmas for all proofs: induction over numbers and over finite sets, folds, sums |
| `MC*` | instances for TLC |

How they compose: `Orchestrator` takes each store at the grain at which
`VectorStore` and `LexicalIndex` (for a caller that has it to itself) are shown to
implement their abstract specifications, and the failures that `PgVectorStore` shows
a call can have (nothing stored and an error; stored and an error), with the one
`VectorStore` shows: a part stored and an error. What `LexicalIndex` can lose beside
a concurrent caller (`_dirty` cleared too early, `_bm25` gone between check and use)
is the worst case here: a search of it finds any of what was added, or raises while
another search is there (`LexicalFails`). `Answering` continues a query from the
step `Generate` of `Orchestrator`. `App` extends `Cache`: the searches of its
handlers are the calls of the cache, and `AppImplementsCache` proves that the
application does nothing else to it. `Ingestion` extends `Loader`, which extends
`Chunker`; `Evaluation` extends `HybridFusion`.

Operators whose name says what goes wrong (`StoreTokensLast`, `EvictLate`,
`FitsBeforeAdding`, ...) are faults: plausible bugs of the definition that
follows them. Nothing in a specification uses them; they serve to test that a
property notices.

### What is abstracted

* Texts are members of small sets. BM25 and the cosine are score tables, given
  by the instance; only signs and order matter. A text of the language model is
  the sequence of ids that it cites. In `Chunker`, `Loader` and `Ingestion`,
  which are about them, texts are sequences of characters; letters, blanks, line
  ends and full stops are told apart, and a tag of HTML is one character.
* Scores and measures are integers. `HybridFusion` scales normalised scores and
  reciprocal ranks by constants that are large enough to keep different values
  apart; `Evaluation` has ten-thousandths, to which the code rounds, and takes
  the gains of nDCG as constants. `RoundingAssumption` says what is large enough:
  a normalised score or a reciprocal rank never falls on that of its neighbour,
  and neither does the gain of a place, which for `1 / log2(i + 1)` is so up to
  place 31.
* A vector is the text that it embeds, where it matters whose vector it is.
* Document ids are drawn at random in the code and are fresh numbers here.
* `snapshot()` and `stats()` hold their locks and are one step each. The loop of
  `/metrics` over the caches is not interrupted by the creation of a cache: there
  is one name, so nothing is inserted once the iteration has found an entry.
* `stable_key()` is injective: two keys are equal when their parts are.
* Wording, logging, latencies, token counts and costs are left out.
* Of PostgreSQL the model has visibility at commit, row locks, the locks on the
  table that `DROP TABLE` and `CREATE INDEX` need, rollback, and the deadlock
  detector. `_ensure_schema()` takes three steps: the table is looked for, created
  with its indexes in one transaction, or its indexes are looked for. Chunk ids are
  those of `deterministic_chunk_id()`, which hashes the beginning of the chunk: two
  versions of a document share some, and need not have equally many.
* In `Orchestrator` a document is searched for as one chunk. The dense half cuts to
  `top_k * 2`, the fusion to `candidate_limit` and then `top_k`; where scores are
  equal, or where two lists are fused, any choice of the right size is possible
  (`HybridFusion` has the order itself).

## The runs

| run | expected | shows |
|---|---|---|
| `lexical` | pass | with one caller the lexical index implements the atomic one (`RefinesAtomic`); with one ingesting and two searching threads positions agree and a score never goes to another chunk |
| `lexical_two_writers` | violation | two ingesting threads: a chunk is returned with another chunk's score |
| `vector_store` | pass | the three dicts agree at every step, the store implements the atomic one, the lock is always given back |
| `orchestrator` | pass | two threads, three requests, one failure of a service, one restart: acknowledged documents stay searchable, items fail alone, documents are counted once, and a search by vectors that the cache does not answer keeps its own threshold and limit and, in memory, misses an acknowledged document only for others that are as near |
| `orchestrator_threshold` | violation | a search with a threshold is answered from the cache of one without |
| `orchestrator_batch` | violation | a batch is answered with 500 after some of its items were stored |
| `orchestrator_nested` | violation | with an OpenAI-compatible embedding service a query always ends in a `RuntimeError` |
| `answering` | pass | budgets, retries, ranking and citations, and every query ends |
| `pgvector` | pass | the version stored last is whole and unmixed, nothing stays of an `add()` that did not commit, acknowledged rows stay, and every call ends, by the deadlock detector if need be |
| `ingestion` | pass | the chunks of a document hold every letter of it in order, keep their sizes and offsets; every stored vector is that of its own text although answers are shuffled or short; a bad item changes no other, puts nothing into the lexical index, and leaves at most its own first chunks in the vector store |
| `evaluation` | pass | a chunk that both retrievers rank better comes first; the measures of a case agree with one another and the means with the cases that did not fail; a malformed case leaves no report |
| `app` | pass | what a request that found the orchestrator settled has acknowledged is never lost; the cache keeps its cap and the LRU order under the handlers of two threads; the figures of `/metrics` fit together |

### Bounds, and why they are enough

* `LexicalIndex`: `Uses` says what a run may do with the index. In one use a
  single caller adds, adds again and removes up to four times and asks every
  query; in the other one thread adds twice while two others search. A race of
  the index needs two threads, two chunks in different positions and one
  overlapping call. `RefinesAtomic` is about the first use: beside a concurrent
  search the index is not atomic.
* `VectorStore`: two threads, two documents, a batch with a vector of the wrong
  length in its middle, deletion and addition again of a chunk.
* `App`: two threads, four requests, three keys for a cache of two entries: the
  eviction is reached from every order of use, and the races of the first
  requests leave two requests to see what they did. Threads and keys are
  symmetric: the only `CHOOSE` among them is in `Init`.
* `Orchestrator`: three requests are the least in which a search, an ingestion
  and a search follow one another. The uploads are a batch of two documents, one
  near to the query and one far, a batch of one that can not be loaded and one
  that can not be embedded, and a document with a vector that does not fit; the
  searches are by vectors with and without a threshold, by BM25, and by both.
  `top_k` is 1, so that a second document near or far is cut off. Two
  configurations are explored: memory with a hosted embedding service, and a
  database with the offline embedder. One failure and one restart: each clears or
  reports state that a second one would find the same. The threads are symmetric;
  534,086 states.
* `Answering`: seven candidate lists that reach each of the three budgets, a
  first chunk that does not fit at all, and a chunk repeated before and after
  one that does not fit; two retries; five
  texts with unknown, unused and repeated citations.
* `PgVectorStore`: two threads, three calls, one crash, two versions of one
  document, of two and of three chunks with the first id in common, and a document
  whose second vector is refused. Two threads make every circle of waiting
  possible that the statements can: a `DELETE` and an `add()` that take two rows in
  different orders.

* `Ingestion`: every text of up to four characters out of a small and a capital
  letter, a full stop, a blank and a line end, and longer texts with words,
  sentences and a run of letters without any; set-ups of caller, provider,
  store, chunker, size and overlap; batches with each way in which an item can fail,
  and a limit of 16 bytes at and beyond which items are. Batches of two texts
  for the embedding service make documents of three batches. JSON is flattened to
  a depth of 1 here, of 8 in the code.
* `Evaluation`: five chunks of two documents, every initial content of the stores,
  queries with equal and with negative scores and with one below the threshold of
  similarity, case lists with repeated queries, gold by title and by id, and none,
  and with a case without a query or with `null` for its gold; one ingestion and one
  failure in between, at every place.

Deadlock is not checked where requests are bounded: the system stops when all
are served.

### Fairness

`VectorStore`: a thread that holds the lock runs on (`LockIsReleased` needs no
fairness of a thread that waits for it). `Answering`: the thread of the query
runs on, and a request to the model ends, which its timeout
(`httpx.AsyncClient(timeout=...)`) ensures. `PgVectorStore`: PostgreSQL answers a
statement that no lock holds up; `fut.result()` has no timeout, so without this
nothing would hold. No fairness is assumed of callers.

## What the checks found

Four disagreements between the code and what its documents, comments or routes
say; each has a run whose counterexample shows it.

1. `LexicalIndex.add()` writes two dicts without a lock, and searches pair
   scores with chunks by position (`lexical_two_writers`).
2. The key of the retrieval cache lacks `min_similarity`
   (`orchestrator_threshold`).
3. A failed item makes the batch route's response invalid: a 500 after a
   partial success (`orchestrator_batch`).
4. `embed_texts()` calls `asyncio.run()` inside that of `query()`
   (`orchestrator_nested`). The cross-encoder's `rerank()` does the same, and so
   does the upload route, which runs on the event loop (`Ingestion`: an upload
   never succeeds with a hosted service).

Others that the models contain, without a run of their own; they are in the list
of hazards with their lines.

* `_ensure_built()` clears a dirty flag that was set after its snapshot, so that
  new chunks stay out of search until the next write; and `_bm25` can become
  `None` between its check and its use. BM25 scores that are not positive hide
  chunks that match.
* Searches from the cache miss documents ingested since; the same text ingested
  twice is stored twice; a query without candidates is not counted; two first
  calls of `cache_for()` can create two caches.
* `rag_chunks` keeps the rows of older versions of a document: ids hash the
  beginning of a chunk's text, so `ON CONFLICT` overwrites only the rows whose
  beginnings are the same, and those keep the metadata they had.
  `DocumentsAreWhole` is about the version stored last. A `DELETE` beside an `add()`
  leaves the rows that were committed after it began.
* An item that fails at `vector_store.add()` can leave chunks behind: in memory those
  before a vector of the wrong length, in a database all, when the answer to the
  commit is lost. They are found by vectors, not by BM25, and a retry adds the
  document again under another id. `ItemsAreIsolated` says that nothing else stays.
* A case for `/evaluate` without a query, or with `null` for `relevant_chunk_ids`,
  raises outside the `try` of `_eval_one()` and takes the results of all others with
  it (`CaseRaises`).
* Two docstrings disagree with the code: `min_max_normalize()` says that constant
  scores become 0.0, but positive ones become 1.0 (`hybrid.py:19`, `Normalized`);
  `groundedness()` says 0.0 where no relevant chunks are known, but it is 1.0 if the
  evidence suffices (`metrics.py:112`, `Groundedness`). Tests and documents agree
  with the code.
* Two first requests can construct two orchestrators. What the one that loses has
  acknowledged is gone; `LostOnlyByRace` is what remains true.
* At its last separator the recursive chunker splits a text into characters and
  joins them with blanks, so such a chunk is not a substring of the document;
  `ChunksAreTheText` compares letters. Its overlap makes chunks longer than
  `chunk_size`, by the tail and a blank (`ChunksFit`).

## What is proved

For all values of the constants that satisfy the named assumptions
(`StoreAssumption`, `LexicalAssumption`, `CacheAssumption`, `AnsweringAssumption`,
`PgAssumption`, `OrchestratorAssumption`, `AppAssumption`, `FusionAssumption`,
`EvaluationAssumption`, `RoundingAssumption`, `ChunkerAssumption`,
`LoaderAssumption`, `SignsAssumption`, `IngestionAssumption`). TLC evaluates each of
them on the instances, so none is empty. Two of them bound data rather than describe
it: evaluations have `TopK` up to 31 and fewer than 20000 chunks, since beyond that
rounding to four digits does hide a chunk that is missing.

* `LexicalIndexProofs`: `LexicalTypeCorrect`, `PositionsStayAgreed`,
  `SearchHitsAreOwn`, under `OneWriter`: of the threads in a run one at most calls
  `add()`. The instance satisfies it, and `lexical_two_writers` shows that without
  it `HitsAreOwn` is false. The invariant has four parts beside the types. `DictInv`:
  `_tokens` has the keys of `_by_id` in the same order, but for the one chunk of
  the `add()` under way. `OldInv`: a document list that some thread or `_bm25` still
  holds, of whatever age, has texts in the places of today's ids, since beside a
  search nothing is removed; this is what a stale index owes its harmlessness to.
  `AloneInv`: a caller that is alone sees an index that is dirty or up to date. And
  `HitsAreOwn` itself, which is inductive with them.
  `IndexRefinesAtomic`: for such a caller every step is a step of
  `AtomicLexicalIndex` or a stutter; a call takes effect when it is called, and the
  abstract index is the stored dict with the rest of the call applied (`Pending`).
  It needs `AtomicInv`: but for the entry at hand the two dicts are equal.
* `VectorStoreProofs!TypeCorrect`, `StoreConsistent`: `TypeOK` and `Consistent`
  of the in-memory store. `Consistent` says that vectors, chunks and document
  lists describe the same chunks. It is inductive together with `TypeOK`, which
  bounds the rest of the batch an `add()` is working on. The step of a chunk has
  two cases: a new id, which is appended to its document's list, and a known
  one, which the list has already. `DocumentsAreDisjoint` follows from it.
  `StoreImplementsTable`: each action of the store, under the lock, is the action of
  `AtomicVectorStore` of the same name or a stutter. The counts that `count()` and
  `reset()` answer need the dicts to be finite (`RefInv`).
* `AppProofs!CacheTypeCorrect`, `CacheIsCapped`, `LeastRecentIsEvicted`: `TypeOK`,
  `Capped` and `LeastRecentlyUsedGoes` of the cache. The first two rest on lemmas
  about `PyDict` (putting and deleting keep one entry per key; the length grows by
  at most one, only for a new key) and on one about `Evict`: after a `put` the
  length is at most the cap, because it was before. The third needs `RecentInv`:
  the entries of each cache are the end of the list of its keys in order of use,
  and as many as there are keys or as the cap allows. A hit moves a key to the end
  of both, a fill drops the first of a full cache and with it what is oldest in the
  list.
* `AnsweringProofs`, for all chunks, scores, budgets, retries and texts:
  `TypeCorrect`, `RerankFaithful`, `BudgetsAreKept`, `HigherRankedFirst`,
  `RetriesRight`, `AnswersAreSupported`, `TotalsAreOfTheContext`, one theorem for
  each invariant of the run. `sorted()` is a strict total order of the candidates
  (`PrecedesOrders`), so each has a place of its own and, by counting, each place
  is taken (`PlacesAreTaken`); from that come the type of `ranked` and the order.
  The context needs `ContextInv`: where the loop of `build()` stands, the items
  are the chunks in front of `next`. The retries need `RetryInv`: while the model
  is being asked, the last failure is one that may pass and `error` is its
  exception. The citations need `CiteInv`: the markers read so far are cited or
  rejected, and the two are told apart by the context. The totals are sums over
  the items; an item that `build()` takes is a new one, so its characters are added
  once (`SumLaws`).
* `VectorStoreProofs`, of the PostgreSQL store: `PgTypeCorrect`, `DocumentsWhole`,
  `AcknowledgedStored`, for any number of threads, documents, versions with chunk
  ids of their own, calls and crashes. Of the ids they assume (`PgAssumption`) that
  one names a place of one document. The invariant `PgInv` adds that a transaction
  has written the chunks in front of its place, so that one that commits has written
  them all. With it the version committed last has all its rows, in its own
  contents; rows of other versions may be beside it, each of one that was stored.
  Locks play no part in it: they matter for `EveryCallEnds` only.

* `OrchestratorProofs`, for any number of threads, uploads, failures and restarts:
  `TypeCorrect`, `HitsHaveVectors`, `AckedStays`, `ItemsFailAlone`,
  `SearchesStayFresh`, `CounterIsExact`, one theorem for each invariant of the run.
  None of the six is inductive. `OrchInv` adds how far each upload is (`Progress`: a
  result per finished item, and the current document in the stores that it has
  passed and in no other), that no two threads work on one id (`Distinct`), and that
  each result is right for good (`RightResult`: a success is in the lexical index;
  the id of a failure is never that of a document under way, so it cannot become
  one). The steps of a search change none of this (`SearchingKeeps`). Those of an
  upload change the variables of one thread and add at most its own document
  (`Ingesting`), from which what concerns the other threads follows once
  (`OthersProgress`, `RightGrows`); each action then has its own thread to account
  for. `SearchesStayFresh` needs `FreshInv`, which says of a search by vectors what
  it has seen of the documents acknowledged when it began, in front of the fusion
  with a cut at `top_k * 2` (`DenseSaw`) and behind it with those at
  `candidate_limit` and `top_k` (`Saw`): a document that is missing was cut off, and
  who cut it off is as near. It rests on `AckedIsSearchable`, on acknowledged
  documents staying while the process runs, and on the cache being passed by. Of the
  database, whose index is approximate, and of BM25, whose index can lag, it
  promises no completeness, since the code has none. `CounterIsExact` needs
  `CountInv`: the counter is the number of documents of the lexical index without
  those whose thread is between the second add and the counter.
* `AppProofs`: `AppTypeCorrect`, `AppImplementsCache`, `AppCacheIsCapped`,
  `AppLeastRecentIsEvicted`, `OnlyTheRaceLoses`, `FiguresAgree`. Every step of the
  application is a step of `Cache` or leaves it alone, so the theorems about `Cache`
  hold inside it. `OnlyTheRaceLoses`
  needs `RaceInv`: while a calm request is at work nobody is about to assign, so
  the orchestrator that it has fetched is the one that serves, and remains so.

  `FiguresAgree` is about `/metrics`, which reads counters, caches and statistics
  one after the other. It needs `BooksInv`: `DocsInv`, the documents counted are
  those acknowledged; `QueriesInv`, counted queries and those that are generating
  are at most the counted retrievals; `LooksInv`, counted retrievals and those whose
  lookup is done are at most the hits and misses of all caches; `ReadingsInv`, what
  a reader reads later is not older than what it has read.
* `EvaluationProofs`: `TypeCorrect`, `FusionIsRespected`, `MeasuresAlwaysAgree`, for
  all chunks, scores, weights, cuts and cases. The invariant of the specification is
  simple (what is retrieved or cached is good, what is measured agrees, the report
  is the means or is not there yet); the work is in lemmas about the operators.
  `NormalizedKeepsOrder` and `RanksKeepOrder`: scaling keeps what differs apart, so
  a better hit scores more in each list; `WeightsAdd`, `BetterScoresMore`: so does
  the weighted sum, if the list counts; `RankedIsSorted`: ranking a finite set of
  hits gives each its place; together `FusionRespectsBoth`. For the measures:
  `RatioTells` (rounding to ten-thousandths keeps none, some and all apart for fewer
  than 20000 chunks), `HitsCount` (places and chunks are as many), and for nDCG
  `FirstPlacesGainMost`: no `k` places but the first gain what the first `k` do, and
  what they lack is more than rounding hides. `MeansAreBetween`: a rounded mean
  leaves the range of its values as little as the mean does.

* `IngestionProofs`: `TypeCorrect`, `ChunksAreTheText`, `ChunksFit`,
  `VectorsAreOwn`, `ItemsAreIsolated` (the theorems are `ChunksAlwaysTheText`,
  `ChunksAlwaysFit`, `VectorsAlwaysOwn`, `ItemsAlwaysIsolated`), for all texts,
  types, JSON values, strategies, sizes, overlaps, batches and answers. None is
  inductive; `Inv` has six parts. `CallInv` says what is known at each place of the
  loop: a file that is about to be read has been found, nothing is embedded for
  `ingest_many`, and an upload gets past embedding with the mock only. `ResultsInv`:
  a result per item that is over. `ChunksInv`: while an item's chunks are needed,
  they are those of its document, which is the item's content, normalised.
  `VectorsInv`: the vectors so far are those of the texts sent, in their order,
  unless the service has left one out; then they are fewer and stay so, and the
  store refuses them for their number. `StoresInv`: what the stores hold belongs to
  an item that is over, and what the lexical index has the vector store has too, so
  the current item starts from nothing. What an `add()` that raises leaves is then a
  beginning of its own chunks (`RowsKept`, `StoreFailsKeeps`). `IsolatedInv` is what
  `ItemsAreIsolated` says of a result, of each so far.

  The work is in theorems about the operators. `ChunksFacts`: the chunks of any text
  are numbered, not blank, in order, inside it, and as long as their strategy
  promises, with the tail of the overlap and the blank before it; there is one
  unless the text is blank. `LoadFacts`: which bytes load, and that a document ends
  in a character that is not blank. `AnswersFacts`: sorting an answer by `index` puts
  the vectors into the order of their texts unless one is missing. `LettersStay`:
  decoding, stripping of tags and normalisation keep each letter. `ChunksCover`:
  each chunk's letters are a part of the document's that begins at or before the end
  of the one before it, and the last ends where the document does. It rests on what
  is left of a text without blanks and full stops (`Without`), which each step of
  splitting, packing and joining keeps (`SplitLeft`, `PackAllLeft`,
  `RecursiveSplitLeft`), and on three reasons why there is no gap: the windows leave
  out only blanks (`WindowsTo`), a group of sentences begins at or before the one
  after the last (`Reaching`), and the overlap puts a tail of the chunk before in
  front (`Behind`).

  Loops are folds or recursive functions in `Chunker` and `Loader`; the lemmas called
  `...Steps` turn one into the values it goes through, and sets of numbers
  (`InductiveSet`) or of values ordered by a rank (`RankedInduction`, for JSON
  values and for the rest of a text that is being split) replace induction over data.

Each proof has a step per action of the specification, and the temporal step
last. `Induction` derives induction over numbers and over finite sets from the
well-foundedness of `<`, with predicates that are functions into `BOOLEAN`; with
them it shows that folds over sets and sequences, as the community modules define
them, have the laws of sums.

Only model-checked: liveness (`QueryEnds`, `EveryCallEnds`, `LockIsReleased`), which
is beyond TLAPS. Every invariant of a passing run, and `LeastRecentlyUsedGoes` and
the refinements among the action properties, is a theorem as well.

## Not modelled

* `reset()` of the lexical index, which only tests call; `reset()` of the stores is
  in `VectorStore` and `PgVectorStore`.
* The cross-encoder reranker beyond its failure in a query; `rerank_async()` has no
  caller that could get an answer from it.
* What parsing libraries do inside (JSON, PDF, HTML entities), tokens and
  characters of the model's text, prompt wording, costs, latencies, tracing and
  log lines: data without control.
* Domain models, errors, settings: declarations, whose ranges are the assumptions
  on the constants.
* Benchmarks, data sets, the smoke test and packaging: sequential scripts and data
  around the system, without state of their own.

## Plan

1. Done: all modules of the table, their abstract specifications, the theorems
   above.
2. Next models: requests that are sent again after a timeout, on top of `App`,
   once ingestion has a key that makes them one.
