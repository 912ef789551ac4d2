------------------------------ MODULE Ingestion -----------------------------
(***************************************************************************)
(* A batch of documents on its way into the stores: loading, chunking,     *)
(* embedding in batches of texts, storing (app/ingestion, app/chunking,    *)
(* app/embeddings and the loop of RAGOrchestrator.ingest_documents).       *)
(*                                                                         *)
(* Three callers run it: IngestionService.ingest_many, which loads and     *)
(* chunks only; ingest_documents in a thread of the server's pool; and the *)
(* upload route, which calls it on the event loop.  A vector is modelled   *)
(* as the text it embeds, so that a vector of another text is seen.  The   *)
(* embedding service may answer out of order when it numbers its vectors,  *)
(* may leave some out, or fail; it numbers all vectors of an answer, or    *)
(* answers in order.                                                       *)
(***************************************************************************)
EXTENDS Loader, FiniteSets

CONSTANTS Batches,   \* the lists of items that callers pass
          Setups,    \* the [caller, provider, store, strategy, size, overlap] to check
          BatchSize, \* settings.embedding_batch_size
          MaxVanish  \* bound: files that vanish while they are being read

Callers == {"ingest_many", "ingest_documents", "ingest_upload"}

\* A list of items, each with the bytes of a document, and a file with whether it is
\* there, and whether it may be read.
IsBatch(batch) ==
    /\ batch \in Seq({batch[i] : i \in DOMAIN batch})
    /\ \A i \in DOMAIN batch : /\ IsRaw(batch[i].raw)
                               /\ batch[i].kind = "file" => {batch[i].exists, batch[i].safe} \subseteq BOOLEAN

ASSUME IngestionAssumption ==
    /\ BatchSize \in Nat \ {0} /\ MaxVanish \in Nat
    /\ \A batch \in Batches : IsBatch(batch)
    /\ \A s \in Setups : /\ s.caller \in Callers /\ s.provider \in {"mock", "openai"}
                         /\ s.store \in {"memory", "pgvector"}
                         /\ s.strategy \in {"fixed", "sentence", "recursive"}
                         /\ s.size \in Nat \ {0} /\ s.overlap \in Nat
                         /\ s.strategy \in {"fixed", "recursive"} => s.overlap < s.size

VARIABLES setup,    \* who calls, and what the service is configured with
          items,    \* the argument
          vanished, \* the items whose file has been removed since
          pc,       \* the next step
          results,  \* the results so far: [error, chunks]
          document, \* the content of the current item's document
          chunks,   \* r.chunks
          sent,     \* embed_texts_async: the number of texts sent so far
          vectors,  \* embed_texts_async: out
          stored,   \* the vector store: [item, chunk, vector]
          indexed   \* the lexical index: [item, chunk]

vars == <<setup, items, vanished, pc, results, document, chunks, sent, vectors,
          stored, indexed>>

Init ==
    /\ setup \in Setups /\ items \in Batches
    /\ setup.caller = "ingest_upload" => Len(items) = 1 /\ items[1].kind = "file"
    /\ vanished = {} /\ pc = (IF items = <<>> THEN "done" ELSE "take") /\ results = <<>>
    /\ document = <<>> /\ chunks = <<>> /\ sent = 0 /\ vectors = <<>>
    /\ stored = {} /\ indexed = {}

Current == Len(results) + 1
Item == items[Current]

\* A fault: the first failure ends the batch.
ReportLast(error, made) ==
    /\ results' = Append(results, [error |-> error, chunks |-> made])
    /\ pc' = IF Current = Len(items) \/ error # "none" THEN "done" ELSE "take"
    /\ document' = <<>> /\ chunks' = <<>> /\ sent' = 0 /\ vectors' = <<>>

\* The item is over: its result, and on to the next one.
Report(error, made) ==
    /\ results' = Append(results, [error |-> error, chunks |-> made])
    /\ pc' = IF Current = Len(items) THEN "done" ELSE "take"
    /\ document' = <<>> /\ chunks' = <<>> /\ sent' = 0 /\ vectors' = <<>>

\* ingest_many puts a document with the content "__failed__" in the place of the item,
\* ingest_documents an entry without chunks.
Fail(error) ==
    /\ Report(error, <<>>)
    /\ UNCHANGED <<setup, items, vanished, stored, indexed>>

-----------------------------------------------------------------------------
\* The content has been read: it is parsed, and the document cut into chunks.
LoadOrFail(raw, type) ==
    \E loaded \in {Load(raw, type)} :
       \/ loaded.error # "none" /\ Fail(loaded.error)
       \/ /\ loaded.error = "none"
          /\ document' = loaded.content
          /\ chunks' = Chunks(setup.strategy, loaded.content, setup.size, setup.overlap)
          /\ pc' = IF setup.caller = "ingest_many" THEN "return" ELSE "embed"
          /\ UNCHANGED <<setup, items, vanished, results, sent, vectors, stored, indexed>>

\* ingest_text, ingest_bytes
LoadContent ==
    /\ pc = "take" /\ Item.kind \in {"text", "bytes"}
    /\ LoadOrFail(Item.raw, Item.type)

UnknownKind ==
    /\ pc = "take" /\ Item.kind \notin {"text", "bytes", "file"}
    /\ Fail(IF setup.caller = "ingest_many" THEN "ValueError" ELSE "ValidationError")

\* ingest_upload: too long a body is refused at once, with 413.
RefuseUpload ==
    /\ pc = "take" /\ setup.caller = "ingest_upload" /\ ~FitsLimit(Item.raw.size)
    /\ Fail("document_too_large")

\* load_file: the file is there, and where files may be read
FindFile ==
    /\ pc = "take" /\ Item.kind = "file"
    /\ setup.caller = "ingest_upload" => FitsLimit(Item.raw.size)
    /\ \/ /\ Item.exists /\ Current \notin vanished /\ Item.safe
          /\ pc' = "read"
          /\ UNCHANGED <<setup, items, vanished, results, document, chunks, sent, vectors, stored, indexed>>
       \/ /\ ~(Item.exists /\ Current \notin vanished /\ Item.safe)
          /\ Fail("DocumentParseError")

\* load_file: p.read_bytes(), and the rest
ReadFile ==
    /\ pc = "read"
    /\ \/ Current \in vanished /\ Fail("FileNotFoundError")
       \/ Current \notin vanished /\ LoadOrFail(Item.raw, GuessContentType(Item.suffix))

\* Somebody removes a file.  An upload's is private to its request.
Vanish(i) ==
    /\ pc # "done" /\ setup.caller # "ingest_upload" /\ Cardinality(vanished) < MaxVanish
    /\ i \in DOMAIN items \ vanished /\ items[i].kind = "file" /\ items[i].exists
    /\ vanished' = vanished \cup {i}
    /\ UNCHANGED <<setup, items, pc, results, document, chunks, sent, vectors, stored, indexed>>

\* ingest_many is done with the item.
ReturnChunks ==
    /\ pc = "return"
    /\ Report("none", chunks)
    /\ UNCHANGED <<setup, items, vanished, stored, indexed>>

-----------------------------------------------------------------------------
Contents == [i \in DOMAIN chunks |-> chunks[i].content]

EmbedOffline ==
    /\ pc = "embed" /\ setup.provider = "mock"
    /\ vectors' = Contents /\ sent' = Len(chunks) /\ pc' = "store"
    /\ UNCHANGED <<setup, items, vanished, results, document, chunks, stored, indexed>>

\* embed_texts: asyncio.run() raises where an event loop is running.
EmbedOnLoop ==
    /\ pc = "embed" /\ setup.provider = "openai" /\ setup.caller = "ingest_upload"
    /\ Fail("RuntimeError")

\* What the service may answer to a batch: all vectors numbered, in any order, or
\* without numbers; all of them, or all but one.
Answers(batch) ==
    LET all == [i \in DOMAIN batch |-> [embedding |-> batch[i], index |-> i - 1]]
        bare == [i \in DOMAIN batch |-> [embedding |-> batch[i], index |-> 0]]
    IN  {[i \in DOMAIN batch |-> all[p[i]]] : p \in Bijection(DOMAIN batch, DOMAIN batch)}
            \cup {bare, Tail(all), Tail(bare)}

\* A fault: the vectors stay in the order of the answer.
AsAnswered(data) == data

\* sorted(data, key=index): stable
ByIndex(data) ==
    LET before(i, j) == data[i].index < data[j].index \/ (data[i].index = data[j].index /\ i < j)
        place(i) == Cardinality({j \in DOMAIN data : before(j, i)}) + 1
    IN  [k \in DOMAIN data |-> data[CHOOSE i \in DOMAIN data : place(i) = k]]

\* _embed_batch: one request, for the next texts.
EmbedBatch ==
    /\ pc = "embed" /\ setup.provider = "openai" /\ setup.caller = "ingest_documents"
    /\ LET next == Min({sent + BatchSize, Len(chunks)})
       IN  /\ sent < Len(chunks)
           /\ \E data \in Answers(SubSeq(Contents, sent + 1, next)) :
                  vectors' = vectors \o [i \in DOMAIN data |-> ByIndex(data)[i].embedding]
           /\ sent' = next
           /\ pc' = IF next = Len(chunks) THEN "store" ELSE "embed"
    /\ UNCHANGED <<setup, items, vanished, results, document, chunks, stored, indexed>>

\* A request times out, is refused, or is answered by something else than vectors.
EmbedFails ==
    /\ pc = "embed" /\ setup.provider = "openai" /\ setup.caller = "ingest_documents"
    /\ Fail("EmbeddingError")

Row(i) == [item |-> Current, chunk |-> chunks[i], vector |-> vectors[i]]
Entries == {[item |-> Current, chunk |-> chunks[i]] : i \in DOMAIN chunks}

\* store.add(chunks, vectors) and index.add(chunks)
Store ==
    /\ pc = "store" /\ Len(vectors) = Len(chunks)
    /\ stored' = stored \cup {Row(i) : i \in DOMAIN chunks}
    /\ indexed' = indexed \cup Entries
    /\ Report("none", chunks)
    /\ UNCHANGED <<setup, items, vanished>>

\* store.add raises with the first n chunks stored: in memory a vector behind them that
\* a service has given too few or too many numbers, in the database all or nothing, as
\* the connection is lost behind its commit or before.
StoreFailsWith(n, entries) ==
    /\ pc = "store" /\ Len(vectors) = Len(chunks)
    /\ IF setup.store = "memory" THEN setup.provider = "openai" /\ n < Len(chunks)
                                 ELSE n \in {0, Len(chunks)}
    /\ stored' = stored \cup {Row(i) : i \in 1..n}
    /\ indexed' = indexed \cup entries
    /\ Report(IF setup.store = "memory" THEN "ValueError" ELSE "PostgresError", <<>>)
    /\ UNCHANGED <<setup, items, vanished>>

\* A fault: the lexical index comes first.
StoreFailsBehindIndex(n) == StoreFailsWith(n, Entries)

StoreFails(n) == StoreFailsWith(n, {})

\* Either store refuses to add chunks and vectors of different numbers, and keeps none.
StoreRefuses ==
    /\ pc = "store" /\ Len(vectors) # Len(chunks)
    /\ Fail("ValueError")

Next ==
    \/ LoadContent \/ UnknownKind \/ RefuseUpload \/ FindFile \/ ReadFile
    \/ ReturnChunks
    \/ EmbedOffline \/ EmbedOnLoop \/ EmbedBatch \/ EmbedFails
    \/ Store \/ StoreRefuses \/ \E n \in 0..Len(chunks) : StoreFails(n)
    \/ \E i \in DOMAIN items : Vanish(i)

Spec == Init /\ [][Next]_vars

-----------------------------------------------------------------------------
\* Every variable has its type, and a batch of texts is sent only once (service.py,
\* provider.py).
TypeOK ==
    /\ setup \in Setups /\ items \in Batches
    /\ vanished \subseteq DOMAIN items
    /\ pc \in {"take", "read", "return", "embed", "store", "done"}
    /\ Len(results) <= Len(items) /\ (pc = "done" <=> Len(results) = Len(items))
    /\ sent \in 0..Len(chunks) /\ Len(vectors) <= Len(chunks)
    /\ \A s \in stored : s.item \in DOMAIN results
    /\ indexed \subseteq {[item |-> s.item, chunk |-> s.chunk] : s \in stored}

\* What is left of a text without the characters of a set.
Without(t, set) == FlattenSeq([i \in DOMAIN t |-> IF t[i] \in set THEN <<>> ELSE <<t[i]>>])

\* What of a text carries its meaning: neither blanks nor sentence ends.
Letters(t) == Without(t, Blanks \cup Stops)

\* The places that pieces can end at if each is a part of `whole` and begins at or before the
\* end of the one before it.
Places(whole, piece) == {p \in 0..(Len(whole) - Len(piece)) : Slice(whole, p, p + Len(piece)) = piece}
NextEnds(whole, piece, ends) ==
    {p + Len(piece) : p \in {q \in Places(whole, piece) : \E e \in ends : q <= e}}
Ends(whole, pieces) ==
    Loop(Len(pieces), {0}, LAMBDA k, ends : NextEnds(whole, pieces[k], ends))
Covers(whole, pieces) == Len(whole) \in Ends(whole, pieces)

\* What the loader makes of an item's content.
TypeOf(item) == IF item.kind = "file" THEN GuessContentType(item.suffix) ELSE item.type
ContentOf(item) == Parse(item.raw, TypeOf(item))

\* Loading and chunking lose no letter and invent none: a text's letters are those of its
\* document; the letters of each chunk are a part of the document's, each begins at or
\* before the end of the one before it, and the last ends where the document does.
\* (loader.py:39-50, chunker.py:61-218)
ChunksAreTheText ==
    chunks # <<>> =>
        /\ Item.raw.form = "text" =>
              Letters(document) =
                 Without(Item.raw.text,
                         Blanks \cup Stops \cup (IF TypeOf(Item) \in HtmlTypes THEN {Tag} ELSE {}))
        /\ Covers(Letters(document), [i \in DOMAIN chunks |-> Letters(chunks[i].content)])

\* The chunks are numbered, no chunk is blank, each lies inside the document, no one ends
\* before the one before it, and none is longer than its strategy promises: the window; one sentence,
\* or as many as fit; the size, and the tail of the chunk before.  (chunker.py:72, 114, 189, 206)
ChunksFit ==
    \A i \in DOMAIN chunks :
        LET c == chunks[i]
            n == Len(c.content)
        IN  /\ c.sequence = i - 1 /\ ~IsBlank(c.content)
            /\ 0 <= c.start /\ c.start <= c.end /\ c.end <= Len(document)
            /\ i > 1 => chunks[i - 1].end <= c.end
            /\ CASE setup.strategy = "fixed" ->
                        n <= setup.size /\ c.content = Slice(document, c.start, c.end)
                 [] setup.strategy = "sentence" ->
                        n <= setup.size \/ Len(SplitSentences(c.content)) = 1
                 [] setup.strategy = "recursive" ->
                        n <= setup.size + (IF i > 1 /\ setup.overlap > 0 THEN setup.overlap + 1 ELSE 0)

\* Every stored chunk has the vector of its own text, whatever the order of the service's
\* answers, and how many vectors they lack.  (provider.py:148-183, vector_store.py:215)
VectorsAreOwn == \A s \in stored : s.vector = s.chunk.content

\* What a caller may expect of an item, whatever the others are.
Sound(item) ==
    /\ item.kind \in {"text", "bytes", "file"}
    /\ item.kind = "file" => item.exists /\ item.safe
    /\ item.raw.size <= MaxBytes
    /\ ContentOf(item).error = "none" /\ ~IsBlank(ContentOf(item).content)

\* Every item has one result, in the order of the items, that depends on no other item:
\* it succeeds if it can be loaded, unless its file has vanished or a service outside the
\* process can fail.  If it succeeds all its chunks are in both stores.  If it fails none is
\* in the lexical index, and in the vector store no more than the first of its own chunks: in
\* a database all or none, and none where the vectors are the mock's and the store is in
\* memory.  An upload never succeeds with a hosted service.  (service.py:96-116,
\* pipeline.py:106-157, vector_store.py:226-230)
ItemsAreIsolated ==
    /\ pc = "done" => Len(results) = Len(items)
    /\ \A k \in DOMAIN results :
           LET ok == results[k].error = "none"
               own == Chunks(setup.strategy, Normalize(ContentOf(items[k]).content),
                             setup.size, setup.overlap)
               kept == {s.chunk : s \in {x \in stored : x.item = k}}
               listed == {e.chunk : e \in {x \in indexed : x.item = k}}
           IN  /\ ok => Sound(items[k]) /\ results[k].chunks # <<>> /\ results[k].chunks = own
               /\ Sound(items[k]) /\ ~ok =>
                     k \in vanished \/ setup.provider = "openai" \/ setup.store = "pgvector"
               /\ listed = IF setup.caller = "ingest_many" THEN {} ELSE ToSet(results[k].chunks)
               /\ ok => kept = listed
               /\ ~ok => /\ listed = {}
                         /\ kept # {} => /\ Sound(items[k])
                                         /\ setup.store = "pgvector" \/ setup.provider = "openai"
                                         /\ \E n \in 1..Len(own) :
                                               /\ kept = {own[i] : i \in 1..n}
                                               /\ setup.store = "pgvector" => n = Len(own)
               /\ setup.caller = "ingest_upload" /\ setup.provider = "openai" => ~ok
=============================================================================
