---------------------------- MODULE VectorStore -----------------------------
(***************************************************************************)
(* InMemoryVectorStore of app/storage/vector_store.py: chunks, their       *)
(* vectors, and the list of chunk ids of each document, behind one RLock.  *)
(*                                                                         *)
(* add() holds the lock over its whole loop and is modelled chunk by chunk,*)
(* because a vector of the wrong length raises in the middle of the loop.  *)
(* The other operations hold the lock for one step.  A chunk id is a       *)
(* number, so that ids have the order the sort of search() breaks ties by. *)
(***************************************************************************)
EXTENDS Integers, Sequences, FiniteSets

CONSTANTS Threads,      \* the threads of the server's pool
          Ids,          \* the chunk ids
          Docs,         \* the document ids
          DocOf,        \* the document of a chunk: its id is derived from it
          Texts,        \* the contents a chunk may have
          Vectors,      \* the vectors of the store's dimension
          WrongVectors, \* vectors of another length
          Sim(_, _),    \* cosine similarity of two vectors
          Batches,      \* the lists of [id, text, vec] that add() may be given
          Queries,      \* the [vec, top, allowed, least] that search() may be given
          Models,       \* the embedding model names
          MaxAdds       \* bound: calls of add()

Chunk == [id : Ids, text : Texts, vec : Vectors \cup WrongVectors]

NoThread == "no thread"

ASSUME StoreAssumption ==
    /\ Ids \subseteq Int
    /\ DocOf \in [Ids -> Docs]
    /\ Vectors \cap WrongVectors = {}
    /\ Batches \subseteq Seq(Chunk)
    /\ MaxAdds \in Nat
    /\ "unknown" \in Models
    /\ NoThread \notin Threads
    /\ \A v, w \in Vectors : Sim(v, w) \in Int
    /\ \A q \in Queries : q.vec \in Vectors \cup WrongVectors /\ q.top \in Nat

VARIABLES vectors,   \* self._vectors: id -> vector
          chunks,    \* self._chunks: id -> content
          docChunks, \* self._doc_to_chunks; <<>> when the document has no key
          model,     \* self._model
          lock,      \* the owner of self._lock
          batch,     \* add(): the chunks the loop of a thread has left
          adding,    \* add(): the model name it was called with
          answer,    \* what the last call of each thread returned or raised
          adds       \* calls of add() so far

store == <<vectors, chunks, docChunks>>
vars == <<vectors, chunks, docChunks, model, lock, batch, adding, answer, adds>>

None == [kind |-> "none"]

Init ==
    /\ vectors = [i \in {} |-> <<>>]
    /\ chunks = [i \in {} |-> <<>>]
    /\ docChunks = [d \in Docs |-> <<>>]
    /\ model = "unknown"
    /\ lock = NoThread
    /\ batch = [t \in Threads |-> <<>>]
    /\ adding = [t \in Threads |-> "unknown"]
    /\ answer = [t \in Threads |-> None]
    /\ adds = 0

\* f[k] = v for a dict used as a plain mapping
Set(f, k, v) == [x \in DOMAIN f \cup {k} |-> IF x = k THEN v ELSE f[x]]
Without(f, K) == [x \in DOMAIN f \ K |-> f[x]]
Elements(s) == {s[i] : i \in DOMAIN s}
NoDuplicates(s) == \A m, n \in DOMAIN s : s[m] = s[n] => m = n

Return(t, a) == answer' = [answer EXCEPT ![t] = a]

-----------------------------------------------------------------------------
\* add(chunks, vectors, model)

\* The call waits for the lock and takes it when it is free.
BeginAdd(t, b, m) ==
    /\ adds < MaxAdds
    /\ lock = NoThread
    /\ lock' = t
    /\ batch' = [batch EXCEPT ![t] = b]
    /\ adding' = [adding EXCEPT ![t] = m]
    /\ adds' = adds + 1
    /\ Return(t, None)
    /\ UNCHANGED <<store, model>>

\* The turn of the loop for the chunk at the head: it replaces what its id had,
\* and goes into the list of its document.
StoreHead(t, listIt) ==
    LET c == Head(batch[t])
    IN  /\ vectors' = Set(vectors, c.id, c.vec)
        /\ chunks' = Set(chunks, c.id, c.text)
        /\ docChunks' = IF listIt
                        THEN [docChunks EXCEPT ![DocOf[c.id]] = Append(@, c.id)]
                        ELSE docChunks
        /\ batch' = [batch EXCEPT ![t] = Tail(@)]
        /\ UNCHANGED <<model, lock, adding, answer, adds>>

Looping(t) == lock = t /\ batch[t] # <<>>
HeadFits(t) == Head(batch[t]).vec \in Vectors
HeadIsNew(t) == Head(batch[t]).id \notin DOMAIN chunks

\* Two faults: the list grows on every add; the length check is forgotten.
AddOneListsAlways(t) == Looping(t) /\ HeadFits(t) /\ StoreHead(t, TRUE)
AddOneUnchecked(t) == Looping(t) /\ StoreHead(t, HeadIsNew(t))

AddOne(t) == Looping(t) /\ HeadFits(t) /\ StoreHead(t, HeadIsNew(t))

\* A fault: acquire() and release() around the loop, without try/finally.
AddRaisesHoldingLock(t) ==
    /\ Looping(t) /\ ~HeadFits(t)
    /\ Return(t, [kind |-> "ValueError"])
    /\ UNCHANGED <<store, model, lock, batch, adding, adds>>

\* The next vector has the wrong length: ValueError leaves the `with` block.
\* The chunks of the earlier turns stay; self._model is not reached.
AddRaises(t) ==
    /\ Looping(t) /\ ~HeadFits(t)
    /\ lock' = NoThread
    /\ batch' = [batch EXCEPT ![t] = <<>>]
    /\ Return(t, [kind |-> "ValueError"])
    /\ UNCHANGED <<store, model, adding, adds>>

FinishAdd(t) ==
    /\ lock = t /\ batch[t] = <<>>
    /\ model' = adding[t]
    /\ lock' = NoThread
    /\ Return(t, [kind |-> "added"])
    /\ UNCHANGED <<store, batch, adding, adds>>

-----------------------------------------------------------------------------
\* The other operations, each under the lock for one step.

\* The ids that pass the filters and the similarity threshold of a query.
Eligible(q) == {i \in DOMAIN vectors : i \in q.allowed /\ Sim(q.vec, vectors[i]) >= q.least}

\* The eligible ids that scored.sort(key=(-sim, id)) puts before i.
Ahead(q, i) == {j \in Eligible(q) :
                   LET si == Sim(q.vec, vectors[i])
                       sj == Sim(q.vec, vectors[j])
                   IN  sj > si \/ (sj = si /\ j < i)}

SearchNow(t, q) ==
    /\ Return(t, IF DOMAIN vectors # {} /\ q.vec \in WrongVectors
                 THEN [kind |-> "ValueError"]
                 ELSE [kind |-> "hits", query |-> q,
                       hits |-> {[id |-> i, rank |-> Cardinality(Ahead(q, i)),
                                  text |-> chunks[i]] :
                                 i \in {j \in Eligible(q) :
                                           Cardinality(Ahead(q, j)) < q.top}}])
    /\ UNCHANGED <<store, model, lock, batch, adding, adds>>

\* A fault: search() does not take the lock.
SearchUnlocked(t, q) == lock # t /\ SearchNow(t, q)

Search(t, q) == lock = NoThread /\ SearchNow(t, q)

\* list_documents(): one row for each document that has a chunk
ListDocuments(t) ==
    /\ lock = NoThread
    /\ Return(t, [kind |-> "rows",
                  rows |-> {[doc |-> d, count |-> Len(docChunks[d])] :
                               d \in {e \in Docs : docChunks[e] # <<>>}}])
    /\ UNCHANGED <<store, model, lock, batch, adding, adds>>

\* count()
Count(t) ==
    /\ lock = NoThread
    /\ Return(t, [kind |-> "count", n |-> Cardinality(DOMAIN chunks)])
    /\ UNCHANGED <<store, model, lock, batch, adding, adds>>

\* delete_document(): pops the id list, then what it names
DeleteDocument(t, d) ==
    /\ lock = NoThread
    /\ docChunks' = [docChunks EXCEPT ![d] = <<>>]
    /\ vectors' = Without(vectors, Elements(docChunks[d]))
    /\ chunks' = Without(chunks, Elements(docChunks[d]))
    /\ Return(t, [kind |-> "deleted", n |-> Len(docChunks[d])])
    /\ UNCHANGED <<model, lock, batch, adding, adds>>

\* reset(): the model name is kept
Reset(t) ==
    /\ lock = NoThread
    /\ vectors' = Without(vectors, DOMAIN vectors)
    /\ chunks' = Without(chunks, DOMAIN chunks)
    /\ docChunks' = [d \in Docs |-> <<>>]
    /\ Return(t, None)
    /\ UNCHANGED <<model, lock, batch, adding, adds>>

-----------------------------------------------------------------------------
AddLoop(t) == AddOne(t) \/ AddRaises(t) \/ FinishAdd(t)

Next == \E t \in Threads :
    \/ AddLoop(t)
    \/ \E b \in Batches, m \in Models : BeginAdd(t, b, m)
    \/ \E q \in Queries : Search(t, q)
    \/ ListDocuments(t)
    \/ Count(t)
    \/ \E d \in Docs : DeleteDocument(t, d)
    \/ Reset(t)

Spec == Init /\ [][Next]_vars

\* A thread inside add() keeps running: nothing in the loop waits.
FairSpec == Spec /\ \A t \in Threads : WF_vars(AddLoop(t))

-----------------------------------------------------------------------------
\* Every variable keeps the shape the class gives it.
TypeOK ==
    /\ DOMAIN vectors \subseteq Ids /\ vectors \in [DOMAIN vectors -> Vectors]
    /\ DOMAIN chunks \subseteq Ids /\ chunks \in [DOMAIN chunks -> Texts]
    /\ docChunks \in [Docs -> Seq(Ids)]
    /\ model \in Models
    /\ lock \in Threads \cup {NoThread}
    /\ batch \in [Threads -> Seq(Chunk)]
    /\ adding \in [Threads -> Models]
    /\ adds \in 0..MaxAdds

\* The three dicts describe the same chunks: each stored id has a vector and a
\* content, and is listed exactly once, under its own document.  add() keeps the
\* list by hand ("duplicates cannot accumulate", vector_store.py:219-220), and
\* list_documents(), search() and delete_document() read one dict through another.
Consistent ==
    /\ DOMAIN vectors = DOMAIN chunks
    /\ \A d \in Docs :
          /\ Elements(docChunks[d]) = {i \in DOMAIN chunks : DocOf[i] = d}
          /\ NoDuplicates(docChunks[d])

\* The lock is given back, also when a vector of the wrong length raises.
LockIsReleased == \A t \in Threads : (lock = t) ~> (lock # t)

-----------------------------------------------------------------------------
\* A call of add() takes effect when it takes the lock: the abstract table is what
\* is stored with the rest of the running loop applied, and its caller's reply is
\* already decided.
Table == [i \in DOMAIN vectors |-> [text |-> chunks[i], vec |-> vectors[i]]]

Abstract == INSTANCE AtomicVectorStore WITH table <- Table, reply <- answer

Pending == IF lock = NoThread THEN Table ELSE Abstract!Stored(Table, batch[lock])

Replies == [t \in Threads |-> IF lock = t THEN Abstract!AddReply(batch[t]) ELSE answer[t]]

Atomic == INSTANCE AtomicVectorStore WITH table <- Pending, reply <- Replies

\* Every operation of the store, with its three dicts and its lock, takes effect at
\* one instant on one table: a search never meets half a batch, its top_k is the
\* best of what is stored, and the rows of list_documents() are those of the table.
RefinesAtomic == Atomic!TInit /\ [][Atomic!TNext(Batches, Queries)]_Atomic!tvars
=============================================================================
