---------------------------- MODULE LexicalIndex ----------------------------
(***************************************************************************)
(* LexicalIndex of app/storage/vector_store.py: the BM25 index that every  *)
(* ingestion adds to and every hybrid search reads.                        *)
(*                                                                         *)
(* The class has no lock.  FastAPI runs the plain `def` handlers on a pool *)
(* of threads that all reach the one index of the orchestrator, so each    *)
(* statement that reads or writes a shared attribute is a step of its own. *)
(*                                                                         *)
(* A chunk is [key |-> chunk id, val |-> content].  tokenize() is kept     *)
(* abstract: a document of the BM25 corpus is the content it was made of,  *)
(* and Score stands for BM25Okapi.get_scores.                              *)
(***************************************************************************)
EXTENDS PyDict, Ranking, SequencesExt

CONSTANTS Threads,         \* the threads of the server's pool
          Adders,          \* those that may call add()
          Batches,         \* the chunk lists add() may be called with
          Removals,        \* the id lists remove() may be called with
          Queries,         \* the query strings
          Tokenless,       \* those in which tokenize() finds no token
          Score(_, _, _),  \* BM25 score of document i of a corpus for a query
          TopK,            \* the top_k of every search
          Uses             \* what a run may do with the index: [callers |-> the threads
                           \* that call it, queries |-> those they ask, writes |-> a bound
                           \* on the calls of add() and remove() altogether]

ASSUME LexicalAssumption ==
    /\ Adders \subseteq Threads
    /\ Uses \subseteq [callers : (SUBSET Threads) \ {{}}, queries : SUBSET Queries,
                        writes : Nat]
    /\ Queries # {} /\ Tokenless \subseteq Queries
    /\ Batches \subseteq Seq([key : UNION {KeySet(b) : b \in Batches},
                              val : UNION {ToSet(ValueList(b)) : b \in Batches}])
    /\ Removals \subseteq Seq(UNION {ToSet(r) : r \in Removals})
    /\ TopK \in Nat

VARIABLES byId,     \* self._by_id
          tokens,   \* self._tokens
          dirty,    \* self._dirty
          bm25,     \* the corpus of self._bm25; <<>> is None
          pc,       \* the next statement of each thread
          todo,     \* the rest of the list its add() or remove() walks
          removed,  \* remove(): n > 0
          query,    \* the query of its search()
          corpus,   \* search(): the token lists it snapshot, then those it scored
          found,    \* what its last search() returned
          raised,   \* the exceptions that have escaped from a call
          writes,   \* calls of add() and remove() so far
          use       \* what this run does with the index

shared == <<byId, tokens, dirty, bm25>>
vars == <<byId, tokens, dirty, bm25, pc, todo, removed, query, corpus, found,
          raised, writes, use>>

ChunkIds == UNION {KeySet(b) : b \in Batches}
Contents == UNION {ToSet(ValueList(b)) : b \in Batches}
Entries == [key : ChunkIds, val : Contents]
RemovalIds == UNION {ToSet(r) : r \in Removals}

Init ==
    /\ byId = <<>> /\ tokens = <<>>
    /\ dirty = TRUE /\ bm25 = <<>>
    /\ pc = [t \in Threads |-> "idle"]
    /\ todo = [t \in Threads |-> <<>>]
    /\ removed = [t \in Threads |-> FALSE]
    /\ query = [t \in Threads |-> CHOOSE q \in Queries : TRUE]
    /\ corpus = [t \in Threads |-> <<>>]
    /\ found = [t \in Threads |-> {}]
    /\ raised = {}
    /\ writes = 0
    /\ use \in Uses

\* Only tests call remove(), and only they have the index for themselves.
OneCaller == \E t \in use.callers : use.callers = {t}

Goto(t, from, to) == pc[t] = from /\ pc' = [pc EXCEPT ![t] = to]

-----------------------------------------------------------------------------
\* add(chunks)

CallAdd(t, b) ==
    /\ t \in Adders /\ writes < use.writes
    /\ Goto(t, "idle", "add")
    /\ todo' = [todo EXCEPT ![t] = b]
    /\ writes' = writes + 1
    /\ UNCHANGED <<shared, removed, query, corpus, found, raised>>

\* self._by_id[c.id] = c
StoreChunk(t) ==
    /\ todo[t] # <<>>
    /\ Goto(t, "add", "addTokens")
    /\ byId' = Put(byId, Head(todo[t]).key, Head(todo[t]).val)
    /\ UNCHANGED <<tokens, dirty, bm25, todo, removed, query, corpus, found,
                   raised, writes>>

SetTokens(t, new) ==
    /\ Goto(t, "addTokens", "add")
    /\ tokens' = new
    /\ todo' = [todo EXCEPT ![t] = Tail(@)]
    /\ UNCHANGED <<byId, dirty, bm25, removed, query, corpus, found, raised, writes>>

\* Two faults: a list of token lists without upsert; a re-added chunk is popped
\* and goes to the end of one dict only.
StoreTokensAppend(t) == SetTokens(t, Append(tokens, Head(todo[t])))
StoreTokensLast(t) == SetTokens(t, Append(Delete(tokens, Head(todo[t]).key), Head(todo[t])))

\* self._tokens[c.id] = tokenize(c.content)
StoreTokens(t) == SetTokens(t, Put(tokens, Head(todo[t]).key, Head(todo[t]).val))

Finish(t, call, nowDirty) ==
    /\ todo[t] = <<>>
    /\ Goto(t, call, "idle")
    /\ dirty' = nowDirty
    /\ UNCHANGED <<byId, tokens, bm25, todo, removed, query, corpus, found,
                   raised, writes>>

\* self._dirty = True, and the call returns
FinishAdd(t) == Finish(t, "add", TRUE)

-----------------------------------------------------------------------------
\* remove(chunk_ids).  The two dels of one id are one step: only tests call
\* remove(), from one thread.

CallRemove(t, ids) ==
    /\ OneCaller /\ writes < use.writes
    /\ Goto(t, "idle", "remove")
    /\ todo' = [todo EXCEPT ![t] = ids]
    /\ removed' = [removed EXCEPT ![t] = FALSE]
    /\ writes' = writes + 1
    /\ UNCHANGED <<shared, query, corpus, found, raised>>

RemoveOne(t) ==
    /\ pc[t] = "remove" /\ todo[t] # <<>>
    /\ IF Has(byId, Head(todo[t]))
       THEN /\ byId' = Delete(byId, Head(todo[t]))
            /\ tokens' = Delete(tokens, Head(todo[t]))
            /\ removed' = [removed EXCEPT ![t] = TRUE]
       ELSE UNCHANGED <<byId, tokens, removed>>
    /\ todo' = [todo EXCEPT ![t] = Tail(@)]
    /\ UNCHANGED <<dirty, bm25, pc, query, corpus, found, raised, writes>>

\* A fault: remove() leaves the BM25 corpus as it is.
FinishRemoveClean(t) == Finish(t, "remove", dirty)

\* if n: self._dirty = True
FinishRemove(t) == Finish(t, "remove", dirty \/ removed[t])

-----------------------------------------------------------------------------
\* search(query, top_k).  HybridRetriever.retrieve calls it only when
\* count() > 0, that is when _by_id is not empty.

CallSearch(t, q) ==
    /\ byId # <<>> /\ q \in use.queries
    /\ Goto(t, "idle", "check")
    /\ query' = [query EXCEPT ![t] = q]
    /\ found' = [found EXCEPT ![t] = {}]
    /\ UNCHANGED <<shared, todo, removed, corpus, raised, writes>>

\* _ensure_built: if self._dirty or self._bm25 is None
CheckDirty(t) ==
    /\ Goto(t, "check", IF dirty \/ bm25 = <<>> THEN "snapshot" ELSE "guard")
    /\ UNCHANGED <<shared, todo, removed, query, corpus, found, raised, writes>>

\* tokens = list(self._tokens.values())
Snapshot(t) ==
    /\ Goto(t, "snapshot", "build")
    /\ corpus' = [corpus EXCEPT ![t] = ValueList(tokens)]
    /\ UNCHANGED <<shared, todo, removed, query, found, raised, writes>>

\* self._bm25 = BM25Okapi(tokens), or None when there are no tokens
Build(t) ==
    /\ Goto(t, "build", "clean")
    /\ bm25' = corpus[t]
    /\ corpus' = [corpus EXCEPT ![t] = <<>>]
    /\ UNCHANGED <<byId, tokens, dirty, todo, removed, query, found, raised, writes>>

\* self._dirty = False
ClearDirty(t) ==
    /\ Goto(t, "clean", "guard")
    /\ dirty' = FALSE
    /\ UNCHANGED <<byId, tokens, bm25, todo, removed, query, corpus, found,
                   raised, writes>>

\* if self._bm25 is None or the query has no token: return []
CheckBuilt(t) ==
    /\ Goto(t, "guard", IF bm25 = <<>> \/ query[t] \in Tokenless
                        THEN "idle" ELSE "score")
    /\ UNCHANGED <<shared, todo, removed, query, corpus, found, raised, writes>>

\* scores = self._bm25.get_scores(q_tokens): the attribute is read again, and
\* another thread may have set it to None since CheckBuilt.
GetScores(t) ==
    /\ Goto(t, "score", IF bm25 = <<>> THEN "idle" ELSE "match")
    /\ corpus' = [corpus EXCEPT ![t] = bm25]
    /\ raised' = IF bm25 = <<>> THEN raised \cup {"AttributeError"} ELSE raised
    /\ UNCHANGED <<shared, todo, removed, query, found, writes>>

Scores(q, docs) == [i \in DOMAIN docs |-> Score(q, docs, i)]

\* One retrieved chunk: its rank, the chunk and content it is returned with,
\* and the content its score was computed from.
Hit(rank, id, content, scored) ==
    [rank |-> rank, chunk |-> id, content |-> content, scored |-> scored]

\* The positions returned: the top_k, or none when no score is above zero.
Kept(score) == IF \E i \in DOMAIN score : score[i] > 0 THEN Best(score, TopK) ELSE {}

\* A fault: chunk_ids is indexed by the rank of a hit.
PlaceByRank(score, i) == Rank(score, i) + 1

\* The place in chunk_ids of the chunk that has the i-th score: the position is
\* the only link between the two.
Place(score, i) == i

\* chunk_ids = list(self._by_id.keys()), then a hit for each position kept
MatchIds(t) ==
    LET score == Scores(query[t], corpus[t])
        kept == Kept(score)
    IN  /\ Goto(t, "match", "idle")
        /\ IF {Place(score, i) : i \in kept} \subseteq DOMAIN byId
           THEN /\ found' = [found EXCEPT ![t] =
                        {Hit(Rank(score, i), byId[Place(score, i)].key,
                             byId[Place(score, i)].val, corpus[t][i]) : i \in kept}]
                /\ UNCHANGED raised
           ELSE /\ raised' = raised \cup {"IndexError"}
                /\ UNCHANGED found
        /\ corpus' = [corpus EXCEPT ![t] = <<>>]
        /\ UNCHANGED <<shared, todo, removed, query, writes>>

-----------------------------------------------------------------------------
AddStep(t) == StoreChunk(t) \/ StoreTokens(t) \/ FinishAdd(t)
RemoveStep(t) == RemoveOne(t) \/ FinishRemove(t)
SearchStep(t) == \/ CheckDirty(t) \/ Snapshot(t) \/ Build(t) \/ ClearDirty(t)
                 \/ CheckBuilt(t) \/ GetScores(t) \/ MatchIds(t)

Next ==
    /\ \E t \in use.callers :
          \/ AddStep(t) \/ \E b \in Batches : CallAdd(t, b)
          \/ RemoveStep(t) \/ \E ids \in Removals : CallRemove(t, ids)
          \/ SearchStep(t) \/ \E q \in Queries : CallSearch(t, q)
    /\ UNCHANGED use

Spec == Init /\ [][Next]_vars

-----------------------------------------------------------------------------
\* Every variable keeps the shape the class gives it; the two dicts have no
\* key twice.
TypeOK ==
    /\ byId \in Seq(Entries) /\ IsDict(byId)
    /\ tokens \in Seq(Entries) /\ IsDict(tokens)
    /\ dirty \in BOOLEAN
    /\ bm25 \in Seq(Contents)
    /\ pc \in [Threads -> {"idle", "add", "addTokens", "remove", "check", "snapshot",
                           "build", "clean", "guard", "score", "match"}]
    /\ \A t \in Threads :
          /\ todo[t] \in Seq(IF pc[t] = "remove" THEN RemovalIds ELSE Entries)
          /\ corpus[t] \in Seq(Contents)
          /\ \A h \in found[t] :
                /\ h.rank \in 0..TopK-1
                /\ h.chunk \in ChunkIds /\ h.content \in Contents /\ h.scored \in Contents
    /\ removed \in [Threads -> BOOLEAN]
    /\ query \in [Threads -> Queries]
    /\ raised \subseteq {"AttributeError", "IndexError"}
    /\ use \in Uses /\ writes \in 0..use.writes

\* The texts that some add() call gives to a chunk.
TextsOf(id) == {e.val : e \in {f \in UNION {ToSet(b) : b \in Batches} : f.key = id}}

\* A sequence of documents whose i-th one is a text of the i-th stored chunk.
FollowsIds(docs) == /\ Len(docs) <= Len(byId)
                    /\ \A i \in DOMAIN docs : docs[i] \in TextsOf(byId[i].key)

\* The two dicts list the same chunks in the same places: _tokens is behind
\* _by_id by at most the chunk add() is storing, and every document list made
\* from _tokens, however old, still has its chunks at its positions (while nothing
\* is removed).  The pairing
\* of scores with chunk_ids in search() (vector_store.py:144-157) rests on it.
PositionsAgree ==
    /\ Len(tokens) \in {Len(byId), Len(byId) - 1}
    /\ \A i \in DOMAIN tokens : tokens[i].key = byId[i].key
    /\ ~OneCaller => FollowsIds(bm25) /\ \A t \in Threads : FollowsIds(corpus[t])

\* A retrieved chunk is returned with a score that was computed from a text of
\* that chunk, never from another chunk's, and chunk_ids[idx] never runs past the
\* end of the list.
HitsAreOwn ==
    /\ \A t \in Threads : \A h \in found[t] : h.scored \in TextsOf(h.chunk)
    /\ "IndexError" \notin raised

-----------------------------------------------------------------------------
\* The refinement of AtomicLexicalIndex by an index with one caller: a call of
\* add() or remove() takes effect when it is called, so the abstract index is the
\* stored chunks with the rest of the running call applied.
Abstract == INSTANCE AtomicLexicalIndex WITH index <- byId

Pending(t) ==
    CASE pc[t] = "add"       -> Abstract!PutAll(byId, todo[t])
      [] pc[t] = "addTokens" -> Abstract!PutAll(byId, Tail(todo[t]))
      [] pc[t] = "remove"    -> Abstract!DeleteAll(byId, ToSet(todo[t]))
      [] OTHER               -> byId

TheCaller == CHOOSE t \in use.callers : TRUE

Atomic == INSTANCE AtomicLexicalIndex WITH index <- Pending(TheCaller)

\* For a single caller, every add, remove and search of the lazily rebuilt index
\* takes effect at one instant, and a search ranks exactly the chunks stored then.
RefinesAtomic ==
    /\ Atomic!AInit
    /\ [][OneCaller => Atomic!ANext(Batches, {ToSet(r) : r \in Removals})]_Atomic!avars
=============================================================================
