------------------------- MODULE AtomicLexicalIndex -------------------------
(***************************************************************************)
(* What LexicalIndex promises to a caller that has it for itself: add,     *)
(* remove and search each take effect at one instant, and a search ranks   *)
(* exactly the chunks stored at that instant, each by its own content.     *)
(* Nothing of the lazily built BM25 snapshot can be seen.                  *)
(***************************************************************************)
EXTENDS PyDict, Ranking, SequencesExt

CONSTANTS Threads,         \* the threads of the server's pool
          Queries,         \* the query strings
          Tokenless,       \* those in which tokenize() finds no token
          Score(_, _, _),  \* BM25 score of document i of a corpus for a query
          TopK             \* the top_k of every search

VARIABLES index,   \* the stored chunks, id -> content, in insertion order
          found    \* what the last search of each thread returned

avars == <<index, found>>

\* One retrieved chunk: its rank, the chunk and content it is returned with,
\* and the content its score was computed from.
Hit(rank, id, content, scored) ==
    [rank |-> rank, chunk |-> id, content |-> content, scored |-> scored]

Scores(q, corpus) == [i \in DOMAIN corpus |-> Score(q, corpus, i)]

\* The hits of a query over a corpus whose i-th document is entry i of d.
\* Nothing is returned unless some document scores above zero.
Hits(q, corpus, d) ==
    LET score == Scores(q, corpus)
    IN  IF \E i \in DOMAIN score : score[i] > 0
        THEN {Hit(Rank(score, i), d[i].key, d[i].val, corpus[i]) :
                 i \in Best(score, TopK)}
        ELSE {}

PutAll(d, entries) == FoldLeft(LAMBDA acc, e : Put(acc, e.key, e.val), d, entries)
DeleteAll(d, ids) ==
    FoldLeft(LAMBDA acc, e : IF e.key \in ids THEN acc ELSE Append(acc, e), <<>>, d)

AInit == index = <<>> /\ found = [t \in Threads |-> {}]

AAdd(entries) == index' = PutAll(index, entries) /\ UNCHANGED found

ARemove(ids) == index' = DeleteAll(index, ids) /\ UNCHANGED found

ASearch(t, q) ==
    /\ found' = [found EXCEPT ![t] = IF q \in Tokenless
                                     THEN {}
                                     ELSE Hits(q, ValueList(index), index)]
    /\ UNCHANGED index

\* A new search first drops the previous answer of its thread.
AForget(t) == found' = [found EXCEPT ![t] = {}] /\ UNCHANGED index

ANext(Batches, IdSets) ==
    \/ \E b \in Batches : AAdd(b)
    \/ \E ids \in IdSets : ARemove(ids)
    \/ \E t \in Threads : AForget(t) \/ \E q \in Queries : ASearch(t, q)
=============================================================================
