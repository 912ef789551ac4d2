-------------------------- MODULE AtomicVectorStore -------------------------
(***************************************************************************)
(* What a VectorStore promises: one table from chunk id to content and     *)
(* vector, on which every operation of every thread takes effect at one    *)
(* instant.  The list of a document's chunks is not kept but derived.  An  *)
(* add() that raises has stored the chunks in front of the first vector of *)
(* the wrong length.                                                       *)
(***************************************************************************)
EXTENDS Integers, Sequences, FiniteSets

CONSTANTS Threads, Docs, DocOf, Vectors, Sim(_, _)

VARIABLES table,  \* id -> [text, vec]
          reply   \* what the last call of each thread returns

tvars == <<table, reply>>

Reply(t, a) == reply' = [reply EXCEPT ![t] = a]

\* The part of a batch that add() stores.
Accepted(b) == {n \in DOMAIN b : \A m \in 1..n : b[m].vec \in Vectors}
AcceptedIds(b) == {b[n].id : n \in Accepted(b)}

\* The last accepted chunk with an id wins.
LastOf(b, i) == CHOOSE n \in Accepted(b) :
                   /\ b[n].id = i
                   /\ \A m \in Accepted(b) : b[m].id = i => m <= n

Stored(tbl, b) == [i \in DOMAIN tbl \cup AcceptedIds(b) |->
                      IF i \in AcceptedIds(b)
                      THEN [text |-> b[LastOf(b, i)].text, vec |-> b[LastOf(b, i)].vec]
                      ELSE tbl[i]]

AddReply(b) == IF Accepted(b) = DOMAIN b THEN [kind |-> "added"] ELSE [kind |-> "ValueError"]

ChunksOf(d) == {i \in DOMAIN table : DocOf[i] = d}

TInit == /\ table = [i \in {} |-> <<>>]
         /\ reply = [t \in Threads |-> [kind |-> "none"]]

TAdd(t, b) == table' = Stored(table, b) /\ Reply(t, AddReply(b))

TDelete(t, d) ==
    /\ table' = [i \in DOMAIN table \ ChunksOf(d) |-> table[i]]
    /\ Reply(t, [kind |-> "deleted", n |-> Cardinality(ChunksOf(d))])

TReset(t) == table' = [i \in {} |-> <<>>] /\ Reply(t, [kind |-> "none"])

\* search() returns the best eligible chunks: no chunk left out goes before one
\* that is returned, and ranks count from 0 in the order (-similarity, id).
IsAnswerTo(q, hits) ==
    LET ok == {i \in DOMAIN table :
                  i \in q.allowed /\ Sim(q.vec, table[i].vec) >= q.least}
        before(i, j) == LET si == Sim(q.vec, table[i].vec)
                            sj == Sim(q.vec, table[j].vec)
                        IN  si > sj \/ (si = sj /\ i < j)
        ids == {h.id : h \in hits}
    IN  /\ ids \subseteq ok
        /\ Cardinality(hits) = Cardinality(ids)
        /\ Cardinality(ids) = IF Cardinality(ok) < q.top THEN Cardinality(ok) ELSE q.top
        /\ \A i \in ids, j \in ok \ ids : before(i, j)
        /\ \A g, h \in hits : before(g.id, h.id) => g.rank < h.rank
        /\ \A h \in hits : h.text = table[h.id].text /\ h.rank \in 0..(q.top - 1)

TSearch(t, q) ==
    /\ UNCHANGED table
    /\ \A u \in Threads \ {t} : reply'[u] = reply[u]
    /\ IF DOMAIN table # {} /\ q.vec \notin Vectors
       THEN reply'[t] = [kind |-> "ValueError"]
       ELSE /\ reply'[t].kind = "hits" /\ reply'[t].query = q
            /\ IsAnswerTo(q, reply'[t].hits)

TList(t) == /\ UNCHANGED table
            /\ Reply(t, [kind |-> "rows",
                         rows |-> {[doc |-> DocOf[i], count |-> Cardinality(ChunksOf(DocOf[i]))] :
                                      i \in DOMAIN table}])

TCount(t) == /\ UNCHANGED table
             /\ Reply(t, [kind |-> "count", n |-> Cardinality(DOMAIN table)])

TNext(Batches, Queries) == \E t \in Threads :
    \/ \E b \in Batches : TAdd(t, b)
    \/ \E d \in Docs : TDelete(t, d)
    \/ TReset(t)
    \/ \E q \in Queries : TSearch(t, q)
    \/ TList(t) \/ TCount(t)
=============================================================================
