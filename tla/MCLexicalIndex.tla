--------------------------- MODULE MCLexicalIndex ---------------------------
(***************************************************************************)
(* Small instances of LexicalIndex.  Chunks of one document follow one     *)
(* another in a batch; chunk "a" is added again with a new text.           *)
(***************************************************************************)
EXTENDS LexicalIndex

MCBatches == { << Entry("a", "rag"), Entry("b", "plain") >>,
               << Entry("c", "other") >>,
               << Entry("a", "rag again"), Entry("d", "plain too") >> }

OneChunkBatches == { << Entry("a", "rag") >>, << Entry("b", "plain") >>,
                     << Entry("c", "other") >> }

MCRemovals == { << "a" >>, << "c", "b" >> }

\* A toy BM25: the term "rag" has an inverse document frequency that is
\* positive only when fewer than half of the documents contain it.  The query
\* "negated" scores the other documents instead.
Matches(q, text) == LET hit == text \in {"rag", "rag again"}
                    IN  IF q = "negated" THEN ~hit ELSE hit

SignedScore(q, docs, i) ==
    LET matching == {j \in DOMAIN docs : Matches(q, docs[j])}
    IN  IF i \in matching THEN Len(docs) - 2 * Cardinality(matching) ELSE 0

\* One caller that also removes chunks; one that ingests while two others search.
CONSTANTS w, s1, s2
MCUses == { [callers |-> {w}, queries |-> Queries, writes |-> 4],
            [callers |-> {w, s1, s2}, queries |-> {"rag"}, writes |-> 2] }

\* Two that ingest, and one that searches.
TwoWriters == { [callers |-> {w, s1, s2}, queries |-> {"rag"}, writes |-> 3] }
=============================================================================
