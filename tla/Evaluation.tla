----------------------------- MODULE Evaluation -----------------------------
(***************************************************************************)
(* Evaluator of app/evaluation/metrics.py: cases are run one after the     *)
(* other against an orchestrator that others ingest into meanwhile, and    *)
(* measured.  A case's gold chunks are looked up before its query runs,    *)
(* its retrieval may come from the cache, and its query may fail.  A       *)
(* malformed case ends the evaluation.                                     *)
(*                                                                         *)
(* Measures are integers, the ten-thousandths that the code rounds to.     *)
(* They are exact for fewer than 32 chunks; logarithms are rounded first.  *)
(***************************************************************************)
EXTENDS HybridFusion

CONSTANTS Chunks,        \* the ids of all chunks, a set of integers
          Title,         \* chunk -> title of its document
          Words,         \* chunk -> tokens of its content
          Dense, Bm25,   \* query -> chunk -> score
          QueryWords,    \* query -> its tokens
          MinSimilarity, \* the retriever's default_min_similarity
          CaseLists,     \* the cases to evaluate: [query, chunks, titles, expected, keywords, lacks]
          TopK,          \* Evaluator.top_k
          Gain,          \* Gain[i]: 1 / log2(i + 1), times One
          Configurations,\* the <<store, fusion>> of the orchestrator
          MaxIngests,    \* bound: chunks ingested during the evaluation
          MaxFailures    \* bound: queries that fail

One == 10000
Queries == DOMAIN QueryWords

AllCases == UNION {ToSet(l) : l \in CaseLists}

ASSUME EvaluationAssumption ==
    /\ TopK \in 1..31 /\ Chunks \subseteq Nat
    /\ IsFiniteSet(Chunks) /\ Cardinality(Chunks) < 2 * One
    /\ DOMAIN Title = Chunks /\ DOMAIN Words = Chunks
    /\ \A q \in Queries : IsFiniteSet(QueryWords[q])
    /\ CaseLists \subseteq Seq(AllCases)
    /\ \A c \in AllCases : /\ c.query \in Queries /\ c.chunks \in Seq(Chunks)
                           /\ c.lacks \in {"nothing", "query", "chunks"}
                           /\ IsFiniteSet(c.expected) /\ IsFiniteSet(c.keywords)
    /\ Configurations \subseteq {"memory", "pgvector"} \X {"linear", "rrf"}
    /\ MinSimilarity \in Int /\ MaxIngests \in Nat /\ MaxFailures \in Nat

\* Rounding keeps apart what differs: gains, normalised scores and reciprocal ranks.
ASSUME RoundingAssumption ==
    /\ \A i \in 1..TopK : Gain[i] \in 16..One /\ (i > 1 => Gain[i] + 16 <= Gain[i - 1])
    /\ \A q \in Queries : /\ Dense[q] \in [Chunks -> Int] /\ Bm25[q] \in [Chunks -> Int]
                          /\ \A c, d \in Chunks : /\ Dense[q][c] - Dense[q][d] <= Scale
                                                  /\ Bm25[q][c] - Bm25[q][d] <= Scale
    /\ (RrfK + 2 * TopK) * (RrfK + 2 * TopK + 1) <= Unit

VARIABLES store, fusion, \* the class of the vector store; how its retriever fuses
          stored,        \* the chunks in both indexes
          cached,        \* the "retrieval" cache: query -> retrieval
          cases,         \* the argument of evaluate()
          pc,
          gold,          \* the case's relevant_chunk_ids
          retrieval,     \* what its query has retrieved: [dense, lexical, fused]
          out,           \* out_cases
          report,        \* the means that evaluate() returns
          ingests, failures

vars == <<store, fusion, stored, cached, cases, pc, gold, retrieval, out, report, ingests, failures>>

Nothing == [dense |-> <<>>, lexical |-> <<>>, fused |-> <<>>]
NoMeans == [retrieval |-> <<>>, answer |-> <<>>]

Init ==
    /\ \E c \in Configurations : store = c[1] /\ fusion = c[2]
    /\ stored \in SUBSET Chunks
    /\ cached = [q \in {} |-> Nothing]
    /\ cases \in CaseLists
    /\ pc = (IF cases = <<>> THEN "done" ELSE "resolve")
    /\ gold = {} /\ retrieval = Nothing /\ out = <<>> /\ report = NoMeans
    /\ ingests = 0 /\ failures = 0

Case == cases[Len(out) + 1]

\* The case has no query, or null for its relevant_chunk_ids, which titles replace by a list.
Malformed(case) == case.lacks = "query" \/ (case.lacks = "chunks" /\ case.titles = <<>>)

\* Another request ingests a chunk.
Ingest(c) ==
    /\ pc \notin {"done", "raised"} /\ ingests < MaxIngests /\ c \in Chunks \ stored
    /\ stored' = stored \cup {c} /\ ingests' = ingests + 1
    /\ UNCHANGED <<store, fusion, cached, cases, pc, gold, retrieval, out, report, failures>>

\* _resolve_gold: PgVectorStore has no all_chunks().
ResolveGold ==
    /\ pc = "resolve"
    /\ gold' = ToSet(Case.chunks) \cup
               {c \in stored : store = "memory" /\ Title[c] \in ToSet(Case.titles)}
    /\ pc' = "retrieve"
    /\ UNCHANGED <<store, fusion, stored, cached, cases, retrieval, out, report, ingests, failures>>

-----------------------------------------------------------------------------
\* The hits of a search: the best of some chunks, of those near enough to the query, and,
\* unless BM25 has no score above zero, of all.
HitsOf(found, score, n) == FirstOf(Ranked({[id |-> c, score |-> score[c]] : c \in found}), n)
DenseHits(q) == HitsOf({c \in stored : Dense[q][c] >= MinSimilarity}, Dense[q], 2 * TopK)
LexicalHits(q) ==
    HitsOf(IF \E c \in stored : Bm25[q][c] > 0 THEN stored ELSE {}, Bm25[q], 2 * TopK)

\* orchestrator.query, its retrieval; the cache is used with the in-memory store only.
Retrieve ==
    LET q == Case.query
        fresh == [dense |-> DenseHits(q), lexical |-> LexicalHits(q),
                  fused |-> Fuse(fusion, DenseHits(q), LexicalHits(q), TopK)]
    IN  /\ pc = "retrieve" /\ ~Malformed(Case)
        /\ retrieval' = IF store = "memory" /\ q \in DOMAIN cached THEN cached[q] ELSE fresh
        /\ cached' = IF store = "memory" THEN [x \in DOMAIN cached \cup {q} |->
                                                  IF x = q THEN retrieval' ELSE cached[x]]
                     ELSE cached
        /\ pc' = "answer"
        /\ UNCHANGED <<store, fusion, stored, cases, gold, out, report, ingests, failures>>

-----------------------------------------------------------------------------
\* round(a / b, 4)
Ratio(a, b) == (2 * a * One + b) \div (2 * b)

Retrieved == [i \in DOMAIN retrieval.fused |-> retrieval.fused[i].id]
Hits(retrieved, relevant) == {i \in 1..Min({TopK, Len(retrieved)}) : retrieved[i] \in relevant}
GainOf(places) == SumFunctionOnSet(Gain, places)

Recall(retrieved, relevant) ==
    IF relevant = {} THEN 0 ELSE Ratio(Cardinality(Hits(retrieved, relevant)), Cardinality(relevant))
Precision(retrieved, relevant) == Ratio(Cardinality(Hits(retrieved, relevant)), TopK)

HitRate(retrieved, relevant) == IF Hits(retrieved, relevant) = {} THEN 0 ELSE One

\* mrr looks at the whole list.
Mrr(retrieved, relevant) ==
    LET places == {i \in DOMAIN retrieved : retrieved[i] \in relevant}
    IN  IF places = {} THEN 0 ELSE Ratio(1, Min(places))

\* A fault: the ideal ranking has one hit less.
IdealGainShort(relevant) == GainOf(1..Max({1, Min({Cardinality(relevant), TopK}) - 1}))
IdealGain(relevant) == GainOf(1..Min({Cardinality(relevant), TopK}))
Ndcg(retrieved, relevant) ==
    IF relevant = {} THEN 0 ELSE Ratio(GainOf(Hits(retrieved, relevant)), IdealGain(relevant))

RetrievalMetrics(retrieved, relevant) ==
    [recall |-> Recall(retrieved, relevant), precision |-> Precision(retrieved, relevant),
     hit_rate |-> HitRate(retrieved, relevant), mrr |-> Mrr(retrieved, relevant),
     ndcg |-> Ndcg(retrieved, relevant)]

\* Part of the tokens of one text that another one has.
Share(tokens, of) == IF of = {} THEN 0 ELSE Ratio(Cardinality(tokens \cap of), Cardinality(of))

CitationCorrectness(cited, relevant) == IF relevant = {} THEN 0 ELSE Share(relevant, cited)

\* groundedness: without gold chunks, whether the evidence is sufficient, which it is if a
\* chunk is cited.
Groundedness(cited, relevant) ==
    IF cited # {} /\ relevant = {} THEN One ELSE CitationCorrectness(cited, relevant)

AnswerRelevance(answer, query) == Share(answer, QueryWords[query])
KeywordOverlap(answer, keywords) == Share(answer, keywords)
AnswerCompleteness(answer, expected, keywords) ==
    Share(answer, IF expected = {} THEN keywords ELSE expected)

AnswerMetrics(cited, relevant, answer, case) ==
    [citation_correctness |-> CitationCorrectness(cited, relevant),
     groundedness |-> Groundedness(cited, relevant),
     answer_relevance |-> AnswerRelevance(answer, case.query),
     answer_completeness |-> AnswerCompleteness(answer, case.expected, case.keywords),
     answer_keyword_overlap |-> KeywordOverlap(answer, case.keywords),
     evidence_sufficient |-> IF cited = {} THEN 0 ELSE One]

Close(result) ==
    /\ out' = Append(out, result)
    /\ pc' = IF Len(out) + 1 = Len(cases) THEN "report" ELSE "resolve"
    /\ gold' = {} /\ retrieval' = Nothing
    /\ UNCHANGED <<store, fusion, stored, cached, cases, report, ingests>>

\* _eval_one: an answer that cites some of the candidates, in words of theirs.  Without
\* candidates the answer has no retrieval, and its metrics are those of none.
Measure ==
    /\ pc = "answer"
    /\ \E cited \in SUBSET ToSet(Retrieved) :
          Close([failed |-> FALSE, relevant |-> gold, found |-> Retrieved, cited |-> cited,
                 retrieval |-> RetrievalMetrics(Retrieved, gold),
                 answer |-> AnswerMetrics(cited, gold, UNION {Words[c] : c \in cited}, Case)])
    /\ UNCHANGED failures

\* _eval_one: a malformed case raises before its query is tried, and evaluate() with it.
CaseRaises ==
    /\ pc = "retrieve" /\ Malformed(Case)
    /\ pc' = "raised"
    /\ UNCHANGED <<store, fusion, stored, cached, cases, gold, retrieval, out, report, ingests, failures>>

\* _eval_one: a failed query has no metrics.
CaseFails ==
    /\ (pc = "retrieve" /\ ~Malformed(Case)) \/ (pc = "answer" /\ Retrieved # <<>>)
    /\ failures < MaxFailures /\ failures' = failures + 1
    /\ Close([failed |-> TRUE])

Measured == {i \in DOMAIN out : ~out[i].failed}

\* A fault: the divisor is the number of cases.
MeanOfAll(dicts) ==
    LET places == DOMAIN dicts
        Total(k) == SumFunction([i \in places |-> dicts[i][k]])
    IN  IF places = {} THEN <<>>
        ELSE [k \in DOMAIN dicts[Min(places)] |-> Total(k) \div Len(out)]

\* _mean_dicts: the dicts of the cases at some places
MeanDicts(dicts) ==
    LET places == DOMAIN dicts
        n == Cardinality(places)
        Total(k) == SumFunction([i \in places |-> dicts[i][k]])
    IN  IF places = {} THEN <<>>
        ELSE [k \in DOMAIN dicts[Min(places)] |-> (2 * Total(k) + n) \div (2 * n)]

\* evaluate(): the means over the cases that did not fail
Summarize ==
    /\ pc = "report"
    /\ report' = [retrieval |-> MeanDicts([i \in Measured |-> out[i].retrieval]),
                  answer |-> MeanDicts([i \in Measured |-> out[i].answer])]
    /\ pc' = "done"
    /\ UNCHANGED <<store, fusion, stored, cached, cases, gold, retrieval, out, ingests, failures>>

Next ==
    \/ ResolveGold \/ Retrieve \/ Measure \/ CaseFails \/ CaseRaises \/ Summarize
    \/ \E c \in Chunks : Ingest(c)

Spec == Init /\ [][Next]_vars

-----------------------------------------------------------------------------
Measures(r) == {r.retrieval[k] : k \in DOMAIN r.retrieval} \cup {r.answer[k] : k \in DOMAIN r.answer}

\* Every variable has its type, and every measure and every mean is a number from 0 to 1.
TypeOK ==
    /\ <<store, fusion>> \in Configurations
    /\ stored \subseteq Chunks /\ gold \subseteq Chunks
    /\ DOMAIN cached \subseteq Queries /\ (store = "pgvector" => DOMAIN cached = {})
    /\ cases \in CaseLists /\ Len(out) <= Len(cases)
    /\ pc \in {"resolve", "retrieve", "answer", "report", "done", "raised"}
    /\ \A i \in Measured : Measures(out[i]) \subseteq 0..One
    /\ Measures(report) \subseteq 0..One
    /\ ingests \in 0..MaxIngests /\ failures \in 0..MaxFailures

\* b is in every list that has a, at a score that is not less; a better one in one of them,
\* which counts.  Reciprocal ranks look at places instead of scores.
NotWorse(kind, hits, b, a) ==
    a \in Ids(hits) => /\ b \in Ids(hits)
                       /\ IF kind = "rrf" THEN PlaceOf(hits, b) <= PlaceOf(hits, a)
                          ELSE ScoreOf(hits, b) >= ScoreOf(hits, a)
Better(kind, hits, b, a) ==
    /\ {a, b} \subseteq Ids(hits)
    /\ IF kind = "rrf" THEN PlaceOf(hits, b) < PlaceOf(hits, a)
       ELSE ScoreOf(hits, b) > ScoreOf(hits, a)
Dominates(kind, r, b, a) ==
    /\ NotWorse(kind, r.dense, b, a) /\ NotWorse(kind, r.lexical, b, a)
    /\ \/ Better(kind, r.dense, b, a) /\ (kind = "rrf" \/ Alpha > 0)
       \/ Better(kind, r.lexical, b, a) /\ (kind = "rrf" \/ Alpha < AlphaOf)

RespectsBoth(kind, r) ==
    LET all == Ids(r.dense) \cup Ids(r.lexical)
        fused == [i \in DOMAIN r.fused |-> r.fused[i].id]
    IN  /\ ToSet(fused) \subseteq all /\ IsInjective(fused)
        /\ Len(fused) = Min({TopK, CandidateLimit, Cardinality(all)})
        /\ \A a, b \in all :
              Dominates(kind, r, b, a) /\ a \in ToSet(fused) =>
                  b \in ToSet(fused) /\ PlaceOf(r.fused, b) < PlaceOf(r.fused, a)

\* Fusion respects both rankings, whatever it weighs: no candidate comes before one that
\* both lists rank as high and one of them higher, nor instead of it; none appears twice;
\* none is left out while there is room.  (hybrid.py:18-59, 126-185)
BetterGoesFirst == RespectsBoth(fusion, retrieval)

CaseAgrees(r) ==
    LET m == r.retrieval
        hit == ToSet(r.found) \cap r.relevant # {}
        best == Min({TopK, Cardinality(r.relevant)})
    IN  /\ (m.recall > 0 <=> hit) /\ (m.precision > 0 <=> hit) /\ (m.hit_rate = One <=> hit)
        /\ (m.mrr > 0 <=> hit) /\ (m.ndcg > 0 <=> hit)
        /\ m.recall = One <=> r.relevant # {} /\ r.relevant \subseteq ToSet(r.found)
        /\ m.ndcg = One <=> /\ r.relevant # {} /\ Len(r.found) >= best
                            /\ \A p \in 1..best : r.found[p] \in r.relevant
        /\ r.answer.citation_correctness > 0 => hit
        /\ r.answer.groundedness > r.answer.citation_correctness => r.relevant = {}

\* The measures of a case describe one fact: either all of them see a gold chunk among the
\* candidates or none does; recall is 1 just when all of them are there, nDCG just when the
\* first places are theirs, and what is cited can be correct only where it was found.  The
\* means are over the cases that did not fail, and are between their least and greatest
\* value.  There is a report only if no case is malformed: one that is takes the results of
\* all others with it.  (metrics.py:29-153, 189-210, 249-253, 303-311)
MeasuresAgree ==
    /\ \A i \in Measured : CaseAgrees(out[i])
    /\ \A k \in DOMAIN report.retrieval :
          LET values == {out[i].retrieval[k] : i \in Measured}
          IN  report.retrieval[k] \in Min(values)..Max(values)
    /\ pc = "done" => /\ Len(out) = Len(cases)
                      /\ report.retrieval = <<>> <=> Measured = {}
                      /\ \A i \in DOMAIN cases : ~Malformed(cases[i])
    /\ pc = "raised" => report = NoMeans /\ Malformed(Case)
=============================================================================
