----------------------------- MODULE Answering ------------------------------
(***************************************************************************)
(* What RAGOrchestrator.query_async does with the candidates of a search:  *)
(* rerank them, assemble a bounded context, ask the language model with    *)
(* retries, and validate the citations of its answer.  A behaviour is one  *)
(* query; queries share nothing on this path.                              *)
(*                                                                         *)
(* A chunk is its id, a number; of its content only the length and the     *)
(* tokens it shares with the question matter.  A text of the model is the  *)
(* sequence of the ids it cites.                                           *)
(***************************************************************************)
EXTENDS Integers, Sequences, FiniteSets, Functions

CONSTANTS Ids,            \* the chunk ids
          Unknown,        \* ids that a model may cite and no chunk has
          Chars,          \* len(content) of a chunk
          Overlap,        \* the number of question tokens in a chunk
          CandidateLists, \* the candidate lists of the search; the pipeline's own
                          \* retriever repeats no chunk, one of OrchestratorComponents may
          Rerankers,      \* a subset of {"none", "mock", "cross-encoder"}
          TopK,           \* rerank_top_k
          MaxChunks, MaxChars, MaxTokens, \* the budgets of the context
          Providers,      \* a subset of {"mock", "openai"}
          MaxRetries,     \* llm_max_retries
          Texts           \* the texts an OpenAI-compatible model may answer

Removed == 0  \* "[citation removed]"

ASSUME AnsweringAssumption ==
    /\ Ids \subseteq Int /\ Unknown \subseteq Int
    /\ Ids \cap Unknown = {} /\ Removed \notin Ids \cup Unknown
    /\ Chars \in [Ids -> Nat] /\ Overlap \in [Ids -> Nat]
    /\ CandidateLists \subseteq Seq(Ids) \ {<<>>}
    /\ TopK \in Nat \ {0} /\ MaxChunks \in Nat \ {0}
    /\ MaxChars \in Nat \ {0} /\ MaxTokens \in Nat \ {0}
    /\ MaxRetries \in Nat
    /\ Texts \subseteq Seq(Ids \cup Unknown)

VARIABLES reranker,   \* the reranker of the pipeline
          provider,   \* settings.llm_provider
          phase,      \* the part of query_async that runs
          candidates, \* retrieval.candidates
          ranked,     \* what _rerank() returns
          next,       \* build(): the place of `c` in `ranked`
          items,      \* build(): the ids in the context
          chars,      \* build(): total_chars
          tokens,     \* build(): total_tokens
          truncated,  \* build(): truncated
          posts,      \* history: the outcome of each request to the model; its
                      \* length is _attempt
          error,      \* complete_async(): last_exc
          text,       \* the text of the model, then of the answer
          mark,       \* validate_citations(): the place in `text`
          citations,  \* validate_citations(): citations
          rejected,   \* validate_citations(): rejected
          confidence, \* <<hits, of how many>>
          outcome     \* "answer", or the exception that ends the query

settings == <<reranker, provider>>
reranking == <<candidates, ranked>>
building == <<next, items, chars, tokens, truncated>>
asking == <<posts, error>>
citing == <<mark, citations, rejected, confidence>>
vars == <<reranker, provider, phase, candidates, ranked, next, items, chars, tokens,
          truncated, posts, error, text, mark, citations, rejected, confidence, outcome>>

Elements(s) == {s[p] : p \in DOMAIN s}
Least(m, n) == IF m < n THEN m ELSE n

Init ==
    /\ reranker \in Rerankers /\ provider \in Providers
    /\ phase = "rerank"
    /\ candidates \in CandidateLists /\ ranked = <<>>
    /\ next = 1 /\ items = <<>> /\ chars = 0 /\ tokens = 0 /\ truncated = FALSE
    /\ posts = <<>> /\ error = "none"
    /\ text = <<>> /\ mark = 1 /\ citations = <<>> /\ rejected = {}
    /\ confidence = <<0, 0>> /\ outcome = "none"

Goto(from, to) == phase = from /\ phase' = to

Fail(from, exception) == Goto(from, "done") /\ outcome' = exception

-----------------------------------------------------------------------------
\* Reranker.rerank

\* sorted(..., key=(-score, chunk_id))[:top_k]
Precedes(score, p, q) ==
    \/ score[p] > score[q]
    \/ score[p] = score[q] /\ candidates[p] < candidates[q]
    \/ score[p] = score[q] /\ candidates[p] = candidates[q] /\ p < q
Place(score, p) == Cardinality({q \in DOMAIN score : Precedes(score, q, p)}) + 1
Sorted(score) == [r \in 1..Least(TopK, Len(candidates)) |->
                     candidates[CHOOSE p \in DOMAIN candidates : Place(score, p) = r]]

Rank(name, list) ==
    /\ reranker = name
    /\ Goto("rerank", "build")
    /\ ranked' = list
    /\ UNCHANGED <<settings, candidates, building, asking, text, citing, outcome>>

SkipRerank == Rank("none", candidates)

\* MockReranker: overlap + 0.3 * (1 - rank / n), here times 10 * n.  A fault: the
\* weights of the two are swapped.
MockScoreSwapped == LET n == Len(candidates)
                    IN  [p \in DOMAIN candidates |->
                            3 * n * Overlap[candidates[p]] + 10 * (n - (p - 1))]
MockScore == LET n == Len(candidates)
             IN  [p \in DOMAIN candidates |->
                     10 * n * Overlap[candidates[p]] + 3 * (n - (p - 1))]
MockRerank == Rank("mock", Sorted(MockScore))

\* CrossEncoderReranker, which only OrchestratorComponents can bring in: rerank()
\* calls asyncio.run() inside the one of query(), and raises before it asks the
\* endpoint.
CrossEncode ==
    /\ reranker = "cross-encoder"
    /\ Fail("rerank", "untyped")
    /\ UNCHANGED <<settings, reranking, building, asking, text, citing>>

-----------------------------------------------------------------------------
\* ContextBuilder.build: one turn of the loop for each ranked candidate

\* max(1, round(len / 4)), where round() takes a half to the even side
EstimateTokens(n) ==
    LET quarter == n \div 4
        rest == n % 4
        rounded == IF rest > 2 \/ (rest = 2 /\ quarter % 2 = 1) THEN quarter + 1 ELSE quarter
    IN  IF n = 0 THEN 0 ELSE IF rounded = 0 THEN 1 ELSE rounded

MoreRanked == phase = "build" /\ next <= Len(ranked)
Seen == ranked[next] \in Elements(items)

\* A fault: the character budget is exceeded by one chunk.
FitsBeforeAdding(i) ==
    /\ Len(items) < MaxChunks
    /\ chars <= MaxChars
    /\ tokens + EstimateTokens(Chars[i]) <= MaxTokens
Fits(i) == /\ Len(items) < MaxChunks
           /\ chars + Chars[i] <= MaxChars
           /\ tokens + EstimateTokens(Chars[i]) <= MaxTokens

\* A fault: a duplicate is charged before it is skipped.
SkipSeenCharged ==
    /\ MoreRanked /\ Seen
    /\ next' = next + 1
    /\ chars' = chars + Chars[ranked[next]]
    /\ UNCHANGED <<settings, phase, reranking, items, tokens, truncated, asking, text,
                   citing, outcome>>
SkipSeen ==
    /\ MoreRanked /\ Seen
    /\ next' = next + 1
    /\ UNCHANGED <<settings, phase, reranking, items, chars, tokens, truncated, asking, text,
                   citing, outcome>>

TakeChunk ==
    /\ MoreRanked /\ ~Seen /\ Fits(ranked[next])
    /\ next' = next + 1
    /\ items' = Append(items, ranked[next])
    /\ chars' = chars + Chars[ranked[next]]
    /\ tokens' = tokens + EstimateTokens(Chars[ranked[next]])
    /\ UNCHANGED <<settings, phase, reranking, truncated, asking, text, citing, outcome>>

\* A fault: a chunk that does not fit is passed over instead of ending the loop.
PassOver ==
    /\ MoreRanked /\ ~Seen /\ ~Fits(ranked[next])
    /\ next' = next + 1 /\ truncated' = TRUE
    /\ UNCHANGED <<settings, phase, reranking, items, chars, tokens, asking, text, citing,
                   outcome>>

StopFull ==
    /\ MoreRanked /\ ~Seen /\ ~Fits(ranked[next])
    /\ Goto("build", "ask")
    /\ truncated' = TRUE
    /\ UNCHANGED <<settings, reranking, next, items, chars, tokens, asking, text, citing,
                   outcome>>

TakeAll ==
    /\ next > Len(ranked)
    /\ Goto("build", "ask")
    /\ UNCHANGED <<settings, reranking, building, asking, text, citing, outcome>>

-----------------------------------------------------------------------------
\* LLMProvider.complete_async

Receive(t) ==
    /\ Goto("ask", "validate")
    /\ text' = t

\* MockLLMProvider cites the first three chunks of the prompt.
MockComplete ==
    /\ provider = "mock"
    /\ Receive(SubSeq(items, 1, Least(3, Len(items))))
    /\ UNCHANGED <<settings, reranking, building, asking, citing, outcome>>

\* A turn of the retry loop of OpenAILLMProvider: one request to the model.
\* A fault: one retry too many.
PostOnceMore(o) ==
    /\ provider = "openai" /\ phase = "ask"
    /\ Len(posts) <= MaxRetries + 1
    /\ posts' = Append(posts, o)
Post(o) ==
    /\ provider = "openai" /\ phase = "ask"
    /\ Len(posts) <= MaxRetries
    /\ posts' = Append(posts, o)

Transient == {"timeout", "status", "transport"}
ErrorOf(o) ==
    CASE o \in {"timeout", "429"} -> "LLMTimeoutError"
      [] o \in {"status", "transport"} -> "LLMProviderError"
      [] o = "malformed" -> "LLMOutputError"
      [] OTHER -> "untyped"

\* A timeout, an error status or a transport error: remembered, and tried again.
\* A fault: without counting.
PostFailsUncounted(o) ==
    /\ provider = "openai" /\ phase = "ask"
    /\ error' = ErrorOf(o)
    /\ UNCHANGED <<settings, phase, reranking, building, posts, text, citing, outcome>>
PostFails(o) ==
    /\ Post(o)
    /\ error' = ErrorOf(o)
    /\ UNCHANGED <<settings, phase, reranking, building, text, citing, outcome>>

\* 429 is raised at once; so is the LLMOutputError of an answer without a key or
\* that is not JSON.  An empty `choices` raises an IndexError that nothing catches.
Final == {"429", "malformed", "unexpected"}

PostRefused(o) ==
    /\ Post(o)
    /\ Fail("ask", ErrorOf(o))
    /\ UNCHANGED <<settings, reranking, building, error, text, citing>>

PostSucceeds(t) ==
    /\ Post("text")
    /\ Receive(t)
    /\ UNCHANGED <<settings, reranking, building, error, citing, outcome>>

\* The loop is over: raise last_exc.
GiveUp ==
    /\ provider = "openai" /\ Len(posts) > MaxRetries
    /\ Fail("ask", error)
    /\ UNCHANGED <<settings, reranking, building, asking, text, citing>>

-----------------------------------------------------------------------------
\* validate_citations, one turn of the loop for each marker, then _finalize

MoreMarks == phase = "validate" /\ mark <= Len(text)
InContext == text[mark] \in Elements(items)

RejectMark ==
    /\ MoreMarks /\ ~InContext
    /\ mark' = mark + 1
    /\ rejected' = rejected \cup {text[mark]}
    /\ UNCHANGED <<settings, phase, reranking, building, asking, text, citations, confidence,
                   outcome>>

CountMark(new) ==
    /\ MoreMarks /\ InContext
    /\ mark' = mark + 1
    /\ citations' = IF new THEN Append(citations, text[mark]) ELSE citations
    /\ UNCHANGED <<settings, phase, reranking, building, asking, text, rejected, confidence,
                   outcome>>

\* A fault: a chunk cited twice gets two citations.
AcceptAgain == CountMark(TRUE)
AcceptMark == CountMark(text[mark] \notin Elements(citations))

\* _confidence: the share of the first three chunks that is cited
\* A fault: every citation counts.
ConfidenceOfAll == <<Len(citations), Least(3, Len(items))>>
Confidence == LET top == {items[p] : p \in 1..Least(3, Len(items))}
              IN  IF citations = <<>> THEN <<0, 0>>
                  ELSE <<Cardinality(top \cap Elements(citations)), Cardinality(top)>>

Finalize ==
    /\ mark > Len(text)
    /\ Goto("validate", "done")
    /\ text' = [p \in DOMAIN text |-> IF text[p] \in rejected THEN Removed ELSE text[p]]
    /\ confidence' = Confidence
    /\ outcome' = "answer"
    /\ UNCHANGED <<settings, reranking, building, asking, mark, citations, rejected>>

-----------------------------------------------------------------------------
RerankStep == SkipRerank \/ MockRerank \/ CrossEncode
BuildStep == SkipSeen \/ TakeChunk \/ StopFull \/ TakeAll
AskStep == \/ MockComplete \/ GiveUp
           \/ \E o \in Transient : PostFails(o)
           \/ \E o \in Final : PostRefused(o)
           \/ \E t \in Texts : PostSucceeds(t)
ValidateStep == RejectMark \/ AcceptMark \/ Finalize

Next == RerankStep \/ BuildStep \/ AskStep \/ ValidateStep

Spec == Init /\ [][Next]_vars

\* The thread that serves the query keeps running; a request to the model ends by
\* its timeout at the latest.
FairSpec == Spec /\ WF_vars(Next)

-----------------------------------------------------------------------------
Outcomes == {"none", "answer", "LLMTimeoutError", "LLMProviderError", "LLMOutputError",
             "untyped"}

\* Every variable keeps its shape.
TypeOK ==
    /\ reranker \in Rerankers /\ provider \in Providers
    /\ phase \in {"rerank", "build", "ask", "validate", "done"}
    /\ candidates \in CandidateLists /\ ranked \in Seq(Ids)
    /\ next \in 1..(Len(ranked) + 1) /\ items \in Seq(Ids)
    /\ chars \in Nat /\ tokens \in Nat /\ truncated \in BOOLEAN
    /\ posts \in Seq(Transient \cup Final \cup {"text"})
    /\ error \in Outcomes /\ outcome \in Outcomes
    /\ text \in Seq(Ids \cup Unknown \cup {Removed}) /\ mark \in 1..(Len(text) + 1)
    /\ citations \in Seq(Ids) /\ rejected \subseteq Ids \cup Unknown
    /\ confidence \in (0..3) \X (0..3) /\ confidence[1] <= confidence[2]

FirstOfItsChunk(c) == \A d \in 1..(c - 1) : candidates[d] # candidates[c]

\* The mock reranker never puts a chunk with fewer question tokens first, and among
\* equals keeps the order of the retrieval; what top_k cuts off comes last, and
\* nothing is put in.
RerankIsFaithful ==
    reranker = "mock" /\ phase # "rerank" =>
        /\ Elements(ranked) \subseteq Elements(candidates)
        /\ \A p \in DOMAIN ranked : \A c, d \in DOMAIN candidates :
              candidates[c] = ranked[p] /\ FirstOfItsChunk(c) =>
                 \/ Overlap[candidates[d]] < Overlap[candidates[c]]
                 \/ Overlap[candidates[d]] = Overlap[candidates[c]] /\ c <= d
                 \/ \E q \in 1..(p - 1) : ranked[q] = candidates[d]

\* The context keeps its three budgets, and no chunk is in it twice.
WithinBudget ==
    /\ Len(items) <= MaxChunks /\ chars <= MaxChars /\ tokens <= MaxTokens
    /\ \A p, q \in DOMAIN items : items[p] = items[q] => p = q

\* The totals that the budgets are held against are those of the chunks: a chunk is
\* charged once, a duplicate never.
TotalsAreExact ==
    /\ chars = SumFunctionOnSet(Chars, Elements(items))
    /\ tokens = SumFunctionOnSet([i \in Ids |-> EstimateTokens(Chars[i])],
                                  Elements(items))

\* "prioritise higher-ranked evidence" (builder.py:8): the context is a beginning of
\* the ranked list.  It is marked truncated exactly when it is not the whole list, and
\* then the chunk after it is one that does not fit.
ContextIsPrefix ==
    phase \in {"ask", "validate", "done"} /\ ranked # <<>> =>
        \E k \in 0..Len(ranked) :
            /\ Elements(items) = {ranked[p] : p \in 1..k}
            /\ IF truncated THEN /\ k < Len(ranked) /\ ~Fits(ranked[k + 1])
                                 /\ ranked[k + 1] \notin Elements(items)
                            ELSE k = Len(ranked)

\* The model is asked at most llm_max_retries + 1 times, again only after a failure
\* that may pass, and the query's error is that of the last try.
RetriesAreRight ==
    /\ Len(posts) <= MaxRetries + 1
    /\ \A n \in 1..(Len(posts) - 1) : posts[n] \in Transient
    /\ outcome = "answer" /\ posts # <<>> => posts[Len(posts)] = "text"
    /\ outcome \notin {"answer", "none"} /\ posts # <<>> =>
          /\ outcome = ErrorOf(posts[Len(posts)])
          /\ posts[Len(posts)] \in Transient => Len(posts) = MaxRetries + 1

\* "invalid citations are stripped before the response leaves the API" (README.md:19):
\* an answer cites chunks of its context only, each of them a retrieved candidate, and
\* its citation list is exactly what its text cites; it is given confidence only when
\* one of the first three chunks is cited.
AnswerIsSupported ==
    outcome = "answer" =>
        /\ Elements(text) \ {Removed} = Elements(citations)
        /\ Elements(citations) \subseteq Elements(items)
        /\ Elements(items) \subseteq Elements(candidates)
        /\ Cardinality(Elements(citations)) = Len(citations)
        /\ confidence[1] > 0 <=> \E p \in 1..Least(3, Len(items)) :
                                     items[p] \in Elements(text)

\* Every query ends, in an answer or an error: the retries run out.
QueryEnds == <>(phase = "done")
=============================================================================
