---------------------------- MODULE HybridFusion ----------------------------
(***************************************************************************)
(* How HybridRetriever (app/retrieval/hybrid.py) makes one ranking of the  *)
(* hits of the vector store and those of the lexical index.  A list of     *)
(* hits is a sequence of [id, score] without repetitions, best first.      *)
(* Scores are integers: a normalised score of 1.0 is Scale, the weight     *)
(* alpha is Alpha/AlphaOf, and 1/(k + rank + 1) is that part of Unit.  The *)
(* constants are large enough for rounding to keep different scores apart. *)
(***************************************************************************)
EXTENDS Integers, Sequences, FiniteSets, SequencesExt

CONSTANTS Alpha, AlphaOf, \* self.alpha = Alpha / AlphaOf
          Scale, Unit,    \* what 1.0 is of a normalised score, and of a reciprocal rank
          RrfK,           \* k of reciprocal_rank_fuse, 60
          CandidateLimit  \* self.candidate_limit

ASSUME FusionAssumption ==
    /\ Alpha \in Nat /\ AlphaOf \in Nat \ {0} /\ Alpha <= AlphaOf
    /\ Scale \in Nat \ {0} /\ Unit \in Nat \ {0} /\ RrfK \in Nat
    /\ CandidateLimit \in Nat \ {0}

Ids(hits) == {hits[i].id : i \in DOMAIN hits}
PlaceOf(hits, c) == CHOOSE i \in DOMAIN hits : hits[i].id = c
ScoreOf(hits, c) == hits[PlaceOf(hits, c)].score
FirstOf(s, n) == SubSeq(s, 1, Min({n, Len(s)}))

\* min_max_normalize, for one hit; one that is not in the list has 0.0.
Normalized(hits, c) ==
    LET scores == {hits[i].score : i \in DOMAIN hits}
        range == Max(scores) - Min(scores)
    IN  IF c \notin Ids(hits) THEN 0
        ELSE IF range = 0 THEN IF ScoreOf(hits, c) > 0 THEN Scale ELSE 0
        ELSE ((ScoreOf(hits, c) - Min(scores)) * Scale) \div range

\* HybridRetriever._linear_fuse
LinearScore(dense, lexical, c) ==
    Alpha * Normalized(dense, c) + (AlphaOf - Alpha) * Normalized(lexical, c)

\* reciprocal_rank_fuse
ReciprocalRank(hits, c) == IF c \in Ids(hits) THEN Unit \div (RrfK + PlaceOf(hits, c)) ELSE 0
RrfScore(dense, lexical, c) == ReciprocalRank(dense, c) + ReciprocalRank(lexical, c)

FusedScore(fusion, dense, lexical, c) ==
    IF fusion = "rrf" THEN RrfScore(dense, lexical, c) ELSE LinearScore(dense, lexical, c)

\* A fault: the lowest score first.
LowestFirst(a, b) == a.score < b.score \/ (a.score = b.score /\ a.id < b.id)

\* sort by (-score, chunk_id)
Before(a, b) == a.score > b.score \/ (a.score = b.score /\ a.id < b.id)
Ranked(hits) ==
    [k \in 1..Cardinality(hits) |->
        CHOOSE a \in hits : Cardinality({b \in hits : Before(b, a)}) = k - 1]

Fused(fusion, dense, lexical) ==
    {[id |-> c, score |-> FusedScore(fusion, dense, lexical, c)] : c \in Ids(dense) \cup Ids(lexical)}

\* What retrieve() does with the hits: the best CandidateLimit of them, and the best topK
\* of those.  Its second sort finds them sorted.
Fuse(fusion, dense, lexical, topK) ==
    FirstOf(FirstOf(Ranked(Fused(fusion, dense, lexical)), CandidateLimit), topK)
=============================================================================
