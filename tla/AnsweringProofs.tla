-------------------------- MODULE AnsweringProofs ---------------------------
(***************************************************************************)
(* Proofs about a query for every set of chunks, budgets and texts: the    *)
(* sort of the reranker is a permutation cut at top_k, the context keeps   *)
(* its budgets and counts itself exactly, the model is asked as often as   *)
(* it may be, and an answer cites its context only.                        *)
(***************************************************************************)
EXTENDS Answering, FiniteSetTheorems, Induction, TLAPS

-----------------------------------------------------------------------------
(* Sequences and their elements.                                           *)

LEMMA AppendElements ==
    ASSUME NEW S, NEW s \in Seq(S), NEW e
    PROVE  /\ Elements(Append(s, e)) = Elements(s) \cup {e}
           /\ Len(Append(s, e)) = Len(s) + 1
           /\ \A p \in 1..Len(s) : Append(s, e)[p] = s[p]
           /\ Append(s, e)[Len(s) + 1] = e
  BY DEF Elements

NoRepeats(s) == \A p, q \in DOMAIN s : s[p] = s[q] => p = q

LEMMA AppendNew ==
    ASSUME NEW S, NEW s \in Seq(S), NoRepeats(s), NEW e, e \notin Elements(s)
    PROVE  NoRepeats(Append(s, e))
  BY DEF Elements, NoRepeats

LEMMA CountElements ==
    ASSUME NEW S, NEW s \in Seq(S), NoRepeats(s)
    PROVE  Cardinality(Elements(s)) = Len(s)
<1>1. IsFiniteSet(1..Len(s)) /\ Cardinality(1..Len(s)) = Len(s)
  <2>1. Len(s) \in Nat
    OBVIOUS
  <2>. QED
    BY ONLY <2>1, FS_Interval
<1>2. s \in Bijection(1..Len(s), Elements(s))
  BY DEF Elements, NoRepeats, Bijection, Injection, Surjection, IsInjective
<1>3. ExistsBijection(1..Len(s), Elements(s))
  BY <1>2 DEF ExistsBijection
<1>. QED
  BY <1>1, <1>3, FS_Bijection

-----------------------------------------------------------------------------
(* sorted(): Precedes is a strict total order of the candidates, so each   *)
(* has a place of its own and each place is taken.                         *)

LEMMA PrecedesOrders ==
    ASSUME NEW D \in SUBSET Int, candidates \in [D -> Int], NEW score \in [D -> Int],
           NEW p \in D, NEW q \in D, NEW r \in D
    PROVE  /\ ~Precedes(score, p, p)
           /\ p # q => Precedes(score, p, q) \/ Precedes(score, q, p)
           /\ Precedes(score, p, q) /\ Precedes(score, q, r) => Precedes(score, p, r)
  BY DEF Precedes

LEMMA PlacesAreTaken ==
    ASSUME NEW n \in Nat, candidates \in [1..n -> Int], NEW score \in [1..n -> Int]
    PROVE  /\ \A p \in 1..n : Place(score, p) \in 1..n
           /\ \A p, q \in 1..n : Precedes(score, p, q) => Place(score, p) < Place(score, q)
           /\ \A r \in 1..n : \E p \in 1..n : Place(score, p) = r
<1> DEFINE D == 1..n
           Before(p) == {q \in D : Precedes(score, q, p)}
           place == [p \in D |-> Place(score, p)]
<1>1. IsFiniteSet(D) /\ Cardinality(D) = n /\ D \subseteq Int
  BY ONLY n \in Nat, FS_Interval
<1>2. \A p \in D : Place(score, p) = Cardinality(Before(p)) + 1
  BY DEF Place
<1>3. \A p \in D : IsFiniteSet(Before(p)) /\ Cardinality(Before(p)) \in Nat
  BY <1>1, FS_Subset, FS_CardinalityType
<1>4. ASSUME NEW p \in D
      PROVE  Place(score, p) \in D
  <2>1. Before(p) \subseteq D /\ p \in D \ Before(p)
    BY PrecedesOrders, <1>1
  <2>2. Cardinality(Before(p)) <= n /\ Cardinality(Before(p)) # n
    BY <1>1, <2>1, FS_Subset
  <2>3. Cardinality(Before(p)) + 1 \in D
    <3> HIDE DEF Before
    <3>. QED
      BY ONLY <1>3, <2>2, n \in Nat, p \in D
  <2>. QED
    BY <1>2, <2>3
<1>5. ASSUME NEW p \in D, NEW q \in D, Precedes(score, p, q)
      PROVE  Place(score, p) < Place(score, q)
  <2>1. Before(p) \subseteq Before(q)
    BY PrecedesOrders, <1>1, <1>5
  <2>2. p \in Before(q) \ Before(p)
    BY PrecedesOrders, <1>1, <1>5
  <2>3. /\ Cardinality(Before(p)) <= Cardinality(Before(q))
        /\ Cardinality(Before(p)) # Cardinality(Before(q))
    BY <1>3, <2>1, <2>2, FS_Subset
  <2>4. Cardinality(Before(p)) + 1 < Cardinality(Before(q)) + 1
    <3> HIDE DEF Before
    <3>. QED
      BY ONLY <1>3, <2>3, p \in D, q \in D
  <2>. QED
    BY <1>2, <2>4
<1>6. place \in Injection(D, D)
  <2>1. place \in [D -> D]
    BY <1>4
  <2>2. ASSUME NEW p \in D, NEW q \in D, p # q
        PROVE  place[p] # place[q]
    <3>1. Precedes(score, p, q) \/ Precedes(score, q, p)
      BY <1>1, <2>2, PrecedesOrders
    <3>2. Place(score, p) < Place(score, q) \/ Place(score, q) < Place(score, p)
      BY <1>5, <3>1
    <3>3. Place(score, p) \in Int /\ Place(score, q) \in Int
      BY <1>4
    <3>4. Place(score, p) # Place(score, q)
      BY ONLY <3>2, <3>3
    <3>. QED
      BY <3>4
  <2>. QED
    BY <2>1, <2>2 DEF Injection, IsInjective
<1>7. place \in Surjection(D, D)
  BY <1>1, <1>6, FS_Injection
<1>8. \A r \in D : \E p \in D : Place(score, p) = r
  BY <1>7 DEF Surjection
<1>. QED
  BY <1>4, <1>5, <1>8

-----------------------------------------------------------------------------
(* What the reranker returns.                                              *)

LEMMA CandidatesAreChunks ==
    ASSUME candidates \in CandidateLists
    PROVE  /\ Len(candidates) \in Nat /\ DOMAIN candidates = 1..Len(candidates)
           /\ candidates \in [1..Len(candidates) -> Ids]
           /\ candidates \in [1..Len(candidates) -> Int]
<1>1. candidates \in Seq(Ids) /\ Ids \subseteq Int
  BY AnsweringAssumption DEF AnsweringAssumption
<1>2. /\ Len(candidates) \in Nat /\ DOMAIN candidates = 1..Len(candidates)
      /\ candidates \in [1..Len(candidates) -> Ids]
  BY <1>1
<1>3. \A p \in 1..Len(candidates) : candidates[p] \in Int
  BY ONLY <1>1, <1>2
<1>. QED
  BY <1>2, <1>3

\* Every place of the cut list has a candidate, and every candidate whose place is
\* in it is there.
LEMMA SortedIsPlaced ==
    ASSUME candidates \in CandidateLists, NEW score \in [DOMAIN candidates -> Int]
    PROVE  /\ Sorted(score) \in Seq(Ids)
           /\ \A r \in DOMAIN Sorted(score) :
                 \E p \in DOMAIN candidates : /\ Place(score, p) = r
                                             /\ Sorted(score)[r] = candidates[p]
           /\ \A p \in DOMAIN candidates, r \in DOMAIN Sorted(score) :
                 Place(score, p) <= r =>
                    /\ Place(score, p) \in 1..r
                    /\ Sorted(score)[Place(score, p)] = candidates[p]
<1> DEFINE n == Len(candidates)
           m == Least(TopK, n)
           At(r) == CHOOSE p \in 1..n : Place(score, p) = r
<1>1. n \in Nat /\ DOMAIN candidates = 1..n /\ candidates \in [1..n -> Ids]
  BY CandidatesAreChunks
<1>2. m \in Nat /\ m <= n
  BY <1>1, AnsweringAssumption DEF AnsweringAssumption, Least
<1>3. /\ \A p \in 1..n : Place(score, p) \in 1..n
      /\ \A p, q \in 1..n : Precedes(score, p, q) => Place(score, p) < Place(score, q)
      /\ \A r \in 1..n : \E p \in 1..n : Place(score, p) = r
  BY <1>1, CandidatesAreChunks, PlacesAreTaken
<1>4. \A p, q \in 1..n : Place(score, p) = Place(score, q) => p = q
  <2>1. SUFFICES ASSUME NEW p \in 1..n, NEW q \in 1..n, p # q
                 PROVE  Place(score, p) # Place(score, q)
    OBVIOUS
  <2>2. Precedes(score, p, q) \/ Precedes(score, q, p)
    <3>1. 1..n \subseteq Int /\ candidates \in [1..n -> Int]
      BY <1>1, CandidatesAreChunks
    <3>2. score \in [1..n -> Int]
      BY <1>1
    <3> HIDE DEF n
    <3>. QED
      BY <3>1, <3>2, <2>1, PrecedesOrders
  <2>3. Place(score, p) < Place(score, q) \/ Place(score, q) < Place(score, p)
    BY <1>3, <2>2
  <2>. QED
    BY <1>3, <2>3
<1>5. Sorted(score) = [r \in 1..m |-> candidates[At(r)]]
  BY <1>1 DEF Sorted
<1>6. \A r \in 1..m : At(r) \in 1..n /\ Place(score, At(r)) = r
  <2>1. SUFFICES ASSUME NEW r \in 1..m
                 PROVE  At(r) \in 1..n /\ Place(score, At(r)) = r
    OBVIOUS
  <2>2. r \in 1..n
    BY ONLY <1>1, <1>2, <2>1
  <2>3. \E p \in 1..n : Place(score, p) = r
    BY <1>3, <2>2
  <2>. QED
    BY <2>3
<1>7. \A p \in 1..n : At(Place(score, p)) = p
  BY <1>3, <1>4
<1>8. Sorted(score) \in Seq(Ids) /\ DOMAIN Sorted(score) = 1..m
  <2> HIDE DEF At, m, n
  <2>. QED
    BY <1>1, <1>2, <1>5, <1>6
<1>9. ASSUME NEW r \in 1..m
      PROVE  \E p \in 1..n : Place(score, p) = r /\ Sorted(score)[r] = candidates[p]
  BY <1>5, <1>6, <1>9
<1>10. ASSUME NEW p \in 1..n, NEW r \in 1..m, Place(score, p) <= r
       PROVE  /\ Place(score, p) \in 1..r
              /\ Sorted(score)[Place(score, p)] = candidates[p]
  <2>1. Place(score, p) \in 1..r /\ Place(score, p) \in 1..m
    BY <1>2, <1>3, <1>10
  <2>. QED
    BY <1>5, <1>7, <2>1
<1>. QED
  BY <1>1, <1>8, <1>9, <1>10

LEMMA MockScoreIsInt ==
    ASSUME candidates \in CandidateLists
    PROVE  /\ MockScore \in [DOMAIN candidates -> Int]
           /\ \A c, d \in DOMAIN candidates :
                 \/ Overlap[candidates[d]] > Overlap[candidates[c]]
                 \/ Overlap[candidates[d]] = Overlap[candidates[c]] /\ d < c
                 => MockScore[d] > MockScore[c]
<1> DEFINE n == Len(candidates)
<1>1. n \in Nat /\ DOMAIN candidates = 1..n
  BY CandidatesAreChunks
<1>2. \A c \in 1..n : Overlap[candidates[c]] \in Nat
  BY CandidatesAreChunks, AnsweringAssumption DEF AnsweringAssumption
<1>3. \A c \in 1..n : MockScore[c] = 10 * n * Overlap[candidates[c]] + 3 * (n - (c - 1))
  BY <1>1 DEF MockScore
<1>4. \A c \in 1..n : MockScore[c] \in Int
  BY <1>1, <1>2, <1>3
<1>5. ASSUME NEW c \in 1..n, NEW d \in 1..n,
             \/ Overlap[candidates[d]] > Overlap[candidates[c]]
             \/ Overlap[candidates[d]] = Overlap[candidates[c]] /\ d < c
      PROVE  MockScore[d] > MockScore[c]
  <2> DEFINE x == Overlap[candidates[c]]
             y == Overlap[candidates[d]]
  <2>1. x \in Nat /\ y \in Nat /\ n \in Nat
    BY <1>1, <1>2
  <2>2. y > x \/ (y = x /\ d < c)
    BY <1>5
  <2> HIDE DEF x, y, n
  <2>3. 10 * n * y + 3 * (n - (d - 1)) > 10 * n * x + 3 * (n - (c - 1))
    <3>1. CASE y = x /\ d < c
      BY <2>1, <3>1
    <3>2. CASE y > x
      <4>1. PICK z \in Nat : y = x + 1 + z
        <5>1. y - x - 1 \in Nat /\ y = x + 1 + (y - x - 1)
          BY <2>1, <3>2
        <5>. QED
          BY <5>1
      <4>2. n * y = n * x + n + n * z
        BY <2>1, <4>1
      <4>3. n * z \in Nat /\ n * x \in Nat
        BY <2>1
      <4>. QED
        BY <2>1, <4>2, <4>3
    <3>. QED
      BY <2>2, <3>1, <3>2
  <2>. QED
    BY <1>3, <2>3 DEF x, y, n
<1>. QED
  BY <1>1, <1>4, <1>5 DEF MockScore

-----------------------------------------------------------------------------
(* Types.  What a part of the query sets is untouched until it runs.       *)

Untouched ==
    /\ phase = "rerank" => ranked = <<>> /\ next = 1 /\ items = <<>>
    /\ phase \in {"rerank", "build"} \/ provider = "mock" => posts = <<>>
    /\ phase \in {"rerank", "build", "ask"} => mark = 1 /\ citations = <<>> /\ rejected = {}
    /\ phase # "done" => outcome = "none" /\ text \in Seq(Ids \cup Unknown)

TypeInv == TypeOK /\ Untouched

LEMMA SubSeqOfIds ==
    ASSUME NEW S, NEW s \in Seq(S), NEW k \in 0..Len(s)
    PROVE  /\ SubSeq(s, 1, k) \in Seq(S)
           /\ Elements(SubSeq(s, 1, k)) \subseteq Elements(s)
  BY DEF Elements

LEMMA LeastIsLess ==
    ASSUME NEW m \in Nat, NEW n \in Nat
    PROVE  Least(m, n) \in Nat /\ Least(m, n) <= m /\ Least(m, n) <= n
  BY DEF Least

LEMMA EstimateIsNat == ASSUME NEW n \in Nat PROVE EstimateTokens(n) \in Nat
  BY DEF EstimateTokens

\* Confidence counts the cited ones of at most three chunks.
LEMMA ConfidenceIsShare ==
    ASSUME items \in Seq(Ids), citations \in Seq(Ids)
    PROVE  /\ Confidence \in (0..3) \X (0..3)
           /\ Confidence[1] <= Confidence[2]
           /\ Confidence[1] > 0 <=> \E p \in 1..Least(3, Len(items)) :
                                       items[p] \in Elements(citations)
<1> DEFINE k == Least(3, Len(items))
           top == {items[p] : p \in 1..k}
           cited == top \cap Elements(citations)
<1>1. Len(items) \in Nat /\ k \in Nat /\ k <= 3 /\ k <= Len(items)
  <2>1. Len(items) \in Nat
    OBVIOUS
  <2>. QED
    BY ONLY <2>1, LeastIsLess
<1>2. IsFiniteSet(top) /\ Cardinality(top) \in Nat /\ Cardinality(top) <= k
  <2>1. IsFiniteSet(1..k) /\ Cardinality(1..k) = k
    BY ONLY <1>1, FS_Interval
  <2>2. [p \in 1..k |-> items[p]] \in Surjection(1..k, top)
    BY DEF Surjection
  <2> HIDE DEF top, k
  <2>. QED
    BY <2>1, <2>2, FS_Surjection, FS_CardinalityType
<1>3. /\ IsFiniteSet(cited) /\ Cardinality(cited) \in Nat
      /\ Cardinality(cited) <= Cardinality(top)
  <2> HIDE DEF top
  <2>. QED
    BY <1>2, FS_Intersection, FS_CardinalityType
<1>4. Cardinality(cited) = 0 <=> cited = {}
  <2> HIDE DEF cited
  <2>. QED
    BY <1>3, FS_EmptySet
<1>5. Confidence = IF citations = <<>> THEN <<0, 0>>
                   ELSE <<Cardinality(cited), Cardinality(top)>>
  BY DEF Confidence
<1>6. /\ cited # {} <=> \E p \in 1..k : items[p] \in Elements(citations)
      /\ citations = <<>> => cited = {}
  <2>1. cited # {} => \E p \in 1..k : items[p] \in Elements(citations)
    OBVIOUS
  <2>2. ASSUME NEW p \in 1..k, items[p] \in Elements(citations)
        PROVE  cited # {}
    <3>1. items[p] \in top
      OBVIOUS
    <3>. QED
      BY <2>2, <3>1
  <2>3. citations = <<>> => Elements(citations) = {}
    BY DEF Elements
  <2>. QED
    BY <2>1, <2>2, <2>3
<1> HIDE DEF cited, top, k
<1>7. Cardinality(cited) \in 0..3 /\ Cardinality(top) \in 0..3
  BY <1>1, <1>2, <1>3
<1>8. Confidence[1] > 0 <=> cited # {}
  BY <1>3, <1>4, <1>5, <1>6
<1>9. Confidence \in (0..3) \X (0..3) /\ Confidence[1] <= Confidence[2]
  BY <1>3, <1>5, <1>7
<1>. QED
  BY <1>6, <1>8, <1>9 DEF k

LEMMA InitTypeInv == Init => TypeInv
<1> SUFFICES ASSUME Init
             PROVE  TypeInv
    OBVIOUS
<1> USE DEF Init
<1>1. Untouched
  BY DEF Untouched
<1>2. /\ confidence \in (0..3) \X (0..3) /\ confidence[1] <= confidence[2]
      /\ next \in 1..(Len(ranked) + 1) /\ mark \in 1..(Len(text) + 1)
  OBVIOUS
<1>3. /\ ranked \in Seq(Ids) /\ items \in Seq(Ids) /\ citations \in Seq(Ids)
      /\ posts \in Seq(Transient \cup Final \cup {"text"})
      /\ text \in Seq(Ids \cup Unknown \cup {Removed})
  OBVIOUS
<1>4. error \in Outcomes /\ outcome \in Outcomes
  BY DEF Outcomes
<1>. QED
  BY <1>1, <1>2, <1>3, <1>4 DEF TypeInv, TypeOK

LEMMA NextTypeInv == TypeInv /\ [Next]_vars => TypeInv'
<1> SUFFICES ASSUME TypeInv, [Next]_vars
             PROVE  TypeInv'
    OBVIOUS
<1> USE DEF TypeInv, TypeOK, Untouched, settings, reranking, building, asking, citing, Goto, Fail
<1>1. CASE UNCHANGED vars
  BY <1>1 DEF vars
<1>2. CASE SkipRerank
  BY <1>2, CandidatesAreChunks DEF SkipRerank, Rank
<1>3. CASE MockRerank
  <2>1. ranked' = Sorted(MockScore) /\ ranked' \in Seq(Ids)
    BY <1>3, MockScoreIsInt, SortedIsPlaced DEF MockRerank, Rank
  <2>. QED
    BY <1>3, <2>1 DEF MockRerank, Rank
<1>4. CASE CrossEncode
  BY <1>4 DEF CrossEncode, Outcomes
<1>5. CASE SkipSeen
  BY <1>5 DEF SkipSeen, MoreRanked
<1>6. CASE TakeChunk
  <2>1. ranked[next] \in Ids /\ next' \in 1..(Len(ranked) + 1) /\ items' \in Seq(Ids)
    BY <1>6 DEF TakeChunk, MoreRanked
  <2>2. Chars[ranked[next]] \in Nat
    BY <2>1, AnsweringAssumption DEF AnsweringAssumption
  <2>3. chars' \in Nat /\ tokens' \in Nat
    <3>1. EstimateTokens(Chars[ranked[next]]) \in Nat
      BY <2>2, EstimateIsNat
    <3>2. /\ chars' = chars + Chars[ranked[next]] /\ chars \in Nat
          /\ tokens' = tokens + EstimateTokens(Chars[ranked[next]]) /\ tokens \in Nat
      BY <1>6 DEF TakeChunk
    <3>. QED
      BY ONLY <2>2, <3>1, <3>2
  <2>. QED
    BY <1>6, <2>1, <2>3 DEF TakeChunk, MoreRanked
<1>7. CASE StopFull
  BY <1>7 DEF StopFull
<1>8. CASE TakeAll
  BY <1>8 DEF TakeAll
<1>9. CASE MockComplete
  <2>1. Least(3, Len(items)) \in 0..Len(items)
    <3>1. Len(items) \in Nat
      OBVIOUS
    <3>. QED
      BY ONLY <3>1 DEF Least
  <2>2. text' \in Seq(Ids)
    BY <1>9, <2>1, SubSeqOfIds DEF MockComplete, Receive
  <2>3. text' \in Seq(Ids \cup Unknown) /\ text' \in Seq(Ids \cup Unknown \cup {Removed})
    BY ONLY <2>2
  <2>4. mark' \in 1..(Len(text') + 1)
    BY <1>9, <2>2 DEF MockComplete, Receive
  <2>. QED
    BY <1>9, <2>3, <2>4 DEF MockComplete, Receive
<1>10. ASSUME NEW o \in Transient, PostFails(o)
       PROVE  TypeInv'
  BY <1>10 DEF PostFails, Post, Transient, ErrorOf, Outcomes
<1>11. ASSUME NEW o \in Final, PostRefused(o)
       PROVE  TypeInv'
  BY <1>11 DEF PostRefused, Post, Final, ErrorOf, Outcomes
<1>12. ASSUME NEW t \in Texts, PostSucceeds(t)
       PROVE  TypeInv'
  BY <1>12, AnsweringAssumption DEF PostSucceeds, Post, Receive, AnsweringAssumption
<1>13. CASE GiveUp
  BY <1>13 DEF GiveUp
<1>14. CASE RejectMark
  BY <1>14 DEF RejectMark, MoreMarks
<1>15. CASE AcceptMark
  BY <1>15 DEF AcceptMark, CountMark, MoreMarks, InContext, Elements
<1>16. CASE Finalize
  <2>1. /\ text' \in Seq(Ids \cup Unknown \cup {Removed})
        /\ Len(text') = Len(text)
    <3>1. Len(text) \in Nat /\ DOMAIN text = 1..Len(text)
      OBVIOUS
    <3>2. text' = [p \in 1..Len(text) |-> IF text[p] \in rejected THEN Removed ELSE text[p]]
      BY <1>16, <3>1 DEF Finalize
    <3>3. \A p \in 1..Len(text) : text[p] \in Ids \cup Unknown \cup {Removed}
      OBVIOUS
    <3>. QED
      BY ONLY <3>1, <3>2, <3>3
  <2>2. /\ confidence' \in (0..3) \X (0..3)
        /\ confidence'[1] <= confidence'[2]
    BY <1>16, ConfidenceIsShare DEF Finalize
  <2>. QED
    BY <1>16, <2>1, <2>2 DEF Finalize, Outcomes
<1>. QED
  BY <1>1, <1>2, <1>3, <1>4, <1>5, <1>6, <1>7, <1>8, <1>9, <1>10, <1>11, <1>12, <1>13,
     <1>14, <1>15, <1>16 DEF Next, RerankStep, BuildStep, AskStep, ValidateStep

\* Every variable of a query keeps its type, for every list of candidates, every
\* reranker and every outcome of the requests to the model.
THEOREM TypeCorrect == Spec => []TypeOK
<1>1. TypeInv => TypeOK
  BY DEF TypeInv
<1>. QED
  BY <1>1, InitTypeInv, NextTypeInv, PTL DEF Spec

-----------------------------------------------------------------------------
(* What the reranker and the context builder return.                       *)

\* Where a candidate is ranked, the candidates that must precede it do.
LEMMA SortIsFaithful ==
    ASSUME candidates \in CandidateLists, NEW ranking, ranking = Sorted(MockScore),
           NEW p \in DOMAIN ranking, NEW c \in DOMAIN candidates,
           NEW d \in DOMAIN candidates,
           candidates[c] = ranking[p], FirstOfItsChunk(c),
           ~(Overlap[candidates[d]] < Overlap[candidates[c]]),
           ~(Overlap[candidates[d]] = Overlap[candidates[c]] /\ c <= d)
    PROVE  \E q \in 1..(p - 1) : ranking[q] = candidates[d]
<1> DEFINE n == Len(candidates)
           place(x) == Place(MockScore, x)
<1>1. /\ n \in Nat /\ DOMAIN candidates = 1..n /\ candidates \in [1..n -> Int]
      /\ MockScore \in [1..n -> Int] /\ MockScore \in [DOMAIN candidates -> Int]
  BY CandidatesAreChunks, MockScoreIsInt
<1>2. PICK e \in DOMAIN candidates : place(e) = p /\ ranking[p] = candidates[e]
  BY <1>1, SortedIsPlaced
<1>3. c <= e
  BY <1>1, <1>2 DEF FirstOfItsChunk
<1>4. /\ Overlap[candidates[c]] \in Nat /\ Overlap[candidates[d]] \in Nat
      /\ candidates[c] = candidates[e]
  BY <1>1, <1>2, CandidatesAreChunks, AnsweringAssumption DEF AnsweringAssumption
<1>5. MockScore[d] > MockScore[e]
  <2>1. \/ Overlap[candidates[d]] > Overlap[candidates[e]]
        \/ Overlap[candidates[d]] = Overlap[candidates[e]] /\ d < e
    BY <1>1, <1>2, <1>3, <1>4
  <2>. QED
    BY <1>2, <2>1, MockScoreIsInt
<1>6. Precedes(MockScore, d, e)
  BY <1>5 DEF Precedes
<1>7. place(d) < place(e) /\ place(d) \in 1..n
  BY <1>1, <1>6, <1>2, PlacesAreTaken
<1>8. place(d) <= p /\ place(d) \in 1..(p - 1)
  <2>1. place(e) = p /\ place(e) \in 1..n
    BY <1>1, <1>2, PlacesAreTaken
  <2> HIDE DEF place
  <2>. QED
    BY ONLY <1>1, <1>7, <2>1
<1>9. ranking[place(d)] = candidates[d]
  BY <1>1, <1>8, SortedIsPlaced
<1>. QED
  BY <1>8, <1>9

RankInv ==
    /\ Elements(ranked) \subseteq Elements(candidates)
    /\ RerankIsFaithful

LEMMA NextRankInv == TypeInv /\ RankInv /\ [Next]_vars => RankInv'
<1> SUFFICES ASSUME TypeInv, RankInv, [Next]_vars
             PROVE  RankInv'
    OBVIOUS
<1> USE DEF TypeInv, TypeOK, Untouched, RankInv, settings, reranking, Goto, Fail
<1>1. UNCHANGED candidates /\ UNCHANGED reranker
  BY DEF vars, Next, RerankStep, BuildStep, AskStep, ValidateStep, SkipRerank, MockRerank, Rank,
         CrossEncode, SkipSeen, TakeChunk, StopFull, TakeAll, MockComplete, GiveUp, PostFails,
         PostRefused, PostSucceeds, RejectMark, AcceptMark, CountMark, Finalize
<1>2. CASE SkipRerank
  <2>1. ranked' = candidates /\ reranker' # "mock"
    BY <1>1, <1>2 DEF SkipRerank, Rank
  <2>. QED
    BY ONLY <1>1, <2>1 DEF RankInv, RerankIsFaithful
<1>3. CASE MockRerank
  <2>1. ranked' = Sorted(MockScore) /\ MockScore \in [DOMAIN candidates -> Int]
    BY <1>3, MockScoreIsInt DEF MockRerank, Rank
  <2>2. Elements(ranked') \subseteq Elements(candidates)
    BY <2>1, SortedIsPlaced DEF Elements
  <2>3. RerankIsFaithful'
    BY <1>1, <2>1, <2>2, SortIsFaithful DEF RerankIsFaithful, FirstOfItsChunk
  <2>. QED
    BY ONLY <1>1, <2>2, <2>3 DEF RankInv
<1>4. CASE CrossEncode
  <2>1. UNCHANGED ranked /\ reranker' # "mock"
    BY <1>1, <1>4 DEF CrossEncode
  <2>2. Elements(ranked') \subseteq Elements(candidates')
    BY <1>1, <2>1
  <2>. QED
    BY ONLY <2>1, <2>2 DEF RankInv, RerankIsFaithful
<1>5. ASSUME UNCHANGED ranked, phase # "rerank" \/ UNCHANGED phase
      PROVE  RankInv'
  <2>1. Elements(ranked') \subseteq Elements(candidates')
    BY <1>1, <1>5
  <2>2. RerankIsFaithful'
    BY ONLY RankInv, <1>1, <1>5 DEF RankInv, RerankIsFaithful, FirstOfItsChunk, Elements
  <2>. QED
    BY ONLY <2>1, <2>2 DEF RankInv, Elements
<1>6. CASE BuildStep
  BY <1>5, <1>6 DEF BuildStep, SkipSeen, MoreRanked, TakeChunk, StopFull, TakeAll
<1>7. CASE AskStep
  BY <1>5, <1>7 DEF AskStep, MockComplete, Receive, GiveUp, PostFails, PostRefused, PostSucceeds,
                    Post
<1>8. CASE ValidateStep
  BY <1>5, <1>8 DEF ValidateStep, RejectMark, AcceptMark, CountMark, MoreMarks, Finalize
<1>9. CASE UNCHANGED vars
  BY <1>5, <1>9 DEF vars
<1>. QED
  BY <1>2, <1>3, <1>4, <1>6, <1>7, <1>8, <1>9 DEF Next, RerankStep

LEMMA InitRankInv == Init => RankInv
  BY DEF Init, RankInv, RerankIsFaithful, Elements

\* The mock reranker keeps the order it promises for all scores and all lists of
\* candidates, those that repeat a chunk included.
THEOREM RerankFaithful == Spec => []RerankIsFaithful
<1>1. RankInv => RerankIsFaithful
  BY DEF RankInv
<1>. QED
  BY <1>1, InitTypeInv, NextTypeInv, InitRankInv, NextRankInv, PTL DEF Spec

-----------------------------------------------------------------------------
(* The context.  Where the loop of build() stands, `items` has the chunks  *)
(* in front of `next`; where it has stopped, the one at `next` did not fit.*)

Before(k) == {ranked[p] : p \in 1..(k - 1)}

ContextInv ==
    /\ WithinBudget
    /\ Elements(items) = Before(next)
    /\ phase \in {"rerank", "build"} => ~truncated
    /\ truncated => /\ next <= Len(ranked)
                    /\ ranked[next] \notin Elements(items) /\ ~Fits(ranked[next])
    /\ phase \in {"ask", "validate", "done"} /\ ranked # <<>> /\ ~truncated => next > Len(ranked)

LEMMA InitContextInv == Init => ContextInv
<1> SUFFICES ASSUME Init
             PROVE  ContextInv
    OBVIOUS
<1> USE DEF Init
<1>1. WithinBudget
  BY AnsweringAssumption DEF WithinBudget, AnsweringAssumption
<1>2. Elements(items) = Before(next)
  BY DEF Elements, Before
<1>. QED
  BY <1>1, <1>2 DEF ContextInv

LEMMA NextContextInv == TypeInv /\ TypeInv' /\ ContextInv /\ [Next]_vars => ContextInv'
<1> SUFFICES ASSUME TypeInv, TypeInv', ContextInv, [Next]_vars
             PROVE  ContextInv'
    OBVIOUS
<1>0. /\ next \in 1..(Len(ranked) + 1) /\ ranked \in Seq(Ids) /\ items \in Seq(Ids)
      /\ phase \in {"rerank", "build", "ask", "validate", "done"}
      /\ phase = "rerank" => ranked = <<>> /\ next = 1 /\ items = <<>>
  BY DEF TypeInv, TypeOK, Untouched
<1>1. CASE /\ UNCHANGED <<ranked, next, items, chars, tokens, truncated>>
           /\ phase' \in {"ask", "validate", "done"} => phase \in {"ask", "validate", "done"}
                                                          \/ ranked = <<>>
           /\ phase' \in {"rerank", "build"} => phase \in {"rerank", "build"}
  <2>1. WithinBudget' /\ Elements(items') = Before(next)'
    BY <1>1 DEF ContextInv, WithinBudget, Before
  <2>2. truncated' => /\ next' <= Len(ranked')
                      /\ ranked'[next'] \notin Elements(items') /\ ~Fits(ranked[next])'
    BY <1>1 DEF ContextInv, Fits
  <2>. QED
    BY <1>1, <2>1, <2>2 DEF ContextInv
<1>2. CASE SkipRerank \/ MockRerank
  <2>1. /\ UNCHANGED <<next, items, chars, tokens, truncated>>
        /\ phase = "rerank" /\ phase' = "build"
    BY <1>2 DEF SkipRerank, MockRerank, Rank, building, Goto
  <2>2. Before(next)' = {} /\ Elements(items') = {}
    BY <1>0, <2>1 DEF Before, Elements
  <2>. QED
    BY <2>1, <2>2 DEF ContextInv, WithinBudget
<1>3. CASE SkipSeen
  <2>1. /\ UNCHANGED <<phase, ranked, items, chars, tokens, truncated>>
        /\ phase = "build" /\ next <= Len(ranked) /\ next' = next + 1
        /\ ranked[next] \in Elements(items)
    BY <1>3 DEF SkipSeen, MoreRanked, Seen, reranking
  <2>2. Before(next)' = Before(next) \cup {ranked[next]}
    BY <1>0, <2>1 DEF Before
  <2>. QED
    BY <2>1, <2>2 DEF ContextInv, WithinBudget
<1>4. CASE TakeChunk
  <2> DEFINE i == ranked[next]
  <2>1. /\ UNCHANGED <<phase, ranked, truncated>>
        /\ phase = "build" /\ next <= Len(ranked) /\ next' = next + 1
        /\ i \notin Elements(items) /\ items' = Append(items, i)
        /\ chars' = chars + Chars[i] /\ tokens' = tokens + EstimateTokens(Chars[i])
        /\ Fits(i)
    BY <1>4 DEF TakeChunk, MoreRanked, Seen, reranking
  <2>2. Before(next)' = Before(next) \cup {i}
    BY <1>0, <2>1 DEF Before
  <2>3. Elements(items') = Elements(items) \cup {i} /\ Len(items') = Len(items) + 1
    BY <1>0, <2>1, AppendElements
  <2>4. NoRepeats(items')
    BY <1>0, <2>1, AppendNew DEF ContextInv, WithinBudget, NoRepeats
  <2>5. Len(items') <= MaxChunks /\ chars' <= MaxChars /\ tokens' <= MaxTokens
    <3>1. Len(items) \in Nat /\ MaxChunks \in Nat
      BY <1>0, AnsweringAssumption DEF AnsweringAssumption
    <3>. QED
      BY <2>1, <2>3, <3>1 DEF Fits
  <2>6. WithinBudget'
    BY <2>4, <2>5 DEF WithinBudget, NoRepeats
  <2>. QED
    BY <2>1, <2>2, <2>3, <2>6 DEF ContextInv
<1>5. CASE StopFull
  BY <1>0, <1>5 DEF StopFull, MoreRanked, Seen, Goto, reranking, ContextInv, WithinBudget, Before, Fits
<1>6. CASE TakeAll
  BY <1>0, <1>6 DEF TakeAll, Goto, building, reranking, ContextInv, WithinBudget, Before, Fits
<1>7. CASE CrossEncode
  BY <1>0, <1>1, <1>7 DEF CrossEncode, Fail, Goto, reranking, building
<1>8. CASE AskStep
  BY <1>1, <1>8 DEF AskStep, MockComplete, Receive, GiveUp, PostFails, PostRefused,
                    PostSucceeds, Post, Goto, Fail, reranking, building
<1>9. CASE ValidateStep
  BY <1>1, <1>9 DEF ValidateStep, RejectMark, AcceptMark, CountMark, MoreMarks, Finalize, Goto,
                    reranking, building
<1>10. CASE UNCHANGED vars
  BY <1>1, <1>10 DEF vars
<1>. QED
  BY <1>2, <1>3, <1>4, <1>5, <1>6, <1>7, <1>8, <1>9, <1>10 DEF Next, RerankStep, BuildStep

LEMMA ContextInvIsPrefix == TypeInv /\ ContextInv => ContextIsPrefix
<1> SUFFICES ASSUME TypeInv, ContextInv, phase \in {"ask", "validate", "done"}, ranked # <<>>
             PROVE  \E k \in 0..Len(ranked) :
                       /\ Elements(items) = {ranked[p] : p \in 1..k}
                       /\ IF truncated THEN /\ k < Len(ranked) /\ ~Fits(ranked[k + 1])
                                            /\ ranked[k + 1] \notin Elements(items)
                                       ELSE k = Len(ranked)
    BY DEF ContextIsPrefix
<1>1. next \in 1..(Len(ranked) + 1) /\ Len(ranked) \in Nat
  BY DEF TypeInv, TypeOK
<1>2. next - 1 \in 0..Len(ranked) /\ (next - 1) + 1 = next
  BY <1>1
<1>3. Elements(items) = {ranked[p] : p \in 1..(next - 1)}
  BY DEF ContextInv, Before
<1>4. IF truncated THEN /\ next - 1 < Len(ranked) /\ ~Fits(ranked[(next - 1) + 1])
                        /\ ranked[(next - 1) + 1] \notin Elements(items)
                   ELSE next - 1 = Len(ranked)
  BY <1>1, <1>2 DEF ContextInv
<1>. QED
  BY <1>2, <1>3, <1>4

\* The context keeps its three budgets and repeats no chunk, for all lengths of
\* chunks and all budgets.
THEOREM BudgetsAreKept == Spec => []WithinBudget
<1>1. ContextInv => WithinBudget
  BY DEF ContextInv
<1>. QED
  BY <1>1, InitTypeInv, NextTypeInv, InitContextInv, NextContextInv, PTL DEF Spec

\* What a chunk adds to the totals.
LEMMA ChunkIsCharged ==
    ASSUME NEW s \in Seq(Ids), NEW i \in Ids, i \notin Elements(s),
           NEW f \in [Ids -> Nat]
    PROVE  SumFunctionOnSet(f, Elements(Append(s, i))) = SumFunctionOnSet(f, Elements(s)) + f[i]
<1> DEFINE S == Elements(s)
           T == S \cup {i}
<1>1. Elements(Append(s, i)) = T
  BY AppendElements
<1>2. IsFiniteSet(S)
  <2>1. Len(s) \in Int /\ 1 \in Int /\ DOMAIN s = 1..Len(s)
    OBVIOUS
  <2>2. IsFiniteSet(1..Len(s))
    BY ONLY <2>1, FS_Interval
  <2>3. s \in Surjection(1..Len(s), S)
    BY <2>1 DEF Elements, Surjection
  <2>. QED
    BY ONLY <2>2, <2>3, FS_Surjection
<1>3. S \subseteq Ids
  BY DEF Elements
<1> HIDE DEF S
<1>4. IsFiniteSet(T) /\ \A j \in T : f[j] \in Nat
  BY <1>2, <1>3, FS_AddElement
<1>5. i \in T /\ T \ {i} = S /\ T \in SUBSET T /\ T \ {i} \in SUBSET T /\ i \notin S
  BY DEF S
<1>6. /\ SumFunctionOnSet(f, T) = f[i] + SumFunctionOnSet(f, T \ {i})
      /\ SumFunctionOnSet(f, T \ {i}) \in Nat
  BY ONLY <1>4, <1>5, SumLaws
<1>7. SumFunctionOnSet(f, T \ {i}) = SumFunctionOnSet(f, S)
  BY ONLY <1>5, Zenon
<1>8. SumFunctionOnSet(f, T) = SumFunctionOnSet(f, S) + f[i]
  <2>1. f[i] \in Nat
    OBVIOUS
  <2>. QED
    BY ONLY <1>6, <1>7, <2>1
<1>9. SumFunctionOnSet(f, Elements(Append(s, i))) = SumFunctionOnSet(f, T)
  BY ONLY <1>1, Zenon
<1>. QED
  BY <1>8, <1>9 DEF S

\* The tokens of every chunk, as build() estimates them.
TokensOf == [i \in Ids |-> EstimateTokens(Chars[i])]

LEMMA TokensOfType == TokensOf \in [Ids -> Nat]
  BY EstimateIsNat, AnsweringAssumption DEF TokensOf, AnsweringAssumption

LEMMA InitTotals == Init => TotalsAreExact
<1> SUFFICES ASSUME Init PROVE TotalsAreExact
  OBVIOUS
<1>1. IsFiniteSet({}) /\ \A f : SumFunctionOnSet(f, {}) = 0
  <2>1. IsFiniteSet({})
    BY FS_EmptySet
  <2>2. ASSUME NEW f PROVE SumFunctionOnSet(f, {}) = 0
    <3>1. \A x \in {} : f[x] \in Nat
      OBVIOUS
    <3>. QED
      BY ONLY <2>1, <3>1, SumLaws
  <2>. QED
    BY <2>1, <2>2
<1>2. Elements(items) = {} /\ chars = 0 /\ tokens = 0
  BY DEF Init, Elements
<1>. QED
  BY <1>1, <1>2 DEF TotalsAreExact

LEMMA NextTotals == TypeInv /\ TotalsAreExact /\ [Next]_vars => TotalsAreExact'
<1> SUFFICES ASSUME TypeInv, TotalsAreExact, [Next]_vars
             PROVE  TotalsAreExact'
    OBVIOUS
<1>1. CASE TakeChunk
  <2> DEFINE i == ranked[next]
  <2>1. /\ next \in 1..Len(ranked) /\ i \notin Elements(items) /\ items' = Append(items, i)
        /\ chars' = chars + Chars[i] /\ tokens' = tokens + EstimateTokens(Chars[i])
    BY <1>1 DEF TakeChunk, MoreRanked, Seen, TypeInv, TypeOK
  <2>2. i \in Ids /\ items \in Seq(Ids)
    BY <2>1 DEF TypeInv, TypeOK
  <2>3. SumFunctionOnSet(Chars, Elements(items')) = SumFunctionOnSet(Chars, Elements(items)) + Chars[i]
    BY <2>1, <2>2, ChunkIsCharged, AnsweringAssumption DEF AnsweringAssumption
  <2>4. SumFunctionOnSet(TokensOf, Elements(items'))
          = SumFunctionOnSet(TokensOf, Elements(items)) + TokensOf[i]
    BY <2>1, <2>2, ChunkIsCharged, TokensOfType
  <2>5. TokensOf[i] = EstimateTokens(Chars[i])
    BY <2>2 DEF TokensOf
  <2>. QED
    BY <2>1, <2>3, <2>4, <2>5 DEF TotalsAreExact, TokensOf
<1>2. CASE UNCHANGED <<items, chars, tokens>>
  BY <1>2 DEF TotalsAreExact
<1>3. CASE SkipRerank \/ MockRerank \/ CrossEncode \/ SkipSeen \/ StopFull \/ TakeAll
  BY <1>2, <1>3 DEF SkipRerank, MockRerank, Rank, CrossEncode, Fail, SkipSeen, StopFull,
                    TakeAll, building
<1>4. CASE AskStep
  BY <1>2, <1>4 DEF AskStep, MockComplete, Receive, GiveUp, PostFails, PostRefused,
                    PostSucceeds, Post, Fail, building
<1>5. CASE ValidateStep
  BY <1>2, <1>5 DEF ValidateStep, RejectMark, AcceptMark, CountMark, Finalize, building
<1>6. CASE UNCHANGED vars
  BY <1>2, <1>6 DEF vars, building
<1>. QED
  BY <1>1, <1>3, <1>4, <1>5, <1>6 DEF Next, RerankStep, BuildStep

\* The totals that build() holds its budgets against are those of the chunks it took,
\* each charged once (builder.py:48-81).
THEOREM TotalsAreOfTheContext == Spec => []TotalsAreExact
  BY InitTypeInv, NextTypeInv, InitTotals, NextTotals, PTL DEF Spec

\* The context is a beginning of the ranked list, up to the first chunk that does
\* not fit.
THEOREM HigherRankedFirst == Spec => []ContextIsPrefix
  BY ContextInvIsPrefix, InitTypeInv, NextTypeInv, InitContextInv, NextContextInv, PTL DEF Spec

-----------------------------------------------------------------------------
(* Retries.  While the model is being asked, every request so far has      *)
(* failed in a way that may pass, and `error` is that of the last.         *)

Last(s) == s[Len(s)]

RetryInv ==
    /\ RetriesAreRight
    /\ phase = "ask" /\ posts # <<>> => Last(posts) \in Transient /\ error = ErrorOf(Last(posts))
    /\ phase = "validate" /\ posts # <<>> => Last(posts) = "text"

LEMMA InitRetryInv == Init => RetryInv
  BY AnsweringAssumption DEF Init, RetryInv, RetriesAreRight, AnsweringAssumption

LEMMA ErrorsAreExceptions ==
    ASSUME NEW o \in Transient \cup Final
    PROVE  ErrorOf(o) \notin {"answer", "none"}
  BY DEF Transient, Final, ErrorOf

\* A request more: all the earlier ones were failures that may pass.
LEMMA PostAppends ==
    ASSUME TypeInv, RetryInv, NEW o, Post(o)
    PROVE  /\ Len(posts') \in Nat /\ Len(posts') = Len(posts) + 1
           /\ Len(posts') <= MaxRetries + 1
           /\ posts' # <<>> /\ Last(posts') = o
           /\ \A n \in 1..(Len(posts') - 1) : posts'[n] \in Transient
<1>1. posts \in Seq(Transient \cup Final \cup {"text"}) /\ MaxRetries \in Nat
  BY AnsweringAssumption DEF TypeInv, TypeOK, AnsweringAssumption
<1>2. phase = "ask" /\ Len(posts) <= MaxRetries /\ posts' = Append(posts, o)
  BY DEF Post
<1>3. \A n \in 1..Len(posts) : posts[n] \in Transient
  BY <1>1, <1>2 DEF RetryInv, RetriesAreRight, Last
<1>4. /\ Len(posts') = Len(posts) + 1 /\ Len(posts) \in Nat
      /\ posts'[Len(posts) + 1] = o
      /\ \A n \in 1..Len(posts) : posts'[n] = posts[n]
  BY <1>1, <1>2
<1>. QED
  BY <1>1, <1>2, <1>3, <1>4 DEF Last

LEMMA NextRetryInv == TypeInv /\ RetryInv /\ [Next]_vars => RetryInv'
<1> SUFFICES ASSUME TypeInv, RetryInv, [Next]_vars
             PROVE  RetryInv'
    OBVIOUS
<1>0. /\ posts \in Seq(Transient \cup Final \cup {"text"}) /\ MaxRetries \in Nat
      /\ phase # "done" => outcome = "none"
      /\ phase \in {"rerank", "build"} => posts = <<>>
  BY AnsweringAssumption DEF TypeInv, TypeOK, Untouched, AnsweringAssumption
<1>1. CASE /\ UNCHANGED <<posts, error, outcome>>
           /\ phase' \in {"ask", "validate"} => phase' = phase \/ posts = <<>>
  BY <1>1 DEF RetryInv, RetriesAreRight
<1>2. CASE RerankStep
  <2>1. UNCHANGED <<posts, error>> /\ posts = <<>> /\ phase' \in {"build", "done"}
    BY <1>0, <1>2 DEF RerankStep, SkipRerank, MockRerank, CrossEncode, Rank, Goto, Fail, asking
  <2>. QED
    BY <1>0, <2>1 DEF RetryInv, RetriesAreRight
<1>3. CASE BuildStep
  BY <1>0, <1>1, <1>3 DEF BuildStep, SkipSeen, TakeChunk, StopFull, TakeAll, MoreRanked, Goto, asking
<1>4. ASSUME NEW o \in Transient, PostFails(o)
      PROVE  RetryInv'
  <2>1. /\ phase = "ask" /\ phase' = "ask" /\ UNCHANGED outcome /\ error' = ErrorOf(o)
        /\ Post(o)
    BY <1>4 DEF PostFails, Post
  <2>. QED
    BY <1>0, <1>4, <2>1, PostAppends DEF RetryInv, RetriesAreRight, Last
<1>5. ASSUME NEW o \in Final, PostRefused(o)
      PROVE  RetryInv'
  <2>1. phase' = "done" /\ outcome' = ErrorOf(o) /\ Post(o)
    BY <1>5 DEF PostRefused, Fail, Goto
  <2>2. outcome' \notin {"answer", "none"} /\ o \notin Transient
    BY <1>5, <2>1, ErrorsAreExceptions DEF Final, Transient
  <2>. QED
    BY <2>1, <2>2, PostAppends DEF RetryInv, RetriesAreRight, Last
<1>6. ASSUME NEW t \in Texts, PostSucceeds(t)
      PROVE  RetryInv'
  <2>1. phase = "ask" /\ phase' = "validate" /\ UNCHANGED outcome /\ Post("text")
    BY <1>6 DEF PostSucceeds, Receive, Goto
  <2>. QED
    BY <1>0, <2>1, PostAppends DEF RetryInv, RetriesAreRight, Last
<1>7. CASE GiveUp
  <2>1. /\ phase = "ask" /\ phase' = "done" /\ outcome' = error /\ UNCHANGED posts
        /\ Len(posts) > MaxRetries
    BY <1>7 DEF GiveUp, Fail, Goto, asking
  <2>2. posts # <<>> /\ Len(posts) = MaxRetries + 1
    BY <1>0, <2>1 DEF RetryInv, RetriesAreRight
  <2>3. Last(posts) \in Transient /\ error = ErrorOf(Last(posts))
    BY <2>1, <2>2 DEF RetryInv
  <2>4. outcome' \notin {"answer", "none"}
    BY <2>1, <2>3, ErrorsAreExceptions
  <2>. QED
    BY <2>1, <2>2, <2>3, <2>4 DEF RetryInv, RetriesAreRight, Last
<1>8. CASE MockComplete
  <2>1. posts = <<>>
    BY <1>8 DEF MockComplete, TypeInv, Untouched
  <2>. QED
    BY <1>1, <1>8, <2>1 DEF MockComplete, Receive, asking
<1>9. CASE RejectMark \/ AcceptMark
  BY <1>1, <1>9 DEF RejectMark, AcceptMark, CountMark, asking
<1>10. CASE Finalize
  <2>1. /\ phase = "validate" /\ phase' = "done" /\ outcome' = "answer"
        /\ UNCHANGED <<posts, error>>
    BY <1>10 DEF Finalize, Goto, asking
  <2>. QED
    BY <2>1 DEF RetryInv, RetriesAreRight, Last
<1>11. CASE UNCHANGED vars
  BY <1>1, <1>11 DEF vars
<1>. QED
  BY <1>2, <1>3, <1>4, <1>5, <1>6, <1>7, <1>8, <1>9, <1>10, <1>11
     DEF Next, AskStep, ValidateStep

\* The model is asked at most llm_max_retries + 1 times, again only after a failure
\* that may pass, and the query fails with the error of the last try.
THEOREM RetriesRight == Spec => []RetriesAreRight
<1>1. RetryInv => RetriesAreRight
  BY DEF RetryInv
<1>. QED
  BY <1>1, InitTypeInv, NextTypeInv, InitRetryInv, NextRetryInv, PTL DEF Spec

-----------------------------------------------------------------------------
(* Citations.  validate_citations() has sorted the markers in front of     *)
(* `mark`: those of the context are cited, once, and the others rejected.  *)

Marked == {text[p] : p \in 1..(mark - 1)}

CiteInv ==
    /\ NoRepeats(citations)
    /\ Elements(items) \subseteq Elements(candidates)
    /\ phase = "validate" => /\ Elements(citations) = Marked \cap Elements(items)
                             /\ rejected = Marked \ Elements(items)
    /\ AnswerIsSupported

LEMMA InitCiteInv == Init => CiteInv
  BY DEF Init, CiteInv, NoRepeats, Elements, AnswerIsSupported

LEMMA NextCiteInv ==
    TypeInv /\ TypeInv' /\ RankInv' /\ ContextInv' /\ RetryInv /\ CiteInv /\ [Next]_vars
       => CiteInv'
<1> SUFFICES ASSUME TypeInv, TypeInv', RankInv', ContextInv', RetryInv, CiteInv, [Next]_vars
             PROVE  CiteInv'
    OBVIOUS
<1>0. /\ items \in Seq(Ids) /\ citations \in Seq(Ids) /\ text \in Seq(Ids \cup Unknown \cup {Removed})
      /\ phase # "done" => outcome = "none" /\ text \in Seq(Ids \cup Unknown)
      /\ mark \in 1..(Len(text) + 1)
      /\ phase \in {"rerank", "build", "ask"} => mark = 1 /\ citations = <<>> /\ rejected = {}
  BY DEF TypeInv, TypeOK, Untouched
<1>1. Elements(items)' \subseteq Elements(candidates)'
  <2>1. next' \in 1..(Len(ranked') + 1) /\ ranked' \in Seq(Ids)
    BY DEF TypeInv, TypeOK
  <2>2. Elements(items') = Before(next)'
    BY DEF ContextInv
  <2>3. Before(next)' \subseteq Elements(ranked')
    BY <2>1 DEF Before, Elements
  <2>4. Elements(ranked)' \subseteq Elements(candidates)'
    BY DEF RankInv
  <2>. QED
    BY <2>2, <2>3, <2>4
<1>2. CASE /\ phase' # "validate" /\ outcome' # "answer" /\ UNCHANGED citations
  BY <1>1, <1>2 DEF CiteInv, AnswerIsSupported, NoRepeats
<1>3. CASE RerankStep
  BY <1>0, <1>2, <1>3 DEF RerankStep, SkipRerank, MockRerank, CrossEncode, Rank, Goto, Fail, citing
<1>4. CASE BuildStep
  BY <1>0, <1>2, <1>4 DEF BuildStep, SkipSeen, TakeChunk, StopFull, TakeAll, MoreRanked, Goto, citing
<1>5. ASSUME NEW o \in Transient, PostFails(o)
      PROVE  CiteInv'
  BY <1>0, <1>2, <1>5 DEF PostFails, Post, citing
<1>6. ASSUME NEW o \in Final, PostRefused(o)
      PROVE  CiteInv'
  <2>1. outcome' # "answer"
    BY <1>6, ErrorsAreExceptions DEF PostRefused, Fail
  <2>. QED
    BY <1>2, <1>6, <2>1 DEF PostRefused, Fail, Goto, citing
<1>7. ASSUME NEW t, Receive(t), UNCHANGED <<citing, outcome>>
      PROVE  CiteInv'
  <2>1. /\ phase' = "validate" /\ outcome' = "none" /\ citations' = <<>> /\ rejected' = {}
        /\ mark' = 1
    BY <1>0, <1>7 DEF Receive, Goto, citing
  <2>2. Elements(citations') = {} /\ Marked' = {} /\ NoRepeats(citations')
    BY <2>1 DEF Elements, Marked, NoRepeats
  <2>. QED
    BY <1>1, <2>1, <2>2 DEF CiteInv, AnswerIsSupported
<1>8. CASE GiveUp
  <2>1. /\ posts # <<>> /\ phase = "ask" /\ phase' = "done" /\ outcome' = error
        /\ UNCHANGED citations
    <3>1. MaxRetries \in Nat
      BY AnsweringAssumption DEF AnsweringAssumption
    <3>. QED
      BY <1>8, <3>1 DEF GiveUp, Fail, Goto, citing
  <2>2. outcome' # "answer"
    BY <2>1, ErrorsAreExceptions DEF RetryInv
  <2>. QED
    BY <1>2, <2>1, <2>2
<1>9. CASE RejectMark
  <2>1. /\ phase' = "validate" /\ outcome' = "none" /\ mark' = mark + 1
        /\ mark <= Len(text) /\ UNCHANGED <<citations, items, text>>
        /\ text[mark] \notin Elements(items)
        /\ rejected' = rejected \cup {text[mark]} /\ phase = "validate"
    BY <1>0, <1>9 DEF RejectMark, MoreMarks, InContext, building
  <2>2. Marked' = Marked \cup {text[mark]}
    BY <1>0, <2>1 DEF Marked
  <2>. QED
    BY <1>1, <2>1, <2>2 DEF CiteInv, AnswerIsSupported
<1>10. CASE AcceptMark
  <2>1. /\ phase' = "validate" /\ outcome' = "none" /\ mark' = mark + 1
        /\ mark <= Len(text) /\ UNCHANGED <<rejected, items, text>>
        /\ text[mark] \in Elements(items) /\ phase = "validate"
        /\ citations' = IF text[mark] \notin Elements(citations)
                         THEN Append(citations, text[mark]) ELSE citations
    BY <1>0, <1>10 DEF AcceptMark, CountMark, MoreMarks, InContext, building
  <2>2. Marked' = Marked \cup {text[mark]}
    BY <1>0, <2>1 DEF Marked
  <2>3. Elements(citations') = Elements(citations) \cup {text[mark]}
    BY <1>0, <2>1, AppendElements
  <2>4. NoRepeats(citations')
    BY <1>0, <2>1, AppendNew DEF CiteInv
  <2>. QED
    BY <1>1, <2>1, <2>2, <2>3, <2>4 DEF CiteInv, AnswerIsSupported
<1>11. CASE Finalize
  <2>1. /\ phase = "validate" /\ phase' = "done" /\ mark > Len(text)
        /\ text' = [p \in DOMAIN text |-> IF text[p] \in rejected THEN Removed ELSE text[p]]
        /\ confidence' = Confidence /\ UNCHANGED <<items, citations, candidates>>
    BY <1>11 DEF Finalize, Goto, building, reranking, citing
  <2>2. Marked = Elements(text)
    BY <1>0, <2>1 DEF Marked, Elements
  <2>3. Elements(citations) = Elements(text) \ rejected /\ Elements(citations) \subseteq Elements(items)
    BY <2>1, <2>2 DEF CiteInv
  <2>4. Removed \notin Elements(text)
    BY <1>0, <2>1, AnsweringAssumption DEF Elements, AnsweringAssumption
  <2>5. Elements(text') \ {Removed} = Elements(text) \ rejected
    BY <2>1, <2>4 DEF Elements
  <2>6. Cardinality(Elements(citations)) = Len(citations)
    BY <1>0, CountElements DEF CiteInv
  <2>7. confidence'[1] > 0 <=> \E p \in 1..Least(3, Len(items)) : items[p] \in Elements(citations)
    BY <1>0, <2>1, ConfidenceIsShare
  <2>8. AnswerIsSupported'
    <3>1. /\ Elements(text') \ {Removed} = Elements(citations')
          /\ Elements(citations') \subseteq Elements(items')
      BY ONLY <2>1, <2>3, <2>5
    <3>2. Cardinality(Elements(citations')) = Len(citations')
      BY ONLY <2>1, <2>6
    <3>3. confidence'[1] > 0 <=> \E p \in 1..Least(3, Len(items')) : items'[p] \in Elements(text')
      <4>1. \A p \in 1..Least(3, Len(items)) : items[p] # Removed
        <5>1. Len(items) \in Nat
          BY <1>0
        <5>2. Least(3, Len(items)) <= Len(items) /\ Least(3, Len(items)) \in Nat
          BY ONLY <5>1, LeastIsLess
        <5>. QED
          BY <1>0, <5>1, <5>2, AnsweringAssumption DEF AnsweringAssumption
      <4>. QED
        BY ONLY <2>1, <2>7, <3>1, <4>1
    <3>. QED
      BY ONLY <1>1, <3>1, <3>2, <3>3 DEF AnswerIsSupported
  <2>. QED
    BY <1>1, <2>1, <2>8 DEF CiteInv, NoRepeats
<1>12. CASE UNCHANGED vars
  BY <1>12 DEF vars, CiteInv, AnswerIsSupported, Marked
<1>. QED
  BY <1>3, <1>4, <1>5, <1>6, <1>7, <1>8, <1>9, <1>10, <1>11, <1>12
     DEF Next, AskStep, ValidateStep, MockComplete, PostSucceeds

\* An answer cites chunks of its context only, each once, and its citations are what
\* its text cites; its confidence counts cited chunks.
THEOREM AnswersAreSupported == Spec => []AnswerIsSupported
<1>1. CiteInv => AnswerIsSupported
  BY DEF CiteInv
<1>. QED
  BY <1>1, InitTypeInv, NextTypeInv, InitRankInv, NextRankInv, InitContextInv, NextContextInv,
     InitRetryInv, NextRetryInv, InitCiteInv, NextCiteInv, PTL DEF Spec
=============================================================================
