-------------------------- MODULE EvaluationProofs --------------------------
(***************************************************************************)
(* Proofs about hybrid fusion and evaluation for every set of chunks, all  *)
(* scores, weights, cuts and gold: a chunk that both rankings put before   *)
(* another one stays before it, every measure is a number from 0 to 1, and *)
(* the measures of a case say the same of it.                              *)
(***************************************************************************)
EXTENDS Evaluation, Induction

-----------------------------------------------------------------------------
(* Rounded ratios.                                                         *)

\* x \div y is at least q just when x is at least q times y.
LEMMA AtLeast ==
    ASSUME NEW x \in Int, NEW y \in Nat \ {0}, NEW q \in Int
    PROVE  x \div y >= q <=> x >= q * y
<1> DEFINE d == x \div y
           r == x % y
<1>1. d \in Int /\ r \in 0..(y - 1) /\ x = y * d + r
  OBVIOUS
<1> HIDE DEF d, r
<1>2. CASE d >= q
  <2>1. (d - q) * y >= 0
    BY <1>1, <1>2
  <2>2. d * y - q * y >= 0
    BY <1>1, <2>1
  <2>. QED
    BY <1>1, <1>2, <2>2 DEF d
<1>3. CASE d <= q - 1
  <2>1. (q - 1 - d) * y >= 0
    BY <1>1, <1>3
  <2>2. q * y - y - d * y >= 0
    BY <1>1, <2>1
  <2>. QED
    BY <1>1, <1>3, <2>2 DEF d
<1>. QED
  BY <1>1, <1>2, <1>3

\* A share is from 0 to 1; it is 0 for nothing, more than 0 unless it is rounded away,
\* and 1 when nothing, or less than what rounding sees, is missing.
LEMMA RatioLaws ==
    ASSUME NEW a \in Nat, NEW b \in Nat \ {0}, a <= b
    PROVE  /\ Ratio(a, b) \in 0..One
           /\ a = 0 => Ratio(a, b) = 0
           /\ 2 * a * One >= b => Ratio(a, b) > 0
           /\ Ratio(a, b) = One <=> 2 * (b - a) * One <= b
<1> DEFINE x == 2 * a * One + b
           y == 2 * b
           d == Ratio(a, b)
<1>1. x \in Int /\ y \in Nat \ {0} /\ 0 \in Int /\ 1 \in Int /\ One \in Int /\ One + 1 \in Int
  BY DEF One
<1>2. d = x \div y
  BY DEF Ratio
<1>3. /\ d >= 0 <=> x >= 0 * y
      /\ d >= 1 <=> x >= 1 * y
      /\ d >= One <=> x >= One * y
      /\ d >= One + 1 <=> x >= (One + 1) * y
  <2> HIDE DEF x, y
  <2>. QED
    BY ONLY <1>1, <1>2, AtLeast
<1>4. d \in Int
  <2> HIDE DEF x, y
  <2>. QED
    BY ONLY <1>1, <1>2
<1> HIDE DEF d
<1>5. /\ d >= 0
      /\ d >= 1 <=> 20000 * a >= b
      /\ d >= 10000 <=> 20000 * a + b >= 20000 * b
      /\ d < 10001
  BY <1>3, <1>4 DEF One
<1>6. /\ d \in 0..10000 /\ (a = 0 => d = 0) /\ (20000 * a >= b => d > 0)
      /\ d = 10000 <=> 20000 * (b - a) <= b
  BY <1>4, <1>5
<1>. QED
  BY <1>6 DEF One, d
-----------------------------------------------------------------------------
(* Greatest and least members, and places in a ranking.                    *)

LEMMA ImageIsFinite ==
    ASSUME NEW f, IsFiniteSet(DOMAIN f)
    PROVE  LET T == {f[x] : x \in DOMAIN f}
           IN  IsFiniteSet(T) /\ Cardinality(T) <= Cardinality(DOMAIN f)
<1> DEFINE S == DOMAIN f
           T == {f[x] : x \in S}
           g == [x \in S |-> f[x]]
<1>1. g \in Surjection(S, T)
  BY DEF Surjection
<1>. QED
  BY <1>1, FS_Surjection

LEMMA Extremes ==
    ASSUME NEW S \in SUBSET Int, IsFiniteSet(S), S # {}
    PROVE  /\ Max(S) \in S /\ \A x \in S : x <= Max(S)
           /\ Min(S) \in S /\ \A x \in S : Min(S) <= x
<1> DEFINE Top(T) == \E x \in T : \A y \in T : y <= x
           Bottom(T) == \E x \in T : \A y \in T : x <= y
           P == [T \in SUBSET S |-> T = {} \/ (Top(T) /\ Bottom(T))]
<1>1. P[{}]
  OBVIOUS
<1>2. ASSUME NEW T \in SUBSET S, NEW x \in S \ T, P[T]
      PROVE  P[T \cup {x}]
  <2>1. CASE T = {}
    <3>1. T \cup {x} = {x} /\ x <= x
      BY <2>1, x \in Int
    <3>2. Top({x}) /\ Bottom({x})
      BY <3>1
    <3>. QED
      BY <3>1, <3>2
  <2>2. CASE Top(T) /\ Bottom(T)
    <3>1. Top(T \cup {x})
      <4>1. PICK t \in T : \A y \in T : y <= t
        BY <2>2
      <4>. QED
        BY <4>1, x \in Int, T \subseteq Int
    <3>2. Bottom(T \cup {x})
      <4>1. PICK t \in T : \A y \in T : t <= y
        BY <2>2
      <4>. QED
        BY <4>1, x \in Int, T \subseteq Int
    <3>3. T \cup {x} \in SUBSET S
      OBVIOUS
    <3> HIDE DEF Top, Bottom
    <3>. QED
      BY <3>1, <3>2, <3>3
  <2>. QED
    BY <1>2, <2>1, <2>2
<1>3. P \in [SUBSET S -> BOOLEAN]
  OBVIOUS
<1>4. P[S]
  <2> HIDE DEF P
  <2>. QED
    BY <1>1, <1>2, <1>3, SetInduction
<1>. QED
  BY <1>4 DEF Max, Min

\* A set of hits for ranking: each chunk once.
IsHits(H) ==
    /\ IsFiniteSet(H)
    /\ \A h \in H : h.id \in Int /\ h.score \in Int
    /\ \A g, h \in H : g.id = h.id => g = h

Ahead(H, h) == {g \in H : Before(g, h)}

LEMMA BeforeOrders ==
    ASSUME NEW H, IsHits(H), NEW g \in H, NEW h \in H, NEW k \in H
    PROVE  /\ ~Before(g, g)
           /\ g # h => Before(g, h) \/ Before(h, g)
           /\ Before(g, h) /\ Before(h, k) => Before(g, k)
  BY DEF IsHits, Before

\* Each hit has a place of its own in the ranking, the better one of two comes first, and
\* each place is taken.
LEMMA PlacesInRanking ==
    ASSUME NEW H, IsHits(H)
    PROVE  LET n == Cardinality(H)
               place == [h \in H |-> Cardinality(Ahead(H, h)) + 1]
           IN  /\ n \in Nat /\ place \in Bijection(H, 1..n)
               /\ \A g, h \in H : Before(g, h) => place[g] < place[h]
<1> DEFINE n == Cardinality(H)
           size == [h \in H |-> Cardinality(Ahead(H, h))]
           place == [h \in H |-> Cardinality(Ahead(H, h)) + 1]
<1>1. n \in Nat /\ IsFiniteSet(H)
  BY FS_CardinalityType DEF IsHits
<1>2. \A h \in H : /\ Ahead(H, h) \subseteq H /\ h \in H \ Ahead(H, h)
                   /\ IsFiniteSet(Ahead(H, h)) /\ size[h] \in Nat
                   /\ size[h] <= n /\ size[h] # n
  <2>1. \A h \in H : Ahead(H, h) \subseteq H /\ h \notin Ahead(H, h)
    BY BeforeOrders DEF Ahead
  <2>. QED
    BY <1>1, <2>1, FS_Subset, FS_CardinalityType
<1>3. ASSUME NEW g \in H, NEW h \in H, Before(g, h)
      PROVE  size[g] < size[h]
  <2>1. Ahead(H, g) \subseteq Ahead(H, h)
    BY <1>3, BeforeOrders DEF Ahead
  <2>2. g \in Ahead(H, h) \ Ahead(H, g)
    BY <1>3, BeforeOrders DEF Ahead
  <2>3. size[g] <= size[h] /\ size[g] # size[h]
    BY <1>2, <2>1, <2>2, FS_Subset
  <2> HIDE DEF size
  <2>. QED
    BY <1>2, <2>3
<1>4. /\ \A h \in H : place[h] = size[h] + 1
      /\ place \in [H -> 1..n]
  <2>1. \A h \in H : place[h] = size[h] + 1
    OBVIOUS
  <2>2. \A h \in H : size[h] + 1 \in 1..n
    <3> HIDE DEF size, n
    <3>. QED
      BY <1>1, <1>2
  <2>. QED
    BY <2>1, <2>2
<1>5. \A g, h \in H : Before(g, h) => place[g] < place[h]
  <2> HIDE DEF size, place
  <2>. QED
    BY <1>2, <1>3, <1>4
<1>6. \A g, h \in H : place[g] = place[h] => g = h
  <2> SUFFICES ASSUME NEW g \in H, NEW h \in H, g # h
               PROVE  place[g] # place[h]
    OBVIOUS
  <2>1. Before(g, h) \/ Before(h, g)
    BY BeforeOrders
  <2>2. place[g] \in Int /\ place[h] \in Int
    BY ONLY <1>4, g \in H, h \in H
  <2> HIDE DEF place
  <2>. QED
    BY <1>5, <2>1, <2>2
<1>7. place \in Injection(H, 1..n)
  BY <1>4, <1>6 DEF Injection, IsInjective
<1>8. Cardinality(1..n) = n /\ IsFiniteSet(1..n)
  BY <1>1, FS_Interval
<1>9. place \in Surjection(H, 1..n)
  <2> DEFINE D == 1..n
  <2> HIDE DEF D, place, n
  <2>. QED
    BY <1>1, <1>7, <1>8, FS_Injection DEF D, n
<1>. QED
  BY <1>1, <1>5, <1>7, <1>9 DEF Bijection

\* sort by (-score, chunk_id): the hits in order, each once.
LEMMA RankedIsSorted ==
    ASSUME NEW H, IsHits(H)
    PROVE  LET R == Ranked(H)
           IN  /\ R \in Seq(H) /\ Len(R) = Cardinality(H)
               /\ \A h \in H : \E i \in 1..Len(R) : R[i] = h
               /\ \A i, j \in 1..Len(R) : R[i] = R[j] => i = j
               /\ \A i, j \in 1..Len(R) : Before(R[i], R[j]) => i < j
<1> DEFINE n == Cardinality(H)
           D == 1..n
           place == [h \in H |-> Cardinality(Ahead(H, h)) + 1]
           R == Ranked(H)
<1>1. /\ n \in Nat /\ place \in Bijection(H, D)
      /\ \A g, h \in H : Before(g, h) => place[g] < place[h]
  BY PlacesInRanking
<1>2. /\ place \in [H -> D]
      /\ \A g, h \in H : place[g] = place[h] => g = h
      /\ \A k \in D : \E h \in H : place[h] = k
  <2> HIDE DEF place, D
  <2>. QED
    BY <1>1 DEF Bijection, Injection, IsInjective, Surjection
<1>3. \A h \in H, k \in D : Cardinality(Ahead(H, h)) = k - 1 <=> place[h] = k
  <2> SUFFICES ASSUME NEW h \in H, NEW k \in D
               PROVE  Cardinality(Ahead(H, h)) = k - 1 <=> place[h] = k
    OBVIOUS
  <2>1. place[h] = Cardinality(Ahead(H, h)) + 1
    OBVIOUS
  <2>2. Cardinality(Ahead(H, h)) \in Nat
    BY FS_Subset, FS_CardinalityType DEF Ahead, IsHits
  <2> HIDE DEF place
  <2>3. k \in Int
    BY <1>1
  <2>. QED
    BY <2>1, <2>2, <2>3
<1>4. R = [k \in D |-> CHOOSE h \in H : Cardinality(Ahead(H, h)) = k - 1]
  BY DEF Ranked, Ahead
<1> HIDE DEF place, R
<1>5. \A k \in D : R[k] \in H /\ place[R[k]] = k
  <2> SUFFICES ASSUME NEW k \in D
               PROVE  R[k] \in H /\ place[R[k]] = k
    OBVIOUS
  <2>1. \E h \in H : Cardinality(Ahead(H, h)) = k - 1
    BY <1>2, <1>3
  <2>2. R[k] = CHOOSE h \in H : Cardinality(Ahead(H, h)) = k - 1
    BY <1>4
  <2>3. R[k] \in H /\ Cardinality(Ahead(H, R[k])) = k - 1
    BY <2>1, <2>2
  <2>. QED
    BY <1>3, <2>3
<1>6. R \in Seq(H) /\ Len(R) = n /\ 1..Len(R) = D
  BY <1>1, <1>4, <1>5
<1>7. \A h \in H : place[h] \in D /\ R[place[h]] = h
  BY <1>2, <1>5
<1>8. \A i, j \in D : Before(R[i], R[j]) => i < j
  BY <1>1, <1>5
<1> HIDE DEF D, n
<1>. QED
  BY <1>5, <1>6, <1>7, <1>8 DEF R, n

-----------------------------------------------------------------------------
(* Lists of hits.                                                          *)

Hit == [id : Chunks, score : Int]

IsList(s) ==
    /\ s \in Seq(Hit)
    /\ \A i, j \in DOMAIN s : s[i].id = s[j].id => i = j

LEMMA IdsAreInts == Chunks \subseteq Int /\ IsFiniteSet(Chunks) /\ TopK \in Nat
<1>1. TopK \in 1..31 /\ Chunks \subseteq Nat /\ IsFiniteSet(Chunks)
  BY EvaluationAssumption, Zenon DEF EvaluationAssumption
<1>. QED
  BY ONLY <1>1

LEMMA PlaceOfHit ==
    ASSUME NEW s, IsList(s)
    PROVE  /\ \A i \in DOMAIN s : /\ s[i].id \in Ids(s) /\ PlaceOf(s, s[i].id) = i
                                 /\ ScoreOf(s, s[i].id) = s[i].score
           /\ \A c \in Ids(s) : /\ PlaceOf(s, c) \in DOMAIN s /\ s[PlaceOf(s, c)].id = c
                               /\ ScoreOf(s, c) \in Int /\ c \in Chunks
           /\ DOMAIN s = 1..Len(s) /\ Len(s) \in Nat
<1>1. DOMAIN s = 1..Len(s) /\ Len(s) \in Nat /\ \A i \in DOMAIN s : s[i] \in Hit
  BY DEF IsList
<1>2. \A i \in DOMAIN s : s[i].id \in Ids(s) /\ PlaceOf(s, s[i].id) = i
  BY DEF Ids, PlaceOf, IsList
<1>3. \A i \in DOMAIN s : ScoreOf(s, s[i].id) = s[i].score
  BY <1>2 DEF ScoreOf
<1>4. \A c \in Ids(s) : \E i \in DOMAIN s : c = s[i].id
  BY DEF Ids
<1>5. \A i \in DOMAIN s : s[i].id \in Chunks /\ s[i].score \in Int
  BY <1>1 DEF Hit
<1>6. ASSUME NEW c \in Ids(s)
      PROVE  /\ PlaceOf(s, c) \in DOMAIN s /\ s[PlaceOf(s, c)].id = c
             /\ ScoreOf(s, c) \in Int /\ c \in Chunks
  BY <1>2, <1>3, <1>4, <1>5
<1>. QED
  BY <1>1, <1>2, <1>3, <1>6

LEMMA MinOfTwo ==
    ASSUME NEW m \in Int, NEW n \in Int
    PROVE  Min({m, n}) = IF m <= n THEN m ELSE n
  BY DEF Min

LEMMA FirstOfSeq ==
    ASSUME NEW E, NEW s \in Seq(E), NEW n \in Nat
    PROVE  /\ FirstOf(s, n) \in Seq(E)
           /\ Len(FirstOf(s, n)) = Min({n, Len(s)}) /\ Len(FirstOf(s, n)) <= Len(s)
           /\ Len(FirstOf(s, n)) <= n
           /\ \A i \in 1..Len(FirstOf(s, n)) : FirstOf(s, n)[i] = s[i]
<1>1. Len(s) \in Nat /\ Min({n, Len(s)}) = IF n <= Len(s) THEN n ELSE Len(s)
  BY MinOfTwo
<1> DEFINE m == Min({n, Len(s)})
<1>2. m \in 0..Len(s) /\ m <= n
  BY <1>1
<1>3. FirstOf(s, n) = SubSeq(s, 1, m)
  BY DEF FirstOf
<1> HIDE DEF m
<1>4. SubSeq(s, 1, m) \in Seq(E) /\ Len(SubSeq(s, 1, m)) = m
  BY <1>1, <1>2
<1>5. \A i \in 1..m : SubSeq(s, 1, m)[i] = s[i]
  BY <1>1, <1>2
<1>6. m = Min({n, Len(s)})
  BY DEF m
<1>7. /\ FirstOf(s, n) \in Seq(E) /\ Len(FirstOf(s, n)) = m
      /\ \A i \in 1..m : FirstOf(s, n)[i] = s[i]
  BY ONLY <1>3, <1>4, <1>5, Zenon
<1>8. m <= Len(s) /\ m <= n
  BY <1>1, <1>2
<1>. QED
  BY ONLY <1>6, <1>7, <1>8, Zenon
-----------------------------------------------------------------------------
(* Fused scores.                                                           *)

LEMMA Products ==
    ASSUME NEW w \in Nat, NEW x \in Int, NEW y \in Int, x <= y
    PROVE  w * x <= w * y /\ (w > 0 /\ x < y => w * x < w * y)
<1>1. w * (y - x) >= 0 /\ (w > 0 /\ x < y => w * (y - x) > 0)
  OBVIOUS
<1>2. w * (y - x) = w * y - w * x
  OBVIOUS
<1>3. w * x \in Int /\ w * y \in Int
  OBVIOUS
<1>. QED
  BY ONLY <1>1, <1>2, <1>3

LEMMA Quotients ==
    ASSUME NEW x \in Nat, NEW y \in Nat, x <= y, NEW u \in Nat \ {0}, NEW r \in Nat \ {0}
    PROVE  /\ (x * u) \div r \in Nat /\ (y * u) \div r \in Nat
           /\ (x * u) \div r <= (y * u) \div r
           /\ x < y /\ r <= u => (x * u) \div r < (y * u) \div r
<1> DEFINE q == (x * u) \div r
           d == (y * u) \div r
           v == x * u
           z == y * u
<1>1. v \in Nat /\ z \in Nat /\ v <= z
  BY Products
<1>2. x < y => v + u <= z
  <2>1. SUFFICES ASSUME x < y PROVE x * u + u <= y * u
    OBVIOUS
  <2>2. u * (x + 1) <= u * y
    BY <2>1, Products
  <2>. QED
    BY <2>2
<1>3. q = v \div r /\ d = z \div r
  OBVIOUS
<1> HIDE DEF q, d, v, z
<1>4. q \in Int /\ d \in Int
  BY <1>1, <1>3
<1>5. v >= q * r /\ 0 <= q /\ 0 <= d
  <2>1. v >= 0 * r /\ z >= 0 * r
    BY <1>1
  <2>. QED
    BY <1>1, <1>3, <1>4, <2>1, AtLeast
<1>6. q <= d
  BY <1>1, <1>3, <1>4, <1>5, AtLeast
<1>7. ASSUME x < y, r <= u
      PROVE  d >= q + 1
  <2>1. q * r + r <= z
    BY <1>1, <1>2, <1>4, <1>5, <1>7
  <2>2. (q + 1) * r = q * r + r /\ q + 1 \in Int
    BY <1>4
  <2>. QED
    BY <1>1, <1>3, <2>1, <2>2, AtLeast
<1>. QED
  BY <1>4, <1>5, <1>6, <1>7 DEF q, d

\* The scores are close enough for Scale to tell them apart.
InRange(s) == \A i, j \in DOMAIN s : s[i].score - s[j].score <= Scale

LEMMA NormalizedKeepsOrder ==
    ASSUME NEW s, IsList(s), InRange(s)
    PROVE  /\ \A c \in Chunks : Normalized(s, c) \in Nat
           /\ \A c \in Chunks \ Ids(s) : Normalized(s, c) = 0
           /\ \A a, b \in Ids(s) :
                 /\ ScoreOf(s, a) <= ScoreOf(s, b) => Normalized(s, a) <= Normalized(s, b)
                 /\ ScoreOf(s, a) < ScoreOf(s, b) => Normalized(s, a) < Normalized(s, b)
<1> DEFINE D == DOMAIN s
           scores == {s[i].score : i \in D}
           range == Max(scores) - Min(scores)
           above(c) == ScoreOf(s, c) - Min(scores)
           N(c) == Normalized(s, c)
<1>1. Scale \in Nat \ {0}
  BY FusionAssumption DEF FusionAssumption
<1>2. \A c : c \notin Ids(s) => N(c) = 0
  BY DEF Normalized
<1>3. CASE Ids(s) = {}
  BY <1>2, <1>3
<1>4. CASE Ids(s) # {}
  <2>1. scores \in SUBSET Int /\ IsFiniteSet(scores) /\ scores # {}
    <3>1. IsFiniteSet(D) /\ D # {}
      BY <1>4, PlaceOfHit, FS_Interval DEF Ids
    <3>2. \A i \in D : s[i].score \in Int
      BY PlaceOfHit
    <3>3. IsFiniteSet(scores)
      <4> DEFINE f == [i \in D |-> s[i].score]
      <4>1. scores = {f[i] : i \in DOMAIN f} /\ DOMAIN f = D
        OBVIOUS
      <4> HIDE DEF f, D, scores
      <4>. QED
        BY <3>1, <4>1, ImageIsFinite
    <3>. QED
      BY <3>1, <3>2, <3>3
  <2>2. /\ Max(scores) \in scores /\ Min(scores) \in scores
        /\ \A x \in scores : Min(scores) <= x /\ x <= Max(scores)
    <3> HIDE DEF scores
    <3>. QED
      BY <2>1, Extremes
  <2>3. range \in Nat /\ range <= Scale
    <3>1. \A x, y \in scores : x - y <= Scale
      BY DEF InRange
    <3>2. Max(scores) \in Int /\ Min(scores) \in Int /\ Min(scores) <= Max(scores)
      BY <2>1, <2>2
    <3>. QED
      BY <2>2, <3>1, <3>2
  <2>4. ASSUME NEW c \in Ids(s)
        PROVE  /\ ScoreOf(s, c) \in scores /\ above(c) \in 0..range
               /\ ScoreOf(s, c) \in Int /\ Min(scores) \in Int
    <3>1. ScoreOf(s, c) \in scores
      BY PlaceOfHit DEF ScoreOf
    <3>2. /\ ScoreOf(s, c) \in Int /\ Min(scores) \in Int /\ Max(scores) \in Int
          /\ Min(scores) <= ScoreOf(s, c) /\ ScoreOf(s, c) <= Max(scores)
      <4> HIDE DEF scores
      <4>. QED
        BY <2>1, <2>2, <3>1
    <3> HIDE DEF scores
    <3>. QED
      BY <3>1, <3>2
  <2>5. \A c \in Ids(s) : N(c) = IF range = 0 THEN IF ScoreOf(s, c) > 0 THEN Scale ELSE 0
                                 ELSE (above(c) * Scale) \div range
    BY DEF Normalized
  <2>6. ASSUME NEW a \in Ids(s), NEW b \in Ids(s), ScoreOf(s, a) <= ScoreOf(s, b)
        PROVE  /\ N(a) \in Nat /\ N(a) <= N(b)
               /\ ScoreOf(s, a) < ScoreOf(s, b) => N(a) < N(b)
    <3>1. above(a) \in 0..range /\ above(b) \in 0..range /\ above(a) <= above(b)
          /\ (ScoreOf(s, a) < ScoreOf(s, b) => above(a) < above(b))
      BY <2>4, <2>6
    <3>2. ScoreOf(s, a) \in Int /\ ScoreOf(s, b) \in Int
      BY <2>4
    <3>3. CASE range = 0
      <4>1. above(a) = 0 /\ above(b) = 0
        BY <3>1, <3>3
      <4>2. ScoreOf(s, a) = ScoreOf(s, b)
        BY <2>4, <4>1
      <4> HIDE DEF range, N, above, scores
      <4>. QED
        BY <1>1, <2>5, <3>2, <3>3, <4>2
    <3>4. CASE range # 0
      <4> HIDE DEF range, N, above
      <4>1. above(a) \in Nat /\ above(b) \in Nat /\ range \in Nat \ {0}
        BY <2>3, <3>1, <3>4
      <4>2. N(a) = (above(a) * Scale) \div range /\ N(b) = (above(b) * Scale) \div range
        BY <2>5, <3>4
      <4>. QED
        BY <1>1, <2>3, <3>1, <4>1, <4>2, Quotients
    <3>. QED
      BY <3>3, <3>4
  <2>7. \A c \in Ids(s) : N(c) \in Nat /\ ScoreOf(s, c) \in Int
    <3> SUFFICES ASSUME NEW c \in Ids(s)
                 PROVE  N(c) \in Nat /\ ScoreOf(s, c) \in Int
      OBVIOUS
    <3>1. ScoreOf(s, c) \in Int
      BY <2>4, Zenon
    <3>2. ScoreOf(s, c) <= ScoreOf(s, c)
      BY ONLY <3>1
    <3> HIDE DEF N
    <3>. QED
      BY ONLY <2>6, <3>1, <3>2, c \in Ids(s), Zenon
  <2> HIDE DEF N
  <2>8. /\ \A c \in Chunks : N(c) \in Nat
        /\ \A c \in Chunks \ Ids(s) : N(c) = 0
    BY <1>2, <2>7
  <2>9. \A a, b \in Ids(s) :
           /\ ScoreOf(s, a) <= ScoreOf(s, b) => N(a) <= N(b)
           /\ ScoreOf(s, a) < ScoreOf(s, b) => N(a) < N(b)
    BY <2>6, <2>7
  <2>. QED
    BY ONLY <2>8, <2>9 DEF N
<1>. QED
  BY <1>3, <1>4

\* 1/(k + rank + 1) is less for a later rank, and Unit tells the two apart.
LEMMA Reciprocals ==
    ASSUME NEW u \in Nat, NEW m \in Nat \ {0}, NEW k \in Nat, m < k, m * k <= u
    PROVE  u \div k < u \div m /\ u \div k \in Nat /\ u \div m \in Nat
<1> DEFINE q == u \div k
           d == u \div m
<1>1. q \in Int /\ d \in Int /\ k \in Nat \ {0} /\ m \in Int
  OBVIOUS
<1>2. q >= m
  BY <1>1, AtLeast
<1>3. u >= q * k
  <2> HIDE DEF q
  <2>1. q >= q
    BY <1>1
  <2>. QED
    BY <1>1, <2>1, AtLeast DEF q
<1> HIDE DEF q, d
<1>4. q * (m + 1) <= q * k
  <2>1. q \in Nat /\ m + 1 <= k
    BY <1>1, <1>2
  <2>. QED
    BY <1>1, <2>1, Products
<1>5. u >= (q + 1) * m
  <2>1. q * (m + 1) = q * m + q /\ (q + 1) * m = q * m + m
    BY <1>1
  <2>2. q * m \in Int /\ q * k \in Int
    BY <1>1
  <2>. QED
    BY ONLY u \in Nat, <1>1, <1>2, <1>3, <1>4, <2>1, <2>2
<1>6. d >= q + 1
  <2>1. q + 1 \in Int
    BY <1>1
  <2>. QED
    BY <1>5, <2>1, AtLeast DEF d
<1>. QED
  BY <1>1, <1>2, <1>6 DEF q, d

LEMMA RanksKeepOrder ==
    ASSUME NEW s, IsList(s), Len(s) <= 2 * TopK
    PROVE  /\ \A c \in Chunks : ReciprocalRank(s, c) \in Nat
           /\ \A c \in Chunks \ Ids(s) : ReciprocalRank(s, c) = 0
           /\ \A a, b \in Ids(s) :
                 /\ PlaceOf(s, b) <= PlaceOf(s, a) => ReciprocalRank(s, a) <= ReciprocalRank(s, b)
                 /\ PlaceOf(s, b) < PlaceOf(s, a) => ReciprocalRank(s, a) < ReciprocalRank(s, b)
<1> DEFINE R(c) == ReciprocalRank(s, c)
           z == RrfK + 2 * TopK
<1>1. RrfK \in Nat /\ Unit \in Nat /\ TopK \in Nat /\ z \in Nat
  BY FusionAssumption, IdsAreInts DEF FusionAssumption
<1>2. z * (z + 1) <= Unit
  BY RoundingAssumption, Zenon DEF RoundingAssumption
<1>3. \A c : c \notin Ids(s) => R(c) = 0
  BY DEF ReciprocalRank
<1>4. \A c \in Ids(s) : PlaceOf(s, c) \in 1..(2 * TopK) /\ R(c) = Unit \div (RrfK + PlaceOf(s, c))
  <2>1. \A c \in Ids(s) : PlaceOf(s, c) \in 1..Len(s) /\ Len(s) \in Nat
    BY PlaceOfHit
  <2>. QED
    BY <1>1, <2>1 DEF ReciprocalRank
<1>5. ASSUME NEW a \in Ids(s), NEW b \in Ids(s), PlaceOf(s, b) < PlaceOf(s, a)
      PROVE  R(a) < R(b)
  <2> DEFINE m == RrfK + PlaceOf(s, b)
             k == RrfK + PlaceOf(s, a)
  <2>1. m \in Nat \ {0} /\ k \in Nat /\ m < k /\ k <= z /\ m <= z + 1
    BY <1>1, <1>4, <1>5
  <2>2. R(a) = Unit \div k /\ R(b) = Unit \div m
    BY <1>4
  <2> HIDE DEF m, k, z
  <2>3. m * k <= m * z /\ z * m <= z * (z + 1)
    <3>1. z + 1 \in Int /\ z \in Nat /\ m \in Nat /\ m \in Int /\ k \in Int /\ z \in Int
      BY <1>1, <2>1
    <3>. QED
      BY <2>1, <3>1, Products
  <2>4. m * k <= Unit
    <3>1. m * z = z * m /\ m * k \in Int /\ z * m \in Int /\ z * (z + 1) \in Int
      BY <1>1, <2>1
    <3>. QED
      BY ONLY <1>1, <1>2, <2>3, <3>1
  <2>5. Unit \div k < Unit \div m
    BY ONLY <1>1, <2>1, <2>4, Reciprocals
  <2> HIDE DEF R
  <2>. QED
    BY ONLY <2>2, <2>5, Zenon
<1>6. \A c \in Ids(s) : R(c) \in Nat
  <2> SUFFICES ASSUME NEW c \in Ids(s)
               PROVE  R(c) \in Nat
    OBVIOUS
  <2> DEFINE m == RrfK + PlaceOf(s, c)
  <2>1. m \in Nat \ {0} /\ R(c) = Unit \div m
    BY <1>1, <1>4
  <2> HIDE DEF m, R
  <2>2. Unit \div m \in Int /\ Unit >= 0 * m /\ 0 \in Int
    BY <1>1, <2>1
  <2>3. Unit \div m >= 0
    BY <1>1, <2>1, <2>2, AtLeast
  <2>. QED
    BY <2>1, <2>2, <2>3
<1>7. \A a, b \in Ids(s) : PlaceOf(s, a) = PlaceOf(s, b) => a = b
  BY PlaceOfHit
<1>8. \A a, b \in Ids(s) : PlaceOf(s, b) <= PlaceOf(s, a) => R(a) <= R(b)
  <2> SUFFICES ASSUME NEW a \in Ids(s), NEW b \in Ids(s), PlaceOf(s, b) <= PlaceOf(s, a)
               PROVE  R(a) <= R(b)
    OBVIOUS
  <2>1. PlaceOf(s, b) \in Int /\ PlaceOf(s, a) \in Int
    BY <1>4
  <2>2. PlaceOf(s, b) < PlaceOf(s, a) \/ a = b
    BY <1>7, <2>1
  <2> HIDE DEF R
  <2>. QED
    BY <1>5, <1>6, <2>2
<1> HIDE DEF R
<1>9. /\ \A c \in Chunks : R(c) \in Nat
      /\ \A c \in Chunks \ Ids(s) : R(c) = 0
  BY <1>3, <1>6
<1>. QED
  BY ONLY <1>5, <1>8, <1>9 DEF R

\* What a retriever returns, for scores that Scale tells apart.
IsHitList(s) == IsList(s) /\ InRange(s) /\ Len(s) <= 2 * TopK

IsRetrieval(r) == IsHitList(r.dense) /\ IsHitList(r.lexical)

LEMMA WeightsAdd ==
    ASSUME NEW v \in Nat, NEW w \in Nat,
           NEW p \in Nat, NEW q \in Nat, NEW x \in Nat, NEW y \in Nat, p <= q, x <= y
    PROVE  /\ v * p + w * x \in Nat /\ v * q + w * y \in Nat
           /\ v * p + w * x <= v * q + w * y
           /\ (v > 0 /\ p < q) \/ (w > 0 /\ x < y) => v * p + w * x < v * q + w * y
<1>1. /\ v * p <= v * q /\ (v > 0 /\ p < q => v * p < v * q)
      /\ w * x <= w * y /\ (w > 0 /\ x < y => w * x < w * y)
  BY Products
<1>2. v * p \in Nat /\ v * q \in Nat /\ w * x \in Nat /\ w * y \in Nat
  OBVIOUS
<1>. QED
  BY ONLY <1>1, <1>2

LEMMA FusedScoreIsNat ==
    ASSUME NEW kind, NEW r, IsRetrieval(r), NEW c \in Chunks
    PROVE  FusedScore(kind, r.dense, r.lexical, c) \in Nat
<1>1. Alpha \in Nat /\ AlphaOf - Alpha \in Nat
  BY FusionAssumption DEF FusionAssumption
<1>2. /\ Normalized(r.dense, c) \in Nat /\ Normalized(r.lexical, c) \in Nat
      /\ ReciprocalRank(r.dense, c) \in Nat /\ ReciprocalRank(r.lexical, c) \in Nat
  BY NormalizedKeepsOrder, RanksKeepOrder DEF IsRetrieval, IsHitList
<1>. QED
  BY <1>1, <1>2 DEF FusedScore, LinearScore, RrfScore

\* A better chunk has a better score, whichever way the lists are fused.
LEMMA BetterScoresMore ==
    ASSUME NEW kind, NEW r, IsRetrieval(r), NEW a \in Chunks, NEW b \in Chunks,
           Dominates(kind, r, b, a)
    PROVE  FusedScore(kind, r.dense, r.lexical, a) < FusedScore(kind, r.dense, r.lexical, b)
<1>1. Alpha \in Nat /\ AlphaOf - Alpha \in Nat /\ AlphaOf \in Nat
  BY FusionAssumption DEF FusionAssumption
<1>2. CASE kind = "rrf"
  <2> DEFINE R(s, c) == ReciprocalRank(s, c)
  <2>1. ASSUME NEW s, IsHitList(s), NotWorse(kind, s, b, a)
        PROVE  /\ R(s, a) \in Nat /\ R(s, b) \in Nat /\ R(s, a) <= R(s, b)
               /\ Better(kind, s, b, a) => R(s, a) < R(s, b)
    <3>1. R(s, a) \in Nat /\ R(s, b) \in Nat
      BY <2>1, RanksKeepOrder DEF IsHitList
    <3>2. CASE a \in Ids(s)
      BY <1>2, <2>1, <3>1, <3>2, RanksKeepOrder DEF IsHitList, NotWorse, Better
    <3>3. CASE a \notin Ids(s)
      <4>1. R(s, a) = 0 /\ ~Better(kind, s, b, a)
        BY <2>1, <3>3, RanksKeepOrder DEF IsHitList, Better
      <4> HIDE DEF R
      <4>. QED
        BY <3>1, <4>1
    <3>. QED
      BY <3>2, <3>3
  <2>2. \A c : FusedScore(kind, r.dense, r.lexical, c) = R(r.dense, c) + R(r.lexical, c)
    BY <1>2 DEF FusedScore, RrfScore
  <2> HIDE DEF R
  <2>. QED
    BY <1>2, <2>1, <2>2 DEF Dominates, IsRetrieval
<1>3. CASE kind # "rrf"
  <2> DEFINE N(s, c) == Normalized(s, c)
  <2>1. ASSUME NEW s, IsHitList(s), NotWorse(kind, s, b, a)
        PROVE  /\ N(s, a) \in Nat /\ N(s, b) \in Nat /\ N(s, a) <= N(s, b)
               /\ Better(kind, s, b, a) => N(s, a) < N(s, b)
    <3>1. N(s, a) \in Nat /\ N(s, b) \in Nat
      BY <2>1, NormalizedKeepsOrder DEF IsHitList
    <3>2. CASE a \in Ids(s)
      <4>1. b \in Ids(s) /\ ScoreOf(s, b) >= ScoreOf(s, a)
        BY <1>3, <2>1, <3>2 DEF NotWorse
      <4>2. ScoreOf(s, b) \in Int /\ ScoreOf(s, a) \in Int
        BY <2>1, <3>2, <4>1, PlaceOfHit DEF IsHitList
      <4>3. Better(kind, s, b, a) => ScoreOf(s, b) > ScoreOf(s, a)
        BY <1>3 DEF Better
      <4>4. ScoreOf(s, a) <= ScoreOf(s, b) /\ (ScoreOf(s, b) > ScoreOf(s, a) => ScoreOf(s, a) < ScoreOf(s, b))
        BY <4>1, <4>2
      <4>. QED
        BY <2>1, <3>1, <3>2, <4>1, <4>3, <4>4, NormalizedKeepsOrder DEF IsHitList
    <3>3. CASE a \notin Ids(s)
      <4>1. N(s, a) = 0 /\ ~Better(kind, s, b, a)
        BY <2>1, <3>3, NormalizedKeepsOrder DEF IsHitList, Better
      <4> HIDE DEF N
      <4>. QED
        BY <3>1, <4>1
    <3>. QED
      BY <3>2, <3>3
  <2>2. \A c : FusedScore(kind, r.dense, r.lexical, c)
                  = Alpha * N(r.dense, c) + (AlphaOf - Alpha) * N(r.lexical, c)
    BY <1>3 DEF FusedScore, LinearScore
  <2> HIDE DEF N
  <2>3. /\ NotWorse(kind, r.dense, b, a) /\ NotWorse(kind, r.lexical, b, a)
        /\ \/ Better(kind, r.dense, b, a) /\ Alpha > 0
           \/ Better(kind, r.lexical, b, a) /\ AlphaOf - Alpha > 0
    BY <1>1, <1>3 DEF Dominates
  <2>4. /\ N(r.dense, a) \in Nat /\ N(r.dense, b) \in Nat /\ N(r.dense, a) <= N(r.dense, b)
        /\ N(r.lexical, a) \in Nat /\ N(r.lexical, b) \in Nat /\ N(r.lexical, a) <= N(r.lexical, b)
        /\ \/ Alpha > 0 /\ N(r.dense, a) < N(r.dense, b)
           \/ AlphaOf - Alpha > 0 /\ N(r.lexical, a) < N(r.lexical, b)
    BY <2>1, <2>3 DEF IsRetrieval
  <2> DEFINE w == AlphaOf - Alpha
  <2>5. w \in Nat
    BY <1>1
  <2> HIDE DEF w
  <2>6. Alpha * N(r.dense, a) + w * N(r.lexical, a) < Alpha * N(r.dense, b) + w * N(r.lexical, b)
    <3>1. (Alpha > 0 /\ N(r.dense, a) < N(r.dense, b)) \/ (w > 0 /\ N(r.lexical, a) < N(r.lexical, b))
      BY <2>4 DEF w
    <3>. QED
      BY ONLY <1>1, <2>4, <2>5, <3>1, WeightsAdd
  <2>. QED
    BY <2>2, <2>6 DEF w
<1>. QED
  BY <1>2, <1>3

-----------------------------------------------------------------------------
(* Fusion.                                                                 *)

LEMMA MinOfThree ==
    ASSUME NEW x \in Int, NEW y \in Int, NEW z \in Int
    PROVE  Min({x, Min({y, z})}) = Min({x, y, z})
<1> DEFINE m == Min({y, z})
           n == Min({x, m})
<1>1. m \in {y, z} /\ m <= y /\ m <= z
  BY MinOfTwo
<1>2. n \in {x, m} /\ n <= x /\ n <= m
  <2> HIDE DEF m
  <2>. QED
    BY <1>1, MinOfTwo
<1> HIDE DEF m, n
<1>3. n \in {x, y, z} /\ \A w \in {x, y, z} : n <= w
  BY <1>1, <1>2
<1>4. \A v \in {x, y, z} : (\A w \in {x, y, z} : v <= w) => v = n
  BY <1>3
<1>. QED
  BY <1>3, <1>4 DEF Min, n, m

\* One hit for each chunk that either list has.
LEMMA FusedHits ==
    ASSUME NEW kind, NEW r, IsRetrieval(r)
    PROVE  LET all == Ids(r.dense) \cup Ids(r.lexical)
               S == Fused(kind, r.dense, r.lexical)
               F(c) == FusedScore(kind, r.dense, r.lexical, c)
           IN  /\ all \subseteq Chunks /\ IsFiniteSet(all)
               /\ S = {[id |-> c, score |-> F(c)] : c \in all}
               /\ IsHits(S) /\ S \subseteq Hit /\ Cardinality(S) = Cardinality(all)
<1> DEFINE all == Ids(r.dense) \cup Ids(r.lexical)
           S == Fused(kind, r.dense, r.lexical)
           F(c) == FusedScore(kind, r.dense, r.lexical, c)
           f == [c \in all |-> [id |-> c, score |-> F(c)]]
<1>1. all \subseteq Chunks
  BY PlaceOfHit DEF IsRetrieval, IsHitList
<1>2. IsFiniteSet(all)
  BY <1>1, IdsAreInts, FS_Subset
<1>3. S = {[id |-> c, score |-> F(c)] : c \in all}
  BY DEF Fused
<1>4. \A c \in all : F(c) \in Int /\ c \in Int
  <2> SUFFICES ASSUME NEW c \in all
               PROVE  F(c) \in Int /\ c \in Int
    OBVIOUS
  <2>1. c \in Chunks /\ c \in Int
    BY <1>1, IdsAreInts
  <2>2. F(c) \in Nat
    BY <2>1, FusedScoreIsNat
  <2>. QED
    BY <2>1, <2>2
<1>5. f \in [all -> S] /\ (\A c, d \in all : f[c] = f[d] => c = d) /\ \A h \in S : \E c \in all : f[c] = h
  <2> HIDE DEF F, S, all
  <2>. QED
    BY <1>3
<1>6. IsFiniteSet(S) /\ Cardinality(S) = Cardinality(all)
  <2> HIDE DEF f, S, all
  <2>. QED
    BY <1>2, <1>5, SameSize
<1>7. \A h \in S : h \in Hit /\ h.id \in Int /\ h.score \in Int
  <2> HIDE DEF F, S, all
  <2>. QED
    BY <1>1, <1>3, <1>4 DEF Hit
<1>8. \A g, h \in S : g.id = h.id => g = h
  <2> HIDE DEF F, S, all
  <2>. QED
    BY <1>3
<1>9. IsHits(S)
  BY ONLY <1>6, <1>7, <1>8 DEF IsHits
<1>10. S \subseteq Hit
  <2> HIDE DEF S
  <2>. QED
    BY <1>7
<1> HIDE DEF S, all
<1>11. /\ all \subseteq Chunks /\ IsFiniteSet(all)
       /\ S = {[id |-> c, score |-> F(c)] : c \in all}
       /\ IsHits(S) /\ S \subseteq Hit /\ Cardinality(S) = Cardinality(all)
  BY ONLY <1>1, <1>2, <1>3, <1>6, <1>9, <1>10
<1>. QED
  BY <1>11 DEF S, all

\* What a chunk is, once fused: it comes before those it dominates, and is not cut before
\* them.
LEMMA FusionRespectsBoth ==
    ASSUME NEW kind, NEW r, IsRetrieval(r), r.fused = Fuse(kind, r.dense, r.lexical, TopK)
    PROVE  /\ IsList(r.fused) /\ Len(r.fused) <= TopK
           /\ RespectsBoth(kind, r)
<1> DEFINE all == Ids(r.dense) \cup Ids(r.lexical)
           S == Fused(kind, r.dense, r.lexical)
           F(c) == FusedScore(kind, r.dense, r.lexical, c)
           R == Ranked(S)
           cut == FirstOf(R, CandidateLimit)
           m == Len(r.fused)
           fused == [i \in DOMAIN r.fused |-> r.fused[i].id]
<1>1. /\ all \subseteq Chunks /\ IsFiniteSet(all)
      /\ S = {[id |-> c, score |-> F(c)] : c \in all}
      /\ IsHits(S) /\ S \subseteq Hit /\ Cardinality(S) = Cardinality(all)
  BY FusedHits
<1>2. TopK \in Nat /\ CandidateLimit \in Nat /\ Cardinality(all) \in Nat
  BY <1>1, IdsAreInts, FusionAssumption, FS_CardinalityType DEF FusionAssumption
<1>3. /\ R \in Seq(S) /\ Len(R) = Cardinality(all)
      /\ \A h \in S : \E i \in 1..Len(R) : R[i] = h
      /\ \A i, j \in 1..Len(R) : R[i] = R[j] => i = j
      /\ \A i, j \in 1..Len(R) : Before(R[i], R[j]) => i < j
  <2> HIDE DEF S, all
  <2>1. IsHits(S) /\ Cardinality(S) = Cardinality(all)
    BY <1>1
  <2>2. /\ Ranked(S) \in Seq(S) /\ Len(Ranked(S)) = Cardinality(S)
        /\ \A h \in S : \E i \in 1..Len(Ranked(S)) : Ranked(S)[i] = h
        /\ \A i, j \in 1..Len(Ranked(S)) : Ranked(S)[i] = Ranked(S)[j] => i = j
        /\ \A i, j \in 1..Len(Ranked(S)) : Before(Ranked(S)[i], Ranked(S)[j]) => i < j
    BY ONLY <2>1, RankedIsSorted
  <2>. QED
    BY ONLY <2>1, <2>2 DEF R
<1>4. r.fused = FirstOf(cut, TopK)
  BY DEF Fuse
<1> HIDE DEF all, S, F, R, fused
<1>5. /\ cut \in Seq(S) /\ Len(cut) = Min({CandidateLimit, Len(R)}) /\ Len(cut) <= Len(R)
      /\ \A i \in 1..Len(cut) : cut[i] = R[i]
  <2>1. cut = FirstOf(R, CandidateLimit)
    OBVIOUS
  <2> HIDE DEF cut
  <2>2. /\ FirstOf(R, CandidateLimit) \in Seq(S)
        /\ Len(FirstOf(R, CandidateLimit)) = Min({CandidateLimit, Len(R)})
        /\ Len(FirstOf(R, CandidateLimit)) <= Len(R)
        /\ \A i \in 1..Len(FirstOf(R, CandidateLimit)) : FirstOf(R, CandidateLimit)[i] = R[i]
    BY ONLY <1>2, <1>3, FirstOfSeq
  <2>. QED
    BY ONLY <2>1, <2>2, Zenon
<1> HIDE DEF cut
<1>6. /\ r.fused \in Seq(S) /\ m = Min({TopK, Len(cut)}) /\ m <= Len(cut) /\ m <= TopK
      /\ \A i \in 1..m : r.fused[i] = cut[i]
  <2>1. /\ FirstOf(cut, TopK) \in Seq(S) /\ Len(FirstOf(cut, TopK)) = Min({TopK, Len(cut)})
        /\ Len(FirstOf(cut, TopK)) <= Len(cut) /\ Len(FirstOf(cut, TopK)) <= TopK
        /\ \A i \in 1..Len(FirstOf(cut, TopK)) : FirstOf(cut, TopK)[i] = cut[i]
    BY ONLY <1>2, <1>5, FirstOfSeq
  <2>. QED
    BY ONLY <1>4, <2>1, Zenon
<1>7. /\ m \in Nat /\ Len(R) \in Nat /\ Len(cut) \in Nat /\ m <= Len(R)
      /\ DOMAIN r.fused = 1..m
  <2>1. /\ Len(r.fused) \in Nat /\ DOMAIN r.fused = 1..Len(r.fused)
        /\ Len(R) \in Nat /\ Len(cut) \in Nat
    BY <1>3, <1>5, <1>6
  <2>2. Len(r.fused) <= Len(cut) /\ Len(cut) <= Len(R)
    BY <1>5, <1>6
  <2>. QED
    BY ONLY <2>1, <2>2
<1>8. \A i \in 1..m : r.fused[i] = R[i] /\ R[i] \in S /\ i \in 1..Len(R)
  <2>1. /\ m \in Nat /\ Len(R) \in Nat /\ Len(cut) \in Nat
        /\ m <= Len(cut) /\ Len(cut) <= Len(R)
    BY <1>5, <1>6, <1>7
  <2> HIDE DEF m
  <2>2. \A i \in 1..m : i \in 1..Len(cut) /\ i \in 1..Len(R)
    BY ONLY <2>1
  <2>3. \A i \in 1..Len(R) : R[i] \in S
    BY <1>3
  <2>. QED
    BY <1>5, <1>6, <2>2, <2>3
<1>9. \A g, h \in S : g.id = h.id => g = h
  BY <1>1 DEF IsHits
<1>10. IsList(r.fused)
  <2>1. r.fused \in Seq(Hit)
    BY <1>1, <1>6
  <2>2. \A i, j \in 1..m : r.fused[i].id = r.fused[j].id => i = j
    BY <1>3, <1>8, <1>9
  <2>. QED
    BY <1>7, <2>1, <2>2 DEF IsList
<1>11. m = Min({TopK, CandidateLimit, Cardinality(all)})
  <2>1. m = Min({TopK, Min({CandidateLimit, Cardinality(all)})})
    BY <1>3, <1>5, <1>6
  <2>. QED
    BY <1>2, <2>1, MinOfThree
<1>12. /\ fused \in [1..m -> all] /\ \A i \in 1..m : fused[i] = r.fused[i].id
       /\ Len(fused) = m /\ DOMAIN fused = 1..m
  <2>1. \A h \in S : h.id \in all
    BY <1>1
  <2>2. fused = [i \in 1..m |-> r.fused[i].id]
    BY <1>7 DEF fused
  <2>. QED
    BY <1>7, <1>8, <2>1, <2>2
<1>13. ToSet(fused) \subseteq all /\ IsInjective(fused)
  <2>1. \A i, j \in 1..m : fused[i] = fused[j] => i = j
    BY <1>7, <1>10, <1>12 DEF IsList
  <2>. QED
    BY <1>12, <2>1 DEF ToSet, IsInjective
<1>14. ASSUME NEW a \in all, NEW b \in all, Dominates(kind, r, b, a), a \in ToSet(fused)
       PROVE  b \in ToSet(fused) /\ PlaceOf(r.fused, b) < PlaceOf(r.fused, a)
  <2>1. F(a) \in Int /\ F(b) \in Int /\ F(a) < F(b)
    BY <1>1, <1>14, BetterScoresMore, FusedScoreIsNat DEF F
  <2>2. PICK i \in 1..m : fused[i] = a
    BY <1>12, <1>14 DEF ToSet
  <2> DEFINE g == [id |-> a, score |-> F(a)]
             h == [id |-> b, score |-> F(b)]
  <2>3. g \in S /\ h \in S /\ g.id = a /\ h.id = b
    BY <1>1
  <2>4. R[i] = g /\ i \in 1..Len(R)
    BY <1>8, <1>9, <1>12, <2>2, <2>3
  <2>5. PICK j \in 1..Len(R) : R[j] = h
    BY <1>3, <2>3
  <2>6. Before(h, g)
    BY <2>1 DEF Before
  <2> HIDE DEF g, h
  <2>7. j < i
    BY <1>3, <2>4, <2>5, <2>6
  <2>8. j \in 1..m /\ fused[j] = b
    <3>1. j \in 1..m
      BY <1>7, <2>2, <2>5, <2>7
    <3>. QED
      BY <1>8, <1>12, <2>3, <2>5, <3>1
  <2>9. PlaceOf(r.fused, b) = j /\ PlaceOf(r.fused, a) = i
    BY <1>7, <1>10, <1>12, <2>2, <2>8, PlaceOfHit
  <2>. QED
    BY <1>12, <2>7, <2>8, <2>9 DEF ToSet
<1>. QED
  BY <1>6, <1>10, <1>11, <1>12, <1>13, <1>14 DEF RespectsBoth, all, fused

\* A search finds each chunk once, and what it leaves out is no matter here.
LEMMA SearchIsHitList ==
    ASSUME NEW found \in SUBSET Chunks, NEW score \in [Chunks -> Int],
           \A c, d \in Chunks : score[c] - score[d] <= Scale
    PROVE  IsHitList(HitsOf(found, score, 2 * TopK))
<1> DEFINE S == {[id |-> c, score |-> score[c]] : c \in found}
           s == HitsOf(found, score, 2 * TopK)
           f == [c \in found |-> [id |-> c, score |-> score[c]]]
<1>1. Chunks \subseteq Int /\ 2 * TopK \in Nat /\ IsFiniteSet(found)
  <2>1. Chunks \subseteq Int /\ IsFiniteSet(Chunks) /\ TopK \in Nat
    BY IdsAreInts
  <2>2. IsFiniteSet(found)
    BY ONLY <2>1, found \in SUBSET Chunks, FS_Subset
  <2>. QED
    BY ONLY <2>1, <2>2
<1>2. IsFiniteSet(S)
  <2>1. S = {f[c] : c \in DOMAIN f} /\ IsFiniteSet(DOMAIN f)
    BY <1>1
  <2> HIDE DEF S, f
  <2>. QED
    BY <2>1, ImageIsFinite
<1>3. \A h \in S : h \in Hit /\ h.id \in Int /\ h.score \in Int /\ h.score = score[h.id]
  BY <1>1 DEF Hit
<1>4. \A g, h \in S : g.id = h.id => g = h
  OBVIOUS
<1> HIDE DEF S
<1>5. IsHits(S)
  BY ONLY <1>2, <1>3, <1>4 DEF IsHits
<1>6. /\ Ranked(S) \in Seq(S) /\ Len(Ranked(S)) \in Nat
      /\ \A i, j \in 1..Len(Ranked(S)) : Ranked(S)[i] = Ranked(S)[j] => i = j
  BY <1>5, RankedIsSorted
<1>7. s = FirstOf(Ranked(S), 2 * TopK)
  BY DEF HitsOf, S
<1> DEFINE R == Ranked(S)
           k == 2 * TopK
<1> HIDE DEF R, k, s
<1>8. /\ FirstOf(R, k) \in Seq(S) /\ Len(FirstOf(R, k)) <= k /\ Len(FirstOf(R, k)) <= Len(R)
      /\ \A i \in 1..Len(FirstOf(R, k)) : FirstOf(R, k)[i] = R[i]
  <2>1. R \in Seq(S) /\ k \in Nat
    BY <1>1, <1>6 DEF R, k
  <2>. QED
    BY ONLY <2>1, FirstOfSeq
<1>9. /\ s \in Seq(S) /\ Len(s) <= k /\ Len(s) <= Len(R)
      /\ \A i \in 1..Len(s) : s[i] = R[i]
  BY <1>7, <1>8 DEF R, k
<1>10. DOMAIN s = 1..Len(s) /\ Len(s) \in Nat /\ \A i \in 1..Len(s) : s[i] \in S /\ i \in 1..Len(R)
  <2>1. DOMAIN s = 1..Len(s) /\ Len(s) \in Nat /\ \A i \in 1..Len(s) : s[i] \in S
    BY <1>9
  <2>2. Len(R) \in Nat
    BY <1>6 DEF R
  <2>. QED
    BY <1>9, <2>1, <2>2
<1>11. IsList(s)
  <2>1. s \in Seq(Hit)
    BY <1>3, <1>9
  <2>2. \A i, j \in 1..Len(s) : s[i].id = s[j].id => i = j
    BY <1>4, <1>6, <1>9, <1>10 DEF R
  <2>. QED
    BY <1>10, <2>1, <2>2 DEF IsList
<1>12. InRange(s)
  <2>1. \A i \in 1..Len(s) : s[i].id \in Chunks /\ s[i].score = score[s[i].id]
    BY <1>3, <1>10 DEF Hit
  <2>. QED
    BY <1>10, <2>1 DEF InRange
<1>. QED
  BY <1>9, <1>11, <1>12 DEF IsHitList, k, s

LEMMA NothingIsHitList == IsHitList(<<>>)
<1>1. <<>> \in Seq(Hit) /\ DOMAIN <<>> = {} /\ Len(<<>>) = 0 /\ 0 <= 2 * TopK
  BY IdsAreInts
<1>. QED
  BY <1>1 DEF IsHitList, IsList, InRange

-----------------------------------------------------------------------------
(* Gains.                                                                  *)

\* A part of the terms makes no more than all of them.
LEMMA SumGrows ==
    ASSUME NEW S, IsFiniteSet(S), NEW f, \A x \in S : f[x] \in Nat, NEW T \in SUBSET S
    PROVE  SumFunctionOnSet(f, T) <= SumFunctionOnSet(f, S)
<1> DEFINE U == S \ T
           P == [V \in SUBSET U |-> SumFunctionOnSet(f, T) <= SumFunctionOnSet(f, T \cup V)]
<1>1. \A V \in SUBSET S : SumFunctionOnSet(f, V) \in Nat
  BY SumLaws
<1>2. P[{}]
  <2>1. T \cup {} = T /\ SumFunctionOnSet(f, T) \in Nat
    BY <1>1
  <2>2. SumFunctionOnSet(f, T \cup {}) = SumFunctionOnSet(f, T)
    BY ONLY <2>1, Zenon
  <2>3. SumFunctionOnSet(f, T) <= SumFunctionOnSet(f, T \cup {})
    BY ONLY <2>1, <2>2
  <2>. QED
    BY <2>3
<1>3. ASSUME NEW V \in SUBSET U, NEW x \in U \ V, P[V]
      PROVE  P[V \cup {x}]
  <2> DEFINE W == T \cup (V \cup {x})
  <2>1. W \in SUBSET S /\ x \in W /\ W \ {x} = T \cup V /\ T \cup V \in SUBSET S
    OBVIOUS
  <2>2. SumFunctionOnSet(f, W) = f[x] + SumFunctionOnSet(f, W \ {x})
    <3> HIDE DEF W
    <3>. QED
      BY <2>1, SumLaws
  <2>3. SumFunctionOnSet(f, T) <= SumFunctionOnSet(f, T \cup V)
    BY <1>3
  <2>4. /\ f[x] \in Nat /\ SumFunctionOnSet(f, T) \in Nat
        /\ SumFunctionOnSet(f, T \cup V) \in Nat
    BY <1>1, <2>1
  <2>5. SumFunctionOnSet(f, T) <= SumFunctionOnSet(f, W)
    BY <2>1, <2>2, <2>3, <2>4
  <2>. QED
    BY <2>5
<1>4. P \in [SUBSET U -> BOOLEAN] /\ IsFiniteSet(U)
  BY FS_Subset
<1>5. P[U]
  <2> HIDE DEF P
  <2>. QED
    BY <1>2, <1>3, <1>4, SetInduction
<1>6. T \cup U = S
  OBVIOUS
<1>. QED
  BY <1>5, <1>6

\* A sum of numbers from lo to hi is between that many times lo and that many times hi.
LEMMA SumBounds ==
    ASSUME NEW S, IsFiniteSet(S), NEW lo \in Nat, NEW hi \in Nat,
           NEW f, \A x \in S : f[x] \in lo..hi
    PROVE  /\ SumFunctionOnSet(f, S) \in Nat
           /\ Cardinality(S) * lo <= SumFunctionOnSet(f, S)
           /\ SumFunctionOnSet(f, S) <= Cardinality(S) * hi
<1> DEFINE P == [T \in SUBSET S |-> /\ Cardinality(T) * lo <= SumFunctionOnSet(f, T)
                                   /\ SumFunctionOnSet(f, T) <= Cardinality(T) * hi]
<1>1. /\ \A T \in SUBSET S : SumFunctionOnSet(f, T) \in Nat
      /\ SumFunctionOnSet(f, {}) = 0
      /\ \A T \in SUBSET S : \A x \in T :
            SumFunctionOnSet(f, T) = f[x] + SumFunctionOnSet(f, T \ {x})
  <2>1. \A x \in S : f[x] \in Nat
    OBVIOUS
  <2>. QED
    BY <2>1, SumLaws
<1>2. P[{}]
  <2>1. Cardinality({}) = 0 /\ 0 * lo = 0 /\ 0 * hi = 0
    BY FS_EmptySet
  <2>2. /\ Cardinality({}) * lo <= SumFunctionOnSet(f, {})
        /\ SumFunctionOnSet(f, {}) <= Cardinality({}) * hi
    BY ONLY <1>1, <2>1
  <2>. QED
    BY <2>2
<1>3. ASSUME NEW T \in SUBSET S, NEW x \in S \ T, P[T]
      PROVE  P[T \cup {x}]
  <2> DEFINE n == Cardinality(T)
             z == SumFunctionOnSet(f, T)
  <2>1. n \in Nat /\ Cardinality(T \cup {x}) = n + 1
    BY FS_Subset, FS_CardinalityType, FS_AddElement
  <2>2. (T \cup {x}) \ {x} = T /\ T \cup {x} \in SUBSET S /\ x \in T \cup {x}
    OBVIOUS
  <2>3. SumFunctionOnSet(f, T \cup {x}) = f[x] + z
    BY <1>1, <2>2
  <2>4. n * lo <= z /\ z <= n * hi /\ z \in Nat /\ f[x] \in lo..hi
    BY <1>1, <1>3
  <2> HIDE DEF n, z
  <2>5. /\ n * lo \in Int /\ n * hi \in Int
        /\ (n + 1) * lo = n * lo + lo /\ (n + 1) * hi = n * hi + hi
    BY <2>1
  <2>6. (n + 1) * lo <= f[x] + z /\ f[x] + z <= (n + 1) * hi
    BY ONLY lo \in Nat, hi \in Nat, <2>4, <2>5
  <2>. QED
    BY <2>1, <2>2, <2>3, <2>6
<1>4. P \in [SUBSET S -> BOOLEAN]
  OBVIOUS
<1>5. P[S]
  <2> HIDE DEF P
  <2>. QED
    BY <1>2, <1>3, <1>4, SetInduction
<1>. QED
  BY <1>1, <1>5

LEMMA OneIsNat == One \in Nat
  BY DEF One

LEMMA OneIs == One = 10000
  BY DEF One

LEMMA GainsFall ==
    /\ \A i \in 1..TopK : Gain[i] \in 16..One
    /\ \A i, j \in 1..TopK : i < j => Gain[j] + 16 <= Gain[i]
<1>1. /\ \A i \in 1..TopK : Gain[i] \in 16..One
      /\ \A i \in 1..TopK : i > 1 => Gain[i] + 16 <= Gain[i - 1]
  BY RoundingAssumption, Zenon DEF RoundingAssumption
<1>2. TopK \in Nat /\ \A i \in 1..TopK : Gain[i] \in Nat
  BY <1>1, IdsAreInts, OneIsNat
<1> DEFINE P == [n \in Nat |-> \A i, j \in 1..TopK : i < j /\ j <= i + n => Gain[j] + 16 <= Gain[i]]
<1>3. P[0]
  BY <1>2
<1>4. ASSUME NEW n \in Nat, P[n]
      PROVE  P[n + 1]
  <2>1. SUFFICES ASSUME NEW i \in 1..TopK, NEW j \in 1..TopK, i < j, j <= i + (n + 1)
                 PROVE  Gain[j] + 16 <= Gain[i]
    OBVIOUS
  <2>2. j - 1 \in 1..TopK /\ j > 1 /\ i <= j - 1 /\ j - 1 <= i + n
    BY <1>2, <2>1
  <2>3. Gain[j] + 16 <= Gain[j - 1]
    BY <1>1, <2>2
  <2>4. j - 1 = i \/ Gain[j - 1] + 16 <= Gain[i]
    BY <1>4, <2>2
  <2>5. Gain[j] \in Nat /\ Gain[j - 1] \in Nat /\ Gain[i] \in Nat
    BY <1>2, <2>2
  <2>. QED
    BY <2>3, <2>4, <2>5
<1>5. P \in [Nat -> BOOLEAN]
  OBVIOUS
<1>6. \A n \in Nat : P[n]
  <2> HIDE DEF P
  <2>. QED
    BY <1>3, <1>4, <1>5, NumberInduction
<1>7. ASSUME NEW i \in 1..TopK, NEW j \in 1..TopK, i < j
      PROVE  Gain[j] + 16 <= Gain[i]
  <2>1. j \in Nat /\ j <= i + j
    BY <1>2
  <2>. QED
    BY <1>6, <1>7, <2>1
<1>. QED
  BY <1>1, <1>7

LEMMA GainLaws ==
    /\ GainOf({}) = 0
    /\ \A P \in SUBSET (1..TopK) :
          /\ GainOf(P) \in Nat /\ (P # {} => GainOf(P) >= 16)
          /\ GainOf(P) <= 31 * One
          /\ \A x \in P : GainOf(P) = Gain[x] + GainOf(P \ {x})
          /\ \A Q \in SUBSET P : GainOf(Q) <= GainOf(P)
<1> DEFINE D == 1..TopK
<1>1. TopK \in Nat /\ TopK <= 31 /\ IsFiniteSet(D) /\ Cardinality(D) = TopK
  <2>1. TopK \in 1..31
    BY EvaluationAssumption, Zenon DEF EvaluationAssumption
  <2>2. TopK \in Nat /\ TopK <= 31
    BY ONLY <2>1
  <2>. QED
    BY <2>2, FS_Interval
<1>2. \A x \in D : Gain[x] \in 16..One /\ Gain[x] \in Nat
  BY GainsFall, OneIsNat
<1> HIDE DEF D
<1>3. /\ GainOf({}) = 0
      /\ \A P \in SUBSET D :
            GainOf(P) \in Nat /\ \A x \in P : GainOf(P) = Gain[x] + GainOf(P \ {x})
  BY <1>1, <1>2, SumLaws DEF GainOf
<1>4. \A P \in SUBSET D : P # {} => GainOf(P) >= 16
  <2>1. SUFFICES ASSUME NEW P \in SUBSET D, NEW x \in P
                 PROVE  GainOf(P) >= 16
    OBVIOUS
  <2>2. /\ GainOf(P) = Gain[x] + GainOf(P \ {x}) /\ GainOf(P \ {x}) \in Nat
        /\ Gain[x] \in Nat /\ Gain[x] >= 16
    BY <1>2, <1>3, OneIsNat
  <2>. QED
    BY ONLY <2>2
<1>5. \A P \in SUBSET D : \A Q \in SUBSET P : GainOf(Q) <= GainOf(P)
  <2>1. SUFFICES ASSUME NEW P \in SUBSET D, NEW Q \in SUBSET P
                 PROVE  GainOf(Q) <= GainOf(P)
    OBVIOUS
  <2>2. IsFiniteSet(P) /\ \A x \in P : Gain[x] \in Nat
    BY <1>1, <1>2, FS_Subset
  <2>. QED
    BY <2>2, SumGrows DEF GainOf
<1>6. GainOf(D) <= 31 * One
  <2>1. GainOf(D) <= TopK * One /\ GainOf(D) \in Nat
    <3>1. One \in Nat /\ 0 \in Nat /\ \A x \in D : Gain[x] \in 0..One
      BY <1>2, OneIsNat
    <3>. QED
      BY <1>1, <3>1, SumBounds DEF GainOf
  <2>2. TopK * One <= 31 * One
    <3>1. TopK * One = 10000 * TopK /\ 31 * One = 310000
      BY <1>1, OneIs
    <3>. QED
      BY ONLY <1>1, <3>1
  <2>3. TopK * One \in Nat /\ 31 * One \in Nat
    BY <1>1, OneIs
  <2>. QED
    BY ONLY <2>1, <2>2, <2>3
<1>7. \A P \in SUBSET D : GainOf(P) <= 31 * One
  <2>1. SUFFICES ASSUME NEW P \in SUBSET D
                 PROVE  GainOf(P) <= 31 * One
    OBVIOUS
  <2>2. GainOf(P) \in Nat /\ GainOf(D) \in Nat /\ GainOf(P) <= GainOf(D)
    BY <1>3, <1>5
  <2>3. 31 * One \in Nat
    BY OneIsNat
  <2>. QED
    BY ONLY <1>6, <2>2, <2>3
<1>8. \A P \in SUBSET D :
         /\ GainOf(P) \in Nat /\ (P # {} => GainOf(P) >= 16)
         /\ GainOf(P) <= 31 * One
         /\ \A x \in P : GainOf(P) = Gain[x] + GainOf(P \ {x})
         /\ \A Q \in SUBSET P : GainOf(Q) <= GainOf(P)
  BY ONLY <1>3, <1>4, <1>5, <1>7, Zenon
<1>. QED
  BY ONLY <1>3, <1>8, Zenon DEF D

\* No k places gain as much as the first k, and rounding sees it.
LEMMA FirstPlacesGainMost ==
    ASSUME NEW k \in Nat, k <= TopK, NEW P \in SUBSET (1..TopK), Cardinality(P) <= k
    PROVE  P = 1..k \/ GainOf(P) + 16 <= GainOf(1..k)
<1> DEFINE D == 1..TopK
           Claim(n, Q) == Q = 1..n \/ GainOf(Q) + 16 <= GainOf(1..n)
           I == [n \in Nat |-> n <= TopK => \A Q \in SUBSET D : Cardinality(Q) <= n => Claim(n, Q)]
<1>1. TopK \in Nat /\ IsFiniteSet(D)
  BY IdsAreInts, FS_Interval
<1>2. \A Q \in SUBSET D : IsFiniteSet(Q) /\ Cardinality(Q) \in Nat
  <2> HIDE DEF D
  <2>. QED
    BY <1>1, FS_Subset, FS_CardinalityType
<1>3. I[0]
  <2>1. SUFFICES ASSUME NEW Q \in SUBSET D, Cardinality(Q) <= 0
                 PROVE  Q = 1..0
    OBVIOUS
  <2>2. Cardinality(Q) = 0
    BY <1>2, <2>1
  <2>. QED
    BY <1>2, <2>2, FS_EmptySet
<1>4. ASSUME NEW n \in Nat, I[n]
      PROVE  I[n + 1]
  <2>1. SUFFICES ASSUME n + 1 <= TopK, NEW Q \in SUBSET D, Cardinality(Q) <= n + 1
                 PROVE  Claim(n + 1, Q)
    <3>1. n + 1 \in Nat
      OBVIOUS
    <3> HIDE DEF Claim, D
    <3>. QED
      BY <3>1
  <2>2. /\ n + 1 \in D /\ n + 1 \in 1..(n + 1) /\ n + 1 \notin 1..n
        /\ (1..(n + 1)) \ {n + 1} = 1..n /\ 1..(n + 1) = (1..n) \cup {n + 1}
        /\ 1..(n + 1) \in SUBSET D /\ 1..n \in SUBSET D /\ n <= TopK
    BY <1>1, <2>1
  <2>3. /\ GainOf(1..(n + 1)) = Gain[n + 1] + GainOf(1..n)
        /\ GainOf(1..(n + 1)) \in Nat /\ GainOf(1..n) \in Nat /\ GainOf(Q) \in Nat
        /\ Gain[n + 1] \in Nat /\ Gain[n + 1] >= 16
    <3>1. Gain[n + 1] \in 16..One
      BY <2>2, GainsFall
    <3>2. GainOf(1..(n + 1)) = Gain[n + 1] + GainOf((1..(n + 1)) \ {n + 1})
      BY ONLY <2>2, GainLaws DEF D
    <3>3. GainOf((1..(n + 1)) \ {n + 1}) = GainOf(1..n)
      BY ONLY <2>2, Zenon
    <3>4. GainOf(1..(n + 1)) \in Nat /\ GainOf(1..n) \in Nat /\ GainOf(Q) \in Nat
      BY <2>2, GainLaws
    <3>. QED
      BY ONLY <3>1, <3>2, <3>3, <3>4, OneIsNat
  <2>4. CASE Q = {}
    <3>1. GainOf(Q) = 0
      BY <2>4, GainLaws
    <3>. QED
      BY ONLY <2>3, <3>1
  <2>5. CASE Q # {}
    <3>1. PICK g \in Q : \A y \in Q : y <= g
      BY <1>1, <2>5, GreatestNumber
    <3> DEFINE R == Q \ {g}
    <3>2. /\ R \in SUBSET D /\ g \in D /\ g \notin R /\ Q = R \cup {g}
          /\ Cardinality(R) <= n
      <4>1. Cardinality(R) = Cardinality(Q) - 1
        BY <1>2, FS_RemoveElement
      <4>2. Cardinality(R) <= n
        <5>1. Cardinality(Q) \in Nat
          BY <1>2
        <5>. QED
          BY ONLY <2>1, <4>1, <5>1, n \in Nat
      <4>. QED
        BY <4>2
    <3>3. Claim(n, R)
      <4> HIDE DEF R, Claim, D
      <4>. QED
        BY <1>4, <2>2, <3>2
    <3>4. GainOf(Q) = Gain[g] + GainOf(R)
      BY GainLaws
    <3>5. Gain[g] \in Nat /\ GainOf(R) \in Nat
      BY <3>2, GainLaws, GainsFall, OneIsNat
    <3> HIDE DEF R
    <3>6. CASE g <= n
      <4>1. Q \in SUBSET (1..n)
        BY <1>1, <3>1, <3>6
      <4>2. GainOf(Q) <= GainOf(1..n)
        BY ONLY <2>2, <4>1, GainLaws DEF D
      <4>. QED
        BY ONLY <2>3, <4>2
    <3>7. CASE g = n + 1
      <4>1. R = 1..n => Q = 1..(n + 1)
        BY <2>2, <3>2, <3>7
      <4>2. GainOf(R) + 16 <= GainOf(1..n) => GainOf(Q) + 16 <= GainOf(1..(n + 1))
        BY ONLY <2>3, <3>4, <3>5, <3>7
      <4>. QED
        BY <3>3, <4>1, <4>2
    <3>8. CASE g > n + 1
      <4>1. Gain[g] + 16 <= Gain[n + 1]
        BY <2>2, <3>2, <3>8, GainsFall
      <4>2. GainOf(R) <= GainOf(1..n)
        BY <2>3, <3>3, <3>5
      <4>. QED
        BY ONLY <2>3, <3>4, <3>5, <4>1, <4>2
    <3>9. g \in Int
      BY <3>2
    <3>. QED
      BY ONLY <3>6, <3>7, <3>8, <3>9, n \in Nat
  <2>. QED
    BY <2>4, <2>5
<1>5. I \in [Nat -> BOOLEAN]
  OBVIOUS
<1>6. \A n \in Nat : I[n]
  <2> HIDE DEF I
  <2>. QED
    BY <1>3, <1>4, <1>5, NumberInduction
<1>7. I[k] => Claim(k, P)
  <2> HIDE DEF Claim
  <2>. QED
    OBVIOUS
<1>. QED
  BY <1>6, <1>7

-----------------------------------------------------------------------------
(* The measures of a case.                                                 *)

\* What _eval_one measures: distinct chunks, TopK of them at most, against some gold.
IsFound(found) ==
    /\ found \in Seq(Chunks) /\ Len(found) <= TopK
    /\ \A i, j \in DOMAIN found : found[i] = found[j] => i = j

LEMMA FiniteIsNat ==
    ASSUME NEW S, IsFiniteSet(S), NEW T \in SUBSET S
    PROVE  /\ IsFiniteSet(T) /\ Cardinality(T) \in Nat /\ Cardinality(S) \in Nat
           /\ Cardinality(T) <= Cardinality(S)
           /\ (Cardinality(T) = Cardinality(S) <=> T = S)
           /\ (Cardinality(T) = 0 <=> T = {})
<1>1. IsFiniteSet(T) /\ Cardinality(T) \in Nat /\ Cardinality(S) \in Nat
  BY FS_Subset, FS_CardinalityType
<1>2. /\ Cardinality(T) <= Cardinality(S)
      /\ (Cardinality(T) = Cardinality(S) <=> T = S)
  BY FS_Subset
<1>3. Cardinality(T) = 0 <=> T = {}
  BY <1>1, FS_EmptySet
<1>. QED
  BY <1>1, <1>2, <1>3

\* The places of the gold chunks in a list, of which there are as many as chunks of the
\* list that are gold.
LEMMA HitsCount ==
    ASSUME NEW found, IsFound(found), NEW relevant \in SUBSET Chunks
    PROVE  LET H == Hits(found, relevant)
               both == ToSet(found) \cap relevant
           IN  /\ H = {i \in DOMAIN found : found[i] \in relevant}
               /\ DOMAIN found = 1..Len(found) /\ Len(found) \in Nat
               /\ H \in SUBSET (1..TopK) /\ IsFiniteSet(H)
               /\ Cardinality(H) = Cardinality(both)
               /\ Cardinality(H) \in Nat /\ Cardinality(relevant) \in Nat
               /\ IsFiniteSet(both) /\ IsFiniteSet(relevant)
               /\ Cardinality(H) <= TopK /\ Cardinality(H) <= Cardinality(relevant)
               /\ (H = {} <=> both = {}) /\ (Cardinality(H) = 0 <=> both = {})
<1> DEFINE H == Hits(found, relevant)
           both == ToSet(found) \cap relevant
           n == Len(found)
           f == [i \in H |-> found[i]]
<1>1. n \in Nat /\ DOMAIN found = 1..n /\ n <= TopK /\ TopK \in Nat
  BY IdsAreInts DEF IsFound
<1>2. Min({TopK, n}) = n
  <2>1. Min({TopK, n}) = IF TopK <= n THEN TopK ELSE n
    BY <1>1, MinOfTwo
  <2>. QED
    BY <1>1, <2>1
<1>3. H = {i \in DOMAIN found : found[i] \in relevant}
  BY <1>1, <1>2 DEF Hits
<1>4. H \in SUBSET (1..TopK) /\ IsFiniteSet(1..TopK) /\ Cardinality(1..TopK) = TopK
  <2>1. \A i \in 1..n : i \in 1..TopK
    BY <1>1
  <2> HIDE DEF H, n
  <2>2. H \in SUBSET (1..TopK)
    BY ONLY <1>1, <1>3, <2>1
  <2>3. IsFiniteSet(1..TopK) /\ Cardinality(1..TopK) = TopK
    BY ONLY <1>1, FS_Interval
  <2>. QED
    BY <2>2, <2>3
<1>5. f \in [H -> both] /\ (\A x, y \in H : f[x] = f[y] => x = y) /\ \A z \in both : \E x \in H : f[x] = z
  <2> HIDE DEF H
  <2>1. \A x \in H : f[x] = found[x] /\ found[x] \in both
    BY <1>3 DEF ToSet
  <2>2. \A x, y \in H : f[x] = f[y] => x = y
    BY <1>3, <2>1 DEF IsFound
  <2>3. \A z \in both : \E x \in H : f[x] = z
    BY <1>3, <2>1 DEF ToSet
  <2> HIDE DEF both
  <2>. QED
    BY <2>1, <2>2, <2>3
<1> HIDE DEF H, both, f
<1>6. IsFiniteSet(H) /\ Cardinality(H) \in Nat /\ Cardinality(H) <= TopK
      /\ (Cardinality(H) = 0 <=> H = {})
  <2>1. /\ IsFiniteSet(H) /\ Cardinality(H) \in Nat /\ Cardinality(H) <= Cardinality(1..TopK)
        /\ (Cardinality(H) = 0 <=> H = {})
    <3> DEFINE D == 1..TopK
    <3> HIDE DEF D
    <3>. QED
      BY ONLY <1>4, FiniteIsNat DEF D
  <2>. QED
    BY <1>4, <2>1
<1>7. IsFiniteSet(both) /\ Cardinality(both) = Cardinality(H)
  BY <1>5, <1>6, SameSize
<1>8. IsFiniteSet(relevant)
  BY IdsAreInts, FS_Subset
<1>9. /\ Cardinality(relevant) \in Nat /\ Cardinality(both) <= Cardinality(relevant)
      /\ (Cardinality(both) = 0 <=> both = {})
  <2>1. both \in SUBSET relevant
    BY DEF both
  <2>. QED
    BY ONLY <1>8, <2>1, FiniteIsNat
<1>. QED
  BY <1>1, <1>3, <1>4, <1>6, <1>7, <1>8, <1>9 DEF H, both

\* A share of fewer than 20000 parts: rounding tells none and all from some.
LEMMA RatioTells ==
    ASSUME NEW a \in Nat, NEW b \in Nat \ {0}, a <= b, b < 2 * One
    PROVE  /\ Ratio(a, b) \in 0..One
           /\ Ratio(a, b) > 0 <=> a # 0
           /\ Ratio(a, b) = One <=> a = b
<1>1. /\ Ratio(a, b) \in 0..One
      /\ a = 0 => Ratio(a, b) = 0
      /\ 2 * a * One >= b => Ratio(a, b) > 0
      /\ Ratio(a, b) = One <=> 2 * (b - a) * One <= b
  BY RatioLaws
<1>2. /\ 2 * a * One = 20000 * a /\ 2 * (b - a) * One = 20000 * (b - a) /\ b < 20000
  BY OneIs
<1>3. a # 0 => 2 * a * One >= b
  BY ONLY <1>2, a \in Nat, b \in Nat \ {0}
<1>4. 2 * (b - a) * One <= b <=> a = b
  BY ONLY <1>2, a \in Nat, b \in Nat \ {0}, a <= b
<1>. QED
  BY ONLY <1>1, <1>3, <1>4

LEMMA RecallMeasures ==
    ASSUME NEW found, IsFound(found), NEW relevant \in SUBSET Chunks
    PROVE  LET m == Recall(found, relevant)
           IN  /\ m \in 0..One
               /\ m > 0 <=> ToSet(found) \cap relevant # {}
               /\ m = One <=> relevant # {} /\ relevant \subseteq ToSet(found)
<1> DEFINE H == Hits(found, relevant)
           both == ToSet(found) \cap relevant
           a == Cardinality(H)
           b == Cardinality(relevant)
           m == Recall(found, relevant)
<1>1. /\ a \in Nat /\ b \in Nat /\ a <= b /\ (a = 0 <=> both = {})
      /\ IsFiniteSet(both) /\ IsFiniteSet(relevant) /\ a = Cardinality(both)
  BY HitsCount
<1>2. b < 2 * One
  <2>1. IsFiniteSet(Chunks) /\ Cardinality(Chunks) < 2 * One
    BY EvaluationAssumption, Zenon DEF EvaluationAssumption
  <2>2. b <= Cardinality(Chunks) /\ Cardinality(Chunks) \in Nat
    BY ONLY <2>1, relevant \in SUBSET Chunks, FiniteIsNat
  <2>. QED
    BY <1>1, <2>1, <2>2, OneIsNat
<1>3. b = 0 <=> relevant = {}
  BY <1>1, FS_EmptySet
<1>4. a = b <=> both = relevant
  <2>1. both \in SUBSET relevant
    OBVIOUS
  <2> HIDE DEF both
  <2>. QED
    BY <1>1, <2>1, FiniteIsNat
<1>5. CASE relevant = {}
  <2>1. m = 0 /\ both = {}
    BY <1>5 DEF Recall
  <2>. QED
    BY <1>5, <2>1, OneIs
<1>6. CASE relevant # {}
  <2>1. m = Ratio(a, b) /\ b \in Nat \ {0}
    BY <1>1, <1>3, <1>6 DEF Recall
  <2> HIDE DEF a, b, m
  <2>2. m \in 0..One /\ (m > 0 <=> a # 0) /\ (m = One <=> a = b)
    BY <1>1, <1>2, <2>1, RatioTells
  <2>. QED
    BY <1>1, <1>4, <1>6, <2>2 DEF m
<1>. QED
  BY <1>5, <1>6

LEMMA PrecisionMeasures ==
    ASSUME NEW found, IsFound(found), NEW relevant \in SUBSET Chunks
    PROVE  LET m == Precision(found, relevant)
           IN  m \in 0..One /\ (m > 0 <=> ToSet(found) \cap relevant # {})
<1> DEFINE a == Cardinality(Hits(found, relevant))
           hit == ToSet(found) \cap relevant # {}
           m == Precision(found, relevant)
<1>1. a \in Nat /\ a <= TopK /\ (a # 0 <=> hit)
  BY HitsCount
<1>2. TopK \in Nat \ {0} /\ TopK < 2 * One
  <2>1. TopK \in 1..31
    BY EvaluationAssumption, Zenon DEF EvaluationAssumption
  <2>. QED
    BY ONLY <2>1, OneIs
<1>3. m = Ratio(a, TopK)
  BY DEF Precision
<1> HIDE DEF a, m, hit
<1>4. m \in 0..One /\ (m > 0 <=> hit)
  BY <1>1, <1>2, <1>3, RatioTells
<1>. QED
  BY <1>4 DEF m, hit

LEMMA HitRateMeasures ==
    ASSUME NEW found, IsFound(found), NEW relevant \in SUBSET Chunks
    PROVE  LET m == HitRate(found, relevant)
           IN  m \in 0..One /\ (m = One <=> ToSet(found) \cap relevant # {})
<1>1. Hits(found, relevant) = {} <=> ToSet(found) \cap relevant = {}
  BY HitsCount
<1>2. 0 # One /\ 0 \in 0..One /\ One \in 0..One
  <2>1. One # 0
    BY OneIs
  <2>. QED
    BY ONLY <2>1, OneIsNat
<1>. QED
  BY ONLY <1>1, <1>2 DEF HitRate

LEMMA MrrMeasures ==
    ASSUME NEW found, IsFound(found), NEW relevant \in SUBSET Chunks
    PROVE  LET m == Mrr(found, relevant)
           IN  m \in 0..One /\ (m > 0 <=> ToSet(found) \cap relevant # {})
<1> DEFINE places == {i \in DOMAIN found : found[i] \in relevant}
           m == Mrr(found, relevant)
           hit == ToSet(found) \cap relevant # {}
<1>1. /\ places \in SUBSET (1..TopK) /\ IsFiniteSet(places)
      /\ (places = {} <=> ~hit)
  <2> DEFINE H == Hits(found, relevant)
             both == ToSet(found) \cap relevant
  <2>1. H = places /\ H \in SUBSET (1..TopK) /\ IsFiniteSet(H) /\ (H = {} <=> both = {})
    BY ONLY IsFound(found), relevant \in SUBSET Chunks, HitsCount
  <2> HIDE DEF H, places
  <2>. QED
    BY <2>1
<1>2. CASE places = {}
  <2>1. m = 0 /\ 0 \in 0..One /\ ~(0 > 0)
    BY <1>2, OneIsNat DEF Mrr
  <2>2. ~hit
    BY <1>1, <1>2
  <2> HIDE DEF m, hit
  <2>3. m \in 0..One /\ (m > 0 <=> hit)
    BY ONLY <2>1, <2>2
  <2>. QED
    BY <2>3 DEF m, hit
<1>3. CASE places # {}
  <2>1. Min(places) \in places
    <3>1. places \in SUBSET Int
      BY <1>1
    <3> HIDE DEF places
    <3>. QED
      BY <1>1, <1>3, <3>1, Extremes
  <2>2. TopK \in 1..31
    BY EvaluationAssumption, Zenon DEF EvaluationAssumption
  <2>3. Min(places) \in Nat \ {0} /\ Min(places) < 2 * One /\ 1 <= Min(places) /\ 1 \in Nat
    <3>1. Min(places) \in 1..TopK
      BY <1>1, <2>1
    <3> HIDE DEF places
    <3>. QED
      BY ONLY <2>2, <3>1, OneIs
  <2>4. m = Ratio(1, Min(places))
    BY <1>3 DEF Mrr
  <2> HIDE DEF places, m
  <2>5. m \in 0..One /\ m > 0
    BY ONLY <2>3, <2>4, RatioTells
  <2>. QED
    BY <1>1, <1>3, <2>5 DEF m
<1>. QED
  BY <1>2, <1>3

LEMMA NdcgMeasures ==
    ASSUME NEW found, IsFound(found), NEW relevant \in SUBSET Chunks
    PROVE  LET m == Ndcg(found, relevant)
               best == Min({TopK, Cardinality(relevant)})
           IN  /\ m \in 0..One
               /\ m > 0 <=> ToSet(found) \cap relevant # {}
               /\ m = One <=> /\ relevant # {} /\ Len(found) >= best
                             /\ \A p \in 1..best : found[p] \in relevant
<1> DEFINE H == Hits(found, relevant)
           hit == ToSet(found) \cap relevant # {}
           best == Min({TopK, Cardinality(relevant)})
           m == Ndcg(found, relevant)
           a == GainOf(H)
           b == GainOf(1..best)
           full == relevant # {} /\ Len(found) >= best /\ \A p \in 1..best : found[p] \in relevant
<1>1. /\ H = {i \in DOMAIN found : found[i] \in relevant}
      /\ DOMAIN found = 1..Len(found) /\ Len(found) \in Nat
      /\ H \in SUBSET (1..TopK) /\ IsFiniteSet(H) /\ IsFiniteSet(relevant)
      /\ Cardinality(H) \in Nat /\ Cardinality(relevant) \in Nat
      /\ Cardinality(H) <= TopK /\ Cardinality(H) <= Cardinality(relevant)
      /\ (H = {} <=> ~hit)
  BY HitsCount
<1>2. /\ TopK \in Nat \ {0} /\ best \in Nat /\ best <= TopK /\ Cardinality(H) <= best
      /\ best = 0 <=> Cardinality(relevant) = 0
  <2>1. TopK \in 1..31
    BY EvaluationAssumption, Zenon DEF EvaluationAssumption
  <2>2. best = IF TopK <= Cardinality(relevant) THEN TopK ELSE Cardinality(relevant)
    BY <1>1, <2>1, MinOfTwo
  <2> HIDE DEF best, H
  <2>. QED
    BY ONLY <1>1, <2>1, <2>2
<1>3. Cardinality(relevant) = 0 <=> relevant = {}
  BY <1>1, FS_EmptySet
<1> HIDE DEF best, H, hit
<1>4. /\ a \in Nat /\ b \in Nat /\ b <= 31 * One
      /\ (H # {} => a >= 16) /\ (H = {} => a = 0)
      /\ (best # 0 => b >= 16)
  <2> DEFINE T == 1..best
  <2>1. T \in SUBSET (1..TopK) /\ (best # 0 => T # {})
    BY <1>2
  <2>2. GainOf({}) = 0
    BY GainLaws
  <2>3. \A P \in SUBSET (1..TopK) :
           GainOf(P) \in Nat /\ (P # {} => GainOf(P) >= 16) /\ GainOf(P) <= 31 * One
    BY GainLaws
  <2> HIDE DEF T
  <2>4. GainOf(T) \in Nat /\ (T # {} => GainOf(T) >= 16) /\ GainOf(T) <= 31 * One
    BY ONLY <2>1, <2>3, Zenon
  <2>5. GainOf(H) \in Nat /\ (H # {} => GainOf(H) >= 16) /\ (H = {} => GainOf(H) = 0)
    BY ONLY <1>1, <2>2, <2>3, Zenon
  <2>6. /\ GainOf(H) \in Nat /\ GainOf(T) \in Nat /\ GainOf(T) <= 31 * One
        /\ (H # {} => GainOf(H) >= 16) /\ (H = {} => GainOf(H) = 0)
        /\ (best # 0 => GainOf(T) >= 16)
    BY ONLY <2>1, <2>4, <2>5, Zenon
  <2>. QED
    BY <2>6, Zenon DEF T
<1>5. H = 1..best \/ a + 16 <= b
  BY <1>1, <1>2, FirstPlacesGainMost
<1>6. CASE relevant = {}
  <2>1. m = 0 /\ ~hit /\ ~full
    <3>1. m = 0
      BY <1>6 DEF Ndcg
    <3>2. ~hit
      BY <1>6 DEF hit
    <3>. QED
      BY <1>6, <3>1, <3>2
  <2> HIDE DEF m, full
  <2>2. m \in 0..One /\ (m > 0 <=> hit) /\ (m = One <=> full)
    <3>1. 0 \in 0..One /\ ~(0 > 0)
      BY OneIsNat
    <3>2. 0 # One
      BY OneIs
    <3>. QED
      BY ONLY <2>1, <3>1, <3>2
  <2>. QED
    BY <2>2 DEF m, full, hit, best
<1>7. CASE relevant # {}
  <2>1. m = Ratio(a, b)
    BY <1>7 DEF Ndcg, IdealGain, H, best
  <2>2. best # 0 /\ b \in Nat \ {0} /\ a <= b
    <3>1. best # 0
      BY <1>2, <1>3, <1>7
    <3>2. a = b \/ a + 16 <= b
      BY <1>5
    <3> HIDE DEF a, b
    <3>. QED
      BY ONLY <1>4, <3>1, <3>2
  <2>3. H = 1..best <=> full
    <3>1. ASSUME H = 1..best
          PROVE  full
      <4>1. best \in H
        BY <1>2, <2>2, <3>1
      <4>2. \A p \in 1..best : p \in DOMAIN found /\ found[p] \in relevant
        BY <1>1, <3>1
      <4>. QED
        BY <1>1, <1>2, <1>7, <2>2, <4>1, <4>2
    <3>2. ASSUME full
          PROVE  H = 1..best
      <4>1. 1..best \in SUBSET H
        BY <1>1, <1>2, <3>2
      <4>2. Cardinality(1..best) = best
        BY <1>2, FS_Interval
      <4> DEFINE T == 1..best
      <4>3. T \in SUBSET H /\ Cardinality(T) = best
        BY <4>1, <4>2
      <4> HIDE DEF T
      <4>4. Cardinality(T) <= Cardinality(H) /\ (Cardinality(T) = Cardinality(H) <=> T = H)
        BY ONLY <1>1, <4>3, FiniteIsNat
      <4>5. Cardinality(T) = Cardinality(H)
        BY ONLY <1>1, <1>2, <4>3, <4>4
      <4>6. T = H
        BY ONLY <4>4, <4>5
      <4>. QED
        BY <4>6 DEF T
    <3>. QED
      BY <3>1, <3>2
  <2>4. /\ m \in 0..One
        /\ a = 0 => m = 0
        /\ 2 * a * One >= b => m > 0
        /\ m = One <=> 2 * (b - a) * One <= b
    <3> HIDE DEF a, b, m
    <3>. QED
      BY <1>4, <2>1, <2>2, RatioLaws
  <2>5. m > 0 <=> hit
    <3>1. a >= 16 => 2 * a * One >= b
      <4> HIDE DEF a, b
      <4>1. 2 * a * One = 20000 * a /\ 31 * One = 310000
        BY <1>4, OneIs
      <4>. QED
        BY ONLY <1>4, <4>1
    <3>2. hit => m > 0
      BY <1>1, <1>4, <2>4, <3>1
    <3>3. ~hit => m = 0
      BY <1>1, <1>4, <2>4
    <3> HIDE DEF m
    <3>. QED
      BY ONLY <3>2, <3>3
  <2>6. m = One <=> full
    <3>1. H = 1..best => m = One
      <4>1. H = 1..best => 2 * (b - a) * One <= b
        <5>1. SUFFICES ASSUME H = 1..best PROVE 2 * (b - a) * One <= b
          OBVIOUS
        <5>2. a = b
          BY <5>1
        <5> HIDE DEF a, b
        <5>3. 2 * (b - a) * One = 0
          BY ONLY <1>4, <5>2, OneIs
        <5>. QED
          BY ONLY <1>4, <5>3
      <4>. QED
        BY <2>4, <4>1
    <3>2. m = One => H = 1..best
      <4> HIDE DEF a, b, m
      <4>1. 2 * (b - a) * One = 20000 * (b - a) /\ 31 * One = 310000
        BY <1>4, OneIs
      <4>2. a + 16 <= b => ~(2 * (b - a) * One <= b)
        BY ONLY <1>4, <4>1
      <4>. QED
        BY <1>5, <2>4, <4>2
    <3>. QED
      BY ONLY <2>3, <3>1, <3>2
  <2> HIDE DEF m, full
  <2>7. m \in 0..One /\ (m > 0 <=> hit) /\ (m = One <=> full)
    BY ONLY <2>4, <2>5, <2>6
  <2>. QED
    BY <2>7 DEF m, full, hit, best
<1>. QED
  BY <1>6, <1>7

\* A share is a number from 0 to 1, and 0 where nothing is shared.
LEMMA ShareMeasures ==
    ASSUME NEW tokens, NEW of, IsFiniteSet(of)
    PROVE  Share(tokens, of) \in 0..One /\ (Share(tokens, of) > 0 => tokens \cap of # {})
<1> DEFINE m == Share(tokens, of)
           both == tokens \cap of
           a == Cardinality(both)
           b == Cardinality(of)
<1>1. /\ a \in Nat /\ b \in Nat /\ a <= b /\ (a = 0 <=> both = {})
      /\ b = 0 <=> of = {}
  <2>1. both \in SUBSET of /\ of \in SUBSET of
    OBVIOUS
  <2> HIDE DEF both
  <2>. QED
    BY <2>1, FiniteIsNat
<1>2. CASE of = {}
  <2>1. m = 0
    BY <1>2 DEF Share
  <2>2. 0 \in 0..One /\ ~(0 > 0)
    BY OneIsNat
  <2> HIDE DEF m
  <2>. QED
    BY <2>1, <2>2 DEF m
<1>3. CASE of # {}
  <2>1. m = Ratio(a, b)
    BY <1>3 DEF Share
  <2> HIDE DEF a, b, m, both
  <2>2. b \in Nat \ {0}
    BY ONLY <1>1, <1>3
  <2>3. m \in 0..One /\ (a = 0 => m = 0)
    BY ONLY <1>1, <2>1, <2>2, RatioLaws
  <2>4. m > 0 => both # {}
    BY ONLY <1>1, <2>3
  <2>. QED
    BY <2>3, <2>4 DEF m, both
<1>. QED
  BY <1>2, <1>3

AnswerKeys == {"citation_correctness", "groundedness", "answer_relevance",
               "answer_completeness", "answer_keyword_overlap", "evidence_sufficient"}
RetrievalKeys == {"recall", "precision", "hit_rate", "mrr", "ndcg"}

LEMMA AnswersMeasured ==
    ASSUME NEW cited \in SUBSET Chunks, NEW relevant \in SUBSET Chunks,
           NEW answer, NEW case \in AllCases
    PROVE  LET m == AnswerMetrics(cited, relevant, answer, case)
           IN  /\ m \in [AnswerKeys -> 0..One]
               /\ m.citation_correctness > 0 => cited \cap relevant # {}
               /\ m.groundedness > m.citation_correctness => relevant = {}
<1> DEFINE m == AnswerMetrics(cited, relevant, answer, case)
           cc == CitationCorrectness(cited, relevant)
           gr == Groundedness(cited, relevant)
           ar == AnswerRelevance(answer, case.query)
           ac == AnswerCompleteness(answer, case.expected, case.keywords)
           ko == KeywordOverlap(answer, case.keywords)
           es == IF cited = {} THEN 0 ELSE One
<1>1. 0 \in 0..One /\ One \in 0..One /\ ~(0 > 0)
  BY OneIsNat
<1>2. /\ IsFiniteSet(QueryWords[case.query])
      /\ IsFiniteSet(case.expected) /\ IsFiniteSet(case.keywords)
  <2>1. /\ \A q \in Queries : IsFiniteSet(QueryWords[q])
        /\ \A c \in AllCases : c.query \in Queries /\ IsFiniteSet(c.expected) /\ IsFiniteSet(c.keywords)
    BY EvaluationAssumption, Zenon DEF EvaluationAssumption
  <2>. QED
    BY ONLY <2>1, case \in AllCases
<1>3. IsFiniteSet(cited)
  BY IdsAreInts, FS_Subset
<1>4. ar \in 0..One /\ ko \in 0..One
  BY <1>2, ShareMeasures DEF AnswerRelevance, KeywordOverlap
<1>5. ac \in 0..One
  <2>1. IsFiniteSet(IF case.expected = {} THEN case.keywords ELSE case.expected)
    BY <1>2
  <2>. QED
    BY <2>1, ShareMeasures DEF AnswerCompleteness
<1>6. cc \in 0..One /\ (cc > 0 => cited \cap relevant # {})
  <2>1. CASE relevant = {}
    <3>1. cc = 0
      BY <2>1 DEF CitationCorrectness
    <3> HIDE DEF cc
    <3>. QED
      BY ONLY <1>1, <3>1
  <2>2. CASE relevant # {}
    <3>1. cc = Share(relevant, cited)
      BY <2>2 DEF CitationCorrectness
    <3>2. Share(relevant, cited) \in 0..One /\ (Share(relevant, cited) > 0 => relevant \cap cited # {})
      BY ONLY <1>3, ShareMeasures
    <3>3. relevant \cap cited = cited \cap relevant
      OBVIOUS
    <3> HIDE DEF cc
    <3>. QED
      BY ONLY <3>1, <3>2, <3>3
  <2>. QED
    BY <2>1, <2>2
<1>7. gr \in 0..One /\ (gr > cc => relevant = {})
  <2>1. (gr = One /\ relevant = {}) \/ gr = cc
    BY DEF Groundedness
  <2> HIDE DEF gr, cc
  <2>2. cc \in Int
    BY ONLY <1>6, OneIsNat
  <2>. QED
    BY ONLY <1>1, <1>6, <2>1, <2>2
<1>8. es \in 0..One
  BY <1>1
<1>9. m = [citation_correctness |-> cc, groundedness |-> gr, answer_relevance |-> ar,
           answer_completeness |-> ac, answer_keyword_overlap |-> ko, evidence_sufficient |-> es]
  BY DEF AnswerMetrics
<1> HIDE DEF m, cc, gr, ar, ac, ko, es
<1>10. /\ m \in [AnswerKeys -> 0..One]
       /\ m.citation_correctness = cc /\ m.groundedness = gr
  BY ONLY <1>4, <1>5, <1>6, <1>7, <1>8, <1>9 DEF AnswerKeys
<1>. QED
  BY <1>6, <1>7, <1>10 DEF m

\* What _eval_one appends for a case agrees with itself.
LEMMA CaseMeasured ==
    ASSUME NEW found, IsFound(found), NEW relevant \in SUBSET Chunks,
           NEW cited \in SUBSET ToSet(found), NEW answer, NEW case \in AllCases
    PROVE  LET r == [failed |-> FALSE, relevant |-> relevant, found |-> found, cited |-> cited,
                     retrieval |-> RetrievalMetrics(found, relevant),
                     answer |-> AnswerMetrics(cited, relevant, answer, case)]
           IN  /\ r.retrieval \in [RetrievalKeys -> 0..One]
               /\ r.answer \in [AnswerKeys -> 0..One]
               /\ CaseAgrees(r)
<1> DEFINE m == RetrievalMetrics(found, relevant)
           a == AnswerMetrics(cited, relevant, answer, case)
           hit == ToSet(found) \cap relevant # {}
           best == Min({TopK, Cardinality(relevant)})
           all == relevant # {} /\ relevant \subseteq ToSet(found)
           full == /\ relevant # {} /\ Len(found) >= best
                   /\ \A p \in 1..best : found[p] \in relevant
           r == [failed |-> FALSE, relevant |-> relevant, found |-> found, cited |-> cited,
                 retrieval |-> m, answer |-> a]
<1>1. ToSet(found) \subseteq Chunks
  BY DEF IsFound, ToSet
<1>2. /\ a \in [AnswerKeys -> 0..One]
      /\ a.citation_correctness > 0 => cited \cap relevant # {}
      /\ a.groundedness > a.citation_correctness => relevant = {}
  <2>1. cited \in SUBSET Chunks
    BY <1>1
  <2>. QED
    BY <2>1, AnswersMeasured
<1>3. a.citation_correctness > 0 => hit
  BY <1>2
<1>4. /\ m.recall = Recall(found, relevant) /\ m.precision = Precision(found, relevant)
      /\ m.hit_rate = HitRate(found, relevant) /\ m.mrr = Mrr(found, relevant)
      /\ m.ndcg = Ndcg(found, relevant)
      /\ m = [recall |-> m.recall, precision |-> m.precision, hit_rate |-> m.hit_rate,
              mrr |-> m.mrr, ndcg |-> m.ndcg]
  BY DEF RetrievalMetrics
<1>5. m.recall \in 0..One /\ (m.recall > 0 <=> hit) /\ (m.recall = One <=> all)
  BY <1>4, RecallMeasures
<1>6. m.precision \in 0..One /\ (m.precision > 0 <=> hit)
  BY <1>4, PrecisionMeasures
<1>7. m.hit_rate \in 0..One /\ (m.hit_rate = One <=> hit)
  BY <1>4, HitRateMeasures
<1>8. m.mrr \in 0..One /\ (m.mrr > 0 <=> hit)
  BY <1>4, MrrMeasures
<1>9. m.ndcg \in 0..One /\ (m.ndcg > 0 <=> hit) /\ (m.ndcg = One <=> full)
  <2> DEFINE v == Ndcg(found, relevant)
  <2>1. v \in 0..One /\ (v > 0 <=> hit) /\ (v = One <=> full)
    BY NdcgMeasures, Zenon
  <2>2. m.ndcg = v
    BY <1>4
  <2> HIDE DEF v, m, hit, full
  <2>. QED
    BY ONLY <2>1, <2>2
<1> HIDE DEF m, a, hit, all, full, best
<1>10. m \in [RetrievalKeys -> 0..One]
  <2> DEFINE f == [k \in RetrievalKeys |->
                     CASE k = "recall" -> m.recall [] k = "precision" -> m.precision
                       [] k = "hit_rate" -> m.hit_rate [] k = "mrr" -> m.mrr [] OTHER -> m.ndcg]
  <2>1. f \in [RetrievalKeys -> 0..One]
    BY ONLY <1>5, <1>6, <1>7, <1>8, <1>9 DEF RetrievalKeys
  <2>2. m = f
    BY ONLY <1>4 DEF RetrievalKeys
  <2>. QED
    BY ONLY <2>1, <2>2
<1>11. /\ r.retrieval = m /\ r.answer = a /\ r.found = found /\ r.relevant = relevant
  OBVIOUS
<1> HIDE DEF r
<1>12. /\ (m.recall > 0 <=> hit) /\ (m.precision > 0 <=> hit) /\ (m.hit_rate = One <=> hit)
       /\ (m.mrr > 0 <=> hit) /\ (m.ndcg > 0 <=> hit)
       /\ m.recall = One <=> all
       /\ m.ndcg = One <=> full
       /\ a.citation_correctness > 0 => hit
       /\ a.groundedness > a.citation_correctness => relevant = {}
  <2>1. hit \in BOOLEAN /\ all \in BOOLEAN /\ full \in BOOLEAN
    BY DEF hit, all, full
  <2>. QED
    BY ONLY <1>2, <1>3, <1>5, <1>6, <1>7, <1>8, <1>9, <2>1
<1>13. CaseAgrees(r)
  BY <1>11, <1>12, Zenon DEF CaseAgrees, hit, all, full, best
<1>. QED
  BY <1>2, <1>10, <1>11, <1>13 DEF r, m, a

\* The mean of dicts with the same keys is between the least and the greatest of each.
LEMMA MeansAreBetween ==
    ASSUME NEW S \in SUBSET Int, IsFiniteSet(S), NEW K, K # {}, NEW dicts, DOMAIN dicts = S,
           \A i \in S : dicts[i] \in [K -> 0..One]
    PROVE  LET M == MeanDicts(dicts)
           IN  /\ S = {} => M = <<>>
               /\ S # {} => /\ M \in [K -> 0..One] /\ M # <<>>
                            /\ \A k \in K, V \in SUBSET Int :
                                  (\A v \in Int : v \in V <=> \E i \in S : v = dicts[i][k])
                                     => M[k] \in Min(V)..Max(V)
<1> DEFINE M == MeanDicts(dicts)
           n == Cardinality(S)
           Total(k) == SumFunction([i \in S |-> dicts[i][k]])
<1>1. CASE S = {}
  <2>1. M = <<>>
    BY <1>1 DEF MeanDicts
  <2>. QED
    BY <1>1, <2>1
<1>2. CASE S # {}
  <2>1. DOMAIN dicts[Min(S)] = K
    <3>1. Min(S) \in S
      BY <1>2, Extremes
    <3>. QED
      BY <3>1
  <2>2. M = [k \in K |-> (2 * Total(k) + n) \div (2 * n)]
    BY <1>2, <2>1 DEF MeanDicts
  <2>3. n \in Nat \ {0}
    BY <1>2, FS_EmptySet, FS_CardinalityType
  <2>4. ASSUME NEW k \in K
        PROVE  LET values == {dicts[i][k] : i \in S}
               IN  /\ M[k] \in 0..One
                   /\ M[k] \in Min(values)..Max(values)
    <3> DEFINE f == [i \in S |-> dicts[i][k]]
               values == {dicts[i][k] : i \in S}
               lo == Min(values)
               hi == Max(values)
               t == SumFunctionOnSet(f, S)
    <3>1. values = {f[i] : i \in S} /\ values \subseteq 0..One /\ values # {}
      BY <1>2
    <3>2. IsFiniteSet(values)
      <4>1. DOMAIN f = S /\ values = {f[i] : i \in DOMAIN f}
        OBVIOUS
      <4> HIDE DEF f, values
      <4>2. IsFiniteSet(DOMAIN f)
        BY <4>1
      <4>3. IsFiniteSet({f[i] : i \in DOMAIN f})
        BY ONLY <4>2, ImageIsFinite
      <4>. QED
        BY ONLY <4>1, <4>2, <4>3
    <3>3. /\ lo \in values /\ hi \in values
          /\ \A i \in S : lo <= f[i] /\ f[i] <= hi
      <4>1. values \in SUBSET Int
        BY <3>1, OneIsNat
      <4>2. /\ hi \in values /\ \A x \in values : x <= hi
            /\ lo \in values /\ \A x \in values : lo <= x
        <5> HIDE DEF values
        <5>. QED
          BY <3>1, <3>2, <4>1, Extremes
      <4>. QED
        BY <4>2
    <3>4. /\ lo \in 0..One /\ hi \in 0..One /\ lo \in Nat /\ hi \in Nat
          /\ \A i \in S : f[i] \in lo..hi
      <4>1. lo \in 0..One /\ hi \in 0..One /\ \A i \in S : f[i] \in 0..One
        BY ONLY <3>1, <3>3
      <4> HIDE DEF lo, hi, f
      <4>. QED
        BY ONLY <3>3, <4>1, OneIsNat
    <3>5. t \in Nat /\ n * lo <= t /\ t <= n * hi
      <4> HIDE DEF f, lo, hi
      <4>. QED
        BY ONLY <3>4, IsFiniteSet(S), SumBounds DEF t
    <3>6. M[k] = (2 * t + n) \div (2 * n)
      <4>1. DOMAIN f = S
        OBVIOUS
      <4>2. Total(k) = t
        BY <4>1 DEF SumFunction
      <4>. QED
        BY <2>2, <4>2
    <3> HIDE DEF f, lo, hi, t, n, M
    <3> DEFINE x == 2 * t + n
               y == 2 * n
               q == hi + 1
    <3>7. x \in Int /\ y \in Nat \ {0} /\ lo \in Int /\ q \in Int
      BY ONLY <2>3, <3>4, <3>5
    <3>8. x \div y \in Int
      BY ONLY <3>7
    <3>9. x >= lo * y
      <4>1. lo * y = 2 * (n * lo) /\ n * lo \in Int
        BY ONLY <2>3, <3>4
      <4>. QED
        BY ONLY <2>3, <3>5, <4>1
    <3>10. ~(x >= q * y)
      <4>1. q * y = 2 * (n * hi) + 2 * n /\ n * hi \in Int
        BY ONLY <2>3, <3>4
      <4>. QED
        BY ONLY <2>3, <3>5, <4>1
    <3>11. x \div y >= lo /\ ~(x \div y >= q)
      <4> HIDE DEF x, y, q
      <4>. QED
        BY ONLY <3>7, <3>9, <3>10, AtLeast
    <3>12. M[k] \in lo..hi /\ M[k] \in 0..One
      <4>1. M[k] = x \div y
        BY ONLY <3>6
      <4>2. q = hi + 1
        OBVIOUS
      <4> HIDE DEF x, y, q
      <4>. QED
        BY ONLY <3>4, <3>8, <3>11, <4>1, <4>2, OneIsNat
    <3>. QED
      BY <3>12 DEF lo, hi
  <2>5. M \in [K -> 0..One] /\ M # <<>>
    <3>1. M \in [K -> 0..One]
      <4>1. DOMAIN M = K /\ M = [k \in K |-> M[k]]
        BY <2>2
      <4> HIDE DEF M
      <4>. QED
        BY <2>4, <4>1
    <3> HIDE DEF M
    <3>2. DOMAIN M = K /\ DOMAIN <<>> = {}
      BY <3>1
    <3>. QED
      BY <3>1, <3>2
  <2> HIDE DEF M
  <2>6. ASSUME NEW k \in K, NEW V \in SUBSET Int,
               \A v \in Int : v \in V <=> \E i \in S : v = dicts[i][k]
        PROVE  M[k] \in Min(V)..Max(V)
    <3> DEFINE values == {dicts[i][k] : i \in S}
    <3>1. M[k] \in Min(values)..Max(values)
      BY <2>4
    <3>2. values \subseteq Int
      BY OneIsNat
    <3>3. V = values
      BY <2>6, <3>2
    <3>. QED
      BY ONLY <3>1, <3>3, Zenon
  <2>. QED
    BY <1>2, <2>5, <2>6 DEF M
<1>. QED
  BY <1>1, <1>2

-----------------------------------------------------------------------------
(* The specification.                                                      *)

Results ==
    [failed : {TRUE}] \cup
    [failed : {FALSE}, relevant : SUBSET Chunks, found : Seq(Chunks), cited : SUBSET Chunks,
     retrieval : [RetrievalKeys -> 0..One], answer : [AnswerKeys -> 0..One]]

Good(kind, r) == IsList(r.fused) /\ Len(r.fused) <= TopK /\ RespectsBoth(kind, r)

TypeInv ==
    /\ <<store, fusion>> \in Configurations
    /\ stored \subseteq Chunks /\ gold \subseteq Chunks
    /\ DOMAIN cached \subseteq Queries /\ (store = "pgvector" => DOMAIN cached = {})
    /\ cases \in CaseLists /\ out \in Seq(Results) /\ Len(out) <= Len(cases)
    /\ pc \in {"resolve", "retrieve", "answer", "report", "done", "raised"}
    /\ pc \in {"resolve", "retrieve", "answer", "raised"} => Len(out) < Len(cases)
    /\ pc \in {"report", "done"} => Len(out) = Len(cases)
    /\ ingests \in 0..MaxIngests /\ failures \in 0..MaxFailures

\* What the query has retrieved, and whatever the cache holds, respects both rankings.
FusionInv == Good(fusion, retrieval) /\ \A q \in DOMAIN cached : Good(fusion, cached[q])

CasesInv == \A i \in Measured : CaseAgrees(out[i])

\* There is no report until the last case, and then it has the means.
ReportInv ==
    report = IF pc = "done"
             THEN [retrieval |-> MeanDicts([i \in Measured |-> out[i].retrieval]),
                   answer |-> MeanDicts([i \in Measured |-> out[i].answer])]
             ELSE NoMeans

\* No case behind the current one is malformed, nor the current one where it is answered.
WellFormedInv ==
    /\ \A i \in 1..Len(out) : ~Malformed(cases[i])
    /\ pc = "answer" => ~Malformed(Case)
    /\ pc = "raised" => Malformed(Case)

IInv == TypeInv /\ FusionInv /\ CasesInv /\ ReportInv /\ WellFormedInv

LEMMA NothingIsGood == ASSUME NEW kind PROVE Good(kind, Nothing)
<1>1. Nothing.fused = <<>> /\ Nothing.dense = <<>> /\ Nothing.lexical = <<>>
  BY DEF Nothing
<1>2. Ids(Nothing.dense) \cup Ids(Nothing.lexical) = {}
  BY <1>1 DEF Ids
<1>3. IsList(<<>>) /\ Len(<<>>) = 0 /\ 0 <= TopK
  BY NothingIsHitList, IdsAreInts DEF IsHitList
<1>4. [i \in DOMAIN Nothing.fused |-> Nothing.fused[i].id] = <<>>
  BY <1>1
<1>5. ToSet(<<>>) = {} /\ IsInjective(<<>>)
  BY DEF ToSet, IsInjective
<1>6. Min({TopK, CandidateLimit, Cardinality({})}) = 0
  <2>1. TopK \in Nat /\ CandidateLimit \in Nat /\ Cardinality({}) = 0
    BY IdsAreInts, FusionAssumption, FS_EmptySet
  <2> DEFINE S == {TopK, CandidateLimit, 0}
  <2>2. S \in SUBSET Int /\ 0 \in S /\ \A x \in S : 0 <= x
    BY <2>1
  <2>3. \A v \in S : (\A x \in S : v <= x) => v = 0
    BY <2>1
  <2>. QED
    BY <2>1, <2>2, <2>3 DEF Min
<1>. QED
  BY <1>1, <1>2, <1>3, <1>4, <1>5, <1>6 DEF Good, RespectsBoth

LEMMA CasesAreTyped ==
    ASSUME TypeInv
    PROVE  /\ cases \in Seq(AllCases) /\ Len(out) \in Nat /\ Len(cases) \in Nat
           /\ DOMAIN out = 1..Len(out) /\ Measured \in SUBSET Int /\ IsFiniteSet(Measured)
           /\ (Len(out) < Len(cases) => Case \in AllCases)
           /\ MaxIngests \in Nat /\ MaxFailures \in Nat
<1>1. CaseLists \subseteq Seq(AllCases) /\ MaxIngests \in Nat /\ MaxFailures \in Nat
  BY EvaluationAssumption, Zenon DEF EvaluationAssumption
<1>2. cases \in Seq(AllCases)
  BY <1>1 DEF TypeInv
<1>3. Len(out) \in Nat /\ Len(cases) \in Nat /\ DOMAIN out = 1..Len(out)
  BY <1>2 DEF TypeInv
<1>4. Measured \in SUBSET Int /\ IsFiniteSet(Measured)
  <2> DEFINE D == 1..Len(out)
  <2>1. IsFiniteSet(D) /\ D \subseteq Int
    BY <1>3, FS_Interval
  <2>2. Measured \in SUBSET D
    BY <1>3 DEF Measured
  <2> HIDE DEF D
  <2>. QED
    BY <2>1, <2>2, FS_Subset
<1>5. Len(out) < Len(cases) => Case \in AllCases
  BY <1>2, <1>3 DEF Case
<1>. QED
  BY <1>1, <1>2, <1>3, <1>4, <1>5

LEMMA InitHolds == Init => IInv
<1>1. SUFFICES ASSUME Init PROVE IInv
  OBVIOUS
<1>2. Len(<<>>) = 0 /\ <<>> \in Seq(Results) /\ DOMAIN <<>> = {}
  OBVIOUS
<1>3. Measured = {}
  BY <1>1, <1>2 DEF Init, Measured
<1>4. cases \in Seq(AllCases) /\ MaxIngests \in Nat /\ MaxFailures \in Nat
  <2>1. CaseLists \subseteq Seq(AllCases) /\ MaxIngests \in Nat /\ MaxFailures \in Nat
    BY EvaluationAssumption, Zenon DEF EvaluationAssumption
  <2>. QED
    BY <1>1, <2>1 DEF Init
<1>5. TypeInv
  <2>1. <<store, fusion>> \in Configurations
    <3>1. PICK c \in Configurations : store = c[1] /\ fusion = c[2]
      BY <1>1 DEF Init
    <3>2. Configurations \subseteq {"memory", "pgvector"} \X {"linear", "rrf"}
      BY EvaluationAssumption, Zenon DEF EvaluationAssumption
    <3>. QED
      BY <3>1, <3>2
  <2>2. Len(cases) \in Nat /\ (cases = <<>> <=> Len(cases) = 0)
    BY <1>4
  <2>. QED
    BY <1>1, <1>2, <1>4, <2>1, <2>2 DEF Init, TypeInv
<1>6. FusionInv
  <2>1. retrieval = Nothing /\ DOMAIN cached = {}
    BY <1>1 DEF Init
  <2>. QED
    BY <2>1, NothingIsGood DEF FusionInv
<1>7. CasesInv
  BY <1>3 DEF CasesInv
<1>8. ReportInv
  <2>1. \A f : DOMAIN f = {} => MeanDicts(f) = <<>>
    BY DEF MeanDicts
  <2>2. MeanDicts([i \in Measured |-> out[i].retrieval]) = <<>>
    BY <1>3, <2>1
  <2>3. MeanDicts([i \in Measured |-> out[i].answer]) = <<>>
    BY <1>3, <2>1
  <2>4. report = NoMeans
    BY <1>1 DEF Init
  <2>. QED
    BY <2>2, <2>3, <2>4 DEF ReportInv, NoMeans
<1>9. WellFormedInv
  BY <1>1, <1>2 DEF Init, WellFormedInv
<1>. QED
  BY <1>5, <1>6, <1>7, <1>8, <1>9 DEF IInv

\* Until the report there are no means, and a step that is not the last leaves them out.
LEMMA NoReportYet ==
    ASSUME ReportInv, pc # "done", pc' # "done", UNCHANGED report
    PROVE  ReportInv'
  BY DEF ReportInv, NoMeans

LEMMA IngestKeeps ==
    ASSUME IInv, NEW c \in Chunks, Ingest(c)
    PROVE  IInv'
<1>1. TypeInv'
  <2>1. MaxIngests \in Nat
    BY CasesAreTyped DEF IInv
  <2>. QED
    BY <2>1 DEF IInv, TypeInv, Ingest
<1>2. FusionInv'
  BY DEF IInv, FusionInv, Ingest
<1>3. CasesInv'
  BY DEF IInv, CasesInv, Measured, Ingest
<1>4. ReportInv'
  BY NoReportYet DEF IInv, Ingest
<1>5. WellFormedInv'
  BY DEF IInv, WellFormedInv, Case, Ingest
<1>. QED
  BY <1>1, <1>2, <1>3, <1>4, <1>5 DEF IInv

LEMMA ResolveKeeps ==
    ASSUME IInv, ResolveGold
    PROVE  IInv'
<1>1. TypeInv'
  <2>1. gold' \subseteq Chunks
    <3>1. Case \in AllCases
      BY CasesAreTyped DEF IInv, TypeInv, ResolveGold
    <3>2. \A d \in AllCases : d.chunks \in Seq(Chunks)
      BY EvaluationAssumption, Zenon DEF EvaluationAssumption
    <3>3. ToSet(Case.chunks) \subseteq Chunks
      BY <3>1, <3>2 DEF ToSet
    <3>4. stored \subseteq Chunks
      BY DEF IInv, TypeInv
    <3>. QED
      BY <3>3, <3>4 DEF ResolveGold
  <2>. QED
    BY <2>1 DEF IInv, TypeInv, ResolveGold
<1>2. FusionInv'
  BY DEF IInv, FusionInv, ResolveGold
<1>3. CasesInv'
  BY DEF IInv, CasesInv, Measured, ResolveGold
<1>4. ReportInv'
  BY NoReportYet DEF IInv, ResolveGold
<1>5. WellFormedInv'
  BY DEF IInv, WellFormedInv, Case, ResolveGold
<1>. QED
  BY <1>1, <1>2, <1>3, <1>4, <1>5 DEF IInv

\* What a search of both indexes retrieves and fuses is good, whatever is stored.
LEMMA FreshIsGood ==
    ASSUME stored \subseteq Chunks, NEW q \in Queries, NEW kind
    PROVE  Good(kind, [dense |-> DenseHits(q), lexical |-> LexicalHits(q),
                       fused |-> Fuse(kind, DenseHits(q), LexicalHits(q), TopK)])
<1> DEFINE r == [dense |-> DenseHits(q), lexical |-> LexicalHits(q),
                 fused |-> Fuse(kind, DenseHits(q), LexicalHits(q), TopK)]
<1>1. /\ Dense[q] \in [Chunks -> Int] /\ Bm25[q] \in [Chunks -> Int]
      /\ \A c, d \in Chunks : /\ Dense[q][c] - Dense[q][d] <= Scale
                              /\ Bm25[q][c] - Bm25[q][d] <= Scale
  <2>1. \A x \in Queries :
           /\ Dense[x] \in [Chunks -> Int] /\ Bm25[x] \in [Chunks -> Int]
           /\ \A c, d \in Chunks : /\ Dense[x][c] - Dense[x][d] <= Scale
                                   /\ Bm25[x][c] - Bm25[x][d] <= Scale
    BY RoundingAssumption, Zenon DEF RoundingAssumption
  <2>. QED
    BY ONLY <2>1, q \in Queries, Zenon
<1>2. IsHitList(DenseHits(q))
  <2> DEFINE near == {c \in stored : Dense[q][c] >= MinSimilarity}
  <2>1. near \in SUBSET Chunks
    OBVIOUS
  <2> HIDE DEF near
  <2>2. IsHitList(HitsOf(near, Dense[q], 2 * TopK))
    BY <1>1, <2>1, SearchIsHitList
  <2>. QED
    BY <2>2 DEF DenseHits, near
<1>3. IsHitList(LexicalHits(q))
  <2> DEFINE known == IF \E c \in stored : Bm25[q][c] > 0 THEN stored ELSE {}
  <2>1. known \in SUBSET Chunks
    OBVIOUS
  <2> HIDE DEF known
  <2>2. IsHitList(HitsOf(known, Bm25[q], 2 * TopK))
    BY <1>1, <2>1, SearchIsHitList
  <2>. QED
    BY <2>2 DEF LexicalHits, known
<1>4. /\ r.dense = DenseHits(q) /\ r.lexical = LexicalHits(q)
      /\ r.fused = Fuse(kind, DenseHits(q), LexicalHits(q), TopK)
  OBVIOUS
<1> HIDE DEF r
<1>5. IsRetrieval(r) /\ r.fused = Fuse(kind, r.dense, r.lexical, TopK)
  BY <1>2, <1>3, <1>4 DEF IsRetrieval
<1>. QED
  BY <1>5, FusionRespectsBoth DEF Good, r

LEMMA RetrieveKeeps ==
    ASSUME IInv, Retrieve
    PROVE  IInv'
<1> DEFINE q == Case.query
           fresh == [dense |-> DenseHits(q), lexical |-> LexicalHits(q),
                     fused |-> Fuse(fusion, DenseHits(q), LexicalHits(q), TopK)]
<1>1. q \in Queries
  <2>1. Case \in AllCases
    BY CasesAreTyped DEF IInv, TypeInv, Retrieve
  <2>2. \A d \in AllCases : d.query \in Queries
    BY EvaluationAssumption, Zenon DEF EvaluationAssumption
  <2>. QED
    BY <2>1, <2>2
<1>2. /\ retrieval' = IF store = "memory" /\ q \in DOMAIN cached THEN cached[q] ELSE fresh
      /\ cached' = IF store = "memory" THEN [x \in DOMAIN cached \cup {q} |->
                                                IF x = q THEN retrieval' ELSE cached[x]]
                   ELSE cached
      /\ pc = "retrieve" /\ pc' = "answer" /\ ~Malformed(Case)
      /\ UNCHANGED <<store, fusion, stored, cases, gold, out, report, ingests, failures>>
  BY DEF Retrieve
<1>3. Good(fusion, fresh)
  BY <1>1, FreshIsGood DEF IInv, TypeInv
<1> HIDE DEF fresh, q
<1>4. Good(fusion, retrieval')
  BY <1>2, <1>3 DEF IInv, FusionInv
<1>5. \A x \in DOMAIN cached' : Good(fusion, cached'[x])
  BY <1>2, <1>4 DEF IInv, FusionInv
<1>6. FusionInv'
  BY <1>2, <1>4, <1>5 DEF FusionInv
<1>7. TypeInv'
  <2>1. DOMAIN cached' \subseteq Queries /\ (store = "pgvector" => DOMAIN cached' = {})
    BY <1>1, <1>2 DEF IInv, TypeInv
  <2>. QED
    BY <1>2, <2>1 DEF IInv, TypeInv
<1>8. CasesInv'
  BY <1>2 DEF IInv, CasesInv, Measured
<1>9. ReportInv'
  BY <1>2, NoReportYet DEF IInv
<1>10. WellFormedInv'
  BY <1>2 DEF IInv, WellFormedInv, Case
<1>. QED
  BY <1>6, <1>7, <1>8, <1>9, <1>10 DEF IInv

\* A case is closed with a result: the next one, or the report, starts afresh.
LEMMA CloseKeeps ==
    ASSUME IInv, pc \in {"retrieve", "answer"}, ~Malformed(Case), NEW r \in Results, Close(r),
           ~r.failed => CaseAgrees(r), failures' \in 0..MaxFailures
    PROVE  IInv'
<1>1. /\ Len(out) \in Nat /\ Len(cases) \in Nat /\ Len(out) < Len(cases)
      /\ out \in Seq(Results) /\ DOMAIN out = 1..Len(out)
  BY CasesAreTyped DEF IInv, TypeInv
<1>2. /\ out' = Append(out, r) /\ gold' = {} /\ retrieval' = Nothing
      /\ pc' = IF Len(out) + 1 = Len(cases) THEN "report" ELSE "resolve"
      /\ UNCHANGED <<store, fusion, stored, cached, cases, report, ingests>>
  BY DEF Close
<1>3. /\ out' \in Seq(Results) /\ Len(out') = Len(out) + 1 /\ DOMAIN out' = 1..(Len(out) + 1)
      /\ out'[Len(out) + 1] = r /\ \A i \in DOMAIN out : out'[i] = out[i]
  BY ONLY <1>1, <1>2, r \in Results
<1>4. TypeInv'
  <2>1. /\ Len(out') <= Len(cases)
        /\ \/ pc' = "report" /\ Len(out') = Len(cases)
           \/ pc' = "resolve" /\ Len(out') < Len(cases)
    BY ONLY <1>1, <1>2, <1>3
  <2>. QED
    BY <1>2, <1>3, <2>1 DEF IInv, TypeInv
<1>5. FusionInv'
  BY <1>2, NothingIsGood DEF IInv, FusionInv
<1>6. CasesInv'
  <2>1. SUFFICES ASSUME NEW i \in DOMAIN out', ~out'[i].failed
                 PROVE  CaseAgrees(out'[i])
    BY DEF CasesInv, Measured
  <2>2. CASE i \in DOMAIN out
    BY <1>3, <2>1, <2>2 DEF IInv, CasesInv, Measured
  <2>3. CASE i \notin DOMAIN out
    <3>1. i = Len(out) + 1
      BY ONLY <1>1, <1>3, <2>1, <2>3
    <3>. QED
      BY <1>3, <2>1, <3>1
  <2>. QED
    BY <2>2, <2>3
<1>7. ReportInv'
  BY <1>2, NoReportYet DEF IInv
<1>8. WellFormedInv'
  <2>1. SUFFICES ASSUME NEW i \in 1..Len(out')
                 PROVE  ~Malformed(cases[i])
    BY <1>2 DEF WellFormedInv
  <2>2. CASE i \in 1..Len(out)
    BY <2>2 DEF IInv, WellFormedInv
  <2>3. CASE i = Len(out) + 1
    BY <2>3 DEF Case
  <2>. QED
    BY <1>1, <1>3, <2>2, <2>3
<1>. QED
  BY <1>4, <1>5, <1>6, <1>7, <1>8 DEF IInv

LEMMA MeasureKeeps ==
    ASSUME IInv, Measure
    PROVE  IInv'
<1>1. PICK cited \in SUBSET ToSet(Retrieved) :
         Close([failed |-> FALSE, relevant |-> gold, found |-> Retrieved, cited |-> cited,
                retrieval |-> RetrievalMetrics(Retrieved, gold),
                answer |-> AnswerMetrics(cited, gold, UNION {Words[c] : c \in cited}, Case)])
  BY DEF Measure
<1> DEFINE words == UNION {Words[c] : c \in cited}
           r == [failed |-> FALSE, relevant |-> gold, found |-> Retrieved, cited |-> cited,
                 retrieval |-> RetrievalMetrics(Retrieved, gold),
                 answer |-> AnswerMetrics(cited, gold, words, Case)]
<1>2. pc = "answer" /\ UNCHANGED failures /\ ~Malformed(Case)
  BY DEF Measure, IInv, WellFormedInv
<1>3. gold \in SUBSET Chunks /\ Case \in AllCases /\ failures' \in 0..MaxFailures
  BY <1>2, CasesAreTyped DEF IInv, TypeInv
<1>4. IsFound(Retrieved) /\ ToSet(Retrieved) \subseteq Chunks
  <2>1. /\ retrieval.fused \in Seq(Hit) /\ Len(retrieval.fused) <= TopK
        /\ \A i, j \in DOMAIN retrieval.fused :
              retrieval.fused[i].id = retrieval.fused[j].id => i = j
    BY DEF IInv, FusionInv, Good, IsList
  <2>2. /\ Retrieved \in Seq(Chunks) /\ Len(Retrieved) = Len(retrieval.fused)
        /\ DOMAIN Retrieved = DOMAIN retrieval.fused
        /\ \A i \in DOMAIN Retrieved : Retrieved[i] = retrieval.fused[i].id
    <3> DEFINE s == retrieval.fused
               g == [i \in DOMAIN s |-> s[i].id]
    <3>1. /\ DOMAIN s = 1..Len(s) /\ Len(s) \in Nat
          /\ \A i \in 1..Len(s) : s[i].id \in Chunks
      <4>1. DOMAIN s = 1..Len(s) /\ Len(s) \in Nat /\ \A i \in 1..Len(s) : s[i] \in Hit
        BY <2>1
      <4>2. \A h \in Hit : h.id \in Chunks
        BY DEF Hit
      <4> HIDE DEF s
      <4>. QED
        BY ONLY <4>1, <4>2
    <3>2. Retrieved = g
      BY DEF Retrieved
    <3> HIDE DEF s
    <3>3. /\ g \in [1..Len(s) -> Chunks] /\ DOMAIN g = 1..Len(s)
          /\ \A i \in 1..Len(s) : g[i] = s[i].id
      BY <3>1
    <3> HIDE DEF g
    <3>4. g \in Seq(Chunks) /\ Len(g) = Len(s)
      BY ONLY <3>1, <3>3
    <3>. QED
      BY <3>1, <3>2, <3>3, <3>4 DEF s
  <2>. QED
    BY <2>1, <2>2 DEF IsFound, ToSet
<1> HIDE DEF words
<1>5. /\ r.retrieval \in [RetrievalKeys -> 0..One]
      /\ r.answer \in [AnswerKeys -> 0..One]
      /\ CaseAgrees(r)
  BY <1>3, <1>4, CaseMeasured
<1>6. r \in Results
  <2>1. /\ RetrievalMetrics(Retrieved, gold) \in [RetrievalKeys -> 0..One]
        /\ AnswerMetrics(cited, gold, words, Case) \in [AnswerKeys -> 0..One]
    BY <1>5
  <2>2. Retrieved \in Seq(Chunks) /\ cited \in SUBSET Chunks
    BY <1>4 DEF IsFound
  <2>. QED
    BY <1>3, <2>1, <2>2 DEF Results
<1>7. Close(r)
  BY <1>1 DEF words
<1> HIDE DEF r
<1>. QED
  BY <1>2, <1>3, <1>5, <1>6, <1>7, CloseKeeps

LEMMA FailureKeeps ==
    ASSUME IInv, CaseFails
    PROVE  IInv'
<1> DEFINE r == [failed |-> TRUE]
<1>1. r \in Results /\ r.failed
  BY DEF Results
<1>2. failures' \in 0..MaxFailures
  <2>1. MaxFailures \in Nat
    BY CasesAreTyped DEF IInv
  <2>. QED
    BY <2>1 DEF IInv, TypeInv, CaseFails
<1>3. pc \in {"retrieve", "answer"} /\ Close(r) /\ ~Malformed(Case)
  BY DEF CaseFails, IInv, WellFormedInv
<1> HIDE DEF r
<1>. QED
  BY <1>1, <1>2, <1>3, CloseKeeps

LEMMA SummaryKeeps ==
    ASSUME IInv, Summarize
    PROVE  IInv'
<1>1. /\ report' = [retrieval |-> MeanDicts([i \in Measured |-> out[i].retrieval]),
                    answer |-> MeanDicts([i \in Measured |-> out[i].answer])]
      /\ pc = "report" /\ pc' = "done"
      /\ UNCHANGED <<store, fusion, stored, cached, cases, gold, retrieval, out, ingests, failures>>
  BY DEF Summarize
<1>2. TypeInv'
  BY <1>1 DEF IInv, TypeInv
<1>3. FusionInv'
  BY <1>1 DEF IInv, FusionInv
<1>4. CasesInv' /\ Measured' = Measured
  BY <1>1 DEF IInv, CasesInv, Measured
<1>5. ReportInv'
  BY <1>1, <1>4 DEF ReportInv
<1>6. WellFormedInv'
  BY <1>1 DEF IInv, WellFormedInv, Case
<1>. QED
  BY <1>2, <1>3, <1>4, <1>5, <1>6 DEF IInv

LEMMA RaiseKeeps ==
    ASSUME IInv, CaseRaises
    PROVE  IInv'
<1>1. TypeInv' /\ FusionInv'
  BY DEF IInv, TypeInv, FusionInv, CaseRaises
<1>2. CasesInv'
  BY DEF IInv, CasesInv, Measured, CaseRaises
<1>3. ReportInv'
  BY NoReportYet DEF IInv, CaseRaises
<1>4. WellFormedInv'
  BY DEF IInv, WellFormedInv, Case, CaseRaises
<1>. QED
  BY <1>1, <1>2, <1>3, <1>4 DEF IInv

LEMMA StepKeeps == IInv /\ [Next]_vars => IInv'
<1>1. SUFFICES ASSUME IInv, [Next]_vars PROVE IInv'
  OBVIOUS
<1>2. CASE ResolveGold
  BY <1>1, <1>2, ResolveKeeps
<1>3. CASE Retrieve
  BY <1>1, <1>3, RetrieveKeeps
<1>4. CASE Measure
  BY <1>1, <1>4, MeasureKeeps
<1>5. CASE CaseFails
  BY <1>1, <1>5, FailureKeeps
<1>6. CASE Summarize
  BY <1>1, <1>6, SummaryKeeps
<1>7. CASE \E c \in Chunks : Ingest(c)
  BY <1>1, <1>7, IngestKeeps
<1>8. CASE CaseRaises
  BY <1>1, <1>8, RaiseKeeps
<1>9. CASE UNCHANGED vars
  BY <1>1, <1>9 DEF vars, IInv, TypeInv, FusionInv, CasesInv, Measured, ReportInv, WellFormedInv, Case
<1>. QED
  BY <1>1, <1>2, <1>3, <1>4, <1>5, <1>6, <1>7, <1>8, <1>9 DEF Next

LEMMA RunsKeep == Spec => []IInv
<1>1. Init => IInv
  BY InitHolds
<1>2. IInv /\ [Next]_vars => IInv'
  BY StepKeeps
<1>. QED
  BY <1>1, <1>2, PTL DEF Spec

\* The dicts of the measured cases, which the means are of.
LEMMA MeasuredDicts ==
    ASSUME IInv
    PROVE  /\ Measured \in SUBSET Int /\ IsFiniteSet(Measured)
           /\ \A i \in Measured : /\ out[i].retrieval \in [RetrievalKeys -> 0..One]
                                  /\ out[i].answer \in [AnswerKeys -> 0..One]
<1>1. Measured \in SUBSET Int /\ IsFiniteSet(Measured)
  BY CasesAreTyped DEF IInv
<1>2. \A i \in Measured : out[i] \in Results /\ ~out[i].failed
  BY CasesAreTyped DEF IInv, TypeInv, Measured
<1>3. \A r \in Results : ~r.failed => /\ r.retrieval \in [RetrievalKeys -> 0..One]
                                      /\ r.answer \in [AnswerKeys -> 0..One]
  BY DEF Results
<1>. QED
  BY ONLY <1>1, <1>2, <1>3

LEMMA ReportsAreMeans ==
    ASSUME IInv
    PROVE  /\ report.retrieval = <<>> \/ report.retrieval \in [RetrievalKeys -> 0..One]
           /\ report.answer = <<>> \/ report.answer \in [AnswerKeys -> 0..One]
           /\ \A k \in DOMAIN report.retrieval :
                 LET values == {out[i].retrieval[k] : i \in Measured}
                 IN  report.retrieval[k] \in Min(values)..Max(values)
           /\ pc = "done" => (report.retrieval = <<>> <=> Measured = {})
<1>1. CASE pc # "done"
  <2>1. report.retrieval = <<>> /\ report.answer = <<>> /\ DOMAIN <<>> = {}
    BY <1>1 DEF IInv, ReportInv, NoMeans
  <2>. QED
    BY <1>1, <2>1
<1>2. CASE pc = "done"
  <2> DEFINE S == Measured
             f == [i \in S |-> out[i].retrieval]
             g == [i \in S |-> out[i].answer]
  <2>1. report.retrieval = MeanDicts(f) /\ report.answer = MeanDicts(g)
    BY <1>2 DEF IInv, ReportInv
  <2>2. /\ S \in SUBSET Int /\ IsFiniteSet(S)
        /\ \A i \in S : out[i].retrieval \in [RetrievalKeys -> 0..One]
        /\ \A i \in S : out[i].answer \in [AnswerKeys -> 0..One]
    BY MeasuredDicts
  <2>3. /\ DOMAIN f = S /\ \A i \in S : f[i] = out[i].retrieval
        /\ DOMAIN g = S /\ \A i \in S : g[i] = out[i].answer
    OBVIOUS
  <2>4. RetrievalKeys # {} /\ AnswerKeys # {}
    BY DEF RetrievalKeys, AnswerKeys
  <2> HIDE DEF f, g, S
  <2>5. /\ \A i \in S : f[i] \in [RetrievalKeys -> 0..One]
        /\ \A i \in S : g[i] \in [AnswerKeys -> 0..One]
    BY <2>2, <2>3
  <2>6. LET M == MeanDicts(f)
        IN  /\ S = {} => M = <<>>
            /\ S # {} => /\ M \in [RetrievalKeys -> 0..One] /\ M # <<>>
                         /\ \A k \in RetrievalKeys, V \in SUBSET Int :
                               (\A v \in Int : v \in V <=> \E i \in S : v = f[i][k])
                                  => M[k] \in Min(V)..Max(V)
    <3>1. /\ S \in SUBSET Int /\ IsFiniteSet(S) /\ RetrievalKeys # {} /\ DOMAIN f = S
          /\ \A i \in S : f[i] \in [RetrievalKeys -> 0..One]
      BY ONLY <2>2, <2>3, <2>4, <2>5
    <3>. QED
      BY ONLY <3>1, MeansAreBetween, ZenonT(30)
  <2>7. LET M == MeanDicts(g)
        IN  /\ S = {} => M = <<>>
            /\ S # {} => M \in [AnswerKeys -> 0..One] /\ M # <<>>
    BY ONLY <2>2, <2>3, <2>4, <2>5, MeansAreBetween
  <2>8. CASE S = {}
    <3>1. report.retrieval = <<>> /\ report.answer = <<>> /\ DOMAIN <<>> = {}
      BY <2>1, <2>6, <2>7, <2>8
    <3>. QED
      BY <2>8, <3>1 DEF S
  <2>9. CASE S # {}
    <3>1. /\ report.retrieval \in [RetrievalKeys -> 0..One] /\ report.retrieval # <<>>
          /\ report.answer \in [AnswerKeys -> 0..One]
      BY <2>1, <2>6, <2>7, <2>9
    <3>2. ASSUME NEW k \in RetrievalKeys
          PROVE  LET values == {out[i].retrieval[k] : i \in S}
                 IN  report.retrieval[k] \in Min(values)..Max(values)
      <4> DEFINE V == {out[i].retrieval[k] : i \in S}
      <4>1. V \in SUBSET Int /\ \A v \in Int : v \in V <=> \E i \in S : v = f[i][k]
        BY <2>2, <2>3, OneIsNat
      <4> HIDE DEF V
      <4>2. MeanDicts(f)[k] \in Min(V)..Max(V)
        BY ONLY <2>6, <2>9, <4>1, k \in RetrievalKeys, Zenon
      <4>. QED
        BY <2>1, <4>2, Zenon DEF V
    <3>3. DOMAIN report.retrieval = RetrievalKeys
      BY <3>1
    <3>. QED
      BY <2>9, <3>1, <3>2, <3>3 DEF S
  <2>. QED
    BY <2>8, <2>9
<1>. QED
  BY <1>1, <1>2

\* Every variable has its type, and every measure and mean is a number from 0 to 1,
\* whatever is stored, cached, ingested meanwhile and asked.  (metrics.py:29-153, 202-311)
THEOREM TypeCorrect == Spec => []TypeOK
<1>1. IInv => TypeOK
  <2>1. SUFFICES ASSUME IInv PROVE TypeOK
    OBVIOUS
  <2>2. \A i \in Measured : Measures(out[i]) \subseteq 0..One
    BY <2>1, MeasuredDicts DEF Measures
  <2>3. Measures(report) \subseteq 0..One
    <3>1. DOMAIN <<>> = {}
      OBVIOUS
    <3>2. \A k \in DOMAIN report.retrieval : report.retrieval[k] \in 0..One
      BY <2>1, <3>1, ReportsAreMeans
    <3>3. \A k \in DOMAIN report.answer : report.answer[k] \in 0..One
      BY <2>1, <3>1, ReportsAreMeans
    <3>. QED
      BY <3>2, <3>3 DEF Measures
  <2>. QED
    BY <2>1, <2>2, <2>3 DEF IInv, TypeInv, TypeOK
<1>. QED
  BY <1>1, RunsKeep, PTL

\* Fusion respects both rankings, by weights and by reciprocal ranks, for every set of
\* chunks, all scores and every top_k; and what the cache returns later still does.
\* (hybrid.py:18-59, 126-185)
THEOREM FusionIsRespected == Spec => []BetterGoesFirst
<1>1. IInv => BetterGoesFirst
  BY DEF IInv, FusionInv, Good, BetterGoesFirst
<1>. QED
  BY <1>1, RunsKeep, PTL

\* The measures of a case describe one fact, and the means are those of the cases that
\* did not fail, between their least and greatest value; and there is a report only of well-
\* formed cases.  (metrics.py:29-153, 189-210, 249-253, 303-311)
THEOREM MeasuresAlwaysAgree == Spec => []MeasuresAgree
<1>1. IInv => MeasuresAgree
  <2>1. SUFFICES ASSUME IInv PROVE MeasuresAgree
    OBVIOUS
  <2>2. \A i \in Measured : CaseAgrees(out[i])
    BY <2>1 DEF IInv, CasesInv
  <2>3. pc = "done" => Len(out) = Len(cases)
    BY <2>1 DEF IInv, TypeInv
  <2>4. /\ \A k \in DOMAIN report.retrieval :
              LET values == {out[i].retrieval[k] : i \in Measured}
              IN  report.retrieval[k] \in Min(values)..Max(values)
        /\ pc = "done" => (report.retrieval = <<>> <=> Measured = {})
    BY <2>1, ReportsAreMeans
  <2>5. pc = "raised" => report = NoMeans /\ Malformed(Case)
    BY <2>1 DEF IInv, ReportInv, WellFormedInv
  <2>6. pc = "done" => \A i \in DOMAIN cases : ~Malformed(cases[i])
    <3>1. cases \in Seq(AllCases)
      BY <2>1, CasesAreTyped DEF IInv
    <3>2. DOMAIN cases = 1..Len(cases)
      BY <3>1
    <3>. QED
      BY <2>1, <2>3, <3>2 DEF IInv, WellFormedInv
  <2>. QED
    BY <2>2, <2>3, <2>4, <2>5, <2>6, Zenon DEF MeasuresAgree
<1>. QED
  BY <1>1, RunsKeep, PTL
=============================================================================
