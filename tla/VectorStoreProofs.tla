-------------------------- MODULE VectorStoreProofs -------------------------
(***************************************************************************)
(* Proofs about InMemoryVectorStore for every set of threads, documents,   *)
(* chunks, batches and queries: its variables keep their types, its three  *)
(* dicts always describe the same chunks, and each operation takes effect  *)
(* at one instant, as in AtomicVectorStore.                                *)
(***************************************************************************)
EXTENDS VectorStore, PgVectorStore, Ranking, Induction, TLAPS

\* What Set and Without, the two dict updates of the store, return.
LEMMA SetIsMapping ==
    ASSUME NEW S, NEW f, f \in [DOMAIN f -> S], NEW k, NEW v \in S
    PROVE  /\ DOMAIN Set(f, k, v) = DOMAIN f \cup {k}
           /\ Set(f, k, v) \in [DOMAIN Set(f, k, v) -> S]
  BY DEF Set

LEMMA WithoutIsMapping ==
    ASSUME NEW S, NEW f, f \in [DOMAIN f -> S], NEW K
    PROVE  /\ DOMAIN Without(f, K) = DOMAIN f \ K
           /\ Without(f, K) \in [DOMAIN Without(f, K) -> S]
  BY DEF Without

\* The chunk at the head of a batch is a chunk, and so are the others.
LEMMA BatchParts ==
    ASSUME NEW b \in Seq(Chunk), b # <<>>
    PROVE  /\ Head(b) \in Chunk
           /\ Tail(b) \in Seq(Chunk)
  OBVIOUS

LEMMA InitTypeOK == Init => TypeOK
  BY StoreAssumption DEF Init, TypeOK, StoreAssumption

LEMMA NextTypeOK == TypeOK /\ [Next]_vars => TypeOK'
<1> USE StoreAssumption DEF StoreAssumption
<1> SUFFICES ASSUME TypeOK, [Next]_vars
             PROVE  TypeOK'
    OBVIOUS
<1> USE DEF TypeOK
<1>1. CASE UNCHANGED vars
  BY <1>1 DEF vars, store
<1>2. ASSUME NEW t \in Threads, NEW b \in Batches, NEW m \in Models, BeginAdd(t, b, m)
      PROVE  TypeOK'
  <2>1. b \in Seq(Chunk)
    BY DEF Chunk
  <2>2. adds' \in 0..MaxAdds
    BY <1>2 DEF BeginAdd
  <2>. QED
    BY <1>2, <2>1, <2>2 DEF BeginAdd, store, Return
<1>3. ASSUME NEW t \in Threads, AddOne(t)
      PROVE  TypeOK'
  <2> DEFINE c == Head(batch[t])
  <2>1. c \in Chunk /\ Tail(batch[t]) \in Seq(Chunk) /\ c.vec \in Vectors
    BY <1>3, BatchParts DEF AddOne, StoreHead, Looping, HeadFits, HeadIsNew
  <2>2. c.id \in Ids /\ c.text \in Texts /\ DocOf[c.id] \in Docs
    BY <2>1 DEF Chunk
  <2>3. /\ vectors' = Set(vectors, c.id, c.vec)
        /\ chunks' = Set(chunks, c.id, c.text)
    BY <1>3 DEF AddOne, StoreHead, Looping, HeadFits, HeadIsNew
  <2>4. DOMAIN vectors' \subseteq Ids /\ vectors' \in [DOMAIN vectors' -> Vectors]
    <3>1. vectors \in [DOMAIN vectors -> Vectors] /\ c.vec \in Vectors
      BY <2>1
    <3>2. /\ DOMAIN Set(vectors, c.id, c.vec) = DOMAIN vectors \cup {c.id}
          /\ Set(vectors, c.id, c.vec) \in [DOMAIN Set(vectors, c.id, c.vec) -> Vectors]
      BY ONLY <3>1, SetIsMapping
    <3>. QED
      BY <2>2, <2>3, <3>2
  <2>5. DOMAIN chunks' \subseteq Ids /\ chunks' \in [DOMAIN chunks' -> Texts]
    <3>1. chunks \in [DOMAIN chunks -> Texts] /\ c.text \in Texts
      BY <2>2
    <3>2. /\ DOMAIN Set(chunks, c.id, c.text) = DOMAIN chunks \cup {c.id}
          /\ Set(chunks, c.id, c.text) \in [DOMAIN Set(chunks, c.id, c.text) -> Texts]
      BY ONLY <3>1, SetIsMapping
    <3>. QED
      BY <2>2, <2>3, <3>2
  <2>6. docChunks' \in [Docs -> Seq(Ids)]
    BY <1>3, <2>2 DEF AddOne, StoreHead, Looping, HeadFits, HeadIsNew
  <2>7. batch' \in [Threads -> Seq(Chunk)]
    BY <1>3, <2>1 DEF AddOne, StoreHead, Looping, HeadFits, HeadIsNew
  <2>. QED
    BY <1>3, <2>4, <2>5, <2>6, <2>7 DEF AddOne, StoreHead, Looping, HeadFits, HeadIsNew
<1>4. ASSUME NEW t \in Threads, AddRaises(t)
      PROVE  TypeOK'
  BY <1>4 DEF AddRaises, store, Return
<1>5. ASSUME NEW t \in Threads, FinishAdd(t)
      PROVE  TypeOK'
  BY <1>5 DEF FinishAdd, store, Return
<1>6. ASSUME NEW t \in Threads, NEW q \in Queries, Search(t, q)
      PROVE  TypeOK'
  BY <1>6 DEF Search, SearchNow, store, Return
<1>7. ASSUME NEW t \in Threads, ListDocuments(t) \/ Count(t)
      PROVE  TypeOK'
  BY <1>7 DEF ListDocuments, Count, store, Return
<1>8. ASSUME NEW t \in Threads, NEW d \in Docs, DeleteDocument(t, d)
      PROVE  TypeOK'
  <2>1. DOMAIN vectors' \subseteq Ids /\ vectors' \in [DOMAIN vectors' -> Vectors]
    <3>1. vectors \in [DOMAIN vectors -> Vectors]
      OBVIOUS
    <3>2. /\ DOMAIN Without(vectors, Elements(docChunks[d])) = DOMAIN vectors \ Elements(docChunks[d])
          /\ Without(vectors, Elements(docChunks[d])) \in [DOMAIN Without(vectors, Elements(docChunks[d])) -> Vectors]
      BY ONLY <3>1, WithoutIsMapping
    <3>. QED
      BY <1>8, <3>2 DEF DeleteDocument
  <2>2. DOMAIN chunks' \subseteq Ids /\ chunks' \in [DOMAIN chunks' -> Texts]
    <3>1. chunks \in [DOMAIN chunks -> Texts]
      OBVIOUS
    <3>2. /\ DOMAIN Without(chunks, Elements(docChunks[d])) = DOMAIN chunks \ Elements(docChunks[d])
          /\ Without(chunks, Elements(docChunks[d])) \in [DOMAIN Without(chunks, Elements(docChunks[d])) -> Texts]
      BY ONLY <3>1, WithoutIsMapping
    <3>. QED
      BY <1>8, <3>2 DEF DeleteDocument
  <2>3. docChunks' \in [Docs -> Seq(Ids)]
    BY <1>8 DEF DeleteDocument
  <2>. QED
    BY <1>8, <2>1, <2>2, <2>3 DEF DeleteDocument, Return
<1>9. ASSUME NEW t \in Threads, Reset(t)
      PROVE  TypeOK'
  <2>1. DOMAIN vectors' \subseteq Ids /\ vectors' \in [DOMAIN vectors' -> Vectors]
    <3>1. vectors \in [DOMAIN vectors -> Vectors]
      OBVIOUS
    <3>2. /\ DOMAIN Without(vectors, (DOMAIN vectors)) = DOMAIN vectors \ (DOMAIN vectors)
          /\ Without(vectors, (DOMAIN vectors)) \in [DOMAIN Without(vectors, (DOMAIN vectors)) -> Vectors]
      BY ONLY <3>1, WithoutIsMapping
    <3>. QED
      BY <1>9, <3>2 DEF Reset
  <2>2. DOMAIN chunks' \subseteq Ids /\ chunks' \in [DOMAIN chunks' -> Texts]
    <3>1. chunks \in [DOMAIN chunks -> Texts]
      OBVIOUS
    <3>2. /\ DOMAIN Without(chunks, (DOMAIN chunks)) = DOMAIN chunks \ (DOMAIN chunks)
          /\ Without(chunks, (DOMAIN chunks)) \in [DOMAIN Without(chunks, (DOMAIN chunks)) -> Texts]
      BY ONLY <3>1, WithoutIsMapping
    <3>. QED
      BY <1>9, <3>2 DEF Reset
  <2>3. docChunks' \in [Docs -> Seq(Ids)]
    BY <1>9 DEF Reset
  <2>. QED
    BY <1>9, <2>1, <2>2, <2>3 DEF Reset, Return
<1>. QED
  BY <1>1, <1>2, <1>3, <1>4, <1>5, <1>6, <1>7, <1>8, <1>9 DEF Next, AddLoop

\* Type correctness of the store for every value of its constants.
THEOREM TypeCorrect == Spec => []TypeOK
<1>. QED
  BY InitTypeOK, NextTypeOK, PTL DEF Spec

-----------------------------------------------------------------------------
\* Appending an id adds it to the elements, and makes no duplicate if it is new.
LEMMA AppendElements ==
    ASSUME NEW S, NEW s \in Seq(S), NEW x \in S
    PROVE  /\ Elements(Append(s, x)) = Elements(s) \cup {x}
           /\ NoDuplicates(s) /\ x \notin Elements(s) => NoDuplicates(Append(s, x))
<1> DEFINE a == Append(s, x)
<1>1. /\ DOMAIN s = 1..Len(s) /\ DOMAIN a = 1..(Len(s) + 1)
      /\ Len(s) \in Nat
      /\ a[Len(s) + 1] = x
      /\ \A i \in 1..Len(s) : a[i] = s[i]
  OBVIOUS
<1> HIDE DEF a
<1>2. Elements(a) = Elements(s) \cup {x}
  BY <1>1 DEF Elements
<1>3. NoDuplicates(s) /\ x \notin Elements(s) => NoDuplicates(a)
  BY <1>1 DEF NoDuplicates, Elements
<1>. QED
  BY <1>2, <1>3 DEF a

LEMMA InitConsistent == Init => Consistent
  BY DEF Init, Consistent, Elements, NoDuplicates

LEMMA NextConsistent == TypeOK /\ Consistent /\ [Next]_vars => Consistent'
<1> SUFFICES ASSUME TypeOK, Consistent, [Next]_vars
             PROVE  Consistent'
    OBVIOUS
<1>1. CASE UNCHANGED store
  BY <1>1 DEF store, Consistent
<1>2. ASSUME NEW t \in Threads, AddOne(t)
      PROVE  Consistent'
  <2> DEFINE c == Head(batch[t])
  <2>1. c.id \in Ids /\ DocOf[c.id] \in Docs
    BY <1>2, BatchParts, StoreAssumption DEF AddOne, Looping, HeadFits, TypeOK, StoreAssumption, Chunk
  <2>2. /\ DOMAIN vectors' = DOMAIN vectors \cup {c.id}
        /\ DOMAIN chunks' = DOMAIN chunks \cup {c.id}
    BY <1>2 DEF AddOne, StoreHead, Set
  <2>3. docChunks' = IF c.id \in DOMAIN chunks
                     THEN docChunks
                     ELSE [docChunks EXCEPT ![DocOf[c.id]] = Append(@, c.id)]
    BY <1>2 DEF AddOne, StoreHead, Looping, HeadFits, HeadIsNew
  <2> HIDE DEF c
  <2>4. CASE c.id \in DOMAIN chunks
    BY <2>2, <2>3, <2>4 DEF Consistent
  <2>5. CASE c.id \notin DOMAIN chunks
    <3>1. docChunks' = [docChunks EXCEPT ![DocOf[c.id]] = Append(@, c.id)]
      BY <2>3, <2>5
    <3>2. ASSUME NEW d \in Docs, d # DocOf[c.id]
          PROVE  /\ docChunks'[d] = docChunks[d]
                 /\ Elements(docChunks'[d]) = {i \in DOMAIN chunks' : DocOf[i] = d}
      BY <2>2, <3>1, <3>2 DEF Consistent, TypeOK
    <3>3. /\ docChunks[DocOf[c.id]] \in Seq(Ids)
          /\ docChunks'[DocOf[c.id]] = Append(docChunks[DocOf[c.id]], c.id)
      BY <2>1, <3>1 DEF TypeOK
    <3>4. Elements(docChunks[DocOf[c.id]]) = {i \in DOMAIN chunks : DocOf[i] = DocOf[c.id]}
      BY <2>1 DEF Consistent
    <3>5. Elements(docChunks'[DocOf[c.id]]) = {i \in DOMAIN chunks' : DocOf[i] = DocOf[c.id]}
      <4>1. Elements(Append(docChunks[DocOf[c.id]], c.id))
                = Elements(docChunks[DocOf[c.id]]) \cup {c.id}
        BY ONLY <2>1, <3>3, AppendElements
      <4>. QED
        BY <2>2, <3>3, <3>4, <4>1
    <3>6. NoDuplicates(docChunks'[DocOf[c.id]])
      <4>1. c.id \notin Elements(docChunks[DocOf[c.id]])
        BY <2>5, <3>4
      <4>2. NoDuplicates(docChunks[DocOf[c.id]])
        BY <2>1 DEF Consistent
      <4>. QED
        BY ONLY <2>1, <3>3, <4>1, <4>2, AppendElements
    <3>7. DOMAIN vectors' = DOMAIN chunks'
      BY <2>2 DEF Consistent
    <3>. QED
      BY <3>2, <3>5, <3>6, <3>7 DEF Consistent
  <2>. QED
    BY <2>4, <2>5
<1>3. ASSUME NEW t \in Threads, NEW d \in Docs, DeleteDocument(t, d)
      PROVE  Consistent'
  <2>1. /\ DOMAIN vectors' = DOMAIN vectors \ Elements(docChunks[d])
        /\ DOMAIN chunks' = DOMAIN chunks \ Elements(docChunks[d])
    BY <1>3 DEF DeleteDocument, Without
  <2>2. /\ docChunks'[d] = <<>>
        /\ \A e \in Docs \ {d} : docChunks'[e] = docChunks[e]
    BY <1>3 DEF DeleteDocument, TypeOK
  <2>3. Elements(docChunks[d]) = {i \in DOMAIN chunks : DocOf[i] = d}
    BY DEF Consistent
  <2>4. Elements(docChunks'[d]) = {}
    BY <2>2 DEF Elements
  <2>5. \A e \in Docs : Elements(docChunks'[e]) = {i \in DOMAIN chunks' : DocOf[i] = e}
    BY <2>1, <2>2, <2>3, <2>4 DEF Consistent
  <2>6. \A e \in Docs : NoDuplicates(docChunks'[e])
    BY <2>2 DEF Consistent, NoDuplicates
  <2>. QED
    BY <2>1, <2>5, <2>6 DEF Consistent
<1>4. ASSUME NEW t \in Threads, Reset(t)
      PROVE  Consistent'
  BY <1>4 DEF Reset, Without, Consistent, Elements, NoDuplicates
<1>. QED
  <2>1. ASSUME NEW t \in Threads,
               \/ AddRaises(t) \/ FinishAdd(t) \/ ListDocuments(t) \/ Count(t)
               \/ \E b \in Batches, m \in Models : BeginAdd(t, b, m)
               \/ \E q \in Queries : Search(t, q)
        PROVE  UNCHANGED store
    BY <2>1 DEF AddRaises, FinishAdd, ListDocuments, Count, BeginAdd, Search, SearchNow
  <2>2. CASE UNCHANGED vars
    BY <1>1, <2>2 DEF vars, store
  <2>. QED
    BY <1>1, <1>2, <1>3, <1>4, <2>1, <2>2 DEF Next, AddLoop

\* Whatever the threads do, and also after an add() that raised in the middle of
\* its loop, the three dicts describe the same chunks.
THEOREM StoreConsistent == Spec => []Consistent
<1>. QED
  BY InitTypeOK, NextTypeOK, InitConsistent, NextConsistent, PTL DEF Spec

\* count() is the number of rows of list_documents() taken together only if no two
\* documents share a chunk: the lists of different documents have nothing in common.
THEOREM DocumentsAreDisjoint ==
    Spec => [](\A d, e \in Docs : d # e =>
                  Elements(docChunks[d]) \cap Elements(docChunks[e]) = {})
<1>1. Consistent => \A d, e \in Docs : d # e =>
                       Elements(docChunks[d]) \cap Elements(docChunks[e]) = {}
  BY DEF Consistent
<1>. QED
  BY <1>1, StoreConsistent, PTL

-----------------------------------------------------------------------------
(* The k best of a set of scored numbers.                                  *)

\* The order of the sort is a strict linear one.
LEMMA BeforeOrders ==
    ASSUME NEW S \in SUBSET Int, NEW score \in [S -> Int]
    PROVE  /\ \A i \in S : i \notin Before(score, i)
           /\ \A i, j \in S : i # j => i \in Before(score, j) \/ j \in Before(score, i)
           /\ \A i, j \in S : i \in Before(score, j) => Before(score, i) \subseteq Before(score, j)
<1>1. \A i \in S : i \notin Before(score, i)
  BY DEF Before
<1>2. \A i, j \in S : i # j => i \in Before(score, j) \/ j \in Before(score, i)
  BY DEF Before
<1>3. ASSUME NEW i \in S, NEW j \in S, i \in Before(score, j), NEW k \in Before(score, i)
      PROVE  k \in Before(score, j)
  BY <1>3 DEF Before
<1>. QED
  BY <1>1, <1>2, <1>3

\* Ranks are the first numbers, each taken once, in the order of the sort.
LEMMA RanksAreTaken ==
    ASSUME NEW S \in SUBSET Int, IsFiniteSet(S), NEW score \in [S -> Int]
    PROVE  /\ Cardinality(S) \in Nat
           /\ \A i \in S : Rank(score, i) \in 0..Cardinality(S)-1
           /\ \A i, j \in S : i \in Before(score, j) => Rank(score, i) < Rank(score, j)
           /\ \A r \in 0..Cardinality(S)-1 : \E i \in S : Rank(score, i) = r
<1> DEFINE n == Cardinality(S)
           D == 0..n-1
           rank == [i \in S |-> Rank(score, i)]
<1>1. n \in Nat
  BY FS_CardinalityType
<1>2. IsFiniteSet(D) /\ Cardinality(D) = n
  <2> HIDE DEF n
  <2>. QED
    BY <1>1, FS_Interval
<1>3. \A i \in S : /\ Before(score, i) \in SUBSET S
                   /\ IsFiniteSet(Before(score, i)) /\ Rank(score, i) \in Nat
  <2>1. \A i \in S : Before(score, i) \in SUBSET S
    BY DEF Before
  <2>. QED
    BY <2>1, FS_Subset, FS_CardinalityType DEF Rank
<1>4. ASSUME NEW i \in S
      PROVE  Rank(score, i) \in D
  <2>1. Before(score, i) # S
    BY BeforeOrders
  <2>2. Rank(score, i) <= n /\ Rank(score, i) # n
    BY <1>3, <2>1, FS_Subset DEF Rank
  <2> HIDE DEF n
  <2>. QED
    BY <1>1, <1>3, <2>2
<1>5. ASSUME NEW i \in S, NEW j \in S, i \in Before(score, j)
      PROVE  Rank(score, i) < Rank(score, j)
  <2>1. Before(score, i) \in SUBSET Before(score, j) /\ Before(score, i) # Before(score, j)
    BY <1>5, BeforeOrders
  <2>2. Rank(score, i) <= Rank(score, j) /\ Rank(score, i) # Rank(score, j)
    BY <1>3, <2>1, FS_Subset DEF Rank
  <2>. QED
    BY <1>3, <2>2
<1>6. rank \in Injection(S, D)
  <2>1. rank \in [S -> D]
    BY <1>4
  <2>2. ASSUME NEW i \in S, NEW j \in S, i # j
        PROVE  rank[i] # rank[j]
    <3>1. Rank(score, i) < Rank(score, j) \/ Rank(score, j) < Rank(score, i)
      BY <1>5, <2>2, BeforeOrders
    <3>. QED
      BY <1>3, <3>1
  <2>. QED
    BY <2>1, <2>2 DEF Injection, IsInjective
<1>7. rank \in Surjection(S, D)
  BY <1>2, <1>6, FS_Injection
<1>8. \A r \in D : \E i \in S : Rank(score, i) = r
  BY <1>7 DEF Surjection
<1>. QED
  BY <1>1, <1>4, <1>5, <1>8

\* Of n elements, the k best are k, or all of them when n is smaller; none left out
\* goes before one of them.
LEMMA BestAreFirst ==
    ASSUME NEW S \in SUBSET Int, IsFiniteSet(S), NEW score \in [S -> Int], NEW k \in Nat
    PROVE  /\ Best(score, k) \subseteq S
           /\ Cardinality(Best(score, k)) = IF Cardinality(S) < k THEN Cardinality(S) ELSE k
           /\ \A i \in Best(score, k) : Rank(score, i) \in 0..k-1
           /\ \A i \in Best(score, k), j \in S \ Best(score, k) : i \in Before(score, j)
<1> DEFINE n == Cardinality(S)
           B == Best(score, k)
           rank == [i \in B |-> Rank(score, i)]
<1>1. /\ n \in Nat
      /\ \A i \in S : Rank(score, i) \in 0..n-1
      /\ \A r \in 0..n-1 : \E i \in S : Rank(score, i) = r
      /\ \A i, j \in S : i \in Before(score, j) => Rank(score, i) < Rank(score, j)
  BY RanksAreTaken
<1>2. B = {i \in S : Rank(score, i) < k}
  BY DEF Best
<1> HIDE DEF n, B
<1>3. \A i \in B : Rank(score, i) \in 0..k-1
  BY <1>1, <1>2
<1>4. ASSUME NEW i \in B, NEW j \in S \ B
      PROVE  i \in Before(score, j)
  <2>1. i \in S /\ Rank(score, i) < k /\ ~(Rank(score, j) < k)
    BY <1>2
  <2>2. Rank(score, i) \in Int /\ Rank(score, j) \in Int
    BY <1>1, <2>1
  <2>3. j \notin Before(score, i)
    BY <1>1, <2>1, <2>2
  <2>. QED
    BY <2>1, <2>3, BeforeOrders
<1>5. CASE n < k
  <2>1. B = S
    <3>1. ASSUME NEW i \in S
          PROVE  Rank(score, i) < k
      <4>1. Rank(score, i) \in 0..n-1
        BY <1>1
      <4>. QED
        BY <1>1, <1>5, <4>1
    <3>. QED
      BY <1>2, <3>1
  <2>2. Cardinality(B) = n /\ B \subseteq S
    BY <2>1 DEF n
  <2>. QED
    BY <1>3, <1>4, <1>5, <2>2 DEF B, n
<1>6. CASE ~(n < k)
  <2>1. IsFiniteSet(0..k-1) /\ Cardinality(0..k-1) = k
    BY FS_Interval
  <2>2. rank \in [B -> 0..k-1]
    BY <1>3
  <2>3. ASSUME NEW i \in B, NEW j \in B, i # j
        PROVE  rank[i] # rank[j]
    <3>1. Rank(score, i) < Rank(score, j) \/ Rank(score, j) < Rank(score, i)
      BY <1>1, <1>2, <2>3, BeforeOrders
    <3>. QED
      BY <1>3, <3>1
  <2>4. rank \in Injection(B, 0..k-1)
    BY <2>2, <2>3 DEF Injection, IsInjective
  <2>5. ASSUME NEW r \in 0..k-1
        PROVE  \E i \in B : rank[i] = r
    <3>1. r \in 0..n-1 /\ r < k
      BY <1>1, <1>6
    <3>2. PICK i \in S : Rank(score, i) = r
      BY <1>1, <3>1
    <3>. QED
      BY <1>2, <3>1, <3>2
  <2>6. rank \in Surjection(B, 0..k-1)
    BY <2>2, <2>5 DEF Surjection
  <2>7. Cardinality(B) = k
    BY <2>1, <2>4, <2>6, FS_Injection
  <2>8. B \subseteq S
    BY <1>2
  <2>. QED
    BY <1>3, <1>4, <1>6, <2>7, <2>8 DEF B, n
<1>. QED
  BY <1>5, <1>6

-----------------------------------------------------------------------------
(* What add() has still to store: the part of AtomicVectorStore that names *)
(* no variable.                                                            *)

LEMMA TailPlaces ==
    ASSUME NEW b \in Seq(Chunk), b # <<>>
    PROVE  /\ Len(b) \in Nat /\ DOMAIN b = 1..Len(b) /\ 1 \in DOMAIN b /\ b[1] = Head(b)
           /\ DOMAIN Tail(b) = 1..Len(b)-1
           /\ \A n \in DOMAIN Tail(b) : n + 1 \in DOMAIN b /\ Tail(b)[n] = b[n + 1]
           /\ \A n \in DOMAIN b : n # 1 => n - 1 \in DOMAIN Tail(b)
<1>1. Len(b) \in Nat \ {0} /\ DOMAIN b = 1..Len(b) /\ b[1] = Head(b)
  OBVIOUS
<1>2. DOMAIN Tail(b) = 1..Len(b)-1 /\ \A n \in 1..Len(b)-1 : Tail(b)[n] = b[n + 1]
  OBVIOUS
<1>. QED
  BY ONLY <1>1, <1>2

\* A vector of the wrong length in front: nothing is stored.
LEMMA NoneAccepted ==
    ASSUME NEW b \in Seq(Chunk), b # <<>>, Head(b).vec \notin Vectors
    PROVE  Abstract!Accepted(b) = {}
<1>1. b[1].vec \notin Vectors
  BY TailPlaces
<1>2. \A n \in DOMAIN b : 1 \in 1..n
  BY TailPlaces
<1>. QED
  BY <1>1, <1>2 DEF Abstract!Accepted

\* Otherwise the head, and what is stored of the rest.
LEMMA HeadAccepted ==
    ASSUME NEW b \in Seq(Chunk), b # <<>>, Head(b).vec \in Vectors
    PROVE  /\ 1 \in Abstract!Accepted(b)
           /\ \A n \in DOMAIN Tail(b) :
                 n \in Abstract!Accepted(Tail(b)) <=> n + 1 \in Abstract!Accepted(b)
<1>1. 1 \in Abstract!Accepted(b)
  BY TailPlaces DEF Abstract!Accepted
<1>2. ASSUME NEW n \in DOMAIN Tail(b)
      PROVE  n \in Abstract!Accepted(Tail(b)) <=> n + 1 \in Abstract!Accepted(b)
  <2>1. n \in Nat /\ n + 1 \in DOMAIN b /\ Len(b) \in Nat /\ n < Len(b)
    BY TailPlaces
  <2>2. ASSUME n \in Abstract!Accepted(Tail(b)), NEW m \in 1..(n + 1)
        PROVE  b[m].vec \in Vectors
    <3>1. CASE m = 1
      BY <3>1, TailPlaces
    <3>2. CASE m # 1
      <4>1. m - 1 \in 1..n /\ m - 1 \in 1..Len(b)-1 /\ (m - 1) + 1 = m
        BY <2>1, <3>2
      <4>2. Tail(b)[m - 1] = b[m]
        BY <4>1, TailPlaces
      <4>. QED
        BY <2>2, <4>1, <4>2 DEF Abstract!Accepted
    <3>. QED
      BY <3>1, <3>2
  <2>3. ASSUME n + 1 \in Abstract!Accepted(b), NEW m \in 1..n
        PROVE  Tail(b)[m].vec \in Vectors
    <3>1. m + 1 \in 1..(n + 1) /\ m \in 1..Len(b)-1
      BY <2>1
    <3>2. Tail(b)[m] = b[m + 1]
      BY <3>1, TailPlaces
    <3>. QED
      BY <2>3, <3>1, <3>2 DEF Abstract!Accepted
  <2>. QED
    BY <2>1, <2>2, <2>3 DEF Abstract!Accepted
<1>. QED
  BY <1>1, <1>2

\* The last accepted chunk with an id exists.
LEMMA LastIsLast ==
    ASSUME NEW b \in Seq(Chunk), NEW i \in Abstract!AcceptedIds(b)
    PROVE  /\ Abstract!LastOf(b, i) \in Abstract!Accepted(b)
           /\ b[Abstract!LastOf(b, i)].id = i
           /\ \A m \in Abstract!Accepted(b) : b[m].id = i => m <= Abstract!LastOf(b, i)
<1> DEFINE T == {n \in Abstract!Accepted(b) : b[n].id = i}
<1>1. Len(b) \in Nat /\ DOMAIN b = 1..Len(b)
  OBVIOUS
<1>2. T \in SUBSET (1..Len(b)) /\ T # {}
  BY <1>1 DEF Abstract!AcceptedIds, Abstract!Accepted
<1>3. \E n \in T : \A m \in T : m <= n
  BY <1>1, <1>2, GreatestNumber
<1>. QED
  BY <1>3 DEF Abstract!LastOf

LEMMA TailIds ==
    ASSUME NEW b \in Seq(Chunk), b # <<>>, Head(b).vec \in Vectors
    PROVE  Abstract!AcceptedIds(b) = {Head(b).id} \cup Abstract!AcceptedIds(Tail(b))
<1>1. ASSUME NEW n \in Abstract!Accepted(b)
      PROVE  b[n].id \in {Head(b).id} \cup Abstract!AcceptedIds(Tail(b))
  <2>1. n \in DOMAIN b /\ n \in Int
    BY TailPlaces DEF Abstract!Accepted
  <2>2. CASE n = 1
    BY <2>2, TailPlaces
  <2>3. CASE n # 1
    <3>1. n - 1 \in DOMAIN Tail(b) /\ (n - 1) + 1 = n
      BY <2>1, <2>3, TailPlaces
    <3>2. n - 1 \in Abstract!Accepted(Tail(b)) /\ Tail(b)[n - 1] = b[n]
      BY <1>1, <3>1, HeadAccepted, TailPlaces
    <3>. QED
      BY <3>2 DEF Abstract!AcceptedIds
  <2>. QED
    BY <2>2, <2>3
<1>2. ASSUME NEW n \in Abstract!Accepted(Tail(b))
      PROVE  Tail(b)[n].id \in Abstract!AcceptedIds(b)
  <2>1. n \in DOMAIN Tail(b)
    BY DEF Abstract!Accepted
  <2>2. n + 1 \in Abstract!Accepted(b) /\ Tail(b)[n] = b[n + 1]
    BY <2>1, HeadAccepted, TailPlaces
  <2>. QED
    BY <2>2 DEF Abstract!AcceptedIds
<1>3. Head(b).id \in Abstract!AcceptedIds(b)
  BY HeadAccepted, TailPlaces DEF Abstract!AcceptedIds
<1>. QED
  BY <1>1, <1>2, <1>3 DEF Abstract!AcceptedIds

\* The last chunk with an id is in the rest, if the rest has one.
LEMMA LastInTail ==
    ASSUME NEW b \in Seq(Chunk), b # <<>>, Head(b).vec \in Vectors,
           NEW i \in Abstract!AcceptedIds(b)
    PROVE  b[Abstract!LastOf(b, i)] = IF i \in Abstract!AcceptedIds(Tail(b))
                                      THEN Tail(b)[Abstract!LastOf(Tail(b), i)]
                                      ELSE Head(b)
<1> DEFINE last == Abstract!LastOf(b, i)
<1>1. /\ last \in Abstract!Accepted(b) /\ b[last].id = i
      /\ \A m \in Abstract!Accepted(b) : b[m].id = i => m <= last
  BY LastIsLast
<1>2. last \in DOMAIN b /\ last \in Int
  BY <1>1, TailPlaces DEF Abstract!Accepted
<1>3. CASE i \in Abstract!AcceptedIds(Tail(b))
  <2> DEFINE rest == Abstract!LastOf(Tail(b), i)
  <2>1. /\ rest \in Abstract!Accepted(Tail(b)) /\ Tail(b)[rest].id = i
        /\ \A m \in Abstract!Accepted(Tail(b)) : Tail(b)[m].id = i => m <= rest
    BY <1>3, BatchParts, LastIsLast
  <2> HIDE DEF last, rest
  <2>2. rest \in DOMAIN Tail(b) /\ rest \in Nat \ {0}
    BY <2>1, TailPlaces DEF Abstract!Accepted
  <2>3. rest + 1 \in Abstract!Accepted(b) /\ b[rest + 1] = Tail(b)[rest]
    BY <2>1, <2>2, HeadAccepted, TailPlaces
  <2>4. rest + 1 <= last
    BY <1>1, <2>1, <2>3
  <2>5. last # 1
    BY <1>2, <2>2, <2>4
  <2>6. last - 1 \in DOMAIN Tail(b) /\ (last - 1) + 1 = last
    BY <1>2, <2>5, TailPlaces
  <2>7. last - 1 \in Abstract!Accepted(Tail(b)) /\ Tail(b)[last - 1] = b[last]
    BY <1>1, <2>6, HeadAccepted, TailPlaces
  <2>8. last - 1 <= rest
    BY <1>1, <2>1, <2>7
  <2>9. last = rest + 1
    BY <1>2, <2>2, <2>4, <2>8
  <2>. QED
    BY <1>3, <2>3, <2>9 DEF last, rest
<1>4. CASE i \notin Abstract!AcceptedIds(Tail(b))
  <2> HIDE DEF last
  <2>1. last = 1
    <3>1. SUFFICES ASSUME last # 1
                   PROVE  FALSE
      OBVIOUS
    <3>2. last - 1 \in DOMAIN Tail(b) /\ (last - 1) + 1 = last
      BY <1>2, <3>1, TailPlaces
    <3>3. last - 1 \in Abstract!Accepted(Tail(b)) /\ Tail(b)[last - 1] = b[last]
      BY <1>1, <3>2, HeadAccepted, TailPlaces
    <3>. QED
      BY <1>1, <1>4, <3>3 DEF Abstract!AcceptedIds
  <2>. QED
    BY <1>4, <2>1, TailPlaces DEF last
<1>. QED
  BY <1>3, <1>4

Row(c) == [text |-> c.text, vec |-> c.vec]

\* Storing the head and then the rest is storing the batch; with nothing accepted the
\* table stays.
LEMMA StoredOfTail ==
    ASSUME NEW b \in Seq(Chunk), b # <<>>, Head(b).vec \in Vectors, NEW tbl
    PROVE  Abstract!Stored(Set(tbl, Head(b).id, Row(Head(b))), Tail(b)) = Abstract!Stored(tbl, b)
<1> DEFINE c == Head(b)
           new == Set(tbl, c.id, Row(c))
           D == DOMAIN tbl \cup Abstract!AcceptedIds(b)
<1>1. Abstract!AcceptedIds(b) = {c.id} \cup Abstract!AcceptedIds(Tail(b))
  BY TailIds
<1>2. /\ DOMAIN new = DOMAIN tbl \cup {c.id}
      /\ \A i \in DOMAIN new : new[i] = IF i = c.id THEN Row(c) ELSE tbl[i]
  BY DEF Set
<1> HIDE DEF new, c
<1>3. DOMAIN new \cup Abstract!AcceptedIds(Tail(b)) = D
  BY <1>1, <1>2
<1>4. ASSUME NEW i \in D
      PROVE  Abstract!Stored(new, Tail(b))[i] = Abstract!Stored(tbl, b)[i]
  <2>1. CASE i \in Abstract!AcceptedIds(Tail(b))
    <3>1. i \in Abstract!AcceptedIds(b)
      BY <1>1, <2>1
    <3>2. b[Abstract!LastOf(b, i)] = Tail(b)[Abstract!LastOf(Tail(b), i)]
      BY <2>1, <3>1, LastInTail
    <3>. QED
      BY <1>3, <2>1, <3>1, <3>2 DEF Abstract!Stored
  <2>2. CASE i \notin Abstract!AcceptedIds(Tail(b)) /\ i = c.id
    <3>1. i \in Abstract!AcceptedIds(b)
      BY <1>1, <2>2
    <3>2. b[Abstract!LastOf(b, i)] = c
      BY <2>2, <3>1, LastInTail DEF c
    <3>3. Abstract!Stored(tbl, b)[i] = Row(c)
      BY <3>1, <3>2 DEF Abstract!Stored, Row
    <3>4. Abstract!Stored(new, Tail(b))[i] = new[i]
      BY <1>3, <2>2 DEF Abstract!Stored
    <3>. QED
      BY <1>2, <2>2, <3>3, <3>4
  <2>3. CASE i \notin Abstract!AcceptedIds(Tail(b)) /\ i # c.id
    <3>1. i \notin Abstract!AcceptedIds(b) /\ i \in DOMAIN new
      BY <1>1, <1>2, <2>3
    <3>2. Abstract!Stored(new, Tail(b))[i] = new[i]
      BY <1>3, <2>3 DEF Abstract!Stored
    <3>3. Abstract!Stored(tbl, b)[i] = tbl[i]
      BY <3>1 DEF Abstract!Stored
    <3>. QED
      BY <1>2, <2>3, <3>1, <3>2, <3>3
  <2>. QED
    BY <2>1, <2>2, <2>3
<1>5. Abstract!Stored(new, Tail(b)) = Abstract!Stored(tbl, b)
  <2>1. /\ Abstract!Stored(new, Tail(b)) = [i \in D |-> Abstract!Stored(new, Tail(b))[i]]
        /\ Abstract!Stored(tbl, b) = [i \in D |-> Abstract!Stored(tbl, b)[i]]
    BY <1>3 DEF Abstract!Stored
  <2> HIDE DEF D
  <2>. QED
    BY <1>4, <2>1
<1>. QED
  BY <1>5 DEF new, c

LEMMA StoredOfNone ==
    ASSUME NEW b, Abstract!Accepted(b) = {}, NEW tbl, tbl = [i \in DOMAIN tbl |-> tbl[i]]
    PROVE  Abstract!Stored(tbl, b) = tbl
  BY DEF Abstract!Stored, Abstract!AcceptedIds

LEMMA ReplyOfTail ==
    ASSUME NEW b \in Seq(Chunk), b # <<>>, Head(b).vec \in Vectors
    PROVE  Abstract!AddReply(Tail(b)) = Abstract!AddReply(b)
<1>1. Abstract!Accepted(b) \subseteq DOMAIN b /\ Abstract!Accepted(Tail(b)) \subseteq DOMAIN Tail(b)
  BY DEF Abstract!Accepted
<1>2. ASSUME NEW n \in DOMAIN Tail(b), n \notin Abstract!Accepted(Tail(b))
      PROVE  n + 1 \in DOMAIN b /\ n + 1 \notin Abstract!Accepted(b)
  BY <1>2, HeadAccepted, TailPlaces
<1>3. ASSUME NEW n \in DOMAIN b, n \notin Abstract!Accepted(b)
      PROVE  n - 1 \in DOMAIN Tail(b) /\ n - 1 \notin Abstract!Accepted(Tail(b))
  <2>1. n # 1 /\ n \in Int
    BY <1>3, HeadAccepted, TailPlaces
  <2>2. n - 1 \in DOMAIN Tail(b) /\ (n - 1) + 1 = n
    BY <2>1, TailPlaces
  <2>. QED
    BY <1>3, <2>2, HeadAccepted
<1>. QED
  BY <1>1, <1>2, <1>3 DEF Abstract!AddReply

-----------------------------------------------------------------------------
(* The refinement of AtomicVectorStore.                                    *)

\* What the abstract operations count is finite, and each thread has an answer.
RefInv == IsFiniteSet(DOMAIN vectors) /\ answer = [t \in Threads |-> answer[t]]

LEMMA InitRefInv == Init => RefInv
  BY FS_EmptySet DEF Init, RefInv

LEMMA NextRefInv == RefInv /\ [Next]_vars => RefInv'
<1> SUFFICES ASSUME RefInv, [Next]_vars
             PROVE  RefInv'
  OBVIOUS
<1>1. /\ IsFiniteSet(DOMAIN vectors)
      /\ \A x : IsFiniteSet(DOMAIN vectors \cup {x})
      /\ \A K : IsFiniteSet(DOMAIN vectors \ K)
  BY FS_AddElement, FS_Difference DEF RefInv
<1>2. CASE UNCHANGED vars
  BY <1>2 DEF vars, store, RefInv
<1>3. CASE \E t \in Threads : \/ AddLoop(t)
                              \/ \E b \in Batches, m \in Models : BeginAdd(t, b, m)
  <2>1. answer' = [t \in Threads |-> answer'[t]]
    BY <1>3 DEF AddLoop, AddOne, StoreHead, AddRaises, FinishAdd, BeginAdd, Return, RefInv
  <2>2. \/ vectors' = vectors
        \/ \E k, v : vectors' = Set(vectors, k, v)
    BY <1>3 DEF AddLoop, AddOne, StoreHead, AddRaises, FinishAdd, BeginAdd, store
  <2>3. IsFiniteSet(DOMAIN vectors')
    BY <1>1, <2>2 DEF Set
  <2>. QED
    BY <2>1, <2>3 DEF RefInv
<1>4. CASE \E t \in Threads : \/ \E q \in Queries : Search(t, q)
                              \/ ListDocuments(t)
                              \/ Count(t)
                              \/ \E d \in Docs : DeleteDocument(t, d)
                              \/ Reset(t)
  <2>1. answer' = [t \in Threads |-> answer'[t]]
    BY <1>4 DEF Search, SearchNow, ListDocuments, Count, DeleteDocument, Reset, Return, RefInv
  <2>2. \/ vectors' = vectors
        \/ \E K : vectors' = Without(vectors, K)
    BY <1>4 DEF Search, SearchNow, ListDocuments, Count, DeleteDocument, Reset, store
  <2>3. IsFiniteSet(DOMAIN vectors')
    BY <1>1, <2>2 DEF Without
  <2>. QED
    BY <2>1, <2>3 DEF RefInv
<1>. QED
  BY <1>2, <1>3, <1>4 DEF Next

LEMMA AtomicIsAbstract ==
    /\ \A tbl, b : Atomic!Stored(tbl, b) = Abstract!Stored(tbl, b)
    /\ \A b : Atomic!AddReply(b) = Abstract!AddReply(b)
<1>1. \A b : Atomic!Accepted(b) = Abstract!Accepted(b)
  BY DEF Atomic!Accepted, Abstract!Accepted
<1>2. \A b : Atomic!AcceptedIds(b) = Abstract!AcceptedIds(b)
  BY <1>1 DEF Atomic!AcceptedIds, Abstract!AcceptedIds
<1>3. \A b, i : Atomic!LastOf(b, i) = Abstract!LastOf(b, i)
  BY <1>1 DEF Atomic!LastOf, Abstract!LastOf
<1>. QED
  BY <1>1, <1>2, <1>3 DEF Atomic!Stored, Abstract!Stored, Atomic!AddReply, Abstract!AddReply

\* The cardinality that AtomicVectorStore imports.
LEMMA SameCardinality == \A S : Atomic!Cardinality(S) = Cardinality(S)
  BY DEF Atomic!Cardinality, Cardinality

\* While no thread is inside add(), the abstract table is the stored one.
LEMMA FreeIsTable ==
    ASSUME TypeOK, RefInv, lock = NoThread
    PROVE  Pending = Table /\ Replies = answer
  BY StoreAssumption DEF Pending, Replies, RefInv, StoreAssumption

LEMMA FreeIsTablePrime ==
    ASSUME TypeOK', RefInv', lock' = NoThread
    PROVE  Pending' = Table' /\ Replies' = answer'
  BY StoreAssumption DEF Pending, Replies, RefInv, StoreAssumption

LEMMA InitRefines == Init => Atomic!TInit
<1> SUFFICES ASSUME Init
             PROVE  Atomic!TInit
  OBVIOUS
<1>1. Pending = Table /\ Replies = answer
  BY InitTypeOK, InitRefInv, FreeIsTable DEF Init
<1>2. Table = [i \in {} |-> <<>>]
  BY DEF Init, Table
<1>3. answer = [t \in Threads |-> [kind |-> "none"]]
  BY DEF Init, None
<1>. QED
  BY <1>1, <1>2, <1>3 DEF Atomic!TInit

-----------------------------------------------------------------------------
\* add(): the call takes effect when it takes the lock, and the loop is invisible.
LEMMA BeginAddRefines ==
    ASSUME TypeOK, RefInv, NEW t \in Threads, NEW b \in Batches, NEW m \in Models,
           BeginAdd(t, b, m)
    PROVE  Atomic!TAdd(t, b)
<1>1. /\ lock = NoThread /\ lock' = t /\ batch'[t] = b /\ Table' = Table
      /\ answer' = [answer EXCEPT ![t] = None]
  BY DEF BeginAdd, TypeOK, Return, store, Table
<1>2. Pending = Table /\ Replies = answer
  BY <1>1, FreeIsTable
<1>3. Pending' = Abstract!Stored(Table, b)
  BY <1>1, StoreAssumption DEF Pending, StoreAssumption
<1>4. Replies' = [Replies EXCEPT ![t] = Abstract!AddReply(b)]
  BY <1>1, <1>2 DEF Replies, RefInv
<1>. QED
  BY <1>2, <1>3, <1>4, AtomicIsAbstract DEF Atomic!TAdd, Atomic!Reply

LEMMA AddOneStutters ==
    ASSUME TypeOK, RefInv, Consistent, NEW t \in Threads, AddOne(t)
    PROVE  Pending' = Pending /\ Replies' = Replies
<1> DEFINE b == batch[t]
<1>1. /\ lock = t /\ lock' = t /\ b # <<>> /\ Head(b).vec \in Vectors
      /\ vectors' = Set(vectors, Head(b).id, Head(b).vec)
      /\ chunks' = Set(chunks, Head(b).id, Head(b).text)
      /\ batch'[t] = Tail(b) /\ answer' = answer
  BY DEF AddOne, Looping, HeadFits, StoreHead, TypeOK
<1>2. b \in Seq(Chunk)
  BY DEF TypeOK
<1>3. Table' = Set(Table, Head(b).id, Row(Head(b)))
  <2>1. DOMAIN vectors = DOMAIN chunks
    BY DEF Consistent
  <2>. QED
    BY <1>1, <2>1 DEF Table, Set, Row
<1>4. Pending = Abstract!Stored(Table, b) /\ Pending' = Abstract!Stored(Table', Tail(b))
  BY <1>1, StoreAssumption DEF Pending, StoreAssumption
<1>5. Pending' = Pending
  BY <1>1, <1>2, <1>3, <1>4, StoredOfTail
<1>6. Replies' = Replies
  <2>1. Abstract!AddReply(Tail(b)) = Abstract!AddReply(b)
    BY <1>1, <1>2, ReplyOfTail
  <2>. QED
    BY <1>1, <2>1 DEF Replies
<1>. QED
  BY <1>5, <1>6

LEMMA AddRaisesStutters ==
    ASSUME TypeOK, RefInv, TypeOK', RefInv', NEW t \in Threads, AddRaises(t)
    PROVE  Pending' = Pending /\ Replies' = Replies
<1> DEFINE b == batch[t]
<1>1. /\ lock = t /\ lock' = NoThread /\ b # <<>> /\ Head(b).vec \notin Vectors
      /\ Table' = Table
      /\ answer' = [answer EXCEPT ![t] = [kind |-> "ValueError"]]
  BY DEF AddRaises, Looping, HeadFits, Return, store, Table
<1>2. b \in Seq(Chunk)
  BY DEF TypeOK
<1>3. Abstract!Accepted(b) = {}
  BY <1>1, <1>2, NoneAccepted
<1>4. Pending = Table /\ Pending' = Table'
  <2>1. Pending = Abstract!Stored(Table, b)
    BY <1>1, StoreAssumption DEF Pending, StoreAssumption
  <2>2. Table = [i \in DOMAIN Table |-> Table[i]]
    BY DEF Table
  <2>3. Abstract!Stored(Table, b) = Table
    BY <1>3, <2>2, StoredOfNone
  <2>. QED
    BY <1>1, <2>1, <2>3, FreeIsTablePrime
<1>5. Abstract!AddReply(b) = [kind |-> "ValueError"]
  BY <1>1, <1>2, <1>3, TailPlaces DEF Abstract!AddReply
<1>6. Replies' = Replies
  BY <1>1, <1>5, FreeIsTablePrime DEF Replies, RefInv
<1>. QED
  BY <1>1, <1>4, <1>6

LEMMA FinishAddStutters ==
    ASSUME TypeOK, RefInv, TypeOK', RefInv', NEW t \in Threads, FinishAdd(t)
    PROVE  Pending' = Pending /\ Replies' = Replies
<1>1. /\ lock = t /\ lock' = NoThread /\ batch[t] = <<>>
      /\ Table' = Table
      /\ answer' = [answer EXCEPT ![t] = [kind |-> "added"]]
  BY DEF FinishAdd, Return, store, Table
<1>2. Abstract!Accepted(<<>>) = {}
  BY DEF Abstract!Accepted
<1>3. Pending = Table /\ Pending' = Table'
  <2>1. Pending = Abstract!Stored(Table, <<>>)
    BY <1>1, StoreAssumption DEF Pending, StoreAssumption
  <2>2. Table = [i \in DOMAIN Table |-> Table[i]]
    BY DEF Table
  <2>3. Abstract!Stored(Table, <<>>) = Table
    BY <1>2, <2>2, StoredOfNone
  <2>. QED
    BY <1>1, <2>1, <2>3, FreeIsTablePrime
<1>4. Abstract!AddReply(<<>>) = [kind |-> "added"]
  BY <1>2 DEF Abstract!AddReply
<1>5. Replies' = Replies
  BY <1>1, <1>4, FreeIsTablePrime DEF Replies, RefInv
<1>. QED
  BY <1>1, <1>3, <1>5

-----------------------------------------------------------------------------
\* search(): the hits are an answer to the query on the table.

Hits(q) == {[id |-> i, rank |-> Cardinality(Ahead(q, i)), text |-> chunks[i]] :
               i \in {j \in Eligible(q) : Cardinality(Ahead(q, j)) < q.top}}

LEMMA HitsAnswer ==
    ASSUME TypeOK, RefInv, lock = NoThread, NEW q \in Queries,
           DOMAIN vectors = {} \/ q.vec \in Vectors
    PROVE  Atomic!IsAnswerTo(q, Hits(q))
<1> DEFINE S == Eligible(q)
           score == [i \in S |-> Sim(q.vec, vectors[i])]
           B == Best(score, q.top)
           hit(i) == [id |-> i, rank |-> Rank(score, i), text |-> chunks[i]]
<1>1. /\ Pending = Table /\ DOMAIN Table = DOMAIN vectors
      /\ \A i \in DOMAIN vectors : Table[i].vec = vectors[i] /\ Table[i].text = chunks[i]
  BY FreeIsTable DEF Table
<1>2. S \in SUBSET Int /\ S \subseteq DOMAIN vectors /\ IsFiniteSet(S)
  <2>1. S \in SUBSET DOMAIN vectors
    BY DEF Eligible
  <2>. QED
    BY <2>1, FS_Subset, StoreAssumption DEF TypeOK, RefInv, StoreAssumption
<1>3. score \in [S -> Int] /\ q.top \in Nat
  BY <1>2, StoreAssumption DEF TypeOK, StoreAssumption
<1>4. /\ B \subseteq S
      /\ Cardinality(B) = IF Cardinality(S) < q.top THEN Cardinality(S) ELSE q.top
      /\ \A i \in B : Rank(score, i) \in 0..q.top-1
      /\ \A i \in B, j \in S \ B : i \in Before(score, j)
      /\ \A i, j \in S : i \in Before(score, j) => Rank(score, i) < Rank(score, j)
  BY <1>2, <1>3, BestAreFirst, RanksAreTaken
<1>5. \A i \in S : Ahead(q, i) = Before(score, i)
  BY DEF Ahead, Before
<1>6. Hits(q) = {hit(i) : i \in B}
  BY <1>5 DEF Hits, Best, Rank
<1>7. {h.id : h \in Hits(q)} = B /\ \A h \in Hits(q) : h.rank = Rank(score, h.id)
  <2>1. \A i \in B : hit(i) \in Hits(q) /\ hit(i).id = i
    BY <1>6
  <2>2. \A h \in Hits(q) : h.id \in B /\ h.rank = Rank(score, h.id)
    BY <1>6
  <2> HIDE DEF hit, B
  <2>. QED
    BY <2>1, <2>2
<1>8. Cardinality(Hits(q)) = Cardinality(B)
  <2> DEFINE f == [i \in B |-> hit(i)]
  <2>1. IsFiniteSet(B)
    BY <1>2, <1>4, FS_Subset
  <2>2. /\ f \in [B -> Hits(q)]
        /\ \A i, j \in B : f[i] = f[j] => i = j
        /\ \A h \in Hits(q) : \E i \in B : f[i] = h
    BY <1>6
  <2> HIDE DEF f, B
  <2>. QED
    BY <2>1, <2>2, SameSize
<1>9. \A i, j \in S : i \in Before(score, j) <=> \/ Sim(q.vec, vectors[i]) > Sim(q.vec, vectors[j])
                                                \/ /\ Sim(q.vec, vectors[i]) = Sim(q.vec, vectors[j])
                                                   /\ i < j
  BY DEF Before
<1> DEFINE ok == {i \in DOMAIN Pending : i \in q.allowed /\ Sim(q.vec, Pending[i].vec) >= q.least}
           before(i, j) == LET si == Sim(q.vec, Pending[i].vec)
                               sj == Sim(q.vec, Pending[j].vec)
                           IN  si > sj \/ (si = sj /\ i < j)
<1>10. ok = S
  BY <1>1 DEF Eligible
<1>11. \A i, j \in S : before(i, j) <=> i \in Before(score, j)
  BY <1>1, <1>2, <1>9
<1>12. \A h \in Hits(q) : h.text = Pending[h.id].text /\ h.rank \in 0..q.top-1
  BY <1>1, <1>2, <1>4, <1>6
<1>13. \A g, h \in Hits(q) : before(g.id, h.id) => g.rank < h.rank
  <2>1. SUFFICES ASSUME NEW g \in Hits(q), NEW h \in Hits(q), before(g.id, h.id)
                 PROVE  g.rank < h.rank
    OBVIOUS
  <2>2. g.id \in B /\ h.id \in B
    BY <1>7
  <2>3. g.id \in Before(score, h.id)
    BY <1>4, <1>11, <2>1, <2>2
  <2>. QED
    BY <1>4, <1>7, <2>2, <2>3
<1>14. \A i \in B, j \in ok \ B : before(i, j)
  BY <1>4, <1>10, <1>11
<1> HIDE DEF S, score, B, hit
<1>. QED
  BY <1>4, <1>7, <1>8, <1>10, <1>12, <1>13, <1>14, SameCardinality DEF Atomic!IsAnswerTo

LEMMA SearchRefines ==
    ASSUME TypeOK, RefInv, TypeOK', RefInv', NEW t \in Threads, NEW q \in Queries, Search(t, q)
    PROVE  Atomic!TSearch(t, q)
<1> DEFINE a == IF DOMAIN vectors # {} /\ q.vec \in WrongVectors
                THEN [kind |-> "ValueError"]
                ELSE [kind |-> "hits", query |-> q, hits |-> Hits(q)]
<1>1. lock = NoThread /\ lock' = NoThread /\ Table' = Table /\ answer' = [answer EXCEPT ![t] = a]
  BY DEF Search, SearchNow, Return, store, Table, Hits
<1>2. Pending = Table /\ Pending' = Pending /\ Replies = answer /\ Replies' = answer'
  BY <1>1, FreeIsTable, FreeIsTablePrime
<1>3. Replies'[t] = a /\ \A u \in Threads \ {t} : Replies'[u] = Replies[u]
  BY <1>1, <1>2 DEF RefInv
<1>4. DOMAIN Pending = DOMAIN vectors /\ (q.vec \notin Vectors <=> q.vec \in WrongVectors)
  BY <1>2, StoreAssumption DEF Table, StoreAssumption
<1>5. CASE DOMAIN vectors # {} /\ q.vec \in WrongVectors
  BY <1>2, <1>3, <1>4, <1>5 DEF Atomic!TSearch
<1>6. CASE DOMAIN vectors = {} \/ q.vec \in Vectors
  <2>1. Atomic!IsAnswerTo(q, Hits(q))
    BY <1>1, <1>6, HitsAnswer
  <2>2. a = [kind |-> "hits", query |-> q, hits |-> Hits(q)]
    BY <1>4, <1>6
  <2>. QED
    BY <1>2, <1>3, <1>4, <1>6, <2>1, <2>2 DEF Atomic!TSearch
<1>. QED
  BY <1>4, <1>5, <1>6

-----------------------------------------------------------------------------
(* The list of a document, against the chunks of the table.                *)

LEMMA ListSize ==
    ASSUME TypeOK, Consistent, NEW d \in Docs
    PROVE  LET own == {i \in DOMAIN vectors : DocOf[i] = d}
           IN  /\ Elements(docChunks[d]) = own /\ Len(docChunks[d]) = Cardinality(own)
               /\ docChunks[d] # <<>> <=> own # {}
<1> DEFINE s == docChunks[d]
           own == {i \in DOMAIN vectors : DocOf[i] = d}
<1>1. Elements(s) = own /\ NoDuplicates(s)
  BY DEF Consistent
<1>2. s \in Seq(Ids) /\ Len(s) \in Nat /\ DOMAIN s = 1..Len(s)
  BY DEF TypeOK
<1> HIDE DEF s, own
<1>3. /\ s \in [1..Len(s) -> own]
      /\ \A m, n \in 1..Len(s) : s[m] = s[n] => m = n
      /\ \A i \in own : \E n \in 1..Len(s) : s[n] = i
  BY <1>1, <1>2 DEF Elements, NoDuplicates
<1>4. IsFiniteSet(1..Len(s)) /\ Cardinality(1..Len(s)) = Len(s)
  BY <1>2, FS_Interval
<1>5. Cardinality(own) = Len(s)
  BY <1>3, <1>4, SameSize
<1>6. s # <<>> <=> own # {}
  <2>1. s # <<>> => 1 \in 1..Len(s)
    BY <1>2
  <2>2. s = <<>> => 1..Len(s) = {}
    OBVIOUS
  <2>. QED
    BY <1>3, <2>1, <2>2
<1>. QED
  BY <1>1, <1>5, <1>6 DEF s, own

LEMMA ListRefines ==
    ASSUME TypeOK, RefInv, Consistent, TypeOK', RefInv', NEW t \in Threads, ListDocuments(t)
    PROVE  Atomic!TList(t)
<1> DEFINE own(d) == {i \in DOMAIN vectors : DocOf[i] = d}
           listed == {[doc |-> d, count |-> Len(docChunks[d])] :
                         d \in {e \in Docs : docChunks[e] # <<>>}}
<1>1. /\ lock = NoThread /\ lock' = NoThread /\ Table' = Table
      /\ answer' = [answer EXCEPT ![t] = [kind |-> "rows", rows |-> listed]]
  BY DEF ListDocuments, Return, store, Table
<1>2. Pending = Table /\ Pending' = Pending /\ Replies = answer /\ Replies' = answer'
  BY <1>1, FreeIsTable, FreeIsTablePrime
<1>3. DOMAIN Pending = DOMAIN vectors
  BY <1>2 DEF Table
<1>4. \A d : Atomic!ChunksOf(d) = own(d)
  BY <1>3 DEF Atomic!ChunksOf
<1>5. \A i \in DOMAIN vectors : DocOf[i] \in Docs
  BY StoreAssumption DEF StoreAssumption, TypeOK
<1>6. /\ \A d \in Docs : Len(docChunks[d]) = Cardinality(own(d))
      /\ \A d \in Docs : docChunks[d] # <<>> <=> \E i \in DOMAIN vectors : DocOf[i] = d
  BY ListSize
<1>7. listed = {[doc |-> DocOf[i], count |-> Cardinality(own(DocOf[i]))] : i \in DOMAIN vectors}
  <2> HIDE DEF own
  <2>. QED
    BY <1>5, <1>6
<1> HIDE DEF listed, own
<1>. QED
  BY <1>1, <1>2, <1>3, <1>4, <1>7, SameCardinality DEF Atomic!TList, Atomic!Reply

LEMMA CountRefines ==
    ASSUME TypeOK, RefInv, Consistent, TypeOK', RefInv', NEW t \in Threads, Count(t)
    PROVE  Atomic!TCount(t)
<1>1. /\ lock = NoThread /\ lock' = NoThread /\ Table' = Table
      /\ answer' = [answer EXCEPT ![t] = [kind |-> "count", n |-> Cardinality(DOMAIN chunks)]]
  BY DEF Count, Return, store, Table
<1>2. Pending = Table /\ Pending' = Pending /\ Replies = answer /\ Replies' = answer'
  BY <1>1, FreeIsTable, FreeIsTablePrime
<1>3. DOMAIN Pending = DOMAIN chunks
  BY <1>2 DEF Table, Consistent
<1>. QED
  BY <1>1, <1>2, <1>3, SameCardinality DEF Atomic!TCount, Atomic!Reply

LEMMA DeleteRefines ==
    ASSUME TypeOK, RefInv, Consistent, TypeOK', RefInv', NEW t \in Threads, NEW d \in Docs,
           DeleteDocument(t, d)
    PROVE  Atomic!TDelete(t, d)
<1> DEFINE own == {i \in DOMAIN vectors : DocOf[i] = d}
<1>1. Elements(docChunks[d]) = own /\ Len(docChunks[d]) = Cardinality(own)
  BY ListSize
<1>2. /\ lock = NoThread /\ lock' = NoThread
      /\ vectors' = Without(vectors, own) /\ chunks' = Without(chunks, own)
      /\ answer' = [answer EXCEPT ![t] = [kind |-> "deleted", n |-> Cardinality(own)]]
  BY <1>1 DEF DeleteDocument, Return
<1>3. Pending = Table /\ Pending' = Table' /\ Replies = answer /\ Replies' = answer'
  BY <1>2, FreeIsTable, FreeIsTablePrime
<1>4. Atomic!ChunksOf(d) = own
  BY <1>3 DEF Atomic!ChunksOf, Table
<1> HIDE DEF own
<1>5. Table' = [i \in DOMAIN Table \ own |-> Table[i]]
  BY <1>2 DEF Table, Without, Consistent
<1>. QED
  BY <1>2, <1>3, <1>4, <1>5, SameCardinality DEF Atomic!TDelete, Atomic!Reply

LEMMA ResetRefines ==
    ASSUME TypeOK, RefInv, TypeOK', RefInv', NEW t \in Threads, Reset(t)
    PROVE  Atomic!TReset(t)
<1>1. /\ lock = NoThread /\ lock' = NoThread /\ vectors' = Without(vectors, DOMAIN vectors)
      /\ answer' = [answer EXCEPT ![t] = [kind |-> "none"]]
  BY DEF Reset, Return, None
<1>2. Replies = answer /\ Pending' = Table' /\ Replies' = answer'
  BY <1>1, FreeIsTable, FreeIsTablePrime
<1>3. Table' = [i \in {} |-> <<>>]
  BY <1>1 DEF Table, Without
<1>. QED
  BY <1>1, <1>2, <1>3 DEF Atomic!TReset, Atomic!Reply

LEMMA NextRefines ==
    TypeOK /\ RefInv /\ Consistent /\ TypeOK' /\ RefInv' /\ [Next]_vars
        => [Atomic!TNext(Batches, Queries)]_Atomic!tvars
<1> SUFFICES ASSUME TypeOK, RefInv, Consistent, TypeOK', RefInv', [Next]_vars
             PROVE  Atomic!TNext(Batches, Queries) \/ (Pending' = Pending /\ Replies' = Replies)
  BY DEF Atomic!tvars
<1>1. CASE UNCHANGED vars
  BY <1>1 DEF vars, store, Pending, Replies, Table
<1>2. CASE Next
  <2>1. PICK t \in Threads : \/ AddLoop(t)
                             \/ \E b \in Batches, m \in Models : BeginAdd(t, b, m)
                             \/ \E q \in Queries : Search(t, q)
                             \/ ListDocuments(t)
                             \/ Count(t)
                             \/ \E d \in Docs : DeleteDocument(t, d)
                             \/ Reset(t)
    BY <1>2 DEF Next
  <2>2. CASE AddLoop(t)
    BY <2>2, AddOneStutters, AddRaisesStutters, FinishAddStutters DEF AddLoop
  <2>3. CASE \E b \in Batches, m \in Models : BeginAdd(t, b, m)
    BY <2>3, BeginAddRefines DEF Atomic!TNext
  <2>4. CASE \E q \in Queries : Search(t, q)
    BY <2>4, SearchRefines DEF Atomic!TNext
  <2>5. CASE ListDocuments(t) \/ Count(t) \/ Reset(t)
    BY <2>5, ListRefines, CountRefines, ResetRefines DEF Atomic!TNext
  <2>6. CASE \E d \in Docs : DeleteDocument(t, d)
    BY <2>6, DeleteRefines DEF Atomic!TNext
  <2>. QED
    BY <2>1, <2>2, <2>3, <2>4, <2>5, <2>6
<1>. QED
  BY <1>1, <1>2

\* InMemoryVectorStore, with its three dicts, its lock and an add() that may raise in
\* the middle of its loop, implements one table on which every operation takes effect
\* at one instant: a search never meets half a batch and returns the top_k of what is
\* stored, and list_documents(), count() and delete_document() report the table.
\* (vector_store.py:194-317)
THEOREM StoreImplementsTable == Spec => RefinesAtomic
<1>1. Spec => [](TypeOK /\ RefInv /\ Consistent)
  BY InitTypeOK, NextTypeOK, InitRefInv, NextRefInv, InitConsistent, NextConsistent, PTL DEF Spec
<1>. QED
  BY <1>1, InitRefines, NextRefines, PTL DEF Spec, RefinesAtomic

-----------------------------------------------------------------------------
(* The database store, for every set of threads, documents and batches, and *)
(* any number of calls and crashes: types, whole documents, and that what is *)
(* acknowledged is stored.                                                 *)

\* The chunks that the loop of add() has written when it stands at place p.
Prefix(b, p) == {b.ids[n] : n \in {m \in DOMAIN b.ids : m < p}}

LEMMA BatchFacts ==
    ASSUME NEW b \in PgBatches
    PROVE  /\ b.doc \in DocIds /\ b.text \in Versions /\ b.bad \in Nat /\ b.ids \in Seq(RowIds)
           /\ Len(b.ids) \in Nat /\ DOMAIN b.ids = 1..Len(b.ids) /\ 1 \in DOMAIN b.ids
           /\ BatchIds(b) \subseteq RowIds
<1>1. b \in [doc : DocIds, ids : Seq(RowIds), text : Versions, bad : Nat] /\ b.ids # <<>>
  BY PgAssumption DEF PgAssumption
<1>2. /\ b.doc \in DocIds /\ b.text \in Versions /\ b.bad \in Nat /\ b.ids \in Seq(RowIds)
  BY <1>1
<1> DEFINE s == b.ids
<1>3. /\ Len(s) \in Nat /\ DOMAIN s = 1..Len(s) /\ Len(s) # 0
      /\ \A n \in 1..Len(s) : s[n] \in RowIds
  <2>1. s \in Seq(RowIds) /\ s # <<>>
    BY <1>1, <1>2
  <2> HIDE DEF s
  <2>. QED
    BY <2>1
<1>4. 1 \in DOMAIN s
  <2> HIDE DEF s
  <2>. QED
    BY <1>3
<1>. QED
  BY <1>2, <1>3, <1>4 DEF BatchIds

LEMMA ChunksAreOwn ==
    ASSUME NEW b \in PgBatches, NEW c \in PgBatches, NEW i, i \in BatchIds(b), i \in BatchIds(c)
    PROVE  b.doc = c.doc
  BY PgAssumption DEF BatchIds, PgAssumption

LEMMA PrefixGrows ==
    ASSUME NEW b \in PgBatches, NEW p \in Nat \ {0}
    PROVE  /\ Prefix(b, 1) = {}
           /\ p <= Len(b.ids) => Prefix(b, p + 1) = Prefix(b, p) \cup {b.ids[p]}
           /\ p > Len(b.ids) => Prefix(b, p) = BatchIds(b)
<1>1. Len(b.ids) \in Nat /\ DOMAIN b.ids = 1..Len(b.ids)
  BY BatchFacts
<1>2. Prefix(b, 1) = {}
  BY <1>1 DEF Prefix
<1>3. ASSUME p <= Len(b.ids)
      PROVE  Prefix(b, p + 1) = Prefix(b, p) \cup {b.ids[p]}
  <2>1. {m \in DOMAIN b.ids : m < p + 1} = {m \in DOMAIN b.ids : m < p} \cup {p}
    BY <1>1, <1>3
  <2>. QED
    BY <2>1 DEF Prefix
<1>4. ASSUME p > Len(b.ids)
      PROVE  Prefix(b, p) = BatchIds(b)
  <2>1. {m \in DOMAIN b.ids : m < p} = DOMAIN b.ids
    BY <1>1, <1>4
  <2>. QED
    BY <2>1 DEF Prefix, BatchIds
<1>. QED
  BY <1>2, <1>3, <1>4

LEMMA NoCallIsCall == NoBatch \in PgBatches /\ NoCall \in [op : Ops, batch : PgBatches]
<1>1. NoBatch \in PgBatches
  BY PgAssumption DEF NoBatch, PgAssumption
<1>. QED
  BY <1>1 DEF NoCall, Ops

-----------------------------------------------------------------------------
(* The steps, sorted by what they change.                                  *)

\* The variables of the threads, and those of the table with its histories.
ThreadsOK ==
    /\ pc \in [Clients -> {"idle"} \cup Steps]
    /\ seen \in [Clients -> SUBSET RowIds] /\ written \in [Clients -> SUBSET RowIds]
    /\ \A t \in Clients : /\ written[t] # {} => pc[t] \in {"add", "deleting"}
                          /\ seen[t] # {} => pc[t] = "deleting"
    /\ reply \in [Clients -> Endings]
CallsOK ==
    /\ exists \in BOOLEAN
    /\ call \in [Clients -> [op : Ops, batch : PgBatches]]
    /\ place \in [Clients -> Nat \ {0}]
    /\ calls \in 0..MaxCalls /\ crashes \in 0..MaxCrashes
StoreOK ==
    /\ DOMAIN rows \subseteq RowIds
    /\ rows \in [DOMAIN rows -> [doc : DocIds, text : Versions, meta : Versions]]
    /\ DOMAIN latest \subseteq DocIds /\ latest \in [DOMAIN latest -> PgBatches]
    /\ added \subseteq PgBatches /\ kept \subseteq PgBatches

LEMMA TypeParts == PgTypeOK <=> ThreadsOK /\ CallsOK /\ StoreOK
  BY DEF PgTypeOK, ThreadsOK, CallsOK, StoreOK

\* The steps that end a call and change nothing for the others.
Ends(t) == \/ TableExists(t) \/ UndefinedTable(t) \/ RejectVector(t) \/ LoseConnection(t)
           \/ Read(t) \/ BreakDeadlock(t)

LEMMA EndsReturn ==
    ASSUME NEW t \in Clients, Ends(t)
    PROVE  /\ \E r \in Endings : EndCall(t, r)
           /\ UNCHANGED <<table, call, place, history, calls, crashes>>
  BY DEF Ends, TableExists, UndefinedTable, RejectVector, LoseConnection, Read, BreakDeadlock,
         Finish, Endings

\* The steps that commit the transaction of an add().
Commits(t) == CommitAdd(t) \/ CommitUnheard(t)

LEMMA CommitsReturn ==
    ASSUME NEW t \in Clients, Commits(t)
    PROVE  /\ Done(t) /\ \E r \in Endings : EndCall(t, r)
           /\ rows' = Committed(t) /\ StoreBatch(Batch(t))
           /\ kept' \in {kept, kept \cup {Batch(t)}}
           /\ UNCHANGED <<exists, call, place, calls, crashes>>
  BY DEF Commits, CommitAdd, CommitUnheard, Endings

\* The steps of a call that go on and leave the rows alone.
GoesOn(t) == \/ LookForTable(t) \/ CreateTable(t) \/ LookForIndexes(t)
             \/ Upsert(t) \/ BeginDelete(t) \/ DeleteRow(t)

LEMMA PgNextCases ==
    ASSUME [PgNext]_pgVars
    PROVE  \/ \E t \in Clients :
                 \/ GoesOn(t) \/ Ends(t) \/ Commits(t) \/ CommitDelete(t) \/ ResetTable(t)
                 \/ \E op \in Ops, b \in PgBatches : Call(t, op, b)
           \/ Crash
           \/ UNCHANGED pgVars
  BY DEF PgNext, CallStep, SchemaStep, OpStep, Ends, Commits, GoesOn

\* A call that returns has ended its transaction.
LEMMA ReturnEnds ==
    ASSUME ThreadsOK, NEW t \in Clients, NEW r \in Endings, EndCall(t, r)
    PROVE  /\ ThreadsOK'
           /\ \A u \in Clients : pc'[u] = IF u = t THEN "idle" ELSE pc[u]
           /\ \A u \in Clients : written'[u] = IF u = t THEN {} ELSE written[u]
  BY DEF ThreadsOK, EndCall

\* The rows a transaction would leave are rows.
LEMMA CommittedAreRows ==
    ASSUME PgTypeOK, NEW t \in Clients
    PROVE  /\ DOMAIN Committed(t) = DOMAIN rows \cup written[t]
           /\ DOMAIN Committed(t) \subseteq RowIds
           /\ Committed(t) \in [DOMAIN Committed(t) ->
                                    [doc : DocIds, text : Versions, meta : Versions]]
<1>1. Batch(t).doc \in DocIds /\ Batch(t).text \in Versions
  BY BatchFacts DEF PgTypeOK, Batch
<1>2. \A i \in DOMAIN rows : rows[i] \in [doc : DocIds, text : Versions, meta : Versions]
  BY DEF PgTypeOK
<1>3. DOMAIN rows \subseteq RowIds /\ written[t] \subseteq RowIds
  BY DEF PgTypeOK
<1>4. ASSUME NEW i \in DOMAIN Committed(t)
      PROVE  Committed(t)[i] \in [doc : DocIds, text : Versions, meta : Versions]
  <2>1. CASE i \notin written[t]
    BY <1>2, <2>1, <1>4 DEF Committed
  <2>2. CASE i \in written[t] /\ i \in DOMAIN rows
    <3>1. Committed(t)[i] = [rows[i] EXCEPT !.text = Batch(t).text]
      BY <1>4, <2>2 DEF Committed
    <3>. QED
      BY <1>1, <1>2, <2>2, <3>1
  <2>3. CASE i \in written[t] /\ i \notin DOMAIN rows
    BY <1>1, <1>4, <2>3 DEF Committed
  <2>. QED
    BY <2>1, <2>2, <2>3
<1>5. DOMAIN Committed(t) = DOMAIN rows \cup written[t]
  BY DEF Committed
<1>6. Committed(t) = [i \in DOMAIN Committed(t) |-> Committed(t)[i]]
  BY DEF Committed
<1> DEFINE C == Committed(t)
<1> HIDE DEF C
<1>. QED
  BY <1>3, <1>4, <1>5, <1>6

LEMMA RemoveKeepsTypes ==
    ASSUME StoreOK, NEW gone, Remove(gone)
    PROVE  StoreOK'
  BY DEF StoreOK, Remove

-----------------------------------------------------------------------------
(* Types.                                                                  *)

LEMMA InitPgTypeOK == PgInit => PgTypeOK
<1> SUFFICES ASSUME PgInit
             PROVE  PgTypeOK
    OBVIOUS
<1>1. ThreadsOK
  BY DEF PgInit, ThreadsOK, Endings
<1>2. CallsOK
  <2>1. MaxCalls \in Nat /\ MaxCrashes \in Nat
    BY PgAssumption DEF PgAssumption
  <2>2. 0 \in 0..MaxCalls /\ 0 \in 0..MaxCrashes
    BY ONLY <2>1
  <2>3. calls = 0 /\ crashes = 0 /\ exists = FALSE /\ place = [t \in Clients |-> 1]
        /\ call = [t \in Clients |-> NoCall]
    BY DEF PgInit
  <2>4. calls \in 0..MaxCalls /\ crashes \in 0..MaxCrashes
    BY ONLY <2>2, <2>3
  <2>5. call \in [Clients -> [op : Ops, batch : PgBatches]]
    BY NoCallIsCall, <2>3
  <2>6. exists \in BOOLEAN
    BY ONLY <2>3
  <2>7. place \in [Clients -> Nat \ {0}]
    BY ONLY <2>3
  <2>. QED
    BY ONLY <2>4, <2>5, <2>6, <2>7 DEF CallsOK
<1>3. StoreOK
  BY DEF PgInit, StoreOK
<1>. QED
  BY <1>1, <1>2, <1>3, TypeParts

LEMMA NextPgTypeOK == PgTypeOK /\ [PgNext]_pgVars => PgTypeOK'
<1> SUFFICES ASSUME PgTypeOK, [PgNext]_pgVars
             PROVE  PgTypeOK'
    OBVIOUS
<1>0. ThreadsOK /\ CallsOK /\ StoreOK
  BY TypeParts
<1>a. ASSUME ThreadsOK', CallsOK', StoreOK'
      PROVE  PgTypeOK'
  BY <1>a, TypeParts, PTL
<1>b. UNCHANGED <<exists, call, place, calls, crashes>> => CallsOK'
  BY <1>0 DEF CallsOK
<1>c. UNCHANGED <<rows, history>> => StoreOK'
  BY <1>0 DEF StoreOK, history
<1>1. ASSUME NEW t \in Clients, GoesOn(t)
      PROVE  PgTypeOK'
  <2>1. UNCHANGED <<rows, history>>
    BY <1>1 DEF GoesOn, LookForTable, CreateTable, LookForIndexes, Upsert, UpsertRow, BeginDelete,
                DeleteRow, table
  <2>2. call[t].op \in Ops /\ place[t] \in Nat \ {0} /\ DocRows(Batch(t).doc) \subseteq RowIds
    BY <1>0 DEF CallsOK, StoreOK, DocRows
  <2>3. pc[t] = "add" /\ place[t] <= Len(Batch(t).ids) => NextId(t) \in RowIds
    <3>1. Batch(t) \in PgBatches
      BY <1>0 DEF CallsOK, Batch
    <3> DEFINE b == Batch(t)
    <3>2. b.ids \in Seq(RowIds) /\ DOMAIN b.ids = 1..Len(b.ids) /\ Len(b.ids) \in Nat
      BY <3>1, BatchFacts
    <3>. QED
      BY <2>2, <3>2 DEF NextId
  <2>4. CallsOK'
    <3>1. CASE Upsert(t)
      BY <1>0, <2>2, <3>1 DEF CallsOK, Upsert, UpsertRow, table
    <3>2. CASE CreateTable(t)
      BY <1>0, <3>2 DEF CallsOK, CreateTable
    <3>3. CASE LookForTable(t) \/ LookForIndexes(t) \/ BeginDelete(t) \/ DeleteRow(t)
      BY <1>b, <3>3 DEF LookForTable, LookForIndexes, BeginDelete, DeleteRow, table
    <3>. QED
      BY <1>1, <3>1, <3>2, <3>3 DEF GoesOn
  <2>5. ThreadsOK'
    <3>1. CASE LookForTable(t)
      BY <1>0, <3>1 DEF ThreadsOK, LookForTable, Goto, Steps
    <3>2. CASE CreateTable(t)
      BY <1>0, <2>2, <3>2, ReturnEnds DEF ThreadsOK, CreateTable, Goto, Steps, Endings
    <3>3. CASE LookForIndexes(t)
      BY <1>0, <2>2, <3>3 DEF ThreadsOK, LookForIndexes, Goto, Steps
    <3>4. CASE Upsert(t)
      <4>1. pc[t] = "add" /\ place[t] <= Len(Batch(t).ids) /\ UNCHANGED <<pc, seen, reply>>
            /\ written' = [written EXCEPT ![t] = @ \cup {NextId(t)}]
        BY <3>4 DEF Upsert, UpsertRow
      <4>. QED
        BY <1>0, <2>3, <4>1 DEF ThreadsOK
    <3>5. CASE BeginDelete(t)
      BY <1>0, <2>2, <3>5 DEF ThreadsOK, BeginDelete, Goto, Steps
    <3>6. CASE DeleteRow(t)
      BY <1>0, <3>6 DEF ThreadsOK, DeleteRow
    <3>. QED
      BY <1>1, <3>1, <3>2, <3>3, <3>4, <3>5, <3>6 DEF GoesOn
  <2>. QED
    BY <1>a, <1>c, <2>1, <2>4, <2>5
<1>2. ASSUME NEW t \in Clients, Ends(t)
      PROVE  PgTypeOK'
  <2>1. PICK r \in Endings : EndCall(t, r)
    BY <1>2, EndsReturn
  <2>2. UNCHANGED <<table, call, place, history, calls, crashes>>
    BY <1>2, EndsReturn
  <2>. QED
    BY <1>0, <1>a, <1>b, <1>c, <2>1, <2>2, ReturnEnds DEF table
<1>3. ASSUME NEW t \in Clients, Commits(t)
      PROVE  PgTypeOK'
  <2>1. PICK r \in Endings : EndCall(t, r)
    BY <1>3, CommitsReturn
  <2>2. /\ rows' = Committed(t) /\ StoreBatch(Batch(t)) /\ kept' \in {kept, kept \cup {Batch(t)}}
        /\ UNCHANGED <<exists, call, place, calls, crashes>>
    BY <1>3, CommitsReturn
  <2>3. Batch(t) \in PgBatches /\ Batch(t).doc \in DocIds
    BY <1>0, BatchFacts DEF CallsOK, Batch
  <2>4. DOMAIN rows' \subseteq RowIds
        /\ rows' \in [DOMAIN rows' -> [doc : DocIds, text : Versions, meta : Versions]]
    BY <2>2, CommittedAreRows
  <2>5. DOMAIN latest' \subseteq DocIds /\ latest' \in [DOMAIN latest' -> PgBatches]
        /\ added' \subseteq PgBatches /\ kept' \subseteq PgBatches
    BY <1>0, <2>2, <2>3 DEF StoreBatch, StoreOK
  <2>. QED
    BY <1>0, <1>a, <1>b, <2>1, <2>2, <2>4, <2>5, ReturnEnds DEF StoreOK
<1>4. ASSUME NEW t \in Clients, CommitDelete(t)
      PROVE  PgTypeOK'
  <2>1. StoreOK'
    BY <1>0, <1>4, RemoveKeepsTypes DEF CommitDelete
  <2>2. ThreadsOK'
    BY <1>0, <1>4 DEF CommitDelete, ThreadsOK, Endings
  <2>. QED
    BY <1>4, <1>a, <1>b, <2>1, <2>2 DEF CommitDelete
<1>5. ASSUME NEW t \in Clients, ResetTable(t)
      PROVE  PgTypeOK'
  <2>1. StoreOK'
    BY <1>0, <1>5, RemoveKeepsTypes DEF ResetTable
  <2>2. PICK r \in Endings : EndCall(t, r)
    BY <1>5 DEF ResetTable, Endings
  <2>. QED
    BY <1>0, <1>5, <1>a, <2>1, <2>2, ReturnEnds DEF ResetTable, CallsOK
<1>6. ASSUME NEW t \in Clients, NEW op \in Ops, NEW b \in PgBatches, Call(t, op, b)
      PROVE  PgTypeOK'
  <2>1. ThreadsOK' /\ UNCHANGED <<rows, history>>
    BY <1>0, <1>6 DEF Call, Goto, table, ThreadsOK, Steps, Endings
  <2>2. calls' \in 0..MaxCalls
    BY <1>0, <1>6, PgAssumption DEF Call, PgAssumption, CallsOK
  <2>3. CallsOK'
    BY <1>0, <1>6, <2>2 DEF Call, table, CallsOK
  <2>. QED
    BY <1>a, <1>c, <2>1, <2>3
<1>7. CASE Crash
  <2>1. ThreadsOK' /\ UNCHANGED <<rows, history>>
    BY <1>0, <1>7 DEF Crash, table, ThreadsOK, Endings
  <2>2. CallsOK'
    BY <1>0, <1>7, PgAssumption DEF Crash, table, CallsOK, PgAssumption
  <2>. QED
    BY <1>a, <1>c, <2>1, <2>2
<1>8. CASE UNCHANGED pgVars
  BY <1>8 DEF pgVars, table, history, PgTypeOK
<1>. QED
  BY <1>1, <1>2, <1>3, <1>4, <1>5, <1>6, <1>7, <1>8, PgNextCases

\* The variables of the database store keep their types, and a transaction has written
\* rows only inside add() and delete_document(). (pgvector_store.py:139-170, 301-314)
THEOREM PgTypeCorrect == PgSpec => []PgTypeOK
  BY InitPgTypeOK, NextPgTypeOK, PTL DEF PgSpec

-----------------------------------------------------------------------------
(* Whole documents.  A transaction has written the chunks in front of its  *)
(* place: when it commits, it has written all of them.  The rows of two    *)
(* documents are apart, so that nobody else's commit touches them.         *)

Progress(t) == /\ pc[t] = "schema" \/ pc[t] = "create" \/ pc[t] = "index" => place[t] = 1
               /\ pc[t] = "add" => written[t] = Prefix(Batch(t), place[t])

PgInv ==
    /\ \A t \in Clients : Progress(t)
    /\ \A d \in DOMAIN latest : latest[d].doc = d
    /\ DocumentsAreWhole
    /\ AcknowledgedIsStored

\* What PgInv says of the table and its histories.
TableInv ==
    /\ \A d \in DOMAIN latest : latest[d].doc = d
    /\ DocumentsAreWhole
    /\ AcknowledgedIsStored

LEMMA InvParts == PgInv <=> TableInv /\ \A t \in Clients : Progress(t)
  BY DEF PgInv, TableInv

LEMMA InitPgInv == PgInit => PgInv
  BY DEF PgInit, PgInv, Progress, DocumentsAreWhole, AcknowledgedIsStored

\* Steps that leave rows and histories alone.
LEMMA RowsUntouched ==
    ASSUME UNCHANGED <<rows, history>>, TableInv
    PROVE  TableInv'
  BY DEF TableInv, DocumentsAreWhole, AcknowledgedIsStored, DocRows, history

LEMMA ReturnsProgress ==
    ASSUME PgTypeOK, PgInv, NEW t \in Clients, NEW r \in Endings, EndCall(t, r),
           UNCHANGED <<call, place>>
    PROVE  \A u \in Clients : Progress(u)'
<1>1. \A u \in Clients : Progress(u)
  BY DEF PgInv
<1>2. /\ \A u \in Clients : pc'[u] = IF u = t THEN "idle" ELSE pc[u]
      /\ \A u \in Clients : written'[u] = IF u = t THEN {} ELSE written[u]
  BY ReturnEnds, TypeParts
<1>. QED
  BY <1>1, <1>2 DEF Progress, Batch

\* The commit of an add() makes its version of the document whole, whatever was there
\* of others, and leaves the other documents as they are.
LEMMA CommitMakesWhole ==
    ASSUME PgTypeOK, PgInv, NEW t \in Clients, Commits(t)
    PROVE  TableInv'
<1> DEFINE b == Batch(t)
<1>1. /\ Done(t) /\ rows' = Committed(t) /\ StoreBatch(b) /\ kept' \in {kept, kept \cup {b}}
  BY CommitsReturn
<1>2. b \in PgBatches /\ place[t] \in Nat \ {0}
  BY DEF PgTypeOK, Batch
<1>3. written[t] = BatchIds(b)
  <2>1. written[t] = Prefix(b, place[t]) /\ place[t] > Len(b.ids)
    BY <1>1 DEF Done, PgInv, Progress
  <2>. QED
    BY <1>2, <2>1, PrefixGrows
<1>4. /\ latest' = [d \in DOMAIN latest \cup {b.doc} |-> IF d = b.doc THEN b ELSE latest[d]]
      /\ added' = added \cup {b} /\ added \subseteq PgBatches /\ kept \subseteq PgBatches
      /\ \A d \in DOMAIN latest : latest[d] \in PgBatches /\ latest[d].doc = d
  BY <1>1 DEF StoreBatch, PgTypeOK, PgInv
<1>5. \A i \in DOMAIN rows : \E a, c \in added :
          /\ i \in BatchIds(a) \cap BatchIds(c)
          /\ rows[i] = [doc |-> a.doc, text |-> a.text, meta |-> c.text]
  BY DEF PgInv, DocumentsAreWhole
<1> HIDE DEF b
<1>6. /\ DOMAIN rows' = DOMAIN rows \cup BatchIds(b)
      /\ \A i \in DOMAIN rows \ BatchIds(b) : rows'[i] = rows[i]
      /\ \A i \in BatchIds(b) \cap DOMAIN rows : rows'[i] = [rows[i] EXCEPT !.text = b.text]
      /\ \A i \in BatchIds(b) \ DOMAIN rows :
            rows'[i] = [doc |-> b.doc, text |-> b.text, meta |-> b.text]
  BY <1>1, <1>3 DEF Committed, b
<1>7. ASSUME NEW i \in BatchIds(b)
      PROVE  \E c \in added' : /\ i \in BatchIds(c)
                               /\ rows'[i] = [doc |-> b.doc, text |-> b.text, meta |-> c.text]
  <2>1. CASE i \notin DOMAIN rows
    BY <1>4, <1>6, <1>7, <2>1
  <2>2. CASE i \in DOMAIN rows
    <3>1. PICK a \in added, c \in added :
              /\ i \in BatchIds(a) \cap BatchIds(c)
              /\ rows[i] = [doc |-> a.doc, text |-> a.text, meta |-> c.text]
      BY <1>5, <2>2
    <3>2. a.doc = b.doc
      BY <1>2, <1>4, <1>7, <3>1, ChunksAreOwn
    <3>3. rows'[i] = [rows[i] EXCEPT !.text = b.text]
      BY <1>6, <1>7, <2>2
    <3>. QED
      BY <1>4, <3>1, <3>2, <3>3
  <2>. QED
    BY <2>1, <2>2
<1>8. ASSUME NEW i \in DOMAIN rows'
      PROVE  \E a, c \in added' :
                /\ i \in BatchIds(a) \cap BatchIds(c)
                /\ rows'[i] = [doc |-> a.doc, text |-> a.text, meta |-> c.text]
  <2>1. CASE i \in BatchIds(b)
    BY <1>4, <1>7, <2>1
  <2>2. CASE i \notin BatchIds(b)
    <3>1. i \in DOMAIN rows /\ rows'[i] = rows[i] /\ added \subseteq added'
      BY <1>4, <1>6, <1>8, <2>2
    <3>2. PICK a \in added, c \in added :
              /\ i \in BatchIds(a) \cap BatchIds(c)
              /\ rows[i] = [doc |-> a.doc, text |-> a.text, meta |-> c.text]
      BY <1>5, <3>1
    <3>. QED
      BY <3>1, <3>2
  <2>. QED
    BY <2>1, <2>2
<1>9. ASSUME NEW d \in DOMAIN latest', NEW i \in BatchIds(latest'[d])
      PROVE  i \in DOMAIN rows' /\ rows'[i].doc = d /\ rows'[i].text = latest'[d].text
  <2>1. CASE d = b.doc
    <3>1. latest'[d] = b
      BY <1>4, <1>9, <2>1
    <3>. QED
      BY <1>6, <1>7, <1>9, <2>1, <3>1
  <2>2. CASE d # b.doc
    <3>1. d \in DOMAIN latest /\ latest'[d] = latest[d]
      BY <1>4, <1>9, <2>2
    <3>2. i \in DOMAIN rows /\ rows[i].doc = d /\ rows[i].text = latest[d].text
      BY <1>9, <3>1 DEF PgInv, DocumentsAreWhole
    <3>3. i \notin BatchIds(b)
      BY <1>2, <1>4, <1>9, <2>2, <3>1, ChunksAreOwn
    <3>. QED
      BY <1>6, <3>1, <3>2, <3>3
  <2>. QED
    BY <2>1, <2>2
<1>10. DocumentsAreWhole'
  BY <1>8, <1>9 DEF DocumentsAreWhole
<1>11. \A d \in DOMAIN latest' : latest'[d].doc = d
  BY <1>4
<1>12. AcknowledgedIsStored'
  <2>1. ASSUME NEW i \in DOMAIN rows
        PROVE  i \in DOMAIN rows' /\ rows'[i].doc = rows[i].doc
    <3>1. CASE i \in BatchIds(b)
      <4>1. rows'[i] = [rows[i] EXCEPT !.text = b.text] /\ i \in DOMAIN rows'
        BY <1>6, <2>1, <3>1
      <4>2. rows[i] \in [doc : DocIds, text : Versions, meta : Versions]
        BY <2>1 DEF PgTypeOK
      <4>. QED
        BY <4>1, <4>2
    <3>2. CASE i \notin BatchIds(b)
      BY <1>6, <2>1, <3>2
    <3>. QED
      BY <3>1, <3>2
  <2>2. \A i \in BatchIds(b) : i \in DOMAIN rows' /\ rows'[i].doc = b.doc
    BY <1>6, <1>7
  <2>3. \A c \in kept : \A i \in BatchIds(c) : i \in DOMAIN rows /\ rows[i].doc = c.doc
    BY DEF PgInv, AcknowledgedIsStored, DocRows
  <2>4. \A c \in kept' : \A i \in BatchIds(c) : i \in DOMAIN rows' /\ rows'[i].doc = c.doc
    BY <1>1, <2>1, <2>2, <2>3
  <2>. QED
    BY <2>4 DEF AcknowledgedIsStored, DocRows
<1>. QED
  BY <1>10, <1>11, <1>12 DEF TableInv

\* A removal takes the batches it reaches out of the histories.
LEMMA RemoveKeepsWhole ==
    ASSUME TableInv, NEW gone, Remove(gone)
    PROVE  TableInv'
<1>1. /\ rows' = [i \in DOMAIN rows \ gone |-> rows[i]]
      /\ latest' = [d \in {e \in DOMAIN latest : BatchIds(latest[e]) \cap gone = {}} |-> latest[d]]
      /\ added' = {b \in added : BatchIds(b) \cap (DOMAIN rows \ gone) # {}}
      /\ kept' = {b \in kept : BatchIds(b) \cap gone = {}}
  BY DEF Remove
<1>2. \A d \in DOMAIN latest' : latest'[d].doc = d
  BY <1>1 DEF TableInv
<1>3. ASSUME NEW d \in DOMAIN latest', NEW i \in BatchIds(latest'[d])
      PROVE  i \in DOMAIN rows' /\ rows'[i].doc = d /\ rows'[i].text = latest'[d].text
  <2>1. d \in DOMAIN latest /\ latest'[d] = latest[d] /\ i \notin gone
    BY <1>1, <1>3
  <2>2. i \in DOMAIN rows /\ rows[i].doc = d /\ rows[i].text = latest[d].text
    BY <1>3, <2>1 DEF TableInv, DocumentsAreWhole
  <2>. QED
    BY <1>1, <2>1, <2>2
<1>4. ASSUME NEW i \in DOMAIN rows'
      PROVE  \E a, c \in added' :
                /\ i \in BatchIds(a) \cap BatchIds(c)
                /\ rows'[i] = [doc |-> a.doc, text |-> a.text, meta |-> c.text]
  <2>1. i \in DOMAIN rows \ gone /\ rows'[i] = rows[i]
    BY <1>1, <1>4
  <2>2. PICK a \in added, c \in added :
            /\ i \in BatchIds(a) \cap BatchIds(c)
            /\ rows[i] = [doc |-> a.doc, text |-> a.text, meta |-> c.text]
    BY <2>1 DEF TableInv, DocumentsAreWhole
  <2>. QED
    BY <1>1, <2>1, <2>2
<1>5. AcknowledgedIsStored'
  BY <1>1 DEF TableInv, AcknowledgedIsStored, DocRows
<1>. QED
  BY <1>2, <1>3, <1>4, <1>5 DEF TableInv, DocumentsAreWhole

LEMMA NextPgInv == PgTypeOK /\ PgInv /\ [PgNext]_pgVars => PgInv'
<1> SUFFICES ASSUME PgTypeOK, PgInv, [PgNext]_pgVars
             PROVE  PgInv'
    OBVIOUS
<1>0. TableInv /\ \A u \in Clients : Progress(u)
  BY InvParts
<1>a. ASSUME TableInv', \A u \in Clients : Progress(u)'
      PROVE  PgInv'
  BY <1>a DEF PgInv, TableInv
<1>b. ASSUME UNCHANGED <<rows, history>>, \A u \in Clients : Progress(u)'
      PROVE  PgInv'
  BY <1>0, <1>a, <1>b, RowsUntouched
<1>1. ASSUME NEW t \in Clients, LookForTable(t) \/ CreateTable(t) \/ LookForIndexes(t)
      PROVE  PgInv'
  <2>1. /\ UNCHANGED <<rows, call, place, history>> /\ pc[t] \in {"schema", "create", "index"}
    BY <1>1 DEF LookForTable, CreateTable, LookForIndexes, Goto, table
  <2>2. written[t] = {} /\ place[t] = 1 /\ Batch(t) \in PgBatches
    BY <1>0, <2>1 DEF PgTypeOK, Progress, Batch
  <2>3. written[t] = Prefix(Batch(t), place[t])
    BY <2>2, PrefixGrows
  <2>4. \A u \in Clients : u # t => pc'[u] = pc[u]
    BY <1>1 DEF LookForTable, CreateTable, LookForIndexes, Goto, EndCall, PgTypeOK
  <2>5. \A u \in Clients : written'[u] = written[u]
    BY <1>1, <2>2 DEF LookForTable, CreateTable, LookForIndexes, EndCall, PgTypeOK
  <2>. QED
    BY <1>0, <1>b, <2>1, <2>2, <2>3, <2>4, <2>5 DEF Progress, Batch
<1>2. ASSUME NEW t \in Clients, Upsert(t)
      PROVE  PgInv'
  <2>1. /\ UNCHANGED <<rows, pc, call, history>> /\ pc[t] = "add"
        /\ place[t] <= Len(Batch(t).ids)
        /\ place' = [place EXCEPT ![t] = @ + 1]
        /\ written' = [written EXCEPT ![t] = @ \cup {Batch(t).ids[place[t]]}]
    BY <1>2 DEF Upsert, UpsertRow, NextId, table
  <2>2. Batch(t) \in PgBatches /\ place[t] \in Nat \ {0}
    BY DEF PgTypeOK, Batch
  <2>3. /\ written'[t] = written[t] \cup {Batch(t).ids[place[t]]} /\ place'[t] = place[t] + 1
        /\ \A u \in Clients : u # t => written'[u] = written[u] /\ place'[u] = place[u]
    BY <2>1 DEF PgTypeOK
  <2>4. written'[t] = Prefix(Batch(t), place'[t])
    BY <1>0, <2>1, <2>2, <2>3, PrefixGrows DEF Progress
  <2>. QED
    BY <1>0, <1>b, <2>1, <2>3, <2>4 DEF Progress, Batch
<1>3. ASSUME NEW t \in Clients, BeginDelete(t) \/ DeleteRow(t)
      PROVE  PgInv'
  <2>1. /\ UNCHANGED <<rows, call, place, history>>
        /\ \A u \in Clients : u # t => pc'[u] = pc[u] /\ written'[u] = written[u]
        /\ pc'[t] = "deleting"
    BY <1>3 DEF BeginDelete, DeleteRow, Goto, table, PgTypeOK
  <2>. QED
    BY <1>0, <1>b, <2>1 DEF Progress, Batch
<1>4. ASSUME NEW t \in Clients, Ends(t)
      PROVE  PgInv'
  <2>1. PICK r \in Endings : EndCall(t, r)
    BY <1>4, EndsReturn
  <2>. QED
    BY <1>4, <1>b, <2>1, EndsReturn, ReturnsProgress DEF table
<1>5. ASSUME NEW t \in Clients, Commits(t)
      PROVE  PgInv'
  <2>1. PICK r \in Endings : EndCall(t, r)
    BY <1>5, CommitsReturn
  <2>. QED
    BY <1>5, <1>a, <2>1, CommitsReturn, ReturnsProgress, CommitMakesWhole
<1>6. ASSUME NEW t \in Clients, CommitDelete(t)
      PROVE  PgInv'
  <2>1. TableInv'
    BY <1>0, <1>6, RemoveKeepsWhole DEF CommitDelete
  <2>2. /\ UNCHANGED <<call, place>> /\ pc'[t] = "idle"
        /\ \A u \in Clients : u # t => pc'[u] = pc[u] /\ written'[u] = written[u]
    BY <1>6 DEF CommitDelete, PgTypeOK
  <2>. QED
    BY <1>0, <1>a, <2>1, <2>2 DEF Progress, Batch
<1>7. ASSUME NEW t \in Clients, ResetTable(t)
      PROVE  PgInv'
  <2>1. TableInv' /\ UNCHANGED <<call, place>>
    BY <1>0, <1>7, RemoveKeepsWhole DEF ResetTable
  <2>2. PICK r \in Endings : EndCall(t, r)
    BY <1>7 DEF ResetTable, Endings
  <2>. QED
    BY <1>a, <2>1, <2>2, ReturnsProgress
<1>8. ASSUME NEW t \in Clients, NEW op \in Ops, NEW b \in PgBatches, Call(t, op, b)
      PROVE  PgInv'
  <2>1. /\ UNCHANGED <<rows, history, written>>
        /\ pc' = [pc EXCEPT ![t] = "schema"] /\ place' = [place EXCEPT ![t] = 1]
        /\ \A u \in Clients \ {t} : call'[u] = call[u]
    BY <1>8 DEF Call, Goto, table, PgTypeOK
  <2>. QED
    BY <1>0, <1>b, <2>1 DEF Progress, Batch, PgTypeOK
<1>9. CASE Crash
  BY <1>b, <1>9 DEF Crash, Progress, table
<1>10. CASE UNCHANGED pgVars
  BY <1>0, <1>b, <1>10 DEF pgVars, table, Progress, Batch
<1>. QED
  BY <1>1, <1>2, <1>3, <1>4, <1>5, <1>6, <1>7, <1>8, <1>9, <1>10, PgNextCases DEF GoesOn

\* The version of a document that was stored last is stored whole and unmixed, whatever
\* fails, whenever the process dies and whoever else adds or deletes the document; and
\* nothing is stored of an add() that did not commit. (pgvector_store.py:139-170, 301-314)
THEOREM DocumentsWhole == PgSpec => []DocumentsAreWhole
<1>1. PgInv => DocumentsAreWhole
  BY DEF PgInv
<1>. QED
  BY <1>1, InitPgTypeOK, NextPgTypeOK, InitPgInv, NextPgInv, PTL DEF PgSpec

\* Every chunk that add() has acknowledged is stored until one of its batch is removed,
\* across any number of crashes. (pgvector_store.py:139-170)
THEOREM AcknowledgedStored == PgSpec => []AcknowledgedIsStored
<1>1. PgInv => AcknowledgedIsStored
  BY DEF PgInv
<1>. QED
  BY <1>1, InitPgTypeOK, NextPgTypeOK, InitPgInv, NextPgInv, PTL DEF PgSpec
=============================================================================
