------------------------- MODULE LexicalIndexProofs -------------------------
(***************************************************************************)
(* Proofs about LexicalIndex for every set of threads, every set of chunk  *)
(* lists and id lists, every scoring function and every top_k: the two     *)
(* dicts name the same chunks at the same places, and a search returns a   *)
(* chunk only with a score of its own text, while one thread at a time     *)
(* ingests and any number of threads search; and for a caller that has the *)
(* index for itself, the rebuild that a write puts off cannot be seen.     *)
(***************************************************************************)
EXTENDS LexicalIndex, Induction

\* Of the threads that call the index in a run, one at most calls add(): with two,
\* HitsAreOwn is false.
OneWriter == \A u \in Uses : \A a, b \in u.callers \cap Adders : a = b

-----------------------------------------------------------------------------
(* The dicts.                                                              *)

\* d[k] = v leaves a dict in which the keys of d have their places and k, if it is
\* new, the last one.
LEMMA PutKeepsPlaces ==
    ASSUME NEW E, NEW d \in Seq(E), IsDict(d), NEW e \in E,
           Entry(e.key, e.val) = e
    PROVE  LET n == Put(d, e.key, e.val)
           IN  /\ n \in Seq(E) /\ IsDict(n)
               /\ Len(n) = IF Has(d, e.key) THEN Len(d) ELSE Len(d) + 1
               /\ \A i \in DOMAIN d : i \in DOMAIN n /\ n[i].key = d[i].key
               /\ ~Has(d, e.key) => n[Len(d) + 1] = e
               /\ \A i \in DOMAIN n : n[i] = e \/ (i \in DOMAIN d /\ n[i] = d[i])
<1>1. /\ DOMAIN d = 1..Len(d) /\ Len(d) \in Nat
      /\ \A i \in 1..Len(d) : d[i] \in E
  OBVIOUS
<1> DEFINE n == Put(d, e.key, e.val)
<1>2. CASE Has(d, e.key)
  <2>1. n = [i \in DOMAIN d |-> IF d[i].key = e.key THEN e ELSE d[i]]
    BY <1>2 DEF Put
  <2> HIDE DEF n
  <2>2. n \in Seq(E) /\ Len(n) = Len(d) /\ DOMAIN n = DOMAIN d
    BY <1>1, <2>1
  <2>3. \A i \in DOMAIN d : n[i].key = d[i].key /\ (n[i] = e \/ n[i] = d[i])
    BY <2>1
  <2>4. IsDict(n)
    BY <2>2, <2>3 DEF IsDict
  <2>. QED
    BY <1>2, <2>2, <2>3, <2>4 DEF n
<1>3. CASE ~Has(d, e.key)
  <2>1. n = Append(d, e)
    BY <1>3 DEF Put
  <2> HIDE DEF n
  <2>2. /\ n \in Seq(E) /\ Len(n) = Len(d) + 1 /\ DOMAIN n = 1..(Len(d) + 1)
        /\ n[Len(d) + 1] = e
        /\ \A i \in 1..Len(d) : n[i] = d[i]
    BY <1>1, <2>1
  <2>3. IsDict(n)
    <3> SUFFICES ASSUME NEW i \in DOMAIN n, NEW j \in DOMAIN n, n[i].key = n[j].key
                 PROVE  i = j
      BY DEF IsDict
    <3>1. CASE i \in 1..Len(d) /\ j \in 1..Len(d)
      BY <1>1, <2>2, <3>1 DEF IsDict
    <3>2. CASE i = Len(d) + 1 \/ j = Len(d) + 1
      BY <1>1, <1>3, <2>2, <3>2 DEF Has
    <3>. QED
      BY <1>1, <2>2, <3>1, <3>2
  <2>4. \A i \in 1..(Len(d) + 1) : i = Len(d) + 1 \/ i \in 1..Len(d)
    BY <1>1
  <2>. QED
    BY <1>1, <1>3, <2>2, <2>3, <2>4 DEF n
<1>. QED
  BY <1>2, <1>3

\* del d[k] closes the gap: what was behind k moves one place forward.
LEMMA DeleteCloses ==
    ASSUME NEW E, NEW d \in Seq(E), IsDict(d), NEW k, Has(d, k)
    PROVE  LET n == Delete(d, k)
               p == PlaceOf(d, k)
           IN  /\ p \in DOMAIN d /\ d[p].key = k
               /\ n \in Seq(E) /\ Len(n) = Len(d) - 1 /\ IsDict(n)
               /\ \A i \in 1..(Len(d) - 1) : /\ i \in DOMAIN d /\ i + 1 \in DOMAIN d
                                             /\ n[i] = IF i < p THEN d[i] ELSE d[i + 1]
<1> DEFINE p == PlaceOf(d, k)
           n == Delete(d, k)
<1>1. p \in DOMAIN d /\ d[p].key = k
  BY DEF Has, PlaceOf
<1>2. n = [i \in 1..(Len(d) - 1) |-> IF i < p THEN d[i] ELSE d[i + 1]]
  BY DEF Delete
<1> HIDE DEF p, n
<1>3. /\ DOMAIN d = 1..Len(d) /\ Len(d) \in Nat /\ p \in 1..Len(d)
      /\ \A i \in 1..Len(d) : d[i] \in E
  BY <1>1
<1>4. n \in Seq(E) /\ Len(n) = Len(d) - 1 /\ DOMAIN n = 1..(Len(d) - 1)
  BY <1>2, <1>3
<1>5. IsDict(n)
  <2> SUFFICES ASSUME NEW i \in DOMAIN n, NEW j \in DOMAIN n, n[i].key = n[j].key
               PROVE  i = j
    BY DEF IsDict
  <2> DEFINE at(m) == IF m < p THEN m ELSE m + 1
  <2>1. i \in 1..(Len(d) - 1) /\ j \in 1..(Len(d) - 1)
    BY <1>4
  <2>2. at(i) \in DOMAIN d /\ at(j) \in DOMAIN d /\ n[i] = d[at(i)] /\ n[j] = d[at(j)]
    BY <1>2, <1>3, <2>1
  <2>3. at(i) = at(j)
    BY <2>2 DEF IsDict
  <2>. QED
    BY <1>3, <2>1, <2>3
<1>6. \A i \in 1..(Len(d) - 1) : /\ i \in DOMAIN d /\ i + 1 \in DOMAIN d
                                 /\ n[i] = IF i < p THEN d[i] ELSE d[i + 1]
  BY <1>2, <1>3
<1>. QED
  BY <1>1, <1>4, <1>5, <1>6 DEF n, p

\* Two dicts with the same keys in the same order.
KeysAgree(a, b) == Len(a) = Len(b) /\ \A i \in DOMAIN a : a[i].key = b[i].key

\* The second dict has one key more, k, at the end.
OneBehind(a, b, k) ==
    /\ Len(b) = Len(a) + 1 /\ b[Len(b)].key = k
    /\ \A i \in DOMAIN a : a[i].key = b[i].key

\* A key has the same place in both, and deleting it leaves the keys in agreement.
LEMMA DeleteKeepsAgreement ==
    ASSUME NEW E, NEW a \in Seq(E), NEW b \in Seq(E), IsDict(a), IsDict(b),
           KeysAgree(a, b), NEW k, Has(b, k)
    PROVE  Has(a, k) /\ KeysAgree(Delete(a, k), Delete(b, k))
<1>1. /\ Len(a) \in Nat /\ Len(b) = Len(a)
      /\ DOMAIN a = 1..Len(a) /\ DOMAIN b = 1..Len(a)
      /\ \A i \in 1..Len(a) : a[i].key = b[i].key
  BY DEF KeysAgree
<1>2. Has(a, k)
  BY <1>1 DEF Has
<1>3. /\ PlaceOf(a, k) \in DOMAIN a /\ a[PlaceOf(a, k)].key = k
      /\ PlaceOf(b, k) \in DOMAIN b /\ b[PlaceOf(b, k)].key = k
  BY <1>2 DEF Has, PlaceOf
<1>4. PlaceOf(a, k) = PlaceOf(b, k)
  BY <1>1, <1>3 DEF IsDict
<1>5. /\ Delete(a, k) \in Seq(E) /\ Len(Delete(a, k)) = Len(a) - 1
      /\ \A i \in 1..(Len(a) - 1) :
            /\ i \in DOMAIN a /\ i + 1 \in DOMAIN a
            /\ Delete(a, k)[i] = IF i < PlaceOf(a, k) THEN a[i] ELSE a[i + 1]
  BY <1>2, DeleteCloses
<1>6. /\ Len(Delete(b, k)) = Len(b) - 1
      /\ \A i \in 1..(Len(b) - 1) :
            Delete(b, k)[i] = IF i < PlaceOf(b, k) THEN b[i] ELSE b[i + 1]
  BY DeleteCloses
<1>7. DOMAIN Delete(a, k) = 1..(Len(a) - 1)
  BY <1>1, <1>5
<1>8. ASSUME NEW i \in DOMAIN Delete(a, k)
      PROVE  Delete(a, k)[i].key = Delete(b, k)[i].key
  <2>1. i \in 1..(Len(a) - 1) /\ i \in 1..Len(a) /\ i + 1 \in 1..Len(a)
    BY <1>1, <1>7
  <2>2. /\ Delete(a, k)[i] = IF i < PlaceOf(a, k) THEN a[i] ELSE a[i + 1]
        /\ Delete(b, k)[i] = IF i < PlaceOf(a, k) THEN b[i] ELSE b[i + 1]
    BY <1>1, <1>4, <1>5, <1>6, <2>1
  <2>. QED
    BY <1>1, <2>1, <2>2
<1>9. Len(Delete(a, k)) = Len(Delete(b, k))
  BY <1>1, <1>5, <1>6
<1>. QED
  BY <1>2, <1>8, <1>9 DEF KeysAgree

-----------------------------------------------------------------------------
(* The inductive invariant: types; who may be where; how the dicts stand;  *)
(* and what the document list of a search still says of the chunks.        *)

Adding(t) == pc[t] \in {"add", "addTokens"}

\* The texts that add() has left are texts of their chunks.
OwnTexts(s) == \A i \in DOMAIN s : s[i].val \in TextsOf(s[i].key)

SharedOK ==
    /\ byId \in Seq(Entries) /\ IsDict(byId)
    /\ tokens \in Seq(Entries) /\ IsDict(tokens)
    /\ dirty \in BOOLEAN
    /\ bm25 \in Seq(Contents)
    /\ raised \subseteq {"AttributeError", "IndexError"}
    /\ use \in Uses /\ writes \in 0..use.writes

Pcs == {"idle", "add", "addTokens", "remove", "check", "snapshot", "build", "clean",
        "guard", "score", "match"}

HitOK(h) == /\ h.rank \in 0..TopK-1
            /\ h.chunk \in ChunkIds /\ h.content \in Contents /\ h.scored \in Contents

ThreadOK(t) ==
    /\ pc[t] \in Pcs /\ removed[t] \in BOOLEAN /\ query[t] \in Queries
    /\ todo[t] \in Seq(IF pc[t] = "remove" THEN RemovalIds ELSE Entries)
    /\ corpus[t] \in Seq(Contents)
    /\ \A h \in found[t] : HitOK(h)
    /\ pc[t] # "idle" => t \in use.callers
    /\ pc[t] = "remove" => OneCaller
    /\ pc[t] = "addTokens" => todo[t] # <<>>
    /\ Adding(t) => t \in Adders /\ OwnTexts(todo[t])

\* The local variables are functions on the threads.
Locals == /\ pc = [t \in Threads |-> pc[t]]
          /\ removed = [t \in Threads |-> removed[t]]
          /\ query = [t \in Threads |-> query[t]]
          /\ todo = [t \in Threads |-> todo[t]]
          /\ corpus = [t \in Threads |-> corpus[t]]
          /\ found = [t \in Threads |-> found[t]]

TypeInv == SharedOK /\ Locals /\ \A t \in Threads : ThreadOK(t)

\* Between the two assignments of add(), _tokens is behind by the chunk at hand;
\* everywhere else the two dicts have the same keys in the same order.
DictInv ==
    /\ OwnTexts(tokens)
    /\ \A t \in Threads : pc[t] = "addTokens" =>
          LET k == Head(todo[t]).key
          IN  \/ KeysAgree(tokens, byId) /\ Has(tokens, k)
              \/ OneBehind(tokens, byId, k)
    /\ (\A t \in Threads : pc[t] # "addTokens") => KeysAgree(tokens, byId)

\* While others search, nothing is removed, so that a document list of any age
\* follows the ids.
OldInv == ~OneCaller => FollowsIds(bm25) /\ \A t \in Threads : FollowsIds(corpus[t])

Settled(t) == \/ pc[t] \in {"idle", "check", "guard", "score", "match"}
              \/ pc[t] = "remove" /\ ~removed[t]

\* A caller who is alone sees a document list that is dirty or up to date.
AloneInv == OneCaller => \A t \in use.callers :
    /\ Settled(t) => dirty \/ bm25 = ValueList(tokens)
    /\ pc[t] \in {"guard", "score"} => ~dirty
    /\ pc[t] = "clean" => bm25 = ValueList(tokens)
    /\ pc[t] \in {"build", "match"} => corpus[t] = ValueList(tokens)

IInv == TypeInv /\ DictInv /\ OldInv /\ AloneInv /\ HitsAreOwn

-----------------------------------------------------------------------------
(* Types.  A step of thread t leaves what belongs to the others alone, so  *)
(* that only t's part of TypeInv and the shared part are at stake.         *)

StepOf(t) == /\ pc' = [pc EXCEPT ![t] = pc'[t]]
             /\ removed' = [removed EXCEPT ![t] = removed'[t]]
             /\ query' = [query EXCEPT ![t] = query'[t]]
             /\ todo' = [todo EXCEPT ![t] = todo'[t]]
             /\ corpus' = [corpus EXCEPT ![t] = corpus'[t]]
             /\ found' = [found EXCEPT ![t] = found'[t]]
             /\ use' = use

LEMMA TypeInvTypes == TypeInv => TypeOK
<1> SUFFICES ASSUME SharedOK, Locals, \A t \in Threads : ThreadOK(t)
             PROVE  TypeOK
  BY DEF TypeInv
<1>1. /\ pc \in [Threads -> Pcs] /\ removed \in [Threads -> BOOLEAN]
      /\ query \in [Threads -> Queries]
  BY DEF Locals, ThreadOK
<1>. QED
  BY <1>1 DEF SharedOK, ThreadOK, TypeOK, HitOK, Pcs

LEMMA OthersStay ==
    ASSUME TypeInv, NEW t \in Threads, StepOf(t), NEW u \in Threads, u # t
    PROVE  /\ pc'[u] = pc[u] /\ removed'[u] = removed[u] /\ query'[u] = query[u]
           /\ todo'[u] = todo[u] /\ corpus'[u] = corpus[u] /\ found'[u] = found[u]
  BY DEF TypeInv, StepOf, Locals

LEMMA LocalStep ==
    ASSUME TypeInv, NEW t \in Threads, StepOf(t), SharedOK', ThreadOK(t)'
    PROVE  TypeInv'
<1>1. SharedOK /\ Locals /\ \A u \in Threads : ThreadOK(u)
  BY DEF TypeInv
<1>2. Locals'
  BY <1>1 DEF StepOf, Locals
<1>3. OneCaller' = OneCaller /\ use' = use
  BY DEF StepOf, OneCaller
<1>4. ASSUME NEW u \in Threads, u # t
      PROVE  ThreadOK(u)'
  <2>1. ThreadOK(u)
    BY <1>1
  <2>2. /\ pc'[u] = pc[u] /\ removed'[u] = removed[u] /\ query'[u] = query[u]
        /\ todo'[u] = todo[u] /\ corpus'[u] = corpus[u] /\ found'[u] = found[u]
    BY <1>4, OthersStay
  <2>. QED
    BY <2>1, <2>2, <1>3 DEF ThreadOK, Adding, OwnTexts, HitOK
<1>5. \A u \in Threads : ThreadOK(u)'
  BY <1>4
<1>. QED
  BY <1>2, <1>5 DEF TypeInv
LEMMA CallersAreThreads == TypeInv => use.callers \subseteq Threads
  BY LexicalAssumption DEF TypeInv, SharedOK, LexicalAssumption

\* What add() is called with are chunks with texts of theirs.
LEMMA BatchIsOwn ==
    ASSUME NEW b \in Batches
    PROVE  b \in Seq(Entries) /\ OwnTexts(b)
<1>1. b \in Seq(Entries)
  BY LexicalAssumption DEF LexicalAssumption, Entries, ChunkIds, Contents
<1>2. ASSUME NEW i \in DOMAIN b
      PROVE  b[i].val \in TextsOf(b[i].key)
  <2>1. b[i] \in UNION {ToSet(c) : c \in Batches}
    BY DEF ToSet
  <2>2. b[i] \in {f \in UNION {ToSet(c) : c \in Batches} : f.key = b[i].key}
    BY <2>1
  <2>. QED
    BY <2>2 DEF TextsOf
<1>. QED
  BY <1>1, <1>2 DEF OwnTexts

LEMMA TailIsOwn ==
    ASSUME NEW E, NEW s \in Seq(E), s # <<>>
    PROVE  /\ Head(s) \in E /\ Tail(s) \in Seq(E)
           /\ OwnTexts(s) => /\ Head(s).val \in TextsOf(Head(s).key)
                             /\ OwnTexts(Tail(s))
<1>1. /\ Len(s) \in Nat \ {0} /\ DOMAIN s = 1..Len(s) /\ Head(s) = s[1]
      /\ Tail(s) \in Seq(E) /\ DOMAIN Tail(s) = 1..(Len(s) - 1)
      /\ \A i \in 1..(Len(s) - 1) : Tail(s)[i] = s[i + 1]
  OBVIOUS
<1>2. 1 \in 1..Len(s) /\ \A i \in 1..(Len(s) - 1) : i + 1 \in 1..Len(s)
  BY <1>1
<1>. QED
  BY <1>1, <1>2 DEF OwnTexts

LEMMA ValueListType ==
    ASSUME NEW d \in Seq(Entries)
    PROVE  /\ ValueList(d) \in Seq(Contents) /\ Len(ValueList(d)) = Len(d)
           /\ \A i \in DOMAIN d : ValueList(d)[i] = d[i].val
<1>1. \A i \in 1..Len(d) : d[i].val \in Contents
  <2>1. \A i \in 1..Len(d) : d[i] \in Entries
    OBVIOUS
  <2>. QED
    BY <2>1 DEF Entries
<1>2. ValueList(d) = [i \in 1..Len(d) |-> d[i].val] /\ Len(d) \in Nat
  BY DEF ValueList
<1>. QED
  BY <1>1, <1>2

LEMMA EntryIsItself == \A e \in Entries : Entry(e.key, e.val) = e
  BY DEF Entries, Entry

LEMMA InitTypeInv == Init => TypeInv
<1> SUFFICES ASSUME Init
             PROVE  TypeInv
  OBVIOUS
<1>1. use \in Uses /\ use.writes \in Nat /\ use.callers \subseteq Threads
  BY LexicalAssumption DEF Init, LexicalAssumption
<1>2. SharedOK
  BY <1>1 DEF Init, SharedOK, IsDict
<1>3. (CHOOSE q \in Queries : TRUE) \in Queries
  BY LexicalAssumption DEF LexicalAssumption
<1>4. Locals /\ \A t \in Threads : ThreadOK(t)
  BY <1>3 DEF Init, Locals, ThreadOK, Pcs, Adding
<1>. QED
  BY <1>2, <1>4 DEF TypeInv

\* The steps that only move a thread on.
LEMMA GotoKeeps ==
    ASSUME TypeInv, NEW t \in Threads, NEW from, NEW to, Goto(t, from, to)
    PROVE  /\ pc[t] = from /\ pc'[t] = to /\ pc' = [pc EXCEPT ![t] = pc'[t]]
           /\ \A u \in Threads \ {t} : pc'[u] = pc[u]
  BY DEF TypeInv, Locals, Goto
LEMMA AddTypes ==
    ASSUME TypeInv, NEW t \in use.callers, UNCHANGED use,
           AddStep(t) \/ \E b \in Batches : CallAdd(t, b)
    PROVE  TypeInv'
<1> USE DEF TypeInv
<1>1. t \in Threads /\ ThreadOK(t) /\ SharedOK /\ Locals
  BY CallersAreThreads
<1>2. use.writes \in Nat
  BY LexicalAssumption DEF SharedOK, LexicalAssumption
<1>3. ASSUME NEW b \in Batches, CallAdd(t, b)
      PROVE  TypeInv'
  <2>1. b \in Seq(Entries) /\ OwnTexts(b)
    BY BatchIsOwn
  <2>2. StepOf(t)
    BY <1>1, <1>3 DEF CallAdd, Goto, shared, StepOf, Locals
  <2>3. SharedOK'
    BY <1>1, <1>2, <1>3 DEF CallAdd, shared, SharedOK
  <2>4. pc'[t] = "add" /\ todo'[t] = b /\ t \in Adders
    BY <1>1, <1>3 DEF CallAdd, Goto, Locals
  <2>5. ThreadOK(t)'
    BY <1>1, <1>3, <2>1, <2>4 DEF CallAdd, ThreadOK, Pcs, Adding, OwnTexts, TextsOf, HitOK
  <2>. QED
    BY ONLY TypeInv, <1>1, <2>2, <2>3, <2>5, LocalStep
<1>4. CASE StoreChunk(t)
  <2> DEFINE e == Head(todo[t])
  <2>1. pc[t] = "add" /\ todo[t] # <<>> /\ todo[t] \in Seq(Entries)
    BY <1>1, <1>4 DEF StoreChunk, Goto, ThreadOK
  <2>2. e \in Entries /\ Entry(e.key, e.val) = e
    BY <2>1, EntryIsItself
  <2>3. byId' = Put(byId, e.key, e.val)
    BY <1>4 DEF StoreChunk
  <2>4. byId' \in Seq(Entries) /\ IsDict(byId')
    <3> HIDE DEF e
    <3>. QED
      BY <1>1, <2>2, <2>3, PutKeepsPlaces DEF SharedOK
  <2>5. StepOf(t)
    BY <1>1, <1>4 DEF StoreChunk, Goto, StepOf, Locals
  <2>6. SharedOK'
    BY <1>1, <1>4, <2>4 DEF StoreChunk, SharedOK
  <2>7. pc'[t] = "addTokens" /\ todo'[t] = todo[t]
    BY <1>1, <1>4 DEF StoreChunk, Goto, Locals
  <2>8. ThreadOK(t)'
    BY <1>1, <1>4, <2>1, <2>7 DEF StoreChunk, ThreadOK, Pcs, Adding, OwnTexts, TextsOf, HitOK
  <2>. QED
    BY ONLY TypeInv, <1>1, <2>5, <2>6, <2>8, LocalStep
<1>5. CASE StoreTokens(t)
  <2> DEFINE e == Head(todo[t])
  <2>1. pc[t] = "addTokens" /\ todo[t] # <<>> /\ todo[t] \in Seq(Entries)
    BY <1>1, <1>5 DEF StoreTokens, SetTokens, Goto, ThreadOK
  <2>2. e \in Entries /\ Entry(e.key, e.val) = e
    BY <2>1, EntryIsItself
  <2>3. tokens' = Put(tokens, e.key, e.val)
    BY <1>5 DEF StoreTokens, SetTokens
  <2>4. tokens' \in Seq(Entries) /\ IsDict(tokens')
    <3> HIDE DEF e
    <3>. QED
      BY <1>1, <2>2, <2>3, PutKeepsPlaces DEF SharedOK
  <2>5. StepOf(t)
    BY <1>1, <1>5 DEF StoreTokens, SetTokens, Goto, StepOf, Locals
  <2>6. SharedOK'
    BY <1>1, <1>5, <2>4 DEF StoreTokens, SetTokens, SharedOK
  <2>7. pc'[t] = "add" /\ todo'[t] = Tail(todo[t])
    BY <1>1, <1>5 DEF StoreTokens, SetTokens, Goto, Locals
  <2>8. OwnTexts(todo[t]) /\ t \in Adders /\ t \in use.callers
    BY <1>1, <2>1 DEF ThreadOK, Adding
  <2>9. Tail(todo[t]) \in Seq(Entries) /\ OwnTexts(Tail(todo[t]))
    BY <2>1, <2>8, TailIsOwn
  <2>10. ThreadOK(t)'
    BY <1>1, <1>5, <2>1, <2>7, <2>8, <2>9
       DEF StoreTokens, SetTokens, ThreadOK, Pcs, Adding, OwnTexts, TextsOf, HitOK
  <2>. QED
    BY ONLY TypeInv, <1>1, <2>5, <2>6, <2>10, LocalStep
<1>6. CASE FinishAdd(t)
  <2>1. StepOf(t)
    BY <1>1, <1>6 DEF FinishAdd, Finish, Goto, StepOf, Locals
  <2>2. SharedOK'
    BY <1>1, <1>6 DEF FinishAdd, Finish, SharedOK
  <2>3. pc[t] = "add" /\ pc'[t] = "idle" /\ todo'[t] = todo[t]
    BY <1>1, <1>6 DEF FinishAdd, Finish, Goto, Locals
  <2>4. ThreadOK(t)'
    BY <1>1, <1>6, <2>3 DEF FinishAdd, Finish, ThreadOK, Pcs, Adding, HitOK
  <2>. QED
    BY ONLY TypeInv, <1>1, <2>1, <2>2, <2>4, LocalStep
<1>. QED
  BY <1>3, <1>4, <1>5, <1>6 DEF AddStep
LEMMA RemoveTypes ==
    ASSUME TypeInv, NEW t \in use.callers, UNCHANGED use,
           RemoveStep(t) \/ \E ids \in Removals : CallRemove(t, ids)
    PROVE  TypeInv'
<1> USE DEF TypeInv
<1>1. t \in Threads /\ ThreadOK(t) /\ SharedOK /\ Locals
  BY CallersAreThreads
<1>2. use.writes \in Nat
  BY LexicalAssumption DEF SharedOK, LexicalAssumption
<1>3. OneCaller' = OneCaller
  BY DEF OneCaller
<1>4. ASSUME NEW ids \in Removals, CallRemove(t, ids)
      PROVE  TypeInv'
  <2>1. ids \in Seq(RemovalIds)
    BY LexicalAssumption DEF LexicalAssumption, RemovalIds
  <2>2. StepOf(t)
    BY <1>1, <1>4 DEF CallRemove, Goto, shared, StepOf, Locals
  <2>3. SharedOK'
    BY <1>1, <1>2, <1>4 DEF CallRemove, shared, SharedOK
  <2>4. pc'[t] = "remove" /\ todo'[t] = ids /\ removed'[t] = FALSE /\ OneCaller
    BY <1>1, <1>4 DEF CallRemove, Goto, Locals
  <2>5. ThreadOK(t)'
    BY <1>1, <1>3, <1>4, <2>1, <2>4 DEF CallRemove, ThreadOK, Pcs, Adding, HitOK
  <2>. QED
    BY ONLY TypeInv, <1>1, <2>2, <2>3, <2>5, LocalStep
<1>5. CASE RemoveOne(t)
  <2> DEFINE k == Head(todo[t])
  <2>1. pc[t] = "remove" /\ todo[t] # <<>> /\ todo[t] \in Seq(RemovalIds)
    BY <1>1, <1>5 DEF RemoveOne, ThreadOK
  <2>2. Tail(todo[t]) \in Seq(RemovalIds)
    BY <2>1
  <2>3. byId' \in Seq(Entries) /\ IsDict(byId')
    <3>1. byId' = byId \/ (Has(byId, k) /\ byId' = Delete(byId, k))
      BY <1>5 DEF RemoveOne
    <3> HIDE DEF k
    <3>. QED
      BY <1>1, <3>1, DeleteCloses DEF SharedOK
  <2>4. tokens' \in Seq(Entries) /\ IsDict(tokens')
    <3>1. tokens' = tokens \/ tokens' = Delete(tokens, k)
      BY <1>5 DEF RemoveOne
    <3>2. ~Has(tokens, k) => Delete(tokens, k) = tokens
      BY DEF Delete
    <3> HIDE DEF k
    <3>. QED
      BY <1>1, <3>1, <3>2, DeleteCloses DEF SharedOK
  <2>5. removed' = [removed EXCEPT ![t] = removed'[t]] /\ removed'[t] \in BOOLEAN
    <3>1. removed' \in {removed, [removed EXCEPT ![t] = TRUE]}
      BY <1>5 DEF RemoveOne
    <3>. QED
      BY <1>1, <3>1 DEF Locals, ThreadOK
  <2>6. StepOf(t)
    BY <1>1, <1>5, <2>5 DEF RemoveOne, StepOf, Locals
  <2>7. SharedOK'
    BY <1>1, <1>5, <2>3, <2>4 DEF RemoveOne, SharedOK
  <2>8. pc'[t] = "remove" /\ todo'[t] = Tail(todo[t]) /\ OneCaller
    BY <1>1, <1>5, <2>1 DEF RemoveOne, Locals, ThreadOK
  <2>9. ThreadOK(t)'
    BY <1>1, <1>3, <1>5, <2>2, <2>5, <2>8 DEF RemoveOne, ThreadOK, Pcs, Adding, HitOK
  <2>. QED
    BY ONLY TypeInv, <1>1, <2>6, <2>7, <2>9, LocalStep
<1>6. CASE FinishRemove(t)
  <2>1. StepOf(t)
    BY <1>1, <1>6 DEF FinishRemove, Finish, Goto, StepOf, Locals
  <2>2. SharedOK'
    <3>1. dirty' = (dirty \/ removed[t]) /\ dirty \in BOOLEAN /\ removed[t] \in BOOLEAN
      BY <1>1, <1>6 DEF FinishRemove, Finish, SharedOK, ThreadOK
    <3>2. dirty' \in BOOLEAN
      BY <3>1
    <3>. QED
      BY <1>1, <1>6, <3>2 DEF FinishRemove, Finish, SharedOK
  <2>3. pc'[t] = "idle" /\ todo'[t] = <<>>
    BY <1>1, <1>6 DEF FinishRemove, Finish, Goto, Locals
  <2>4. ThreadOK(t)'
    BY <1>1, <1>6, <2>3 DEF FinishRemove, Finish, ThreadOK, Pcs, Adding, HitOK
  <2>. QED
    BY ONLY TypeInv, <1>1, <2>1, <2>2, <2>4, LocalStep
<1>. QED
  BY <1>4, <1>5, <1>6 DEF RemoveStep

\* A rank is a number, so that a position that is kept has a rank below top_k.
LEMMA KeptRanks ==
    ASSUME NEW c \in Seq(Contents), NEW q
    PROVE  LET score == Scores(q, c)
           IN  /\ Kept(score) \subseteq DOMAIN c
               /\ \A i \in Kept(score) : Rank(score, i) \in 0..TopK-1
<1> DEFINE score == Scores(q, c)
<1>1. DOMAIN score = DOMAIN c /\ DOMAIN c = 1..Len(c) /\ Len(c) \in Nat
  BY DEF Scores
<1>2. IsFiniteSet(DOMAIN score)
  BY <1>1, FS_Interval
<1>3. Kept(score) \subseteq {i \in DOMAIN score : Rank(score, i) < TopK}
  BY DEF Kept, Best
<1>4. ASSUME NEW i \in Kept(score)
      PROVE  Rank(score, i) \in 0..TopK-1
  <2>1. Before(score, i) \subseteq DOMAIN score
    BY DEF Before
  <2>2. Rank(score, i) \in Nat
    BY <1>2, <2>1, FS_Subset, FS_CardinalityType DEF Rank
  <2>3. Rank(score, i) < TopK /\ TopK \in Nat
    BY <1>3, LexicalAssumption DEF LexicalAssumption
  <2>. QED
    BY <2>2, <2>3
<1>. QED
  BY <1>1, <1>3, <1>4
LEMMA SearchTypes ==
    ASSUME TypeInv, NEW t \in use.callers, UNCHANGED use,
           SearchStep(t) \/ \E q \in Queries : CallSearch(t, q)
    PROVE  TypeInv'
<1> USE DEF TypeInv
<1>1. t \in Threads /\ ThreadOK(t) /\ SharedOK /\ Locals
  BY CallersAreThreads
<1>2. ASSUME NEW q \in Queries, CallSearch(t, q)
      PROVE  TypeInv'
  <2>1. StepOf(t)
    BY <1>1, <1>2 DEF CallSearch, Goto, shared, StepOf, Locals
  <2>2. SharedOK'
    BY <1>1, <1>2 DEF CallSearch, shared, SharedOK
  <2>3. /\ pc[t] = "idle" /\ pc'[t] = "check" /\ query'[t] = q /\ found'[t] = {}
        /\ todo' = todo /\ removed' = removed /\ corpus' = corpus
    BY <1>1, <1>2 DEF CallSearch, Goto, Locals
  <2>4. ThreadOK(t)'
    BY <1>1, <2>3 DEF ThreadOK, Pcs, Adding
  <2>. QED
    BY ONLY TypeInv, <1>1, <2>1, <2>2, <2>4, LocalStep
<1>3. CASE CheckDirty(t) \/ CheckBuilt(t) \/ ClearDirty(t)
  <2>1. StepOf(t)
    BY <1>1, <1>3 DEF CheckDirty, CheckBuilt, ClearDirty, Goto, shared, StepOf, Locals
  <2>2. SharedOK'
    BY <1>1, <1>3 DEF CheckDirty, CheckBuilt, ClearDirty, shared, SharedOK
  <2>3. /\ pc[t] \in {"check", "guard", "clean"}
        /\ pc'[t] \in {"idle", "snapshot", "guard", "score"}
        /\ UNCHANGED <<todo, removed, query, corpus, found>>
    BY <1>1, <1>3 DEF CheckDirty, CheckBuilt, ClearDirty, Goto, Locals
  <2>4. ThreadOK(t)'
    BY <1>1, <2>3 DEF ThreadOK, Pcs, Adding, HitOK
  <2>. QED
    BY ONLY TypeInv, <1>1, <2>1, <2>2, <2>4, LocalStep
<1>4. CASE Snapshot(t)
  <2>1. StepOf(t)
    BY <1>1, <1>4 DEF Snapshot, Goto, shared, StepOf, Locals
  <2>2. SharedOK'
    BY <1>1, <1>4 DEF Snapshot, shared, SharedOK
  <2>3. /\ pc[t] = "snapshot" /\ pc'[t] = "build" /\ corpus'[t] = ValueList(tokens)
        /\ UNCHANGED <<todo, removed, query, found>>
    BY <1>1, <1>4 DEF Snapshot, Goto, Locals
  <2>4. ValueList(tokens) \in Seq(Contents)
    BY <1>1, ValueListType DEF SharedOK
  <2>5. ThreadOK(t)'
    BY <1>1, <2>3, <2>4 DEF ThreadOK, Pcs, Adding, HitOK
  <2>. QED
    BY ONLY TypeInv, <1>1, <2>1, <2>2, <2>5, LocalStep
<1>5. CASE Build(t)
  <2>1. StepOf(t)
    BY <1>1, <1>5 DEF Build, Goto, StepOf, Locals
  <2>2. SharedOK'
    BY <1>1, <1>5 DEF Build, SharedOK, ThreadOK
  <2>3. /\ pc[t] = "build" /\ pc'[t] = "clean" /\ corpus'[t] = <<>>
        /\ UNCHANGED <<todo, removed, query, found>>
    BY <1>1, <1>5 DEF Build, Goto, Locals
  <2>4. ThreadOK(t)'
    BY <1>1, <2>3 DEF ThreadOK, Pcs, Adding, HitOK
  <2>. QED
    BY ONLY TypeInv, <1>1, <2>1, <2>2, <2>4, LocalStep
<1>6. CASE GetScores(t)
  <2>1. StepOf(t)
    BY <1>1, <1>6 DEF GetScores, Goto, shared, StepOf, Locals
  <2>2. SharedOK'
    BY <1>1, <1>6 DEF GetScores, shared, SharedOK
  <2>3. /\ pc[t] = "score" /\ pc'[t] \in {"idle", "match"} /\ corpus'[t] = bm25
        /\ UNCHANGED <<todo, removed, query, found>>
    BY <1>1, <1>6 DEF GetScores, Goto, Locals
  <2>4. ThreadOK(t)'
    BY <1>1, <2>3 DEF ThreadOK, Pcs, Adding, HitOK, SharedOK
  <2>. QED
    BY ONLY TypeInv, <1>1, <2>1, <2>2, <2>4, LocalStep
<1>7. CASE MatchIds(t)
  <2> DEFINE score == Scores(query[t], corpus[t])
             hits == {Hit(Rank(score, i), byId[Place(score, i)].key,
                          byId[Place(score, i)].val, corpus[t][i]) : i \in Kept(score)}
  <2>1. /\ pc[t] = "match" /\ pc'[t] = "idle" /\ corpus'[t] = <<>>
        /\ UNCHANGED <<shared, todo, removed, query, writes>>
    BY <1>1, <1>7 DEF MatchIds, Goto, Locals
  <2>2. /\ raised' \subseteq raised \cup {"IndexError"}
        /\ \/ found' = found
           \/ /\ {Place(score, i) : i \in Kept(score)} \subseteq DOMAIN byId
              /\ found' = [found EXCEPT ![t] = hits]
    BY <1>7 DEF MatchIds
  <2>3. found' = [found EXCEPT ![t] = found'[t]]
    BY <1>1, <2>2 DEF Locals
  <2>4. StepOf(t)
    BY <1>1, <1>7, <2>3 DEF MatchIds, Goto, shared, StepOf, Locals
  <2>5. SharedOK'
    BY <1>1, <2>1, <2>2 DEF shared, SharedOK
  <2>6. ASSUME NEW h \in found'[t]
        PROVE  HitOK(h)
    <3>1. CASE found' = found
      BY <1>1, <3>1 DEF ThreadOK
    <3>2. CASE /\ {Place(score, i) : i \in Kept(score)} \subseteq DOMAIN byId
               /\ found' = [found EXCEPT ![t] = hits]
      <4>1. h \in hits
        BY <1>1, <3>2 DEF Locals
      <4>2. PICK i \in Kept(score) :
               h = Hit(Rank(score, i), byId[i].key, byId[i].val, corpus[t][i])
        BY <4>1 DEF Place
      <4>3. corpus[t] \in Seq(Contents) /\ byId \in Seq(Entries)
        BY <1>1 DEF ThreadOK, SharedOK
      <4>4. Rank(score, i) \in 0..TopK-1 /\ i \in DOMAIN corpus[t]
        BY <4>3, KeptRanks
      <4>5. i \in DOMAIN byId
        BY <3>2 DEF Place
      <4>6. byId[i] \in Entries /\ corpus[t][i] \in Contents
        BY <4>3, <4>4, <4>5
      <4>. QED
        BY <4>2, <4>4, <4>6 DEF HitOK, Hit, Entries
    <3>. QED
      BY <2>2, <3>1, <3>2
  <2>7. ThreadOK(t)'
    BY <1>1, <2>1, <2>6 DEF ThreadOK, Pcs, Adding, HitOK
  <2>. QED
    BY ONLY TypeInv, <1>1, <2>4, <2>5, <2>7, LocalStep
<1>. QED
  BY <1>2, <1>3, <1>4, <1>5, <1>6, <1>7 DEF SearchStep

LEMMA NextTypeInv == TypeInv /\ [Next]_vars => TypeInv'
<1> SUFFICES ASSUME TypeInv, [Next]_vars
             PROVE  TypeInv'
  OBVIOUS
<1>1. CASE UNCHANGED vars
  BY <1>1 DEF vars, TypeInv, SharedOK, Locals, ThreadOK, Adding, OwnTexts, TextsOf, HitOK,
              OneCaller
<1>2. CASE Next
  <2>1. UNCHANGED use
    BY <1>2 DEF Next
  <2>2. PICK t \in use.callers :
           \/ AddStep(t) \/ \E b \in Batches : CallAdd(t, b)
           \/ RemoveStep(t) \/ \E ids \in Removals : CallRemove(t, ids)
           \/ SearchStep(t) \/ \E q \in Queries : CallSearch(t, q)
    BY <1>2 DEF Next
  <2>. QED
    BY <2>1, <2>2, AddTypes, RemoveTypes, SearchTypes
<1>. QED
  BY <1>1, <1>2

\* Every variable keeps the shape the class gives it, whatever threads add, remove and
\* search at the same time, two writers included.  (vector_store.py:86-169)
THEOREM LexicalTypeCorrect == Spec => []TypeOK
<1>1. Spec => []TypeInv
  BY InitTypeInv, NextTypeInv, PTL DEF Spec
<1>. QED
  BY <1>1, TypeInvTypes, PTL
-----------------------------------------------------------------------------
(* The two dicts.                                                          *)

\* _by_id[k] = ... puts _tokens at most one chunk behind, _tokens[k] = ... catches up.
LEMMA PutThenBehind ==
    ASSUME NEW a \in Seq(Entries), NEW b \in Seq(Entries), IsDict(b), KeysAgree(a, b),
           NEW e \in Entries
    PROVE  LET n == Put(b, e.key, e.val)
           IN  \/ KeysAgree(a, n) /\ Has(a, e.key)
               \/ OneBehind(a, n, e.key)
<1> DEFINE n == Put(b, e.key, e.val)
<1>1. /\ n \in Seq(Entries)
      /\ Len(n) = IF Has(b, e.key) THEN Len(b) ELSE Len(b) + 1
      /\ \A i \in DOMAIN b : i \in DOMAIN n /\ n[i].key = b[i].key
      /\ ~Has(b, e.key) => n[Len(b) + 1] = e
  BY EntryIsItself, PutKeepsPlaces
<1>2. /\ Len(a) \in Nat /\ Len(b) = Len(a)
      /\ DOMAIN a = 1..Len(a) /\ DOMAIN b = 1..Len(a)
      /\ \A i \in 1..Len(a) : a[i].key = b[i].key
  BY DEF KeysAgree
<1> HIDE DEF n
<1>3. CASE Has(b, e.key)
  <2>1. Has(a, e.key)
    BY <1>2, <1>3 DEF Has
  <2>2. KeysAgree(a, n)
    BY <1>1, <1>2, <1>3 DEF KeysAgree
  <2>. QED
    BY <2>1, <2>2 DEF n
<1>4. CASE ~Has(b, e.key)
  <2>1. OneBehind(a, n, e.key)
    BY <1>1, <1>2, <1>4 DEF OneBehind
  <2>. QED
    BY <2>1 DEF n
<1>. QED
  BY <1>3, <1>4

LEMMA PutThenAgree ==
    ASSUME NEW a \in Seq(Entries), NEW b \in Seq(Entries), IsDict(a), IsDict(b),
           NEW e \in Entries,
           (KeysAgree(a, b) /\ Has(a, e.key)) \/ OneBehind(a, b, e.key)
    PROVE  KeysAgree(Put(a, e.key, e.val), b)
<1> DEFINE n == Put(a, e.key, e.val)
<1>1. /\ n \in Seq(Entries)
      /\ Len(n) = IF Has(a, e.key) THEN Len(a) ELSE Len(a) + 1
      /\ \A i \in DOMAIN a : i \in DOMAIN n /\ n[i].key = a[i].key
      /\ ~Has(a, e.key) => n[Len(a) + 1] = e
  BY EntryIsItself, PutKeepsPlaces
<1>2. /\ Len(a) \in Nat /\ DOMAIN a = 1..Len(a) /\ DOMAIN n = 1..Len(n)
      /\ Len(b) \in Nat /\ DOMAIN b = 1..Len(b)
  BY <1>1
<1> HIDE DEF n
<1>3. CASE KeysAgree(a, b) /\ Has(a, e.key)
  <2>1. KeysAgree(n, b)
    BY <1>1, <1>2, <1>3 DEF KeysAgree
  <2>. QED
    BY <2>1 DEF n
<1>4. CASE OneBehind(a, b, e.key)
  <2>1. Len(b) = Len(a) + 1 /\ b[Len(a) + 1].key = e.key
    BY <1>4 DEF OneBehind
  <2>2. ~Has(a, e.key)
    <3>1. SUFFICES ASSUME NEW i \in DOMAIN a, a[i].key = e.key
                   PROVE  FALSE
      BY DEF Has
    <3>2. b[i].key = e.key /\ i \in DOMAIN b /\ Len(a) + 1 \in DOMAIN b
      BY <1>2, <1>4, <2>1, <3>1 DEF OneBehind
    <3>3. i = Len(a) + 1
      BY <2>1, <3>2 DEF IsDict
    <3>. QED
      BY <1>2, <3>1, <3>3
  <2>3. Len(n) = Len(b) /\ n[Len(a) + 1].key = b[Len(a) + 1].key
    BY <1>1, <2>1, <2>2
  <2>4. \A i \in DOMAIN n : i \in DOMAIN a \/ i = Len(a) + 1
    BY <1>1, <1>2, <2>2
  <2>5. KeysAgree(n, b)
    BY <1>1, <1>4, <2>3, <2>4 DEF KeysAgree, OneBehind
  <2>. QED
    BY <2>5 DEF n
<1>. QED
  BY <1>3, <1>4

LEMMA PutKeepsTexts ==
    ASSUME NEW d \in Seq(Entries), IsDict(d), OwnTexts(d),
           NEW e \in Entries, e.val \in TextsOf(e.key)
    PROVE  OwnTexts(Put(d, e.key, e.val))
<1> DEFINE n == Put(d, e.key, e.val)
<1>0. Entry(e.key, e.val) = e
  BY EntryIsItself
<1>1. /\ n \in Seq(Entries) /\ IsDict(n)
      /\ Len(n) = IF Has(d, e.key) THEN Len(d) ELSE Len(d) + 1
      /\ \A i \in DOMAIN d : i \in DOMAIN n /\ n[i].key = d[i].key
      /\ ~Has(d, e.key) => n[Len(d) + 1] = e
      /\ \A i \in DOMAIN n : n[i] = e \/ (i \in DOMAIN d /\ n[i] = d[i])
  BY ONLY <1>0, d \in Seq(Entries), IsDict(d), e \in Entries, PutKeepsPlaces
<1>2. \A i \in DOMAIN d : d[i].val \in TextsOf(d[i].key)
  BY DEF OwnTexts
<1> HIDE DEF n
<1>3. ASSUME NEW i \in DOMAIN n
      PROVE  n[i].val \in TextsOf(n[i].key)
  BY ONLY <1>1, <1>2, e.val \in TextsOf(e.key), i \in DOMAIN n
<1>4. OwnTexts(n)
  BY <1>3 DEF OwnTexts
<1>. QED
  BY <1>4 DEF n

LEMMA DeleteKeepsTexts ==
    ASSUME NEW d \in Seq(Entries), IsDict(d), OwnTexts(d), NEW k, Has(d, k)
    PROVE  OwnTexts(Delete(d, k))
<1>1. /\ Delete(d, k) \in Seq(Entries) /\ Len(Delete(d, k)) = Len(d) - 1
      /\ \A i \in 1..(Len(d) - 1) :
            /\ i \in DOMAIN d /\ i + 1 \in DOMAIN d
            /\ Delete(d, k)[i] = IF i < PlaceOf(d, k) THEN d[i] ELSE d[i + 1]
  BY DeleteCloses
<1>2. DOMAIN Delete(d, k) = 1..(Len(d) - 1)
  BY <1>1
<1>. QED
  BY <1>1, <1>2 DEF OwnTexts

\* One thread at a time is inside add(), and the only caller is alone.
LEMMA WriterIsAlone ==
    ASSUME TypeInv, OneWriter, NEW t \in Threads, NEW u \in Threads, Adding(t), Adding(u)
    PROVE  t = u
<1>1. /\ use \in Uses /\ t \in use.callers \cap Adders /\ u \in use.callers \cap Adders
  BY DEF TypeInv, SharedOK, ThreadOK, Adding
<1>. QED
  BY <1>1 DEF OneWriter

LEMMA CallerIsAlone ==
    ASSUME TypeInv, OneCaller, NEW t \in use.callers
    PROVE  use.callers = {t} /\ \A u \in Threads \ {t} : pc[u] = "idle"
  BY DEF OneCaller, TypeInv, ThreadOK

LEMMA DictFrame ==
    ASSUME TypeInv, DictInv, NEW t \in Threads, StepOf(t), UNCHANGED <<byId, tokens>>,
           pc[t] # "addTokens", pc'[t] # "addTokens"
    PROVE  DictInv'
<1>1. \A u \in Threads : pc'[u] = "addTokens" <=> pc[u] = "addTokens"
  BY OthersStay
<1>2. \A u \in Threads : pc[u] = "addTokens" => todo'[u] = todo[u]
  BY OthersStay
<1>3. OwnTexts(tokens)'
  BY DEF DictInv, OwnTexts, TextsOf
<1>4. ASSUME NEW u \in Threads, pc'[u] = "addTokens"
      PROVE  LET k == Head(todo'[u]).key
             IN  \/ KeysAgree(tokens', byId') /\ Has(tokens', k)
                 \/ OneBehind(tokens', byId', k)
  <2>1. pc[u] = "addTokens" /\ todo'[u] = todo[u]
    BY <1>1, <1>2, <1>4
  <2>. QED
    BY <2>1 DEF DictInv
<1>5. (\A u \in Threads : pc'[u] # "addTokens") => KeysAgree(tokens', byId')
  BY <1>1 DEF DictInv
<1>. QED
  BY <1>3, <1>4, <1>5 DEF DictInv
\* Which step it is, once and for all: one that touches a dict, or one that does not.
LEMMA StepCases ==
    ASSUME TypeInv, Next
    PROVE  \E t \in use.callers :
              /\ StepOf(t) /\ UNCHANGED use
              /\ \/ StoreChunk(t) \/ StoreTokens(t) \/ RemoveOne(t)
                 \/ /\ UNCHANGED <<byId, tokens>>
                    /\ pc[t] # "addTokens" /\ pc'[t] # "addTokens"
<1> USE DEF TypeInv
<1>1. UNCHANGED use
  BY DEF Next
<1>2. PICK t \in use.callers :
           \/ AddStep(t) \/ \E b \in Batches : CallAdd(t, b)
           \/ RemoveStep(t) \/ \E ids \in Removals : CallRemove(t, ids)
           \/ SearchStep(t) \/ \E q \in Queries : CallSearch(t, q)
  BY DEF Next
<1>3. t \in Threads /\ Locals
  BY CallersAreThreads
<1>4. CASE StoreChunk(t) \/ StoreTokens(t)
  BY <1>1, <1>3, <1>4 DEF StoreChunk, StoreTokens, SetTokens, Goto, StepOf, Locals
<1>5. CASE RemoveOne(t)
  <2>1. removed' \in {removed, [removed EXCEPT ![t] = TRUE]}
    BY <1>5 DEF RemoveOne
  <2>. QED
    BY <1>1, <1>3, <1>5, <2>1 DEF RemoveOne, StepOf, Locals
<1>6. CASE FinishAdd(t) \/ FinishRemove(t) \/ \E b \in Batches : CallAdd(t, b)
  BY <1>1, <1>3, <1>6 DEF FinishAdd, FinishRemove, Finish, CallAdd, shared, Goto, StepOf, Locals
<1>7. CASE (\E ids \in Removals : CallRemove(t, ids)) \/ \E q \in Queries : CallSearch(t, q)
  BY <1>1, <1>3, <1>7 DEF CallRemove, CallSearch, shared, Goto, StepOf, Locals
<1>8. CASE CheckDirty(t) \/ Snapshot(t) \/ Build(t) \/ ClearDirty(t) \/ CheckBuilt(t)
  BY <1>1, <1>3, <1>8 DEF CheckDirty, Snapshot, Build, ClearDirty, CheckBuilt, shared, Goto,
                          StepOf, Locals
<1>9. CASE GetScores(t) \/ MatchIds(t)
  <2>1. found' = [found EXCEPT ![t] = found'[t]]
    BY <1>3, <1>9 DEF GetScores, MatchIds, Locals
  <2>. QED
    BY <1>1, <1>3, <1>9, <2>1 DEF GetScores, MatchIds, shared, Goto, StepOf, Locals
<1>. QED
  BY <1>2, <1>4, <1>5, <1>6, <1>7, <1>8, <1>9 DEF AddStep, RemoveStep, SearchStep

LEMMA NextDictInv == OneWriter /\ TypeInv /\ DictInv /\ [Next]_vars => DictInv'
<1> SUFFICES ASSUME OneWriter, TypeInv, DictInv, [Next]_vars
             PROVE  DictInv'
  OBVIOUS
<1>1. CASE UNCHANGED vars
  BY <1>1 DEF vars, DictInv, OwnTexts, TextsOf
<1>2. CASE Next
  <2>1. PICK t \in use.callers :
           /\ StepOf(t) /\ UNCHANGED use
           /\ \/ StoreChunk(t) \/ StoreTokens(t) \/ RemoveOne(t)
              \/ /\ UNCHANGED <<byId, tokens>>
                 /\ pc[t] # "addTokens" /\ pc'[t] # "addTokens"
    BY <1>2, StepCases
  <2>2. t \in Threads /\ ThreadOK(t) /\ Locals
    BY CallersAreThreads DEF TypeInv
  <2>3. /\ byId \in Seq(Entries) /\ IsDict(byId)
        /\ tokens \in Seq(Entries) /\ IsDict(tokens) /\ OwnTexts(tokens)
    BY DEF TypeInv, SharedOK, DictInv
  <2> DEFINE e == Head(todo[t])
  <2>4. \A u \in Threads \ {t} : pc'[u] = pc[u] /\ todo'[u] = todo[u]
    BY <2>1, <2>2, OthersStay
  <2>5. CASE StoreChunk(t)
    <3>1. /\ pc[t] = "add" /\ todo[t] # <<>> /\ todo[t] \in Seq(Entries)
          /\ pc'[t] = "addTokens" /\ todo'[t] = todo[t]
          /\ byId' = Put(byId, e.key, e.val) /\ tokens' = tokens
      BY <2>2, <2>5 DEF StoreChunk, Goto, ThreadOK, Locals
    <3>2. \A u \in Threads : pc[u] # "addTokens"
      BY <2>2, <3>1, WriterIsAlone DEF Adding
    <3>3. KeysAgree(tokens, byId)
      BY <3>2 DEF DictInv
    <3>4. e \in Entries
      BY <3>1
    <3>5. \/ KeysAgree(tokens, byId') /\ Has(tokens, e.key)
          \/ OneBehind(tokens, byId', e.key)
      <4> HIDE DEF e
      <4>. QED
        BY <2>3, <3>1, <3>3, <3>4, PutThenBehind
    <3>6. \A u \in Threads : pc'[u] = "addTokens" => u = t
      BY <2>4, <3>2
    <3>7. OwnTexts(tokens)'
      BY <2>3, <3>1 DEF OwnTexts, TextsOf
    <3>. QED
      BY <2>2, <3>1, <3>5, <3>6, <3>7 DEF DictInv
  <2>6. CASE StoreTokens(t)
    <3>1. /\ pc[t] = "addTokens" /\ todo[t] # <<>> /\ todo[t] \in Seq(Entries)
          /\ OwnTexts(todo[t])
          /\ pc'[t] = "add" /\ tokens' = Put(tokens, e.key, e.val) /\ byId' = byId
      BY <2>2, <2>6 DEF StoreTokens, SetTokens, Goto, ThreadOK, Locals, Adding
    <3>2. \A u \in Threads : pc[u] = "addTokens" => u = t
      BY <2>2, <3>1, WriterIsAlone DEF Adding
    <3>3. e \in Entries /\ e.val \in TextsOf(e.key)
      BY <3>1, TailIsOwn
    <3>4. (KeysAgree(tokens, byId) /\ Has(tokens, e.key)) \/ OneBehind(tokens, byId, e.key)
      BY <2>2, <3>1 DEF DictInv
    <3>5. KeysAgree(tokens', byId') /\ OwnTexts(tokens')
      <4> HIDE DEF e
      <4>. QED
        BY <2>3, <3>1, <3>3, <3>4, PutThenAgree, PutKeepsTexts
    <3>6. \A u \in Threads : pc'[u] # "addTokens"
      BY <2>4, <3>1, <3>2
    <3>7. OwnTexts(tokens)'
      BY <3>5 DEF OwnTexts, TextsOf
    <3>. QED
      BY <3>5, <3>6, <3>7 DEF DictInv
  <2>7. CASE RemoveOne(t)
    <3>1. pc[t] = "remove" /\ pc'[t] = "remove" /\ OneCaller
      BY <2>2, <2>7 DEF RemoveOne, ThreadOK, Locals
    <3>2. \A u \in Threads : pc[u] # "addTokens" /\ pc'[u] # "addTokens"
      BY <2>4, <3>1, CallerIsAlone
    <3>3. KeysAgree(tokens, byId)
      BY <3>2 DEF DictInv
    <3>4. CASE ~Has(byId, e)
      <4>1. byId' = byId /\ tokens' = tokens
        BY <2>7, <3>4 DEF RemoveOne
      <4>. QED
        BY <2>1, <2>2, <3>2, <4>1, DictFrame
    <3>5. CASE Has(byId, e)
      <4>1. byId' = Delete(byId, e) /\ tokens' = Delete(tokens, e)
        BY <2>7, <3>5 DEF RemoveOne
      <4>2. Has(tokens, e) /\ KeysAgree(tokens', byId')
        BY <2>3, <3>3, <3>5, <4>1, DeleteKeepsAgreement
      <4>3. OwnTexts(tokens')
        BY <2>3, <4>1, <4>2, DeleteKeepsTexts
      <4>4. OwnTexts(tokens)'
        BY <4>3 DEF OwnTexts, TextsOf
      <4>. QED
        BY <3>2, <4>2, <4>4 DEF DictInv
    <3>. QED
      BY <3>4, <3>5
  <2>8. CASE UNCHANGED <<byId, tokens>> /\ pc[t] # "addTokens" /\ pc'[t] # "addTokens"
    BY <2>1, <2>2, <2>8, DictFrame
  <2>. QED
    BY <2>1, <2>5, <2>6, <2>7, <2>8
<1>. QED
  BY <1>1, <1>2
-----------------------------------------------------------------------------
(* The documents of a search.                                              *)

\* FollowsIds, of any dict.
Follows(docs, d) == /\ Len(docs) <= Len(d)
                    /\ \A i \in DOMAIN docs : docs[i] \in TextsOf(d[i].key)

\* A list made from _tokens follows the ids.
LEMMA TokensFollow ==
    ASSUME TypeInv, DictInv
    PROVE  Follows(ValueList(tokens), byId)
<1>1. tokens \in Seq(Entries) /\ byId \in Seq(Entries) /\ OwnTexts(tokens)
  BY DEF TypeInv, SharedOK, DictInv
<1>2. Len(tokens) <= Len(byId) /\ \A i \in DOMAIN tokens : tokens[i].key = byId[i].key
  <2>1. Len(tokens) \in Nat /\ Len(byId) \in Nat
    BY <1>1
  <2>2. CASE \E t \in Threads : pc[t] = "addTokens"
    BY <2>1, <2>2 DEF DictInv, KeysAgree, OneBehind
  <2>3. CASE \A t \in Threads : pc[t] # "addTokens"
    BY <2>1, <2>3 DEF DictInv, KeysAgree
  <2>. QED
    BY <2>2, <2>3
<1>3. /\ Len(ValueList(tokens)) = Len(tokens)
      /\ \A i \in DOMAIN tokens : ValueList(tokens)[i] = tokens[i].val
      /\ DOMAIN ValueList(tokens) = DOMAIN tokens
  BY <1>1, ValueListType DEF ValueList
<1>. QED
  BY <1>1, <1>2, <1>3 DEF Follows, OwnTexts

\* A list follows the ids also when chunks have been added since.
LEMMA StillFollows ==
    ASSUME NEW d \in Seq(Entries), IsDict(d), NEW e \in Entries,
           NEW docs \in Seq(Contents), Follows(docs, d)
    PROVE  Follows(docs, Put(d, e.key, e.val))
<1> DEFINE n == Put(d, e.key, e.val)
<1>1. Entry(e.key, e.val) = e
  BY EntryIsItself
<1>2. /\ n \in Seq(Entries) /\ IsDict(n)
      /\ Len(n) = IF Has(d, e.key) THEN Len(d) ELSE Len(d) + 1
      /\ \A i \in DOMAIN d : i \in DOMAIN n /\ n[i].key = d[i].key
      /\ ~Has(d, e.key) => n[Len(d) + 1] = e
      /\ \A i \in DOMAIN n : n[i] = e \/ (i \in DOMAIN d /\ n[i] = d[i])
  BY ONLY <1>1, d \in Seq(Entries), IsDict(d), e \in Entries, PutKeepsPlaces
<1> HIDE DEF n
<1>3. /\ Len(docs) \in Nat /\ DOMAIN docs = 1..Len(docs)
      /\ Len(d) \in Nat /\ DOMAIN d = 1..Len(d) /\ Len(docs) <= Len(d)
      /\ \A i \in DOMAIN docs : docs[i] \in TextsOf(d[i].key)
  BY DEF Follows
<1>4. \A i \in DOMAIN docs : i \in DOMAIN d
  BY <1>3
<1>5. Follows(docs, n)
  BY <1>2, <1>3, <1>4 DEF Follows
<1>. QED
  BY <1>5 DEF n

LEMMA NextOldInv == TypeInv /\ DictInv /\ OldInv /\ [Next]_vars => OldInv'
<1> SUFFICES ASSUME TypeInv, DictInv, OldInv, [Next]_vars
             PROVE  OldInv'
  OBVIOUS
<1>1. CASE UNCHANGED vars
  BY <1>1 DEF vars, OldInv, OneCaller, FollowsIds, TextsOf
<1>2. CASE Next
  <2>1. UNCHANGED use
    BY <1>2 DEF Next
  <2>2. PICK t \in use.callers :
           \/ AddStep(t) \/ \E b \in Batches : CallAdd(t, b)
           \/ RemoveStep(t) \/ \E ids \in Removals : CallRemove(t, ids)
           \/ SearchStep(t) \/ \E q \in Queries : CallSearch(t, q)
    BY <1>2 DEF Next
  <2>3. t \in Threads /\ ThreadOK(t) /\ Locals /\ SharedOK
    BY CallersAreThreads DEF TypeInv
  <2>4. SUFFICES ASSUME ~OneCaller
                 PROVE  Follows(bm25', byId') /\ \A u \in Threads : Follows(corpus'[u], byId')
    BY <2>1 DEF OldInv, OneCaller, FollowsIds, Follows, TextsOf
  <2>5. Follows(bm25, byId) /\ \A u \in Threads : Follows(corpus[u], byId)
    BY <2>4 DEF OldInv, FollowsIds, Follows
  <2>6. \A u \in Threads : corpus[u] \in Seq(Contents)
    BY DEF TypeInv, ThreadOK
  <2>7. Follows(<<>>, byId)
    BY <2>3 DEF Follows, SharedOK
  <2>8. CASE StoreChunk(t)
    <3> DEFINE e == Head(todo[t])
    <3>1. e \in Entries
      BY <2>3, <2>8 DEF StoreChunk, Goto, ThreadOK
    <3>2. byId' = Put(byId, e.key, e.val) /\ bm25' = bm25 /\ corpus' = corpus
      BY <2>8 DEF StoreChunk
    <3> HIDE DEF e
    <3>3. byId \in Seq(Entries) /\ IsDict(byId) /\ bm25 \in Seq(Contents)
      BY <2>3 DEF SharedOK
    <3>. QED
      BY <2>5, <2>6, <3>1, <3>2, <3>3, StillFollows
  <2>9. CASE RemoveStep(t) \/ \E ids \in Removals : CallRemove(t, ids)
    BY <2>3, <2>4, <2>9
       DEF RemoveStep, RemoveOne, FinishRemove, Finish, CallRemove, Goto, ThreadOK
  <2>10. CASE \/ StoreTokens(t) \/ FinishAdd(t) \/ CheckDirty(t) \/ ClearDirty(t)
              \/ CheckBuilt(t) \/ \E b \in Batches : CallAdd(t, b)
              \/ \E q \in Queries : CallSearch(t, q)
    BY <2>5, <2>10 DEF StoreTokens, SetTokens, FinishAdd, Finish, CheckDirty, ClearDirty,
                       CheckBuilt, CallAdd, CallSearch, shared
  <2>11. CASE Snapshot(t)
    <3>1. /\ byId' = byId /\ bm25' = bm25
          /\ corpus' = [corpus EXCEPT ![t] = ValueList(tokens)]
      BY <2>11 DEF Snapshot, shared
    <3>2. \A u \in Threads : corpus'[u] \in {corpus[u], ValueList(tokens)}
      BY <2>3, <3>1 DEF Locals
    <3>. QED
      BY <2>5, <3>1, <3>2, TokensFollow
  <2>12. CASE Build(t) \/ MatchIds(t)
    <3>1. /\ byId' = byId /\ bm25' \in {bm25, corpus[t]}
          /\ corpus' = [corpus EXCEPT ![t] = <<>>]
      BY <2>12 DEF Build, MatchIds, shared
    <3>2. \A u \in Threads : corpus'[u] \in {corpus[u], <<>>}
      BY <2>3, <3>1 DEF Locals
    <3>. QED
      BY <2>3, <2>5, <2>7, <3>1, <3>2
  <2>13. CASE GetScores(t)
    <3>1. /\ byId' = byId /\ bm25' = bm25 /\ corpus' = [corpus EXCEPT ![t] = bm25]
      BY <2>13 DEF GetScores, shared
    <3>2. \A u \in Threads : corpus'[u] \in {corpus[u], bm25}
      BY <2>3, <3>1 DEF Locals
    <3>. QED
      BY <2>5, <3>1, <3>2
  <2>. QED
    BY <2>2, <2>8, <2>9, <2>10, <2>11, <2>12, <2>13 DEF AddStep, SearchStep
<1>. QED
  BY <1>1, <1>2
\* AloneInv, of the one caller.
AloneOK(t) ==
    /\ Settled(t) => dirty \/ bm25 = ValueList(tokens)
    /\ pc[t] \in {"guard", "score"} => ~dirty
    /\ pc[t] = "clean" => bm25 = ValueList(tokens)
    /\ pc[t] \in {"build", "match"} => corpus[t] = ValueList(tokens)

LEMMA NextAloneInv == TypeInv /\ AloneInv /\ [Next]_vars => AloneInv'
<1> SUFFICES ASSUME TypeInv, AloneInv, [Next]_vars
             PROVE  AloneInv'
  OBVIOUS
<1>1. CASE UNCHANGED vars
  BY <1>1 DEF vars, AloneInv, OneCaller, Settled
<1>2. CASE Next
  <2>1. UNCHANGED use
    BY <1>2 DEF Next
  <2>2. PICK t \in use.callers :
           \/ AddStep(t) \/ \E b \in Batches : CallAdd(t, b)
           \/ RemoveStep(t) \/ \E ids \in Removals : CallRemove(t, ids)
           \/ SearchStep(t) \/ \E q \in Queries : CallSearch(t, q)
    BY <1>2 DEF Next
  <2>3. t \in Threads /\ ThreadOK(t) /\ Locals /\ SharedOK
    BY CallersAreThreads DEF TypeInv
  <2>4. SUFFICES ASSUME OneCaller
                 PROVE  AloneOK(t)'
    <3>1. OneCaller' = OneCaller
      BY <2>1 DEF OneCaller
    <3>2. OneCaller => use.callers' = {t}
      BY <2>1, CallerIsAlone
    <3>. QED
      BY <3>1, <3>2 DEF AloneInv, AloneOK
  <2>5. AloneOK(t)
    BY <2>4 DEF AloneInv, AloneOK
  <2> USE DEF AloneOK, Settled
  <2>6. CASE AddStep(t) \/ \E b \in Batches : CallAdd(t, b)
    <3>1. \/ pc'[t] \in {"add", "addTokens"}
          \/ pc'[t] = "idle" /\ dirty' = TRUE
      BY <2>3, <2>6 DEF AddStep, StoreChunk, StoreTokens, SetTokens, FinishAdd, Finish, CallAdd,
                        Goto, Locals
    <3>. QED
      BY <3>1
  <2>7. ASSUME NEW ids \in Removals, CallRemove(t, ids)
        PROVE  AloneOK(t)'
    <3>1. /\ pc[t] = "idle" /\ pc'[t] = "remove" /\ UNCHANGED <<dirty, bm25, tokens>>
      BY <2>3, <2>7 DEF CallRemove, Goto, shared, Locals
    <3>. QED
      BY <2>5, <3>1
  <2>8. CASE RemoveOne(t)
    <3>1. pc[t] = "remove" /\ pc'[t] = "remove" /\ UNCHANGED <<dirty, bm25>>
      BY <2>3, <2>8 DEF RemoveOne, Locals
    <3>2. removed'[t] \/ (UNCHANGED tokens /\ removed'[t] = removed[t])
      BY <2>3, <2>8 DEF RemoveOne, Locals
    <3>. QED
      BY <2>5, <3>1, <3>2
  <2>9. CASE FinishRemove(t)
    <3>1. /\ pc[t] = "remove" /\ pc'[t] = "idle" /\ UNCHANGED <<tokens, bm25>>
          /\ dirty' = (dirty \/ removed[t])
      BY <2>3, <2>9 DEF FinishRemove, Finish, Goto, Locals
    <3>. QED
      BY <2>5, <3>1
  <2>10. ASSUME NEW q \in Queries, CallSearch(t, q)
         PROVE  AloneOK(t)'
    <3>1. pc[t] = "idle" /\ pc'[t] = "check" /\ UNCHANGED <<dirty, bm25, tokens>>
      BY <2>3, <2>10 DEF CallSearch, Goto, shared, Locals
    <3>. QED
      BY <2>5, <3>1
  <2>11. CASE CheckDirty(t)
    <3>1. /\ pc[t] = "check" /\ UNCHANGED <<dirty, bm25, tokens>>
          /\ \/ pc'[t] = "snapshot"
             \/ pc'[t] = "guard" /\ ~dirty
      BY <2>3, <2>11 DEF CheckDirty, Goto, shared, Locals
    <3>. QED
      BY <2>5, <3>1
  <2>12. CASE Snapshot(t) \/ Build(t)
    <3>1. \/ pc'[t] = "build" /\ corpus'[t] = ValueList(tokens) /\ tokens' = tokens
          \/ pc[t] = "build" /\ pc'[t] = "clean" /\ bm25' = corpus[t] /\ tokens' = tokens
      BY <2>3, <2>12 DEF Snapshot, Build, Goto, shared, Locals
    <3>. QED
      BY <2>5, <3>1
  <2>13. CASE ClearDirty(t)
    <3>1. /\ pc[t] = "clean" /\ pc'[t] = "guard" /\ dirty' = FALSE
          /\ UNCHANGED <<bm25, tokens>>
      BY <2>3, <2>13 DEF ClearDirty, Goto, Locals
    <3>. QED
      BY <2>5, <3>1
  <2>14. CASE CheckBuilt(t)
    <3>1. /\ pc[t] = "guard" /\ pc'[t] \in {"idle", "score"}
          /\ UNCHANGED <<dirty, bm25, tokens>>
      BY <2>3, <2>14 DEF CheckBuilt, Goto, shared, Locals
    <3>. QED
      BY <2>5, <3>1
  <2>15. CASE GetScores(t)
    <3>1. /\ pc[t] = "score" /\ pc'[t] \in {"idle", "match"} /\ corpus'[t] = bm25
          /\ UNCHANGED <<dirty, bm25, tokens>>
      BY <2>3, <2>15 DEF GetScores, Goto, shared, Locals
    <3>. QED
      BY <2>5, <3>1
  <2>16. CASE MatchIds(t)
    <3>1. pc[t] = "match" /\ pc'[t] = "idle" /\ UNCHANGED <<dirty, bm25, tokens>>
      BY <2>3, <2>16 DEF MatchIds, Goto, shared, Locals
    <3>. QED
      BY <2>5, <3>1
  <2>. QED
    BY <2>2, <2>6, <2>7, <2>8, <2>9, <2>10, <2>11, <2>12, <2>13, <2>14, <2>15, <2>16
       DEF RemoveStep, SearchStep
<1>. QED
  BY <1>1, <1>2

\* When search() pairs scores with ids, its documents follow the ids.
LEMMA MatchedFollow ==
    ASSUME TypeInv, DictInv, OldInv, AloneInv, NEW t \in use.callers, pc[t] = "match"
    PROVE  Follows(corpus[t], byId)
<1>1. CASE ~OneCaller
  BY <1>1, CallersAreThreads DEF OldInv, FollowsIds, Follows
<1>2. CASE OneCaller
  BY <1>2, TokensFollow DEF AloneInv
<1>. QED
  BY <1>1, <1>2

LEMMA NextHits ==
    TypeInv /\ DictInv /\ OldInv /\ AloneInv /\ HitsAreOwn /\ [Next]_vars => HitsAreOwn'
<1> SUFFICES ASSUME TypeInv, DictInv, OldInv, AloneInv, HitsAreOwn, [Next]_vars
             PROVE  HitsAreOwn'
  OBVIOUS
<1>1. CASE UNCHANGED vars
  BY <1>1 DEF vars, HitsAreOwn, TextsOf
<1>2. CASE Next
  <2>1. PICK t \in use.callers :
           \/ AddStep(t) \/ \E b \in Batches : CallAdd(t, b)
           \/ RemoveStep(t) \/ \E ids \in Removals : CallRemove(t, ids)
           \/ SearchStep(t) \/ \E q \in Queries : CallSearch(t, q)
    BY <1>2 DEF Next
  <2>2. t \in Threads /\ ThreadOK(t) /\ Locals /\ SharedOK
    BY CallersAreThreads DEF TypeInv
  <2>3. CASE UNCHANGED <<found, raised>>
    BY <2>3 DEF HitsAreOwn, TextsOf
  <2>4. ASSUME NEW q \in Queries, CallSearch(t, q)
        PROVE  HitsAreOwn'
    BY <2>2, <2>4 DEF CallSearch, HitsAreOwn, TextsOf, Locals
  <2>5. CASE GetScores(t)
    <3>1. found' = found /\ raised' \in {raised, raised \cup {"AttributeError"}}
      BY <2>5 DEF GetScores
    <3>. QED
      BY <3>1 DEF HitsAreOwn, TextsOf
  <2>6. CASE MatchIds(t)
    <3> DEFINE score == Scores(query[t], corpus[t])
               hits == {Hit(Rank(score, i), byId[Place(score, i)].key,
                            byId[Place(score, i)].val, corpus[t][i]) : i \in Kept(score)}
    <3>1. pc[t] = "match" /\ corpus[t] \in Seq(Contents) /\ byId \in Seq(Entries)
      BY <2>2, <2>6 DEF MatchIds, Goto, ThreadOK, SharedOK
    <3>2. Follows(corpus[t], byId)
      BY <3>1, MatchedFollow
    <3>3. Kept(score) \subseteq DOMAIN corpus[t]
      BY <3>1, KeptRanks
    <3>4. DOMAIN corpus[t] \subseteq DOMAIN byId
      <4>1. /\ Len(corpus[t]) \in Nat /\ DOMAIN corpus[t] = 1..Len(corpus[t])
            /\ Len(byId) \in Nat /\ DOMAIN byId = 1..Len(byId)
        BY <3>1
      <4>. QED
        BY <3>2, <4>1 DEF Follows
    <3>5. {Place(score, i) : i \in Kept(score)} \subseteq DOMAIN byId
      BY <3>3, <3>4 DEF Place
    <3>6. raised' = raised /\ found' = [found EXCEPT ![t] = hits]
      BY <2>6, <3>5 DEF MatchIds
    <3>7. ASSUME NEW h \in hits
          PROVE  h.scored \in TextsOf(h.chunk)
      <4>1. PICK i \in Kept(score) :
               h = Hit(Rank(score, i), byId[i].key, byId[i].val, corpus[t][i])
        BY DEF Place
      <4>2. corpus[t][i] \in TextsOf(byId[i].key)
        BY <3>2, <3>3 DEF Follows
      <4>. QED
        BY <4>1, <4>2 DEF Hit
    <3>8. \A u \in Threads : found'[u] = found[u] \/ found'[u] = hits
      BY <2>2, <3>6 DEF Locals
    <3> HIDE DEF hits
    <3>9. \A u \in Threads : \A h \in found'[u] : h.scored \in TextsOf(h.chunk)
      BY <3>7, <3>8 DEF HitsAreOwn
    <3>. QED
      BY <3>6, <3>9 DEF HitsAreOwn, TextsOf
  <2>7. CASE AddStep(t) \/ \E b \in Batches : CallAdd(t, b)
    BY <2>3, <2>7 DEF AddStep, StoreChunk, StoreTokens, SetTokens, FinishAdd, Finish, CallAdd
  <2>8. CASE RemoveStep(t) \/ \E ids \in Removals : CallRemove(t, ids)
    BY <2>3, <2>8 DEF RemoveStep, RemoveOne, FinishRemove, Finish, CallRemove
  <2>9. CASE CheckDirty(t) \/ Snapshot(t) \/ Build(t) \/ ClearDirty(t) \/ CheckBuilt(t)
    BY <2>3, <2>9 DEF CheckDirty, Snapshot, Build, ClearDirty, CheckBuilt
  <2>. QED
    BY <2>1, <2>4, <2>5, <2>6, <2>7, <2>8, <2>9 DEF SearchStep
<1>. QED
  BY <1>1, <1>2

LEMMA InitRest == Init => DictInv /\ OldInv /\ AloneInv /\ HitsAreOwn
<1> SUFFICES ASSUME Init
             PROVE  DictInv /\ OldInv /\ AloneInv /\ HitsAreOwn
  OBVIOUS
<1>1. /\ byId = <<>> /\ tokens = <<>> /\ bm25 = <<>> /\ dirty = TRUE /\ raised = {}
      /\ \A t \in Threads : pc[t] = "idle" /\ corpus[t] = <<>> /\ found[t] = {}
      /\ use.callers \subseteq Threads
  BY LexicalAssumption DEF Init, LexicalAssumption
<1>2. DictInv
  BY <1>1 DEF DictInv, OwnTexts, KeysAgree
<1>3. OldInv
  BY <1>1 DEF OldInv, FollowsIds
<1>4. AloneInv
  BY <1>1 DEF AloneInv
<1>5. HitsAreOwn
  BY <1>1 DEF HitsAreOwn
<1>. QED
  BY <1>2, <1>3, <1>4, <1>5

LEMMA Inductive == OneWriter => (Spec => []IInv)
<1>1. OneWriter /\ Init => IInv
  BY InitTypeInv, InitRest DEF IInv
<1>2. OneWriter /\ IInv /\ [Next]_vars => IInv'
  BY NextTypeInv, NextDictInv, NextOldInv, NextAloneInv, NextHits DEF IInv
<1>3. OneWriter /\ Init /\ [][Next]_vars => []IInv
  <2>1. ASSUME OneWriter
        PROVE  Init /\ [][Next]_vars => []IInv
    <3>1. Init => IInv
      BY <1>1, <2>1
    <3>2. IInv /\ [Next]_vars => IInv'
      BY <1>2, <2>1
    <3>. QED
      BY <3>1, <3>2, PTL
  <2>. QED
    BY <2>1
<1>. QED
  BY <1>3 DEF Spec

LEMMA DictsThenAgree == TypeInv /\ DictInv /\ OldInv => PositionsAgree
<1> SUFFICES ASSUME TypeInv, DictInv, OldInv
             PROVE  PositionsAgree
  OBVIOUS
<1>1. Len(tokens) \in Nat /\ Len(byId) \in Nat
  BY DEF TypeInv, SharedOK
<1>2. /\ Len(tokens) \in {Len(byId), Len(byId) - 1}
      /\ \A i \in DOMAIN tokens : tokens[i].key = byId[i].key
  <2>1. CASE \E t \in Threads : pc[t] = "addTokens"
    BY <1>1, <2>1 DEF DictInv, KeysAgree, OneBehind
  <2>2. CASE \A t \in Threads : pc[t] # "addTokens"
    BY <1>1, <2>2 DEF DictInv, KeysAgree
  <2>. QED
    BY <2>1, <2>2
<1>. QED
  BY <1>2 DEF PositionsAgree, OldInv

\* While one thread at a time adds, the n-th key of _tokens is the n-th key of _by_id
\* and a document list taken from _tokens at any earlier time still fits them, with any
\* number of threads inside search().  (vector_store.py:99-107, 133-140)
THEOREM PositionsStayAgreed == OneWriter => (Spec => []PositionsAgree)
<1>1. IInv => PositionsAgree
  BY DictsThenAgree DEF IInv
<1>2. ASSUME OneWriter
      PROVE  Spec => []PositionsAgree
  <2>1. Spec => []IInv
    BY <1>2, Inductive
  <2>. QED
    BY <1>1, <2>1, PTL
<1>. QED
  BY <1>2

\* While one thread at a time adds, chunk_ids[idx] in search() is the chunk whose text
\* has the idx-th score and never past the end, although the corpus was scored before
\* the ids are read and another thread may have added, or rebuilt the corpus, between
\* the two.  (vector_store.py:144-157)
THEOREM SearchHitsAreOwn == OneWriter => (Spec => []HitsAreOwn)
<1>1. IInv => HitsAreOwn
  BY DEF IInv
<1>2. ASSUME OneWriter
      PROVE  Spec => []HitsAreOwn
  <2>1. Spec => []IInv
    BY <1>2, Inductive
  <2>. QED
    BY <1>1, <2>1, PTL
<1>. QED
  BY <1>2

-----------------------------------------------------------------------------
(* The refinement of AtomicLexicalIndex.  What its two folds over lists    *)
(* are, step by step.                                                      *)

\* Max, the element that FoldLeft takes first.
LEMMA MaxIsGreatest ==
    ASSUME NEW n \in Nat, NEW T \in SUBSET (1..n), T # {}
    PROVE  Max(T) \in T /\ \A x \in T : Max(T) >= x
<1>1. PICK m \in T : \A x \in T : m >= x
  <2>1. T \in SUBSET Nat /\ \A x \in T : x <= n
    OBVIOUS
  <2>. QED
    BY <2>1, GreatestNumber
<1>. QED
  BY <1>1 DEF Max

LEMMA PutIsSeq ==
    ASSUME NEW E, NEW d \in Seq(E), NEW k, NEW v, Entry(k, v) \in E
    PROVE  Put(d, k, v) \in Seq(E)
<1>1. CASE Has(d, k)
  <2>1. DOMAIN d = 1..Len(d) /\ Len(d) \in Nat
    OBVIOUS
  <2>2. Put(d, k, v) = [i \in 1..Len(d) |-> IF d[i].key = k THEN Entry(k, v) ELSE d[i]]
    BY <1>1, <2>1 DEF Put
  <2>3. \A i \in 1..Len(d) : (IF d[i].key = k THEN Entry(k, v) ELSE d[i]) \in E
    OBVIOUS
  <2>. QED
    BY ONLY <2>1, <2>2, <2>3
<1>2. CASE ~Has(d, k)
  <2>1. Put(d, k, v) = Append(d, Entry(k, v))
    BY <1>2 DEF Put
  <2>. QED
    BY <2>1
<1>. QED
  BY <1>1, <1>2

\* d.update(s): the entries are put one after the other.
LEMMA PutAllSteps ==
    ASSUME NEW d \in Seq(Entries), NEW s \in Seq(Entries)
    PROVE  \E r \in [0..Len(s) -> Seq(Entries)] :
              /\ r[0] = d
              /\ \A k \in 1..Len(s) : r[k] = Put(r[k - 1], s[k].key, s[k].val)
              /\ r[Len(s)] = Abstract!PutAll(d, s)
<1> DEFINE n == Len(s)
           step(i) == [T \in SUBSET DOMAIN s |->
                          IF T = {} THEN d
                          ELSE Put(i[T \ {Max(T)}], s[Max(T)].key, s[Max(T)].val)]
           iter == CHOOSE i : i = step(i)
           V == Seq(Entries)
           h == [x \in 1..n |-> [v \in V |-> Put(v, s[x].key, s[x].val)]]
           pick == [T \in (SUBSET (1..n)) \ {{}} |-> Max(T)]
<1>1. Abstract!PutAll(d, s) = iter[DOMAIN s]
  BY DEF Abstract!PutAll, Abstract!FoldLeft, Abstract!MapThenFoldSet, Abstract!Max, Max,
         Abstract!Put, Put, Abstract!Has, Has, Abstract!Entry, Entry
<1>2. n \in Nat /\ DOMAIN s = 1..n /\ IsFiniteSet(1..n)
  <2>1. n \in Nat /\ DOMAIN s = 1..n /\ 1 \in Int /\ n \in Int
    OBVIOUS
  <2>. QED
    BY ONLY <2>1, FS_Interval
<1>3. \A T \in SUBSET (1..n) : T # {} => /\ pick[T] = Max(T) /\ pick[T] \in T /\ pick[T] \in 1..n
                                         /\ \A x \in T : pick[T] >= x
  BY <1>2, MaxIsGreatest
<1>4. \A x \in 1..n : /\ s[x].key \in ChunkIds /\ s[x].val \in Contents
                      /\ Entry(s[x].key, s[x].val) \in Entries
  <2>1. \A x \in 1..n : s[x] \in Entries
    BY <1>2
  <2>. QED
    BY <2>1 DEF Entries, Entry
<1>5. h \in [1..n -> [V -> V]]
  <2>1. ASSUME NEW x \in 1..n, NEW v \in V
        PROVE  Put(v, s[x].key, s[x].val) \in V
    BY <1>4, PutIsSeq
  <2>. QED
    BY <2>1
<1>6. \A x \in 1..n : \A v \in V : h[x][v] = Put(v, s[x].key, s[x].val)
  OBVIOUS
<1>2a. IsFiniteSet(1..n)
  BY <1>2
<1>2b. n \in Nat
  BY <1>2
<1>2c. pick \in [(SUBSET (1..n)) \ {{}} -> 1..n]
  BY <1>3
<1> HIDE DEF h, pick, V, n, step, iter
<1>7. d \in V
  BY DEF V
<1>8. PICK g \in [SUBSET (1..n) -> V] : Recursion(g, 1..n, d, pick, h)
  <2>1. \A T \in SUBSET (1..n) : T # {} => pick[T] \in T
    BY ONLY <1>3
  <2> DEFINE D == 1..n
  <2>2. /\ IsFiniteSet(D) /\ d \in V /\ h \in [D -> [V -> V]]
        /\ pick \in [(SUBSET D) \ {{}} -> D]
        /\ \A T \in SUBSET D : T # {} => pick[T] \in T
    BY ONLY <1>2a, <1>2c, <1>5, <1>7, <2>1
  <2> HIDE DEF D
  <2>3. \E g \in [SUBSET D -> V] : Recursion(g, D, d, pick, h)
    BY ONLY <2>2, RecursionExists
  <2>. QED
    BY ONLY <2>3 DEF D
<1>9. ASSUME NEW T \in SUBSET (1..n)
      PROVE  g[T] = IF T = {} THEN d ELSE Put(g[T \ {Max(T)}], s[Max(T)].key, s[Max(T)].val)
  <2>1. CASE T # {}
    <3>1. g[T] = h[pick[T]][g[T \ {pick[T]}]]
      BY <1>8, <2>1 DEF Recursion
    <3>2. pick[T] = Max(T) /\ pick[T] \in 1..n /\ g[T \ {pick[T]}] \in V
      BY <1>3, <2>1
    <3>3. g[T] = Put(g[T \ {pick[T]}], s[pick[T]].key, s[pick[T]].val)
      BY <1>6, <3>1, <3>2
    <3>. QED
      BY ONLY <2>1, <3>2, <3>3
  <2>2. CASE T = {}
    BY <1>8, <2>2 DEF Recursion
  <2>. QED
    BY <2>1, <2>2
<1>10. iter = step(iter)
  <2>1. g = step(g)
    <3>1. g = [T \in SUBSET (1..n) |-> g[T]]
      OBVIOUS
    <3>. QED
      BY <1>2, <1>9, <3>1 DEF step
  <2>. QED
    BY <2>1 DEF iter
<1>11. ASSUME NEW T \in SUBSET (1..n)
       PROVE  iter[T] = IF T = {} THEN d
                        ELSE Put(iter[T \ {Max(T)}], s[Max(T)].key, s[Max(T)].val)
  BY <1>2, <1>10 DEF step
<1>12. \A T \in SUBSET (1..n) : iter[T] = g[T]
  <2> DEFINE D == 1..n
             P == [T \in SUBSET D |-> iter[T] = g[T]]
  <2>1. P[{}]
    BY <1>9, <1>11
  <2>2. ASSUME NEW T \in SUBSET (1..n), T # {}, iter[T \ {pick[T]}] = g[T \ {pick[T]}]
        PROVE  iter[T] = g[T]
    <3>1. pick[T] = Max(T)
      BY <1>3, <2>2
    <3>2. iter[T] = Put(iter[T \ {Max(T)}], s[Max(T)].key, s[Max(T)].val)
      BY <1>11, <2>2
    <3>3. g[T] = Put(g[T \ {Max(T)}], s[Max(T)].key, s[Max(T)].val)
      BY <1>9, <2>2
    <3>4. iter[T \ {Max(T)}] = g[T \ {Max(T)}]
      BY ONLY <2>2, <3>1, Zenon
    <3>. QED
      BY ONLY <3>2, <3>3, <3>4, Zenon
  <2>3. \A T \in SUBSET D : T # {} /\ P[T \ {pick[T]}] => P[T]
    BY ONLY <2>2
  <2>4. IsFiniteSet(D) /\ P \in [SUBSET D -> BOOLEAN] /\ pick \in [(SUBSET D) \ {{}} -> D]
    BY ONLY <1>2a, <1>2c
  <2>5. \A T \in SUBSET D : T # {} => pick[T] \in T
    BY ONLY <1>3
  <2>6. \A T \in SUBSET D : P[T] <=> iter[T] = g[T]
    OBVIOUS
  <2> HIDE DEF D, P
  <2>7. \A T \in SUBSET D : P[T]
    BY ONLY <2>1, <2>3, <2>4, <2>5, PickInduction
  <2>. QED
    BY ONLY <2>6, <2>7 DEF D
<1> DEFINE r == [k \in 0..n |-> iter[1..k]]
<1>13. ASSUME NEW k \in 1..n
       PROVE  r[k] = Put(r[k - 1], s[k].key, s[k].val)
  <2>1. /\ 1..k \in SUBSET (1..n) /\ 1..k # {} /\ (1..k) \ {k} = 1..(k - 1) /\ k \in 1..k
        /\ \A p \in 1..k : (\A x \in 1..k : p >= x) => p = k
    BY <1>2b, LargestOfPrefix
  <2>2. Max(1..k) = k
    BY <1>2b, <2>1, MaxIsGreatest
  <2>3. iter[1..k] = Put(iter[(1..k) \ {Max(1..k)}], s[Max(1..k)].key, s[Max(1..k)].val)
    BY <1>11, <2>1
  <2>4. iter[1..k] = Put(iter[1..(k - 1)], s[k].key, s[k].val)
    BY ONLY <2>1, <2>2, <2>3, Zenon
  <2>5. k \in 0..n /\ k - 1 \in 0..n
    BY <1>2b
  <2>. QED
    BY <2>4, <2>5
<1>14. r[0] = d /\ r[n] = Abstract!PutAll(d, s)
  <2>0. {} \in SUBSET (1..n) /\ 1..0 = {}
    OBVIOUS
  <2>1. 1..0 = {} /\ iter[{}] = d
    BY <1>11, <2>0
  <2>2. 0 \in 0..n /\ n \in 0..n
    BY <1>2b
  <2>. QED
    BY <1>1, <1>2, <2>1, <2>2
<1>15. r \in [0..n -> V]
  <2>1. \A k \in 0..n : 1..k \in SUBSET (1..n)
    BY <1>2b
  <2>2. \A k \in 0..n : iter[1..k] \in V
    BY <1>12, <2>1
  <2>. QED
    BY ONLY <2>2
<1> HIDE DEF r
<1>. QED
  BY <1>13, <1>14, <1>15 DEF V, n

\* The entry e is taken over unless it is deleted.
Unless(ids, v, e) == IF e.key \in ids THEN v ELSE Append(v, e)

\* The entries that are not deleted are taken over one after the other.
LEMMA DeleteAllSteps ==
    ASSUME NEW s \in Seq(Entries), NEW ids
    PROVE  \E r \in [0..Len(s) -> Seq(Entries)] :
              /\ r[0] = <<>>
              /\ \A k \in 1..Len(s) : r[k] = Unless(ids, r[k - 1], s[k])
              /\ r[Len(s)] = Abstract!DeleteAll(s, ids)
<1> DEFINE n == Len(s)
           step(i) == [T \in SUBSET DOMAIN s |->
                          IF T = {} THEN <<>> ELSE Unless(ids, i[T \ {Max(T)}], s[Max(T)])]
           iter == CHOOSE i : i = step(i)
           V == Seq(Entries)
           h == [x \in 1..n |-> [v \in V |-> Unless(ids, v, s[x])]]
           pick == [T \in (SUBSET (1..n)) \ {{}} |-> Max(T)]
<1>1. Abstract!DeleteAll(s, ids) = iter[DOMAIN s]
  BY DEF Abstract!DeleteAll, Abstract!FoldLeft, Abstract!MapThenFoldSet, Abstract!Max, Max,
         Unless
<1>2. n \in Nat /\ DOMAIN s = 1..n /\ IsFiniteSet(1..n)
  <2>1. n \in Nat /\ DOMAIN s = 1..n /\ 1 \in Int /\ n \in Int
    OBVIOUS
  <2>. QED
    BY ONLY <2>1, FS_Interval
<1>3. \A T \in SUBSET (1..n) : T # {} => /\ pick[T] = Max(T) /\ pick[T] \in T /\ pick[T] \in 1..n
                                         /\ \A x \in T : pick[T] >= x
  BY <1>2, MaxIsGreatest
<1>4. \A x \in 1..n : s[x] \in Entries
  BY <1>2
<1>5. h \in [1..n -> [V -> V]]
  <2>1. ASSUME NEW x \in 1..n, NEW v \in V
        PROVE  Unless(ids, v, s[x]) \in V
    BY <1>4 DEF Unless
  <2>. QED
    BY <2>1
<1>6. \A x \in 1..n : \A v \in V : h[x][v] = Unless(ids, v, s[x])
  OBVIOUS
<1>2a. IsFiniteSet(1..n)
  BY <1>2
<1>2b. n \in Nat
  BY <1>2
<1>2c. pick \in [(SUBSET (1..n)) \ {{}} -> 1..n]
  BY <1>3
<1> HIDE DEF h, pick, V, n, step, iter
<1>7. <<>> \in V
  BY DEF V
<1>8. PICK g \in [SUBSET (1..n) -> V] : Recursion(g, 1..n, <<>>, pick, h)
  <2>1. \A T \in SUBSET (1..n) : T # {} => pick[T] \in T
    BY ONLY <1>3
  <2> DEFINE D == 1..n
  <2>2. /\ IsFiniteSet(D) /\ <<>> \in V /\ h \in [D -> [V -> V]]
        /\ pick \in [(SUBSET D) \ {{}} -> D]
        /\ \A T \in SUBSET D : T # {} => pick[T] \in T
    BY ONLY <1>2a, <1>2c, <1>5, <1>7, <2>1
  <2> HIDE DEF D
  <2>3. \E g \in [SUBSET D -> V] : Recursion(g, D, <<>>, pick, h)
    BY ONLY <2>2, RecursionExists
  <2>. QED
    BY ONLY <2>3 DEF D
<1>9. ASSUME NEW T \in SUBSET (1..n)
      PROVE  g[T] = IF T = {} THEN <<>> ELSE Unless(ids, g[T \ {Max(T)}], s[Max(T)])
  <2>1. CASE T # {}
    <3>1. g[T] = h[pick[T]][g[T \ {pick[T]}]]
      BY <1>8, <2>1 DEF Recursion
    <3>2. pick[T] = Max(T) /\ pick[T] \in 1..n /\ g[T \ {pick[T]}] \in V
      BY <1>3, <2>1
    <3>3. g[T] = Unless(ids, g[T \ {pick[T]}], s[pick[T]])
      BY <1>6, <3>1, <3>2
    <3>. QED
      BY ONLY <2>1, <3>2, <3>3
  <2>2. CASE T = {}
    BY <1>8, <2>2 DEF Recursion
  <2>. QED
    BY <2>1, <2>2
<1>10. iter = step(iter)
  <2>1. g = step(g)
    <3>1. g = [T \in SUBSET (1..n) |-> g[T]]
      OBVIOUS
    <3>. QED
      BY <1>2, <1>9, <3>1 DEF step
  <2>. QED
    BY <2>1 DEF iter
<1>11. ASSUME NEW T \in SUBSET (1..n)
       PROVE  iter[T] = IF T = {} THEN <<>>
                        ELSE Unless(ids, iter[T \ {Max(T)}], s[Max(T)])
  BY <1>2, <1>10 DEF step
<1>12. \A T \in SUBSET (1..n) : iter[T] = g[T]
  <2> DEFINE D == 1..n
             P == [T \in SUBSET D |-> iter[T] = g[T]]
  <2>1. P[{}]
    BY <1>9, <1>11
  <2>2. ASSUME NEW T \in SUBSET (1..n), T # {}, iter[T \ {pick[T]}] = g[T \ {pick[T]}]
        PROVE  iter[T] = g[T]
    <3>1. pick[T] = Max(T)
      BY <1>3, <2>2
    <3>2. iter[T] = Unless(ids, iter[T \ {Max(T)}], s[Max(T)])
      BY <1>11, <2>2
    <3>3. g[T] = Unless(ids, g[T \ {Max(T)}], s[Max(T)])
      BY <1>9, <2>2
    <3>4. iter[T \ {Max(T)}] = g[T \ {Max(T)}]
      BY ONLY <2>2, <3>1, Zenon
    <3>. QED
      BY ONLY <3>2, <3>3, <3>4, Zenon
  <2>3. \A T \in SUBSET D : T # {} /\ P[T \ {pick[T]}] => P[T]
    BY ONLY <2>2
  <2>4. IsFiniteSet(D) /\ P \in [SUBSET D -> BOOLEAN] /\ pick \in [(SUBSET D) \ {{}} -> D]
    BY ONLY <1>2a, <1>2c
  <2>5. \A T \in SUBSET D : T # {} => pick[T] \in T
    BY ONLY <1>3
  <2>6. \A T \in SUBSET D : P[T] <=> iter[T] = g[T]
    OBVIOUS
  <2> HIDE DEF D, P
  <2>7. \A T \in SUBSET D : P[T]
    BY ONLY <2>1, <2>3, <2>4, <2>5, PickInduction
  <2>. QED
    BY ONLY <2>6, <2>7 DEF D
<1> DEFINE r == [k \in 0..n |-> iter[1..k]]
<1>13. ASSUME NEW k \in 1..n
       PROVE  r[k] = Unless(ids, r[k - 1], s[k])
  <2>1. /\ 1..k \in SUBSET (1..n) /\ 1..k # {} /\ (1..k) \ {k} = 1..(k - 1) /\ k \in 1..k
        /\ \A p \in 1..k : (\A x \in 1..k : p >= x) => p = k
    BY <1>2b, LargestOfPrefix
  <2>2. Max(1..k) = k
    BY <1>2b, <2>1, MaxIsGreatest
  <2>3. iter[1..k] = Unless(ids, iter[(1..k) \ {Max(1..k)}], s[Max(1..k)])
    BY <1>11, <2>1
  <2>4. iter[1..k] = Unless(ids, iter[1..(k - 1)], s[k])
    BY ONLY <2>1, <2>2, <2>3, Zenon
  <2>5. k \in 0..n /\ k - 1 \in 0..n
    BY <1>2b
  <2>. QED
    BY <2>4, <2>5
<1>14. r[0] = <<>> /\ r[n] = Abstract!DeleteAll(s, ids)
  <2>0. {} \in SUBSET (1..n) /\ 1..0 = {}
    OBVIOUS
  <2>1. 1..0 = {} /\ iter[{}] = <<>>
    BY <1>11, <2>0
  <2>2. 0 \in 0..n /\ n \in 0..n
    BY <1>2b
  <2>. QED
    BY <1>1, <1>2, <2>1, <2>2
<1>15. r \in [0..n -> V]
  <2>1. \A k \in 0..n : 1..k \in SUBSET (1..n)
    BY <1>2b
  <2>2. \A k \in 0..n : iter[1..k] \in V
    BY <1>12, <2>1
  <2>. QED
    BY ONLY <2>2
<1> HIDE DEF r
<1>. QED
  BY <1>13, <1>14, <1>15 DEF V, n

\* Putting no entry changes nothing; putting several is putting the first, then the rest.
LEMMA PutAllHead ==
    ASSUME NEW d \in Seq(Entries)
    PROVE  /\ Abstract!PutAll(d, <<>>) = d
           /\ \A s \in Seq(Entries) : s # <<>> =>
                 Abstract!PutAll(d, s)
                   = Abstract!PutAll(Put(d, Head(s).key, Head(s).val), Tail(s))
<1>1. Abstract!PutAll(d, <<>>) = d
  <2> DEFINE s == <<>>
  <2>1. s \in Seq(Entries) /\ Len(s) = 0
    OBVIOUS
  <2> HIDE DEF s
  <2>2. PICK r \in [0..Len(s) -> Seq(Entries)] : r[0] = d /\ r[Len(s)] = Abstract!PutAll(d, s)
    BY ONLY <2>1, d \in Seq(Entries), PutAllSteps
  <2>3. Abstract!PutAll(d, s) = d
    BY ONLY <2>1, <2>2
  <2>. QED
    BY ONLY <2>3 DEF s
<1>2. ASSUME NEW s \in Seq(Entries), s # <<>>
      PROVE  Abstract!PutAll(d, s) = Abstract!PutAll(Put(d, Head(s).key, Head(s).val), Tail(s))
  <2> DEFINE c == Put(d, Head(s).key, Head(s).val)
             t == Tail(s)
  <2>1. /\ Len(s) \in Nat /\ Len(s) > 0 /\ t \in Seq(Entries) /\ Len(t) = Len(s) - 1
        /\ Head(s) = s[1] /\ \A k \in 1..Len(t) : t[k] = s[k + 1]
    BY <1>2
  <2>2. c \in Seq(Entries)
    <3>1. Head(s) \in Entries /\ Entry(Head(s).key, Head(s).val) = Head(s)
      BY <1>2, EntryIsItself
    <3>. QED
      BY <3>1, PutIsSeq
  <2> HIDE DEF c, t
  <2>3. PICK r \in [0..Len(s) -> Seq(Entries)] :
           /\ r[0] = d /\ \A k \in 1..Len(s) : r[k] = Put(r[k - 1], s[k].key, s[k].val)
           /\ r[Len(s)] = Abstract!PutAll(d, s)
    BY ONLY d \in Seq(Entries), s \in Seq(Entries), PutAllSteps
  <2>4. PICK q \in [0..Len(t) -> Seq(Entries)] :
           /\ q[0] = c /\ \A k \in 1..Len(t) : q[k] = Put(q[k - 1], t[k].key, t[k].val)
           /\ q[Len(t)] = Abstract!PutAll(c, t)
    <3>1. t \in Seq(Entries)
      BY <2>1
    <3>. QED
      BY ONLY <2>2, <3>1, PutAllSteps
  <2> DEFINE P == [m \in Nat |-> m <= Len(t) => q[m] = r[m + 1]]
  <2>5. P[0]
    <3>1. 1 \in 1..Len(s) /\ 1 - 1 = 0 /\ 0 + 1 = 1
      BY <2>1
    <3>2. r[1] = Put(d, s[1].key, s[1].val)
      BY <2>3, <3>1
    <3>. QED
      BY <2>1, <2>4, <3>1, <3>2 DEF c
  <2>6. ASSUME NEW m \in Nat, P[m]
        PROVE  P[m + 1]
    <3>0. m + 1 \in Nat /\ (m + 1) + 1 = m + 2
      OBVIOUS
    <3>0a. P[m + 1] <=> (m + 1 <= Len(t) => q[m + 1] = r[m + 2])
      BY ONLY <3>0
    <3> HIDE DEF P
    <3>1. SUFFICES ASSUME m + 1 <= Len(t)
                   PROVE  q[m + 1] = r[m + 2]
      BY ONLY <3>0a, <3>1
    <3>2. /\ m + 1 \in 1..Len(t) /\ m + 2 \in 1..Len(s) /\ (m + 1) - 1 = m
          /\ (m + 2) - 1 = m + 1 /\ (m + 1) + 1 = m + 2 /\ m <= Len(t)
      BY <2>1, <3>1
    <3>3. q[m + 1] = Put(q[m], s[m + 2].key, s[m + 2].val)
      <4>1. q[m + 1] = Put(q[(m + 1) - 1], t[m + 1].key, t[m + 1].val)
        BY <2>4, <3>2
      <4>2. t[m + 1] = s[m + 2]
        BY <2>1, <3>2
      <4>. QED
        BY ONLY <3>2, <4>1, <4>2
    <3>4. r[m + 2] = Put(r[m + 1], s[m + 2].key, s[m + 2].val)
      <4>1. r[m + 2] = Put(r[(m + 2) - 1], s[m + 2].key, s[m + 2].val)
        BY <2>3, <3>2
      <4>. QED
        BY ONLY <3>2, <4>1
    <3>5. q[m] = r[m + 1]
      BY <2>6, <3>2 DEF P
    <3>. QED
      BY ONLY <3>3, <3>4, <3>5, Zenon
  <2>7. P[Len(t)]
    <3>1. P \in [Nat -> BOOLEAN] /\ Len(t) \in Nat
      BY <2>1
    <3> HIDE DEF P
    <3>2. \A m \in Nat : P[m]
      BY ONLY <2>5, <2>6, <3>1, NumberInduction
    <3>. QED
      BY <3>1, <3>2
  <2>8. q[Len(t)] = r[Len(s)]
    <3>1. Len(t) \in Nat /\ Len(t) <= Len(t) /\ Len(t) + 1 = Len(s)
      BY <2>1
    <3>. QED
      BY <2>7, <3>1
  <2>. QED
    BY <2>3, <2>4, <2>8 DEF c, t
<1>. QED
  BY <1>1, <1>2

\* Deleting nothing changes nothing.
LEMMA DeleteNone ==
    ASSUME NEW d \in Seq(Entries)
    PROVE  Abstract!DeleteAll(d, {}) = d
<1>1. PICK r \in [0..Len(d) -> Seq(Entries)] :
         /\ r[0] = <<>> /\ \A k \in 1..Len(d) : r[k] = Unless({}, r[k - 1], d[k])
         /\ r[Len(d)] = Abstract!DeleteAll(d, {})
  BY DeleteAllSteps
<1>2. Len(d) \in Nat /\ DOMAIN d = 1..Len(d)
  OBVIOUS
<1> DEFINE P == [m \in Nat |-> m <= Len(d) => r[m] = SubSeq(d, 1, m)]
<1>3. P[0]
  <2>1. SubSeq(d, 1, 0) = <<>>
    OBVIOUS
  <2>. QED
    BY <1>1, <2>1
<1>4. ASSUME NEW m \in Nat, P[m]
      PROVE  P[m + 1]
  <2>0. P[m + 1] <=> (m + 1 <= Len(d) => r[m + 1] = SubSeq(d, 1, m + 1))
    <3>1. m + 1 \in Nat
      OBVIOUS
    <3>. QED
      BY ONLY <3>1
  <2>1. SUFFICES ASSUME m + 1 <= Len(d)
                 PROVE  r[m + 1] = SubSeq(d, 1, m + 1)
    BY ONLY <2>0, <2>1
  <2>2. m + 1 \in 1..Len(d) /\ (m + 1) - 1 = m /\ m <= Len(d) /\ d[m + 1] \in Entries
    BY <1>2, <2>1
  <2>3. r[m + 1] = Append(SubSeq(d, 1, m), d[m + 1])
    BY <1>1, <1>4, <2>2 DEF Unless
  <2>4. SubSeq(d, 1, m + 1) = Append(SubSeq(d, 1, m), d[m + 1])
    BY <1>2, <2>2
  <2>. QED
    BY <2>3, <2>4
<1>5. P[Len(d)]
  <2>1. P \in [Nat -> BOOLEAN]
    OBVIOUS
  <2> HIDE DEF P
  <2>2. \A m \in Nat : P[m]
    BY ONLY <1>3, <1>4, <2>1, NumberInduction
  <2>. QED
    BY <1>2, <2>2
<1>6. SubSeq(d, 1, Len(d)) = d
  OBVIOUS
<1>7. r[Len(d)] = SubSeq(d, 1, Len(d))
  <2>1. Len(d) <= Len(d)
    BY <1>2
  <2>. QED
    BY <1>2, <1>5, <2>1
<1>. QED
  BY ONLY <1>1, <1>6, <1>7

\* Deleting a chunk now and the rest later is deleting them all.
LEMMA DeleteOneByOne ==
    ASSUME NEW d \in Seq(Entries), IsDict(d), NEW x, NEW ids, NEW all, all = ids \cup {x}
    PROVE  Abstract!DeleteAll(d, all) = Abstract!DeleteAll(Delete(d, x), ids)
<1> DEFINE c == Delete(d, x)
           p == PlaceOf(d, x)
<1>1. Len(d) \in Nat /\ DOMAIN d = 1..Len(d)
  OBVIOUS
<1>2. c \in Seq(Entries) /\ Len(c) \in Nat
  <2>1. c \in Seq(Entries)
    BY DeleteCloses DEF Delete
  <2>. QED
    BY <2>1
<1>3. Has(d, x) =>
         /\ p \in 1..Len(d) /\ d[p].key = x /\ Len(c) = Len(d) - 1
         /\ \A k \in 1..Len(d) : k # p => d[k].key # x
         /\ \A k \in 1..(Len(d) - 1) : c[k] = IF k < p THEN d[k] ELSE d[k + 1]
  <2>1. SUFFICES ASSUME Has(d, x)
                 PROVE  /\ p \in 1..Len(d) /\ d[p].key = x /\ Len(c) = Len(d) - 1
                        /\ \A k \in 1..Len(d) : k # p => d[k].key # x
                        /\ \A k \in 1..(Len(d) - 1) : c[k] = IF k < p THEN d[k] ELSE d[k + 1]
    OBVIOUS
  <2>2. /\ p \in DOMAIN d /\ d[p].key = x /\ Len(c) = Len(d) - 1
        /\ \A k \in 1..(Len(d) - 1) : c[k] = IF k < p THEN d[k] ELSE d[k + 1]
    BY <2>1, DeleteCloses
  <2>3. \A k \in 1..Len(d) : k # p => d[k].key # x
    BY <1>1, <2>2 DEF IsDict
  <2>. QED
    BY <1>1, <2>2, <2>3
<1>4. ~Has(d, x) => c = d /\ \A k \in 1..Len(d) : d[k].key # x
  BY <1>1 DEF Has, Delete
<1>5. PICK r \in [0..Len(d) -> Seq(Entries)] :
         /\ r[0] = <<>> /\ \A k \in 1..Len(d) : r[k] = Unless(all, r[k - 1], d[k])
         /\ r[Len(d)] = Abstract!DeleteAll(d, all)
  BY DeleteAllSteps
<1> HIDE DEF c, p
<1>6. PICK q \in [0..Len(c) -> Seq(Entries)] :
         /\ q[0] = <<>> /\ \A k \in 1..Len(c) : q[k] = Unless(ids, q[k - 1], c[k])
         /\ q[Len(c)] = Abstract!DeleteAll(c, ids)
  <2>1. c \in Seq(Entries)
    BY <1>2
  <2>. QED
    BY ONLY <2>1, DeleteAllSteps
<1>7. \A k \in 1..Len(d) : d[k].key # x =>
         \A v : Unless(all, v, d[k]) = Unless(ids, v, d[k])
  BY DEF Unless
<1>8. ASSUME Has(d, x)
      PROVE  r[Len(d)] = q[Len(c)]
  <2> DEFINE P == [m \in Nat |-> m <= Len(d) => IF m < p THEN q[m] = r[m] ELSE q[m - 1] = r[m]]
  <2>1. /\ p \in 1..Len(d) /\ d[p].key = x /\ Len(c) = Len(d) - 1
        /\ \A k \in 1..Len(d) : k # p => d[k].key # x
        /\ \A k \in 1..(Len(d) - 1) : c[k] = IF k < p THEN d[k] ELSE d[k + 1]
    BY ONLY <1>3, <1>8
  <2>2. P[0]
    <3>1. 0 < p /\ q[0] = r[0]
      BY <1>1, <1>5, <1>6, <2>1
    <3>. QED
      BY ONLY <3>1
  <2>3. ASSUME NEW m \in Nat, P[m]
        PROVE  P[m + 1]
    <3>1. m + 1 \in Nat /\ (m + 1) - 1 = m
      OBVIOUS
    <3>2. P[m + 1] <=> (m + 1 <= Len(d) => IF m + 1 < p THEN q[m + 1] = r[m + 1]
                                           ELSE q[m] = r[m + 1])
      BY ONLY <3>1
    <3>3. P[m] <=> (m <= Len(d) => IF m < p THEN q[m] = r[m] ELSE q[m - 1] = r[m])
      OBVIOUS
    <3> HIDE DEF P
    <3>4. SUFFICES ASSUME m + 1 <= Len(d)
                   PROVE  IF m + 1 < p THEN q[m + 1] = r[m + 1] ELSE q[m] = r[m + 1]
      BY ONLY <3>2, <3>4
    <3>5. m + 1 \in 1..Len(d) /\ m <= Len(d) /\ p \in Nat
      BY <1>1, <2>1, <3>4
    <3>6. r[m + 1] = Unless(all, r[m], d[m + 1])
      <4>1. r[m + 1] = Unless(all, r[(m + 1) - 1], d[m + 1])
        BY <1>5, <3>5
      <4>. QED
        BY ONLY <3>1, <4>1
    <3>7. CASE m + 1 < p
      <4>1. m + 1 \in 1..Len(c) /\ m < p /\ c[m + 1] = d[m + 1] /\ m + 1 # p
        BY <1>1, <2>1, <3>5, <3>7
      <4>2. q[m + 1] = Unless(ids, q[(m + 1) - 1], c[m + 1])
        BY <1>6, <4>1
      <4>3. q[m] = r[m]
        BY <2>3, <3>3, <3>5, <4>1
      <4>4. Unless(all, r[m], d[m + 1]) = Unless(ids, r[m], d[m + 1])
        BY <1>7, <2>1, <3>5, <4>1
      <4>5. q[m + 1] = r[m + 1]
        BY ONLY <3>1, <3>6, <4>1, <4>2, <4>3, <4>4
      <4>. QED
        BY ONLY <3>7, <4>5
    <3>8. CASE m + 1 = p
      <4>1. m < p /\ ~(m + 1 < p)
        BY <3>5, <3>8
      <4>2. q[m] = r[m]
        BY <2>3, <3>3, <3>5, <4>1
      <4>3. d[m + 1].key \in all
        BY <2>1, <3>8
      <4>4. r[m + 1] = r[m]
        BY <3>6, <4>3 DEF Unless
      <4>. QED
        BY ONLY <4>1, <4>2, <4>4
    <3>9. CASE m + 1 > p
      <4>1. /\ m \in 1..Len(c) /\ ~(m < p) /\ ~(m + 1 < p) /\ c[m] = d[m + 1] /\ m + 1 # p
        BY <1>1, <2>1, <3>5, <3>9
      <4>2. q[m] = Unless(ids, q[m - 1], c[m])
        BY <1>6, <4>1
      <4>3. q[m - 1] = r[m]
        BY <2>3, <3>3, <3>5, <4>1
      <4>4. Unless(all, r[m], d[m + 1]) = Unless(ids, r[m], d[m + 1])
        BY <1>7, <2>1, <3>5, <4>1
      <4>. QED
        BY ONLY <3>6, <4>1, <4>2, <4>3, <4>4
    <3>. QED
      BY <3>5, <3>7, <3>8, <3>9
  <2>4. P[Len(d)]
    <3>1. P \in [Nat -> BOOLEAN]
      OBVIOUS
    <3> HIDE DEF P
    <3>2. \A m \in Nat : P[m]
      BY ONLY <2>2, <2>3, <3>1, NumberInduction
    <3>. QED
      BY <1>1, <3>2
  <2>5. ~(Len(d) < p) /\ Len(d) <= Len(d) /\ Len(d) - 1 = Len(c)
    BY <1>1, <2>1
  <2>. QED
    BY <1>1, <2>4, <2>5
<1>9. ASSUME ~Has(d, x)
      PROVE  r[Len(d)] = q[Len(c)]
  <2> DEFINE P == [m \in Nat |-> m <= Len(d) => q[m] = r[m]]
  <2>1. c = d /\ \A k \in 1..Len(d) : d[k].key # x
    BY ONLY <1>4, <1>9
  <2>2. P[0]
    BY <1>5, <1>6
  <2>3. ASSUME NEW m \in Nat, P[m]
        PROVE  P[m + 1]
    <3>1. m + 1 \in Nat /\ (m + 1) - 1 = m
      OBVIOUS
    <3>2. P[m + 1] <=> (m + 1 <= Len(d) => q[m + 1] = r[m + 1])
      BY ONLY <3>1
    <3>3. P[m] <=> (m <= Len(d) => q[m] = r[m])
      OBVIOUS
    <3> HIDE DEF P
    <3>4. SUFFICES ASSUME m + 1 <= Len(d)
                   PROVE  q[m + 1] = r[m + 1]
      BY ONLY <3>2, <3>4
    <3>5. m + 1 \in 1..Len(d) /\ m <= Len(d)
      BY <1>1, <3>4
    <3>6. /\ r[m + 1] = Unless(all, r[(m + 1) - 1], d[m + 1])
          /\ q[m + 1] = Unless(ids, q[(m + 1) - 1], d[m + 1])
      BY <1>5, <1>6, <2>1, <3>5
    <3>7. q[m] = r[m]
      BY <2>3, <3>3, <3>5
    <3>8. Unless(all, r[m], d[m + 1]) = Unless(ids, r[m], d[m + 1])
      BY <1>7, <2>1, <3>5
    <3>. QED
      BY ONLY <3>1, <3>6, <3>7, <3>8
  <2>4. P[Len(d)]
    <3>1. P \in [Nat -> BOOLEAN]
      OBVIOUS
    <3> HIDE DEF P
    <3>2. \A m \in Nat : P[m]
      BY ONLY <2>2, <2>3, <3>1, NumberInduction
    <3>. QED
      BY <1>1, <3>2
  <2>5. Len(d) <= Len(d) /\ Len(d) = Len(c)
    BY <1>1, <2>1
  <2>. QED
    BY <1>1, <2>4, <2>5
<1>10. r[Len(d)] = q[Len(c)]
  BY ONLY <1>8, <1>9
<1>. QED
  BY <1>5, <1>6, <1>10 DEF c

\* The operators of the abstract index are those of the detailed one.
LEMMA SameOperators ==
    /\ \A d, s : Atomic!PutAll(d, s) = Abstract!PutAll(d, s)
    /\ \A d, ids : Atomic!DeleteAll(d, ids) = Abstract!DeleteAll(d, ids)
    /\ \A d : Atomic!ValueList(d) = ValueList(d)
<1>1. \A d, s : Atomic!PutAll(d, s) = Abstract!PutAll(d, s)
  BY DEF Abstract!PutAll, Abstract!FoldLeft, Abstract!MapThenFoldSet, Abstract!Max,
         Abstract!Put, Abstract!Has, Abstract!Entry,
         Atomic!PutAll, Atomic!FoldLeft, Atomic!MapThenFoldSet, Atomic!Max,
         Atomic!Put, Atomic!Has, Atomic!Entry
<1>2. \A d, ids : Atomic!DeleteAll(d, ids) = Abstract!DeleteAll(d, ids)
  BY DEF Abstract!DeleteAll, Abstract!FoldLeft, Abstract!MapThenFoldSet, Abstract!Max,
         Atomic!DeleteAll, Atomic!FoldLeft, Atomic!MapThenFoldSet, Atomic!Max
<1>3. \A d : Atomic!ValueList(d) = ValueList(d)
  BY DEF Atomic!ValueList, ValueList
<1>. QED
  BY <1>1, <1>2, <1>3

\* What a search pairs up is what the abstract search returns.
LEMMA SameHits ==
    ASSUME NEW q, NEW docs, NEW d
    PROVE  Atomic!Hits(q, docs, d)
             = {Hit(Rank(Scores(q, docs), i), d[Place(Scores(q, docs), i)].key,
                    d[Place(Scores(q, docs), i)].val, docs[i]) : i \in Kept(Scores(q, docs))}
  BY DEF Atomic!Hits, Atomic!Scores, Atomic!Hit, Atomic!Best, Atomic!Rank, Atomic!Before, Atomic!Cardinality,
         Kept, Scores, Hit, Best, Rank, Before, Place, Cardinality

\* A caller who is alone finds the two dicts equal, but for the entry at hand.
AtomicOK(t) ==
    /\ pc[t] # "addTokens" => tokens = byId
    /\ pc[t] = "addTokens" => byId = Put(tokens, Head(todo[t]).key, Head(todo[t]).val)
    /\ pc[t] \in {"score", "match"} => query[t] \notin Tokenless

AtomicInv == OneCaller => \A t \in use.callers : AtomicOK(t)

LEMMA HeadAndTail ==
    ASSUME NEW E, NEW s \in Seq(E), s # <<>>
    PROVE  ToSet(s) = ToSet(Tail(s)) \cup {Head(s)}
<1>1. /\ Len(s) \in Nat \ {0} /\ DOMAIN s = 1..Len(s) /\ Head(s) = s[1]
      /\ DOMAIN Tail(s) = 1..(Len(s) - 1)
      /\ \A i \in 1..(Len(s) - 1) : Tail(s)[i] = s[i + 1]
  OBVIOUS
<1>2. \A i \in 1..Len(s) : i = 1 \/ (i - 1 \in 1..(Len(s) - 1) /\ (i - 1) + 1 = i)
  BY <1>1
<1>3. 1 \in 1..Len(s) /\ \A i \in 1..(Len(s) - 1) : i + 1 \in 1..Len(s)
  BY <1>1
<1>4. ASSUME NEW e \in ToSet(s)
      PROVE  e \in ToSet(Tail(s)) \cup {Head(s)}
  <2>1. PICK i \in 1..Len(s) : e = s[i]
    BY <1>1, <1>4 DEF ToSet
  <2>2. CASE i = 1
    BY <1>1, <2>1, <2>2
  <2>3. CASE i - 1 \in 1..(Len(s) - 1) /\ (i - 1) + 1 = i
    <3>1. Tail(s)[i - 1] = e /\ i - 1 \in DOMAIN Tail(s)
      BY <1>1, <2>1, <2>3
    <3>. QED
      BY ONLY <3>1 DEF ToSet
  <2>. QED
    BY <1>2, <2>2, <2>3
<1>5. ASSUME NEW e \in ToSet(Tail(s))
      PROVE  e \in ToSet(s)
  <2>1. PICK i \in DOMAIN Tail(s) : e = Tail(s)[i]
    BY ONLY <1>5 DEF ToSet
  <2>2. e = s[i + 1] /\ i + 1 \in DOMAIN s
    BY <1>1, <1>3, <2>1
  <2>. QED
    BY ONLY <2>2 DEF ToSet
<1>6. Head(s) \in ToSet(s)
  BY <1>1, <1>3 DEF ToSet
<1>. QED
  BY ONLY <1>4, <1>5, <1>6

LEMMA NextAtomicInv == TypeInv /\ AtomicInv /\ [Next]_vars => AtomicInv'
<1> SUFFICES ASSUME TypeInv, AtomicInv, [Next]_vars
             PROVE  AtomicInv'
  OBVIOUS
<1>1. CASE UNCHANGED vars
  BY <1>1 DEF vars, AtomicInv, AtomicOK, OneCaller
<1>2. CASE Next
  <2>1. UNCHANGED use
    BY <1>2 DEF Next
  <2>2. PICK t \in use.callers :
           \/ AddStep(t) \/ \E b \in Batches : CallAdd(t, b)
           \/ RemoveStep(t) \/ \E ids \in Removals : CallRemove(t, ids)
           \/ SearchStep(t) \/ \E q \in Queries : CallSearch(t, q)
    BY <1>2 DEF Next
  <2>3. t \in Threads /\ ThreadOK(t) /\ Locals /\ SharedOK
    BY CallersAreThreads DEF TypeInv
  <2>4. SUFFICES ASSUME OneCaller
                 PROVE  AtomicOK(t)'
    <3>1. OneCaller' = OneCaller
      BY <2>1 DEF OneCaller
    <3>2. OneCaller => use.callers' = {t}
      BY <2>1, CallerIsAlone
    <3>. QED
      BY <2>4, <3>1, <3>2 DEF AtomicInv
  <2>5. AtomicOK(t)
    BY <2>4 DEF AtomicInv
  <2> USE DEF AtomicOK
  <2>6. CASE StoreChunk(t)
    <3>1. /\ pc[t] = "add" /\ pc'[t] = "addTokens" /\ UNCHANGED <<tokens, todo>>
          /\ byId' = Put(byId, Head(todo[t]).key, Head(todo[t]).val)
      BY <2>3, <2>6 DEF StoreChunk, Goto, Locals
    <3>. QED
      BY <2>5, <3>1
  <2>7. CASE StoreTokens(t)
    <3>1. /\ pc[t] = "addTokens" /\ pc'[t] = "add" /\ UNCHANGED byId
          /\ tokens' = Put(tokens, Head(todo[t]).key, Head(todo[t]).val)
      BY <2>3, <2>7 DEF StoreTokens, SetTokens, Goto, Locals
    <3>. QED
      BY <2>5, <3>1
  <2>8. CASE RemoveOne(t)
    <3>1. /\ pc[t] = "remove" /\ pc'[t] = "remove"
          /\ \/ UNCHANGED <<byId, tokens>>
             \/ /\ byId' = Delete(byId, Head(todo[t]))
                /\ tokens' = Delete(tokens, Head(todo[t]))
      BY <2>3, <2>8 DEF RemoveOne, Locals
    <3>. QED
      BY <2>5, <3>1
  <2>9. CASE CheckBuilt(t)
    <3>1. /\ pc[t] = "guard" /\ UNCHANGED <<byId, tokens, query>>
          /\ pc'[t] \in {"idle", "score"}
          /\ pc'[t] = "score" => query[t] \notin Tokenless
      BY <2>3, <2>9 DEF CheckBuilt, Goto, shared, Locals
    <3>. QED
      BY <2>5, <3>1
  <2>10. CASE /\ pc[t] # "addTokens" /\ pc'[t] \notin {"addTokens", "score", "match"}
              /\ UNCHANGED <<byId, tokens>>
    BY <2>5, <2>10
  <2>11. CASE GetScores(t)
    <3>1. /\ pc[t] = "score" /\ pc'[t] \in {"idle", "match"} /\ UNCHANGED <<byId, tokens, query>>
      BY <2>3, <2>11 DEF GetScores, Goto, shared, Locals
    <3>. QED
      BY <2>5, <3>1
  <2>12. CASE FinishAdd(t) \/ FinishRemove(t)
    BY <2>3, <2>10, <2>12 DEF FinishAdd, FinishRemove, Finish, Goto, Locals
  <2>13. CASE \/ \E b \in Batches : CallAdd(t, b)
              \/ \E ids \in Removals : CallRemove(t, ids)
              \/ \E q \in Queries : CallSearch(t, q)
    BY <2>3, <2>10, <2>13 DEF CallAdd, CallRemove, CallSearch, Goto, shared, Locals
  <2>14. CASE CheckDirty(t) \/ Snapshot(t) \/ Build(t) \/ ClearDirty(t) \/ MatchIds(t)
    BY <2>3, <2>10, <2>14 DEF CheckDirty, Snapshot, Build, ClearDirty, MatchIds, Goto, shared, Locals
  <2> HIDE DEF AtomicOK
  <2>. QED
    BY <2>2, <2>6, <2>7, <2>8, <2>9, <2>11, <2>12, <2>13, <2>14
       DEF AddStep, RemoveStep, SearchStep
<1>. QED
  BY <1>1, <1>2

\* The abstract index of the one caller.
LEMMA PendingOfCaller ==
    ASSUME TypeInv, OneCaller, NEW t \in use.callers, UNCHANGED use
    PROVE  TheCaller = t /\ TheCaller' = t
<1>1. use.callers = {t}
  BY CallerIsAlone
<1>. QED
  BY <1>1 DEF TheCaller

\* What a step of the abstract index is, in terms of the detailed one.
LEMMA AtomicSteps ==
    ASSUME TypeInv, OneCaller, NEW t \in use.callers, UNCHANGED use,
           \/ /\ Pending(t)' = Pending(t)
              /\ found' = found \/ found' = [found EXCEPT ![t] = {}]
           \/ \E b \in Batches : Pending(t)' = Abstract!PutAll(Pending(t), b) /\ found' = found
           \/ \E ids \in Removals :
                 Pending(t)' = Abstract!DeleteAll(Pending(t), ToSet(ids)) /\ found' = found
           \/ \E q \in Queries \ Tokenless :
                 /\ Pending(t)' = Pending(t)
                 /\ found' = [found EXCEPT ![t] =
                                 Atomic!Hits(q, ValueList(Pending(t)), Pending(t))]
    PROVE  \/ Atomic!ANext(Batches, {ToSet(r) : r \in Removals})
           \/ UNCHANGED Atomic!avars
<1>1. TheCaller = t /\ TheCaller' = t
  BY PendingOfCaller
<1>2. t \in Threads
  BY CallersAreThreads
<1>3. CASE Pending(t)' = Pending(t) /\ found' = found
  BY <1>1, <1>3 DEF Atomic!avars
<1>4. CASE Pending(t)' = Pending(t) /\ found' = [found EXCEPT ![t] = {}]
  <2>1. Atomic!AForget(t)
    BY <1>1, <1>4 DEF Atomic!AForget
  <2>. QED
    BY <1>2, <2>1 DEF Atomic!ANext
<1>5. ASSUME NEW b \in Batches,
             Pending(t)' = Abstract!PutAll(Pending(t), b), found' = found
      PROVE  Atomic!ANext(Batches, {ToSet(r) : r \in Removals})
  <2>1. Atomic!AAdd(b)
    BY <1>1, <1>5, SameOperators DEF Atomic!AAdd
  <2>. QED
    BY <2>1 DEF Atomic!ANext
<1>6. ASSUME NEW ids \in Removals,
             Pending(t)' = Abstract!DeleteAll(Pending(t), ToSet(ids)), found' = found
      PROVE  Atomic!ANext(Batches, {ToSet(r) : r \in Removals})
  <2>1. Atomic!ARemove(ToSet(ids))
    BY <1>1, <1>6, SameOperators DEF Atomic!ARemove
  <2>. QED
    BY <2>1 DEF Atomic!ANext
<1>7. ASSUME NEW q \in Queries \ Tokenless, Pending(t)' = Pending(t),
             found' = [found EXCEPT ![t] =
                         Atomic!Hits(q, ValueList(Pending(t)), Pending(t))]
      PROVE  Atomic!ANext(Batches, {ToSet(r) : r \in Removals})
  <2>1. Atomic!ASearch(t, q)
    BY <1>1, <1>7, SameOperators DEF Atomic!ASearch
  <2>. QED
    BY <1>2, <2>1 DEF Atomic!ANext
<1>. QED
  BY <1>3, <1>4, <1>5, <1>6, <1>7

LEMMA NextRefines ==
    OneCaller /\ TypeInv /\ AloneInv /\ AtomicInv /\ [Next]_vars
      => [Atomic!ANext(Batches, {ToSet(r) : r \in Removals})]_Atomic!avars
<1> SUFFICES ASSUME OneCaller, TypeInv, AloneInv, AtomicInv, [Next]_vars
             PROVE  \/ Atomic!ANext(Batches, {ToSet(r) : r \in Removals})
                    \/ UNCHANGED Atomic!avars
  OBVIOUS
<1>1. CASE UNCHANGED vars
  BY <1>1 DEF vars, Atomic!avars, TheCaller, Pending
<1>2. CASE Next
  <2>1. UNCHANGED use
    BY <1>2 DEF Next
  <2>2. PICK t \in use.callers :
           \/ AddStep(t) \/ \E b \in Batches : CallAdd(t, b)
           \/ RemoveStep(t) \/ \E ids \in Removals : CallRemove(t, ids)
           \/ SearchStep(t) \/ \E q \in Queries : CallSearch(t, q)
    BY <1>2 DEF Next
  <2>3. t \in Threads /\ ThreadOK(t) /\ Locals /\ SharedOK /\ AtomicOK(t) /\ AloneOK(t)
    BY CallersAreThreads DEF TypeInv, AtomicInv, AloneInv, AloneOK
  <2> DEFINE Stutter == Pending(t)' = Pending(t) /\ found' = found
  <2>4. CASE Stutter
    BY <2>1, <2>4, AtomicSteps
  <2>5. ASSUME NEW b \in Batches, CallAdd(t, b)
        PROVE  Pending(t)' = Abstract!PutAll(Pending(t), b) /\ found' = found
    <3>1. /\ pc[t] = "idle" /\ pc'[t] = "add" /\ todo'[t] = b /\ byId' = byId
          /\ found' = found
      BY <2>3, <2>5 DEF CallAdd, Goto, shared, Locals
    <3>. QED
      BY <3>1 DEF Pending
  <2>6. CASE StoreChunk(t)
    <3>1. /\ pc[t] = "add" /\ pc'[t] = "addTokens" /\ todo'[t] = todo[t] /\ todo[t] # <<>>
          /\ byId' = Put(byId, Head(todo[t]).key, Head(todo[t]).val) /\ found' = found
      BY <2>3, <2>6 DEF StoreChunk, Goto, Locals
    <3>2. byId \in Seq(Entries) /\ todo[t] \in Seq(Entries)
      BY <2>3, <3>1 DEF SharedOK, ThreadOK
    <3>3. Abstract!PutAll(byId, todo[t])
            = Abstract!PutAll(Put(byId, Head(todo[t]).key, Head(todo[t]).val), Tail(todo[t]))
      BY <3>1, <3>2, PutAllHead
    <3>4. Pending(t) = Abstract!PutAll(byId, todo[t])
      BY <3>1 DEF Pending
    <3>5. Pending(t)' = Abstract!PutAll(byId', Tail(todo'[t]))
      BY <3>1 DEF Pending
    <3>6. Stutter
      BY ONLY <3>1, <3>3, <3>4, <3>5
    <3>. QED
      BY <2>4, <3>6
  <2>7. CASE StoreTokens(t)
    <3>1. /\ pc[t] = "addTokens" /\ pc'[t] = "add" /\ todo'[t] = Tail(todo[t])
          /\ byId' = byId /\ found' = found
      BY <2>3, <2>7 DEF StoreTokens, SetTokens, Goto, Locals
    <3>2. Stutter
      BY <3>1 DEF Pending
    <3>. QED
      BY <2>4, <3>2
  <2>8. CASE FinishAdd(t)
    <3>1. /\ pc[t] = "add" /\ pc'[t] = "idle" /\ todo[t] = <<>>
          /\ byId' = byId /\ found' = found
      BY <2>3, <2>8 DEF FinishAdd, Finish, Goto, Locals
    <3>2. Abstract!PutAll(byId, <<>>) = byId
      BY <2>3, PutAllHead DEF SharedOK
    <3>3. Stutter
      BY <3>1, <3>2 DEF Pending
    <3>. QED
      BY <2>4, <3>3
  <2>9. ASSUME NEW ids \in Removals, CallRemove(t, ids)
        PROVE  Pending(t)' = Abstract!DeleteAll(Pending(t), ToSet(ids)) /\ found' = found
    <3>1. /\ pc[t] = "idle" /\ pc'[t] = "remove" /\ todo'[t] = ids /\ byId' = byId
          /\ found' = found
      BY <2>3, <2>9 DEF CallRemove, Goto, shared, Locals
    <3>. QED
      BY <3>1 DEF Pending
  <2>10. CASE RemoveOne(t)
    <3> DEFINE x == Head(todo[t])
    <3>1. /\ pc[t] = "remove" /\ pc'[t] = "remove" /\ todo[t] # <<>>
          /\ todo'[t] = Tail(todo[t]) /\ byId' = Delete(byId, x) /\ found' = found
      BY <2>3, <2>10 DEF RemoveOne, Locals, Delete
    <3>2. byId \in Seq(Entries) /\ IsDict(byId) /\ todo[t] \in Seq(RemovalIds)
      BY <2>3, <3>1 DEF SharedOK, ThreadOK
    <3>3. ToSet(todo[t]) = ToSet(Tail(todo[t])) \cup {x}
      BY <3>1, <3>2, HeadAndTail
    <3>4. Abstract!DeleteAll(byId, ToSet(todo[t]))
            = Abstract!DeleteAll(Delete(byId, x), ToSet(Tail(todo[t])))
      BY ONLY <3>2, <3>3, DeleteOneByOne
    <3>5. Pending(t) = Abstract!DeleteAll(byId, ToSet(todo[t]))
      BY <3>1 DEF Pending
    <3>6. Pending(t)' = Abstract!DeleteAll(byId', ToSet(todo'[t]))
      BY <3>1 DEF Pending
    <3>7. Stutter
      BY ONLY <3>1, <3>4, <3>5, <3>6
    <3>. QED
      BY <2>4, <3>7
  <2>11. CASE FinishRemove(t)
    <3>1. /\ pc[t] = "remove" /\ pc'[t] = "idle" /\ todo[t] = <<>>
          /\ byId' = byId /\ found' = found
      BY <2>3, <2>11 DEF FinishRemove, Finish, Goto, Locals
    <3>2. Abstract!DeleteAll(byId, ToSet(<<>>)) = byId
      <4>1. ToSet(<<>>) = {}
        BY DEF ToSet
      <4>. QED
        BY <2>3, <4>1, DeleteNone DEF SharedOK
    <3>3. Stutter
      BY <3>1, <3>2 DEF Pending
    <3>. QED
      BY <2>4, <3>3
  <2>12. ASSUME NEW q \in Queries, CallSearch(t, q)
         PROVE  Pending(t)' = Pending(t) /\ found' = [found EXCEPT ![t] = {}]
    <3>1. /\ pc[t] = "idle" /\ pc'[t] = "check" /\ byId' = byId
          /\ found' = [found EXCEPT ![t] = {}]
      BY <2>3, <2>12 DEF CallSearch, Goto, shared, Locals
    <3>. QED
      BY <3>1 DEF Pending
  <2>13. CASE CheckDirty(t) \/ Snapshot(t) \/ Build(t) \/ ClearDirty(t) \/ CheckBuilt(t) \/ GetScores(t)
    <3>1. /\ pc[t] \notin {"add", "addTokens", "remove"}
          /\ pc'[t] \notin {"add", "addTokens", "remove"}
          /\ byId' = byId /\ found' = found
      BY <2>3, <2>13 DEF CheckDirty, Snapshot, Build, ClearDirty, CheckBuilt, GetScores, Goto,
                         shared, Locals
    <3>2. Stutter
      BY <3>1 DEF Pending
    <3>. QED
      BY <2>4, <3>2
  <2>14. CASE MatchIds(t)
    <3> DEFINE q == query[t]
               score == Scores(q, corpus[t])
    <3>1. /\ pc[t] = "match" /\ pc'[t] = "idle" /\ byId' = byId
      BY <2>3, <2>14 DEF MatchIds, Goto, shared, Locals
    <3>2. corpus[t] = ValueList(byId) /\ q \in Queries \ Tokenless
      BY <2>3, <3>1 DEF AtomicOK, AloneOK, ThreadOK
    <3>3. Kept(score) \subseteq DOMAIN byId
      <4>1. corpus[t] \in Seq(Contents)
        BY <2>3 DEF ThreadOK
      <4>2. Kept(score) \subseteq DOMAIN corpus[t]
        BY <4>1, KeptRanks
      <4>. QED
        BY <3>2, <4>2 DEF ValueList
    <3>4. {Place(score, i) : i \in Kept(score)} \subseteq DOMAIN byId
      BY <3>3 DEF Place
    <3>5. found' = [found EXCEPT ![t] = Atomic!Hits(q, corpus[t], byId)]
      BY <2>14, <3>4, SameHits DEF MatchIds
    <3>6. Pending(t) = byId /\ Pending(t)' = byId
      BY <3>1 DEF Pending
    <3>. QED
      BY <2>1, <3>2, <3>5, <3>6, AtomicSteps
  <2>15. CASE \/ \E b \in Batches : CallAdd(t, b)
              \/ \E ids \in Removals : CallRemove(t, ids)
              \/ \E q \in Queries : CallSearch(t, q)
    BY <2>1, <2>5, <2>9, <2>12, <2>15, AtomicSteps
  <2>. QED
    BY <2>2, <2>6, <2>7, <2>8, <2>10, <2>11, <2>13, <2>14, <2>15
       DEF AddStep, RemoveStep, SearchStep
<1>. QED
  BY <1>1, <1>2

\* For a caller that has the index for itself, each add, remove and search takes effect
\* at one instant, and a search ranks exactly the chunks stored then: nothing of the
\* rebuild that is put off to the next search can be seen.  (vector_store.py:99-159)
THEOREM IndexRefinesAtomic == Spec => RefinesAtomic
<1> DEFINE I == TypeInv /\ AloneInv /\ AtomicInv
           Step == OneCaller => Atomic!ANext(Batches, {ToSet(r) : r \in Removals})
<1>1. Init => I
  <2>1. Init => AtomicInv
    BY LexicalAssumption DEF Init, AtomicInv, AtomicOK, LexicalAssumption
  <2>. QED
    BY <2>1, InitTypeInv, InitRest
<1>2. I /\ [Next]_vars => I'
  BY NextTypeInv, NextAloneInv, NextAtomicInv
<1>3. I /\ [Next]_vars => [Step]_Atomic!avars
  BY NextRefines
<1>4. Init => Atomic!AInit
  <2>1. SUFFICES ASSUME Init
                 PROVE  Pending(TheCaller) = <<>> /\ found = [t \in Threads |-> {}]
    BY DEF Atomic!AInit
  <2>2. TheCaller \in Threads
    <3>1. use \in [callers : (SUBSET Threads) \ {{}}, queries : SUBSET Queries,
                   writes : Nat]
      BY <2>1, LexicalAssumption DEF Init
    <3>2. use.callers \in (SUBSET Threads) \ {{}}
      BY ONLY <3>1
    <3>. QED
      BY <3>2 DEF TheCaller
  <2>3. pc[TheCaller] = "idle" /\ byId = <<>>
    BY <2>1, <2>2 DEF Init
  <2>. QED
    BY <2>1, <2>3 DEF Init, Pending
<1>. QED
  BY <1>1, <1>2, <1>3, <1>4, PTL DEF Spec, RefinesAtomic
=============================================================================
