------------------------------- MODULE AppProofs ------------------------------
(***************************************************************************)
(* Proofs about the cache registry and the application that uses it, for   *)
(* every number of threads, requests, keys and cache entries.  No cache    *)
(* grows past its bound, and what a full one drops is the entry that was   *)
(* used longest ago.  Whatever the handlers do, the cache registry takes a *)
(* step of module Cache or none, so that the theorems about the cache hold *)
(* inside the application; the race for the orchestrator loses nothing but *)
(* what the racing requests store; and the figures of /metrics agree with  *)
(* each other and with the caches.                                         *)
(***************************************************************************)
EXTENDS App, Induction, SequenceTheorems

-----------------------------------------------------------------------------
(* The LRU cache and its registry.                                         *)

\* del d[k] of a key that is present removes one entry and leaves a dict.
LEMMA DeleteIsDict ==
    ASSUME NEW E, NEW d \in Seq(E), IsDict(d), NEW k, Has(d, k)
    PROVE  /\ Delete(d, k) \in Seq(E)
           /\ Len(Delete(d, k)) = Len(d) - 1
           /\ IsDict(Delete(d, k))
           /\ ~Has(Delete(d, k), k)
<1> DEFINE p == PlaceOf(d, k)
           e == Delete(d, k)
<1>1. p \in DOMAIN d /\ d[p].key = k
  BY DEF Has, PlaceOf
<1>2. e = [i \in 1..(Len(d) - 1) |-> IF i < p THEN d[i] ELSE d[i + 1]]
  BY DEF Delete
<1> HIDE DEF p, e
<1>3. /\ DOMAIN d = 1..Len(d) /\ Len(d) \in Nat /\ p \in 1..Len(d)
      /\ \A i \in 1..Len(d) : d[i] \in E
  BY <1>1
<1>4. e \in Seq(E) /\ Len(e) = Len(d) - 1 /\ DOMAIN e = 1..(Len(d) - 1)
  BY <1>2, <1>3
<1>5. IsDict(e)
  <2> SUFFICES ASSUME NEW i \in DOMAIN e, NEW j \in DOMAIN e, e[i].key = e[j].key
               PROVE  i = j
    BY DEF IsDict
  <2> DEFINE from(n) == IF n < p THEN n ELSE n + 1
  <2>1. i \in 1..(Len(d) - 1) /\ j \in 1..(Len(d) - 1)
    BY <1>4
  <2>2. from(i) \in DOMAIN d /\ from(j) \in DOMAIN d /\ e[i] = d[from(i)] /\ e[j] = d[from(j)]
    BY <1>2, <1>3, <2>1
  <2>3. from(i) = from(j)
    BY <2>2 DEF IsDict
  <2>. QED
    BY <1>3, <2>1, <2>3
<1>6. ~Has(e, k)
  <2> SUFFICES ASSUME NEW i \in DOMAIN e, e[i].key = k
               PROVE  FALSE
    BY DEF Has
  <2> DEFINE a == IF i < p THEN i ELSE i + 1
  <2>1. i \in 1..(Len(d) - 1)
    BY <1>4
  <2>2. a \in DOMAIN d /\ e[i] = d[a] /\ a # p
    BY <1>2, <1>3, <2>1
  <2>. QED
    BY <1>1, <2>2 DEF IsDict
<1>. QED
  BY <1>4, <1>5, <1>6 DEF e

\* d[k] = v leaves a dict with k in it, one entry longer only if k was not there.
LEMMA PutIsDict ==
    ASSUME NEW E, NEW d \in Seq(E), IsDict(d),
           NEW k, NEW v, Entry(k, v) \in E
    PROVE  /\ Put(d, k, v) \in Seq(E)
           /\ Len(Put(d, k, v)) = IF Has(d, k) THEN Len(d) ELSE Len(d) + 1
           /\ IsDict(Put(d, k, v))
<1>1. Entry(k, v) \in E /\ Entry(k, v).key = k
  BY DEF Entry
<1>2. /\ DOMAIN d = 1..Len(d) /\ Len(d) \in Nat
      /\ \A i \in 1..Len(d) : d[i] \in E
  OBVIOUS
<1>3. CASE Has(d, k)
  <2> DEFINE e == [i \in DOMAIN d |-> IF d[i].key = k THEN Entry(k, v) ELSE d[i]]
  <2>1. Put(d, k, v) = e
    BY <1>3 DEF Put
  <2>2. e \in Seq(E) /\ Len(e) = Len(d) /\ DOMAIN e = DOMAIN d
    BY <1>1, <1>2
  <2>3. \A i \in DOMAIN d : e[i].key = d[i].key
    BY <1>1
  <2> HIDE DEF e
  <2>4. IsDict(e)
    BY <2>2, <2>3 DEF IsDict
  <2>. QED
    BY <1>3, <2>1, <2>2, <2>4
<1>4. CASE ~Has(d, k)
  <2> DEFINE e == Append(d, Entry(k, v))
  <2>1. Put(d, k, v) = e
    BY <1>4 DEF Put
  <2>2. /\ e \in Seq(E) /\ Len(e) = Len(d) + 1
        /\ DOMAIN e = 1..(Len(d) + 1)
        /\ e[Len(d) + 1] = Entry(k, v)
        /\ \A i \in 1..Len(d) : e[i] = d[i]
    BY <1>1, <1>2
  <2> HIDE DEF e
  <2>3. IsDict(e)
    <3> SUFFICES ASSUME NEW i \in DOMAIN e, NEW j \in DOMAIN e, e[i].key = e[j].key
                 PROVE  i = j
      BY DEF IsDict
    <3>1. CASE i \in 1..Len(d) /\ j \in 1..Len(d)
      BY <1>2, <2>2, <3>1 DEF IsDict
    <3>2. CASE i = Len(d) + 1 \/ j = Len(d) + 1
      BY <1>1, <1>2, <1>4, <2>2, <3>2 DEF Has
    <3>. QED
      BY <1>2, <2>2, <3>1, <3>2
  <2>. QED
    BY <1>4, <2>1, <2>2, <2>3
<1>. QED
  BY <1>3, <1>4

\* move_to_end(k) of a key that is present keeps the dict and its length.
LEMMA MoveToEndIsDict ==
    ASSUME NEW E, NEW d \in Seq(E), IsDict(d), NEW k, Has(d, k),
           Entry(k, Lookup(d, k)) \in E
    PROVE  /\ MoveToEnd(d, k) \in Seq(E)
           /\ Len(MoveToEnd(d, k)) = Len(d)
           /\ IsDict(MoveToEnd(d, k))
           /\ Has(MoveToEnd(d, k), k)
<1> DEFINE e == Delete(d, k)
           x == Entry(k, Lookup(d, k))
           a == Append(e, x)
<1>1. e \in Seq(E) /\ Len(e) = Len(d) - 1 /\ IsDict(e) /\ ~Has(e, k)
  BY DeleteIsDict
<1>2. MoveToEnd(d, k) = a
  BY DEF MoveToEnd
<1>3. x \in E /\ x.key = k
  BY DEF Entry
<1> HIDE DEF e, x
<1>4. /\ a \in Seq(E) /\ Len(a) = Len(e) + 1 /\ DOMAIN a = 1..(Len(e) + 1)
      /\ DOMAIN e = 1..Len(e) /\ Len(e) \in Nat
      /\ a[Len(e) + 1] = x
      /\ \A i \in 1..Len(e) : a[i] = e[i]
  BY <1>1, <1>3
<1> HIDE DEF a
<1>5. IsDict(a)
  <2> SUFFICES ASSUME NEW i \in DOMAIN a, NEW j \in DOMAIN a, a[i].key = a[j].key
               PROVE  i = j
    BY DEF IsDict
  <2>1. CASE i \in 1..Len(e) /\ j \in 1..Len(e)
    BY <1>1, <1>4, <2>1 DEF IsDict
  <2>2. CASE i = Len(e) + 1 \/ j = Len(e) + 1
    BY <1>1, <1>3, <1>4, <2>2 DEF Has
  <2>. QED
    BY <1>4, <2>1, <2>2
<1>6. Has(a, k)
  BY <1>3, <1>4 DEF Has
<1>. QED
  BY <1>1, <1>2, <1>4, <1>5, <1>6

\* Popping the oldest entry of a dict that is one over the bound restores it.
LEMMA EvictBounds ==
    ASSUME NEW E, NEW d \in Seq(E), IsDict(d), Len(d) <= MaxEntries + 1
    PROVE  /\ Evict(d) \in Seq(E)
           /\ IsDict(Evict(d))
           /\ Len(Evict(d)) <= MaxEntries
<1>1. MaxEntries \in Nat \ {0}
  BY CacheAssumption DEF CacheAssumption
<1>2. CASE Len(d) > MaxEntries
  <2>1. Evict(d) = Tail(d)
    BY <1>2 DEF Evict
  <2>2. /\ Tail(d) \in Seq(E) /\ Len(Tail(d)) = Len(d) - 1
        /\ DOMAIN Tail(d) = 1..(Len(d) - 1) /\ DOMAIN d = 1..Len(d) /\ Len(d) \in Nat
        /\ \A i \in 1..(Len(d) - 1) : Tail(d)[i] = d[i + 1]
    BY <1>1, <1>2
  <2>3. IsDict(Tail(d))
    <3> SUFFICES ASSUME NEW i \in DOMAIN Tail(d), NEW j \in DOMAIN Tail(d),
                        Tail(d)[i].key = Tail(d)[j].key
                 PROVE  i = j
      BY DEF IsDict
    <3>1. i + 1 \in DOMAIN d /\ j + 1 \in DOMAIN d /\ d[i + 1].key = d[j + 1].key
      BY <2>2
    <3>2. i + 1 = j + 1
      BY <3>1 DEF IsDict
    <3>. QED
      BY <2>2, <3>2
  <2>. QED
    BY <1>1, <2>1, <2>2, <2>3
<1>3. CASE ~(Len(d) > MaxEntries)
  BY <1>1, <1>3 DEF Evict
<1>. QED
  BY <1>2, <1>3

-----------------------------------------------------------------------------
\* What a cache object must be: well typed, a dict, within its bound.
Sound(c) == /\ c \in Objects
            /\ IsDict(c.data) /\ IsDict(c.used)
            /\ Len(c.data) <= MaxEntries

LEMMA UseIsDict ==
    ASSUME NEW u \in Seq(Marks), IsDict(u), NEW k \in Keys
    PROVE  Use(u, k) \in Seq(Marks) /\ IsDict(Use(u, k))
<1>1. Entry(k, "used") \in Marks
  BY DEF Entry, Marks
<1>2. CASE Has(u, k)
  <2>1. PlaceOf(u, k) \in DOMAIN u
    BY <1>2 DEF Has, PlaceOf
  <2>2. u[PlaceOf(u, k)] \in Marks
    BY <2>1
  <2>3. Lookup(u, k) = "used"
    BY <2>2 DEF Lookup, Marks
  <2>4. MoveToEnd(u, k) \in Seq(Marks) /\ IsDict(MoveToEnd(u, k))
    BY <1>1, <1>2, <2>3, MoveToEndIsDict
  <2>. QED
    BY <1>2, <2>4 DEF Use
<1>3. CASE ~Has(u, k)
  BY <1>1, <1>3, PutIsDict DEF Use
<1>. QED
  BY <1>2, <1>3

\* The value of a key that is present is a result.
LEMMA LookupType ==
    ASSUME NEW d \in Seq(Results), NEW k \in Keys, Has(d, k)
    PROVE  Lookup(d, k) \in Values /\ Entry(k, Lookup(d, k)) \in Results
<1>1. PlaceOf(d, k) \in DOMAIN d
  BY DEF Has, PlaceOf
<1>2. d[PlaceOf(d, k)] \in Results
  BY <1>1
<1>. QED
  BY <1>2 DEF Lookup, Entry, Results

LEMMA EmptyIsSound == Sound(EmptyCache)
  BY CacheAssumption DEF Sound, EmptyCache, Objects, IsDict, CacheAssumption

\* A hit, a miss and a put keep a cache object sound.
LEMMA FoundIsSound ==
    ASSUME NEW c, Sound(c), NEW k \in Keys, Has(c.data, k)
    PROVE  Sound(Found(c, k))
<1>1. /\ c.data \in Seq(Results) /\ IsDict(c.data) /\ Len(c.data) <= MaxEntries
      /\ c.used \in Seq(Marks) /\ IsDict(c.used)
      /\ c.hits \in Nat /\ c.misses \in Nat
  BY DEF Sound, Objects
<1>2. Entry(k, Lookup(c.data, k)) \in Results
  BY <1>1, LookupType
<1>3. /\ MoveToEnd(c.data, k) \in Seq(Results)
      /\ Len(MoveToEnd(c.data, k)) = Len(c.data)
      /\ IsDict(MoveToEnd(c.data, k))
  BY <1>1, <1>2, MoveToEndIsDict
<1>4. Use(c.used, k) \in Seq(Marks) /\ IsDict(Use(c.used, k))
  BY <1>1, UseIsDict
<1>. QED
  BY <1>1, <1>3, <1>4 DEF Found, Sound, Objects

LEMMA NotFoundIsSound == ASSUME NEW c, Sound(c) PROVE Sound(NotFound(c))
<1>1. NotFound(c) = [data |-> c.data, hits |-> c.hits, misses |-> c.misses + 1,
                     used |-> c.used]
  BY DEF NotFound, Sound, Objects
<1>. QED
  BY <1>1 DEF Sound, Objects

LEMMA StoredIsSound ==
    ASSUME NEW c, Sound(c), NEW k \in Keys, NEW v \in Values
    PROVE  Sound(Stored(c, k, v))
<1>1. /\ c.data \in Seq(Results) /\ IsDict(c.data) /\ Len(c.data) <= MaxEntries
      /\ c.used \in Seq(Marks) /\ IsDict(c.used)
      /\ c.hits \in Nat /\ c.misses \in Nat
  BY DEF Sound, Objects
<1> DEFINE placed == IF Has(c.data, k) THEN MoveToEnd(c.data, k) ELSE c.data
           new == Put(placed, k, v)
<1>2. Entry(k, v) \in Results
  BY DEF Entry, Results
<1>3. new \in Seq(Results) /\ IsDict(new) /\ Len(new) <= MaxEntries + 1
  <2>1. MaxEntries \in Nat /\ Len(c.data) \in Nat
    BY <1>1, CacheAssumption DEF CacheAssumption
  <2>2. CASE Has(c.data, k)
    <3>1. Entry(k, Lookup(c.data, k)) \in Results
      BY <1>1, <2>2, LookupType
    <3>2. /\ MoveToEnd(c.data, k) \in Seq(Results)
          /\ Len(MoveToEnd(c.data, k)) = Len(c.data)
          /\ IsDict(MoveToEnd(c.data, k))
          /\ Has(MoveToEnd(c.data, k), k)
      BY <1>1, <2>2, <3>1, MoveToEndIsDict
    <3>3. /\ Put(MoveToEnd(c.data, k), k, v) \in Seq(Results)
          /\ Len(Put(MoveToEnd(c.data, k), k, v)) = Len(MoveToEnd(c.data, k))
          /\ IsDict(Put(MoveToEnd(c.data, k), k, v))
      BY <1>2, <3>2, PutIsDict
    <3>. QED
      BY <1>1, <2>1, <2>2, <3>2, <3>3
  <2>3. CASE ~Has(c.data, k)
    <3>1. /\ Put(c.data, k, v) \in Seq(Results)
          /\ Len(Put(c.data, k, v)) = Len(c.data) + 1
          /\ IsDict(Put(c.data, k, v))
      BY <1>1, <1>2, <2>3, PutIsDict
    <3>. QED
      BY <1>1, <2>1, <2>3, <3>1
  <2>. QED
    BY <2>2, <2>3
<1> HIDE DEF new, placed
<1>4. Evict(new) \in Seq(Results) /\ IsDict(Evict(new)) /\ Len(Evict(new)) <= MaxEntries
  BY <1>3, EvictBounds
<1>5. Use(c.used, k) \in Seq(Marks) /\ IsDict(Use(c.used, k))
  BY <1>1, UseIsDict
<1>6. Stored(c, k, v) = [data |-> Evict(new), hits |-> c.hits,
                         misses |-> c.misses, used |-> Use(c.used, k)]
  BY DEF Stored, new, placed
<1>. QED
  BY <1>1, <1>4, <1>5, <1>6 DEF Sound, Objects

-----------------------------------------------------------------------------
\* The inductive invariant: the types and the bound hold together, because put()
\* keeps the bound only of a cache that is a dict within it.
IInv == TypeOK /\ Capped

LEMMA IInvObjects == IInv => \A o \in DOMAIN caches : Sound(caches[o])
  BY DEF IInv, TypeOK, Capped, Sound

LEMMA InitIInv == Init => IInv
<1> SUFFICES ASSUME Init PROVE IInv
  OBVIOUS
<1> USE CacheAssumption DEF Init, CacheAssumption
<1>1. (CHOOSE k \in Keys : TRUE) \in Keys /\ (CHOOSE v \in Values : TRUE) \in Values
  OBVIOUS
<1>2. key \in [Threads -> Keys] /\ val \in [Threads -> Values]
  BY <1>1
<1>. QED
  BY <1>2 DEF IInv, TypeOK, Capped, Steps

\* Replacing one cache object by a sound one keeps all of them sound.
LEMMA UpdateObject ==
    ASSUME IInv, NEW o \in DOMAIN caches, NEW c, Sound(c),
           caches' = [caches EXCEPT ![o] = c]
    PROVE  /\ caches' \in Seq(Objects) /\ Len(caches') = Len(caches)
           /\ \A p \in DOMAIN caches' : /\ IsDict(caches'[p].data) /\ IsDict(caches'[p].used)
                                        /\ Len(caches'[p].data) <= MaxEntries
<1>1. c \in Objects /\ caches \in Seq(Objects)
  BY DEF IInv, TypeOK, Sound
<1>2. caches' \in Seq(Objects) /\ Len(caches') = Len(caches) /\ DOMAIN caches' = DOMAIN caches
  BY <1>1
<1>3. \A p \in DOMAIN caches : Sound(caches[p])
  BY IInvObjects
<1>4. \A p \in DOMAIN caches' : Sound(caches'[p])
  BY <1>1, <1>2, <1>3
<1>. QED
  BY <1>2, <1>4 DEF Sound

LEMMA NextIInv == IInv /\ [Next]_vars => IInv'
<1> SUFFICES ASSUME IInv, [Next]_vars
             PROVE  IInv'
    OBVIOUS
<1> USE DEF IInv
<1>1. CASE UNCHANGED vars
  BY <1>1 DEF vars, TypeOK, Capped
<1>2. ASSUME NEW t \in Threads, NEW k \in Keys, Call(t, k)
      PROVE  IInv'
  BY <1>2, CacheAssumption DEF Call, Goto, TypeOK, Capped, Steps, CacheAssumption
<1>3. ASSUME NEW t \in Threads, LookUpName(t)
      PROVE  IInv'
  BY <1>3 DEF LookUpName, Goto, TypeOK, Capped, Steps
<1>4. ASSUME NEW t \in Threads, CreateCache(t)
      PROVE  IInv'
  <2>1. EmptyCache \in Objects /\ caches \in Seq(Objects)
    BY EmptyIsSound DEF Sound, TypeOK
  <2>2. caches' = Append(caches, EmptyCache)
    BY <1>4 DEF CreateCache
  <2>3. /\ caches' \in Seq(Objects) /\ Len(caches') = Len(caches) + 1
        /\ DOMAIN caches' = 1..(Len(caches) + 1) /\ Len(caches) \in Nat
        /\ caches'[Len(caches) + 1] = EmptyCache
        /\ \A o \in DOMAIN caches : caches'[o] = caches[o]
    BY <2>1, <2>2
  <2>4. \A o \in DOMAIN caches' : Sound(caches'[o])
    BY <2>1, <2>3, IInvObjects, EmptyIsSound
  <2>5. Capped' /\ \A o \in DOMAIN caches' : IsDict(caches'[o].data) /\ IsDict(caches'[o].used)
    BY <2>4 DEF Sound, Capped
  <2>6. current' = Len(caches) + 1 /\ pc' = [pc EXCEPT ![t] = "fetch"]
    BY <1>4 DEF CreateCache, Goto
  <2>. QED
    BY <1>4, <2>3, <2>5, <2>6 DEF CreateCache, TypeOK, Steps
<1>5. ASSUME NEW t \in Threads, FetchCache(t)
      PROVE  IInv'
  BY <1>5 DEF FetchCache, Goto, TypeOK, Capped, Steps
<1>6. ASSUME NEW t \in Threads, Get(t)
      PROVE  IInv'
  <2> DEFINE c == caches[cache[t]]
             hit == Has(c.data, key[t])
             new == IF hit THEN Found(c, key[t]) ELSE NotFound(c)
  <2>1. cache[t] \in DOMAIN caches /\ key[t] \in Keys /\ c.data \in Seq(Results)
    <3>1. cache[t] \in DOMAIN caches /\ key[t] \in Keys
      BY <1>6 DEF Get, Goto, TypeOK
    <3>2. Sound(c)
      BY <3>1, IInvObjects
    <3>. QED
      BY <3>1, <3>2 DEF Sound, Objects
  <2>2. Sound(c)
    BY <2>1, IInvObjects
  <2>3. Sound(new)
    BY <2>1, <2>2, FoundIsSound, NotFoundIsSound
  <2>4. caches' = [caches EXCEPT ![cache[t]] = new]
    BY <1>6 DEF Get
  <2>5. val' \in [Threads -> Values]
    <3>1. CASE hit
      <4>1. Lookup(c.data, key[t]) \in Values
        BY <2>1, <3>1, LookupType
      <4>. QED
        BY <1>6, <3>1, <4>1 DEF Get, TypeOK
    <3>2. CASE ~hit
      BY <1>6, <3>2 DEF Get, TypeOK
    <3>. QED
      BY <3>1, <3>2
  <2>6. pc' = [pc EXCEPT ![t] = IF hit THEN "idle" ELSE "factory"] /\ pc[t] = "get"
    BY <1>6 DEF Get, Goto
  <2> HIDE DEF c, hit, new
  <2>7. /\ caches' \in Seq(Objects) /\ Len(caches') = Len(caches)
        /\ Capped'
        /\ \A o \in DOMAIN caches' : IsDict(caches'[o].data) /\ IsDict(caches'[o].used)
    BY <2>1, <2>3, <2>4, UpdateObject DEF Capped
  <2>. QED
    BY <1>6, <2>5, <2>6, <2>7 DEF Get, TypeOK, Steps
<1>7. ASSUME NEW t \in Threads, NEW v \in Values, RunFactory(t, v)
      PROVE  IInv'
  BY <1>7 DEF RunFactory, Goto, TypeOK, Capped, Steps
<1>8. ASSUME NEW t \in Threads, FactoryRaises(t)
      PROVE  IInv'
  BY <1>8 DEF FactoryRaises, Goto, TypeOK, Capped, Steps
<1>9. ASSUME NEW t \in Threads, PutValue(t)
      PROVE  IInv'
  <2> DEFINE new == Stored(caches[cache[t]], key[t], val[t])
  <2>1. cache[t] \in DOMAIN caches /\ key[t] \in Keys /\ val[t] \in Values
    BY <1>9 DEF PutValue, Goto, TypeOK
  <2>2. Sound(new)
    BY <2>1, IInvObjects, StoredIsSound
  <2>3. caches' = [caches EXCEPT ![cache[t]] = new] /\ pc' = [pc EXCEPT ![t] = "idle"]
    BY <1>9 DEF PutValue, Goto
  <2> HIDE DEF new
  <2>4. /\ caches' \in Seq(Objects) /\ Len(caches') = Len(caches)
        /\ Capped'
        /\ \A o \in DOMAIN caches' : IsDict(caches'[o].data) /\ IsDict(caches'[o].used)
    BY <2>1, <2>2, <2>3, UpdateObject DEF Capped
  <2>. QED
    BY <1>9, <2>3, <2>4 DEF PutValue, TypeOK, Steps
<1>10. ASSUME Clear
       PROVE  IInv'
  <2>1. current \in DOMAIN caches /\ caches' = [caches EXCEPT ![current] = EmptyCache]
    BY <1>10 DEF Clear, TypeOK
  <2>2. /\ caches' \in Seq(Objects) /\ Len(caches') = Len(caches)
        /\ Capped'
        /\ \A o \in DOMAIN caches' : IsDict(caches'[o].data) /\ IsDict(caches'[o].used)
    BY <2>1, EmptyIsSound, UpdateObject DEF Capped
  <2>. QED
    BY <1>10, <2>2 DEF Clear, TypeOK
<1>. QED
  BY <1>1, <1>2, <1>3, <1>4, <1>5, <1>6, <1>7, <1>8, <1>9, <1>10 DEF Next, CallStep

\* The caches and the threads that use them keep their types, and no key ever has
\* two entries.
THEOREM CacheTypeCorrect == Spec => []TypeOK
<1>1. IInv => TypeOK
  BY DEF IInv
<1>. QED
  BY <1>1, InitIInv, NextIInv, PTL DEF Spec

\* However many threads miss at once, no cache holds more than cache_max_entries.
THEOREM CacheIsCapped == Spec => []Capped
<1>1. IInv => Capped
  BY DEF IInv
<1>. QED
  BY <1>1, InitIInv, NextIInv, PTL DEF Spec

-----------------------------------------------------------------------------
(* Which key is evicted.                                                   *)

\* Where move_to_end(k) and d[k] = v put the keys.
LEMMA MoveToEndPlaces ==
    ASSUME NEW E, NEW d \in Seq(E), IsDict(d), NEW p \in DOMAIN d
    PROVE  LET moved == MoveToEnd(d, d[p].key)
           IN  /\ Len(moved) = Len(d) /\ DOMAIN moved = 1..Len(d)
               /\ \A i \in 1..Len(d) : moved[i].key = IF i < p THEN d[i].key
                                                      ELSE IF i < Len(d) THEN d[i + 1].key
                                                      ELSE d[p].key
<1> DEFINE k == d[p].key
           x == Entry(k, Lookup(d, k))
           e == Delete(d, k)
           a == Append(e, x)
<1>1. Has(d, k) /\ PlaceOf(d, k) = p
  BY DEF Has, PlaceOf, IsDict
<1>2. e = [i \in 1..(Len(d) - 1) |-> IF i < p THEN d[i] ELSE d[i + 1]]
  BY <1>1 DEF Delete
<1>3. DOMAIN d = 1..Len(d) /\ Len(d) \in Nat /\ p \in 1..Len(d) /\ \A i \in 1..Len(d) : d[i] \in E
  OBVIOUS
<1>4. MoveToEnd(d, k) = a /\ x.key = k
  BY DEF MoveToEnd, Entry
<1> HIDE DEF k, x, e
<1>5. e \in Seq(E) /\ Len(e) = Len(d) - 1 /\ DOMAIN e = 1..Len(d)-1
  BY <1>2, <1>3
<1>6. /\ Len(a) = Len(d) /\ DOMAIN a = 1..Len(d) /\ a[Len(d)] = x
      /\ \A i \in 1..Len(d)-1 : a[i] = e[i]
  <2>1. e \in Seq(E \cup {x}) /\ x \in E \cup {x}
    BY <1>5
  <2>2. /\ Len(e) \in Nat /\ Len(a) = Len(e) + 1 /\ DOMAIN a = 1..(Len(e) + 1)
        /\ a[Len(e) + 1] = x /\ \A i \in 1..Len(e) : a[i] = e[i]
    BY <2>1
  <2>3. (Len(d) - 1) + 1 = Len(d)
    BY <1>3
  <2> HIDE DEF a
  <2>. QED
    BY <1>5, <2>2, <2>3
<1> HIDE DEF a
<1>7. ASSUME NEW i \in 1..Len(d)
      PROVE  a[i].key = IF i < p THEN d[i].key ELSE IF i < Len(d) THEN d[i + 1].key ELSE k
  <2>1. CASE i < Len(d)
    BY <1>2, <1>3, <1>6, <2>1
  <2>2. CASE ~(i < Len(d))
    <3>1. i = Len(d) /\ ~(i < p)
      <4>1. Len(d) \in Nat /\ p \in 1..Len(d)
        BY <1>3
      <4>. QED
        BY ONLY <4>1, <2>2, i \in 1..Len(d)
    <3>. QED
      BY <1>4, <1>6, <3>1
  <2>. QED
    BY <2>1, <2>2
<1>. QED
  BY <1>4, <1>6, <1>7 DEF k

LEMMA PutPlaces ==
    ASSUME NEW E, NEW d \in Seq(E), NEW k, NEW v, Entry(k, v) \in E
    PROVE  LET put == Put(d, k, v)
           IN  /\ Has(d, k) => /\ Len(put) = Len(d)
                               /\ \A i \in 1..Len(d) : put[i].key = d[i].key
               /\ ~Has(d, k) => /\ Len(put) = Len(d) + 1
                                /\ \A i \in 1..Len(d) : put[i].key = d[i].key
                                /\ put[Len(d) + 1].key = k
<1>1. Len(d) \in Nat /\ DOMAIN d = 1..Len(d)
  OBVIOUS
<1>2. ASSUME Has(d, k)
      PROVE  /\ Len(Put(d, k, v)) = Len(d)
             /\ \A i \in 1..Len(d) : Put(d, k, v)[i].key = d[i].key
  <2>1. Put(d, k, v) = [i \in 1..Len(d) |-> IF d[i].key = k THEN Entry(k, v) ELSE d[i]]
    BY <1>1, <1>2 DEF Put
  <2>2. Put(d, k, v) \in Seq(E) /\ Len(Put(d, k, v)) = Len(d)
    BY <1>1, <2>1
  <2>3. Entry(k, v).key = k
    BY DEF Entry
  <2>. QED
    BY <2>1, <2>2, <2>3
<1>3. ASSUME ~Has(d, k)
      PROVE  /\ Len(Put(d, k, v)) = Len(d) + 1
             /\ \A i \in 1..Len(d) : Put(d, k, v)[i].key = d[i].key
             /\ Put(d, k, v)[Len(d) + 1].key = k
  <2>1. Put(d, k, v) = Append(d, Entry(k, v))
    BY <1>3 DEF Put
  <2>2. Entry(k, v).key = k
    BY DEF Entry
  <2>. QED
    BY <1>1, <2>1, <2>2
<1>. QED
  BY <1>2, <1>3

\* The keys of the data are the last ones of `used`, as many as fit.
Newest(d, u) == /\ Len(d) = IF Len(u) > MaxEntries THEN MaxEntries ELSE Len(u)
                /\ \A i \in 1..Len(d) : d[i].key = u[Len(u) - Len(d) + i].key

LEMMA NewestIsSuffix ==
    ASSUME NEW d \in Seq(Results), NEW u \in Seq(Marks)
    PROVE  Newest(d, u) <=> KeyList(d) = KeyList(LastUsed(u))
<1> DEFINE n == Len(u)
           first == IF n > MaxEntries THEN n - MaxEntries + 1 ELSE 1
           m == IF n > MaxEntries THEN MaxEntries ELSE n
           s == SubSeq(u, first, n)
<1>1. n \in Nat /\ MaxEntries \in Nat /\ MaxEntries # 0 /\ DOMAIN d = 1..Len(d) /\ Len(d) \in Nat
  BY CacheAssumption DEF CacheAssumption
<1> HIDE DEF n
<1>2. first \in 1..n+1 /\ m \in Nat /\ m = n - first + 1
  BY <1>1
<1>3. s = [i \in 1..m |-> u[i + first - 1]] /\ DOMAIN s = 1..m
  <2>1. first \in Int /\ n \in Int /\ \A i \in first..n : u[i] \in Marks
    BY <1>1, <1>2 DEF n
  <2>2. /\ s \in Seq(Marks) /\ Len(s) = IF first <= n THEN n - first + 1 ELSE 0
        /\ \A i \in 1..(n - first + 1) : s[i] = u[first + i - 1]
    BY <2>1, SubSeqProperties
  <2>3. Len(s) = m /\ \A i \in 1..m : s[i] = u[i + first - 1]
    <3> HIDE DEF s, first, m
    <3>. QED
      BY <1>1, <1>2, <2>2
  <2>. QED
    BY <2>2, <2>3
<1>4. LastUsed(u) = s
  BY DEF LastUsed, n
<1> HIDE DEF s, first, m
<1>5. KeyList(LastUsed(u)) = [i \in 1..m |-> u[i + first - 1].key]
  BY <1>3, <1>4 DEF KeyList
<1>6. KeyList(d) = [i \in 1..Len(d) |-> d[i].key]
  BY <1>1 DEF KeyList
<1>7. Newest(d, u) <=> Len(d) = m /\ \A i \in 1..m : d[i].key = u[i + first - 1].key
  <2>1. \A i \in 1..m : n - m + i = i + first - 1
    BY <1>1, <1>2 DEF m
  <2>. QED
    BY <2>1 DEF Newest, n, m
<1>8. 1..Len(d) = 1..m <=> Len(d) = m
  BY <1>1, <1>2
<1>. QED
  BY <1>5, <1>6, <1>7, <1>8

\* A key of the data has its place in `used`, and moves to the end of both.
LEMMA MovedStaysNewest ==
    ASSUME NEW d \in Seq(Results), IsDict(d), NEW u \in Seq(Marks), IsDict(u), Newest(d, u),
           NEW k, Has(d, k)
    PROVE  Has(u, k) /\ Newest(MoveToEnd(d, k), MoveToEnd(u, k))
<1> DEFINE m == Len(d)
           n == Len(u)
           D == MoveToEnd(d, k)
           U == MoveToEnd(u, k)
<1>1. PICK p \in DOMAIN d : d[p].key = k
  BY DEF Has
<1> DEFINE q == n - m + p
<1>2. /\ m \in Nat /\ n \in Nat /\ MaxEntries \in Nat /\ p \in 1..m
      /\ DOMAIN u = 1..n /\ DOMAIN d = 1..m
  BY CacheAssumption DEF CacheAssumption
<1>3. /\ m = IF n > MaxEntries THEN MaxEntries ELSE n
      /\ \A i \in 1..m : d[i].key = u[n - m + i].key
  BY DEF Newest
<1> HIDE DEF m, n
<1>4. q \in DOMAIN u /\ u[q].key = k
  <2>1. m <= n
    BY <1>2, <1>3
  <2>2. q \in 1..n
    BY ONLY <1>2, <2>1
  <2>. QED
    BY <1>1, <1>2, <1>3, <2>2
<1>5. /\ Len(D) = m
      /\ \A i \in 1..m : D[i].key = IF i < p THEN d[i].key
                                    ELSE IF i < m THEN d[i + 1].key ELSE k
  BY <1>1, MoveToEndPlaces DEF m
<1>6. /\ Len(U) = n
      /\ \A i \in 1..n : U[i].key = IF i < q THEN u[i].key
                                    ELSE IF i < n THEN u[i + 1].key ELSE k
  <2> HIDE DEF q
  <2>. QED
    BY <1>4, MoveToEndPlaces DEF n
<1> HIDE DEF D, U
<1>7. ASSUME NEW i \in 1..m
      PROVE  D[i].key = U[n - m + i].key
  <2>1. n - m + i \in 1..n /\ n - m + (i + 1) = (n - m + i) + 1
    BY <1>2, <1>3
  <2>2. CASE i < p
    BY <1>2, <1>3, <1>5, <1>6, <2>1, <2>2
  <2>3. CASE ~(i < p) /\ i < m
    <3>1. i + 1 \in 1..m /\ ~(n - m + i < q) /\ n - m + i < n
      BY <1>2, <1>3, <2>3
    <3>2. D[i].key = d[i + 1].key /\ U[n - m + i].key = u[(n - m + i) + 1].key
      BY <1>5, <1>6, <2>1, <2>3, <3>1
    <3>. QED
      BY <1>3, <2>1, <3>1, <3>2
  <2>4. CASE ~(i < m)
    <3>1. ~(i < p) /\ ~(n - m + i < q) /\ ~(n - m + i < n)
      BY <1>2, <1>3, <2>4
    <3>. QED
      BY <1>5, <1>6, <2>1, <2>4, <3>1
  <2>. QED
    BY <2>2, <2>3, <2>4
<1>8. Newest(D, U)
  BY <1>3, <1>5, <1>6, <1>7 DEF Newest
<1>. QED
  BY <1>4, <1>8 DEF Has, D, U

\* A key that is not in the data goes to the end of both; when the data is full, its
\* oldest key is the one that stops being among the newest.
LEMMA StoredStaysNewest ==
    ASSUME NEW d \in Seq(Results), IsDict(d), NEW u \in Seq(Marks), IsDict(u), Newest(d, u),
           NEW k \in Keys, ~Has(d, k), NEW v \in Values
    PROVE  Newest(Evict(Put(d, k, v)), Use(u, k))
<1> DEFINE m == Len(d)
           n == Len(u)
           P == Put(d, k, v)
           D == Evict(P)
           U == Use(u, k)
<1>1. /\ m \in Nat /\ n \in Nat /\ MaxEntries \in Nat /\ MaxEntries # 0
      /\ DOMAIN u = 1..n /\ DOMAIN d = 1..m
  BY CacheAssumption DEF CacheAssumption
<1>2. /\ m = IF n > MaxEntries THEN MaxEntries ELSE n
      /\ \A i \in 1..m : d[i].key = u[n - m + i].key
  BY DEF Newest
<1>3. Entry(k, v) \in Results /\ Entry(k, "used") \in Marks
  BY DEF Entry, Results, Marks
<1>4. /\ P \in Seq(Results) /\ Len(P) = m + 1
      /\ \A i \in 1..m : P[i].key = d[i].key
      /\ P[m + 1].key = k
  <2>1. P \in Seq(Results)
    BY <1>3, PutIsDict
  <2>2. /\ Len(P) = m + 1 /\ \A i \in 1..m : P[i].key = d[i].key
        /\ P[m + 1].key = k
    BY <1>3, PutPlaces
  <2>. QED
    BY <2>1, <2>2
<1> HIDE DEF m, n, P
<1>5. m < MaxEntries => /\ Len(D) = m + 1 /\ \A i \in 1..m : D[i].key = d[i].key
                        /\ D[m + 1].key = k
  BY <1>1, <1>4 DEF Evict
<1>6. m = MaxEntries => /\ Len(D) = m /\ \A i \in 1..m-1 : D[i].key = d[i + 1].key
                        /\ D[m].key = k
  <2>1. SUFFICES ASSUME m = MaxEntries
                 PROVE  /\ Len(D) = m /\ \A i \in 1..m-1 : D[i].key = d[i + 1].key
                        /\ D[m].key = k
    OBVIOUS
  <2>2. D = Tail(P)
    BY <1>1, <1>4, <2>1 DEF Evict
  <2>3. Len(Tail(P)) = m /\ \A i \in 1..m : Tail(P)[i] = P[i + 1]
    BY <1>1, <1>4
  <2> HIDE DEF D
  <2>4. \A i \in 1..m-1 : i + 1 \in 1..m /\ i \in 1..m
    BY <1>1
  <2>5. m \in 1..m
    BY <1>1, <2>1
  <2>. QED
    BY <1>4, <2>2, <2>3, <2>4, <2>5
<1> HIDE DEF D
<1>7. CASE Has(u, k)
  <2>1. PICK q \in DOMAIN u : u[q].key = k
    BY <1>7 DEF Has
  <2>2. q <= n - m
    <3>1. SUFFICES ASSUME q > n - m
                   PROVE  FALSE
      BY <1>1, <1>2
    <3>2. q - (n - m) \in 1..m /\ n - m + (q - (n - m)) = q
      BY <1>1, <1>2, <3>1
    <3>3. d[q - (n - m)].key = k
      BY <1>2, <2>1, <3>2
    <3>. QED
      BY <1>1, <3>2, <3>3 DEF Has
  <2>3. m = MaxEntries /\ n > m
    BY <1>1, <1>2, <2>2
  <2>4. U = MoveToEnd(u, u[q].key)
    BY <1>7, <2>1 DEF Use
  <2>5. /\ Len(U) = n
        /\ \A i \in 1..n : U[i].key = IF i < q THEN u[i].key
                                      ELSE IF i < n THEN u[i + 1].key ELSE k
    BY <2>1, <2>4, MoveToEndPlaces DEF n
  <2> HIDE DEF U
  <2>6. ASSUME NEW i \in 1..m
        PROVE  D[i].key = U[n - m + i].key
    <3>1. n - m + i \in 1..n /\ ~(n - m + i < q) /\ (n - m + i) + 1 = n - m + (i + 1)
      BY <1>1, <2>1, <2>2, <2>3
    <3>2. CASE i < m
      <4>1. i \in 1..m-1 /\ i + 1 \in 1..m /\ n - m + i < n
        BY <1>1, <2>3, <3>2
      <4>2. U[n - m + i].key = u[n - m + (i + 1)].key
        BY <2>5, <3>1, <4>1
      <4>. QED
        BY <1>2, <1>6, <2>3, <4>1, <4>2
    <3>3. CASE ~(i < m)
      <4>1. i = m /\ ~(n - m + i < n)
        BY <1>1, <2>3, <3>3
      <4>. QED
        BY <1>6, <2>3, <2>5, <3>1, <4>1
    <3>. QED
      BY <3>2, <3>3
  <2>7. Newest(D, U)
    BY <1>1, <1>6, <2>3, <2>5, <2>6 DEF Newest
  <2>. QED
    BY <2>7 DEF D, U, P
<1>8. CASE ~Has(u, k)
  <2>1. U = Put(u, k, "used")
    BY <1>8 DEF Use
  <2>2. Len(U) = n + 1 /\ U[n + 1].key = k /\ \A i \in 1..n : U[i].key = u[i].key
    BY <1>3, <1>8, <2>1, PutPlaces DEF n
  <2> HIDE DEF U
  <2>3. CASE n < MaxEntries
    <3>1. m = n /\ m < MaxEntries
      BY <1>1, <1>2, <2>3
    <3>2. Len(D) = Len(U) /\ ~(Len(U) > MaxEntries)
      BY <1>1, <1>5, <2>2, <3>1
    <3>3. ASSUME NEW i \in 1..m+1
          PROVE  D[i].key = U[i].key
      <4>1. CASE i \in 1..m
        <5>1. n - m + i = i
          BY <1>1, <3>1
        <5>. QED
          BY <1>2, <1>5, <2>2, <3>1, <4>1, <5>1
      <4>2. CASE i = m + 1
        BY <1>5, <2>2, <3>1, <4>2
      <4>. QED
        BY <1>1, <4>1, <4>2
    <3>4. \A i \in 1..m+1 : Len(U) - Len(D) + i = i
      BY <1>1, <2>2, <3>2
    <3>5. Newest(D, U)
      <4>1. Len(D) = m + 1
        BY <1>5, <3>1
      <4>2. \A i \in 1..Len(D) : D[i].key = U[Len(U) - Len(D) + i].key
        BY <3>3, <3>4, <4>1
      <4>. QED
        BY <3>2, <4>2 DEF Newest
    <3>. QED
      BY <3>5 DEF D, U, P
  <2>4. CASE ~(n < MaxEntries)
    <3>1. m = MaxEntries /\ n + 1 > MaxEntries
      BY <1>1, <1>2, <2>4
    <3>2. ASSUME NEW i \in 1..m
          PROVE  D[i].key = U[n + 1 - m + i].key
      <4>1. CASE i < m
        <5>1. /\ i \in 1..m-1 /\ i + 1 \in 1..m
              /\ n + 1 - m + i \in 1..n /\ n + 1 - m + i = n - m + (i + 1)
          BY <1>1, <1>2, <4>1
        <5>. QED
          BY <1>2, <1>6, <2>2, <3>1, <5>1
      <4>2. CASE ~(i < m)
        <5>1. i = m /\ n + 1 - m + i = n + 1
          BY <1>1, <4>2
        <5>. QED
          BY <1>6, <2>2, <3>1, <5>1
      <4>. QED
        BY <4>1, <4>2
    <3>3. Newest(D, U)
      <4>1. Len(D) = m /\ Len(U) = n + 1
        BY <1>6, <2>2, <3>1
      <4>2. Len(D) = IF Len(U) > MaxEntries THEN MaxEntries ELSE Len(U)
        BY <3>1, <4>1
      <4>3. ASSUME NEW i \in 1..Len(D)
            PROVE  D[i].key = U[Len(U) - Len(D) + i].key
        <5>1. i \in 1..m
          BY ONLY <4>1, i \in 1..Len(D)
        <5>2. Len(U) - Len(D) + i = n + 1 - m + i
          <6>1. /\ Len(D) \in Nat /\ Len(U) \in Nat /\ m \in Nat /\ n \in Nat /\ i \in Nat
                /\ Len(D) = m /\ Len(U) = n + 1
            BY <1>1, <4>1
          <6> HIDE DEF D, m, n
          <6>. QED
            BY ONLY <6>1
        <5>3. D[i].key = U[n + 1 - m + i].key
          BY <3>2, <5>1
        <5>. QED
          BY ONLY <5>2, <5>3
      <4>. QED
        BY <4>2, <4>3 DEF Newest
    <3>. QED
      BY <3>3 DEF D, U, P
  <2>. QED
    BY <2>3, <2>4
<1>. QED
  BY <1>7, <1>8

-----------------------------------------------------------------------------
\* What a cache object must be for the eviction order: sound, its keys the newest.
Recent(c) == Sound(c) /\ Newest(c.data, c.used)

LEMMA EmptyIsRecent == Recent(EmptyCache)
<1>1. Newest(<<>>, <<>>)
  BY CacheAssumption DEF Newest, CacheAssumption
<1>. QED
  BY <1>1, EmptyIsSound DEF Recent, EmptyCache

LEMMA FoundIsRecent ==
    ASSUME NEW c, Recent(c), NEW k \in Keys, Has(c.data, k)
    PROVE  Recent(Found(c, k))
<1>1. /\ c.data \in Seq(Results) /\ IsDict(c.data)
      /\ c.used \in Seq(Marks) /\ IsDict(c.used) /\ Newest(c.data, c.used)
  BY DEF Recent, Sound, Objects
<1>2. Has(c.used, k) /\ Newest(MoveToEnd(c.data, k), MoveToEnd(c.used, k))
  BY <1>1, MovedStaysNewest
<1>3. Sound(Found(c, k))
  BY FoundIsSound DEF Recent
<1>4. Newest(MoveToEnd(c.data, k), Use(c.used, k))
  BY <1>2 DEF Use
<1>. QED
  BY <1>3, <1>4 DEF Recent, Found

LEMMA NotFoundIsRecent == ASSUME NEW c, Recent(c) PROVE Recent(NotFound(c))
<1>1. NotFound(c).data = c.data /\ NotFound(c).used = c.used
  BY DEF NotFound, Recent, Sound, Objects
<1>. QED
  BY <1>1, NotFoundIsSound DEF Recent

LEMMA StoredIsRecent ==
    ASSUME NEW c, Recent(c), NEW k \in Keys, NEW v \in Values
    PROVE  Recent(Stored(c, k, v))
<1>1. /\ c.data \in Seq(Results) /\ IsDict(c.data) /\ Len(c.data) <= MaxEntries
      /\ c.used \in Seq(Marks) /\ IsDict(c.used) /\ Newest(c.data, c.used)
  BY DEF Recent, Sound, Objects
<1>2. Sound(Stored(c, k, v))
  BY StoredIsSound DEF Recent
<1>3. Newest(Stored(c, k, v).data, Stored(c, k, v).used)
  <2>1. CASE Has(c.data, k)
    <3> DEFINE moved == MoveToEnd(c.data, k)
               put == Put(moved, k, v)
    <3>1. Has(c.used, k) /\ Newest(moved, MoveToEnd(c.used, k))
      BY <1>1, <2>1, MovedStaysNewest
    <3>2. Entry(k, Lookup(c.data, k)) \in Results /\ Entry(k, v) \in Results
      BY <1>1, <2>1, LookupType DEF Entry, Results
    <3>3. moved \in Seq(Results) /\ Len(moved) = Len(c.data) /\ Has(moved, k)
      BY <1>1, <2>1, <3>2, MoveToEndIsDict
    <3> HIDE DEF moved
    <3>4. Len(put) = Len(moved) /\ \A i \in 1..Len(moved) : put[i].key = moved[i].key
      BY <3>2, <3>3, PutPlaces
    <3>5. ~(Len(put) > MaxEntries)
      BY <1>1, <3>3, <3>4, CacheAssumption DEF CacheAssumption
    <3> HIDE DEF put
    <3>6. Newest(put, MoveToEnd(c.used, k))
      BY <3>1, <3>4 DEF Newest
    <3>7. Stored(c, k, v).data = Evict(put) /\ Stored(c, k, v).used = MoveToEnd(c.used, k)
      BY <2>1, <3>1 DEF Stored, Use, put, moved
    <3>. QED
      BY <3>5, <3>6, <3>7 DEF Evict
  <2>2. CASE ~Has(c.data, k)
    <3>1. Newest(Evict(Put(c.data, k, v)), Use(c.used, k))
      BY <1>1, <2>2, StoredStaysNewest
    <3>. QED
      BY <2>2, <3>1 DEF Stored
  <2>. QED
    BY <2>1, <2>2
<1>. QED
  BY <1>2, <1>3 DEF Recent

\* The inductive invariant of the eviction order; IInv gives the types it needs.
RecentInv == \A o \in DOMAIN caches : Newest(caches[o].data, caches[o].used)

LEMMA RecentObjects == IInv /\ RecentInv => \A o \in DOMAIN caches : Recent(caches[o])
  BY IInvObjects DEF RecentInv, Recent

LEMMA InitRecent == Init => RecentInv
  BY DEF Init, RecentInv

LEMMA UpdateRecent ==
    ASSUME IInv, RecentInv, NEW o \in DOMAIN caches, NEW c, Recent(c),
           caches' = [caches EXCEPT ![o] = c]
    PROVE  RecentInv'
<1>1. DOMAIN caches' = DOMAIN caches /\ \A p \in DOMAIN caches : Recent(caches'[p])
  BY RecentObjects
<1>. QED
  BY <1>1 DEF RecentInv, Recent

LEMMA NextRecent == IInv /\ RecentInv /\ [Next]_vars => RecentInv'
<1> SUFFICES ASSUME IInv, RecentInv, [Next]_vars
             PROVE  RecentInv'
    OBVIOUS
<1>1. CASE UNCHANGED caches
  BY <1>1 DEF RecentInv
<1>2. ASSUME NEW t \in Threads, CreateCache(t)
      PROVE  RecentInv'
  <2>1. caches' = Append(caches, EmptyCache) /\ caches \in Seq(Objects)
    BY <1>2 DEF CreateCache, IInv, TypeOK
  <2>2. EmptyCache \in Objects
    BY EmptyIsSound DEF Sound
  <2>3. /\ DOMAIN caches' = 1..(Len(caches) + 1) /\ Len(caches) \in Nat
        /\ DOMAIN caches = 1..Len(caches)
        /\ caches'[Len(caches) + 1] = EmptyCache
        /\ \A o \in DOMAIN caches : caches'[o] = caches[o]
    BY <2>1, <2>2
  <2>4. \A o \in DOMAIN caches' : o \in DOMAIN caches \/ o = Len(caches) + 1
    BY <2>3
  <2>. QED
    BY <2>3, <2>4, EmptyIsRecent DEF RecentInv, Recent
<1>3. ASSUME NEW t \in Threads, Get(t)
      PROVE  RecentInv'
  <2> DEFINE c == caches[cache[t]]
             new == IF Has(c.data, key[t]) THEN Found(c, key[t]) ELSE NotFound(c)
  <2>1. cache[t] \in DOMAIN caches /\ key[t] \in Keys
    BY <1>3 DEF Get, Goto, IInv, TypeOK
  <2>2. Recent(c)
    BY <2>1, RecentObjects
  <2>3. Recent(new)
    BY <2>1, <2>2, FoundIsRecent, NotFoundIsRecent
  <2>4. caches' = [caches EXCEPT ![cache[t]] = new]
    BY <1>3 DEF Get
  <2> HIDE DEF new
  <2>. QED
    BY <2>1, <2>3, <2>4, UpdateRecent
<1>4. ASSUME NEW t \in Threads, PutValue(t)
      PROVE  RecentInv'
  <2>1. cache[t] \in DOMAIN caches /\ key[t] \in Keys /\ val[t] \in Values
    BY <1>4 DEF PutValue, Goto, IInv, TypeOK
  <2>2. Recent(Stored(caches[cache[t]], key[t], val[t]))
    BY <2>1, RecentObjects, StoredIsRecent
  <2>3. caches' = [caches EXCEPT ![cache[t]] = Stored(caches[cache[t]], key[t], val[t])]
    BY <1>4 DEF PutValue
  <2>. QED
    BY <2>1, <2>2, <2>3, UpdateRecent
<1>5. CASE Clear
  <2>1. current \in DOMAIN caches /\ caches' = [caches EXCEPT ![current] = EmptyCache]
    BY <1>5 DEF Clear, IInv, TypeOK
  <2>. QED
    BY <2>1, EmptyIsRecent, UpdateRecent
<1>. QED
  BY <1>1, <1>2, <1>3, <1>4, <1>5
     DEF Next, CallStep, Call, LookUpName, FetchCache, RunFactory, FactoryRaises, vars

\* A cache holds exactly the keys used last, in that order: what it evicts is the key
\* unused longest ("LRU eviction", registry.py:9), whatever the threads interleave.
THEOREM LeastRecentIsEvicted == Spec => []LeastRecentlyUsedGoes
<1>1. IInv /\ RecentInv => LeastRecentlyUsedGoes
  <2> SUFFICES ASSUME IInv, RecentInv, NEW o \in DOMAIN caches
               PROVE  KeyList(caches[o].data) = KeyList(LastUsed(caches[o].used))
    BY DEF LeastRecentlyUsedGoes
  <2>1. caches[o].data \in Seq(Results) /\ caches[o].used \in Seq(Marks)
    BY IInvObjects DEF Sound, Objects
  <2>2. Newest(caches[o].data, caches[o].used)
    BY DEF RecentInv
  <2>. QED
    BY <2>1, <2>2, NewestIsSuffix
<1>. QED
  BY <1>1, InitIInv, NextIInv, InitRecent, NextRecent, PTL DEF Spec

-----------------------------------------------------------------------------
(* The application.                                                        *)


\* A reader of the statistics has a cache to read: /metrics took its number when
\* there was one.
ReadersHaveCaches == \A t \in Threads : at[t] = "stats" => seen[t].cache # 0

\* Who is about to read _orchestrator finds one, and who brings a document has it.
Prepared == \A t \in Threads :
               /\ at[t] = "fetch" => served # 0
               /\ at[t] \in {"assign", "fetch"} /\ kind[t] = "ingest" => doc[t] # 0

\* The types of both modules, which need each other: the factory of a search returns
\* a value because the orchestrators hold documents, and /metrics reads caches.
AppOK == AppTypeOK /\ Prepared
Types == IInv /\ AppOK /\ ReadersHaveCaches

LEMMA AppInitTypes == AppInit => Types
<1> SUFFICES ASSUME AppInit PROVE Types
  OBVIOUS
<1>1. IInv
  BY InitIInv DEF AppInit
<1>2. MaxRequests \in Nat
  BY AppAssumption, CacheAssumption DEF AppAssumption, CacheAssumption
<1>3. AppTypeOK
  BY <1>2 DEF AppInit, AppTypeOK, Init, Places, Kinds, NothingRead, Names, Readings
<1>. QED
  BY <1>1, <1>3 DEF Types, AppOK, Prepared, AppInit, ReadersHaveCaches

\* Every step of the application is a step of the cache or leaves it alone.
LEMMA CacheStep == Types /\ [AppNext]_appvars => [Next]_vars
<1> SUFFICES ASSUME Types, [AppNext]_appvars PROVE [Next]_vars
  OBVIOUS
<1>1. CASE UNCHANGED appvars
  BY <1>1 DEF appvars
<1>2. ASSUME NEW t \in Threads, NEW k \in Kinds, Check(t, k)
      PROVE  UNCHANGED vars
  BY <1>2 DEF Check
<1>3. ASSUME NEW t \in Threads, NEW k \in Keys, BeginSearch(t, k)
      PROVE  Next
  BY <1>3 DEF BeginSearch, Next
<1>4. ASSUME NEW t \in Threads, Search(t)
      PROVE  Next
  <2>1. CASE orch[t] # 0 /\ RunFactory(t, Matching(key[t], orchestrators[orch[t]]))
    <3>1. orchestrators[orch[t]] \in SUBSET Docs /\ key[t] \in Keys
      BY <2>1 DEF Types, AppOK, IInv, TypeOK, AppTypeOK
    <3>2. Matching(key[t], orchestrators[orch[t]]) \in Values
      BY <3>1, AppAssumption DEF AppAssumption
    <3>. QED
      BY <2>1, <3>2 DEF Next, CallStep
  <2>. QED
    BY <1>4, <2>1 DEF Search, Next, CallStep
<1>5. ASSUME NEW t \in Threads, SearchRaises(t)
      PROVE  Next
  BY <1>5 DEF SearchRaises, Next, CallStep
<1>6. ASSUME NEW t \in Threads, Handle(t), ~Search(t), ~SearchRaises(t)
      PROVE  UNCHANGED vars
  BY <1>6 DEF Handle, Assign, Look, BeginIngest, Store, StoreFails, CountDocument,
     SearchReturns, Generate, GenerateRaises, ReadCounters, ReadCaches, ReadStats, See, Reply
<1>. QED
  BY <1>1, <1>2, <1>3, <1>4, <1>5, <1>6 DEF AppNext

\* No cache object ever goes.
LEMMA CachesStay == IInv /\ [Next]_vars => Len(caches') >= Len(caches)
<1> SUFFICES ASSUME IInv, [Next]_vars PROVE Len(caches') >= Len(caches)
  OBVIOUS
<1>1. caches \in Seq(Objects) /\ Len(caches) \in Nat
  BY DEF IInv, TypeOK
<1>2. ASSUME NEW t \in Threads, CreateCache(t)
      PROVE  Len(caches') >= Len(caches)
  <2>1. Len(Append(caches, EmptyCache)) = Len(caches) + 1
    BY <1>1, EmptyIsSound DEF Sound
  <2>. QED
    BY <1>1, <1>2, <2>1 DEF CreateCache
<1>3. ASSUME NEW o, NEW c, caches' = [caches EXCEPT ![o] = c]
      PROVE  Len(caches') = Len(caches)
  BY <1>1, <1>3
<1>4. ASSUME NEW t \in Threads, Get(t) \/ PutValue(t)
      PROVE  Len(caches') = Len(caches)
  BY <1>3, <1>4 DEF Get, PutValue
<1>5. CASE Clear
  BY <1>3, <1>5 DEF Clear
<1>6. ASSUME NEW t \in Threads, ~CreateCache(t), ~Get(t), ~PutValue(t), CallStep(t)
      PROVE  caches' = caches
  BY <1>6 DEF CallStep, LookUpName, FetchCache, FactoryRaises, RunFactory
<1>7. ASSUME NEW t \in Threads, NEW k \in Keys, Call(t, k)
      PROVE  caches' = caches
  BY <1>7 DEF Call
<1>. QED
  BY <1>1, <1>2, <1>4, <1>5, <1>6, <1>7 DEF Next, vars

\* The counters, the readings of /metrics and the history.
Books == <<counters, seen, requests, acked, calmAcked>>

BooksOK == /\ counters \in [Names -> Nat]
           /\ seen \in [Threads -> Readings]
           /\ requests \in 0..MaxRequests
           /\ calmAcked \subseteq acked /\ acked \subseteq Docs

LEMMA ReadingsStay ==
    ASSUME IInv, IInv', Len(caches') >= Len(caches)
    PROVE  Readings \subseteq Readings'
<1>1. Len(caches) \in Nat /\ Len(caches') \in Nat
  BY DEF IInv, TypeOK
<1>2. 0..Len(caches) \subseteq 0..Len(caches')
  BY <1>1
<1>. QED
  BY <1>2 DEF Readings

\* A step of thread t changes no other thread's part of a variable.
Only(t) == /\ at' = [at EXCEPT ![t] = at'[t]]
           /\ kind' = [kind EXCEPT ![t] = kind'[t]]
           /\ orch' = [orch EXCEPT ![t] = orch'[t]]
           /\ doc' = [doc EXCEPT ![t] = doc'[t]]
           /\ calm' = [calm EXCEPT ![t] = calm'[t]]
           /\ \A u \in Threads \ {t} : pc'[u] = pc[u]

\* The types of a thread's part.
LocalOK(t) ==
    /\ at[t] \in Places /\ kind[t] \in Kinds /\ orch[t] \in 0..Len(orchestrators)
    /\ doc[t] \in {0} \cup Docs /\ calm[t] \in BOOLEAN
    /\ at[t] \in {"store", "count", "cached", "generate"} => orch[t] # 0
    /\ at[t] \in {"store", "count"} => doc[t] # 0
    /\ pc[t] # "idle" => at[t] = "cached"
    /\ at[t] = "fetch" => served # 0
    /\ at[t] \in {"assign", "fetch"} /\ kind[t] = "ingest" => doc[t] # 0

\* Orchestrators hold documents, and are never taken away.
OrchestratorsOK == /\ orchestrators' \in Seq(SUBSET Docs)
                   /\ Len(orchestrators') >= Len(orchestrators)
                   /\ served' \in 0..Len(orchestrators')
                   /\ served # 0 => served' # 0

LEMMA AppTypesKept ==
    ASSUME AppOK, BooksOK', OrchestratorsOK, NEW t \in Threads, Only(t), LocalOK(t)'
    PROVE  AppOK'
<1>1. 0..Len(orchestrators) \subseteq 0..Len(orchestrators')
  BY DEF AppOK, AppTypeOK, OrchestratorsOK
<1>2. /\ at' \in [Threads -> Places] /\ kind' \in [Threads -> Kinds]
      /\ doc' \in [Threads -> {0} \cup Docs] /\ calm' \in [Threads -> BOOLEAN]
  BY DEF AppOK, AppTypeOK, Only, LocalOK
<1>3. orch' \in [Threads -> 0..Len(orchestrators')]
  <2>1. orch \in [Threads -> 0..Len(orchestrators')] /\ orch'[t] \in 0..Len(orchestrators')
    BY <1>1 DEF AppOK, AppTypeOK, LocalOK
  <2>. QED
    BY <2>1 DEF Only
<1>4. ASSUME NEW u \in Threads
      PROVE  /\ at'[u] \in {"store", "count", "cached", "generate"} => orch'[u] # 0
             /\ at'[u] \in {"store", "count"} => doc'[u] # 0
             /\ pc'[u] # "idle" => at'[u] = "cached"
             /\ at'[u] = "fetch" => served' # 0
             /\ at'[u] \in {"assign", "fetch"} /\ kind'[u] = "ingest" => doc'[u] # 0
  <2>1. CASE u = t
    BY <2>1 DEF LocalOK
  <2>2. CASE u # t
    BY <1>4, <2>2 DEF AppOK, AppTypeOK, Prepared, Only, OrchestratorsOK
  <2>. QED
    BY <2>1, <2>2
<1>. QED
  BY <1>2, <1>3, <1>4 DEF AppOK, AppTypeOK, Prepared, BooksOK, OrchestratorsOK

\* A step that changes neither the counters nor the history keeps the books.
LEMMA BooksKept ==
    ASSUME AppTypeOK, UNCHANGED Books, Readings \subseteq Readings'
    PROVE  BooksOK'
  BY DEF AppOK, AppTypeOK, Books, BooksOK

\* The handler of thread t ends, without a step of the cache by another thread.
LEMMA HandlerEnds ==
    ASSUME AppOK, BooksOK', UNCHANGED <<orchestrators, served>>,
           NEW t \in Threads, Forget(t), at' = [at EXCEPT ![t] = "idle"],
           pc'[t] = "idle", \A u \in Threads \ {t} : pc'[u] = pc[u]
    PROVE  AppOK'
<1>1. OrchestratorsOK
  BY DEF AppOK, AppTypeOK, OrchestratorsOK
<1>2. /\ at'[t] = "idle" /\ kind'[t] = "look" /\ orch'[t] = 0 /\ doc'[t] = 0
      /\ calm'[t] = FALSE
  BY DEF AppOK, AppTypeOK, Forget
<1>3. Only(t)
  BY <1>2 DEF Only, Forget
<1>4. 0 \in 0..Len(orchestrators')
  BY <1>1 DEF OrchestratorsOK
<1>5. LocalOK(t)'
  BY <1>2, <1>4 DEF LocalOK, Places, Kinds
<1>. QED
  BY <1>1, <1>3, <1>5, AppTypesKept

\* The handler of thread t goes on from one place to another, and only its place
\* and its orchestrator change.
LEMMA HandlerMoves ==
    ASSUME AppOK, BooksOK', UNCHANGED <<kind, doc, calm>>, OrchestratorsOK,
           NEW t \in Threads, NEW p \in Places, at' = [at EXCEPT ![t] = p],
           orch' = [orch EXCEPT ![t] = orch'[t]],
           orch'[t] \in 0..Len(orchestrators'),
           p \in {"store", "count", "cached", "generate"} => orch'[t] # 0,
           p \in {"store", "count"} => doc[t] # 0,
           p = "fetch" => served' # 0, p # "assign",
           p = "fetch" /\ kind[t] = "ingest" => doc[t] # 0,
           pc'[t] # "idle" => p = "cached", \A u \in Threads \ {t} : pc'[u] = pc[u]
    PROVE  AppOK'
<1>1. at'[t] = p /\ at' = [at EXCEPT ![t] = at'[t]]
  BY DEF AppOK, AppTypeOK
<1>2. kind = [kind EXCEPT ![t] = kind[t]] /\ doc = [doc EXCEPT ![t] = doc[t]]
      /\ calm = [calm EXCEPT ![t] = calm[t]]
  BY DEF AppOK, AppTypeOK
<1>3. Only(t)
  BY <1>1, <1>2 DEF Only
<1>4. LocalOK(t)'
  BY <1>1 DEF LocalOK, AppOK, AppTypeOK, Prepared
<1>. QED
  BY <1>3, <1>4, AppTypesKept

LEMMA AppNextTypes == Types /\ [AppNext]_appvars => AppOK'
<1> SUFFICES ASSUME Types, [AppNext]_appvars PROVE AppOK'
  OBVIOUS
<1>1. [Next]_vars /\ IInv' /\ IInv
  BY CacheStep, NextIInv DEF Types
<1>2. Readings \subseteq Readings'
  BY <1>1, CachesStay, ReadingsStay DEF Types
<1>3. /\ AppOK /\ AppTypeOK /\ MaxRequests \in Nat
      /\ orchestrators \in Seq(SUBSET Docs) /\ Len(orchestrators) \in Nat
      /\ served \in 0..Len(orchestrators)
      /\ ReadersHaveCaches
  BY AppAssumption, CacheAssumption DEF AppAssumption, CacheAssumption, Types, AppOK, AppTypeOK
<1>4. ASSUME NEW t \in Threads
      PROVE  /\ LocalOK(t) /\ seen[t] \in Readings
             /\ orch = [orch EXCEPT ![t] = orch[t]]
  BY <1>3 DEF AppOK, AppTypeOK, Prepared, LocalOK
<1> HIDE DEF Types
<1>5. UNCHANGED Books => BooksOK'
  BY <1>2, <1>3, BooksKept
<1>6. UNCHANGED <<orchestrators, served>> => OrchestratorsOK
  BY <1>3 DEF OrchestratorsOK
\* where no step of the cache is taken, the steps of the cache are those before
<1>7. ASSUME NEW t \in Threads, at[t] # "cached" \/ pc[t] = "idle", UNCHANGED vars
      PROVE  pc'[t] = "idle" /\ \A u \in Threads \ {t} : pc'[u] = pc[u]
  BY <1>4, <1>7 DEF LocalOK, vars
<1>8. CASE UNCHANGED appvars
  BY <1>3, <1>8 DEF appvars, own, history, vars, AppOK, Prepared, AppTypeOK, Readings
<1>9. ASSUME NEW t \in Threads, NEW k \in Kinds, Check(t, k)
      PROVE  AppOK'
  <2>1. requests' \in 1..MaxRequests /\ requests' \in Docs
    BY <1>3, <1>9 DEF Check, Request, AppTypeOK, Docs
  <2>2. BooksOK'
    BY <1>2, <1>3, <1>9, <2>1 DEF Check, BooksOK, AppTypeOK
  <2>3. /\ at[t] = "idle" /\ kind' = [kind EXCEPT ![t] = k]
        /\ at' = [at EXCEPT ![t] = IF None(t) THEN "assign" ELSE "fetch"]
        /\ doc' = [doc EXCEPT ![t] = IF k = "ingest" THEN requests' ELSE 0]
        /\ calm' = [calm EXCEPT ![t] = served # 0 /\ NobodyAssigns]
        /\ UNCHANGED <<vars, orchestrators, served, orch>>
    BY <1>9 DEF Check, Request, Move
  <2>4. /\ at'[t] \in {"assign", "fetch"} /\ kind'[t] = k /\ orch'[t] = orch[t]
        /\ doc'[t] \in {0} \cup Docs /\ calm'[t] = (served # 0 /\ NobodyAssigns)
        /\ at'[t] = "fetch" => served # 0
        /\ k = "ingest" => doc'[t] # 0
    BY <1>3, <2>1, <2>3 DEF AppTypeOK, None
  <2>5. pc'[t] = "idle" /\ \A u \in Threads \ {t} : pc'[u] = pc[u]
    BY <1>7, <2>3
  <2>6. Only(t)
    BY <1>3, <1>4, <2>3, <2>4, <2>5 DEF Only, AppTypeOK
  <2>7. LocalOK(t)'
    BY <1>4, <2>3, <2>4, <2>5 DEF LocalOK, Places
  <2>. QED
    BY <1>3, <1>6, <2>2, <2>3, <2>6, <2>7, AppTypesKept
<1>10. ASSUME NEW t \in Threads, Assign(t)
       PROVE  AppOK'
  <2>1. BooksOK'
    BY <1>5, <1>10 DEF Assign, Books, history
  <2>2. /\ at[t] = "assign" /\ at' = [at EXCEPT ![t] = "fetch"] /\ "fetch" \in Places
        /\ UNCHANGED <<vars, kind, orch, doc, calm>>
        /\ orchestrators' = Append(orchestrators, {}) /\ served' = Len(orchestrators) + 1
    BY <1>10 DEF Assign, Move, history, Places
  <2>3. /\ orchestrators' \in Seq(SUBSET Docs) /\ Len(orchestrators') = Len(orchestrators) + 1
    BY <1>3, <2>2
  <2>4. OrchestratorsOK /\ orch'[t] \in 0..Len(orchestrators')
    BY <1>3, <1>4, <2>2, <2>3 DEF OrchestratorsOK, LocalOK
  <2>5. served' # 0 /\ (kind[t] = "ingest" => doc[t] # 0)
    BY <1>3, <1>4, <2>2 DEF LocalOK
  <2>. QED
    BY <1>3, <1>4, <1>7, <2>1, <2>2, <2>4, <2>5, HandlerMoves
<1>11. ASSUME NEW t \in Threads, BooksOK', Forget(t), Move(t, at[t], "idle"),
              at[t] # "cached" \/ pc[t] = "idle",
              UNCHANGED <<vars, orchestrators, served>>
       PROVE  AppOK'
  BY <1>3, <1>7, <1>11, HandlerEnds DEF Move
<1>12. ASSUME NEW t \in Threads, Look(t) \/ StoreFails(t) \/ GenerateRaises(t)
       PROVE  AppOK'
  <2>1. BooksOK'
    BY <1>5, <1>12 DEF Look, StoreFails, GenerateRaises, Books
  <2>. QED
    BY <1>11, <1>12, <2>1 DEF Look, StoreFails, GenerateRaises, Move
<1>13. ASSUME NEW t \in Threads, BeginIngest(t)
       PROVE  AppOK'
  <2>1. BooksOK'
    BY <1>5, <1>13 DEF BeginIngest, Books, history
  <2>2. /\ at[t] = "fetch" /\ kind[t] = "ingest"
        /\ at' = [at EXCEPT ![t] = "store"] /\ "store" \in Places
        /\ orch' = [orch EXCEPT ![t] = served]
        /\ UNCHANGED <<vars, orchestrators, served, kind, doc, calm>>
    BY <1>13 DEF BeginIngest, Fetch, Move, history, Places
  <2>3. served # 0 /\ doc[t] # 0 /\ orch'[t] = served
    BY <1>3, <1>4, <2>2 DEF LocalOK, AppTypeOK
  <2>. QED
    BY <1>3, <1>6, <1>7, <2>1, <2>2, <2>3, HandlerMoves
<1>14. ASSUME NEW t \in Threads, Store(t)
       PROVE  AppOK'
  <2>1. BooksOK'
    BY <1>5, <1>14 DEF Store, Books, history
  <2>2. /\ at[t] = "store" /\ at' = [at EXCEPT ![t] = "count"] /\ "count" \in Places
        /\ UNCHANGED <<vars, served, kind, orch, doc, calm>>
        /\ orchestrators' = [orchestrators EXCEPT ![orch[t]] = @ \cup {doc[t]}]
    BY <1>14 DEF Store, Move, history, Places
  <2>3. orch[t] \in 1..Len(orchestrators) /\ doc[t] \in Docs /\ doc[t] # 0
    BY <1>3, <1>4, <2>2 DEF LocalOK
  <2>4. orchestrators' \in Seq(SUBSET Docs) /\ Len(orchestrators') = Len(orchestrators)
    BY <1>3, <2>2, <2>3
  <2>5. OrchestratorsOK /\ orch'[t] \in 0..Len(orchestrators') /\ orch'[t] # 0
    BY <1>3, <2>2, <2>3, <2>4 DEF OrchestratorsOK
  <2>. QED
    BY <1>3, <1>4, <1>7, <2>1, <2>2, <2>3, <2>5, HandlerMoves
<1>15. ASSUME NEW t \in Threads, CountDocument(t)
       PROVE  AppOK'
  <2>1. at[t] = "count" /\ doc[t] \in Docs
    BY <1>4, <1>15 DEF CountDocument, Move, LocalOK
  <2>2. counters' \in [Names -> Nat]
    BY <1>3, <1>15 DEF CountDocument, Count, AppTypeOK, Names
  <2>3. BooksOK'
    BY <1>2, <1>3, <1>15, <2>1, <2>2 DEF CountDocument, AppTypeOK, BooksOK
  <2>. QED
    BY <1>11, <1>15, <2>1, <2>3 DEF CountDocument, Move
<1>16. ASSUME NEW t \in Threads, NEW k \in Keys, BeginSearch(t, k)
       PROVE  AppOK'
  <2>1. BooksOK'
    BY <1>5, <1>16 DEF BeginSearch, Books, history
  <2>2. /\ at[t] = "fetch" /\ at' = [at EXCEPT ![t] = "cached"] /\ "cached" \in Places
        /\ orch' = [orch EXCEPT ![t] = served]
        /\ UNCHANGED <<orchestrators, served, kind, doc, calm>>
    BY <1>16 DEF BeginSearch, Fetch, Move, history, Places
  <2>3. served # 0 /\ orch'[t] = served
    BY <1>3, <1>4, <2>2 DEF LocalOK, AppTypeOK
  <2>4. \A u \in Threads \ {t} : pc'[u] = pc[u]
    BY <1>1, <1>16 DEF BeginSearch, Call, Goto, IInv, TypeOK
  <2>. QED
    BY <1>3, <1>6, <2>1, <2>2, <2>3, <2>4, HandlerMoves
<1>17. ASSUME NEW t \in Threads, Search(t)
       PROVE  AppOK'
  <2>1. UNCHANGED own
    BY <1>17 DEF Search
  <2>2. pc[t] # "idle" /\ \A u \in Threads \ {t} : pc'[u] = pc[u]
    BY <1>1, <1>17 DEF Search, LookUpName, CreateCache, FetchCache, Get, PutValue,
       RunFactory, Goto, IInv, TypeOK
  <2>3. at[t] = "cached" /\ orch[t] # 0 /\ orch[t] \in 0..Len(orchestrators)
    BY <1>4, <2>2 DEF LocalOK
  <2>4. BooksOK' /\ OrchestratorsOK
    BY <1>5, <1>6, <2>1 DEF own, Books, history
  <2>5. at' = [at EXCEPT ![t] = "cached"] /\ "cached" \in Places
    BY <1>3, <2>1, <2>3 DEF own, AppTypeOK, Places
  <2>6. UNCHANGED <<orchestrators, served, kind, orch, doc, calm>>
    BY <2>1 DEF own, history
  <2>. QED
    BY <1>3, <1>4, <2>2, <2>3, <2>4, <2>5, <2>6, HandlerMoves
<1>18. ASSUME NEW t \in Threads, SearchRaises(t)
       PROVE  AppOK'
  <2>1. pc'[t] = "idle" /\ \A u \in Threads \ {t} : pc'[u] = pc[u]
    BY <1>1, <1>18 DEF SearchRaises, FactoryRaises, Goto, IInv, TypeOK
  <2>2. BooksOK'
    BY <1>5, <1>18 DEF SearchRaises, Books
  <2>. QED
    BY <1>3, <1>18, <2>1, <2>2, HandlerEnds DEF SearchRaises, Move
<1>19. ASSUME NEW t \in Threads, SearchReturns(t)
       PROVE  AppOK'
  <2> DEFINE more == kind[t] = "query" /\ val[t] # {}
  <2>1. counters' \in [Names -> Nat]
    BY <1>3, <1>19 DEF SearchReturns, Count, AppTypeOK, Names
  <2>2. BooksOK'
    BY <1>2, <1>3, <1>19, <2>1 DEF SearchReturns, AppTypeOK, BooksOK
  <2>3. /\ at[t] = "cached" /\ pc[t] = "idle"
        /\ UNCHANGED <<vars, orchestrators, served>>
    BY <1>19 DEF SearchReturns, Move
  <2>4. CASE more
    <3>1. /\ at' = [at EXCEPT ![t] = "generate"] /\ "generate" \in Places
          /\ UNCHANGED <<kind, orch, doc, calm>>
      BY <1>19, <2>4 DEF SearchReturns, Move, Places
    <3>2. orch[t] # 0 /\ orch[t] \in 0..Len(orchestrators)
      BY <1>4, <2>3 DEF LocalOK
    <3>. QED
      BY <1>3, <1>4, <1>6, <1>7, <2>2, <2>3, <3>1, <3>2, HandlerMoves
  <2>5. CASE ~more
    BY <1>11, <1>19, <2>2, <2>3, <2>5 DEF SearchReturns, Move
  <2>. QED
    BY <2>4, <2>5
<1>20. ASSUME NEW t \in Threads, Generate(t)
       PROVE  AppOK'
  <2>1. counters' \in [Names -> Nat]
    BY <1>3, <1>20 DEF Generate, Count, AppTypeOK, Names
  <2>2. BooksOK'
    BY <1>2, <1>3, <1>20, <2>1 DEF Generate, AppTypeOK, BooksOK
  <2>. QED
    BY <1>11, <1>20, <2>2 DEF Generate, Move
<1>21. ASSUME NEW t \in Threads, ReadCounters(t)
       PROVE  AppOK'
  <2>1. requests' \in 0..MaxRequests
    BY <1>3, <1>21 DEF ReadCounters, Request, AppTypeOK
  <2>2. counters["documents"] \in Nat /\ counters["retrievals"] \in Nat
        /\ counters["queries"] \in Nat /\ 0 \in 0..Len(caches)
    BY <1>1, <1>3 DEF AppTypeOK, Names, IInv, TypeOK
  <2>3. seen' \in [Threads -> Readings]
    BY <1>3, <1>21, <2>2 DEF ReadCounters, AppTypeOK, Readings
  <2>4. BooksOK'
    BY <1>2, <1>3, <1>21, <2>1, <2>3 DEF ReadCounters, AppTypeOK, BooksOK, history
  <2>5. /\ at[t] = "idle" /\ at' = [at EXCEPT ![t] = "caches"]
        /\ kind' = [kind EXCEPT ![t] = "metrics"]
        /\ UNCHANGED <<vars, orchestrators, served, orch, doc, calm>>
    BY <1>21 DEF ReadCounters, Request, Move, history
  <2>6. at'[t] = "caches" /\ kind'[t] = "metrics"
    BY <1>3, <2>5 DEF AppTypeOK
  <2>7. pc'[t] = "idle" /\ \A u \in Threads \ {t} : pc'[u] = pc[u]
    BY <1>7, <2>5
  <2>8. Only(t)
    BY <1>3, <2>5, <2>6, <2>7 DEF Only, AppTypeOK
  <2>9. LocalOK(t)'
    BY <1>4, <2>5, <2>6, <2>7 DEF LocalOK, Places, Kinds
  <2>. QED
    BY <1>3, <1>6, <2>4, <2>5, <2>8, <2>9, AppTypesKept
\* /metrics goes on to read the caches
<1>22. ASSUME NEW t \in Threads, NEW from \in {"caches", "stats"}, NEW to \in {"stats", "reply"},
              NEW reading \in Readings, See(t, from, to, reading)
       PROVE  AppOK'
  <2>1. seen' \in [Threads -> Readings']
    BY <1>2, <1>3, <1>22 DEF See, AppTypeOK
  <2>2. BooksOK'
    BY <1>3, <1>22, <2>1 DEF See, AppTypeOK, BooksOK, history
  <2>3. /\ at[t] = from /\ at' = [at EXCEPT ![t] = to] /\ to \in Places
        /\ UNCHANGED <<vars, orchestrators, served, kind, orch, doc, calm>>
    BY <1>22 DEF See, Move, history, Places
  <2>4. orch[t] \in 0..Len(orchestrators)
    BY <1>4 DEF LocalOK
  <2>. QED
    BY <1>3, <1>4, <1>6, <1>7, <1>22, <2>2, <2>3, <2>4, HandlerMoves
<1>25. ASSUME NEW t \in Threads, Reply(t)
       PROVE  AppOK'
  <2>1. NothingRead \in Readings'
    BY <1>1 DEF NothingRead, Readings, IInv, TypeOK
  <2>2. seen' \in [Threads -> Readings']
    BY <1>2, <1>3, <1>25, <2>1 DEF Reply, AppTypeOK
  <2>3. BooksOK'
    BY <1>3, <1>25, <2>2 DEF Reply, AppTypeOK, BooksOK
  <2>. QED
    BY <1>11, <1>25, <2>3 DEF Reply, Move
<1>23. ASSUME NEW t \in Threads, ReadCaches(t)
       PROVE  AppOK'
  <2>1. [seen[t] EXCEPT !.cache = current] \in Readings
    BY <1>1, <1>4 DEF Readings, IInv, TypeOK
  <2>. QED
    BY <1>22, <1>23, <2>1 DEF ReadCaches
<1>24. ASSUME NEW t \in Threads, ReadStats(t)
       PROVE  AppOK'
  <2>1. seen[t].cache \in DOMAIN caches
    BY <1>1, <1>3, <1>4, <1>24 DEF ReadStats, See, Move, ReadersHaveCaches, Readings, IInv, TypeOK
  <2>2. caches[seen[t].cache] \in Objects
    BY <1>1, <2>1 DEF IInv, TypeOK
  <2>3. Lookups(seen[t].cache) \in Nat
    BY <2>2 DEF Lookups, Objects
  <2>4. [seen[t] EXCEPT !.lookups = Lookups(seen[t].cache)] \in Readings
    BY <1>4, <2>3 DEF Readings
  <2>. QED
    BY <1>22, <1>24, <2>4 DEF ReadStats
<1>. QED
  BY <1>8, <1>9, <1>10, <1>12, <1>13, <1>14, <1>15, <1>16, <1>17, <1>18, <1>19, <1>20,
     <1>21, <1>23, <1>24, <1>25 DEF AppNext, Handle

LEMMA AppNextReaders == Types /\ [AppNext]_appvars => ReadersHaveCaches'
<1> SUFFICES ASSUME Types, [AppNext]_appvars, NEW u \in Threads, at'[u] = "stats"
             PROVE  seen'[u].cache # 0
  BY DEF ReadersHaveCaches
<1>1. /\ at \in [Threads -> Places] /\ seen \in [Threads -> Readings]
      /\ (at[u] = "stats" => seen[u].cache # 0)
  BY DEF Types, AppOK, AppTypeOK, ReadersHaveCaches
\* A step of another thread leaves what u has read, and u's own steps, but one, go
\* elsewhere.
<1>2. ASSUME NEW t \in Threads, NEW p, NEW r, at' = [at EXCEPT ![t] = p],
             seen' = seen \/ seen' = [seen EXCEPT ![t] = r],
             p = "stats" => r.cache # 0 /\ seen' = [seen EXCEPT ![t] = r]
      PROVE  seen'[u].cache # 0
  <2>1. CASE t = u
    BY <1>1, <1>2, <2>1
  <2>2. CASE t # u
    BY <1>1, <1>2, <2>2
  <2>. QED
    BY <2>1, <2>2
<1>3. CASE UNCHANGED <<at, seen>>
  BY <1>1, <1>3
<1>4. ASSUME NEW t \in Threads, NEW k \in Kinds, Check(t, k)
      PROVE  seen'[u].cache # 0
  BY <1>2, <1>4 DEF Check, Request, Move
<1>5. ASSUME NEW t \in Threads, NEW k \in Keys, BeginSearch(t, k)
      PROVE  seen'[u].cache # 0
  BY <1>2, <1>5 DEF BeginSearch, Fetch, Move
<1>6. ASSUME NEW t \in Threads, Search(t)
      PROVE  seen'[u].cache # 0
  BY <1>3, <1>6 DEF Search, own
<1>7. ASSUME NEW t \in Threads,
             Assign(t) \/ Look(t) \/ BeginIngest(t) \/ Store(t) \/ StoreFails(t)
             \/ CountDocument(t) \/ SearchRaises(t) \/ Generate(t) \/ GenerateRaises(t)
      PROVE  seen'[u].cache # 0
  <2>1. seen' = seen /\ \E p \in Places : p # "stats" /\ at' = [at EXCEPT ![t] = p]
    BY <1>7 DEF Assign, Look, BeginIngest, Fetch, Store, StoreFails, CountDocument,
       SearchRaises, Generate, GenerateRaises, Move, Places
  <2>. QED
    BY <1>2, <2>1
<1>8. ASSUME NEW t \in Threads, SearchReturns(t)
      PROVE  seen'[u].cache # 0
  BY <1>2, <1>8 DEF SearchReturns, Move
<1>9. ASSUME NEW t \in Threads, ReadCounters(t)
      PROVE  seen'[u].cache # 0
  BY <1>2, <1>9 DEF ReadCounters, Move
<1>10. ASSUME NEW t \in Threads, ReadCaches(t)
      PROVE  seen'[u].cache # 0
  <2>1. seen[t] \in Readings
    BY <1>1
  <2>2. [seen[t] EXCEPT !.cache = current].cache = current
    BY <2>1 DEF Readings
  <2>. QED
    BY <1>2, <1>10, <2>2 DEF ReadCaches, See, Move
<1>11. ASSUME NEW t \in Threads, ReadStats(t)
      PROVE  seen'[u].cache # 0
  BY <1>2, <1>11 DEF ReadStats, See, Move
<1>12. ASSUME NEW t \in Threads, Reply(t)
      PROVE  seen'[u].cache # 0
  BY <1>2, <1>12 DEF Reply, Move
<1>. QED
  BY <1>3, <1>4, <1>5, <1>6, <1>7, <1>8, <1>9, <1>10, <1>11, <1>12 DEF AppNext, Handle, appvars, own

LEMMA AppNextInv == Types /\ [AppNext]_appvars => Types'
  BY CacheStep, NextIInv, AppNextTypes, AppNextReaders DEF Types

LEMMA AppAlways == AppSpec => []Types
  BY AppInitTypes, AppNextInv, PTL DEF AppSpec

-----------------------------------------------------------------------------
\* The types of the application: a handler past get_orchestrator() has one to use,
\* whatever other requests do to _orchestrator meanwhile (main.py:35-39).
THEOREM AppTypeCorrect == AppSpec => []AppTypeOK
<1>1. Types => AppTypeOK
  BY DEF Types, AppOK
<1>. QED
  BY <1>1, AppAlways, PTL

\* The application implements the cache registry of module Cache: what its requests
\* do to the registry is what independent calls of cached_call() do (registry.py:101-117).
THEOREM AppImplementsCache == AppSpec => Spec
<1>1. AppInit => Init
  BY DEF AppInit
<1>. QED
  BY <1>1, CacheStep, AppAlways, PTL DEF AppSpec, Spec

\* So the bound of the cache holds inside the application.
THEOREM AppCacheIsCapped == AppSpec => []Capped
  BY AppImplementsCache, CacheIsCapped, PTL

\* And its eviction order, whatever requests search meanwhile (registry.py:9).
THEOREM AppLeastRecentIsEvicted == AppSpec => []LeastRecentlyUsedGoes
  BY AppImplementsCache, LeastRecentIsEvicted, PTL

THEOREM AppCacheTypeCorrect == AppSpec => []TypeOK
  BY AppImplementsCache, CacheTypeCorrect, PTL

-----------------------------------------------------------------------------
\* The orchestrator that serves now serves for good: nobody read None and has yet to
\* assign.
Settled == served # 0 /\ NobodyAssigns

\* The inductive invariant behind LostOnlyByRace: calm requests work on the
\* orchestrator that serves, and what is stored and not yet acknowledged is there.
RaceInv ==
    /\ \A t \in Threads : calm[t] => /\ Settled
                                     /\ at[t] \in {"store", "count"} => orch[t] = served
    /\ \A t \in Threads : at[t] = "count" => doc[t] \in orchestrators[orch[t]]
    /\ calmAcked # {} => Settled
    /\ served # 0 => calmAcked \subseteq orchestrators[served]
    /\ acked \subseteq Created

Step(t) == \/ \E k \in Kinds : Check(t, k)
           \/ \E k \in Keys : BeginSearch(t, k)
           \/ Handle(t)

\* A step of a thread leaves the others where they are.
LEMMA OthersStay ==
    ASSUME Types, NEW t \in Threads, Step(t), NEW u \in Threads, u # t
    PROVE  UNCHANGED <<at[u], orch[u], doc[u], calm[u]>>
<1>1. /\ at \in [Threads -> Places] /\ orch \in [Threads -> 0..Len(orchestrators)]
      /\ doc \in [Threads -> {0} \cup Docs] /\ calm \in [Threads -> BOOLEAN]
  BY DEF Types, AppOK, AppTypeOK
<1>2. CASE \E k \in Kinds : Check(t, k)
  BY <1>1, <1>2 DEF Check, Move
<1>3. CASE \E k \in Keys : BeginSearch(t, k)
  BY <1>1, <1>3 DEF BeginSearch, Fetch, Move, history
<1>4. CASE Assign(t) \/ BeginIngest(t) \/ Store(t)
  BY <1>1, <1>4 DEF Assign, BeginIngest, Fetch, Store, Move, history
<1>5. CASE Search(t)
  BY <1>5 DEF Search, own, history
<1>6. CASE \/ Look(t) \/ StoreFails(t) \/ CountDocument(t) \/ SearchRaises(t) \/ Generate(t)
           \/ GenerateRaises(t) \/ Reply(t)
  BY <1>1, <1>6 DEF Look, StoreFails, CountDocument, SearchRaises, Generate,
     GenerateRaises, Reply, Move, Forget
<1>7. CASE SearchReturns(t)
  BY <1>1, <1>7 DEF SearchReturns, Move, Forget
<1>8. CASE ReadCounters(t) \/ ReadCaches(t) \/ ReadStats(t)
  BY <1>1, <1>8 DEF ReadCounters, ReadCaches, ReadStats, See, Move, history
<1>. QED
  BY <1>2, <1>3, <1>4, <1>5, <1>6, <1>7, <1>8 DEF Step, Handle

\* Once settled, _orchestrator is never assigned again.
LEMMA SettledStays ==
    ASSUME Types, NEW t \in Threads, Step(t), Settled
    PROVE  Settled' /\ served' = served
<1>1. at[t] # "assign" /\ served # 0 /\ at \in [Threads -> Places]
  BY DEF Settled, NobodyAssigns, Types, AppOK, AppTypeOK
<1>2. ~Assign(t)
  BY <1>1 DEF Assign, Move
<1>3. served' = served
  BY <1>2 DEF Step, Check, BeginSearch, Handle, Look, BeginIngest, Store, StoreFails,
     CountDocument, Search, own, SearchRaises, SearchReturns, Generate, GenerateRaises,
     ReadCounters, ReadCaches, ReadStats, See, Reply
<1>4. at'[t] # "assign"
  <2>1. CASE \E k \in Kinds : Check(t, k)
    BY <1>1, <2>1 DEF Check, Move, None
  <2>2. CASE \E k \in Keys : BeginSearch(t, k)
    BY <1>1, <2>2 DEF BeginSearch, Fetch, Move
  <2>3. CASE Handle(t)
    BY <1>1, <1>2, <2>3 DEF Handle, Look, BeginIngest, Fetch, Store, StoreFails, Move,
       CountDocument, Search, own, SearchRaises, SearchReturns, Generate, GenerateRaises,
       ReadCounters, ReadCaches, ReadStats, See, Reply
  <2>. QED
    BY <2>1, <2>2, <2>3 DEF Step
<1>5. ASSUME NEW u \in Threads PROVE at'[u] # "assign"
  <2>1. CASE u # t
    BY <1>5, <2>1, OthersStay DEF Settled, NobodyAssigns
  <2>. QED
    BY <1>4, <2>1
<1>. QED
  BY <1>1, <1>3, <1>5 DEF Settled, NobodyAssigns

\* No orchestrator loses a document.
LEMMA OrchestratorsGrow ==
    ASSUME Types, NEW t \in Threads, Step(t), NEW o \in DOMAIN orchestrators
    PROVE  o \in DOMAIN orchestrators' /\ orchestrators[o] \subseteq orchestrators'[o]
<1>1. orchestrators \in Seq(SUBSET Docs)
  BY DEF Types, AppOK, AppTypeOK
<1>2. CASE Assign(t)
  BY <1>1, <1>2 DEF Assign
<1>3. CASE Store(t)
  BY <1>1, <1>3 DEF Store
<1>4. CASE ~Assign(t) /\ ~Store(t)
  <2>1. orchestrators' = orchestrators
    BY <1>4 DEF Step, Check, BeginSearch, Handle, Look, BeginIngest, StoreFails,
       CountDocument, Search, own, SearchRaises, SearchReturns, Generate, GenerateRaises,
       ReadCounters, ReadCaches, ReadStats, See, Reply
  <2>. QED
    BY <2>1
<1>. QED
  BY <1>2, <1>3, <1>4

\* How a step of a thread may change what RaceInv says of that thread.
LEMMA OwnStep ==
    ASSUME Types, NEW t \in Threads, Step(t)
    PROVE  /\ calm'[t] => calm[t] \/ (Settled /\ at'[t] \in {"assign", "fetch"})
           /\ at'[t] = "store" => orch'[t] = served
           /\ at'[t] = "count" => /\ at[t] = "store" /\ orch'[t] = orch[t]
                                  /\ calm'[t] = calm[t]
                                  /\ doc'[t] \in orchestrators'[orch[t]]
           /\ \/ UNCHANGED <<acked, calmAcked>>
              \/ /\ at[t] = "count" /\ UNCHANGED orchestrators
                 /\ acked' = acked \cup {doc[t]}
                 /\ calmAcked' = IF calm[t] THEN calmAcked \cup {doc[t]} ELSE calmAcked
<1>1. /\ at \in [Threads -> Places] /\ orch \in [Threads -> 0..Len(orchestrators)]
      /\ calm \in [Threads -> BOOLEAN]
  BY DEF Types, AppOK, AppTypeOK
<1>2. ASSUME NEW k \in Kinds, Check(t, k)
      PROVE  /\ at'[t] \in {"assign", "fetch"} /\ calm'[t] = Settled
             /\ UNCHANGED <<acked, calmAcked>>
  BY <1>1, <1>2 DEF Check, Move, Settled
<1>3. ASSUME NEW k \in Keys, BeginSearch(t, k)
      PROVE  at'[t] = "cached" /\ UNCHANGED <<calm, acked, calmAcked>>
  BY <1>1, <1>3 DEF BeginSearch, Fetch, Move, history
<1>4. ASSUME Assign(t)
      PROVE  at'[t] = "fetch" /\ UNCHANGED <<calm, acked, calmAcked>>
  BY <1>1, <1>4 DEF Assign, Move, history
<1>5. ASSUME BeginIngest(t)
      PROVE  /\ at'[t] = "store" /\ orch'[t] = served
             /\ UNCHANGED <<calm, acked, calmAcked>>
  BY <1>1, <1>5 DEF BeginIngest, Fetch, Move, history
<1>6. ASSUME Store(t)
      PROVE  /\ at[t] = "store" /\ at'[t] = "count" /\ doc'[t] \in orchestrators'[orch[t]]
             /\ UNCHANGED <<orch, calm, acked, calmAcked>>
  <2>1. /\ at[t] = "store" /\ at'[t] = "count" /\ UNCHANGED <<doc, orch, calm, acked, calmAcked>>
        /\ orchestrators' = [orchestrators EXCEPT ![orch[t]] = @ \cup {doc[t]}]
    BY <1>1, <1>6 DEF Store, Move, history
  <2>2. orch[t] \in DOMAIN orchestrators
    BY <2>1 DEF Types, AppOK, AppTypeOK
  <2>. QED
    BY <2>1, <2>2
<1>7. ASSUME CountDocument(t)
      PROVE  /\ at[t] = "count" /\ at'[t] = "idle" /\ ~calm'[t] /\ UNCHANGED orchestrators
             /\ acked' = acked \cup {doc[t]}
             /\ calmAcked' = IF calm[t] THEN calmAcked \cup {doc[t]} ELSE calmAcked
  BY <1>1, <1>7 DEF CountDocument, Move, Forget
<1>8. ASSUME Search(t)
      PROVE  at'[t] = "cached" /\ UNCHANGED <<calm, acked, calmAcked>>
  <2>1. pc[t] # "idle"
    BY <1>8 DEF Search, LookUpName, CreateCache, FetchCache, Get, PutValue, RunFactory, Goto
  <2>. QED
    BY <1>8, <2>1 DEF Search, own, history, Types, AppOK, AppTypeOK
<1>9. ASSUME \/ Look(t) \/ StoreFails(t) \/ SearchRaises(t) \/ Generate(t)
             \/ GenerateRaises(t) \/ Reply(t)
      PROVE  at'[t] = "idle" /\ ~calm'[t] /\ UNCHANGED <<acked, calmAcked>>
  BY <1>1, <1>9 DEF Look, StoreFails, SearchRaises, Generate, GenerateRaises, Reply, Move, Forget
<1>10. ASSUME SearchReturns(t)
       PROVE  /\ at'[t] \in {"idle", "generate"} /\ (calm'[t] => calm[t])
              /\ UNCHANGED <<acked, calmAcked>>
  BY <1>1, <1>10 DEF SearchReturns, Move, Forget
<1>11. ASSUME ReadCounters(t) \/ ReadCaches(t) \/ ReadStats(t)
       PROVE  at'[t] \in {"caches", "stats", "reply"} /\ UNCHANGED <<calm, acked, calmAcked>>
  BY <1>1, <1>11 DEF ReadCounters, ReadCaches, ReadStats, See, Move, history
<1>12. CASE \E k \in Kinds : Check(t, k)
  BY <1>2, <1>12
<1>13. CASE \/ \E k \in Keys : BeginSearch(t, k)
            \/ Assign(t) \/ Search(t) \/ SearchReturns(t)
            \/ ReadCounters(t) \/ ReadCaches(t) \/ ReadStats(t)
  BY <1>3, <1>4, <1>8, <1>10, <1>11, <1>13
<1>14. CASE BeginIngest(t)
  BY <1>5, <1>14 DEF BeginIngest
<1>15. CASE Store(t)
  BY <1>6, <1>15
<1>16. CASE CountDocument(t)
  BY <1>7, <1>16
<1>17. CASE \/ Look(t) \/ StoreFails(t) \/ SearchRaises(t) \/ Generate(t)
            \/ GenerateRaises(t) \/ Reply(t)
  BY <1>9, <1>17
<1>. QED
  BY <1>12, <1>13, <1>14, <1>15, <1>16, <1>17 DEF Step, Handle

LEMMA RaceStep == Types /\ RaceInv /\ [AppNext]_appvars => RaceInv'
<1> SUFFICES ASSUME Types, RaceInv, [AppNext]_appvars PROVE RaceInv'
  OBVIOUS
<1>1. CASE UNCHANGED appvars
  BY <1>1 DEF appvars, own, history, RaceInv, Settled, NobodyAssigns, Created
<1>2. ASSUME NEW t \in Threads, Step(t)
      PROVE  RaceInv'
  <2>1. /\ orchestrators \in Seq(SUBSET Docs) /\ served \in 0..Len(orchestrators)
        /\ orch[t] \in 0..Len(orchestrators)
        /\ at[t] \in {"store", "count"} => orch[t] \in DOMAIN orchestrators
    BY DEF Types, AppOK, AppTypeOK
  <2>2. ASSUME NEW u \in Threads, calm'[u]
        PROVE  Settled' /\ (at'[u] \in {"store", "count"} => orch'[u] = served')
    <3>1. CASE u # t
      BY <1>2, <2>2, <3>1, OthersStay, SettledStays DEF RaceInv
    <3>2. CASE u = t
      BY <1>2, <2>2, <3>2, OwnStep, SettledStays DEF RaceInv
    <3>. QED
      BY <3>1, <3>2
  <2>3. ASSUME NEW u \in Threads, at'[u] = "count"
        PROVE  doc'[u] \in orchestrators'[orch'[u]]
    <3>1. CASE u # t
      <4>1. /\ at[u] = "count" /\ orch'[u] = orch[u] /\ doc'[u] = doc[u]
        BY <1>2, <2>3, <3>1, OthersStay
      <4>2. doc[u] \in orchestrators[orch[u]] /\ orch[u] \in DOMAIN orchestrators
        BY <4>1 DEF RaceInv, Types, AppOK, AppTypeOK
      <4>. QED
        BY <1>2, <4>1, <4>2, OrchestratorsGrow
    <3>2. CASE u = t
      BY <1>2, <2>3, <3>2, OwnStep
    <3>. QED
      BY <3>1, <3>2
  <2>4. calmAcked' # {} => Settled'
    BY <1>2, OwnStep, SettledStays DEF RaceInv
  <2>5. served' # 0 => calmAcked' \subseteq orchestrators'[served']
    <3> SUFFICES ASSUME served' # 0, NEW d \in calmAcked' PROVE d \in orchestrators'[served']
      OBVIOUS
    <3>1. CASE d \in calmAcked
      <4>1. Settled /\ d \in orchestrators[served]
        BY <3>1 DEF RaceInv, Settled
      <4>2. served' = served /\ served \in DOMAIN orchestrators
        BY <1>2, <2>1, <4>1, SettledStays DEF Settled
      <4>. QED
        BY <1>2, <4>1, <4>2, OrchestratorsGrow
    <3>2. CASE d \notin calmAcked
      <4>1. at[t] = "count" /\ calm[t] /\ d = doc[t] /\ UNCHANGED orchestrators
        BY <1>2, <3>2, OwnStep
      <4>2. Settled /\ d \in orchestrators[served]
        BY <4>1 DEF RaceInv
      <4>. QED
        BY <1>2, <4>1, <4>2, SettledStays
    <3>. QED
      BY <3>1, <3>2
  <2>6. acked' \subseteq Created'
    <3> SUFFICES ASSUME NEW d \in acked' PROVE \E o \in DOMAIN orchestrators' : d \in orchestrators'[o]
      BY DEF Created
    <3>1. \E o \in DOMAIN orchestrators : d \in orchestrators[o]
      <4>1. CASE d \in acked
        BY <4>1 DEF RaceInv, Created
      <4>2. CASE d \notin acked
        BY <1>2, <2>1, <4>2, OwnStep DEF RaceInv
      <4>. QED
        BY <4>1, <4>2
    <3>. QED
      BY <1>2, <3>1, OrchestratorsGrow
  <2>. QED
    BY <2>2, <2>3, <2>4, <2>5, <2>6 DEF RaceInv
<1>. QED
  BY <1>1, <1>2 DEF AppNext, Step

\* Nothing that a request has acknowledged is lost, but by the race of the first
\* requests at main.py:37.
THEOREM OnlyTheRaceLoses == AppSpec => []LostOnlyByRace
<1>1. AppInit => RaceInv
  BY DEF AppInit, RaceInv, Created
<1>2. RaceInv => LostOnlyByRace
  <2> SUFFICES ASSUME RaceInv PROVE LostOnlyByRace
    OBVIOUS
  <2>1. Len(orchestrators) = 1 => acked \subseteq orchestrators[1]
    BY DEF RaceInv, Created
  <2>. QED
    BY <2>1 DEF RaceInv, LostOnlyByRace
<1>. QED
  BY <1>1, <1>2, RaceStep, AppAlways, PTL DEF AppSpec

-----------------------------------------------------------------------------
(* The figures of /metrics.                                                *)

\* The lookups that caches cs have counted, one number for each.
LooksOf(cs) == [c \in DOMAIN cs |-> cs[c].hits + cs[c].misses]
Looks(cs) == SumFunctionOnSet(LooksOf(cs), DOMAIN cs)

LEMMA LooksType ==
    ASSUME NEW cs \in Seq(Objects)
    PROVE  /\ IsFiniteSet(DOMAIN cs) /\ DOMAIN cs = 1..Len(cs) /\ Len(cs) \in Nat
           /\ LooksOf(cs) \in [DOMAIN cs -> Nat] /\ Looks(cs) \in Nat
<1>1. /\ DOMAIN cs = 1..Len(cs) /\ Len(cs) \in Nat
  OBVIOUS
<1>2. IsFiniteSet(DOMAIN cs)
  BY <1>1, FS_Interval
<1>3. ASSUME NEW c \in DOMAIN cs PROVE cs[c].hits + cs[c].misses \in Nat
  <2>1. cs[c] \in Objects
    OBVIOUS
  <2>. QED
    BY <2>1 DEF Objects
<1>4. LooksOf(cs) \in [DOMAIN cs -> Nat]
  BY <1>3 DEF LooksOf
<1>5. Looks(cs) \in Nat
  BY <1>2, <1>4, SumLaws DEF Looks
<1>. QED
  BY <1>1, <1>2, <1>4, <1>5

LEMMA LookupSumIs == LookupSum = Looks(caches)
  BY DEF LookupSum, Lookups, SumFunction, Looks, LooksOf

\* What a step does to one cache object, it does to the sum.
LEMMA OneCacheLooks ==
    ASSUME NEW cs \in Seq(Objects), NEW o \in DOMAIN cs, NEW c \in Objects,
           NEW n \in Nat, c.hits + c.misses = cs[o].hits + cs[o].misses + n
    PROVE  Looks([cs EXCEPT ![o] = c]) = Looks(cs) + n
<1> DEFINE new == [cs EXCEPT ![o] = c]
           f == LooksOf(cs)
           h == LooksOf(new)
           S == DOMAIN cs
<1>1. new \in Seq(Objects) /\ DOMAIN new = S
  OBVIOUS
<1>2. \A p \in S \ {o} : f[p] = h[p]
  BY <1>1 DEF LooksOf
<1>3. h[o] = f[o] + n
  BY <1>1 DEF LooksOf
<1> HIDE DEF new
<1>4. IsFiniteSet(S) /\ f \in [S -> Nat] /\ h \in [S -> Nat]
  <2>1. LooksOf(new) \in [DOMAIN new -> Nat]
    BY <1>1, LooksType
  <2>. QED
    BY <1>1, <2>1, LooksType
<1>5. Looks(cs) = SumFunctionOnSet(f, S) /\ Looks(new) = SumFunctionOnSet(h, S)
  BY <1>1 DEF Looks
<1>6. o \in S /\ f[o] \in Nat
  BY <1>4
<1> HIDE DEF f, h, S
<1>7. /\ SumFunctionOnSet(f, S) \in Nat /\ SumFunctionOnSet(h, S) \in Nat
      /\ SumFunctionOnSet(f, S) + h[o] = SumFunctionOnSet(h, S) + f[o]
  BY ONLY <1>2, <1>4, <1>6, SumChange
<1>8. Looks(new) = Looks(cs) + n
  BY <1>3, <1>5, <1>6, <1>7
<1>. QED
  BY <1>8 DEF new

\* A new cache has had no lookup.
LEMMA NewCacheLooks ==
    ASSUME NEW cs \in Seq(Objects)
    PROVE  Looks(Append(cs, EmptyCache)) = Looks(cs)
<1> DEFINE n == Len(cs) + 1
           new == Append(cs, EmptyCache)
           S == DOMAIN cs
           R == DOMAIN new
           f == LooksOf(cs)
           h == LooksOf(new)
<1>1. EmptyCache \in Objects
  BY EmptyIsSound DEF Sound
<1>2. /\ new \in Seq(Objects) /\ R = 1..(Len(cs) + 1) /\ new[n] = EmptyCache
      /\ \A p \in S : new[p] = cs[p]
  BY <1>1
<1>3. IsFiniteSet(S) /\ S = 1..Len(cs) /\ Len(cs) \in Nat /\ f \in [S -> Nat] /\ Looks(cs) \in Nat
  BY LooksType
<1> HIDE DEF new
<1>4. IsFiniteSet(R) /\ h \in [R -> Nat]
  BY <1>2, LooksType
<1>5. R \ {n} = S /\ n \in R
  BY <1>2, <1>3
<1>6. h[n] = 0 /\ Looks(cs) = SumFunctionOnSet(f, S)
  BY <1>2, <1>5 DEF LooksOf, EmptyCache, Looks
<1>11. \A p \in S : f[p] = h[p]
  BY <1>2, <1>5 DEF LooksOf
<1>7. Looks(cs) = SumFunctionOnSet(f, S) /\ Looks(new) = SumFunctionOnSet(h, R)
  BY DEF Looks
<1> HIDE DEF f, h, S, R
<1>8. /\ SumFunctionOnSet(h, R) = h[n] + SumFunctionOnSet(h, R \ {n})
      /\ SumFunctionOnSet(h, R) \in Nat /\ SumFunctionOnSet(h, R \ {n}) \in Nat
  BY <1>4, <1>5, SumLaws
<1>9. SumFunctionOnSet(f, S) = SumFunctionOnSet(h, S)
  <2>1. S \in SUBSET S /\ S \in SUBSET R
    BY <1>5
  <2>2. IsFiniteSet(S) /\ IsFiniteSet(R) /\ f \in [S -> Nat] /\ h \in [R -> Nat]
    BY <1>3, <1>4
  <2>. QED
    BY ONLY <1>11, <2>1, <2>2, SumAgrees
<1>12. SumFunctionOnSet(h, R \ {n}) = SumFunctionOnSet(h, S)
  BY ONLY <1>5, Zenon
<1>10. Looks(new) = Looks(cs)
  BY ONLY <1>6, <1>7, <1>8, <1>9, <1>12
<1>. QED
  BY <1>10 DEF new

\* Only get() counts a lookup, of one key in one cache.
LEMMA GetLooks ==
    ASSUME IInv, NEW t \in Threads, Get(t)
    PROVE  LookupSum' = LookupSum + 1
<1> DEFINE c == caches[cache[t]]
           new == IF Has(c.data, key[t]) THEN Found(c, key[t]) ELSE NotFound(c)
<1>1. /\ cache[t] \in DOMAIN caches /\ caches' = [caches EXCEPT ![cache[t]] = new]
      /\ caches \in Seq(Objects) /\ key[t] \in Keys
  BY DEF Get, Goto, IInv, TypeOK
<1>2. c \in Objects /\ Sound(c)
  BY <1>1, IInvObjects DEF Sound
<1>3. new.hits + new.misses = c.hits + c.misses + 1
  BY <1>2 DEF Found, NotFound, Objects
<1>4. new \in Objects
  BY <1>1, <1>2, FoundIsSound, NotFoundIsSound DEF Sound
<1> HIDE DEF new
<1>5. Looks(caches') = Looks(caches) + 1
  BY <1>1, <1>3, <1>4, OneCacheLooks
<1>. QED
  BY <1>5, LookupSumIs DEF LookupSum, Lookups, SumFunction, Looks, LooksOf

LEMMA OthersDoNotLook ==
    ASSUME IInv, NEW t \in Threads, CallStep(t), ~Get(t)
    PROVE  LookupSum' = LookupSum
<1>1. caches \in Seq(Objects)
  BY DEF IInv, TypeOK
<1>2. Looks(caches') = Looks(caches)
  <2>1. CASE CreateCache(t)
    BY <1>1, <2>1, NewCacheLooks DEF CreateCache
  <2>2. CASE PutValue(t)
    <3> DEFINE c == caches[cache[t]]
               new == Stored(c, key[t], val[t])
    <3>1. /\ cache[t] \in DOMAIN caches /\ caches' = [caches EXCEPT ![cache[t]] = new]
          /\ key[t] \in Keys /\ val[t] \in Values
      BY <2>2 DEF PutValue, Goto, IInv, TypeOK
    <3>2. c \in Objects /\ Sound(c)
      BY <3>1, IInvObjects DEF Sound
    <3>3. new.hits + new.misses = c.hits + c.misses + 0
      BY <3>2 DEF Stored, Objects
    <3>4. new \in Objects
      BY <3>1, <3>2, StoredIsSound DEF Sound
    <3> HIDE DEF new
    <3>5. Looks(caches') = Looks(caches) + 0
      BY <1>1, <3>1, <3>3, <3>4, OneCacheLooks
    <3>. QED
      BY <1>1, <3>5, LooksType
  <2>3. CASE ~CreateCache(t) /\ ~PutValue(t)
    BY <2>3 DEF CallStep, LookUpName, FetchCache, FactoryRaises, RunFactory
  <2>. QED
    BY <2>1, <2>2, <2>3
<1>. QED
  BY <1>2 DEF LookupSum, Lookups, SumFunction, Looks, LooksOf

\* The threads that generate an answer, and those whose search has looked into the cache.
Generating == {t \in Threads : at[t] = "generate"}
HasLooked(t) == at[t] = "cached" /\ pc[t] \in {"factory", "put", "idle"}
Looked == {t \in Threads : HasLooked(t)}

\* Every document brought has a number of its own, and is counted once: when it is
\* acknowledged.
DocsInv == /\ acked \subseteq 1..requests
           /\ \A t \in Threads : doc[t] # 0 =>
                 /\ doc[t] \in 1..requests /\ doc[t] \notin acked
                 /\ \A u \in Threads \ {t} : doc[u] # doc[t]
           /\ counters["documents"] = Cardinality(acked)

\* Every query that is counted, or will be, has its retrieval counted; and every
\* retrieval that is counted, or may be, its lookup.
QueriesInv == /\ IsFiniteSet(Generating)
              /\ counters["queries"] + Cardinality(Generating) <= counters["retrievals"]
LooksInv == /\ IsFiniteSet(Looked)
            /\ counters["retrievals"] + Cardinality(Looked) <= LookupSum

\* What /metrics reads later is not older.
ReadingsInv ==
    /\ current = 0 => Len(caches) = 0
    /\ \A t \in Threads :
          /\ seen[t].queries <= seen[t].retrievals
          /\ at[t] \in {"caches", "stats"} => seen[t].retrievals <= counters["retrievals"]
          /\ at[t] = "reply" /\ Len(caches) <= 1 => seen[t].retrievals <= seen[t].lookups

\* What a step does to the documents.
LEMMA DocStep ==
    ASSUME Types, NEW t \in Threads, Step(t)
    PROVE  \/ /\ UNCHANGED acked /\ counters'["documents"] = counters["documents"]
              /\ requests' \in {requests, requests + 1}
              /\ doc'[t] \in {0, doc[t]}
           \/ /\ UNCHANGED acked /\ counters'["documents"] = counters["documents"]
              /\ requests' = requests + 1 /\ doc'[t] = requests + 1
           \/ /\ acked' = acked \cup {doc[t]} /\ doc[t] # 0 /\ doc'[t] = 0
              /\ counters'["documents"] = counters["documents"] + 1
              /\ requests' = requests
<1>1. /\ doc \in [Threads -> {0} \cup Docs] /\ counters \in [Names -> Nat]
      /\ (at[t] = "count" => doc[t] # 0) /\ "documents" \in Names
  BY DEF Types, AppOK, AppTypeOK, Names
<1>2. CASE \E k \in Kinds : Check(t, k)
  <2>1. PICK k \in Kinds : Check(t, k)
    BY <1>2
  <2>. QED
    BY <1>1, <2>1 DEF Check, Request
<1>3. CASE CountDocument(t)
  BY <1>1, <1>3 DEF CountDocument, Move, Count, Forget
<1>4. CASE \/ Look(t) \/ StoreFails(t) \/ SearchRaises(t) \/ GenerateRaises(t) \/ Reply(t)
  BY <1>1, <1>4 DEF Look, StoreFails, SearchRaises, GenerateRaises, Reply, Forget
<1>5. CASE Generate(t)
  BY <1>1, <1>5 DEF Generate, Count, Forget
<1>6. CASE SearchReturns(t)
  BY <1>1, <1>6 DEF SearchReturns, Count, Forget
<1>7. CASE ReadCounters(t)
  BY <1>1, <1>7 DEF ReadCounters, Request, history
<1>8. CASE \/ Assign(t) \/ BeginIngest(t) \/ Store(t) \/ Search(t)
           \/ ReadCaches(t) \/ ReadStats(t) \/ \E k \in Keys : BeginSearch(t, k)
  BY <1>1, <1>8 DEF Assign, BeginIngest, Store, Search, own, ReadCaches, ReadStats, See,
     BeginSearch, history
<1>. QED
  BY <1>2, <1>3, <1>4, <1>5, <1>6, <1>7, <1>8 DEF Step, Handle

LEMMA DocsAreFinite == IsFiniteSet(Docs)
<1>1. 1 \in Int /\ MaxRequests \in Int
  BY AppAssumption, CacheAssumption DEF AppAssumption, CacheAssumption
<1>2. IsFiniteSet(1..MaxRequests)
  BY ONLY <1>1, FS_Interval
<1>. QED
  BY <1>2 DEF Docs

LEMMA DocsKept ==
    ASSUME Types, DocsInv, NEW t \in Threads, Step(t)
    PROVE  DocsInv'
<1>1. /\ \A u \in Threads : doc[u] \in {0} \cup Docs
      /\ requests \in Nat /\ Docs = 1..MaxRequests /\ MaxRequests \in Nat
      /\ acked \subseteq Docs /\ counters["documents"] \in Nat
  BY AppAssumption, CacheAssumption
     DEF AppAssumption, CacheAssumption, Types, AppOK, AppTypeOK, Names, Docs
<1>2. IsFiniteSet(acked)
  BY <1>1, DocsAreFinite, FS_Subset
<1>3. \A u \in Threads \ {t} : doc'[u] = doc[u]
  BY OthersStay
<1>4. CASE /\ UNCHANGED acked /\ counters'["documents"] = counters["documents"]
           /\ requests' \in {requests, requests + 1}
           /\ doc'[t] \in {0, doc[t]}
  <2>1. 1..requests \subseteq 1..requests'
    BY <1>1, <1>4
  <2>. QED
    BY <1>3, <1>4, <2>1 DEF DocsInv
<1>5. CASE /\ UNCHANGED acked /\ counters'["documents"] = counters["documents"]
           /\ requests' = requests + 1 /\ doc'[t] = requests + 1
  <2>1. 1..requests \subseteq 1..requests' /\ requests + 1 \notin 1..requests
        /\ requests + 1 \in 1..requests' /\ requests + 1 # 0
    BY <1>1, <1>5
  <2>2. \A u \in Threads \ {t} : doc'[u] # requests + 1
    BY <1>3, <2>1 DEF DocsInv
  <2>. QED
    BY <1>3, <1>5, <2>1, <2>2 DEF DocsInv
<1>6. CASE /\ acked' = acked \cup {doc[t]} /\ doc[t] # 0 /\ doc'[t] = 0
           /\ counters'["documents"] = counters["documents"] + 1
           /\ requests' = requests
  <2>1. doc[t] \notin acked /\ doc[t] \in 1..requests
    BY <1>6 DEF DocsInv
  <2>2. Cardinality(acked') = Cardinality(acked) + 1
    BY <1>2, <1>6, <2>1, FS_AddElement
  <2>. QED
    BY <1>3, <1>6, <2>1, <2>2 DEF DocsInv
<1>. QED
  BY <1>4, <1>5, <1>6, DocStep

\* What a step does to the queries.
LEMMA QueryStep ==
    ASSUME Types, NEW t \in Threads, Step(t)
    PROVE  LET q == counters["queries"]
               r == counters["retrievals"]
           IN  \/ /\ at[t] # "generate" /\ at'[t] = "generate"
                  /\ counters'["queries"] = q /\ counters'["retrievals"] = r + 1
               \/ /\ at[t] # "generate" /\ at'[t] # "generate"
                  /\ counters'["queries"] = q /\ counters'["retrievals"] \in {r, r + 1}
               \/ /\ at[t] = "generate" /\ at'[t] # "generate"
                  /\ counters'["queries"] \in {q, q + 1} /\ counters'["retrievals"] = r
<1>1. /\ at \in [Threads -> Places] /\ counters \in [Names -> Nat]
      /\ "documents" \in Names /\ "queries" \in Names /\ "retrievals" \in Names
      /\ (pc[t] # "idle" => at[t] = "cached")
  BY DEF Types, AppOK, AppTypeOK, Names
<1>2. CASE \E k \in Kinds : Check(t, k)
  BY <1>1, <1>2 DEF Check, Move
<1>3. CASE CountDocument(t)
  BY <1>1, <1>3 DEF CountDocument, Move, Count
<1>4. CASE \/ Look(t) \/ StoreFails(t) \/ SearchRaises(t) \/ GenerateRaises(t) \/ Reply(t)
  BY <1>1, <1>4 DEF Look, StoreFails, SearchRaises, GenerateRaises, Reply, Move
<1>5. CASE Generate(t)
  BY <1>1, <1>5 DEF Generate, Count, Move
<1>6. CASE SearchReturns(t)
  BY <1>1, <1>6 DEF SearchReturns, Count, Move
<1>7. CASE \/ Assign(t) \/ BeginIngest(t) \/ Store(t) \/ ReadCounters(t)
           \/ ReadCaches(t) \/ ReadStats(t) \/ \E k \in Keys : BeginSearch(t, k)
  BY <1>1, <1>7 DEF Assign, BeginIngest, Fetch, Store, ReadCounters, ReadCaches, ReadStats,
     See, BeginSearch, Move
<1>8. CASE Search(t)
  <2>1. pc[t] # "idle"
    BY <1>8 DEF Search, LookUpName, CreateCache, FetchCache, Get, PutValue, RunFactory, Goto
  <2>. QED
    BY <1>1, <1>8, <2>1 DEF Search, own
<1>. QED
  BY <1>2, <1>3, <1>4, <1>5, <1>6, <1>7, <1>8 DEF Step, Handle

\* A thread joins a finite set of threads, or leaves it.
LEMMA OneMore ==
    ASSUME NEW G, IsFiniteSet(G), NEW t, t \notin G
    PROVE  IsFiniteSet(G \cup {t}) /\ Cardinality(G \cup {t}) = Cardinality(G) + 1
  BY FS_AddElement

LEMMA OneLess ==
    ASSUME NEW G, IsFiniteSet(G), NEW t \in G
    PROVE  IsFiniteSet(G \ {t}) /\ Cardinality(G \ {t}) = Cardinality(G) - 1
  BY FS_RemoveElement

LEMMA QueriesKept ==
    ASSUME Types, QueriesInv, NEW t \in Threads, Step(t)
    PROVE  QueriesInv'
<1> DEFINE G == Generating
           q == counters["queries"]
           r == counters["retrievals"]
<1>1. q \in Nat /\ r \in Nat
  BY DEF Types, AppOK, AppTypeOK, Names
<1>2. IsFiniteSet(G) /\ Cardinality(G) \in Nat /\ q + Cardinality(G) <= r
  BY FS_CardinalityType DEF QueriesInv
<1>3. \A u \in Threads \ {t} : at'[u] = at[u]
  BY OthersStay
<1>4. (t \in G <=> at[t] = "generate")
  BY DEF Generating
<1>5. CASE /\ at[t] # "generate" /\ at'[t] = "generate"
           /\ counters'["queries"] = q /\ counters'["retrievals"] = r + 1
  <2>1. Generating' = G \cup {t}
    BY <1>3, <1>5 DEF Generating
  <2>2. IsFiniteSet(G \cup {t}) /\ Cardinality(G \cup {t}) = Cardinality(G) + 1
    BY <1>2, <1>4, <1>5, OneMore
  <2> HIDE DEF G
  <2>. QED
    BY <1>1, <1>2, <1>5, <2>1, <2>2 DEF QueriesInv
<1>6. CASE /\ at[t] # "generate" /\ at'[t] # "generate"
           /\ counters'["queries"] = q /\ counters'["retrievals"] \in {r, r + 1}
  <2>1. Generating' = G
    BY <1>3, <1>6 DEF Generating
  <2> HIDE DEF G
  <2>. QED
    BY <1>1, <1>2, <1>6, <2>1 DEF QueriesInv
<1>7. CASE /\ at[t] = "generate" /\ at'[t] # "generate"
           /\ counters'["queries"] \in {q, q + 1} /\ counters'["retrievals"] = r
  <2>1. Generating' = G \ {t}
    BY <1>3, <1>7 DEF Generating
  <2>2. IsFiniteSet(G \ {t}) /\ Cardinality(G \ {t}) = Cardinality(G) - 1
    BY <1>2, <1>4, <1>7, OneLess
  <2> HIDE DEF G
  <2>. QED
    BY <1>1, <1>2, <1>7, <2>1, <2>2 DEF QueriesInv
<1>. QED
  BY <1>5, <1>6, <1>7, QueryStep

\* What a step does to the lookups.
LEMMA LookStep ==
    ASSUME Types, NEW t \in Threads, Step(t)
    PROVE  LET r == counters["retrievals"]
           IN  \/ /\ ~HasLooked(t) /\ HasLooked(t)'
                  /\ LookupSum' = LookupSum + 1 /\ counters'["retrievals"] = r
               \/ /\ HasLooked(t) /\ ~HasLooked(t)'
                  /\ LookupSum' = LookupSum /\ counters'["retrievals"] \in {r, r + 1}
               \/ /\ HasLooked(t) <=> HasLooked(t)'
                  /\ LookupSum' = LookupSum /\ counters'["retrievals"] = r
<1>1. /\ at \in [Threads -> Places] /\ counters \in [Names -> Nat] /\ pc \in [Threads -> Steps]
      /\ "documents" \in Names /\ "queries" \in Names /\ "retrievals" \in Names
      /\ (pc[t] # "idle" => at[t] = "cached")
  BY DEF Types, AppOK, AppTypeOK, Names, IInv, TypeOK
<1>2. ASSUME UNCHANGED caches PROVE LookupSum' = LookupSum
  BY <1>2 DEF LookupSum, Lookups
<1>3. ASSUME CallStep(t), ~Get(t) PROVE LookupSum' = LookupSum
  BY <1>3, OthersDoNotLook DEF Types
<1>4. CASE Search(t)
  <2>1. pc[t] # "idle" /\ at[t] = "cached" /\ at'[t] = "cached" /\ UNCHANGED counters
    <3>1. pc[t] # "idle"
      BY <1>4 DEF Search, LookUpName, CreateCache, FetchCache, Get, PutValue, RunFactory, Goto
    <3>. QED
      BY <1>1, <1>4, <3>1 DEF Search, own
  <2>2. CASE Get(t)
    <3>1. LookupSum' = LookupSum + 1
      BY <2>2, GetLooks DEF Types
    <3>2. pc[t] = "get" /\ pc'[t] \in {"idle", "factory"}
      BY <1>1, <2>2 DEF Get, Goto
    <3>. QED
      BY <2>1, <3>1, <3>2 DEF HasLooked
  <2>3. CASE LookUpName(t) \/ CreateCache(t) \/ FetchCache(t)
    <3>1. /\ pc[t] \in {"lookup", "create", "fetch"} /\ pc'[t] \in {"create", "fetch", "get"}
          /\ CallStep(t) /\ ~Get(t)
      BY <1>1, <2>3 DEF LookUpName, CreateCache, FetchCache, Get, Goto, CallStep
    <3>. QED
      BY <1>3, <2>1, <3>1 DEF HasLooked
  <2>4. CASE PutValue(t)
    <3>1. pc[t] = "put" /\ pc'[t] = "idle" /\ CallStep(t) /\ ~Get(t)
      BY <1>1, <2>4 DEF PutValue, Get, Goto, CallStep
    <3>. QED
      BY <1>3, <2>1, <3>1 DEF HasLooked
  <2>5. CASE RunFactory(t, Matching(key[t], orchestrators[orch[t]]))
    <3>1. pc[t] = "factory" /\ pc'[t] = "put" /\ UNCHANGED caches
      BY <1>1, <2>5 DEF RunFactory, Goto
    <3>. QED
      BY <1>2, <2>1, <3>1 DEF HasLooked
  <2>. QED
    BY <1>4, <2>2, <2>3, <2>4, <2>5 DEF Search
<1>5. CASE SearchRaises(t)
  <2>1. /\ pc[t] = "factory" /\ at[t] = "cached" /\ at'[t] = "idle" /\ UNCHANGED <<caches, counters>>
    BY <1>1, <1>5 DEF SearchRaises, FactoryRaises, Goto, Move
  <2>. QED
    BY <1>2, <2>1 DEF HasLooked
<1>6. CASE SearchReturns(t)
  <2>1. /\ pc[t] = "idle" /\ at[t] = "cached" /\ at'[t] \in {"idle", "generate"} /\ UNCHANGED vars
        /\ counters'["retrievals"] \in {counters["retrievals"], counters["retrievals"] + 1}
    BY <1>1, <1>6 DEF SearchReturns, Count, Move
  <2>. QED
    BY <1>2, <2>1 DEF HasLooked, vars
<1>7. CASE \E k \in Keys : BeginSearch(t, k)
  <2>1. /\ at[t] = "fetch" /\ pc'[t] = "lookup" /\ UNCHANGED <<caches, counters>>
    BY <1>1, <1>7 DEF BeginSearch, Fetch, Move, Call, Goto
  <2>. QED
    BY <1>2, <2>1 DEF HasLooked
<1>8. CASE \/ Look(t) \/ StoreFails(t) \/ GenerateRaises(t) \/ Reply(t) \/ Assign(t)
           \/ BeginIngest(t) \/ Store(t) \/ ReadCounters(t) \/ ReadCaches(t) \/ ReadStats(t)
           \/ \E k \in Kinds : Check(t, k)
  <2>1. at[t] # "cached" /\ at'[t] # "cached" /\ UNCHANGED <<caches, counters>>
    BY <1>1, <1>8 DEF Look, StoreFails, GenerateRaises, Reply, Assign, BeginIngest, Fetch,
       Store, ReadCounters, ReadCaches, ReadStats, See, Check, Move, vars
  <2>. QED
    BY <1>2, <2>1 DEF HasLooked
<1>9. CASE CountDocument(t) \/ Generate(t)
  <2>1. /\ at[t] # "cached" /\ at'[t] # "cached" /\ UNCHANGED caches
        /\ counters'["retrievals"] = counters["retrievals"]
    BY <1>1, <1>9 DEF CountDocument, Generate, Count, Move, vars
  <2>. QED
    BY <1>2, <2>1 DEF HasLooked
<1>. QED
  BY <1>4, <1>5, <1>6, <1>7, <1>8, <1>9 DEF Step, Handle

LEMMA OthersCallsStay ==
    ASSUME Types, NEW t \in Threads, Step(t), NEW u \in Threads, u # t
    PROVE  pc'[u] = pc[u]
<1>1. pc \in [Threads -> Steps]
  BY DEF Types, IInv, TypeOK
<1>2. CASE Search(t) \/ SearchRaises(t) \/ \E k \in Keys : BeginSearch(t, k)
  BY <1>1, <1>2 DEF Search, LookUpName, CreateCache, FetchCache, Get, PutValue, RunFactory,
     SearchRaises, FactoryRaises, BeginSearch, Call, Goto
<1>3. CASE UNCHANGED vars
  BY <1>3 DEF vars
<1>. QED
  BY <1>2, <1>3 DEF Step, Handle, Check, Assign, Look, BeginIngest, Store, StoreFails,
     CountDocument, SearchReturns, Generate, GenerateRaises, ReadCounters, ReadCaches,
     ReadStats, See, Reply

LEMMA LooksKept ==
    ASSUME Types, LooksInv, NEW t \in Threads, Step(t)
    PROVE  LooksInv'
<1> DEFINE G == Looked
           r == counters["retrievals"]
<1>1. r \in Nat /\ LookupSum \in Nat
  <2>1. caches \in Seq(Objects)
    BY DEF Types, IInv, TypeOK
  <2>. QED
    BY <2>1, LooksType, LookupSumIs DEF Types, AppOK, AppTypeOK, Names
<1>2. IsFiniteSet(G) /\ Cardinality(G) \in Nat /\ r + Cardinality(G) <= LookupSum
  BY FS_CardinalityType DEF LooksInv
<1>3. \A u \in Threads \ {t} : HasLooked(u)' <=> HasLooked(u)
  BY OthersStay, OthersCallsStay DEF HasLooked
<1>4. (t \in G <=> HasLooked(t))
  BY DEF Looked
<1>5. CASE /\ ~HasLooked(t) /\ HasLooked(t)'
           /\ LookupSum' = LookupSum + 1 /\ counters'["retrievals"] = r
  <2>1. Looked' = G \cup {t}
    BY <1>3, <1>5 DEF Looked
  <2>2. IsFiniteSet(G \cup {t}) /\ Cardinality(G \cup {t}) = Cardinality(G) + 1
    BY <1>2, <1>4, <1>5, OneMore
  <2> HIDE DEF G
  <2>. QED
    BY <1>1, <1>2, <1>5, <2>1, <2>2 DEF LooksInv
<1>6. CASE /\ HasLooked(t) /\ ~HasLooked(t)'
           /\ LookupSum' = LookupSum /\ counters'["retrievals"] \in {r, r + 1}
  <2>1. Looked' = G \ {t}
    BY <1>3, <1>6 DEF Looked
  <2>2. IsFiniteSet(G \ {t}) /\ Cardinality(G \ {t}) = Cardinality(G) - 1
    BY <1>2, <1>4, <1>6, OneLess
  <2> HIDE DEF G
  <2>. QED
    BY <1>1, <1>2, <1>6, <2>1, <2>2 DEF LooksInv
<1>7. CASE /\ HasLooked(t) <=> HasLooked(t)'
           /\ LookupSum' = LookupSum /\ counters'["retrievals"] = r
  <2>1. Looked' = G
    BY <1>3, <1>7 DEF Looked
  <2> HIDE DEF G
  <2>. QED
    BY <1>1, <1>2, <1>7, <2>1 DEF LooksInv
<1>. QED
  BY <1>5, <1>6, <1>7, LookStep

\* The registry knows the cache that was created last.
LEMMA RegistryStep ==
    ASSUME IInv, current = 0 => Len(caches) = 0, [Next]_vars
    PROVE  current' = 0 => Len(caches') = 0
<1>1. caches \in Seq(Objects) /\ Len(caches) \in Nat
  BY DEF IInv, TypeOK
<1>2. ASSUME NEW t \in Threads, CreateCache(t)
      PROVE  current' # 0
  BY <1>1, <1>2 DEF CreateCache
<1>3. ASSUME NEW o, NEW c, caches' = [caches EXCEPT ![o] = c]
      PROVE  Len(caches') = Len(caches)
  BY <1>1, <1>3
<1>4. ASSUME NEW t \in Threads, Get(t) \/ PutValue(t)
      PROVE  Len(caches') = Len(caches) /\ current' = current
  BY <1>3, <1>4 DEF Get, PutValue
<1>5. CASE Clear
  BY <1>3, <1>5 DEF Clear
<1>6. ASSUME NEW t \in Threads, ~CreateCache(t), ~Get(t), ~PutValue(t), CallStep(t)
      PROVE  UNCHANGED <<caches, current>>
  BY <1>6 DEF CallStep, LookUpName, FetchCache, FactoryRaises, RunFactory
<1>7. ASSUME NEW t \in Threads, NEW k \in Keys, Call(t, k)
      PROVE  UNCHANGED <<caches, current>>
  BY <1>7 DEF Call
<1>. QED
  BY <1>2, <1>4, <1>5, <1>6, <1>7 DEF Next, vars

\* With one cache at most, its lookups are all there are.
LEMMA FewCaches ==
    ASSUME IInv, Len(caches) <= 1
    PROVE  /\ Len(caches) = 0 => LookupSum = 0
           /\ Len(caches) = 1 => LookupSum = Lookups(1)
<1>1. caches \in Seq(Objects)
  BY DEF IInv, TypeOK
<1>2. /\ IsFiniteSet(DOMAIN caches) /\ DOMAIN caches = 1..Len(caches) /\ Len(caches) \in Nat
      /\ LooksOf(caches) \in [DOMAIN caches -> Nat]
  BY <1>1, LooksType
<1>3. LookupSum = SumFunctionOnSet(LooksOf(caches), DOMAIN caches)
  BY LookupSumIs DEF Looks
<1>4. SumFunctionOnSet(LooksOf(caches), {}) = 0
  BY <1>2, SumLaws
<1>5. CASE Len(caches) = 0
  <2>1. DOMAIN caches = {}
    BY <1>2, <1>5
  <2>. QED
    BY <1>3, <1>4, <1>5, <2>1
<1>6. CASE Len(caches) = 1
  <2>1. DOMAIN caches = {1}
    BY <1>2, <1>6
  <2>2. /\ 1 \in {1} /\ {1} \in SUBSET {1} /\ IsFiniteSet({1})
        /\ LooksOf(caches) \in [{1} -> Nat]
    BY <1>2, <2>1
  <2>3. SumFunctionOnSet(LooksOf(caches), {1})
          = LooksOf(caches)[1] + SumFunctionOnSet(LooksOf(caches), {1} \ {1})
    BY ONLY <2>2, SumLaws
  <2>4. {1} \ {1} = {} /\ LooksOf(caches)[1] \in Nat
    BY <2>2
  <2>5. SumFunctionOnSet(LooksOf(caches), {1} \ {1}) = SumFunctionOnSet(LooksOf(caches), {})
    BY ONLY <2>4, Zenon
  <2>6. SumFunctionOnSet(LooksOf(caches), {1}) = LooksOf(caches)[1]
    BY ONLY <1>4, <2>3, <2>4, <2>5
  <2>7. LooksOf(caches)[1] = Lookups(1)
    BY <2>1 DEF LooksOf, Lookups
  <2>8. LookupSum = SumFunctionOnSet(LooksOf(caches), {1})
    BY ONLY <1>3, <2>1
  <2>. QED
    BY <1>6, <2>6, <2>7, <2>8
<1>. QED
  BY <1>2, <1>5, <1>6

\* What a step of /metrics reads.
LEMMA SeenStep ==
    ASSUME Types, NEW t \in Threads, Step(t)
    PROVE  /\ \A u \in Threads \ {t} : seen'[u] = seen[u]
           /\ \/ /\ at'[t] \notin {"caches", "stats", "reply"}
                 /\ seen'[t] = seen[t] \/ seen'[t] = NothingRead
              \/ ReadCounters(t) \/ ReadCaches(t) \/ ReadStats(t)
<1>1. /\ at \in [Threads -> Places] /\ seen \in [Threads -> Readings]
      /\ (pc[t] # "idle" => at[t] = "cached")
  BY DEF Types, AppOK, AppTypeOK
<1>2. CASE ReadCounters(t)
  BY <1>1, <1>2 DEF ReadCounters
<1>3. CASE ReadCaches(t)
  BY <1>1, <1>3 DEF ReadCaches, See
<1>4. CASE ReadStats(t)
  BY <1>1, <1>4 DEF ReadStats, See
<1>5. CASE Reply(t)
  BY <1>1, <1>5 DEF Reply, Move
<1>6. CASE Search(t)
  <2>1. pc[t] # "idle"
    BY <1>6 DEF Search, LookUpName, CreateCache, FetchCache, Get, PutValue, RunFactory, Goto
  <2>. QED
    BY <1>1, <1>6, <2>1 DEF Search, own
<1>7. CASE \/ Look(t) \/ StoreFails(t) \/ GenerateRaises(t) \/ Assign(t) \/ BeginIngest(t)
           \/ Store(t) \/ CountDocument(t) \/ Generate(t) \/ SearchRaises(t) \/ SearchReturns(t)
           \/ \E k \in Kinds : Check(t, k)
           \/ \E k \in Keys : BeginSearch(t, k)
  BY <1>1, <1>7 DEF Look, StoreFails, GenerateRaises, Assign, BeginIngest, Fetch, Store,
     CountDocument, Generate, SearchRaises, SearchReturns, Check, BeginSearch, Move
<1>. QED
  BY <1>2, <1>3, <1>4, <1>5, <1>6, <1>7 DEF Step, Handle

LEMMA ReadingsKept ==
    ASSUME Types, QueriesInv, LooksInv, ReadingsInv, NEW t \in Threads, Step(t)
    PROVE  ReadingsInv'
<1> DEFINE q == counters["queries"]
           r == counters["retrievals"]
<1>1. /\ q \in Nat /\ r \in Nat /\ r <= counters'["retrievals"] /\ counters'["retrievals"] \in Nat
  <2>1. q \in Nat /\ r \in Nat
    BY DEF Types, AppOK, AppTypeOK, Names
  <2>. QED
    BY <2>1, LookStep
<1>2. q <= r /\ r <= LookupSum
  <2>1. Cardinality(Generating) \in Nat /\ Cardinality(Looked) \in Nat
    BY FS_CardinalityType DEF QueriesInv, LooksInv
  <2>2. LookupSum \in Nat
    <3>1. caches \in Seq(Objects)
      BY DEF Types, IInv, TypeOK
    <3>. QED
      BY <3>1, LooksType, LookupSumIs
  <2>. QED
    BY <1>1, <2>1, <2>2 DEF QueriesInv, LooksInv
<1>3. [Next]_vars /\ IInv
  BY CacheStep DEF Types, Step, AppNext
<1>4. current' = 0 => Len(caches') = 0
  BY <1>3, RegistryStep DEF ReadingsInv
<1>5. Len(caches') >= Len(caches) /\ Len(caches) \in Nat /\ Len(caches') \in Nat
  <2>1. IInv'
    BY <1>3, NextIInv
  <2>. QED
    BY <1>3, <2>1, CachesStay DEF IInv, TypeOK
<1>6. at \in [Threads -> Places] /\ seen \in [Threads -> Readings]
  BY DEF Types, AppOK, AppTypeOK
<1>7. ASSUME NEW u \in Threads
      PROVE  seen[u].retrievals \in Nat /\ seen[u].queries \in Nat /\ seen[u].lookups \in Nat
  BY <1>6 DEF Readings
<1>8. ASSUME NEW u \in Threads, u # t
      PROVE  /\ seen'[u].queries <= seen'[u].retrievals
             /\ at'[u] \in {"caches", "stats"} => seen'[u].retrievals <= counters'["retrievals"]
             /\ at'[u] = "reply" /\ Len(caches') <= 1 => seen'[u].retrievals <= seen'[u].lookups
  <2>1. seen'[u] = seen[u] /\ at'[u] = at[u]
    BY <1>8, SeenStep, OthersStay
  <2>. QED
    BY <1>1, <1>5, <1>7, <2>1 DEF ReadingsInv
<1>9. /\ seen'[t].queries <= seen'[t].retrievals
      /\ at'[t] \in {"caches", "stats"} => seen'[t].retrievals <= counters'["retrievals"]
      /\ at'[t] = "reply" /\ Len(caches') <= 1 => seen'[t].retrievals <= seen'[t].lookups
  <2>1. CASE /\ at'[t] \notin {"caches", "stats", "reply"}
             /\ seen'[t] = seen[t] \/ seen'[t] = NothingRead
    BY <2>1 DEF ReadingsInv, NothingRead
  <2>2. CASE ReadCounters(t)
    <3>1. /\ seen'[t].queries = q /\ seen'[t].retrievals = r /\ at'[t] = "caches"
      BY <1>6, <2>2 DEF ReadCounters, Move
    <3>. QED
      BY <1>1, <1>2, <3>1
  <2>3. CASE ReadCaches(t)
    <3>1. /\ at[t] = "caches" /\ at'[t] = IF current = 0 THEN "reply" ELSE "stats"
          /\ seen'[t] = [seen[t] EXCEPT !.cache = current]
      BY <1>6, <2>3 DEF ReadCaches, See, Move
    <3>2. /\ seen'[t].queries = seen[t].queries /\ seen'[t].retrievals = seen[t].retrievals
          /\ seen'[t].lookups = seen[t].lookups
      BY <1>6, <3>1 DEF Readings
    <3>3. seen[t].queries <= seen[t].retrievals /\ seen[t].retrievals <= r
      BY <3>1 DEF ReadingsInv
    <3>4. current = 0 => seen[t].retrievals <= seen[t].lookups
      <4>1. ASSUME current = 0 PROVE LookupSum = 0
        BY <1>3, <4>1, FewCaches DEF ReadingsInv
      <4>. QED
        BY <1>1, <1>2, <1>7, <3>3, <4>1
    <3>. QED
      BY <1>1, <1>7, <3>1, <3>2, <3>3, <3>4
  <2>4. CASE ReadStats(t)
    <3>1. /\ at[t] = "stats" /\ at'[t] = "reply" /\ UNCHANGED caches
          /\ seen'[t] = [seen[t] EXCEPT !.lookups = Lookups(seen[t].cache)]
      BY <1>6, <2>4 DEF ReadStats, See, Move, vars
    <3>2. /\ seen'[t].queries = seen[t].queries /\ seen'[t].retrievals = seen[t].retrievals
          /\ seen'[t].lookups = Lookups(seen[t].cache)
      BY <1>6, <3>1 DEF Readings
    <3>3. seen[t].queries <= seen[t].retrievals /\ seen[t].retrievals <= r
      BY <3>1 DEF ReadingsInv
    <3>4. Len(caches) <= 1 => Lookups(seen[t].cache) = LookupSum
      <4>1. seen[t].cache \in 1..Len(caches)
        BY <1>5, <1>6, <3>1 DEF Types, ReadersHaveCaches, Readings
      <4>2. ASSUME Len(caches) <= 1 PROVE seen[t].cache = 1 /\ Len(caches) = 1
        <5>1. ASSUME NEW n \in Nat, n <= 1, NEW c \in 1..n
              PROVE  c = 1 /\ n = 1
          BY ONLY <5>1
        <5>. QED
          BY <1>5, <4>1, <4>2, <5>1
      <4>. QED
        BY <1>3, <4>2, FewCaches
    <3>5. Len(caches) <= 1 => seen[t].retrievals <= Lookups(seen[t].cache)
      <4>1. ASSUME Len(caches) <= 1 PROVE seen[t].retrievals <= LookupSum
        BY <1>1, <1>2, <1>7, <3>3, LookupSumIs, LooksType DEF Types, IInv, TypeOK
      <4>. QED
        BY <3>4, <4>1
    <3>. QED
      BY <3>1, <3>2, <3>3, <3>5
  <2>. QED
    BY <2>1, <2>2, <2>3, <2>4, SeenStep
<1>. QED
  BY <1>4, <1>8, <1>9 DEF ReadingsInv

\* The inductive invariant behind CountsAgree.
BooksInv == DocsInv /\ QueriesInv /\ LooksInv /\ ReadingsInv

LEMMA InitBooks == AppInit => BooksInv
<1> SUFFICES ASSUME AppInit PROVE BooksInv
  OBVIOUS
<1>1. Generating = {} /\ Looked = {} /\ Len(caches) = 0
  BY DEF AppInit, Init, Generating, Looked, HasLooked
<1>2. LookupSum = 0
  BY <1>1, InitIInv, FewCaches DEF AppInit
<1>3. IsFiniteSet({}) /\ Cardinality({}) = 0
  BY FS_EmptySet
<1>. QED
  BY <1>1, <1>2, <1>3
     DEF BooksInv, DocsInv, QueriesInv, LooksInv, ReadingsInv, AppInit, Names, NothingRead

LEMMA BooksStep == Types /\ BooksInv /\ [AppNext]_appvars => BooksInv'
<1> SUFFICES ASSUME Types, BooksInv, [AppNext]_appvars PROVE BooksInv'
  OBVIOUS
<1>1. CASE UNCHANGED appvars
  BY <1>1 DEF appvars, own, history, vars, BooksInv, DocsInv, QueriesInv, LooksInv, ReadingsInv,
     Generating, Looked, HasLooked, LookupSum, Lookups
<1>2. ASSUME NEW t \in Threads, Step(t)
      PROVE  BooksInv'
  BY <1>2, DocsKept, QueriesKept, LooksKept, ReadingsKept DEF BooksInv
<1>. QED
  BY <1>1, <1>2 DEF AppNext, Step

\* The figures of /metrics are consistent, whatever runs while they are read
\* (routes.py:250-253, metrics.py): documents acknowledged, counted and
\* stored; queries, retrievals and lookups.
THEOREM FiguresAgree == AppSpec => []CountsAgree
<1>1. Types /\ BooksInv /\ LostOnlyByRace => CountsAgree
  <2> SUFFICES ASSUME Types, BooksInv, LostOnlyByRace PROVE CountsAgree
    OBVIOUS
  <2>1. /\ counters["documents"] \in Nat /\ counters["queries"] \in Nat
        /\ counters["retrievals"] \in Nat /\ LookupSum \in Nat
    BY LooksType, LookupSumIs DEF Types, AppOK, AppTypeOK, Names, IInv, TypeOK
  <2>2. Cardinality(Generating) \in Nat /\ Cardinality(Looked) \in Nat
    BY FS_CardinalityType DEF BooksInv, QueriesInv, LooksInv
  <2>3. counters["queries"] <= counters["retrievals"] /\ counters["retrievals"] <= LookupSum
    BY <2>1, <2>2 DEF BooksInv, QueriesInv, LooksInv
  <2>4. Cardinality(acked) = counters["documents"] /\ Cardinality(acked) <= Cardinality(Created)
    <3>1. orchestrators \in Seq(SUBSET Docs)
      BY DEF Types, AppOK, AppTypeOK
    <3>2. Created \subseteq Docs
      BY <3>1 DEF Created
    <3>3. acked \subseteq Created
      BY DEF LostOnlyByRace
    <3>4. IsFiniteSet(Created)
      BY <3>2, DocsAreFinite, FS_Subset
    <3>5. Cardinality(acked) <= Cardinality(Created)
      BY <3>3, <3>4, FS_Subset
    <3>. QED
      BY <3>5 DEF BooksInv, DocsInv
  <2>. QED
    BY <2>1, <2>3, <2>4 DEF CountsAgree, BooksInv, ReadingsInv
<1>. QED
  BY <1>1, InitBooks, BooksStep, OnlyTheRaceLoses, AppAlways, PTL DEF AppSpec
=============================================================================
