-------------------------------- MODULE Cache -------------------------------
(***************************************************************************)
(* app/caching/registry.py: the LRU cache of retrieval results and the     *)
(* registry through which RAGOrchestrator.search reaches it.               *)
(*                                                                         *)
(* Each LRUCache has its own lock, so get() and put() are one step each.   *)
(* CacheRegistry has none: cache_for() looks a name up, creates the cache  *)
(* and looks it up again in three steps, and cached_call() runs the        *)
(* factory between get() and put().  The system has one cache name,        *)
(* "retrieval"; the caches cache_for() has created for it are numbered in  *)
(* order of creation.                                                      *)
(***************************************************************************)
EXTENDS PyDict

CONSTANTS Threads,    \* the threads of the server's pool
          Keys,       \* the cache keys
          Values,     \* the retrieval results
          MaxEntries, \* cache_max_entries
          Enabled,    \* cache_enabled
          MaxCalls    \* bound: calls of cached_call()

ASSUME CacheAssumption ==
    /\ MaxEntries \in Nat \ {0}
    /\ Keys # {} /\ Values # {}
    /\ Enabled \in BOOLEAN
    /\ MaxCalls \in Nat

VARIABLES caches,   \* the LRUCache objects: [data, hits, misses, used], oldest first
          current,  \* the one self._caches maps "retrieval" to; 0 when there is none
          pc,       \* the next step of each thread's cached_call()
          key,      \* the key it was called with
          cache,    \* its local variable `cache`
          val,      \* its local variable `val`
          calls     \* calls of cached_call() so far

vars == <<caches, current, pc, key, cache, val, calls>>

Steps == {"idle", "lookup", "create", "fetch", "get", "factory", "put"}

\* LRUCache(max_entries).  `used` is a history variable, not in the code: the
\* keys that get() found or put() stored, each once, in the order of last use
\* (a dict whose values say nothing).
EmptyCache == [data |-> <<>>, hits |-> 0, misses |-> 0, used |-> <<>>]

Init ==
    /\ caches = <<>>
    /\ current = 0
    /\ pc = [t \in Threads |-> "idle"]
    /\ key = [t \in Threads |-> CHOOSE k \in Keys : TRUE]
    /\ cache = [t \in Threads |-> 0]
    /\ val = [t \in Threads |-> CHOOSE v \in Values : TRUE]
    /\ calls = 0

Goto(t, from, to) == pc[t] = from /\ pc' = [pc EXCEPT ![t] = to]

-----------------------------------------------------------------------------
\* LRUCache

Use(used, k) == IF Has(used, k) THEN MoveToEnd(used, k) ELSE Put(used, k, "used")

\* get() of a key that is there.  Two faults: get() does not refresh the key, or
\* counts misses only.
FoundUncounted(c, k) == [data |-> MoveToEnd(c.data, k), hits |-> c.hits,
                         misses |-> c.misses, used |-> Use(c.used, k)]
FoundNoRefresh(c, k) == [c EXCEPT !.hits = @ + 1, !.used = Use(@, k)]
Found(c, k) == [data |-> MoveToEnd(c.data, k), hits |-> c.hits + 1,
                misses |-> c.misses, used |-> Use(c.used, k)]

NotFound(c) == [c EXCEPT !.misses = @ + 1]

\* if len(self._data) > self._max: self._data.popitem(last=False).
\* A fault: the bound is off by one.
EvictLate(d) == IF Len(d) > MaxEntries + 1 THEN Tail(d) ELSE d
Evict(d) == IF Len(d) > MaxEntries THEN Tail(d) ELSE d

\* put(): an existing key moves to the end, then takes the new value.
Stored(c, k, v) ==
    LET placed == IF Has(c.data, k) THEN MoveToEnd(c.data, k) ELSE c.data
    IN  [data |-> Evict(Put(placed, k, v)), hits |-> c.hits,
         misses |-> c.misses, used |-> Use(c.used, k)]

-----------------------------------------------------------------------------
\* CacheRegistry.cached_call(name, key_parts, factory)

\* With the cache switched off the call is the factory's and changes nothing here.
Call(t, k) ==
    /\ Enabled
    /\ calls < MaxCalls
    /\ Goto(t, "idle", "lookup")
    /\ key' = [key EXCEPT ![t] = k]
    /\ calls' = calls + 1
    /\ UNCHANGED <<caches, current, cache, val>>

\* A fault: cache_for() trusts that the cache exists.
LookUpNothing(t) ==
    /\ Goto(t, "lookup", "fetch")
    /\ UNCHANGED <<caches, current, key, cache, val, calls>>

\* cache_for: if name not in self._caches
LookUpName(t) ==
    /\ Goto(t, "lookup", IF current = 0 THEN "create" ELSE "fetch")
    /\ UNCHANGED <<caches, current, key, cache, val, calls>>

\* cache_for: self._caches[name] = LRUCache(...), whatever another thread put there
CreateCache(t) ==
    /\ Goto(t, "create", "fetch")
    /\ caches' = Append(caches, EmptyCache)
    /\ current' = Len(caches) + 1
    /\ UNCHANGED <<key, cache, val, calls>>

\* cache_for: return self._caches[name]
FetchCache(t) ==
    /\ Goto(t, "fetch", "get")
    /\ cache' = [cache EXCEPT ![t] = current]
    /\ UNCHANGED <<caches, current, key, val, calls>>

\* hit = cache.get(key), and on a hit the call returns it
Get(t) ==
    LET c == caches[cache[t]]
        hit == Has(c.data, key[t])
    IN  /\ Goto(t, "get", IF hit THEN "idle" ELSE "factory")
        /\ caches' = [caches EXCEPT ![cache[t]] =
                         IF hit THEN Found(c, key[t]) ELSE NotFound(c)]
        /\ val' = IF hit THEN [val EXCEPT ![t] = Lookup(c.data, key[t])] ELSE val
        /\ UNCHANGED <<current, key, cache, calls>>

\* val = factory()
RunFactory(t, v) ==
    /\ Goto(t, "factory", "put")
    /\ val' = [val EXCEPT ![t] = v]
    /\ UNCHANGED <<caches, current, key, cache, calls>>

\* The factory raises: nothing is stored.
FactoryRaises(t) ==
    /\ Goto(t, "factory", "idle")
    /\ UNCHANGED <<caches, current, key, cache, val, calls>>

\* cache.put(key, val); return val
PutValue(t) ==
    /\ Goto(t, "put", "idle")
    /\ caches' = [caches EXCEPT ![cache[t]] = Stored(@, key[t], val[t])]
    /\ UNCHANGED <<current, key, cache, val, calls>>

\* CacheRegistry.clear(): every cache the registry knows is emptied, under its lock.
Clear ==
    /\ current # 0
    /\ caches' = [caches EXCEPT ![current] = EmptyCache]
    /\ UNCHANGED <<current, pc, key, cache, val, calls>>

CallStep(t) == \/ LookUpName(t) \/ CreateCache(t) \/ FetchCache(t) \/ Get(t)
               \/ FactoryRaises(t) \/ PutValue(t) \/ \E v \in Values : RunFactory(t, v)

Next == \/ \E t \in Threads : CallStep(t) \/ \E k \in Keys : Call(t, k)
        \/ Clear

Spec == Init /\ [][Next]_vars

-----------------------------------------------------------------------------
Results == [key : Keys, val : Values]
Marks == [key : Keys, val : {"used"}]
Objects == [data : Seq(Results), hits : Nat, misses : Nat, used : Seq(Marks)]

\* Every variable keeps the shape the classes give it, a thread that uses a cache
\* has one, and no key has two entries.
TypeOK ==
    /\ caches \in Seq(Objects)
    /\ current \in 0..Len(caches)
    /\ pc \in [Threads -> Steps]
    /\ key \in [Threads -> Keys]
    /\ cache \in [Threads -> 0..Len(caches)]
    /\ val \in [Threads -> Values]
    /\ calls \in 0..MaxCalls
    /\ \A t \in Threads :
          /\ pc[t] \in {"get", "factory", "put"} => cache[t] # 0
          /\ pc[t] = "fetch" => current # 0
    /\ \A o \in DOMAIN caches : IsDict(caches[o].data) /\ IsDict(caches[o].used)

\* No cache ever holds more than cache_max_entries results ("is capped at
\* CACHE_MAX_ENTRIES", registry.py:8), in whatever order concurrent misses are put.
Capped == \A o \in DOMAIN caches : Len(caches[o].data) <= MaxEntries

\* A cache holds exactly the keys used last, and evicts the one unused longest
\* ("LRU eviction", registry.py:9): its keys are the newest of `used`, in that order.
LastUsed(used) == SubSeq(used, IF Len(used) > MaxEntries THEN Len(used) - MaxEntries + 1 ELSE 1,
                         Len(used))
LeastRecentlyUsedGoes ==
    \A o \in DOMAIN caches : KeyList(caches[o].data) = KeyList(LastUsed(caches[o].used))
=============================================================================
