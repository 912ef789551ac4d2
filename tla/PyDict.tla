------------------------------- MODULE PyDict -------------------------------
(***************************************************************************)
(* CPython's dict and collections.OrderedDict, as the stores, the lexical  *)
(* index and the caches of app/ use them: a mapping that remembers the     *)
(* order in which its keys were inserted.  A dict is the sequence of its   *)
(* entries [key, val], oldest first, and no key occurs twice.              *)
(*                                                                         *)
(* Each operator is one C-level dict operation, which the interpreter lock *)
(* makes atomic for the threads that share the dict.                       *)
(***************************************************************************)
EXTENDS Naturals, Sequences

Entry(k, v) == [key |-> k, val |-> v]

KeySet(d) == {d[i].key : i \in DOMAIN d}

Has(d, k) == \E i \in DOMAIN d : d[i].key = k

\* list(d.keys()) and list(d.values())
KeyList(d) == [i \in DOMAIN d |-> d[i].key]
ValueList(d) == [i \in DOMAIN d |-> d[i].val]

\* The place of a key that is present, and d[k]
PlaceOf(d, k) == CHOOSE i \in DOMAIN d : d[i].key = k
Lookup(d, k) == d[PlaceOf(d, k)].val

\* d[k] = v: an existing key keeps its place, a new one goes to the end.
Put(d, k, v) ==
    IF Has(d, k)
    THEN [i \in DOMAIN d |-> IF d[i].key = k THEN Entry(k, v) ELSE d[i]]
    ELSE Append(d, Entry(k, v))

\* del d[k] and d.pop(k, None)
Delete(d, k) ==
    IF Has(d, k)
    THEN [i \in 1..(Len(d) - 1) |-> IF i < PlaceOf(d, k) THEN d[i] ELSE d[i + 1]]
    ELSE d

\* OrderedDict.move_to_end(k), for a key that is present
MoveToEnd(d, k) == Append(Delete(d, k), Entry(k, Lookup(d, k)))

\* A sequence of entries is a dict when no key has two places.
IsDict(d) == \A i, j \in DOMAIN d : d[i].key = d[j].key => i = j
=============================================================================
