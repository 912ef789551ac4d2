------------------------------ MODULE Ranking -------------------------------
(***************************************************************************)
(* "The k best": the sort-then-truncate idiom of the lexical index and of  *)
(* the retrievers, as a set of positions instead of a sorted list.         *)
(***************************************************************************)
EXTENDS Integers, FiniteSets, Sequences

\* The positions that a sort by (-score, position) puts before position i.
Before(score, i) ==
    {j \in DOMAIN score : \/ score[j] > score[i]
                          \/ score[j] = score[i] /\ j < i}

\* The rank of position i, counted from 0 as enumerate() does.
Rank(score, i) == Cardinality(Before(score, i))

\* The positions kept by sorted(range(n), key=(-score, i))[:k].
Best(score, k) == {i \in DOMAIN score : Rank(score, i) < k}
=============================================================================
