----------------------------- MODULE Induction ------------------------------
(***************************************************************************)
(* Induction over numbers and finite sets, for the proofs about the data   *)
(* this project's models are built from: a predicate is a function into    *)
(* BOOLEAN, so that a proof can instantiate it.                            *)
(***************************************************************************)
EXTENDS Integers, Sequences, Functions, FiniteSetTheorems, TLAPS

\* A set of numbers has a least one.
LEMMA LeastNumber ==
    ASSUME NEW T \in SUBSET Nat, T # {}
    PROVE  \E x \in T : \A y \in T : x <= y
<1> DEFINE R == OpToRel(<, Nat)
<1>1. IsWellFoundedOn(R, Nat)
  BY NatLessThanWellFounded, Zenon
<1>2. \A x, y \in Nat : x < y => <<x, y>> \in R
  BY Zenon DEF OpToRel
<1> HIDE DEF R
<1>3. PICK x \in T : \A y \in T : ~ (<<y, x>> \in R)
  BY <1>1, WFMin
<1>4. \A y \in T : ~ (y < x)
  BY <1>2, <1>3
<1>. QED
  BY ONLY <1>4, x \in T, T \in SUBSET Nat

\* What holds of 0 and is passed on from n to n + 1 holds of every number.
LEMMA NumberInduction ==
    ASSUME NEW P \in [Nat -> BOOLEAN], P[0], \A n \in Nat : P[n] => P[n + 1]
    PROVE  \A n \in Nat : P[n]
<1> SUFFICES ASSUME {n \in Nat : ~P[n]} # {}
             PROVE  FALSE
  OBVIOUS
<1>1. PICK x \in {n \in Nat : ~P[n]} : \A y \in {n \in Nat : ~P[n]} : x <= y
  BY LeastNumber
<1>2. x - 1 \in Nat /\ P[x - 1]
  BY <1>1
<1>. QED
  BY <1>1, <1>2

\* A set of places in a sequence has a last one.
LEMMA GreatestNumber ==
    ASSUME NEW n \in Nat, NEW T \in SUBSET (1..n), T # {}
    PROVE  \E x \in T : \A y \in T : y <= x
<1> DEFINE U == {n - y : y \in T}
<1>1. U \in SUBSET Nat /\ U # {}
  <2>1. \A y \in T : n - y \in Nat
    OBVIOUS
  <2>. QED
    BY <2>1
<1>2. PICK u \in U : \A v \in U : u <= v
  BY <1>1, LeastNumber
<1>3. PICK x \in T : u = n - x
  OBVIOUS
<1>4. \A y \in T : n - x <= n - y
  BY <1>2, <1>3
<1>. QED
  BY <1>4

\* What holds of the empty set and is passed on when an element is added holds of
\* every finite set.
LEMMA SetInduction ==
    ASSUME NEW S, IsFiniteSet(S), NEW P \in [SUBSET S -> BOOLEAN], P[{}],
           \A T \in SUBSET S : \A x \in S \ T : P[T] => P[T \cup {x}]
    PROVE  P[S]
<1> DEFINE Q == [n \in Nat |-> \A T \in SUBSET S : Cardinality(T) = n => P[T]]
<1>1. \A T \in SUBSET S : IsFiniteSet(T) /\ Cardinality(T) \in Nat
  BY FS_Subset, FS_CardinalityType
<1>2. Q[0]
  BY <1>1, FS_EmptySet
<1>3. ASSUME NEW n \in Nat, Q[n]
      PROVE  Q[n + 1]
  <2>1. SUFFICES ASSUME NEW T \in SUBSET S, Cardinality(T) = n + 1
                 PROVE  P[T]
    OBVIOUS
  <2>2. PICK x \in T : TRUE
    BY <1>1, <2>1, FS_EmptySet
  <2>3. /\ T \ {x} \in SUBSET S /\ x \in S \ (T \ {x}) /\ (T \ {x}) \cup {x} = T
        /\ Cardinality(T \ {x}) = n
    <3>1. T \ {x} \in SUBSET S /\ x \in S \ (T \ {x}) /\ (T \ {x}) \cup {x} = T
      BY <2>1, <2>2
    <3>2. Cardinality(T \ {x}) = Cardinality(T) - 1
      BY <1>1, <2>1, <2>2, FS_RemoveElement
    <3>. QED
      BY <2>1, <3>1, <3>2
  <2>4. P[T \ {x}]
    BY <1>3, <2>3
  <2>. QED
    BY <2>3, <2>4
<1>4. \A n \in Nat : Q[n]
  <2>1. Q \in [Nat -> BOOLEAN]
    OBVIOUS
  <2> HIDE DEF Q
  <2>. QED
    BY <1>2, <1>3, <2>1, NumberInduction
<1>. QED
  BY <1>1, <1>4

\* Sets that a function pairs off have the same size.
LEMMA SameSize ==
    ASSUME NEW S, NEW T, IsFiniteSet(S), NEW f \in [S -> T],
           \A x, y \in S : f[x] = f[y] => x = y,
           \A z \in T : \E x \in S : f[x] = z
    PROVE  IsFiniteSet(T) /\ Cardinality(T) = Cardinality(S)
<1>1. f \in Bijection(S, T)
  BY DEF Bijection, Injection, Surjection, IsInjective
<1>2. ExistsBijection(S, T)
  BY <1>1 DEF ExistsBijection
<1>. QED
  BY <1>2, FS_Bijection

-----------------------------------------------------------------------------
(* Recursion over finite sets, as MapThenFoldSet of module Folds does it.  *)

\* i is a recursive function on the subsets of S: a step h from the element that
\* pick takes and the value for the rest.
Recursion(i, S, base, pick, h) ==
    i = [T \in SUBSET S |-> IF T = {} THEN base ELSE h[pick[T]][i[T \ {pick[T]}]]]

\* There is such a function.
LEMMA RecursionExists ==
    ASSUME NEW S, IsFiniteSet(S), NEW V, NEW base \in V, NEW h \in [S -> [V -> V]],
           NEW pick \in [(SUBSET S) \ {{}} -> S],
           \A T \in SUBSET S : T # {} => pick[T] \in T
    PROVE  \E i \in [SUBSET S -> V] : Recursion(i, S, base, pick, h)
<1> DEFINE Step(g, T) == IF T = {} THEN base ELSE h[pick[T]][g[T \ {pick[T]}]]
           Upto(g, n) == \A T \in SUBSET S : Cardinality(T) <= n => g[T] = Step(g, T)
           Q == [n \in Nat |-> \E g \in [SUBSET S -> V] : Upto(g, n)]
<1>1. \A T \in SUBSET S : IsFiniteSet(T) /\ Cardinality(T) \in Nat
  BY FS_Subset, FS_CardinalityType
<1>2. \A T \in SUBSET S : T # {} => /\ pick[T] \in S /\ T \ {pick[T]} \in SUBSET S
                                    /\ Cardinality(T \ {pick[T]}) = Cardinality(T) - 1
                                    /\ Cardinality(T) # 0
  BY <1>1, FS_RemoveElement, FS_EmptySet
<1>3. ASSUME NEW g \in [SUBSET S -> V], NEW T \in SUBSET S
      PROVE  Step(g, T) \in V
  <2>1. CASE T # {}
    <3>1. g[T \ {pick[T]}] \in V /\ h[pick[T]] \in [V -> V]
      BY <1>2, <2>1
    <3>. QED
      BY <2>1, <3>1
  <2>. QED
    BY <2>1
<1>4. Cardinality({}) = 0
  BY FS_EmptySet
<1>5. Q[0]
  <2>1. ASSUME NEW T \in SUBSET S, Cardinality(T) <= 0
        PROVE  T = {}
    <3>1. Cardinality(T) \in Nat /\ (T # {} => Cardinality(T) # 0)
      BY ONLY <1>1, <1>2, T \in SUBSET S
    <3>. QED
      BY ONLY <2>1, <3>1
  <2> DEFINE g == [T \in SUBSET S |-> base]
  <2>2. g \in [SUBSET S -> V] /\ Upto(g, 0)
    BY <2>1
  <2> HIDE DEF g, Upto
  <2>3. \E i \in [SUBSET S -> V] : Upto(i, 0)
    BY ONLY <2>2
  <2>. QED
    BY <2>3
<1>6. ASSUME NEW n \in Nat, Q[n]
      PROVE  Q[n + 1]
  <2>1. PICK g \in [SUBSET S -> V] : Upto(g, n)
    BY <1>6
  <2> DEFINE k == [T \in SUBSET S |-> IF Cardinality(T) = n + 1 THEN Step(g, T) ELSE g[T]]
  <2>2. k \in [SUBSET S -> V]
    BY <1>3
  <2>3. ASSUME NEW T \in SUBSET S, Cardinality(T) <= n + 1
        PROVE  k[T] = Step(k, T)
    <3>1. CASE T = {}
      <4>1. Cardinality(T) <= n /\ Cardinality(T) # n + 1
        BY <1>4, <3>1
      <4>. QED
        BY <2>1, <3>1, <4>1
    <3>2. CASE T # {}
      <4>1. /\ T \ {pick[T]} \in SUBSET S
            /\ Cardinality(T \ {pick[T]}) = Cardinality(T) - 1
        BY <1>2, <3>2
      <4>2. Cardinality(T \ {pick[T]}) # n + 1
        BY <1>1, <2>3, <4>1
      <4>3. k[T \ {pick[T]}] = g[T \ {pick[T]}]
        BY <4>1, <4>2
      <4>4. Step(k, T) = Step(g, T)
        BY <3>2, <4>3
      <4>5. CASE Cardinality(T) = n + 1
        BY <4>4, <4>5
      <4>6. CASE Cardinality(T) <= n
        <5>1. Cardinality(T) # n + 1
          BY <1>1, <4>6
        <5>2. k[T] = g[T]
          BY <5>1
        <5>3. g[T] = Step(g, T)
          BY <2>1, <4>6
        <5>. QED
          BY ONLY <4>4, <5>2, <5>3
      <4>7. Cardinality(T) = n + 1 \/ Cardinality(T) <= n
        <5>1. Cardinality(T) \in Nat
          BY <1>1
        <5>. QED
          BY ONLY <5>1, <2>3, n \in Nat
      <4>. QED
        BY ONLY <4>5, <4>6, <4>7
    <3>. QED
      BY <3>1, <3>2
  <2>4. Upto(k, n + 1)
    BY <2>3
  <2> HIDE DEF k, Upto
  <2>5. \E i \in [SUBSET S -> V] : Upto(i, n + 1)
    BY ONLY <2>2, <2>4
  <2>6. n + 1 \in Nat
    OBVIOUS
  <2>. QED
    BY <2>5, <2>6
<1>7. \A n \in Nat : Q[n]
  <2>1. Q \in [Nat -> BOOLEAN]
    OBVIOUS
  <2> HIDE DEF Q
  <2>. QED
    BY <1>5, <1>6, <2>1, NumberInduction
<1>8. PICK g \in [SUBSET S -> V] : Upto(g, Cardinality(S))
  BY <1>1, <1>7
<1>9. \A T \in SUBSET S : g[T] = Step(g, T)
  BY <1>8, FS_Subset
<1>10. g = [T \in SUBSET S |-> Step(g, T)]
  BY <1>9
<1>. QED
  BY <1>10 DEF Recursion

\* What holds of the empty set, and of a set whenever it holds of what pick leaves of
\* it, holds of every subset.
LEMMA PickInduction ==
    ASSUME NEW S, IsFiniteSet(S),
           NEW pick \in [(SUBSET S) \ {{}} -> S], \A T \in SUBSET S : T # {} => pick[T] \in T,
           NEW P \in [SUBSET S -> BOOLEAN], P[{}],
           \A T \in SUBSET S : T # {} /\ P[T \ {pick[T]}] => P[T]
    PROVE  \A T \in SUBSET S : P[T]
<1> DEFINE Q == [n \in Nat |-> \A T \in SUBSET S : Cardinality(T) = n => P[T]]
<1>1. \A T \in SUBSET S : IsFiniteSet(T) /\ Cardinality(T) \in Nat
  BY FS_Subset, FS_CardinalityType
<1>2. Q[0]
  BY <1>1, FS_EmptySet
<1>3. ASSUME NEW n \in Nat, Q[n]
      PROVE  Q[n + 1]
  <2>1. SUFFICES ASSUME NEW T \in SUBSET S, Cardinality(T) = n + 1
                 PROVE  P[T]
    OBVIOUS
  <2>2. T # {}
    <3>1. Cardinality(T) # 0
      BY ONLY <2>1, n \in Nat
    <3>. QED
      BY ONLY <3>1, FS_EmptySet
  <2>3. /\ T \ {pick[T]} \in SUBSET S
        /\ Cardinality(T \ {pick[T]}) = Cardinality(T) - 1
    BY <1>1, <2>2, FS_RemoveElement
  <2>4. Cardinality(T \ {pick[T]}) = n
    BY ONLY <2>1, <2>3, n \in Nat
  <2>5. P[T \ {pick[T]}]
    BY <1>3, <2>3, <2>4
  <2>. QED
    BY <2>2, <2>5
<1>4. \A n \in Nat : Q[n]
  <2>1. Q \in [Nat -> BOOLEAN]
    OBVIOUS
  <2> HIDE DEF Q
  <2>. QED
    BY <1>2, <1>3, <2>1, NumberInduction
<1>. QED
  BY <1>1, <1>4

\* Taking the largest number first goes through 1..n in order.
LEMMA LargestOfPrefix ==
    ASSUME NEW n \in Nat, NEW k \in 1..n
    PROVE  /\ 1..k \in SUBSET (1..n) /\ 1..(k - 1) \in SUBSET (1..n) /\ 1..k # {}
           /\ (1..k) \ {k} = 1..(k - 1)
           /\ k \in 1..k /\ \A p \in 1..k : (\A x \in 1..k : p >= x) => p = k
<1>1. k \in Nat /\ k >= 1 /\ k <= n
  OBVIOUS
<1>2. 1..k \subseteq 1..n /\ 1..(k - 1) \subseteq 1..n
  BY ONLY <1>1, n \in Nat
<1>3. k \in 1..k /\ \A p \in 1..k : p >= k => p = k
  BY ONLY <1>1
<1>4. (1..k) \ {k} = 1..(k - 1)
  BY ONLY <1>1
<1>. QED
  BY ONLY <1>2, <1>3, <1>4

-----------------------------------------------------------------------------
(* Sums over finite sets: SumFunctionOnSet of module Functions.            *)

\* The element that a fold over T takes first.
First(T) == CHOOSE x \in T : TRUE

\* g sums f over every subset of S that has no more than n elements.
Sums(g, f, S, n) ==
    \A T \in SUBSET S : Cardinality(T) <= n =>
        g[T] = IF T = {} THEN 0 ELSE f[First(T)] + g[T \ {First(T)}]

LEMMA SmallerSet ==
    ASSUME NEW T, IsFiniteSet(T), T # {}
    PROVE  /\ First(T) \in T /\ Cardinality(T) \in Nat
           /\ IsFiniteSet(T \ {First(T)}) /\ Cardinality(T \ {First(T)}) = Cardinality(T) - 1
           /\ Cardinality(T) # 0
<1>1. First(T) \in T
  BY DEF First
<1>. QED
  BY <1>1, FS_CardinalityType, FS_RemoveElement, FS_EmptySet

LEMMA SumExists ==
    ASSUME NEW S, IsFiniteSet(S), NEW f, \A x \in S : f[x] \in Nat
    PROVE  \E g \in [SUBSET S -> Nat] : \A n \in Nat : Sums(g, f, S, n)
<1> DEFINE pick == [T \in (SUBSET S) \ {{}} |-> First(T)]
           h == [x \in S |-> [v \in Nat |-> f[x] + v]]
<1>1. \A T \in SUBSET S : T # {} => pick[T] = First(T) /\ pick[T] \in T /\ pick[T] \in S
  BY DEF First
<1>2. h \in [S -> [Nat -> Nat]] /\ pick \in [(SUBSET S) \ {{}} -> S]
  <2>1. h \in [S -> [Nat -> Nat]]
    OBVIOUS
  <2>2. \A T \in (SUBSET S) \ {{}} : First(T) \in S
    BY DEF First
  <2>3. pick \in [(SUBSET S) \ {{}} -> S]
    BY ONLY <2>2
  <2>. QED
    BY ONLY <2>1, <2>3
<1>3. \A x \in S : \A v \in Nat : h[x][v] = f[x] + v
  OBVIOUS
<1> HIDE DEF pick, h
<1>4. PICK g \in [SUBSET S -> Nat] : Recursion(g, S, 0, pick, h)
  BY <1>1, <1>2, RecursionExists
<1>5. ASSUME NEW T \in SUBSET S
      PROVE  g[T] = IF T = {} THEN 0 ELSE f[First(T)] + g[T \ {First(T)}]
  <2>1. g[T] = IF T = {} THEN 0 ELSE h[pick[T]][g[T \ {pick[T]}]]
    BY <1>4 DEF Recursion
  <2>2. g[T \ {pick[T]}] \in Nat
    OBVIOUS
  <2>. QED
    BY <1>1, <1>3, <2>1, <2>2
<1>. QED
  BY <1>5 DEF Sums

\* A sum over a set is the value that such a function has there.
LEMMA SumIsValue ==
    ASSUME NEW S, IsFiniteSet(S), NEW f, \A x \in S : f[x] \in Nat, NEW g \in [SUBSET S -> Nat],
           \A n \in Nat : Sums(g, f, S, n), NEW R \in SUBSET S
    PROVE  SumFunctionOnSet(f, R) = g[R]
<1> DEFINE step(i) == [T \in SUBSET R |-> IF T = {} THEN 0
                                          ELSE f[First(T)] + i[T \ {First(T)}]]
           iter == CHOOSE i : i = step(i)
           h == [T \in SUBSET R |-> g[T]]
<1>1. SumFunctionOnSet(f, R) = iter[R]
  BY DEF SumFunctionOnSet, FoldFunctionOnSet, MapThenFoldSet, First
<1>2. \A T \in SUBSET R : /\ IsFiniteSet(T) /\ Cardinality(T) \in Nat
                          /\ T # {} => First(T) \in T /\ T \ {First(T)} \in SUBSET R
  BY FS_Subset, FS_CardinalityType, SmallerSet
<1>3. \A T \in SUBSET R : g[T] = IF T = {} THEN 0 ELSE f[First(T)] + g[T \ {First(T)}]
  BY <1>2 DEF Sums
<1>4. h = step(h)
  <2>1. ASSUME NEW T \in SUBSET R
        PROVE  h[T] = IF T = {} THEN 0 ELSE f[First(T)] + h[T \ {First(T)}]
    BY <1>2, <1>3
  <2>. QED
    BY <2>1
<1>5. iter = step(iter)
  <2> HIDE DEF step
  <2>. QED
    BY <1>4
<1> HIDE DEF iter
<1>6. \A T \in SUBSET R : iter[T] = IF T = {} THEN 0 ELSE f[First(T)] + iter[T \ {First(T)}]
  BY <1>5
<1> DEFINE pick == [T \in (SUBSET R) \ {{}} |-> First(T)]
           P == [T \in SUBSET R |-> iter[T] = g[T]]
<1>7. \A T \in SUBSET R : P[T]
  <2>1. P[{}]
    BY <1>3, <1>6
  <2>2. \A T \in SUBSET R : T # {} => pick[T] = First(T) /\ pick[T] \in T
    BY <1>2
  <2>3. ASSUME NEW T \in SUBSET R, T # {}, P[T \ {pick[T]}]
        PROVE  P[T]
    <3>1. pick[T] = First(T) /\ T \ {First(T)} \in SUBSET R
      BY <1>2, <2>2, <2>3
    <3>2. iter[T \ {First(T)}] = g[T \ {First(T)}]
      BY <2>3, <3>1
    <3>. QED
      BY <1>3, <1>6, <2>3, <3>2
  <2>4. IsFiniteSet(R) /\ P \in [SUBSET R -> BOOLEAN]
    BY FS_Subset
  <2>5. \A T \in SUBSET R : T # {} => pick[T] \in T
    BY ONLY <2>2
  <2>6. pick \in [(SUBSET R) \ {{}} -> R]
    <3>1. \A T \in (SUBSET R) \ {{}} : First(T) \in R
      BY <1>2
    <3>. QED
      BY ONLY <3>1
  <2> HIDE DEF pick, P
  <2>. QED
    BY ONLY <2>1, <2>3, <2>4, <2>5, <2>6, PickInduction
<1>. QED
  BY <1>1, <1>7

\* What a sum over a finite set is: its terms may be added in any order.
LEMMA SumLaws ==
    ASSUME NEW S, IsFiniteSet(S), NEW f, \A x \in S : f[x] \in Nat
    PROVE  /\ SumFunctionOnSet(f, {}) = 0
           /\ \A T \in SUBSET S :
                 /\ SumFunctionOnSet(f, T) \in Nat
                 /\ \A x \in T : SumFunctionOnSet(f, T) = f[x] + SumFunctionOnSet(f, T \ {x})
<1>1. PICK g \in [SUBSET S -> Nat] : \A n \in Nat : Sums(g, f, S, n)
  BY SumExists
<1>2. \A T \in SUBSET S : SumFunctionOnSet(f, T) = g[T]
  BY <1>1, SumIsValue
<1>3. \A T \in SUBSET S : /\ IsFiniteSet(T) /\ Cardinality(T) \in Nat
                          /\ T # {} => First(T) \in T
  BY FS_Subset, FS_CardinalityType, SmallerSet
<1>4. \A T \in SUBSET S : g[T] = IF T = {} THEN 0 ELSE f[First(T)] + g[T \ {First(T)}]
  BY <1>1, <1>3 DEF Sums
<1> DEFINE Q == [n \in Nat |-> \A T \in SUBSET S : Cardinality(T) <= n =>
                                  \A x \in T : g[T] = f[x] + g[T \ {x}]]
<1>5. Q[0]
  <2>1. \A T \in SUBSET S : Cardinality(T) <= 0 => T = {}
    BY <1>3, FS_EmptySet
  <2>. QED
    BY <2>1
<1>6. ASSUME NEW n \in Nat, Q[n]
      PROVE  Q[n + 1]
  <2>1. SUFFICES ASSUME NEW T \in SUBSET S, Cardinality(T) <= n + 1, NEW x \in T
                 PROVE  g[T] = f[x] + g[T \ {x}]
    OBVIOUS
  <2>2. First(T) \in T /\ g[T] = f[First(T)] + g[T \ {First(T)}]
    BY <1>3, <1>4
  <2>3. CASE x # First(T)
    <3> DEFINE y == First(T)
               A == T \ {x}
               B == T \ {y}
               C == T \ {x, y}
    <3>1. /\ A \in SUBSET S /\ B \in SUBSET S /\ C \in SUBSET S /\ y \in A /\ x \in B
          /\ A \ {y} = C /\ B \ {x} = C
      BY <2>2, <2>3
    <3>2. Cardinality(A) = Cardinality(T) - 1 /\ Cardinality(B) = Cardinality(T) - 1
      BY <1>3, <2>2, FS_RemoveElement
    <3>3. Cardinality(A) <= n /\ Cardinality(B) <= n
      BY <1>3, <2>1, <3>2
    <3>4. g[A] = f[y] + g[C] /\ g[B] = f[x] + g[C]
      BY <1>6, <3>1, <3>3
    <3>5. g[C] \in Nat /\ f[x] \in Nat /\ f[y] \in Nat
      BY <2>2, <3>1
    <3> HIDE DEF A, B, C
    <3>6. g[T] = f[x] + g[A]
      BY <2>2, <3>4, <3>5 DEF B
    <3>. QED
      BY <3>6 DEF A
  <2>. QED
    BY <2>2, <2>3
<1>7. \A n \in Nat : Q[n]
  <2>1. Q \in [Nat -> BOOLEAN]
    OBVIOUS
  <2> HIDE DEF Q
  <2>. QED
    BY <1>5, <1>6, <2>1, NumberInduction
<1>8. \A T \in SUBSET S : \A x \in T : g[T] = f[x] + g[T \ {x}]
  <2>1. SUFFICES ASSUME NEW T \in SUBSET S
                 PROVE  \A x \in T : g[T] = f[x] + g[T \ {x}]
    OBVIOUS
  <2>2. Cardinality(T) \in Nat /\ Cardinality(T) <= Cardinality(T)
    BY <1>3
  <2>3. Q[Cardinality(T)]
    BY <1>7, <2>2
  <2>. QED
    BY <2>2, <2>3
<1>9. \A T \in SUBSET S : \A x \in T : T \ {x} \in SUBSET S
  OBVIOUS
<1>10. SumFunctionOnSet(f, {}) = 0
  BY <1>2, <1>4
<1>11. ASSUME NEW T \in SUBSET S
       PROVE  /\ SumFunctionOnSet(f, T) \in Nat
              /\ \A x \in T : SumFunctionOnSet(f, T) = f[x] + SumFunctionOnSet(f, T \ {x})
  BY <1>2, <1>8, <1>9
<1>. QED
  BY <1>10, <1>11

\* A sum depends on nothing but its terms.
LEMMA SumAgrees ==
    ASSUME NEW S, IsFiniteSet(S), NEW f, \A x \in S : f[x] \in Nat,
           NEW R, IsFiniteSet(R), NEW h, \A x \in R : h[x] \in Nat,
           NEW T \in SUBSET S, T \in SUBSET R, \A x \in T : f[x] = h[x]
    PROVE  SumFunctionOnSet(f, T) = SumFunctionOnSet(h, T)
<1> DEFINE P == [U \in SUBSET T |-> SumFunctionOnSet(f, U) = SumFunctionOnSet(h, U)]
<1>1. P[{}]
  <2>1. SumFunctionOnSet(f, {}) = 0 /\ SumFunctionOnSet(h, {}) = 0
    BY SumLaws
  <2>. QED
    BY <2>1
<1>2. ASSUME NEW U \in SUBSET T, NEW x \in T \ U, P[U]
      PROVE  P[U \cup {x}]
  <2>1. /\ U \cup {x} \in SUBSET S /\ U \cup {x} \in SUBSET R /\ U \cup {x} \in SUBSET T
        /\ (U \cup {x}) \ {x} = U
    OBVIOUS
  <2>2. /\ SumFunctionOnSet(f, U \cup {x}) = f[x] + SumFunctionOnSet(f, U)
        /\ SumFunctionOnSet(h, U \cup {x}) = h[x] + SumFunctionOnSet(h, U)
    BY <2>1, SumLaws
  <2>. QED
    BY <1>2, <2>1, <2>2
<1>3. IsFiniteSet(T) /\ P \in [SUBSET T -> BOOLEAN]
  BY FS_Subset
<1> HIDE DEF P
<1>4. P[T]
  BY <1>1, <1>2, <1>3, SetInduction
<1>. QED
  BY <1>4 DEF P

\* Where two functions differ in one place, so do their sums.
LEMMA SumChange ==
    ASSUME NEW S, IsFiniteSet(S), NEW f, \A y \in S : f[y] \in Nat,
           NEW h, \A y \in S : h[y] \in Nat, NEW x \in S,
           \A y \in S \ {x} : f[y] = h[y]
    PROVE  /\ SumFunctionOnSet(f, S) \in Nat /\ SumFunctionOnSet(h, S) \in Nat
           /\ SumFunctionOnSet(f, S) + h[x] = SumFunctionOnSet(h, S) + f[x]
<1>1. SumFunctionOnSet(f, S \ {x}) = SumFunctionOnSet(h, S \ {x})
  BY SumAgrees
<1>2. /\ SumFunctionOnSet(f, S) = f[x] + SumFunctionOnSet(f, S \ {x})
      /\ SumFunctionOnSet(h, S) = h[x] + SumFunctionOnSet(h, S \ {x})
      /\ SumFunctionOnSet(f, S) \in Nat /\ SumFunctionOnSet(h, S) \in Nat
      /\ SumFunctionOnSet(f, S \ {x}) \in Nat
  BY SumLaws
<1>3. f[x] \in Nat /\ h[x] \in Nat
  OBVIOUS
<1>. QED
  BY ONLY <1>1, <1>2, <1>3

-----------------------------------------------------------------------------
\* A set of numbers that has 0 and, with n, n + 1, has every number.
LEMMA InductiveSet ==
    ASSUME NEW T \in SUBSET Nat, 0 \in T, \A n \in T : n + 1 \in T
    PROVE  T = Nat
<1> SUFFICES ASSUME Nat \ T # {}
             PROVE  FALSE
  OBVIOUS
<1>1. PICK x \in Nat \ T : \A y \in Nat \ T : x <= y
  BY LeastNumber
<1>2. x - 1 \in Nat /\ x - 1 \notin Nat \ T
  BY <1>1
<1>3. x - 1 + 1 \in T
  BY <1>2
<1>. QED
  BY <1>1, <1>3

\* F makes the value at x of a function from its values at places of lower rank.
Descends(F, S, rank, V) ==
    /\ F \in [S -> [[S -> V] -> V]] /\ rank \in [S -> Nat]
    /\ \A x \in S : \A f, g \in [S -> V] :
          (\A y \in S : rank[y] < rank[x] => f[y] = g[y]) => F[x][f] = F[x][g]

\* A function may be defined by values of its own at places of lower rank.
LEMMA RankedRecursion ==
    ASSUME NEW S, NEW rank, NEW V, NEW v \in V, NEW F, Descends(F, S, rank, V)
    PROVE  \E f \in [S -> V] : \A x \in S : f[x] = F[x][f]
<1>0. /\ F \in [S -> [[S -> V] -> V]] /\ rank \in [S -> Nat]
      /\ \A x \in S : \A f, g \in [S -> V] :
            (\A y \in S : rank[y] < rank[x] => f[y] = g[y]) => F[x][f] = F[x][g]
  BY DEF Descends
<1> DEFINE Upto(g, n) == \A x \in S : rank[x] < n => g[x] = F[x][g]
           P == {n \in Nat : \E g \in [S -> V] : Upto(g, n)}
<1>1. \A x \in S : rank[x] \in Nat
  BY <1>0
<1>2. \A x \in S : \A f \in [S -> V] : F[x][f] \in V
  BY <1>0
<1>3. 0 \in P
  <2>1. [x \in S |-> v] \in [S -> V]
    OBVIOUS
  <2>2. Upto([x \in S |-> v], 0)
    BY <1>1
  <2>. QED
    BY <2>1, <2>2
<1>4. ASSUME NEW n \in P
      PROVE  n + 1 \in P
  <2>1. PICK g \in [S -> V] : Upto(g, n)
    OBVIOUS
  <2> DEFINE h == [x \in S |-> IF rank[x] < n THEN g[x] ELSE F[x][g]]
  <2>2. h \in [S -> V] /\ \A x \in S : h[x] = IF rank[x] < n THEN g[x] ELSE F[x][g]
    BY <1>2
  <2> HIDE DEF h
  <2>3. ASSUME NEW x \in S, rank[x] < n + 1
        PROVE  h[x] = F[x][h]
    <3>1. \A y \in S : rank[y] < rank[x] => g[y] = h[y]
      BY <1>1, <2>2, <2>3
    <3>2. F[x][g] = F[x][h]
      BY <1>0, <2>2, <3>1
    <3>. QED
      BY <2>1, <2>2, <3>2
  <2>. QED
    BY <2>2, <2>3
<1>5. P = Nat
  <2> HIDE DEF P
  <2>1. P \in SUBSET Nat
    BY DEF P
  <2>. QED
    BY ONLY <1>3, <1>4, <2>1, InductiveSet
<1>6. \A n \in Nat : \E g \in [S -> V] : Upto(g, n)
  BY <1>5
<1> DEFINE G(n) == CHOOSE g \in [S -> V] : Upto(g, n)
           f == [x \in S |-> G(rank[x] + 1)[x]]
<1>7. \A n \in Nat : G(n) \in [S -> V] /\ Upto(G(n), n)
  BY <1>6
<1> HIDE DEF G
\* Functions that satisfy the equation up to n agree up to n.
<1>8. ASSUME NEW g \in [S -> V], NEW h \in [S -> V], NEW m \in Nat, Upto(g, m), Upto(h, m)
      PROVE  \A x \in S : rank[x] < m => g[x] = h[x]
  <2> DEFINE Q == {n \in Nat : n <= m => \A x \in S : rank[x] < n => g[x] = h[x]}
  <2>1. 0 \in Q
    BY <1>1
  <2>2. ASSUME NEW n \in Q
        PROVE  n + 1 \in Q
    <3> SUFFICES ASSUME n + 1 <= m, NEW x \in S, rank[x] < n + 1
                 PROVE  g[x] = h[x]
      OBVIOUS
    <3>1. \A y \in S : rank[y] < rank[x] => g[y] = h[y]
      BY <1>1
    <3>2. F[x][g] = F[x][h]
      BY <1>0, <3>1
    <3>. QED
      BY <1>1, <1>8, <3>2
  <2>3. Q = Nat
    <3> HIDE DEF Q
    <3>1. Q \in SUBSET Nat
      BY DEF Q
    <3>. QED
      BY ONLY <2>1, <2>2, <3>1, InductiveSet
  <2>4. m \in Q
    BY ONLY <2>3, m \in Nat
  <2>. QED
    BY <2>4
<1>9. f \in [S -> V] /\ \A x \in S : f[x] = G(rank[x] + 1)[x]
  <2>1. \A x \in S : G(rank[x] + 1)[x] \in V
    BY <1>1, <1>7
  <2>. QED
    BY <2>1
<1> HIDE DEF f
<1>10. ASSUME NEW x \in S
       PROVE  f[x] = F[x][f]
  <2> DEFINE n == rank[x] + 1
             g == G(n)
  <2>1. n \in Nat /\ g \in [S -> V] /\ Upto(g, n)
    BY <1>1, <1>7
  <2>2. ASSUME NEW y \in S, rank[y] < rank[x]
        PROVE  f[y] = g[y]
    <3> DEFINE m == rank[y] + 1
    <3>1. m \in Nat /\ m <= n /\ rank[y] < m /\ rank[y] \in Nat
      BY <1>1, <2>2
    <3>2. G(m) \in [S -> V] /\ Upto(G(m), m)
      BY <1>7, <3>1
    <3>3. Upto(g, m)
      BY <1>1, <2>1, <3>1
    <3> HIDE DEF m, g, n
    <3>4. G(m)[y] = g[y]
      BY <1>8, <2>1, <3>1, <3>2, <3>3
    <3>. QED
      BY <1>9, <3>4 DEF m
  <2>3. g[x] = F[x][g] /\ f[x] = g[x]
    BY <1>1, <1>9, <2>1
  <2> HIDE DEF g
  <2>4. F[x][f] = F[x][g]
    BY <1>0, <1>9, <2>1, <2>2
  <2>. QED
    BY <2>3, <2>4
<1>. QED
  BY <1>9, <1>10

-----------------------------------------------------------------------------
(* Loops.                                                                  *)

\* The steps of a loop keep a type V.
Keeps(h, n, V) == \A k \in 1..n : \A v \in V : h[k][v] \in V

\* What the steps make of `base`.
StepsFrom(g, n, base, h) == g[0] = base /\ \A k \in 1..n : g[k] = h[k][g[k - 1]]

\* A function that does the steps as long as it has the type does all of them, and has it.
LEMMA TypedSame ==
    ASSUME NEW n \in Nat, NEW V, NEW base \in V, NEW h, Keeps(h, n, V),
           NEW c, c[0] = base, \A k \in 1..n : c[k - 1] \in V => c[k] = h[k][c[k - 1]]
    PROVE  /\ \A k \in 1..n : c[k] = h[k][c[k - 1]]
           /\ \A k \in 0..n : c[k] \in V
<1> DEFINE T == {k \in Nat : k <= n => c[k] \in V}
<1>1. 0 \in T
  OBVIOUS
<1>2. ASSUME NEW k \in T
      PROVE  k + 1 \in T
  <2> SUFFICES ASSUME k + 1 <= n
               PROVE  c[k + 1] \in V
    OBVIOUS
  <2>1. k + 1 \in 1..n /\ (k + 1) - 1 = k /\ c[k] \in V
    OBVIOUS
  <2>. QED
    BY ONLY <2>1, Keeps(h, n, V),
            \A i \in 1..n : c[i - 1] \in V => c[i] = h[i][c[i - 1]]
       DEF Keeps
<1>3. T = Nat
  <2>1. T \in SUBSET Nat
    OBVIOUS
  <2> HIDE DEF T
  <2>. QED
    BY ONLY <1>1, <1>2, <2>1, InductiveSet
<1>4. \A k \in 0..n : c[k] \in V
  BY <1>3
<1>5. \A k \in 1..n : k - 1 \in 0..n
  OBVIOUS
<1>. QED
  BY <1>4, <1>5

\* A loop can be run.
LEMMA TypedSteps ==
    ASSUME NEW n \in Nat, NEW V, NEW base \in V, NEW h, Keeps(h, n, V)
    PROVE  \E g : /\ g = [k \in 0..n |-> g[k]] /\ g[0] = base
                  /\ \A k \in 1..n : g[k] = h[k][g[k - 1]]
                  /\ \A k \in 0..n : g[k] \in V
<1> DEFINE Upto(g, m) == g = [k \in 0..m |-> g[k]] /\ StepsFrom(g, m, base, h)
           T == {m \in Nat : m <= n => \E g : Upto(g, m)}
<1>1. 0 \in T
  <2>1. Upto([k \in 0..0 |-> base], 0)
    BY DEF StepsFrom
  <2>. QED
    BY <2>1
<1>2. ASSUME NEW m \in T
      PROVE  m + 1 \in T
  <2>1. SUFFICES ASSUME m + 1 <= n
                 PROVE  \E g : Upto(g, m + 1)
    OBVIOUS
  <2>2. PICK g : Upto(g, m)
    BY <2>1
  <2> DEFINE f == [k \in 0..(m + 1) |-> IF k = m + 1 THEN h[m + 1][g[m]] ELSE g[k]]
  <2>3. /\ \A k \in 0..m : f[k] = g[k]
        /\ f[m + 1] = h[m + 1][g[m]]
    OBVIOUS
  <2>4. f = [k \in 0..(m + 1) |-> f[k]]
    OBVIOUS
  <2> HIDE DEF f
  <2>5. f[0] = base
    BY <2>2, <2>3 DEF StepsFrom
  <2>6. ASSUME NEW k \in 1..(m + 1)
        PROVE  f[k] = h[k][f[k - 1]]
    <3>1. CASE k = m + 1
      <4>1. k - 1 = m /\ m \in 0..m
        BY <3>1
      <4>. QED
        BY <2>3, <3>1, <4>1
    <3>2. CASE k # m + 1
      <4>1. k \in 1..m /\ k \in 0..m /\ k - 1 \in 0..m
        BY <3>2
      <4>. QED
        BY <2>2, <2>3, <4>1 DEF StepsFrom
    <3>. QED
      BY <3>1, <3>2
  <2>. QED
    BY <2>4, <2>5, <2>6 DEF StepsFrom
<1>3. T = Nat
  <2>1. T \in SUBSET Nat
    OBVIOUS
  <2> HIDE DEF T
  <2>. QED
    BY ONLY <1>1, <1>2, <2>1, InductiveSet
<1>4. PICK g : Upto(g, n)
  <2>1. n \in T
    BY <1>3
  <2>. QED
    BY <2>1
<1>5. g[0] = base /\ \A k \in 1..n : g[k] = h[k][g[k - 1]]
  BY <1>4 DEF StepsFrom
<1>6. \A k \in 0..n : g[k] \in V
  BY ONLY <1>5, n \in Nat, base \in V, Keeps(h, n, V), TypedSame
<1>. QED
  BY <1>4, <1>5, <1>6, Zenon

\* A place is in T if all places of lower rank are.
Inherits(S, rank, T) == \A x \in S : (\A y \in S : rank[y] < rank[x] => y \in T) => x \in T

\* What holds wherever it holds below holds everywhere.
LEMMA RankedInduction ==
    ASSUME NEW S, NEW rank \in [S -> Nat], NEW T \in SUBSET S, Inherits(S, rank, T)
    PROVE  T = S
<1>0. \A x \in S : (\A y \in S : rank[y] < rank[x] => y \in T) => x \in T
  BY DEF Inherits
<1> SUFFICES ASSUME S \ T # {}
             PROVE  FALSE
  OBVIOUS
<1> DEFINE R == {rank[x] : x \in S \ T}
<1>1. R \in SUBSET Nat /\ R # {}
  OBVIOUS
<1>2. PICK r \in R : \A q \in R : r <= q
  BY <1>1, LeastNumber
<1>3. PICK x \in S \ T : rank[x] = r
  OBVIOUS
<1>4. ASSUME NEW y \in S, rank[y] < rank[x]
      PROVE  y \in T
  <2> SUFFICES ASSUME y \in S \ T
               PROVE  FALSE
    OBVIOUS
  <2>1. rank[y] \in R /\ rank[y] \in Nat /\ rank[x] \in Nat
    OBVIOUS
  <2>2. rank[x] <= rank[y]
    BY ONLY <1>2, <1>3, <2>1
  <2>. QED
    BY ONLY <1>4, <2>1, <2>2
<1>. QED
  BY <1>0, <1>4

\* Two sequences of one length are equal if their elements are.
LEMMA SameSequence ==
    ASSUME NEW S, NEW s \in Seq(S), NEW t \in Seq(S), Len(s) = Len(t),
           \A i \in 1..Len(s) : s[i] = t[i]
    PROVE  s = t
  OBVIOUS

\* What holds of the empty sequence and stays when an element is appended holds of every
\* sequence.
LEMMA SequenceInduction ==
    ASSUME NEW S, NEW T \in SUBSET Seq(S), <<>> \in T, \A s \in T : \A x \in S : Append(s, x) \in T
    PROVE  T = Seq(S)
<1> DEFINE Q == {n \in Nat : \A s \in Seq(S) : Len(s) = n => s \in T}
<1>1. 0 \in Q
  OBVIOUS
<1>2. ASSUME NEW n \in Q
      PROVE  n + 1 \in Q
  <2> SUFFICES ASSUME NEW s \in Seq(S), Len(s) = n + 1
               PROVE  s \in T
    OBVIOUS
  <2> DEFINE f == SubSeq(s, 1, n)
             x == s[n + 1]
  <2>1. f \in Seq(S) /\ Len(f) = n /\ x \in S
    OBVIOUS
  <2>2. s = Append(f, x)
    <3>1. Append(f, x) \in Seq(S) /\ Len(Append(f, x)) = n + 1
      BY ONLY <2>1, n \in Nat
    <3>2. \A i \in 1..(n + 1) : Append(f, x)[i] = s[i]
      OBVIOUS
    <3>. QED
      BY ONLY <3>1, <3>2, s \in Seq(S), Len(s) = n + 1, SameSequence
  <2>3. f \in T
    BY <2>1
  <2>. QED
    BY <2>1, <2>2, <2>3
<1>3. Q = Nat
  <2>1. Q \in SUBSET Nat
    OBVIOUS
  <2> HIDE DEF Q
  <2>. QED
    BY ONLY <1>1, <1>2, <2>1, InductiveSet
<1>4. \A s \in Seq(S) : Len(s) \in Q => s \in T
  OBVIOUS
<1>5. \A s \in Seq(S) : s \in T
  <2> HIDE DEF Q
  <2>. QED
    BY <1>3, <1>4
<1>. QED
  BY ONLY <1>5, T \in SUBSET Seq(S)
=============================================================================
