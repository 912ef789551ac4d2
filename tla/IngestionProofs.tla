--------------------------- MODULE IngestionProofs --------------------------
(***************************************************************************)
(* Proofs about ingestion for every batch, every text, and every size and  *)
(* overlap that a chunker accepts: where the chunks of the three chunkers  *)
(* lie in their document and how long they are, that the loader's          *)
(* documents are worth chunking and no letter gets lost between a text and *)
(* its chunks, that vectors are those of their texts whatever the order of *)
(* the service's answers, and that an item's result depends on no other    *)
(* item.                                                                   *)
(*                                                                         *)
(* A loop of the code is a fold in the model; the lemmas whose name ends   *)
(* in "Steps" turn one into the values it goes through, and InductiveSet   *)
(* (Induction) runs through these.                                         *)
(***************************************************************************)
EXTENDS Ingestion, Induction, TLAPS

-----------------------------------------------------------------------------
(* Sequences and texts.                                                    *)

\* FlattenSeq puts the sequences together one after the other.
LEMMA FlattenSteps ==
    ASSUME NEW S, NEW s \in Seq(Seq(S))
    PROVE  \E g : /\ \A k \in 0..Len(s) : g[k] \in Seq(S)
                  /\ g[0] = <<>>
                  /\ \A k \in 1..Len(s) : g[k] = g[k - 1] \o s[k]
                  /\ FlattenSeq(s) = g[Len(s)]
<1> DEFINE n == Len(s)
           V == Seq(S)
           h == [k \in 1..n |-> [v \in V |-> v \o s[k]]]
           E(c) == c = [i \in 1..n |-> IF i = 1 THEN s[i] ELSE c[i - 1] \o s[i]]
<1>1. /\ n \in Nat /\ <<>> \in V
      /\ \A k \in 1..n : s[k] \in V
      /\ \A k \in 1..n : \A v \in V : v \o s[k] \in V
      /\ \A v \in V : <<>> \o v = v
  OBVIOUS
<1>2. \A k \in 1..n : \A v \in V : h[k][v] = v \o s[k]
  OBVIOUS
<1>3. n = 0 => FlattenSeq(s) = <<>>
  <2>1. n = 0 => s = <<>>
    OBVIOUS
  <2>. QED
    BY <2>1 DEF FlattenSeq
<1>4. n # 0 => FlattenSeq(s) = (CHOOSE c : E(c))[n]
  <2>1. n # 0 => s # <<>>
    OBVIOUS
  <2>. QED
    BY <2>1, Zenon DEF FlattenSeq
<1> HIDE DEF h, n, V
<1>5. PICK g : /\ g = [k \in 0..n |-> g[k]] /\ g[0] = <<>>
               /\ \A k \in 1..n : g[k] = h[k][g[k - 1]]
               /\ \A k \in 0..n : g[k] \in V
  <2>1. Keeps(h, n, V)
    BY <1>1, <1>2 DEF Keeps
  <2>. QED
    BY ONLY <1>1, <2>1, TypedSteps
<1>6. \A k \in 1..n : g[k] = g[k - 1] \o s[k]
  <2>1. \A k \in 1..n : k - 1 \in 0..n
    BY <1>1
  <2>. QED
    BY <1>2, <1>5, <2>1
<1>7. CASE n = 0
  BY <1>3, <1>5, <1>6, <1>7 DEF n, V
<1>8. CASE n # 0
  <2> DEFINE d == [k \in 1..n |-> g[k]]
             c == CHOOSE x : E(x)
  <2>1. E(d)
    <3>1. ASSUME NEW i \in 1..n
          PROVE  g[i] = IF i = 1 THEN s[i] ELSE d[i - 1] \o s[i]
      <4>1. i # 1 => i - 1 \in 1..n
        BY <1>1
      <4>2. i = 1 => g[i - 1] = <<>>
        BY <1>5
      <4>. QED
        BY <1>1, <1>6, <4>1, <4>2
    <3>. QED
      BY <3>1
  <2>2. E(c)
    BY <2>1, Zenon
  <2> HIDE DEF c, d
  <2>3. \A i \in 1..n : c[i] = IF i = 1 THEN s[i] ELSE c[i - 1] \o s[i]
    BY <2>2
  <2> DEFINE e == [k \in 0..n |-> IF k = 0 THEN <<>> ELSE c[k]]
             T == {k \in Nat : k <= n => e[k] = g[k]}
  <2>4. 0 \in T
    BY <1>1, <1>5
  <2>5. ASSUME NEW k \in T
        PROVE  k + 1 \in T
    <3>1. SUFFICES ASSUME k + 1 <= n
                   PROVE  e[k + 1] = g[k + 1]
      OBVIOUS
    <3>2. k + 1 \in 1..n /\ (k + 1) - 1 = k /\ k \in 0..n /\ e[k] = g[k] /\ g[k] \in V
      BY <1>1, <1>5, <3>1
    <3>3. g[k + 1] = e[k] \o s[k + 1]
      BY <1>6, <3>2
    <3>4. e[k + 1] = c[k + 1]
      BY <3>2
    <3>5. c[k + 1] = e[k] \o s[k + 1]
      <4>1. CASE k = 0
        <5>1. k + 1 = 1 /\ e[k] = <<>> /\ s[k + 1] \in V
          BY <1>1, <3>2, <4>1
        <5>2. c[k + 1] = s[k + 1]
          BY <2>3, <3>2, <5>1
        <5>. QED
          BY <1>1, <5>1, <5>2
      <4>2. CASE k # 0
        <5>1. k + 1 # 1 /\ e[k] = c[k]
          BY <3>2, <4>2
        <5>2. c[k + 1] = c[(k + 1) - 1] \o s[k + 1]
          BY <2>3, <3>2, <5>1
        <5>. QED
          BY <3>2, <5>1, <5>2
      <4>. QED
        BY <4>1, <4>2
    <3>. QED
      BY <3>3, <3>4, <3>5
  <2>6. T = Nat
    <3>1. T \in SUBSET Nat
      OBVIOUS
    <3> HIDE DEF T
    <3>. QED
      BY ONLY <2>4, <2>5, <3>1, InductiveSet
  <2>7. n \in T
    BY <1>1, <2>6
  <2>8. c[n] = g[n]
    BY <1>1, <1>8, <2>7
  <2>. QED
    BY <1>4, <1>5, <1>6, <1>8, <2>8 DEF n, V, c
<1>. QED
  BY <1>7, <1>8

\* Two sequences one after the other.
LEMMA Concatenation ==
    ASSUME NEW S, NEW a \in Seq(S), NEW b \in Seq(S)
    PROVE  /\ a \o b \in Seq(S) /\ Len(a \o b) = Len(a) + Len(b)
           /\ \A i \in 1..Len(a) : (a \o b)[i] = a[i]
           /\ \A i \in 1..Len(b) : (a \o b)[Len(a) + i] = b[i]
           /\ \A i \in 1..Len(a \o b) : i \in 1..Len(a) \/ i - Len(a) \in 1..Len(b)
           /\ b = <<>> => a \o b = a
  OBVIOUS

\* x is an element of s.
Occurs(x, s) == \E i \in 1..Len(s) : s[i] = x

\* Its elements are those of the sequences, and the last is that of the last.
LEMMA FlattenElements ==
    ASSUME NEW S, NEW s \in Seq(Seq(S))
    PROVE  /\ FlattenSeq(s) \in Seq(S)
           /\ \A x : Occurs(x, FlattenSeq(s)) <=> \E k \in 1..Len(s) : Occurs(x, s[k])
           /\ Len(s) > 0 /\ Len(s[Len(s)]) > 0 =>
                 /\ Len(FlattenSeq(s)) > 0
                 /\ Last(FlattenSeq(s)) = Last(s[Len(s)])
<1> DEFINE n == Len(s)
<1>1. PICK g : /\ \A k \in 0..n : g[k] \in Seq(S)
               /\ g[0] = <<>>
               /\ \A k \in 1..n : g[k] = g[k - 1] \o s[k]
               /\ FlattenSeq(s) = g[n]
  BY FlattenSteps
<1>2. n \in Nat /\ n \in 0..n /\ \A k \in 1..n : s[k] \in Seq(S) /\ k - 1 \in 0..n
  OBVIOUS
<1> HIDE DEF n
<1>3. ASSUME NEW x
      PROVE  Occurs(x, g[n]) <=> \E k \in 1..n : Occurs(x, s[k])
  <2> DEFINE Same(m) == Occurs(x, g[m]) <=> \E k \in 1..m : Occurs(x, s[k])
             T == {m \in Nat : m <= n => Same(m)}
  <2>1. 0 \in T
    BY <1>1 DEF Occurs
  <2>2. ASSUME NEW m \in T
        PROVE  m + 1 \in T
    <3>1. SUFFICES ASSUME m + 1 <= n
                   PROVE  Same(m + 1)
      OBVIOUS
    <3>2. m + 1 \in 1..n /\ m \in 0..n /\ g[m] \in Seq(S) /\ s[m + 1] \in Seq(S)
      BY <1>1, <1>2, <3>1
    <3>3. g[m + 1] = g[m] \o s[m + 1]
      <4>1. (m + 1) - 1 = m
        OBVIOUS
      <4>. QED
        BY <1>1, <3>2, <4>1
    <3>4. Occurs(x, g[m] \o s[m + 1]) <=> Occurs(x, g[m]) \/ Occurs(x, s[m + 1])
      <4> DEFINE a == g[m]
                 b == s[m + 1]
      <4>1. /\ a \o b \in Seq(S) /\ Len(a \o b) = Len(a) + Len(b)
            /\ \A i \in 1..Len(a) : (a \o b)[i] = a[i]
            /\ \A i \in 1..Len(b) : (a \o b)[Len(a) + i] = b[i]
            /\ \A i \in 1..Len(a \o b) : i \in 1..Len(a) \/ i - Len(a) \in 1..Len(b)
        <5>1. a \in Seq(S) /\ b \in Seq(S)
          BY <3>2
        <5> HIDE DEF a, b
        <5>. QED
          BY ONLY <5>1, Concatenation
      <4>2. a \in Seq(S) /\ b \in Seq(S)
        BY <3>2
      <4> HIDE DEF a, b
      <4>3. \A i \in 1..Len(a \o b) : i \in 1..Len(a) \/ (i - Len(a) \in 1..Len(b) /\ (a \o b)[i] = b[i - Len(a)])
        BY <4>1, <4>2
      <4>4. \A i \in 1..Len(b) : Len(a) + i \in 1..Len(a \o b)
        BY <4>1, <4>2
      <4>5. \A i \in 1..Len(a) : i \in 1..Len(a \o b)
        BY <4>1, <4>2
      <4>6. Occurs(x, a \o b) => Occurs(x, a) \/ Occurs(x, b)
        BY <4>1, <4>3 DEF Occurs
      <4>7. Occurs(x, a) => Occurs(x, a \o b)
        BY <4>1, <4>5 DEF Occurs
      <4>8. Occurs(x, b) => Occurs(x, a \o b)
        BY <4>1, <4>4 DEF Occurs
      <4>. QED
        BY <4>6, <4>7, <4>8 DEF a, b
    <3>5. \A k : k \in 1..(m + 1) <=> k \in 1..m \/ k = m + 1
      OBVIOUS
    <3>6. Same(m)
      <4> HIDE DEF Same
      <4>. QED
        BY <1>2, <3>1
    <3>7. (\E k \in 1..(m + 1) : Occurs(x, s[k])) <=> (\E k \in 1..m : Occurs(x, s[k])) \/ Occurs(x, s[m + 1])
      BY ONLY <3>5, Zenon
    <3>. QED
      BY <3>3, <3>4, <3>6, <3>7
  <2> HIDE DEF Same
  <2>3. T = Nat
    <3>1. T \in SUBSET Nat
      OBVIOUS
    <3> HIDE DEF T
    <3>. QED
      BY ONLY <2>1, <2>2, <3>1, InductiveSet
  <2>. QED
    BY <1>2, <2>3 DEF Same
<1>4. ASSUME n > 0, Len(s[n]) > 0
      PROVE  Len(g[n]) > 0 /\ Last(g[n]) = Last(s[n])
  <2>0. n \in 1..n
    BY <1>2, <1>4
  <2>1. g[n] = g[n - 1] \o s[n] /\ g[n - 1] \in Seq(S) /\ s[n] \in Seq(S)
    BY <1>1, <1>2, <2>0
  <2> DEFINE a == g[n - 1]
             b == s[n]
  <2>2. a \in Seq(S) /\ b \in Seq(S) /\ Len(b) > 0 /\ g[n] = a \o b
    BY <1>4, <2>1
  <2> HIDE DEF a, b
  <2>3. Len(a \o b) > 0 /\ Last(a \o b) = Last(b)
    BY <2>2 DEF Last
  <2>. QED
    BY <2>2, <2>3 DEF b
<1>. QED
  BY <1>1, <1>2, <1>3, <1>4 DEF n

\* The characters that chunking and loading know, and the texts they are made into.
LEMMA TextConstants ==
    ASSUME ChunkerAssumption
    PROVE  /\ Blanks \subseteq Characters /\ Space \in Blanks /\ NewLine \in Blanks
           /\ Space \in Characters /\ NewLine \in Characters /\ "." \in Characters
           /\ <<Space>> \in Text /\ <<NewLine>> \in Text /\ <<NewLine, NewLine>> \in Text
           /\ <<".", Space>> \in Text
           /\ \A c \in Stops : c \notin Blanks
           /\ <<>> \in Text
<1>1. /\ Blanks \cup Stops \cup Starters \subseteq Characters
      /\ {NewLine, Space} \subseteq Blanks /\ NewLine # Space
      /\ Blanks \cap (Stops \cup Starters) = {} /\ Stops \cap Starters = {} /\ "." \in Stops
  BY Zenon DEF ChunkerAssumption
<1>2. /\ Blanks \subseteq Characters /\ Space \in Blanks /\ NewLine \in Blanks /\ "." \in Characters
      /\ \A c \in Stops : c \notin Blanks
  BY <1>1
<1>3. Space \in Characters /\ NewLine \in Characters
  BY <1>2
<1>4. /\ <<Space>> \in Text /\ <<NewLine>> \in Text /\ <<NewLine, NewLine>> \in Text
      /\ <<".", Space>> \in Text
  BY <1>2, <1>3 DEF Text
<1>. QED
  BY <1>2, <1>3, <1>4 DEF Text

\* A slice of a text.
LEMMA SliceFacts ==
    ASSUME NEW t \in Text, NEW start \in Int, NEW end \in Int,
           0 <= start, start <= end, end <= Len(t)
    PROVE  /\ Slice(t, start, end) \in Text
           /\ Len(Slice(t, start, end)) = end - start
           /\ \A i \in 1..(end - start) : Slice(t, start, end)[i] = t[start + i]
  BY DEF Slice, Text

\* A text is blank if no character that is not blank occurs in it.
LEMMA BlankText ==
    ASSUME NEW t \in Text
    PROVE  IsBlank(t) <=> \A c : c \notin Blanks => ~Occurs(c, t)
<1>1. DOMAIN t = 1..Len(t)
  BY DEF Text
<1>. QED
  BY <1>1, Zenon DEF IsBlank, Occurs

\* A text ends in a character that is not blank.
EndsFilled(t) == Len(t) > 0 /\ Last(t) \notin Blanks

\* Such a text is not blank.
LEMMA EndsFilledNotBlank ==
    ASSUME NEW t \in Text, EndsFilled(t)
    PROVE  ~IsBlank(t) /\ t # <<>>
<1>1. Len(t) \in DOMAIN t
  BY DEF Text, EndsFilled
<1>. QED
  BY <1>1 DEF IsBlank, EndsFilled, Last

\* What occurs in a slice.
LEMMA SliceOccurs ==
    ASSUME NEW t \in Text, NEW start \in Int, NEW end \in Int,
           0 <= start, start <= end, end <= Len(t), NEW c
    PROVE  Occurs(c, Slice(t, start, end)) <=> \E i \in (start + 1)..end : t[i] = c
<1>1. /\ Len(Slice(t, start, end)) = end - start
      /\ \A i \in 1..(end - start) : Slice(t, start, end)[i] = t[start + i]
  BY SliceFacts
<1>2. \A i \in (start + 1)..end : i - start \in 1..(end - start) /\ start + (i - start) = i
  OBVIOUS
<1>3. \A i \in 1..(end - start) : start + i \in (start + 1)..end
  OBVIOUS
<1>. QED
  BY <1>1, <1>2, <1>3 DEF Occurs

\* str.strip() drops no character that is not blank, and leaves one at the end.
LEMMA StripFacts ==
    ASSUME NEW t \in Text
    PROVE  /\ Strip(t) \in Text /\ Len(Strip(t)) <= Len(t)
           /\ \A c : c \notin Blanks => (Occurs(c, Strip(t)) <=> Occurs(c, t))
           /\ Strip(t) # <<>> => EndsFilled(Strip(t))
<1> DEFINE kept == {i \in DOMAIN t : t[i] \notin Blanks}
<1>1. DOMAIN t = 1..Len(t) /\ Len(t) \in Nat /\ <<>> \in Text
  BY DEF Text
<1>2. \A c : c \notin Blanks /\ Occurs(c, t) => \E i \in kept : t[i] = c
  BY <1>1 DEF Occurs
<1>3. CASE kept = {}
  <2>1. Strip(t) = <<>>
    BY <1>3, Zenon DEF Strip
  <2>2. \A c : ~Occurs(c, <<>>)
    BY DEF Occurs
  <2>3. \A c : c \notin Blanks => ~Occurs(c, t)
    BY <1>2, <1>3, Zenon
  <2>. QED
    BY <1>1, <2>1, <2>2, <2>3
<1>4. CASE kept # {}
  <2> DEFINE a == Min(kept)
             b == Max(kept)
  <2>1. kept \in SUBSET (1..Len(t)) /\ kept \in SUBSET Nat
    BY <1>1
  <2>2. Strip(t) = SubSeq(t, a, b)
    BY <1>4, Zenon DEF Strip
  <2>3. \A i \in kept : t[i] \notin Blanks
    OBVIOUS
  <2> HIDE DEF kept
  <2>4. a \in kept /\ \A i \in kept : a <= i
    BY <1>4, <2>1, LeastNumber DEF Min
  <2>5. b \in kept /\ \A i \in kept : i <= b
    <3>1. \E x \in kept : \A y \in kept : y <= x
      BY <1>1, <1>4, <2>1, GreatestNumber
    <3>. QED
      BY <2>1, <3>1 DEF Max
  <2> HIDE DEF a, b
  <2>6. a \in Nat /\ b \in Nat /\ 1 <= a /\ a <= b /\ b <= Len(t) /\ a - 1 \in Int
    BY <1>1, <2>1, <2>4, <2>5
  <2> DEFINE z == a - 1
  <2>7. Strip(t) = Slice(t, z, b)
    BY <2>2, <2>6 DEF Slice, z
  <2>8. z \in Int /\ 0 <= z /\ z <= b /\ z + 1 = a
    BY <2>6
  <2> HIDE DEF z
  <2>9. /\ Slice(t, z, b) \in Text
        /\ Len(Slice(t, z, b)) = b - z
        /\ \A i \in 1..(b - z) : Slice(t, z, b)[i] = t[z + i]
    BY ONLY t \in Text, <2>6, <2>8, SliceFacts
  <2>10. \A c : Occurs(c, Slice(t, z, b)) <=> \E i \in (z + 1)..b : t[i] = c
    BY ONLY t \in Text, <2>6, <2>8, SliceOccurs
  <2>11. Len(Strip(t)) <= Len(t) /\ Len(Strip(t)) > 0
    BY <1>1, <2>6, <2>7, <2>8, <2>9
  <2>12. Last(Strip(t)) = t[b]
    <3>1. b - z \in 1..(b - z) /\ z + (b - z) = b
      BY <2>6, <2>8
    <3>. QED
      BY <2>7, <2>9, <3>1 DEF Last
  <2>13. ASSUME NEW c, c \notin Blanks
         PROVE  Occurs(c, Strip(t)) <=> Occurs(c, t)
    <3>1. \A i \in kept : i \in (z + 1)..b
      BY <2>1, <2>4, <2>5, <2>6, <2>8
    <3>2. \A i \in (z + 1)..b : i \in 1..Len(t)
      BY <1>1, <2>6, <2>8
    <3>3. Occurs(c, t) => Occurs(c, Strip(t))
      BY <1>2, <2>7, <2>10, <2>13, <3>1
    <3>4. Occurs(c, Strip(t)) => Occurs(c, t)
      BY <2>7, <2>10, <3>2 DEF Occurs
    <3>. QED
      BY <3>3, <3>4
  <2>14. Strip(t) \in Text
    BY <2>7, <2>9
  <2>15. EndsFilled(Strip(t))
    BY <2>3, <2>5, <2>11, <2>12 DEF EndsFilled
  <2>16. \A c : c \notin Blanks => (Occurs(c, Strip(t)) <=> Occurs(c, t))
    BY ONLY <2>13
  <2>. QED
    BY ONLY <2>11, <2>14, <2>15, <2>16
<1>. QED
  BY <1>3, <1>4

-----------------------------------------------------------------------------
(* The loops of Collapse and PackAll.                                      *)

\* The loop of Collapse.
LEMMA CollapseSteps ==
    ASSUME ChunkerAssumption,
           NEW t \in Text,
           NEW set
    PROVE  \E g : /\ \A k \in 0..Len(t) : g[k] \in Text
                  /\ g[0] = <<>>
                  /\ \A k \in 1..Len(t) :
                        g[k] = IF t[k] \notin set THEN Append(g[k - 1], t[k])
                             ELSE IF g[k - 1] # <<>> /\ Last(g[k - 1]) = Space THEN g[k - 1] ELSE Append(g[k - 1], Space)
                  /\ Collapse(t, set) = g[Len(t)]
<1> DEFINE n == Len(t)
           V == Text
           Step(k, v) == IF t[k] \notin set THEN Append(v, t[k])
                        ELSE IF v # <<>> /\ Last(v) = Space THEN v ELSE Append(v, Space)
           h == [k \in 1..n |-> [v \in V |-> Step(k, v)]]
           E(c) == c = [k \in 0..n |-> IF k = 0 THEN <<>> ELSE Step(k, c[k - 1])]
           c == CHOOSE f : E(f)
<1>1. n \in Nat /\ <<>> \in V /\ \A k \in 1..n : \A v \in V : Step(k, v) \in V
  BY TextConstants DEF Text
<1>2. Collapse(t, set) = c[n]
  BY Zenon DEF Collapse, Loop
<1> HIDE DEF Step, n, V
<1>3. \A k \in 1..n : \A v \in V : h[k][v] = Step(k, v)
  OBVIOUS
<1> HIDE DEF h
<1>4. PICK g : /\ g = [k \in 0..n |-> g[k]] /\ g[0] = <<>>
               /\ \A k \in 1..n : g[k] = h[k][g[k - 1]]
               /\ \A k \in 0..n : g[k] \in V
  <2>1. Keeps(h, n, V)
    BY <1>1, <1>3 DEF Keeps
  <2>. QED
    BY ONLY <1>1, <2>1, TypedSteps
<1>5. \A k \in 1..n : k - 1 \in 0..n
  BY <1>1
<1>6. E(g)
  <2>1. \A k \in 0..n : k # 0 => k \in 1..n
    BY <1>1
  <2>2. \A k \in 1..n : g[k] = Step(k, g[k - 1])
    BY <1>3, <1>4, <1>5
  <2>3. \A k \in 0..n : g[k] = IF k = 0 THEN <<>> ELSE Step(k, g[k - 1])
    BY <1>4, <2>1, <2>2
  <2>. QED
    BY <1>4, <2>3, Zenon
<1>7. E(c)
  BY <1>6, Zenon
<1> HIDE DEF c
<1>8. c[0] = <<>> /\ \A k \in 1..n : c[k] = Step(k, c[k - 1])
  BY <1>1, <1>7
<1>9. \A k \in 0..n : c[k] \in V
  <2>1. Keeps(h, n, V)
    BY <1>1, <1>3 DEF Keeps
  <2>2. \A k \in 1..n : c[k - 1] \in V => c[k] = h[k][c[k - 1]]
    BY <1>3, <1>8
  <2>3. <<>> \in V /\ c[0] = <<>> /\ n \in Nat
    BY <1>1, <1>8
  <2>. QED
    BY ONLY <2>1, <2>2, <2>3, TypedSame
<1>. QED
  BY <1>2, <1>8, <1>9, Zenon DEF Step, n, V

\* What PackAll has packed up, and what is in its buffer.
Packed == [out : Seq(Text), buf : Text]

\* The loop of PackAll.
LEMMA PackSteps ==
    ASSUME NEW sep \in Text,
           NEW pieces \in Seq(Text),
           NEW size
    PROVE  \E g : /\ \A k \in 0..Len(pieces) : g[k] \in Packed
                  /\ g[0] = [out |-> <<>>, buf |-> <<>>]
                  /\ \A k \in 1..Len(pieces) :
                        g[k] = Pack(g[k - 1], pieces[k], sep, size)
                  /\ PackAll(pieces, sep, size) = IF g[Len(pieces)].buf = <<>> THEN g[Len(pieces)].out ELSE Append(g[Len(pieces)].out, g[Len(pieces)].buf)
<1> DEFINE n == Len(pieces)
           V == Packed
           Step(k, v) == Pack(v, pieces[k], sep, size)
           h == [k \in 1..n |-> [v \in V |-> Step(k, v)]]
           E(c) == c = [k \in 0..n |-> IF k = 0 THEN [out |-> <<>>, buf |-> <<>>] ELSE Step(k, c[k - 1])]
           c == CHOOSE f : E(f)
<1>1. n \in Nat /\ [out |-> <<>>, buf |-> <<>>] \in V /\ \A k \in 1..n : \A v \in V : Step(k, v) \in V
  <2>1. [out |-> <<>>, buf |-> <<>>] \in Packed
    BY DEF Packed, Text
  <2>2. ASSUME NEW p \in Text, NEW v \in Packed
        PROVE  Pack(v, p, sep, size) \in Packed
    <3> DEFINE candidate == IF v.buf = <<>> THEN p ELSE v.buf \o sep \o p
               full == IF v.buf = <<>> THEN v.out ELSE Append(v.out, v.buf)
    <3>1. v.out \in Seq(Text) /\ v.buf \in Text
      BY <2>2 DEF Packed
    <3>2. candidate \in Text
      BY <2>2, <3>1 DEF Text
    <3>3. full \in Seq(Text)
      BY <3>1
    <3>4. Pack(v, p, sep, size) = IF Len(candidate) <= size THEN [v EXCEPT !.buf = candidate]
                                  ELSE [out |-> full, buf |-> p]
      BY DEF Pack
    <3> HIDE DEF candidate, full
    <3>5. [v EXCEPT !.buf = candidate] \in Packed /\ [out |-> full, buf |-> p] \in Packed
      BY <2>2, <3>2, <3>3 DEF Packed
    <3>. QED
      BY <3>4, <3>5
  <2>. QED
    BY <2>1, <2>2
<1>2. PackAll(pieces, sep, size) = IF c[n].buf = <<>> THEN c[n].out ELSE Append(c[n].out, c[n].buf)
  BY Zenon DEF PackAll, Loop
<1> HIDE DEF Step, n, V
<1>3. \A k \in 1..n : \A v \in V : h[k][v] = Step(k, v)
  OBVIOUS
<1> HIDE DEF h
<1>4. PICK g : /\ g = [k \in 0..n |-> g[k]] /\ g[0] = [out |-> <<>>, buf |-> <<>>]
               /\ \A k \in 1..n : g[k] = h[k][g[k - 1]]
               /\ \A k \in 0..n : g[k] \in V
  <2>1. Keeps(h, n, V)
    BY <1>1, <1>3 DEF Keeps
  <2>. QED
    BY ONLY <1>1, <2>1, TypedSteps
<1>5. \A k \in 1..n : k - 1 \in 0..n
  BY <1>1
<1>6. E(g)
  <2>1. \A k \in 0..n : k # 0 => k \in 1..n
    BY <1>1
  <2>2. \A k \in 1..n : g[k] = Step(k, g[k - 1])
    BY <1>3, <1>4, <1>5
  <2>3. \A k \in 0..n : g[k] = IF k = 0 THEN [out |-> <<>>, buf |-> <<>>] ELSE Step(k, g[k - 1])
    BY <1>4, <2>1, <2>2
  <2>. QED
    BY <1>4, <2>3, Zenon
<1>7. E(c)
  BY <1>6, Zenon
<1> HIDE DEF c
<1>8. c[0] = [out |-> <<>>, buf |-> <<>>] /\ \A k \in 1..n : c[k] = Step(k, c[k - 1])
  BY <1>1, <1>7
<1>9. \A k \in 0..n : c[k] \in V
  <2>1. Keeps(h, n, V)
    BY <1>1, <1>3 DEF Keeps
  <2>2. \A k \in 1..n : c[k - 1] \in V => c[k] = h[k][c[k - 1]]
    BY <1>3, <1>8
  <2>3. [out |-> <<>>, buf |-> <<>>] \in V /\ c[0] = [out |-> <<>>, buf |-> <<>>] /\ n \in Nat
    BY <1>1, <1>8
  <2>. QED
    BY ONLY <2>1, <2>2, <2>3, TypedSame
<1>. QED
  BY <1>2, <1>8, <1>9, Zenon DEF Step, n, V

\* A text that ends in a character that is not blank still does so behind another one.
LEMMA EndsFilledBehind ==
    ASSUME NEW a \in Text, NEW b \in Text, EndsFilled(b)
    PROVE  a \o b \in Text /\ EndsFilled(a \o b)
<1>1. a \in Seq(Characters) /\ b \in Seq(Characters) /\ Len(b) > 0
  BY DEF Text, EndsFilled
<1>2. Len(a \o b) = Len(a) + Len(b) /\ (a \o b)[Len(a) + Len(b)] = b[Len(b)]
  BY <1>1
<1>. QED
  BY <1>1, <1>2 DEF Text, EndsFilled, Last

\* All texts of s are of at most `size` characters.
AllFit(s, size) == \A i \in 1..Len(s) : Len(s[i]) <= size

\* What is packed up fits if the pieces do, and ends in a character that is not blank if the
\* last piece does.
LEMMA PackFacts ==
    ASSUME NEW sep \in Text, NEW pieces \in Seq(Text), NEW size \in Nat
    PROVE  /\ PackAll(pieces, sep, size) \in Seq(Text)
           /\ AllFit(pieces, size) => AllFit(PackAll(pieces, sep, size), size)
           /\ Len(pieces) > 0 /\ EndsFilled(Last(pieces)) =>
                 /\ Len(PackAll(pieces, sep, size)) > 0
                 /\ EndsFilled(Last(PackAll(pieces, sep, size)))
<1> DEFINE n == Len(pieces)
<1>1. PICK g : /\ \A k \in 0..n : g[k] \in Packed
               /\ g[0] = [out |-> <<>>, buf |-> <<>>]
               /\ \A k \in 1..n : g[k] = Pack(g[k - 1], pieces[k], sep, size)
               /\ PackAll(pieces, sep, size) = IF g[n].buf = <<>> THEN g[n].out ELSE Append(g[n].out, g[n].buf)
  BY PackSteps
<1> DEFINE packed == g[n]
<1>2. n \in Nat /\ n \in 0..n /\ \A k \in 1..n : pieces[k] \in Text /\ k - 1 \in 0..n
  OBVIOUS
<1>3. PackAll(pieces, sep, size) = IF packed.buf = <<>> THEN packed.out ELSE Append(packed.out, packed.buf)
  BY <1>1
<1>4. packed \in Packed
  BY <1>1, <1>2
<1>5. AllFit(pieces, size) <=> \A k \in 1..n : Len(pieces[k]) <= size
  BY DEF AllFit
<1>6. Len(pieces) = n /\ Last(pieces) = pieces[n]
  BY DEF Last
<1> HIDE DEF packed, n
<1>7. PackAll(pieces, sep, size) \in Seq(Text)
  BY <1>3, <1>4 DEF Packed
<1>8. ASSUME AllFit(pieces, size)
      PROVE  AllFit(PackAll(pieces, sep, size), size)
  <2> DEFINE Fits(v) == AllFit(v.out, size) /\ Len(v.buf) <= size
             T == {k \in Nat : k <= n => Fits(g[k])}
  <2>1. 0 \in T
    BY <1>1 DEF AllFit
  <2>2. ASSUME NEW v \in Packed, NEW p \in Text, Fits(v), Len(p) <= size
        PROVE  Fits(Pack(v, p, sep, size))
    <3>1. v.out \in Seq(Text) /\ v.buf \in Text /\ AllFit(v.out, size)
      BY <2>2 DEF Packed
    <3>2. AllFit(Append(v.out, v.buf), size)
      BY <2>2, <3>1 DEF AllFit
    <3>. QED
      BY <2>2, <3>1, <3>2 DEF Pack, Packed
  <2>3. ASSUME NEW k \in T
        PROVE  k + 1 \in T
    <3> HIDE DEF Fits
    <3>1. SUFFICES ASSUME k + 1 <= n
                   PROVE  Fits(g[k + 1])
      OBVIOUS
    <3>2. k + 1 \in 1..n /\ (k + 1) - 1 = k /\ k \in 0..n /\ Fits(g[k])
      BY <1>2, <3>1
    <3>3. g[k + 1] = Pack(g[k], pieces[k + 1], sep, size) /\ g[k] \in Packed
      BY <1>1, <3>2
    <3>. QED
      BY <1>2, <1>5, <1>8, <2>2, <3>2, <3>3
  <2>4. T = Nat
    <3>1. T \in SUBSET Nat
      OBVIOUS
    <3> HIDE DEF T
    <3>. QED
      BY ONLY <2>1, <2>3, <3>1, InductiveSet
  <2>5. Fits(packed)
    <3> HIDE DEF Fits
    <3>. QED
      BY <1>1, <1>2, <2>4 DEF packed
  <2>6. packed.out \in Seq(Text) /\ packed.buf \in Text
    BY <1>4 DEF Packed
  <2>. QED
    BY <1>3, <2>5, <2>6 DEF AllFit
<1>9. ASSUME n > 0, EndsFilled(pieces[n])
      PROVE  /\ Len(PackAll(pieces, sep, size)) > 0
             /\ EndsFilled(Last(PackAll(pieces, sep, size)))
  <2> DEFINE v == g[n - 1]
             p == pieces[n]
  <2>1. n \in 1..n
    BY <1>2, <1>9
  <2>2. v \in Packed /\ p \in Text /\ EndsFilled(p) /\ packed = Pack(v, p, sep, size)
    BY <1>1, <1>2, <1>9, <2>1 DEF packed
  <2> HIDE DEF v, p
  <2>3. v.out \in Seq(Text) /\ v.buf \in Text
    BY <2>2 DEF Packed
  <2>4. v.buf \o sep \in Text
    BY <2>3 DEF Text
  <2>5. v.buf \o sep \o p \in Text /\ EndsFilled(v.buf \o sep \o p)
    BY ONLY <2>2, <2>4, EndsFilledBehind
  <2>6. EndsFilled(packed.buf)
    BY <2>2, <2>3, <2>5 DEF Pack, Packed
  <2>7. packed.buf # <<>> /\ packed.out \in Seq(Text) /\ packed.buf \in Text
    BY <1>4, <2>6 DEF EndsFilled, Packed
  <2>. QED
    BY <1>3, <2>6, <2>7 DEF Last
<1>. QED
  BY <1>6, <1>7, <1>8, <1>9

-----------------------------------------------------------------------------
(* Splitting a text at a separator, and into characters, sentences, lines, paragraphs. *)

\* t.find(part, from)
LEMMA FindFacts ==
    ASSUME NEW t \in Text, NEW part \in Text, NEW from \in Nat
    PROVE  /\ Find(t, part, from) \in Int
           /\ Find(t, part, from) < 0 => Find(t, part, from) = -1
           /\ Find(t, part, from) >= 0 =>
                 /\ from <= Find(t, part, from) /\ Find(t, part, from) + Len(part) <= Len(t)
                 /\ Slice(t, Find(t, part, from), Find(t, part, from) + Len(part)) = part
<1> DEFINE places == {i \in from..(Len(t) - Len(part)) : Slice(t, i, i + Len(part)) = part}
<1>1. Find(t, part, from) = IF places = {} THEN -1 ELSE Min(places)
  BY Zenon DEF Find
<1>2. Len(t) \in Nat /\ Len(part) \in Nat
  BY DEF Text
<1>3. places \in SUBSET Nat
  BY <1>2
<1>4. \A i \in places : from <= i /\ i + Len(part) <= Len(t) /\ Slice(t, i, i + Len(part)) = part
  BY <1>2
<1> HIDE DEF places
<1>5. places # {} => Min(places) \in places
  BY <1>3, LeastNumber DEF Min
<1>6. CASE places = {}
  BY <1>1, <1>6
<1>7. CASE places # {}
  <2>1. Find(t, part, from) \in places
    BY <1>1, <1>5, <1>7
  <2>2. Find(t, part, from) \in Nat
    BY <1>3, <2>1
  <2>. QED
    BY <1>4, <2>1, <2>2
<1>. QED
  BY <1>6, <1>7

\* The recursion of Split.
LEMMA SplitSteps ==
    ASSUME NEW t \in Text, NEW sep \in Text, Len(sep) > 0
    PROVE  \E f \in [0..Len(t) -> Seq(Text)] :
              /\ \A from \in 0..Len(t) :
                    f[from] = IF Find(t, sep, from) < 0 THEN <<Slice(t, from, Len(t))>>
                              ELSE <<Slice(t, from, Find(t, sep, from))>> \o f[Find(t, sep, from) + Len(sep)]
              /\ Split(t, sep) = f[0]
<1> DEFINE S == 0..Len(t)
           V == Seq(Text)
           at(from) == Find(t, sep, from)
           Body(from, f) == IF at(from) < 0 THEN <<Slice(t, from, Len(t))>>
                            ELSE <<Slice(t, from, at(from))>> \o f[at(from) + Len(sep)]
           F == [from \in S |-> [f \in [S -> V] |-> Body(from, f)]]
           rank == [from \in S |-> Len(t) - from]
           E(c) == c = [from \in S |-> Body(from, c)]
           c == CHOOSE x : E(x)
<1>1. Split(t, sep) = c[0]
  BY Zenon DEF Split
<1>2. Len(t) \in Nat /\ Len(sep) \in Nat /\ Text # {} /\ <<>> \in V
  BY DEF Text
<1>3. ASSUME NEW from \in S
      PROVE  /\ at(from) \in Int
             /\ at(from) >= 0 => /\ at(from) + Len(sep) \in S /\ at(from) + Len(sep) > from
                                 /\ Slice(t, from, at(from)) \in Text
             /\ Slice(t, from, Len(t)) \in Text
  <2>1. from \in Nat /\ from <= Len(t)
    BY <1>2
  <2>2. /\ at(from) \in Int
        /\ at(from) >= 0 => from <= at(from) /\ at(from) + Len(sep) <= Len(t)
    BY <2>1, FindFacts
  <2> HIDE DEF at
  <2>3. Slice(t, from, Len(t)) \in Text
    BY <1>2, <2>1, SliceFacts
  <2>4. at(from) >= 0 => Slice(t, from, at(from)) \in Text
    <3> SUFFICES ASSUME at(from) >= 0
                 PROVE  Slice(t, from, at(from)) \in Text
      OBVIOUS
    <3>1. 0 <= from /\ from <= at(from) /\ at(from) <= Len(t) /\ at(from) \in Int /\ from \in Int
      BY <1>2, <2>1, <2>2
    <3> DEFINE e == at(from)
    <3>2. e \in Int /\ 0 <= from /\ from <= e /\ e <= Len(t) /\ from \in Int
      BY <3>1
    <3> HIDE DEF e
    <3>3. Slice(t, from, e) \in Text
      BY ONLY t \in Text, <3>2, SliceFacts
    <3>. QED
      BY <3>3 DEF e
  <2>. QED
    BY <1>2, <2>1, <2>2, <2>3, <2>4
<1> HIDE DEF at
<1>4. \A from \in S : \A f \in [S -> V] : Body(from, f) \in V
  BY <1>3
<1> HIDE DEF V
<1>5. \A from \in S : \A f \in [S -> V] : F[from][f] = Body(from, f)
  OBVIOUS
<1>6. F \in [S -> [[S -> V] -> V]]
  BY <1>4
<1>7. rank \in [S -> Nat] /\ \A x, y \in S : x > y => rank[x] < rank[y]
  BY <1>2
<1>8. \A from \in S : from \in Int /\ from >= 0
  BY <1>2
<1> HIDE DEF F, rank, S
<1>9. Descends(F, S, rank, V)
  <2>1. ASSUME NEW x \in S, NEW f \in [S -> V], NEW g \in [S -> V],
               \A y \in S : rank[y] < rank[x] => f[y] = g[y]
        PROVE  F[x][f] = F[x][g]
    <3>1. at(x) >= 0 => f[at(x) + Len(sep)] = g[at(x) + Len(sep)]
      BY <1>3, <1>7, <1>8, <2>1
    <3>2. ~(at(x) < 0) => at(x) >= 0
      BY <1>3
    <3>3. Body(x, f) = Body(x, g)
      BY <3>1, <3>2
    <3>. QED
      BY <1>5, <3>3
  <2>. QED
    BY <1>6, <1>7, <2>1 DEF Descends
<1>10. PICK f \in [S -> V] : \A x \in S : f[x] = F[x][f]
  BY ONLY <1>2, <1>9, RankedRecursion
<1>11. E(f)
  BY <1>5, <1>10
<1>12. E(c)
  BY <1>11, Zenon
<1> HIDE DEF c
<1>13. \A from \in S : c[from] = Body(from, c)
  BY <1>12
<1>14. c \in [S -> V]
  <2> DEFINE T == {x \in S : c[x] \in V}
  <2>1. T \in SUBSET S /\ \A x \in S : x \in T <=> c[x] \in V
    OBVIOUS
  <2> HIDE DEF T
  <2>2. ASSUME NEW x \in S, \A y \in S : rank[y] < rank[x] => y \in T
        PROVE  x \in T
    <3>1. CASE at(x) < 0
      <4>1. c[x] = <<Slice(t, x, Len(t))>>
        BY <1>13, <3>1
      <4>2. <<Slice(t, x, Len(t))>> \in V
        BY <1>3 DEF V
      <4>. QED
        BY <2>1, <4>1, <4>2
    <3>2. CASE ~(at(x) < 0)
      <4> DEFINE z == at(x) + Len(sep)
      <4>1. c[x] = <<Slice(t, x, at(x))>> \o c[z]
        BY <1>13, <3>2
      <4>2. z \in S /\ rank[z] < rank[x] /\ Slice(t, x, at(x)) \in Text
        BY <1>3, <1>7, <1>8, <3>2
      <4> HIDE DEF z
      <4>3. c[z] \in V
        BY <2>1, <2>2, <4>2
      <4>4. <<Slice(t, x, at(x))>> \o c[z] \in V
        BY <4>2, <4>3 DEF V
      <4>. QED
        BY <2>1, <4>1, <4>4
    <3>. QED
      BY <3>1, <3>2
  <2>3. T = S
    <3>1. Inherits(S, rank, T)
      BY <2>2, Zenon DEF Inherits
    <3>2. rank \in [S -> Nat] /\ T \in SUBSET S
      BY <1>7, <2>1
    <3>. QED
      BY ONLY <3>1, <3>2, RankedInduction
  <2>4. \A x \in S : c[x] \in V
    BY <2>1, <2>3
  <2>. QED
    BY <1>12, <2>4
<1>. QED
  BY <1>1, <1>13, <1>14 DEF V, S, at

\* x occurs in one of the texts.
OccursIn(x, parts) == \E k \in 1..Len(parts) : Occurs(x, parts[k])

\* One text in front of others.
LEMMA InFront ==
    ASSUME NEW a \in Text, NEW s \in Seq(Text)
    PROVE  /\ <<a>> \o s \in Seq(Text) /\ Len(<<a>> \o s) = Len(s) + 1
           /\ (<<a>> \o s)[1] = a
           /\ \A x : OccursIn(x, <<a>> \o s) <=> Occurs(x, a) \/ OccursIn(x, s)
           /\ Len(s) > 0 => Last(<<a>> \o s) = Last(s)
<1> DEFINE b == <<a>> \o s
<1>1. /\ b \in Seq(Text) /\ Len(b) = Len(s) + 1 /\ b[1] = a /\ Len(s) \in Nat
      /\ \A k \in 1..Len(s) : b[k + 1] = s[k]
  OBVIOUS
<1> HIDE DEF b
<1>2. \A k \in 1..Len(b) : k = 1 \/ (k - 1 \in 1..Len(s) /\ b[k] = s[k - 1])
  BY <1>1
<1>3. \A k \in 1..Len(s) : k + 1 \in 1..Len(b)
  BY <1>1
<1>4. 1 \in 1..Len(b)
  BY <1>1
<1>5. ASSUME NEW x
      PROVE  OccursIn(x, b) <=> Occurs(x, a) \/ OccursIn(x, s)
  BY <1>1, <1>2, <1>3, <1>4, Zenon DEF OccursIn
<1>6. Len(s) > 0 => Last(b) = Last(s)
  BY <1>1 DEF Last
<1>. QED
  BY <1>1, <1>5, <1>6 DEF b

\* str.split() drops no character but those of the separator, and if the text ends in a
\* character that is not blank, and the separator in a blank, so does the last part.
LEMMA SplitFacts ==
    ASSUME NEW t \in Text, NEW sep \in Text, Len(sep) > 0
    PROVE  /\ Split(t, sep) \in Seq(Text) /\ Len(Split(t, sep)) > 0
           /\ \A x : ~Occurs(x, sep) => (OccursIn(x, Split(t, sep)) <=> Occurs(x, t))
           /\ EndsFilled(t) /\ Last(sep) \in Blanks => EndsFilled(Last(Split(t, sep)))
<1> DEFINE n == Len(t)
           S == 0..n
           at(from) == Find(t, sep, from)
           rank == [from \in S |-> n - from]
<1>0. n \in Nat /\ Len(sep) \in Nat /\ 0 \in S
  BY DEF Text
<1>1. PICK f \in [S -> Seq(Text)] :
         /\ \A from \in S :
               f[from] = IF at(from) < 0 THEN <<Slice(t, from, n)>>
                         ELSE <<Slice(t, from, at(from))>> \o f[at(from) + Len(sep)]
         /\ Split(t, sep) = f[0]
  BY SplitSteps
<1>2. \A from \in S : from \in Nat /\ from <= n
  BY <1>0
<1>f. \A from \in S :
         at(from) \in Int /\ (~(at(from) < 0) => /\ from <= at(from) /\ at(from) + Len(sep) <= n
                                                 /\ Slice(t, at(from), at(from) + Len(sep)) = sep)
  <2> TAKE from \in S
  <2>1. from \in Nat
    BY <1>2
  <2>2. /\ Find(t, sep, from) \in Int
        /\ Find(t, sep, from) >= 0 =>
              /\ from <= Find(t, sep, from) /\ Find(t, sep, from) + Len(sep) <= Len(t)
              /\ Slice(t, Find(t, sep, from), Find(t, sep, from) + Len(sep)) = sep
    BY ONLY <2>1, t \in Text, sep \in Text, FindFacts
  <2>3. at(from) \in Int /\ (~(at(from) < 0) => at(from) >= 0)
    BY <2>2
  <2>. QED
    BY <2>2, <2>3
<1>3. rank \in [S -> Nat] /\ \A x, y \in S : x > y => rank[x] < rank[y]
  BY <1>0
<1> HIDE DEF rank
<1> DEFINE Rest(from, x) == \E i \in (from + 1)..n : t[i] = x
           Good(from) == /\ Len(f[from]) > 0
                         /\ \A x : ~Occurs(x, sep) => (OccursIn(x, f[from]) <=> Rest(from, x))
                         /\ EndsFilled(t) /\ Last(sep) \in Blanks /\ from < n => EndsFilled(Last(f[from]))
           T == {from \in S : Good(from)}
<1>4. ASSUME NEW from \in S, at(from) < 0
      PROVE  Good(from)
  <2> DEFINE a == Slice(t, from, n)
  <2>1. f[from] = <<a>>
    BY <1>1, <1>4
  <2>2. from \in Nat /\ from <= n /\ n \in Int /\ from \in Int /\ 0 <= from
    BY <1>0, <1>2
  <2>3. /\ a \in Text /\ Len(a) = n - from
        /\ \A i \in 1..(n - from) : a[i] = t[from + i]
    BY ONLY <2>2, t \in Text, n = Len(t), SliceFacts
  <2>4. \A x : Occurs(x, a) <=> Rest(from, x)
    BY ONLY <2>2, t \in Text, n = Len(t), SliceOccurs
  <2> HIDE DEF a
  <2>5. ASSUME NEW x
        PROVE  OccursIn(x, <<a>>) <=> Occurs(x, a)
    BY DEF OccursIn
  <2>6. Last(<<a>>) = a /\ Len(<<a>>) > 0
    BY DEF Last
  <2>7. EndsFilled(t) /\ from < n => EndsFilled(a)
    <3> SUFFICES ASSUME EndsFilled(t), from < n
                 PROVE  EndsFilled(a)
      OBVIOUS
    <3>1. n - from \in 1..(n - from) /\ from + (n - from) = n
      BY <1>0, <2>2
    <3>2. a[Len(a)] = t[n]
      BY <2>3, <3>1
    <3>. QED
      BY <2>2, <2>3, <3>2 DEF EndsFilled, Last
  <2>. QED
    BY <2>1, <2>4, <2>5, <2>6, <2>7
<1>5. ASSUME NEW from \in S, ~(at(from) < 0), Good(at(from) + Len(sep))
      PROVE  Good(from)
  <2> DEFINE e == at(from)
             z == e + Len(sep)
             a == Slice(t, from, e)
  <2>1. f[from] = <<a>> \o f[z]
    BY <1>1, <1>5
  <2>2. /\ e \in Int /\ from <= e /\ z <= n /\ Slice(t, e, z) = sep /\ z \in S
        /\ from \in Int /\ 0 <= from /\ 0 <= e /\ e <= n /\ z \in Int /\ e <= z
    BY <1>0, <1>2, <1>5, <1>f
  <2>3. Good(z)
    BY <1>5
  <2> HIDE DEF e, Good
  <2>4. z = e + Len(sep)
    OBVIOUS
  <2> HIDE DEF z
  <2>5. a \in Text /\ \A x : Occurs(x, a) <=> \E i \in (from + 1)..e : t[i] = x
    <3>1. a \in Text
      BY ONLY <2>2, t \in Text, SliceFacts DEF n
    <3>2. \A x : Occurs(x, a) <=> \E i \in (from + 1)..e : t[i] = x
      BY ONLY <2>2, t \in Text, SliceOccurs DEF n
    <3>. QED
      BY <3>1, <3>2
  <2>6. f[z] \in Seq(Text)
    BY <1>1, <2>2
  <2> HIDE DEF a
  <2>7. /\ \A x : OccursIn(x, <<a>> \o f[z]) <=> Occurs(x, a) \/ OccursIn(x, f[z])
        /\ Len(<<a>> \o f[z]) = Len(f[z]) + 1
        /\ Len(f[z]) > 0 => Last(<<a>> \o f[z]) = Last(f[z])
    BY <2>5, <2>6, InFront
  <2>8. \A x : Occurs(x, sep) <=> \E i \in (e + 1)..z : t[i] = x
    BY ONLY <2>2, t \in Text, SliceOccurs DEF n
  <2>9. /\ Len(f[z]) > 0
        /\ \A x : ~Occurs(x, sep) => (OccursIn(x, f[z]) <=> Rest(z, x))
        /\ EndsFilled(t) /\ Last(sep) \in Blanks /\ z < n => EndsFilled(Last(f[z]))
    BY <2>3 DEF Good
  <2>10. \A i : i \in (from + 1)..n <=> i \in (from + 1)..e \/ i \in (e + 1)..z \/ i \in (z + 1)..n
    BY <1>0, <2>2
  <2>11. ASSUME NEW x, ~Occurs(x, sep)
         PROVE  OccursIn(x, f[from]) <=> Rest(from, x)
    <3>1. Rest(from, x) <=> Occurs(x, a) \/ Occurs(x, sep) \/ Rest(z, x)
      BY <2>5, <2>8, <2>10, Zenon
    <3>. QED
      BY <2>1, <2>7, <2>9, <2>11, <3>1, Zenon
  <2>12. ASSUME EndsFilled(t), Last(sep) \in Blanks
         PROVE  z < n
    <3>1. SUFFICES ASSUME z = n
                   PROVE  FALSE
      BY <1>0, <2>2
    <3>2. /\ Len(Slice(t, e, z)) = z - e
          /\ \A i \in 1..(z - e) : Slice(t, e, z)[i] = t[e + i]
      BY ONLY <2>2, t \in Text, SliceFacts DEF n
    <3>3. z - e \in 1..(z - e) /\ e + (z - e) = z /\ Len(sep) = z - e
      BY <1>0, <2>2, <2>4
    <3>4. sep[Len(sep)] = t[n]
      BY <2>2, <3>1, <3>2, <3>3
    <3>. QED
      BY <2>12, <3>4 DEF EndsFilled, Last
  <2>13. Len(f[from]) > 0
    BY <2>1, <2>6, <2>7
  <2>14. EndsFilled(t) /\ Last(sep) \in Blanks => EndsFilled(Last(f[from]))
    BY <2>1, <2>7, <2>9, <2>12
  <2>. QED
    BY <2>11, <2>13, <2>14 DEF Good
<1> HIDE DEF Good
<1>6. T = S
  <2>1. T \in SUBSET S /\ \A x \in S : x \in T <=> Good(x)
    OBVIOUS
  <2>2. ASSUME NEW x \in S, \A y \in S : rank[y] < rank[x] => y \in T
        PROVE  x \in T
    <3>1. CASE at(x) < 0
      BY <1>4, <2>1, <3>1
    <3>2. CASE ~(at(x) < 0)
      <4> DEFINE z == at(x) + Len(sep)
      <4>1. z \in S /\ z > x
        BY <1>0, <1>2, <1>f, <3>2
      <4>2. rank[z] < rank[x]
        BY <1>3, <4>1
      <4>3. Good(z)
        BY <2>1, <2>2, <4>1, <4>2
      <4>. QED
        BY <1>5, <2>1, <3>2, <4>3
    <3>. QED
      BY <3>1, <3>2
  <2> HIDE DEF T, S
  <2>3. Inherits(S, rank, T)
    BY <2>2, Zenon DEF Inherits
  <2>4. rank \in [S -> Nat] /\ T \in SUBSET S
    BY <1>3, <2>1
  <2>. QED
    BY ONLY <2>3, <2>4, RankedInduction
<1>7. Good(0)
  BY <1>0, <1>6
<1>8. \A x : Rest(0, x) <=> Occurs(x, t)
  BY DEF Occurs
<1>9. /\ Len(f[0]) > 0
      /\ \A x : ~Occurs(x, sep) => (OccursIn(x, f[0]) <=> Rest(0, x))
      /\ EndsFilled(t) /\ Last(sep) \in Blanks /\ 0 < n => EndsFilled(Last(f[0]))
  BY <1>7 DEF Good
<1>10. EndsFilled(t) => 0 < n
  BY DEF EndsFilled
<1>. QED
  BY <1>0, <1>1, <1>8, <1>9, <1>10

\* r is what t is split into: texts that fit, of which the last ends as t does.
Splits(r, t, size) ==
    /\ r \in Seq(Text) /\ AllFit(r, size)
    /\ EndsFilled(t) => Len(r) > 0 /\ EndsFilled(Last(r))

\* A text that fits is split into itself.
LEMMA SplitsItself ==
    ASSUME NEW t \in Text, NEW size \in Nat, Len(t) <= size
    PROVE  Splits(<<t>>, t, size)
  BY DEF Splits, AllFit, Last

\* The parts of a text, each split, are packed up.
LEMMA PackParts ==
    ASSUME NEW sep \in Text, NEW size \in Nat, NEW t, NEW parts \in Seq(Text),
           EndsFilled(t) => Len(parts) > 0 /\ EndsFilled(Last(parts)),
           NEW s \in Seq(Seq(Text)), Len(s) = Len(parts),
           \A i \in 1..Len(parts) : Splits(s[i], parts[i], size)
    PROVE  Splits(PackAll(FlattenSeq(s), sep, size), t, size)
<1> DEFINE pieces == FlattenSeq(s)
           n == Len(parts)
<1>1. /\ pieces \in Seq(Text)
      /\ \A x : Occurs(x, pieces) <=> \E k \in 1..Len(s) : Occurs(x, s[k])
      /\ Len(s) > 0 /\ Len(s[Len(s)]) > 0 => Len(pieces) > 0 /\ Last(pieces) = Last(s[Len(s)])
  BY FlattenElements
<1>2. n \in Nat /\ Len(s) = n /\ \A k \in 1..n : s[k] \in Seq(Text) /\ Splits(s[k], parts[k], size)
  OBVIOUS
<1>3. EndsFilled(t) => n > 0 /\ EndsFilled(parts[n])
  BY DEF Last
<1> HIDE DEF pieces, n
<1>4. AllFit(pieces, size)
  <2> SUFFICES ASSUME NEW i \in 1..Len(pieces)
               PROVE  Len(pieces[i]) <= size
    BY DEF AllFit
  <2>1. Occurs(pieces[i], pieces)
    BY DEF Occurs
  <2>2. PICK k \in 1..n : Occurs(pieces[i], s[k])
    BY <1>1, <1>2, <2>1
  <2>3. AllFit(s[k], size)
    BY <1>2 DEF Splits
  <2>. QED
    BY <2>2, <2>3 DEF Occurs, AllFit
<1>5. ASSUME EndsFilled(t)
      PROVE  Len(pieces) > 0 /\ EndsFilled(Last(pieces))
  <2>1. n \in 1..n /\ EndsFilled(parts[n])
    BY <1>2, <1>3, <1>5
  <2>2. Len(s[n]) > 0 /\ EndsFilled(Last(s[n]))
    BY <1>2, <2>1 DEF Splits
  <2>. QED
    BY <1>1, <1>2, <2>1, <2>2
<1>6. /\ PackAll(pieces, sep, size) \in Seq(Text)
      /\ AllFit(pieces, size) => AllFit(PackAll(pieces, sep, size), size)
      /\ Len(pieces) > 0 /\ EndsFilled(Last(pieces)) =>
            /\ Len(PackAll(pieces, sep, size)) > 0
            /\ EndsFilled(Last(PackAll(pieces, sep, size)))
  BY <1>1, PackFacts
<1>. QED
  BY <1>4, <1>5, <1>6 DEF Splits, pieces

\* A text is taken apart into its characters.
LEMMA SplitWordsFacts ==
    ASSUME ChunkerAssumption, NEW t \in Text, NEW size \in Nat, size >= 1
    PROVE  Splits(SplitWords(t, size), t, size)
<1> DEFINE parts == [i \in DOMAIN t |-> <<t[i]>>]
           s == [i \in DOMAIN parts |-> IF Len(parts[i]) > size THEN <<parts[i]>> ELSE <<parts[i]>>]
<1>1. SplitWords(t, size) = IF Len(t) <= size THEN <<t>> ELSE PackAll(FlattenSeq(s), <<Space>>, size)
  BY Zenon DEF SplitWords, SplitInto
<1>2. Len(t) \in Nat /\ DOMAIN t = 1..Len(t) /\ \A i \in 1..Len(t) : t[i] \in Characters
  BY DEF Text
<1>3. /\ parts \in Seq(Text) /\ Len(parts) = Len(t) /\ DOMAIN parts = 1..Len(parts)
      /\ \A i \in 1..Len(parts) : parts[i] = <<t[i]>> /\ Len(parts[i]) = 1
  <2>1. \A i \in 1..Len(t) : <<t[i]>> \in Text /\ Len(<<t[i]>>) = 1
    BY <1>2 DEF Text
  <2>2. parts = [i \in 1..Len(t) |-> <<t[i]>>]
    BY <1>2
  <2> HIDE DEF parts
  <2>. QED
    BY <1>2, <2>1, <2>2
<1>4. s \in Seq(Seq(Text)) /\ Len(s) = Len(parts) /\ \A i \in 1..Len(parts) : s[i] = <<parts[i]>>
  <2>1. \A i \in 1..Len(parts) : <<parts[i]>> \in Seq(Text)
    BY <1>3
  <2>2. s = [i \in 1..Len(parts) |-> <<parts[i]>>]
    BY <1>3
  <2> HIDE DEF s, parts
  <2>. QED
    BY <1>3, <2>1, <2>2
<1>5. EndsFilled(t) => Len(parts) > 0 /\ EndsFilled(Last(parts))
  BY <1>2, <1>3 DEF EndsFilled, Last
<1>6. \A i \in 1..Len(parts) : Splits(s[i], parts[i], size)
  <2> SUFFICES ASSUME NEW i \in 1..Len(parts)
               PROVE  Splits(<<parts[i]>>, parts[i], size)
    BY <1>4
  <2>1. parts[i] \in Text /\ Len(parts[i]) <= size
    BY <1>3
  <2> HIDE DEF parts
  <2>. QED
    BY <2>1, SplitsItself
<1>7. <<Space>> \in Text
  BY TextConstants
<1> HIDE DEF parts, s
<1>8. Splits(PackAll(FlattenSeq(s), <<Space>>, size), t, size)
  <2> DEFINE sep == <<Space>>
  <2>1. sep \in Text
    BY <1>7
  <2> HIDE DEF sep
  <2>2. Splits(PackAll(FlattenSeq(s), sep, size), t, size)
    BY <1>3, <1>4, <1>5, <1>6, <2>1, PackParts
  <2>. QED
    BY <2>2 DEF sep
<1>9. Len(t) <= size => Splits(<<t>>, t, size)
  BY SplitsItself
<1>. QED
  BY <1>1, <1>8, <1>9

\* A text is taken apart into sentences.
LEMMA SplitStopsFacts ==
    ASSUME ChunkerAssumption, NEW t \in Text, NEW size \in Nat, size >= 1
    PROVE  Splits(SplitStops(t, size), t, size)
<1> DEFINE sep == <<".", Space>>
           parts == Split(t, sep)
           s == [i \in DOMAIN parts |-> IF Len(parts[i]) > size THEN SplitWords(parts[i], size)
                                        ELSE <<parts[i]>>]
<1>1. SplitStops(t, size) = IF Len(t) <= size THEN <<t>> ELSE PackAll(FlattenSeq(s), sep, size)
  BY Zenon DEF SplitStops, SplitInto
<1>2. sep \in Text /\ Len(sep) > 0 /\ Last(sep) \in Blanks
  BY TextConstants DEF Last
<1> HIDE DEF sep
<1>3. /\ parts \in Seq(Text) /\ Len(parts) > 0
      /\ EndsFilled(t) => EndsFilled(Last(parts))
  BY <1>2, SplitFacts
<1> HIDE DEF parts
<1>4. Len(parts) \in Nat /\ DOMAIN parts = 1..Len(parts) /\ \A i \in 1..Len(parts) : parts[i] \in Text
  BY <1>3
<1>5. \A i \in 1..Len(parts) : Splits(s[i], parts[i], size)
  <2> SUFFICES ASSUME NEW i \in 1..Len(parts)
               PROVE  Splits(s[i], parts[i], size)
    OBVIOUS
  <2> DEFINE p == parts[i]
  <2>1. p \in Text /\ s[i] = IF Len(p) > size THEN SplitWords(p, size) ELSE <<p>>
    BY <1>4
  <2> HIDE DEF p
  <2>2. Len(p) > size => Splits(SplitWords(p, size), p, size)
    BY <2>1, SplitWordsFacts
  <2>3. ~(Len(p) > size) => Splits(<<p>>, p, size)
    <3>1. ~(Len(p) > size) => Len(p) <= size
      BY <2>1 DEF Text
    <3>. QED
      BY <2>1, <3>1, SplitsItself
  <2>. QED
    BY <2>1, <2>2, <2>3 DEF p
<1>6. s \in Seq(Seq(Text)) /\ Len(s) = Len(parts)
  <2>1. s = [i \in 1..Len(parts) |-> s[i]]
    BY <1>4
  <2>2. \A i \in 1..Len(parts) : s[i] \in Seq(Text)
    BY <1>5 DEF Splits
  <2> HIDE DEF s
  <2>. QED
    BY <1>4, <2>1, <2>2
<1> HIDE DEF s
<1>7. Splits(PackAll(FlattenSeq(s), sep, size), t, size)
  BY <1>2, <1>3, <1>5, <1>6, PackParts
<1>8. Len(t) <= size => Splits(<<t>>, t, size)
  BY SplitsItself
<1>. QED
  BY <1>1, <1>7, <1>8

\* A text is taken apart into lines.
LEMMA SplitLinesFacts ==
    ASSUME ChunkerAssumption, NEW t \in Text, NEW size \in Nat, size >= 1
    PROVE  Splits(SplitLines(t, size), t, size)
<1> DEFINE sep == <<NewLine>>
           parts == Split(t, sep)
           s == [i \in DOMAIN parts |-> IF Len(parts[i]) > size THEN SplitStops(parts[i], size)
                                        ELSE <<parts[i]>>]
<1>1. SplitLines(t, size) = IF Len(t) <= size THEN <<t>> ELSE PackAll(FlattenSeq(s), sep, size)
  BY Zenon DEF SplitLines, SplitInto
<1>2. sep \in Text /\ Len(sep) > 0 /\ Last(sep) \in Blanks
  BY TextConstants DEF Last
<1> HIDE DEF sep
<1>3. /\ parts \in Seq(Text) /\ Len(parts) > 0
      /\ EndsFilled(t) => EndsFilled(Last(parts))
  BY <1>2, SplitFacts
<1> HIDE DEF parts
<1>4. Len(parts) \in Nat /\ DOMAIN parts = 1..Len(parts) /\ \A i \in 1..Len(parts) : parts[i] \in Text
  BY <1>3
<1>5. \A i \in 1..Len(parts) : Splits(s[i], parts[i], size)
  <2> SUFFICES ASSUME NEW i \in 1..Len(parts)
               PROVE  Splits(s[i], parts[i], size)
    OBVIOUS
  <2> DEFINE p == parts[i]
  <2>1. p \in Text /\ s[i] = IF Len(p) > size THEN SplitStops(p, size) ELSE <<p>>
    BY <1>4
  <2> HIDE DEF p
  <2>2. Len(p) > size => Splits(SplitStops(p, size), p, size)
    BY <2>1, SplitStopsFacts
  <2>3. ~(Len(p) > size) => Splits(<<p>>, p, size)
    <3>1. ~(Len(p) > size) => Len(p) <= size
      BY <2>1 DEF Text
    <3>. QED
      BY <2>1, <3>1, SplitsItself
  <2>. QED
    BY <2>1, <2>2, <2>3 DEF p
<1>6. s \in Seq(Seq(Text)) /\ Len(s) = Len(parts)
  <2>1. s = [i \in 1..Len(parts) |-> s[i]]
    BY <1>4
  <2>2. \A i \in 1..Len(parts) : s[i] \in Seq(Text)
    BY <1>5 DEF Splits
  <2> HIDE DEF s
  <2>. QED
    BY <1>4, <2>1, <2>2
<1> HIDE DEF s
<1>7. Splits(PackAll(FlattenSeq(s), sep, size), t, size)
  BY <1>2, <1>3, <1>5, <1>6, PackParts
<1>8. Len(t) <= size => Splits(<<t>>, t, size)
  BY SplitsItself
<1>. QED
  BY <1>1, <1>7, <1>8

\* A text is taken apart into paragraphs.
LEMMA RecursiveSplitFacts ==
    ASSUME ChunkerAssumption, NEW t \in Text, NEW size \in Nat, size >= 1
    PROVE  Splits(RecursiveSplit(t, size), t, size)
<1> DEFINE sep == <<NewLine, NewLine>>
           parts == Split(t, sep)
           s == [i \in DOMAIN parts |-> IF Len(parts[i]) > size THEN SplitLines(parts[i], size)
                                        ELSE <<parts[i]>>]
<1>1. RecursiveSplit(t, size) = IF Len(t) <= size THEN <<t>> ELSE PackAll(FlattenSeq(s), sep, size)
  BY Zenon DEF RecursiveSplit, SplitInto
<1>2. sep \in Text /\ Len(sep) > 0 /\ Last(sep) \in Blanks
  BY TextConstants DEF Last
<1> HIDE DEF sep
<1>3. /\ parts \in Seq(Text) /\ Len(parts) > 0
      /\ EndsFilled(t) => EndsFilled(Last(parts))
  BY <1>2, SplitFacts
<1> HIDE DEF parts
<1>4. Len(parts) \in Nat /\ DOMAIN parts = 1..Len(parts) /\ \A i \in 1..Len(parts) : parts[i] \in Text
  BY <1>3
<1>5. \A i \in 1..Len(parts) : Splits(s[i], parts[i], size)
  <2> SUFFICES ASSUME NEW i \in 1..Len(parts)
               PROVE  Splits(s[i], parts[i], size)
    OBVIOUS
  <2> DEFINE p == parts[i]
  <2>1. p \in Text /\ s[i] = IF Len(p) > size THEN SplitLines(p, size) ELSE <<p>>
    BY <1>4
  <2> HIDE DEF p
  <2>2. Len(p) > size => Splits(SplitLines(p, size), p, size)
    BY <2>1, SplitLinesFacts
  <2>3. ~(Len(p) > size) => Splits(<<p>>, p, size)
    <3>1. ~(Len(p) > size) => Len(p) <= size
      BY <2>1 DEF Text
    <3>. QED
      BY <2>1, <3>1, SplitsItself
  <2>. QED
    BY <2>1, <2>2, <2>3 DEF p
<1>6. s \in Seq(Seq(Text)) /\ Len(s) = Len(parts)
  <2>1. s = [i \in 1..Len(parts) |-> s[i]]
    BY <1>4
  <2>2. \A i \in 1..Len(parts) : s[i] \in Seq(Text)
    BY <1>5 DEF Splits
  <2> HIDE DEF s
  <2>. QED
    BY <1>4, <2>1, <2>2
<1> HIDE DEF s
<1>7. Splits(PackAll(FlattenSeq(s), sep, size), t, size)
  BY <1>2, <1>3, <1>5, <1>6, PackParts
<1>8. Len(t) <= size => Splits(<<t>>, t, size)
  BY SplitsItself
<1>. QED
  BY <1>1, <1>7, <1>8

-----------------------------------------------------------------------------
(* Chunks, and RecursiveChunker.                                           *)

\* What _build_chunk makes.
ChunkRec == [content : Text, sequence : Nat, start : Nat, end : Nat]

\* r are chunks of a text: numbered, not blank, inside it, and none ends before the last one.
InPlace(r, text) ==
    /\ r \in Seq(ChunkRec)
    /\ \A i \in 1..Len(r) :
          /\ r[i].sequence = i - 1 /\ ~IsBlank(r[i].content)
          /\ r[i].start <= r[i].end /\ r[i].end <= Len(text)
          /\ i > 1 => r[i - 1].end <= r[i].end

\* The fields of a chunk.
LEMMA ChunkFacts ==
    ASSUME NEW r \in Seq(ChunkRec), NEW t \in Text, NEW start \in Nat, NEW end \in Nat
    PROVE  /\ Chunk(r, t, start, end) \in ChunkRec
           /\ Chunk(r, t, start, end).content = t /\ Chunk(r, t, start, end).sequence = Len(r)
           /\ Chunk(r, t, start, end).start = start /\ Chunk(r, t, start, end).end = end
  BY DEF Chunk, ChunkRec

\* The greater of two numbers.
LEMMA MaxOfTwo ==
    ASSUME NEW a \in Int, NEW b \in Int
    PROVE  Max({a, b}) \in {a, b} /\ Max({a, b}) >= a /\ Max({a, b}) >= b
<1>1. \E x \in {a, b} : \A y \in {a, b} : x >= y
  <2>1. CASE a >= b
    BY <2>1
  <2>2. CASE b >= a
    BY <2>2
  <2>. QED
    BY <2>1, <2>2
<1>. QED
  BY <1>1 DEF Max

\* The smaller of two numbers.
LEMMA MinOfTwo ==
    ASSUME NEW a \in Int, NEW b \in Int
    PROVE  Min({a, b}) \in {a, b} /\ Min({a, b}) <= a /\ Min({a, b}) <= b
<1>1. \E x \in {a, b} : \A y \in {a, b} : x <= y
  <2>1. CASE a <= b
    BY <2>1
  <2>2. CASE b <= a
    BY <2>2
  <2>. QED
    BY <2>1, <2>2
<1>. QED
  BY <1>1 DEF Min

\* One chunk more.
LEMMA OneMore ==
    ASSUME NEW text \in Text, NEW r, InPlace(r, text), NEW t \in Text, ~IsBlank(t),
           NEW start \in Nat, NEW end \in Nat, start <= end, end <= Len(text),
           r # <<>> => Last(r).end <= end
    PROVE  InPlace(Append(r, Chunk(r, t, start, end)), text)
<1> DEFINE c == Chunk(r, t, start, end)
           s == Append(r, c)
<1>1. r \in Seq(ChunkRec)
  BY DEF InPlace
<1>2. /\ c \in ChunkRec /\ c.content = t /\ c.sequence = Len(r) /\ c.start = start /\ c.end = end
  BY <1>1, ChunkFacts
<1> HIDE DEF c
<1>3. /\ s \in Seq(ChunkRec) /\ Len(s) = Len(r) + 1 /\ s[Len(r) + 1] = c /\ Len(r) \in Nat
      /\ \A i \in 1..Len(r) : s[i] = r[i]
  BY <1>1, <1>2
<1> HIDE DEF s
<1>4. ASSUME NEW i \in 1..Len(s)
      PROVE  /\ s[i].sequence = i - 1 /\ ~IsBlank(s[i].content)
             /\ s[i].start <= s[i].end /\ s[i].end <= Len(text)
             /\ i > 1 => s[i - 1].end <= s[i].end
  <2>1. CASE i = Len(r) + 1
    <3>1. s[i] = c /\ i - 1 = Len(r)
      BY <1>3, <2>1
    <3>2. ASSUME i > 1
          PROVE  s[i - 1].end <= end
      <4>1. Len(r) \in 1..Len(r) /\ r # <<>>
        BY <1>1, <1>3, <2>1, <3>2
      <4>2. s[i - 1] = Last(r)
        BY <1>3, <3>1, <4>1 DEF Last
      <4>. QED
        BY <4>1, <4>2
    <3>. QED
      BY <1>2, <3>1, <3>2
  <2>2. CASE i # Len(r) + 1
    <3>1. i \in 1..Len(r) /\ s[i] = r[i]
      BY <1>3, <2>2
    <3>2. i > 1 => s[i - 1] = r[i - 1]
      BY <1>3, <3>1
    <3>. QED
      BY <3>1, <3>2 DEF InPlace
  <2>. QED
    BY <2>1, <2>2
<1>. QED
  BY <1>3, <1>4 DEF InPlace, s, c

\* The last chunk ends inside the text.
LEMMA LastInPlace ==
    ASSUME NEW text \in Text, NEW r \in Seq(ChunkRec), r # <<>>
    PROVE  Last(r) \in ChunkRec /\ Last(r).end \in Nat /\ (InPlace(r, text) => Last(r).end <= Len(text))
<1>1. Len(r) \in 1..Len(r) /\ Last(r) = r[Len(r)]
  BY DEF Last
<1>2. Last(r) \in ChunkRec
  BY <1>1
<1>. QED
  BY <1>1, <1>2 DEF InPlace, ChunkRec

\* The parts that are not blank.
LEMMA FilledFacts ==
    ASSUME NEW parts \in Seq(Text)
    PROVE  /\ Filled(parts) \in Seq(Text)
           /\ \A i \in 1..Len(Filled(parts)) : ~IsBlank(Filled(parts)[i]) /\ Occurs(Filled(parts)[i], parts)
           /\ \A k \in 1..Len(parts) : ~IsBlank(parts[k]) => Filled(parts) # <<>>
<1> DEFINE s == [i \in DOMAIN parts |-> IF IsBlank(parts[i]) THEN <<>> ELSE <<parts[i]>>]
<1>1. Filled(parts) = FlattenSeq(s)
  BY DEF Filled
<1>2. Len(parts) \in Nat /\ DOMAIN parts = 1..Len(parts) /\ \A i \in 1..Len(parts) : parts[i] \in Text
  OBVIOUS
<1>3. s \in Seq(Seq(Text)) /\ Len(s) = Len(parts)
  <2>1. s = [i \in 1..Len(parts) |-> s[i]]
    BY <1>2
  <2>2. \A i \in 1..Len(parts) : s[i] \in Seq(Text)
    BY <1>2
  <2> HIDE DEF s
  <2>. QED
    BY <1>2, <2>1, <2>2
<1>4. ASSUME NEW k \in 1..Len(s), NEW x
      PROVE  Occurs(x, s[k]) <=> ~IsBlank(parts[k]) /\ x = parts[k]
  <2>1. s[k] = IF IsBlank(parts[k]) THEN <<>> ELSE <<parts[k]>>
    BY <1>2, <1>3
  <2>. QED
    BY <2>1 DEF Occurs
<1> HIDE DEF s
<1>5. /\ FlattenSeq(s) \in Seq(Text)
      /\ \A x : Occurs(x, FlattenSeq(s)) <=> \E k \in 1..Len(s) : Occurs(x, s[k])
  BY <1>3, FlattenElements
<1>6. ASSUME NEW i \in 1..Len(Filled(parts))
      PROVE  ~IsBlank(Filled(parts)[i]) /\ Occurs(Filled(parts)[i], parts)
  <2>1. Occurs(Filled(parts)[i], Filled(parts))
    BY DEF Occurs
  <2>2. PICK k \in 1..Len(s) : Occurs(Filled(parts)[i], s[k])
    BY <1>1, <1>5, <2>1
  <2>3. k \in 1..Len(parts) /\ ~IsBlank(parts[k]) /\ Filled(parts)[i] = parts[k]
    BY <1>3, <1>4, <2>2
  <2>. QED
    BY <2>3 DEF Occurs
<1>7. ASSUME NEW k \in 1..Len(parts), ~IsBlank(parts[k])
      PROVE  Filled(parts) # <<>>
  <2>1. Occurs(parts[k], Filled(parts))
    BY <1>1, <1>3, <1>4, <1>5, <1>7
  <2>. QED
    BY <2>1 DEF Occurs
<1>. QED
  BY <1>1, <1>5, <1>6, <1>7

\* A piece is located behind the chunk before, or at its end if it is not found there.
LEMMA PlaceFacts ==
    ASSUME NEW text \in Text, NEW piece \in Text, NEW r \in Seq(ChunkRec)
    PROVE  \E start, end \in Nat :
              /\ Place(text, piece, r) = Chunk(r, piece, start, end)
              /\ InPlace(r, text) => /\ start <= end /\ end <= Len(text)
                                     /\ r # <<>> => Last(r).end <= end
<1> DEFINE pos == IF r = <<>> THEN 0 ELSE Last(r).end
           found == Find(text, piece, pos)
           start == Max({found, pos})
           end == Min({start + Len(piece), Len(text)})
<1>1. Place(text, piece, r) = Chunk(r, piece, start, end)
  BY DEF Place
<1>2. pos \in Nat /\ (r # <<>> => pos = Last(r).end) /\ (InPlace(r, text) => pos <= Len(text))
  <2>1. r # <<>> => Last(r).end \in Nat /\ (InPlace(r, text) => Last(r).end <= Len(text))
    BY LastInPlace
  <2>2. Len(text) \in Nat
    BY DEF Text
  <2>. QED
    BY <2>1, <2>2
<1> HIDE DEF pos
<1>3. found \in Int /\ (found >= 0 => pos <= found /\ found + Len(piece) <= Len(text))
  BY <1>2, FindFacts
<1>4. Len(text) \in Nat /\ Len(piece) \in Nat
  BY DEF Text
<1> HIDE DEF found
<1>5. start \in {found, pos} /\ start >= found /\ start >= pos
  <2>1. found \in Int /\ pos \in Int
    BY <1>2, <1>3
  <2>. QED
    BY ONLY <2>1, MaxOfTwo
<1> HIDE DEF start
<1>6. start \in Nat /\ (InPlace(r, text) => start <= Len(text))
  BY <1>2, <1>3, <1>4, <1>5
<1>7. end \in {start + Len(piece), Len(text)} /\ end <= start + Len(piece) /\ end <= Len(text)
  <2> DEFINE x == start + Len(piece)
  <2>1. x \in Int /\ Len(text) \in Int
    BY <1>4, <1>6
  <2> HIDE DEF x
  <2>2. Min({x, Len(text)}) \in {x, Len(text)} /\ Min({x, Len(text)}) <= x /\ Min({x, Len(text)}) <= Len(text)
    BY ONLY <2>1, MinOfTwo
  <2>. QED
    BY <2>2 DEF x
<1> HIDE DEF end
<1>8. end \in Nat /\ (InPlace(r, text) => start <= end)
  BY <1>4, <1>6, <1>7
<1>9. InPlace(r, text) /\ r # <<>> => Last(r).end <= end
  BY <1>2, <1>5, <1>6, <1>8
<1>. QED
  BY <1>1, <1>6, <1>7, <1>8, <1>9

\* The loop of Locate.
LEMMA LocateSteps ==
    ASSUME NEW text \in Text,
           NEW pieces \in Seq(Text)
    PROVE  \E g : /\ \A k \in 0..Len(pieces) : g[k] \in Seq(ChunkRec)
                  /\ g[0] = <<>>
                  /\ \A k \in 1..Len(pieces) :
                        g[k] = Append(g[k - 1], Place(text, pieces[k], g[k - 1]))
                  /\ Locate(text, pieces) = g[Len(pieces)]
<1> DEFINE n == Len(pieces)
           V == Seq(ChunkRec)
           Step(k, v) == Append(v, Place(text, pieces[k], v))
           h == [k \in 1..n |-> [v \in V |-> Step(k, v)]]
           E(c) == c = [k \in 0..n |-> IF k = 0 THEN <<>> ELSE Step(k, c[k - 1])]
           c == CHOOSE f : E(f)
<1>1. n \in Nat /\ <<>> \in V /\ \A k \in 1..n : \A v \in V : Step(k, v) \in V
  <2>1. ASSUME NEW p \in Text, NEW v \in Seq(ChunkRec)
        PROVE  Place(text, p, v) \in ChunkRec
    <3>1. PICK start, end \in Nat : Place(text, p, v) = Chunk(v, p, start, end)
      BY PlaceFacts
    <3>. QED
      BY <3>1, ChunkFacts
  <2>2. \A k \in 1..n : pieces[k] \in Text
    OBVIOUS
  <2>. QED
    BY <2>1, <2>2
<1>2. Locate(text, pieces) = c[n]
  BY Zenon DEF Locate, Loop
<1> HIDE DEF Step, n, V
<1>3. \A k \in 1..n : \A v \in V : h[k][v] = Step(k, v)
  OBVIOUS
<1> HIDE DEF h
<1>4. PICK g : /\ g = [k \in 0..n |-> g[k]] /\ g[0] = <<>>
               /\ \A k \in 1..n : g[k] = h[k][g[k - 1]]
               /\ \A k \in 0..n : g[k] \in V
  <2>1. Keeps(h, n, V)
    BY <1>1, <1>3 DEF Keeps
  <2>. QED
    BY ONLY <1>1, <2>1, TypedSteps
<1>5. \A k \in 1..n : k - 1 \in 0..n
  BY <1>1
<1>6. E(g)
  <2>1. \A k \in 0..n : k # 0 => k \in 1..n
    BY <1>1
  <2>2. \A k \in 1..n : g[k] = Step(k, g[k - 1])
    BY <1>3, <1>4, <1>5
  <2>3. \A k \in 0..n : g[k] = IF k = 0 THEN <<>> ELSE Step(k, g[k - 1])
    BY <1>4, <2>1, <2>2
  <2>. QED
    BY <1>4, <2>3, Zenon
<1>7. E(c)
  BY <1>6, Zenon
<1> HIDE DEF c
<1>8. c[0] = <<>> /\ \A k \in 1..n : c[k] = Step(k, c[k - 1])
  BY <1>1, <1>7
<1>9. \A k \in 0..n : c[k] \in V
  <2>1. Keeps(h, n, V)
    BY <1>1, <1>3 DEF Keeps
  <2>2. \A k \in 1..n : c[k - 1] \in V => c[k] = h[k][c[k - 1]]
    BY <1>3, <1>8
  <2>3. <<>> \in V /\ c[0] = <<>> /\ n \in Nat
    BY <1>1, <1>8
  <2>. QED
    BY ONLY <2>1, <2>2, <2>3, TypedSame
<1>. QED
  BY <1>2, <1>8, <1>9, Zenon DEF Step, n, V

\* The located pieces are chunks of the text, in their order.
LEMMA LocateFacts ==
    ASSUME NEW text \in Text, NEW pieces \in Seq(Text),
           \A i \in 1..Len(pieces) : ~IsBlank(pieces[i])
    PROVE  /\ InPlace(Locate(text, pieces), text)
           /\ Len(Locate(text, pieces)) = Len(pieces)
           /\ \A i \in 1..Len(pieces) : Locate(text, pieces)[i].content = pieces[i]
<1> DEFINE n == Len(pieces)
<1>1. PICK g : /\ \A k \in 0..n : g[k] \in Seq(ChunkRec)
               /\ g[0] = <<>>
               /\ \A k \in 1..n : g[k] = Append(g[k - 1], Place(text, pieces[k], g[k - 1]))
               /\ Locate(text, pieces) = g[n]
  BY LocateSteps
<1>2. n \in Nat /\ n \in 0..n /\ \A k \in 1..n : pieces[k] \in Text /\ ~IsBlank(pieces[k])
  OBVIOUS
<1> HIDE DEF n
<1> DEFINE Good(k) == /\ InPlace(g[k], text) /\ Len(g[k]) = k
                      /\ \A i \in 1..k : g[k][i].content = pieces[i]
           T == {k \in Nat : k <= n => Good(k)}
<1>3. 0 \in T
  <2>1. InPlace(<<>>, text)
    BY DEF InPlace
  <2>. QED
    BY <1>1, <2>1
<1>4. ASSUME NEW k \in T
      PROVE  k + 1 \in T
  <2>1. SUFFICES ASSUME k + 1 <= n
                 PROVE  Good(k + 1)
    OBVIOUS
  <2>2. k \in Nat /\ k \in 0..n /\ k + 1 \in 1..n /\ (k + 1) - 1 = k /\ Good(k)
    BY <1>2, <2>1
  <2> DEFINE r == g[k]
             p == pieces[k + 1]
  <2>3. /\ r \in Seq(ChunkRec) /\ InPlace(r, text) /\ p \in Text /\ ~IsBlank(p) /\ Len(r) = k
        /\ g[k + 1] = Append(r, Place(text, p, r))
        /\ \A i \in 1..k : r[i].content = pieces[i]
    BY <1>1, <1>2, <2>2
  <2> HIDE DEF r, p
  <2>4. PICK start, end \in Nat :
           /\ Place(text, p, r) = Chunk(r, p, start, end)
           /\ start <= end /\ end <= Len(text) /\ (r # <<>> => Last(r).end <= end)
    BY <2>3, PlaceFacts
  <2> DEFINE c == Chunk(r, p, start, end)
  <2>5. InPlace(Append(r, c), text)
    BY <2>3, <2>4, OneMore
  <2>6. c \in ChunkRec /\ c.content = p
    BY <2>3, ChunkFacts
  <2> HIDE DEF c
  <2>7. Len(Append(r, c)) = k + 1 /\ \A i \in 1..(k + 1) : Append(r, c)[i].content = pieces[i]
    <3>1. /\ Len(Append(r, c)) = k + 1 /\ Append(r, c)[k + 1] = c
          /\ \A i \in 1..k : Append(r, c)[i] = r[i]
      BY <2>2, <2>3, <2>6
    <3>2. \A i \in 1..(k + 1) : i \in 1..k \/ i = k + 1
      BY <2>2
    <3>. QED
      BY <2>3, <2>6, <3>1, <3>2 DEF p
  <2>. QED
    BY <2>3, <2>4, <2>5, <2>7 DEF c
<1>5. T = Nat
  <2>1. T \in SUBSET Nat
    OBVIOUS
  <2> HIDE DEF T
  <2>. QED
    BY ONLY <1>3, <1>4, <2>1, InductiveSet
<1>6. Good(n)
  <2> HIDE DEF Good
  <2>. QED
    BY <1>2, <1>5
<1>. QED
  BY <1>1, <1>6 DEF n

\* The end of the chunk before makes a chunk longer by the overlap and a blank at most.
LEMMA OverlapFacts ==
    ASSUME ChunkerAssumption, NEW text \in Text, NEW r, InPlace(r, text), NEW overlap \in Nat
    PROVE  /\ InPlace(ApplyOverlap(r, overlap), text)
           /\ Len(ApplyOverlap(r, overlap)) = Len(r)
           /\ \A i \in 1..Len(r) :
                 Len(ApplyOverlap(r, overlap)[i].content)
                    <= Len(r[i].content) + (IF i > 1 THEN overlap + 1 ELSE 0)
<1> DEFINE n == Len(r)
           before(i) == r[i - 1].content
           tail(i) == Slice(before(i), Max({Len(before(i)) - overlap, 0}), Len(before(i)))
           content(i) == Strip(tail(i) \o <<Space>> \o r[i].content)
           start(i) == IF r[i].start >= overlap THEN r[i].start - overlap ELSE r[i].start
           longer(i) == [r[i] EXCEPT !.content = content(i), !.start = start(i)]
           a == [i \in 1..n |-> IF i = 1 THEN r[1] ELSE longer(i)]
<1>1. r \in Seq(ChunkRec) /\ n \in Nat /\ DOMAIN r = 1..n /\ \A i \in 1..n : r[i] \in ChunkRec
  BY DEF InPlace
<1>2. ApplyOverlap(r, overlap) = a
  BY <1>1 DEF ApplyOverlap
<1>3. \A i \in 1..n : /\ r[i].sequence = i - 1 /\ ~IsBlank(r[i].content)
                      /\ r[i].start <= r[i].end /\ r[i].end <= Len(text)
                      /\ i > 1 => r[i - 1].end <= r[i].end
  BY DEF InPlace
<1>4. \A i \in 1..n : /\ r[i].content \in Text /\ r[i].sequence \in Nat
                      /\ r[i].start \in Nat /\ r[i].end \in Nat
  BY <1>1 DEF ChunkRec
<1> HIDE DEF n
<1>5. ASSUME NEW i \in 1..n, i # 1
      PROVE  /\ content(i) \in Text /\ ~IsBlank(content(i))
             /\ Len(content(i)) <= Len(r[i].content) + overlap + 1
  <2> DEFINE b == before(i)
             z == Max({Len(b) - overlap, 0})
             w == tail(i)
             t == r[i].content
             u == w \o <<Space>> \o t
  <2>1. i - 1 \in 1..n /\ b \in Text /\ t \in Text /\ ~IsBlank(t)
    <3>1. i - 1 \in 1..n
      BY <1>1, <1>5
    <3>. QED
      BY <1>3, <1>4, <3>1
  <2>2. w = Slice(b, z, Len(b)) /\ content(i) = Strip(u)
    OBVIOUS
  <2> HIDE DEF b, w, t
  <2>3. Len(b) \in Nat /\ Len(t) \in Nat
    BY <2>1 DEF Text
  <2>4. z \in {Len(b) - overlap, 0} /\ z >= 0 /\ z >= Len(b) - overlap
    <3> DEFINE x == Len(b) - overlap
    <3>1. x \in Int
      BY <2>3
    <3> HIDE DEF x
    <3>2. Max({x, 0}) \in {x, 0} /\ Max({x, 0}) >= x /\ Max({x, 0}) >= 0
      BY ONLY <3>1, 0 \in Int, MaxOfTwo
    <3>. QED
      BY <3>2 DEF x
  <2> HIDE DEF z
  <2>5. z \in Int /\ 0 <= z /\ z <= Len(b) /\ Len(b) - z <= overlap /\ Len(b) \in Int
    BY <2>3, <2>4
  <2>6. w \in Text /\ Len(w) = Len(b) - z
    BY <2>1, <2>2, <2>5, SliceFacts
  <2>7. /\ u \in Text /\ Len(u) = Len(w) + 1 + Len(t)
        /\ \A j \in 1..Len(t) : u[Len(w) + 1 + j] = t[j]
    <3>1. w \in Seq(Characters) /\ t \in Seq(Characters) /\ Space \in Characters
      BY <2>1, <2>6, TextConstants DEF Text
    <3>2. /\ w \o <<Space>> \in Seq(Characters) /\ Len(w \o <<Space>>) = Len(w) + 1
      BY <3>1
    <3> DEFINE y == w \o <<Space>>
    <3>3. y \in Seq(Characters) /\ Len(y) = Len(w) + 1
      BY <3>2
    <3> HIDE DEF y
    <3>4. y \o t \in Seq(Characters) /\ Len(y \o t) = Len(y) + Len(t) /\ \A j \in 1..Len(t) : (y \o t)[Len(y) + j] = t[j]
      BY ONLY <3>1, <3>3
    <3>. QED
      BY <3>3, <3>4 DEF y, Text
  <2> HIDE DEF u
  <2>8. PICK c : c \notin Blanks /\ Occurs(c, t)
    BY <2>1, BlankText
  <2>9. Occurs(c, u)
    <3>1. PICK j \in 1..Len(t) : t[j] = c
      BY <2>8 DEF Occurs
    <3>2. Len(w) + 1 + j \in 1..Len(u)
      BY <2>3, <2>5, <2>6, <2>7
    <3>. QED
      BY <2>7, <3>1, <3>2 DEF Occurs
  <2>10. Strip(u) \in Text /\ Len(Strip(u)) <= Len(u) /\ Occurs(c, Strip(u))
    BY <2>7, <2>8, <2>9, StripFacts
  <2>11. ~IsBlank(Strip(u))
    BY <2>8, <2>10, BlankText
  <2>12. Len(Strip(u)) \in Nat
    BY <2>10 DEF Text
  <2>13. Len(Strip(u)) <= Len(t) + overlap + 1
    BY <2>3, <2>5, <2>6, <2>7, <2>10, <2>12
  <2>. QED
    BY <2>2, <2>10, <2>11, <2>13 DEF t
<1> HIDE DEF content
<1>6. \A i \in 1..n : start(i) \in Nat /\ start(i) <= r[i].end
  BY <1>3, <1>4
<1> HIDE DEF start
<1>7. ASSUME NEW i \in 1..n
      PROVE  /\ a[i] \in ChunkRec
             /\ a[i].sequence = i - 1 /\ ~IsBlank(a[i].content)
             /\ a[i].start <= a[i].end /\ a[i].end = r[i].end
             /\ Len(a[i].content) <= Len(r[i].content) + (IF i > 1 THEN overlap + 1 ELSE 0)
  <2>1. CASE i = 1
    <3>1. a[i] = r[i] /\ ~(i > 1) /\ Len(r[i].content) \in Nat
      BY <1>4, <2>1 DEF Text
    <3>. QED
      BY <1>1, <1>3, <3>1
  <2>2. CASE i # 1
    <3>1. a[i] = longer(i) /\ i > 1
      BY <2>2
    <3>2. /\ longer(i) \in ChunkRec /\ longer(i).content = content(i) /\ longer(i).start = start(i)
          /\ longer(i).sequence = r[i].sequence /\ longer(i).end = r[i].end
      BY <1>1, <1>5, <1>6, <2>2 DEF ChunkRec
    <3> HIDE DEF longer
    <3>3. Len(r[i].content) \in Nat
      BY <1>4 DEF Text
    <3>8. content(i) \in Text /\ Len(content(i)) <= Len(r[i].content) + overlap + 1
      BY <1>5, <2>2
    <3>4. Len(content(i)) \in Nat
      BY <3>8 DEF Text
    <3> HIDE DEF a
    <3>5. Len(a[i].content) <= Len(r[i].content) + (IF i > 1 THEN overlap + 1 ELSE 0)
      <4>1. a[i].content = content(i) /\ i > 1
        BY <3>1, <3>2
      <4>2. (IF i > 1 THEN overlap + 1 ELSE 0) = overlap + 1
        BY <4>1
      <4>3. Len(content(i)) <= Len(r[i].content) + (overlap + 1)
        <5> DEFINE x == Len(content(i))
                   y == Len(r[i].content)
        <5>1. x \in Nat /\ y \in Nat /\ x <= y + overlap + 1
          BY <3>3, <3>4, <3>8
        <5> HIDE DEF x, y
        <5>2. x <= y + (overlap + 1)
          BY ONLY <5>1, overlap \in Nat
        <5>. QED
          BY <5>2 DEF x, y
      <4>. QED
        BY <4>1, <4>2, <4>3
    <3>6. ~IsBlank(content(i)) /\ start(i) <= r[i].end
      BY <1>5, <1>6, <2>2
    <3>7. a[i] \in ChunkRec /\ a[i].sequence = i - 1 /\ ~IsBlank(a[i].content)
      BY <1>3, <3>1, <3>2, <3>6
    <3>. QED
      BY <3>1, <3>2, <3>5, <3>6, <3>7
  <2>. QED
    BY <2>1, <2>2
<1>8. a = [i \in 1..n |-> a[i]]
  OBVIOUS
<1> HIDE DEF a
<1>9. a \in Seq(ChunkRec) /\ Len(a) = n
  BY <1>1, <1>7, <1>8, SMTT(30)
<1>10. InPlace(a, text)
  <2>1. ASSUME NEW i \in 1..n, i > 1
        PROVE  a[i - 1].end <= a[i].end
    <3>1. i - 1 \in 1..n
      BY <1>1, <2>1
    <3>. QED
      BY <1>3, <1>7, <2>1, <3>1
  <2>. QED
    BY <1>3, <1>7, <1>9, <2>1 DEF InPlace
<1>. QED
  BY <1>2, <1>7, <1>9, <1>10 DEF n

\* The chunks of RecursiveChunker.
LEMMA RecursiveFacts ==
    ASSUME ChunkerAssumption, NEW text \in Text, NEW size \in Nat, size >= 1, NEW overlap \in Nat
    PROVE  /\ InPlace(RecursiveChunks(text, size, overlap), text)
           /\ \A i \in 1..Len(RecursiveChunks(text, size, overlap)) :
                 Len(RecursiveChunks(text, size, overlap)[i].content)
                    <= size + (IF i > 1 /\ overlap > 0 THEN overlap + 1 ELSE 0)
           /\ EndsFilled(text) => RecursiveChunks(text, size, overlap) # <<>>
<1> DEFINE parts == RecursiveSplit(text, size)
           pieces == Filled(parts)
           located == Locate(text, pieces)
           r == RecursiveChunks(text, size, overlap)
<1>1. r = IF IsBlank(text) THEN <<>>
          ELSE IF overlap > 0 /\ Len(located) > 1 THEN ApplyOverlap(located, overlap) ELSE located
  BY DEF RecursiveChunks
<1> HIDE DEF r
<1>2. CASE IsBlank(text)
  <2>1. r = <<>> /\ ~EndsFilled(text)
    BY <1>1, <1>2, EndsFilledNotBlank
  <2>2. InPlace(<<>>, text)
    BY DEF InPlace
  <2>. QED
    BY <2>1, <2>2 DEF r
<1>3. CASE ~IsBlank(text)
  <2>1. Splits(parts, text, size)
    BY RecursiveSplitFacts
  <2> HIDE DEF parts
  <2>2. parts \in Seq(Text) /\ AllFit(parts, size)
    BY <2>1 DEF Splits
  <2>3. /\ pieces \in Seq(Text)
        /\ \A i \in 1..Len(pieces) : ~IsBlank(pieces[i]) /\ Occurs(pieces[i], parts)
        /\ \A k \in 1..Len(parts) : ~IsBlank(parts[k]) => pieces # <<>>
    BY <2>2, FilledFacts
  <2> HIDE DEF pieces
  <2>4. \A i \in 1..Len(pieces) : Len(pieces[i]) <= size
    BY <2>2, <2>3 DEF Occurs, AllFit
  <2>5. EndsFilled(text) => pieces # <<>>
    <3> SUFFICES ASSUME EndsFilled(text)
                 PROVE  pieces # <<>>
      OBVIOUS
    <3>1. Len(parts) \in 1..Len(parts) /\ EndsFilled(parts[Len(parts)]) /\ parts[Len(parts)] \in Text
      BY <2>1, <2>2 DEF Splits, Last
    <3>. QED
      BY <2>3, <3>1, EndsFilledNotBlank
  <2>6. /\ InPlace(located, text) /\ Len(located) = Len(pieces)
        /\ \A i \in 1..Len(pieces) : located[i].content = pieces[i]
    BY <2>3, LocateFacts
  <2> HIDE DEF located
  <2>7. located \in Seq(ChunkRec) /\ Len(located) \in Nat
    BY <2>6 DEF InPlace
  <2>8. EndsFilled(text) => Len(located) > 0
    BY <2>3, <2>5, <2>6
  <2>9. CASE overlap > 0 /\ Len(located) > 1
    <3> DEFINE a == ApplyOverlap(located, overlap)
    <3>1. /\ InPlace(a, text) /\ Len(a) = Len(located)
          /\ \A i \in 1..Len(located) :
                Len(a[i].content) <= Len(located[i].content) + (IF i > 1 THEN overlap + 1 ELSE 0)
      BY <2>6, OverlapFacts
    <3> HIDE DEF a
    <3>2. r = a
      BY <1>1, <1>3, <2>9 DEF a
    <3>3. a \in Seq(ChunkRec)
      BY <3>1 DEF InPlace
    <3>4. ASSUME NEW i \in 1..Len(a)
          PROVE  Len(a[i].content) <= size + (IF i > 1 /\ overlap > 0 THEN overlap + 1 ELSE 0)
      <4> DEFINE e == IF i > 1 THEN overlap + 1 ELSE 0
                 x == Len(a[i].content)
                 y == Len(located[i].content)
      <4>1. e \in Nat /\ e = IF i > 1 /\ overlap > 0 THEN overlap + 1 ELSE 0
        BY <2>9, <3>1
      <4>2. i \in 1..Len(located) /\ i \in 1..Len(pieces)
        BY <2>6, <3>1
      <4>3. x <= y + e /\ y <= size
        BY <2>4, <2>6, <3>1, <4>2
      <4>4. x \in Nat /\ y \in Nat
        <5>1. a[i].content \in Text /\ located[i].content \in Text
          <6>1. a[i] \in ChunkRec /\ located[i] \in ChunkRec
            BY <2>7, <3>3, <4>2
          <6>. QED
            BY ONLY <6>1 DEF ChunkRec
        <5>. QED
          BY <5>1 DEF Text
      <4> HIDE DEF e, x, y
      <4>5. x <= size + e
        BY ONLY <4>1, <4>3, <4>4, size \in Nat
      <4>. QED
        BY <4>1, <4>5 DEF x
    <3>5. EndsFilled(text) => a # <<>>
      BY <2>7, <2>8, <3>1
    <3>. QED
      BY <3>1, <3>2, <3>4, <3>5 DEF r
  <2>10. CASE ~(overlap > 0 /\ Len(located) > 1)
    <3>1. r = located
      BY <1>1, <1>3, <2>10
    <3>2. ASSUME NEW i \in 1..Len(located)
          PROVE  Len(located[i].content) <= size + (IF i > 1 /\ overlap > 0 THEN overlap + 1 ELSE 0)
      <4>1. ~(i > 1 /\ overlap > 0)
        BY <2>7, <2>10
      <4>2. Len(located[i].content) <= size
        BY <2>4, <2>6
      <4>. QED
        BY <4>1, <4>2
    <3>. QED
      BY <2>6, <2>7, <2>8, <3>1, <3>2 DEF r
  <2>. QED
    BY <2>9, <2>10
<1>. QED
  BY <1>2, <1>3

-----------------------------------------------------------------------------
(* FixedCharChunker.                                                       *)

\* How far apart the windows are, and that there is a last one.
LEMMA WindowFacts ==
    ASSUME NEW n \in Nat, NEW size \in Nat, NEW overlap \in Nat, overlap < size
    PROVE  /\ WindowStep(size, overlap) \in Nat
           /\ 1 <= WindowStep(size, overlap) /\ WindowStep(size, overlap) <= size
           /\ LastWindow(n, size, WindowStep(size, overlap)) \in Nat
           /\ LastWindow(n, size, WindowStep(size, overlap)) * WindowStep(size, overlap) + size >= n
           /\ \A j \in 0..(LastWindow(n, size, WindowStep(size, overlap)) - 1) :
                 j * WindowStep(size, overlap) + size < n
<1> DEFINE step == WindowStep(size, overlap)
           last == LastWindow(n, size, step)
<1>1. step \in Nat /\ 1 <= step /\ step <= size
  <2> DEFINE d == size - overlap
  <2>1. d \in Int /\ 1 <= d /\ d <= size
    OBVIOUS
  <2>2. step = Max({1, d})
    BY DEF WindowStep
  <2> HIDE DEF d, step
  <2>3. Max({1, d}) \in {1, d} /\ Max({1, d}) >= 1 /\ Max({1, d}) >= d
    BY ONLY <2>1, 1 \in Int, MaxOfTwo
  <2>. QED
    BY <2>1, <2>2, <2>3
<1> HIDE DEF step
<1> DEFINE W == {k \in Nat : k * step + size >= n}
<1>2. n \in W
  <2>1. n * step >= n
    BY <1>1
  <2>2. n * step \in Nat
    BY <1>1
  <2>. QED
    BY <2>1, <2>2
<1>3. PICK w \in W : \A k \in W : w <= k
  <2> HIDE DEF W
  <2>1. W \in SUBSET Nat
    BY DEF W
  <2>. QED
    BY <1>2, <2>1, LeastNumber
<1>4. w \in 0..n /\ w * step + size >= n
  BY <1>2, <1>3
<1>5. ASSUME NEW j \in 0..(w - 1)
      PROVE  j * step + size < n
  <2>1. j \in Nat /\ ~(w <= j) /\ j * step \in Nat
    BY <1>1, <1>4
  <2>2. j \notin W
    BY <1>3, <2>1
  <2>3. ~(j * step + size >= n)
    BY <2>1, <2>2
  <2>. QED
    BY <2>1, <2>3
<1>6. last \in 0..n /\ last * step + size >= n /\ \A j \in 0..(last - 1) : j * step + size < n
  BY <1>4, <1>5, Zenon DEF LastWindow
<1> HIDE DEF last
<1>7. last \in Nat
  BY <1>6
<1>. QED
  BY <1>1, <1>6, <1>7 DEF step, last

\* A window is a chunk of the text, or is left out.
LEMMA WindowChunk ==
    ASSUME NEW text \in Text, NEW size \in Nat, NEW from \in Nat, from <= Len(text)
    PROVE  /\ Min({from + size, Len(text)}) \in Nat
           /\ from <= Min({from + size, Len(text)})
           /\ Min({from + size, Len(text)}) <= from + size
           /\ Min({from + size, Len(text)}) <= Len(text)
           /\ Min({from + size, Len(text)}) \in {from + size, Len(text)}
           /\ Slice(text, from, Min({from + size, Len(text)})) \in Text
           /\ Len(Slice(text, from, Min({from + size, Len(text)}))) <= size
<1> DEFINE x == from + size
           end == Min({x, Len(text)})
<1>1. x \in Nat /\ Len(text) \in Nat /\ x = from + size
  BY DEF Text
<1> HIDE DEF x
<1>2. end \in {x, Len(text)} /\ end <= x /\ end <= Len(text)
  <2>1. x \in Int /\ Len(text) \in Int
    BY <1>1
  <2>. QED
    BY ONLY <2>1, MinOfTwo
<1> HIDE DEF end
<1>3. end \in Nat /\ from <= end /\ end \in Int /\ from \in Int /\ 0 <= from
  BY <1>1, <1>2
<1>4. Slice(text, from, end) \in Text /\ Len(Slice(text, from, end)) = end - from
  BY ONLY <1>2, <1>3, text \in Text, SliceFacts
<1>5. Len(Slice(text, from, end)) <= size
  BY <1>1, <1>2, <1>3, <1>4
<1>. QED
  BY <1>1, <1>2, <1>3, <1>4, <1>5 DEF end, x

\* Every window begins inside the text.
LEMMA WindowStart ==
    ASSUME NEW n \in Nat, NEW size \in Nat, NEW overlap \in Nat, overlap < size,
           NEW k \in 1..(LastWindow(n, size, WindowStep(size, overlap)) + 1)
    PROVE  (k - 1) * WindowStep(size, overlap) \in Nat /\ (k - 1) * WindowStep(size, overlap) <= n
<1> DEFINE step == WindowStep(size, overlap)
           last == LastWindow(n, size, step)
<1>1. /\ step \in Nat /\ step <= size /\ last \in Nat /\ k \in 1..(last + 1)
      /\ \A j \in 0..(last - 1) : j * step + size < n
  BY WindowFacts
<1> HIDE DEF last, step
<1>2. CASE k = 1
  BY <1>1, <1>2 DEF step
<1>3. CASE k # 1
  <2> DEFINE j == k - 2
  <2>1. j \in 0..(last - 1) /\ k - 1 = j + 1 /\ j \in Nat
    BY <1>1, <1>3
  <2> HIDE DEF j
  <2>2. j * step + size < n /\ j * step \in Nat
    BY <1>1, <2>1
  <2>3. (j + 1) * step = j * step + step
    BY <1>1, <2>1
  <2>4. (j + 1) * step \in Nat /\ (j + 1) * step <= n
    BY <1>1, <2>2, <2>3
  <2>. QED
    BY <2>1, <2>4 DEF step
<1>. QED
  BY <1>2, <1>3

\* A step of the loop of FixedCharChunker makes chunks.
LEMMA WindowTyped ==
    ASSUME NEW text \in Text, NEW size \in Nat, NEW step \in Nat, NEW k \in Nat,
           (k - 1) * step \in Nat, (k - 1) * step <= Len(text), NEW r \in Seq(ChunkRec)
    PROVE  Window(text, size, step, k, r) \in Seq(ChunkRec)
<1> DEFINE start == (k - 1) * step
           end == Min({start + size, Len(text)})
           piece == Slice(text, start, end)
<1>1. Window(text, size, step, k, r) = IF IsBlank(piece) THEN r ELSE Append(r, Chunk(r, piece, start, end))
  BY DEF Window
<1>2. start \in Nat /\ start <= Len(text)
  OBVIOUS
<1> HIDE DEF start
<1>3. end \in Nat /\ piece \in Text
  BY <1>2, WindowChunk
<1> HIDE DEF end, piece
<1>4. Chunk(r, piece, start, end) \in ChunkRec
  BY <1>2, <1>3, ChunkFacts
<1>. QED
  BY <1>1, <1>4

\* The loop of FixedCharChunker.
LEMMA WindowSteps ==
    ASSUME NEW text \in Text,
           Len(text) # 0,
           NEW size \in Nat,
           NEW overlap \in Nat,
           overlap < size
    PROVE  \E g : /\ \A k \in 0..(LastWindow(Len(text), size, WindowStep(size, overlap)) + 1) : g[k] \in Seq(ChunkRec)
                  /\ g[0] = <<>>
                  /\ \A k \in 1..(LastWindow(Len(text), size, WindowStep(size, overlap)) + 1) :
                        g[k] = Window(text, size, WindowStep(size, overlap), k, g[k - 1])
                  /\ FixedChunks(text, size, overlap) = g[(LastWindow(Len(text), size, WindowStep(size, overlap)) + 1)]
<1> DEFINE n == (LastWindow(Len(text), size, WindowStep(size, overlap)) + 1)
           V == Seq(ChunkRec)
           Step(k, v) == Window(text, size, WindowStep(size, overlap), k, v)
           h == [k \in 1..n |-> [v \in V |-> Step(k, v)]]
           E(c) == c = [k \in 0..n |-> IF k = 0 THEN <<>> ELSE Step(k, c[k - 1])]
           c == CHOOSE f : E(f)
<1>1. n \in Nat /\ <<>> \in V /\ \A k \in 1..n : \A v \in V : Step(k, v) \in V
  <2> DEFINE step == WindowStep(size, overlap)
  <2>1. Len(text) \in Nat
    BY DEF Text
  <2>2. step \in Nat /\ n \in Nat
    <3>1. /\ WindowStep(size, overlap) \in Nat
          /\ LastWindow(Len(text), size, WindowStep(size, overlap)) \in Nat
      BY ONLY <2>1, size \in Nat, overlap \in Nat, overlap < size, WindowFacts
    <3>. QED
      BY <3>1
  <2>3. ASSUME NEW k \in 1..n, NEW v \in V
        PROVE  Window(text, size, step, k, v) \in V
    <3>1. (k - 1) * step \in Nat /\ (k - 1) * step <= Len(text)
      BY <2>1, WindowStart
    <3> HIDE DEF step, n
    <3>2. k \in Nat
      BY <2>2
    <3>. QED
      BY ONLY <2>2, <3>1, <3>2, text \in Text, size \in Nat, v \in Seq(ChunkRec), WindowTyped
  <2>. QED
    BY <2>2, <2>3
<1>2. FixedChunks(text, size, overlap) = c[n]
  BY Zenon DEF FixedChunks, Loop
<1> HIDE DEF Step, n, V
<1>3. \A k \in 1..n : \A v \in V : h[k][v] = Step(k, v)
  OBVIOUS
<1> HIDE DEF h
<1>4. PICK g : /\ g = [k \in 0..n |-> g[k]] /\ g[0] = <<>>
               /\ \A k \in 1..n : g[k] = h[k][g[k - 1]]
               /\ \A k \in 0..n : g[k] \in V
  <2>1. Keeps(h, n, V)
    BY <1>1, <1>3 DEF Keeps
  <2>. QED
    BY ONLY <1>1, <2>1, TypedSteps
<1>5. \A k \in 1..n : k - 1 \in 0..n
  BY <1>1
<1>6. E(g)
  <2>1. \A k \in 0..n : k # 0 => k \in 1..n
    BY <1>1
  <2>2. \A k \in 1..n : g[k] = Step(k, g[k - 1])
    BY <1>3, <1>4, <1>5
  <2>3. \A k \in 0..n : g[k] = IF k = 0 THEN <<>> ELSE Step(k, g[k - 1])
    BY <1>4, <2>1, <2>2
  <2>. QED
    BY <1>4, <2>3, Zenon
<1>7. E(c)
  BY <1>6, Zenon
<1> HIDE DEF c
<1>8. c[0] = <<>> /\ \A k \in 1..n : c[k] = Step(k, c[k - 1])
  BY <1>1, <1>7
<1>9. \A k \in 0..n : c[k] \in V
  <2>1. Keeps(h, n, V)
    BY <1>1, <1>3 DEF Keeps
  <2>2. \A k \in 1..n : c[k - 1] \in V => c[k] = h[k][c[k - 1]]
    BY <1>3, <1>8
  <2>3. <<>> \in V /\ c[0] = <<>> /\ n \in Nat
    BY <1>1, <1>8
  <2>. QED
    BY ONLY <2>1, <2>2, <2>3, TypedSame
<1>. QED
  BY <1>2, <1>8, <1>9, Zenon DEF Step, n, V

\* Only blanks are between a and b.
BlankIn(text, a, b) == \A p \in 1..Len(text) : a < p /\ p <= b => text[p] \in Blanks

\* Where the last of the chunks ends, and the one before chunk i.
EndOf(r) == IF r = <<>> THEN 0 ELSE Last(r).end
EndBefore(r, i) == IF i = 1 THEN 0 ELSE r[i - 1].end

\* r are the windows of a text up to `reach`, and what they leave out is blank.
WindowsTo(r, text, size, reach) ==
    /\ InPlace(r, text)
    /\ \A i \in 1..Len(r) :
          /\ Len(r[i].content) <= size /\ r[i].content = Slice(text, r[i].start, r[i].end)
          /\ BlankIn(text, EndBefore(r, i), r[i].start)
    /\ r # <<>> => Last(r).end <= reach
    /\ BlankIn(text, EndOf(r), reach)

\* The windows up to one of them, and the one itself.
LEMMA NextWindow ==
    ASSUME NEW text \in Text, NEW size \in Nat, NEW step \in Nat, NEW k \in Nat,
           (k - 1) * step \in Nat, (k - 1) * step <= Len(text),
           NEW r, NEW reach \in Nat, WindowsTo(r, text, size, reach),
           (k - 1) * step <= reach, reach <= (k - 1) * step + size
    PROVE  WindowsTo(Window(text, size, step, k, r), text, size, (k - 1) * step + size)
<1> DEFINE start == (k - 1) * step
           end == Min({start + size, Len(text)})
           piece == Slice(text, start, end)
           c == Chunk(r, piece, start, end)
<1>1. Window(text, size, step, k, r) = IF IsBlank(piece) THEN r ELSE Append(r, c)
  BY DEF Window
<1>2. start \in Nat /\ start <= Len(text) /\ start <= reach /\ reach <= start + size
  OBVIOUS
<1>3. /\ InPlace(r, text) /\ r \in Seq(ChunkRec)
      /\ \A i \in 1..Len(r) :
            /\ Len(r[i].content) <= size /\ r[i].content = Slice(text, r[i].start, r[i].end)
            /\ BlankIn(text, EndBefore(r, i), r[i].start)
      /\ r # <<>> => Last(r).end <= reach
      /\ BlankIn(text, EndOf(r), reach)
  BY DEF WindowsTo, InPlace
<1> HIDE DEF start
<1>4. /\ end \in Nat /\ start <= end /\ end <= start + size /\ end <= Len(text)
      /\ end \in {start + size, Len(text)}
      /\ piece \in Text /\ Len(piece) <= size
  BY <1>2, WindowChunk
<1>5. \A x : Occurs(x, piece) <=> \E i \in (start + 1)..end : text[i] = x
  <2> HIDE DEF end
  <2>1. start \in Int /\ end \in Int /\ 0 <= start
    BY <1>2, <1>4
  <2>. QED
    BY ONLY <1>4, <2>1, text \in Text, SliceOccurs
<1>6. Len(text) \in Nat
  BY DEF Text
<1>7. r # <<>> => Last(r).end \in Nat /\ Last(r).end <= Len(text)
  BY <1>3, LastInPlace
<1>8. piece = Slice(text, start, end)
  OBVIOUS
<1> HIDE DEF end, piece
<1>9. CASE IsBlank(piece)
  <2>1. r # <<>> => Last(r).end <= start + size
    BY <1>2, <1>3, <1>7, <1>9
  <2>2. ASSUME NEW p \in 1..Len(text), EndOf(r) < p, p <= start + size
        PROVE  text[p] \in Blanks
    <3>1. CASE p <= reach
      BY <1>3, <2>2, <3>1 DEF BlankIn
    <3>2. CASE ~(p <= reach)
      <4>1. p \in (start + 1)..end
        BY <1>2, <1>4, <1>6, <2>2, <3>2
      <4>2. Occurs(text[p], piece)
        BY <1>5, <4>1
      <4>. QED
        BY <1>4, <1>9, <4>2, BlankText
    <3>. QED
      BY <3>1, <3>2
  <2>3. BlankIn(text, EndOf(r), start + size)
    BY <2>2 DEF BlankIn
  <2>. QED
    BY <1>1, <1>3, <1>9, <2>1, <2>3 DEF WindowsTo, start
<1>10. CASE ~IsBlank(piece)
  <2> DEFINE s == Append(r, c)
  <2>1. r # <<>> => Last(r).end <= end
    BY <1>2, <1>3, <1>4, <1>7
  <2>2. InPlace(s, text)
    BY <1>2, <1>3, <1>4, <1>10, <2>1, OneMore
  <2>3. c \in ChunkRec /\ c.content = piece /\ c.start = start /\ c.end = end
    BY <1>2, <1>3, <1>4, ChunkFacts
  <2> HIDE DEF c
  <2>4. /\ Len(s) = Len(r) + 1 /\ s[Len(r) + 1] = c /\ Len(r) \in Nat /\ s # <<>> /\ Last(s) = c
        /\ \A i \in 1..Len(r) : s[i] = r[i]
        /\ \A i \in 1..Len(s) : i \in 1..Len(r) \/ i = Len(r) + 1
    <3>1. r \in Seq(ChunkRec) /\ c \in ChunkRec
      BY <1>3, <2>3
    <3>2. /\ Len(s) = Len(r) + 1 /\ s[Len(r) + 1] = c /\ Len(r) \in Nat /\ s # <<>>
          /\ \A i \in 1..Len(r) : s[i] = r[i]
      BY ONLY <3>1
    <3>3. Last(s) = c
      BY <3>2 DEF Last
    <3> HIDE DEF s
    <3>4. \A i \in 1..Len(s) : i \in 1..Len(r) \/ i = Len(r) + 1
      BY ONLY <3>2
    <3>. QED
      BY ONLY <3>2, <3>3, <3>4
  <2> HIDE DEF s
  <2>5. ASSUME NEW i \in 1..Len(s)
        PROVE  /\ Len(s[i].content) <= size /\ s[i].content = Slice(text, s[i].start, s[i].end)
               /\ BlankIn(text, EndBefore(s, i), s[i].start)
    <3>1. CASE i \in 1..Len(r)
      <4>1. s[i] = r[i] /\ (i # 1 => i - 1 \in 1..Len(r))
        BY <2>4, <3>1
      <4>2. EndBefore(s, i) = EndBefore(r, i)
        BY <2>4, <4>1 DEF EndBefore
      <4>. QED
        BY <1>3, <3>1, <4>1, <4>2
    <3>2. CASE i = Len(r) + 1
      <4>1. EndBefore(s, i) = EndOf(r)
        <5>1. CASE r = <<>>
          BY <3>2, <5>1 DEF EndBefore, EndOf
        <5>2. CASE r # <<>>
          <6>1. Len(r) \in 1..Len(r) /\ i - 1 = Len(r) /\ i # 1
            BY <1>3, <2>4, <3>2, <5>2
          <6>. QED
            BY <2>4, <5>2, <6>1 DEF EndBefore, EndOf, Last
        <5>. QED
          BY <5>1, <5>2
      <4>2. \A p \in 1..Len(text) : p <= start => p <= reach
        BY <1>2
      <4>3. BlankIn(text, EndOf(r), start)
        BY <1>3, <4>2 DEF BlankIn
      <4>. QED
        BY <1>4, <1>8, <2>3, <2>4, <3>2, <4>1, <4>3
    <3>. QED
      BY <2>4, <3>1, <3>2
  <2>6. Last(s).end <= start + size
    BY <1>4, <2>3, <2>4
  <2>7. Window(text, size, step, k, r) = s
    BY <1>1, <1>10 DEF s
  <2>8. BlankIn(text, EndOf(s), start + size)
    <3>1. EndOf(s) = end
      BY <2>3, <2>4 DEF EndOf
    <3>2. \A p \in 1..Len(text) : p <= start + size => p <= end
      BY <1>2, <1>4, <1>6
    <3>. QED
      BY <1>2, <1>4, <3>1, <3>2 DEF BlankIn
  <2>. QED
    BY <2>2, <2>4, <2>5, <2>6, <2>7, <2>8 DEF WindowsTo, start
<1>. QED
  BY <1>9, <1>10

\* The chunks of FixedCharChunker.
LEMMA FixedFacts ==
    ASSUME NEW text \in Text, NEW size \in Nat, NEW overlap \in Nat, overlap < size
    PROVE  /\ WindowsTo(FixedChunks(text, size, overlap), text, size, Len(text))
           /\ ~IsBlank(text) => FixedChunks(text, size, overlap) # <<>>
<1> DEFINE r == FixedChunks(text, size, overlap)
           n == Len(text)
<1>0. n \in Nat
  BY DEF Text
<1>1. CASE n = 0
  <2>1. r = <<>>
    BY <1>1 DEF FixedChunks
  <2>2. InPlace(<<>>, text) /\ IsBlank(text)
    BY <1>1 DEF InPlace, IsBlank, Text
  <2>3. BlankIn(text, EndOf(<<>>), Len(text))
    BY <1>1 DEF BlankIn
  <2> HIDE DEF r
  <2>. QED
    BY <2>1, <2>2, <2>3 DEF r, WindowsTo
<1>2. CASE n # 0
  <2> DEFINE step == WindowStep(size, overlap)
             last == LastWindow(n, size, step)
             m == last + 1
             start(k) == (k - 1) * step
             reach(k) == IF k = 0 THEN 0 ELSE start(k) + size
  <2>1. PICK g : /\ g[0] = <<>>
                 /\ \A k \in 1..m : g[k] = Window(text, size, step, k, g[k - 1])
                 /\ r = g[m]
    BY <1>2, WindowSteps
  <2>2. step \in Nat /\ step <= size /\ last \in Nat /\ last * step + size >= n
    BY ONLY <1>0, size \in Nat, overlap \in Nat, overlap < size, WindowFacts
  <2>3. \A k \in 1..m : start(k) \in Nat /\ start(k) <= n
    BY ONLY <1>0, size \in Nat, overlap \in Nat, overlap < size, WindowStart
  <2> HIDE DEF n, step, r
  <2> HIDE DEF last
  <2>4. \A k \in 1..m : /\ reach(k - 1) \in Nat /\ start(k) <= reach(k - 1)
                        /\ reach(k - 1) <= start(k) + size
    <3> SUFFICES ASSUME NEW k \in 1..m
                 PROVE  /\ reach(k - 1) \in Nat /\ start(k) <= reach(k - 1)
                        /\ reach(k - 1) <= start(k) + size
      OBVIOUS
    <3>1. CASE k = 1
      <4>1. k - 1 = 0 /\ start(k) = 0
        BY <2>2, <3>1
      <4>. QED
        BY <4>1
    <3>2. CASE k # 1
      <4>1. k - 1 \in 1..m /\ k - 1 # 0 /\ k - 1 \in Nat /\ k - 2 \in Nat
        BY <2>2, <3>2
      <4>2. start(k - 1) \in Nat
        BY <2>3, <4>1
      <4>3. start(k) = start(k - 1) + step
        <5> DEFINE j == k - 2
        <5>1. j \in Nat /\ k - 1 = j + 1 /\ (k - 1) - 1 = j
          BY <4>1
        <5> HIDE DEF j
        <5>2. (j + 1) * step = j * step + step
          BY <2>2, <5>1
        <5>. QED
          BY <5>1, <5>2
      <4>4. reach(k - 1) = start(k - 1) + size
        BY <4>1
      <4> HIDE DEF start, reach
      <4>. QED
        BY <2>2, <4>2, <4>3, <4>4
    <3>. QED
      BY <3>1, <3>2
  <2> DEFINE Good(k) == WindowsTo(g[k], text, size, reach(k))
             T == {k \in Nat : k <= m => Good(k)}
  <2>5. 0 \in T
    <3>1. InPlace(<<>>, text)
      BY DEF InPlace
    <3>2. \A p \in 1..Len(text) : ~(p <= 0)
      OBVIOUS
    <3>3. BlankIn(text, EndOf(<<>>), 0)
      BY <3>2 DEF BlankIn
    <3>. QED
      BY <2>1, <3>1, <3>3 DEF WindowsTo
  <2>6. ASSUME NEW k \in T
        PROVE  k + 1 \in T
    <3>1. SUFFICES ASSUME k + 1 <= m
                   PROVE  Good(k + 1)
      OBVIOUS
    <3>2. k + 1 \in 1..m /\ (k + 1) - 1 = k /\ k \in Nat /\ Good(k) /\ k + 1 \in Nat /\ k + 1 # 0
      BY <2>2, <3>1
    <3> DEFINE i == k + 1
    <3>3. /\ i \in 1..m /\ i - 1 = k /\ i \in Nat /\ reach(i) = start(i) + size
          /\ g[i] = Window(text, size, step, i, g[k])
      BY <2>1, <3>2
    <3> HIDE DEF i
    <3>4. /\ start(i) \in Nat /\ start(i) <= Len(text) /\ reach(k) \in Nat
          /\ start(i) <= reach(k) /\ reach(k) <= start(i) + size
      BY <2>3, <2>4, <3>3 DEF n
    <3>5. WindowsTo(g[k], text, size, reach(k))
      BY <3>2
    <3> HIDE DEF reach
    <3>6. WindowsTo(Window(text, size, step, i, g[k]), text, size, start(i) + size)
      BY ONLY <2>2, <3>3, <3>4, <3>5, text \in Text, size \in Nat, NextWindow
    <3>. QED
      BY <3>3, <3>6 DEF i
  <2>7. T = Nat
    <3>1. T \in SUBSET Nat
      OBVIOUS
    <3> HIDE DEF T
    <3>. QED
      BY ONLY <2>5, <2>6, <3>1, InductiveSet
  <2>8. WindowsTo(r, text, size, reach(m))
    <3>1. m \in Nat
      BY <2>2
    <3>2. Good(m)
      <4> HIDE DEF Good
      <4>. QED
        BY <2>7, <3>1
    <3>. QED
      BY <2>1, <3>2
  <2>9. \A p \in 1..Len(text) : p <= reach(m)
    <3>1. reach(m) = last * step + size
      BY <2>2
    <3>2. \A p \in 1..Len(text) : p <= n
      BY DEF n
    <3>3. last * step \in Nat
      BY <2>2
    <3> HIDE DEF reach
    <3>. QED
      BY <1>0, <2>2, <3>1, <3>2, <3>3
  <2>10. BlankIn(text, EndOf(r), Len(text))
    <3>1. BlankIn(text, EndOf(r), reach(m))
      BY <2>8 DEF WindowsTo
    <3> HIDE DEF reach
    <3>. QED
      BY <2>9, <3>1 DEF BlankIn
  <2>11. WindowsTo(r, text, size, Len(text))
    <3>1. r # <<>> => Last(r).end <= Len(text)
      <4>1. InPlace(r, text) /\ r \in Seq(ChunkRec)
        BY <2>8 DEF WindowsTo, InPlace
      <4>. QED
        BY <4>1, LastInPlace
    <3> HIDE DEF reach
    <3>. QED
      BY <2>8, <2>10, <3>1 DEF WindowsTo
  <2>12. ASSUME r = <<>>
         PROVE  IsBlank(text)
    <3>1. DOMAIN text = 1..Len(text)
      BY DEF Text
    <3>2. \A p \in 1..Len(text) : 0 < p /\ p <= Len(text)
      BY <1>0 DEF n
    <3>3. EndOf(r) = 0
      BY <2>12 DEF EndOf
    <3>. QED
      BY <2>10, <3>1, <3>2, <3>3 DEF BlankIn, IsBlank
  <2>. QED
    BY <2>12, <2>11 DEF r
<1>. QED
  BY <1>1, <1>2

-----------------------------------------------------------------------------
(* SentenceChunker.                                                        *)

\* The last of the texts is the last of what FlattenSeq makes of them.
LEMMA JoinFacts ==
    ASSUME NEW sep \in Text, NEW parts \in Seq(Text)
    PROVE  /\ Join(sep, parts) \in Text
           /\ \A x : OccursIn(x, parts) => Occurs(x, Join(sep, parts))
           /\ \A x : Occurs(x, Join(sep, parts)) => OccursIn(x, parts) \/ Occurs(x, sep)
           /\ Len(parts) > 0 /\ EndsFilled(Last(parts)) => EndsFilled(Join(sep, parts))
           /\ Len(parts) = 1 => Join(sep, parts) = parts[1]
<1> DEFINE n == Len(parts)
           piece(i) == IF i = 1 THEN parts[1] ELSE sep \o parts[i]
           s == [i \in 1..n |-> piece(i)]
<1>1. n \in Nat /\ DOMAIN parts = 1..n /\ \A i \in 1..n : parts[i] \in Text
  OBVIOUS
<1>2. Join(sep, parts) = FlattenSeq(s)
  BY <1>1 DEF Join
<1> HIDE DEF n
<1>3. ASSUME NEW i \in 1..n
      PROVE  /\ piece(i) \in Text
             /\ \A x : Occurs(x, parts[i]) => Occurs(x, piece(i))
             /\ \A x : Occurs(x, piece(i)) => Occurs(x, parts[i]) \/ Occurs(x, sep)
             /\ EndsFilled(parts[i]) => EndsFilled(piece(i))
  <2>1. CASE i = 1
    BY <1>1, <2>1
  <2>2. CASE i # 1
    <3> DEFINE p == parts[i]
    <3>1. p \in Text /\ piece(i) = sep \o p
      BY <1>1, <2>2
    <3> HIDE DEF p, piece
    <3> DEFINE u == sep \o p
    <3>2. sep \in Seq(Characters) /\ p \in Seq(Characters)
      BY <3>1 DEF Text
    <3>3. /\ u \in Seq(Characters) /\ Len(u) = Len(sep) + Len(p) /\ Len(sep) \in Nat /\ Len(p) \in Nat
          /\ \A j \in 1..Len(sep) : u[j] = sep[j]
          /\ \A j \in 1..Len(p) : u[Len(sep) + j] = p[j]
          /\ \A j \in 1..Len(u) : j \in 1..Len(sep) \/ j - Len(sep) \in 1..Len(p)
      BY ONLY <3>2, Concatenation
    <3> HIDE DEF u
    <3>4. \A j \in 1..Len(u) : j \in 1..Len(sep) \/ (j - Len(sep) \in 1..Len(p) /\ u[j] = p[j - Len(sep)])
      BY <3>3
    <3>5. \A j \in 1..Len(p) : Len(sep) + j \in 1..Len(u)
      BY <3>3
    <3>6. \A x : Occurs(x, p) => Occurs(x, u)
      BY <3>3, <3>5 DEF Occurs
    <3>7. \A x : Occurs(x, u) => Occurs(x, p) \/ Occurs(x, sep)
      BY <3>3, <3>4 DEF Occurs
    <3>8. EndsFilled(p) => EndsFilled(u)
      BY <3>1, EndsFilledBehind DEF u
    <3>. QED
      BY <3>1, <3>3, <3>6, <3>7, <3>8 DEF p, u, Text
  <2>. QED
    BY <2>1, <2>2
<1>4. \A i \in 1..n : s[i] = piece(i)
  OBVIOUS
<1>5. n = 1 => s = <<parts[1]>>
  BY DEF piece
<1> HIDE DEF piece
<1>6. s \in Seq(Seq(Characters)) /\ Len(s) = n
  <2>1. \A i \in 1..n : s[i] \in Seq(Characters)
    BY <1>3, <1>4 DEF Text
  <2>2. s = [i \in 1..n |-> s[i]]
    OBVIOUS
  <2> HIDE DEF s
  <2>. QED
    BY <1>1, <2>1, <2>2
<1> HIDE DEF s
<1>7. /\ FlattenSeq(s) \in Seq(Characters)
      /\ \A x : Occurs(x, FlattenSeq(s)) <=> \E k \in 1..n : Occurs(x, s[k])
      /\ n > 0 /\ Len(s[n]) > 0 => Len(FlattenSeq(s)) > 0 /\ Last(FlattenSeq(s)) = Last(s[n])
  BY <1>6, FlattenElements
<1>8. \A x : OccursIn(x, parts) => Occurs(x, Join(sep, parts))
  BY <1>2, <1>3, <1>4, <1>7 DEF OccursIn, n
<1>9. \A x : Occurs(x, Join(sep, parts)) => OccursIn(x, parts) \/ Occurs(x, sep)
  BY <1>2, <1>3, <1>4, <1>7 DEF OccursIn, n
<1>10. ASSUME n > 0, EndsFilled(Last(parts))
       PROVE  EndsFilled(Join(sep, parts))
  <2>1. n \in 1..n /\ EndsFilled(parts[n])
    BY <1>1, <1>10 DEF Last, n
  <2>2. EndsFilled(s[n])
    BY <1>3, <1>4, <2>1
  <2>. QED
    BY <1>2, <1>7, <1>10, <2>2 DEF EndsFilled
<1>11. ASSUME n = 1
       PROVE  Join(sep, parts) = parts[1]
  <2> DEFINE p == parts[1]
             e == <<p>>
  <2>1. p \in Seq(Characters) /\ s = e
    BY <1>1, <1>5, <1>11 DEF Text
  <2> HIDE DEF p
  <2>2. e \in Seq(Seq(Characters)) /\ Len(e) = 1 /\ e[1] = p
    BY <2>1
  <2> HIDE DEF e
  <2>3. PICK g : g[0] = <<>> /\ (\A k \in 1..1 : g[k] = g[k - 1] \o e[k]) /\ FlattenSeq(e) = g[1]
    <3>1. PICK g : /\ \A k \in 0..Len(e) : g[k] \in Seq(Characters)
                   /\ g[0] = <<>>
                   /\ \A k \in 1..Len(e) : g[k] = g[k - 1] \o e[k]
                   /\ FlattenSeq(e) = g[Len(e)]
      BY ONLY <2>2, FlattenSteps
    <3>. QED
      BY <2>2, <3>1
  <2>4. g[1] = g[0] \o e[1]
    <3>1. 1 \in 1..1 /\ 1 - 1 = 0
      OBVIOUS
    <3>. QED
      BY <2>3, <3>1
  <2>5. <<>> \o p = p
    BY <2>1
  <2>. QED
    BY <1>2, <2>1, <2>2, <2>3, <2>4, <2>5 DEF p
<1>. QED
  BY <1>2, <1>7, <1>8, <1>9, <1>10, <1>11 DEF n, Text

\* A break is white space inside the text.
LEMMA BreakFacts ==
    ASSUME NEW t \in Text, NEW b \in Breaks(t)
    PROVE  /\ b[1] \in Nat /\ b[2] \in Nat /\ 1 <= b[1] /\ b[1] < b[2] /\ b[2] < Len(t)
           /\ t[b[1]] \in Stops /\ t[b[2] + 1] \in Starters
           /\ \A i \in (b[1] + 1)..b[2] : t[i] \in Blanks
<1>1. DOMAIN t = 1..Len(t) /\ Len(t) \in Nat
  BY DEF Text
<1>2. /\ b \in (1..Len(t)) \X (1..Len(t)) /\ b[1] < b[2] /\ b[2] < Len(t)
      /\ t[b[1]] \in Stops /\ t[b[2] + 1] \in Starters /\ IsBlank(SubSeq(t, b[1] + 1, b[2]))
  BY <1>1, Zenon DEF Breaks
<1> DEFINE x == b[1]
           y == b[2]
<1>3. x \in 1..Len(t) /\ y \in 1..Len(t) /\ x < y /\ y < Len(t) /\ IsBlank(Slice(t, x, y))
  BY <1>2 DEF Slice
<1> HIDE DEF x, y
<1>4. x \in Int /\ y \in Int /\ 0 <= x /\ x <= y /\ y <= Len(t)
  BY <1>1, <1>3
<1>5. Slice(t, x, y) \in Text /\ \A c : Occurs(c, Slice(t, x, y)) <=> \E i \in (x + 1)..y : t[i] = c
  <2>1. Slice(t, x, y) \in Text
    BY ONLY <1>4, t \in Text, SliceFacts
  <2>2. \A c : Occurs(c, Slice(t, x, y)) <=> \E i \in (x + 1)..y : t[i] = c
    BY ONLY <1>4, t \in Text, SliceOccurs
  <2>. QED
    BY <2>1, <2>2
<1>6. \A i \in (x + 1)..y : t[i] \in Blanks
  BY <1>3, <1>5, BlankText
<1>7. x \in Nat /\ y \in Nat /\ 1 <= x /\ x < y /\ y < Len(t)
  BY <1>1, <1>3
<1>. QED
  BY <1>2, <1>6, <1>7 DEF x, y

\* The break that comes next is the first.
LEMMA NextBreakFacts ==
    ASSUME NEW t \in Text, NEW from \in Nat, BreaksAfter(t, from) # {}
    PROVE  /\ NextBreak(t, from) \in Breaks(t) /\ from < NextBreak(t, from)[1]
           /\ \A c \in BreaksAfter(t, from) : NextBreak(t, from)[1] <= c[1]
<1> DEFINE N == BreaksAfter(t, from)
           R == {b[1] : b \in N}
<1>1. \A b \in N : b \in Breaks(t) /\ b[1] \in Nat /\ from < b[1]
  BY BreakFacts DEF BreaksAfter
<1>2. R \in SUBSET Nat /\ R # {} /\ \A b \in N : b[1] \in R
  BY <1>1
<1>3. PICK r \in R : \A q \in R : r <= q
  BY <1>2, LeastNumber
<1>4. PICK b \in N : b[1] = r
  OBVIOUS
<1>5. \A c \in N : b[1] <= c[1]
  <2> HIDE DEF R
  <2>. QED
    BY <1>2, <1>3, <1>4
<1>6. NextBreak(t, from) \in N /\ \A c \in N : NextBreak(t, from)[1] <= c[1]
  BY <1>4, <1>5, Zenon DEF NextBreak
<1>. QED
  BY <1>1, <1>6

\* The recursion of SplitSentences.
LEMMA SentenceSteps ==
    ASSUME NEW t \in Text
    PROVE  \E f \in [0..Len(t) -> Seq(Text)] :
              /\ \A from \in 0..Len(t) :
                    f[from] = IF BreaksAfter(t, from) = {} THEN <<Slice(t, from, Len(t))>>
                              ELSE <<Slice(t, from, NextBreak(t, from)[1])>> \o f[NextBreak(t, from)[2]]
              /\ SplitSentences(t) = f[0]
<1> DEFINE S == 0..Len(t)
           V == Seq(Text)
           last(from) == BreaksAfter(t, from) = {}
           x(from) == NextBreak(t, from)[1]
           y(from) == NextBreak(t, from)[2]
           Body(from, f) == IF last(from) THEN <<Slice(t, from, Len(t))>>
                            ELSE <<Slice(t, from, x(from))>> \o f[y(from)]
           F == [from \in S |-> [f \in [S -> V] |-> Body(from, f)]]
           rank == [from \in S |-> Len(t) - from]
           E(c) == c = [from \in S |-> Body(from, c)]
           c == CHOOSE z : E(z)
<1>1. SplitSentences(t) = c[0]
  BY Zenon DEF SplitSentences
<1>2. Len(t) \in Nat /\ <<>> \in V
  BY DEF Text
<1>3. ASSUME NEW from \in S
      PROVE  /\ ~last(from) => y(from) \in S /\ y(from) > from /\ Slice(t, from, x(from)) \in Text
             /\ Slice(t, from, Len(t)) \in Text
  <2>1. from \in Nat /\ from <= Len(t) /\ from \in Int /\ 0 <= from /\ Len(t) \in Int
    BY <1>2
  <2>2. Slice(t, from, Len(t)) \in Text
    BY <1>2, <2>1, SliceFacts
  <2>3. ASSUME ~last(from)
        PROVE  y(from) \in S /\ y(from) > from /\ Slice(t, from, x(from)) \in Text
    <3>1. NextBreak(t, from) \in Breaks(t) /\ from < x(from)
      BY <2>1, <2>3, NextBreakFacts
    <3>2. x(from) \in Nat /\ y(from) \in Nat /\ x(from) < y(from) /\ y(from) < Len(t)
      BY <3>1, BreakFacts
    <3> DEFINE e == x(from)
    <3>3. e \in Int /\ from <= e /\ e <= Len(t)
      BY <1>2, <2>1, <3>1, <3>2
    <3> HIDE DEF e
    <3>4. Slice(t, from, e) \in Text
      BY ONLY <2>1, <3>3, t \in Text, SliceFacts
    <3>. QED
      BY <1>2, <2>1, <3>1, <3>2, <3>4 DEF e
  <2>. QED
    BY <2>2, <2>3
<1> HIDE DEF last, x, y
<1>4. \A from \in S : \A f \in [S -> V] : Body(from, f) \in V
  BY <1>3
<1> HIDE DEF V
<1>5. \A from \in S : \A f \in [S -> V] : F[from][f] = Body(from, f)
  OBVIOUS
<1>6. F \in [S -> [[S -> V] -> V]]
  BY <1>4
<1>7. rank \in [S -> Nat] /\ \A a, b \in S : a > b => rank[a] < rank[b]
  BY <1>2
<1> HIDE DEF F, rank, S
<1>8. Descends(F, S, rank, V)
  <2>1. ASSUME NEW a \in S, NEW f \in [S -> V], NEW g \in [S -> V],
               \A b \in S : rank[b] < rank[a] => f[b] = g[b]
        PROVE  F[a][f] = F[a][g]
    <3>1. ~last(a) => f[y(a)] = g[y(a)]
      BY <1>3, <1>7, <2>1
    <3>2. Body(a, f) = Body(a, g)
      BY <3>1
    <3>. QED
      BY <1>5, <3>2
  <2>. QED
    BY <1>6, <1>7, <2>1 DEF Descends
<1>9. PICK f \in [S -> V] : \A a \in S : f[a] = F[a][f]
  BY ONLY <1>2, <1>8, RankedRecursion
<1>10. E(f)
  BY <1>5, <1>9
<1>11. E(c)
  BY <1>10, Zenon
<1> HIDE DEF c
<1>12. \A from \in S : c[from] = Body(from, c)
  BY <1>11
<1>13. c \in [S -> V]
  <2> DEFINE T == {a \in S : c[a] \in V}
  <2>1. T \in SUBSET S /\ \A a \in S : a \in T <=> c[a] \in V
    OBVIOUS
  <2> HIDE DEF T
  <2>2. ASSUME NEW a \in S, \A b \in S : rank[b] < rank[a] => b \in T
        PROVE  a \in T
    <3>1. CASE last(a)
      <4>1. c[a] = <<Slice(t, a, Len(t))>>
        BY <1>12, <3>1
      <4>2. <<Slice(t, a, Len(t))>> \in V
        BY <1>3 DEF V
      <4>. QED
        BY <2>1, <4>1, <4>2
    <3>2. CASE ~last(a)
      <4>1. c[a] = <<Slice(t, a, x(a))>> \o c[y(a)]
        BY <1>12, <3>2
      <4>2. y(a) \in S /\ rank[y(a)] < rank[a] /\ Slice(t, a, x(a)) \in Text
        BY <1>3, <1>7, <3>2
      <4>3. c[y(a)] \in V
        BY <2>1, <2>2, <4>2
      <4>4. <<Slice(t, a, x(a))>> \o c[y(a)] \in V
        BY <4>2, <4>3 DEF V
      <4>. QED
        BY <2>1, <4>1, <4>4
    <3>. QED
      BY <3>1, <3>2
  <2>3. T = S
    <3>1. Inherits(S, rank, T)
      BY <2>2, Zenon DEF Inherits
    <3>2. rank \in [S -> Nat] /\ T \in SUBSET S
      BY <1>7, <2>1
    <3>. QED
      BY ONLY <3>1, <3>2, RankedInduction
  <2>4. \A a \in S : c[a] \in V
    BY <2>1, <2>3
  <2>. QED
    BY <1>11, <2>4
<1>. QED
  BY <1>1, <1>12, <1>13 DEF V, S, last, x, y

\* What makes a break.
LEMMA IsBreak ==
    ASSUME NEW t \in Text, NEW x \in Nat, NEW y \in Nat, 1 <= x, x < y, y < Len(t),
           t[x] \in Stops, t[y + 1] \in Starters, \A i \in (x + 1)..y : t[i] \in Blanks
    PROVE  <<x, y>> \in Breaks(t)
<1>1. DOMAIN t = 1..Len(t) /\ Len(t) \in Nat
  BY DEF Text
<1>2. x \in Int /\ y \in Int /\ 0 <= x /\ x <= y /\ y <= Len(t) /\ x \in 1..Len(t) /\ y \in 1..Len(t)
  BY <1>1
<1>3. Slice(t, x, y) \in Text
  BY ONLY <1>2, t \in Text, SliceFacts
<1>4. \A c : Occurs(c, Slice(t, x, y)) <=> \E i \in (x + 1)..y : t[i] = c
  BY ONLY <1>2, t \in Text, SliceOccurs
<1>5. IsBlank(Slice(t, x, y))
  BY <1>3, <1>4, BlankText
<1> DEFINE b == <<x, y>>
<1>6. b[1] = x /\ b[2] = y /\ b \in (1..Len(t)) \X (1..Len(t))
  BY <1>2
<1> HIDE DEF b
<1>7. b \in Breaks(t)
  BY <1>1, <1>5, <1>6 DEF Breaks, Slice
<1>. QED
  BY <1>7 DEF b

\* A slice without a break of the text has none of its own.
LEMMA NoBreakInside ==
    ASSUME NEW t \in Text, NEW from \in Nat, NEW end \in Nat, from <= end, end <= Len(t),
           \A b \in BreaksAfter(t, from) : ~(b[2] < end)
    PROVE  Breaks(Slice(t, from, end)) = {}
<1> SUFFICES ASSUME NEW b \in Breaks(Slice(t, from, end))
             PROVE  FALSE
  OBVIOUS
<1> DEFINE s == Slice(t, from, end)
<1>1. s \in Text /\ Len(s) = end - from /\ \A i \in 1..(end - from) : s[i] = t[from + i]
  BY SliceFacts
<1>2. b \in Breaks(s)
  OBVIOUS
<1> HIDE DEF s
<1> DEFINE x == b[1]
           y == b[2]
<1>3. /\ x \in Nat /\ y \in Nat /\ 1 <= x /\ x < y /\ y < Len(s)
      /\ s[x] \in Stops /\ s[y + 1] \in Starters
      /\ \A i \in (x + 1)..y : s[i] \in Blanks
  BY <1>1, <1>2, BreakFacts
<1> HIDE DEF x, y
<1> DEFINE u == from + x
           v == from + y
<1>4. /\ u \in Nat /\ v \in Nat /\ 1 <= u /\ u < v /\ v < Len(t) /\ from < u /\ v < end
      /\ t[u] \in Stops
  <2>1. x \in 1..(end - from) /\ Len(t) \in Nat
    BY <1>1, <1>3 DEF Text
  <2>2. s[x] = t[from + x]
    BY <1>1, <2>1
  <2>. QED
    BY <1>1, <1>3, <2>1, <2>2
<1>5. t[v + 1] \in Starters
  <2>1. y + 1 \in 1..(end - from) /\ from + (y + 1) = v + 1
    BY <1>1, <1>3
  <2>. QED
    BY <1>1, <1>3, <2>1
<1>6. \A i \in (u + 1)..v : t[i] \in Blanks
  <2> SUFFICES ASSUME NEW i \in (u + 1)..v
               PROVE  t[i] \in Blanks
    OBVIOUS
  <2>1. i - from \in (x + 1)..y /\ i - from \in 1..(end - from) /\ from + (i - from) = i
    BY <1>1, <1>3
  <2>. QED
    BY <1>1, <1>3, <2>1
<1> HIDE DEF u, v
<1>7. <<u, v>> \in Breaks(t)
  BY <1>4, <1>5, <1>6, IsBreak
<1>8. <<u, v>> \in BreaksAfter(t, from)
  BY <1>4, <1>7 DEF BreaksAfter
<1>. QED
  BY <1>4, <1>8

\* A text without a break is one sentence.
LEMMA OneSentence ==
    ASSUME NEW t \in Text, Breaks(t) = {}
    PROVE  Len(SplitSentences(t)) = 1
<1>1. PICK f \in [0..Len(t) -> Seq(Text)] :
         /\ \A from \in 0..Len(t) :
               f[from] = IF BreaksAfter(t, from) = {} THEN <<Slice(t, from, Len(t))>>
                         ELSE <<Slice(t, from, NextBreak(t, from)[1])>> \o f[NextBreak(t, from)[2]]
         /\ SplitSentences(t) = f[0]
  BY SentenceSteps
<1>2. 0 \in 0..Len(t) /\ BreaksAfter(t, 0) = {}
  BY DEF Text, BreaksAfter
<1>3. SplitSentences(t) = <<Slice(t, 0, Len(t))>>
  BY <1>1, <1>2
<1>. QED
  BY <1>3

\* Sentences have no breaks, and drop blanks only.
LEMMA SentenceFacts ==
    ASSUME NEW t \in Text
    PROVE  /\ SplitSentences(t) \in Seq(Text)
           /\ \A k \in 1..Len(SplitSentences(t)) : Breaks(SplitSentences(t)[k]) = {}
           /\ \A c : c \notin Blanks /\ Occurs(c, t) => OccursIn(c, SplitSentences(t))
<1> DEFINE n == Len(t)
           S == 0..n
           last(from) == BreaksAfter(t, from) = {}
           x(from) == NextBreak(t, from)[1]
           y(from) == NextBreak(t, from)[2]
           rank == [from \in S |-> n - from]
           Rest(from, c) == \E i \in (from + 1)..n : t[i] = c
<1>0. n \in Nat /\ 0 \in S
  BY DEF Text
<1>1. PICK f \in [S -> Seq(Text)] :
         /\ \A from \in S :
               f[from] = IF last(from) THEN <<Slice(t, from, n)>>
                         ELSE <<Slice(t, from, x(from))>> \o f[y(from)]
         /\ SplitSentences(t) = f[0]
  BY SentenceSteps
<1>2. \A from \in S : from \in Nat /\ from <= n /\ from \in Int /\ 0 <= from
  BY <1>0
<1>3. rank \in [S -> Nat] /\ \A a, b \in S : a > b => rank[a] < rank[b]
  BY <1>0
<1> HIDE DEF rank
<1> DEFINE Good(from) == /\ \A k \in 1..Len(f[from]) : Breaks(f[from][k]) = {}
                         /\ \A c : c \notin Blanks /\ Rest(from, c) => OccursIn(c, f[from])
           T == {from \in S : Good(from)}
<1>4. ASSUME NEW from \in S, ~last(from)
      PROVE  /\ x(from) \in Nat /\ from < x(from) /\ x(from) < y(from) /\ y(from) \in S /\ from < y(from)
             /\ x(from) <= n
             /\ \A b \in BreaksAfter(t, from) : ~(b[2] < x(from))
             /\ \A i \in (x(from) + 1)..y(from) : t[i] \in Blanks
  <2>1. /\ NextBreak(t, from) \in Breaks(t) /\ from < x(from)
        /\ \A c \in BreaksAfter(t, from) : x(from) <= c[1]
    BY <1>2, <1>4, NextBreakFacts
  <2>2. /\ x(from) \in Nat /\ y(from) \in Nat /\ x(from) < y(from) /\ y(from) < n
        /\ \A i \in (x(from) + 1)..y(from) : t[i] \in Blanks
    BY <2>1, BreakFacts
  <2> HIDE DEF x, y, n
  <2>3. ASSUME NEW b \in BreaksAfter(t, from)
        PROVE  ~(b[2] < x(from))
    <3>1. b \in Breaks(t)
      BY DEF BreaksAfter
    <3>2. b[1] \in Nat /\ b[2] \in Nat /\ b[1] < b[2]
      BY <3>1, BreakFacts
    <3>3. x(from) <= b[1]
      BY <2>1
    <3>. QED
      BY <2>2, <3>2, <3>3
  <2>. QED
    BY <1>0, <1>2, <2>1, <2>2, <2>3
<1>5. ASSUME NEW from \in S, last(from)
      PROVE  Good(from)
  <2> DEFINE a == Slice(t, from, n)
  <2>1. f[from] = <<a>>
    BY <1>1, <1>5
  <2>2. Breaks(a) = {}
    BY <1>0, <1>2, <1>5, NoBreakInside
  <2>3. \A c : Occurs(c, a) <=> Rest(from, c)
    <3>1. n \in Int /\ from \in Int /\ 0 <= from /\ from <= n
      BY <1>0, <1>2
    <3>. QED
      BY ONLY <3>1, n = Len(t), t \in Text, SliceOccurs
  <2> HIDE DEF a
  <2>4. Len(<<a>>) = 1 /\ <<a>>[1] = a
    OBVIOUS
  <2>. QED
    BY <2>1, <2>2, <2>3, <2>4 DEF OccursIn
<1>6. ASSUME NEW from \in S, ~last(from), Good(y(from))
      PROVE  Good(from)
  <2> DEFINE e == x(from)
             z == y(from)
             a == Slice(t, from, e)
             r == f[z]
             q == <<a>> \o r
  <2>1. f[from] = q
    BY <1>1, <1>6
  <2>2. /\ e \in Nat /\ from < e /\ e < z /\ z \in S /\ e <= n
        /\ \A b \in BreaksAfter(t, from) : ~(b[2] < e)
        /\ \A i \in (e + 1)..z : t[i] \in Blanks
    BY <1>4, <1>6
  <2> HIDE DEF e, z
  <2>3. /\ e \in Nat /\ from \in Nat /\ from <= e /\ e <= Len(t) /\ e \in Int /\ from \in Int /\ 0 <= from
        /\ z \in Nat /\ z <= n
    BY <1>2, <2>2 DEF n
  <2>4. Breaks(a) = {}
    BY ONLY <2>2, <2>3, t \in Text, NoBreakInside
  <2>5. a \in Text
    BY ONLY <2>3, t \in Text, SliceFacts
  <2>6. \A c : Occurs(c, a) <=> \E i \in (from + 1)..e : t[i] = c
    BY ONLY <2>3, t \in Text, SliceOccurs
  <2>7. r \in Seq(Text) /\ Good(z)
    BY <1>1, <1>6, <2>2 DEF z
  <2> HIDE DEF a
  <2>8. /\ q \in Seq(Text) /\ Len(q) = Len(r) + 1 /\ q[1] = a
        /\ \A c : OccursIn(c, q) <=> Occurs(c, a) \/ OccursIn(c, r)
        /\ Len(r) \in Nat /\ \A k \in 1..Len(r) : q[k + 1] = r[k]
    <3>1. /\ q \in Seq(Text) /\ Len(q) = Len(r) + 1 /\ q[1] = a
          /\ \A c : OccursIn(c, q) <=> Occurs(c, a) \/ OccursIn(c, r)
      BY <2>5, <2>7, InFront
    <3> HIDE DEF r
    <3>2. Len(r) \in Nat /\ \A k \in 1..Len(r) : (<<a>> \o r)[k + 1] = r[k]
      BY <2>5, <2>7
    <3>. QED
      BY <3>1, <3>2
  <2>9. \A k \in 1..Len(r) : Breaks(r[k]) = {}
    BY <2>7
  <2>10. \A c : c \notin Blanks /\ Rest(z, c) => OccursIn(c, r)
    BY <2>7
  <2> HIDE DEF q, r, Good
  <2>11. ASSUME NEW k \in 1..Len(q)
         PROVE  Breaks(q[k]) = {}
    <3>1. CASE k = 1
      BY <2>4, <2>8, <3>1
    <3>2. CASE k # 1
      <4>1. k - 1 \in 1..Len(r) /\ (k - 1) + 1 = k
        BY <2>8, <3>2
      <4>. QED
        BY <2>8, <2>9, <4>1
    <3>. QED
      BY <3>1, <3>2
  <2>12. ASSUME NEW c, c \notin Blanks, Rest(from, c)
         PROVE  OccursIn(c, q)
    <3>1. PICK i \in (from + 1)..n : t[i] = c
      BY <2>12
    <3>2. i \in (from + 1)..e \/ i \in (e + 1)..z \/ i \in (z + 1)..n
      BY <1>0, <2>2, <2>3
    <3>3. ~(i \in (e + 1)..z)
      BY <2>2, <2>12, <3>1
    <3>. QED
      BY <2>6, <2>8, <2>10, <2>12, <3>1, <3>2, <3>3
  <2>. QED
    BY <2>1, <2>11, <2>12 DEF Good
<1> HIDE DEF Good
<1>7. T = S
  <2>1. T \in SUBSET S /\ \A a \in S : a \in T <=> Good(a)
    OBVIOUS
  <2>2. ASSUME NEW a \in S, \A b \in S : rank[b] < rank[a] => b \in T
        PROVE  a \in T
    <3>1. CASE last(a)
      BY <1>5, <2>1, <3>1
    <3>2. CASE ~last(a)
      <4>1. y(a) \in S /\ a < y(a)
        BY <1>4, <3>2
      <4>2. rank[y(a)] < rank[a]
        BY <1>2, <1>3, <4>1
      <4>3. Good(y(a))
        BY <2>1, <2>2, <4>1, <4>2
      <4>. QED
        BY <1>6, <2>1, <3>2, <4>3
    <3>. QED
      BY <3>1, <3>2
  <2> HIDE DEF T, S
  <2>3. Inherits(S, rank, T)
    BY <2>2, Zenon DEF Inherits
  <2>4. rank \in [S -> Nat] /\ T \in SUBSET S
    BY <1>3, <2>1
  <2>. QED
    BY ONLY <2>3, <2>4, RankedInduction
<1>8. Good(0)
  BY <1>0, <1>7
<1>9. \A c : Rest(0, c) <=> Occurs(c, t)
  BY DEF Occurs
<1>10. f[0] \in Seq(Text)
  BY <1>0, <1>1
<1>. QED
  BY <1>1, <1>8, <1>9, <1>10 DEF Good

\* The sum of the lengths.
LEMMA TotalSteps ==
    ASSUME NEW s \in Seq(Text),
           NEW i \in Nat,
           i >= 1,
           NEW j \in Nat,
           i - 1 <= j,
           j <= Len(s)
    PROVE  \E g : /\ \A k \in 0..(j + 1 - i) : g[k] \in Nat
                  /\ g[0] = 0
                  /\ \A k \in 1..(j + 1 - i) :
                        g[k] = g[k - 1] + Len(s[i + k - 1]) + 1
                  /\ Total(s, i, j) = g[(j + 1 - i)]
<1> DEFINE n == (j + 1 - i)
           V == Nat
           Step(k, v) == v + Len(s[i + k - 1]) + 1
           h == [k \in 1..n |-> [v \in V |-> Step(k, v)]]
           E(c) == c = [k \in 0..n |-> IF k = 0 THEN 0 ELSE Step(k, c[k - 1])]
           c == CHOOSE f : E(f)
<1>1. n \in Nat /\ 0 \in V /\ \A k \in 1..n : \A v \in V : Step(k, v) \in V
  <2>1. ASSUME NEW k \in 1..n
        PROVE  Len(s[i + k - 1]) \in Nat
    <3>1. i + k - 1 \in 1..Len(s)
      OBVIOUS
    <3>2. s[i + k - 1] \in Text
      BY <3>1
    <3>. QED
      BY <3>2 DEF Text
  <2>. QED
    BY <2>1
<1>2. Total(s, i, j) = c[n]
  BY Zenon DEF Total, Loop
<1> HIDE DEF Step, n, V
<1>3. \A k \in 1..n : \A v \in V : h[k][v] = Step(k, v)
  OBVIOUS
<1> HIDE DEF h
<1>4. PICK g : /\ g = [k \in 0..n |-> g[k]] /\ g[0] = 0
               /\ \A k \in 1..n : g[k] = h[k][g[k - 1]]
               /\ \A k \in 0..n : g[k] \in V
  <2>1. Keeps(h, n, V)
    BY <1>1, <1>3 DEF Keeps
  <2>. QED
    BY ONLY <1>1, <2>1, TypedSteps
<1>5. \A k \in 1..n : k - 1 \in 0..n
  BY <1>1
<1>6. E(g)
  <2>1. \A k \in 0..n : k # 0 => k \in 1..n
    BY <1>1
  <2>2. \A k \in 1..n : g[k] = Step(k, g[k - 1])
    BY <1>3, <1>4, <1>5
  <2>3. \A k \in 0..n : g[k] = IF k = 0 THEN 0 ELSE Step(k, g[k - 1])
    BY <1>4, <2>1, <2>2
  <2>. QED
    BY <1>4, <2>3, Zenon
<1>7. E(c)
  BY <1>6, Zenon
<1> HIDE DEF c
<1>8. c[0] = 0 /\ \A k \in 1..n : c[k] = Step(k, c[k - 1])
  BY <1>1, <1>7
<1>9. \A k \in 0..n : c[k] \in V
  <2>1. Keeps(h, n, V)
    BY <1>1, <1>3 DEF Keeps
  <2>2. \A k \in 1..n : c[k - 1] \in V => c[k] = h[k][c[k - 1]]
    BY <1>3, <1>8
  <2>3. 0 \in V /\ c[0] = 0 /\ n \in Nat
    BY <1>1, <1>8
  <2>. QED
    BY ONLY <2>1, <2>2, <2>3, TypedSame
<1>. QED
  BY <1>2, <1>8, <1>9, Zenon DEF Step, n, V

\* One sentence more.
LEMMA TotalOfMore ==
    ASSUME NEW s \in Seq(Text), NEW i \in Nat, i >= 1, NEW j \in Nat, i <= j, j <= Len(s)
    PROVE  /\ Total(s, i, j) \in Nat /\ Total(s, i, j - 1) \in Nat
           /\ Total(s, i, j) = Total(s, i, j - 1) + Len(s[j]) + 1
<1> DEFINE n == j + 1 - i
           m == j - 1
           len(k) == Len(s[i + k - 1])
<1>0. n \in Nat /\ n >= 1 /\ m \in Nat /\ m + 1 - i = n - 1 /\ i - 1 <= m /\ m <= Len(s) /\ i - 1 <= j
  OBVIOUS
<1> HIDE DEF m
<1>1. PICK g : /\ \A k \in 0..(j + 1 - i) : g[k] \in Nat
               /\ g[0] = 0
               /\ \A k \in 1..(j + 1 - i) : g[k] = g[k - 1] + len(k) + 1
               /\ Total(s, i, j) = g[j + 1 - i]
  BY <1>0, TotalSteps
<1>2. PICK h : /\ \A k \in 0..(m + 1 - i) : h[k] \in Nat
               /\ h[0] = 0
               /\ \A k \in 1..(m + 1 - i) : h[k] = h[k - 1] + len(k) + 1
               /\ Total(s, i, m) = h[m + 1 - i]
  BY <1>0, TotalSteps
<1>3. i + n - 1 = j
  OBVIOUS
<1>4. len(n) = Len(s[j])
  BY <1>3
<1>5. n = j + 1 - i
  OBVIOUS
<1> HIDE DEF n, len
<1> DEFINE T == {k \in Nat : k <= n - 1 => g[k] = h[k]}
<1>6. 0 \in T
  BY <1>1, <1>2
<1>7. ASSUME NEW k \in T
      PROVE  k + 1 \in T
  <2> SUFFICES ASSUME k + 1 <= n - 1
               PROVE  g[k + 1] = h[k + 1]
    OBVIOUS
  <2>1. (k + 1) - 1 = k /\ k + 1 \in 1..n /\ k + 1 \in 1..(n - 1) /\ g[k] = h[k]
    BY <1>0
  <2>2. g[k + 1] = g[k] + len(k + 1) + 1
    BY <1>1, <1>5, <2>1
  <2>3. h[k + 1] = h[k] + len(k + 1) + 1
    BY <1>0, <1>2, <2>1
  <2>. QED
    BY <2>1, <2>2, <2>3
<1>8. T = Nat
  <2>1. T \in SUBSET Nat
    OBVIOUS
  <2> HIDE DEF T
  <2>. QED
    BY ONLY <1>6, <1>7, <2>1, InductiveSet
<1>9. n - 1 \in T /\ n \in 1..n /\ n - 1 \in 0..n /\ n \in 0..n
  BY <1>0, <1>8
<1>10. g[n - 1] = h[n - 1]
  BY <1>9
<1>11. g[n] = g[n - 1] + len(n) + 1
  BY <1>1, <1>5, <1>9
<1>12. g[n] \in Nat /\ g[n - 1] \in Nat
  BY <1>1, <1>5, <1>9
<1>. QED
  BY <1>0, <1>1, <1>2, <1>4, <1>5, <1>10, <1>11, <1>12 DEF m

\* Sentences joined by blanks are as long as the sum says.
LEMMA JoinLength ==
    ASSUME ChunkerAssumption, NEW s \in Seq(Text), NEW i \in Nat, i >= 1, NEW j \in Nat, i <= j, j <= Len(s)
    PROVE  Len(Join(<<Space>>, SubSeq(s, i, j))) + 1 = Total(s, i, j)
<1> DEFINE n == j + 1 - i
           parts == SubSeq(s, i, j)
           piece(k) == IF k = 1 THEN parts[1] ELSE <<Space>> \o parts[k]
           q == [k \in DOMAIN parts |-> piece(k)]
<1>0. n \in Nat /\ n >= 1 /\ i - 1 <= j
  OBVIOUS
<1>1. parts \in Seq(Text) /\ Len(parts) = n /\ DOMAIN parts = 1..n /\ \A k \in 1..n : parts[k] = s[i + k - 1] /\ parts[k] \in Text
  OBVIOUS
<1>2. Join(<<Space>>, parts) = FlattenSeq(q)
  BY DEF Join
<1>3. n = j + 1 - i
  OBVIOUS
<1> HIDE DEF n, parts
<1>4. ASSUME NEW k \in 1..n
      PROVE  /\ q[k] \in Seq(Characters) /\ Len(s[i + k - 1]) \in Nat
             /\ k = 1 => Len(q[k]) = Len(s[i + k - 1])
             /\ k # 1 => Len(q[k]) = Len(s[i + k - 1]) + 1
  <2> DEFINE p == parts[k]
  <2>1. q[k] = (IF k = 1 THEN p ELSE <<Space>> \o p) /\ p \in Seq(Characters) /\ p = s[i + k - 1]
    BY <1>1 DEF Text
  <2>2. <<Space>> \in Seq(Characters)
    BY TextConstants DEF Text
  <2> HIDE DEF p, q
  <2>3. <<Space>> \o p \in Seq(Characters) /\ Len(<<Space>> \o p) = 1 + Len(p) /\ Len(p) \in Nat
    BY <2>1, <2>2
  <2>. QED
    BY <2>1, <2>3
<1>5. q \in Seq(Seq(Characters)) /\ Len(q) = n
  <2>1. q = [k \in 1..n |-> q[k]]
    BY <1>1
  <2> HIDE DEF q
  <2>2. \A k \in 1..n : q[k] \in Seq(Characters)
    BY <1>4
  <2>3. q \in [1..n -> Seq(Characters)]
    BY ONLY <2>1, <2>2
  <2>4. q \in Seq(Seq(Characters))
    BY ONLY <1>0, <2>3
  <2>. QED
    BY ONLY <1>0, <2>1, <2>4
<1> HIDE DEF q
<1>6. PICK f : /\ \A k \in 0..n : f[k] \in Seq(Characters)
               /\ f[0] = <<>>
               /\ \A k \in 1..n : f[k] = f[k - 1] \o q[k]
               /\ FlattenSeq(q) = f[n]
  BY <1>5, FlattenSteps
<1>7. PICK g : /\ \A k \in 0..(j + 1 - i) : g[k] \in Nat
               /\ g[0] = 0
               /\ \A k \in 1..(j + 1 - i) : g[k] = g[k - 1] + Len(s[i + k - 1]) + 1
               /\ Total(s, i, j) = g[j + 1 - i]
  BY <1>0, TotalSteps
<1> DEFINE T == {k \in Nat : k <= n => Len(f[k]) = IF k = 0 THEN 0 ELSE g[k] - 1}
<1>8. 0 \in T
  BY <1>6
<1>9. ASSUME NEW k \in T
      PROVE  k + 1 \in T
  <2> SUFFICES ASSUME k + 1 <= n
               PROVE  Len(f[k + 1]) = g[k + 1] - 1
    OBVIOUS
  <2>1. (k + 1) - 1 = k /\ k + 1 \in 1..n /\ k \in 0..n /\ Len(f[k]) = IF k = 0 THEN 0 ELSE g[k] - 1
    BY <1>0
  <2> DEFINE z == k + 1
             w == Len(s[i + z - 1])
  <2>2. f[z] = f[k] \o q[z] /\ f[k] \in Seq(Characters) /\ q[z] \in Seq(Characters)
    BY <1>4, <1>6, <2>1
  <2>3. g[z] = g[k] + w + 1 /\ g[k] \in Nat /\ w \in Nat
    BY <1>3, <1>4, <1>7, <2>1
  <2>4. (k = 0 => Len(q[z]) = w) /\ (k # 0 => Len(q[z]) = w + 1)
    BY <1>4, <2>1
  <2> HIDE DEF z, w
  <2>5. Len(f[z]) = Len(f[k]) + Len(q[z])
    BY <2>2
  <2>6. k = 0 => g[k] = 0
    BY <1>7
  <2>. QED
    BY <2>1, <2>3, <2>4, <2>5, <2>6 DEF z
<1>10. T = Nat
  <2>1. T \in SUBSET Nat
    OBVIOUS
  <2> HIDE DEF T
  <2>. QED
    BY ONLY <1>8, <1>9, <2>1, InductiveSet
<1>11. Len(f[n]) = g[n] - 1
  <2>1. n \in T
    BY <1>0, <1>10
  <2>. QED
    BY <1>0, <2>1
<1>12. g[n] \in Nat
  BY <1>0, <1>3, <1>7
<1>. QED
  BY <1>2, <1>3, <1>6, <1>7, <1>11, <1>12 DEF parts

\* The sentences of a chunk: the first, and further ones that fit.
LEMMA LastSentenceFacts ==
    ASSUME NEW s \in Seq(Text), NEW i \in Nat, i >= 1, i <= Len(s), NEW target \in Nat
    PROVE  /\ LastSentence(s, i, target) \in i..Len(s)
           /\ LastSentence(s, i, target) > i =>
                 Total(s, i, LastSentence(s, i, target) - 1) + Len(s[LastSentence(s, i, target)]) <= target
<1> DEFINE fits(k) == Total(s, i, k - 1) + Len(s[k]) <= target
           T == {j \in i..Len(s) : \A k \in (i + 1)..j : fits(k)}
           last == Max(T)
<1>1. last = LastSentence(s, i, target)
  BY DEF LastSentence
<1> HIDE DEF fits
<1>2. T \in SUBSET (1..Len(s)) /\ i \in T
  OBVIOUS
<1>3. \E x \in T : \A y \in T : x >= y
  <2> HIDE DEF T
  <2>1. Len(s) \in Nat
    OBVIOUS
  <2>2. PICK x \in T : \A y \in T : y <= x
    BY ONLY <1>2, <2>1, GreatestNumber
  <2>. QED
    BY <1>2, <2>2
<1>4. last \in T
  BY <1>3, Zenon DEF Max
<1>5. last \in i..Len(s) /\ (last > i => fits(last))
  <2> HIDE DEF last
  <2>1. last \in i..Len(s) /\ \A k \in (i + 1)..last : fits(k)
    BY <1>4
  <2>2. last > i => last \in (i + 1)..last
    BY <2>1
  <2>. QED
    BY <2>1, <2>2
<1> HIDE DEF last, T
<1>. QED
  BY <1>1, <1>5 DEF fits

\* What GroupSentences goes through.
Grouping == [next : Nat \ {0}, chunks : Seq(ChunkRec)]

\* Sentences at.next..j make one chunk more of `at`, and it is `made`; no sentence is left out
\* before the next chunk.
OneMoreGroup(text, s, target, at, made, j, next, start, end) ==
    /\ at.next <= Len(s) /\ at.next < next /\ next <= j + 1
    /\ j > at.next => Total(s, at.next, j - 1) + Len(s[j]) <= target
    /\ made = [next |-> next,
               chunks |-> Append(at.chunks, Chunk(at.chunks, Join(<<Space>>, SubSeq(s, at.next, j)), start, end))]
    /\ InPlace(at.chunks, text) => /\ start <= end /\ end <= Len(text)
                                   /\ at.chunks # <<>> => Last(at.chunks).end <= end

\* What a step of GroupSentences makes.
LEMMA GroupFacts ==
    ASSUME ChunkerAssumption, NEW text \in Text, NEW s \in Seq(Text), NEW target \in Nat, NEW overlap \in Nat,
           NEW at \in Grouping
    PROVE  \/ at.next > Len(s) /\ Group(text, s, target, overlap, at) = at
           \/ \E j \in at.next..Len(s), next \in Nat \ {0}, start, end \in Nat :
                 OneMoreGroup(text, s, target, at, Group(text, s, target, overlap, at), j, next, start, end)
<1> DEFINE i == at.next
           r == at.chunks
           j == LastSentence(s, i, target)
           content == Join(<<Space>>, SubSeq(s, i, j))
           start == IF r = <<>> THEN 0 ELSE Last(r).end
           end == Min({start + Len(content), Len(text)})
           next == Max({j + 1 - overlap, i + 1})
<1>1. Group(text, s, target, overlap, at)
         = IF i > Len(s) THEN at ELSE [next |-> next, chunks |-> Append(r, Chunk(r, content, start, end))]
  BY Zenon DEF Group
<1>2. i \in Nat /\ i >= 1 /\ r \in Seq(ChunkRec) /\ Len(text) \in Nat /\ Len(s) \in Nat
  BY DEF Grouping, Text
<1>3. CASE i > Len(s)
  BY <1>1, <1>3
<1>4. CASE i <= Len(s)
  <2>1. j \in i..Len(s) /\ (j > i => Total(s, i, j - 1) + Len(s[j]) <= target)
    BY <1>2, <1>4, LastSentenceFacts
  <2>2. ~(i > Len(s))
    BY <1>2, <1>4
  <2> HIDE DEF j, i, r
  <2>3. content \in Text
    <3> DEFINE parts == SubSeq(s, i, j)
    <3>1. parts \in Seq(Text)
      BY <1>2, <2>1
    <3> HIDE DEF parts
    <3>2. <<Space>> \in Text
      BY TextConstants
    <3>3. Join(<<Space>>, parts) \in Text
      BY <3>1, <3>2, JoinFacts
    <3>. QED
      BY <3>3 DEF parts
  <2> HIDE DEF content
  <2>4. start \in Nat /\ (InPlace(r, text) => start <= Len(text)) /\ (r # <<>> => start = Last(r).end)
    BY <1>2, LastInPlace
  <2>5. Len(content) \in Nat
    BY <2>3 DEF Text
  <2> HIDE DEF start
  <2>6. end \in Nat /\ (start <= Len(text) => start <= end) /\ end <= Len(text)
    <3> DEFINE x == start + Len(content)
               y == Len(text)
    <3>1. x \in Nat /\ y \in Nat /\ x >= start /\ x \in Int /\ y \in Int
      BY <1>2, <2>4, <2>5
    <3> HIDE DEF x, y
    <3>2. Min({x, y}) \in {x, y} /\ Min({x, y}) <= x /\ Min({x, y}) <= y
      BY ONLY <3>1, MinOfTwo
    <3> DEFINE z == Min({x, y})
    <3> HIDE DEF z
    <3>3. z \in {x, y} /\ z <= y
      BY <3>2 DEF z
    <3>4. z \in Nat /\ (start <= y => start <= z)
      BY <2>4, <3>1, <3>3
    <3>. QED
      BY <3>3, <3>4 DEF x, y, z
  <2>7. next \in Nat \ {0} /\ i < next /\ next <= j + 1
    <3> DEFINE x == j + 1 - overlap
               y == i + 1
    <3>1. x \in Int /\ y \in Nat /\ y >= 1 /\ y \in Int /\ x <= j + 1 /\ y <= j + 1 /\ i < y /\ i \in Nat /\ j \in Nat
      BY <1>2, <2>1
    <3> HIDE DEF x, y
    <3>2. Max({x, y}) \in {x, y} /\ Max({x, y}) >= y
      BY ONLY <3>1, MaxOfTwo
    <3> DEFINE z == Max({x, y})
    <3> HIDE DEF z
    <3>3. z \in {x, y} /\ z >= y
      BY <3>2 DEF z
    <3>4. z \in Nat \ {0} /\ i < z /\ z <= j + 1
      BY <3>1, <3>3
    <3>. QED
      BY <3>4 DEF x, y, z
  <2> HIDE DEF end, next
  <2>8. Group(text, s, target, overlap, at) = [next |-> next, chunks |-> Append(r, Chunk(r, content, start, end))]
    BY <1>1, <2>2
  <2>9. InPlace(r, text) => start <= end /\ end <= Len(text) /\ (r # <<>> => Last(r).end <= end)
    BY <2>4, <2>6
  <2>10. OneMoreGroup(text, s, target, at, Group(text, s, target, overlap, at), j, next, start, end)
    BY <1>4, <2>1, <2>7, <2>8, <2>9, Zenon DEF OneMoreGroup, i, r, content
  <2>11. j \in at.next..Len(s) /\ next \in Nat \ {0} /\ start \in Nat /\ end \in Nat
    BY <2>1, <2>4, <2>6, <2>7 DEF i
  <2>. QED
    BY ONLY <2>10, <2>11, Zenon
<1>. QED
  BY <1>2, <1>3, <1>4

\* A step of the loop of SentenceChunker makes chunks.
LEMMA GroupTyped ==
    ASSUME ChunkerAssumption, NEW text \in Text, NEW s \in Seq(Text), NEW target \in Nat, NEW overlap \in Nat,
           NEW at \in Grouping
    PROVE  Group(text, s, target, overlap, at) \in Grouping
<1>1. CASE at.next > Len(s) /\ Group(text, s, target, overlap, at) = at
  BY <1>1
<1>2. ASSUME NEW j \in at.next..Len(s), NEW next \in Nat \ {0}, NEW start \in Nat, NEW end \in Nat,
             OneMoreGroup(text, s, target, at, Group(text, s, target, overlap, at), j, next, start, end)
      PROVE  Group(text, s, target, overlap, at) \in Grouping
  <2> DEFINE parts == SubSeq(s, at.next, j)
             content == Join(<<Space>>, parts)
             r == at.chunks
  <2>1. parts \in Seq(Text) /\ r \in Seq(ChunkRec)
    BY DEF Grouping
  <2>2. Group(text, s, target, overlap, at) = [next |-> next, chunks |-> Append(r, Chunk(r, content, start, end))]
    BY <1>2 DEF OneMoreGroup
  <2> HIDE DEF parts, r
  <2>3. content \in Text
    BY <2>1, TextConstants, JoinFacts
  <2> HIDE DEF content
  <2>4. Chunk(r, content, start, end) \in ChunkRec
    BY <2>1, <2>3, ChunkFacts
  <2>5. Append(r, Chunk(r, content, start, end)) \in Seq(ChunkRec)
    BY <2>1, <2>4
  <2>. QED
    BY <2>2, <2>5 DEF Grouping
<1>. QED
  BY <1>1, <1>2, GroupFacts, Zenon

\* The loop of SentenceChunker.
LEMMA GroupSteps ==
    ASSUME ChunkerAssumption,
           NEW text \in Text,
           NEW s \in Seq(Text),
           NEW target \in Nat,
           NEW overlap \in Nat
    PROVE  \E g : /\ \A k \in 0..Len(s) : g[k] \in Grouping
                  /\ g[0] = [next |-> 1, chunks |-> <<>>]
                  /\ \A k \in 1..Len(s) :
                        g[k] = Group(text, s, target, overlap, g[k - 1])
                  /\ GroupSentences(text, s, target, overlap) = (g[Len(s)]).chunks
<1> DEFINE n == Len(s)
           V == Grouping
           Step(k, v) == Group(text, s, target, overlap, v)
           h == [k \in 1..n |-> [v \in V |-> Step(k, v)]]
           E(c) == c = [k \in 0..n |-> IF k = 0 THEN [next |-> 1, chunks |-> <<>>] ELSE Step(k, c[k - 1])]
           c == CHOOSE f : E(f)
<1>1. n \in Nat /\ [next |-> 1, chunks |-> <<>>] \in V /\ \A k \in 1..n : \A v \in V : Step(k, v) \in V
  <2>1. n \in Nat /\ <<>> \in Seq(ChunkRec) /\ 1 \in Nat \ {0}
    OBVIOUS
  <2>2. [next |-> 1, chunks |-> <<>>] \in V
    BY <2>1 DEF Grouping
  <2>. QED
    BY <2>1, <2>2, GroupTyped
<1>2. GroupSentences(text, s, target, overlap) = (c[n]).chunks
  BY Zenon DEF GroupSentences, Loop
<1> HIDE DEF Step, n, V
<1>3. \A k \in 1..n : \A v \in V : h[k][v] = Step(k, v)
  OBVIOUS
<1> HIDE DEF h
<1>4. PICK g : /\ g = [k \in 0..n |-> g[k]] /\ g[0] = [next |-> 1, chunks |-> <<>>]
               /\ \A k \in 1..n : g[k] = h[k][g[k - 1]]
               /\ \A k \in 0..n : g[k] \in V
  <2>1. Keeps(h, n, V)
    BY <1>1, <1>3 DEF Keeps
  <2>. QED
    BY ONLY <1>1, <2>1, TypedSteps
<1>5. \A k \in 1..n : k - 1 \in 0..n
  BY <1>1
<1>6. E(g)
  <2>1. \A k \in 0..n : k # 0 => k \in 1..n
    BY <1>1
  <2>2. \A k \in 1..n : g[k] = Step(k, g[k - 1])
    BY <1>3, <1>4, <1>5
  <2>3. \A k \in 0..n : g[k] = IF k = 0 THEN [next |-> 1, chunks |-> <<>>] ELSE Step(k, g[k - 1])
    BY <1>4, <2>1, <2>2
  <2>. QED
    BY <1>4, <2>3, Zenon
<1>7. E(c)
  BY <1>6, Zenon
<1> HIDE DEF c
<1>8. c[0] = [next |-> 1, chunks |-> <<>>] /\ \A k \in 1..n : c[k] = Step(k, c[k - 1])
  BY <1>1, <1>7
<1>9. \A k \in 0..n : c[k] \in V
  <2>1. Keeps(h, n, V)
    BY <1>1, <1>3 DEF Keeps
  <2>2. \A k \in 1..n : c[k - 1] \in V => c[k] = h[k][c[k - 1]]
    BY <1>3, <1>8
  <2>3. [next |-> 1, chunks |-> <<>>] \in V /\ c[0] = [next |-> 1, chunks |-> <<>>] /\ n \in Nat
    BY <1>1, <1>8
  <2>. QED
    BY ONLY <2>1, <2>2, <2>3, TypedSame
<1>. QED
  BY <1>2, <1>8, <1>9, Zenon DEF Step, n, V

\* Sentences without breaks, none of them blank.
AreSentences(s) == s \in Seq(Text) /\ \A k \in 1..Len(s) : Breaks(s[k]) = {} /\ ~IsBlank(s[k])

\* The content of a chunk is one sentence, or as many as fit.
LEMMA GroupContent ==
    ASSUME ChunkerAssumption, NEW s, AreSentences(s), NEW i \in Nat, i >= 1, NEW j \in i..Len(s), NEW target \in Nat,
           j > i => Total(s, i, j - 1) + Len(s[j]) <= target
    PROVE  /\ Join(<<Space>>, SubSeq(s, i, j)) \in Text
           /\ ~IsBlank(Join(<<Space>>, SubSeq(s, i, j)))
           /\ Len(Join(<<Space>>, SubSeq(s, i, j))) <= target \/ Breaks(Join(<<Space>>, SubSeq(s, i, j))) = {}
<1> DEFINE parts == SubSeq(s, i, j)
           sep == <<Space>>
           content == Join(sep, parts)
<1>0. s \in Seq(Text) /\ i \in 1..Len(s) /\ Len(s) \in Nat /\ j \in Nat /\ i <= j /\ j <= Len(s) /\ s[i] \in Text
  BY DEF AreSentences
<1>1. parts \in Seq(Text) /\ Len(parts) = j + 1 - i /\ parts[1] = s[i] /\ 1 \in 1..Len(parts)
  BY ONLY <1>0, i \in Nat, i >= 1
<1>2. sep \in Text
  BY TextConstants
<1>3. Len(content) + 1 = Total(s, i, j)
  BY <1>0, JoinLength
<1> HIDE DEF parts, sep
<1>4. /\ content \in Text
      /\ \A x : OccursIn(x, parts) => Occurs(x, content)
      /\ Len(parts) = 1 => content = parts[1]
  BY ONLY <1>1, <1>2, JoinFacts
<1> HIDE DEF content
<1>5. ~IsBlank(content)
  <2>1. PICK c : c \notin Blanks /\ Occurs(c, s[i])
    BY <1>0, BlankText DEF AreSentences
  <2>2. OccursIn(c, parts)
    BY <1>1, <2>1 DEF OccursIn
  <2>. QED
    BY <1>4, <2>1, <2>2, BlankText
<1>6. Len(content) <= target \/ Breaks(content) = {}
  <2>1. CASE j = i
    <3>1. Len(parts) = 1
      BY <1>0, <1>1, <2>1
    <3>. QED
      BY <1>0, <1>1, <1>4, <3>1 DEF AreSentences
  <2>2. CASE j # i
    <3>1. Total(s, i, j) = Total(s, i, j - 1) + Len(s[j]) + 1 /\ Total(s, i, j - 1) \in Nat
      BY <1>0, TotalOfMore
    <3>2. j > i
      BY <1>0, <2>2
    <3>3. Len(content) \in Nat /\ Len(s[j]) \in Nat
      <4>1. s[j] \in Text
        BY <1>0
      <4>. QED
        BY <1>4, <4>1 DEF Text
    <3> DEFINE a == Len(content)
               b == Len(s[j])
               c == Total(s, i, j - 1)
    <3>4. a + 1 = c + b + 1 /\ c + b <= target /\ a \in Nat /\ b \in Nat /\ c \in Nat
      BY <1>3, <3>1, <3>2, <3>3
    <3> HIDE DEF a, b, c
    <3>5. a <= target
      BY <3>4
    <3>. QED
      BY <3>5 DEF a
  <2>. QED
    BY <2>1, <2>2
<1>. QED
  BY <1>4, <1>5, <1>6 DEF content, parts, sep

\* Chunks of the text that are one sentence, or fit.
Grouped(r, text, target) ==
    /\ InPlace(r, text)
    /\ \A k \in 1..Len(r) : Len(r[k].content) <= target \/ Breaks(r[k].content) = {}

\* One chunk more.
LEMMA NextGroup ==
    ASSUME ChunkerAssumption, NEW text \in Text, NEW s, AreSentences(s), NEW target \in Nat, NEW at \in Grouping,
           Grouped(at.chunks, text, target), NEW made,
           NEW j \in at.next..Len(s), NEW next \in Nat \ {0}, NEW start \in Nat, NEW end \in Nat,
           OneMoreGroup(text, s, target, at, made, j, next, start, end)
    PROVE  Grouped(made.chunks, text, target) /\ made.chunks # <<>>
<1> DEFINE i == at.next
           r == at.chunks
           content == Join(<<Space>>, SubSeq(s, i, j))
           c == Chunk(r, content, start, end)
<1>1. i \in Nat /\ i >= 1 /\ r \in Seq(ChunkRec) /\ j \in i..Len(s)
  BY DEF Grouping
<1>2. /\ j > i => Total(s, i, j - 1) + Len(s[j]) <= target
      /\ made.chunks = Append(r, c)
      /\ InPlace(r, text) => /\ start <= end /\ end <= Len(text)
                             /\ r # <<>> => Last(r).end <= end
  BY DEF OneMoreGroup
<1>3. InPlace(r, text) /\ \A k \in 1..Len(r) : Len(r[k].content) <= target \/ Breaks(r[k].content) = {}
  BY DEF Grouped
<1> HIDE DEF i, r
<1>4. content \in Text /\ ~IsBlank(content) /\ (Len(content) <= target \/ Breaks(content) = {})
  BY <1>1, <1>2, GroupContent
<1> HIDE DEF content
<1>5. InPlace(Append(r, c), text)
  BY ONLY <1>2, <1>3, <1>4, text \in Text, start \in Nat, end \in Nat, OneMore
<1>6. c \in ChunkRec /\ c.content = content
  BY <1>1, <1>4, ChunkFacts
<1> HIDE DEF c
<1>7. /\ Append(r, c) \in Seq(ChunkRec) /\ Append(r, c) # <<>>
      /\ \A k \in 1..Len(Append(r, c)) : Append(r, c)[k] = c \/ (k \in 1..Len(r) /\ Append(r, c)[k] = r[k])
  BY ONLY <1>1, <1>6
<1>. QED
  BY <1>2, <1>3, <1>4, <1>5, <1>6, <1>7 DEF Grouped

\* The chunks of SentenceChunker.
LEMMA SentenceChunksFacts ==
    ASSUME ChunkerAssumption, NEW text \in Text, NEW target \in Nat, NEW overlap \in Nat
    PROVE  /\ Grouped(SentenceChunks(text, target, overlap), text, target)
           /\ ~IsBlank(text) => SentenceChunks(text, target, overlap) # <<>>
<1>1. CASE IsBlank(text)
  <2>1. SentenceChunks(text, target, overlap) = <<>>
    BY <1>1 DEF SentenceChunks
  <2>. QED
    BY <1>1, <2>1 DEF Grouped, InPlace
<1>2. CASE ~IsBlank(text)
  <2> DEFINE all == SplitSentences(text)
             s == Filled(all)
  <2>1. SentenceChunks(text, target, overlap) = GroupSentences(text, s, target, overlap)
    BY <1>2 DEF SentenceChunks
  <2>2. /\ all \in Seq(Text) /\ \A k \in 1..Len(all) : Breaks(all[k]) = {}
        /\ \A c : c \notin Blanks /\ Occurs(c, text) => OccursIn(c, all)
    BY SentenceFacts
  <2> HIDE DEF all
  <2>3. /\ s \in Seq(Text) /\ \A k \in 1..Len(s) : ~IsBlank(s[k]) /\ Occurs(s[k], all)
        /\ \A k \in 1..Len(all) : ~IsBlank(all[k]) => s # <<>>
    BY <2>2, FilledFacts
  <2>4. s # <<>>
    <3>1. PICK c : c \notin Blanks /\ Occurs(c, text)
      BY <1>2, BlankText
    <3>2. PICK k \in 1..Len(all) : Occurs(c, all[k])
      BY <2>2, <3>1 DEF OccursIn
    <3>3. all[k] \in Text
      BY <2>2
    <3>4. ~IsBlank(all[k])
      BY <3>1, <3>2, <3>3, BlankText
    <3>. QED
      BY <2>3, <3>4
  <2> HIDE DEF s
  <2>5. AreSentences(s)
    BY <2>2, <2>3 DEF AreSentences, Occurs
  <2> DEFINE n == Len(s)
  <2>6. n \in Nat /\ n >= 1
    BY <2>3, <2>4
  <2>7. PICK g : /\ \A k \in 0..n : g[k] \in Grouping
                 /\ g[0] = [next |-> 1, chunks |-> <<>>]
                 /\ \A k \in 1..n : g[k] = Group(text, s, target, overlap, g[k - 1])
                 /\ GroupSentences(text, s, target, overlap) = g[n].chunks
    BY <2>3, GroupSteps, ZenonT(30)
  <2> DEFINE Good(k) == Grouped(g[k].chunks, text, target) /\ (k > 0 => g[k].chunks # <<>>)
             T == {k \in Nat : k <= n => Good(k)}
  <2>8. 0 \in T
    <3>1. g[0].chunks = <<>>
      BY <2>7
    <3>2. Grouped(g[0].chunks, text, target)
      BY <3>1 DEF Grouped, InPlace
    <3>. QED
      BY <3>2
  <2>9. ASSUME NEW k \in T
        PROVE  k + 1 \in T
    <3> SUFFICES ASSUME k + 1 <= n
                 PROVE  Good(k + 1)
      OBVIOUS
    <3> DEFINE z == k + 1
               at == g[k]
    <3>1. z - 1 = k /\ z \in 1..n /\ k \in 0..n /\ Good(k)
      BY <2>6
    <3>2. g[z] = Group(text, s, target, overlap, at) /\ at \in Grouping
      BY <2>7, <3>1
    <3> HIDE DEF n, z
    <3>3. CASE at.next > Len(s) /\ Group(text, s, target, overlap, at) = at
      <4>1. k # 0
        <5>1. g[0].next = 1 /\ ~(1 > n)
          BY <2>6, <2>7
        <5>. QED
          BY <3>3, <5>1 DEF n
      <4>. QED
        BY <3>1, <3>2, <3>3, <4>1 DEF z
    <3>4. CASE \E j \in at.next..Len(s), next \in Nat \ {0}, start, end \in Nat :
                  OneMoreGroup(text, s, target, at, Group(text, s, target, overlap, at), j, next, start, end)
      <4>1. Grouped(at.chunks, text, target)
        BY <3>1
      <4> HIDE DEF at
      <4>2. Grouped(g[z].chunks, text, target) /\ g[z].chunks # <<>>
        BY <2>5, <3>2, <3>4, <4>1, NextGroup
      <4>. QED
        BY <4>2 DEF z
    <3>. QED
      BY <2>3, <3>2, <3>3, <3>4, GroupFacts
  <2>10. T = Nat
    <3>1. T \in SUBSET Nat
      OBVIOUS
    <3> HIDE DEF T
    <3>. QED
      BY ONLY <2>8, <2>9, <3>1, InductiveSet
  <2>11. Good(n)
    <3> HIDE DEF Good, n
    <3>1. n \in T
      BY <2>6, <2>10
    <3>. QED
      BY <2>6, <3>1
  <2>. QED
    BY <2>1, <2>6, <2>7, <2>11
<1>. QED
  BY <1>1, <1>2

-----------------------------------------------------------------------------
(* The chunkers together.                                                  *)

\* The chunks of a text are as long as the strategy s.strategy promises.
AsPromised(s, r, text) ==
    \A i \in 1..Len(r) :
       LET c == r[i]
           n == Len(c.content)
       IN  CASE s.strategy = "fixed" -> n <= s.size /\ c.content = Slice(text, c.start, c.end)
             [] s.strategy = "sentence" -> n <= s.size \/ Len(SplitSentences(c.content)) = 1
             [] s.strategy = "recursive" ->
                    n <= s.size + (IF i > 1 /\ s.overlap > 0 THEN s.overlap + 1 ELSE 0)

\* get_chunker(name, ...).chunk(document): whatever the text, its chunks lie in it and are as
\* long as their strategy promises, and there are some if the text ends in a character that is
\* not blank (chunker.py:61-218).
THEOREM ChunksFacts ==
    ASSUME ChunkerAssumption, IngestionAssumption, NEW s \in Setups, NEW text \in Text
    PROVE  /\ InPlace(Chunks(s.strategy, text, s.size, s.overlap), text)
           /\ AsPromised(s, Chunks(s.strategy, text, s.size, s.overlap), text)
           /\ EndsFilled(text) => Chunks(s.strategy, text, s.size, s.overlap) # <<>>
<1> DEFINE size == s.size
           overlap == s.overlap
           r == Chunks(s.strategy, text, size, overlap)
<1>1. /\ size \in Nat /\ size >= 1 /\ overlap \in Nat
      /\ s.strategy \in {"fixed", "sentence", "recursive"}
      /\ s.strategy \in {"fixed", "recursive"} => overlap < size
  BY DEF IngestionAssumption
<1>2. EndsFilled(text) => ~IsBlank(text)
  BY EndsFilledNotBlank
<1> HIDE DEF size, overlap
<1>3. CASE s.strategy = "fixed"
  <2>1. r = FixedChunks(text, size, overlap)
    BY <1>3 DEF Chunks
  <2>2. /\ InPlace(r, text) /\ (~IsBlank(text) => r # <<>>)
        /\ \A i \in 1..Len(r) : Len(r[i].content) <= size /\ r[i].content = Slice(text, r[i].start, r[i].end)
    <3>1. overlap < size
      BY <1>1, <1>3
    <3> DEFINE f == FixedChunks(text, size, overlap)
    <3>2. /\ InPlace(f, text) /\ (~IsBlank(text) => f # <<>>)
          /\ \A i \in 1..Len(f) : Len(f[i].content) <= size /\ f[i].content = Slice(text, f[i].start, f[i].end)
      <4>1. WindowsTo(f, text, size, Len(text)) /\ (~IsBlank(text) => f # <<>>)
        BY <1>1, <3>1, FixedFacts
      <4> HIDE DEF f
      <4>. QED
        BY <4>1 DEF WindowsTo
    <3> HIDE DEF f, r
    <3>3. r = f
      BY <2>1 DEF f
    <3>. QED
      BY <3>2, <3>3
  <2> HIDE DEF r
  <2>3. AsPromised(s, r, text)
    <3> SUFFICES ASSUME NEW i \in 1..Len(r)
                 PROVE  Len(r[i].content) <= size /\ r[i].content = Slice(text, r[i].start, r[i].end)
      BY <1>3, Zenon DEF AsPromised, size
    <3>. QED
      BY <2>2
  <2>. QED
    BY <1>2, <2>2, <2>3 DEF r, size, overlap
<1>4. CASE s.strategy = "sentence"
  <2>1. r = SentenceChunks(text, size, overlap)
    BY <1>4 DEF Chunks
  <2>2. Grouped(r, text, size) /\ (~IsBlank(text) => r # <<>>)
    BY <1>1, <2>1, SentenceChunksFacts
  <2> HIDE DEF r
  <2>3. ASSUME NEW i \in 1..Len(r)
        PROVE  Len(r[i].content) <= size \/ Len(SplitSentences(r[i].content)) = 1
    <3> DEFINE t == r[i].content
    <3>1. t \in Text
      <4>1. r \in Seq(ChunkRec)
        BY <2>2 DEF Grouped, InPlace
      <4>2. r[i] \in ChunkRec
        BY ONLY <4>1, i \in 1..Len(r)
      <4>. QED
        BY <4>2 DEF ChunkRec
    <3>2. Len(r[i].content) <= size \/ Breaks(r[i].content) = {}
      BY <2>2, Zenon DEF Grouped
    <3> HIDE DEF t
    <3>3. Breaks(t) = {} => Len(SplitSentences(t)) = 1
      BY <3>1, OneSentence
    <3>4. Len(t) <= size \/ Breaks(t) = {}
      BY <3>2, Zenon DEF t
    <3>5. Len(t) <= size \/ Len(SplitSentences(t)) = 1
      BY ONLY <3>3, <3>4, Zenon
    <3>. QED
      BY ONLY <3>5, Zenon DEF t
  <2>4. AsPromised(s, r, text)
    BY <1>4, <2>3 DEF AsPromised, size
  <2>. QED
    BY <1>2, <2>2, <2>4 DEF r, size, overlap, Grouped
<1>5. CASE s.strategy = "recursive"
  <2>1. r = RecursiveChunks(text, size, overlap)
    BY <1>5 DEF Chunks
  <2>2. /\ InPlace(r, text) /\ (EndsFilled(text) => r # <<>>)
        /\ \A i \in 1..Len(r) :
              Len(r[i].content) <= size + (IF i > 1 /\ overlap > 0 THEN overlap + 1 ELSE 0)
    BY <1>1, <2>1, RecursiveFacts
  <2> HIDE DEF r
  <2>3. AsPromised(s, r, text)
    BY <1>5, <2>2 DEF AsPromised, size, overlap
  <2>. QED
    BY <2>2, <2>3 DEF r, size, overlap
<1>. QED
  BY <1>1, <1>3, <1>4, <1>5

-----------------------------------------------------------------------------
(* The loader.                                                             *)

\* Runs of blanks become one blank: no other character is lost or made.
LEMMA CollapseFacts ==
    ASSUME ChunkerAssumption, NEW t \in Text, NEW set
    PROVE  /\ Collapse(t, set) \in Text
           /\ set \subseteq Blanks =>
                 \A c : c \notin Blanks => (Occurs(c, Collapse(t, set)) <=> Occurs(c, t))
<1> DEFINE n == Len(t)
<1>1. PICK g : /\ \A k \in 0..n : g[k] \in Text
               /\ g[0] = <<>>
               /\ \A k \in 1..n :
                     g[k] = IF t[k] \notin set THEN Append(g[k - 1], t[k])
                            ELSE IF g[k - 1] # <<>> /\ Last(g[k - 1]) = Space THEN g[k - 1] ELSE Append(g[k - 1], Space)
               /\ Collapse(t, set) = g[n]
  BY CollapseSteps
<1>2. n \in Nat /\ \A k \in 1..n : t[k] \in Characters
  BY DEF Text
<1>3. n \in 0..n
  BY <1>2
<1>4. ASSUME set \subseteq Blanks, NEW c, c \notin Blanks
      PROVE  Occurs(c, g[n]) <=> Occurs(c, t)
  <2> DEFINE Good(k) == Occurs(c, g[k]) <=> \E i \in 1..k : t[i] = c
             T == {k \in Nat : k <= n => Good(k)}
  <2>1. 0 \in T
    <3>1. ~Occurs(c, g[0])
      BY <1>1 DEF Occurs
    <3>. QED
      BY <3>1
  <2>2. ASSUME NEW k \in T
        PROVE  k + 1 \in T
    <3> SUFFICES ASSUME k + 1 <= n
                 PROVE  Good(k + 1)
      OBVIOUS
    <3> DEFINE z == k + 1
               a == g[k]
               x == t[z]
    <3>1. z - 1 = k /\ z \in 1..n /\ k \in 0..n /\ Good(k) /\ z \in Nat
      BY <1>2
    <3>2. /\ g[z] = IF x \notin set THEN Append(a, x)
                    ELSE IF a # <<>> /\ Last(a) = Space THEN a ELSE Append(a, Space)
          /\ a \in Seq(Characters) /\ x \in Characters
      BY <1>1, <1>2, <3>1 DEF Text
    <3>3. \A i : i \in 1..z <=> i \in 1..k \/ i = z
      BY <3>1
    <3>4. Space \in Blanks /\ Space \in Characters
      BY TextConstants
    <3>5. (\E i \in 1..z : t[i] = c) <=> Occurs(c, a) \/ x = c
      BY <3>1, <3>3
    <3> HIDE DEF a, x, z
    <3>6. \A y \in Characters : Occurs(c, Append(a, y)) <=> Occurs(c, a) \/ y = c
      <4> SUFFICES ASSUME NEW y \in Characters
                   PROVE  Occurs(c, Append(a, y)) <=> Occurs(c, a) \/ y = c
        OBVIOUS
      <4>1. /\ Len(a) \in Nat /\ Len(Append(a, y)) = Len(a) + 1 /\ Append(a, y)[Len(a) + 1] = y
            /\ \A i \in 1..Len(a) : Append(a, y)[i] = a[i]
        BY <3>2
      <4>2. \A i : i \in 1..(Len(a) + 1) <=> i \in 1..Len(a) \/ i = Len(a) + 1
        BY <4>1
      <4>. QED
        BY <4>1, <4>2, Zenon DEF Occurs
    <3>7. x \in set => x # c
      BY <1>4
    <3>8. Occurs(c, g[z]) <=> Occurs(c, a) \/ x = c
      BY <1>4, <3>2, <3>4, <3>6, <3>7
    <3>. QED
      BY <3>5, <3>8 DEF z
  <2>3. T = Nat
    <3>1. T \in SUBSET Nat
      OBVIOUS
    <3> HIDE DEF T
    <3>. QED
      BY ONLY <2>1, <2>2, <3>1, InductiveSet
  <2>4. Good(n)
    <3> HIDE DEF Good
    <3>. QED
      BY <1>2, <2>3
  <2>. QED
    BY <2>4 DEF Occurs
<1>. QED
  BY <1>1, <1>3, <1>4

\* The lines of a text, stripped.
StrippedLines(t) ==
    [i \in DOMAIN Split(t, <<NewLine>>) |-> Strip(Collapse(Split(t, <<NewLine>>)[i], Blanks \ {NewLine}))]

\* Stripping drops no character that is not blank, and leaves one at the end of a line that
\* is not empty.
LEMMA StrippedFacts ==
    ASSUME ChunkerAssumption, NEW t \in Text
    PROVE  /\ StrippedLines(t) \in Seq(Text)
           /\ \A c : c \notin Blanks => (OccursIn(c, StrippedLines(t)) <=> Occurs(c, t))
           /\ \A k \in 1..Len(StrippedLines(t)) : StrippedLines(t)[k] # <<>> => EndsFilled(StrippedLines(t)[k])
<1> DEFINE sep == <<NewLine>>
           parts == Split(t, sep)
           set == Blanks \ {NewLine}
           s == [i \in DOMAIN parts |-> Strip(Collapse(parts[i], set))]
           n == Len(parts)
<1>1. sep \in Text /\ Len(sep) > 0 /\ \A c : c \notin Blanks => ~Occurs(c, sep)
  <2>1. sep \in Text /\ NewLine \in Blanks
    BY TextConstants
  <2>2. Len(sep) = 1 /\ sep[1] = NewLine
    OBVIOUS
  <2>. QED
    BY <2>1, <2>2 DEF Occurs
<1>2. StrippedLines(t) = s
  BY DEF StrippedLines
<1>3. set \subseteq Blanks
  OBVIOUS
<1> HIDE DEF sep, set
<1>4. parts \in Seq(Text) /\ \A c : c \notin Blanks => (OccursIn(c, parts) <=> Occurs(c, t))
  BY <1>1, SplitFacts
<1> HIDE DEF parts
<1>5. n \in Nat /\ DOMAIN parts = 1..n /\ \A k \in 1..n : parts[k] \in Text
  BY <1>4
<1>6. ASSUME NEW k \in 1..n
      PROVE  /\ s[k] \in Text /\ (s[k] # <<>> => EndsFilled(s[k]))
             /\ \A c : c \notin Blanks => (Occurs(c, s[k]) <=> Occurs(c, parts[k]))
  <2> DEFINE a == Collapse(parts[k], set)
  <2>1. s[k] = Strip(a)
    BY <1>5
  <2>2. a \in Text /\ \A c : c \notin Blanks => (Occurs(c, a) <=> Occurs(c, parts[k]))
    BY <1>3, <1>5, CollapseFacts
  <2> HIDE DEF a
  <2>3. /\ Strip(a) \in Text /\ (Strip(a) # <<>> => EndsFilled(Strip(a)))
        /\ \A c : c \notin Blanks => (Occurs(c, Strip(a)) <=> Occurs(c, a))
    BY <2>2, StripFacts
  <2>. QED
    BY <2>1, <2>2, <2>3
<1>7. s = [k \in 1..n |-> s[k]]
  BY <1>5
<1> HIDE DEF s, n
<1>8. s \in Seq(Text) /\ Len(s) = n
  <2>1. s \in [1..n -> Text]
    BY <1>6, <1>7
  <2>. QED
    BY ONLY <1>5, <1>7, <2>1
<1>. QED
  BY <1>2, <1>4, <1>6, <1>8 DEF OccursIn, n

\* _normalize: a blank text becomes empty, and any other one ends in a character that is
\* not blank.
LEMMA NormalizeFacts ==
    ASSUME ChunkerAssumption, NEW t \in Text
    PROVE  /\ Normalize(t) \in Text
           /\ IsBlank(t) => IsBlank(Normalize(t))
           /\ ~IsBlank(t) => EndsFilled(Normalize(t)) /\ ~IsBlank(Normalize(t))
<1> DEFINE lines == StrippedLines(t)
           full == {i \in DOMAIN lines : lines[i] # <<>>}
           n == Len(lines)
<1>1. Normalize(t) = IF full = {} THEN <<>> ELSE JoinLines(SubSeq(lines, Min(full), Max(full)))
  BY Zenon DEF Normalize, StrippedLines
<1>2. /\ lines \in Seq(Text)
      /\ \A c : c \notin Blanks => (OccursIn(c, lines) <=> Occurs(c, t))
      /\ \A k \in 1..n : lines[k] # <<>> => EndsFilled(lines[k])
  BY StrippedFacts
<1> HIDE DEF lines
<1>3. n \in Nat /\ DOMAIN lines = 1..n
  BY <1>2
<1>4. CASE full = {}
  <2>1. Normalize(t) = <<>> /\ \A k \in 1..n : lines[k] = <<>>
    BY <1>1, <1>3, <1>4
  <2>2. IsBlank(t)
    <3>1. \A c : ~OccursIn(c, lines)
      BY <2>1 DEF OccursIn, Occurs
    <3>. QED
      BY <1>2, <3>1, BlankText
  <2>3. <<>> \in Text /\ IsBlank(<<>>)
    BY TextConstants DEF IsBlank
  <2>. QED
    BY <2>1, <2>2, <2>3
<1>5. CASE full # {}
  <2>1. full \in SUBSET (1..n)
    BY <1>3
  <2>2. PICK x \in full : \A y \in full : y <= x
    BY ONLY <1>3, <1>5, <2>1, GreatestNumber
  <2>3. PICK w \in full : \A y \in full : w <= y
    <3>1. full \in SUBSET Nat
      BY <1>3, <2>1
    <3> HIDE DEF full
    <3>. QED
      BY ONLY <1>5, <3>1, LeastNumber
  <2>4. lines[x] # <<>> /\ x \in 1..n /\ w \in 1..n /\ w <= x
    BY <2>1, <2>2, <2>3
  <2> HIDE DEF full
  <2>5. Max(full) = x
    <3>1. \E y \in full : \A z \in full : y >= z
      BY <2>1, <2>2
    <3> DEFINE m == CHOOSE y \in full : \A z \in full : y >= z
    <3>2. m \in full /\ \A z \in full : m >= z
      BY <3>1, Zenon
    <3>3. Max(full) = m
      BY DEF Max
    <3> HIDE DEF m
    <3>4. m = x
      BY <2>1, <2>2, <3>2
    <3>. QED
      BY <3>3, <3>4
  <2>6. Min(full) = w
    <3>1. \E y \in full : \A z \in full : y <= z
      BY <2>3
    <3> DEFINE m == CHOOSE y \in full : \A z \in full : y <= z
    <3>2. m \in full /\ \A z \in full : m <= z
      BY <3>1, Zenon
    <3>3. Min(full) = m
      BY DEF Min
    <3> HIDE DEF m
    <3>4. m = w
      BY <2>1, <2>3, <3>2
    <3>. QED
      BY <3>3, <3>4
  <2> DEFINE parts == SubSeq(lines, w, x)
             sep == <<NewLine>>
  <2>7. Normalize(t) = Join(sep, parts)
    BY <1>1, <1>5, <2>5, <2>6 DEF JoinLines
  <2>8. parts \in Seq(Text) /\ Len(parts) > 0 /\ Last(parts) = lines[x]
    <3>1. parts \in Seq(Text) /\ Len(parts) = x - w + 1 /\ x - w + 1 \in 1..Len(parts)
      BY <1>2, <1>3, <2>4
    <3>2. parts[x - w + 1] = lines[w + (x - w + 1) - 1]
      BY <1>2, <1>3, <2>4
    <3>3. w + (x - w + 1) - 1 = x
      BY <1>3, <2>4
    <3>. QED
      BY <2>4, <3>1, <3>2, <3>3 DEF Last
  <2>9. sep \in Text
    BY TextConstants
  <2> HIDE DEF parts, sep
  <2>10. EndsFilled(Last(parts))
    BY <1>2, <2>4, <2>8
  <2>11. Join(sep, parts) \in Text /\ EndsFilled(Join(sep, parts))
    BY <2>8, <2>9, <2>10, JoinFacts
  <2> DEFINE j == Join(sep, parts)
  <2>12. ~IsBlank(j)
    BY <2>11, EndsFilledNotBlank
  <2>13. ~IsBlank(t)
    <3> DEFINE l == lines[x]
    <3>1. l \in Text /\ EndsFilled(l)
      BY <1>2, <1>3, <2>4
    <3> HIDE DEF l
    <3>2. PICK c : c \notin Blanks /\ Occurs(c, l)
      BY <3>1, EndsFilledNotBlank, BlankText
    <3>3. OccursIn(c, lines)
      BY <2>4, <3>2 DEF OccursIn, l
    <3>. QED
      BY <1>2, <3>2, <3>3, BlankText
  <2>. QED
    BY <2>7, <2>11, <2>12, <2>13
<1>. QED
  BY <1>4, <1>5

\* What a JSON value is.
LEMMA JsonFacts ==
    ASSUME LoaderAssumption, NEW v \in JsonValues
    PROVE  /\ Nesting \in [JsonValues -> Nat] /\ JsonDepth \in Nat
           /\ v.is = "leaf" => v.text \in Text
           /\ v.is # "leaf" => /\ v.values \in Seq(JsonValues)
                               /\ \A i \in DOMAIN v.values : Nesting[v.values[i]] < Nesting[v]
                               /\ v.is = "dict" => v.keys \in [DOMAIN v.values -> Text]
  BY Zenon DEF LoaderAssumption

\* What it is printed with.
LEMMA JsonSigns == "{" \in Characters /\ "}" \in Characters /\ ":" \in Characters
  BY SignsAssumption, Zenon

\* The label is a text.
LEMMA LabelledFacts ==
    ASSUME ChunkerAssumption, LoaderAssumption, NEW v \in JsonValues, v.is # "leaf",
           NEW i \in DOMAIN v.values, NEW t \in Text
    PROVE  Labelled(v, i, t) \in Text
<1>1. v.is = "dict" => v.keys[i] \in Text
  BY JsonFacts
<1> DEFINE colon == ":"
           a == v.keys[i]
           b == <<colon, Space>>
<1>2. colon \in Characters /\ Space \in Characters
  BY JsonSigns, TextConstants, Zenon
<1>5. Labelled(v, i, t) = IF v.is = "dict" THEN a \o b \o t ELSE t
  BY Zenon DEF Labelled
<1> HIDE DEF colon
<1>3. b \in Seq(Characters)
  BY <1>2
<1> HIDE DEF a, b
<1>4. a \in Text => a \o b \o t \in Text
  BY <1>3 DEF Text
<1>. QED
  BY <1>1, <1>4, <1>5 DEF a

\* The labelled texts of the parts of a value.
Parts(v, f) == [i \in DOMAIN v.values |-> Labelled(v, i, f[v.values[i]])]

\* They are texts if the strings of the parts are.
LEMMA PartsFacts ==
    ASSUME ChunkerAssumption, LoaderAssumption, NEW v \in JsonValues, v.is # "leaf",
           NEW f, \A i \in DOMAIN v.values : f[v.values[i]] \in Text
    PROVE  Parts(v, f) \in Seq(Text)
<1> DEFINE n == Len(v.values)
           s == Parts(v, f)
<1>1. n \in Nat /\ DOMAIN v.values = 1..n
  BY JsonFacts
<1>2. \A i \in 1..n : s[i] \in Text
  BY <1>1, LabelledFacts DEF Parts
<1>3. s = [i \in 1..n |-> s[i]]
  BY <1>1 DEF Parts
<1> HIDE DEF s, n
<1>4. s \in [1..n -> Text]
  BY <1>2, <1>3
<1>5. s \in Seq(Text)
  BY ONLY <1>1, <1>4
<1>. QED
  BY <1>5 DEF s

\* str() of a JSON value is a text.
LEMMA PrintedFacts ==
    ASSUME ChunkerAssumption, LoaderAssumption
    PROVE  \A v \in JsonValues : Printed(v) \in Text
<1> DEFINE S == JsonValues
           V == Text
           leaf(w) == w.is = "leaf"
           left == "{"
           right == "}"
           Body(w, f) == IF leaf(w) THEN w.text
                         ELSE <<left>> \o FlattenSeq(Parts(w, f)) \o <<right>>
           F == [w \in S |-> [f \in [S -> V] |-> Body(w, f)]]
           rank == Nesting
           E(c) == c = [w \in S |-> Body(w, c)]
           c == CHOOSE z : E(z)
<1>1. \A v \in S : Printed(v) = c[v]
  BY Zenon DEF Printed, Parts
<1>2. SUFFICES ASSUME S # {}
               PROVE  \A v \in S : c[v] \in V
  BY <1>1, Zenon
<1>3. ASSUME NEW w \in S
      PROVE  /\ leaf(w) => w.text \in V
             /\ ~leaf(w) => \A i \in DOMAIN w.values : w.values[i] \in S /\ rank[w.values[i]] < rank[w]
  <2>1. ASSUME ~leaf(w), NEW i \in DOMAIN w.values
        PROVE  w.values[i] \in S /\ rank[w.values[i]] < rank[w]
    <3>1. w.values \in Seq(JsonValues)
      BY <2>1, JsonFacts
    <3>2. w.values[i] \in S
      BY ONLY <3>1, i \in DOMAIN w.values
    <3>. QED
      BY <2>1, <3>2, JsonFacts
  <2>. QED
    BY <2>1, JsonFacts
<1>0. left \in Characters /\ right \in Characters
  BY JsonSigns, Zenon
<1> HIDE DEF left, right
<1>4. rank \in [S -> Nat] /\ <<>> \in V
  BY <1>2, JsonFacts, TextConstants
<1>5. ASSUME NEW w \in S, NEW f, ~leaf(w) => \A i \in DOMAIN w.values : f[w.values[i]] \in V
      PROVE  Body(w, f) \in V
  <2>1. CASE leaf(w)
    BY <1>3, <2>1
  <2>2. CASE ~leaf(w)
    <3> DEFINE a == FlattenSeq(Parts(w, f))
    <3>1. Parts(w, f) \in Seq(Seq(Characters))
      BY <1>5, <2>2, PartsFacts DEF Text
    <3>2. a \in Seq(Characters)
      BY <3>1, FlattenElements
    <3> HIDE DEF a
    <3>3. <<left>> \o a \o <<right>> \in Seq(Characters)
      BY <1>0, <3>2
    <3>. QED
      BY <2>2, <3>3 DEF a, Text
  <2>. QED
    BY <2>1, <2>2
<1>6. ASSUME NEW w \in S, NEW f, NEW g, ~leaf(w) => \A i \in DOMAIN w.values : f[w.values[i]] = g[w.values[i]]
      PROVE  Body(w, f) = Body(w, g)
  <2>1. CASE leaf(w)
    BY <2>1
  <2>2. CASE ~leaf(w)
    <3>1. Parts(w, f) = Parts(w, g)
      BY <1>6, <2>2, Zenon DEF Parts
    <3>. QED
      BY <2>2, <3>1, Zenon
  <2>. QED
    BY <2>1, <2>2
<1> HIDE DEF V, leaf, Body
<1>7. ASSUME NEW w \in S, NEW f \in [S -> V]
      PROVE  F[w][f] = Body(w, f) /\ Body(w, f) \in V
  <2>1. ~leaf(w) => \A i \in DOMAIN w.values : f[w.values[i]] \in V
    BY <1>3
  <2>. QED
    BY <1>5, <2>1
<1>8. F \in [S -> [[S -> V] -> V]]
  BY <1>7
<1> HIDE DEF F, rank, S
<1>9. Descends(F, S, rank, V)
  <2>1. ASSUME NEW a \in S, NEW f \in [S -> V], NEW g \in [S -> V],
               \A b \in S : rank[b] < rank[a] => f[b] = g[b]
        PROVE  F[a][f] = F[a][g]
    <3>1. ~leaf(a) => \A i \in DOMAIN a.values : f[a.values[i]] = g[a.values[i]]
      BY <1>3, <2>1
    <3>2. Body(a, f) = Body(a, g)
      BY <1>6, <3>1
    <3>. QED
      BY <1>7, <3>2
  <2>. QED
    BY <1>4, <1>8, <2>1 DEF Descends
<1>10. PICK f \in [S -> V] : \A a \in S : f[a] = F[a][f]
  BY ONLY <1>4, <1>9, RankedRecursion
<1>11. E(f)
  BY <1>7, <1>10
<1>12. E(c)
  BY <1>11, Zenon
<1> HIDE DEF c
<1>13. \A w \in S : c[w] = Body(w, c)
  BY <1>12
<1> DEFINE T == {a \in S : c[a] \in V}
<1>14. T \in SUBSET S /\ \A a \in S : a \in T <=> c[a] \in V
  OBVIOUS
<1> HIDE DEF T
<1>15. ASSUME NEW a \in S, \A b \in S : rank[b] < rank[a] => b \in T
       PROVE  a \in T
  <2>1. ~leaf(a) => \A i \in DOMAIN a.values : c[a.values[i]] \in V
    BY <1>3, <1>14, <1>15
  <2>. QED
    BY <1>5, <1>13, <1>14, <2>1
<1>16. T = S
  <2>1. Inherits(S, rank, T)
    BY <1>15, Zenon DEF Inherits
  <2>. QED
    BY ONLY <1>4, <1>14, <2>1, RankedInduction
<1>. QED
  BY <1>14, <1>16

\* One level of JSON values is texts if the one below is.
LEMMA OneLevelFacts ==
    ASSUME ChunkerAssumption, LoaderAssumption, NEW f \in [JsonValues -> Text]
    PROVE  OneLevel(f) \in [JsonValues -> Text]
<1>1. OneLevel(f) = [w \in JsonValues |-> IF w.is = "leaf" THEN Printed(w) ELSE JoinLines(Parts(w, f))]
  BY Zenon DEF OneLevel, Parts
<1>2. ASSUME NEW w \in JsonValues, w.is # "leaf"
      PROVE  JoinLines(Parts(w, f)) \in Text
  <2>1. \A i \in DOMAIN w.values : w.values[i] \in JsonValues
    <3>1. w.values \in Seq(JsonValues)
      BY <1>2, JsonFacts
    <3>. QED
      BY <3>1
  <2>2. Parts(w, f) \in Seq(Text)
    BY <1>2, <2>1, PartsFacts
  <2> DEFINE p == Parts(w, f)
             sep == <<NewLine>>
  <2>3. sep \in Text
    BY TextConstants
  <2> HIDE DEF p, sep
  <2>4. Join(sep, p) \in Text
    BY <2>2, <2>3, JoinFacts DEF p
  <2>. QED
    BY <2>4 DEF JoinLines, p, sep
<1>. QED
  BY <1>1, <1>2, PrintedFacts

\* str() of all values.
Strings == [w \in JsonValues |-> Printed(w)]

\* The loop of _json_to_text.
LEMMA JsonSteps ==
    ASSUME ChunkerAssumption,
           LoaderAssumption,
           NEW u \in JsonValues
    PROVE  \E g : /\ \A k \in 0..JsonDepth + 1 : g[k] \in [JsonValues -> Text]
                  /\ g[0] = Strings
                  /\ \A k \in 1..JsonDepth + 1 :
                        g[k] = OneLevel(g[k - 1])
                  /\ JsonToText(u) = (g[JsonDepth + 1])[u]
<1> DEFINE n == JsonDepth + 1
           V == [JsonValues -> Text]
           Step(k, v) == OneLevel(v)
           h == [k \in 1..n |-> [v \in V |-> Step(k, v)]]
           E(c) == c = [k \in 0..n |-> IF k = 0 THEN Strings ELSE Step(k, c[k - 1])]
           c == CHOOSE f : E(f)
<1>1. n \in Nat /\ Strings \in V /\ \A k \in 1..n : \A v \in V : Step(k, v) \in V
  <2>1. n \in Nat
    BY JsonFacts
  <2>2. Strings \in V
    BY PrintedFacts DEF Strings
  <2>. QED
    BY <2>1, <2>2, OneLevelFacts
<1>2. JsonToText(u) = (c[n])[u]
  BY Zenon DEF JsonToText, Loop, Strings
<1> HIDE DEF Step, n, V
<1>3. \A k \in 1..n : \A v \in V : h[k][v] = Step(k, v)
  OBVIOUS
<1> HIDE DEF h
<1>4. PICK g : /\ g = [k \in 0..n |-> g[k]] /\ g[0] = Strings
               /\ \A k \in 1..n : g[k] = h[k][g[k - 1]]
               /\ \A k \in 0..n : g[k] \in V
  <2>1. Keeps(h, n, V)
    BY <1>1, <1>3 DEF Keeps
  <2>. QED
    BY ONLY <1>1, <2>1, TypedSteps
<1>5. \A k \in 1..n : k - 1 \in 0..n
  BY <1>1
<1>6. E(g)
  <2>1. \A k \in 0..n : k # 0 => k \in 1..n
    BY <1>1
  <2>2. \A k \in 1..n : g[k] = Step(k, g[k - 1])
    BY <1>3, <1>4, <1>5
  <2>3. \A k \in 0..n : g[k] = IF k = 0 THEN Strings ELSE Step(k, g[k - 1])
    BY <1>4, <2>1, <2>2
  <2>. QED
    BY <1>4, <2>3, Zenon
<1>7. E(c)
  BY <1>6, Zenon
<1> HIDE DEF c
<1>8. c[0] = Strings /\ \A k \in 1..n : c[k] = Step(k, c[k - 1])
  BY <1>1, <1>7, SMTT(30)
<1>9. \A k \in 0..n : c[k] \in V
  <2>1. Keeps(h, n, V)
    BY <1>1, <1>3 DEF Keeps
  <2>2. \A k \in 1..n : c[k - 1] \in V => c[k] = h[k][c[k - 1]]
    BY <1>3, <1>8
  <2>3. Strings \in V /\ c[0] = Strings /\ n \in Nat
    BY <1>1, <1>8
  <2>. QED
    BY ONLY <2>1, <2>2, <2>3, TypedSame
<1>. QED
  BY <1>2, <1>8, <1>9, Zenon DEF Step, n, V

\* _json_to_text makes a text.
LEMMA JsonToTextFacts ==
    ASSUME ChunkerAssumption, LoaderAssumption, NEW u \in JsonValues
    PROVE  JsonToText(u) \in Text
<1> DEFINE n == JsonDepth + 1
<1>1. n \in 0..n
  BY JsonFacts
<1>2. PICK g : /\ \A k \in 0..n : g[k] \in [JsonValues -> Text]
               /\ JsonToText(u) = (g[n])[u]
  BY JsonSteps
<1>. QED
  BY <1>1, <1>2

\* _strip_html makes a text.
LEMMA StripHtmlFacts ==
    ASSUME ChunkerAssumption, NEW t \in Text
    PROVE  StripHtml(t) \in Text
<1> DEFINE s == [i \in DOMAIN t |-> IF t[i] = Tag THEN Space ELSE t[i]]
           c == Collapse(s, Blanks)
<1>1. StripHtml(t) = Strip(c)
  BY DEF StripHtml
<1>2. s \in Text
  <2>1. Len(t) \in Nat /\ DOMAIN t = 1..Len(t) /\ \A i \in 1..Len(t) : t[i] \in Characters
    BY DEF Text
  <2>2. s \in [1..Len(t) -> Characters]
    BY <2>1, TextConstants
  <2> HIDE DEF s
  <2>3. s \in Seq(Characters)
    BY ONLY <2>1, <2>2
  <2>. QED
    BY <2>3 DEF Text
<1> HIDE DEF s
<1>3. c \in Text
  BY <1>2, CollapseFacts
<1> HIDE DEF c
<1>. QED
  BY <1>1, <1>3, StripFacts

\* _pdf_to_text makes a text.
LEMMA PdfToTextFacts ==
    ASSUME ChunkerAssumption, NEW pages, NEW P, pages \in Seq(P),
           \A i \in DOMAIN pages : pages[i].readable => pages[i].text \in Text
    PROVE  PdfToText(pages) \in Text
<1> DEFINE s == [i \in DOMAIN pages |-> IF pages[i].readable THEN <<pages[i].text>> ELSE <<>>]
           n == Len(pages)
           j == JoinLines(FlattenSeq(s))
<1>1. PdfToText(pages) = Strip(j)
  BY DEF PdfToText
<1>2. n \in Nat /\ DOMAIN pages = 1..n
  OBVIOUS
<1>3. \A i \in 1..n : s[i] \in Seq(Text)
  BY <1>2
<1>4. s = [i \in 1..n |-> s[i]]
  BY <1>2
<1> HIDE DEF s, n
<1>5. s \in [1..n -> Seq(Text)]
  BY <1>3, <1>4
<1>6. s \in Seq(Seq(Text))
  BY ONLY <1>2, <1>5
<1> DEFINE p == FlattenSeq(s)
           sep == <<NewLine>>
<1>7. p \in Seq(Text)
  BY <1>6, FlattenElements
<1>8. sep \in Text /\ j = Join(sep, p)
  BY TextConstants DEF JoinLines
<1> HIDE DEF p, sep, j
<1>9. j \in Text
  BY <1>7, <1>8, JoinFacts
<1>. QED
  BY <1>1, <1>9, StripFacts

\* _parse ends in a text, or in a DocumentParseError.
LEMMA ParseFacts ==
    ASSUME ChunkerAssumption, LoaderAssumption, NEW raw, IsRaw(raw), NEW type
    PROVE  /\ Parse(raw, type).error \in {"none", "DocumentParseError"}
           /\ Parse(raw, type).error = "none" => Parse(raw, type).content \in Text
<1>1. /\ raw.text \in Text
      /\ raw.form = "json" => raw.json \in JsonValues
      /\ raw.form = "pdf" =>
            /\ raw.pages \in Seq({raw.pages[i] : i \in DOMAIN raw.pages})
            /\ \A i \in DOMAIN raw.pages : raw.pages[i].readable => raw.pages[i].text \in Text
  BY DEF IsRaw
<1>2. raw.form = "json" => JsonToText(raw.json) \in Text
  BY <1>1, JsonToTextFacts
<1>3. raw.form = "pdf" => PdfToText(raw.pages) \in Text
  <2> DEFINE pages == raw.pages
             P == {pages[i] : i \in DOMAIN pages}
  <2>1. raw.form = "pdf" =>
            /\ pages \in Seq(P)
            /\ \A i \in DOMAIN pages : pages[i].readable => pages[i].text \in Text
    BY <1>1
  <2> HIDE DEF pages, P
  <2>2. raw.form = "pdf" => PdfToText(pages) \in Text
    BY <2>1, PdfToTextFacts
  <2>. QED
    BY <2>2 DEF pages
<1>4. StripHtml(raw.text) \in Text
  BY <1>1, StripHtmlFacts
<1> DEFINE kept(c) == Parse(raw, type) = Returns(c) /\ c \in Text
<1>5. \/ kept(raw.text) \/ kept(StripHtml(raw.text))
      \/ raw.form = "json" /\ kept(JsonToText(raw.json))
      \/ raw.form = "pdf" /\ kept(PdfToText(raw.pages))
      \/ Parse(raw, type) = Raises("DocumentParseError")
  BY <1>1, <1>2, <1>3, <1>4 DEF Parse
<1>6. ASSUME NEW c, kept(c)
      PROVE  Parse(raw, type).error = "none" /\ Parse(raw, type).content \in Text
  BY <1>6 DEF Returns
<1>7. CASE Parse(raw, type) = Raises("DocumentParseError")
  BY <1>7 DEF Raises
<1> HIDE DEF kept
<1>. QED
  BY <1>5, <1>6, <1>7, Zenon

\* Loading succeeds if the bytes are not too many, can be parsed, and are not blank; a
\* document ends in a character that is not blank (loader.py:28-121).
THEOREM LoadFacts ==
    ASSUME ChunkerAssumption, LoaderAssumption, NEW raw, IsRaw(raw), NEW type
    PROVE  /\ Load(raw, type).error = "none" <=> /\ raw.size <= MaxBytes /\ Parse(raw, type).error = "none"
                                                 /\ ~IsBlank(Parse(raw, type).content)
           /\ Load(raw, type).error = "none" =>
                 /\ Load(raw, type).content \in Text /\ EndsFilled(Load(raw, type).content)
                 /\ Load(raw, type).content = Normalize(Parse(raw, type).content)
<1> DEFINE parsed == Parse(raw, type)
           t == parsed.content
           d == Normalize(t)
<1>1. Load(raw, type) = CASE ~FitsLimit(raw.size) -> Raises("DocumentTooLargeError")
                          [] FitsLimit(raw.size) /\ parsed.error # "none" -> parsed
                          [] OTHER -> MakeDocument(d)
  BY Zenon DEF Load
<1>2. parsed.error = "none" => t \in Text
  BY ParseFacts
<1> HIDE DEF parsed
<1>3. parsed.error = "none" =>
         d \in Text /\ (IsBlank(t) => IsBlank(d)) /\ (~IsBlank(t) => EndsFilled(d) /\ ~IsBlank(d))
  BY <1>2, NormalizeFacts
<1> HIDE DEF t, d
<1>4. CASE ~FitsLimit(raw.size)
  <2>1. Load(raw, type) = Raises("DocumentTooLargeError")
    BY <1>1, <1>4
  <2>2. Load(raw, type).error = "DocumentTooLargeError"
    BY <2>1 DEF Raises
  <2>. QED
    BY <1>4, <2>2 DEF FitsLimit
<1>5. CASE FitsLimit(raw.size) /\ parsed.error # "none"
  <2>1. Load(raw, type) = parsed
    BY <1>1, <1>5
  <2>. QED
    BY <1>5, <2>1 DEF parsed
<1>6. CASE FitsLimit(raw.size) /\ parsed.error = "none"
  <2>1. Load(raw, type) = MakeDocument(d)
    BY <1>1, <1>6
  <2>2. raw.size <= MaxBytes
    BY <1>6 DEF FitsLimit
  <2>3. CASE IsBlank(t)
    <3>1. Load(raw, type) = Raises("ValidationError")
      BY <1>3, <1>6, <2>1, <2>3 DEF MakeDocument
    <3>2. Load(raw, type).error = "ValidationError"
      BY <3>1 DEF Raises
    <3>. QED
      BY <2>3, <3>2 DEF parsed, t
  <2>4. CASE ~IsBlank(t)
    <3>1. Load(raw, type) = Returns(d) /\ d \in Text /\ EndsFilled(d)
      BY <1>3, <1>6, <2>1, <2>4 DEF MakeDocument
    <3>2. Load(raw, type).error = "none" /\ Load(raw, type).content = d
      BY <3>1 DEF Returns
    <3>. QED
      BY <1>6, <2>2, <2>4, <3>1, <3>2 DEF parsed, t, d
  <2>. QED
    BY <2>3, <2>4
<1>. QED
  BY <1>4, <1>5, <1>6

\* The errors that the results name.
Errors == {"none", "ValidationError", "DocumentTooLargeError", "DocumentParseError", "ValueError",
           "document_too_large", "FileNotFoundError", "RuntimeError", "EmbeddingError",
           "PostgresError"}

\* Loading ends in one of them.
LEMMA LoadError ==
    ASSUME ChunkerAssumption, LoaderAssumption, NEW raw, IsRaw(raw), NEW type
    PROVE  Load(raw, type).error \in Errors
<1> DEFINE parsed == Parse(raw, type)
           d == Normalize(parsed.content)
<1>1. Load(raw, type) = CASE ~FitsLimit(raw.size) -> Raises("DocumentTooLargeError")
                          [] FitsLimit(raw.size) /\ parsed.error # "none" -> parsed
                          [] OTHER -> MakeDocument(d)
  BY Zenon DEF Load
<1>2. parsed.error \in {"none", "DocumentParseError"}
  BY ParseFacts
<1> HIDE DEF parsed, d
<1>3. /\ Raises("DocumentTooLargeError").error = "DocumentTooLargeError"
      /\ MakeDocument(d).error \in {"ValidationError", "none"}
  BY DEF Raises, Returns, MakeDocument
<1>4. Load(raw, type) \in {Raises("DocumentTooLargeError"), parsed, MakeDocument(d)}
  BY <1>1, Zenon
<1>. QED
  BY <1>2, <1>3, <1>4 DEF Errors

-----------------------------------------------------------------------------
(* The answers of the embedding service.                                   *)

\* As many places are ordered before a place as its rank says.
LEMMA Rank ==
    ASSUME NEW n \in Nat, NEW q \in Bijection(1..n, 1..n), NEW i \in 1..n
    PROVE  Cardinality({j \in 1..n : q[j] < q[i]}) = q[i] - 1
<1> DEFINE S == {j \in 1..n : q[j] < q[i]}
           T == 1..(q[i] - 1)
           f == [j \in S |-> q[j]]
<1>1. /\ q \in [1..n -> 1..n]
      /\ \A x, y \in 1..n : q[x] = q[y] => x = y
      /\ \A z \in 1..n : \E x \in 1..n : q[x] = z
  BY DEF Bijection, Injection, Surjection, IsInjective
<1>2. q[i] \in 1..n
  BY <1>1
<1>3. S \subseteq 1..n /\ IsFiniteSet(S)
  <2>1. IsFiniteSet(1..n) /\ S \subseteq 1..n
    BY FS_Interval
  <2>. QED
    BY <2>1, FS_Subset
<1>4. f \in [S -> T]
  BY <1>1, <1>2
<1>5. \A x, y \in S : f[x] = f[y] => x = y
  BY <1>1
<1>6. \A z \in T : \E x \in S : f[x] = z
  <2> SUFFICES ASSUME NEW z \in T
               PROVE  \E x \in S : f[x] = z
    OBVIOUS
  <2>1. z \in 1..n /\ z < q[i]
    BY <1>2
  <2>2. PICK x \in 1..n : q[x] = z
    BY <1>1, <2>1
  <2>. QED
    BY <2>1, <2>2
<1>7. Cardinality(T) = q[i] - 1
  <2> DEFINE b == q[i] - 1
  <2>1. b \in Int /\ 1 \in Int /\ b >= 0
    BY <1>2
  <2> HIDE DEF b
  <2>2. Cardinality(1..b) = b
    BY <2>1, FS_Interval
  <2>. QED
    BY <2>2 DEF b
<1> HIDE DEF S, T, f
<1>8. Cardinality(T) = Cardinality(S)
  BY <1>3, <1>4, <1>5, <1>6, SameSize
<1>. QED
  BY <1>7, <1>8 DEF S

\* Element i of an answer comes before element j when they are sorted.
Earlier(data, i, j) == data[i].index < data[j].index \/ (data[i].index = data[j].index /\ i < j)
\* q is the order in which sorted() puts the elements.
SortedBy(data, n, q) == \A i, j \in 1..n : Earlier(data, i, j) <=> q[i] < q[j]

\* sorted() puts each element at its rank.
LEMMA Sorted ==
    ASSUME NEW data, NEW n \in Nat, DOMAIN data = 1..n, NEW q \in Bijection(1..n, 1..n),
           SortedBy(data, n, q)
    PROVE  /\ DOMAIN ByIndex(data) = 1..n
           /\ \A i \in 1..n : ByIndex(data)[q[i]] = data[i]
<1> DEFINE before(i, j) == data[i].index < data[j].index \/ (data[i].index = data[j].index /\ i < j)
           place(i) == Cardinality({j \in DOMAIN data : before(j, i)}) + 1
           at(k) == CHOOSE i \in DOMAIN data : place(i) = k
<1>1. ByIndex(data) = [k \in DOMAIN data |-> data[at(k)]]
  BY DEF ByIndex
<1>2. \A i, j \in 1..n : before(i, j) <=> q[i] < q[j]
  BY DEF SortedBy, Earlier
<1> HIDE DEF before
<1>3. /\ q \in [1..n -> 1..n]
      /\ \A x, y \in 1..n : q[x] = q[y] => x = y
  BY DEF Bijection, Injection, IsInjective
<1>4. ASSUME NEW i \in 1..n
      PROVE  place(i) = q[i]
  <2>1. {j \in DOMAIN data : before(j, i)} = {j \in 1..n : q[j] < q[i]}
    BY <1>2
  <2>2. Cardinality({j \in 1..n : q[j] < q[i]}) = q[i] - 1
    BY Rank
  <2>3. place(i) = (q[i] - 1) + 1
    BY <2>1, <2>2
  <2>. QED
    BY <1>3, <2>3
<1> HIDE DEF place
<1>5. ASSUME NEW i \in 1..n
      PROVE  at(q[i]) = i
  <2>1. \E x \in DOMAIN data : place(x) = q[i]
    BY <1>4
  <2>2. at(q[i]) \in 1..n /\ place(at(q[i])) = q[i]
    BY <2>1, Zenon
  <2> HIDE DEF at
  <2>. QED
    BY <1>3, <1>4, <2>2
<1> HIDE DEF at
<1>. QED
  BY <1>1, <1>3, <1>5

\* An answer that comes in order stays as it is.
LEMMA SortedAlready ==
    ASSUME NEW data, NEW n \in Nat, DOMAIN data = 1..n,
           \A i, j \in 1..n : Earlier(data, i, j) <=> i < j
    PROVE  /\ DOMAIN ByIndex(data) = 1..n
           /\ \A i \in 1..n : ByIndex(data)[i] = data[i]
<1> DEFINE q == [i \in 1..n |-> i]
<1>1. q \in Bijection(1..n, 1..n) /\ \A i \in 1..n : q[i] = i
  BY DEF Bijection, Injection, Surjection, IsInjective
<1> HIDE DEF q
<1>2. SortedBy(data, n, q)
  BY <1>1 DEF SortedBy
<1>3. DOMAIN ByIndex(data) = 1..n /\ \A i \in 1..n : ByIndex(data)[q[i]] = data[i]
  BY ONLY <1>1, <1>2, n \in Nat, DOMAIN data = 1..n, Sorted
<1>. QED
  BY <1>1, <1>3

\* What is made of an answer.
Embeddings(data) == [i \in DOMAIN data |-> ByIndex(data)[i].embedding]

\* Vectors of the texts of a batch, in their order, if none is left out.
Own(e, batch) ==
    /\ e \in Seq(Text) /\ Len(e) <= Len(batch)
    /\ Len(e) = Len(batch) => \A i \in 1..Len(batch) : e[i] = batch[i]

\* What is made of a sorted answer is in order, if the sorted answer is.
LEMMA OwnFacts ==
    ASSUME NEW batch \in Seq(Text), NEW data, NEW k \in Nat, DOMAIN data = 1..k, k <= Len(batch),
           DOMAIN ByIndex(data) = 1..k, \A i \in 1..k : ByIndex(data)[i].embedding \in Text,
           k = Len(batch) => \A i \in 1..Len(batch) : ByIndex(data)[i].embedding = batch[i]
    PROVE  Own(Embeddings(data), batch)
<1> DEFINE e == Embeddings(data)
<1>1. e = [i \in 1..k |-> ByIndex(data)[i].embedding]
  BY DEF Embeddings
<1> HIDE DEF e
<1>2. e \in [1..k -> Text]
  BY <1>1
<1>3. e \in Seq(Text) /\ Len(e) = k
  BY ONLY <1>1, <1>2, k \in Nat
<1>4. Own(e, batch)
  BY <1>1, <1>3 DEF Own
<1>. QED
  BY <1>4 DEF e

\* An answer that comes in order.
LEMMA OwnInOrder ==
    ASSUME NEW batch \in Seq(Text), NEW data, NEW k \in Nat, DOMAIN data = 1..k, k <= Len(batch),
           \A i, j \in 1..k : Earlier(data, i, j) <=> i < j,
           \A i \in 1..k : data[i].embedding \in Text,
           k = Len(batch) => \A i \in 1..Len(batch) : data[i].embedding = batch[i]
    PROVE  Own(Embeddings(data), batch)
<1>1. DOMAIN ByIndex(data) = 1..k /\ \A i \in 1..k : ByIndex(data)[i] = data[i]
  BY SortedAlready
<1>. QED
  BY <1>1, OwnFacts

\* In whatever order the service numbers its vectors, _embed_batch returns those of the texts of
\* the batch in their order, or fewer (provider.py:148-183).
THEOREM AnswersFacts ==
    ASSUME NEW batch \in Seq(Text), Len(batch) >= 1, NEW data \in Answers(batch)
    PROVE  Own(Embeddings(data), batch)
<1> DEFINE m == Len(batch)
           all == [i \in DOMAIN batch |-> [embedding |-> batch[i], index |-> i - 1]]
           bare == [i \in DOMAIN batch |-> [embedding |-> batch[i], index |-> 0]]
<1>1. m \in Nat /\ m >= 1 /\ DOMAIN batch = 1..m /\ \A i \in 1..m : batch[i] \in Text
  OBVIOUS
<1>2. \/ \E p \in Bijection(1..m, 1..m) : data = [i \in 1..m |-> all[p[i]]]
      \/ data \in {bare, Tail(all), Tail(bare)}
  BY <1>1 DEF Answers
<1>3. /\ all \in Seq([embedding : Text, index : Nat]) /\ Len(all) = m
      /\ \A i \in 1..m : all[i].embedding = batch[i] /\ all[i].index = i - 1
  BY <1>1
<1>4. /\ bare \in Seq([embedding : Text, index : Nat]) /\ Len(bare) = m
      /\ \A i \in 1..m : bare[i].embedding = batch[i] /\ bare[i].index = 0
  BY <1>1
<1> HIDE DEF all, bare
<1>5. CASE \E p \in Bijection(1..m, 1..m) : data = [i \in 1..m |-> all[p[i]]]
  <2>1. PICK p \in Bijection(1..m, 1..m) : data = [i \in 1..m |-> all[p[i]]]
    BY <1>5
  <2>2. /\ p \in [1..m -> 1..m]
        /\ \A z \in 1..m : \E x \in 1..m : p[x] = z
        /\ \A x, y \in 1..m : p[x] = p[y] => x = y
    BY DEF Bijection, Surjection, Injection, IsInjective
  <2>3. DOMAIN data = 1..m /\ \A i \in 1..m : data[i] = all[p[i]] /\ data[i].index = p[i] - 1
    BY <1>3, <2>1, <2>2
  <2>4. SortedBy(data, m, p)
    <3> SUFFICES ASSUME NEW i \in 1..m, NEW j \in 1..m
                 PROVE  Earlier(data, i, j) <=> p[i] < p[j]
      BY DEF SortedBy
    <3> DEFINE a == p[i]
               b == p[j]
               x == data[i].index
               y == data[j].index
    <3>0. a \in 1..m /\ b \in 1..m /\ (a = b => i = j)
      BY <2>2
    <3>1. a \in Int /\ b \in Int /\ (a = b => i = j) /\ i \in Int /\ j \in Int
      BY <1>1, <3>0
    <3>4. x = a - 1 /\ y = b - 1
      BY <2>3
    <3> HIDE DEF a, b, x, y
    <3>2. (x < y \/ (x = y /\ i < j)) <=> a < b
      BY ONLY <3>1, <3>4
    <3>. QED
      BY <3>2 DEF Earlier, a, b, x, y
  <2>5. DOMAIN ByIndex(data) = 1..m /\ \A i \in 1..m : ByIndex(data)[p[i]] = data[i]
    BY ONLY <1>1, <2>1, <2>3, <2>4, Sorted
  <2>6. \A k \in 1..m : ByIndex(data)[k] = all[k]
    <3> SUFFICES ASSUME NEW k \in 1..m
                 PROVE  ByIndex(data)[k] = all[k]
      OBVIOUS
    <3>1. PICK i \in 1..m : p[i] = k
      BY <2>2
    <3>. QED
      BY <2>3, <2>5, <3>1
  <2>7. \A k \in 1..m : ByIndex(data)[k].embedding = batch[k] /\ ByIndex(data)[k].embedding \in Text
    BY <1>1, <1>3, <2>6
  <2>. QED
    BY <1>1, <2>3, <2>5, <2>7, OwnFacts
<1>6. CASE data = bare
  <2>1. DOMAIN data = 1..m /\ \A i \in 1..m : data[i].embedding = batch[i] /\ data[i].index = 0
    BY <1>1, <1>4, <1>6
  <2>2. \A i, j \in 1..m : Earlier(data, i, j) <=> i < j
    BY <2>1 DEF Earlier
  <2>. QED
    BY <1>1, <2>1, <2>2, OwnInOrder
<1>7. ASSUME NEW s \in Seq([embedding : Text, index : Nat]), Len(s) = m, data = Tail(s)
      PROVE  /\ DOMAIN data = 1..(m - 1) /\ m - 1 \in Nat
             /\ \A i \in 1..(m - 1) : i + 1 \in 1..m /\ data[i] = s[i + 1]
  <2>1. Len(s) >= 1 /\ m \in Nat
    BY <1>1, <1>7
  <2> HIDE DEF m
  <2>. QED
    BY <1>7, <2>1
<1>8. CASE data = Tail(all)
  <2> DEFINE k == m - 1
  <2>1. DOMAIN data = 1..k /\ k \in Nat /\ \A i \in 1..k : i + 1 \in 1..m /\ data[i] = all[i + 1]
    BY <1>3, <1>7, <1>8
  <2>2. \A i \in 1..k : data[i].index = i /\ data[i].embedding \in Text
    <3> SUFFICES ASSUME NEW i \in 1..k
                 PROVE  data[i].index = i /\ data[i].embedding \in Text
      OBVIOUS
    <3>1. i + 1 \in 1..m /\ data[i] = all[i + 1] /\ (i + 1) - 1 = i
      BY <2>1
    <3>. QED
      BY <1>1, <1>3, <3>1
  <2>3. k <= m /\ k # m
    <3>1. m \in Nat
      BY <1>1
    <3> HIDE DEF m
    <3>. QED
      BY ONLY <3>1
  <2> HIDE DEF k
  <2>4. \A i, j \in 1..k : Earlier(data, i, j) <=> i < j
    BY <2>1, <2>2 DEF Earlier
  <2>. QED
    <3>1. DOMAIN data = 1..k /\ k \in Nat /\ \A i \in 1..k : data[i].embedding \in Text
      BY ONLY <2>1, <2>2
    <3>2. k <= Len(batch) /\ k # Len(batch)
      BY ONLY <2>3
    <3>3. k = Len(batch) => \A i \in 1..Len(batch) : data[i].embedding = batch[i]
      BY ONLY <3>2
    <3>. QED
      BY <2>4, <3>1, <3>2, <3>3, OwnInOrder
<1>9. CASE data = Tail(bare)
  <2> DEFINE k == m - 1
  <2>1. DOMAIN data = 1..k /\ k \in Nat /\ \A i \in 1..k : i + 1 \in 1..m /\ data[i] = bare[i + 1]
    BY <1>4, <1>7, <1>9
  <2>2. \A i \in 1..k : data[i].index = 0 /\ data[i].embedding \in Text
    <3> SUFFICES ASSUME NEW i \in 1..k
                 PROVE  data[i].index = 0 /\ data[i].embedding \in Text
      OBVIOUS
    <3>1. i + 1 \in 1..m /\ data[i] = bare[i + 1]
      BY <2>1
    <3>. QED
      BY <1>1, <1>4, <3>1
  <2>3. k <= m /\ k # m
    <3>1. m \in Nat
      BY <1>1
    <3> HIDE DEF m
    <3>. QED
      BY ONLY <3>1
  <2> HIDE DEF k
  <2>4. \A i, j \in 1..k : Earlier(data, i, j) <=> i < j
    BY <2>1, <2>2 DEF Earlier
  <2>. QED
    <3>1. DOMAIN data = 1..k /\ k \in Nat /\ \A i \in 1..k : data[i].embedding \in Text
      BY ONLY <2>1, <2>2
    <3>2. k <= Len(batch) /\ k # Len(batch)
      BY ONLY <2>3
    <3>3. k = Len(batch) => \A i \in 1..Len(batch) : data[i].embedding = batch[i]
      BY ONLY <3>2
    <3>. QED
      BY <2>4, <3>1, <3>2, <3>3, OwnInOrder
<1>. QED
  BY <1>2, <1>5, <1>6, <1>8, <1>9

-----------------------------------------------------------------------------
(* What is left of a text without some of its characters.                  *)

\* A sequence more.
LEMMA FlattenOfMore ==
    ASSUME NEW S, NEW s \in Seq(Seq(S)), NEW a \in Seq(S)
    PROVE  /\ FlattenSeq(s) \in Seq(S)
           /\ FlattenSeq(Append(s, a)) = FlattenSeq(s) \o a
<1> DEFINE n == Len(s)
           more == Append(s, a)
<1>1. /\ more \in Seq(Seq(S)) /\ Len(more) = n + 1 /\ n \in Nat
      /\ \A k \in 1..n : more[k] = s[k]
      /\ more[n + 1] = a
  OBVIOUS
<1>2. PICK g : /\ \A k \in 0..n : g[k] \in Seq(S)
               /\ g[0] = <<>>
               /\ \A k \in 1..n : g[k] = g[k - 1] \o s[k]
               /\ FlattenSeq(s) = g[n]
  BY FlattenSteps
<1> HIDE DEF more
<1>3. PICK h : /\ \A k \in 0..(n + 1) : h[k] \in Seq(S)
               /\ h[0] = <<>>
               /\ \A k \in 1..(n + 1) : h[k] = h[k - 1] \o more[k]
               /\ FlattenSeq(more) = h[n + 1]
  <2>1. PICK h : /\ \A k \in 0..Len(more) : h[k] \in Seq(S)
                 /\ h[0] = <<>>
                 /\ \A k \in 1..Len(more) : h[k] = h[k - 1] \o more[k]
                 /\ FlattenSeq(more) = h[Len(more)]
    BY <1>1, FlattenSteps
  <2>. QED
    BY <1>1, <2>1
<1> HIDE DEF n
<1> DEFINE T == {k \in Nat : k <= n => g[k] = h[k]}
<1>4. 0 \in T
  BY <1>2, <1>3
<1>5. ASSUME NEW k \in T
      PROVE  k + 1 \in T
  <2> SUFFICES ASSUME k + 1 <= n
               PROVE  g[k + 1] = h[k + 1]
    OBVIOUS
  <2>1. k + 1 \in 1..n /\ k + 1 \in 1..(n + 1) /\ (k + 1) - 1 = k /\ g[k] = h[k]
    BY <1>1
  <2>2. g[k + 1] = g[k] \o s[k + 1] /\ h[k + 1] = h[k] \o more[k + 1] /\ more[k + 1] = s[k + 1]
    BY <1>1, <1>2, <1>3, <2>1
  <2>. QED
    BY <2>1, <2>2
<1>6. T = Nat
  <2>1. T \in SUBSET Nat
    OBVIOUS
  <2> HIDE DEF T
  <2>. QED
    BY ONLY <1>4, <1>5, <2>1, InductiveSet
<1>7. g[n] = h[n]
  BY <1>1, <1>6
<1>8. n + 1 \in 1..(n + 1) /\ (n + 1) - 1 = n /\ n \in 0..n
  BY <1>1
<1>9. h[n + 1] = h[n] \o a
  BY <1>1, <1>3, <1>8
<1>10. FlattenSeq(s) \in Seq(S)
  BY <1>2, <1>8
<1>. QED
  BY <1>2, <1>3, <1>7, <1>9, <1>10 DEF more

\* No sequence, and one.
LEMMA FlattenOfOne ==
    ASSUME NEW S, NEW a \in Seq(S)
    PROVE  FlattenSeq(<<>>) = <<>> /\ FlattenSeq(<<a>>) = a
<1> DEFINE none == <<>>
<1>1. none \in Seq(Seq(S)) /\ Len(none) = 0
  OBVIOUS
<1>2. FlattenSeq(none) = <<>>
  <2> HIDE DEF none
  <2>. QED
    BY ONLY <1>1, FlattenSteps
<1>3. Append(none, a) = <<a>> /\ <<>> \o a = a
  OBVIOUS
<1> HIDE DEF none
<1>4. FlattenSeq(Append(none, a)) = FlattenSeq(none) \o a
  BY <1>1, FlattenOfMore
<1>. QED
  BY <1>2, <1>3, <1>4 DEF none

\* Three sequences in a row, and one behind another that is appended to.
LEMMA InARow ==
    ASSUME NEW S, NEW a \in Seq(S), NEW b \in Seq(S), NEW c \in Seq(S)
    PROVE  /\ (a \o b) \o c = a \o (b \o c)
           /\ \A x \in S : a \o Append(b, x) = Append(a \o b, x)
           /\ a \o <<>> = a /\ <<>> \o a = a
           /\ a \o b \in Seq(S) /\ Len(a \o b) = Len(a) + Len(b)
  OBVIOUS

\* Sequences one after the other.
LEMMA FlattenOfTwo ==
    ASSUME NEW S, NEW s \in Seq(Seq(S)), NEW t \in Seq(Seq(S))
    PROVE  FlattenSeq(s \o t) = FlattenSeq(s) \o FlattenSeq(t)
<1> DEFINE V == Seq(S)
           T == {u \in Seq(V) : FlattenSeq(s \o u) = FlattenSeq(s) \o FlattenSeq(u)}
<1>1. <<>> \in T
  <2> DEFINE none == <<>>
  <2>1. none \in Seq(V) /\ s \o none = s
    BY InARow, SMTT(30)
  <2>2. FlattenSeq(none) = <<>> /\ FlattenSeq(s) \in Seq(S)
    <3>1. <<>> \in Seq(S)
      OBVIOUS
    <3>. QED
      BY <3>1, FlattenOfOne, FlattenOfMore
  <2>3. FlattenSeq(s) \o <<>> = FlattenSeq(s)
    BY <2>2
  <2>. QED
    BY <2>1, <2>2, <2>3
<1>2. ASSUME NEW u \in T, NEW a \in V
      PROVE  Append(u, a) \in T
  <2>0. u \in Seq(V) /\ s \in Seq(V)
    OBVIOUS
  <2> HIDE DEF V
  <2>1. u \in Seq(V) /\ s \o u \in Seq(V) /\ Append(u, a) \in Seq(V) /\ s \o Append(u, a) = Append(s \o u, a)
    BY ONLY <2>0, a \in V
  <2>2. FlattenSeq(s \o u) = FlattenSeq(s) \o FlattenSeq(u)
    OBVIOUS
  <2>3. /\ FlattenSeq(Append(s \o u, a)) = FlattenSeq(s \o u) \o a
        /\ FlattenSeq(Append(u, a)) = FlattenSeq(u) \o a
        /\ FlattenSeq(s) \in V /\ FlattenSeq(u) \in V
    BY <2>1, FlattenOfMore DEF V
  <2>4. (FlattenSeq(s) \o FlattenSeq(u)) \o a = FlattenSeq(s) \o (FlattenSeq(u) \o a)
    <3> DEFINE x == FlattenSeq(s)
               y == FlattenSeq(u)
    <3>1. x \in Seq(S) /\ y \in Seq(S) /\ a \in Seq(S)
      BY <2>3 DEF V
    <3> HIDE DEF x, y
    <3>2. (x \o y) \o a = x \o (y \o a)
      BY ONLY <3>1, InARow, SMTT(30)
    <3>. QED
      BY <3>2 DEF x, y
  <2>. QED
    BY <2>1, <2>2, <2>3, <2>4
<1>3. T = Seq(V)
  <2>1. T \in SUBSET Seq(V)
    OBVIOUS
  <2> HIDE DEF T, V
  <2>. QED
    BY ONLY <1>1, <1>2, <2>1, SequenceInduction
<1>. QED
  BY <1>3

\* What of a character is left.
Rest(c, set) == IF c \in set THEN <<>> ELSE <<c>>

\* One character more.
LEMMA WithoutMore ==
    ASSUME NEW t \in Text, NEW c \in Characters, NEW set
    PROVE  /\ Without(t, set) \in Text
           /\ Without(Append(t, c), set) = Without(t, set) \o Rest(c, set)
<1> DEFINE rest(u) == [i \in DOMAIN u |-> IF u[i] \in set THEN <<>> ELSE <<u[i]>>]
           more == Append(t, c)
<1>1. /\ Len(t) \in Nat /\ DOMAIN t = 1..Len(t) /\ more \in Seq(Characters) /\ Len(more) = Len(t) + 1
      /\ DOMAIN more = 1..(Len(t) + 1) /\ \A i \in 1..Len(t) : more[i] = t[i]
      /\ more[Len(t) + 1] = c
  BY DEF Text
<1>2. rest(t) \in Seq(Seq(Characters)) /\ Len(rest(t)) = Len(t)
  BY <1>1 DEF Text
<1>3. Rest(c, set) \in Seq(Characters)
  BY DEF Rest
<1>4. rest(more) = Append(rest(t), Rest(c, set))
  <2>1. rest(more) \in Seq(Seq(Characters)) /\ Len(rest(more)) = Len(t) + 1
    BY <1>1
  <2>2. Append(rest(t), Rest(c, set)) \in Seq(Seq(Characters)) /\ Len(Append(rest(t), Rest(c, set))) = Len(t) + 1
    BY <1>2, <1>3
  <2>3. ASSUME NEW i \in 1..(Len(t) + 1)
        PROVE  rest(more)[i] = Append(rest(t), Rest(c, set))[i]
    <3>1. CASE i \in 1..Len(t)
      BY <1>1, <1>2, <3>1
    <3>2. CASE i = Len(t) + 1
      BY <1>1, <1>2, <1>3, <3>2 DEF Rest
    <3>. QED
      BY <1>1, <3>1, <3>2
  <2>. QED
    BY ONLY <1>1, <2>1, <2>2, <2>3, SameSequence
<1>5. Without(t, set) = FlattenSeq(rest(t)) /\ Without(more, set) = FlattenSeq(rest(more))
  BY DEF Without
<1> HIDE DEF rest, more
<1>6. /\ FlattenSeq(rest(t)) \in Seq(Characters)
      /\ FlattenSeq(Append(rest(t), Rest(c, set))) = FlattenSeq(rest(t)) \o Rest(c, set)
  BY <1>2, <1>3, FlattenOfMore
<1>. QED
  BY <1>4, <1>5, <1>6 DEF Text, more

\* No character, one, and texts one after the other.
LEMMA WithoutLaws ==
    ASSUME NEW set, NEW a \in Text, NEW b \in Text
    PROVE  /\ Without(<<>>, set) = <<>>
           /\ Without(a, set) \in Text
           /\ a \o b \in Text
           /\ Without(a \o b, set) = Without(a, set) \o Without(b, set)
<1>1. Without(<<>>, set) = <<>>
  <2> DEFINE none == <<>>
             rest == [i \in DOMAIN none |-> IF none[i] \in set THEN <<>> ELSE <<none[i]>>]
  <2>1. none \in Seq(Characters) /\ Len(none) = 0 /\ DOMAIN none = 1..0
    OBVIOUS
  <2> HIDE DEF none
  <2>2. rest \in Seq(Seq(Characters)) /\ Len(rest) = 0
    BY <2>1
  <2>3. Without(none, set) = FlattenSeq(rest)
    BY DEF Without
  <2> HIDE DEF rest
  <2>4. rest = <<>>
    BY <2>2
  <2>5. FlattenSeq(<<>>) = <<>>
    <3>1. <<>> \in Seq(Characters)
      OBVIOUS
    <3>. QED
      BY <3>1, FlattenOfOne
  <2>. QED
    BY <2>3, <2>4, <2>5 DEF none
<1> DEFINE T == {u \in Text : Without(a \o u, set) = Without(a, set) \o Without(u, set)}
<1>2. <<>> \in T
  <2> DEFINE none == <<>>
  <2>1. none \in Text /\ a \o none = a /\ Without(none, set) = none
    BY <1>1 DEF Text
  <2>2. Without(a, set) \in Text /\ Without(a, set) \o none = Without(a, set)
    <3>1. \A x \in Text : x \o none = x
      BY DEF Text
    <3>2. PICK c : c \in Characters \/ Characters = {}
      OBVIOUS
    <3>3. CASE Characters = {}
      <4>1. a = <<>>
        BY <3>3 DEF Text
      <4>. QED
        BY <1>1, <2>1, <3>1, <4>1
    <3>4. CASE c \in Characters
      BY <3>1, <3>4, WithoutMore
    <3>. QED
      BY <3>2, <3>3, <3>4
  <2>. QED
    BY <2>1, <2>2
<1>3. ASSUME NEW u \in T, NEW c \in Characters
      PROVE  Append(u, c) \in T
  <2>1. u \in Text /\ Append(u, c) \in Text /\ a \o u \in Text /\ a \o Append(u, c) = Append(a \o u, c)
    BY DEF Text
  <2>2. /\ Without(Append(a \o u, c), set) = Without(a \o u, set) \o Rest(c, set)
        /\ Without(Append(u, c), set) = Without(u, set) \o Rest(c, set)
        /\ Without(u, set) \in Text /\ Without(a, set) \in Text /\ Rest(c, set) \in Text
    <3>1. Rest(c, set) \in Text
      BY DEF Rest, Text
    <3>. QED
      BY <2>1, <3>1, WithoutMore
  <2> DEFINE x == Without(a, set)
             y == Without(u, set)
             z == Rest(c, set)
  <2>3. x \in Seq(Characters) /\ y \in Seq(Characters) /\ z \in Seq(Characters)
    BY <2>2 DEF Text
  <2>4. Without(a \o u, set) = x \o y
    OBVIOUS
  <2> HIDE DEF x, y, z
  <2>5. (x \o y) \o z = x \o (y \o z)
    BY ONLY <2>3, InARow, SMTT(30)
  <2>. QED
    BY <2>1, <2>2, <2>4, <2>5 DEF x, y, z
<1>4. T = Text
  <2>1. T \in SUBSET Seq(Characters)
    BY DEF Text
  <2> HIDE DEF T
  <2>2. T = Seq(Characters)
    BY ONLY <1>2, <1>3, <2>1, SequenceInduction
  <2>. QED
    BY <2>2 DEF Text
<1>5. Without(a, set) \in Text /\ a \o b \in Text
  <2>1. PICK c : c \in Characters \/ Characters = {}
    OBVIOUS
  <2>2. CASE Characters = {}
    <3>1. a = <<>>
      BY <2>2 DEF Text
    <3>2. <<>> \in Text
      BY DEF Text
    <3>3. a \o b \in Text
      BY DEF Text
    <3>. QED
      BY <1>1, <3>1, <3>2, <3>3
  <2>3. CASE c \in Characters
    BY <2>3, WithoutMore DEF Text
  <2>. QED
    BY <2>1, <2>2, <2>3 DEF Text
<1>. QED
  BY <1>1, <1>4, <1>5

\* Nothing is left of characters of the set, and of others all.
LEMMA WithoutNothing ==
    ASSUME NEW t \in Text, NEW set
    PROVE  (\A i \in 1..Len(t) : t[i] \in set) => Without(t, set) = <<>>
<1> DEFINE T == {u \in Text : (\A i \in 1..Len(u) : u[i] \in set) => Without(u, set) = <<>>}
<1>1. <<>> \in T
  <2>1. <<>> \in Text
    BY DEF Text
  <2>. QED
    BY <2>1, WithoutLaws
<1>2. ASSUME NEW u \in T, NEW c \in Characters
      PROVE  Append(u, c) \in T
  <2> DEFINE v == Append(u, c)
  <2>1. /\ v \in Text /\ u \in Text /\ Len(v) = Len(u) + 1 /\ Len(u) \in Nat
        /\ (\A i \in 1..Len(u) : v[i] = u[i]) /\ v[Len(u) + 1] = c
    BY DEF Text
  <2>2. Without(v, set) = Without(u, set) \o Rest(c, set)
    BY <2>1, WithoutMore
  <2> HIDE DEF v
  <2>3. ASSUME \A i \in 1..Len(v) : v[i] \in set
        PROVE  Without(v, set) = <<>>
    <3>1. \A i \in 1..Len(u) : u[i] \in set
      BY <2>1, <2>3
    <3>2. Len(v) \in 1..Len(v)
      BY <2>1
    <3>3. c \in set
      BY <2>1, <2>3, <3>2
    <3>4. Without(u, set) = <<>> /\ Rest(c, set) = <<>>
      BY <3>1, <3>3 DEF Rest
    <3>. QED
      BY <2>2, <3>4
  <2>. QED
    BY <2>1, <2>3 DEF v
<1>3. T = Text
  <2>1. T \in SUBSET Seq(Characters)
    BY DEF Text
  <2> HIDE DEF T
  <2>2. T = Seq(Characters)
    BY ONLY <1>1, <1>2, <2>1, SequenceInduction
  <2>. QED
    BY <2>2 DEF Text
<1>. QED
  BY <1>3

\* What is left of texts.
AllWithout(s, set) == Without(FlattenSeq(s), set)

\* No text, one, one more, and texts one after the other.
LEMMA AllWithoutLaws ==
    ASSUME NEW set, NEW s \in Seq(Text), NEW u \in Seq(Text), NEW t \in Text
    PROVE  /\ FlattenSeq(s) \in Text /\ AllWithout(s, set) \in Text /\ Without(t, set) \in Text
           /\ AllWithout(<<>>, set) = <<>>
           /\ AllWithout(<<t>>, set) = Without(t, set)
           /\ AllWithout(s \o u, set) = AllWithout(s, set) \o AllWithout(u, set)
           /\ AllWithout(Append(s, t), set) = AllWithout(s, set) \o Without(t, set)
<1>1. /\ t \in Seq(Characters) /\ s \in Seq(Seq(Characters)) /\ u \in Seq(Seq(Characters))
  BY DEF Text
<1>2. FlattenSeq(<<>>) = <<>> /\ FlattenSeq(<<t>>) = t
  BY <1>1, FlattenOfOne
<1>3. /\ FlattenSeq(s) \in Text /\ FlattenSeq(u) \in Text
      /\ FlattenSeq(Append(s, t)) = FlattenSeq(s) \o t
  BY <1>1, FlattenOfMore DEF Text
<1>4. FlattenSeq(s \o u) = FlattenSeq(s) \o FlattenSeq(u)
  BY <1>1, FlattenOfTwo
<1>5. /\ Without(<<>>, set) = <<>> /\ Without(FlattenSeq(s), set) \in Text /\ Without(t, set) \in Text
      /\ Without(FlattenSeq(s) \o t, set) = Without(FlattenSeq(s), set) \o Without(t, set)
      /\ Without(FlattenSeq(s) \o FlattenSeq(u), set) = Without(FlattenSeq(s), set) \o Without(FlattenSeq(u), set)
  BY <1>3, WithoutLaws
<1>. QED
  BY <1>2, <1>3, <1>4, <1>5 DEF AllWithout

\* The first texts, and one more.
LEMMA FirstOnes ==
    ASSUME NEW S, NEW s \in Seq(S)
    PROVE  /\ SubSeq(s, 1, 0) = <<>> /\ SubSeq(s, 1, Len(s)) = s
           /\ \A k \in 0..Len(s) : SubSeq(s, 1, k) \in Seq(S)
           /\ \A k \in Nat : k + 1 <= Len(s) =>
                 SubSeq(s, 1, k + 1) = Append(SubSeq(s, 1, k), s[k + 1]) /\ s[k + 1] \in S
  OBVIOUS

\* Texts that are replaced by others of which the same is left.
LEMMA SameLeft ==
    ASSUME NEW set, NEW s \in Seq(Text), NEW u \in Seq(Text), Len(s) = Len(u),
           \A i \in 1..Len(s) : Without(s[i], set) = Without(u[i], set)
    PROVE  AllWithout(s, set) = AllWithout(u, set)
<1> DEFINE n == Len(s)
           T == {k \in Nat : k <= n => AllWithout(SubSeq(s, 1, k), set) = AllWithout(SubSeq(u, 1, k), set)}
<1>1. n \in Nat
  OBVIOUS
<1>2. /\ SubSeq(s, 1, 0) = <<>> /\ SubSeq(u, 1, 0) = <<>> /\ SubSeq(s, 1, n) = s /\ SubSeq(u, 1, n) = u
      /\ \A k \in Nat : k + 1 <= n =>
            /\ SubSeq(s, 1, k + 1) = Append(SubSeq(s, 1, k), s[k + 1]) /\ s[k + 1] \in Text
            /\ SubSeq(u, 1, k + 1) = Append(SubSeq(u, 1, k), u[k + 1]) /\ u[k + 1] \in Text
            /\ SubSeq(s, 1, k) \in Seq(Text) /\ SubSeq(u, 1, k) \in Seq(Text)
  <2>1. \A k \in Nat : k + 1 <= n => k \in 0..n
    BY <1>1
  <2>. QED
    BY <2>1, FirstOnes
<1>3. 0 \in T
  BY <1>2
<1>4. ASSUME NEW k \in T
      PROVE  k + 1 \in T
  <2> SUFFICES ASSUME k + 1 <= n
               PROVE  AllWithout(SubSeq(s, 1, k + 1), set) = AllWithout(SubSeq(u, 1, k + 1), set)
    OBVIOUS
  <2>1. k <= n /\ k + 1 \in 1..n /\ k \in Nat
    BY <1>1
  <2>2. AllWithout(SubSeq(s, 1, k), set) = AllWithout(SubSeq(u, 1, k), set)
    BY <2>1
  <2> DEFINE a == SubSeq(s, 1, k)
             b == SubSeq(u, 1, k)
             x == s[k + 1]
             y == u[k + 1]
  <2>3. /\ a \in Seq(Text) /\ b \in Seq(Text) /\ x \in Text /\ y \in Text
        /\ SubSeq(s, 1, k + 1) = Append(a, x) /\ SubSeq(u, 1, k + 1) = Append(b, y)
    BY <1>2, <2>1
  <2>4. Without(x, set) = Without(y, set) /\ AllWithout(a, set) = AllWithout(b, set)
    BY <2>1, <2>2
  <2> HIDE DEF a, b, x, y
  <2>5. /\ AllWithout(Append(a, x), set) = AllWithout(a, set) \o Without(x, set)
        /\ AllWithout(Append(b, y), set) = AllWithout(b, set) \o Without(y, set)
    BY <2>3, AllWithoutLaws, ZenonT(30)
  <2>. QED
    BY <2>3, <2>4, <2>5
<1>5. T = Nat
  <2>1. T \in SUBSET Nat
    OBVIOUS
  <2> HIDE DEF T
  <2>. QED
    BY ONLY <1>3, <1>4, <2>1, InductiveSet
<1>6. AllWithout(SubSeq(s, 1, n), set) = AllWithout(SubSeq(u, 1, n), set)
  <2>1. n \in T /\ n <= n
    BY <1>1, <1>5
  <2>. QED
    BY <2>1
<1>. QED
  BY <1>2, <1>6

\* Texts each of which is replaced by texts of which the same is left.
LEMMA SameLeftOfParts ==
    ASSUME NEW set, NEW s \in Seq(Text), NEW u \in Seq(Seq(Text)), Len(s) = Len(u),
           \A i \in 1..Len(s) : AllWithout(u[i], set) = Without(s[i], set)
    PROVE  AllWithout(FlattenSeq(u), set) = AllWithout(s, set)
<1> DEFINE n == Len(s)
           T == {k \in Nat : k <= n => AllWithout(FlattenSeq(SubSeq(u, 1, k)), set) = AllWithout(SubSeq(s, 1, k), set)}
<1>1. n \in Nat
  OBVIOUS
<1>2. /\ SubSeq(s, 1, 0) = <<>> /\ SubSeq(u, 1, 0) = <<>> /\ SubSeq(s, 1, n) = s /\ SubSeq(u, 1, n) = u
      /\ \A k \in Nat : k + 1 <= n =>
            /\ SubSeq(s, 1, k + 1) = Append(SubSeq(s, 1, k), s[k + 1]) /\ s[k + 1] \in Text
            /\ SubSeq(u, 1, k + 1) = Append(SubSeq(u, 1, k), u[k + 1]) /\ u[k + 1] \in Seq(Text)
            /\ SubSeq(s, 1, k) \in Seq(Text) /\ SubSeq(u, 1, k) \in Seq(Seq(Text))
  <2>1. \A k \in Nat : k + 1 <= n => k \in 0..n
    BY <1>1
  <2>. QED
    BY <2>1, FirstOnes
<1>3. 0 \in T
  <2>1. FlattenSeq(<<>>) = <<>>
    <3>1. <<>> \in Seq(Text)
      OBVIOUS
    <3>. QED
      BY <3>1, FlattenOfOne
  <2>. QED
    BY <1>2, <2>1
<1>4. ASSUME NEW k \in T
      PROVE  k + 1 \in T
  <2> SUFFICES ASSUME k + 1 <= n
               PROVE  AllWithout(FlattenSeq(SubSeq(u, 1, k + 1)), set) = AllWithout(SubSeq(s, 1, k + 1), set)
    OBVIOUS
  <2>1. k <= n /\ k + 1 \in 1..n /\ k \in Nat
    BY <1>1
  <2>2. AllWithout(FlattenSeq(SubSeq(u, 1, k)), set) = AllWithout(SubSeq(s, 1, k), set)
    BY <2>1
  <2> DEFINE a == SubSeq(s, 1, k)
             b == SubSeq(u, 1, k)
             x == s[k + 1]
             y == u[k + 1]
  <2>3. /\ a \in Seq(Text) /\ b \in Seq(Seq(Text)) /\ x \in Text /\ y \in Seq(Text)
        /\ SubSeq(s, 1, k + 1) = Append(a, x) /\ SubSeq(u, 1, k + 1) = Append(b, y)
    BY <1>2, <2>1
  <2>4. AllWithout(y, set) = Without(x, set) /\ AllWithout(FlattenSeq(b), set) = AllWithout(a, set)
    BY <2>1, <2>2
  <2> HIDE DEF a, b, x, y
  <2>5. FlattenSeq(b) \in Seq(Text) /\ FlattenSeq(Append(b, y)) = FlattenSeq(b) \o y
    BY <2>3, FlattenOfMore
  <2>6. AllWithout(Append(a, x), set) = AllWithout(a, set) \o Without(x, set)
    BY <2>3, AllWithoutLaws
  <2>7. AllWithout(FlattenSeq(b) \o y, set) = AllWithout(FlattenSeq(b), set) \o AllWithout(y, set)
    <3>1. <<>> \in Text
      BY DEF Text
    <3>. QED
      BY <2>3, <2>5, <3>1, AllWithoutLaws
  <2>. QED
    BY <2>3, <2>4, <2>5, <2>6, <2>7
<1>5. T = Nat
  <2>1. T \in SUBSET Nat
    OBVIOUS
  <2> HIDE DEF T
  <2>. QED
    BY ONLY <1>3, <1>4, <2>1, InductiveSet
<1>6. AllWithout(FlattenSeq(SubSeq(u, 1, n)), set) = AllWithout(SubSeq(s, 1, n), set)
  <2>1. n \in T /\ n <= n
    BY <1>1, <1>5
  <2>. QED
    BY <2>1
<1>. QED
  BY <1>2, <1>6

\* A sequence is made of its parts.
LEMMA Glue ==
    ASSUME NEW S, NEW a \in Seq(S), NEW b \in Seq(S), NEW s \in Seq(S), Len(s) = Len(a) + Len(b),
           \A k \in 1..Len(a) : s[k] = a[k], \A k \in 1..Len(b) : s[Len(a) + k] = b[k]
    PROVE  a \o b = s
<1> DEFINE c == a \o b
           p == Len(a)
           q == Len(b)
<1>1. /\ c \in Seq(S) /\ Len(c) = p + q /\ p \in Nat /\ q \in Nat
      /\ \A k \in 1..p : c[k] = a[k]
      /\ \A k \in 1..q : c[p + k] = b[k]
  BY Concatenation
<1>2. /\ Len(s) = p + q /\ \A k \in 1..p : s[k] = a[k]
      /\ \A k \in 1..q : s[p + k] = b[k]
  OBVIOUS
<1> HIDE DEF c, p, q
<1>3. ASSUME NEW k \in 1..Len(c)
      PROVE  c[k] = s[k]
  <2>1. CASE k <= p
    <3>1. k \in 1..p
      BY <1>1, <2>1
    <3>. QED
      BY <1>1, <1>2, <3>1
  <2>2. CASE ~(k <= p)
    <3> DEFINE m == k - p
    <3>1. m \in 1..q /\ p + m = k
      BY <1>1, <2>2
    <3> HIDE DEF m
    <3>2. c[p + m] = b[m] /\ s[p + m] = b[m]
      BY <1>1, <1>2, <3>1
    <3>. QED
      BY <3>1, <3>2
  <2>. QED
    BY <2>1, <2>2
<1>4. c = s
  BY ONLY <1>1, <1>2, <1>3, s \in Seq(S), SameSequence
<1>. QED
  BY <1>4 DEF c

\* Three parts of a sequence, and the one in the middle.
LEMMA ThreeParts ==
    ASSUME NEW S, NEW s \in Seq(S), NEW i \in Nat, NEW j \in Nat, i <= j, j <= Len(s)
    PROVE  /\ SubSeq(s, 1, i) \in Seq(S) /\ SubSeq(s, i + 1, j) \in Seq(S) /\ SubSeq(s, j + 1, Len(s)) \in Seq(S)
           /\ SubSeq(s, 1, i) \o SubSeq(s, i + 1, j) = SubSeq(s, 1, j)
           /\ SubSeq(s, 1, j) \o SubSeq(s, j + 1, Len(s)) = s
<1> DEFINE a == SubSeq(s, 1, i)
           b == SubSeq(s, i + 1, j)
           c == SubSeq(s, j + 1, Len(s))
           d == SubSeq(s, 1, j)
<1>1. /\ a \in Seq(S) /\ Len(a) = i /\ \A k \in 1..i : a[k] = s[k]
      /\ b \in Seq(S) /\ Len(b) = j - i /\ \A k \in 1..(j - i) : b[k] = s[i + k]
      /\ c \in Seq(S) /\ Len(c) = Len(s) - j /\ \A k \in 1..(Len(s) - j) : c[k] = s[j + k]
      /\ d \in Seq(S) /\ Len(d) = j /\ \A k \in 1..j : d[k] = s[k]
  OBVIOUS
<1> HIDE DEF a, b, c, d
<1>2. a \o b = d
  <2>1. /\ Len(d) = Len(a) + Len(b) /\ \A k \in 1..Len(a) : d[k] = a[k]
        /\ \A k \in 1..Len(b) : d[Len(a) + k] = b[k]
    <3>1. \A k \in 1..i : k \in 1..j
      OBVIOUS
    <3>2. \A k \in 1..(j - i) : i + k \in 1..j
      OBVIOUS
    <3>3. Len(d) = Len(a) + Len(b)
      BY <1>1
    <3>. QED
      BY <1>1, <3>1, <3>2, <3>3
  <2>. QED
    BY ONLY <1>1, <2>1, Glue
<1>3. d \o c = s
  <2>1. /\ Len(s) = Len(d) + Len(c) /\ \A k \in 1..Len(d) : s[k] = d[k]
        /\ \A k \in 1..Len(c) : s[Len(d) + k] = c[k]
    <3>1. Len(s) \in Nat
      OBVIOUS
    <3>. QED
      BY <1>1, <3>1
  <2>. QED
    BY ONLY <1>1, <2>1, s \in Seq(S), Glue
<1>. QED
  BY <1>1, <1>2, <1>3 DEF a, b, c, d

\* A text in the middle of others.
LEMMA InTheMiddle ==
    ASSUME NEW a \in Text, NEW b \in Text, NEW c \in Text
    PROVE  /\ (a \o b) \o c \in Text /\ Len((a \o b) \o c) = Len(a) + Len(b) + Len(c)
           /\ Len(a \o b) = Len(a) + Len(b)
           /\ Slice((a \o b) \o c, Len(a), Len(a) + Len(b)) = b
           /\ Len(a) \in Nat /\ Len(b) \in Nat /\ Len(c) \in Nat
<1> DEFINE t == (a \o b) \o c
           p == Len(a)
           q == Len(a) + Len(b)
<1>1. /\ a \in Seq(Characters) /\ b \in Seq(Characters) /\ c \in Seq(Characters)
      /\ Len(a) \in Nat /\ Len(b) \in Nat /\ Len(c) \in Nat
  BY DEF Text
<1>2. /\ t \in Seq(Characters) /\ Len(t) = q + Len(c) /\ Len(a \o b) = q
      /\ \A k \in 1..Len(b) : t[p + k] = b[k]
  BY <1>1
<1> HIDE DEF t
<1>3. t \in Text /\ 0 <= p /\ p <= q /\ q <= Len(t) /\ p \in Int /\ q \in Int
  BY <1>1, <1>2 DEF Text
<1>4. /\ Slice(t, p, q) \in Text /\ Len(Slice(t, p, q)) = q - p
      /\ \A i \in 1..(q - p) : Slice(t, p, q)[i] = t[p + i]
  BY <1>3, SliceFacts
<1>5. Slice(t, p, q) = b
  <2>1. Slice(t, p, q) \in Seq(Characters) /\ Len(Slice(t, p, q)) = Len(b) /\ q - p = Len(b)
    BY <1>1, <1>4 DEF Text
  <2>2. \A i \in 1..Len(b) : Slice(t, p, q)[i] = b[i]
    BY <1>2, <1>4, <2>1
  <2>. QED
    BY ONLY <1>1, <2>1, <2>2, SameSequence
<1>. QED
  BY <1>1, <1>2, <1>3, <1>5 DEF t

\* Separators that are dropped anyway.
LEMMA JoinLeft ==
    ASSUME NEW set, NEW sep \in Text, NEW parts \in Seq(Text), Without(sep, set) = <<>>
    PROVE  Without(Join(sep, parts), set) = AllWithout(parts, set)
<1> DEFINE j == [i \in DOMAIN parts |-> IF i = 1 THEN parts[1] ELSE sep \o parts[i]]
<1>1. Len(parts) \in Nat /\ DOMAIN parts = 1..Len(parts) /\ \A i \in 1..Len(parts) : parts[i] \in Text
  OBVIOUS
<1>2. \A i \in 1..Len(parts) : sep \o parts[i] \in Text
  BY <1>1, WithoutLaws
<1>3. j \in Seq(Text) /\ Len(j) = Len(parts) /\ \A i \in 1..Len(parts) : j[i] = IF i = 1 THEN parts[1] ELSE sep \o parts[i]
  BY <1>1, <1>2
<1>4. Join(sep, parts) = FlattenSeq(j)
  BY DEF Join
<1> HIDE DEF j
<1>5. \A t \in Text : Without(t, set) \in Text /\ Without(sep \o t, set) = Without(t, set)
  <2> SUFFICES ASSUME NEW t \in Text
               PROVE  Without(t, set) \in Text /\ Without(sep \o t, set) = Without(t, set)
    OBVIOUS
  <2>1. /\ Without(t, set) \in Text /\ Without(sep \o t, set) = Without(sep, set) \o Without(t, set)
    BY WithoutLaws
  <2> DEFINE x == Without(t, set)
  <2>2. x \in Text
    BY <2>1
  <2> HIDE DEF x
  <2>3. <<>> \o x = x
    BY <2>2 DEF Text
  <2>. QED
    BY <2>1, <2>3 DEF x
<1>6. \A i \in 1..Len(j) : Without(j[i], set) = Without(parts[i], set)
  BY <1>1, <1>3, <1>5
<1>7. AllWithout(j, set) = AllWithout(parts, set)
  BY ONLY <1>3, <1>6, parts \in Seq(Text), SameLeft
<1>. QED
  BY <1>4, <1>7 DEF AllWithout

\* Texts without any character that is left may be left out.
LEMMA FilledLeft ==
    ASSUME NEW set, Blanks \subseteq set, NEW parts \in Seq(Text)
    PROVE  AllWithout(Filled(parts), set) = AllWithout(parts, set)
<1> DEFINE u == [i \in DOMAIN parts |-> IF IsBlank(parts[i]) THEN <<>> ELSE <<parts[i]>>]
<1>1. Len(parts) \in Nat /\ DOMAIN parts = 1..Len(parts) /\ \A i \in 1..Len(parts) : parts[i] \in Text
  OBVIOUS
<1>2. u \in Seq(Seq(Text)) /\ Len(u) = Len(parts)
      /\ \A i \in 1..Len(parts) : u[i] = IF IsBlank(parts[i]) THEN <<>> ELSE <<parts[i]>>
  BY <1>1
<1>3. Filled(parts) = FlattenSeq(u)
  BY DEF Filled
<1> HIDE DEF u
<1>4. ASSUME NEW i \in 1..Len(parts)
      PROVE  AllWithout(u[i], set) = Without(parts[i], set)
  <2>1. parts[i] \in Text /\ DOMAIN parts[i] = 1..Len(parts[i])
    BY <1>1 DEF Text
  <2>2. AllWithout(<<>>, set) = <<>> /\ AllWithout(<<parts[i]>>, set) = Without(parts[i], set)
    <3>1. <<>> \in Seq(Text)
      OBVIOUS
    <3>. QED
      BY <2>1, <3>1, AllWithoutLaws
  <2>3. IsBlank(parts[i]) => Without(parts[i], set) = <<>>
    BY <2>1, WithoutNothing DEF IsBlank
  <2>. QED
    BY <1>2, <2>2, <2>3
<1>. QED
  BY ONLY <1>2, <1>3, <1>4, parts \in Seq(Text), SameLeftOfParts

\* How much is left of the first k characters.
CountLeft(t, k, set) == Len(Without(Slice(t, 0, k), set))

\* What is left of a slice is a slice of what is left.
LEMMA SliceLeft ==
    ASSUME NEW set, NEW t \in Text, NEW a \in Nat, NEW b \in Nat, a <= b, b <= Len(t)
    PROVE  /\ CountLeft(t, a, set) \in Nat /\ CountLeft(t, b, set) \in Nat
           /\ CountLeft(t, a, set) <= CountLeft(t, b, set)
           /\ CountLeft(t, b, set) <= Len(Without(t, set))
           /\ Len(Without(Slice(t, a, b), set)) = CountLeft(t, b, set) - CountLeft(t, a, set)
           /\ Without(Slice(t, a, b), set) \in Text
           /\ Slice(Without(t, set), CountLeft(t, a, set), CountLeft(t, b, set)) = Without(Slice(t, a, b), set)
           /\ Without(t, set) = (Without(Slice(t, 0, a), set) \o Without(Slice(t, a, b), set))
                                 \o Without(Slice(t, b, Len(t)), set)
<1> DEFINE x == Slice(t, 0, a)
           y == Slice(t, a, b)
           z == Slice(t, b, Len(t))
           f == Slice(t, 0, b)
<1>1. x \in Text /\ y \in Text /\ z \in Text /\ f \in Text /\ x \o y = f /\ f \o z = t
  <2>1. t \in Seq(Characters)
    BY DEF Text
  <2>2. /\ SubSeq(t, 1, a) \in Seq(Characters) /\ SubSeq(t, a + 1, b) \in Seq(Characters)
        /\ SubSeq(t, b + 1, Len(t)) \in Seq(Characters)
        /\ SubSeq(t, 1, a) \o SubSeq(t, a + 1, b) = SubSeq(t, 1, b)
        /\ SubSeq(t, 1, b) \o SubSeq(t, b + 1, Len(t)) = t
    BY <2>1, ThreeParts, ZenonT(30)
  <2>3. SubSeq(t, 1, b) \in Seq(Characters)
    BY <2>1
  <2>4. 0 + 1 = 1
    OBVIOUS
  <2>. QED
    BY <2>2, <2>3, <2>4 DEF Slice, Text
<1> HIDE DEF x, y, z, f
<1>2. /\ Without(f, set) = Without(x, set) \o Without(y, set)
      /\ Without(t, set) = Without(f, set) \o Without(z, set)
      /\ Without(x, set) \in Text /\ Without(y, set) \in Text /\ Without(z, set) \in Text
  BY <1>1, WithoutLaws, ZenonT(30)
<1> DEFINE u == Without(x, set)
           v == Without(y, set)
           w == Without(z, set)
<1>3. u \in Text /\ v \in Text /\ w \in Text /\ Without(f, set) = u \o v /\ Without(t, set) = (u \o v) \o w
  BY <1>2
<1> HIDE DEF u, v, w
<1>4. /\ Len((u \o v) \o w) = Len(u) + Len(v) + Len(w) /\ Len(u \o v) = Len(u) + Len(v)
      /\ Slice((u \o v) \o w, Len(u), Len(u) + Len(v)) = v
      /\ Len(u) \in Nat /\ Len(v) \in Nat /\ Len(w) \in Nat
  BY <1>3, InTheMiddle
<1>5. CountLeft(t, a, set) = Len(u) /\ CountLeft(t, b, set) = Len(u) + Len(v)
  BY <1>3, <1>4 DEF CountLeft, u, x, f
<1>6. /\ Len(u) <= Len(u) + Len(v) /\ Len(u) + Len(v) <= Len(u) + Len(v) + Len(w) /\ Len(u) + Len(v) \in Nat
      /\ Len(v) = (Len(u) + Len(v)) - Len(u)
  BY <1>4
<1>. QED
  BY <1>3, <1>4, <1>5, <1>6 DEF u, v, w, x, y, z

\* str.strip() drops nothing else.
LEMMA StripLeft ==
    ASSUME NEW set, Blanks \subseteq set, NEW t \in Text
    PROVE  Without(Strip(t), set) = Without(t, set)
<1> DEFINE kept == {i \in DOMAIN t : t[i] \notin Blanks}
<1>1. Len(t) \in Nat /\ DOMAIN t = 1..Len(t) /\ t \in Seq(Characters)
  BY DEF Text
<1>2. CASE kept = {}
  <2>1. Without(t, set) = <<>>
    BY <1>1, <1>2, WithoutNothing
  <2>2. Strip(t) = <<>>
    BY <1>2 DEF Strip
  <2>3. Without(<<>>, set) = <<>>
    BY WithoutLaws
  <2>. QED
    BY <2>1, <2>2, <2>3
<1>3. CASE kept # {}
  <2> DEFINE lo == Min(kept)
             hi == Max(kept)
             a == lo - 1
  <2>0. kept \in SUBSET (1..Len(t)) /\ kept \in SUBSET Nat
    BY <1>1
  <2>2. Strip(t) = SubSeq(t, lo, hi)
    BY <1>3, Zenon DEF Strip
  <2>k. \A i \in 1..Len(t) : i \in kept \/ t[i] \in Blanks
    BY <1>1
  <2> HIDE DEF kept
  <2>l. lo \in kept /\ \A i \in kept : lo <= i
    BY <1>3, <2>0, LeastNumber DEF Min
  <2>h. hi \in kept /\ \A i \in kept : i <= hi
    <3>1. \E x \in kept : \A y \in kept : y <= x
      BY <1>1, <1>3, <2>0, GreatestNumber
    <3>. QED
      BY <2>0, <3>1 DEF Max
  <2>1. lo \in kept /\ hi \in kept /\ \A i \in kept : lo <= i /\ i <= hi
    BY <2>l, <2>h
  <2>3. lo \in 1..Len(t) /\ hi \in 1..Len(t) /\ lo <= hi
    BY <1>1, <2>0, <2>1
  <2> HIDE DEF lo, hi
  <2>4. /\ \A i \in 1..(lo - 1) : t[i] \in Blanks
        /\ \A i \in (hi + 1)..Len(t) : t[i] \in Blanks
    <3>1. \A i \in 1..(lo - 1) : i \in 1..Len(t) /\ ~(lo <= i)
      BY <1>1, <2>3
    <3>2. \A i \in (hi + 1)..Len(t) : i \in 1..Len(t) /\ ~(i <= hi)
      BY <1>1, <2>3
    <3>. QED
      BY <2>1, <2>k, <3>1, <3>2
  <2>5. a \in Nat /\ hi \in Nat /\ a <= hi /\ hi <= Len(t) /\ a + 1 = lo /\ a \in Int
    BY <1>1, <2>3
  <2> HIDE DEF a
  <2>6. Strip(t) = Slice(t, a, hi)
    BY <2>2, <2>5 DEF Slice
  <2>7. /\ Without(t, set) = (Without(Slice(t, 0, a), set) \o Without(Slice(t, a, hi), set))
                             \o Without(Slice(t, hi, Len(t)), set)
        /\ Without(Slice(t, a, hi), set) \in Text
    BY <2>5, SliceLeft
  <2>8. Without(Slice(t, 0, a), set) = <<>>
    <3>1. /\ Slice(t, 0, a) \in Text /\ Len(Slice(t, 0, a)) = a
          /\ \A i \in 1..a : Slice(t, 0, a)[i] = t[i]
      <4> DEFINE z == 0
      <4>1. z \in Int /\ a \in Int /\ 0 <= z /\ z <= a /\ a <= Len(t) /\ a - z = a /\ \A i \in 1..a : z + i = i
        BY <1>1, <2>5
      <4> HIDE DEF z
      <4>2. /\ Slice(t, z, a) \in Text /\ Len(Slice(t, z, a)) = a - z
            /\ \A i \in 1..(a - z) : Slice(t, z, a)[i] = t[z + i]
        BY ONLY <4>1, t \in Text, SliceFacts
      <4> HIDE DEF a
      <4>3. /\ Slice(t, z, a) \in Text /\ Len(Slice(t, z, a)) = a
            /\ \A i \in 1..a : Slice(t, z, a)[i] = t[i]
        <5>1. \A i \in 1..a : z + i = i /\ i \in 1..(a - z)
          BY <4>1
        <5>2. \A i \in 1..a : Slice(t, z, a)[i] = t[z + i]
          BY <4>2, <5>1
        <5>. QED
          BY <4>1, <4>2, <5>1, <5>2
      <4>. QED
        BY <4>3 DEF z
    <3>2. \A i \in 1..a : t[i] \in set
      BY <2>3, <2>4 DEF a
    <3>. QED
      BY <3>1, <3>2, WithoutNothing
  <2>9. Without(Slice(t, hi, Len(t)), set) = <<>>
    <3>1. /\ Slice(t, hi, Len(t)) \in Text /\ Len(Slice(t, hi, Len(t))) = Len(t) - hi
          /\ \A i \in 1..(Len(t) - hi) : Slice(t, hi, Len(t))[i] = t[hi + i]
      <4> DEFINE n == Len(t)
      <4>1. n \in Int /\ hi \in Int /\ 0 <= hi /\ hi <= n /\ n <= Len(t)
        BY <1>1, <2>5
      <4> HIDE DEF n
      <4>2. /\ Slice(t, hi, n) \in Text /\ Len(Slice(t, hi, n)) = n - hi
            /\ \A i \in 1..(n - hi) : Slice(t, hi, n)[i] = t[hi + i]
        BY ONLY <4>1, t \in Text, SliceFacts
      <4>. QED
        BY <4>2 DEF n
    <3>2. \A i \in 1..(Len(t) - hi) : t[hi + i] \in set
      <4>1. \A i \in 1..(Len(t) - hi) : hi + i \in (hi + 1)..Len(t)
        BY <1>1, <2>5
      <4>. QED
        BY <2>4, <4>1
    <3>. QED
      BY <3>1, <3>2, WithoutNothing
  <2>10. \A x \in Text : (<<>> \o x) \o <<>> = x
    BY DEF Text
  <2>. QED
    BY <2>6, <2>7, <2>8, <2>9, <2>10
<1>. QED
  BY <1>2, <1>3

\* One character more: it is left or not.
LEMMA OneCharacterMore ==
    ASSUME NEW set, NEW u \in Text, NEW c \in Characters
    PROVE  /\ Append(u, c) \in Text /\ Without(u, set) \in Text
           /\ c \in set => Without(Append(u, c), set) = Without(u, set)
           /\ c \notin set => Without(Append(u, c), set) = Append(Without(u, set), c)
<1> DEFINE x == Without(u, set)
<1>1. Append(u, c) \in Text
  BY DEF Text
<1>2. x \in Text /\ Without(Append(u, c), set) = x \o Rest(c, set)
  BY WithoutMore
<1> HIDE DEF x
<1>3. x \o <<>> = x /\ x \o <<c>> = Append(x, c)
  BY <1>2 DEF Text
<1>. QED
  BY <1>1, <1>2, <1>3 DEF Rest, x

\* Runs of blanks that become one blank.
LEMMA CollapseLeft ==
    ASSUME ChunkerAssumption, NEW set, Blanks \subseteq set, NEW t \in Text, NEW runs, runs \subseteq Blanks
    PROVE  Collapse(t, runs) \in Text /\ Without(Collapse(t, runs), set) = Without(t, set)
<1> DEFINE n == Len(t)
           first(k) == SubSeq(t, 1, k)
<1>1. PICK g : /\ \A k \in 0..n : g[k] \in Text
               /\ g[0] = <<>>
               /\ \A k \in 1..n :
                     g[k] = IF t[k] \notin runs THEN Append(g[k - 1], t[k])
                            ELSE IF g[k - 1] # <<>> /\ Last(g[k - 1]) = Space THEN g[k - 1] ELSE Append(g[k - 1], Space)
               /\ Collapse(t, runs) = g[n]
  BY CollapseSteps
<1>2. n \in Nat /\ n \in 0..n
  BY DEF Text
<1>3. /\ first(0) = <<>> /\ first(n) = t
      /\ \A k \in Nat : k + 1 <= n => first(k + 1) = Append(first(k), t[k + 1]) /\ t[k + 1] \in Characters
      /\ \A k \in 0..n : first(k) \in Text
  BY FirstOnes DEF Text
<1>4. Space \in Characters /\ Space \in set
  BY TextConstants
<1> DEFINE T == {k \in Nat : k <= n => Without(g[k], set) = Without(first(k), set)}
<1> HIDE DEF n, first
<1>5. 0 \in T
  BY <1>1, <1>3
<1>6. ASSUME NEW k \in T
      PROVE  k + 1 \in T
  <2> SUFFICES ASSUME k + 1 <= n
               PROVE  Without(g[k + 1], set) = Without(first(k + 1), set)
    OBVIOUS
  <2> DEFINE z == k + 1
             a == g[k]
             b == first(k)
             x == t[z]
  <2>1. z - 1 = k /\ z \in 1..n /\ k \in 0..n /\ Without(a, set) = Without(b, set)
    BY <1>2
  <2>2. /\ g[z] = IF x \notin runs THEN Append(a, x)
                  ELSE IF a # <<>> /\ Last(a) = Space THEN a ELSE Append(a, Space)
        /\ first(z) = Append(b, x) /\ a \in Text /\ b \in Text /\ x \in Characters
    BY <1>1, <1>3, <2>1
  <2> HIDE DEF a, b, x, z
  <2>3. /\ x \in set => Without(Append(b, x), set) = Without(b, set)
        /\ x \notin set => Without(Append(b, x), set) = Append(Without(b, set), x)
        /\ x \in set => Without(Append(a, x), set) = Without(a, set)
        /\ x \notin set => Without(Append(a, x), set) = Append(Without(a, set), x)
        /\ Without(Append(a, Space), set) = Without(a, set)
    BY <1>4, <2>2, OneCharacterMore
  <2>4. x \in runs => x \in set
    OBVIOUS
  <2>5. Without(g[z], set) = Without(first(z), set)
    BY <2>1, <2>2, <2>3, <2>4
  <2>. QED
    BY <2>5 DEF z
<1>7. T = Nat
  <2>1. T \in SUBSET Nat
    OBVIOUS
  <2> HIDE DEF T
  <2>. QED
    BY ONLY <1>5, <1>6, <2>1, InductiveSet
<1>8. Without(g[n], set) = Without(first(n), set)
  BY <1>2, <1>7
<1>. QED
  BY <1>1, <1>2, <1>3, <1>8

\* The rest of a text, and the part in front of it.
LEMMA TwoPartsLeft ==
    ASSUME NEW set, NEW t \in Text, NEW a \in Nat, NEW b \in Nat, a <= b, b <= Len(t)
    PROVE  /\ Slice(t, a, b) \in Text /\ Slice(t, b, Len(t)) \in Text /\ Slice(t, a, Len(t)) \in Text
           /\ Without(Slice(t, a, Len(t)), set) = Without(Slice(t, a, b), set) \o Without(Slice(t, b, Len(t)), set)
<1> DEFINE x == Slice(t, a, b)
           y == Slice(t, b, Len(t))
           z == Slice(t, a, Len(t))
           n == Len(t)
<1>1. t \in Seq(Characters) /\ n \in Nat
  BY DEF Text
<1>2. /\ x \in Seq(Characters) /\ Len(x) = b - a /\ \A k \in 1..(b - a) : x[k] = t[a + k]
      /\ y \in Seq(Characters) /\ Len(y) = n - b /\ \A k \in 1..(n - b) : y[k] = t[b + k]
      /\ z \in Seq(Characters) /\ Len(z) = n - a /\ \A k \in 1..(n - a) : z[k] = t[a + k]
  <2>1. /\ a \in Int /\ b \in Int /\ n \in Int /\ 0 <= a /\ 0 <= b /\ a <= n /\ b <= n /\ n <= Len(t)
    BY <1>1
  <2> HIDE DEF n
  <2>2. /\ Slice(t, a, b) \in Text /\ Len(Slice(t, a, b)) = b - a
        /\ \A i \in 1..(b - a) : Slice(t, a, b)[i] = t[a + i]
    BY ONLY <2>1, t \in Text, a <= b, SliceFacts DEF n
  <2>3. /\ Slice(t, b, n) \in Text /\ Len(Slice(t, b, n)) = n - b
        /\ \A i \in 1..(n - b) : Slice(t, b, n)[i] = t[b + i]
    BY ONLY <2>1, t \in Text, SliceFacts
  <2>4. /\ Slice(t, a, n) \in Text /\ Len(Slice(t, a, n)) = n - a
        /\ \A i \in 1..(n - a) : Slice(t, a, n)[i] = t[a + i]
    BY ONLY <2>1, t \in Text, SliceFacts
  <2>. QED
    BY <2>2, <2>3, <2>4 DEF n, Text
<1>3. n \in Nat /\ b <= n
  BY <1>1
<1> HIDE DEF x, y, z, n
<1>4. x \o y = z
  <2>1. Len(z) = Len(x) + Len(y)
    BY <1>2, <1>3
  <2>2. \A k \in 1..Len(x) : z[k] = x[k]
    <3>1. \A k \in 1..(b - a) : k \in 1..(n - a)
      BY <1>3
    <3>. QED
      BY <1>2, <3>1
  <2>3. \A k \in 1..Len(y) : z[Len(x) + k] = y[k]
    <3>1. \A k \in 1..(n - b) : (b - a) + k \in 1..(n - a) /\ a + ((b - a) + k) = b + k
      BY <1>3
    <3>. QED
      BY <1>2, <3>1
  <2>. QED
    BY ONLY <1>2, <2>1, <2>2, <2>3, Glue
<1>5. x \in Text /\ y \in Text /\ z \in Text
  BY <1>2 DEF Text
<1>6. Without(z, set) = Without(x, set) \o Without(y, set)
  BY <1>4, <1>5, WithoutLaws
<1>. QED
  BY <1>5, <1>6 DEF x, y, z, n

\* A text that is left, in front of others.
LEMMA InFrontLeft ==
    ASSUME NEW set, NEW a \in Text, NEW s \in Seq(Text)
    PROVE  <<a>> \o s \in Seq(Text) /\ AllWithout(<<a>> \o s, set) = Without(a, set) \o AllWithout(s, set)
<1> DEFINE b == <<a>>
<1>1. b \in Seq(Text)
  OBVIOUS
<1>2. AllWithout(b, set) = Without(a, set)
  BY AllWithoutLaws
<1> HIDE DEF b
<1>3. AllWithout(b \o s, set) = AllWithout(b, set) \o AllWithout(s, set)
  BY <1>1, AllWithoutLaws
<1>4. b \o s \in Seq(Text)
  BY <1>1
<1>. QED
  BY <1>2, <1>3, <1>4 DEF b

\* A text cut at `e`, and taken up again behind characters that are dropped.
LEMMA CutLeft ==
    ASSUME NEW set, NEW t \in Text, NEW from \in Nat, NEW e \in Nat, NEW z \in Nat,
           from <= e, e <= z, z <= Len(t), Without(Slice(t, e, z), set) = <<>>
    PROVE  /\ Slice(t, from, e) \in Text
           /\ Without(Slice(t, from, Len(t)), set) = Without(Slice(t, from, e), set) \o Without(Slice(t, z, Len(t)), set)
<1>1. Len(t) \in Nat /\ e <= Len(t)
  BY DEF Text
<1>2. /\ Slice(t, from, e) \in Text /\ Slice(t, e, Len(t)) \in Text
      /\ Without(Slice(t, from, Len(t)), set) = Without(Slice(t, from, e), set) \o Without(Slice(t, e, Len(t)), set)
  BY ONLY <1>1, t \in Text, from \in Nat, e \in Nat, from <= e, TwoPartsLeft
<1>3. /\ Slice(t, z, Len(t)) \in Text
      /\ Without(Slice(t, e, Len(t)), set) = Without(Slice(t, e, z), set) \o Without(Slice(t, z, Len(t)), set)
  BY ONLY t \in Text, e \in Nat, z \in Nat, e <= z, z <= Len(t), TwoPartsLeft
<1> DEFINE y == Without(Slice(t, z, Len(t)), set)
<1>4. y \in Text
  BY <1>3, WithoutLaws
<1> HIDE DEF y
<1>5. <<>> \o y = y
  BY <1>4 DEF Text
<1>. QED
  BY <1>2, <1>3, <1>5 DEF y

\* str.split() at separators that are dropped anyway.
LEMMA SplitLeft ==
    ASSUME NEW set, NEW t \in Text, NEW sep \in Text, Len(sep) > 0, Without(sep, set) = <<>>
    PROVE  Split(t, sep) \in Seq(Text) /\ AllWithout(Split(t, sep), set) = Without(t, set)
<1> DEFINE n == Len(t)
           S == 0..n
           at(from) == Find(t, sep, from)
           rank == [from \in S |-> n - from]
<1>0. n \in Nat /\ Len(sep) \in Nat /\ 0 \in S
  BY DEF Text
<1>1. PICK f \in [S -> Seq(Text)] :
         /\ \A from \in S :
               f[from] = IF at(from) < 0 THEN <<Slice(t, from, n)>>
                         ELSE <<Slice(t, from, at(from))>> \o f[at(from) + Len(sep)]
         /\ Split(t, sep) = f[0]
  BY SplitSteps
<1>2. \A from \in S : from \in Nat /\ from <= n
  BY <1>0
<1>f. \A from \in S :
         at(from) \in Int /\ (~(at(from) < 0) => /\ from <= at(from) /\ at(from) + Len(sep) <= n
                                                 /\ Slice(t, at(from), at(from) + Len(sep)) = sep)
  <2> TAKE from \in S
  <2>1. from \in Nat
    BY <1>2
  <2>2. /\ Find(t, sep, from) \in Int
        /\ Find(t, sep, from) >= 0 =>
              /\ from <= Find(t, sep, from) /\ Find(t, sep, from) + Len(sep) <= Len(t)
              /\ Slice(t, Find(t, sep, from), Find(t, sep, from) + Len(sep)) = sep
    BY ONLY <2>1, t \in Text, sep \in Text, FindFacts
  <2>3. at(from) \in Int /\ (~(at(from) < 0) => at(from) >= 0)
    BY <2>2
  <2>. QED
    BY <2>2, <2>3
<1>3. rank \in [S -> Nat] /\ \A x, y \in S : x > y => rank[x] < rank[y]
  BY <1>0
<1> HIDE DEF rank
<1> DEFINE Good(from) == AllWithout(f[from], set) = Without(Slice(t, from, n), set)
           T == {from \in S : Good(from)}
<1>4. ASSUME NEW from \in S, at(from) < 0
      PROVE  Good(from)
  <2> DEFINE a == Slice(t, from, n)
  <2>1. f[from] = <<a>>
    BY <1>1, <1>4
  <2>2. a \in Text
    BY <1>0, <1>2, SliceFacts
  <2> HIDE DEF a
  <2>3. AllWithout(<<a>>, set) = Without(a, set)
    BY <1>1, <1>0, <2>2, AllWithoutLaws
  <2>. QED
    BY <2>1, <2>3 DEF a
<1>5. ASSUME NEW from \in S, ~(at(from) < 0), Good(at(from) + Len(sep))
      PROVE  Good(from)
  <2> DEFINE e == at(from)
             z == e + Len(sep)
             a == Slice(t, from, e)
  <2>1. f[from] = <<a>> \o f[z]
    BY <1>1, <1>5
  <2>2. /\ e \in Nat /\ from \in Nat /\ from <= e /\ e <= z /\ z \in Nat /\ z <= n /\ Slice(t, e, z) = sep /\ z \in S
    BY <1>0, <1>2, <1>5, <1>f
  <2>3. AllWithout(f[z], set) = Without(Slice(t, z, n), set)
    BY <1>5
  <2> HIDE DEF e, z
  <2>4. /\ a \in Text
        /\ Without(Slice(t, from, n), set) = Without(a, set) \o Without(Slice(t, z, n), set)
    BY <2>2, CutLeft, ZenonT(30)
  <2> HIDE DEF a
  <2>5. AllWithout(<<a>> \o f[z], set) = Without(a, set) \o AllWithout(f[z], set)
    BY <1>1, <2>2, <2>4, InFrontLeft
  <2>. QED
    BY <2>1, <2>3, <2>4, <2>5
<1> HIDE DEF Good
<1>6. T = S
  <2>1. T \in SUBSET S /\ \A x \in S : x \in T <=> Good(x)
    OBVIOUS
  <2>2. ASSUME NEW x \in S, \A y \in S : rank[y] < rank[x] => y \in T
        PROVE  x \in T
    <3>1. CASE at(x) < 0
      BY <1>4, <2>1, <3>1
    <3>2. CASE ~(at(x) < 0)
      <4> DEFINE z == at(x) + Len(sep)
      <4>1. z \in S /\ z > x
        BY <1>0, <1>2, <1>f, <3>2
      <4>2. rank[z] < rank[x]
        BY <1>3, <4>1
      <4>3. Good(z)
        BY <2>1, <2>2, <4>1, <4>2
      <4>. QED
        BY <1>5, <2>1, <3>2, <4>3
    <3>. QED
      BY <3>1, <3>2
  <2> HIDE DEF T, S
  <2>3. Inherits(S, rank, T)
    BY <2>2, Zenon DEF Inherits
  <2>4. rank \in [S -> Nat] /\ T \in SUBSET S
    BY <1>3, <2>1
  <2>. QED
    BY ONLY <2>3, <2>4, RankedInduction
<1>7. Good(0)
  BY <1>0, <1>6
<1>8. Slice(t, 0, n) = t
  <2>1. SubSeq(t, 1, Len(t)) = t
    BY FirstOnes DEF Text
  <2>2. 0 + 1 = 1
    OBVIOUS
  <2>. QED
    BY <2>1, <2>2 DEF Slice
<1>9. f[0] \in Seq(Text)
  BY <1>0, <1>1
<1>. QED
  BY <1>1, <1>7, <1>8, <1>9 DEF Good

\* re.split() at the white space between sentences.
LEMMA SentencesLeft ==
    ASSUME NEW set, Blanks \subseteq set, NEW t \in Text
    PROVE  SplitSentences(t) \in Seq(Text) /\ AllWithout(SplitSentences(t), set) = Without(t, set)
<1> DEFINE n == Len(t)
           S == 0..n
           last(from) == BreaksAfter(t, from) = {}
           x(from) == NextBreak(t, from)[1]
           y(from) == NextBreak(t, from)[2]
           rank == [from \in S |-> n - from]
<1>0. n \in Nat /\ 0 \in S
  BY DEF Text
<1>1. PICK f \in [S -> Seq(Text)] :
         /\ \A from \in S :
               f[from] = IF last(from) THEN <<Slice(t, from, n)>>
                         ELSE <<Slice(t, from, x(from))>> \o f[y(from)]
         /\ SplitSentences(t) = f[0]
  BY SentenceSteps
<1>2. \A from \in S : from \in Nat /\ from <= n
  BY <1>0
<1>3. rank \in [S -> Nat] /\ \A a, b \in S : a > b => rank[a] < rank[b]
  BY <1>0
<1> HIDE DEF rank
<1> DEFINE Good(from) == AllWithout(f[from], set) = Without(Slice(t, from, n), set)
           T == {from \in S : Good(from)}
<1>4. ASSUME NEW from \in S, ~last(from)
      PROVE  /\ x(from) \in Nat /\ from <= x(from) /\ x(from) <= y(from) /\ y(from) \in S /\ from < y(from)
             /\ y(from) \in Nat /\ y(from) <= n /\ from \in Nat
             /\ Without(Slice(t, x(from), y(from)), set) = <<>>
  <2>1. NextBreak(t, from) \in Breaks(t) /\ from < x(from)
    BY <1>2, <1>4, NextBreakFacts
  <2>2. /\ x(from) \in Nat /\ y(from) \in Nat /\ x(from) < y(from) /\ y(from) < n
        /\ \A i \in (x(from) + 1)..y(from) : t[i] \in Blanks
    BY <2>1, BreakFacts
  <2> DEFINE e == x(from)
             z == y(from)
  <2>3. /\ e \in Nat /\ z \in Nat /\ e < z /\ z < n /\ from < e /\ \A i \in (e + 1)..z : t[i] \in Blanks
    BY <2>1, <2>2
  <2> HIDE DEF e, z
  <2>4. Without(Slice(t, e, z), set) = <<>>
    <3>1. e \in Int /\ z \in Int /\ 0 <= e /\ e <= z /\ z <= Len(t)
      BY <1>0, <2>3
    <3>2. /\ Slice(t, e, z) \in Text /\ Len(Slice(t, e, z)) = z - e
          /\ \A i \in 1..(z - e) : Slice(t, e, z)[i] = t[e + i]
      BY ONLY <3>1, t \in Text, SliceFacts
    <3>3. \A i \in 1..(z - e) : t[e + i] \in set
      <4>1. \A i \in 1..(z - e) : e + i \in (e + 1)..z
        BY <3>1
      <4>. QED
        BY <2>3, <4>1
    <3>. QED
      BY <3>2, <3>3, WithoutNothing
  <2>5. from \in Nat /\ from <= n
    BY <1>2
  <2>6. e <= z /\ from <= e /\ z \in S /\ from < z /\ z <= n
    BY <1>0, <2>3, <2>5
  <2>. QED
    BY <2>3, <2>4, <2>5, <2>6 DEF e, z
<1>5. ASSUME NEW from \in S, last(from)
      PROVE  Good(from)
  <2> DEFINE a == Slice(t, from, n)
  <2>1. f[from] = <<a>>
    BY <1>1, <1>5
  <2>2. a \in Text
    BY <1>0, <1>2, SliceFacts
  <2> HIDE DEF a
  <2>3. AllWithout(<<a>>, set) = Without(a, set)
    BY <1>1, <1>0, <2>2, AllWithoutLaws
  <2>. QED
    BY <2>1, <2>3 DEF a
<1>6. ASSUME NEW from \in S, ~last(from), Good(y(from))
      PROVE  Good(from)
  <2> DEFINE e == x(from)
             z == y(from)
             a == Slice(t, from, e)
  <2>1. f[from] = <<a>> \o f[z]
    BY <1>1, <1>6
  <2>2. /\ e \in Nat /\ from \in Nat /\ from <= e /\ e <= z /\ z \in Nat /\ z <= n /\ z \in S
        /\ Without(Slice(t, e, z), set) = <<>>
    BY <1>4, <1>6
  <2>3. AllWithout(f[z], set) = Without(Slice(t, z, n), set)
    BY <1>6
  <2> HIDE DEF e, z
  <2>4. /\ a \in Text
        /\ Without(Slice(t, from, n), set) = Without(a, set) \o Without(Slice(t, z, n), set)
    BY <2>2, CutLeft
  <2> HIDE DEF a
  <2>5. AllWithout(<<a>> \o f[z], set) = Without(a, set) \o AllWithout(f[z], set)
    BY <1>1, <2>2, <2>4, InFrontLeft
  <2>. QED
    BY <2>1, <2>3, <2>4, <2>5
<1> HIDE DEF Good
<1>7. T = S
  <2>1. T \in SUBSET S /\ \A a \in S : a \in T <=> Good(a)
    OBVIOUS
  <2>2. ASSUME NEW a \in S, \A b \in S : rank[b] < rank[a] => b \in T
        PROVE  a \in T
    <3>1. CASE last(a)
      BY <1>5, <2>1, <3>1
    <3>2. CASE ~last(a)
      <4>1. y(a) \in S /\ a < y(a)
        BY <1>4, <3>2
      <4>2. rank[y(a)] < rank[a]
        BY <1>2, <1>3, <4>1
      <4>3. Good(y(a))
        BY <2>1, <2>2, <4>1, <4>2
      <4>. QED
        BY <1>6, <2>1, <3>2, <4>3
    <3>. QED
      BY <3>1, <3>2
  <2> HIDE DEF T, S
  <2>3. Inherits(S, rank, T)
    BY <2>2, Zenon DEF Inherits
  <2>4. rank \in [S -> Nat] /\ T \in SUBSET S
    BY <1>3, <2>1
  <2>. QED
    BY ONLY <2>3, <2>4, RankedInduction
<1>8. Good(0)
  BY <1>0, <1>7
<1>9. Slice(t, 0, n) = t
  <2>1. SubSeq(t, 1, Len(t)) = t
    BY FirstOnes DEF Text
  <2>2. 0 + 1 = 1
    OBVIOUS
  <2>. QED
    BY <2>1, <2>2 DEF Slice
<1>10. f[0] \in Seq(Text)
  BY <1>0, <1>1
<1>. QED
  BY <1>1, <1>8, <1>9, <1>10 DEF Good

-----------------------------------------------------------------------------
(* What splitting and loading leave.                                       *)

\* What is left of a state of PackAll.
PackedLeft(v, set) == AllWithout(v.out, set) \o Without(v.buf, set)

\* A step of PackAll keeps what is left of the pieces so far.
LEMMA PackLeft ==
    ASSUME NEW set, NEW sep \in Text, Without(sep, set) = <<>>, NEW v \in Packed, NEW p \in Text, NEW size
    PROVE  PackedLeft(Pack(v, p, sep, size), set) = PackedLeft(v, set) \o Without(p, set)
<1> DEFINE out == v.out
           buf == v.buf
           candidate == IF buf = <<>> THEN p ELSE buf \o sep \o p
           full == IF buf = <<>> THEN out ELSE Append(out, buf)
           x == AllWithout(out, set)
           y == Without(buf, set)
           z == Without(p, set)
<1>1. out \in Seq(Text) /\ buf \in Text /\ v = [out |-> out, buf |-> buf]
  BY DEF Packed
<1>2. Pack(v, p, sep, size) = IF Len(candidate) <= size THEN [v EXCEPT !.buf = candidate]
                              ELSE [out |-> full, buf |-> p]
  BY DEF Pack
<1>3. /\ [v EXCEPT !.buf = candidate].out = out /\ [v EXCEPT !.buf = candidate].buf = candidate
      /\ [out |-> full, buf |-> p].out = full /\ [out |-> full, buf |-> p].buf = p
  BY <1>1
<1> HIDE DEF out, buf
<1>4. x \in Text /\ y \in Text /\ z \in Text /\ (buf = <<>> => y = <<>>)
  BY <1>1, AllWithoutLaws, WithoutLaws
<1>5. Without(candidate, set) = y \o z
  <2>1. CASE buf = <<>>
    <3>1. candidate = p
      BY <2>1
    <3>2. Without(candidate, set) = z
      BY <3>1
    <3> HIDE DEF y, z, candidate
    <3>3. <<>> \o z = z
      BY <1>4 DEF Text
    <3>. QED
      BY <1>4, <2>1, <3>2, <3>3
  <2>2. CASE buf # <<>>
    <3>1. candidate = (buf \o sep) \o p
      BY <2>2
    <3>2. buf \o sep \in Text /\ Without(buf \o sep, set) = y \o <<>>
      <4>1. buf \o sep \in Text /\ Without(buf \o sep, set) = Without(buf, set) \o Without(sep, set)
        BY <1>1, WithoutLaws
      <4>. QED
        BY <4>1
    <3> DEFINE q == buf \o sep
    <3>3. q \in Text
      BY <3>2
    <3> HIDE DEF q
    <3>4. Without(q \o p, set) = Without(q, set) \o z
      BY <3>3, WithoutLaws
    <3> HIDE DEF y, z, candidate
    <3>5. y \o <<>> = y
      BY <1>4 DEF Text
    <3>. QED
      BY <3>1, <3>2, <3>4, <3>5 DEF q
  <2>. QED
    BY <2>1, <2>2
<1>6. AllWithout(full, set) = x \o y
  <2>1. CASE buf = <<>>
    <3>1. full = out
      BY <2>1
    <3> HIDE DEF x, y
    <3>2. x \o <<>> = x
      BY <1>4 DEF Text
    <3>. QED
      BY <1>4, <2>1, <3>1, <3>2 DEF x
  <2>2. CASE buf # <<>>
    <3>1. full = Append(out, buf)
      BY <2>2
    <3>2. AllWithout(Append(out, buf), set) = x \o y
      BY <1>1, AllWithoutLaws
    <3>. QED
      BY <3>1, <3>2
  <2>. QED
    BY <2>1, <2>2
<1>7. PackedLeft(v, set) = x \o y
  BY DEF PackedLeft, out, buf
<1>8. PackedLeft([v EXCEPT !.buf = candidate], set) = x \o (y \o z)
  BY <1>3, <1>5 DEF PackedLeft
<1>9. PackedLeft([out |-> full, buf |-> p], set) = (x \o y) \o z
  BY <1>3, <1>6 DEF PackedLeft
<1> HIDE DEF x, y, z, candidate, full
<1>10. (x \o y) \o z = x \o (y \o z)
  BY <1>4, InARow, SMTT(30) DEF Text
<1>. QED
  BY <1>2, <1>7, <1>8, <1>9, <1>10 DEF z

\* Pieces that are packed up with separators that are dropped anyway.
LEMMA PackAllLeft ==
    ASSUME NEW set, NEW sep \in Text, Without(sep, set) = <<>>, NEW pieces \in Seq(Text), NEW size
    PROVE  PackAll(pieces, sep, size) \in Seq(Text) /\ AllWithout(PackAll(pieces, sep, size), set) = AllWithout(pieces, set)
<1> DEFINE n == Len(pieces)
           first(k) == SubSeq(pieces, 1, k)
<1>1. PICK g : /\ \A k \in 0..n : g[k] \in Packed
               /\ g[0] = [out |-> <<>>, buf |-> <<>>]
               /\ \A k \in 1..n : g[k] = Pack(g[k - 1], pieces[k], sep, size)
               /\ PackAll(pieces, sep, size) = IF g[n].buf = <<>> THEN g[n].out ELSE Append(g[n].out, g[n].buf)
  BY PackSteps
<1>2. n \in Nat /\ n \in 0..n
  OBVIOUS
<1>3. /\ first(0) = <<>> /\ first(n) = pieces
      /\ \A k \in Nat : k + 1 <= n => first(k + 1) = Append(first(k), pieces[k + 1]) /\ pieces[k + 1] \in Text
      /\ \A k \in 0..n : first(k) \in Seq(Text)
  BY FirstOnes
<1> DEFINE T == {k \in Nat : k <= n => PackedLeft(g[k], set) = AllWithout(first(k), set)}
<1>4. /\ <<>> \in Seq(Text) /\ <<>> \in Text /\ <<>> \o <<>> = <<>>
      /\ AllWithout(<<>>, set) = <<>> /\ Without(<<>>, set) = <<>>
  <2>1. <<>> \in Seq(Text) /\ <<>> \in Text /\ <<>> \o <<>> = <<>>
    BY DEF Text
  <2>. QED
    BY <2>1, AllWithoutLaws, WithoutLaws
<1> HIDE DEF n, first
<1>5. 0 \in T
  <2>1. g[0].out = <<>> /\ g[0].buf = <<>>
    BY <1>1
  <2>. QED
    BY <1>3, <1>4, <2>1 DEF PackedLeft
<1>6. ASSUME NEW k \in T
      PROVE  k + 1 \in T
  <2> SUFFICES ASSUME k + 1 <= n
               PROVE  PackedLeft(g[k + 1], set) = AllWithout(first(k + 1), set)
    OBVIOUS
  <2> DEFINE z == k + 1
             v == g[k]
             b == first(k)
             p == pieces[z]
  <2>1. z - 1 = k /\ z \in 1..n /\ k \in 0..n /\ PackedLeft(v, set) = AllWithout(b, set)
    BY <1>2
  <2>2. g[z] = Pack(v, p, sep, size) /\ first(z) = Append(b, p) /\ v \in Packed /\ b \in Seq(Text) /\ p \in Text
    BY <1>1, <1>3, <2>1
  <2> HIDE DEF v, b, p, z
  <2>3. PackedLeft(Pack(v, p, sep, size), set) = PackedLeft(v, set) \o Without(p, set)
    BY <2>2, PackLeft
  <2>4. AllWithout(Append(b, p), set) = AllWithout(b, set) \o Without(p, set)
    BY <2>2, AllWithoutLaws
  <2>5. PackedLeft(g[z], set) = AllWithout(first(z), set)
    BY <2>1, <2>2, <2>3, <2>4
  <2>. QED
    BY <2>5 DEF z
<1>7. T = Nat
  <2>1. T \in SUBSET Nat
    OBVIOUS
  <2> HIDE DEF T
  <2>. QED
    BY ONLY <1>5, <1>6, <2>1, InductiveSet
<1>8. PackedLeft(g[n], set) = AllWithout(pieces, set)
  <2>1. n \in T /\ n <= n
    BY <1>2, <1>7
  <2>2. PackedLeft(g[n], set) = AllWithout(first(n), set)
    BY <2>1
  <2>. QED
    BY <1>3, <2>2
<1> DEFINE out == g[n].out
           buf == g[n].buf
           x == AllWithout(out, set)
<1>9. out \in Seq(Text) /\ buf \in Text
  BY <1>1, <1>2 DEF Packed
<1>10. PackedLeft(g[n], set) = x \o Without(buf, set)
  BY DEF PackedLeft
<1>11. PackAll(pieces, sep, size) = IF buf = <<>> THEN out ELSE Append(out, buf)
  BY <1>1
<1> HIDE DEF out, buf
<1>12. x \in Text /\ AllWithout(Append(out, buf), set) = x \o Without(buf, set)
  BY <1>9, AllWithoutLaws
<1>13. buf = <<>> => x \o Without(buf, set) = x
  <2> HIDE DEF x
  <2>1. x \o <<>> = x
    BY <1>12 DEF Text
  <2>. QED
    BY <1>4, <2>1
<1>14. Append(out, buf) \in Seq(Text)
  BY <1>9
<1>15. AllWithout(out, set) = x
  OBVIOUS
<1> HIDE DEF x
<1>16. CASE buf = <<>>
  BY <1>8, <1>9, <1>10, <1>11, <1>13, <1>15, <1>16
<1>17. CASE buf # <<>>
  BY <1>8, <1>10, <1>11, <1>12, <1>14, <1>17
<1>. QED
  BY <1>16, <1>17

\* r are texts of which the same is left as of t.
KeepsLeft(r, t, set) == r \in Seq(Text) /\ AllWithout(r, set) = Without(t, set)

\* A text is made of itself.
LEMMA KeepsItself ==
    ASSUME NEW t \in Text, NEW set
    PROVE  KeepsLeft(<<t>>, t, set)
<1>1. <<t>> \in Seq(Text)
  OBVIOUS
<1>. QED
  BY <1>1, AllWithoutLaws DEF KeepsLeft

\* The parts of a text, each split, are packed up.
LEMMA PartsLeft ==
    ASSUME NEW set, NEW sep \in Text, Without(sep, set) = <<>>, NEW size, NEW t, NEW parts, KeepsLeft(parts, t, set),
           NEW s, Len(s) = Len(parts), s = [i \in 1..Len(parts) |-> s[i]],
           \A i \in 1..Len(parts) : KeepsLeft(s[i], parts[i], set)
    PROVE  KeepsLeft(PackAll(FlattenSeq(s), sep, size), t, set)
<1> DEFINE n == Len(parts)
           pieces == FlattenSeq(s)
<1>1. parts \in Seq(Text) /\ AllWithout(parts, set) = Without(t, set) /\ n \in Nat
  BY DEF KeepsLeft
<1>2. \A i \in 1..n : s[i] \in Seq(Text) /\ AllWithout(s[i], set) = Without(parts[i], set)
  BY DEF KeepsLeft
<1>3. Len(s) = n /\ s = [i \in 1..n |-> s[i]]
  OBVIOUS
<1>n. n = Len(parts)
  OBVIOUS
<1> HIDE DEF n
<1>4. s \in Seq(Seq(Text))
  <2>1. s \in [1..n -> Seq(Text)]
    BY ONLY <1>2, <1>3
  <2>. QED
    BY ONLY <1>1, <2>1
<1>5. pieces \in Seq(Text)
  BY <1>4, FlattenOfMore
<1>6. AllWithout(pieces, set) = AllWithout(parts, set)
  BY ONLY <1>1, <1>2, <1>3, <1>4, <1>n, SameLeftOfParts
<1> HIDE DEF pieces
<1>7. PackAll(pieces, sep, size) \in Seq(Text) /\ AllWithout(PackAll(pieces, sep, size), set) = AllWithout(pieces, set)
  BY <1>5, PackAllLeft
<1>. QED
  BY <1>1, <1>6, <1>7 DEF KeepsLeft, pieces

\* One character, and another text in front of it.
LEMMA CharactersLeft ==
    ASSUME NEW set, NEW t \in Text
    PROVE  KeepsLeft([i \in DOMAIN t |-> <<t[i]>>], t, set)
<1> DEFINE n == Len(t)
           parts == [i \in DOMAIN t |-> <<t[i]>>]
           first(k) == SubSeq(t, 1, k)
           ones(k) == SubSeq(parts, 1, k)
<1>1. n \in Nat /\ DOMAIN t = 1..n /\ \A i \in 1..n : t[i] \in Characters /\ <<t[i]>> \in Text
  BY DEF Text
<1>2. parts \in Seq(Text) /\ Len(parts) = n /\ \A i \in 1..n : parts[i] = <<t[i]>>
  <2>1. parts = [i \in 1..n |-> <<t[i]>>]
    BY <1>1
  <2> HIDE DEF parts, n
  <2>2. parts \in [1..n -> Text]
    BY <1>1, <2>1
  <2>. QED
    BY <1>1, <2>1, <2>2
<1> HIDE DEF parts
<1>3. /\ first(0) = <<>> /\ first(n) = t
      /\ \A k \in Nat : k + 1 <= n => first(k + 1) = Append(first(k), t[k + 1])
      /\ \A k \in 0..n : first(k) \in Text
  BY FirstOnes DEF Text
<1>4. /\ ones(0) = <<>> /\ ones(n) = parts
      /\ \A k \in Nat : k + 1 <= n => ones(k + 1) = Append(ones(k), parts[k + 1])
      /\ \A k \in 0..n : ones(k) \in Seq(Text)
  BY <1>2, FirstOnes
<1> DEFINE T == {k \in Nat : k <= n => AllWithout(ones(k), set) = Without(first(k), set)}
<1>5. AllWithout(<<>>, set) = <<>> /\ Without(<<>>, set) = <<>>
  <2>1. <<>> \in Seq(Text) /\ <<>> \in Text
    BY DEF Text
  <2>. QED
    BY <2>1, AllWithoutLaws, WithoutLaws
<1> HIDE DEF n, first, ones
<1>6. 0 \in T
  BY <1>3, <1>4, <1>5
<1>7. ASSUME NEW k \in T
      PROVE  k + 1 \in T
  <2> SUFFICES ASSUME k + 1 <= n
               PROVE  AllWithout(ones(k + 1), set) = Without(first(k + 1), set)
    OBVIOUS
  <2> DEFINE z == k + 1
             a == ones(k)
             b == first(k)
             c == t[z]
             d == <<c>>
  <2>1. z \in 1..n /\ k \in 0..n /\ AllWithout(a, set) = Without(b, set)
    BY <1>1
  <2>2. ones(z) = Append(a, d) /\ first(z) = Append(b, c) /\ a \in Seq(Text) /\ b \in Text /\ d \in Text /\ c \in Characters
    BY <1>1, <1>2, <1>3, <1>4, <2>1
  <2>3. d = <<c>>
    OBVIOUS
  <2> HIDE DEF a, b, c, d, z
  <2>4. Append(b, c) = b \o d
    BY <2>2, <2>3 DEF Text
  <2>5. AllWithout(Append(a, d), set) = AllWithout(a, set) \o Without(d, set)
    BY <2>2, AllWithoutLaws
  <2>6. Without(b \o d, set) = Without(b, set) \o Without(d, set)
    BY <2>2, WithoutLaws
  <2>7. AllWithout(ones(z), set) = Without(first(z), set)
    BY <2>1, <2>2, <2>4, <2>5, <2>6
  <2>. QED
    BY <2>7 DEF z
<1>8. T = Nat
  <2>1. T \in SUBSET Nat
    OBVIOUS
  <2> HIDE DEF T
  <2>. QED
    BY ONLY <1>6, <1>7, <2>1, InductiveSet
<1>9. AllWithout(ones(n), set) = Without(first(n), set)
  BY <1>1, <1>8
<1>. QED
  BY <1>2, <1>3, <1>4, <1>9 DEF KeepsLeft, parts

\* A text is taken apart into its characters.
LEMMA SplitWordsLeft ==
    ASSUME ChunkerAssumption, NEW set, Blanks \subseteq set, NEW t \in Text, NEW size \in Nat
    PROVE  KeepsLeft(SplitWords(t, size), t, set)
<1> DEFINE parts == [i \in DOMAIN t |-> <<t[i]>>]
           s == [i \in DOMAIN parts |-> IF Len(parts[i]) > size THEN <<parts[i]>> ELSE <<parts[i]>>]
           sep == <<Space>>
<1>1. SplitWords(t, size) = IF Len(t) <= size THEN <<t>> ELSE PackAll(FlattenSeq(s), sep, size)
  BY Zenon DEF SplitWords, SplitInto
<1>2. sep \in Text /\ Len(sep) = 1 /\ sep[1] \in set
  BY TextConstants
<1> HIDE DEF sep
<1>3. Without(sep, set) = <<>>
  BY <1>2, WithoutNothing
<1>4. KeepsLeft(parts, t, set)
  BY CharactersLeft
<1> HIDE DEF parts
<1>5. parts \in Seq(Text) /\ Len(parts) \in Nat /\ DOMAIN parts = 1..Len(parts)
  BY <1>4 DEF KeepsLeft
<1>6. s = [i \in 1..Len(parts) |-> <<parts[i]>>]
  BY <1>5
<1> HIDE DEF s
<1>7. Len(s) = Len(parts) /\ s = [i \in 1..Len(parts) |-> s[i]] /\ \A i \in 1..Len(parts) : s[i] = <<parts[i]>>
  BY <1>5, <1>6
<1>8. \A i \in 1..Len(parts) : KeepsLeft(s[i], parts[i], set)
  <2>1. \A i \in 1..Len(parts) : parts[i] \in Text
    BY <1>5
  <2>. QED
    BY <1>7, <2>1, KeepsItself
<1>9. KeepsLeft(PackAll(FlattenSeq(s), sep, size), t, set)
  BY ONLY <1>2, <1>3, <1>4, <1>7, <1>8, PartsLeft
<1>. QED
  BY <1>1, <1>9, KeepsItself

\* A text is taken apart into sentences.
LEMMA SplitStopsLeft ==
    ASSUME ChunkerAssumption, NEW set, Blanks \subseteq set, "." \in set, NEW t \in Text, NEW size \in Nat
    PROVE  KeepsLeft(SplitStops(t, size), t, set)
<1> DEFINE sep == <<".", Space>>
           parts == Split(t, sep)
           s == [i \in DOMAIN parts |-> IF Len(parts[i]) > size THEN SplitWords(parts[i], size)
                                        ELSE <<parts[i]>>]
<1>1. SplitStops(t, size) = IF Len(t) <= size THEN <<t>> ELSE PackAll(FlattenSeq(s), sep, size)
  BY Zenon DEF SplitStops, SplitInto
<1>2. sep \in Text /\ Len(sep) = 2 /\ sep[1] \in set /\ sep[2] \in set
  BY TextConstants
<1> HIDE DEF sep
<1>3. Without(sep, set) = <<>>
  <2>1. \A i \in 1..Len(sep) : i = 1 \/ i = 2
    BY <1>2
  <2>. QED
    BY <1>2, <2>1, WithoutNothing
<1>4. KeepsLeft(parts, t, set)
  BY <1>2, <1>3, SplitLeft DEF KeepsLeft
<1> HIDE DEF parts
<1>5. parts \in Seq(Text) /\ Len(parts) \in Nat /\ DOMAIN parts = 1..Len(parts)
  BY <1>4 DEF KeepsLeft
<1>6. s = [i \in 1..Len(parts) |-> IF Len(parts[i]) > size THEN SplitWords(parts[i], size) ELSE <<parts[i]>>]
  BY <1>5
<1> HIDE DEF s
<1>7. /\ Len(s) = Len(parts) /\ s = [i \in 1..Len(parts) |-> s[i]]
      /\ \A i \in 1..Len(parts) : s[i] \in {SplitWords(parts[i], size), <<parts[i]>>}
  BY <1>5, <1>6
<1>8. \A i \in 1..Len(parts) : KeepsLeft(s[i], parts[i], set)
  <2>1. \A p \in Text : KeepsLeft(SplitWords(p, size), p, set) /\ KeepsLeft(<<p>>, p, set)
    BY SplitWordsLeft, KeepsItself
  <2>2. \A i \in 1..Len(parts) : parts[i] \in Text
    BY <1>5
  <2>. QED
    BY <1>7, <2>1, <2>2
<1>9. KeepsLeft(PackAll(FlattenSeq(s), sep, size), t, set)
  BY ONLY <1>2, <1>3, <1>4, <1>7, <1>8, PartsLeft
<1>. QED
  BY <1>1, <1>9, KeepsItself

\* A text is taken apart into lines.
LEMMA SplitLinesLeft ==
    ASSUME ChunkerAssumption, NEW set, Blanks \subseteq set, "." \in set, NEW t \in Text, NEW size \in Nat
    PROVE  KeepsLeft(SplitLines(t, size), t, set)
<1> DEFINE sep == <<NewLine>>
           parts == Split(t, sep)
           s == [i \in DOMAIN parts |-> IF Len(parts[i]) > size THEN SplitStops(parts[i], size)
                                        ELSE <<parts[i]>>]
<1>1. SplitLines(t, size) = IF Len(t) <= size THEN <<t>> ELSE PackAll(FlattenSeq(s), sep, size)
  BY Zenon DEF SplitLines, SplitInto
<1>2. sep \in Text /\ Len(sep) = 1 /\ sep[1] \in set
  BY TextConstants
<1> HIDE DEF sep
<1>3. Without(sep, set) = <<>>
  <2>1. \A i \in 1..Len(sep) : sep[i] \in set
    BY <1>2
  <2>. QED
    BY <1>2, <2>1, WithoutNothing
<1>4. KeepsLeft(parts, t, set)
  BY <1>2, <1>3, SplitLeft DEF KeepsLeft
<1> HIDE DEF parts
<1>5. parts \in Seq(Text) /\ Len(parts) \in Nat /\ DOMAIN parts = 1..Len(parts)
  BY <1>4 DEF KeepsLeft
<1>6. s = [i \in 1..Len(parts) |-> IF Len(parts[i]) > size THEN SplitStops(parts[i], size) ELSE <<parts[i]>>]
  BY <1>5
<1> HIDE DEF s
<1>7. /\ Len(s) = Len(parts) /\ s = [i \in 1..Len(parts) |-> s[i]]
      /\ \A i \in 1..Len(parts) : s[i] \in {SplitStops(parts[i], size), <<parts[i]>>}
  BY <1>5, <1>6
<1>8. \A i \in 1..Len(parts) : KeepsLeft(s[i], parts[i], set)
  <2>1. \A p \in Text : KeepsLeft(SplitStops(p, size), p, set) /\ KeepsLeft(<<p>>, p, set)
    BY SplitStopsLeft, KeepsItself
  <2>2. \A i \in 1..Len(parts) : parts[i] \in Text
    BY <1>5
  <2>. QED
    BY <1>7, <2>1, <2>2
<1>9. KeepsLeft(PackAll(FlattenSeq(s), sep, size), t, set)
  BY ONLY <1>2, <1>3, <1>4, <1>7, <1>8, PartsLeft
<1>. QED
  BY <1>1, <1>9, KeepsItself

\* A text is taken apart into paragraphs.
LEMMA RecursiveSplitLeft ==
    ASSUME ChunkerAssumption, NEW set, Blanks \subseteq set, "." \in set, NEW t \in Text, NEW size \in Nat
    PROVE  KeepsLeft(RecursiveSplit(t, size), t, set)
<1> DEFINE sep == <<NewLine, NewLine>>
           parts == Split(t, sep)
           s == [i \in DOMAIN parts |-> IF Len(parts[i]) > size THEN SplitLines(parts[i], size)
                                        ELSE <<parts[i]>>]
<1>1. RecursiveSplit(t, size) = IF Len(t) <= size THEN <<t>> ELSE PackAll(FlattenSeq(s), sep, size)
  BY Zenon DEF RecursiveSplit, SplitInto
<1>2. sep \in Text /\ Len(sep) = 2 /\ sep[1] \in set /\ sep[2] \in set
  BY TextConstants
<1> HIDE DEF sep
<1>3. Without(sep, set) = <<>>
  <2>1. \A i \in 1..Len(sep) : i = 1 \/ i = 2
    BY <1>2
  <2>. QED
    BY <1>2, <2>1, WithoutNothing
<1>4. KeepsLeft(parts, t, set)
  BY <1>2, <1>3, SplitLeft DEF KeepsLeft
<1> HIDE DEF parts
<1>5. parts \in Seq(Text) /\ Len(parts) \in Nat /\ DOMAIN parts = 1..Len(parts)
  BY <1>4 DEF KeepsLeft
<1>6. s = [i \in 1..Len(parts) |-> IF Len(parts[i]) > size THEN SplitLines(parts[i], size) ELSE <<parts[i]>>]
  BY <1>5
<1> HIDE DEF s
<1>7. /\ Len(s) = Len(parts) /\ s = [i \in 1..Len(parts) |-> s[i]]
      /\ \A i \in 1..Len(parts) : s[i] \in {SplitLines(parts[i], size), <<parts[i]>>}
  BY <1>5, <1>6
<1>8. \A i \in 1..Len(parts) : KeepsLeft(s[i], parts[i], set)
  <2>1. \A p \in Text : KeepsLeft(SplitLines(p, size), p, set) /\ KeepsLeft(<<p>>, p, set)
    BY SplitLinesLeft, KeepsItself
  <2>2. \A i \in 1..Len(parts) : parts[i] \in Text
    BY <1>5
  <2>. QED
    BY <1>7, <2>1, <2>2
<1>9. KeepsLeft(PackAll(FlattenSeq(s), sep, size), t, set)
  BY ONLY <1>2, <1>3, <1>4, <1>7, <1>8, PartsLeft
<1>. QED
  BY <1>1, <1>9, KeepsItself

\* The elements behind the first j.
LEMMA ElementsBehind ==
    ASSUME NEW S, NEW s \in Seq(S), NEW j \in Nat, j <= Len(s)
    PROVE  /\ Len(SubSeq(s, j + 1, Len(s))) = Len(s) - j
           /\ \A i \in 1..(Len(s) - j) : SubSeq(s, j + 1, Len(s))[i] = s[j + i]
  OBVIOUS

\* Texts of which nothing is left.
LEMMA NothingLeft ==
    ASSUME NEW set, NEW s \in Seq(Text), \A i \in 1..Len(s) : Without(s[i], set) = <<>>
    PROVE  AllWithout(s, set) = <<>>
<1> DEFINE n == Len(s)
           first(k) == SubSeq(s, 1, k)
           T == {k \in Nat : k <= n => AllWithout(first(k), set) = <<>>}
<1>1. n \in Nat /\ \A i \in 1..n : Without(s[i], set) = <<>>
  OBVIOUS
<1>2. /\ first(0) = <<>> /\ first(n) = s
      /\ \A k \in Nat : k + 1 <= n => first(k + 1) = Append(first(k), s[k + 1]) /\ s[k + 1] \in Text
      /\ \A k \in 0..n : first(k) \in Seq(Text)
  BY FirstOnes
<1>3. AllWithout(<<>>, set) = <<>> /\ <<>> \o <<>> = <<>>
  <2>1. <<>> \in Seq(Text) /\ <<>> \in Text /\ <<>> \o <<>> = <<>>
    BY DEF Text
  <2>. QED
    BY <2>1, AllWithoutLaws
<1> HIDE DEF n, first
<1>4. 0 \in T
  BY <1>2, <1>3
<1>5. ASSUME NEW k \in T
      PROVE  k + 1 \in T
  <2> SUFFICES ASSUME k + 1 <= n
               PROVE  AllWithout(first(k + 1), set) = <<>>
    OBVIOUS
  <2> DEFINE z == k + 1
             a == first(k)
             p == s[z]
  <2>1. z \in 1..n /\ k \in 0..n /\ AllWithout(a, set) = <<>> /\ Without(p, set) = <<>>
    BY <1>1
  <2>2. first(z) = Append(a, p) /\ a \in Seq(Text) /\ p \in Text
    BY <1>2, <2>1
  <2> HIDE DEF a, p, z
  <2>3. AllWithout(Append(a, p), set) = AllWithout(a, set) \o Without(p, set)
    BY <2>2, AllWithoutLaws
  <2>4. AllWithout(first(z), set) = <<>>
    BY <1>3, <2>1, <2>2, <2>3
  <2>. QED
    BY <2>4 DEF z
<1>6. T = Nat
  <2>1. T \in SUBSET Nat
    OBVIOUS
  <2> HIDE DEF T
  <2>. QED
    BY ONLY <1>4, <1>5, <2>1, InductiveSet
<1>7. n \in T /\ n <= n
  BY <1>1, <1>6
<1>. QED
  BY <1>2, <1>7

\* Lines that are stripped.
LEMMA StrippedLeft ==
    ASSUME ChunkerAssumption, NEW set, Blanks \subseteq set, NEW t \in Text
    PROVE  KeepsLeft(StrippedLines(t), t, set)
<1> DEFINE sep == <<NewLine>>
           parts == Split(t, sep)
           runs == Blanks \ {NewLine}
           s == [i \in DOMAIN parts |-> Strip(Collapse(parts[i], runs))]
           n == Len(parts)
<1>1. sep \in Text /\ Len(sep) = 1 /\ sep[1] \in set
  BY TextConstants
<1>2. StrippedLines(t) = s
  BY DEF StrippedLines
<1>3. runs \subseteq Blanks
  OBVIOUS
<1> HIDE DEF sep, runs
<1>4. Without(sep, set) = <<>>
  BY <1>1, WithoutNothing
<1>5. parts \in Seq(Text) /\ AllWithout(parts, set) = Without(t, set)
  BY <1>1, <1>4, SplitLeft, SMTT(30)
<1> HIDE DEF parts
<1>6. n \in Nat /\ DOMAIN parts = 1..n /\ \A i \in 1..n : parts[i] \in Text
  BY <1>5
<1>7. s = [i \in 1..n |-> Strip(Collapse(parts[i], runs))]
  BY <1>6
<1>8. ASSUME NEW i \in 1..n
      PROVE  s[i] \in Text /\ Without(s[i], set) = Without(parts[i], set)
  <2> DEFINE a == Collapse(parts[i], runs)
  <2>1. s[i] = Strip(a)
    BY <1>7
  <2>2. a \in Text /\ Without(a, set) = Without(parts[i], set)
    BY <1>3, <1>6, CollapseLeft
  <2> HIDE DEF a
  <2>3. Strip(a) \in Text /\ Without(Strip(a), set) = Without(a, set)
    BY <2>2, StripFacts, StripLeft
  <2>. QED
    BY <2>1, <2>2, <2>3
<1>9. s = [i \in 1..n |-> s[i]]
  BY <1>7
<1>10. Len(parts) = n
  OBVIOUS
<1> HIDE DEF s, n
<1>11. s \in Seq(Text) /\ Len(s) = n
  <2>1. s \in [1..n -> Text]
    BY ONLY <1>8, <1>9
  <2>. QED
    BY ONLY <1>6, <1>9, <2>1
<1>12. AllWithout(s, set) = AllWithout(parts, set)
  <2>1. Len(s) = Len(parts) /\ \A i \in 1..Len(s) : Without(s[i], set) = Without(parts[i], set)
    BY <1>8, <1>10, <1>11
  <2>. QED
    BY ONLY <1>5, <1>11, <2>1, SameLeft
<1>. QED
  BY <1>2, <1>5, <1>11, <1>12 DEF KeepsLeft

\* _normalize drops blanks only.
LEMMA NormalizeLeft ==
    ASSUME ChunkerAssumption, NEW set, Blanks \subseteq set, NEW t \in Text
    PROVE  Without(Normalize(t), set) = Without(t, set)
<1> DEFINE lines == StrippedLines(t)
           full == {i \in DOMAIN lines : lines[i] # <<>>}
           n == Len(lines)
<1>1. Normalize(t) = IF full = {} THEN <<>> ELSE JoinLines(SubSeq(lines, Min(full), Max(full)))
  BY Zenon DEF Normalize, StrippedLines
<1>2. lines \in Seq(Text) /\ AllWithout(lines, set) = Without(t, set)
  BY StrippedLeft DEF KeepsLeft
<1> HIDE DEF lines
<1>3. n \in Nat /\ DOMAIN lines = 1..n
  BY <1>2
<1>4. Without(<<>>, set) = <<>>
  <2>1. <<>> \in Text
    BY DEF Text
  <2>. QED
    BY <2>1, WithoutLaws
<1>5. CASE full = {}
  <2>1. Normalize(t) = <<>> /\ \A k \in 1..n : lines[k] = <<>>
    BY <1>1, <1>3, <1>5
  <2>2. AllWithout(lines, set) = <<>>
    BY <1>2, <1>4, <2>1, NothingLeft
  <2>. QED
    BY <1>2, <1>4, <2>1, <2>2
<1>6. CASE full # {}
  <2> DEFINE lo == Min(full)
             hi == Max(full)
             w == lo - 1
  <2>1. full \in SUBSET (1..n) /\ full \in SUBSET Nat /\ \A k \in 1..n : k \in full \/ lines[k] = <<>>
    BY <1>3
  <2>2. Normalize(t) = JoinLines(SubSeq(lines, lo, hi))
    BY <1>1, <1>6
  <2> HIDE DEF full
  <2>3. lo \in full /\ \A i \in full : lo <= i
    BY <1>6, <2>1, LeastNumber DEF Min
  <2>4. hi \in full /\ \A i \in full : i <= hi
    <3>1. \E x \in full : \A y \in full : y <= x
      BY <1>3, <1>6, <2>1, GreatestNumber
    <3>. QED
      BY <2>1, <3>1 DEF Max
  <2> HIDE DEF lo, hi
  <2>5. w \in Nat /\ hi \in Nat /\ w <= hi /\ hi <= n /\ w + 1 = lo /\ lo \in 1..n
    BY <1>3, <2>1, <2>3, <2>4
  <2> HIDE DEF w
  <2> DEFINE a == SubSeq(lines, 1, w)
             b == SubSeq(lines, w + 1, hi)
             c == SubSeq(lines, hi + 1, n)
             d == SubSeq(lines, 1, hi)
             sep == <<NewLine>>
  <2>6. a \in Seq(Text) /\ b \in Seq(Text) /\ c \in Seq(Text) /\ a \o b = d /\ d \o c = lines
    BY <1>2, <2>5, ThreeParts, ZenonT(30)
  <2>7. Without(sep, set) = <<>> /\ sep \in Text
    <3>1. sep \in Text /\ Len(sep) = 1 /\ sep[1] \in set
      BY TextConstants
    <3> HIDE DEF sep
    <3>. QED
      BY <3>1, WithoutNothing
  <2>8. Normalize(t) = Join(sep, b)
    BY <2>2, <2>5 DEF JoinLines
  <2>9. AllWithout(a, set) = <<>>
    <3>1. Len(a) = w /\ \A i \in 1..w : a[i] = lines[i]
      BY <1>2, <2>5
    <3>2. \A i \in 1..w : i \in 1..n /\ ~(lo <= i)
      BY <1>3, <2>5
    <3>3. \A i \in 1..w : lines[i] = <<>>
      BY <2>1, <2>3, <3>2
    <3> HIDE DEF a
    <3>. QED
      BY <1>4, <2>6, <3>1, <3>3, NothingLeft
  <2>10. AllWithout(c, set) = <<>>
    <3>1. Len(c) = n - hi /\ \A i \in 1..(n - hi) : c[i] = lines[hi + i]
      BY <1>2, <2>5, ElementsBehind
    <3>2. \A i \in 1..(n - hi) : hi + i \in 1..n /\ ~(hi + i <= hi)
      BY <1>3, <2>5
    <3>3. \A i \in 1..(n - hi) : lines[hi + i] = <<>>
      BY <2>1, <2>4, <3>2
    <3> HIDE DEF c
    <3>4. Len(c) = n - hi /\ c \in Seq(Text) /\ \A i \in 1..Len(c) : Without(c[i], set) = <<>>
      <4>1. \A i \in 1..(n - hi) : c[i] = <<>>
        BY <3>1, <3>3
      <4>. QED
        BY <1>4, <2>6, <3>1, <4>1
    <3>. QED
      BY ONLY <3>4, NothingLeft
  <2>11. d \in Seq(Text)
    <3>1. hi \in 0..Len(lines)
      BY <1>3, <2>5
    <3>. QED
      BY <1>2, <3>1, FirstOnes
  <2> HIDE DEF a, b, c, d, sep
  <2>12. /\ AllWithout(a \o b, set) = AllWithout(a, set) \o AllWithout(b, set)
         /\ AllWithout(d \o c, set) = AllWithout(d, set) \o AllWithout(c, set)
         /\ AllWithout(b, set) \in Text
    <3>1. <<>> \in Text
      BY DEF Text
    <3>. QED
      BY <2>6, <2>11, <3>1, AllWithoutLaws
  <2> DEFINE x == AllWithout(b, set)
  <2>13. x \in Text
    BY <2>12
  <2>14. x = AllWithout(b, set)
    OBVIOUS
  <2> HIDE DEF x
  <2>15. <<>> \o x = x /\ x \o <<>> = x
    BY <2>13 DEF Text
  <2>16. AllWithout(lines, set) = x
    BY <2>6, <2>9, <2>10, <2>12, <2>14, <2>15
  <2>17. Without(Join(sep, b), set) = x
    BY <2>6, <2>7, <2>14, JoinLeft
  <2>. QED
    BY <1>2, <2>8, <2>16, <2>17
<1>. QED
  BY <1>5, <1>6

\* The tags of HTML become blanks.
LEMMA StripHtmlLeft ==
    ASSUME ChunkerAssumption, NEW set, Blanks \subseteq set, NEW t \in Text
    PROVE  Without(StripHtml(t), set) = Without(t, set \cup {Tag})
<1> DEFINE s == [i \in DOMAIN t |-> IF t[i] = Tag THEN Space ELSE t[i]]
           c == Collapse(s, Blanks)
<1>1. StripHtml(t) = Strip(c)
  BY DEF StripHtml
<1>2. Len(t) \in Nat /\ DOMAIN t = 1..Len(t) /\ \A i \in 1..Len(t) : t[i] \in Characters
  BY DEF Text
<1>3. s \in Text
  <2>1. s \in [1..Len(t) -> Characters]
    BY <1>2, TextConstants
  <2> HIDE DEF s
  <2>2. s \in Seq(Characters)
    BY ONLY <1>2, <2>1
  <2>. QED
    BY <2>2 DEF Text
<1>4. Without(s, set) = Without(t, set \cup {Tag})
  <2>1. Space \in set
    BY TextConstants
  <2>2. DOMAIN s = DOMAIN t /\ \A i \in DOMAIN t : s[i] = IF t[i] = Tag THEN Space ELSE t[i]
    OBVIOUS
  <2> HIDE DEF s
  <2>3. \A i \in DOMAIN t : (IF s[i] \in set THEN <<>> ELSE <<s[i]>>)
                            = (IF t[i] \in set \cup {Tag} THEN <<>> ELSE <<t[i]>>)
    BY <2>1, <2>2
  <2>4. [i \in DOMAIN s |-> IF s[i] \in set THEN <<>> ELSE <<s[i]>>]
        = [i \in DOMAIN t |-> IF t[i] \in set \cup {Tag} THEN <<>> ELSE <<t[i]>>]
    BY <2>2, <2>3
  <2>. QED
    BY <2>4, Zenon DEF Without
<1> HIDE DEF s
<1>5. c \in Text /\ Without(c, set) = Without(s, set)
  BY <1>3, CollapseLeft
<1> HIDE DEF c
<1>6. Without(Strip(c), set) = Without(c, set)
  BY <1>5, StripLeft
<1>. QED
  BY <1>1, <1>4, <1>5, <1>6

\* Of a text, loading keeps all letters and invents none.
LEMMA LettersStay ==
    ASSUME ChunkerAssumption, LoaderAssumption, NEW raw, IsRaw(raw), raw.form = "text", NEW type, Parse(raw, type).error = "none"
    PROVE  Letters(Normalize(Parse(raw, type).content))
           = Without(raw.text, Blanks \cup Stops \cup (IF type \in HtmlTypes THEN {Tag} ELSE {}))
<1> DEFINE set == Blanks \cup Stops
           t == raw.text
           h == StripHtml(t)
           parsed == Parse(raw, type)
<1>1. t \in Text
  BY DEF IsRaw
<1>2. h \in Text
  BY <1>1, StripHtmlFacts
<1>3. \/ type \notin HtmlTypes /\ parsed = Returns(t)
      \/ type \in HtmlTypes /\ parsed = Returns(h)
      \/ parsed = Raises("DocumentParseError")
  BY DEF Parse, HtmlTypes
<1>4. Raises("DocumentParseError").error # "none" /\ Returns(t).content = t /\ Returns(h).content = h
  BY DEF Raises, Returns
<1>5. Blanks \subseteq set
  OBVIOUS
<1>6. \A x : Letters(x) = Without(x, set)
  BY DEF Letters
<1>7. CASE type \notin HtmlTypes /\ parsed = Returns(t)
  <2>1. parsed.content = t /\ (IF type \in HtmlTypes THEN {Tag} ELSE {}) = {}
    BY <1>4, <1>7
  <2>2. Blanks \cup Stops \cup (IF type \in HtmlTypes THEN {Tag} ELSE {}) = set
    BY <2>1
  <2> HIDE DEF set, t
  <2>3. Without(Normalize(t), set) = Without(t, set)
    BY <1>1, <1>5, NormalizeLeft
  <2>. QED
    BY <1>6, <2>1, <2>2, <2>3 DEF t
<1>8. CASE type \in HtmlTypes /\ parsed = Returns(h)
  <2>1. parsed.content = h /\ (IF type \in HtmlTypes THEN {Tag} ELSE {}) = {Tag}
    BY <1>4, <1>8
  <2>2. Blanks \cup Stops \cup (IF type \in HtmlTypes THEN {Tag} ELSE {}) = set \cup {Tag}
    BY <2>1
  <2> HIDE DEF set, t
  <2>3. Without(h, set) = Without(t, set \cup {Tag})
    BY <1>1, <1>5, StripHtmlLeft
  <2> HIDE DEF h
  <2>4. Without(Normalize(h), set) = Without(h, set)
    BY <1>2, <1>5, NormalizeLeft
  <2>. QED
    BY <1>6, <2>1, <2>2, <2>3, <2>4 DEF t
<1>. QED
  BY <1>3, <1>4, <1>7, <1>8

-----------------------------------------------------------------------------
(* The chunks cover their document.                                        *)

\* The loop of Ends.
LEMMA EndsSteps ==
    ASSUME NEW whole, NEW pieces \in Seq(Text)
    PROVE  \E g : /\ g[0] = {0}
                  /\ \A k \in 1..Len(pieces) : g[k] = NextEnds(whole, pieces[k], g[k - 1])
                  /\ Ends(whole, pieces) = g[Len(pieces)]
<1> DEFINE n == Len(pieces)
           V == SUBSET Nat
           Step(k, v) == NextEnds(whole, pieces[k], v)
           h == [k \in 1..n |-> [v \in V |-> Step(k, v)]]
           E(c) == c = [k \in 0..n |-> IF k = 0 THEN {0} ELSE Step(k, c[k - 1])]
           c == CHOOSE f : E(f)
<1>1. n \in Nat /\ {0} \in V /\ \A k \in 1..n : \A v \in V : Step(k, v) \in V
  <2>1. ASSUME NEW p \in Text, NEW v \in V
        PROVE  NextEnds(whole, p, v) \in V
    <3>1. Len(p) \in Nat
      BY DEF Text
    <3>2. \A q \in Places(whole, p) : q + Len(p) \in Nat
      BY <3>1 DEF Places
    <3>. QED
      BY <3>2 DEF NextEnds
  <2>. QED
    BY <2>1
<1>2. Ends(whole, pieces) = c[n]
  BY Zenon DEF Ends, Loop
<1> HIDE DEF Step, n, V
<1>3. \A k \in 1..n : \A v \in V : h[k][v] = Step(k, v)
  OBVIOUS
<1> HIDE DEF h
<1>4. PICK g : /\ g = [k \in 0..n |-> g[k]] /\ g[0] = {0}
               /\ \A k \in 1..n : g[k] = h[k][g[k - 1]]
               /\ \A k \in 0..n : g[k] \in V
  <2>1. Keeps(h, n, V)
    BY <1>1, <1>3 DEF Keeps
  <2>. QED
    BY ONLY <1>1, <2>1, TypedSteps
<1>5. \A k \in 1..n : k - 1 \in 0..n
  BY <1>1
<1>6. E(g)
  <2>1. \A k \in 0..n : k # 0 => k \in 1..n
    BY <1>1
  <2>2. \A k \in 1..n : g[k] = Step(k, g[k - 1])
    BY <1>3, <1>4, <1>5
  <2>3. \A k \in 0..n : g[k] = IF k = 0 THEN {0} ELSE Step(k, g[k - 1])
    BY <1>4, <2>1, <2>2
  <2>. QED
    BY <1>4, <2>3, Zenon
<1>7. E(c)
  BY <1>6, Zenon
<1> HIDE DEF c
<1>8. c[0] = {0} /\ \A k \in 1..n : c[k] = Step(k, c[k - 1])
  BY <1>1, <1>7
<1>. QED
  BY <1>2, <1>8, Zenon DEF Step, n

\* Each piece is the part of the whole between from[i] and to[i]; the parts begin at the
\* beginning, leave nothing out between them, and end at the end.
CoveredBy(whole, pieces, from, to) ==
    /\ \A i \in 1..Len(pieces) :
          /\ from[i] \in Nat /\ to[i] \in Nat /\ to[i] <= Len(whole)
          /\ to[i] = from[i] + Len(pieces[i]) /\ Slice(whole, from[i], to[i]) = pieces[i]
          /\ IF i = 1 THEN from[i] = 0 ELSE from[i] <= to[i - 1]
    /\ Len(pieces) > 0 /\ to[Len(pieces)] = Len(whole)

\* Such pieces cover the whole.
LEMMA PartsCover ==
    ASSUME NEW whole \in Text, NEW pieces \in Seq(Text), NEW from, NEW to, CoveredBy(whole, pieces, from, to)
    PROVE  Covers(whole, pieces)
<1> DEFINE n == Len(pieces)
<1>1. PICK g : /\ g[0] = {0}
               /\ \A k \in 1..n : g[k] = NextEnds(whole, pieces[k], g[k - 1])
               /\ Ends(whole, pieces) = g[n]
  BY EndsSteps
<1>2. n \in Nat /\ n > 0 /\ to[n] = Len(whole) /\ Len(whole) \in Nat /\ \A k \in 1..n : Len(pieces[k]) \in Nat
  BY DEF CoveredBy, Text
<1>3. \A i \in 1..n :
         /\ from[i] \in Nat /\ to[i] \in Nat /\ to[i] <= Len(whole)
         /\ to[i] = from[i] + Len(pieces[i]) /\ Slice(whole, from[i], to[i]) = pieces[i]
         /\ IF i = 1 THEN from[i] = 0 ELSE from[i] <= to[i - 1]
  BY DEF CoveredBy
<1> HIDE DEF n
<1>4. ASSUME NEW k \in 1..n, NEW ends, \E e \in ends : from[k] <= e
      PROVE  to[k] \in NextEnds(whole, pieces[k], ends)
  <2> DEFINE p == from[k]
             m == Len(pieces[k])
             l == Len(whole)
  <2>1. p \in Nat /\ m \in Nat /\ l \in Nat /\ to[k] = p + m /\ p + m <= l /\ Slice(whole, p, p + m) = pieces[k]
    BY <1>2, <1>3
  <2>2. \E e \in ends : p <= e
    BY <1>4
  <2>3. NextEnds(whole, pieces[k], ends)
        = {q + m : q \in {r \in Places(whole, pieces[k]) : \E e \in ends : r <= e}}
    BY DEF NextEnds
  <2>4. Places(whole, pieces[k]) = {q \in 0..(l - m) : Slice(whole, q, q + m) = pieces[k]}
    BY DEF Places
  <2> HIDE DEF p, m, l
  <2>5. p \in 0..(l - m)
    BY <2>1
  <2>6. p \in Places(whole, pieces[k])
    BY <2>1, <2>4, <2>5
  <2> DEFINE R == {q \in Places(whole, pieces[k]) : \E e \in ends : q <= e}
  <2>7. p \in R
    BY <2>2, <2>6
  <2>8. NextEnds(whole, pieces[k], ends) = {q + m : q \in R}
    BY <2>3
  <2> HIDE DEF R
  <2> DEFINE X == {q + m : q \in R}
  <2>9. p + m \in X
    BY <2>7
  <2>10. NextEnds(whole, pieces[k], ends) = X /\ to[k] = p + m
    BY <2>1, <2>8
  <2> HIDE DEF X
  <2>. QED
    BY ONLY <2>9, <2>10
<1> DEFINE T == {k \in Nat : k + 1 <= n => to[k + 1] \in g[k + 1]}
<1>5. 0 \in T
  <2>1. 1 \in 1..n /\ 0 + 1 = 1 /\ 1 - 1 = 0
    BY <1>2
  <2>2. \E e \in g[0] : from[1] <= e
    BY <1>1, <1>3, <2>1
  <2>3. to[1] \in NextEnds(whole, pieces[1], g[0])
    BY ONLY <1>4, <2>1, <2>2
  <2>4. g[1] = NextEnds(whole, pieces[1], g[0])
    BY <1>1, <2>1
  <2>. QED
    BY <2>1, <2>3, <2>4
<1>6. ASSUME NEW k \in T
      PROVE  k + 1 \in T
  <2> SUFFICES ASSUME (k + 1) + 1 <= n
               PROVE  to[(k + 1) + 1] \in g[(k + 1) + 1]
    OBVIOUS
  <2> DEFINE y == k + 1
             z == y + 1
  <2>1. z \in 1..n /\ z - 1 = y /\ z # 1 /\ to[y] \in g[y]
    BY <1>2
  <2> HIDE DEF y, z
  <2>2. from[z] <= to[y]
    BY <1>3, <2>1
  <2>3. \E e \in g[y] : from[z] <= e
    BY <2>1, <2>2
  <2>4. to[z] \in NextEnds(whole, pieces[z], g[y])
    BY ONLY <1>4, <2>1, <2>3
  <2>5. g[z] = NextEnds(whole, pieces[z], g[y])
    BY <1>1, <2>1
  <2>. QED
    BY <2>4, <2>5 DEF y, z
<1>7. T = Nat
  <2>1. T \in SUBSET Nat
    OBVIOUS
  <2> HIDE DEF T
  <2>. QED
    BY ONLY <1>5, <1>6, <2>1, InductiveSet
<1>8. to[n] \in g[n]
  <2>1. n - 1 \in Nat /\ (n - 1) + 1 = n /\ n <= n
    BY <1>2
  <2>2. n - 1 \in T
    BY <1>7, <2>1
  <2>. QED
    BY <2>1, <2>2
<1>. QED
  BY <1>1, <1>2, <1>8 DEF Covers

\* What stands left of a place with only blanks before it.
LEMMA BlankGap ==
    ASSUME NEW set, Blanks \subseteq set, NEW t \in Text, NEW a \in Nat, NEW b \in Nat, b <= Len(t),
           BlankIn(t, a, b)
    PROVE  /\ a <= b => CountLeft(t, a, set) = CountLeft(t, b, set)
           /\ a <= Len(t) => CountLeft(t, b, set) <= CountLeft(t, a, set)
<1>1. Len(t) \in Nat
  BY DEF Text
<1>2. ASSUME a <= b
      PROVE  CountLeft(t, a, set) = CountLeft(t, b, set)
  <2> DEFINE w == Slice(t, a, b)
             x == CountLeft(t, a, set)
             y == CountLeft(t, b, set)
  <2>1. x \in Nat /\ y \in Nat /\ Len(Without(w, set)) = y - x
    BY <1>2, SliceLeft
  <2>2. w \in Text /\ Len(w) = b - a /\ \A i \in 1..Len(w) : w[i] = t[a + i]
    <3>1. a \in Int /\ b \in Int /\ 0 <= a
      BY <1>1
    <3>. QED
      BY ONLY <1>2, <3>1, t \in Text, b <= Len(t), SliceFacts
  <2>3. \A i \in 1..Len(w) : w[i] \in set
    <3> SUFFICES ASSUME NEW i \in 1..Len(w)
                 PROVE  w[i] \in set
      OBVIOUS
    <3> HIDE DEF w
    <3>1. a + i \in 1..Len(t) /\ a < a + i /\ a + i <= b
      BY <1>1, <1>2, <2>2
    <3>2. t[a + i] \in Blanks
      BY <3>1 DEF BlankIn
    <3>. QED
      BY <2>2, <3>2
  <2> HIDE DEF w, x, y
  <2>4. Without(w, set) = <<>>
    BY <2>2, <2>3, WithoutNothing
  <2>5. x = y
    BY <2>1, <2>4
  <2>. QED
    BY <2>5 DEF x, y
<1>3. ASSUME a <= Len(t), ~(a <= b)
      PROVE  CountLeft(t, b, set) <= CountLeft(t, a, set)
  <2>1. b <= a
    BY <1>3
  <2>. QED
    BY <1>3, <2>1, SliceLeft
<1>4. a <= b => CountLeft(t, b, set) \in Nat
  BY SliceLeft
<1>. QED
  BY <1>2, <1>3, <1>4

\* Nothing stands left of the beginning, and everything left of the end.
LEMMA WholeLeft ==
    ASSUME NEW set, NEW t \in Text
    PROVE  CountLeft(t, 0, set) = 0 /\ CountLeft(t, Len(t), set) = Len(Without(t, set))
<1>1. Slice(t, 0, 0) = <<>> /\ Slice(t, 0, Len(t)) = t
  <2>1. 0 + 1 = 1
    OBVIOUS
  <2>2. SubSeq(t, 1, 0) = <<>> /\ SubSeq(t, 1, Len(t)) = t
    BY FirstOnes DEF Text
  <2>. QED
    BY <2>1, <2>2 DEF Slice
<1>2. Without(<<>>, set) = <<>>
  BY WithoutLaws
<1>. QED
  BY <1>1, <1>2 DEF CountLeft

\* The windows cover the text.
LEMMA FixedCovers ==
    ASSUME NEW set, Blanks \subseteq set, NEW text \in Text, NEW size \in Nat, NEW r, r # <<>>,
           WindowsTo(r, text, size, Len(text))
    PROVE  Covers(Without(text, set), [i \in 1..Len(r) |-> Without(r[i].content, set)])
<1> DEFINE n == Len(r)
           whole == Without(text, set)
           pieces == [i \in 1..n |-> Without(r[i].content, set)]
           from == [i \in 1..n |-> CountLeft(text, r[i].start, set)]
           to == [i \in 1..n |-> CountLeft(text, r[i].end, set)]
<1>1. /\ r \in Seq(ChunkRec) /\ n \in Nat /\ n > 0 /\ Len(text) \in Nat
      /\ \A i \in 1..n : /\ r[i].content \in Text /\ r[i].start \in Nat /\ r[i].end \in Nat
                         /\ r[i].start <= r[i].end /\ r[i].end <= Len(text)
                         /\ r[i].content = Slice(text, r[i].start, r[i].end)
                         /\ BlankIn(text, EndBefore(r, i), r[i].start)
      /\ BlankIn(text, EndOf(r), Len(text))
  <2>1. /\ r \in Seq(ChunkRec)
        /\ \A i \in 1..n : /\ r[i].start <= r[i].end /\ r[i].end <= Len(text)
                           /\ r[i].content = Slice(text, r[i].start, r[i].end)
                           /\ BlankIn(text, EndBefore(r, i), r[i].start)
        /\ BlankIn(text, EndOf(r), Len(text))
    BY DEF WindowsTo, InPlace
  <2>2. n \in Nat /\ n > 0 /\ \A i \in 1..n : r[i] \in ChunkRec
    BY <2>1
  <2>3. Len(text) \in Nat
    BY DEF Text
  <2>. QED
    BY <2>1, <2>2, <2>3 DEF ChunkRec
<1>2. \A i \in 1..n : pieces[i] = Without(r[i].content, set) /\ from[i] = CountLeft(text, r[i].start, set)
                      /\ to[i] = CountLeft(text, r[i].end, set)
  OBVIOUS
<1>3. pieces = [i \in 1..n |-> pieces[i]]
  OBVIOUS
<1> HIDE DEF pieces, from, to
<1>4. whole \in Text /\ CountLeft(text, 0, set) = 0 /\ CountLeft(text, Len(text), set) = Len(whole)
  BY WithoutLaws, WholeLeft
<1> HIDE DEF whole
<1>5. ASSUME NEW i \in 1..n
      PROVE  /\ pieces[i] \in Text /\ from[i] \in Nat /\ to[i] \in Nat /\ to[i] <= Len(whole)
             /\ to[i] = from[i] + Len(pieces[i]) /\ Slice(whole, from[i], to[i]) = pieces[i]
  <2> DEFINE a == r[i].start
             b == r[i].end
  <2>1. a \in Nat /\ b \in Nat /\ a <= b /\ b <= Len(text) /\ pieces[i] = Without(Slice(text, a, b), set)
        /\ from[i] = CountLeft(text, a, set) /\ to[i] = CountLeft(text, b, set)
    BY <1>1, <1>2
  <2> HIDE DEF a, b
  <2>2. /\ CountLeft(text, a, set) \in Nat /\ CountLeft(text, b, set) \in Nat
        /\ CountLeft(text, b, set) <= Len(whole)
        /\ Len(Without(Slice(text, a, b), set)) = CountLeft(text, b, set) - CountLeft(text, a, set)
        /\ Without(Slice(text, a, b), set) \in Text
        /\ Slice(whole, CountLeft(text, a, set), CountLeft(text, b, set)) = Without(Slice(text, a, b), set)
    BY ONLY <2>1, text \in Text, SliceLeft DEF whole
  <2>3. Len(pieces[i]) = to[i] - from[i] /\ from[i] \in Nat /\ to[i] \in Nat
    BY <2>1, <2>2
  <2>. QED
    BY <2>1, <2>2, <2>3
<1>6. pieces \in Seq(Text) /\ Len(pieces) = n
  BY <1>1, <1>3, <1>5
<1>7. ASSUME NEW i \in 1..n
      PROVE  IF i = 1 THEN from[i] = 0 ELSE from[i] <= to[i - 1]
  <2> DEFINE a == EndBefore(r, i)
             b == r[i].start
  <2>1. b \in Nat /\ b <= Len(text) /\ BlankIn(text, a, b)
    BY <1>1
  <2>2. CASE i = 1
    <3>1. a = 0 /\ 0 <= b
      BY <2>1, <2>2 DEF EndBefore
    <3> HIDE DEF a, b
    <3>2. CountLeft(text, a, set) = CountLeft(text, b, set)
      BY <2>1, <3>1, BlankGap
    <3>. QED
      BY <1>2, <1>4, <2>2, <3>1, <3>2 DEF b
  <2>3. CASE i # 1
    <3>1. i - 1 \in 1..n /\ a = r[i - 1].end
      BY <1>1, <2>3 DEF EndBefore
    <3>2. a \in Nat /\ a <= Len(text) /\ to[i - 1] = CountLeft(text, a, set)
      BY <1>1, <1>2, <3>1
    <3> HIDE DEF a, b
    <3>3. CountLeft(text, b, set) <= CountLeft(text, a, set)
      BY <2>1, <3>2, BlankGap
    <3>. QED
      BY <1>2, <2>3, <3>2, <3>3 DEF b
  <2>. QED
    BY <2>2, <2>3
<1>8. to[n] = Len(whole)
  <2>1. n \in 1..n /\ EndOf(r) = r[n].end
    BY <1>1 DEF EndOf, Last
  <2> DEFINE a == r[n].end
             b == Len(text)
  <2>2. a \in Nat /\ b \in Nat /\ a <= b /\ b <= Len(text) /\ BlankIn(text, a, b)
    BY <1>1, <2>1
  <2> HIDE DEF a, b
  <2>3. CountLeft(text, a, set) = CountLeft(text, b, set)
    BY <2>2, BlankGap
  <2>. QED
    BY <1>2, <1>4, <2>1, <2>3 DEF a, b
<1> HIDE DEF n
<1>9. CoveredBy(whole, pieces, from, to)
  BY <1>1, <1>5, <1>6, <1>7, <1>8 DEF CoveredBy
<1>10. Covers(whole, pieces)
  BY <1>4, <1>6, <1>9, PartsCover
<1>. QED
  BY <1>10 DEF whole, pieces, n

\* One piece more.
LEMMA EndsOfMore ==
    ASSUME NEW whole, NEW pieces \in Seq(Text), NEW p \in Text
    PROVE  /\ Ends(whole, <<>>) = {0}
           /\ Ends(whole, Append(pieces, p)) = NextEnds(whole, p, Ends(whole, pieces))
<1> DEFINE n == Len(pieces)
           more == Append(pieces, p)
           none == <<>>
<1>1. /\ n \in Nat /\ more \in Seq(Text) /\ Len(more) = n + 1 /\ more[n + 1] = p
      /\ \A k \in 1..n : more[k] = pieces[k]
      /\ none \in Seq(Text) /\ Len(none) = 0
  OBVIOUS
<1>2. PICK g : /\ g[0] = {0}
               /\ \A k \in 1..n : g[k] = NextEnds(whole, pieces[k], g[k - 1])
               /\ Ends(whole, pieces) = g[n]
  BY EndsSteps
<1> HIDE DEF more, none
<1>0. more \in Seq(Text)
  BY <1>1
<1>3. PICK h : /\ h[0] = {0}
               /\ \A k \in 1..Len(more) : h[k] = NextEnds(whole, more[k], h[k - 1])
               /\ Ends(whole, more) = h[Len(more)]
  BY ONLY <1>0, EndsSteps
<1>4. Ends(whole, none) = {0}
  <2>1. PICK f : f[0] = {0} /\ Ends(whole, none) = f[Len(none)]
    BY <1>1, EndsSteps
  <2>. QED
    BY <1>1, <2>1
<1> HIDE DEF n
<1> DEFINE T == {k \in Nat : k <= n => g[k] = h[k]}
<1>5. 0 \in T
  BY <1>2, <1>3
<1>6. ASSUME NEW k \in T
      PROVE  k + 1 \in T
  <2> SUFFICES ASSUME k + 1 <= n
               PROVE  g[k + 1] = h[k + 1]
    OBVIOUS
  <2>1. (k + 1) - 1 = k /\ k + 1 \in 1..n /\ k + 1 \in 1..(n + 1) /\ g[k] = h[k]
    BY <1>1
  <2>2. g[k + 1] = NextEnds(whole, pieces[k + 1], g[k])
    BY <1>2, <2>1
  <2>3. h[k + 1] = NextEnds(whole, more[k + 1], h[k])
    BY <1>1, <1>3, <2>1
  <2>. QED
    BY <1>1, <2>1, <2>2, <2>3
<1>7. T = Nat
  <2>1. T \in SUBSET Nat
    OBVIOUS
  <2> HIDE DEF T
  <2>. QED
    BY ONLY <1>5, <1>6, <2>1, InductiveSet
<1>8. n \in T /\ n <= n
  BY <1>1, <1>7
<1>9. g[n] = h[n]
  BY <1>8
<1>10. n + 1 \in 1..(n + 1) /\ (n + 1) - 1 = n
  BY <1>1
<1>11. h[n + 1] = NextEnds(whole, more[n + 1], h[n])
  BY <1>1, <1>3, <1>10
<1>. QED
  BY <1>1, <1>2, <1>3, <1>4, <1>9, <1>11 DEF more, none

\* A piece that begins at or before the end of the one before it.
LEMMA PieceFits ==
    ASSUME NEW whole \in Text, NEW p \in Text, NEW q \in Nat, q + Len(p) <= Len(whole),
           Slice(whole, q, q + Len(p)) = p, NEW ends, NEW e \in ends, q <= e
    PROVE  q + Len(p) \in NextEnds(whole, p, ends)
<1> DEFINE m == Len(p)
           l == Len(whole)
<1>1. m \in Nat /\ l \in Nat /\ q + m <= l
  BY DEF Text
<1>2. NextEnds(whole, p, ends) = {x + m : x \in {r \in Places(whole, p) : \E d \in ends : r <= d}}
  BY DEF NextEnds
<1>3. Places(whole, p) = {x \in 0..(l - m) : Slice(whole, x, x + m) = p}
  BY DEF Places
<1>4. Slice(whole, q, q + m) = p
  OBVIOUS
<1> HIDE DEF m, l
<1>5. q \in 0..(l - m)
  BY <1>1
<1>6. q \in Places(whole, p)
  BY <1>3, <1>4, <1>5
<1> DEFINE R == {r \in Places(whole, p) : \E d \in ends : r <= d}
<1>7. q \in R
  BY <1>6
<1> HIDE DEF R
<1> DEFINE X == {x + m : x \in R}
<1>8. q + m \in X
  BY <1>7
<1>9. NextEnds(whole, p, ends) = X
  BY <1>2 DEF R
<1> HIDE DEF X
<1>. QED
  BY ONLY <1>8, <1>9 DEF m

\* What is left of the chunks.
Lefts(r, set) == [i \in 1..Len(r) |-> Without(r[i].content, set)]

\* One chunk more.
LEMMA LeftsFacts ==
    ASSUME NEW set, NEW r \in Seq(ChunkRec), NEW c \in ChunkRec
    PROVE  /\ Lefts(r, set) \in Seq(Text) /\ Lefts(<<>>, set) = <<>>
           /\ Lefts(Append(r, c), set) = Append(Lefts(r, set), Without(c.content, set))
           /\ Without(c.content, set) \in Text
<1> DEFINE n == Len(r)
           more == Append(r, c)
           x == Without(c.content, set)
<1>1. /\ n \in Nat /\ more \in Seq(ChunkRec) /\ Len(more) = n + 1 /\ more[n + 1] = c
      /\ \A k \in 1..n : more[k] = r[k] /\ r[k] \in ChunkRec
  OBVIOUS
<1>2. \A d \in ChunkRec : Without(d.content, set) \in Text
  <2>1. \A d \in ChunkRec : d.content \in Text
    BY DEF ChunkRec
  <2>. QED
    BY <2>1, WithoutLaws
<1>3. Lefts(r, set) \in Seq(Text) /\ Len(Lefts(r, set)) = n /\ \A k \in 1..n : Lefts(r, set)[k] = Without(r[k].content, set)
  BY <1>1, <1>2 DEF Lefts
<1>4. Lefts(<<>>, set) = <<>>
  BY DEF Lefts
<1> DEFINE a == Lefts(r, set)
           b == Lefts(more, set)
<1> HIDE DEF more
<1>5. b = [i \in 1..(n + 1) |-> Without(more[i].content, set)]
  BY <1>1 DEF Lefts
<1>6. x \in Text /\ a \in Seq(Text) /\ Len(a) = n /\ \A k \in 1..n : a[k] = Without(r[k].content, set)
  BY <1>2, <1>3
<1> HIDE DEF a, b, x
<1>7. b \in Seq(Text) /\ Len(b) = n + 1 /\ \A i \in 1..(n + 1) : b[i] = Without(more[i].content, set)
  <2>1. \A i \in 1..(n + 1) : more[i] \in ChunkRec
    BY <1>1
  <2>2. \A i \in 1..(n + 1) : b[i] = Without(more[i].content, set)
    BY <1>5
  <2>3. \A i \in 1..(n + 1) : b[i] \in Text
    BY <1>2, <2>1, <2>2
  <2>4. b = [i \in 1..(n + 1) |-> b[i]]
    BY <1>5
  <2>. QED
    BY <1>1, <2>2, <2>3, <2>4
<1>8. (\A k \in 1..n : b[k] = a[k]) /\ b[n + 1] = x
  BY <1>1, <1>6, <1>7 DEF x
<1>9. Append(a, x) \in Seq(Text) /\ Len(Append(a, x)) = n + 1 /\ (\A k \in 1..n : Append(a, x)[k] = a[k])
      /\ Append(a, x)[n + 1] = x
  BY <1>1, <1>6
<1>10. b = Append(a, x)
  <2> DEFINE y == Append(a, x)
  <2>1. /\ y \in Seq(Text) /\ b \in Seq(Text) /\ Len(b) = Len(y) /\ Len(y) = n + 1
    BY <1>7, <1>9
  <2>2. \A i \in 1..(n + 1) : i \in 1..n \/ i = n + 1
    BY <1>1
  <2>3. \A i \in 1..(n + 1) : b[i] = y[i]
    BY <1>8, <1>9, <2>2
  <2> HIDE DEF y
  <2>4. b = y
    BY ONLY <2>1, <2>3, SameSequence
  <2>. QED
    BY <2>4 DEF y
<1>. QED
  BY <1>3, <1>4, <1>6, <1>10 DEF a, b, more, x

\* What is left of the elements before place i, of those from i to j, and of those after j,
\* makes up what is left of all.
LEMMA PartsOfAll ==
    ASSUME NEW set, NEW s \in Seq(Text), NEW i \in Nat, NEW j \in Nat, i <= j, j <= Len(s)
    PROVE  LET a == AllWithout(SubSeq(s, 1, i), set)
               b == AllWithout(SubSeq(s, i + 1, j), set)
               whole == AllWithout(s, set)
           IN  /\ whole \in Text /\ a \in Text /\ b \in Text
               /\ Len(a) \in Nat /\ Len(b) \in Nat
               /\ Len(AllWithout(SubSeq(s, 1, j), set)) = Len(a) + Len(b)
               /\ Len(a) + Len(b) <= Len(whole)
               /\ Slice(whole, Len(a), Len(a) + Len(b)) = b
<1> DEFINE x == SubSeq(s, 1, i)
           y == SubSeq(s, i + 1, j)
           z == SubSeq(s, j + 1, Len(s))
           d == SubSeq(s, 1, j)
           a == AllWithout(x, set)
           b == AllWithout(y, set)
           c == AllWithout(z, set)
<1>0. <<>> \in Text
  BY DEF Text
<1>1. /\ x \in Seq(Text) /\ y \in Seq(Text) /\ z \in Seq(Text)
      /\ x \o y = d /\ d \o z = s
  BY ThreeParts
<1>2. d \in Seq(Text)
  <2>1. j \in 0..Len(s)
    OBVIOUS
  <2>. QED
    BY <2>1, FirstOnes
<1> HIDE DEF x, y, z, d
<1>3. a \in Text /\ b \in Text /\ c \in Text
  BY <1>1, AllWithoutLaws, <1>0
<1>4. AllWithout(d, set) = a \o b /\ AllWithout(s, set) = (a \o b) \o c
  <2>1. AllWithout(x \o y, set) = AllWithout(x, set) \o AllWithout(y, set)
    BY ONLY <1>1, <1>0, AllWithoutLaws, ZenonT(30)
  <2>2. AllWithout(d \o z, set) = AllWithout(d, set) \o AllWithout(z, set)
    BY ONLY <1>1, <1>2, <1>0, AllWithoutLaws, ZenonT(30)
  <2>. QED
    BY <1>1, <2>1, <2>2
<1> HIDE DEF a, b, c
<1>5. /\ (a \o b) \o c \in Text /\ Len((a \o b) \o c) = Len(a) + Len(b) + Len(c)
      /\ Len(a \o b) = Len(a) + Len(b)
      /\ Slice((a \o b) \o c, Len(a), Len(a) + Len(b)) = b
      /\ Len(a) \in Nat /\ Len(b) \in Nat /\ Len(c) \in Nat
  BY ONLY <1>3, InTheMiddle
<1> DEFINE whole == AllWithout(s, set)
           w == (a \o b) \o c
           ab == a \o b
<1>6. /\ w \in Text /\ Len(w) = Len(a) + Len(b) + Len(c)
      /\ Len(ab) = Len(a) + Len(b)
      /\ Slice(w, Len(a), Len(a) + Len(b)) = b
      /\ whole = w /\ AllWithout(d, set) = ab
  BY <1>4, <1>5
<1> HIDE DEF w, ab, whole
<1>7. Len(a) + Len(b) <= Len(whole)
  BY <1>5, <1>6
<1>8. /\ whole \in Text /\ a \in Text /\ b \in Text
      /\ Len(a) \in Nat /\ Len(b) \in Nat
      /\ Len(AllWithout(d, set)) = Len(a) + Len(b)
      /\ Len(a) + Len(b) <= Len(whole)
      /\ Slice(whole, Len(a), Len(a) + Len(b)) = b
  BY <1>3, <1>5, <1>6, <1>7
<1>. QED
  BY <1>8, Zenon DEF whole, a, b, d, x, y

\* The chunks of `at` reach the end of a sentence behind which the next one begins, or before.
Reaching(at, s, set) ==
    \E j \in 0..Len(s) :
       /\ at.next <= j + 1
       /\ Len(AllWithout(SubSeq(s, 1, j), set)) \in Ends(AllWithout(s, set), Lefts(at.chunks, set))

\* A chunk more reaches further.
LEMMA GroupReaches ==
    ASSUME ChunkerAssumption, NEW set, Blanks \subseteq set, NEW text, NEW s \in Seq(Text), NEW target, NEW at \in Grouping,
           Reaching(at, s, set), NEW made,
           NEW j \in at.next..Len(s), NEW next \in Nat \ {0}, NEW start \in Nat, NEW end \in Nat,
           OneMoreGroup(text, s, target, at, made, j, next, start, end)
    PROVE  Reaching(made, s, set)
<1> DEFINE i == at.next
           k == i - 1
           r == at.chunks
           parts == SubSeq(s, i, j)
           sep == <<Space>>
           content == Join(sep, parts)
           c == Chunk(r, content, start, end)
           whole == AllWithout(s, set)
           ends == Ends(whole, Lefts(r, set))
<1>1. /\ i \in Nat /\ i >= 1 /\ r \in Seq(ChunkRec) /\ j \in Nat /\ i <= j /\ j <= Len(s) /\ Len(s) \in Nat
  BY DEF Grouping
<1>2. made.chunks = Append(r, c) /\ made.next = next /\ next <= j + 1
  BY DEF OneMoreGroup
<1>3. PICK m \in 0..Len(s) : i <= m + 1 /\ Len(AllWithout(SubSeq(s, 1, m), set)) \in ends
  BY DEF Reaching
<1>4. k \in Nat /\ k + 1 = i /\ k <= j /\ k <= m /\ m \in Nat /\ m <= Len(s)
  BY <1>1, <1>3
<1>5. parts \in Seq(Text) /\ sep \in Text /\ Space \in set
  <2>1. parts \in Seq(Text)
    BY <1>1
  <2>2. sep \in Text /\ Space \in Blanks
    BY TextConstants DEF ChunkerAssumption
  <2>. QED
    BY <2>1, <2>2
<1>6. Without(sep, set) = <<>>
  <2>1. Len(sep) = 1 /\ \A x \in 1..1 : sep[x] = Space
    OBVIOUS
  <2> HIDE DEF sep
  <2>. QED
    BY <1>5, <2>1, WithoutNothing
<1> HIDE DEF parts, sep, i, r
<1>7. content \in Text
  BY ONLY <1>5, JoinFacts
<1>8. Without(content, set) = AllWithout(parts, set)
  BY ONLY <1>5, <1>6, JoinLeft
<1> HIDE DEF content
<1>9. c \in ChunkRec /\ c.content = content
  BY <1>1, <1>7, ChunkFacts
<1> HIDE DEF c
<1> DEFINE a == AllWithout(SubSeq(s, 1, k), set)
           b == AllWithout(SubSeq(s, k + 1, j), set)
<1>10. /\ whole \in Text /\ a \in Text /\ b \in Text
       /\ Len(a) \in Nat /\ Len(b) \in Nat
       /\ Len(AllWithout(SubSeq(s, 1, j), set)) = Len(a) + Len(b)
       /\ Len(a) + Len(b) <= Len(whole)
       /\ Slice(whole, Len(a), Len(a) + Len(b)) = b
  <2> HIDE DEF k
  <2>. QED
    BY ONLY <1>1, <1>4, s \in Seq(Text), PartsOfAll
<1>11. Len(a) <= Len(AllWithout(SubSeq(s, 1, m), set)) /\ Len(AllWithout(SubSeq(s, 1, m), set)) \in Nat
  <2> HIDE DEF k
  <2> DEFINE d == AllWithout(SubSeq(s, k + 1, m), set)
  <2>1. Len(d) \in Nat /\ Len(AllWithout(SubSeq(s, 1, m), set)) = Len(a) + Len(d)
    BY ONLY <1>4, s \in Seq(Text), PartsOfAll
  <2> HIDE DEF d, a
  <2>. QED
    BY <1>10, <2>1
<1>12. b = Without(c.content, set)
  BY <1>4, <1>8, <1>9 DEF parts
<1> DEFINE q == Len(a)
           e == Len(AllWithout(SubSeq(s, 1, m), set))
           f == Len(AllWithout(SubSeq(s, 1, j), set))
<1>13. q \in Nat /\ q <= e /\ e \in ends /\ f = q + Len(b) /\ q + Len(b) <= Len(whole) /\ Slice(whole, q, q + Len(b)) = b
  BY <1>3, <1>10, <1>11
<1>14. b \in Text /\ whole \in Text
  BY <1>10
<1> HIDE DEF q, e, a, b, whole, ends, f
<1>15. q + Len(b) \in NextEnds(whole, b, ends)
  BY ONLY <1>13, <1>14, PieceFits
<1>16. Lefts(made.chunks, set) = Append(Lefts(r, set), b) /\ Lefts(r, set) \in Seq(Text)
  BY <1>1, <1>2, <1>9, <1>12, LeftsFacts
<1>17. Ends(whole, Lefts(made.chunks, set)) = NextEnds(whole, b, ends)
  BY <1>14, <1>16, EndsOfMore DEF ends
<1>18. f \in Ends(whole, Lefts(made.chunks, set))
  BY <1>13, <1>15, <1>17
<1>19. j \in 0..Len(s)
  BY <1>1
<1>. QED
  BY <1>2, <1>18, <1>19 DEF Reaching, whole, f

\* The chunks of the sentences cover them.
LEMMA GroupsCover ==
    ASSUME ChunkerAssumption, NEW set, Blanks \subseteq set, NEW text \in Text, NEW s \in Seq(Text),
           NEW target \in Nat, NEW overlap \in Nat
    PROVE  Covers(AllWithout(s, set), Lefts(GroupSentences(text, s, target, overlap), set))
<1> DEFINE n == Len(s)
           whole == AllWithout(s, set)
<1>1. PICK g : /\ \A k \in 0..n : g[k] \in Grouping
               /\ g[0] = [next |-> 1, chunks |-> <<>>]
               /\ \A k \in 1..n : g[k] = Group(text, s, target, overlap, g[k - 1])
               /\ GroupSentences(text, s, target, overlap) = g[n].chunks
  BY GroupSteps, ZenonT(30)
<1>2. n \in Nat /\ n = Len(s)
  OBVIOUS
<1> DEFINE Good(k) == Reaching(g[k], s, set) /\ (g[k].next > n \/ g[k].next >= k + 1)
           T == {k \in Nat : k <= n => Good(k)}
<1>3. 0 \in T
  <2>1. g[0].next = 1 /\ g[0].chunks = <<>>
    BY <1>1
  <2>2. SubSeq(s, 1, 0) = <<>>
    BY FirstOnes
  <2>3. AllWithout(<<>>, set) = <<>> /\ Lefts(<<>>, set) = <<>> /\ Ends(whole, <<>>) = {0}
    <3>1. <<>> \in Text /\ <<>> \in Seq(ChunkRec) /\ <<>> \in Seq(Text)
      BY DEF Text
    <3>2. AllWithout(<<>>, set) = <<>>
      BY ONLY <3>1, AllWithoutLaws
    <3>3. Lefts(<<>>, set) = <<>>
      BY DEF Lefts
    <3>4. Ends(whole, <<>>) = {0}
      BY ONLY <3>1, EndsOfMore
    <3>. QED
      BY <3>2, <3>3, <3>4
  <2>4. 0 \in 0..n /\ Len(AllWithout(SubSeq(s, 1, 0), set)) = 0
    <3>1. AllWithout(SubSeq(s, 1, 0), set) = <<>>
      BY <2>2, <2>3
    <3>2. 0 \in 0..n
      BY <1>2
    <3>. QED
      BY <3>1, <3>2
  <2>5. Len(AllWithout(SubSeq(s, 1, 0), set)) \in Ends(whole, Lefts(g[0].chunks, set))
    BY <2>1, <2>3, <2>4
  <2>6. g[0].next <= 0 + 1
    BY <2>1
  <2>7. Reaching(g[0], s, set)
    BY <1>2, <2>4, <2>5, <2>6, Zenon DEF Reaching
  <2>8. g[0].next >= 0 + 1
    BY <2>1
  <2>. QED
    BY <2>7, <2>8
<1>4. ASSUME NEW k \in T
      PROVE  k + 1 \in T
  <2> SUFFICES ASSUME k + 1 <= n
               PROVE  Good(k + 1)
    OBVIOUS
  <2> DEFINE z == k + 1
             at == g[k]
             made == g[z]
  <2>1. z - 1 = k /\ z \in 1..n /\ k \in 0..n /\ z \in 0..n /\ k \in Nat /\ Good(k)
    BY <1>2
  <2>2. made = Group(text, s, target, overlap, at) /\ at \in Grouping
    BY <1>1, <2>1
  <2>3. Reaching(at, s, set) /\ (at.next > n \/ at.next >= k + 1) /\ at.next \in Nat
    BY <2>1, <2>2 DEF Grouping
  <2> HIDE DEF at, made, n
  <2>4. CASE at.next > Len(s) /\ Group(text, s, target, overlap, at) = at
    <3>1. made = at /\ at.next > n
      BY <1>2, <2>2, <2>4
    <3>2. Reaching(made, s, set) /\ made.next > n
      BY <2>3, <3>1
    <3>. QED
      BY <3>2 DEF made
  <2>5. CASE \E j \in at.next..Len(s), next \in Nat \ {0}, start, end \in Nat :
                OneMoreGroup(text, s, target, at, Group(text, s, target, overlap, at), j, next, start, end)
    <3>1. PICK j \in at.next..Len(s), next \in Nat \ {0}, start \in Nat, end \in Nat :
                  OneMoreGroup(text, s, target, at, made, j, next, start, end)
      BY <2>2, <2>5
    <3>2. Reaching(made, s, set)
      BY <2>2, <2>3, <3>1, GroupReaches
    <3>3. made.next = next /\ at.next < next /\ at.next <= n
      BY <1>2, <3>1 DEF OneMoreGroup
    <3>4. made.next >= z + 1
      BY <1>2, <2>1, <2>3, <3>3
    <3>. QED
      BY <3>2, <3>4 DEF made
  <2>. QED
    BY <2>2, <2>4, <2>5, GroupFacts
<1>5. T = Nat
  <2>1. T \in SUBSET Nat
    OBVIOUS
  <2> HIDE DEF T
  <2>. QED
    BY ONLY <1>3, <1>4, <2>1, InductiveSet
<1>6. Good(n)
  <2> HIDE DEF Good, n
  <2>1. n \in T /\ n <= n
    BY <1>2, <1>5
  <2>. QED
    BY <2>1
<1> DEFINE at == g[n]
<1>7. at \in Grouping /\ Reaching(at, s, set) /\ (at.next > n \/ at.next >= n + 1)
  BY <1>1, <1>2, <1>6
<1> HIDE DEF at, n
<1>8. PICK j \in 0..Len(s) : /\ at.next <= j + 1
                             /\ Len(AllWithout(SubSeq(s, 1, j), set)) \in Ends(whole, Lefts(at.chunks, set))
  BY <1>7 DEF Reaching
<1>9. j = Len(s)
  <2>1. at.next \in Nat
    BY <1>7 DEF Grouping
  <2>. QED
    BY <1>2, <1>7, <1>8, <2>1
<1>10. SubSeq(s, 1, j) = s
  BY <1>9, FirstOnes
<1>. QED
  BY <1>1, <1>8, <1>10 DEF Covers, at

\* The chunks of SentenceChunker cover the text.
LEMMA SentencesCover ==
    ASSUME ChunkerAssumption, NEW set, Blanks \subseteq set, NEW text \in Text, ~IsBlank(text),
           NEW target \in Nat, NEW overlap \in Nat
    PROVE  Covers(Without(text, set), Lefts(SentenceChunks(text, target, overlap), set))
<1> DEFINE all == SplitSentences(text)
           s == Filled(all)
<1>1. all \in Seq(Text) /\ AllWithout(all, set) = Without(text, set)
  BY SentencesLeft
<1>2. SentenceChunks(text, target, overlap) = GroupSentences(text, s, target, overlap)
  BY DEF SentenceChunks
<1> HIDE DEF all
<1>3. s \in Seq(Text) /\ AllWithout(s, set) = Without(text, set)
  BY <1>1, FilledFacts, FilledLeft
<1> HIDE DEF s
<1>4. Covers(AllWithout(s, set), Lefts(GroupSentences(text, s, target, overlap), set))
  BY <1>3, GroupsCover
<1>. QED
  BY <1>2, <1>3, <1>4

\* A piece behind the end of the one before it.
LEMMA PieceWithTail ==
    ASSUME NEW x \in Text, NEW w \in Text, NEW b \in Text, NEW c \in Text, NEW whole, whole = ((x \o w) \o b) \o c,
           NEW ends, Len(x \o w) \in ends
    PROVE  w \o b \in Text /\ Len((x \o w) \o b) \in NextEnds(whole, w \o b, ends)
<1> DEFINE wb == w \o b
<1>1. /\ (x \o w) \o b = x \o wb /\ wb \in Text /\ Len(wb) = Len(w) + Len(b)
      /\ Len(x \o w) = Len(x) + Len(w) /\ Len(x) \in Nat /\ Len(w) \in Nat /\ Len(b) \in Nat
      /\ x \o w \in Text
  <2>1. x \in Seq(Characters) /\ w \in Seq(Characters) /\ b \in Seq(Characters)
    BY DEF Text
  <2>2. /\ (x \o w) \o b = x \o (w \o b)
        /\ w \o b \in Seq(Characters) /\ Len(w \o b) = Len(w) + Len(b)
        /\ x \o w \in Seq(Characters) /\ Len(x \o w) = Len(x) + Len(w)
    BY ONLY <2>1, InARow, SMTT(30)
  <2>3. Len(x) \in Nat /\ Len(w) \in Nat /\ Len(b) \in Nat
    BY <2>1
  <2>. QED
    BY <2>2, <2>3 DEF Text
<1> HIDE DEF wb
<1>2. /\ (x \o wb) \o c \in Text /\ Len((x \o wb) \o c) = Len(x) + Len(wb) + Len(c)
      /\ Len(x \o wb) = Len(x) + Len(wb)
      /\ Slice((x \o wb) \o c, Len(x), Len(x) + Len(wb)) = wb
      /\ Len(c) \in Nat
  BY ONLY <1>1, x \in Text, c \in Text, InTheMiddle, ZenonT(30)
<1> DEFINE q == Len(x)
           e == Len(x \o w)
           m == Len(wb)
           l == Len(whole)
           xw == x \o w
           xwb == x \o wb
<1>3. whole = xwb \o c
  BY <1>1
<1>4. whole \in Text /\ l = q + m + Len(c) /\ Len(xwb) = q + m /\ Slice(whole, q, q + m) = wb
  BY <1>2, <1>3
<1>5. q \in Nat /\ m \in Nat /\ q <= e /\ e \in ends
  <2>1. m = Len(w) + Len(b) /\ e = q + Len(w) /\ q \in Nat
    BY <1>1
  <2> HIDE DEF q, m, e
  <2>2. q \in Nat /\ m \in Nat /\ q <= e
    BY <1>1, <2>1
  <2>. QED
    BY <2>2 DEF e
<1>6. q + m <= l
  <2> HIDE DEF q, m, l
  <2>. QED
    BY <1>2, <1>4, <1>5
<1> HIDE DEF q, e
<1>7. q + m \in NextEnds(whole, wb, ends)
  BY ONLY <1>1, <1>4, <1>5, <1>6, PieceFits DEF m, l
<1>8. (x \o w) \o b = xwb
  BY <1>1
<1> HIDE DEF xwb
<1>9. Len(xwb) \in NextEnds(whole, wb, ends)
  BY <1>4, <1>7
<1>. QED
  BY <1>1, <1>8, <1>9 DEF wb

\* What is left of a text is what is left of a piece, behind the end of what is left of the
\* piece before.
Tailed(lefts, pieces, set) ==
    /\ lefts \in Seq(Text) /\ Len(lefts) = Len(pieces)
    /\ \A i \in 1..Len(pieces) :
          IF i = 1 THEN lefts[1] = Without(pieces[1], set)
          ELSE \E v, w \in Text : /\ Without(pieces[i - 1], set) = v \o w
                                  /\ lefts[i] = w \o Without(pieces[i], set)

\* What is left of the first texts is where the next one begins.
LEMMA FirstLeft ==
    ASSUME NEW set, NEW s \in Seq(Text), NEW k \in Nat, k + 1 <= Len(s)
    PROVE  /\ AllWithout(SubSeq(s, 1, k), set) \in Text /\ Without(s[k + 1], set) \in Text
           /\ AllWithout(SubSeq(s, 1, k + 1), set) = AllWithout(SubSeq(s, 1, k), set) \o Without(s[k + 1], set)
           /\ \E c \in Text : AllWithout(s, set) = AllWithout(SubSeq(s, 1, k + 1), set) \o c
<1> DEFINE z == k + 1
           a == SubSeq(s, 1, k)
           b == SubSeq(s, 1, z)
           c == SubSeq(s, z + 1, Len(s))
<1>1. a \in Seq(Text) /\ s[z] \in Text /\ b = Append(a, s[z]) /\ <<>> \in Seq(Text)
  <2>1. k \in 0..Len(s)
    OBVIOUS
  <2>. QED
    BY <2>1, FirstOnes
<1>2. b \in Seq(Text) /\ c \in Seq(Text) /\ b \o c = s
  <2>1. z \in Nat /\ z <= z /\ z <= Len(s)
    OBVIOUS
  <2> HIDE DEF z
  <2>2. SubSeq(s, z + 1, Len(s)) \in Seq(Text) /\ SubSeq(s, 1, z) \o SubSeq(s, z + 1, Len(s)) = s
    BY ONLY <2>1, s \in Seq(Text), ThreeParts
  <2>3. z \in 0..Len(s)
    BY <2>1
  <2>4. b \in Seq(Text)
    BY <2>3, FirstOnes
  <2>. QED
    BY <2>2, <2>4
<1> HIDE DEF a, b, c
<1> DEFINE t == s[z]
<1>3. t \in Text /\ b = Append(a, t) /\ a \in Seq(Text)
  BY <1>1
<1> HIDE DEF t, z
<1>4. /\ AllWithout(a, set) \in Text /\ Without(t, set) \in Text
      /\ AllWithout(Append(a, t), set) = AllWithout(a, set) \o Without(t, set)
  BY ONLY <1>3, AllWithoutLaws
<1>5. AllWithout(c, set) \in Text /\ AllWithout(b \o c, set) = AllWithout(b, set) \o AllWithout(c, set)
  BY ONLY <1>2, <1>3, AllWithoutLaws, ZenonT(30)
<1>6. AllWithout(s, set) = AllWithout(b, set) \o AllWithout(c, set)
  BY <1>2, <1>5
<1>7. /\ AllWithout(a, set) \in Text /\ Without(t, set) \in Text
      /\ AllWithout(b, set) = AllWithout(a, set) \o Without(t, set)
      /\ \E d \in Text : AllWithout(s, set) = AllWithout(b, set) \o d
  BY <1>3, <1>4, <1>5, <1>6
<1>. QED
  BY <1>7 DEF a, b, t, z

\* Such pieces cover what is left of the whole.
LEMMA TailsCover ==
    ASSUME NEW set, NEW pieces \in Seq(Text), NEW lefts, Tailed(lefts, pieces, set)
    PROVE  Covers(AllWithout(pieces, set), lefts)
<1> DEFINE n == Len(pieces)
           whole == AllWithout(pieces, set)
           upto(k) == AllWithout(SubSeq(pieces, 1, k), set)
           ends(k) == Ends(whole, SubSeq(lefts, 1, k))
           T == {k \in Nat : k <= n => Len(upto(k)) \in ends(k)}
<1>1. /\ n \in Nat /\ lefts \in Seq(Text) /\ Len(lefts) = n
      /\ \A i \in 1..n :
            IF i = 1 THEN lefts[1] = Without(pieces[1], set)
            ELSE \E v, w \in Text : /\ Without(pieces[i - 1], set) = v \o w
                                    /\ lefts[i] = w \o Without(pieces[i], set)
  <2>1. n \in Nat
    OBVIOUS
  <2>. QED
    BY <2>1, Zenon DEF Tailed
<1>2. upto(0) = <<>> /\ ends(0) = {0}
  <2>1. <<>> \in Text /\ <<>> \in Seq(Text)
    BY DEF Text
  <2>2. SubSeq(pieces, 1, 0) = <<>> /\ SubSeq(lefts, 1, 0) = <<>>
    BY <1>1, FirstOnes
  <2>3. AllWithout(<<>>, set) = <<>>
    BY ONLY <2>1, AllWithoutLaws
  <2>4. Ends(whole, <<>>) = {0}
    BY ONLY <2>1, EndsOfMore
  <2>. QED
    BY <2>2, <2>3, <2>4
<1>3. ASSUME NEW k \in Nat, k + 1 <= n
      PROVE  /\ upto(k) \in Text /\ Without(pieces[k + 1], set) \in Text
             /\ upto(k + 1) = upto(k) \o Without(pieces[k + 1], set)
             /\ \E c \in Text : whole = upto(k + 1) \o c
             /\ ends(k + 1) = NextEnds(whole, lefts[k + 1], ends(k))
  <2>1. /\ upto(k) \in Text /\ Without(pieces[k + 1], set) \in Text
        /\ upto(k + 1) = upto(k) \o Without(pieces[k + 1], set)
        /\ \E c \in Text : whole = upto(k + 1) \o c
    BY ONLY <1>3, k \in Nat, pieces \in Seq(Text), FirstLeft
  <2>2. k \in 0..n /\ k + 1 <= Len(lefts)
    BY <1>1, <1>3
  <2>3. SubSeq(lefts, 1, k + 1) = Append(SubSeq(lefts, 1, k), lefts[k + 1]) /\ lefts[k + 1] \in Text
        /\ SubSeq(lefts, 1, k) \in Seq(Text)
    BY <1>1, <2>2, FirstOnes
  <2>4. ends(k + 1) = NextEnds(whole, lefts[k + 1], ends(k))
    <3> DEFINE f == SubSeq(lefts, 1, k)
               p == lefts[k + 1]
    <3>1. f \in Seq(Text) /\ p \in Text /\ SubSeq(lefts, 1, k + 1) = Append(f, p)
      BY <2>3
    <3> HIDE DEF f, p, whole
    <3>2. Ends(whole, Append(f, p)) = NextEnds(whole, p, Ends(whole, f))
      BY ONLY <3>1, EndsOfMore
    <3>. QED
      BY <3>1, <3>2 DEF f, p
  <2>. QED
    BY <2>1, <2>4
<1> HIDE DEF whole, n, upto, ends
<1>4. 0 \in T
  <2>1. Len(upto(0)) = 0
    BY <1>2
  <2>. QED
    BY <1>2, <2>1
<1>5. ASSUME NEW k \in T
      PROVE  k + 1 \in T
  <2> SUFFICES ASSUME k + 1 <= n
               PROVE  Len(upto(k + 1)) \in ends(k + 1)
    OBVIOUS
  <2> DEFINE z == k + 1
             b == Without(pieces[z], set)
  <2>1. k \in Nat /\ z \in 1..n /\ z - 1 = k /\ Len(upto(k)) \in ends(k)
    BY <1>1
  <2>2. /\ upto(k) \in Text /\ b \in Text
        /\ upto(z) = upto(k) \o b
        /\ \E c \in Text : whole = upto(z) \o c
        /\ ends(z) = NextEnds(whole, lefts[z], ends(k))
    BY <1>3, <2>1
  <2>3. PICK c \in Text : whole = (upto(k) \o b) \o c
    BY <2>2
  <2> HIDE DEF b, z
  <2>4. \E x, w \in Text : upto(k) = x \o w /\ lefts[z] = w \o b
    <3>1. CASE k = 0
      <4> DEFINE none == <<>>
      <4>1. none \in Text /\ none \o none = none /\ upto(k) = none
        BY <1>2, <3>1 DEF Text
      <4>2. z = 1 /\ lefts[z] = b
        BY <1>1, <2>1, <3>1 DEF b, z
      <4>3. none \o b = b
        <5>1. b \in Seq(Characters) /\ none \in Seq(Characters)
          BY <2>2, <4>1 DEF Text
        <5>. QED
          BY ONLY <5>1, InARow, SMTT(30)
      <4> HIDE DEF none
      <4>4. upto(k) = none \o none /\ lefts[z] = none \o b
        BY <4>1, <4>2, <4>3
      <4>. QED
        BY <4>1, <4>4
    <3>2. CASE k # 0
      <4> DEFINE y == k - 1
                 a == upto(y)
      <4>1. y \in Nat /\ y + 1 = k /\ y + 1 <= n /\ z # 1
        BY <1>1, <2>1, <3>2
      <4>2. PICK v, w \in Text : Without(pieces[k], set) = v \o w /\ lefts[z] = w \o b
        BY <1>1, <2>1, <4>1 DEF b
      <4> HIDE DEF y
      <4>3. a \in Text /\ upto(k) = a \o Without(pieces[k], set)
        BY <1>3, <4>1
      <4> HIDE DEF a
      <4>4. (a \o v) \o w = a \o (v \o w) /\ a \o v \in Text
        <5>1. a \in Seq(Characters) /\ v \in Seq(Characters) /\ w \in Seq(Characters)
          BY <4>2, <4>3 DEF Text
        <5>2. (a \o v) \o w = a \o (v \o w) /\ a \o v \in Seq(Characters)
          BY ONLY <5>1, InARow, SMTT(30)
        <5>. QED
          BY <5>2 DEF Text
      <4> DEFINE x == a \o v
      <4>5. x \in Text /\ upto(k) = x \o w
        BY <4>2, <4>3, <4>4
      <4> HIDE DEF x
      <4>. QED
        BY <4>2, <4>5
    <3>. QED
      BY <3>1, <3>2
  <2>5. PICK x, w \in Text : upto(k) = x \o w /\ lefts[z] = w \o b
    BY <2>4
  <2> DEFINE e == ends(k)
             wb == w \o b
             all == (x \o w) \o b
  <2>6. whole = ((x \o w) \o b) \o c /\ Len(x \o w) \in e
    BY <2>1, <2>3, <2>5
  <2> HIDE DEF e
  <2>7. Len((x \o w) \o b) \in NextEnds(whole, w \o b, e)
    BY ONLY <2>2, <2>6, x \in Text, w \in Text, c \in Text, PieceWithTail
  <2>8. upto(z) = all /\ ends(z) = NextEnds(whole, wb, e)
    BY <2>2, <2>5 DEF e
  <2>9. Len(all) \in NextEnds(whole, wb, e)
    BY <2>7
  <2> HIDE DEF wb, all
  <2>10. Len(upto(z)) \in ends(z)
    BY <2>8, <2>9
  <2>. QED
    BY <2>10 DEF z
<1>6. T = Nat
  <2>1. T \in SUBSET Nat
    OBVIOUS
  <2> HIDE DEF T
  <2>. QED
    BY ONLY <1>4, <1>5, <2>1, InductiveSet
<1>7. n \in T /\ n <= n
  BY <1>1, <1>6
<1>8. Len(upto(n)) \in ends(n)
  BY <1>7
<1>9. SubSeq(pieces, 1, n) = pieces /\ SubSeq(lefts, 1, n) = lefts
  BY <1>1, FirstOnes DEF n
<1>10. upto(n) = whole /\ ends(n) = Ends(whole, lefts)
  BY <1>9 DEF upto, ends, whole
<1>. QED
  BY <1>8, <1>10 DEF Covers, whole

\* What is left of `made` is what is left of a text behind the end of another one.
Behind(before, made, t, set) ==
    \E v, w \in Text : Without(before, set) = v \o w /\ Without(made, set) = w \o Without(t, set)

\* A text that is put behind the tail of the one before it.
LEMMA BehindTail ==
    ASSUME NEW set, Blanks \subseteq set, NEW before \in Text, NEW t \in Text, NEW z \in Nat, z <= Len(before),
           NEW sep \in Text, Without(sep, set) = <<>>, NEW made, made = Strip(Slice(before, z, Len(before)) \o sep \o t)
    PROVE  Behind(before, made, t, set)
<1> DEFINE n == Len(before)
           x == Slice(before, 0, z)
           y == Slice(before, z, n)
           ys == y \o sep
           u == ys \o t
<1>1. /\ x \in Text /\ y \in Text /\ before = Slice(before, 0, n)
      /\ Without(Slice(before, 0, n), set) = Without(x, set) \o Without(y, set)
  <2>1. Slice(before, 0, n) = before
    <3>1. SubSeq(before, 1, n) = before /\ 0 + 1 = 1
      BY FirstOnes DEF Text
    <3>. QED
      BY <3>1 DEF Slice
  <2>2. 0 \in Nat /\ 0 <= z
    OBVIOUS
  <2>. QED
    BY <2>1, <2>2, TwoPartsLeft
<1> HIDE DEF x, y
<1>2. ys \in Text /\ Without(ys, set) = Without(y, set) \o Without(sep, set) /\ Without(y, set) \in Text
  BY <1>1, WithoutLaws
<1>3. Without(y, set) \o <<>> = Without(y, set)
  <2>1. Without(y, set) \in Seq(Characters)
    BY <1>2 DEF Text
  <2>. QED
    BY ONLY <2>1, InARow, SMTT(30)
<1>4. Without(ys, set) = Without(y, set)
  BY <1>2, <1>3
<1> HIDE DEF ys
<1>5. u \in Text /\ Without(u, set) = Without(ys, set) \o Without(t, set)
  BY <1>2, WithoutLaws
<1> HIDE DEF u
<1>6. Without(Strip(u), set) = Without(u, set)
  BY <1>5, StripLeft
<1>7. Without(x, set) \in Text
  BY <1>1, WithoutLaws
<1>8. Without(before, set) = Without(x, set) \o Without(y, set)
  BY <1>1
<1>9. Without(Strip(u), set) = Without(y, set) \o Without(t, set)
  BY <1>4, <1>5, <1>6
<1>10. \E v, w \in Text : Without(before, set) = v \o w /\ Without(Strip(u), set) = w \o Without(t, set)
  BY <1>2, <1>7, <1>8, <1>9
<1>11. made = Strip(u)
  BY DEF u, ys, y, n
<1>. QED
  BY <1>10, <1>11 DEF Behind

\* What is left of the chunks that overlap.
LEMMA OverlapTailed ==
    ASSUME ChunkerAssumption, NEW set, Blanks \subseteq set, NEW text \in Text, NEW r, InPlace(r, text),
           NEW overlap \in Nat, NEW pieces \in Seq(Text), Len(r) = Len(pieces),
           \A i \in 1..Len(pieces) : r[i].content = pieces[i]
    PROVE  Tailed(Lefts(ApplyOverlap(r, overlap), set), pieces, set)
<1> DEFINE n == Len(pieces)
           a == ApplyOverlap(r, overlap)
           lefts == Lefts(a, set)
           sep == <<Space>>
           cut(i) == Max({Len(pieces[i - 1]) - overlap, 0})
           content(i) == Strip(Slice(pieces[i - 1], cut(i), Len(pieces[i - 1])) \o <<Space>> \o pieces[i])
<1>0. sep \in Text /\ Without(sep, set) = <<>>
  <2>1. sep \in Text /\ Space \in set
    BY TextConstants DEF ChunkerAssumption
  <2>2. Len(sep) = 1 /\ \A i \in 1..1 : sep[i] = Space
    OBVIOUS
  <2> HIDE DEF sep
  <2>. QED
    BY <2>1, <2>2, WithoutNothing
<1> HIDE DEF sep
<1>1. r \in Seq(ChunkRec) /\ n \in Nat /\ DOMAIN r = 1..n
  BY DEF InPlace
<1>2. a \in Seq(ChunkRec) /\ Len(a) = n
  <2>1. InPlace(a, text) /\ Len(a) = n
    BY OverlapFacts
  <2>. QED
    BY <2>1 DEF InPlace
<1>3. ASSUME NEW i \in 1..n
      PROVE  /\ i = 1 => a[i].content = pieces[1]
             /\ i # 1 => a[i].content = content(i)
  <2> DEFINE before == r[i - 1].content
             start == IF r[i].start >= overlap THEN r[i].start - overlap ELSE r[i].start
             full == Strip(Slice(before, Max({Len(before) - overlap, 0}), Len(before)) \o <<Space>> \o r[i].content)
             more == [r[i] EXCEPT !.content = full, !.start = start]
  <2>1. i \in DOMAIN r /\ r[i] \in ChunkRec
    BY <1>1
  <2>2. a[i] = IF i = 1 THEN r[1] ELSE more
    BY <2>1 DEF ApplyOverlap
  <2>3. more.content = full
    BY <2>1 DEF ChunkRec
  <2>4. i # 1 => before = pieces[i - 1]
    BY <1>1
  <2>5. r[i].content = pieces[i]
    OBVIOUS
  <2>6. i # 1 => full = content(i)
    BY <2>4, <2>5
  <2> HIDE DEF a, content, more, full
  <2>. QED
    BY <2>2, <2>3, <2>5, <2>6
<1> HIDE DEF a, content
<1>4. lefts \in Seq(Text) /\ Len(lefts) = n /\ \A i \in 1..n : lefts[i] = Without(a[i].content, set)
  <2>1. \A i \in 1..n : a[i] \in ChunkRec
    BY <1>2
  <2>2. \A i \in 1..n : Without(a[i].content, set) \in Text
    <3>1. \A d \in ChunkRec : d.content \in Text
      BY DEF ChunkRec
    <3>. QED
      BY <2>1, <3>1, WithoutLaws
  <2>. QED
    BY <1>1, <1>2, <2>2 DEF Lefts
<1> HIDE DEF lefts
<1>5. ASSUME NEW i \in 1..n, i # 1
      PROVE  \E v, w \in Text : /\ Without(pieces[i - 1], set) = v \o w
                                /\ lefts[i] = w \o Without(pieces[i], set)
  <2> DEFINE b == pieces[i - 1]
             t == pieces[i]
             m == Len(b) - overlap
             y == cut(i)
  <2>1. b \in Text /\ t \in Text /\ Len(b) \in Nat
    <3>1. i - 1 \in 1..n
      BY <1>1, <1>5
    <3>2. b \in Text /\ t \in Text
      BY <3>1
    <3>. QED
      BY <3>2 DEF Text
  <2>2. y = Max({m, 0}) /\ content(i) = Strip(Slice(b, y, Len(b)) \o <<Space>> \o t)
    BY DEF content
  <2> DEFINE made == content(i)
  <2> HIDE DEF b, t, y
  <2>3. m \in Int /\ m <= Len(b)
    BY <2>1
  <2> HIDE DEF m
  <2>4. Max({m, 0}) \in {m, 0} /\ Max({m, 0}) >= m /\ Max({m, 0}) >= 0
    BY ONLY <2>3, 0 \in Int, MaxOfTwo
  <2>5. y \in Nat /\ y <= Len(b)
    BY <2>1, <2>2, <2>3, <2>4
  <2>6. made = Strip(Slice(b, y, Len(b)) \o sep \o t)
    BY <2>2 DEF sep
  <2> HIDE DEF made
  <2>7. Behind(b, made, t, set)
    BY ONLY <1>0, <2>1, <2>5, <2>6, Blanks \subseteq set, BehindTail
  <2>8. lefts[i] = Without(made, set)
    BY <1>3, <1>4, <1>5 DEF made
  <2>9. \E v, w \in Text : Without(b, set) = v \o w /\ lefts[i] = w \o Without(t, set)
    BY <2>7, <2>8 DEF Behind
  <2>. QED
    BY <2>9 DEF b, t
<1>6. ASSUME NEW i \in 1..n, i = 1
      PROVE  lefts[1] = Without(pieces[1], set)
  BY <1>3, <1>4, <1>6
<1>. QED
  BY <1>4, <1>5, <1>6, Zenon DEF Tailed, n, lefts, a

\* The chunks of RecursiveChunker cover the text.
LEMMA RecursiveCovers ==
    ASSUME ChunkerAssumption, NEW set, Blanks \subseteq set, "." \in set, NEW text \in Text, ~IsBlank(text),
           NEW size \in Nat, NEW overlap \in Nat
    PROVE  Covers(Without(text, set), Lefts(RecursiveChunks(text, size, overlap), set))
<1> DEFINE parts == RecursiveSplit(text, size)
           pieces == Filled(parts)
           located == Locate(text, pieces)
           r == RecursiveChunks(text, size, overlap)
<1>1. r = IF overlap > 0 /\ Len(located) > 1 THEN ApplyOverlap(located, overlap) ELSE located
  BY DEF RecursiveChunks
<1> HIDE DEF r
<1>2. parts \in Seq(Text) /\ AllWithout(parts, set) = Without(text, set)
  <2>1. KeepsLeft(parts, text, set)
    BY RecursiveSplitLeft
  <2>. QED
    BY <2>1 DEF KeepsLeft
<1> HIDE DEF parts
<1>3. /\ pieces \in Seq(Text) /\ AllWithout(pieces, set) = Without(text, set)
      /\ \A i \in 1..Len(pieces) : ~IsBlank(pieces[i])
  BY <1>2, FilledFacts, FilledLeft
<1> HIDE DEF pieces
<1>4. /\ InPlace(located, text) /\ Len(located) = Len(pieces)
      /\ \A i \in 1..Len(pieces) : located[i].content = pieces[i]
  BY <1>3, LocateFacts
<1> HIDE DEF located
<1>5. Tailed(Lefts(r, set), pieces, set)
  <2>1. CASE overlap > 0 /\ Len(located) > 1
    <3>1. r = ApplyOverlap(located, overlap)
      BY <1>1, <2>1
    <3>2. Tailed(Lefts(ApplyOverlap(located, overlap), set), pieces, set)
      BY <1>3, <1>4, OverlapTailed
    <3>. QED
      BY <3>1, <3>2
  <2>2. CASE ~(overlap > 0 /\ Len(located) > 1)
    <3> DEFINE n == Len(pieces)
               lefts == Lefts(located, set)
    <3>1. r = located /\ located \in Seq(ChunkRec) /\ Len(located) = n /\ n \in Nat
      BY <1>1, <1>3, <1>4, <2>2 DEF InPlace
    <3>2. \A i \in 1..n : pieces[i] \in Text /\ Without(pieces[i], set) \in Text
      <4>1. \A i \in 1..n : pieces[i] \in Text
        BY <1>3
      <4>. QED
        BY <4>1, WithoutLaws
    <3>3. lefts = [i \in 1..n |-> Without(located[i].content, set)]
      BY <3>1 DEF Lefts
    <3> HIDE DEF lefts
    <3>4. \A i \in 1..n : lefts[i] = Without(pieces[i], set)
      BY <1>4, <3>3
    <3>5. lefts \in Seq(Text) /\ Len(lefts) = n
      BY <3>1, <3>2, <3>3, <3>4
    <3>6. ASSUME NEW i \in 1..n, i # 1
          PROVE  \E v, w \in Text : /\ Without(pieces[i - 1], set) = v \o w
                                    /\ lefts[i] = w \o Without(pieces[i], set)
      <4> DEFINE x == Without(pieces[i - 1], set)
                 y == Without(pieces[i], set)
                 none == <<>>
      <4>1. x \in Seq(Characters) /\ y \in Seq(Characters) /\ none \in Seq(Characters)
        <5>1. i - 1 \in 1..n
          BY <3>1, <3>6
        <5>. QED
          BY <3>2, <5>1 DEF Text
      <4>2. lefts[i] = y
        BY <3>4
      <4> HIDE DEF x, y
      <4>3. x \o none = x /\ none \o y = y
        BY ONLY <4>1, InARow, SMTT(30)
      <4> HIDE DEF none
      <4>4. x \in Text /\ none \in Text /\ x = x \o none /\ lefts[i] = none \o y
        BY <4>1, <4>2, <4>3 DEF Text
      <4>. QED
        BY <4>4 DEF x, y
    <3>7. ASSUME NEW i \in 1..n, i = 1
          PROVE  lefts[1] = Without(pieces[1], set)
      BY <3>4, <3>7
    <3>. QED
      BY <3>1, <3>5, <3>6, <3>7, Zenon DEF Tailed, n, lefts
  <2>. QED
    BY <2>1, <2>2
<1>. QED
  BY <1>3, <1>5, TailsCover DEF r

\* get_chunker(name, ...).chunk(document): the chunks cover the document, whatever the strategy.
LEMMA ChunksCover ==
    ASSUME ChunkerAssumption, IngestionAssumption, NEW s \in Setups, NEW text \in Text,
           NEW set, Blanks \subseteq set, "." \in set,
           Chunks(s.strategy, text, s.size, s.overlap) # <<>>
    PROVE  Covers(Without(text, set), Lefts(Chunks(s.strategy, text, s.size, s.overlap), set))
<1> DEFINE size == s.size
           overlap == s.overlap
           r == Chunks(s.strategy, text, size, overlap)
<1>1. /\ size \in Nat /\ overlap \in Nat
      /\ s.strategy \in {"fixed", "sentence", "recursive"}
      /\ s.strategy \in {"fixed", "recursive"} => overlap < size
  BY DEF IngestionAssumption
<1>2. r # <<>>
  OBVIOUS
<1> HIDE DEF size, overlap
<1>3. CASE s.strategy = "fixed"
  <2>1. r = FixedChunks(text, size, overlap)
    BY <1>3 DEF Chunks
  <2> HIDE DEF r
  <2>2. overlap < size
    BY <1>1, <1>3
  <2>3. WindowsTo(r, text, size, Len(text))
    BY <1>1, <2>1, <2>2, FixedFacts
  <2>4. Covers(Without(text, set), [i \in 1..Len(r) |-> Without(r[i].content, set)])
    BY <1>1, <1>2, <2>3, FixedCovers
  <2>. QED
    BY <2>4 DEF Lefts, r, size, overlap
<1>4. CASE s.strategy = "sentence"
  <2>1. r = SentenceChunks(text, size, overlap)
    BY <1>4 DEF Chunks
  <2>2. ~IsBlank(text)
    BY <1>2, <2>1 DEF SentenceChunks
  <2> HIDE DEF r
  <2>3. Covers(Without(text, set), Lefts(r, set))
    BY <1>1, <2>1, <2>2, SentencesCover
  <2>. QED
    BY <2>3 DEF r, size, overlap
<1>5. CASE s.strategy = "recursive"
  <2>1. r = RecursiveChunks(text, size, overlap)
    BY <1>5 DEF Chunks
  <2>2. ~IsBlank(text)
    BY <1>2, <2>1 DEF RecursiveChunks
  <2> HIDE DEF r
  <2>3. Covers(Without(text, set), Lefts(r, set))
    BY <1>1, <2>1, <2>2, RecursiveCovers
  <2>. QED
    BY <2>3 DEF r, size, overlap
<1>. QED
  BY <1>1, <1>3, <1>4, <1>5

-----------------------------------------------------------------------------
(* The inductive invariant.                                                *)

\* A result: its error, or its chunks.
Result == [error : Errors, chunks : Seq(ChunkRec)]

\* Who calls, and what the next step is: a file that is about to be read has been found,
\* nothing is embedded for ingest_many, and an upload gets past embedding with the mock only.
CallInv ==
    /\ setup \in Setups /\ items \in Batches
    /\ vanished \subseteq DOMAIN items
    /\ pc \in {"take", "read", "return", "embed", "store", "done"}
    /\ pc = "read" => Item.kind = "file" /\ Item.exists /\ Item.safe
    /\ pc = "return" => setup.caller = "ingest_many"
    /\ pc \in {"embed", "store"} => setup.caller # "ingest_many"
    /\ pc = "store" /\ setup.provider = "openai" => setup.caller = "ingest_documents"

\* There is a result for each item that is over.
ResultsInv ==
    /\ results \in Seq(Result)
    /\ Len(results) <= Len(items) /\ (pc = "done" <=> Len(results) = Len(items))

\* The chunks of an item.
MadeOf(item, s, made) ==
    made = Chunks(s.strategy, Normalize(ContentOf(item).content), s.size, s.overlap)

\* The current item's chunks are those of its document, as long as they are needed.
ChunksInv ==
    /\ chunks \in Seq(ChunkRec)
    /\ pc \notin {"return", "embed", "store"} => chunks = <<>>
    /\ pc \in {"return", "embed", "store"} =>
          /\ document \in Text /\ document = Normalize(ContentOf(Item).content)
          /\ Sound(Item) /\ chunks # <<>> /\ MadeOf(Item, setup, chunks)
          /\ InPlace(chunks, document) /\ AsPromised(setup, chunks, document)

\* The vectors are those of the texts that have been sent, in their order, unless the service
\* has left some out: then they are fewer, and stay so.
VectorsInv ==
    /\ sent \in Nat /\ sent <= Len(chunks) /\ vectors \in Seq(Text) /\ Len(vectors) <= sent
    /\ Len(vectors) = sent => \A i \in 1..sent : vectors[i] = chunks[i].content
    /\ pc \notin {"embed", "store"} => sent = 0
    /\ pc = "store" => sent = Len(chunks)
    /\ pc = "store" /\ setup.provider = "mock" => Len(vectors) = sent

\* What is in the stores belongs to the items that are over.
StoresInv(st, ix, n) ==
    /\ \A s \in st : s.item \in 1..n /\ s.vector = s.chunk.content
    /\ \A e \in ix : /\ e.item \in 1..n
                     /\ e \in {[item |-> s.item, chunk |-> s.chunk] : s \in st}

\* The chunks of item k in the vector store, and in the lexical index.
Kept(st, k) == {s.chunk : s \in {x \in st : x.item = k}}
Listed(ix, k) == {e.chunk : e \in {x \in ix : x.item = k}}

\* Of a sound item that fails at the store, the first chunks: of a database's, all.
IsLeft(item, kept, s) ==
    LET own == Chunks(s.strategy, Normalize(ContentOf(item).content), s.size, s.overlap)
    IN  /\ Sound(item)
        /\ s.store = "pgvector" \/ s.provider = "openai"
        /\ \E n \in 1..Len(own) : /\ kept = {own[i] : i \in 1..n}
                                  /\ s.store = "pgvector" => n = Len(own)

\* What ItemsAreIsolated says of one item.
IsIsolated(result, item, k, gone, kept, listed, s) ==
    /\ result.error = "none" => /\ Sound(item) /\ result.chunks # <<>>
                                /\ MadeOf(item, s, result.chunks)
    /\ Sound(item) /\ result.error # "none" =>
          k \in gone \/ s.provider = "openai" \/ s.store = "pgvector"
    /\ listed = IF s.caller = "ingest_many" THEN {} ELSE ToSet(result.chunks)
    /\ result.error = "none" => kept = listed
    /\ result.error # "none" => listed = {} /\ (kept # {} => IsLeft(item, kept, s))
    /\ s.caller = "ingest_upload" /\ s.provider = "openai" => result.error # "none"

\* Every item that is over is as ItemsAreIsolated says.
IsolatedInv ==
    \A k \in 1..Len(results) : IsIsolated(results[k], items[k], k, vanished, Kept(stored, k), Listed(indexed, k), setup)

\* The invariant of ingestion.
Inv ==
    /\ CallInv /\ ResultsInv /\ ChunksInv /\ VectorsInv
    /\ StoresInv(stored, indexed, Len(results)) /\ IsolatedInv

-----------------------------------------------------------------------------
(* What the proofs of the steps have in common.                            *)

\* The current item is one of the items.
LEMMA ItemFacts ==
    ASSUME CallInv, ResultsInv, pc # "done"
    PROVE  /\ Len(results) \in Nat /\ Len(items) \in Nat /\ DOMAIN items = 1..Len(items)
           /\ Current = Len(results) + 1 /\ Current \in 1..Len(items)
           /\ Item = items[Current] /\ IsRaw(Item.raw)
           /\ Item.kind = "file" => Item.exists \in BOOLEAN /\ Item.safe \in BOOLEAN
<1>1. IsBatch(items)
  BY IngestionAssumption DEF IngestionAssumption, CallInv
<1> DEFINE S == {items[i] : i \in DOMAIN items}
<1>2. items \in Seq(S)
  BY <1>1 DEF IsBatch
<1> HIDE DEF S
<1>3. Len(items) \in Nat /\ DOMAIN items = 1..Len(items)
  BY <1>2
<1>4. Len(results) \in Nat /\ Len(results) <= Len(items) /\ Len(results) # Len(items)
  BY DEF ResultsInv
<1>5. Current = Len(results) + 1 /\ Item = items[Current]
  BY DEF Current, Item
<1>6. Current \in 1..Len(items)
  BY <1>3, <1>4, <1>5
<1>7. /\ IsRaw(items[Current].raw)
      /\ items[Current].kind = "file" => {items[Current].exists, items[Current].safe} \subseteq BOOLEAN
  <2>1. \A i \in DOMAIN items : /\ IsRaw(items[i].raw)
                                /\ items[i].kind = "file" => {items[i].exists, items[i].safe} \subseteq BOOLEAN
    BY <1>1, Zenon DEF IsBatch
  <2>2. Current \in DOMAIN items
    BY <1>3, <1>6
  <2> DEFINE c == Current
  <2> HIDE DEF c
  <2>3. c \in DOMAIN items
    BY <2>2 DEF c
  <2>4. /\ IsRaw(items[c].raw)
        /\ items[c].kind = "file" => {items[c].exists, items[c].safe} \subseteq BOOLEAN
    BY ONLY <2>1, <2>3
  <2>. QED
    BY <2>4 DEF c
<1>. QED
  BY <1>3, <1>4, <1>5, <1>6, <1>7

\* A result more.
LEMMA ResultFacts ==
    ASSUME NEW r \in Seq(Result), NEW x \in Result
    PROVE  /\ Append(r, x) \in Seq(Result) /\ Len(Append(r, x)) = Len(r) + 1 /\ Len(r) \in Nat
           /\ \A k \in 1..Len(Append(r, x)) :
                 \/ k \in 1..Len(r) /\ Append(r, x)[k] = r[k]
                 \/ k = Len(r) + 1 /\ Append(r, x)[k] = x
  OBVIOUS

\* A fact that the empty sequence of chunks makes true.
LEMMA NoChunks ==
    <<>> \in Seq(ChunkRec) /\ <<>> \in Seq(Text) /\ Len(<<>>) = 0 /\ ToSet(<<>>) = {}
<1> DEFINE e == <<>>
<1>1. e \in Seq(ChunkRec) /\ e \in Seq(Text) /\ Len(e) = 0
  <2>1. e \in Seq(ChunkRec)
    OBVIOUS
  <2>2. e \in Seq(Text)
    OBVIOUS
  <2>3. Len(e) = 0
    OBVIOUS
  <2>. QED
    BY <2>1, <2>2, <2>3
<1>2. ToSet(e) = {e[i] : i \in DOMAIN e}
  BY Zenon DEF ToSet
<1>3. DOMAIN e = 1..Len(e)
  BY <1>1
<1> HIDE DEF e
<1>4. DOMAIN e = {}
  BY <1>1, <1>3
<1>5. ToSet(e) = {}
  BY <1>2, <1>4
<1>. QED
  BY <1>1, <1>5 DEF e

\* The item is over: the invariant holds after its result if the stores got nothing but
\* what belongs to it, and the result is what may be expected of it.
LEMMA ReportKeeps ==
    ASSUME Inv, pc # "done", NEW error \in Errors, NEW made \in Seq(ChunkRec), Report(error, made),
           setup' = setup, items' = items, vanished' = vanished,
           StoresInv(stored', indexed', Len(results) + 1),
           \A k \in 1..Len(results) : /\ Kept(stored', k) = Kept(stored, k)
                                      /\ Listed(indexed', k) = Listed(indexed, k),
           IsIsolated([error |-> error, chunks |-> made], Item, Current, vanished,
                      Kept(stored', Current), Listed(indexed', Current), setup)
    PROVE  Inv'
<1> DEFINE x == [error |-> error, chunks |-> made]
<1>1. /\ results' = Append(results, x)
      /\ pc' = IF Current = Len(items) THEN "done" ELSE "take"
      /\ chunks' = <<>> /\ sent' = 0 /\ vectors' = <<>>
  BY DEF Report
<1>2. /\ Len(results) \in Nat /\ Len(items) \in Nat /\ Current = Len(results) + 1
      /\ Current \in 1..Len(items) /\ Item = items[Current]
  BY ItemFacts DEF Inv
<1>3. results \in Seq(Result) /\ x \in Result
  BY DEF Inv, ResultsInv, Result
<1>4. /\ results' \in Seq(Result) /\ Len(results') = Len(results) + 1
      /\ \A k \in 1..Len(results') :
            \/ k \in 1..Len(results) /\ results'[k] = results[k]
            \/ k = Len(results) + 1 /\ results'[k] = x
  BY <1>1, <1>3, ResultFacts
<1> HIDE DEF x
<1>5. pc' \in {"take", "done"} /\ (pc' = "done" <=> Len(results') = Len(items))
  BY <1>1, <1>2, <1>4
<1>6. CallInv'
  BY <1>5 DEF Inv, CallInv
<1>7. ResultsInv'
  BY <1>2, <1>4, <1>5 DEF ResultsInv
<1>8. ChunksInv'
  BY <1>1, <1>5, NoChunks DEF ChunksInv
<1>9. VectorsInv'
  BY <1>1, <1>5, NoChunks DEF VectorsInv
<1>10. StoresInv(stored', indexed', Len(results'))
  BY <1>4
<1>11. IsolatedInv'
  <2> SUFFICES ASSUME NEW k \in 1..Len(results')
               PROVE  IsIsolated(results'[k], items[k], k, vanished, Kept(stored', k),
                                 Listed(indexed', k), setup)
    BY DEF IsolatedInv, Kept, Listed
  <2>1. CASE k \in 1..Len(results) /\ results'[k] = results[k]
    BY <2>1 DEF Inv, IsolatedInv
  <2>2. CASE k = Len(results) + 1 /\ results'[k] = x
    BY <1>2, <2>2 DEF x
  <2>. QED
    BY <1>4, <2>1, <2>2
<1>. QED
  BY <1>6, <1>7, <1>8, <1>9, <1>10, <1>11 DEF Inv, StoresInv

\* Nothing of the current item is in the stores.
LEMMA NothingKept ==
    ASSUME Inv, pc # "done"
    PROVE  /\ Kept(stored, Current) = {} /\ Listed(indexed, Current) = {}
           /\ StoresInv(stored, indexed, Len(results) + 1)
<1>1. Len(results) \in Nat /\ Current = Len(results) + 1
  BY ItemFacts DEF Inv
<1>2. \A s \in stored : s.item \in 1..Len(results)
  BY DEF Inv, StoresInv
<1>3. \A s \in stored : s.item # Current /\ s.item \in 1..(Len(results) + 1)
  BY <1>1, <1>2
<1>4. \A e \in indexed : e.item \in 1..Len(results)
  BY DEF Inv, StoresInv
<1>5. \A e \in indexed : e.item # Current /\ e.item \in 1..(Len(results) + 1)
  BY <1>1, <1>4
<1>. QED
  BY <1>3, <1>5 DEF Kept, Listed, Inv, StoresInv

\* A failure keeps the invariant if there was no reason for the item to succeed.
LEMMA FailKeeps ==
    ASSUME Inv, pc # "done", NEW error \in Errors, error # "none", Fail(error),
           Sound(Item) => Current \in vanished \/ setup.provider = "openai" \/ setup.store = "pgvector"
    PROVE  Inv'
<1>1. /\ Report(error, <<>>) /\ setup' = setup /\ items' = items /\ vanished' = vanished
      /\ stored' = stored /\ indexed' = indexed
  BY DEF Fail
<1>2. /\ Kept(stored, Current) = {} /\ Listed(indexed, Current) = {}
      /\ StoresInv(stored, indexed, Len(results) + 1)
  BY NothingKept
<1> DEFINE x == [error |-> error, chunks |-> <<>>]
<1>3. x.error # "none" /\ x.chunks = <<>>
  OBVIOUS
<1>4. IsIsolated(x, Item, Current, vanished, Kept(stored, Current), Listed(indexed, Current), setup)
  <2> HIDE DEF x
  <2>. QED
    BY <1>2, <1>3, NoChunks DEF IsIsolated
<1>5. \A k \in 1..Len(results) : Kept(stored', k) = Kept(stored, k) /\ Listed(indexed', k) = Listed(indexed, k)
  BY <1>1
<1>6. IsIsolated(x, Item, Current, vanished, Kept(stored', Current), Listed(indexed', Current), setup)
  BY <1>1, <1>4
<1>7. StoresInv(stored', indexed', Len(results) + 1)
  BY <1>1, <1>2
<1>8. <<>> \in Seq(ChunkRec)
  BY NoChunks
<1>. QED
  BY <1>1, <1>5, <1>6, <1>7, <1>8, ReportKeeps

\* The bytes of the current item have been loaded and chunked, or the item fails.
LEMMA LoadKeeps ==
    ASSUME Inv, pc \in {"take", "read"}, NEW raw, NEW type, LoadOrFail(raw, type),
           raw = Item.raw, Parse(raw, type) = ContentOf(Item),
           Item.kind \in {"text", "bytes", "file"},
           Item.kind = "file" => Item.exists /\ Item.safe
    PROVE  Inv'
<1>1. pc # "done" /\ pc \notin {"return", "embed", "store"}
  OBVIOUS
<1>2. /\ Len(results) \in Nat /\ Current \in 1..Len(items) /\ Item = items[Current] /\ IsRaw(raw)
  BY <1>1, ItemFacts DEF Inv
<1> DEFINE loaded == Load(raw, type)
           t == loaded.content
<1>3. /\ loaded.error = "none" <=> Sound(Item)
      /\ loaded.error = "none" =>
            t \in Text /\ EndsFilled(t) /\ t = Normalize(ContentOf(Item).content)
      /\ loaded.error \in Errors
  <2>1. /\ loaded.error = "none" <=> /\ raw.size <= MaxBytes /\ Parse(raw, type).error = "none"
                                     /\ ~IsBlank(Parse(raw, type).content)
        /\ loaded.error = "none" =>
              /\ t \in Text /\ EndsFilled(t)
              /\ t = Normalize(Parse(raw, type).content)
        /\ loaded.error \in Errors
    BY <1>2, ChunkerAssumption, LoaderAssumption, LoadFacts, LoadError
  <2> HIDE DEF loaded
  <2>. QED
    BY <2>1 DEF Sound
<1>4. CASE loaded.error # "none" /\ Fail(loaded.error)
  <2> HIDE DEF loaded
  <2>. QED
    BY <1>1, <1>3, <1>4, FailKeeps
<1>5. CASE /\ loaded.error = "none"
           /\ document' = t
           /\ chunks' = Chunks(setup.strategy, t, setup.size, setup.overlap)
           /\ pc' = IF setup.caller = "ingest_many" THEN "return" ELSE "embed"
           /\ UNCHANGED <<setup, items, vanished, results, sent, vectors, stored, indexed>>
  <2> HIDE DEF loaded
  <2>1. t \in Text /\ EndsFilled(t) /\ Sound(Item) /\ t = Normalize(ContentOf(Item).content)
    BY <1>3, <1>5
  <2>2. /\ setup' = setup /\ items' = items /\ vanished' = vanished /\ results' = results
        /\ sent' = sent /\ vectors' = vectors /\ stored' = stored /\ indexed' = indexed
    BY <1>5
  <2> DEFINE r == Chunks(setup.strategy, t, setup.size, setup.overlap)
  <2>3. InPlace(r, t) /\ AsPromised(setup, r, t) /\ r # <<>>
    BY <2>1, ChunkerAssumption, IngestionAssumption, ChunksFacts DEF Inv, CallInv
  <2>4. chunks' = r /\ document' = t /\ pc' \in {"return", "embed"}
        /\ (pc' = "return" => setup.caller = "ingest_many")
        /\ (pc' = "embed" => setup.caller # "ingest_many")
    BY <1>5
  <2>5. MadeOf(Item, setup, r)
    BY <2>1 DEF MadeOf
  <2>6. r \in Seq(ChunkRec)
    BY <2>3 DEF InPlace
  <2> HIDE DEF r, t
  <2>7. Item' = Item
    BY <2>2 DEF Item, Current
  <2>8. CallInv'
    BY <2>2, <2>4 DEF Inv, CallInv
  <2>9. ResultsInv'
    BY <1>1, <2>2, <2>4 DEF Inv, ResultsInv
  <2>10. ChunksInv'
    <3>1. MadeOf(Item', setup', chunks') /\ Sound(Item') /\ AsPromised(setup', chunks', document')
          /\ InPlace(chunks', document')
      BY <2>1, <2>2, <2>3, <2>4, <2>5, <2>7
    <3>2. document' = Normalize(ContentOf(Item').content)
      BY <2>1, <2>4, <2>7
    <3>. QED
      BY <2>1, <2>3, <2>4, <2>6, <3>1, <3>2
         DEF ChunksInv, MadeOf, Sound, ContentOf, TypeOf, AsPromised, InPlace
  <2>11. VectorsInv'
    <3>1. sent = 0 /\ Len(vectors) <= 0 /\ vectors \in Seq(Text)
      BY <1>1 DEF Inv, VectorsInv
    <3>2. Len(chunks') \in Nat
      BY <2>4, <2>6
    <3>. QED
      BY <2>2, <2>4, <3>1, <3>2 DEF VectorsInv
  <2>12. StoresInv(stored', indexed', Len(results')) /\ IsolatedInv'
    BY <2>2 DEF Inv, IsolatedInv, StoresInv
  <2>. QED
    BY <2>8, <2>9, <2>10, <2>11, <2>12 DEF Inv, StoresInv
<1>. QED
  BY <1>4, <1>5 DEF LoadOrFail

\* A step that leaves the item, its chunks and the stores alone keeps what says so.
LEMMA SameItem ==
    ASSUME Inv, items' = items, setup' = setup, results' = results, chunks' = chunks, document' = document,
           pc' \in {"take", "read", "return", "embed", "store"},
           pc # "done",
           pc' \in {"return", "embed", "store"} <=> pc \in {"return", "embed", "store"},
           stored' = stored, indexed' = indexed
    PROVE  /\ Item' = Item /\ ResultsInv' /\ ChunksInv' /\ StoresInv(stored', indexed', Len(results'))
           /\ (vanished' = vanished => IsolatedInv')
<1>1. Item' = Item
  BY DEF Item, Current
<1>2. ResultsInv'
  BY DEF Inv, ResultsInv
<1>3. ChunksInv'
  <2>1. MadeOf(Item', setup', chunks') <=> MadeOf(Item, setup, chunks)
    BY <1>1
  <2>2. Sound(Item') <=> Sound(Item)
    BY <1>1
  <2>3. AsPromised(setup', chunks', document') <=> AsPromised(setup, chunks, document)
    OBVIOUS
  <2>4. InPlace(chunks', document') <=> InPlace(chunks, document)
    OBVIOUS
  <2>5. document' = Normalize(ContentOf(Item').content) <=> document = Normalize(ContentOf(Item).content)
    BY <1>1
  <2>. QED
    BY <2>1, <2>2, <2>3, <2>4, <2>5
       DEF Inv, ChunksInv, MadeOf, Sound, ContentOf, TypeOf, AsPromised, InPlace
<1>4. StoresInv(stored', indexed', Len(results'))
  BY DEF Inv, StoresInv
<1>5. vanished' = vanished => IsolatedInv'
  BY DEF Inv, IsolatedInv
<1>. QED
  BY <1>1, <1>2, <1>3, <1>4, <1>5

-----------------------------------------------------------------------------
(* Every step keeps the invariant.                                         *)

\* An item of another kind can not be loaded.
LEMMA UnknownKindKeeps ==
    ASSUME Inv, UnknownKind
    PROVE  Inv'
<1>1. ~Sound(Item)
  BY DEF UnknownKind, Sound
<1> DEFINE error == IF setup.caller = "ingest_many" THEN "ValueError" ELSE "ValidationError"
<1>2. error \in Errors /\ error # "none"
  BY DEF Errors
<1>3. pc # "done" /\ Fail(error)
  BY DEF UnknownKind
<1> HIDE DEF error
<1>. QED
  BY <1>1, <1>2, <1>3, FailKeeps

\* Nor can an upload that is too long.
LEMMA RefuseUploadKeeps ==
    ASSUME Inv, RefuseUpload
    PROVE  Inv'
<1>1. ~Sound(Item)
  BY DEF RefuseUpload, Sound, FitsLimit
<1>2. "document_too_large" \in Errors /\ pc # "done" /\ Fail("document_too_large")
  BY DEF Errors, RefuseUpload
<1>. QED
  BY <1>1, <1>2, FailKeeps

\* A file is read only if it is there; otherwise it has never been there, may not be read, or
\* has vanished.
LEMMA FindFileKeeps ==
    ASSUME Inv, FindFile
    PROVE  Inv'
<1>1. pc = "take" /\ Item.kind = "file"
  BY DEF FindFile
<1>2. CASE /\ Item.exists /\ Current \notin vanished /\ Item.safe
           /\ pc' = "read"
           /\ UNCHANGED <<setup, items, vanished, results, document, chunks, sent, vectors, stored, indexed>>
  <2>1. /\ setup' = setup /\ items' = items /\ vanished' = vanished /\ results' = results
        /\ document' = document /\ chunks' = chunks /\ sent' = sent /\ vectors' = vectors
        /\ stored' = stored /\ indexed' = indexed /\ pc' = "read"
    BY <1>2
  <2>2. /\ Item' = Item /\ ResultsInv' /\ ChunksInv' /\ StoresInv(stored', indexed', Len(results'))
        /\ IsolatedInv'
    BY <1>1, <2>1, SameItem
  <2>3. CallInv'
    BY <1>1, <1>2, <2>1, <2>2 DEF Inv, CallInv
  <2>4. VectorsInv'
    BY <1>1, <2>1 DEF Inv, VectorsInv
  <2>. QED
    BY <2>2, <2>3, <2>4 DEF Inv, StoresInv
<1>3. CASE ~(Item.exists /\ Current \notin vanished /\ Item.safe) /\ Fail("DocumentParseError")
  <2>1. Sound(Item) => Current \in vanished
    BY <1>1, <1>3 DEF Sound
  <2>2. "DocumentParseError" \in Errors /\ pc # "done"
    BY <1>1 DEF Errors
  <2>. QED
    BY <1>3, <2>1, <2>2, FailKeeps
<1>. QED
  BY <1>2, <1>3 DEF FindFile

\* A file that has been found is read, unless it has vanished since.
LEMMA ReadFileKeeps ==
    ASSUME Inv, ReadFile
    PROVE  Inv'
<1>1. pc = "read" /\ Item.kind = "file" /\ Item.exists /\ Item.safe
  BY DEF ReadFile, Inv, CallInv
<1>2. CASE Current \in vanished /\ Fail("FileNotFoundError")
  <2>1. "FileNotFoundError" \in Errors /\ pc # "done"
    BY <1>1 DEF Errors
  <2>. QED
    BY <1>2, <2>1, FailKeeps
<1>3. CASE LoadOrFail(Item.raw, GuessContentType(Item.suffix))
  <2> DEFINE type == GuessContentType(Item.suffix)
             raw == Item.raw
  <2>1. Parse(raw, type) = ContentOf(Item)
    BY <1>1 DEF ContentOf, TypeOf
  <2>2. LoadOrFail(raw, type) /\ raw = Item.raw
    BY <1>3
  <2> HIDE DEF type, raw
  <2>. QED
    BY <1>1, <2>1, <2>2, LoadKeeps
<1>. QED
  BY <1>2, <1>3 DEF ReadFile

\* A text is at hand, and so are bytes.
LEMMA LoadContentKeeps ==
    ASSUME Inv, LoadContent
    PROVE  Inv'
<1>1. pc = "take" /\ Item.kind \in {"text", "bytes"}
  BY DEF LoadContent
<1> DEFINE type == Item.type
           raw == Item.raw
<1>2. Parse(raw, type) = ContentOf(Item)
  BY <1>1 DEF ContentOf, TypeOf
<1>3. LoadOrFail(raw, type) /\ raw = Item.raw
  BY DEF LoadContent
<1> HIDE DEF type, raw
<1>. QED
  BY <1>1, <1>2, <1>3, LoadKeeps

\* A file that vanishes gives its item one more reason to fail.
LEMMA VanishKeeps ==
    ASSUME Inv, NEW i \in DOMAIN items, Vanish(i)
    PROVE  Inv'
<1>1. /\ setup' = setup /\ items' = items /\ pc' = pc /\ results' = results
      /\ document' = document /\ chunks' = chunks /\ sent' = sent /\ vectors' = vectors
      /\ stored' = stored /\ indexed' = indexed /\ vanished' = vanished \cup {i} /\ pc # "done"
  BY DEF Vanish
<1>2. pc \in {"take", "read", "return", "embed", "store"}
  BY <1>1 DEF Inv, CallInv
<1>3. /\ Item' = Item /\ ResultsInv' /\ ChunksInv' /\ StoresInv(stored', indexed', Len(results'))
  BY <1>1, <1>2, SameItem
<1>4. CallInv'
  BY <1>1, <1>3 DEF Inv, CallInv
<1>5. VectorsInv'
  BY <1>1 DEF Inv, VectorsInv
<1>6. IsolatedInv'
  <2> SUFFICES ASSUME NEW k \in 1..Len(results)
               PROVE  IsIsolated(results[k], items[k], k, vanished', Kept(stored, k),
                                 Listed(indexed, k), setup)
    BY <1>1 DEF IsolatedInv
  <2>1. IsIsolated(results[k], items[k], k, vanished, Kept(stored, k), Listed(indexed, k), setup)
    BY DEF Inv, IsolatedInv
  <2>. QED
    BY <1>1, <2>1 DEF IsIsolated
<1>. QED
  BY <1>3, <1>4, <1>5, <1>6 DEF Inv, StoresInv

\* What ChunksInv says of an item with chunks.
LEMMA HasChunks ==
    ASSUME Inv, pc \in {"return", "embed", "store"}
    PROVE  /\ chunks \in Seq(ChunkRec) /\ chunks # <<>> /\ Sound(Item) /\ MadeOf(Item, setup, chunks)
           /\ Len(chunks) \in Nat /\ Len(chunks) >= 1 /\ DOMAIN chunks = 1..Len(chunks)
           /\ Contents \in Seq(Text) /\ Len(Contents) = Len(chunks)
           /\ \A i \in 1..Len(chunks) : Contents[i] = chunks[i].content /\ chunks[i] \in ChunkRec
<1>1. chunks \in Seq(ChunkRec) /\ chunks # <<>> /\ Sound(Item) /\ MadeOf(Item, setup, chunks)
  BY DEF Inv, ChunksInv
<1>2. Len(chunks) \in Nat /\ Len(chunks) >= 1 /\ DOMAIN chunks = 1..Len(chunks)
  BY <1>1
<1>3. \A i \in 1..Len(chunks) : chunks[i] \in ChunkRec
  BY <1>1
<1>4. \A x \in ChunkRec : x.content \in Text
  BY DEF ChunkRec
<1>5. Contents = [i \in 1..Len(chunks) |-> chunks[i].content]
  BY <1>2 DEF Contents
<1>6. Contents \in Seq(Text) /\ Len(Contents) = Len(chunks)
  BY <1>2, <1>3, <1>4, <1>5
<1>. QED
  BY <1>1, <1>2, <1>3, <1>5, <1>6

\* ingest_many is done with the item.
LEMMA ReturnChunksKeeps ==
    ASSUME Inv, ReturnChunks
    PROVE  Inv'
<1>1. /\ pc = "return" /\ Report("none", chunks) /\ setup' = setup /\ items' = items
      /\ vanished' = vanished /\ stored' = stored /\ indexed' = indexed
  BY DEF ReturnChunks
<1>2. /\ chunks \in Seq(ChunkRec) /\ chunks # <<>> /\ Sound(Item) /\ MadeOf(Item, setup, chunks)
      /\ setup.caller = "ingest_many"
  BY <1>1, HasChunks DEF Inv, CallInv
<1>3. /\ Kept(stored, Current) = {} /\ Listed(indexed, Current) = {}
      /\ StoresInv(stored, indexed, Len(results) + 1)
  BY <1>1, NothingKept
<1> DEFINE x == [error |-> "none", chunks |-> chunks]
<1>4. x.error = "none" /\ x.chunks = chunks
  OBVIOUS
<1>5. IsIsolated(x, Item, Current, vanished, Kept(stored, Current), Listed(indexed, Current), setup)
  <2> HIDE DEF x
  <2>. QED
    BY <1>2, <1>3, <1>4 DEF IsIsolated
<1>6. IsIsolated(x, Item, Current, vanished, Kept(stored', Current), Listed(indexed', Current), setup)
  BY <1>1, <1>5
<1>7. StoresInv(stored', indexed', Len(results) + 1) /\ "none" \in Errors /\ pc # "done"
  BY <1>1, <1>3 DEF Errors
<1>8. \A k \in 1..Len(results) : Kept(stored', k) = Kept(stored, k) /\ Listed(indexed', k) = Listed(indexed, k)
  BY <1>1
<1>. QED
  BY <1>1, <1>2, <1>6, <1>7, <1>8, ReportKeeps

\* A step that sends texts.
LEMMA SendKeeps ==
    ASSUME Inv, pc = "embed", pc' \in {"embed", "store"},
           UNCHANGED <<setup, items, vanished, results, document, chunks, stored, indexed>>,
           VectorsInv', pc' = "store" /\ setup.provider = "openai" => setup.caller = "ingest_documents"
    PROVE  Inv'
<1>1. /\ setup' = setup /\ items' = items /\ vanished' = vanished /\ results' = results
      /\ document' = document /\ chunks' = chunks /\ stored' = stored /\ indexed' = indexed
  OBVIOUS
<1>2. /\ Item' = Item /\ ResultsInv' /\ ChunksInv' /\ StoresInv(stored', indexed', Len(results'))
      /\ IsolatedInv'
  BY <1>1, SameItem
<1>3. CallInv'
  BY <1>1, <1>2 DEF Inv, CallInv
<1>. QED
  BY <1>2, <1>3 DEF Inv, StoresInv

\* The mock makes a vector of each text.
LEMMA EmbedOfflineKeeps ==
    ASSUME Inv, EmbedOffline
    PROVE  Inv'
<1>1. /\ pc = "embed" /\ setup.provider = "mock" /\ vectors' = Contents /\ sent' = Len(chunks)
      /\ pc' = "store" /\ chunks' = chunks /\ setup' = setup
      /\ UNCHANGED <<setup, items, vanished, results, document, chunks, stored, indexed>>
  BY DEF EmbedOffline
<1>2. /\ Len(chunks) \in Nat /\ Contents \in Seq(Text) /\ Len(Contents) = Len(chunks)
      /\ \A i \in 1..Len(chunks) : Contents[i] = chunks[i].content
  BY <1>1, HasChunks
<1>3. VectorsInv'
  BY <1>1, <1>2 DEF VectorsInv
<1>. QED
  BY <1>1, <1>3, SendKeeps

\* On the event loop nothing can be embedded with a hosted service.
LEMMA EmbedOnLoopKeeps ==
    ASSUME Inv, EmbedOnLoop
    PROVE  Inv'
<1>1. "RuntimeError" \in Errors /\ pc # "done" /\ Fail("RuntimeError") /\ setup.provider = "openai"
  BY DEF EmbedOnLoop, Errors
<1>. QED
  BY <1>1, FailKeeps

\* A request fails, and with it the item.
LEMMA EmbedFailsKeeps ==
    ASSUME Inv, EmbedFails
    PROVE  Inv'
<1>1. "EmbeddingError" \in Errors /\ pc # "done" /\ Fail("EmbeddingError") /\ setup.provider = "openai"
  BY DEF EmbedFails, Errors
<1>. QED
  BY <1>1, FailKeeps

\* The answer to the next batch of texts: its vectors follow those there are, and if none has
\* been left out in any batch, all are those of their texts.
LEMMA EmbedBatchKeeps ==
    ASSUME Inv, EmbedBatch
    PROVE  Inv'
<1> DEFINE n == Len(chunks)
           next == Min({sent + BatchSize, n})
           batch == SubSeq(Contents, sent + 1, next)
<1>1. /\ pc = "embed" /\ setup.provider = "openai" /\ setup.caller = "ingest_documents"
      /\ sent < n /\ sent' = next /\ pc' = (IF next = n THEN "store" ELSE "embed")
      /\ UNCHANGED <<setup, items, vanished, results, document, chunks, stored, indexed>>
  BY DEF EmbedBatch
<1>2. PICK data \in Answers(batch) : vectors' = vectors \o Embeddings(data)
  BY DEF EmbedBatch, Embeddings
<1>3. /\ n \in Nat /\ Contents \in Seq(Text) /\ Len(Contents) = n
      /\ \A i \in 1..n : Contents[i] = chunks[i].content
  BY <1>1, HasChunks
<1>4. sent \in Nat /\ vectors \in Seq(Text) /\ Len(vectors) <= sent
      /\ (Len(vectors) = sent => \A i \in 1..sent : vectors[i] = chunks[i].content)
  BY DEF Inv, VectorsInv
<1>5. next \in Nat /\ sent + 1 <= next /\ next <= n
  <2>1. BatchSize \in Nat \ {0}
    BY IngestionAssumption DEF IngestionAssumption
  <2>2. sent + BatchSize \in Int /\ n \in Int /\ sent < sent + BatchSize
    BY <1>3, <1>4, <2>1
  <2> DEFINE m == sent + BatchSize
  <2> HIDE DEF m, n
  <2>3. Min({m, n}) \in {m, n} /\ Min({m, n}) <= m /\ Min({m, n}) <= n
    BY <2>2, MinOfTwo DEF m
  <2>4. next = Min({m, n})
    BY DEF m
  <2> HIDE DEF next
  <2>5. next \in {m, n} /\ next <= n
    BY <2>3, <2>4
  <2>. QED
    BY <1>1, <1>3, <1>4, <2>1, <2>2, <2>5 DEF m, n
<1> HIDE DEF next
<1>6. /\ batch \in Seq(Text) /\ Len(batch) = next - sent
      /\ \A i \in 1..(next - sent) : batch[i] = chunks[sent + i].content
  BY <1>3, <1>4, <1>5
<1> HIDE DEF batch
<1> DEFINE e == Embeddings(data)
<1>7. Own(e, batch)
  BY <1>2, <1>5, <1>6, <1>4, AnswersFacts
<1>8. /\ e \in Seq(Text) /\ Len(e) <= next - sent
      /\ Len(e) = next - sent => \A i \in 1..(next - sent) : e[i] = chunks[sent + i].content
  BY <1>6, <1>7 DEF Own
<1>9. vectors' = vectors \o e
  BY <1>2
<1> HIDE DEF e
<1>10. vectors' \in Seq(Text) /\ Len(vectors') = Len(vectors) + Len(e) /\ Len(vectors) \in Nat /\ Len(e) \in Nat
       /\ (\A i \in 1..Len(vectors) : vectors'[i] = vectors[i])
       /\ (\A i \in 1..Len(e) : vectors'[Len(vectors) + i] = e[i])
  BY <1>4, <1>8, <1>9
<1>11. Len(vectors') <= next
  BY <1>4, <1>5, <1>8, <1>10
<1>12. ASSUME Len(vectors') = next, NEW i \in 1..next
       PROVE  vectors'[i] = chunks[i].content
  <2>1. Len(vectors) = sent /\ Len(e) = next - sent
    <3>1. Len(vectors') = next
      BY <1>12
    <3> DEFINE a == Len(vectors)
               b == Len(e)
               c == Len(vectors')
    <3>2. /\ a \in Nat /\ b \in Nat /\ sent \in Nat /\ next \in Nat /\ a <= sent /\ b <= next - sent
          /\ c = a + b /\ c = next
      BY <1>4, <1>5, <1>8, <1>10, <3>1
    <3> HIDE DEF a, b, c
    <3>3. a = sent /\ b = next - sent
      BY ONLY <3>2
    <3>. QED
      BY <3>3 DEF a, b
  <2>2. CASE i \in 1..sent
    BY <1>4, <1>10, <2>1, <2>2
  <2>3. CASE i \in (sent + 1)..next
    <3>1. i - sent \in 1..(next - sent) /\ sent + (i - sent) = i
      BY <1>4, <1>5, <2>3
    <3>2. vectors'[sent + (i - sent)] = e[i - sent] /\ e[i - sent] = chunks[sent + (i - sent)].content
      BY <1>8, <1>10, <2>1, <3>1
    <3>. QED
      BY <3>1, <3>2
  <2>. QED
    BY <1>4, <1>5, <2>2, <2>3
<1>13. /\ chunks' = chunks /\ setup' = setup /\ pc' \in {"embed", "store"} /\ (pc' = "store" => next = n)
  BY <1>1
<1>14. VectorsInv'
  BY <1>1, <1>3, <1>5, <1>10, <1>11, <1>12, <1>13 DEF VectorsInv
<1>. QED
  BY <1>1, <1>13, <1>14, SendKeeps

\* The chunks of the places of a set come into the vector store.
LEMMA RowsKept ==
    ASSUME Inv, pc = "store", Len(vectors) = Len(chunks), NEW S \in SUBSET (1..Len(chunks)),
           stored' = stored \cup {Row(i) : i \in S}
    PROVE  /\ \A s \in stored' : s.item \in 1..(Len(results) + 1) /\ s.vector = s.chunk.content
           /\ \A k \in 1..Len(results) : Kept(stored', k) = Kept(stored, k)
           /\ Kept(stored', Current) = {chunks[i] : i \in S}
           /\ stored \subseteq stored'
           /\ \A i \in S : \E s \in stored' : s.item = Current /\ s.chunk = chunks[i]
<1>1. Len(chunks) \in Nat /\ DOMAIN chunks = 1..Len(chunks)
  BY HasChunks
<1>2. \A i \in 1..Len(chunks) : vectors[i] = chunks[i].content
  BY DEF Inv, VectorsInv
<1>3. Len(results) \in Nat /\ Current = Len(results) + 1
  BY ItemFacts DEF Inv
<1>4. StoresInv(stored, indexed, Len(results) + 1) /\ \A s \in stored : s.item # Current
  BY <1>3, NothingKept DEF Inv, StoresInv
<1> DEFINE new == {Row(i) : i \in S}
<1>5. \A i \in S : /\ Row(i).item = Current /\ Row(i).chunk = chunks[i]
                   /\ Row(i).vector = chunks[i].content
  BY <1>2 DEF Row
<1>6. \A s \in new : \E i \in S : s = Row(i)
  BY Zenon
<1>7. \A i \in S : Row(i) \in new
  BY Zenon
<1>8. stored' = stored \cup new
  OBVIOUS
<1> HIDE DEF new
<1>9. \A s \in new : /\ s.item = Current /\ s.vector = s.chunk.content
                     /\ \E i \in S : s.chunk = chunks[i]
  BY <1>5, <1>6
<1>10. \A i \in S : \E s \in new : s.item = Current /\ s.chunk = chunks[i]
  BY <1>5, <1>7
<1>11. \A s \in stored' : s.item \in 1..(Len(results) + 1) /\ s.vector = s.chunk.content
  BY <1>3, <1>4, <1>8, <1>9 DEF StoresInv
<1>12. \A k \in 1..Len(results) : Kept(stored', k) = Kept(stored, k)
  <2>1. \A k \in 1..Len(results) : \A s \in new : s.item # k
    BY <1>3, <1>9
  <2>. QED
    BY <1>8, <2>1 DEF Kept
<1>13. Kept(stored', Current) = {chunks[i] : i \in S}
  <2>1. Kept(stored', Current) = {s.chunk : s \in new}
    BY <1>4, <1>8, <1>9 DEF Kept
  <2>. QED
    BY <1>9, <1>10, <2>1
<1>. QED
  BY <1>8, <1>10, <1>11, <1>12, <1>13

\* The stores take the chunks with their vectors.
LEMMA StoreKeeps ==
    ASSUME Inv, Store
    PROVE  Inv'
<1> DEFINE also == Entries
<1>1. /\ pc = "store" /\ Len(vectors) = Len(chunks) /\ stored' = stored \cup {Row(i) : i \in DOMAIN chunks}
      /\ indexed' = indexed \cup also /\ Report("none", chunks)
      /\ setup' = setup /\ items' = items /\ vanished' = vanished
  BY DEF Store
<1>2. /\ chunks \in Seq(ChunkRec) /\ chunks # <<>> /\ Sound(Item) /\ MadeOf(Item, setup, chunks)
      /\ Len(chunks) \in Nat /\ DOMAIN chunks = 1..Len(chunks) /\ setup.caller # "ingest_many"
      /\ (setup.provider = "openai" => setup.caller = "ingest_documents")
  BY <1>1, HasChunks DEF Inv, CallInv
<1>3. Len(results) \in Nat /\ Current = Len(results) + 1
  BY <1>1, ItemFacts DEF Inv
<1>4. ToSet(chunks) = {chunks[i] : i \in DOMAIN chunks}
  BY Zenon DEF ToSet
<1>5. /\ \A s \in stored' : s.item \in 1..(Len(results) + 1) /\ s.vector = s.chunk.content
      /\ \A k \in 1..Len(results) : Kept(stored', k) = Kept(stored, k)
      /\ Kept(stored', Current) = ToSet(chunks)
      /\ stored \subseteq stored'
      /\ \A i \in DOMAIN chunks : \E s \in stored' : s.item = Current /\ s.chunk = chunks[i]
  <2> DEFINE S == DOMAIN chunks
  <2>1. S \in SUBSET (1..Len(chunks)) /\ stored' = stored \cup {Row(i) : i \in S}
    BY <1>1, <1>2
  <2>2. ToSet(chunks) = {chunks[i] : i \in S}
    BY <1>4
  <2> HIDE DEF S
  <2>3. /\ \A s \in stored' : s.item \in 1..(Len(results) + 1) /\ s.vector = s.chunk.content
        /\ \A k \in 1..Len(results) : Kept(stored', k) = Kept(stored, k)
        /\ Kept(stored', Current) = {chunks[i] : i \in S}
        /\ stored \subseteq stored'
        /\ \A i \in S : \E s \in stored' : s.item = Current /\ s.chunk = chunks[i]
    BY <1>1, <2>1, RowsKept
  <2>. QED
    BY <2>2, <2>3 DEF S
<1>6. \A e \in also : \E i \in DOMAIN chunks : e = [item |-> Current, chunk |-> chunks[i]]
  BY Zenon DEF Entries
<1>7. \A i \in DOMAIN chunks : [item |-> Current, chunk |-> chunks[i]] \in also
  BY Zenon DEF Entries
<1> HIDE DEF also
<1>8. \A e \in also : e.item = Current /\ \E i \in DOMAIN chunks : e.chunk = chunks[i]
  BY <1>6
<1>9. \A i \in DOMAIN chunks : \E e \in also : e.item = Current /\ e.chunk = chunks[i]
  <2> TAKE i \in DOMAIN chunks
  <2> DEFINE e == [item |-> Current, chunk |-> chunks[i]]
  <2>1. e \in also /\ e.item = Current /\ e.chunk = chunks[i]
    BY <1>7
  <2> HIDE DEF e
  <2>. QED
    BY <2>1
<1>10. Listed(indexed, Current) = {} /\ StoresInv(stored, indexed, Len(results) + 1)
       /\ \A e \in indexed : e.item # Current
  BY <1>1, <1>3, NothingKept DEF Inv, StoresInv
<1>11. StoresInv(stored', indexed', Len(results) + 1)
  <2>1. ASSUME NEW e \in indexed
        PROVE  e.item \in 1..(Len(results) + 1) /\ e \in {[item |-> s.item, chunk |-> s.chunk] : s \in stored'}
    BY <1>5, <1>10 DEF StoresInv
  <2>2. ASSUME NEW e \in also
        PROVE  e.item \in 1..(Len(results) + 1) /\ e \in {[item |-> s.item, chunk |-> s.chunk] : s \in stored'}
    <3>1. PICK i \in DOMAIN chunks : e = [item |-> Current, chunk |-> chunks[i]]
      BY <1>6
    <3>2. PICK s \in stored' : s.item = Current /\ s.chunk = chunks[i]
      BY <1>5
    <3>3. e = [item |-> s.item, chunk |-> s.chunk]
      BY <3>1, <3>2
    <3>4. e.item = Current
      BY <3>1
    <3>. QED
      BY <1>3, <3>3, <3>4
  <2>3. \A e \in indexed' : /\ e.item \in 1..(Len(results) + 1)
                            /\ e \in {[item |-> s.item, chunk |-> s.chunk] : s \in stored'}
    BY <1>1, <2>1, <2>2
  <2>. QED
    BY <1>5, <2>3 DEF StoresInv
<1>12. \A k \in 1..Len(results) : Kept(stored', k) = Kept(stored, k) /\ Listed(indexed', k) = Listed(indexed, k)
  <2>1. \A k \in 1..Len(results) : \A e \in also : e.item # k
    BY <1>3, <1>8
  <2>2. \A k \in 1..Len(results) : Listed(indexed', k) = Listed(indexed, k)
    BY <1>1, <2>1 DEF Listed
  <2>. QED
    BY <1>5, <2>2
<1>13. Listed(indexed', Current) = ToSet(chunks)
  <2>1. Listed(indexed', Current) = {e.chunk : e \in also}
    BY <1>1, <1>8, <1>10 DEF Listed
  <2>. QED
    BY <1>4, <1>8, <1>9, <2>1
<1> DEFINE x == [error |-> "none", chunks |-> chunks]
<1>14. x.error = "none" /\ x.chunks = chunks
  OBVIOUS
<1>15. IsIsolated(x, Item, Current, vanished, Kept(stored', Current), Listed(indexed', Current), setup)
  <2> HIDE DEF x
  <2>. QED
    BY <1>2, <1>5, <1>13, <1>14 DEF IsIsolated
<1>16. "none" \in Errors /\ pc # "done"
  BY <1>1 DEF Errors
<1>. QED
  BY <1>1, <1>2, <1>11, <1>12, <1>15, <1>16, ReportKeeps

\* The vector store raises, with the first chunks in it: of a database's, all or none.
LEMMA StoreFailsKeeps ==
    ASSUME Inv, NEW n \in 0..Len(chunks), StoreFails(n)
    PROVE  Inv'
<1> DEFINE error == IF setup.store = "memory" THEN "ValueError" ELSE "PostgresError"
<1>1. /\ pc = "store" /\ Len(vectors) = Len(chunks)
      /\ IF setup.store = "memory" THEN setup.provider = "openai" /\ n < Len(chunks)
                                   ELSE n \in {0, Len(chunks)}
      /\ stored' = stored \cup {Row(i) : i \in 1..n} /\ indexed' = indexed
      /\ Report(error, <<>>)
      /\ setup' = setup /\ items' = items /\ vanished' = vanished
  BY DEF StoreFails, StoreFailsWith
<1>2. error \in Errors /\ error # "none" /\ pc # "done"
  BY <1>1 DEF Errors
<1> HIDE DEF error
<1>3. /\ Sound(Item) /\ MadeOf(Item, setup, chunks) /\ Len(chunks) \in Nat
  BY <1>1, HasChunks
<1>4. setup.store \in {"memory", "pgvector"}
  BY IngestionAssumption DEF IngestionAssumption, Inv, CallInv
<1>5. /\ Listed(indexed, Current) = {} /\ StoresInv(stored, indexed, Len(results) + 1)
  BY <1>1, NothingKept
<1>6. /\ \A s \in stored' : s.item \in 1..(Len(results) + 1) /\ s.vector = s.chunk.content
      /\ \A k \in 1..Len(results) : Kept(stored', k) = Kept(stored, k)
      /\ Kept(stored', Current) = {chunks[i] : i \in 1..n}
      /\ stored \subseteq stored'
  <2> DEFINE S == 1..n
  <2>1. S \in SUBSET (1..Len(chunks)) /\ stored' = stored \cup {Row(i) : i \in S}
    BY <1>1, <1>3
  <2> HIDE DEF S
  <2>2. /\ \A s \in stored' : s.item \in 1..(Len(results) + 1) /\ s.vector = s.chunk.content
        /\ \A k \in 1..Len(results) : Kept(stored', k) = Kept(stored, k)
        /\ Kept(stored', Current) = {chunks[i] : i \in S}
        /\ stored \subseteq stored'
    BY <1>1, <2>1, RowsKept
  <2>. QED
    BY <2>2 DEF S
<1>7. StoresInv(stored', indexed', Len(results) + 1)
  <2>1. \A e \in indexed' : /\ e.item \in 1..(Len(results) + 1)
                            /\ e \in {[item |-> s.item, chunk |-> s.chunk] : s \in stored'}
    BY <1>1, <1>5, <1>6 DEF StoresInv
  <2>. QED
    BY <1>6, <2>1 DEF StoresInv
<1>8. Kept(stored', Current) # {} => IsLeft(Item, Kept(stored', Current), setup)
  <2> SUFFICES ASSUME Kept(stored', Current) # {}
               PROVE  IsLeft(Item, Kept(stored', Current), setup)
    OBVIOUS
  <2> DEFINE own == Chunks(setup.strategy, Normalize(ContentOf(Item).content), setup.size, setup.overlap)
  <2>1. own = chunks
    BY <1>3 DEF MadeOf
  <2>2. n \in 1..Len(chunks)
    BY <1>3, <1>6
  <2>3. setup.store = "pgvector" => n = Len(chunks)
    BY <1>1, <2>2
  <2>4. setup.store = "pgvector" \/ setup.provider = "openai"
    BY <1>1, <1>4
  <2> HIDE DEF own
  <2>5. \E m \in 1..Len(own) : /\ Kept(stored', Current) = {own[i] : i \in 1..m}
                               /\ setup.store = "pgvector" => m = Len(own)
    <3>1. /\ Kept(stored', Current) = {own[i] : i \in 1..n} /\ n \in 1..Len(own)
          /\ setup.store = "pgvector" => n = Len(own)
      BY <1>6, <2>1, <2>2, <2>3
    <3>. QED
      BY <3>1
  <2>. QED
    BY <1>3, <2>4, <2>5, Zenon DEF IsLeft, own
<1> DEFINE x == [error |-> error, chunks |-> <<>>]
<1>9. x.error # "none" /\ x.chunks = <<>>
  BY <1>2
<1>10. IsIsolated(x, Item, Current, vanished, Kept(stored', Current), Listed(indexed', Current), setup)
  <2>1. Listed(indexed', Current) = {}
    BY <1>1, <1>5
  <2>2. setup.provider = "openai" \/ setup.store = "pgvector"
    BY <1>1, <1>4
  <2> HIDE DEF x
  <2>. QED
    BY <1>8, <1>9, <2>1, <2>2, NoChunks DEF IsIsolated
<1>11. \A k \in 1..Len(results) : Kept(stored', k) = Kept(stored, k) /\ Listed(indexed', k) = Listed(indexed, k)
  BY <1>1, <1>6
<1>12. <<>> \in Seq(ChunkRec)
  BY NoChunks
<1>. QED
  BY <1>1, <1>2, <1>7, <1>10, <1>11, <1>12, ReportKeeps

\* The store refuses where vectors have been left out.
LEMMA StoreRefusesKeeps ==
    ASSUME Inv, StoreRefuses
    PROVE  Inv'
<1>1. "ValueError" \in Errors /\ pc # "done" /\ Fail("ValueError")
  BY DEF StoreRefuses, Errors
<1>2. setup.provider = "openai"
  BY IngestionAssumption DEF IngestionAssumption, StoreRefuses, Inv, CallInv, VectorsInv
<1>. QED
  BY <1>1, <1>2, FailKeeps

-----------------------------------------------------------------------------
(* The theorems.                                                           *)

\* The invariant holds at the start, where nothing has been done.
LEMMA InitInv ==
    Init => Inv
<1> SUFFICES ASSUME Init
             PROVE  Inv
  OBVIOUS
<1>1. /\ setup \in Setups /\ items \in Batches /\ vanished = {} /\ results = <<>>
      /\ chunks = <<>> /\ sent = 0 /\ vectors = <<>> /\ stored = {} /\ indexed = {}
      /\ pc = (IF items = <<>> THEN "done" ELSE "take")
  BY DEF Init
<1> DEFINE S == {items[i] : i \in DOMAIN items}
<1>2. items \in Seq(S)
  BY <1>1, IngestionAssumption DEF IngestionAssumption, IsBatch
<1> HIDE DEF S
<1>3. Len(items) \in Nat /\ (items = <<>> <=> Len(items) = 0)
  BY <1>2
<1>4. results \in Seq(Result) /\ Len(results) = 0
  BY <1>1
<1>5. CallInv
  BY <1>1 DEF CallInv
<1>6. ResultsInv
  BY <1>1, <1>3, <1>4 DEF ResultsInv
<1>7. ChunksInv
  BY <1>1, NoChunks DEF ChunksInv
<1>8. VectorsInv
  BY <1>1, NoChunks DEF VectorsInv
<1>9. StoresInv(stored, indexed, Len(results))
  BY <1>1 DEF StoresInv
<1>10. IsolatedInv
  BY <1>4 DEF IsolatedInv
<1>. QED
  BY <1>5, <1>6, <1>7, <1>8, <1>9, <1>10 DEF Inv

\* Every step keeps it.
LEMMA NextInv ==
    Inv /\ [Next]_vars => Inv'
<1> SUFFICES ASSUME Inv, [Next]_vars
             PROVE  Inv'
  OBVIOUS
<1>1. CASE LoadContent
  BY <1>1, LoadContentKeeps
<1>2. CASE UnknownKind
  BY <1>2, UnknownKindKeeps
<1>3. CASE RefuseUpload
  BY <1>3, RefuseUploadKeeps
<1>4. CASE FindFile
  BY <1>4, FindFileKeeps
<1>5. CASE ReadFile
  BY <1>5, ReadFileKeeps
<1>6. CASE ReturnChunks
  BY <1>6, ReturnChunksKeeps
<1>7. CASE EmbedOffline
  BY <1>7, EmbedOfflineKeeps
<1>8. CASE EmbedOnLoop
  BY <1>8, EmbedOnLoopKeeps
<1>9. CASE EmbedBatch
  BY <1>9, EmbedBatchKeeps
<1>10. CASE EmbedFails
  BY <1>10, EmbedFailsKeeps
<1>11. CASE Store
  BY <1>11, StoreKeeps
<1>12. CASE StoreRefuses
  BY <1>12, StoreRefusesKeeps
<1>13. CASE \E i \in DOMAIN items : Vanish(i)
  BY <1>13, VanishKeeps
<1>14. CASE \E n \in 0..Len(chunks) : StoreFails(n)
  BY <1>14, StoreFailsKeeps
<1>15. CASE UNCHANGED vars
  <2>1. IsolatedInv'
    BY <1>15 DEF vars, Inv, IsolatedInv
  <2>2. CallInv' /\ ResultsInv' /\ ChunksInv' /\ VectorsInv'
    BY <1>15, ZenonT(30) DEF vars, Inv, CallInv, ResultsInv, ChunksInv, VectorsInv, Item, Current,
                             MadeOf, Sound, ContentOf, TypeOf, InPlace, AsPromised
  <2>3. StoresInv(stored, indexed, Len(results))'
    BY <1>15 DEF vars, Inv, StoresInv
  <2>. QED
    BY <2>1, <2>2, <2>3 DEF Inv
<1>. QED
  BY <1>1, <1>2, <1>3, <1>4, <1>5, <1>6, <1>7, <1>8, <1>9, <1>10, <1>11, <1>12, <1>13, <1>14, <1>15 DEF Next

\* The invariant of ingestion (service.py, pipeline.py:106-157).
THEOREM Invariance == Spec => []Inv
<1>. QED
  BY InitInv, NextInv, PTL DEF Spec

\* Every variable has its type, whatever is ingested, and no text is sent twice (service.py,
\* provider.py).
THEOREM TypeCorrect == Spec => []TypeOK
<1>1. ASSUME Inv
      PROVE  TypeOK
  <2>1. /\ setup \in Setups /\ items \in Batches /\ vanished \subseteq DOMAIN items
        /\ pc \in {"take", "read", "return", "embed", "store", "done"}
    BY <1>1 DEF Inv, CallInv
  <2>2. /\ Len(results) <= Len(items) /\ (pc = "done" <=> Len(results) = Len(items))
        /\ DOMAIN results = 1..Len(results)
    BY <1>1 DEF Inv, ResultsInv
  <2>3. Len(chunks) \in Nat
    BY <1>1 DEF Inv, ChunksInv
  <2>4. sent \in 0..Len(chunks) /\ Len(vectors) <= Len(chunks)
    <3>1. sent \in Nat /\ sent <= Len(chunks) /\ Len(vectors) <= sent /\ Len(vectors) \in Nat
      BY <1>1 DEF Inv, VectorsInv
    <3>. QED
      BY <2>3, <3>1
  <2>5. /\ \A s \in stored : s.item \in DOMAIN results
        /\ indexed \subseteq {[item |-> s.item, chunk |-> s.chunk] : s \in stored}
    BY <1>1, <2>2 DEF Inv, StoresInv
  <2>. QED
    BY <2>1, <2>2, <2>4, <2>5 DEF TypeOK
<1>. QED
  BY <1>1, Invariance, PTL

\* For every text, strategy, size and overlap: the chunks are numbered, not blank, in their
\* places, and as long as they may be (chunker.py:61-218).
THEOREM ChunksAlwaysFit == Spec => []ChunksFit
<1>1. ASSUME Inv
      PROVE  ChunksFit
  <2> SUFFICES ASSUME NEW i \in DOMAIN chunks
               PROVE  LET c == chunks[i]
                          n == Len(c.content)
                      IN  /\ c.sequence = i - 1 /\ ~IsBlank(c.content)
                          /\ 0 <= c.start /\ c.start <= c.end /\ c.end <= Len(document)
                          /\ i > 1 => chunks[i - 1].end <= c.end
                          /\ CASE setup.strategy = "fixed" ->
                                      n <= setup.size /\ c.content = Slice(document, c.start, c.end)
                               [] setup.strategy = "sentence" ->
                                      n <= setup.size \/ Len(SplitSentences(c.content)) = 1
                               [] setup.strategy = "recursive" ->
                                      n <= setup.size + (IF i > 1 /\ setup.overlap > 0 THEN setup.overlap + 1 ELSE 0)
    BY DEF ChunksFit
  <2>1. chunks \in Seq(ChunkRec) /\ chunks # <<>> /\ i \in 1..Len(chunks)
    BY <1>1 DEF Inv, ChunksInv
  <2>2. InPlace(chunks, document) /\ AsPromised(setup, chunks, document)
    BY <1>1, <2>1 DEF Inv, ChunksInv
  <2> DEFINE c == chunks[i]
             n == Len(c.content)
  <2>3. chunks[i] \in ChunkRec
    BY <2>1
  <2>4. c.start \in Nat
    BY <2>3 DEF ChunkRec
  <2>5. /\ c.sequence = i - 1 /\ ~IsBlank(c.content)
        /\ c.start <= c.end /\ c.end <= Len(document)
        /\ i > 1 => chunks[i - 1].end <= c.end
    BY <2>1, <2>2 DEF InPlace
  <2>6. (CASE setup.strategy = "fixed" -> n <= setup.size /\ c.content = Slice(document, c.start, c.end)
           [] setup.strategy = "sentence" -> n <= setup.size \/ Len(SplitSentences(c.content)) = 1
           [] setup.strategy = "recursive" ->
                  n <= setup.size + (IF i > 1 /\ setup.overlap > 0 THEN setup.overlap + 1 ELSE 0))
    BY <2>1, <2>2, Zenon DEF AsPromised
  <2>7. 0 <= c.start
    BY <2>4
  <2>. QED
    BY <2>5, <2>6, <2>7
<1>. QED
  BY <1>1, Invariance, PTL

\* Whatever the service answers to each batch, in whatever order, what is stored has the
\* vectors of its own texts (provider.py:148-183).
THEOREM VectorsAlwaysOwn == Spec => []VectorsAreOwn
<1>1. ASSUME Inv
      PROVE  VectorsAreOwn
  BY <1>1 DEF Inv, StoresInv, VectorsAreOwn
<1>. QED
  BY <1>1, Invariance, PTL

\* Whatever the batch, the result of an item depends on no other item; if it succeeds both
\* stores have all of its chunks, and if it fails the lexical index has none and the vector
\* store at most its first ones, those before the one that store.add() raised at, or in a
\* database all, behind a commit that was not heard of (service.py:96-116,
\* pipeline.py:106-157, vector_store.py:226-230).
THEOREM ItemsAlwaysIsolated == Spec => []ItemsAreIsolated
<1>1. ASSUME Inv
      PROVE  ItemsAreIsolated
  <2>1. DOMAIN results = 1..Len(results) /\ (pc = "done" => Len(results) = Len(items))
    BY <1>1 DEF Inv, ResultsInv
  <2>2. \A k \in 1..Len(results) :
           IsIsolated(results[k], items[k], k, vanished, Kept(stored, k), Listed(indexed, k), setup)
    BY <1>1 DEF Inv, IsolatedInv
  <2>3. ASSUME NEW k \in DOMAIN results
        PROVE  LET ok == results[k].error = "none"
                   own == Chunks(setup.strategy, Normalize(ContentOf(items[k]).content),
                                 setup.size, setup.overlap)
                   kept == {s.chunk : s \in {x \in stored : x.item = k}}
                   listed == {e.chunk : e \in {x \in indexed : x.item = k}}
               IN  /\ ok => Sound(items[k]) /\ results[k].chunks # <<>> /\ results[k].chunks = own
                   /\ Sound(items[k]) /\ ~ok =>
                         k \in vanished \/ setup.provider = "openai" \/ setup.store = "pgvector"
                   /\ listed = IF setup.caller = "ingest_many" THEN {} ELSE ToSet(results[k].chunks)
                   /\ ok => kept = listed
                   /\ ~ok => /\ listed = {}
                             /\ kept # {} => /\ Sound(items[k])
                                             /\ setup.store = "pgvector" \/ setup.provider = "openai"
                                             /\ \E n \in 1..Len(own) :
                                                   /\ kept = {own[i] : i \in 1..n}
                                                   /\ setup.store = "pgvector" => n = Len(own)
                   /\ setup.caller = "ingest_upload" /\ setup.provider = "openai" => ~ok
    <3>1. IsIsolated(results[k], items[k], k, vanished, Kept(stored, k), Listed(indexed, k), setup)
      BY <2>1, <2>2
    <3>. QED
      BY <3>1, Zenon DEF IsIsolated, IsLeft, MadeOf, Kept, Listed
  <2>. QED
    BY <2>1, <2>3, Zenon DEF ItemsAreIsolated
<1>. QED
  BY <1>1, Invariance, PTL

\* For every text, its type, and every strategy, size and overlap: the document has exactly
\* the letters of the text, and the chunks cover it without a gap, to its end (loader.py:39-50,
\* chunker.py:61-218).
THEOREM ChunksAlwaysTheText == Spec => []ChunksAreTheText
<1>1. ASSUME Inv
      PROVE  ChunksAreTheText
  <2> SUFFICES ASSUME chunks # <<>>
               PROVE  /\ Item.raw.form = "text" =>
                            Letters(document) =
                               Without(Item.raw.text,
                                       Blanks \cup Stops
                                         \cup (IF TypeOf(Item) \in HtmlTypes THEN {Tag} ELSE {}))
                      /\ Covers(Letters(document), [i \in DOMAIN chunks |-> Letters(chunks[i].content)])
    BY DEF ChunksAreTheText
  <2>1. /\ pc # "done" /\ chunks \in Seq(ChunkRec) /\ document \in Text /\ Sound(Item)
        /\ document = Normalize(ContentOf(Item).content) /\ MadeOf(Item, setup, chunks)
    BY <1>1 DEF Inv, ChunksInv
  <2>2. setup \in Setups
    BY <1>1 DEF Inv, CallInv
  <2> DEFINE raw == Item.raw
             type == TypeOf(Item)
             set == Blanks \cup Stops
  <2>3. IsRaw(raw)
    BY <1>1, <2>1, ItemFacts DEF Inv
  <2>4. Parse(raw, type) = ContentOf(Item)
    BY DEF ContentOf
  <2>5. ContentOf(Item).error = "none"
    BY <2>1 DEF Sound
  <2>6. raw.form = "text" =>
           Letters(document) = Without(raw.text, Blanks \cup Stops
                                                   \cup (IF type \in HtmlTypes THEN {Tag} ELSE {}))
    <3> HIDE DEF raw, type
    <3>. QED
      BY <2>1, <2>3, <2>4, <2>5, ChunkerAssumption, LoaderAssumption, LettersStay
  <2>7. chunks = Chunks(setup.strategy, document, setup.size, setup.overlap)
    BY <2>1 DEF MadeOf
  <2>8. Blanks \subseteq set /\ "." \in set
    BY ChunkerAssumption DEF ChunkerAssumption
  <2>9. Covers(Without(document, set), Lefts(chunks, set))
    <3> HIDE DEF set
    <3>. QED
      BY <2>1, <2>2, <2>7, <2>8, ChunkerAssumption, IngestionAssumption, ChunksCover
  <2>10. DOMAIN chunks = 1..Len(chunks)
    BY <2>1
  <2>11. [i \in DOMAIN chunks |-> Letters(chunks[i].content)] = Lefts(chunks, set)
    BY <2>10 DEF Lefts, Letters
  <2>. QED
    BY <2>6, <2>9, <2>11 DEF Letters
<1>. QED
  BY <1>1, Invariance, PTL
=============================================================================
