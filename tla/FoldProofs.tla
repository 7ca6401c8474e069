-------------------------------- MODULE FoldProofs --------------------------------
(* Induction over finite sets and over the prefixes of a sequence, and what it       *)
(* gives of folds: that the function a fold is defined by exists, and so what it     *)
(* computes element by element.  The induction is on a set instead of a predicate:   *)
(* the set of the indices, or of the subsets, of which something holds.              *)
(* Sums over sets are such folds: they are taken apart, compared and renamed here,   *)
(* and a cardinality is a sum of ones.                                               *)
EXTENDS Selection, Integers, FiniteSetTheorems, WellFoundedInduction, NaturalsInduction, TLAPS

-----------------------------------------------------------------------------------
(* Induction. *)

\* What holds of every subset of which it holds without any one element holds of all.
LEMMA SubsetInduction ==
  ASSUME NEW S, IsFiniteSet(S), NEW T,
         \A s \in SUBSET S : (\A x \in s : s \ {x} \in T) => s \in T
  PROVE  SUBSET S \subseteq T
<1> DEFINE R == StrictSubsetOrdering(S)
           Bad == (SUBSET S) \ T
<1> SUFFICES ASSUME Bad # {} PROVE FALSE
  OBVIOUS
<1>1. IsWellFoundedOn(R, SUBSET S)
  <2>1. IsWellFoundedOn(R, FiniteSubsetsOf(S))
    BY FS_StrictSubsetOrderingWellFounded
  <2>2. FiniteSubsetsOf(S) = SUBSET S
    BY FS_FiniteSubsetsOfFinite
  <2> QED BY <2>1, <2>2
<1>2. PICK s \in Bad : \A t \in Bad : <<t, s>> \notin R
  <2> Bad \subseteq SUBSET S
    OBVIOUS
  <2> HIDE DEF R, Bad
  <2> QED BY <1>1, WFMin
<1>3. ASSUME NEW x \in s PROVE s \ {x} \in T
  <2>1. <<s \ {x}, s>> \in R
    BY <1>2, <1>3 DEF StrictSubsetOrdering
  <2>2. s \ {x} \notin Bad /\ s \ {x} \in SUBSET S
    BY <1>2, <2>1
  <2> QED BY <2>2
<1>4. s \in SUBSET S /\ s \notin T
  BY <1>2
<1> QED BY <1>3, <1>4

\* Numbers have a least.
LEMMA LeastIn ==
  ASSUME NEW S \in SUBSET Nat, S # {}
  PROVE  \E m \in S : \A s \in S : m <= s
<1> DEFINE R == {p \in Nat \X Nat : p[1] < p[2]}
<1>1. IsWellFoundedOn(R, Nat)
  BY NatLessThanWellFounded DEF OpToRel
<1>2. PICK m \in S : \A s \in S : <<s, m>> \notin R
  <2> HIDE DEF R
  <2> QED BY <1>1, WFMin
<1>3. ASSUME NEW s \in S PROVE m <= s
  <2>1. s \in Nat /\ m \in Nat
    OBVIOUS
  <2>2. ~ (s < m)
    BY <1>2, <2>1
  <2> QED BY <2>1, <2>2
<1> QED BY <1>3

\* Numbers with a bound have a greatest.
LEMMA Greatest ==
  ASSUME NEW S \in SUBSET Nat, NEW n \in Nat, \A s \in S : s <= n, S # {}
  PROVE  \E m \in S : \A s \in S : s <= m
<1> DEFINE T == {k \in Nat : \E s \in S : k + s = n}
           R == {p \in Nat \X Nat : p[1] < p[2]}
<1>1. ASSUME NEW s \in S PROVE n - s \in T
  <2>1. n - s \in Nat /\ (n - s) + s = n
    OBVIOUS
  <2> QED BY <2>1
<1>2. T \subseteq Nat /\ T # {}
  BY <1>1
<1>3. IsWellFoundedOn(R, Nat)
  BY NatLessThanWellFounded DEF OpToRel
<1>4. PICK t \in T : \A y \in T : <<y, t>> \notin R
  <2> HIDE DEF T, R
  <2> QED BY <1>2, <1>3, WFMin
<1>5. PICK m \in S : t + m = n
  OBVIOUS
<1>6. ASSUME NEW s \in S PROVE s <= m
  <2>1. n - s \in T /\ ~(n - s < t)
    BY <1>1, <1>4
  <2> QED BY <1>5, <2>1
<1> QED BY <1>6

\* What holds of nothing, and of a prefix whenever of the one before, holds of all.
LEMMA PrefixInduction ==
  ASSUME NEW n \in Nat, NEW T, 0 \in T, \A i \in 1..n : i - 1 \in T => i \in T
  PROVE  0..n \subseteq T
<1> DEFINE R == {p \in Nat \X Nat : p[1] < p[2]}
           Bad == 0..n \ T
<1> SUFFICES ASSUME Bad # {} PROVE FALSE
  OBVIOUS
<1>1. IsWellFoundedOn(R, Nat)
  BY NatLessThanWellFounded DEF OpToRel
<1>2. PICK i \in Bad : \A j \in Bad : <<j, i>> \notin R
  <2> Bad \subseteq Nat
    OBVIOUS
  <2> HIDE DEF R, Bad
  <2> QED BY <1>1, WFMin
<1>3. i \in 1..n /\ i - 1 \in 0..n /\ <<i - 1, i>> \in R
  BY <1>2
<1>4. i - 1 \in T
  BY <1>2, <1>3
<1> QED BY <1>2, <1>3, <1>4

-----------------------------------------------------------------------------------
(* Sequences. *)

\* One more element comes last and moves no other.
LEMMA AppendedLast ==
  ASSUME NEW X, NEW s \in Seq(X), NEW e \in X
  PROVE  /\ Append(s, e) \in Seq(X) /\ Len(s) \in Nat /\ Len(Append(s, e)) = Len(s) + 1
         /\ DOMAIN s = 1..Len(s) /\ DOMAIN Append(s, e) = 1..(Len(s) + 1)
         /\ Append(s, e)[Len(s) + 1] = e
         /\ \A i \in DOMAIN s : s[i] \in X /\ i \in DOMAIN Append(s, e) /\ Append(s, e)[i] = s[i]
OBVIOUS

-----------------------------------------------------------------------------------
(* Folds. *)

\* The part of a fold over S that is defined on the subsets with at most n elements.
Layer(S, n) == {s \in SUBSET S : Cardinality(s) <= n}

\* A function of the subsets of S that steps from a subset without the picked element
\* to the subset, and starts from the empty set.
IsFold(g, S, base, pick, step) ==
  \A s \in SUBSET S : g[s] = IF s = {} THEN base ELSE step[pick[s]][g[s \ {pick[s]}]]

\* What such a function needs: values, and elements picked from their own set.
IsFoldable(S, V, base, pick, step) ==
  /\ IsFiniteSet(S) /\ base \in V /\ step \in [S -> [V -> V]]
  /\ \A s \in SUBSET S : s # {} => pick[s] \in s

\* There is such a function of the subsets of a finite set.
LEMMA FoldExists ==
  ASSUME NEW S, NEW V, NEW base, NEW pick, NEW step, IsFoldable(S, V, base, pick, step)
  PROVE  \E g \in [SUBSET S -> V] : IsFold(g, S, base, pick, step)
<1>0. /\ IsFiniteSet(S) /\ base \in V /\ step \in [S -> [V -> V]]
      /\ \A s \in SUBSET S : s # {} => pick[s] \in s
  BY DEF IsFoldable
<1> DEFINE Partial(n, g) ==
             \A s \in Layer(S, n) :
               g[s] = IF s = {} THEN base ELSE step[pick[s]][g[s \ {pick[s]}]]
           T == {n \in Nat : \E g \in [Layer(S, n) -> V] : Partial(n, g)}
           N == Cardinality(S)
<1>1. N \in Nat /\ Layer(S, N) = SUBSET S
  <2>1. ASSUME NEW s \in SUBSET S PROVE Cardinality(s) <= N
    BY <1>0, FS_Subset
  <2> QED BY <1>0, <2>1, FS_CardinalityType DEF Layer
<1>2. ASSUME NEW s \in SUBSET S PROVE IsFiniteSet(s) /\ Cardinality(s) \in Nat
  BY <1>0, FS_Subset, FS_CardinalityType
<1>3. 0 \in T
  <2> DEFINE g == [s \in Layer(S, 0) |-> base]
  <2>1. ASSUME NEW s \in Layer(S, 0) PROVE s = {}
    BY <1>2, FS_EmptySet DEF Layer
  <2>2. g \in [Layer(S, 0) -> V] /\ Partial(0, g)
    BY <1>0, <2>1
  <2> QED BY <2>2
<1>4. ASSUME NEW n \in 1..N, n - 1 \in T PROVE n \in T
  <2>1. PICK g \in [Layer(S, n - 1) -> V] : Partial(n - 1, g)
    BY <1>4
  <2> DEFINE h == [s \in Layer(S, n) |->
                     IF s = {} THEN base ELSE step[pick[s]][g[s \ {pick[s]}]]]
  <2>2. ASSUME NEW s \in Layer(S, n), s # {}
        PROVE  pick[s] \in S /\ s \ {pick[s]} \in Layer(S, n - 1) /\ s \ {pick[s]} \in Layer(S, n)
    <3>1. s \in SUBSET S /\ Cardinality(s) <= n /\ pick[s] \in s
      BY <1>0, <2>2 DEF Layer
    <3>2. Cardinality(s \ {pick[s]}) = Cardinality(s) - 1
      BY <1>2, <3>1, FS_RemoveElement
    <3> QED BY <1>1, <1>2, <1>4, <3>1, <3>2 DEF Layer
  <2>3. h \in [Layer(S, n) -> V]
    BY <1>0, <2>1, <2>2
  <2>4. ASSUME NEW s \in Layer(S, n - 1) PROVE s \in Layer(S, n) /\ h[s] = g[s]
    <3>1. s \in Layer(S, n)
      BY <1>2, <1>4, <1>1 DEF Layer
    <3> QED BY <2>1, <3>1
  <2>5. Partial(n, h)
    <3> SUFFICES ASSUME NEW s \in Layer(S, n), s # {}
                 PROVE  h[s] = step[pick[s]][h[s \ {pick[s]}]]
      OBVIOUS
    <3> QED BY <2>2, <2>4
  <2> HIDE DEF h, Partial
  <2> QED BY <1>4, <2>3, <2>5
<1>5. N \in T
  <2> HIDE DEF T, N
  <2>1. 0..N \subseteq T
    BY <1>1, <1>3, <1>4, PrefixInduction
  <2> QED BY <1>1, <2>1
<1>6. PICK g \in [SUBSET S -> V] : Partial(N, g)
  BY <1>1, <1>5
<1> QED BY <1>1, <1>6 DEF IsFold

\* Some indices have a greatest.
LEMMA MaxIsIn ==
  ASSUME NEW n \in Nat, NEW S \in SUBSET (1..n), S # {}
  PROVE  Max(S) \in S
<1>1. S \in SUBSET Nat /\ \A x \in S : x <= n
  OBVIOUS
<1>2. PICK m \in S : \A x \in S : x <= m
  BY <1>1, Greatest
<1>3. \A x \in S : m >= x
  BY <1>1, <1>2
<1> QED BY <1>3 DEF Max

\* The same, and the greatest index of a prefix.
LEMMA MaxOfIndices ==
  ASSUME NEW n \in Nat
  PROVE  /\ \A s \in SUBSET (1..n) : s # {} => Max(s) \in s
         /\ \A i \in 1..n : /\ 1..i \in SUBSET (1..n) /\ 1..i # {} /\ 1..(i - 1) \in SUBSET (1..n)
                            /\ Max(1..i) = i /\ (1..i) \ {i} = 1..(i - 1)
<1>1. ASSUME NEW s \in SUBSET (1..n), s # {} PROVE Max(s) \in s
  BY <1>1, MaxIsIn
<1>2. ASSUME NEW i \in 1..n PROVE Max(1..i) = i
  <2>1. i \in 1..i /\ \A x \in 1..i : i >= x
    OBVIOUS
  <2>2. \A m \in 1..i : (\A x \in 1..i : m >= x) => m = i
    BY <2>1
  <2> QED BY <2>1, <2>2 DEF Max
<1> QED BY <1>1, <1>2

\* The same for the indices of a sequence of length n, the last picked first.
IsLeftFold(g, n, base, step) ==
  g = [s \in SUBSET (1..n) |-> IF s = {} THEN base ELSE step[Max(s)][g[s \ {Max(s)}]]]

IsLeftFoldable(n, V, base, step) == n \in Nat /\ base \in V /\ step \in [1..n -> [V -> V]]

\* The function that a fold over a sequence of length n is defined by exists.
LEMMA FoldLeftExists ==
  ASSUME NEW n, NEW V, NEW base, NEW step, IsLeftFoldable(n, V, base, step)
  PROVE  \E g \in [SUBSET (1..n) -> V] : IsLeftFold(g, n, base, step)
<1>0. n \in Nat /\ base \in V /\ step \in [1..n -> [V -> V]]
  BY DEF IsLeftFoldable
<1> DEFINE pick == [s \in SUBSET (1..n) |-> Max(s)]
<1>1. \A s \in SUBSET (1..n) : s # {} => pick[s] \in s
  BY <1>0, MaxOfIndices
<1>2. IsFiniteSet(1..n)
  BY <1>0, FS_Interval
<1>3. \A s \in SUBSET (1..n) : pick[s] = Max(s)
  OBVIOUS
<1>4. PICK g \in [SUBSET (1..n) -> V] : IsFold(g, 1..n, base, pick, step)
  <2> HIDE DEF pick
  <2>1. IsFoldable(1..n, V, base, pick, step)
    BY <1>0, <1>1, <1>2 DEF IsFoldable
  <2> QED BY <2>1, FoldExists
<1>5. IsLeftFold(g, n, base, step)
  BY <1>3, <1>4 DEF IsFold, IsLeftFold
<1> QED BY <1>5

-----------------------------------------------------------------------------------
(* Selections. *)

\* The selections from the prefixes of s, one element after the other.
SelectsBy(h, s, T) ==
  /\ h[0] = <<>>
  /\ \A i \in 1..Len(s) :
       h[i] = IF s[i] \in T THEN Append(h[i - 1], s[i]) ELSE h[i - 1]

\* A selection ends such a sequence of selections.
LEMMA SelectInSteps ==
  ASSUME NEW X, NEW s \in Seq(X), NEW T
  PROVE  \E h \in [0..Len(s) -> Seq(X \cap T)] : SelectsBy(h, s, T) /\ SelectIn(s, T) = h[Len(s)]
<1> DEFINE n == Len(s)
           V == Seq(X \cap T)
           step == [i \in 1..n |-> [kept \in V |-> IF s[i] \in T THEN Append(kept, s[i]) ELSE kept]]
           Body(iter) == [S \in SUBSET (1..n) |->
                            IF S = {} THEN <<>>
                            ELSE IF s[Max(S)] \in T
                                 THEN Append(iter[S \ {Max(S)}], s[Max(S)])
                                 ELSE iter[S \ {Max(S)}]]
           f == CHOOSE iter : iter = Body(iter)
<1>1. n \in Nat /\ DOMAIN s = 1..n /\ \A i \in 1..n : s[i] \in X
  OBVIOUS
<1>2. SelectIn(s, T) = f[1..n]
  BY <1>1 DEF SelectIn, FoldLeft, MapThenFoldSet
<1>3. \E g : g = Body(g)
  <2>1. IsLeftFoldable(n, V, <<>>, step)
    BY <1>1 DEF IsLeftFoldable
  <2>2. PICK g \in [SUBSET (1..n) -> V] : IsLeftFold(g, n, <<>>, step)
    <3> HIDE DEF step, n, V
    <3> QED BY <2>1, FoldLeftExists
  <2>3. ASSUME NEW S \in SUBSET (1..n), S # {}
        PROVE  step[Max(S)][g[S \ {Max(S)}]] = Body(g)[S]
    <3>1. Max(S) \in 1..n
      BY <1>1, <2>3, MaxOfIndices
    <3>2. g[S \ {Max(S)}] \in V
      BY <2>2
    <3> QED BY <2>3, <3>1, <3>2
  <2>4. g = Body(g)
    <3> HIDE DEF step, V, n
    <3> QED BY <2>2, <2>3 DEF IsLeftFold
  <2> QED BY <2>4
<1>4. f = Body(f)
  <2> HIDE DEF Body
  <2> QED BY <1>3
<1>5. f[{}] = <<>>
  <2> HIDE DEF f
  <2> QED BY <1>4
<1>6. ASSUME NEW i \in 1..n
      PROVE  f[1..i] = IF s[i] \in T THEN Append(f[1..(i - 1)], s[i]) ELSE f[1..(i - 1)]
  <2>1. /\ 1..i \in SUBSET (1..n) /\ 1..i # {}
        /\ Max(1..i) = i /\ (1..i) \ {i} = 1..(i - 1)
    BY <1>1, MaxOfIndices
  <2> HIDE DEF f, n
  <2> QED BY <1>4, <2>1
<1> DEFINE h == [i \in 0..n |-> f[1..i]]
           W == {i \in 0..n : h[i] \in V}
<1>7. SelectsBy(h, s, T)
  <2> HIDE DEF f
  <2>1. h[0] = <<>>
    BY <1>1, <1>5
  <2>2. ASSUME NEW i \in 1..n
        PROVE  h[i] = IF s[i] \in T THEN Append(h[i - 1], s[i]) ELSE h[i - 1]
    BY <1>1, <1>6
  <2> QED BY <2>1, <2>2 DEF SelectsBy
<1>8. 0..n \subseteq W
  <2> HIDE DEF h
  <2>1. 0 \in W
    <3>1. h[0] = <<>> /\ 0 \in 0..n
      BY <1>1, <1>7 DEF SelectsBy
    <3>2. h[0] \in V
      BY <3>1
    <3> HIDE DEF h, V
    <3> QED BY <3>1, <3>2
  <2>2. ASSUME NEW i \in 1..n, i - 1 \in W PROVE i \in W
    <3>1. h[i - 1] \in V /\ (s[i] \in T => s[i] \in X \cap T) /\ i \in 0..n
      BY <1>1, <2>2
    <3>2. h[i] = IF s[i] \in T THEN Append(h[i - 1], s[i]) ELSE h[i - 1]
      BY <1>7 DEF SelectsBy
    <3>3. h[i] \in V
      <4> HIDE DEF h
      <4> QED BY <3>1, <3>2
    <3> QED BY <3>1, <3>3
  <2> HIDE DEF W, n
  <2> QED BY <1>1, <2>1, <2>2, PrefixInduction
<1>9. h \in [0..n -> V] /\ SelectIn(s, T) = h[n]
  <2> HIDE DEF f, V
  <2> QED BY <1>1, <1>2, <1>8
<1> HIDE DEF h
<1> QED BY <1>7, <1>9

\* Nothing is selected from nothing.
LEMMA SelectInEmpty == ASSUME NEW T PROVE SelectIn(<<>>, T) = <<>>
<1>1. ASSUME NEW s \in Seq({}), s = <<>> PROVE SelectIn(s, T) = <<>>
  <2>1. PICK h \in [0..Len(s) -> Seq({} \cap T)] :
          SelectsBy(h, s, T) /\ SelectIn(s, T) = h[Len(s)]
    BY SelectInSteps
  <2> QED BY <1>1, <2>1 DEF SelectsBy
<1>2. <<>> \in Seq({})
  OBVIOUS
<1> QED BY <1>1, <1>2

\* A selection is of selected elements.
LEMMA SelectInType ==
  ASSUME NEW X, NEW s \in Seq(X), NEW T
  PROVE  SelectIn(s, T) \in Seq(X \cap T)
<1>1. PICK h \in [0..Len(s) -> Seq(X \cap T)] : SelectIn(s, T) = h[Len(s)]
  BY SelectInSteps
<1> QED BY <1>1

\* One more element is selected, or it is not.
LEMMA SelectInAppend ==
  ASSUME NEW X, NEW s \in Seq(X), NEW e \in X, NEW T
  PROVE  SelectIn(Append(s, e), T) = IF e \in T THEN Append(SelectIn(s, T), e) ELSE SelectIn(s, T)
<1> DEFINE n == Len(s)
           t == Append(s, e)
<1>1. n \in Nat /\ t \in Seq(X) /\ Len(t) = n + 1 /\ t[n + 1] = e /\ \A i \in 1..n : t[i] = s[i]
  OBVIOUS
<1>2. PICK h \in [0..n -> Seq(X \cap T)] : SelectsBy(h, s, T) /\ SelectIn(s, T) = h[n]
  BY SelectInSteps
<1>3. PICK k \in [0..Len(t) -> Seq(X \cap T)] : SelectsBy(k, t, T) /\ SelectIn(t, T) = k[Len(t)]
  <2> HIDE DEF t
  <2> QED BY <1>1, SelectInSteps
<1> DEFINE W == {i \in 0..n : h[i] = k[i]}
<1>4. 0..n \subseteq W
  <2>1. 0 \in W
    BY <1>1, <1>2, <1>3 DEF SelectsBy
  <2>2. ASSUME NEW i \in 1..n, i - 1 \in W PROVE i \in W
    <3> HIDE DEF t
    <3>1. i \in 1..Len(t) /\ t[i] = s[i] /\ h[i - 1] = k[i - 1] /\ i \in 0..n
      BY <1>1, <2>2
    <3>2. h[i] = IF s[i] \in T THEN Append(h[i - 1], s[i]) ELSE h[i - 1]
      BY <1>2 DEF SelectsBy
    <3>3. k[i] = IF t[i] \in T THEN Append(k[i - 1], t[i]) ELSE k[i - 1]
      BY <1>3, <3>1 DEF SelectsBy
    <3>4. h[i] = k[i]
      BY <3>1, <3>2, <3>3
    <3> QED BY <3>1, <3>4
  <2> HIDE DEF W, n
  <2> QED BY <1>1, <2>1, <2>2, PrefixInduction
<1>5. k[n + 1] = IF e \in T THEN Append(k[n], e) ELSE k[n]
  <2> HIDE DEF t
  <2> QED BY <1>1, <1>3 DEF SelectsBy
<1>6. k[n] = h[n]
  BY <1>1, <1>4
<1> QED BY <1>2, <1>3, <1>5, <1>6

\* Every wanted element is selected, and none twice that is not there twice.
LEMMA SelectInOnce ==
  ASSUME NEW X, NEW s \in Seq(X), NEW T
  PROVE  LET kept == SelectIn(s, T) IN
         /\ \A e \in T : (\E i \in DOMAIN kept : kept[i] = e) <=> \E i \in DOMAIN s : s[i] = e
         /\ (\A i, k \in DOMAIN s : s[i] = s[k] => i = k)
              => \A i, k \in DOMAIN kept : kept[i] = kept[k] => i = k
<1> DEFINE n == Len(s)
<1>1. n \in Nat /\ DOMAIN s = 1..n /\ \A i \in 1..n : s[i] \in X
  OBVIOUS
<1>2. PICK h \in [0..n -> Seq(X \cap T)] : SelectsBy(h, s, T) /\ SelectIn(s, T) = h[n]
  BY SelectInSteps
<1> DEFINE From(j) == \A e \in T : (\E i \in DOMAIN h[j] : h[j][i] = e) <=> \E i \in 1..j : s[i] = e
           Once(j) == \A i, k \in DOMAIN h[j] : h[j][i] = h[j][k] => i = k
           Distinct == \A i, k \in DOMAIN s : s[i] = s[k] => i = k
           W == {j \in 0..n : From(j) /\ (Distinct => Once(j))}
<1>3. 0 \in W
  BY <1>1, <1>2 DEF SelectsBy
<1>4. ASSUME NEW j \in 1..n, j - 1 \in W PROVE j \in W
  <2>1. /\ h[j - 1] \in Seq(X \cap T) /\ h[j] \in Seq(X \cap T)
        /\ h[j] = IF s[j] \in T THEN Append(h[j - 1], s[j]) ELSE h[j - 1]
    <3>1. j \in 0..n /\ j - 1 \in 0..n
      BY <1>1
    <3> QED BY <1>2, <3>1 DEF SelectsBy
  <2>5. 1..j = (1..(j - 1)) \cup {j} /\ j \in 0..n
    BY <1>1
  <2>2. From(j - 1) /\ (Distinct => Once(j - 1))
    BY <1>4
  <2>3. CASE s[j] \in T
    <3> DEFINE g == h[j - 1]
               last == Len(g) + 1
    <3>1. /\ Len(g) \in Nat /\ DOMAIN g = 1..Len(g) /\ DOMAIN h[j] = DOMAIN g \cup {last}
          /\ last \notin DOMAIN g /\ h[j][last] = s[j]
          /\ \A i \in DOMAIN g : h[j][i] = g[i] /\ g[i] \in T
      <4>1. s[j] \in X \cap T /\ h[j] = Append(g, s[j])
        BY <1>1, <2>1, <2>3
      <4> HIDE DEF g
      <4>2. g \in Seq(X \cap T)
        BY <2>1 DEF g
      <4> QED BY <4>1, <4>2, AppendedLast
    <3> HIDE DEF last
    <3>2. ASSUME NEW e \in T
          PROVE  (\E i \in DOMAIN h[j] : h[j][i] = e) <=> \E i \in 1..j : s[i] = e
      <4>1. (\E i \in DOMAIN g : g[i] = e) <=> \E i \in 1..(j - 1) : s[i] = e
        BY <2>2
      <4> HIDE DEF g
      <4>2. (\E i \in DOMAIN h[j] : h[j][i] = e) <=> (\E i \in DOMAIN g : g[i] = e) \/ s[j] = e
        BY <3>1
      <4> QED BY <2>5, <4>1, <4>2
    <3>3. ASSUME Distinct PROVE Once(j)
      <4>1. ASSUME NEW i \in DOMAIN g PROVE g[i] # s[j]
        <5>1. PICK k \in 1..(j - 1) : s[k] = g[i]
          BY <2>2, <3>1
        <5> QED BY <1>1, <3>3, <5>1, SMTT(30)
      <4> HIDE DEF Distinct
      <4> QED BY <2>2, <3>1, <3>3, <4>1
    <3> QED BY <2>5, <3>2, <3>3
  <2>4. CASE s[j] \notin T
    <3>1. h[j] = h[j - 1]
      BY <2>1, <2>4
    <3>2. From(j)
      BY <2>2, <2>4, <2>5, <3>1
    <3>3. Distinct => Once(j)
      BY <2>2, <3>1
    <3> QED BY <2>5, <3>2, <3>3
  <2> QED BY <2>3, <2>4
<1>5. n \in W
  <2> HIDE DEF W, n
  <2>1. 0..n \subseteq W
    BY <1>1, <1>3, <1>4, PrefixInduction
  <2> QED BY <1>1, <2>1
<1> QED BY <1>1, <1>2, <1>5

-----------------------------------------------------------------------------------
(* Sums. *)

\* Finitely many numbers.
Summable(w, S) == IsFiniteSet(S) /\ \A x \in S : w[x] \in Nat

\* The sums over the subsets of S, whichever element is taken first.
Adds(g, w, S) ==
  /\ g \in [SUBSET S -> Nat] /\ g[{}] = 0
  /\ \A s \in SUBSET S : \A x \in s : g[s] = w[x] + g[s \ {x}]

\* The sums as the fold makes them, taking a chosen element first.
Takes(g, w, S) ==
  /\ g \in [SUBSET S -> Nat] /\ g[{}] = 0
  /\ \A s \in SUBSET S : s # {} => g[s] = w[CHOOSE x \in s : TRUE] + g[s \ {CHOOSE x \in s : TRUE}]

\* The sum of the library is made that way.
LEMMA SumTakes ==
  ASSUME NEW w, NEW S, Summable(w, S)
  PROVE  \E g : Takes(g, w, S) /\ SumFunctionOnSet(w, S) = g[S]
<1> DEFINE Fold(g) == [s \in SUBSET S |->
                         IF s = {} THEN 0
                         ELSE w[CHOOSE x \in s : TRUE] + g[s \ {CHOOSE x \in s : TRUE}]]
           f == CHOOSE g : g = Fold(g)
           pick == [s \in SUBSET S |-> CHOOSE x \in s : TRUE]
           step == [x \in S |-> [v \in Nat |-> w[x] + v]]
<1>1. SumFunctionOnSet(w, S) = f[S]
  BY DEF SumFunctionOnSet, FoldFunctionOnSet, MapThenFoldSet
<1>2. \A s \in SUBSET S : s # {} => (CHOOSE x \in s : TRUE) \in s
  OBVIOUS
<1>3. \E g \in [SUBSET S -> Nat] : g = Fold(g)
  <2>1. IsFoldable(S, Nat, 0, pick, step)
    <3>1. step \in [S -> [Nat -> Nat]]
      BY DEF Summable
    <3> QED BY <1>2, <3>1 DEF IsFoldable, Summable
  <2>2. PICK g \in [SUBSET S -> Nat] : IsFold(g, S, 0, pick, step)
    <3> HIDE DEF pick, step
    <3> QED BY <2>1, FoldExists
  <2>3. ASSUME NEW s \in SUBSET S, s # {}
        PROVE  step[pick[s]][g[s \ {pick[s]}]]
                 = w[CHOOSE x \in s : TRUE] + g[s \ {CHOOSE x \in s : TRUE}]
    <3>1. pick[s] = (CHOOSE x \in s : TRUE) /\ pick[s] \in S /\ g[s \ {pick[s]}] \in Nat
      BY <1>2, <2>2, <2>3
    <3> HIDE DEF pick
    <3> QED BY <3>1
  <2>4. g = Fold(g)
    <3> HIDE DEF pick, step
    <3> QED BY <2>2, <2>3 DEF IsFold
  <2> QED BY <2>4
<1>4. f = Fold(f) /\ f \in [SUBSET S -> Nat]
  <2>1. f = Fold(f)
    <3> HIDE DEF Fold
    <3> QED BY <1>3
  <2>2. DOMAIN f = SUBSET S
    <3> HIDE DEF f
    <3> QED BY <2>1
  <2> DEFINE W == {s \in SUBSET S : f[s] \in Nat}
  <2>3. ASSUME NEW s \in SUBSET S, \A x \in s : s \ {x} \in W
        PROVE  s \in W
    <3>1. CASE s = {}
      <4> HIDE DEF f
      <4> QED BY <2>1, <3>1
    <3>2. CASE s # {}
      <4>1. PICK x \in s : x = CHOOSE y \in s : TRUE
        BY <1>2, <3>2
      <4>2. f[s] = w[x] + f[s \ {x}]
        <5> HIDE DEF f
        <5> QED BY <2>1, <3>2, <4>1
      <4>3. f[s \ {x}] \in Nat /\ w[x] \in Nat
        <5> HIDE DEF f
        <5> QED BY <2>3, <4>1 DEF Summable
      <4> HIDE DEF f
      <4> QED BY <4>2, <4>3
    <3> QED BY <3>1, <3>2
  <2>4. SUBSET S \subseteq W
    <3> HIDE DEF W
    <3> QED BY <2>3, SubsetInduction DEF Summable
  <2>5. f \in [SUBSET S -> Nat]
    <3>1. \A s \in SUBSET S : f[s] \in Nat
      BY <2>4
    <3>2. f = [s \in SUBSET S |-> f[s]]
      <4> HIDE DEF f
      <4> QED BY <2>1
    <3> HIDE DEF f
    <3> QED BY <3>1, <3>2
  <2> QED BY <2>1, <2>5
<1>5. Takes(f, w, S)
  <2> HIDE DEF f
  <2> QED BY <1>4 DEF Takes
<1> QED BY <1>1, <1>5

\* Whichever element is taken first, the sum is the same.
LEMMA TakesAny ==
  ASSUME NEW w, NEW S, Summable(w, S), NEW g, Takes(g, w, S)
  PROVE  Adds(g, w, S)
<1>1. /\ g \in [SUBSET S -> Nat] /\ \A x \in S : w[x] \in Nat
      /\ IsFiniteSet(S) /\ g[{}] = 0
  BY DEF Takes, Summable
<1> DEFINE W == {s \in SUBSET S : \A x \in s : g[s] = w[x] + g[s \ {x}]}
<1>2. ASSUME NEW s \in SUBSET S, \A x \in s : s \ {x} \in W
      PROVE  s \in W
  <2> SUFFICES ASSUME NEW x \in s PROVE g[s] = w[x] + g[s \ {x}]
    OBVIOUS
  <2>1. PICK y \in s : y = CHOOSE z \in s : TRUE
    OBVIOUS
  <2>2. g[s] = w[y] + g[s \ {y}]
    BY <2>1 DEF Takes
  <2>3. CASE x = y
    BY <2>2, <2>3
  <2>4. CASE x # y
    <3> DEFINE r == s \ {x, y}
    <3>1. x \in s \ {y} /\ y \in s \ {x} /\ (s \ {y}) \ {x} = r /\ (s \ {x}) \ {y} = r
      BY <2>4
    <3>2. w[x] \in Nat /\ w[y] \in Nat /\ g[r] \in Nat
      BY <1>1
    <3> HIDE DEF r
    <3>3. g[s \ {y}] = w[x] + g[r] /\ g[s \ {x}] = w[y] + g[r]
      BY <1>2, <3>1
    <3> QED BY <2>2, <3>2, <3>3
  <2> QED BY <2>3, <2>4
<1>3. SUBSET S \subseteq W
  <2> HIDE DEF W
  <2> QED BY <1>2, SubsetInduction DEF Summable
<1> QED BY <1>1, <1>3 DEF Adds

\* A sum, element by element.
LEMMA SumRemove ==
  ASSUME NEW w, NEW S, Summable(w, S), NEW x \in S
  PROVE  SumFunctionOnSet(w, S) = w[x] + SumFunctionOnSet(w, S \ {x})
<1>1. PICK g : Takes(g, w, S) /\ SumFunctionOnSet(w, S) = g[S]
  BY SumTakes
<1>2. Adds(g, w, S)
  BY <1>1, TakesAny
<1> DEFINE R == S \ {x}
<1>3. R \in SUBSET S /\ IsFiniteSet(S)
  BY DEF Summable
<1>4. Summable(w, R)
  BY <1>3, FS_Subset DEF Summable
<1>5. PICK h : Takes(h, w, R) /\ SumFunctionOnSet(w, R) = h[R]
  <2> HIDE DEF R
  <2> QED BY <1>4, SumTakes
<1> DEFINE W == {s \in SUBSET R : h[s] = g[s]}
<1>6. ASSUME NEW s \in SUBSET R, \A y \in s : s \ {y} \in W
      PROVE  s \in W
  <2>1. CASE s = {}
    BY <1>1, <1>5, <2>1 DEF Takes
  <2>2. CASE s # {}
    <3>1. PICK y \in s : y = CHOOSE z \in s : TRUE
      BY <2>2
    <3>2. g[s] = w[y] + g[s \ {y}] /\ h[s] = w[y] + h[s \ {y}]
      BY <1>1, <1>5, <2>2, <3>1 DEF Takes
    <3>3. g[s \ {y}] = h[s \ {y}]
      BY <1>6
    <3> QED BY <3>2, <3>3
  <2> QED BY <2>1, <2>2
<1>7. SUBSET R \subseteq W
  <2>1. IsFiniteSet(R)
    BY <1>3, FS_Subset
  <2> HIDE DEF W, R
  <2> QED BY <1>6, <2>1, SubsetInduction
<1>8. h[R] = g[R]
  <2> R \in SUBSET R
    OBVIOUS
  <2> HIDE DEF R
  <2> QED BY <1>7
<1>9. g[S] = w[x] + g[R]
  BY <1>2 DEF Adds
<1> QED BY <1>1, <1>5, <1>8, <1>9

\* A sum of numbers is one.
LEMMA SumType ==
  ASSUME NEW w, NEW S, Summable(w, S)
  PROVE  SumFunctionOnSet(w, S) \in Nat
<1>1. PICK g : Takes(g, w, S) /\ SumFunctionOnSet(w, S) = g[S]
  BY SumTakes
<1> QED BY <1>1 DEF Takes

\* The sum of nothing.
LEMMA SumNone ==
  ASSUME NEW w
  PROVE  SumFunctionOnSet(w, {}) = 0
<1>1. Summable(w, {})
  BY FS_EmptySet DEF Summable
<1>2. PICK g : Takes(g, w, {}) /\ SumFunctionOnSet(w, {}) = g[{}]
  BY <1>1, SumTakes
<1> QED BY <1>2 DEF Takes

\* Part of what can be added can be added.
LEMMA SummablePart ==
  ASSUME NEW w, NEW S, Summable(w, S), NEW s \in SUBSET S
  PROVE  Summable(w, s) /\ IsFiniteSet(s)
BY FS_Subset DEF Summable

\* One function is at most k times the other.
Within(u, v, k, S) ==
  /\ Summable(u, S) /\ Summable(v, S) /\ k \in Nat
  /\ \A x \in S : u[x] <= k * v[x]

\* A product distributes over a sum.
LEMMA TimesSum == ASSUME NEW k \in Nat, NEW a \in Nat, NEW b \in Nat
                  PROVE  k * (a + b) = k * a + k * b /\ k * a \in Nat /\ k * 0 = 0
OBVIOUS

\* So are their sums.
LEMMA SumCompare ==
  ASSUME NEW u, NEW v, NEW k, NEW S, Within(u, v, k, S)
  PROVE  SumFunctionOnSet(u, S) <= k * SumFunctionOnSet(v, S)
<1> DEFINE U(s) == SumFunctionOnSet(u, s)
           V(s) == SumFunctionOnSet(v, s)
           W == {s \in SUBSET S : U(s) <= k * V(s)}
<1>1. Summable(u, S) /\ Summable(v, S) /\ IsFiniteSet(S)
  BY DEF Within, Summable
<1>2. ASSUME NEW s \in SUBSET S, \A x \in s : s \ {x} \in W
      PROVE  s \in W
  <2>1. CASE s = {}
    <3>1. U(s) = 0 /\ V(s) = 0
      BY <2>1, SumNone
    <3>2. k * 0 = 0
      BY DEF Within
    <3> HIDE DEF U, V
    <3> QED BY <3>1, <3>2
  <2>2. CASE s # {}
    <3>1. PICK x \in s : TRUE
      BY <2>2
    <3>2. /\ Summable(u, s) /\ Summable(v, s) /\ Summable(u, s \ {x}) /\ Summable(v, s \ {x})
      BY <1>1, SummablePart
    <3>3. U(s) = u[x] + U(s \ {x}) /\ V(s) = v[x] + V(s \ {x})
      BY <3>2, SumRemove
    <3>4. U(s \ {x}) \in Nat /\ V(s \ {x}) \in Nat
      BY <3>2, SumType
    <3>5. U(s \ {x}) <= k * V(s \ {x})
      BY <1>2
    <3> HIDE DEF U, V
    <3>6. u[x] \in Nat /\ v[x] \in Nat /\ u[x] <= k * v[x] /\ k \in Nat
      BY DEF Within, Summable
    <3>7. /\ k * V(s) = k * v[x] + k * V(s \ {x})
          /\ k * v[x] \in Nat /\ k * V(s \ {x}) \in Nat
      BY <3>3, <3>4, <3>6, TimesSum
    <3> QED BY <3>3, <3>4, <3>5, <3>6, <3>7
  <2> QED BY <2>1, <2>2
<1>3. SUBSET S \subseteq W
  <2> HIDE DEF W
  <2> QED BY <1>1, <1>2, SubsetInduction
<1> QED BY <1>3

\* Functions that agree have the same sum.
Agree(u, v, S) == Summable(u, S) /\ \A x \in S : u[x] = v[x]

\* They are each at most the other.
LEMMA SumSame ==
  ASSUME NEW u, NEW v, NEW S, Agree(u, v, S)
  PROVE  SumFunctionOnSet(u, S) = SumFunctionOnSet(v, S)
<1>1. Summable(u, S) /\ Summable(v, S)
  BY DEF Agree, Summable
<1>2. Within(u, v, 1, S) /\ Within(v, u, 1, S)
  BY <1>1 DEF Agree, Within, Summable
<1>3. /\ SumFunctionOnSet(u, S) <= 1 * SumFunctionOnSet(v, S)
      /\ SumFunctionOnSet(v, S) <= 1 * SumFunctionOnSet(u, S)
  BY <1>2, SumCompare
<1>4. SumFunctionOnSet(u, S) \in Nat /\ SumFunctionOnSet(v, S) \in Nat
  BY <1>1, SumType
<1> QED BY <1>3, <1>4

\* Two sets with nothing in common.
Apart(w, A, B) == Summable(w, A) /\ Summable(w, B) /\ A \cap B = {}

\* The sum over both is the sum of their sums.
LEMMA SumJoin ==
  ASSUME NEW w, NEW A, NEW B, Apart(w, A, B)
  PROVE  /\ Summable(w, A \cup B)
         /\ SumFunctionOnSet(w, A \cup B) = SumFunctionOnSet(w, A) + SumFunctionOnSet(w, B)
<1> DEFINE a == SumFunctionOnSet(w, A)
           W == {s \in SUBSET B : SumFunctionOnSet(w, A \cup s) = a + SumFunctionOnSet(w, s)}
<1>1. /\ Summable(w, A) /\ Summable(w, B) /\ IsFiniteSet(A) /\ IsFiniteSet(B)
  BY DEF Apart, Summable
<1>2. IsFiniteSet(A \cup B)
  BY <1>1, FS_Union
<1>3. Summable(w, A \cup B)
  BY <1>1, <1>2 DEF Summable
<1>4. a \in Nat
  BY <1>1, SumType
<1>5. ASSUME NEW s \in SUBSET B, \A x \in s : s \ {x} \in W
      PROVE  s \in W
  <2> DEFINE u == A \cup s
  <2>1. CASE s = {}
    <3>1. SumFunctionOnSet(w, s) = 0
      BY <2>1, SumNone
    <3>2. u = A
      BY <2>1
    <3>3. SumFunctionOnSet(w, u) = a
      <4> HIDE DEF u
      <4> QED BY <3>2
    <3> HIDE DEF a, u
    <3>4. SumFunctionOnSet(w, u) = a + SumFunctionOnSet(w, s)
      BY <1>4, <3>1, <3>3
    <3> QED BY <3>4 DEF u
  <2>2. CASE s # {}
    <3>1. PICK x \in s : TRUE
      BY <2>2
    <3> DEFINE r == s \ {x}
               v == A \cup r
    <3>2. u \in SUBSET (A \cup B) /\ r \in SUBSET s /\ x \in u /\ u \ {x} = v
      BY DEF Apart
    <3> HIDE DEF u, v, r
    <3>3. Summable(w, s) /\ Summable(w, r) /\ Summable(w, u)
      BY <1>1, <1>3, <3>2, SummablePart
    <3>4. SumFunctionOnSet(w, s) = w[x] + SumFunctionOnSet(w, r)
      BY <3>3, SumRemove DEF r
    <3>5. SumFunctionOnSet(w, u) = w[x] + SumFunctionOnSet(w, v)
      <4>1. SumFunctionOnSet(w, u) = w[x] + SumFunctionOnSet(w, u \ {x})
        BY <3>2, <3>3, SumRemove
      <4> QED BY <3>2, <4>1
    <3>6. SumFunctionOnSet(w, r) \in Nat /\ w[x] \in Nat
      BY <3>1, <3>3, SumType DEF Summable
    <3>7. SumFunctionOnSet(w, v) = a + SumFunctionOnSet(w, r)
      BY <1>5 DEF r, v
    <3> HIDE DEF a
    <3>8. SumFunctionOnSet(w, u) = a + SumFunctionOnSet(w, s)
      BY <1>4, <3>4, <3>5, <3>6, <3>7
    <3> QED BY <3>8 DEF u
  <2> QED BY <2>1, <2>2
<1>6. SUBSET B \subseteq W
  <2> HIDE DEF W
  <2> QED BY <1>1, <1>5, SubsetInduction
<1> QED BY <1>3, <1>6

\* What adds nothing can be left out.
Skips(w, S, T) == Summable(w, S) /\ T \in SUBSET S /\ \A x \in S \ T : w[x] = 0

\* The sum is that over the rest.
LEMMA SumSkip ==
  ASSUME NEW w, NEW S, NEW T, Skips(w, S, T)
  PROVE  SumFunctionOnSet(w, S) = SumFunctionOnSet(w, T)
<1> DEFINE R == S \ T
           u == T \cup R
<1>1. /\ Summable(w, T) /\ Summable(w, R) /\ T \cap R = {}
  <2>1. Summable(w, S) /\ T \in SUBSET S /\ R \in SUBSET S
    BY DEF Skips
  <2> HIDE DEF R
  <2>2. Summable(w, T) /\ Summable(w, R)
    BY <2>1, SummablePart
  <2> QED BY <2>2 DEF R
<1>2. Within(w, w, 0, R)
  <2>1. \A x \in R : w[x] = 0
    BY DEF Skips
  <2> HIDE DEF R
  <2> QED BY <1>1, <2>1 DEF Within
<1>3. u = S
  BY DEF Skips
<1> HIDE DEF R
<1>4. SumFunctionOnSet(w, R) <= 0 * SumFunctionOnSet(w, R)
  BY <1>2, SumCompare
<1>5. SumFunctionOnSet(w, R) \in Nat /\ SumFunctionOnSet(w, T) \in Nat
  BY <1>1, SumType
<1>6. Apart(w, T, R)
  BY <1>1 DEF Apart
<1>7. SumFunctionOnSet(w, u) = SumFunctionOnSet(w, T) + SumFunctionOnSet(w, R)
  BY <1>6, SumJoin
<1>8. SumFunctionOnSet(w, R) = 0
  BY <1>4, <1>5
<1> HIDE DEF u
<1>9. SumFunctionOnSet(w, u) = SumFunctionOnSet(w, S)
  BY <1>3
<1> QED BY <1>5, <1>7, <1>8, <1>9

\* A sum over the parts of a set, one part after the other.
Parted(w, P, I) ==
  /\ IsFiniteSet(I) /\ \A i \in I : Summable(w, P[i])
  /\ \A i, k \in I : i # k => P[i] \cap P[k] = {}

AllParts(P, I) == UNION {P[i] : i \in I}
Sums(w, P, I) == [i \in I |-> SumFunctionOnSet(w, P[i])]

\* The sum over the whole is the sum of the sums over the parts.
LEMMA SumParts ==
  ASSUME NEW w, NEW P, NEW I, Parted(w, P, I)
  PROVE  /\ Summable(w, AllParts(P, I)) /\ Summable(Sums(w, P, I), I)
         /\ SumFunctionOnSet(w, AllParts(P, I)) = SumFunctionOnSet(Sums(w, P, I), I)
<1> DEFINE all(s) == UNION {P[i] : i \in s}
           sums == [i \in I |-> SumFunctionOnSet(w, P[i])]
           W == {s \in SUBSET I : /\ Summable(w, all(s))
                                  /\ SumFunctionOnSet(w, all(s)) = SumFunctionOnSet(sums, s)}
<1>1. IsFiniteSet(I) /\ \A i \in I : Summable(w, P[i])
  BY DEF Parted
<1>2. Summable(sums, I)
  <2>1. \A i \in I : SumFunctionOnSet(w, P[i]) \in Nat
    BY <1>1, SumType
  <2>2. \A i \in I : sums[i] \in Nat
    BY <2>1
  <2> HIDE DEF sums
  <2> QED BY <1>1, <2>2 DEF Summable
<1>3. ASSUME NEW s \in SUBSET I, \A i \in s : s \ {i} \in W
      PROVE  s \in W
  <2>1. CASE s = {}
    <3> DEFINE u == all(s)
    <3>1. u = {}
      BY <2>1
    <3> HIDE DEF u
    <3>2. SumFunctionOnSet(w, u) = 0 /\ SumFunctionOnSet(sums, s) = 0
      <4>1. SumFunctionOnSet(sums, s) = 0
        <5> HIDE DEF sums
        <5> QED BY <2>1, SumNone
      <4> QED BY <3>1, <4>1, SumNone
    <3>3. Summable(w, u)
      BY <3>1, FS_EmptySet DEF Summable
    <3> HIDE DEF sums
    <3> QED BY <3>2, <3>3 DEF u
  <2>2. CASE s # {}
    <3>1. PICK i \in s : TRUE
      BY <2>2
    <3> DEFINE r == s \ {i}
               u == all(s)
               v == all(r)
               p == P[i]
    <3>2. u = p \cup v /\ p \cap v = {} /\ i \in I /\ r \in SUBSET I
      BY <3>1 DEF Parted
    <3>3. Summable(w, v) /\ SumFunctionOnSet(w, v) = SumFunctionOnSet(sums, r)
      BY <1>3
    <3>4. Summable(w, p) /\ sums[i] = SumFunctionOnSet(w, p)
      BY <1>1, <3>2
    <3> HIDE DEF sums, v, u, p
    <3>5. Summable(sums, s) /\ Summable(sums, r)
      <4> HIDE DEF r
      <4> QED BY <1>2, <3>2, SummablePart
    <3>6. SumFunctionOnSet(sums, s) = sums[i] + SumFunctionOnSet(sums, r)
      BY <3>1, <3>5, SumRemove
    <3>7. Apart(w, p, v)
      BY <3>2, <3>3, <3>4 DEF Apart
    <3> HIDE DEF r
    <3> DEFINE q == p \cup v
    <3>8. /\ Summable(w, q)
          /\ SumFunctionOnSet(w, q) = SumFunctionOnSet(w, p) + SumFunctionOnSet(w, v)
      BY <3>7, SumJoin
    <3>9. q = u
      BY <3>2
    <3> HIDE DEF q
    <3>10. /\ Summable(w, u)
           /\ SumFunctionOnSet(w, u) = SumFunctionOnSet(w, p) + SumFunctionOnSet(w, v)
      BY <3>8, <3>9
    <3>11. SumFunctionOnSet(w, u) = SumFunctionOnSet(sums, s)
      BY <3>3, <3>4, <3>6, <3>10
    <3> QED BY <3>10, <3>11 DEF u
  <2> QED BY <2>1, <2>2
<1>4. SUBSET I \subseteq W
  <2> HIDE DEF W
  <2> QED BY <1>1, <1>3, SubsetInduction
<1>5. I \in W
  <2> HIDE DEF W
  <2> QED BY <1>4
<1> QED BY <1>2, <1>5 DEF AllParts, Sums

\* The sum over a set, each of its elements under another name.
Renames(m, u, S, v, T) ==
  /\ Summable(u, S) /\ T = {m[x] : x \in S}
  /\ \A x \in S : v[m[x]] = u[x]
  /\ \A x, y \in S : m[x] = m[y] => x = y

\* The sum does not depend on the names.
LEMMA SumRenamed ==
  ASSUME NEW m, NEW u, NEW S, NEW v, NEW T, Renames(m, u, S, v, T)
  PROVE  Summable(v, T) /\ SumFunctionOnSet(u, S) = SumFunctionOnSet(v, T)
<1> DEFINE P == [x \in S |-> {m[x]}]
           all == AllParts(P, S)
           sums == Sums(v, P, S)
<1>1. Summable(u, S) /\ IsFiniteSet(S)
  BY DEF Renames, Summable
<1>2. ASSUME NEW x \in S
      PROVE  Summable(v, P[x]) /\ SumFunctionOnSet(v, P[x]) = u[x]
  <2> DEFINE p == {m[x]}
             y == m[x]
  <2>1. v[y] = u[x] /\ u[x] \in Nat /\ p = {y} /\ P[x] = p /\ p \ {y} = {}
    BY <1>1 DEF Renames, Summable
  <2> HIDE DEF P
  <2>2. Summable(v, p)
    <3>1. IsFiniteSet(p)
      BY FS_Singleton
    <3> QED BY <2>1, <3>1 DEF Summable
  <2> HIDE DEF p, y
  <2>3. SumFunctionOnSet(v, p) = v[y] + SumFunctionOnSet(v, p \ {y})
    BY <2>1, <2>2, SumRemove
  <2>4. SumFunctionOnSet(v, p \ {y}) = 0
    BY <2>1, SumNone
  <2>5. SumFunctionOnSet(v, p) = u[x]
    BY <2>1, <2>3, <2>4
  <2> QED BY <2>1, <2>2, <2>5
<1>3. Parted(v, P, S)
  <2>1. \A x, y \in S : x # y => P[x] \cap P[y] = {}
    BY DEF Renames
  <2> HIDE DEF P
  <2> QED BY <1>1, <1>2, <2>1 DEF Parted
<1>4. all = T
  BY DEF Renames, AllParts
<1>5. Summable(v, all) /\ SumFunctionOnSet(v, all) = SumFunctionOnSet(sums, S)
  <2> HIDE DEF P
  <2> QED BY <1>3, SumParts
<1>6. Agree(u, sums, S)
  <2>1. \A x \in S : sums[x] = u[x]
    BY <1>2 DEF Sums
  <2> HIDE DEF sums
  <2> QED BY <1>1, <2>1 DEF Agree
<1> HIDE DEF sums, all
<1>7. SumFunctionOnSet(u, S) = SumFunctionOnSet(sums, S)
  BY <1>6, SumSame
<1> QED BY <1>4, <1>5, <1>7

\* How many there are, as a sum.
LEMMA SumOnes ==
  ASSUME NEW w, NEW S, IsFiniteSet(S), \A x \in S : w[x] = 1
  PROVE  Summable(w, S) /\ SumFunctionOnSet(w, S) = Cardinality(S)
<1> DEFINE W == {s \in SUBSET S : SumFunctionOnSet(w, s) = Cardinality(s)}
<1>1. Summable(w, S)
  BY DEF Summable
<1>2. ASSUME NEW s \in SUBSET S, \A x \in s : s \ {x} \in W
      PROVE  s \in W
  <2>1. CASE s = {}
    BY <2>1, SumNone, FS_EmptySet
  <2>2. CASE s # {}
    <3>1. PICK x \in s : TRUE
      BY <2>2
    <3>2. Summable(w, s) /\ IsFiniteSet(s)
      BY <1>1, SummablePart
    <3>3. SumFunctionOnSet(w, s) = w[x] + SumFunctionOnSet(w, s \ {x})
      BY <3>2, SumRemove
    <3>4. SumFunctionOnSet(w, s \ {x}) = Cardinality(s \ {x})
      BY <1>2
    <3>5. Cardinality(s \ {x}) = Cardinality(s) - 1 /\ Cardinality(s) \in Nat
      BY <3>1, <3>2, FS_RemoveElement, FS_CardinalityType
    <3>6. SumFunctionOnSet(w, s) = Cardinality(s)
      <4>1. w[x] = 1
        OBVIOUS
      <4> QED BY <3>3, <3>4, <3>5, <4>1
    <3> QED BY <3>6
  <2> QED BY <2>1, <2>2
<1>3. SUBSET S \subseteq W
  <2> HIDE DEF W
  <2> QED BY <1>2, SubsetInduction
<1> QED BY <1>1, <1>3

\* How many there are, part after part.
Disjoint(P, I) ==
  /\ IsFiniteSet(I) /\ \A i \in I : IsFiniteSet(P[i])
  /\ \A i, k \in I : i # k => P[i] \cap P[k] = {}

Sizes(P, I) == [i \in I |-> Cardinality(P[i])]

\* The whole has as many elements as its parts together.
LEMMA CardParts ==
  ASSUME NEW P, NEW I, Disjoint(P, I)
  PROVE  /\ IsFiniteSet(AllParts(P, I)) /\ Summable(Sizes(P, I), I)
         /\ Cardinality(AllParts(P, I)) = SumFunctionOnSet(Sizes(P, I), I)
<1> DEFINE all == AllParts(P, I)
           one == [x \in all |-> 1]
<1>1. ASSUME NEW i \in I
      PROVE  Summable(one, P[i]) /\ SumFunctionOnSet(one, P[i]) = Cardinality(P[i])
  <2>1. IsFiniteSet(P[i]) /\ \A x \in P[i] : one[x] = 1
    BY DEF Disjoint, AllParts
  <2> HIDE DEF one
  <2> QED BY <2>1, SumOnes
<1>2. Parted(one, P, I)
  <2> HIDE DEF one
  <2> QED BY <1>1 DEF Disjoint, Parted
<1>3. Sums(one, P, I) = Sizes(P, I)
  <2> HIDE DEF one
  <2> QED BY <1>1 DEF Sums, Sizes
<1>4. \A x \in all : one[x] = 1
  OBVIOUS
<1> HIDE DEF one
<1>5. /\ Summable(one, all) /\ Summable(Sums(one, P, I), I)
      /\ SumFunctionOnSet(one, all) = SumFunctionOnSet(Sums(one, P, I), I)
  BY <1>2, SumParts
<1>6. IsFiniteSet(all)
  BY <1>5 DEF Summable
<1>7. SumFunctionOnSet(one, all) = Cardinality(all)
  BY <1>4, <1>6, SumOnes
<1> QED BY <1>3, <1>5, <1>6, <1>7
===================================================================================
