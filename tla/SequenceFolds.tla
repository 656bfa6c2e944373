--------------------------- MODULE SequenceFolds ---------------------------
(***************************************************************************)
(* What FoldLeft and FlattenSeq compute, for every sequence.  The provers  *)
(* cannot instantiate a theorem that takes an operator, but they can use   *)
(* one of a module that takes it as a constant: an INSTANCE of this module *)
(* gives the induction over a fold for its own Op and Inv.  Everything     *)
(* rests on the least number principle, which is about sets.  At the end   *)
(* stand the facts about parts of sequences that streams of bytes need.    *)
(***************************************************************************)
EXTENDS Integers, SequencesExt, SequenceTheorems, WellFoundedInduction, TLAPS

CONSTANTS
  Op(_, _),        \* what is folded: the result so far, an element
  Inv(_, _, _, _)  \* of base, sequence, number of elements and result

\* A set of naturals that has an element has a least one.
LEMMA LeastNat ==
    ASSUME NEW T, T \subseteq Nat, T # {}
    PROVE  \E x \in T : \A y \in T : x =< y
<1>1. PICK m \in T : \A k \in T : <<k, m>> \notin OpToRel(<, Nat)
  BY WFMin, NatLessThanWellFounded, Zenon
<1>2. \A k \in T : ~(k < m)
  BY <1>1, Zenon DEF OpToRel
<1> QED  BY <1>2

-----------------------------------------------------------------------------
(* Folds *)

Fold(b, s) == FoldLeft(Op, b, s)

\* The function by which FoldLeft is defined: on the sets of the first m positions.
Folds(m, b, s, g) ==
  g = [S \in SUBSET (1 .. m) |-> IF S = {} THEN b ELSE Op(g[S \ {Max(S)}], s[Max(S)])]

\* The greatest position is the one that is taken last.
LEMMA MaxTop ==
    ASSUME NEW m \in Nat, NEW S \in SUBSET (1 .. m + 1), m + 1 \in S
    PROVE  Max(S) = m + 1
<1>1. \A x \in S : m + 1 >= x /\ x \in Int
  OBVIOUS
<1>2. \A x \in S : (\A y \in S : x >= y) => x = m + 1
  BY <1>1
<1> QED  BY <1>1, <1>2, Zenon DEF Max

\* That function exists, by induction on m.
LEMMA FoldExists == \A m \in Nat : \A b, s : \E g : Folds(m, b, s, g)
<1> SUFFICES ASSUME NEW b, NEW s, NEW k \in Nat, ~\E g : Folds(k, b, s, g) PROVE FALSE
  OBVIOUS
<1> DEFINE T == {m \in Nat : ~\E g : Folds(m, b, s, g)}
<1>1. PICK n \in T : \A y \in T : n =< y
  <2>1. T \subseteq Nat /\ T # {}
    OBVIOUS
  <2> HIDE DEF T
  <2> QED  BY <2>1, LeastNat
<1>2. n # 0
  <2> DEFINE g == [S \in SUBSET (1 .. 0) |-> b]
  <2>1. 1 .. 0 = {}
    OBVIOUS
  <2>2. \A S \in SUBSET (1 .. 0) : S = {}
    BY <2>1
  <2>3. Folds(0, b, s, g)
    BY <2>2, Zenon DEF Folds
  <2> QED  BY <2>3
<1> DEFINE m == n - 1
<1>3. m \in Nat /\ n = m + 1 /\ m \notin T
  BY <1>1, <1>2
<1>4. PICK g : Folds(m, b, s, g)
  BY <1>3
<1> HIDE DEF m
<1> DEFINE h == [S \in SUBSET (1 .. m + 1) |-> IF m + 1 \in S THEN Op(g[S \ {m + 1}], s[m + 1]) ELSE g[S]]
<1>5. ASSUME NEW S \in SUBSET (1 .. m + 1)
      PROVE  h[S] = IF S = {} THEN b ELSE Op(h[S \ {Max(S)}], s[Max(S)])
  <2>1. CASE m + 1 \in S
    <3>1. Max(S) = m + 1 /\ S # {}
      BY <1>3, <2>1, MaxTop
    <3>2. S \ {m + 1} \in SUBSET (1 .. m + 1) /\ m + 1 \notin S \ {m + 1}
      OBVIOUS
    <3>3. h[S \ {m + 1}] = g[S \ {m + 1}]
      BY <3>2, Zenon
    <3>4. h[S] = Op(g[S \ {m + 1}], s[m + 1])
      BY <2>1, Zenon
    <3> HIDE DEF h
    <3> QED  BY <3>1, <3>3, <3>4, Zenon
  <2>2. CASE m + 1 \notin S
    <3>1. S \in SUBSET (1 .. m)
      BY <1>3, <2>2
    <3>2. g[S] = IF S = {} THEN b ELSE Op(g[S \ {Max(S)}], s[Max(S)])
      BY <1>4, <3>1, Zenon DEF Folds
    <3>3. S \ {Max(S)} \in SUBSET (1 .. m + 1) /\ m + 1 \notin S \ {Max(S)}
      BY <2>2
    <3>4. h[S \ {Max(S)}] = g[S \ {Max(S)}] /\ h[S] = g[S]
      BY <2>2, <3>3, Zenon
    <3> HIDE DEF h
    <3> QED  BY <3>2, <3>4, Zenon
  <2> QED  BY <2>1, <2>2
<1>6. Folds(m + 1, b, s, h)
  <2> DEFINE u == [S \in SUBSET (1 .. m + 1) |-> IF S = {} THEN b ELSE Op(h[S \ {Max(S)}], s[Max(S)])]
  <2>1. h = u
    BY <1>5, Zenon
  <2> QED  BY <2>1, Zenon DEF Folds
<1> QED  BY <1>1, <1>3, <1>6

\* The results along the way.
Steps(b, s, n, st) == st[0] = b /\ \A i \in 1 .. n : st[i] = Op(st[i - 1], s[i])

\* A fold takes the elements one by one, from the first to the last.
LEMMA FoldSteps ==
    ASSUME NEW b, NEW s, NEW n \in Nat, DOMAIN s = 1 .. n
    PROVE  \E st : Steps(b, s, n, st) /\ Fold(b, s) = st[n]
<1> DEFINE it == CHOOSE g : Folds(n, b, s, g)
<1>1. Folds(n, b, s, it)
  BY FoldExists, Zenon
<1>2. Fold(b, s) = it[1 .. n]
  BY Zenon DEF Fold, FoldLeft, MapThenFoldSet, Folds
<1> HIDE DEF it
<1> DEFINE st == [i \in 0 .. n |-> it[1 .. i]]
<1>3. st[0] = b
  <2>1. 1 .. 0 = {} /\ 0 \in 0 .. n /\ {} \in SUBSET (1 .. n)
    OBVIOUS
  <2>2. it[{}] = b
    BY <1>1, <2>1, Zenon DEF Folds
  <2> QED  BY <2>1, <2>2
<1>4. ASSUME NEW i \in 1 .. n
      PROVE  st[i] = Op(st[i - 1], s[i])
  <2> HIDE DEF st
  <2>0. i \in Nat /\ 1 =< i /\ i =< n
    OBVIOUS
  <2>1. /\ i - 1 \in Nat /\ i = (i - 1) + 1 /\ i \in 0 .. n /\ i - 1 \in 0 .. n
        /\ i \in 1 .. i /\ 1 .. i # {} /\ 1 .. i \in SUBSET (1 .. n)
    BY <2>0
  <2>5. (1 .. i) \ {i} = 1 .. i - 1
    BY <2>0
  <2>2. Max(1 .. i) = i
    <3> DEFINE j == i - 1
    <3>1. j \in Nat /\ i = j + 1
      BY <2>1
    <3> HIDE DEF j
    <3>2. 1 .. i \in SUBSET (1 .. j + 1) /\ j + 1 \in 1 .. i
      BY <3>1
    <3>3. Max(1 .. i) = j + 1
      BY <3>1, <3>2, MaxTop, Zenon
    <3> QED  BY <3>1, <3>3
  <2>3. it[1 .. i] = Op(it[(1 .. i) \ {Max(1 .. i)}], s[Max(1 .. i)])
    BY <1>1, <2>1, Zenon DEF Folds
  <2>4. st[i] = it[1 .. i] /\ st[i - 1] = it[1 .. i - 1]
    BY <2>1 DEF st
  <2> QED  BY <2>2, <2>3, <2>4, <2>5
<1>5. Fold(b, s) = st[n]
  <2>1. n \in 0 .. n
    OBVIOUS
  <2> QED  BY <1>2, <2>1
<1> HIDE DEF st
<1>6. Steps(b, s, n, st)
  BY <1>3, <1>4 DEF Steps
<1> QED  BY <1>5, <1>6

\* Induction over a fold: what holds of the base and is kept by every element holds of
\* the result.
THEOREM FoldInvariant ==
    ASSUME NEW b, NEW s, NEW n \in Nat, DOMAIN s = 1 .. n,
           Inv(b, s, 0, b),
           \A i \in 1 .. n : \A r : Inv(b, s, i - 1, r) => Inv(b, s, i, Op(r, s[i]))
    PROVE  Inv(b, s, n, Fold(b, s))
<1>1. PICK st : Steps(b, s, n, st) /\ Fold(b, s) = st[n]
  BY FoldSteps
<1>2. ASSUME NEW k \in 0 .. n, ~Inv(b, s, k, st[k])
      PROVE  FALSE
  <2> DEFINE T == {i \in 0 .. n : ~Inv(b, s, i, st[i])}
  <2>1. PICK i \in T : \A y \in T : i =< y
    <3>1. T \subseteq Nat /\ T # {}
      BY <1>2
    <3> HIDE DEF T
    <3> QED  BY <3>1, LeastNat
  <2>2. i # 0
    BY <1>1, <2>1 DEF Steps
  <2>3. i - 1 \in 0 .. n /\ i \in 1 .. n /\ i - 1 \notin T
    BY <2>1, <2>2
  <2>4. Inv(b, s, i - 1, st[i - 1])
    BY <2>3
  <2>5. Inv(b, s, i, st[i])
    BY <1>1, <2>3, <2>4 DEF Steps
  <2> QED  BY <2>1, <2>5
<1> QED  BY <1>1, <1>2

-----------------------------------------------------------------------------
(* Flattening *)

\* Concatenation, under a name that the provers leave folded, and what they need of it.
Cat(a, b) == a \o b

Monoid(Q) ==
  /\ <<>> \in Q
  /\ \A a, b \in Q : Cat(a, b) \in Q
  /\ \A a \in Q : Cat(a, <<>>) = a /\ Cat(<<>>, a) = a
  /\ \A a, b, c \in Q : Cat(Cat(a, b), c) = Cat(a, Cat(b, c))

\* Sequences are a monoid.
LEMMA SeqMonoid == \A T : Monoid(Seq(T))
<1> SUFFICES ASSUME NEW T PROVE Monoid(Seq(T))
  OBVIOUS
<1>1. <<>> \in Seq(T) /\ \A a, b \in Seq(T) : Cat(a, b) \in Seq(T)
  BY ConcatProperties, EmptySeq, Zenon DEF Cat
<1>2. \A a \in Seq(T) : Cat(a, <<>>) = a /\ Cat(<<>>, a) = a
  BY ConcatEmptySeq, Zenon DEF Cat
<1>3. \A a, b, c \in Seq(T) : Cat(Cat(a, b), c) = Cat(a, Cat(b, c))
  BY ConcatAssociative DEF Cat
<1> QED  BY <1>1, <1>2, <1>3, Zenon DEF Monoid

Flat(s) == FlattenSeq(s)

\* The function by which FlattenSeq is defined.
Flattens(n, s, f) == f = [i \in 1 .. n |-> IF i = 1 THEN s[i] ELSE Cat(f[i - 1], s[i])]

\* That function exists, by induction on n.
LEMMA FlattenExists == \A n \in Nat : \A s : \E f : Flattens(n, s, f)
<1> SUFFICES ASSUME NEW s, NEW k \in Nat, ~\E f : Flattens(k, s, f) PROVE FALSE
  OBVIOUS
<1> DEFINE T == {m \in Nat : ~\E f : Flattens(m, s, f)}
<1>1. PICK n \in T : \A y \in T : n =< y
  <2>1. T \subseteq Nat /\ T # {}
    OBVIOUS
  <2> HIDE DEF T
  <2> QED  BY <2>1, LeastNat
<1>2. n # 0
  <2> DEFINE f == [i \in 1 .. 0 |-> s[i]]
  <2>1. \A i \in 1 .. 0 : FALSE
    OBVIOUS
  <2>2. Flattens(0, s, f)
    BY <2>1, Zenon DEF Flattens
  <2> QED  BY <2>2
<1> DEFINE m == n - 1
<1>3. m \in Nat /\ n = m + 1 /\ m \notin T
  BY <1>1, <1>2
<1>4. PICK f : Flattens(m, s, f)
  BY <1>3
<1> HIDE DEF m
<1> DEFINE g == [i \in 1 .. m + 1 |-> IF i = 1 THEN s[i] ELSE Cat(f[i - 1], s[i])]
<1>5. ASSUME NEW i \in 1 .. m
      PROVE  g[i] = f[i]
  <2>1. f[i] = IF i = 1 THEN s[i] ELSE Cat(f[i - 1], s[i])
    BY <1>4, Zenon DEF Flattens
  <2>2. i \in 1 .. m + 1
    BY <1>3
  <2>3. g[i] = IF i = 1 THEN s[i] ELSE Cat(f[i - 1], s[i])
    BY <2>2, Zenon
  <2> QED  BY <2>1, <2>3, Zenon
<1>6. ASSUME NEW i \in 1 .. m + 1
      PROVE  (IF i = 1 THEN s[i] ELSE Cat(f[i - 1], s[i])) = (IF i = 1 THEN s[i] ELSE Cat(g[i - 1], s[i]))
  <2>1. CASE i = 1
    BY <2>1
  <2>2. CASE i # 1
    <3>1. i - 1 \in 1 .. m
      BY <1>3, <2>2
    <3>2. g[i - 1] = f[i - 1]
      BY <1>5, <3>1
    <3> HIDE DEF g
    <3> QED  BY <3>2
  <2> QED  BY <2>1, <2>2
<1>7. Flattens(m + 1, s, g)
  <2> DEFINE u == [i \in 1 .. m + 1 |-> IF i = 1 THEN s[i] ELSE Cat(g[i - 1], s[i])]
  <2>1. g = u
    BY <1>6, Zenon
  <2> QED  BY <2>1, Zenon DEF Flattens
<1> QED  BY <1>1, <1>3, <1>7

\* The concatenations of the first sequences.
Sums(s, n, f) == f[0] = <<>> /\ \A i \in 1 .. n : f[i] = Cat(f[i - 1], s[i])

\* They are sequences over the same set.
LEMMA SumsTyped ==
    ASSUME NEW Q, Monoid(Q), NEW s, NEW n \in Nat, \A i \in 1 .. n : s[i] \in Q,
           NEW f, Sums(s, n, f)
    PROVE  \A i \in 0 .. n : f[i] \in Q
<1> SUFFICES ASSUME NEW k \in 0 .. n, f[k] \notin Q PROVE FALSE
  OBVIOUS
<1> DEFINE Bad == {i \in 0 .. n : f[i] \notin Q}
<1>1. PICK i \in Bad : \A y \in Bad : i =< y
  <2>1. Bad \subseteq Nat /\ Bad # {}
    OBVIOUS
  <2> HIDE DEF Bad
  <2> QED  BY <2>1, LeastNat
<1>2. i # 0
  BY <1>1 DEF Sums, Monoid
<1>3. i - 1 \in 0 .. n /\ i - 1 \notin Bad /\ i \in 1 .. n
  BY <1>1, <1>2
<1>4. f[i] = Cat(f[i - 1], s[i]) /\ f[i - 1] \in Q /\ s[i] \in Q
  BY <1>3 DEF Sums
<1>5. \A a, b \in Q : Cat(a, b) \in Q
  BY Zenon DEF Monoid
<1>6. f[i] \in Q
  BY <1>4, <1>5, Zenon
<1> QED  BY <1>1, <1>6

\* The sums of all but the first sequence.
Shifted(s, t, n, Q) == \A i \in 1 .. n : t[i] = s[i + 1] /\ t[i] \in Q

\* The first sequence comes before the sum of the others.
LEMMA SumsTail ==
    ASSUME NEW Q, Monoid(Q), NEW s, NEW t, NEW n \in Nat, s[1] \in Q, Shifted(s, t, n, Q),
           NEW f, Sums(s, n + 1, f), NEW g, Sums(t, n, g)
    PROVE  f[n + 1] = Cat(s[1], g[n])
<1>0. \A i \in 1 .. n : t[i] = s[i + 1] /\ t[i] \in Q
  BY Zenon DEF Shifted
<1> SUFFICES ASSUME NEW k \in 0 .. n, f[k + 1] # Cat(s[1], g[k]) PROVE FALSE
  OBVIOUS
<1>1. \A i \in 0 .. n : g[i] \in Q
  <2>1. \A i \in 1 .. n : t[i] \in Q
    BY <1>0
  <2> QED  BY <2>1, SumsTyped
<1> DEFINE Bad == {i \in 0 .. n : f[i + 1] # Cat(s[1], g[i])}
<1>2. PICK i \in Bad : \A y \in Bad : i =< y
  <2>1. Bad \subseteq Nat /\ Bad # {}
    OBVIOUS
  <2> HIDE DEF Bad
  <2> QED  BY <2>1, LeastNat
<1>3. i # 0
  <2>1. 1 \in 1 .. n + 1 /\ 1 - 1 = 0
    OBVIOUS
  <2>2. f[1] = Cat(<<>>, s[1]) /\ g[0] = <<>>
    BY <2>1 DEF Sums
  <2>3. Cat(<<>>, s[1]) = Cat(s[1], <<>>)
    BY <2>1 DEF Monoid
  <2> QED  BY <1>2, <2>2, <2>3
<1>4. /\ i - 1 \in 0 .. n /\ i - 1 \notin Bad /\ i \in 1 .. n /\ i + 1 \in 1 .. n + 1
      /\ (i - 1) + 1 = i /\ (i + 1) - 1 = i
  BY <1>2, <1>3
<1>5. f[i] = Cat(s[1], g[i - 1])
  BY <1>4
<1>6. f[i + 1] = Cat(f[i], s[i + 1]) /\ g[i] = Cat(g[i - 1], s[i + 1])
  BY <1>0, <1>4 DEF Sums
<1>7. s[1] \in Q /\ g[i - 1] \in Q /\ s[i + 1] \in Q
  BY <1>0, <1>1, <1>4
<1>8. Cat(Cat(s[1], g[i - 1]), s[i + 1]) = Cat(s[1], Cat(g[i - 1], s[i + 1]))
  BY <1>7 DEF Monoid
<1> QED  BY <1>2, <1>5, <1>6, <1>8

\* The sums are determined by the sequence.
LEMMA SumsUnique ==
    ASSUME NEW s, NEW n \in Nat, NEW f, NEW g, Sums(s, n, f), Sums(s, n, g)
    PROVE  \A i \in 0 .. n : f[i] = g[i]
<1> SUFFICES ASSUME NEW k \in 0 .. n, f[k] # g[k] PROVE FALSE
  OBVIOUS
<1> DEFINE Bad == {i \in 0 .. n : f[i] # g[i]}
<1>1. PICK i \in Bad : \A y \in Bad : i =< y
  <2>1. Bad \subseteq Nat /\ Bad # {}
    OBVIOUS
  <2> HIDE DEF Bad
  <2> QED  BY <2>1, LeastNat
<1>2. i # 0
  BY <1>1 DEF Sums
<1>3. i - 1 \in 0 .. n /\ i - 1 \notin Bad /\ i \in 1 .. n
  BY <1>1, <1>2
<1>4. f[i] = Cat(f[i - 1], s[i]) /\ g[i] = Cat(g[i - 1], s[i]) /\ f[i - 1] = g[i - 1]
  BY <1>3 DEF Sums
<1> QED  BY <1>1, <1>4

\* Flattening gives the last of the sums.
LEMMA FlattenSums ==
    ASSUME NEW T, NEW s \in Seq(Seq(T))
    PROVE  \E f : Sums(s, Len(s), f) /\ Flat(s) = f[Len(s)]
<1> DEFINE n == Len(s)
<1>1. n \in Nat /\ DOMAIN s = 1 .. n /\ \A i \in 1 .. n : s[i] \in Seq(T)
  OBVIOUS
<1>2. CASE n = 0
  <2> DEFINE f == [i \in {0} |-> <<>>]
  <2>1. Flat(s) = s /\ s = <<>>
    BY <1>2 DEF Flat, FlattenSeq
  <2>2. Sums(s, n, f)
    BY <1>2 DEF Sums
  <2>3. f[n] = <<>>
    BY <1>2
  <2> QED  BY <2>1, <2>2, <2>3
<1>3. CASE n # 0
  <2> DEFINE h == CHOOSE f : Flattens(n, s, f)
  <2>1. Flattens(n, s, h)
    BY <1>1, FlattenExists, Zenon
  <2>2. Flat(s) = h[n]
    BY <1>3, Zenon DEF Flat, FlattenSeq, Flattens, Cat
  <2> HIDE DEF h
  <2> DEFINE f == [i \in 0 .. n |-> IF i = 0 THEN <<>> ELSE h[i]]
  <2> HIDE DEF n
  <2>3. f[0] = <<>>
    BY <1>1
  <2>4. ASSUME NEW i \in 1 .. n
        PROVE  f[i] = Cat(f[i - 1], s[i])
    <3>1. h[i] = IF i = 1 THEN s[i] ELSE Cat(h[i - 1], s[i])
      BY <2>1, Zenon DEF Flattens
    <3>2. f[i] = h[i] /\ f[i - 1] = IF i = 1 THEN <<>> ELSE h[i - 1]
      BY <1>1
    <3>3. Cat(<<>>, s[i]) = s[i]
      BY <1>1, SeqMonoid DEF Monoid
    <3> HIDE DEF f
    <3> QED  BY <3>1, <3>2, <3>3
  <2>5. f[n] = h[n]
    BY <1>1, <1>3 DEF n
  <2> HIDE DEF f
  <2>6. Sums(s, n, f)
    BY <2>3, <2>4 DEF Sums
  <2> QED  BY <2>2, <2>5, <2>6 DEF n
<1> QED  BY <1>2, <1>3

\* Flattening typed sequences, from either end.
THEOREM FlattenAppend ==
    ASSUME NEW T, NEW s \in Seq(Seq(T)), NEW e \in Seq(T)
    PROVE  Flat(s) \in Seq(T) /\ Flat(Append(s, e)) = Flat(s) \o e
<1> DEFINE t == Append(s, e)
           n == Len(s)
<1>1. /\ t \in Seq(Seq(T)) /\ Len(t) = n + 1 /\ n \in Nat /\ t[n + 1] = e
      /\ \A i \in 1 .. n : t[i] = s[i] /\ s[i] \in Seq(T)
  OBVIOUS
<1> HIDE DEF t, n
<1>2. PICK f : Sums(s, n, f) /\ Flat(s) = f[n]
  BY FlattenSums DEF n
<1>3. PICK g : Sums(t, n + 1, g) /\ Flat(t) = g[n + 1]
  BY <1>1, FlattenSums
<1>4. Sums(s, n, g)
  BY <1>1, <1>3 DEF Sums
<1>5. f[n] = g[n]
  <2>1. n \in 0 .. n
    BY <1>1
  <2> QED  BY <1>1, <1>2, <1>4, <2>1, SumsUnique
<1>6. g[n + 1] = Cat(g[n], e)
  <2>1. n + 1 \in 1 .. n + 1 /\ (n + 1) - 1 = n
    BY <1>1
  <2> QED  BY <1>1, <1>3, <2>1 DEF Sums
<1>7. f[n] \in Seq(T)
  <2>1. n \in 0 .. n
    BY <1>1
  <2> QED  BY <1>1, <1>2, <2>1, SeqMonoid, SumsTyped
<1> QED  BY <1>2, <1>3, <1>5, <1>6, <1>7 DEF t, Cat

\* A flattened sequence begins with the first of the sequences.
THEOREM FlattenHead ==
    ASSUME NEW T, NEW s \in Seq(Seq(T)), s # <<>>
    PROVE  Flat(s) = Head(s) \o Flat(Tail(s)) /\ Flat(Tail(s)) \in Seq(T)
<1> DEFINE t == Tail(s)
           n == Len(t)
<1>1. /\ t \in Seq(Seq(T)) /\ Len(s) = n + 1 /\ n \in Nat /\ Head(s) = s[1]
      /\ \A i \in 1 .. n + 1 : s[i] \in Seq(T)
      /\ \A i \in 1 .. n : t[i] = s[i + 1] /\ t[i] \in Seq(T)
  OBVIOUS
<1> HIDE DEF t, n
<1>2. PICK f : Sums(s, n + 1, f) /\ Flat(s) = f[n + 1]
  BY <1>1, FlattenSums
<1>3. PICK g : Sums(t, n, g) /\ Flat(t) = g[n]
  BY <1>1, FlattenSums DEF n
<1>4. n \in 0 .. n
  BY <1>1
<1>5. g[n] \in Seq(T)
  BY <1>1, <1>3, <1>4, SeqMonoid, SumsTyped
<1>6. f[n + 1] = Cat(s[1], g[n])
  <2>1. Monoid(Seq(T))
    BY SeqMonoid, Zenon
  <2>2. s[1] \in Seq(T) /\ Shifted(s, t, n, Seq(T))
    <3>1. 1 \in 1 .. n + 1
      BY <1>1
    <3> QED  BY <1>1, <3>1 DEF Shifted
  <2>3. n \in Nat /\ Sums(s, n + 1, f) /\ Sums(t, n, g)
    BY <1>1, <1>2, <1>3
  <2> QED  BY <2>1, <2>2, <2>3, SumsTail
<1> QED  BY <1>1, <1>2, <1>3, <1>5, <1>6 DEF t, Cat

-----------------------------------------------------------------------------
(* Parts of sequences of numbers *)

\* What a part of a sequence is.
LEMMA PartOf ==
    ASSUME NEW x \in Seq(Nat), NEW a \in Nat, NEW n \in Nat, a =< n, n =< Len(x)
    PROVE  /\ SubSeq(x, a + 1, n) \in Seq(Nat) /\ Len(SubSeq(x, a + 1, n)) = n - a
           /\ \A j \in 1 .. n - a : SubSeq(x, a + 1, n)[j] = x[a + j]
<1>1. \A j \in a + 1 .. n : x[j] \in Nat
  OBVIOUS
<1>2. /\ SubSeq(x, a + 1, n) \in Seq(Nat)
      /\ Len(SubSeq(x, a + 1, n)) = IF a + 1 =< n THEN n - (a + 1) + 1 ELSE 0
      /\ \A j \in 1 .. n - (a + 1) + 1 : SubSeq(x, a + 1, n)[j] = x[(a + 1) + j - 1]
  <2> DEFINE c == a + 1
  <2>1. c \in Int /\ n \in Int /\ \A j \in c .. n : x[j] \in Nat
    BY <1>1
  <2> DEFINE S == Nat
  <2>3. \A j \in c .. n : x[j] \in S
    BY <2>1
  <2> HIDE DEF c, S
  <2>2. /\ SubSeq(x, c, n) \in Seq(S) /\ Len(SubSeq(x, c, n)) = IF c =< n THEN n - c + 1 ELSE 0
        /\ \A j \in 1 .. n - c + 1 : SubSeq(x, c, n)[j] = x[c + j - 1]
    BY <2>1, <2>3, SubSeqProperties
  <2> QED  BY <2>2, Zenon DEF c, S
<1>3. \A j \in 1 .. n - a : (a + 1) + j - 1 = a + j /\ j \in 1 .. n - (a + 1) + 1
  OBVIOUS
<1>4. Len(SubSeq(x, a + 1, n)) = n - a
  BY <1>2
<1>5. \A j \in 1 .. n - a : SubSeq(x, a + 1, n)[j] = x[a + j]
  BY <1>2, <1>3
<1> QED  BY <1>2, <1>4, <1>5

\* Sequences of the same elements are equal.
LEMMA SameParts ==
    ASSUME NEW x \in Seq(Nat), NEW y \in Seq(Nat), NEW l \in Nat, Len(x) = l, Len(y) = l,
           \A j \in 1 .. l : x[j] = y[j]
    PROVE  x = y
  BY SeqEqual

\* A part of a part is a part.
LEMMA PartOfPart ==
    ASSUME NEW x \in Seq(Nat), NEW a \in Nat, NEW c \in Nat, NEW n \in Nat, a + c =< n, n =< Len(x)
    PROVE  SubSeq(SubSeq(x, a + 1, n), c + 1, n - a) = SubSeq(x, (a + c) + 1, n)
<1> DEFINE y == SubSeq(x, a + 1, n)
           u == SubSeq(y, c + 1, n - a)
           v == SubSeq(x, (a + c) + 1, n)
           l == n - (a + c)
<1>1. y \in Seq(Nat) /\ Len(y) = n - a /\ \A j \in 1 .. n - a : y[j] = x[a + j]
  BY PartOf
<1> HIDE DEF y
<1>2. u \in Seq(Nat) /\ Len(u) = (n - a) - c /\ \A j \in 1 .. (n - a) - c : u[j] = y[c + j]
  <2>1. n - a \in Nat /\ c =< n - a /\ n - a =< Len(y)
    BY <1>1
  <2> QED  BY <1>1, <2>1, PartOf
<1>3. v \in Seq(Nat) /\ Len(v) = n - (a + c) /\ \A j \in 1 .. n - (a + c) : v[j] = x[(a + c) + j]
  <2>1. a + c \in Nat
    OBVIOUS
  <2> QED  BY <2>1, PartOf
<1> HIDE DEF u, v
<1>4. l \in Nat /\ Len(u) = l /\ Len(v) = l
  BY <1>2, <1>3
<1>5. \A j \in 1 .. l : u[j] = v[j]
  <2> TAKE j \in 1 .. l
  <2>1. c + j \in 1 .. n - a /\ a + (c + j) = (a + c) + j /\ j \in 1 .. (n - a) - c
    OBVIOUS
  <2>2. u[j] = y[c + j] /\ v[j] = x[(a + c) + j] /\ y[c + j] = x[a + (c + j)]
    BY <1>1, <1>2, <1>3, <2>1
  <2> QED  BY <2>1, <2>2
<1> HIDE DEF l
<1>6. u = v
  BY <1>2, <1>3, <1>4, <1>5, SameParts
<1> QED  BY <1>6 DEF u, v, y

\* A sequence and what follows it.
LEMMA JoinIs ==
    ASSUME NEW x \in Seq(Nat), NEW y \in Seq(Nat)
    PROVE  /\ x \o y \in Seq(Nat) /\ Len(x \o y) = Len(x) + Len(y) /\ Len(x) \in Nat /\ Len(y) \in Nat
           /\ \A j \in 1 .. Len(x) : (x \o y)[j] = x[j]
           /\ \A j \in 1 .. Len(y) : (x \o y)[Len(x) + j] = y[j]
<1>1. /\ x \o y \in Seq(Nat) /\ Len(x \o y) = Len(x) + Len(y) /\ Len(x) \in Nat /\ Len(y) \in Nat
      /\ \A j \in 1 .. Len(x) + Len(y) : (x \o y)[j] = IF j =< Len(x) THEN x[j] ELSE y[j - Len(x)]
  BY ConcatProperties
<1>2. ASSUME NEW j \in 1 .. Len(x)
      PROVE  (x \o y)[j] = x[j]
  <2>1. j \in 1 .. Len(x) + Len(y) /\ j =< Len(x)
    BY <1>1
  <2> QED  BY <1>1, <2>1
<1>3. ASSUME NEW j \in 1 .. Len(y)
      PROVE  (x \o y)[Len(x) + j] = y[j]
  <2>1. Len(x) + j \in 1 .. Len(x) + Len(y) /\ ~(Len(x) + j =< Len(x)) /\ (Len(x) + j) - Len(x) = j
    BY <1>1
  <2> QED  BY <1>1, <2>1
<1> QED  BY <1>1, <1>2, <1>3

\* Two parts of a sequence next to each other.
LEMMA PartsMeet ==
    ASSUME NEW x \in Seq(Nat), NEW a \in Nat, NEW c \in Nat, NEW n \in Nat, a =< c, c =< n, n =< Len(x)
    PROVE  SubSeq(x, a + 1, c) \o SubSeq(x, c + 1, n) = SubSeq(x, a + 1, n)
<1> DEFINE u == SubSeq(x, a + 1, c)
           v == SubSeq(x, c + 1, n)
           t == SubSeq(x, a + 1, n)
           l == n - a
<1>1. u \in Seq(Nat) /\ Len(u) = c - a /\ \A j \in 1 .. c - a : u[j] = x[a + j]
  <2>1. c =< Len(x)
    OBVIOUS
  <2> QED  BY <2>1, PartOf
<1>2. v \in Seq(Nat) /\ Len(v) = n - c /\ \A j \in 1 .. n - c : v[j] = x[c + j]
  BY PartOf
<1>3. t \in Seq(Nat) /\ Len(t) = l /\ \A j \in 1 .. l : t[j] = x[a + j]
  <2>1. a =< n
    OBVIOUS
  <2> QED  BY <2>1, PartOf
<1> HIDE DEF u, v, t
<1>4. l \in Nat /\ (c - a) + (n - c) = l
  OBVIOUS
<1>5. /\ u \o v \in Seq(Nat) /\ Len(u \o v) = Len(u) + Len(v)
      /\ \A j \in 1 .. Len(u) : (u \o v)[j] = u[j]
      /\ \A j \in 1 .. Len(v) : (u \o v)[Len(u) + j] = v[j]
  BY <1>1, <1>2, JoinIs
<1>6. Len(u \o v) = l /\ \A j \in 1 .. l : (u \o v)[j] = t[j]
  <2>1. Len(u \o v) = l
    BY <1>1, <1>2, <1>4, <1>5
  <2>2. ASSUME NEW j \in 1 .. l, j \in 1 .. c - a
        PROVE  (u \o v)[j] = t[j]
    BY <1>1, <1>3, <1>5, <2>2
  <2>3. ASSUME NEW j \in 1 .. l, ~(j \in 1 .. c - a)
        PROVE  (u \o v)[j] = t[j]
    <3> DEFINE i == j - (c - a)
    <3>1. i \in 1 .. n - c /\ c + i = a + j /\ (c - a) + i = j
      BY <2>3
    <3> HIDE DEF i
    <3>2. (u \o v)[(c - a) + i] = v[i]
      BY <1>1, <1>2, <1>5, <3>1
    <3>3. v[i] = x[c + i] /\ t[j] = x[a + j]
      BY <1>2, <1>3, <3>1
    <3> QED  BY <3>1, <3>2, <3>3
  <2> QED  BY <2>1, <2>2, <2>3
<1> HIDE DEF l
<1>7. u \o v = t
  BY <1>3, <1>4, <1>5, <1>6, SameParts
<1> QED  BY <1>7 DEF u, v, t
=============================================================================
