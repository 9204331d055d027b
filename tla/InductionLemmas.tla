--------------------------- MODULE InductionLemmas ---------------------------
(***************************************************************************)
(* Induction for the provers at hand: over sets of naturals instead of      *)
(* predicates, so that every fact below is first-order.  From it follow     *)
(* what a recursive function computes, where FlattenSeq puts the elements   *)
(* of its sequences, and how SumFunction changes with one of its terms.     *)
(***************************************************************************)
EXTENDS Integers, Sequences, SequencesExt, SequenceTheorems, FiniteSetTheorems,
        TLAPS

\* The two parts of a concatenation, with their lengths by name.
LEMMA ConcatAt ==
    ASSUME NEW X, NEW a \in Seq(X), NEW b \in Seq(X), NEW m, NEW n,
           m = Len(a), n = Len(b)
    PROVE  /\ m \in Nat /\ n \in Nat
           /\ a \o b \in Seq(X) /\ Len(a \o b) = m + n
           /\ \A j \in 1..m : (a \o b)[j] = a[j]
           /\ \A j \in 1..n : (a \o b)[m + j] = b[j]
<1>1. m \in Nat /\ n \in Nat
  OBVIOUS
<1>2. /\ a \o b \in Seq(X) /\ Len(a \o b) = m + n
      /\ \A i \in 1..(m + n) : (a \o b)[i] = IF i <= m THEN a[i] ELSE b[i - m]
  BY ConcatProperties
<1>3. \A j \in 1..m : (a \o b)[j] = a[j]
  BY <1>1, <1>2
<1>4. ASSUME NEW j \in 1..n PROVE (a \o b)[m + j] = b[j]
  <2>1. m + j \in 1..(m + n) /\ ~(m + j <= m) /\ (m + j) - m = j
    BY <1>1
  <2> QED
    BY <1>2, <2>1
<1> QED
  BY <1>1, <1>2, <1>3, <1>4

\* What a slice of a sequence holds.
LEMMA SliceAt ==
    ASSUME NEW X, NEW s \in Seq(X), NEW a \in Nat, NEW b \in Nat,
           a <= b, b <= Len(s)
    PROVE  /\ SubSeq(s, a + 1, b) \in Seq(X)
           /\ Len(SubSeq(s, a + 1, b)) = b - a
           /\ \A i \in 1..(b - a) : SubSeq(s, a + 1, b)[i] = s[a + i]
<1> DEFINE l == Len(s)
<1>1. l \in Nat
  OBVIOUS
<1>2. \A i \in 1..l : s[i] \in X
  BY ElementOfSeq
<1> HIDE DEF l
<1>3. \A i \in (a + 1)..b : i \in 1..l
  BY <1>1 DEF l
<1>4. \A i \in (a + 1)..b : s[i] \in X
  BY <1>2, <1>3
<1>5. a + 1 \in Int /\ b \in Int
  OBVIOUS
<1>6. /\ SubSeq(s, a + 1, b) \in Seq(X)
      /\ Len(SubSeq(s, a + 1, b)) = IF a + 1 <= b THEN b - (a + 1) + 1 ELSE 0
      /\ \A i \in 1..(b - (a + 1) + 1) : SubSeq(s, a + 1, b)[i] = s[a + 1 + i - 1]
  BY <1>4, <1>5, SubSeqProperties
<1>7. b - (a + 1) + 1 = b - a
  OBVIOUS
<1>8. \A i \in 1..(b - a) : a + 1 + i - 1 = a + i
  OBVIOUS
<1> QED
  BY <1>6, <1>7, <1>8

\* A sequence that agrees with a slice is the slice.
LEMMA SliceIs ==
    ASSUME NEW X, NEW s \in Seq(X), NEW a \in Nat, NEW b \in Nat,
           a <= b, b <= Len(s), NEW t \in Seq(X), Len(t) = b - a,
           \A i \in 1..(b - a) : t[i] = s[a + i]
    PROVE  t = SubSeq(s, a + 1, b)
<1> DEFINE u == SubSeq(s, a + 1, b)
<1>1. u \in Seq(X) /\ Len(u) = b - a /\ \A i \in 1..(b - a) : u[i] = s[a + i]
  BY SliceAt
<1> HIDE DEF u
<1>2. Len(t) = Len(u) /\ \A i \in 1..Len(t) : t[i] = u[i]
  BY <1>1
<1>3. t = u
  BY <1>1, <1>2, SeqEqual
<1> QED
  BY <1>3 DEF u

\* Two adjacent slices make one.
LEMMA SliceJoin ==
    ASSUME NEW X, NEW s \in Seq(X), NEW a \in Nat, NEW b \in Nat, NEW c \in Nat,
           a <= b, b <= c, c <= Len(s)
    PROVE  SubSeq(s, a + 1, b) \o SubSeq(s, b + 1, c) = SubSeq(s, a + 1, c)
<1> DEFINE l == Len(s)
<1>1. l \in Nat
  OBVIOUS
<1>2. /\ a + 1 \in 1..(l + 1) /\ b \in (a + 1 - 1)..l /\ c \in b..l
  BY <1>1
<1> QED
  BY <1>2, ConcatAdjacentSubSeq

\* A slice of a slice is a slice.
LEMMA SliceSlice ==
    ASSUME NEW X, NEW s \in Seq(X), NEW a \in Nat, NEW b \in Nat,
           a <= b, b <= Len(s), NEW c \in Nat, NEW d \in Nat, c <= d, d <= b - a
    PROVE  SubSeq(SubSeq(s, a + 1, b), c + 1, d) = SubSeq(s, (a + c) + 1, a + d)
<1> DEFINE t == SubSeq(s, a + 1, b)
           u == SubSeq(t, c + 1, d)
           x == a + c
           y == a + d
           l == Len(s)
<1>1. t \in Seq(X) /\ Len(t) = b - a /\ \A i \in 1..(b - a) : t[i] = s[a + i]
  BY SliceAt
<1>2. d <= Len(t)
  BY <1>1
<1> HIDE DEF t
<1>3. u \in Seq(X) /\ Len(u) = d - c /\ \A i \in 1..(d - c) : u[i] = t[c + i]
  BY <1>1, <1>2, SliceAt
<1>4. l \in Nat
  OBVIOUS
<1>5. x \in Nat /\ y \in Nat /\ x <= y /\ y <= l /\ y - x = d - c
  BY <1>4
<1>6. ASSUME NEW i \in 1..(d - c) PROVE u[i] = s[x + i]
  <2>1. c + i \in 1..(b - a) /\ a + (c + i) = x + i
    OBVIOUS
  <2> QED
    BY <1>1, <1>3, <2>1
<1> HIDE DEF u, x, y, l
<1>7. Len(u) = y - x /\ \A i \in 1..(y - x) : u[i] = s[x + i]
  BY <1>3, <1>5, <1>6
<1>8. u = SubSeq(s, x + 1, y)
  BY <1>3, <1>5, <1>7, SliceIs DEF l
<1> QED
  BY <1>8 DEF u, x, y, t

\* A set of naturals has a least member.
LEMMA Least ==
    ASSUME NEW T \in SUBSET Nat, T # {}
    PROVE  \E m \in T : \A k \in T : m <= k
<1> DEFINE R == OpToRel(<, Nat)
<1>1. IsWellFoundedOn(R, Nat)
  BY NatLessThanWellFounded, Zenon
<1> HIDE DEF R
<1>2. PICK m \in T : \A k \in T : <<k, m>> \notin R
  BY <1>1, WFMin
<1>3. \A k \in T : k < m => <<k, m>> \in R
  BY SMT DEF R, OpToRel
<1>4. m \in Nat /\ \A k \in T : k \in Nat /\ ~(k < m)
  BY <1>2, <1>3
<1>5. \A k \in T : m <= k
  BY <1>4
<1> QED
  BY <1>5

\* Induction over an initial part of the naturals.
LEMMA UpTo ==
    ASSUME NEW n \in Nat, NEW S, 0 \in S,
           \A i \in 0..(n - 1) : i \in S => i + 1 \in S
    PROVE  \A i \in 0..n : i \in S
<1> DEFINE T == {i \in 0..n : i \notin S}
<1> SUFFICES ASSUME T # {} PROVE FALSE
  OBVIOUS
<1>1. PICK m \in T : \A k \in T : m <= k
  <2>1. T \in SUBSET Nat
    OBVIOUS
  <2> HIDE DEF T
  <2> QED
    BY <2>1, Least
<1>2. m \in 1..n /\ m \notin S
  OBVIOUS
<1>3. m - 1 \in 0..(n - 1) /\ m - 1 \notin T
  BY <1>1, <1>2
<1>4. m - 1 \in S
  BY <1>3
<1>5. (m - 1) + 1 \in S
  BY <1>3, <1>4
<1> QED
  BY <1>2, <1>5

\* The same from the top of an interval down.
LEMMA DownFrom ==
    ASSUME NEW n \in Nat, NEW S, n \in S,
           \A i \in 1..n : i \in S => i - 1 \in S
    PROVE  \A i \in 0..n : i \in S
<1> DEFINE U == {i \in 0..n : n - i \in S}
<1>1. 0 \in U
  OBVIOUS
<1>2. ASSUME NEW i \in 0..(n - 1), i \in U PROVE i + 1 \in U
  <2>1. n - i \in 1..n /\ n - i \in S
    BY <1>2
  <2>2. (n - i) - 1 \in S
    BY <2>1
  <2>3. (n - i) - 1 = n - (i + 1) /\ i + 1 \in 0..n
    OBVIOUS
  <2> QED
    BY <2>2, <2>3
<1>3. \A i \in 0..n : i \in U
  <2> HIDE DEF U
  <2> QED
    BY <1>1, <1>2, UpTo
<1>4. ASSUME NEW i \in 0..n PROVE i \in S
  <2>1. n - i \in 0..n /\ n - (n - i) = i
    OBVIOUS
  <2>2. n - i \in U
    BY <1>3, <2>1
  <2> QED
    BY <2>1, <2>2
<1> QED
  BY <1>4

-----------------------------------------------------------------------------
(***************************************************************************)
(* Recursive functions: F[i][v] is the value at i, given that at i - 1.     *)
(***************************************************************************)

Recursive(g, n, V, a, F) ==
    g \in [0..n -> V] /\ g[0] = a /\ \A i \in 1..n : g[i] = F[i][g[i - 1]]

\* The function exists.
LEMMA RecursionExists ==
    ASSUME NEW n \in Nat, NEW V, NEW a \in V, NEW F \in [1..n -> [V -> V]]
    PROVE  \E g : Recursive(g, n, V, a, F)
<1> DEFINE S == {k \in 0..n : \E g : Recursive(g, k, V, a, F)}
<1>1. 0 \in S
  <2>1. Recursive([i \in 0..0 |-> a], 0, V, a, F)
    BY DEF Recursive
  <2> QED
    BY <2>1
<1>2. ASSUME NEW k \in 0..(n - 1), k \in S PROVE k + 1 \in S
  <2>1. PICK g : Recursive(g, k, V, a, F)
    BY <1>2
  <2> DEFINE h == [i \in 0..(k + 1) |-> IF i = k + 1 THEN F[k + 1][g[k]] ELSE g[i]]
  <2>2. g[k] \in V /\ k + 1 \in 1..n
    BY <2>1 DEF Recursive
  <2>3. F[k + 1][g[k]] \in V
    BY <2>2
  <2>4. h \in [0..(k + 1) -> V] /\ h[0] = a
    BY <2>1, <2>3 DEF Recursive
  <2>5. \A i \in 1..(k + 1) : h[i] = F[i][h[i - 1]]
    BY <2>1 DEF Recursive
  <2>6. Recursive(h, k + 1, V, a, F)
    BY <2>4, <2>5 DEF Recursive
  <2> QED
    BY <2>2, <2>6
<1>3. \A k \in 0..n : k \in S
  <2> HIDE DEF S
  <2> QED
    BY <1>1, <1>2, UpTo
<1>4. n \in S
  BY <1>3
<1> QED
  BY <1>4

-----------------------------------------------------------------------------
(***************************************************************************)
(* FlattenSeq, by the parts it is put together from.                        *)
(***************************************************************************)

\* g[m] is the concatenation of the first m parts.
Joins(g, ss) == g[0] = <<>> /\ \A i \in 1..Len(ss) : g[i] = g[i - 1] \o ss[i]

\* There is such a g ...
LEMMA JoinsExists ==
    ASSUME NEW X, NEW ss \in Seq(Seq(X))
    PROVE  \E g \in [0..Len(ss) -> Seq(X)] : Joins(g, ss)
<1> DEFINE n == Len(ss)
           V == Seq(X)
           e == <<>>
           F == [i \in 1..n |-> [v \in V |-> v \o ss[i]]]
<1>1. n \in Nat /\ e \in V /\ \A i \in 1..n : ss[i] \in V
  OBVIOUS
<1>2. \A i \in 1..n, v \in V : v \o ss[i] \in V
  BY <1>1
<1> HIDE DEF n, V, e
<1>3. F \in [1..n -> [V -> V]]
  BY <1>2
<1>4. \A i \in 1..n, v \in V : F[i][v] = v \o ss[i]
  OBVIOUS
<1> HIDE DEF F
<1>5. PICK g : Recursive(g, n, V, e, F)
  BY <1>1, <1>3, RecursionExists
<1>6. \A i \in 1..n : g[i] = g[i - 1] \o ss[i]
  <2> TAKE i \in 1..n
  <2>1. i - 1 \in 0..n
    BY <1>1
  <2>2. g[i - 1] \in V /\ g[i] = F[i][g[i - 1]]
    BY <1>5, <2>1 DEF Recursive
  <2> QED
    BY <1>4, <2>2
<1> QED
  BY <1>5, <1>6 DEF Recursive, Joins, n, V, e

\* ... and FlattenSeq is its last value.
LEMMA FlattenIsJoin ==
    ASSUME NEW X, NEW ss \in Seq(Seq(X)), NEW g \in [0..Len(ss) -> Seq(X)],
           Joins(g, ss)
    PROVE  FlattenSeq(ss) = g[Len(ss)]
<1>1. CASE Len(ss) = 0
  <2>1. ss = <<>> /\ g[0] = <<>>
    BY <1>1 DEF Joins
  <2> QED
    BY <1>1, <2>1 DEF FlattenSeq
<1>2. CASE Len(ss) # 0
  <2> DEFINE n == Len(ss)
             next(f, i) == IF i = 1 THEN ss[i] ELSE f[i - 1] \o ss[i]
             flat(f) == f = [i \in 1..n |-> next(f, i)]
             f0 == [i \in 1..n |-> g[i]]
             f == CHOOSE ff : flat(ff)
  <2>1. n \in Nat \ {0} /\ ss[1] \in Seq(X)
    BY <1>2
  <2>2. FlattenSeq(ss) = f[n]
    BY <1>2 DEF FlattenSeq
  <2>3. \A s \in Seq(X) : <<>> \o s = s
    OBVIOUS
  <2> HIDE DEF n, f
  <2>4. g[0] = <<>> /\ \A i \in 1..n : g[i] = g[i - 1] \o ss[i]
    BY DEF Joins, n
  <2>5. g[1] = ss[1]
    <3>1. 1 \in 1..n /\ 1 - 1 = 0
      BY <2>1
    <3>2. g[1] = g[1 - 1] \o ss[1]
      BY <2>4, <3>1
    <3>3. g[1] = <<>> \o ss[1]
      BY <2>4, <3>1, <3>2
    <3> QED
      BY <2>1, <2>3, <3>3
  <2>6. \A i \in 1..n : g[i] = next(f0, i)
    <3> TAKE i \in 1..n
    <3>1. CASE i = 1
      BY <2>5, <3>1
    <3>2. CASE i # 1
      <4>1. i - 1 \in 1..n
        BY <2>1, <3>2
      <4>2. f0[i - 1] = g[i - 1]
        BY <4>1
      <4> QED
        BY <2>4, <3>2, <4>2
    <3> QED
      BY <3>1, <3>2
  <2>7. flat(f0)
    <3> HIDE DEF next
    <3>1. \A h : h = f0 => [i \in 1..n |-> next(h, i)] = [i \in 1..n |-> g[i]]
      BY <2>6
    <3> QED
      BY <3>1
  <2>8. flat(f)
    <3> HIDE DEF flat
    <3> QED
      BY <2>7 DEF f
  <2>9. \A i \in 1..n : f[i] = next(f, i)
    <3> HIDE DEF next
    <3> QED
      BY <2>8
  <2> DEFINE S == {i \in 0..n : i = 0 \/ f[i] = g[i]}
  <2>10. 0 \in S
    BY <2>1
  <2>11. ASSUME NEW i \in 0..(n - 1), i \in S PROVE i + 1 \in S
    <3>1. i + 1 \in 1..n /\ (i + 1) - 1 = i
      BY <2>1
    <3>2. f[i + 1] = next(f, i + 1) /\ g[i + 1] = g[i] \o ss[i + 1]
      <4> HIDE DEF next
      <4> QED
        BY <2>4, <2>9, <3>1
    <3>3. CASE i = 0
      BY <2>5, <3>1, <3>2, <3>3
    <3>4. CASE i # 0
      <4>1. f[i] = g[i] /\ i + 1 # 1
        BY <2>11, <3>4
      <4>2. next(f, i + 1) = f[i] \o ss[i + 1]
        BY <3>1, <4>1
      <4> HIDE DEF next
      <4>3. f[i + 1] = g[i + 1]
        BY <3>2, <4>1, <4>2
      <4> QED
        BY <3>1, <4>3
    <3> QED
      BY <3>3, <3>4
  <2>12. \A i \in 0..n : i \in S
    <3> HIDE DEF S
    <3> QED
      BY <2>1, <2>10, <2>11, UpTo
  <2>13. f[n] = g[n]
    <3> HIDE DEF next, flat
    <3> QED
      BY <2>1, <2>12
  <2> QED
    BY <2>2, <2>13 DEF n
<1> QED
  BY <1>1, <1>2

\* FlattenSeq of the first m parts, for every m.
LEMMA FlattenPrefixes ==
    ASSUME NEW X, NEW ss \in Seq(Seq(X))
    PROVE  LET G(m) == FlattenSeq([i \in 1..m |-> ss[i]])
           IN  /\ G(0) = <<>> /\ G(Len(ss)) = FlattenSeq(ss)
               /\ \A m \in 0..Len(ss) : G(m) \in Seq(X)
               /\ \A m \in 1..Len(ss) : G(m) = G(m - 1) \o ss[m]
<1> DEFINE G(m) == FlattenSeq([i \in 1..m |-> ss[i]])
           n == Len(ss)
<1>0. n \in Nat
  OBVIOUS
<1>1. PICK g \in [0..Len(ss) -> Seq(X)] : Joins(g, ss)
  BY JoinsExists
<1>2. ASSUME NEW m \in 0..Len(ss) PROVE G(m) = g[m]
  <2> DEFINE p == [i \in 1..m |-> ss[i]]
             gp == [i \in 0..m |-> g[i]]
  <2>1. p \in Seq(Seq(X)) /\ Len(p) = m
    OBVIOUS
  <2>2. /\ \A i \in 1..m : p[i] = ss[i]
        /\ \A i \in 0..m : gp[i] = g[i] /\ i \in 0..Len(ss)
        /\ m \in 0..m
    OBVIOUS
  <2>3. \A i \in 0..m : g[i] \in Seq(X)
    BY <2>2
  <2>4. gp \in [0..Len(p) -> Seq(X)] /\ gp[m] = g[m]
    BY <2>1, <2>2, <2>3
  <2> HIDE DEF p, gp
  <2>5. Joins(gp, p)
    <3>1. gp[0] = <<>>
      BY <1>1, <2>2 DEF Joins
    <3>2. ASSUME NEW i \in 1..Len(p) PROVE gp[i] = gp[i - 1] \o p[i]
      <4>1. i \in 1..m /\ i \in 0..m /\ i - 1 \in 0..m /\ i \in 1..Len(ss)
        BY <2>1
      <4>2. g[i] = g[i - 1] \o ss[i]
        BY <1>1, <4>1 DEF Joins
      <4>3. gp[i] = g[i] /\ gp[i - 1] = g[i - 1] /\ p[i] = ss[i]
        BY <2>2, <4>1
      <4> QED
        BY <4>2, <4>3
    <3> QED
      BY <3>1, <3>2 DEF Joins
  <2>6. FlattenSeq(p) = gp[m]
    BY <2>1, <2>4, <2>5, FlattenIsJoin
  <2> QED
    BY <2>4, <2>6 DEF p
<1>3. FlattenSeq(ss) = g[Len(ss)]
  BY <1>1, FlattenIsJoin
<1> HIDE DEF G, n
<1>4. 0 \in 0..n /\ n \in 0..n
  BY <1>0
<1>5. G(0) = g[0] /\ G(n) = g[n]
  BY <1>2, <1>4 DEF n
<1>6. g[0] = <<>>
  BY <1>1 DEF Joins
<1>7. \A m \in 0..n : G(m) \in Seq(X)
  BY <1>2 DEF n
<1>8. \A m \in 1..n : G(m) = G(m - 1) \o ss[m]
  <2> TAKE m \in 1..n
  <2>1. m \in 0..n /\ m - 1 \in 0..n
    BY <1>0
  <2>2. G(m) = g[m] /\ G(m - 1) = g[m - 1]
    BY <1>2, <2>1 DEF n
  <2>3. g[m] = g[m - 1] \o ss[m]
    BY <1>1 DEF Joins, n
  <2> QED
    BY <2>2, <2>3
<1>9. /\ G(0) = <<>> /\ G(n) = FlattenSeq(ss)
      /\ \A m \in 0..n : G(m) \in Seq(X)
      /\ \A m \in 1..n : G(m) = G(m - 1) \o ss[m]
  BY <1>3, <1>5, <1>6, <1>7, <1>8 DEF n
<1> QED
  BY <1>9 DEF G, n

\* Where part m begins in the whole, less one.
Before(ss, m) == Len(FlattenSeq([i \in 1..m |-> ss[i]]))

\* What FlattenSeq holds at every place.
LEMMA FlattenAt ==
    ASSUME NEW X, NEW ss \in Seq(Seq(X))
    PROVE  /\ FlattenSeq(ss) \in Seq(X)
           /\ Before(ss, 0) = 0 /\ Before(ss, Len(ss)) = Len(FlattenSeq(ss))
           /\ \A m \in 0..Len(ss) :
                 Before(ss, m) \in Nat /\ Before(ss, m) <= Len(FlattenSeq(ss))
           /\ \A m \in 1..Len(ss) :
                 /\ Before(ss, m) = Before(ss, m - 1) + Len(ss[m])
                 /\ \A j \in 1..Len(ss[m]) :
                       FlattenSeq(ss)[Before(ss, m - 1) + j] = ss[m][j]
<1> DEFINE G(m) == FlattenSeq([i \in 1..m |-> ss[i]])
           n == Len(ss)
           all == FlattenSeq(ss)
<1>1. /\ G(0) = <<>> /\ G(n) = all
      /\ \A m \in 0..n : G(m) \in Seq(X)
      /\ \A m \in 1..n : G(m) = G(m - 1) \o ss[m]
  BY FlattenPrefixes
<1>2. n \in Nat /\ \A m \in 1..n : ss[m] \in Seq(X)
  OBVIOUS
<1>3. \A m : Before(ss, m) = Len(G(m))
  BY DEF Before
<1> HIDE DEF G, n, all
<1>4. \A m \in 1..n : m - 1 \in 0..n /\ m \in 0..n
  BY <1>2
<1>5. ASSUME NEW m \in 1..n
      PROVE  /\ Len(G(m)) = Len(G(m - 1)) + Len(ss[m])
             /\ Len(G(m)) \in Nat /\ Len(G(m - 1)) \in Nat /\ Len(ss[m]) \in Nat
             /\ \A j \in 1..Len(G(m - 1)) : G(m)[j] = G(m - 1)[j]
             /\ \A j \in 1..Len(ss[m]) : G(m)[Len(G(m - 1)) + j] = ss[m][j]
  <2> DEFINE a == G(m - 1)
             b == ss[m]
  <2>1. a \in Seq(X) /\ b \in Seq(X) /\ G(m) = a \o b
    BY <1>1, <1>2, <1>4
  <2> HIDE DEF a, b
  <2>2. Len(a) \in Nat /\ Len(b) \in Nat
    BY <2>1
  <2>3. /\ Len(a \o b) = Len(a) + Len(b)
        /\ \A i \in 1..(Len(a) + Len(b)) :
              (a \o b)[i] = IF i <= Len(a) THEN a[i] ELSE b[i - Len(a)]
    BY <2>1, ConcatProperties
  <2>4. \A j \in 1..Len(a) : (a \o b)[j] = a[j]
    BY <2>2, <2>3
  <2>5. ASSUME NEW j \in 1..Len(b) PROVE (a \o b)[Len(a) + j] = b[j]
    <3>1. /\ Len(a) + j \in 1..(Len(a) + Len(b)) /\ ~(Len(a) + j <= Len(a))
          /\ (Len(a) + j) - Len(a) = j
      BY <2>2
    <3> QED
      BY <2>3, <3>1
  <2>6. Len(a) + Len(b) \in Nat
    BY <2>2
  <2> QED
    BY <2>1, <2>2, <2>3, <2>4, <2>5, <2>6 DEF a, b
<1> DEFINE S == {m \in 0..n : /\ Len(G(m)) <= Len(all)
                              /\ \A j \in 1..Len(G(m)) : all[j] = G(m)[j]}
<1>6. n \in S
  <2>1. Len(all) \in Nat /\ n \in 0..n
    BY <1>1, <1>2
  <2> QED
    BY <1>1, <2>1
<1>7. ASSUME NEW i \in 1..n, i \in S PROVE i - 1 \in S
  <2>1. /\ Len(G(i)) <= Len(all) /\ \A j \in 1..Len(G(i)) : all[j] = G(i)[j]
        /\ i - 1 \in 0..n
    BY <1>4, <1>7
  <2>2. Len(all) \in Nat
    BY <1>1, <1>2
  <2>3. Len(G(i - 1)) <= Len(G(i)) /\ Len(G(i)) \in Nat /\ Len(G(i - 1)) \in Nat
    <3> DEFINE a == Len(G(i - 1))
               b == Len(ss[i])
               c == Len(G(i))
    <3>1. c = a + b /\ a \in Nat /\ b \in Nat /\ c \in Nat
      BY <1>5
    <3> HIDE DEF a, b, c
    <3>2. a <= c
      BY ONLY <3>1
    <3> QED
      BY <3>1, <3>2 DEF a, b, c
  <2>4. Len(G(i - 1)) <= Len(all)
    BY ONLY <2>1, <2>2, <2>3
  <2>5. \A j \in 1..Len(G(i - 1)) : j \in 1..Len(G(i))
    BY <2>3
  <2>6. \A j \in 1..Len(G(i - 1)) : all[j] = G(i - 1)[j]
    BY <1>5, <2>1, <2>5
  <2> QED
    BY <2>1, <2>4, <2>6
<1>8. \A m \in 0..n : m \in S
  <2> HIDE DEF S
  <2> QED
    BY <1>2, <1>6, <1>7, DownFrom
<1>9. ASSUME NEW m \in 1..n, NEW j \in 1..Len(ss[m])
      PROVE  all[Len(G(m - 1)) + j] = ss[m][j]
  <2>1. Len(G(m - 1)) + j \in 1..Len(G(m))
    <3> DEFINE a == Len(G(m - 1))
               b == Len(ss[m])
               c == Len(G(m))
    <3>1. c = a + b /\ a \in Nat /\ b \in Nat /\ c \in Nat /\ j \in 1..b
      BY <1>5
    <3> HIDE DEF a, b, c
    <3>2. a + j \in 1..c
      BY ONLY <3>1
    <3> QED
      BY <3>2 DEF a, c
  <2>2. all[Len(G(m - 1)) + j] = G(m)[Len(G(m - 1)) + j]
    BY <1>4, <1>8, <2>1
  <2> QED
    BY <1>5, <2>2
<1>10. all \in Seq(X) /\ Len(G(0)) = 0 /\ Len(G(n)) = Len(all)
  BY <1>1, <1>2
<1>11. \A m \in 0..n : Len(G(m)) \in Nat /\ Len(G(m)) <= Len(all)
  BY <1>1, <1>8
<1>12. \A m \in 1..n : Len(G(m)) = Len(G(m - 1)) + Len(ss[m])
  BY <1>5
<1>13. /\ all \in Seq(X) /\ Before(ss, 0) = 0 /\ Before(ss, n) = Len(all)
       /\ \A m \in 0..n : Before(ss, m) \in Nat /\ Before(ss, m) <= Len(all)
  BY <1>3, <1>10, <1>11
<1>14. \A m \in 1..n : Before(ss, m) = Before(ss, m - 1) + Len(ss[m])
  BY <1>3, <1>12
<1>15. \A m \in 1..n : \A j \in 1..Len(ss[m]) :
          all[Before(ss, m - 1) + j] = ss[m][j]
  <2> SUFFICES ASSUME NEW m \in 1..n, NEW j \in 1..Len(ss[m])
               PROVE  all[Before(ss, m - 1) + j] = ss[m][j]
    OBVIOUS
  <2>1. all[Len(G(m - 1)) + j] = ss[m][j]
    BY <1>9
  <2>2. m - 1 \in 0..n
    BY <1>4
  <2>3. Before(ss, m - 1) = Len(G(m - 1))
    BY <1>3, <2>2
  <2> QED
    BY ONLY <2>1, <2>3
<1> QED
  BY <1>13, <1>14, <1>15 DEF n, all

-----------------------------------------------------------------------------
(***************************************************************************)
(* SumFunction, over a finite domain.                                       *)
(***************************************************************************)
First(s) == CHOOSE x \in s : TRUE

\* What the fold computes for one subset of the domain, from the others.
SumAt(f, g, s) == IF s = {} THEN 0 ELSE f[First(s)] + g[s \ {First(s)}]

Sums(g, f, D) == g = [s \in D |-> SumAt(f, g, s)]

\* First takes a member; the rest is smaller.
LEMMA FirstIs ==
    ASSUME NEW S, IsFiniteSet(S), NEW s \in SUBSET S, s # {}
    PROVE  /\ First(s) \in s /\ s \ {First(s)} \in SUBSET S
           /\ Cardinality(s) \in Nat \ {0}
           /\ Cardinality(s \ {First(s)}) = Cardinality(s) - 1
<1>1. First(s) \in s
  BY DEF First
<1>2. IsFiniteSet(s)
  BY FS_Subset
<1>3. Cardinality(s) \in Nat /\ Cardinality(s) # 0
  BY <1>2, FS_CardinalityType, FS_EmptySet
<1>4. Cardinality(s \ {First(s)}) = Cardinality(s) - 1
  BY <1>1, <1>2, FS_RemoveElement
<1> QED
  BY <1>1, <1>3, <1>4

Smaller(S, n) == {s \in SUBSET S : Cardinality(s) <= n}

\* The subsets of S are no larger than S.
LEMMA SmallerAll ==
    ASSUME NEW S, IsFiniteSet(S)
    PROVE  Smaller(S, Cardinality(S)) = SUBSET S /\ Cardinality(S) \in Nat
<1>1. Cardinality(S) \in Nat
  BY FS_CardinalityType
<1>2. \A s \in SUBSET S : Cardinality(s) <= Cardinality(S)
  BY FS_Subset
<1> QED
  BY <1>1, <1>2 DEF Smaller

\* What holds of the empty set, and of a set when it holds of the smaller
\* ones, holds of all subsets of a finite set.
LEMMA BySize ==
    ASSUME NEW S, IsFiniteSet(S), NEW P,
           \A s \in SUBSET S :
              (\A t \in SUBSET S : Cardinality(t) < Cardinality(s) => t \in P) => s \in P
    PROVE  \A s \in SUBSET S : s \in P
<1> DEFINE T == {Cardinality(s) : s \in {u \in SUBSET S : u \notin P}}
<1> SUFFICES ASSUME NEW s0 \in SUBSET S, s0 \notin P PROVE FALSE
  OBVIOUS
<1>1. \A s \in SUBSET S : Cardinality(s) \in Nat
  BY FS_Subset, FS_CardinalityType
<1>2. T \in SUBSET Nat /\ T # {}
  BY <1>1
<1>3. PICK m \in T : \A k \in T : m <= k
  <2> HIDE DEF T
  <2> QED
    BY <1>2, Least
<1>4. PICK s \in SUBSET S : s \notin P /\ m = Cardinality(s)
  OBVIOUS
<1>5. ASSUME NEW t \in SUBSET S, Cardinality(t) < Cardinality(s), t \notin P
      PROVE  FALSE
  <2>1. Cardinality(t) \in T
    BY <1>5
  <2> HIDE DEF T
  <2>2. Cardinality(s) <= Cardinality(t)
    BY <1>3, <1>4, <2>1
  <2> QED
    BY <1>1, <1>5, <2>2
<1> QED
  BY <1>4, <1>5

\* The function that SumFunction takes its value from exists.
LEMMA SumsExists ==
    ASSUME NEW S, IsFiniteSet(S), NEW f
    PROVE  \E g : Sums(g, f, SUBSET S)
<1> DEFINE n == Cardinality(S)
           K == {k \in 0..n : \E g : Sums(g, f, Smaller(S, k))}
<1>1. n \in Nat /\ Smaller(S, n) = SUBSET S
  BY SmallerAll
<1>2. \A s \in SUBSET S : s # {} =>
         /\ s \ {First(s)} \in SUBSET S
         /\ Cardinality(s) \in Nat \ {0}
         /\ Cardinality(s \ {First(s)}) = Cardinality(s) - 1
  BY FirstIs
<1> HIDE DEF n
<1>3. 0 \in K
  <2> DEFINE g == [s \in Smaller(S, 0) |-> 0]
  <2>1. \A s \in Smaller(S, 0) : SumAt(f, g, s) = 0
    BY <1>2 DEF Smaller, SumAt
  <2>2. Sums(g, f, Smaller(S, 0))
    BY <2>1 DEF Sums
  <2> QED
    BY <1>1, <2>2
<1>4. ASSUME NEW k \in 0..(n - 1), k \in K PROVE k + 1 \in K
  <2>1. PICK g : Sums(g, f, Smaller(S, k))
    BY <1>4
  <2> DEFINE h == [s \in Smaller(S, k + 1) |-> SumAt(f, g, s)]
  <2>2. \A s \in Smaller(S, k) : h[s] = g[s]
    <3>1. \A s \in Smaller(S, k) : s \in Smaller(S, k + 1)
      <4>1. \A s \in SUBSET S : Cardinality(s) \in Nat
        BY FS_Subset, FS_CardinalityType
      <4> QED
        BY <1>1, <4>1 DEF Smaller
    <3> QED
      BY <2>1, <3>1 DEF Sums
  <2>3. \A s \in Smaller(S, k + 1) : s # {} => s \ {First(s)} \in Smaller(S, k)
    BY <1>1, <1>2 DEF Smaller
  <2> HIDE DEF h
  <2>4. \A s \in Smaller(S, k + 1) : SumAt(f, g, s) = SumAt(f, h, s)
    BY <2>2, <2>3 DEF SumAt
  <2>5. Sums(h, f, Smaller(S, k + 1))
    BY <2>4 DEF h, Sums
  <2>6. k + 1 \in 0..n
    BY <1>1
  <2> QED
    BY <2>5, <2>6
<1>5. \A k \in 0..n : k \in K
  <2> HIDE DEF K
  <2> QED
    BY <1>1, <1>3, <1>4, UpTo
<1>6. n \in K
  BY <1>1, <1>5
<1> QED
  BY <1>1, <1>6

\* SumFunction is the value of such a function.
LEMMA SumFunctionIs ==
    ASSUME NEW S, IsFiniteSet(S), NEW f, DOMAIN f = S
    PROVE  \E g : Sums(g, f, SUBSET S) /\ SumFunction(f) = g[S]
<1> DEFINE g == CHOOSE h : Sums(h, f, SUBSET S)
<1>1. Sums(g, f, SUBSET S)
  BY SumsExists
<1>2. SumFunction(f) = g[S]
  BY DEF SumFunction, SumFunctionOnSet, FoldFunctionOnSet, MapThenFoldSet,
         Sums, SumAt, First
<1> QED
  BY <1>1, <1>2

\* When one summand changes, the sum changes by as much.
LEMMA SumFunctionChange ==
    ASSUME NEW S, IsFiniteSet(S), NEW f \in [S -> Int], NEW c \in S, NEW v \in Int
    PROVE  /\ SumFunction(f) \in Int
           /\ SumFunction([f EXCEPT ![c] = v]) = SumFunction(f) + (v - f[c])
<1> DEFINE e == [f EXCEPT ![c] = v]
           diff(s) == IF c \in s THEN v - f[c] ELSE 0
<1>1. e \in [S -> Int] /\ e[c] = v /\ \A x \in S : x # c => e[x] = f[x]
  OBVIOUS
<1> HIDE DEF e
<1>2. PICK g : Sums(g, f, SUBSET S) /\ SumFunction(f) = g[S]
  BY SumFunctionIs
<1>3. PICK h : Sums(h, e, SUBSET S) /\ SumFunction(e) = h[S]
  BY <1>1, SumFunctionIs
<1> DEFINE P == {s \in SUBSET S : g[s] \in Int /\ h[s] = g[s] + diff(s)}
<1>4. ASSUME NEW s \in SUBSET S,
             \A t \in SUBSET S : Cardinality(t) < Cardinality(s) => t \in P
      PROVE  s \in P
  <2>1. g[s] = SumAt(f, g, s) /\ h[s] = SumAt(e, h, s)
    BY <1>2, <1>3 DEF Sums
  <2>2. CASE s = {}
    BY <2>1, <2>2 DEF SumAt
  <2>3. CASE s # {}
    <3> DEFINE x == First(s)
               r == s \ {First(s)}
    <3>1. /\ x \in s /\ r \in SUBSET S /\ Cardinality(s) \in Nat \ {0}
          /\ Cardinality(r) = Cardinality(s) - 1
      BY <2>3, FirstIs
    <3>2. g[s] = f[x] + g[r] /\ h[s] = e[x] + h[r]
      BY <2>1, <2>3 DEF SumAt
    <3>3. r = s \ {x}
      OBVIOUS
    <3> HIDE DEF x, r
    <3>4. r \in P
      BY <1>4, <3>1
    <3>5. x \in S /\ f[x] \in Int /\ e[x] \in Int
      BY <1>1, <3>1
    <3>6. CASE x = c
      <4>1. diff(r) = 0 /\ diff(s) = v - f[c]
        BY <3>1, <3>3, <3>6
      <4> QED
        BY <1>1, <3>2, <3>4, <3>5, <3>6, <4>1
    <3>7. CASE x # c
      <4>1. diff(r) = diff(s) /\ e[x] = f[x] /\ diff(s) \in Int
        BY <1>1, <3>3, <3>5, <3>7
      <4> HIDE DEF diff
      <4> QED
        BY <3>2, <3>4, <3>5, <4>1
    <3> QED
      BY <3>6, <3>7
  <2> QED
    BY <2>2, <2>3
<1>5. \A s \in SUBSET S : s \in P
  <2> HIDE DEF P
  <2> QED
    BY <1>4, BySize
<1>6. S \in P /\ diff(S) = v - f[c]
  BY <1>5
<1> QED
  BY <1>2, <1>3, <1>6 DEF e

\* A sum of zeroes.
LEMMA SumFunctionZero ==
    ASSUME NEW S, IsFiniteSet(S), NEW f, f = [x \in S |-> 0]
    PROVE  SumFunction(f) = 0
<1>1. PICK g : Sums(g, f, SUBSET S) /\ SumFunction(f) = g[S]
  BY SumFunctionIs
<1> DEFINE P == {s \in SUBSET S : g[s] = 0}
<1>2. ASSUME NEW s \in SUBSET S,
             \A t \in SUBSET S : Cardinality(t) < Cardinality(s) => t \in P
      PROVE  s \in P
  <2>1. g[s] = SumAt(f, g, s)
    BY <1>1 DEF Sums
  <2>2. CASE s = {}
    BY <2>1, <2>2 DEF SumAt
  <2>3. CASE s # {}
    <3>1. /\ First(s) \in s /\ s \ {First(s)} \in SUBSET S
          /\ Cardinality(s \ {First(s)}) < Cardinality(s)
      BY <2>3, FirstIs
    <3>2. f[First(s)] = 0 /\ g[s \ {First(s)}] = 0
      BY <1>2, <3>1
    <3> QED
      BY <2>1, <2>3, <3>2 DEF SumAt
  <2> QED
    BY <2>2, <2>3
<1>3. \A s \in SUBSET S : s \in P
  <2> HIDE DEF P
  <2> QED
    BY <1>2, BySize
<1> QED
  BY <1>1, <1>3
=============================================================================
