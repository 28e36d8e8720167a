------------------------- MODULE ResumeProfile_proofs -------------------------
(* What the months of a career add up to, for every list of entries: the merge *)
(* of derive_years_of_experience is a fold over the intervals, its total a sum. *)
EXTENDS ResumeProfile, FiniteSetTheorems, WellFoundedInduction, TLAPS

-----------------------------------------------------------------------------
(* Numbers                                                                   *)

(* A set of numbers has a least one.                                           *)
LEMMA Least ==
  ASSUME NEW S, S \subseteq Nat, S # {}
  PROVE  \E x \in S : \A y \in S : x <= y
<1> DEFINE R == {ss \in Nat \X Nat : ss[1] < ss[2]}
<1>1. IsWellFoundedOn(R, Nat)
  BY NatLessThanWellFounded DEF OpToRel
<1> HIDE DEF R
<1>2. PICK x \in S : \A y \in S : ~ (<<y, x>> \in R)
  BY <1>1, WFMin
<1>3. \A y \in S : x <= y
  <2> TAKE y \in S
  <2>1. x \in Nat /\ y \in Nat /\ (y < x => <<y, x>> \in R)
    BY DEF R
  <2>2. ~(y < x)
    BY <1>2, <2>1
  <2> QED BY <2>1, <2>2
<1> QED BY <1>3

(* A set of numbers with 0 and with every successor has them all: the form of  *)
(* induction used below, with a set in place of a predicate.                    *)
LEMMA AllNumbers ==
  ASSUME NEW P, 0 \in P, \A n \in Nat : n \in P => n + 1 \in P
  PROVE  \A n \in Nat : n \in P
<1> SUFFICES ASSUME Nat \ P # {} PROVE FALSE
  OBVIOUS
<1>1. PICK m \in Nat \ P : \A y \in Nat \ P : m <= y
  BY Least
<1>2. m # 0 /\ m - 1 \in Nat /\ m - 1 < m /\ (m - 1) + 1 = m
  BY <1>1
<1>3. m - 1 \in P
  BY <1>1, <1>2
<1> QED BY <1>1, <1>2, <1>3

-----------------------------------------------------------------------------
(* Folds                                                                     *)

(* What a fold over the subsets of S has to satisfy.                           *)
Folds(g, S, base, choice, step) ==
  \A s \in SUBSET S :
    g[s] = IF s = {} THEN base ELSE step[<<choice[s], g[s \ {choice[s]}]>>]

(* There is a fold, of every finite set and with every way to choose elements. *)
LEMMA FoldExists ==
  ASSUME NEW S, IsFiniteSet(S), NEW A, NEW base \in A, NEW step \in [S \X A -> A],
         NEW choice, \A s \in SUBSET S : s # {} => choice[s] \in s
  PROVE  \E g \in [SUBSET S -> A] : Folds(g, S, base, choice, step)
<1> DEFINE Rule(g, s) == g[s] = IF s = {} THEN base ELSE step[<<choice[s], g[s \ {choice[s]}]>>]
           P == {n \in Nat : \E g \in [SUBSET S -> A] :
                   \A s \in SUBSET S : Cardinality(s) <= n => Rule(g, s)}
<1>1. \A s \in SUBSET S : IsFiniteSet(s) /\ Cardinality(s) \in Nat
  BY FS_Subset, FS_CardinalityType
<1>2. 0 \in P
  <2> DEFINE g == [s \in SUBSET S |-> base]
  <2>1. \A s \in SUBSET S : Cardinality(s) <= 0 => s = {}
    BY <1>1, FS_EmptySet
  <2>2. g \in [SUBSET S -> A] /\ \A s \in SUBSET S : Cardinality(s) <= 0 => Rule(g, s)
    BY <2>1
  <2> QED BY <2>2
<1>3. ASSUME NEW n \in Nat, n \in P PROVE n + 1 \in P
  <2>1. PICK g \in [SUBSET S -> A] : \A s \in SUBSET S : Cardinality(s) <= n => Rule(g, s)
    BY <1>3
  <2> DEFINE h == [s \in SUBSET S |->
                     IF s = {} THEN base ELSE step[<<choice[s], g[s \ {choice[s]}]>>]]
  <2>2. h \in [SUBSET S -> A]
    <3>1. ASSUME NEW s \in SUBSET S, s # {}
          PROVE  step[<<choice[s], g[s \ {choice[s]}]>>] \in A
      <4>1. choice[s] \in S /\ s \ {choice[s]} \in SUBSET S
        BY <3>1
      <4>2. g[s \ {choice[s]}] \in A
        BY <4>1, <2>1
      <4> QED BY <4>1, <4>2
    <3> QED BY <3>1
  <2>3. \A s \in SUBSET S : Cardinality(s) <= n => h[s] = g[s]
    BY <2>1
  <2>4. ASSUME NEW s \in SUBSET S, Cardinality(s) <= n + 1
        PROVE  Rule(h, s)
    <3>1. CASE s = {}
      BY <3>1
    <3>2. CASE s # {}
      <4> DEFINE x == choice[s]
                 r == s \ {x}
      <4>1. x \in s /\ r \in SUBSET S
        BY <3>2
      <4>2. Cardinality(r) = Cardinality(s) - 1
        BY <1>1, <4>1, FS_RemoveElement
      <4>3. Cardinality(r) <= n
        BY <1>1, <2>4, <4>1, <4>2
      <4>4. h[r] = g[r]
        BY <2>3, <4>1, <4>3
      <4>5. h[s] = step[<<x, g[r]>>]
        BY <3>2
      <4> QED BY <3>2, <4>4, <4>5
    <3> QED BY <3>1, <3>2
  <2> HIDE DEF h, Rule
  <2>5. \A s \in SUBSET S : Cardinality(s) <= n + 1 => Rule(h, s)
    BY <2>4
  <2>6. n + 1 \in Nat
    OBVIOUS
  <2> QED BY <2>2, <2>5, <2>6
<1> HIDE DEF P
<1>4. Cardinality(S) \in P
  BY <1>1, <1>2, <1>3, AllNumbers
<1>5. PICK g \in [SUBSET S -> A] : \A s \in SUBSET S : Cardinality(s) <= Cardinality(S) => Rule(g, s)
  BY <1>4 DEF P
<1>6. \A s \in SUBSET S : Cardinality(s) <= Cardinality(S)
  BY FS_Subset
<1> QED BY <1>5, <1>6 DEF Folds

-----------------------------------------------------------------------------
(* Sums                                                                      *)

Months(x) == x[1]..x[2]
SpanOf(m, T) == UNION {Months(m[i]) : i \in T}
Length(m, i) == m[i][2] - m[i][1] + 1
Total(m, S) == MapThenSumSet(LAMBDA i : m[i][2] - m[i][1] + 1, S)

LEMMA IntervalLength ==
  ASSUME NEW a \in Int, NEW b \in Int, a <= b
  PROVE  IsFiniteSet(a..b) /\ Cardinality(a..b) = b - a + 1
<1>1. IsFiniteSet(a..b) /\ Cardinality(a..b) = IF a > b THEN 0 ELSE b - a + 1
  BY FS_Interval, Zenon
<1> QED BY <1>1

LEMMA DisjointUnion ==
  ASSUME NEW A, NEW B, IsFiniteSet(A), IsFiniteSet(B), A \cap B = {}
  PROVE  IsFiniteSet(A \cup B) /\ Cardinality(A \cup B) = Cardinality(A) + Cardinality(B)
<1>1. /\ IsFiniteSet(A \cup B)
      /\ Cardinality(A \cup B) = Cardinality(A) + Cardinality(B) - Cardinality({})
  BY FS_Union
<1>2. Cardinality(A) \in Nat /\ Cardinality(B) \in Nat /\ Cardinality({}) = 0
  BY FS_CardinalityType, FS_EmptySet
<1> QED BY <1>1, <1>2

(* The sum over a set of intervals that do not meet is the number of months in *)
(* them, in whatever order it is taken.                                         *)
LEMMA SumIsCardinality ==
  ASSUME NEW S, IsFiniteSet(S), NEW m,
         \A i \in S : m[i][1] \in Nat /\ m[i][2] \in Nat /\ m[i][1] <= m[i][2],
         \A i, k \in S : i # k => Months(m[i]) \cap Months(m[k]) = {}
  PROVE  /\ Total(m, S) = Cardinality(SpanOf(m, S))
         /\ IsFiniteSet(SpanOf(m, S))
<1> DEFINE choice == [s \in SUBSET S |-> CHOOSE x \in s : TRUE]
           F(g) == [s \in SUBSET S |-> IF s = {} THEN 0
                      ELSE Length(m, CHOOSE x \in s : TRUE) + g[s \ {CHOOSE x \in s : TRUE}]]
<1>1. \A i \in S : Length(m, i) \in Nat
  BY DEF Length
<1>2. PICK g : g = F(g)
  <2> DEFINE step == [p \in S \X Nat |-> Length(m, p[1]) + p[2]]
  <2>1. step \in [S \X Nat -> Nat]
    BY <1>1
  <2>2. \A s \in SUBSET S : s # {} => choice[s] \in s
    OBVIOUS
  <2>3. \A i \in S, n \in Nat : step[<<i, n>>] = Length(m, i) + n
    OBVIOUS
  <2> HIDE DEF step, choice
  <2>4. PICK g \in [SUBSET S -> Nat] : Folds(g, S, 0, choice, step)
    BY <2>1, <2>2, FoldExists
  <2>5. ASSUME NEW s \in SUBSET S
        PROVE  g[s] = IF s = {} THEN 0
                      ELSE Length(m, choice[s]) + g[s \ {choice[s]}]
    <3>1. s # {} => choice[s] \in S /\ s \ {choice[s]} \in SUBSET S
      BY <2>2
    <3>2. s # {} => g[s \ {choice[s]}] \in Nat
      BY <2>4, <3>1
    <3>3. s # {} => step[<<choice[s], g[s \ {choice[s]}]>>] = Length(m, choice[s]) + g[s \ {choice[s]}]
      BY <2>3, <3>1, <3>2
    <3> QED BY <2>4, <3>3 DEF Folds
  <2>6. \A s \in SUBSET S : g[s] = F(g)[s]
    BY <2>5 DEF choice
  <2>7. g = F(g)
    BY <2>4, <2>6
  <2> HIDE DEF F
  <2> QED BY <2>7
<1> DEFINE sum == CHOOSE h : h = F(h)
<1>3. Total(m, S) = sum[S]
  BY DEF Total, MapThenSumSet, MapThenFoldSet, Length
<1>4. sum = F(sum)
  <2> HIDE DEF F
  <2> QED BY <1>2
<1> HIDE DEF sum
<1>5. \A s \in SUBSET S : sum[s] = IF s = {} THEN 0
                          ELSE Length(m, choice[s]) + sum[s \ {choice[s]}]
  BY <1>4
<1>6. \A s \in SUBSET S : s # {} => choice[s] \in s
  OBVIOUS
<1> HIDE DEF choice, F
<1> DEFINE P == {n \in Nat : \A s \in SUBSET S : Cardinality(s) = n =>
                   IsFiniteSet(SpanOf(m, s)) /\ sum[s] = Cardinality(SpanOf(m, s))}
<1>7. \A s \in SUBSET S : IsFiniteSet(s) /\ Cardinality(s) \in Nat
  BY FS_Subset, FS_CardinalityType
<1>8. 0 \in P
  <2>1. \A s \in SUBSET S : Cardinality(s) = 0 => s = {}
    BY <1>7, FS_EmptySet
  <2>2. SpanOf(m, {}) = {} /\ sum[{}] = 0
    BY <1>5 DEF SpanOf
  <2> QED BY <2>1, <2>2, FS_EmptySet
<1>9. ASSUME NEW n \in Nat, n \in P PROVE n + 1 \in P
  <2> SUFFICES ASSUME NEW s \in SUBSET S, Cardinality(s) = n + 1
               PROVE  IsFiniteSet(SpanOf(m, s)) /\ sum[s] = Cardinality(SpanOf(m, s))
    OBVIOUS
  <2> DEFINE x == choice[s]
             r == s \ {x}
  <2>1. s # {}
    BY FS_EmptySet
  <2>2. x \in s /\ x \in S /\ r \in SUBSET S
    BY <1>6, <2>1
  <2>3. Cardinality(r) = n
    BY <1>7, <2>2, FS_RemoveElement
  <2>4. IsFiniteSet(SpanOf(m, r)) /\ sum[r] = Cardinality(SpanOf(m, r))
    BY <1>9, <2>2, <2>3
  <2>5. sum[s] = Length(m, x) + sum[r]
    BY <1>5, <2>1
  <2>6. IsFiniteSet(Months(m[x])) /\ Cardinality(Months(m[x])) = Length(m, x)
    <3>1. m[x][1] \in Int /\ m[x][2] \in Int /\ m[x][1] <= m[x][2]
      BY <2>2
    <3> QED BY <3>1, IntervalLength DEF Months, Length
  <2>7. SpanOf(m, s) = Months(m[x]) \cup SpanOf(m, r)
    BY <2>2 DEF SpanOf
  <2>8. Months(m[x]) \cap SpanOf(m, r) = {}
    <3>1. \A i \in r : i \in S /\ i # x
      BY <2>2
    <3>2. \A i \in r : Months(m[x]) \cap Months(m[i]) = {}
      BY <2>2, <3>1
    <3> HIDE DEF r, x
    <3> QED BY <3>2 DEF SpanOf
  <2> HIDE DEF x, r
  <2>9. Cardinality(SpanOf(m, r)) \in Nat /\ Length(m, x) \in Nat
    BY <1>1, <2>2, <2>4, FS_CardinalityType
  <2>10. /\ IsFiniteSet(SpanOf(m, s))
         /\ Cardinality(SpanOf(m, s)) = Length(m, x) + Cardinality(SpanOf(m, r))
    BY <2>4, <2>6, <2>7, <2>8, DisjointUnion
  <2> QED BY <2>4, <2>5, <2>9, <2>10
<1> HIDE DEF P
<1>10. Cardinality(S) \in P
  BY <1>7, <1>8, <1>9, AllNumbers
<1> QED BY <1>3, <1>10 DEF P

-----------------------------------------------------------------------------
(* The latest of some intervals                                              *)

After(x, y) == y[1] < x[1] \/ (y[1] = x[1] /\ y[2] <= x[2])

LEMMA LatestExists ==
  ASSUME NEW S \in SUBSET (Nat \X Nat), IsFiniteSet(S), S # {}
  PROVE  Latest(S) \in S /\ \A y \in S : y[1] <= Latest(S)[1]
<1> DEFINE Last(s) == \E x \in s : \A y \in s : After(x, y)
           P == {n \in Nat : \A s \in SUBSET S : Cardinality(s) = n => s = {} \/ Last(s)}
<1>1. \A s \in SUBSET S : IsFiniteSet(s) /\ Cardinality(s) \in Nat
  BY FS_Subset, FS_CardinalityType
<1>2. 0 \in P
  BY <1>1, FS_EmptySet
<1>3. ASSUME NEW n \in Nat, n \in P PROVE n + 1 \in P
  <2> SUFFICES ASSUME NEW s \in SUBSET S, Cardinality(s) = n + 1, s # {}
               PROVE  Last(s)
    OBVIOUS
  <2>1. PICK a \in s : TRUE
    OBVIOUS
  <2> DEFINE r == s \ {a}
  <2>2. r \in SUBSET S /\ Cardinality(r) = n
    <3>1. IsFiniteSet(s)
      BY <1>1
    <3>2. Cardinality(r) = Cardinality(s) - 1
      BY <2>1, <3>1, FS_RemoveElement
    <3> QED BY <3>2
  <2>3. a \in Nat \X Nat /\ After(a, a)
    BY <2>1 DEF After
  <2>4. CASE r = {}
    <3>1. \A y \in s : y = a
      BY <2>4
    <3> QED BY <2>1, <2>3, <3>1
  <2>5. CASE r # {}
    <3>1. PICK b \in r : \A y \in r : After(b, y)
      BY <1>3, <2>2, <2>5
    <3>2. b \in Nat \X Nat /\ \A y \in s : y \in Nat \X Nat /\ (y = a \/ y \in r)
      BY <3>1
    <3>3. CASE After(b, a)
      BY <3>1, <3>2, <3>3
    <3>4. CASE ~After(b, a)
      <4>1. \A y \in s : After(a, y)
        BY <2>3, <3>1, <3>2, <3>4 DEF After
      <4> QED BY <2>1, <4>1
    <3> QED BY <3>3, <3>4
  <2> QED BY <2>4, <2>5
<1> HIDE DEF P
<1>4. Cardinality(S) \in P
  BY <1>1, <1>2, <1>3, AllNumbers
<1>5. \E x \in S : \A y \in S : After(x, y)
  BY <1>4 DEF P
<1>6. Latest(S) \in S /\ \A y \in S : After(Latest(S), y)
  BY <1>5 DEF Latest, After
<1>7. \A y \in S : y[1] \in Nat
  OBVIOUS
<1> QED BY <1>6, <1>7 DEF After
-----------------------------------------------------------------------------
(* The merged intervals                                                      *)

\* Every interval ends, and there is a gap before the next one.
Neat(m) ==
  /\ \A i \in 1..Len(m) : m[i][1] <= m[i][2]
  /\ \A i, k \in 1..Len(m) : i < k => m[i][2] + 1 < m[k][1]

Span(S) == UNION {Months(x) : x \in S}

\* The merged intervals are the months of those in S, and each starts with one of them.
Merges(m, S) ==
  /\ Neat(m)
  /\ \A i \in 1..Len(m) : \E x \in S : m[i][1] = x[1]
  /\ SpanOf(m, 1..Len(m)) = Span(S)

\* An interval and what is joined to it, with the last interval's end decided.
Extended(p, end) == [p EXCEPT ![2] = IF end > @ THEN end ELSE @]

LEMMA ExtendedInterval ==
  ASSUME NEW p \in Nat \X Nat, NEW end \in Nat
  PROVE  /\ Extended(p, end) \in Nat \X Nat
         /\ Extended(p, end)[1] = p[1]
         /\ Extended(p, end)[2] = IF end > p[2] THEN end ELSE p[2]
<1>1. PICK a \in Nat, b \in Nat : p = <<a, b>>
  OBVIOUS
<1>2. Extended(p, end) = <<a, IF end > b THEN end ELSE b>>
  BY <1>1 DEF Extended
<1> QED BY <1>1, <1>2

\* Is the interval joined as a new one?
Gap(x, m) == m = <<>> \/ x[1] > m[Len(m)][2] + 1

\* What Joined makes of a list, position by position.
LEMMA JoinedPositions ==
  ASSUME NEW m \in Seq(Nat \X Nat), NEW x \in Nat \X Nat
  PROVE  /\ Joined(x, m) \in Seq(Nat \X Nat)
         /\ Gap(x, m) => /\ Len(Joined(x, m)) = Len(m) + 1
                         /\ Joined(x, m)[Len(m) + 1] = x
                         /\ \A i \in 1..Len(m) : Joined(x, m)[i] = m[i]
         /\ ~Gap(x, m) => /\ Len(Joined(x, m)) = Len(m) /\ Len(m) > 0
                          /\ Joined(x, m)[Len(m)] = Extended(m[Len(m)], x[2])
                          /\ \A i \in 1..Len(m) : i # Len(m) => Joined(x, m)[i] = m[i]
<1>1. CASE Gap(x, m)
  BY <1>1 DEF Joined, Gap
<1>2. CASE ~Gap(x, m)
  <2> DEFINE n == Len(m)
             e == Extended(m[n], x[2])
  <2>1. n \in 1..Len(m) /\ n > 0
    BY <1>2 DEF Gap
  <2>2. Joined(x, m) = [m EXCEPT ![n] = e]
    BY <1>2 DEF Joined, Extended, Gap
  <2>3. e \in Nat \X Nat
    <3>1. m[n] \in Nat \X Nat /\ x[2] \in Nat
      BY <2>1
    <3> QED BY <3>1, ExtendedInterval
  <2> HIDE DEF e
  <2>4. /\ [m EXCEPT ![n] = e] \in Seq(Nat \X Nat)
        /\ Len([m EXCEPT ![n] = e]) = n
        /\ [m EXCEPT ![n] = e][n] = e
        /\ \A i \in 1..n : i # n => [m EXCEPT ![n] = e][i] = m[i]
    BY <2>1, <2>3
  <2> QED BY <1>2, <2>1, <2>2, <2>4 DEF e
<1> QED BY <1>1, <1>2

\* An interval that starts after the others is joined to them.
LEMMA JoinedMerges ==
  ASSUME NEW m \in Seq(Nat \X Nat), NEW S, NEW x \in Nat \X Nat, x \in S,
         x[1] <= x[2], \A y \in S : y[1] <= x[1], S \subseteq Nat \X Nat,
         Merges(m, S \ {x})
  PROVE  Merges(Joined(x, m), S)
<1> DEFINE j == Joined(x, m)
           n == Len(m)
<1>1. /\ n \in Nat /\ x[1] \in Nat /\ x[2] \in Nat
      /\ \A i \in 1..n : m[i][1] \in Nat /\ m[i][2] \in Nat
  OBVIOUS
<1>2. /\ \A i \in 1..n : m[i][1] <= m[i][2]
      /\ \A i, k \in 1..n : i < k => m[i][2] + 1 < m[k][1]
      /\ \A i \in 1..n : \E y \in S : m[i][1] = y[1]
      /\ SpanOf(m, 1..n) = Span(S \ {x})
  BY DEF Merges, Neat
<1>3. \A i \in 1..n : m[i][1] <= x[1]
  BY <1>2
<1>4. Span(S) = Span(S \ {x}) \cup Months(x)
  BY DEF Span
<1>5. CASE Gap(x, m)
  <2>1. /\ Len(j) = n + 1 /\ j[n + 1] = x
        /\ \A i \in 1..n : j[i] = m[i]
    BY <1>5, JoinedPositions
  <2>2. \A i \in 1..n : m[i][2] + 1 < x[1]
    <3>1. CASE m = <<>>
      BY <3>1
    <3>2. CASE m # <<>>
      <4>1. n \in 1..n /\ m[n][2] + 1 < x[1]
        BY <1>1, <1>5, <3>2 DEF Gap
      <4>2. \A i \in 1..n : i = n \/ i < n
        BY <1>1
      <4>3. \A i \in 1..n : i < n => m[i][2] + 1 < m[n][1]
        BY <1>2, <4>1
      <4> HIDE DEF n
      <4>4. m[n][1] <= x[1]
        BY <1>3, <4>1
      <4> TAKE i \in 1..n
      <4>5. m[i][2] \in Nat /\ m[n][1] \in Nat
        BY <1>1, <4>1
      <4>6. CASE i = n
        BY <4>1, <4>6
      <4>7. CASE i < n
        <5>1. m[i][2] + 1 < m[n][1]
          BY <4>3, <4>7
        <5>2. x[1] \in Nat
          OBVIOUS
        <5> QED BY <4>4, <4>5, <5>1, <5>2, SMTT(20)
      <4> QED BY <4>2, <4>6, <4>7
    <3> QED BY <3>1, <3>2
  <2> HIDE DEF j, n
  <2>3. \A i \in 1..(n + 1) : i = n + 1 \/ i \in 1..n
    <3>1. n \in Nat
      BY <1>1
    <3> QED BY <3>1
  <2>4. Neat(j)
    <3>1. \A i \in 1..(n + 1) : j[i][1] <= j[i][2]
      BY <1>2, <2>1, <2>3
    <3>2. ASSUME NEW i \in 1..(n + 1), NEW k \in 1..(n + 1), i < k
          PROVE  j[i][2] + 1 < j[k][1]
      <4>1. i \in 1..n
        BY <1>1, <3>2
      <4>2. CASE k = n + 1
        BY <2>1, <2>2, <4>1, <4>2
      <4>3. CASE k \in 1..n
        BY <1>2, <2>1, <3>2, <4>1, <4>3
      <4> QED BY <2>3, <4>2, <4>3
    <3> QED BY <2>1, <3>1, <3>2 DEF Neat
  <2>5. \A i \in 1..(n + 1) : \E y \in S : j[i][1] = y[1]
    <3> TAKE i \in 1..(n + 1)
    <3>1. CASE i = n + 1
      BY <2>1, <3>1
    <3>2. CASE i \in 1..n
      BY <1>2, <2>1, <3>2
    <3> QED BY <2>3, <3>1, <3>2
  <2>6. SpanOf(j, 1..(n + 1)) = SpanOf(m, 1..n) \cup Months(x)
    <3>1. 1..(n + 1) = 1..n \cup {n + 1}
      BY <1>1
    <3>2. SpanOf(j, 1..(n + 1)) = SpanOf(j, 1..n) \cup Months(j[n + 1])
      BY <3>1 DEF SpanOf
    <3>3. SpanOf(j, 1..n) = SpanOf(m, 1..n)
      BY <2>1 DEF SpanOf
    <3> QED BY <2>1, <3>2, <3>3
  <2>7. SpanOf(j, 1..(n + 1)) = Span(S)
    BY <1>2, <1>4, <2>6
  <2>8. Merges(j, S)
    BY <2>1, <2>4, <2>5, <2>7 DEF Merges
  <2> QED BY <2>8 DEF j
<1>6. CASE ~Gap(x, m)
  <2> DEFINE e == Extended(m[n], x[2])
  <2>1. /\ Len(j) = n /\ n > 0 /\ j[n] = e
        /\ \A i \in 1..n : i # n => j[i] = m[i]
    BY <1>6, JoinedPositions
  <2>2. n \in 1..n
    BY <1>1, <2>1
  <2>3. /\ e[1] = m[n][1] /\ e[2] \in Nat
        /\ e[2] = IF x[2] > m[n][2] THEN x[2] ELSE m[n][2]
    <3>1. m[n] \in Nat \X Nat
      BY <2>2
    <3> HIDE DEF n
    <3> QED BY <1>1, <3>1, ExtendedInterval
  <2>4. m[n][1] <= x[1] /\ x[1] <= m[n][2] + 1 /\ m[n][1] <= m[n][2]
    <3>1. ~(x[1] > m[n][2] + 1) /\ m[n][2] \in Nat /\ x[1] \in Nat
      BY <1>1, <1>6, <2>2 DEF Gap
    <3> HIDE DEF n
    <3> QED BY <1>2, <1>3, <2>2, <3>1, SMTT(20)
  <2>5. Months(e) = Months(m[n]) \cup Months(x)
    BY <1>1, <2>2, <2>3, <2>4 DEF Months
  <2> HIDE DEF j, n, e
  <2>6. Neat(j)
    <3>1. \A i \in 1..n : j[i][1] = m[i][1] /\ j[i][1] <= j[i][2]
      <4> TAKE i \in 1..n
      <4>1. CASE i = n
        BY <1>1, <2>1, <2>2, <2>3, <2>4, <4>1
      <4>2. CASE i # n
        BY <1>2, <2>1, <4>2
      <4> QED BY <4>1, <4>2
    <3>2. ASSUME NEW i \in 1..n, NEW k \in 1..n, i < k
          PROVE  j[i][2] + 1 < j[k][1]
      <4>1. i # n
        BY <1>1, <3>2
      <4> QED BY <1>2, <2>1, <3>1, <3>2, <4>1
    <3> QED BY <2>1, <3>1, <3>2 DEF Neat
  <2>7. \A i \in 1..n : \E y \in S : j[i][1] = y[1]
    <3>1. \A i \in 1..n : j[i][1] = m[i][1]
      BY <2>1, <2>3
    <3> QED BY <1>2, <3>1
  <2>8. SpanOf(j, 1..n) = SpanOf(m, 1..n) \cup Months(x)
    <3> DEFINE early == 1..n \ {n}
    <3>1. /\ SpanOf(j, 1..n) = SpanOf(j, early) \cup Months(j[n])
          /\ SpanOf(m, 1..n) = SpanOf(m, early) \cup Months(m[n])
      BY <2>2 DEF SpanOf
    <3>2. SpanOf(j, early) = SpanOf(m, early)
      <4>1. \A i \in early : j[i] = m[i]
        BY <2>1
      <4> HIDE DEF early
      <4> QED BY <4>1 DEF SpanOf
    <3> QED BY <2>1, <2>5, <3>1, <3>2
  <2>9. SpanOf(j, 1..n) = Span(S)
    BY <1>2, <1>4, <2>8
  <2>10. Merges(j, S)
    BY <2>1, <2>6, <2>7, <2>9 DEF Merges
  <2> QED BY <2>10 DEF j
<1> QED BY <1>5, <1>6

\* The merged intervals of a finite set of them cover its months, in order and apart.
LEMMA MergedCovers ==
  ASSUME NEW S \in SUBSET (Nat \X Nat), IsFiniteSet(S), \A x \in S : x[1] <= x[2]
  PROVE  Merged(S) \in Seq(Nat \X Nat) /\ Merges(Merged(S), S)
<1> DEFINE Lists == Seq(Nat \X Nat)
           choice == [s \in SUBSET S |-> Latest(s)]
           F(g) == [s \in SUBSET S |-> IF s = {} THEN <<>>
                      ELSE Joined(Latest(s), g[s \ {Latest(s)}])]
<1>1. \A s \in SUBSET S : s # {} => /\ Latest(s) \in s
                                    /\ \A y \in s : y[1] <= Latest(s)[1]
  <2> TAKE s \in SUBSET S
  <2> HAVE s # {}
  <2>1. s \in SUBSET (Nat \X Nat) /\ IsFiniteSet(s)
    BY FS_Subset
  <2> QED BY <2>1, LatestExists
<1>2. \E g \in [SUBSET S -> Lists] : g = F(g)
  <2> DEFINE step == [p \in S \X Lists |-> Joined(p[1], p[2])]
  <2>1. \A x \in S, m \in Lists : Joined(x, m) \in Lists
    BY JoinedPositions
  <2>2. \A x \in S, m \in Lists : step[<<x, m>>] = Joined(x, m)
    OBVIOUS
  <2>3. \A s \in SUBSET S : s # {} => choice[s] \in s
    BY <1>1
  <2>4. step \in [S \X Lists -> Lists]
    <3>1. ASSUME NEW p \in S \X Lists PROVE Joined(p[1], p[2]) \in Lists
      <4>1. p[1] \in S /\ p[2] \in Lists
        OBVIOUS
      <4> QED BY <2>1, <4>1
    <3> QED BY <3>1
  <2>5. <<>> \in Lists
    OBVIOUS
  <2> HIDE DEF step, choice, Lists
  <2>6. PICK g \in [SUBSET S -> Lists] : Folds(g, S, <<>>, choice, step)
    BY <2>3, <2>4, <2>5, FoldExists
  <2>7. ASSUME NEW s \in SUBSET S
        PROVE  g[s] = IF s = {} THEN <<>> ELSE Joined(choice[s], g[s \ {choice[s]}])
    <3>1. s # {} => choice[s] \in S /\ s \ {choice[s]} \in SUBSET S
      BY <2>3
    <3>2. s # {} => g[s \ {choice[s]}] \in Lists
      BY <2>6, <3>1
    <3>3. s # {} => step[<<choice[s], g[s \ {choice[s]}]>>] = Joined(choice[s], g[s \ {choice[s]}])
      BY <2>2, <3>1, <3>2
    <3> QED BY <2>6, <3>3 DEF Folds
  <2>8. \A s \in SUBSET S : choice[s] = Latest(s)
    BY DEF choice
  <2>9. \A s \in SUBSET S : g[s] = F(g)[s]
    BY <2>7, <2>8
  <2>10. g = F(g)
    BY <2>6, <2>9
  <2> HIDE DEF F
  <2> QED BY <2>6, <2>10
<1> DEFINE merge == CHOOSE h : h = F(h)
<1>3. Merged(S) = merge[S]
  BY DEF Merged, MapThenFoldSet
<1>4. merge = F(merge)
  <2> HIDE DEF F
  <2> QED BY <1>2
<1> HIDE DEF merge
<1>5. /\ merge[{}] = <<>>
      /\ \A s \in SUBSET S : s # {} => merge[s] = Joined(Latest(s), merge[s \ {Latest(s)}])
  BY <1>4
<1> HIDE DEF F
<1> DEFINE P == {n \in Nat : \A s \in SUBSET S : Cardinality(s) = n =>
                   merge[s] \in Lists /\ Merges(merge[s], s)}
<1>6. \A s \in SUBSET S : IsFiniteSet(s) /\ Cardinality(s) \in Nat
  BY FS_Subset, FS_CardinalityType
<1>7. 0 \in P
  <2>1. \A s \in SUBSET S : Cardinality(s) = 0 => s = {}
    BY <1>6, FS_EmptySet
  <2>2. Merges(<<>>, {})
    BY DEF Merges, Neat, SpanOf, Span
  <2>3. <<>> \in Lists
    OBVIOUS
  <2> HIDE DEF Lists
  <2> QED BY <1>5, <2>1, <2>2, <2>3
<1>8. ASSUME NEW n \in Nat, n \in P PROVE n + 1 \in P
  <2> SUFFICES ASSUME NEW s \in SUBSET S, Cardinality(s) = n + 1
               PROVE  merge[s] \in Lists /\ Merges(merge[s], s)
    OBVIOUS
  <2> DEFINE x == Latest(s)
             r == s \ {x}
  <2>1. s # {}
    BY FS_EmptySet
  <2>2. /\ x \in s /\ x \in Nat \X Nat /\ x[1] <= x[2]
        /\ r \in SUBSET S /\ s \subseteq Nat \X Nat
        /\ \A y \in s : y[1] <= x[1]
    BY <1>1, <2>1
  <2>3. Cardinality(r) = n
    <3>1. Cardinality(r) = Cardinality(s) - 1
      BY <1>6, <2>2, FS_RemoveElement
    <3> QED BY <3>1
  <2>4. merge[r] \in Lists /\ Merges(merge[r], r)
    BY <1>8, <2>2, <2>3
  <2>5. merge[s] = Joined(x, merge[r])
    BY <1>5, <2>1
  <2> HIDE DEF x
  <2>6. merge[s] \in Lists
    BY <2>2, <2>4, <2>5, JoinedPositions
  <2>7. Merges(merge[s], s)
    <3>1. merge[r] \in Seq(Nat \X Nat) /\ Merges(merge[r], s \ {x})
      BY <2>4
    <3> HIDE DEF Lists, r
    <3>2. Merges(Joined(x, merge[r]), s)
      BY <2>2, <3>1, JoinedMerges
    <3> QED BY <2>5, <3>2
  <2> QED BY <2>6, <2>7
<1> HIDE DEF P
<1>9. Cardinality(S) \in P
  BY <1>6, <1>7, <1>8, AllNumbers
<1> QED BY <1>3, <1>9 DEF P

-----------------------------------------------------------------------------
(* Experience                                                                *)

\* The months of the entries that have their dates, a current one up to now.
Dated(work) == {i \in DOMAIN work : /\ work[i].type = "work"
                                    /\ work[i].start \in Nat /\ work[i].end # Null}
EndOf(item, today) == IF item.end = Present THEN today ELSE item.end
Worked(work, today) == UNION {work[i].start .. EndOf(work[i], today) : i \in Dated(work)}

LEMMA EntriesTyped ==
  ASSUME NEW p \in Profiles, NEW today \in Nat, NEW i \in DOMAIN p.work
  PROVE  /\ p.work[i].start \in Nat <=> p.work[i].start \notin {Null, Present}
         /\ p.work[i].end # Null => EndOf(p.work[i], today) \in Nat
<1>1. p.work[i].start \in Nat \cup {Null, Present} /\ p.work[i].end \in Nat \cup {Null, Present}
  <2> DEFINE Entry == [type : {"work", "internship"}, company : STRING \cup {Null},
                       title : STRING \cup {Null}, text : BOOLEAN,
                       start : Nat \cup {Null, Present}, end : Nat \cup {Null, Present}]
  <2>1. p.work \in Seq(Entry)
    BY DEF Profiles
  <2> HIDE DEF Entry
  <2>2. p.work[i] \in Entry
    BY <2>1
  <2> QED BY <2>2 DEF Entry
<1>2. Null \notin Nat /\ Present \notin Nat
  BY ProfileAssumption
<1> QED BY <1>1, <1>2 DEF EndOf

\* The intervals are of those months, and there are finitely many.
LEMMA IntervalsOfWork ==
  ASSUME NEW p \in Profiles, NEW today \in Nat
  PROVE  /\ Intervals(p.work, today) \in SUBSET (Nat \X Nat)
         /\ IsFiniteSet(Intervals(p.work, today))
         /\ \A x \in Intervals(p.work, today) : x[1] <= x[2]
         /\ Span(Intervals(p.work, today)) = Worked(p.work, today)
<1> DEFINE work == p.work
           W == Intervals(work, today)
           T == {i \in Dated(work) : work[i].start <= EndOf(work[i], today)}
           of == [i \in T |-> <<work[i].start, EndOf(work[i], today)>>]
<1>1. W = {<<work[i].start, EndOf(work[i], today)>> : i \in T}
  <2>1. \A i \in DOMAIN work : work[i].start \in Nat <=> work[i].start \notin {Null, Present}
    BY EntriesTyped
  <2> HIDE DEF work
  <2>2. W = {<<work[i].start, EndOf(work[i], today)>> :
               i \in {k \in DOMAIN work :
                        /\ work[k].type = "work"
                        /\ work[k].start \notin {Null, Present} /\ work[k].end # Null
                        /\ work[k].start <= EndOf(work[k], today)}}
    BY DEF Intervals, EndOf
  <2>3. T = {k \in DOMAIN work : /\ work[k].type = "work"
                                 /\ work[k].start \notin {Null, Present} /\ work[k].end # Null
                                 /\ work[k].start <= EndOf(work[k], today)}
    BY <2>1 DEF Dated
  <2> HIDE DEF T
  <2> QED BY <2>2, <2>3
<1>2. \A i \in Dated(work) : work[i].start \in Nat /\ EndOf(work[i], today) \in Nat
  BY EntriesTyped DEF Dated
<1>3. \A i \in T : /\ work[i].start \in Nat /\ EndOf(work[i], today) \in Nat
                   /\ work[i].start <= EndOf(work[i], today)
  BY <1>2
<1>4. IsFiniteSet(T)
  <2>1. DOMAIN work = 1..Len(work) /\ Len(work) \in Nat
    BY DEF Profiles
  <2> HIDE DEF work
  <2>2. IsFiniteSet(1..Len(work))
    BY <2>1, FS_Interval
  <2>3. T \in SUBSET (1..Len(work))
    BY <2>1 DEF Dated
  <2> QED BY <2>2, <2>3, FS_Subset
<1> HIDE DEF T, work, W
<1>5. W \in SUBSET (Nat \X Nat) /\ \A x \in W : x[1] <= x[2]
  BY <1>1, <1>3
<1>6. IsFiniteSet(W)
  <2>1. of \in Surjection(T, W)
    BY <1>1 DEF Surjection
  <2> HIDE DEF of
  <2> QED BY <1>4, <2>1, FS_Surjection
<1>7. Span(W) = Worked(work, today)
  <2>1. \A n : n \in Span(W) <=> \E i \in T : n \in work[i].start .. EndOf(work[i], today)
    <3>1. \A n : n \in Span(W) <=> \E x \in W : n \in x[1]..x[2]
      BY DEF Span, Months
    <3>2. \A n : (\E x \in W : n \in x[1]..x[2])
                 <=> \E i \in T : n \in work[i].start .. EndOf(work[i], today)
      <4>1. \A x \in W : \E i \in T : x[1] = work[i].start /\ x[2] = EndOf(work[i], today)
        BY <1>1
      <4>2. \A i \in T : \E x \in W : x[1] = work[i].start /\ x[2] = EndOf(work[i], today)
        <5> TAKE i \in T
        <5>1. <<work[i].start, EndOf(work[i], today)>> \in W
          BY <1>1
        <5> WITNESS <<work[i].start, EndOf(work[i], today)>> \in W
        <5> QED OBVIOUS
      <4> TAKE n
      <4>3. ASSUME NEW x \in W, n \in x[1]..x[2]
            PROVE  \E i \in T : n \in work[i].start .. EndOf(work[i], today)
        <5>1. PICK i \in T : x[1] = work[i].start /\ x[2] = EndOf(work[i], today)
          BY <4>1
        <5> QED BY <4>3, <5>1
      <4>4. ASSUME NEW i \in T, n \in work[i].start .. EndOf(work[i], today)
            PROVE  \E x \in W : n \in x[1]..x[2]
        <5>1. PICK x \in W : x[1] = work[i].start /\ x[2] = EndOf(work[i], today)
          BY <4>2
        <5> QED BY <4>4, <5>1
      <4> QED BY <4>3, <4>4
    <3> QED BY <3>1, <3>2
  <2>2. \A i \in Dated(work) : i \notin T => work[i].start .. EndOf(work[i], today) = {}
    BY <1>2 DEF T
  <2>3. T \subseteq Dated(work)
    BY DEF T
  <2>4. \A n : n \in Worked(work, today)
                 <=> \E i \in Dated(work) : n \in work[i].start .. EndOf(work[i], today)
    BY DEF Worked
  <2> QED BY <2>1, <2>2, <2>3, <2>4
<1> QED BY <1>5, <1>6, <1>7 DEF work, W

(* The experience of a profile is the number of months in which there was any   *)
(* work, whatever its entries are and in whatever order: derive_years_of_-      *)
(* experience counts no month twice and none that no entry has.                 *)
THEOREM YearsAreWorked ==
  ASSUME NEW p \in Profiles, NEW today \in Nat
  PROVE  LET months == Cardinality(Worked(p.work, today))
         IN YearsOfExperience(p.work, today) = IF months = 0 THEN UnknownYears
                                               ELSE Duration(months)
<1> DEFINE W == Intervals(p.work, today)
           merged == Merged(W)
           n == Len(merged)
<1>1. /\ W \in SUBSET (Nat \X Nat) /\ IsFiniteSet(W) /\ \A x \in W : x[1] <= x[2]
      /\ Span(W) = Worked(p.work, today)
  BY IntervalsOfWork
<1>2. YearsOfExperience(p.work, today) =
        IF W = {} THEN UnknownYears ELSE Duration(Total(merged, DOMAIN merged))
  BY DEF YearsOfExperience, Total
<1> HIDE DEF W
<1>3. merged \in Seq(Nat \X Nat) /\ Merges(merged, W)
  BY <1>1, MergedCovers
<1> HIDE DEF merged
<1>4. /\ DOMAIN merged = 1..n /\ n \in Nat
      /\ \A i \in 1..n : merged[i][1] \in Nat /\ merged[i][2] \in Nat
  BY <1>3
<1>5. /\ \A i \in 1..n : merged[i][1] <= merged[i][2]
      /\ \A i, k \in 1..n : i < k => merged[i][2] + 1 < merged[k][1]
      /\ SpanOf(merged, 1..n) = Span(W)
  BY <1>3 DEF Merges, Neat
<1>6. \A i, k \in 1..n : i # k => Months(merged[i]) \cap Months(merged[k]) = {}
  <2>1. \A i, k \in 1..n : i < k => Months(merged[i]) \cap Months(merged[k]) = {}
    <3> SUFFICES ASSUME NEW i \in 1..n, NEW k \in 1..n, i < k,
                        NEW x \in Months(merged[i]), x \in Months(merged[k])
                 PROVE  FALSE
      OBVIOUS
    <3>1. merged[i][2] + 1 < merged[k][1]
      BY <1>5
    <3>2. x \in Int /\ x <= merged[i][2] /\ merged[k][1] <= x
      BY <1>4 DEF Months
    <3> QED BY <1>4, <3>1, <3>2
  <2>2. \A i, k \in 1..n : i # k => i < k \/ k < i
    BY <1>4
  <2> QED BY <2>1, <2>2
<1>7. IsFiniteSet(1..n)
  BY <1>4, FS_Interval
<1> HIDE DEF n
<1>8. Total(merged, 1..n) = Cardinality(Span(W)) /\ IsFiniteSet(Span(W))
  BY <1>4, <1>5, <1>6, <1>7, SumIsCardinality
<1>9. Cardinality(Span(W)) = 0 <=> W = {}
  <2>1. W # {} => Span(W) # {}
    <3> SUFFICES ASSUME NEW x \in W PROVE Span(W) # {}
      OBVIOUS
    <3>1. x[1] \in Months(x)
      BY <1>1 DEF Months
    <3> QED BY <3>1 DEF Span
  <2>2. W = {} => Span(W) = {}
    BY DEF Span
  <2> QED BY <1>8, <2>1, <2>2, FS_EmptySet
<1> QED BY <1>1, <1>2, <1>4, <1>8, <1>9
=============================================================================
