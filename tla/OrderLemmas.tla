----------------------------- MODULE OrderLemmas -----------------------------
(***************************************************************************)
(* Lemmas about sequences, finite sets and their enumerations in the order *)
(* of a score, that the proofs of several components rest on.  Induction   *)
(* is by a least counterexample.                                           *)
(***************************************************************************)
EXTENDS Integers, Sequences, FiniteSets, FiniteSetsExt, SequencesExt,
        FiniteSetTheorems, WellFoundedInduction, TLAPS

LEMMA LeastNumber ==
  ASSUME NEW S, S \subseteq Nat, S # {}
  PROVE  \E x \in S : \A y \in S : x <= y
<1> DEFINE R == {p \in Nat \X Nat : p[1] < p[2]}
<1>1. IsWellFoundedOn(R, Nat)
  BY NatLessThanWellFounded DEF OpToRel
<1>2. \A x, y \in Nat : y < x => <<y, x>> \in R
  OBVIOUS
<1> HIDE DEF R
<1>3. PICK x \in S : \A y \in S : ~(<<y, x>> \in R)
  BY <1>1, WFMin
<1>4. ASSUME NEW y \in S PROVE x <= y
  <2>1. x \in Nat /\ y \in Nat /\ ~(<<y, x>> \in R)
    BY <1>3
  <2>2. ~(y < x)
    BY <1>2, <2>1
  <2> QED
    BY <2>1, <2>2
<1> QED
  BY <1>4

LEMMA MinOfNumbers ==
  ASSUME NEW S, S \subseteq Nat, S # {}
  PROVE  Min(S) \in S /\ \A y \in S : Min(S) <= y
BY LeastNumber DEF Min

LEMMA MaxOfTwo ==
  ASSUME NEW a \in Int, NEW b \in Int
  PROVE  Max({a, b}) = IF a >= b THEN a ELSE b
<1> DEFINE m == IF a >= b THEN a ELSE b
<1>1. m \in {a, b} /\ \A y \in {a, b} : m >= y
  OBVIOUS
<1>2. \A x \in {a, b} : (\A y \in {a, b} : x >= y) => x = m
  OBVIOUS
<1> HIDE DEF m
<1>3. Max({a, b}) = m
  BY <1>1, <1>2 DEF Max
<1> QED
  BY <1>3 DEF m

LEMMA MinOfTwo ==
  ASSUME NEW a \in Int, NEW b \in Int
  PROVE  Min({a, b}) = IF a <= b THEN a ELSE b
<1> DEFINE m == IF a <= b THEN a ELSE b
<1>1. m \in {a, b} /\ \A y \in {a, b} : m <= y
  OBVIOUS
<1>2. \A x \in {a, b} : (\A y \in {a, b} : x <= y) => x = m
  OBVIOUS
<1> HIDE DEF m
<1>3. Min({a, b}) = m
  BY <1>1, <1>2 DEF Min
<1> QED
  BY <1>3 DEF m

\* A finite set that is not empty has a greatest element for every measure.
LEMMA GreatestElement ==
  ASSUME NEW S, IsFiniteSet(S), S # {}, NEW f \in [S -> Int]
  PROVE  \E x \in S : \A y \in S : f[x] >= f[y]
<1> DEFINE Bad(T) == T # {} /\ \A x \in T : \E y \in T : f[y] > f[x]
           B == {n \in Nat : \E T \in SUBSET S : Cardinality(T) = n /\ Bad(T)}
<1>1. SUFFICES ASSUME B # {} PROVE FALSE
  <2>1. B = {} => ~Bad(S)
    BY FS_CardinalityType
  <2>2. \A x, y \in S : ~(f[y] > f[x]) => f[x] >= f[y]
    OBVIOUS
  <2> QED
    BY <2>1, <2>2
<1>2. PICK n \in B : \A k \in B : n <= k
  <2> HIDE DEF B
  <2>1. B \subseteq Nat
    BY DEF B
  <2> QED
    BY <1>1, <2>1, LeastNumber
<1>3. PICK T \in SUBSET S : Cardinality(T) = n /\ Bad(T)
  BY <1>2
<1>4. PICK x \in T : TRUE
  BY <1>3
<1> DEFINE U == T \ {x}
<1>5. IsFiniteSet(T) /\ Cardinality(T) \in Nat
  BY FS_Subset, FS_CardinalityType
<1>6. Cardinality(U) = n - 1 /\ Cardinality(U) \in Nat
  BY <1>3, <1>4, <1>5, FS_RemoveElement, FS_CardinalityType
<1>7. ~Bad(U)
  <2>1. n - 1 \notin B
    BY <1>2, <1>6
  <2> QED
    BY <1>6, <2>1
<1>8. CASE U = {}
  BY <1>3, <1>4, <1>8
<1>9. CASE U # {}
  <2>1. PICK u \in U : \A y \in U : ~(f[y] > f[u])
    BY <1>7, <1>9
  <2>2. f[x] > f[u]
    <3>1. PICK y \in T : f[y] > f[u]
      BY <1>3, <2>1
    <3> QED
      BY <2>1, <3>1
  <2>3. PICK z \in T : f[z] > f[x]
    BY <1>3, <1>4
  <2>4. z \in U
    BY <1>4, <2>3
  <2>5. f[z] > f[u]
    BY <2>1, <2>2, <2>3, <1>4
  <2> QED
    BY <2>1, <2>4, <2>5
<1> QED
  BY <1>8, <1>9

-----------------------------------------------------------------------------
(* Enumerations of a finite set. *)

Enumerates(p, S) ==
  /\ p \in Seq(S)
  /\ \A i, j \in 1..Len(p) : p[i] = p[j] => i = j
  /\ \A x \in S : \E i \in 1..Len(p) : p[i] = x

LEMMA EnumerationsAre ==
  ASSUME NEW S, IsFiniteSet(S), NEW p \in SetToSeqs(S)
  PROVE  Enumerates(p, S) /\ Len(p) = Cardinality(S)
<1> DEFINE n == Cardinality(S)
<1>1. n \in Nat /\ p \in [1..n -> S] /\ \A i, j \in 1..n : i # j => p[i] # p[j]
  BY FS_CardinalityType DEF SetToSeqs
<1>2. p \in Seq(S) /\ Len(p) = n
  <2> HIDE DEF n
  <2> QED
    BY <1>1
<1>3. IsFiniteSet(1..n) /\ Cardinality(1..n) = n
  BY <1>1, FS_Interval
<1>4. p \in Injection(1..n, S)
  BY <1>1 DEF Injection, IsInjective
<1>5. p \in Surjection(1..n, S)
  BY <1>3, <1>4, FS_Injection
<1>6. \A x \in S : \E i \in 1..n : p[i] = x
  BY <1>5 DEF Surjection
<1> QED
  BY <1>1, <1>2, <1>6 DEF Enumerates

LEMMA EnumerationIntro ==
  ASSUME NEW S, NEW p, Enumerates(p, S)
  PROVE  IsFiniteSet(S) /\ Cardinality(S) = Len(p) /\ p \in SetToSeqs(S)
<1> DEFINE n == Len(p)
<1>1. n \in Nat /\ p \in [1..n -> S]
  BY DEF Enumerates
<1>2. p \in Bijection(1..n, S)
  BY <1>1 DEF Enumerates, Bijection, Injection, Surjection, IsInjective
<1>3. ExistsBijection(1..n, S)
  BY <1>2 DEF ExistsBijection
<1>4. IsFiniteSet(S) /\ Cardinality(S) = n
  BY <1>1, <1>3, FS_Interval, FS_Bijection
<1>5. \A i, j \in 1..n : i # j => p[i] # p[j]
  BY DEF Enumerates
<1> QED
  BY <1>1, <1>4, <1>5 DEF SetToSeqs

LEMMA ConcatIs ==
  ASSUME NEW S, NEW p \in Seq(S), NEW q \in Seq(S)
  PROVE  /\ p \o q \in Seq(S)
         /\ Len(p \o q) = Len(p) + Len(q) /\ Len(p) \in Nat /\ Len(q) \in Nat
         /\ \A i \in 1..Len(p) : (p \o q)[i] = p[i]
         /\ \A i \in 1..Len(q) : (p \o q)[Len(p) + i] = q[i]
OBVIOUS

LEMMA ConcatEnumerates ==
  ASSUME NEW A, NEW B, NEW p, NEW q, Enumerates(p, A), Enumerates(q, B), A \cap B = {}
  PROVE  Enumerates(p \o q, A \cup B)
<1> DEFINE S == A \cup B
           r == p \o q
           m == Len(p)
           n == Len(q)
<1>1. p \in Seq(S) /\ q \in Seq(S)
  BY DEF Enumerates
<1>2. /\ r \in Seq(S) /\ Len(r) = m + n /\ m \in Nat /\ n \in Nat
      /\ \A i \in 1..m : r[i] = p[i]
      /\ \A i \in 1..n : r[m + i] = q[i]
  BY <1>1, ConcatIs
<1>3. /\ \A i \in 1..m : p[i] \in A
      /\ \A i \in 1..n : q[i] \in B
  BY DEF Enumerates
<1> HIDE DEF r, m, n
<1>4. \A i \in 1..(m + n) : i \in 1..m \/ (i - m \in 1..n /\ m + (i - m) = i)
  BY <1>2
<1>5. ASSUME NEW i \in 1..(m + n), NEW j \in 1..(m + n), r[i] = r[j] PROVE i = j
  <2>1. CASE i \in 1..m /\ j \in 1..m
    BY <1>2, <1>5, <2>1 DEF Enumerates, m
  <2>2. CASE i \in 1..m /\ j - m \in 1..n
    <3>1. r[i] \in A /\ r[j] \in B
      BY <1>2, <1>3, <1>4, <2>2
    <3> QED
      BY <1>5, <3>1
  <2>3. CASE i - m \in 1..n /\ j \in 1..m
    <3>1. r[i] \in B /\ r[j] \in A
      BY <1>2, <1>3, <1>4, <2>3
    <3> QED
      BY <1>5, <3>1
  <2>4. CASE i - m \in 1..n /\ j - m \in 1..n
    <3>1. q[i - m] = q[j - m]
      BY <1>2, <1>5, <2>4
    <3>2. i - m = j - m
      BY <2>4, <3>1 DEF Enumerates, n
    <3> QED
      BY <1>2, <3>2
  <2> QED
    BY <1>4, <2>1, <2>2, <2>3, <2>4
<1>6. ASSUME NEW x \in S PROVE \E i \in 1..(m + n) : r[i] = x
  <2>1. CASE x \in A
    <3>1. PICK i \in 1..m : p[i] = x
      BY <2>1 DEF Enumerates, m
    <3> QED
      BY <1>2, <3>1
  <2>2. CASE x \in B
    <3>1. PICK i \in 1..n : q[i] = x
      BY <2>2 DEF Enumerates, n
    <3>2. m + i \in 1..(m + n)
      BY <1>2
    <3> QED
      BY <1>2, <3>1, <3>2
  <2> QED
    BY <2>1, <2>2
<1> QED
  BY <1>2, <1>5, <1>6 DEF Enumerates, r

LEMMA SubSeqIs ==
  ASSUME NEW S, NEW p \in Seq(S), NEW k \in 1..(Len(p) + 1), NEW n \in (k - 1)..Len(p)
  PROVE  /\ SubSeq(p, k, n) \in Seq(S)
         /\ Len(SubSeq(p, k, n)) = n - k + 1
         /\ \A i \in 1..(n - k + 1) : SubSeq(p, k, n)[i] = p[k + i - 1]
OBVIOUS

\* A part of an enumeration enumerates its elements.
LEMMA PartEnumerates ==
  ASSUME NEW S, NEW p, Enumerates(p, S),
         NEW k \in 1..(Len(p) + 1), NEW n \in (k - 1)..Len(p)
  PROVE  Enumerates(SubSeq(p, k, n), {p[i] : i \in k..n})
<1> DEFINE r == SubSeq(p, k, n)
           T == {p[i] : i \in k..n}
           m == n - k + 1
<1>1. p \in Seq(S)
  BY DEF Enumerates
<1>2. Len(r) = m /\ \A i \in 1..m : r[i] = p[k + i - 1]
  BY <1>1, SubSeqIs
<1>3. r = [i \in 1..m |-> p[k + i - 1]] /\ m \in Nat
  BY <1>1
<1>4. \A i \in 1..m : k + i - 1 \in k..n /\ k + i - 1 \in 1..Len(p)
  BY <1>1
<1>5. r \in Seq(T)
  <2>1. \A i \in 1..m : p[k + i - 1] \in T
    BY <1>4
  <2> QED
    BY <1>3, <2>1
<1>6. ASSUME NEW i \in 1..m, NEW j \in 1..m, r[i] = r[j] PROVE i = j
  <2>1. p[k + i - 1] = p[k + j - 1]
    BY <1>2, <1>6
  <2>2. k + i - 1 = k + j - 1
    BY <1>4, <2>1 DEF Enumerates
  <2> QED
    BY <2>2
<1>7. ASSUME NEW x \in T PROVE \E i \in 1..m : r[i] = x
  <2>1. PICK j \in k..n : p[j] = x
    OBVIOUS
  <2>2. j - k + 1 \in 1..m /\ k + (j - k + 1) - 1 = j
    OBVIOUS
  <2> QED
    BY <1>2, <2>1, <2>2
<1> HIDE DEF r, T, m
<1> QED
  BY <1>2, <1>5, <1>6, <1>7 DEF Enumerates, r, T

-----------------------------------------------------------------------------
(* Best first. *)

Sorted(p) == \A i \in 1..(Len(p) - 1) : p[i].score >= p[i + 1].score
Scored(S) == \A m \in S : m.score \in Int

LEMMA SortedPairs ==
  ASSUME NEW S, Scored(S), NEW p \in Seq(S), Sorted(p),
         NEW i \in 1..Len(p), NEW j \in i..Len(p)
  PROVE  p[i].score >= p[j].score
<1> DEFINE B == {k \in Nat : k \in i..Len(p) /\ ~(p[i].score >= p[k].score)}
<1>1. \A k \in 1..Len(p) : p[k].score \in Int
  BY DEF Scored
<1>2. SUFFICES ASSUME B # {} PROVE FALSE
  OBVIOUS
<1>3. PICK k \in B : \A l \in B : k <= l
  <2>1. B \subseteq Nat
    OBVIOUS
  <2> HIDE DEF B
  <2> QED
    BY <1>2, <2>1, LeastNumber
<1>4. k # i
  BY <1>1
<1>5. k - 1 \in i..Len(p) /\ k - 1 \notin B /\ k - 1 \in 1..(Len(p) - 1)
  BY <1>3, <1>4
<1>6. p[i].score >= p[k - 1].score
  BY <1>5
<1>7. p[k - 1].score >= p[(k - 1) + 1].score /\ (k - 1) + 1 = k
  BY <1>5 DEF Sorted
<1>8. p[i].score \in Int /\ p[k].score \in Int /\ p[k - 1].score \in Int
  BY <1>1, <1>5
<1> QED
  BY <1>6, <1>7, <1>8

LEMMA SortedConcat ==
  ASSUME NEW S, NEW p \in Seq(S), NEW q \in Seq(S), Sorted(p), Sorted(q), Scored(S),
         \A i \in 1..Len(p), j \in 1..Len(q) : p[i].score >= q[j].score
  PROVE  Sorted(p \o q)
<1> DEFINE r == p \o q
           m == Len(p)
           n == Len(q)
<1>1. /\ Len(r) = m + n /\ m \in Nat /\ n \in Nat
      /\ \A i \in 1..m : r[i] = p[i]
      /\ \A i \in 1..n : r[m + i] = q[i]
  BY ConcatIs
<1> HIDE DEF r, m, n
<1> SUFFICES ASSUME NEW i \in 1..(m + n - 1) PROVE r[i].score >= r[i + 1].score
  BY <1>1 DEF Sorted, r
<1>2. CASE i < m
  <2>1. i \in 1..(m - 1) /\ i + 1 \in 1..m /\ i \in 1..m
    BY <1>1, <1>2
  <2>2. p[i].score >= p[i + 1].score
    BY <2>1 DEF Sorted, m
  <2> QED
    BY <1>1, <2>1, <2>2
<1>3. CASE i = m
  <2>1. m \in 1..m /\ 1 \in 1..n
    BY <1>1, <1>3
  <2>2. p[m].score >= q[1].score
    BY <2>1 DEF m, n
  <2> QED
    BY <1>1, <1>3, <2>1, <2>2
<1>4. CASE i > m
  <2>1. i - m \in 1..(n - 1) /\ i - m \in 1..n /\ i - m + 1 \in 1..n
        /\ m + (i - m) = i /\ m + (i - m + 1) = i + 1
    BY <1>1, <1>4
  <2>2. q[i - m].score >= q[i - m + 1].score
    BY <2>1 DEF Sorted, n
  <2>3. r[m + (i - m)] = q[i - m] /\ r[m + (i - m + 1)] = q[i - m + 1]
    BY <1>1, <2>1
  <2> QED
    BY <2>1, <2>2, <2>3
<1> QED
  BY <1>1, <1>2, <1>3, <1>4

LEMMA SortedPart ==
  ASSUME NEW S, NEW p \in Seq(S), Sorted(p),
         NEW k \in 1..(Len(p) + 1), NEW n \in (k - 1)..Len(p)
  PROVE  Sorted(SubSeq(p, k, n))
<1> DEFINE r == SubSeq(p, k, n)
<1>1. Len(r) = n - k + 1 /\ \A i \in 1..(n - k + 1) : r[i] = p[k + i - 1]
  BY SubSeqIs
<1> HIDE DEF r
<1> SUFFICES ASSUME NEW i \in 1..(n - k) PROVE r[i].score >= r[i + 1].score
  BY <1>1 DEF Sorted, r
<1>2. /\ i \in 1..(n - k + 1) /\ i + 1 \in 1..(n - k + 1)
      /\ k + i - 1 \in 1..(Len(p) - 1) /\ k + (i + 1) - 1 = (k + i - 1) + 1
  OBVIOUS
<1>3. p[k + i - 1].score >= p[(k + i - 1) + 1].score
  BY <1>2 DEF Sorted
<1> QED
  BY <1>1, <1>2, <1>3

\* Every finite set can be put in order: the best first, then the others.
LEMMA SortedExists ==
  ASSUME NEW S, IsFiniteSet(S), Scored(S)
  PROVE  \E p : Enumerates(p, S) /\ Sorted(p)
<1> DEFINE Bad(T) == \A p : ~(Enumerates(p, T) /\ Sorted(p))
           B == {n \in Nat : \E T \in SUBSET S : Cardinality(T) = n /\ Bad(T)}
<1>1. SUFFICES ASSUME B # {} PROVE FALSE
  <2>1. B = {} => ~Bad(S)
    BY FS_CardinalityType
  <2> QED
    BY <2>1
<1>2. PICK n \in B : \A k \in B : n <= k
  <2>1. B \subseteq Nat
    OBVIOUS
  <2> HIDE DEF B
  <2> QED
    BY <1>1, <2>1, LeastNumber
<1>3. PICK T \in SUBSET S : Cardinality(T) = n /\ Bad(T)
  BY <1>2
<1>4. IsFiniteSet(T) /\ Cardinality(T) \in Nat
  BY FS_Subset, FS_CardinalityType
<1>5. CASE T = {}
  <2>1. Enumerates(<<>>, T) /\ Sorted(<<>>)
    BY <1>5 DEF Enumerates, Sorted
  <2> QED
    BY <1>3, <2>1
<1>6. CASE T # {}
  <2>1. PICK x \in T : \A y \in T : x.score >= y.score
    <3> DEFINE f == [y \in T |-> y.score]
    <3>1. f \in [T -> Int]
      BY DEF Scored
    <3>2. \E x \in T : \A y \in T : f[x] >= f[y]
      <4> HIDE DEF f
      <4> QED
        BY <1>4, <1>6, <3>1, GreatestElement
    <3> QED
      BY <3>2
  <2> DEFINE U == T \ {x}
  <2>2. Cardinality(U) = n - 1 /\ Cardinality(U) \in Nat
    BY <1>3, <1>4, FS_RemoveElement, FS_CardinalityType
  <2>3. n - 1 \notin B
    BY <1>2, <2>2
  <2>4. U \in SUBSET S
    OBVIOUS
  <2>5. PICK q : Enumerates(q, U) /\ Sorted(q)
    BY <2>2, <2>3, <2>4
  <2>6. Enumerates(<<x>>, {x}) /\ Sorted(<<x>>)
    BY DEF Enumerates, Sorted
  <2>7. {x} \cup U = T /\ {x} \cap U = {}
    OBVIOUS
  <2>8. Enumerates(<<x>> \o q, T)
    BY <2>5, <2>6, <2>7, ConcatEnumerates
  <2>9. Sorted(<<x>> \o q)
    <3>1. <<x>> \in Seq(T) /\ q \in Seq(T) /\ Scored(T)
      BY <2>5 DEF Enumerates, Scored
    <3>2. \A i \in 1..Len(<<x>>), j \in 1..Len(q) : <<x>>[i].score >= q[j].score
      BY <2>1, <3>1
    <3> QED
      BY <2>5, <2>6, <3>1, <3>2, SortedConcat
  <2> QED
    BY <1>3, <2>8, <2>9
<1> QED
  BY <1>5, <1>6

-----------------------------------------------------------------------------
(* Recursive functions and flattened sequences. *)

\* f is the recursive function over the numbers up to n with these steps.
Iterates(f, n, V, base, step) ==
  /\ f \in [0..n -> V]
  /\ f[0] = base
  /\ \A i \in 1..n : f[i] = step[<<i, f[i - 1]>>]

LEMMA Iteration ==
  ASSUME NEW V, NEW base \in V, NEW n \in Nat, NEW step \in [(1..n) \X V -> V]
  PROVE  \E f : Iterates(f, n, V, base, step)
<1> DEFINE Good(k, f) == /\ f \in [0..k -> V] /\ f[0] = base
                         /\ \A i \in 1..k : f[i] = step[<<i, f[i - 1]>>]
           B == {k \in 0..n : \A f : ~Good(k, f)}
<1>1. SUFFICES ASSUME B # {} PROVE FALSE
  <2>1. B = {} => \E f : Good(n, f)
    OBVIOUS
  <2> QED
    BY <2>1 DEF Iterates
<1>2. PICK k \in B : \A j \in B : k <= j
  <2>1. B \subseteq Nat
    OBVIOUS
  <2> HIDE DEF B
  <2> QED
    BY <1>1, <2>1, LeastNumber
<1>3. CASE k = 0
  <2> DEFINE f == [i \in 0..0 |-> base]
  <2>1. Good(0, f)
    OBVIOUS
  <2> QED
    BY <1>2, <1>3, <2>1
<1>4. CASE k # 0
  <2>1. k \in 1..n /\ k - 1 \in 0..n /\ k - 1 \notin B
    BY <1>2, <1>4
  <2>2. PICK f : Good(k - 1, f)
    BY <2>1
  <2> DEFINE v == step[<<k, f[k - 1]>>]
             g == [i \in 0..k |-> IF i = k THEN v ELSE f[i]]
  <2>3. f[k - 1] \in V /\ <<k, f[k - 1]>> \in (1..n) \X V
    BY <2>1, <2>2
  <2>4. v \in V
    BY <2>3
  <2> HIDE DEF v
  <2>5. \A i \in 0..k : i # k => i \in 0..(k - 1)
    BY <2>1
  <2>6. g \in [0..k -> V]
    BY <2>2, <2>4, <2>5
  <2>7. g[0] = base
    BY <2>1, <2>2
  <2>8. ASSUME NEW i \in 1..k PROVE g[i] = step[<<i, g[i - 1]>>]
    <3>1. i - 1 \in 0..k /\ i - 1 # k /\ g[i - 1] = f[i - 1]
      BY <2>1
    <3>2. CASE i = k
      BY <3>1, <3>2 DEF v
    <3>3. CASE i # k
      <4>1. i \in 1..(k - 1) /\ g[i] = f[i]
        BY <2>1, <3>3
      <4> QED
        BY <2>2, <3>1, <4>1
    <3> QED
      BY <3>2, <3>3
  <2> HIDE DEF g
  <2>9. Good(k, g)
    BY <2>6, <2>7, <2>8
  <2> QED
    BY <1>2, <2>9
<1> QED
  BY <1>3, <1>4

LEMMA ConcatSet ==
  ASSUME NEW S, NEW p \in Seq(S), NEW q \in Seq(S)
  PROVE  p \o q \in Seq(S) /\ ToSet(p \o q) = ToSet(p) \cup ToSet(q)
<1> DEFINE r == p \o q
           m == Len(p)
           n == Len(q)
<1>1. /\ r \in Seq(S) /\ DOMAIN r = 1..(m + n) /\ m \in Nat /\ n \in Nat
      /\ DOMAIN p = 1..m /\ DOMAIN q = 1..n
      /\ \A j \in 1..m : r[j] = p[j]
      /\ \A j \in 1..n : r[m + j] = q[j]
  OBVIOUS
<1> HIDE DEF r, m, n
<1>2. ToSet(r) \subseteq ToSet(p) \cup ToSet(q)
  <2> SUFFICES ASSUME NEW j \in 1..(m + n) PROVE r[j] \in ToSet(p) \cup ToSet(q)
    BY <1>1 DEF ToSet
  <2>1. j \in 1..m \/ (j - m \in 1..n /\ m + (j - m) = j)
    BY <1>1
  <2> QED
    BY <1>1, <2>1 DEF ToSet
<1>3. ToSet(p) \subseteq ToSet(r)
  <2>1. \A j \in 1..m : j \in 1..(m + n)
    BY <1>1
  <2> QED
    BY <1>1, <2>1 DEF ToSet
<1>4. ToSet(q) \subseteq ToSet(r)
  <2>1. \A j \in 1..n : m + j \in 1..(m + n)
    BY <1>1
  <2> QED
    BY <1>1, <2>1 DEF ToSet
<1> QED
  BY <1>1, <1>2, <1>3, <1>4 DEF r

\* How a sequence is flattened.
LEMMA FlattenSteps ==
  ASSUME NEW S, NEW ss \in Seq(Seq(S))
  PROVE  \E f \in [0..Len(ss) -> Seq(S)] :
           /\ f[0] = <<>> /\ \A i \in 1..Len(ss) : f[i] = f[i - 1] \o ss[i]
           /\ FlattenSeq(ss) = f[Len(ss)]
<1> DEFINE n == Len(ss)
           V == Seq(S)
           Is(g) == g = [i \in 1..n |-> IF i = 1 THEN ss[i] ELSE g[i - 1] \o ss[i]]
<1>1. CASE n = 0
  <2>1. ss = <<>> /\ FlattenSeq(ss) = <<>>
    BY <1>1 DEF FlattenSeq
  <2> DEFINE f == [i \in 0..0 |-> <<>>]
  <2>2. f \in [0..0 -> V] /\ f[0] = <<>>
    OBVIOUS
  <2>3. \A i \in 1..0 : FALSE
    OBVIOUS
  <2> HIDE DEF f
  <2> QED
    BY <1>1, <2>1, <2>2, <2>3
<1>2. CASE n # 0
  <2>1. n \in Nat /\ n >= 1 /\ \A i \in 1..n : ss[i] \in V
    BY <1>2
  <2>2. FlattenSeq(ss) = (CHOOSE g : Is(g))[n]
    BY <1>2 DEF FlattenSeq
  <2>3. /\ \A a, b \in V : a \o b \in V
        /\ <<>> \in V
        /\ \A b \in V : <<>> \o b = b
    BY ConcatSet
  <2> DEFINE step == [p \in (1..n) \X V |-> p[2] \o ss[p[1]]]
  <2> HIDE DEF n, V
  <2>4. step \in [(1..n) \X V -> V]
    BY <2>1, <2>3
  <2>5. \A i \in 1..n, v \in V : step[<<i, v>>] = v \o ss[i]
    <3>1. \A i \in 1..n, v \in V : <<i, v>> \in (1..n) \X V
      OBVIOUS
    <3>2. \A p \in (1..n) \X V : step[p] = p[2] \o ss[p[1]]
      OBVIOUS
    <3>3. \A i, v : <<i, v>>[1] = i /\ <<i, v>>[2] = v
      OBVIOUS
    <3> HIDE DEF step
    <3> QED
      BY <3>1, <3>2, <3>3
  <2> HIDE DEF step
  <2>6. \E f : Iterates(f, n, V, <<>>, step)
    BY <2>1, <2>3, <2>4, Iteration
  <2>7. PICK f : /\ f \in [0..n -> V] /\ f[0] = <<>>
                 /\ \A i \in 1..n : f[i] = step[<<i, f[i - 1]>>]
    BY <2>6 DEF Iterates
  <2>8. \A i \in 1..n : i - 1 \in 0..n /\ f[i - 1] \in V
    BY <2>1, <2>7
  <2>9. \A i \in 1..n : f[i] = f[i - 1] \o ss[i]
    BY <2>5, <2>7, <2>8
  <2>10. \A i \in 1..n : f[i] = IF i = 1 THEN ss[i] ELSE f[i - 1] \o ss[i]
    <3>1. 1 \in 1..n /\ f[1 - 1] = <<>>
      BY <2>1, <2>7
    <3>2. f[1] = f[1 - 1] \o ss[1] /\ ss[1] \in V
      BY <2>1, <2>9, <3>1
    <3>3. f[1] = ss[1]
      BY <2>3, <3>1, <3>2
    <3> QED
      BY <2>9, <3>3
  <2> DEFINE e == [i \in 1..n |-> f[i]]
  <2>11. Is(e)
    <3>1. \A i \in 1..n : i # 1 => i - 1 \in 1..n
      BY <2>1
    <3> QED
      BY <2>10, <3>1
  <2> DEFINE g == CHOOSE g : Is(g)
  <2>12. Is(g)
    <3>1. \E h : Is(h)
      BY <2>11
    <3> HIDE DEF Is
    <3> QED
      BY <3>1
  <2> HIDE DEF g
  <2>13. \A i \in 1..n : g[i] = IF i = 1 THEN ss[i] ELSE g[i - 1] \o ss[i]
    <3> DEFINE h == [i \in 1..n |-> IF i = 1 THEN ss[i] ELSE g[i - 1] \o ss[i]]
    <3>1. \A i \in 1..n : h[i] = IF i = 1 THEN ss[i] ELSE g[i - 1] \o ss[i]
      OBVIOUS
    <3>2. g = h
      BY <2>12
    <3> HIDE DEF h
    <3> QED
      BY <3>1, <3>2
  <2> HIDE DEF Is
  <2> DEFINE B == {i \in 1..n : g[i] # f[i]}
  <2>14. ASSUME B # {} PROVE FALSE
    <3>1. PICK i \in B : \A j \in B : i <= j
      <4>1. B \subseteq Nat
        BY <2>1
      <4> HIDE DEF B
      <4> QED
        BY <2>14, <4>1, LeastNumber
    <3>2. i # 1 => i - 1 \in 1..n /\ ~(i <= i - 1)
      BY <2>1, <3>1
    <3>3. i # 1 => g[i - 1] = f[i - 1]
      BY <3>1, <3>2
    <3> QED
      BY <2>10, <2>13, <3>1, <3>3
  <2>15. n \in 1..n
    BY <2>1
  <2>16. FlattenSeq(ss) = f[n]
    BY <2>2, <2>14, <2>15 DEF g
  <2> QED
    BY <2>7, <2>9, <2>16 DEF n, V
<1> QED
  BY <1>1, <1>2

\* What a flattened sequence has is what its sequences have.
LEMMA FlattenIs ==
  ASSUME NEW S, NEW ss \in Seq(Seq(S))
  PROVE  /\ FlattenSeq(ss) \in Seq(S)
         /\ ToSet(FlattenSeq(ss)) = UNION {ToSet(ss[i]) : i \in 1..Len(ss)}
<1> DEFINE n == Len(ss)
           V == Seq(S)
           All(i) == UNION {ToSet(ss[j]) : j \in 1..i}
<1>1. n \in Nat /\ \A i \in 1..n : ss[i] \in V
  OBVIOUS
<1>2. PICK f \in [0..n -> V] : /\ f[0] = <<>> /\ \A i \in 1..n : f[i] = f[i - 1] \o ss[i]
                               /\ FlattenSeq(ss) = f[n]
  BY FlattenSteps
<1>3. \A a, b \in V : ToSet(a \o b) = ToSet(a) \cup ToSet(b)
  BY ConcatSet
<1> HIDE DEF n, V
<1> DEFINE B == {i \in 0..n : ToSet(f[i]) # All(i)}
<1>4. ASSUME B # {} PROVE FALSE
  <2>1. PICK i \in B : \A j \in B : i <= j
    <3>1. B \subseteq Nat
      BY <1>1
    <3> HIDE DEF B
    <3> QED
      BY <1>4, <3>1, LeastNumber
  <2>2. CASE i = 0
    <3>1. ToSet(f[0]) = {}
      BY <1>2 DEF ToSet
    <3>2. 1..0 = {}
      OBVIOUS
    <3>3. All(0) = {}
      BY <3>2
    <3> QED
      BY <2>1, <2>2, <3>1, <3>3
  <2>3. CASE i # 0
    <3>1. i \in 1..n /\ i - 1 \in 0..n /\ ~(i <= i - 1)
      BY <1>1, <2>1, <2>3
    <3>2. ToSet(f[i - 1]) = All(i - 1)
      BY <2>1, <3>1
    <3>3. f[i] = f[i - 1] \o ss[i] /\ f[i - 1] \in V /\ ss[i] \in V
      BY <1>1, <1>2, <3>1
    <3>4. ToSet(f[i]) = ToSet(f[i - 1]) \cup ToSet(ss[i])
      BY <1>3, <3>3
    <3>5. All(i) = All(i - 1) \cup ToSet(ss[i])
      <4>1. 1..i = (1..(i - 1)) \cup {i}
        BY <1>1, <3>1
      <4> QED
        BY <4>1, Zenon
    <3> QED
      BY <2>1, <3>2, <3>4, <3>5
  <2> QED
    BY <2>2, <2>3
<1>5. n \in 0..n
  BY <1>1
<1>6. ToSet(f[n]) = All(n) /\ f[n] \in V
  BY <1>2, <1>4, <1>5
<1> QED
  BY <1>2, <1>6 DEF n, V
=============================================================================
