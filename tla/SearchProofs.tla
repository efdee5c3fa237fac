---------------------------- MODULE SearchProofs ----------------------------
(***************************************************************************)
(* Theorems about searches for every corpus, every history of edits while  *)
(* they run, every ranking of the index and the embeddings, and every size *)
(* of the cache: the cache, the sources and the versions of what is shown, *)
(* fusion, the two semantic indexes, the answers, and the types.           *)
(***************************************************************************)
EXTENDS SearchTool, OrderLemmas, FiniteSetTheorems, TLAPS

-----------------------------------------------------------------------------
(* The cache. *)

IsCache(c) ==
  /\ c = [capacity |-> c.capacity, order |-> c.order, entries |-> c.entries]
  /\ c.capacity \in Nat \ {0}
  /\ c.order \in Seq(DOMAIN c.entries)
  /\ Agrees(c)

LEMMA SeqIntro ==
  ASSUME NEW S, NEW n \in Nat, NEW f \in [1..n -> S]
  PROVE  f \in Seq(S) /\ Len(f) = n
OBVIOUS

LEMMA NewCacheAgrees ==
  ASSUME NEW n \in Int
  PROVE  IsCache(NewCache(n)) /\ DOMAIN NewCache(n).entries = {}
<1> DEFINE c == NewCache(n)
<1>1. c = [capacity |-> IF n < 1 THEN 1 ELSE n, order |-> <<>>, entries |-> <<>>]
  BY DEF NewCache
<1>2. c.order = <<>> /\ c.entries = <<>> /\ c.capacity \in Nat \ {0}
  BY <1>1
<1>3. DOMAIN c.entries = {}
  BY <1>2
<1>4. Agrees(c)
  BY <1>2, <1>3 DEF Agrees
<1> QED
  BY <1>1, <1>2, <1>3, <1>4 DEF IsCache

\* The queue is as long as the map is large.
LEMMA OrderCounts ==
  ASSUME NEW c, IsCache(c)
  PROVE  /\ Cardinality(DOMAIN c.entries) = Len(c.order)
         /\ Len(c.order) \in Nat
<1> DEFINE n == Len(c.order)
           K == DOMAIN c.entries
           f == [i \in 1..n |-> c.order[i]]
<1>1. n \in Nat /\ \A i \in 1..n : c.order[i] \in K
  BY DEF IsCache
<1>2. f \in [1..n -> K]
  BY <1>1
<1>3. \A i, j \in 1..n : f[i] = f[j] => i = j
  BY DEF IsCache, Agrees
<1>4. \A k \in K : \E i \in 1..n : f[i] = k
  BY DEF IsCache, Agrees
<1>5. ExistsBijection(1..n, K)
  <2>1. f \in Bijection(1..n, K)
    BY <1>2, <1>3, <1>4 DEF Bijection, Injection, Surjection, IsInjective
  <2> QED
    BY <2>1 DEF ExistsBijection
<1> QED
  BY <1>1, <1>5, FS_CountingElements

\* A key that is there is moved, and nothing else changes.
LEMMA TouchKeeps ==
  ASSUME NEW c, IsCache(c), NEW key \in DOMAIN c.entries
  PROVE  IsCache(Touch(c, key)) /\ Touch(c, key).entries = c.entries
<1> DEFINE n == Len(c.order)
           place == CHOOSE i \in 1..n : c.order[i] = key
           new == [i \in 1..n |->
                     CASE i = n -> key
                       [] i # n /\ i < place -> c.order[i]
                       [] OTHER -> c.order[i + 1]]
<1>1. n \in Nat /\ place \in 1..n /\ c.order[place] = key
  BY DEF IsCache, Agrees
<1>2. Touch(c, key) = [c EXCEPT !.order = new]
  BY <1>1 DEF Touch
<1>3. \A i \in 1..n : i # n /\ ~(i < place) => i + 1 \in 1..n
  BY <1>1
<1>4. \A i \in 1..n : c.order[i] \in DOMAIN c.entries
  BY DEF IsCache
<1>5. new \in [1..n -> DOMAIN c.entries]
  BY <1>3, <1>4
<1>6. new \in Seq(DOMAIN c.entries) /\ Len(new) = n
  <2> HIDE DEF new
  <2> QED
    BY <1>1, <1>5, SeqIntro
<1>7. /\ new[n] = key
      /\ \A i \in 1..n : i # n /\ i < place => new[i] = c.order[i]
      /\ \A i \in 1..n : i # n /\ ~(i < place) => new[i] = c.order[i + 1]
  BY <1>1
<1> HIDE DEF new
<1>8. \A i, j \in 1..n : c.order[i] = c.order[j] => i = j
  BY DEF IsCache, Agrees
<1>9. \A i, j \in 1..n : new[i] = new[j] => i = j
  <2> DEFINE from(i) == IF i = n THEN place ELSE IF i < place THEN i ELSE i + 1
  <2>1. \A i \in 1..n : from(i) \in 1..n /\ new[i] = c.order[from(i)]
    BY <1>1, <1>3, <1>7
  <2>2. \A i, j \in 1..n : from(i) = from(j) => i = j
    BY <1>1
  <2> QED
    BY <1>8, <2>1, <2>2
<1>10. \A k \in DOMAIN c.entries : \E i \in 1..n : new[i] = k
  <2> SUFFICES ASSUME NEW k \in DOMAIN c.entries PROVE \E i \in 1..n : new[i] = k
    OBVIOUS
  <2>1. PICK i \in 1..n : c.order[i] = k
    BY DEF IsCache, Agrees
  <2>2. CASE i < place
    BY <1>1, <1>7, <2>1, <2>2
  <2>3. CASE i = place
    BY <1>1, <1>7, <2>1, <2>3
  <2>4. CASE i > place
    <3>1. i - 1 \in 1..n /\ i - 1 # n /\ ~(i - 1 < place) /\ i - 1 + 1 = i
      BY <1>1, <2>4
    <3> QED
      BY <1>7, <2>1, <3>1
  <2> QED
    BY <1>1, <2>2, <2>3, <2>4
<1>11. /\ Touch(c, key) = [capacity |-> c.capacity, order |-> new, entries |-> c.entries]
       /\ c.capacity \in Nat \ {0} /\ n <= c.capacity
  BY <1>2 DEF IsCache, Agrees
<1> DEFINE t == Touch(c, key)
<1>12. t.order = new /\ t.entries = c.entries /\ t.capacity = c.capacity
  BY <1>11
<1>13. t = [capacity |-> t.capacity, order |-> t.order, entries |-> t.entries]
  BY <1>11, <1>12
<1> HIDE DEF t
<1>14. {new[i] : i \in 1..n} = DOMAIN c.entries
  BY <1>5, <1>10
<1>15. Agrees(t)
  <2>1. Len(t.order) = n
    BY <1>6, <1>12
  <2>2. \A i, j \in 1..Len(t.order) : t.order[i] = t.order[j] => i = j
    BY <1>9, <1>12, <2>1
  <2>3. {t.order[i] : i \in 1..Len(t.order)} = DOMAIN t.entries
    BY <1>12, <1>14, <2>1
  <2>4. Len(t.order) <= t.capacity
    BY <1>11, <1>12, <2>1
  <2> QED
    BY <2>2, <2>3, <2>4 DEF Agrees
<1>16. IsCache(t)
  BY <1>6, <1>11, <1>12, <1>13, <1>15 DEF IsCache
<1> QED
  BY <1>12, <1>16 DEF t

LEMMA AppendIs ==
  ASSUME NEW S, NEW s \in Seq(S), NEW e
  PROVE  /\ Append(s, e) \in Seq(S \cup {e})
         /\ Len(Append(s, e)) = Len(s) + 1
         /\ \A i \in 1..Len(s) : Append(s, e)[i] = s[i]
         /\ Append(s, e)[Len(s) + 1] = e
OBVIOUS

LEMMA TailIs ==
  ASSUME NEW S, NEW s \in Seq(S), s # <<>>
  PROVE  /\ Tail(s) \in Seq(S)
         /\ Head(s) = s[1]
         /\ Len(s) > 0 /\ Len(Tail(s)) = Len(s) - 1
         /\ \A i \in 1..(Len(s) - 1) : Tail(s)[i] = s[i + 1]
OBVIOUS

LEMMA RecordUpdate ==
  ASSUME NEW c, NEW o, NEW e,
         c = [capacity |-> c.capacity, order |-> c.order, entries |-> c.entries]
  PROVE  [c EXCEPT !.order = o, !.entries = e] =
           [capacity |-> c.capacity, order |-> o, entries |-> e]
<1>1. ASSUME NEW x, NEW y, NEW z
      PROVE  [[capacity |-> x, order |-> y, entries |-> z] EXCEPT !.order = o, !.entries = e]
               = [capacity |-> x, order |-> o, entries |-> e]
  <2> DEFINE r == [capacity |-> x, order |-> y, entries |-> z]
  <2>1. [r EXCEPT !.order = o, !.entries = e] = [[r EXCEPT !.order = o] EXCEPT !.entries = e]
    OBVIOUS
  <2>2. [r EXCEPT !.order = o] = [capacity |-> x, order |-> o, entries |-> z]
    OBVIOUS
  <2>3. [[capacity |-> x, order |-> o, entries |-> z] EXCEPT !.entries = e]
          = [capacity |-> x, order |-> o, entries |-> e]
    OBVIOUS
  <2> HIDE DEF r
  <2> QED
    BY <2>1, <2>2, <2>3 DEF r
<1>2. [[capacity |-> c.capacity, order |-> c.order, entries |-> c.entries]
         EXCEPT !.order = o, !.entries = e] =
        [capacity |-> c.capacity, order |-> o, entries |-> e]
  BY <1>1
<1> QED
  BY <1>2, Zenon

\* A new key comes last, and what it evicts leaves map and queue.
LEMMA InsertKeeps ==
  ASSUME NEW c, IsCache(c), NEW key, key \notin DOMAIN c.entries, NEW value
  PROVE  /\ IsCache(Insert(c, key, value))
         /\ DOMAIN Insert(c, key, value).entries =
              (DOMAIN c.entries \ Evicts(c)) \cup {key}
         /\ \A k \in DOMAIN Insert(c, key, value).entries :
              Insert(c, key, value).entries[k] =
                IF k = key THEN value ELSE c.entries[k]
<1> DEFINE n == Len(c.order)
           K == DOMAIN c.entries
           kept == K \ Evicts(c)
           rest == IF Full(c) THEN Tail(c.order) ELSE c.order
           order == Append(rest, key)
           entries == [k \in kept \cup {key} |-> IF k = key THEN value ELSE c.entries[k]]
           new == Insert(c, key, value)
<1>1. /\ n \in Nat /\ c.order \in Seq(K) /\ c.capacity \in Nat \ {0}
      /\ \A i \in 1..n : c.order[i] \in K
      /\ \A i, j \in 1..n : c.order[i] = c.order[j] => i = j
      /\ Cardinality(K) = n /\ n <= c.capacity
  BY OrderCounts DEF IsCache, Agrees
<1>2. \A k \in K : \E i \in 1..n : c.order[i] = k
  BY DEF IsCache, Agrees
<1>3. /\ new.order = order /\ new.entries = entries /\ new.capacity = c.capacity
      /\ new = [capacity |-> new.capacity, order |-> new.order, entries |-> new.entries]
  <2>1. new = [c EXCEPT !.order = order, !.entries = entries]
    BY DEF Insert
  <2> HIDE DEF new, order, entries
  <2>2. new = [capacity |-> c.capacity, order |-> order, entries |-> entries]
    BY <2>1, RecordUpdate DEF IsCache
  <2> QED
    BY <2>2
<1>4. /\ rest \in Seq(kept) /\ Len(rest) < c.capacity
      /\ \A i \in 1..Len(rest) : rest[i] \in kept
      /\ \A k \in kept : \E i \in 1..Len(rest) : rest[i] = k
      /\ \A i, j \in 1..Len(rest) : rest[i] = rest[j] => i = j
  <2>1. CASE Full(c)
    <3>1. n >= c.capacity /\ c.order # <<>> /\ Evicts(c) = {c.order[1]} /\ n > 0
      BY <1>1, <2>1, TailIs DEF Full, Evicts
    <3>2. /\ rest \in Seq(K) /\ Len(rest) = n - 1
          /\ \A i \in 1..(n - 1) : rest[i] = c.order[i + 1]
      BY <1>1, <2>1, <3>1, TailIs
    <3> HIDE DEF rest
    <3>3. \A i \in 1..(n - 1) : rest[i] \in K /\ rest[i] # c.order[1]
      BY <1>1, <3>1, <3>2
    <3>4. \A k \in kept : \E i \in 1..(n - 1) : rest[i] = k
      <4> SUFFICES ASSUME NEW k \in kept PROVE \E i \in 1..(n - 1) : rest[i] = k
        OBVIOUS
      <4>1. PICK i \in 1..n : c.order[i] = k
        BY <1>2
      <4>2. i # 1
        BY <3>1, <4>1
      <4>3. i - 1 \in 1..(n - 1) /\ i - 1 + 1 = i
        BY <1>1, <4>2
      <4> QED
        BY <3>2, <4>1, <4>3
    <3>5. \A i, j \in 1..(n - 1) : rest[i] = rest[j] => i = j
      BY <1>1, <3>2
    <3>6. rest \in [1..(n - 1) -> kept]
      BY <3>1, <3>2, <3>3
    <3> HIDE DEF kept
    <3>7. rest \in Seq(kept)
      <4>1. n - 1 \in Nat
        BY <1>1, <3>1
      <4> QED
        BY <3>6, <4>1, SeqIntro
    <3>8. n - 1 < c.capacity
      BY <1>1
    <3> QED
      BY <3>2, <3>4, <3>5, <3>6, <3>7, <3>8
  <2>2. CASE ~Full(c)
    <3>1. kept = K /\ rest = c.order
      BY <2>2 DEF Evicts
    <3>2. n < c.capacity
      <4>1. CASE c.order = <<>>
        BY <1>1, <4>1
      <4>2. CASE c.order # <<>>
        BY <1>1, <2>2, <4>2 DEF Full
      <4> QED
        BY <4>1, <4>2
    <3> HIDE DEF rest, kept
    <3> QED
      BY <1>1, <1>2, <3>1, <3>2
  <2> QED
    BY <2>1, <2>2
<1> DEFINE m == Len(rest)
<1> HIDE DEF rest, kept
<1>5. /\ order \in Seq(kept \cup {key}) /\ Len(order) = m + 1 /\ m \in Nat
      /\ \A i \in 1..m : order[i] = rest[i]
      /\ order[m + 1] = key
  BY <1>4, AppendIs
<1>6. key \notin kept /\ DOMAIN entries = kept \cup {key}
  BY DEF kept
<1>7. \A k \in kept \cup {key} : entries[k] = IF k = key THEN value ELSE c.entries[k]
  OBVIOUS
<1> HIDE DEF new, order, entries, rest, kept, K, n, m
<1>8. \A i, j \in 1..(m + 1) : order[i] = order[j] => i = j
  <2>1. \A i \in 1..m : order[i] = rest[i] /\ rest[i] \in kept /\ order[i] # key
    BY <1>4, <1>5, <1>6 DEF m
  <2>2. \A i \in 1..(m + 1) : i \in 1..m \/ i = m + 1
    BY <1>5
  <2>3. \A i, j \in 1..m : rest[i] = rest[j] => i = j
    BY <1>4 DEF m
  <2> QED
    BY <1>5, <2>1, <2>2, <2>3
<1>9. \A k \in kept \cup {key} : \E i \in 1..(m + 1) : order[i] = k
  <2>1. \A k \in kept : \E i \in 1..m : order[i] = k
    BY <1>4, <1>5 DEF m
  <2>2. m + 1 \in 1..(m + 1) /\ 1..m \subseteq 1..(m + 1)
    BY <1>5
  <2> QED
    BY <1>5, <2>1, <2>2
<1>10. \A i \in 1..(m + 1) : order[i] \in kept \cup {key}
  BY <1>5
<1>11. {order[i] : i \in 1..(m + 1)} = kept \cup {key}
  BY <1>9, <1>10
<1>12. m + 1 <= c.capacity
  BY <1>1, <1>4, <1>5 DEF m
<1>13. Agrees(new)
  BY <1>3, <1>5, <1>6, <1>8, <1>11, <1>12 DEF Agrees
<1>14. IsCache(new)
  BY <1>1, <1>3, <1>5, <1>6, <1>13 DEF IsCache
<1> QED
  BY <1>3, <1>6, <1>7, <1>14 DEF new, kept, K

\* Every step of a search leaves the cache alone, starts a new one, or reads.
LEMMA CacheUse ==
  ASSUME [Next]_vars
  PROVE  \/ UNCHANGED <<cache, evicted>>
         \/ cache' = NewCache(CacheCapacity) /\ evicted' = {}
         \/ \E d, outcome : Read(d, outcome)
<1>1. CASE (\E d \in Docs : Edit(d)) \/ Rebuild \/ UNCHANGED vars
  BY <1>1 DEF Edit, Rebuild, progress, vars
<1>2. ASSUME NEW q \in Questions, Ask(q)
      PROVE  cache' = NewCache(CacheCapacity) /\ evicted' = {}
  BY <1>2 DEF Ask, EndAtOnce, Search, LookUp, StartSearch, StartLocate, Clear
<1>3. CASE TryNext \/ Answer
  BY <1>3 DEF TryNext, Answer, StartSearch, StartLocate, Clear
<1>4. CASE SearchLexical \/ EndLexical \/ SearchSemantic \/ EndSemantic
             \/ LocateIn \/ EndLocate
  BY <1>4 DEF SearchLexical, EndLexical, SearchSemantic, EndSemantic, LocateIn, EndLocate
<1>5. CASE LexicalHit \/ SemanticHit
  BY <1>5 DEF LexicalHit, SemanticHit
<1> QED
  BY <1>1, <1>2, <1>3, <1>4, <1>5 DEF Next, Step

LEMMA ReadKeeps ==
  ASSUME IsCache(cache), NEW d, NEW outcome, Read(d, outcome)
  PROVE  IsCache(cache')
<1>1. CASE Cached(cache, d)
  BY <1>1, TouchKeeps DEF Read, Cached
<1>2. CASE ~Cached(cache, d)
  BY <1>2, InsertKeeps DEF Read, Cached
<1> QED
  BY <1>1, <1>2

\* CacheAgrees: whatever is read in whatever order, the queue of the cache lists
\* exactly the keys of its map, and is not longer than the capacity.
THEOREM CacheIsConsistent == Spec => []CacheAgrees
<1>1. Init => IsCache(cache)
  BY NewCacheAgrees, SearchAssumption DEF Init
<1>2. IsCache(cache) /\ [Next]_vars => IsCache(cache)'
  <2> SUFFICES ASSUME IsCache(cache), [Next]_vars PROVE IsCache(cache')
    BY DEF IsCache, Agrees
  <2>1. CASE UNCHANGED cache
    BY <2>1
  <2>2. CASE cache' = NewCache(CacheCapacity)
    BY <2>2, NewCacheAgrees, SearchAssumption
  <2>3. CASE \E d, outcome : Read(d, outcome)
    BY <2>3, ReadKeeps
  <2> QED
    BY <2>1, <2>2, <2>3, CacheUse
<1>3. IsCache(cache) => CacheAgrees
  BY DEF IsCache, CacheAgrees
<1> QED
  BY <1>1, <1>2, <1>3, PTL DEF Spec

-----------------------------------------------------------------------------
(* Rankings. *)

LEMMA Of2 ==
  ASSUME NEW a \in Int, NEW b \in Int
  PROVE  /\ Min({a, b}) \in {a, b} /\ Min({a, b}) <= a /\ Min({a, b}) <= b
         /\ Max({a, b}) \in {a, b}
<1>1. \E x \in {a, b} : \A y \in {a, b} : x =< y
  BY SMT
<1>2. \E x \in {a, b} : \A y \in {a, b} : x >= y
  BY SMT
<1>3. Min({a, b}) \in {a, b} /\ \A y \in {a, b} : Min({a, b}) =< y
  BY <1>1, Zenon DEF Min
<1>4. Max({a, b}) \in {a, b}
  BY <1>2, Zenon DEF Max
<1> QED
  BY <1>3, <1>4

LEMMA AtMostIs ==
  ASSUME NEW S, NEW q \in Seq(S), NEW n \in Int
  PROVE  /\ AtMost(n, q) \in Seq(S)
         /\ ToSet(AtMost(n, q)) \subseteq ToSet(q)
<1> DEFINE k == Min({n, Len(q)})
<1>0. Len(q) \in Int
  OBVIOUS
<1>1. k \in Int /\ k <= Len(q)
  BY <1>0, Of2
<1>2. AtMost(n, q) = SubSeq(q, 1, k)
  BY DEF AtMost
<1> HIDE DEF k
<1>3. /\ SubSeq(q, 1, k) \in Seq(S)
      /\ DOMAIN SubSeq(q, 1, k) = 1..k
      /\ \A i \in 1..k : SubSeq(q, 1, k)[i] = q[i]
  BY <1>1
<1>4. 1..k \subseteq DOMAIN q
  BY <1>1
<1> QED
  BY <1>2, <1>3, <1>4 DEF ToSet

LEMMA RankedIs ==
  ASSUME NEW S, IsFiniteSet(S), NEW n \in Int, NEW q \in Ranked(S, n)
  PROVE  q \in Seq(S) /\ ToSet(q) \subseteq S
<1>1. PICK p \in SetToSeqs(S) : q = AtMost(n, p)
  BY DEF Ranked
<1>2. p \in [1..Cardinality(S) -> S] /\ Cardinality(S) \in Nat
  BY FS_CardinalityType DEF SetToSeqs
<1>3. p \in Seq(S)
  BY <1>2, SeqIntro
<1>4. q \in Seq(S)
  BY <1>1, <1>3, AtMostIs
<1> QED
  BY <1>4 DEF ToSet

LEMMA DocsFinite == IsFiniteSet(Docs)
<1>1. Walk \in [1..Len(Walk) -> Docs] /\ Len(Walk) \in Nat
  BY SearchAssumption
<1>2. \A d \in Docs : \E i \in 1..Len(Walk) : Walk[i] = d
  BY <1>1 DEF Docs, ToSet
<1>3. Walk \in Surjection(1..Len(Walk), Docs)
  BY <1>1, <1>2 DEF Surjection
<1>4. IsFiniteSet(1..Len(Walk))
  BY <1>1, FS_Interval
<1> QED
  BY <1>3, <1>4, FS_Surjection

Snapshot == [Docs -> Texts \cup {"gone"}]

LEMMA ChunksFinite ==
  ASSUME NEW snapshot \in Snapshot
  PROVE  /\ IsFiniteSet(ChunksOf(snapshot))
         /\ \A c \in ChunksOf(snapshot) :
              c[1] \in Docs /\ snapshot[c[1]] \in Texts /\ c[2] \in Nat
<1> DEFINE D == {e \in Docs : snapshot[e] \in Texts}
           of(d) == {d} \X (0..(Pieces(snapshot[d]) - 1))
           f == [d \in D |-> of(d)]
           S == {of(d) : d \in D}
<1>1. IsFiniteSet(D)
  BY DocsFinite, FS_Subset
<1>2. f \in Surjection(D, S)
  BY DEF Surjection
<1>3. IsFiniteSet(S)
  BY <1>1, <1>2, FS_Surjection
<1>4. ASSUME NEW d \in D PROVE IsFiniteSet(of(d))
  <2>1. Pieces(snapshot[d]) - 1 \in Int
    BY SearchAssumption
  <2>2. IsFiniteSet({d})
    BY FS_Singleton, Zenon
  <2>3. \A n \in Int : IsFiniteSet(0..n)
    BY FS_Interval
  <2>4. IsFiniteSet(0..(Pieces(snapshot[d]) - 1))
    BY <2>1, <2>3
  <2> QED
    BY <2>2, <2>4, FS_Product
<1>5. \A T \in S : IsFiniteSet(T)
  BY <1>4
<1>6. ChunksOf(snapshot) = UNION S
  BY DEF ChunksOf
<1>7. IsFiniteSet(UNION S)
  BY <1>3, <1>5, FS_UNION
<1>8. \A c \in UNION S : c[1] \in D /\ c[2] \in Nat
  <2> SUFFICES ASSUME NEW d \in D, NEW c \in of(d) PROVE c[1] \in D /\ c[2] \in Nat
    OBVIOUS
  <2>1. Pieces(snapshot[d]) - 1 \in Int
    BY SearchAssumption
  <2>2. c[1] = d /\ c[2] \in 0..(Pieces(snapshot[d]) - 1)
    OBVIOUS
  <2> QED
    BY <2>1, <2>2
<1> QED
  BY <1>6, <1>7, <1>8

\* Matches are hits not read yet, of the documents the chunks are of.
LEMMA MatchesAre ==
  ASSUME NEW snapshot \in Snapshot, NEW chunks \in SUBSET ChunksOf(snapshot),
         NEW score \in [chunks -> Int]
  PROVE  /\ IsFiniteSet(Matches(chunks, snapshot, score))
         /\ Matches(chunks, snapshot, score) \subseteq Hit
         /\ \A m \in Matches(chunks, snapshot, score) :
              ~m.read /\ \E c \in chunks : c[1] = m.doc
<1> DEFINE of(c) == [doc |-> c[1], chunk |-> c[2], score |-> score[c],
                     text |-> snapshot[c[1]], read |-> FALSE]
           M == {of(c) : c \in chunks}
           f == [c \in chunks |-> of(c)]
<1>1. Matches(chunks, snapshot, score) = M
  BY DEF Matches
<1>2. IsFiniteSet(chunks)
  BY ChunksFinite, FS_Subset
<1>3. f \in Surjection(chunks, M)
  BY DEF Surjection
<1>4. IsFiniteSet(M)
  BY <1>2, <1>3, FS_Surjection
<1>5. \A c \in chunks : of(c) \in Hit /\ ~of(c).read /\ of(c).doc = c[1]
  BY ChunksFinite DEF Hit
<1> QED
  BY <1>1, <1>4, <1>5

LEMMA AsReadIs ==
  ASSUME NEW m \in Hit, NEW t \in Texts
  PROVE  /\ AsRead(m, t) \in Hit
         /\ AsRead(m, t).doc = m.doc /\ AsRead(m, t).text = t /\ AsRead(m, t).read
BY DEF AsRead, Hit

LEMMA SeqWider ==
  ASSUME NEW S, NEW T, S \subseteq T, NEW q \in Seq(S)
  PROVE  q \in Seq(T)
<1>1. q \in [1..Len(q) -> T] /\ Len(q) \in Nat
  OBVIOUS
<1> QED
  BY <1>1, SeqIntro

LEMMA LimitsAre ==
  ASSUME NEW limit \in Nat
  PROVE  /\ ClampLimit(limit) \in Int
         /\ Max({ClampLimit(limit), TopK}) \in Int
<1>1. limit \in Int /\ MaxLimit \in Int /\ TopK \in Int /\ 1 \in Int
  BY SearchAssumption
<1>2. \A a, b \in Int : Min({a, b}) \in Int /\ Max({a, b}) \in Int
  BY Of2
<1>3. ClampLimit(limit) \in Int
  BY <1>1, <1>2 DEF ClampLimit
<1> QED
  BY <1>1, <1>2, <1>3

LEMMA SemanticAre ==
  ASSUME NEW records \in SUBSET Hit, IsFiniteSet(records), NEW limit \in Int,
         NEW q \in SemanticMatches(records, limit)
  PROVE  /\ q \in Seq(Hit)
         /\ \A m \in ToSet(q) : m \in records /\ Passes(m)
<1>1. CASE backend # "hnsw"
  <2> DEFINE S == {m \in records : Passes(m)}
  <2>1. q \in Ranked(S, limit)
    BY <1>1 DEF SemanticMatches, SearchFlat
  <2>2. IsFiniteSet(S)
    BY FS_Subset
  <2>3. q \in Seq(S) /\ ToSet(q) \subseteq S
    BY <2>1, <2>2, RankedIs
  <2> QED
    BY <2>3, SeqWider
<1>2. CASE backend = "hnsw"
  <2> DEFINE requested == Max({1, Min({limit, Cardinality(records)})})
             passing(nearest) == {m \in ToSet(nearest) : Passes(m)}
  <2>1. PICK nearest \in Ranked(records, requested) :
          q \in Ranked(passing(nearest), requested)
    BY <1>2 DEF SemanticMatches, SearchHnsw
  <2>2. requested \in Int
    <3>1. Cardinality(records) \in Int
      BY FS_CardinalityType
    <3>2. \A a, b \in Int : Min({a, b}) \in Int /\ Max({a, b}) \in Int
      BY Of2
    <3>3. Min({limit, Cardinality(records)}) \in Int
      BY <3>1, <3>2, Zenon
    <3>4. 1 \in Int
      OBVIOUS
    <3> QED
      BY <3>2, <3>3, <3>4, Zenon
  <2>3. ToSet(nearest) \subseteq records
    BY <2>2, RankedIs
  <2>4. IsFiniteSet(passing(nearest))
    BY <2>3, FS_Subset
  <2> HIDE DEF requested
  <2>5. q \in Seq(passing(nearest)) /\ ToSet(q) \subseteq passing(nearest)
    BY <2>1, <2>2, <2>4, RankedIs
  <2>6. passing(nearest) \subseteq Hit
    BY <2>3
  <2> QED
    BY <2>3, <2>5, <2>6, SeqWider
<1> QED
  BY <1>1, <1>2

\* What fusion ranks are the hits of the two lists with other scores.
LEMMA FusedAre ==
  ASSUME NEW L \in SUBSET Hit, NEW S \in SUBSET Hit,
         IsFiniteSet(L), IsFiniteSet(S)
  PROVE  /\ IsFiniteSet(Fused(L, S))
         /\ \A h \in Fused(L, S) : \E o \in L \cup S : h.doc = o.doc
<1> DEFINE kept == L \cup {s \in S : \A l \in L : Key(l) # Key(s)}
           norm(best) == Max({1, best})
           score(k) == ScoreIn(L, k) * norm(Best(S)) * (2 - Weight)
                         + (IF Best(S) = 0 THEN 0 ELSE ScoreIn(S, k)) * norm(Best(L)) * Weight
           of(h) == [h EXCEPT !.score = score(Key(h))]
           F == {of(h) : h \in kept}
           f == [h \in kept |-> of(h)]
<1>1. Fused(L, S) = F
  BY DEF Fused
<1>2. IsFiniteSet(kept)
  <2>1. IsFiniteSet({s \in S : \A l \in L : Key(l) # Key(s)})
    BY FS_Subset
  <2> QED
    BY <2>1, FS_Union
<1> HIDE DEF score
<1>3. f \in Surjection(kept, F)
  BY DEF Surjection
<1>4. IsFiniteSet(F)
  BY <1>2, <1>3, FS_Surjection
<1>5. \A h \in kept : of(h).doc = h.doc /\ h \in L \cup S
  BY DEF Hit
<1> QED
  BY <1>1, <1>4, <1>5

-----------------------------------------------------------------------------
(* The variables of a search. *)

\* A call is a record; what is in most of its fields does not matter here.
IsCall(c) ==
  /\ c \in [asked : {c.asked}, query : {c.query}, op : {c.op}, mode : {c.mode},
            kind : {c.kind}, filter : {c.filter}, context : {c.context},
            limit : Nat, want : {c.want}]

Shape ==
  /\ file \in [Docs -> Contents]
  /\ indexed \in Snapshot /\ embedded \in Snapshot
  /\ IsCall(call)
  /\ stage \in {"lexical_hits", "semantic_hits"} => todo \in Seq(Hit)
  /\ stage = "locate" => todo \in Seq(Docs) /\ hits \in Seq(Hit)
  /\ lexical \in Seq(Hit) /\ semantic \in Seq(Hit)

LEMMA CallUpdate ==
  ASSUME NEW c, IsCall(c), NEW q, NEW o, NEW w
  PROVE  /\ IsCall([c EXCEPT !.query = q, !.op = o])
         /\ [c EXCEPT !.query = q, !.op = o].filter = c.filter
         /\ IsCall([c EXCEPT !.query = q, !.op = o, !.want = w])
BY DEF IsCall

\* A call as it is read is one.
LEMMA AskedIsCall ==
  ASSUME NEW q, NEW r \in Requests
  PROVE  IsCall(Asked(q, r))
BY SearchToolAssumption DEF Asked, IsCall

LEMMA InitShape == Init => Shape
<1> SUFFICES ASSUME Init PROVE Shape
  OBVIOUS
<1>1. file \in [Docs -> Contents] /\ indexed \in Snapshot /\ embedded \in Snapshot
  BY SearchToolAssumption DEF Init, Snapshot
<1>2. IsCall(NoCall)
  BY DEF NoCall, IsCall
<1> QED
  BY <1>1, <1>2 DEF Init, Shape

\* Where a search and a look-up begin.
LEMMA StartsAre ==
  /\ StartSearch => /\ stage' \in {"semantic", "lexical"}
                    /\ lexical' = <<>> /\ semantic' = <<>> /\ hits' = <<>>
  /\ StartLocate => /\ stage' = "locate" /\ todo' \in Seq(Docs)
                    /\ lexical' = <<>> /\ semantic' = <<>> /\ hits' = <<>>
<1>1. Walk \in Seq(Docs) /\ <<>> \in Seq(Docs)
  BY SearchAssumption
<1> QED
  BY <1>1 DEF StartSearch, StartLocate, Clear

LEMMA HeadTail ==
  ASSUME NEW S, NEW q \in Seq(S), q # <<>>
  PROVE  /\ Head(q) \in S /\ Head(q) \in ToSet(q)
         /\ Tail(q) \in Seq(S) /\ ToSet(Tail(q)) \subseteq ToSet(q)
<1>1. /\ Len(q) \in Nat /\ Len(q) > 0 /\ Head(q) = q[1] /\ DOMAIN q = 1..Len(q)
      /\ Tail(q) \in Seq(S) /\ DOMAIN Tail(q) = 1..(Len(q) - 1)
      /\ \A i \in 1..(Len(q) - 1) : Tail(q)[i] = q[i + 1]
  BY TailIs
<1>2. \A i \in 1..(Len(q) - 1) : i + 1 \in 1..Len(q)
  BY <1>1
<1> QED
  BY <1>1, <1>2 DEF ToSet

LEMMA AppendSet ==
  ASSUME NEW S, NEW q \in Seq(S), NEW x \in S
  PROVE  Append(q, x) \in Seq(S) /\ ToSet(Append(q, x)) = ToSet(q) \cup {x}
<1>1. /\ Len(q) \in Nat /\ DOMAIN q = 1..Len(q)
      /\ Append(q, x) \in Seq(S) /\ DOMAIN Append(q, x) = 1..(Len(q) + 1)
      /\ \A i \in 1..Len(q) : Append(q, x)[i] = q[i]
      /\ Append(q, x)[Len(q) + 1] = x
  OBVIOUS
<1>2. 1..(Len(q) + 1) = 1..Len(q) \cup {Len(q) + 1}
  BY <1>1
<1> QED
  BY <1>1, <1>2 DEF ToSet

LEMMA EmptySet == ToSet(<<>>) = {} /\ \A S : <<>> \in Seq(S)
BY DEF ToSet

\* What SearchLexical and SearchSemantic find.
LEMMA LexicalFinds ==
  ASSUME Shape, NEW score \in [LexicalMatches -> 1..MaxScore],
         NEW q \in Ranked(Matches(LexicalMatches, indexed, score), ClampLimit(call.limit))
  PROVE  /\ q \in Seq(Hit)
         /\ \A m \in ToSet(q) : ~m.read /\ LexicalSelects(call.filter, SourceOf[m.doc])
<1>1. LexicalMatches \in SUBSET ChunksOf(indexed)
  BY DEF LexicalMatches
<1>2. indexed \in Snapshot /\ call.limit \in Nat
  BY DEF Shape, IsCall
<1>3. score \in [LexicalMatches -> Int]
  OBVIOUS
<1> DEFINE M == Matches(LexicalMatches, indexed, score)
<1>4. /\ IsFiniteSet(M) /\ M \subseteq Hit
      /\ \A m \in M : ~m.read /\ \E c \in LexicalMatches : c[1] = m.doc
  BY <1>1, <1>2, <1>3, MatchesAre
<1>5. \A c \in LexicalMatches : LexicalSelects(call.filter, SourceOf[c[1]])
  BY DEF LexicalMatches
<1> HIDE DEF M
<1>6. ClampLimit(call.limit) \in Int
  BY <1>2, LimitsAre
<1>7. q \in Seq(M) /\ ToSet(q) \subseteq M
  BY <1>4, <1>6, RankedIs DEF M
<1> QED
  BY <1>4, <1>5, <1>7, SeqWider

LEMMA SemanticFinds ==
  ASSUME Shape, NEW score \in [ChunksOf(embedded) -> Scores],
         NEW q \in SemanticMatches(Matches(ChunksOf(embedded), embedded, score),
                                   SemanticLimit)
  PROVE  /\ q \in Seq(Hit)
         /\ \A m \in ToSet(q) : SemanticSelects(call.filter, SourceOf[m.doc])
<1> DEFINE M == Matches(ChunksOf(embedded), embedded, score)
<1>1. embedded \in Snapshot /\ call.limit \in Nat
  BY DEF Shape, IsCall
<1>2. score \in [ChunksOf(embedded) -> Int]
  <2>1. Scores \subseteq Int
    BY SearchAssumption DEF Scores
  <2> QED
    BY <2>1
<1>3. IsFiniteSet(M) /\ M \subseteq Hit
  BY <1>1, <1>2, MatchesAre
<1>4. SemanticLimit \in Int
  BY <1>1, LimitsAre DEF SemanticLimit
<1> HIDE DEF M
<1>5. q \in Seq(Hit) /\ \A m \in ToSet(q) : Passes(m)
  BY <1>3, <1>4, SemanticAre DEF M
<1> QED
  BY <1>5 DEF Passes

\* What a look-up finds in one file.
LEMMA LocateFinds ==
  ASSUME Shape, LocateIn
  PROVE  /\ todo' \in Seq(Docs) /\ hits' \in Seq(Hit) /\ todo # <<>>
         /\ \A h \in ToSet(hits') :
              \/ h \in ToSet(hits)
              \/ LocateSelects(call.filter, SourceOf[h.doc])
<1> DEFINE d == Head(todo)
           found == IF file[d] \in Texts /\ LocateSelects(call.filter, SourceOf[d])
                    THEN Cardinality({i \in 1..Len(Occurrences[file[d]]) :
                                        Wanted(Occurrences[file[d]][i])})
                    ELSE 0
           new == [i \in 1..found |->
                     [doc |-> d, chunk |-> 0, score |-> 1 - Len(hits) - i,
                      text |-> file[d], read |-> TRUE]]
           all == hits \o new
<1>1. /\ stage = "locate" /\ todo # <<>>
      /\ hits' = AtMost(call.limit, all)
      /\ todo' = IF Len(all) >= call.limit THEN <<>> ELSE Tail(todo)
  BY DEF LocateIn
<1>2. todo \in Seq(Docs) /\ hits \in Seq(Hit) /\ call.limit \in Int
  BY <1>1 DEF Shape, IsCall
<1>3. d \in Docs /\ Tail(todo) \in Seq(Docs)
  BY <1>1, <1>2, HeadTail
<1>4. found \in Nat
  <2>1. CASE file[d] \in Texts
    <3> DEFINE n == Len(Occurrences[file[d]])
               W == {i \in 1..n : Wanted(Occurrences[file[d]][i])}
    <3>1. n \in Nat
      BY <2>1, SearchAssumption
    <3>2. IsFiniteSet(1..n)
      BY <3>1, FS_Interval
    <3>3. IsFiniteSet(W)
      BY <3>2, FS_Subset
    <3>4. Cardinality(W) \in Nat
      BY <3>3, FS_CardinalityType
    <3> QED
      BY <3>4
  <2>2. CASE file[d] \notin Texts
    BY <2>2
  <2> QED
    BY <2>1, <2>2
<1>5. found > 0 => file[d] \in Texts /\ LocateSelects(call.filter, SourceOf[d])
  OBVIOUS
<1> HIDE DEF found
<1>6. new \in [1..found -> Hit] /\ \A i \in 1..found : new[i].doc = d
  <2>1. Len(hits) \in Int
    BY <1>2
  <2> QED
    BY <1>3, <1>4, <1>5, <2>1 DEF Hit
<1> HIDE DEF new
<1>7. new \in Seq(Hit) /\ Len(new) = found
  BY <1>4, <1>6, SeqIntro
<1>8. all \in Seq(Hit) /\ ToSet(all) \subseteq ToSet(hits) \cup ToSet(new)
  <2>1. /\ all \in Seq(Hit) /\ DOMAIN all = 1..(Len(hits) + Len(new))
        /\ Len(hits) \in Nat /\ Len(new) \in Nat
        /\ DOMAIN hits = 1..Len(hits) /\ DOMAIN new = 1..Len(new)
        /\ \A i \in 1..(Len(hits) + Len(new)) :
             all[i] = IF i <= Len(hits) THEN hits[i] ELSE new[i - Len(hits)]
    BY <1>2, <1>7
  <2>2. \A i \in 1..(Len(hits) + Len(new)) :
          i \in 1..Len(hits) \/ i - Len(hits) \in 1..Len(new)
    BY <2>1
  <2> QED
    BY <2>1, <2>2 DEF ToSet
<1>9. \A h \in ToSet(new) : LocateSelects(call.filter, SourceOf[h.doc])
  BY <1>4, <1>5, <1>6, <1>7 DEF ToSet
<1> HIDE DEF all
<1>10. hits' \in Seq(Hit) /\ ToSet(hits') \subseteq ToSet(all)
  BY <1>1, <1>2, <1>8, AtMostIs
<1>11. todo' \in Seq(Docs)
  BY <1>1, <1>3, EmptySet
<1> QED
  BY <1>1, <1>8, <1>9, <1>10, <1>11

-----------------------------------------------------------------------------
(* The sources of hits. *)

Wants(h) == Meant(call.filter, SourceOf[h.doc])

SourceInv ==
  /\ Shape
  /\ stage \in {"lexical_hits", "semantic_hits"} => \A m \in ToSet(todo) : Wants(m)
  /\ SourceRespected

\* None of the three readings selects what a filter does not mean.
LEMMA SelectedIsMeant ==
  ASSUME NEW filter, NEW source,
         \/ LexicalSelects(filter, source)
         \/ SemanticSelects(filter, source)
         \/ LocateSelects(filter, source)
  PROVE  Meant(filter, source)
<1>1. CASE LexicalSelects(filter, source)
  <2>1. LocalMounts \subseteq LocalNames
    BY DEF LocalMounts
  <2> QED
    BY <1>1, <2>1 DEF LexicalSelects, Meant
<1>2. CASE SemanticSelects(filter, source)
  BY <1>2 DEF SemanticSelects, Meant
<1>3. CASE LocateSelects(filter, source)
  BY <1>3 DEF LocateSelects, Meant
<1> QED
  BY <1>1, <1>2, <1>3

LEMMA InitSource == Init => SourceInv
<1> SUFFICES ASSUME Init PROVE SourceInv
  OBVIOUS
<1>1. Shape
  BY InitShape
<1>2. lexical = <<>> /\ semantic = <<>> /\ hits = <<>> /\ stage = "idle"
  BY DEF Init
<1> QED
  BY <1>1, <1>2, EmptySet DEF SourceInv, SourceRespected

\* A step that begins with empty lists, whatever is asked for.
LEMMA FreshKeeps ==
  ASSUME SourceInv, corpus' = corpus, IsCall(call'),
         lexical' = <<>> /\ semantic' = <<>> /\ hits' = <<>>,
         stage' \notin {"lexical_hits", "semantic_hits"},
         stage' = "locate" => todo' \in Seq(Docs)
  PROVE  SourceInv'
<1>1. file' = file /\ indexed' = indexed /\ embedded' = embedded
  BY DEF corpus
<1>2. Shape'
  BY <1>1, EmptySet DEF SourceInv, Shape, IsCall
<1> QED
  BY <1>2, EmptySet DEF SourceInv, SourceRespected

\* A step of the environment.
LEMMA CorpusKeeps ==
  ASSUME SourceInv, UNCHANGED <<call, progress>>,
         file' \in [Docs -> Contents], indexed' \in Snapshot, embedded' \in Snapshot
  PROVE  SourceInv'
<1>1. /\ call' = call /\ stage' = stage /\ todo' = todo /\ lexical' = lexical
      /\ semantic' = semantic /\ hits' = hits
  BY DEF progress
<1> QED
  BY <1>1 DEF SourceInv, Shape, SourceRespected, Wants, IsCall

LEMMA EditKeeps ==
  ASSUME SourceInv, (\E d \in Docs : Edit(d)) \/ Rebuild \/ UNCHANGED vars
  PROVE  SourceInv'
<1>1. CASE \E d \in Docs : Edit(d)
  BY <1>1, CorpusKeeps DEF Edit, SourceInv, Shape
<1>2. CASE Rebuild
  <2>1. indexed' \in Snapshot
    BY <1>2 DEF Rebuild, Snapshot
  <2> QED
    BY <1>2, <2>1, CorpusKeeps DEF Rebuild, SourceInv, Shape
<1>3. CASE UNCHANGED vars
  BY <1>3, CorpusKeeps DEF vars, corpus, SourceInv, Shape
<1> QED
  BY <1>1, <1>2, <1>3

LEMMA AskKeeps ==
  ASSUME SourceInv, NEW q \in Questions, Ask(q)
  PROVE  SourceInv'
<1>1. PICK r \in Requests :
        \/ EndAtOnce("answered") \/ EndAtOnce("panicked")
        \/ Search(Asked(q, r)) \/ LookUp(Asked(q, r))
  BY DEF Ask
<1>2. corpus' = corpus
  BY DEF Ask
<1>3. IsCall(Asked(q, r)) /\ IsCall(NoCall)
  <2>1. IsCall(NoCall)
    BY DEF NoCall, IsCall
  <2> QED
    BY <2>1, AskedIsCall
<1>4. CASE EndAtOnce("answered") \/ EndAtOnce("panicked")
  BY <1>2, <1>3, <1>4, FreshKeeps DEF EndAtOnce, Clear
<1>5. CASE Search(Asked(q, r))
  <2>1. call' = Asked(q, r) /\ StartSearch
    BY <1>5 DEF Search
  <2>2. /\ stage' \in {"semantic", "lexical"}
        /\ lexical' = <<>> /\ semantic' = <<>> /\ hits' = <<>>
    BY <2>1, StartsAre
  <2> QED
    BY <1>2, <1>3, <2>1, <2>2, FreshKeeps
<1>6. CASE LookUp(Asked(q, r))
  <2> DEFINE a == Asked(q, r)
  <2>1. PICK symbol :
          call' = [a EXCEPT !.query = symbol, !.op = "locate",
                     !.want = IF Shortcut[a.query] = "def" THEN "definition"
                              ELSE "reference"]
    BY <1>6 DEF LookUp
  <2>2. StartLocate
    BY <1>6 DEF LookUp
  <2>3. /\ stage' = "locate" /\ todo' \in Seq(Docs)
        /\ lexical' = <<>> /\ semantic' = <<>> /\ hits' = <<>>
    BY <2>2, StartsAre
  <2> HIDE DEF a
  <2>4. IsCall(call')
    BY <1>3, <2>1, CallUpdate DEF a
  <2> QED
    BY <1>2, <2>3, <2>4, FreshKeeps
<1> QED
  BY <1>1, <1>4, <1>5, <1>6

LEMMA TryNextKeeps ==
  ASSUME SourceInv, TryNext
  PROVE  SourceInv'
<1>1. IsCall(call')
  BY CallUpdate DEF TryNext, SourceInv, Shape
<1>2. corpus' = corpus
  BY DEF TryNext
<1>3. /\ stage' \in {"semantic", "lexical", "locate"}
      /\ stage' = "locate" => todo' \in Seq(Docs)
      /\ lexical' = <<>> /\ semantic' = <<>> /\ hits' = <<>>
  BY StartsAre DEF TryNext
<1> QED
  BY <1>1, <1>2, <1>3, FreshKeeps

LEMMA AnswerKeeps ==
  ASSUME SourceInv, Answer
  PROVE  SourceInv'
<1>1. /\ file' = file /\ indexed' = indexed /\ embedded' = embedded
      /\ call' = call /\ hits' = hits /\ stage' = "answered"
      /\ lexical' = <<>> /\ semantic' = <<>>
  BY DEF Answer, Clear, corpus
<1>2. Shape'
  BY <1>1, EmptySet DEF SourceInv, Shape, IsCall
<1> QED
  BY <1>1, <1>2, EmptySet DEF SourceInv, SourceRespected

LEMMA LocateKeeps ==
  ASSUME SourceInv, LocateIn \/ EndLocate
  PROVE  SourceInv'
<1>1. /\ file' = file /\ indexed' = indexed /\ embedded' = embedded
      /\ call' = call /\ lexical' = lexical /\ semantic' = semantic
  BY DEF LocateIn, EndLocate, corpus
<1>2. CASE LocateIn
  <2>1. /\ todo' \in Seq(Docs) /\ hits' \in Seq(Hit)
        /\ \A h \in ToSet(hits') :
             \/ h \in ToSet(hits)
             \/ LocateSelects(call.filter, SourceOf[h.doc])
    BY <1>2, LocateFinds DEF SourceInv
  <2>2. stage' = "locate"
    BY <1>2 DEF LocateIn
  <2>3. Shape'
    BY <1>1, <2>1, <2>2 DEF SourceInv, Shape, IsCall
  <2>4. \A h \in ToSet(hits') : Meant(call.filter, SourceOf[h.doc])
    BY <2>1, SelectedIsMeant DEF SourceInv, SourceRespected
  <2> QED
    BY <1>1, <2>2, <2>3, <2>4 DEF SourceInv, SourceRespected
<1>3. CASE EndLocate
  <2>1. stage' = "returned" /\ hits' = hits
    BY <1>3 DEF EndLocate
  <2> QED
    BY <1>1, <2>1 DEF SourceInv, SourceRespected, Shape, IsCall
<1> QED
  BY <1>2, <1>3

LEMMA LexicalKeeps ==
  ASSUME SourceInv, SearchLexical \/ LexicalHit \/ EndLexical
  PROVE  SourceInv'
<1>1. /\ file' = file /\ indexed' = indexed /\ embedded' = embedded
      /\ call' = call /\ semantic' = semantic
  BY DEF SearchLexical, LexicalHit, EndLexical, corpus
<1>2. CASE SearchLexical
  <2>1. lexical' = lexical
    BY <1>2 DEF SearchLexical
  <2>2. CASE stage' = "lexical_hits"
    <3>1. PICK score \in [LexicalMatches -> 1..MaxScore] :
            todo' \in Ranked(Matches(LexicalMatches, indexed, score),
                             ClampLimit(call.limit))
      BY <1>2, <2>2 DEF SearchLexical, Fail
    <3>2. hits' = hits
      BY <1>2, <2>2 DEF SearchLexical, Fail
    <3>3. /\ todo' \in Seq(Hit)
          /\ \A m \in ToSet(todo') : LexicalSelects(call.filter, SourceOf[m.doc])
      BY <3>1, LexicalFinds DEF SourceInv
    <3>4. \A m \in ToSet(todo') : Meant(call.filter, SourceOf[m.doc])
      BY <3>3, SelectedIsMeant
    <3> QED
      BY <1>1, <2>1, <2>2, <3>2, <3>3, <3>4
         DEF SourceInv, SourceRespected, Shape, IsCall, Wants
  <2>3. CASE stage' # "lexical_hits"
    <3>1. stage' = "failed" /\ hits' = <<>>
      BY <1>2, <2>3 DEF SearchLexical, Fail
    <3> QED
      BY <1>1, <2>1, <3>1, EmptySet DEF SourceInv, SourceRespected, Shape, IsCall
  <2> QED
    BY <2>2, <2>3
<1>3. CASE LexicalHit
  <2> DEFINE m == Head(todo)
  <2>1. /\ stage = "lexical_hits" /\ stage' = stage /\ hits' = hits
        /\ todo # <<>> /\ todo' = Tail(todo)
    BY <1>3 DEF LexicalHit
  <2>2. /\ m \in Hit /\ m \in ToSet(todo)
        /\ todo' \in Seq(Hit) /\ ToSet(todo') \subseteq ToSet(todo)
    BY <2>1, HeadTail DEF SourceInv, Shape
  <2>3. \E h \in Hit : lexical' = Append(lexical, h) /\ h.doc = m.doc
    <3>1. CASE lexical' = Append(lexical, m)
      BY <2>2, <3>1
    <3>2. CASE lexical' # Append(lexical, m)
      <4>1. PICK outcome :
              /\ outcome \in Texts
              /\ lexical' = Append(lexical, AsRead(m, outcome))
        BY <1>3, <3>2 DEF LexicalHit, HasChunk
      <4>2. AsRead(m, outcome) \in Hit /\ AsRead(m, outcome).doc = m.doc
        BY <2>2, <4>1, AsReadIs
      <4> QED
        BY <4>1, <4>2
    <3> QED
      BY <3>1, <3>2
  <2>4. PICK h \in Hit : lexical' = Append(lexical, h) /\ h.doc = m.doc
    BY <2>3
  <2>5. lexical' \in Seq(Hit) /\ ToSet(lexical') = ToSet(lexical) \cup {h}
    BY <2>4, AppendSet DEF SourceInv, Shape
  <2>6. Meant(call.filter, SourceOf[h.doc])
    BY <2>1, <2>2, <2>4 DEF SourceInv, Wants
  <2> HIDE DEF m
  <2> QED
    BY <1>1, <2>1, <2>2, <2>5, <2>6
       DEF SourceInv, SourceRespected, Shape, IsCall, Wants
<1>4. CASE EndLexical
  <2>1. /\ stage' \in {"returned", "semantic"} /\ lexical' = lexical
        /\ hits' = lexical \/ hits' = hits
    BY <1>4 DEF EndLexical
  <2> QED
    BY <1>1, <2>1 DEF SourceInv, SourceRespected, Shape, IsCall
<1> QED
  BY <1>2, <1>3, <1>4

LEMMA SeqFinite ==
  ASSUME NEW S, NEW q \in Seq(S)
  PROVE  IsFiniteSet(ToSet(q)) /\ ToSet(q) \subseteq S
<1>1. q \in [1..Len(q) -> S] /\ Len(q) \in Nat
  OBVIOUS
<1>2. q \in Surjection(1..Len(q), ToSet(q))
  BY <1>1 DEF Surjection, ToSet
<1>3. IsFiniteSet(1..Len(q))
  BY <1>1, FS_Interval
<1> QED
  BY <1>1, <1>2, <1>3, FS_Surjection DEF ToSet

LEMMA SemanticKeeps ==
  ASSUME SourceInv, SearchSemantic \/ SemanticHit \/ EndSemantic
  PROVE  SourceInv'
<1>1. /\ file' = file /\ indexed' = indexed /\ embedded' = embedded
      /\ call' = call /\ lexical' = lexical
  BY DEF SearchSemantic, SemanticHit, EndSemantic, corpus
<1>2. CASE SearchSemantic
  <2>1. semantic' = semantic
    BY <1>2 DEF SearchSemantic
  <2>2. CASE stage' = "semantic_hits"
    <3>1. PICK score \in [ChunksOf(embedded) -> Scores] :
            todo' \in SemanticMatches(Matches(ChunksOf(embedded), embedded, score),
                                      SemanticLimit)
      BY <1>2, <2>2 DEF SearchSemantic, Fail
    <3>2. hits' = hits
      BY <1>2, <2>2 DEF SearchSemantic, Fail
    <3>3. /\ todo' \in Seq(Hit)
          /\ \A m \in ToSet(todo') : SemanticSelects(call.filter, SourceOf[m.doc])
      BY <3>1, SemanticFinds DEF SourceInv
    <3>4. \A m \in ToSet(todo') : Meant(call.filter, SourceOf[m.doc])
      BY <3>3, SelectedIsMeant
    <3> QED
      BY <1>1, <2>1, <2>2, <3>2, <3>3, <3>4
         DEF SourceInv, SourceRespected, Shape, IsCall, Wants
  <2>3. CASE stage' # "semantic_hits"
    <3>1. stage' = "failed" /\ hits' = <<>>
      BY <1>2, <2>3 DEF SearchSemantic, Fail
    <3> QED
      BY <1>1, <2>1, <3>1, EmptySet DEF SourceInv, SourceRespected, Shape, IsCall
  <2> QED
    BY <2>2, <2>3
<1>3. CASE SemanticHit
  <2> DEFINE m == Head(todo)
  <2>1. /\ stage = "semantic_hits" /\ stage' \in {"semantic_hits", "failed"}
        /\ hits' = hits \/ hits' = <<>>
        /\ todo # <<>> /\ todo' = Tail(todo)
    BY <1>3 DEF SemanticHit, Fail
  <2>2. /\ m \in Hit /\ m \in ToSet(todo)
        /\ todo' \in Seq(Hit) /\ ToSet(todo') \subseteq ToSet(todo)
    BY <2>1, HeadTail DEF SourceInv, Shape
  <2>3. /\ semantic' \in Seq(Hit)
        /\ \A h \in ToSet(semantic') : h \in ToSet(semantic) \/ h.doc = m.doc
    <3>1. CASE semantic' = semantic
      BY <3>1 DEF SourceInv, Shape
    <3>2. CASE semantic' # semantic
      <4>1. PICK outcome :
              /\ outcome \in Texts
              /\ semantic' = Append(semantic, AsRead(m, outcome))
        BY <1>3, <3>2 DEF SemanticHit, HasChunk
      <4>2. AsRead(m, outcome) \in Hit /\ AsRead(m, outcome).doc = m.doc
        BY <2>2, <4>1, AsReadIs
      <4> QED
        BY <4>1, <4>2, AppendSet DEF SourceInv, Shape
    <3> QED
      BY <3>1, <3>2
  <2>4. Meant(call.filter, SourceOf[m.doc])
    BY <2>1, <2>2 DEF SourceInv, Wants
  <2> HIDE DEF m
  <2> QED
    BY <1>1, <2>1, <2>2, <2>3, <2>4, EmptySet
       DEF SourceInv, SourceRespected, Shape, IsCall, Wants
<1>4. CASE EndSemantic
  <2>1. stage' = "returned" /\ semantic' = semantic
    BY <1>4 DEF EndSemantic
  <2>2. \A h \in ToSet(hits') : Meant(call.filter, SourceOf[h.doc])
    <3> DEFINE L == ToSet(lexical)
               S == ToSet(semantic)
               n == ClampLimit(call.limit)
    <3>1. IsFiniteSet(L) /\ IsFiniteSet(S) /\ L \subseteq Hit /\ S \subseteq Hit
      BY SeqFinite DEF SourceInv, Shape
    <3>2. \A h \in L \cup S : Meant(call.filter, SourceOf[h.doc])
      BY DEF SourceInv, SourceRespected
    <3>3. CASE hits' = semantic
      BY <3>2, <3>3
    <3>4. CASE hits' # semantic
      <4>1. hits' \in Ranked(Fused(L, S), n)
        BY <1>4, <3>4 DEF EndSemantic
      <4>2. n \in Int
        BY LimitsAre DEF SourceInv, Shape, IsCall
      <4> HIDE DEF L, S, n
      <4>3. /\ IsFiniteSet(Fused(L, S))
            /\ \A h \in Fused(L, S) : \E o \in L \cup S : h.doc = o.doc
        BY <3>1, FusedAre
      <4>4. ToSet(hits') \subseteq Fused(L, S)
        BY <4>1, <4>2, <4>3, RankedIs
      <4> QED
        BY <3>2, <4>3, <4>4
    <3> QED
      BY <3>3, <3>4
  <2> QED
    BY <1>1, <2>1, <2>2 DEF SourceInv, SourceRespected, Shape, IsCall
<1> QED
  BY <1>2, <1>3, <1>4

LEMMA NextSource == SourceInv /\ [Next]_vars => SourceInv'
<1> SUFFICES ASSUME SourceInv, [Next]_vars PROVE SourceInv'
  OBVIOUS
<1>1. CASE (\E d \in Docs : Edit(d)) \/ Rebuild \/ UNCHANGED vars
  BY <1>1, EditKeeps
<1>2. CASE \E q \in Questions : Ask(q)
  BY <1>2, AskKeeps
<1>3. CASE TryNext
  BY <1>3, TryNextKeeps
<1>4. CASE Answer
  BY <1>4, AnswerKeeps
<1>5. CASE LocateIn \/ EndLocate
  BY <1>5, LocateKeeps
<1>6. CASE SearchLexical \/ LexicalHit \/ EndLexical
  BY <1>6, LexicalKeeps
<1>7. CASE SearchSemantic \/ SemanticHit \/ EndSemantic
  BY <1>7, SemanticKeeps
<1> QED
  BY <1>1, <1>2, <1>3, <1>4, <1>5, <1>6, <1>7 DEF Next, Step

\* SourceRespected: a hit is of a document the filter means, in every mode, for
\* searches and look-ups, and for all that is tried after them.
THEOREM SourcesAreRespected == Spec => []SourceRespected
<1>1. SourceInv => SourceRespected
  BY DEF SourceInv
<1> QED
  BY <1>1, InitSource, NextSource, PTL DEF Spec

-----------------------------------------------------------------------------
(* The versions of the documents a search shows. *)

\* What a hit shows is in the cache as long as nothing was evicted.
Shown(h) ==
  /\ h.text \in seen[h.doc]
  /\ \/ h.doc \in evicted
     \/ h.doc \in DOMAIN cache.entries /\ cache.entries[h.doc] = h.text

VersionInv ==
  /\ IsCache(cache)
  /\ seen \in [Docs -> SUBSET Contents]
  /\ \A d \in Docs : file[d] \in seen[d]
  /\ \A d \in DOMAIN cache.entries : cache.entries[d] \in seen[d]
  /\ stage = "lexical_hits" => \A m \in ToSet(todo) : ~m.read
  /\ \A h \in ToSet(lexical) \cup ToSet(semantic) : h.read => Shown(h)

LEMMA InitVersion == Init => VersionInv
<1> SUFFICES ASSUME Init PROVE VersionInv
  OBVIOUS
<1>1. file \in [Docs -> Contents]
  BY InitShape DEF Shape
<1>2. IsCache(cache) /\ DOMAIN cache.entries = {}
  BY NewCacheAgrees, SearchAssumption DEF Init
<1>3. lexical = <<>> /\ semantic = <<>> /\ stage = "idle"
  BY DEF Init
<1>4. seen = [d \in Docs |-> {file[d]}]
  BY DEF Init
<1> QED
  BY <1>1, <1>2, <1>3, <1>4, EmptySet DEF VersionInv

\* A step that starts over, and one that touches neither cache nor hits.
LEMMA StartOverKeeps ==
  ASSUME VersionInv, SourceInv, file' = file,
         cache' = NewCache(CacheCapacity), lexical' = <<>>, semantic' = <<>>,
         stage' # "lexical_hits",
         seen' = seen \/ seen' = [d \in Docs |-> {file[d]}]
  PROVE  VersionInv'
<1>1. IsCache(NewCache(CacheCapacity)) /\ DOMAIN NewCache(CacheCapacity).entries = {}
  BY NewCacheAgrees, SearchAssumption
<1>2. IsCache(cache')
  BY <1>1
<1>3. DOMAIN cache'.entries = {}
  BY <1>1
<1>4. seen' \in [Docs -> SUBSET Contents] /\ \A d \in Docs : file'[d] \in seen'[d]
  BY DEF VersionInv, SourceInv, Shape
<1> QED
  BY <1>2, <1>3, <1>4, EmptySet DEF VersionInv, IsCache, Agrees

LEMMA QuietKeeps ==
  ASSUME VersionInv, file' = file, UNCHANGED <<cache, evicted, seen>>,
         \A h \in ToSet(lexical') \cup ToSet(semantic') :
           h.read => h \in ToSet(lexical) \cup ToSet(semantic),
         stage' = "lexical_hits" => \A m \in ToSet(todo') : ~m.read
  PROVE  VersionInv'
<1>1. IsCache(cache')
  BY DEF VersionInv
<1> QED
  BY <1>1 DEF VersionInv, Shown, IsCache, Agrees

\* Reading a document gives what the cache has of it from then on, and what the
\* cache had of others it still has or has evicted.
LEMMA ReadGives ==
  ASSUME SourceInv, VersionInv, NEW d \in Docs, NEW outcome, Read(d, outcome)
  PROVE  /\ evicted \subseteq evicted'
         /\ \A k \in DOMAIN cache'.entries : cache'.entries[k] \in seen[k]
         /\ \A k \in DOMAIN cache.entries :
              \/ k \in evicted'
              \/ k \in DOMAIN cache'.entries /\ cache'.entries[k] = cache.entries[k]
         /\ outcome \in Texts =>
              /\ outcome \in seen[d]
              /\ d \in DOMAIN cache'.entries /\ cache'.entries[d] = outcome
<1>1. IsCache(cache) /\ \A k \in DOMAIN cache.entries : cache.entries[k] \in seen[k]
  BY DEF VersionInv
<1>2. CASE Cached(cache, d)
  <2>1. /\ d \in DOMAIN cache.entries /\ outcome = cache.entries[d]
        /\ cache' = Touch(cache, d) /\ evicted' = evicted
    BY <1>2 DEF Read, Cached
  <2>2. cache'.entries = cache.entries
    BY <1>1, <2>1, TouchKeeps
  <2> QED
    BY <1>1, <2>1, <2>2
<1>3. CASE ~Cached(cache, d)
  <2>1. d \notin DOMAIN cache.entries /\ outcome \in Loaded(d)
    BY <1>3 DEF Read, Cached
  <2>2. CASE outcome \notin Texts
    <3>1. cache' = cache /\ evicted' = evicted
      BY <1>3, <2>2 DEF Read
    <3> QED
      BY <1>1, <2>2, <3>1
  <2>3. CASE outcome \in Texts
    <3>1. cache' = Insert(cache, d, outcome) /\ evicted' = evicted \cup Evicts(cache)
      BY <1>3, <2>3 DEF Read
    <3>2. /\ DOMAIN cache'.entries = (DOMAIN cache.entries \ Evicts(cache)) \cup {d}
          /\ \A k \in DOMAIN cache'.entries :
               cache'.entries[k] = IF k = d THEN outcome ELSE cache.entries[k]
      BY <1>1, <2>1, <3>1, InsertKeeps
    <3>3. outcome = file[d]
      <4>1. file[d] \in Texts \/ file[d] \in NoText
        BY DEF SourceInv, Shape, Contents
      <4>2. outcome # "none" /\ outcome # "error" /\ Texts \cap NoText = {}
        BY <2>3, SearchAssumption
      <4>3. /\ file[d] = "blank" => file[d] \notin Texts
            /\ file[d] = "big" => file[d] \notin Texts
            /\ file[d] = "gone" => file[d] \notin Texts
        BY <4>2 DEF NoText
      <4>4. CASE file[d] \in Texts
        <5>1. Loaded(d) = {file[d]}
          BY <4>3, <4>4, Zenon DEF Loaded
        <5> QED
          BY <2>1, <5>1
      <4>5. CASE file[d] = "blank"
        <5>1. "blank" # "big" /\ "blank" # "gone"
          OBVIOUS
        <5>2. Loaded(d) = {"none"}
          BY <4>3, <4>5, <5>1, Zenon DEF Loaded
        <5> QED
          BY <2>1, <4>2, <5>2
      <4>6. CASE file[d] = "big"
        <5>1. "big" # "blank" /\ "big" # "gone"
          OBVIOUS
        <5>2. Loaded(d) = {"error"}
          BY <4>3, <4>6, <5>1, Zenon DEF Loaded
        <5> QED
          BY <2>1, <4>2, <5>2
      <4>7. CASE file[d] = "gone"
        <5>1. "gone" # "blank" /\ "gone" # "big"
          OBVIOUS
        <5>2. Loaded(d) = {"none", "error"}
          BY <4>3, <4>7, <5>1, Zenon DEF Loaded
        <5> QED
          BY <2>1, <4>2, <5>2
      <4> QED
        BY <4>1, <4>4, <4>5, <4>6, <4>7 DEF NoText
    <3>4. outcome \in seen[d]
      BY <3>3 DEF VersionInv
    <3> QED
      BY <1>1, <2>1, <3>1, <3>2, <3>4
  <2> QED
    BY <2>2, <2>3
<1> QED
  BY <1>2, <1>3

\* A step that reads a document and shows it, or not.
LEMMA ReadingKeeps ==
  ASSUME SourceInv, VersionInv, NEW d \in Docs, NEW outcome, Read(d, outcome),
         file' = file, seen' = seen,
         \A h \in ToSet(lexical') \cup ToSet(semantic') :
           \/ h.read => h \in ToSet(lexical) \cup ToSet(semantic)
           \/ h.doc = d /\ h.text = outcome /\ outcome \in Texts,
         stage' = "lexical_hits" => \A m \in ToSet(todo') : ~m.read
  PROVE  VersionInv'
<1>1. IsCache(cache')
  BY ReadKeeps DEF VersionInv
<1>2. /\ evicted \subseteq evicted'
      /\ \A k \in DOMAIN cache'.entries : cache'.entries[k] \in seen[k]
      /\ \A k \in DOMAIN cache.entries :
           \/ k \in evicted'
           \/ k \in DOMAIN cache'.entries /\ cache'.entries[k] = cache.entries[k]
      /\ outcome \in Texts =>
           /\ outcome \in seen[d]
           /\ d \in DOMAIN cache'.entries /\ cache'.entries[d] = outcome
  BY ReadGives
<1>3. ASSUME NEW h \in ToSet(lexical') \cup ToSet(semantic'), h.read
      PROVE  Shown(h)'
  <2>1. CASE h \in ToSet(lexical) \cup ToSet(semantic)
    <3>1. Shown(h)
      BY <1>3, <2>1 DEF VersionInv
    <3> QED
      BY <1>2, <3>1 DEF Shown
  <2>2. CASE h.doc = d /\ h.text = outcome /\ outcome \in Texts
    BY <1>2, <2>2 DEF Shown
  <2> QED
    BY <1>3, <2>1, <2>2
<1>4. IsCache(cache)'
  BY <1>1 DEF IsCache, Agrees
<1> QED
  BY <1>2, <1>3, <1>4 DEF VersionInv

LEMMA LexicalHitKeeps ==
  ASSUME SourceInv, VersionInv, LexicalHit
  PROVE  VersionInv'
<1> DEFINE m == Head(todo)
<1>1. /\ stage = "lexical_hits" /\ todo # <<>> /\ todo' = Tail(todo)
      /\ file' = file /\ seen' = seen /\ semantic' = semantic
  BY DEF LexicalHit, corpus
<1>2. /\ m \in Hit /\ m \in ToSet(todo) /\ ToSet(todo') \subseteq ToSet(todo)
      /\ lexical \in Seq(Hit)
  BY <1>1, HeadTail DEF SourceInv, Shape
<1>3. ~m.read /\ \A n \in ToSet(todo') : ~n.read
  BY <1>1, <1>2 DEF VersionInv
<1>4. m.doc \in Docs
  BY <1>2 DEF Hit
<1>5. CASE call.context
  <2>1. PICK outcome \in Texts \cup {"none", "error"} :
          /\ Read(m.doc, outcome)
          /\ lexical' = Append(lexical, IF HasChunk(outcome, m) THEN AsRead(m, outcome)
                                        ELSE m)
    BY <1>5 DEF LexicalHit
  <2>2. CASE HasChunk(outcome, m)
    <3>1. outcome \in Texts /\ lexical' = Append(lexical, AsRead(m, outcome))
      BY <2>1, <2>2 DEF HasChunk
    <3>2. /\ AsRead(m, outcome) \in Hit
          /\ AsRead(m, outcome).doc = m.doc /\ AsRead(m, outcome).text = outcome
      BY <1>2, <3>1, AsReadIs
    <3>3. ToSet(lexical') = ToSet(lexical) \cup {AsRead(m, outcome)}
      BY <1>2, <3>1, <3>2, AppendSet
    <3> HIDE DEF m
    <3> QED
      BY <1>1, <1>3, <1>4, <2>1, <3>1, <3>2, <3>3, ReadingKeeps
  <2>3. CASE ~HasChunk(outcome, m)
    <3>1. ToSet(lexical') = ToSet(lexical) \cup {m}
      BY <1>2, <2>1, <2>3, AppendSet
    <3> HIDE DEF m
    <3> QED
      BY <1>1, <1>3, <1>4, <2>1, <3>1, ReadingKeeps
  <2> QED
    BY <2>2, <2>3
<1>6. CASE ~call.context
  <2>1. lexical' = Append(lexical, m) /\ UNCHANGED <<cache, evicted>>
    BY <1>6 DEF LexicalHit
  <2>2. ToSet(lexical') = ToSet(lexical) \cup {m}
    BY <1>2, <2>1, AppendSet
  <2> HIDE DEF m
  <2> QED
    BY <1>1, <1>3, <2>1, <2>2, QuietKeeps
<1> QED
  BY <1>5, <1>6

LEMMA SemanticHitKeeps ==
  ASSUME SourceInv, VersionInv, SemanticHit
  PROVE  VersionInv'
<1> DEFINE m == Head(todo)
<1>1. /\ stage = "semantic_hits" /\ stage' # "lexical_hits" /\ todo # <<>>
      /\ file' = file /\ seen' = seen /\ lexical' = lexical
  BY DEF SemanticHit, Fail, corpus
<1>2. m \in Hit /\ semantic \in Seq(Hit)
  BY <1>1, HeadTail DEF SourceInv, Shape
<1>3. m.doc \in Docs
  BY <1>2 DEF Hit
<1>4. PICK outcome \in Texts \cup {"none", "error"} :
        /\ Read(m.doc, outcome)
        /\ semantic' = IF HasChunk(outcome, m) THEN Append(semantic, AsRead(m, outcome))
                       ELSE semantic
  BY DEF SemanticHit
<1>5. CASE HasChunk(outcome, m)
  <2>1. outcome \in Texts /\ semantic' = Append(semantic, AsRead(m, outcome))
    BY <1>4, <1>5 DEF HasChunk
  <2>2. /\ AsRead(m, outcome) \in Hit
        /\ AsRead(m, outcome).doc = m.doc /\ AsRead(m, outcome).text = outcome
    BY <1>2, <2>1, AsReadIs
  <2>3. ToSet(semantic') = ToSet(semantic) \cup {AsRead(m, outcome)}
    BY <1>2, <2>1, <2>2, AppendSet
  <2> HIDE DEF m
  <2> QED
    BY <1>1, <1>3, <1>4, <2>1, <2>2, <2>3, ReadingKeeps
<1>6. CASE ~HasChunk(outcome, m)
  <2>1. semantic' = semantic
    BY <1>4, <1>6
  <2> HIDE DEF m
  <2> QED
    BY <1>1, <1>3, <1>4, <2>1, ReadingKeeps
<1> QED
  BY <1>5, <1>6

LEMMA EditVersion ==
  ASSUME SourceInv, VersionInv, \E d \in Docs : Edit(d)
  PROVE  VersionInv'
<1>1. PICK d \in Docs : \E content \in Contents \ {file[d]} :
        /\ file' = [file EXCEPT ![d] = content]
        /\ seen' = [seen EXCEPT ![d] = @ \cup {content}]
        /\ UNCHANGED <<progress, evicted>>
  BY DEF Edit
<1>2. PICK content \in Contents :
        /\ file' = [file EXCEPT ![d] = content]
        /\ seen' = [seen EXCEPT ![d] = @ \cup {content}]
        /\ UNCHANGED <<progress, evicted>>
  BY <1>1
<1>3. /\ cache' = cache /\ stage' = stage /\ todo' = todo
      /\ lexical' = lexical /\ semantic' = semantic /\ evicted' = evicted
  BY <1>2 DEF progress
<1>4. IsCache(cache)'
  BY <1>3 DEF VersionInv, IsCache, Agrees
<1>5. file \in [Docs -> Contents] /\ seen \in [Docs -> SUBSET Contents]
  BY DEF SourceInv, Shape, VersionInv
<1>6. /\ seen' \in [Docs -> SUBSET Contents]
      /\ \A e \in Docs : file'[e] \in seen'[e]
      /\ \A e \in Docs : seen[e] \subseteq seen'[e]
  BY <1>2, <1>5 DEF VersionInv
<1>7. \A h \in ToSet(lexical) \cup ToSet(semantic) : h.doc \in Docs
  <2>1. lexical \in Seq(Hit) /\ semantic \in Seq(Hit)
    BY DEF SourceInv, Shape
  <2>2. ToSet(lexical) \subseteq Hit /\ ToSet(semantic) \subseteq Hit
    BY <2>1, SeqFinite
  <2> QED
    BY <2>2 DEF Hit
<1>8. \A e \in DOMAIN cache.entries : cache.entries[e] \in seen'[e]
  BY <1>2, <1>5 DEF VersionInv
<1> QED
  BY <1>3, <1>4, <1>6, <1>7, <1>8 DEF VersionInv, Shown

LEMMA NextVersion ==
  ASSUME SourceInv, VersionInv, [Next]_vars
  PROVE  VersionInv'
<1>1. CASE \E d \in Docs : Edit(d)
  BY <1>1, EditVersion
<1>2. CASE Rebuild \/ UNCHANGED vars
  BY <1>2, QuietKeeps DEF Rebuild, vars, corpus, progress, VersionInv
<1>3. CASE \E q \in Questions : Ask(q)
  BY <1>3, StartOverKeeps
     DEF Ask, EndAtOnce, Search, LookUp, StartSearch, StartLocate, Clear, corpus
<1>4. CASE TryNext \/ Answer
  BY <1>4, StartOverKeeps DEF TryNext, Answer, StartSearch, StartLocate, Clear, corpus
<1>5. CASE LexicalHit
  BY <1>5, LexicalHitKeeps
<1>6. CASE SemanticHit
  BY <1>6, SemanticHitKeeps
<1>7. CASE SearchLexical
  <2>1. CASE stage' = "lexical_hits"
    <3>1. PICK score \in [LexicalMatches -> 1..MaxScore] :
            todo' \in Ranked(Matches(LexicalMatches, indexed, score),
                             ClampLimit(call.limit))
      BY <1>7, <2>1 DEF SearchLexical, Fail
    <3>2. \A m \in ToSet(todo') : ~m.read
      BY <3>1, LexicalFinds DEF SourceInv
    <3> QED
      BY <1>7, <3>2, QuietKeeps DEF SearchLexical, corpus
  <2>2. CASE stage' # "lexical_hits"
    BY <1>7, <2>2, QuietKeeps DEF SearchLexical, corpus
  <2> QED
    BY <2>1, <2>2
<1>8. CASE EndLexical \/ SearchSemantic \/ EndSemantic \/ LocateIn \/ EndLocate
  BY <1>8, QuietKeeps
     DEF EndLexical, SearchSemantic, EndSemantic, LocateIn, EndLocate, Fail, corpus
<1> QED
  BY <1>1, <1>2, <1>3, <1>4, <1>5, <1>6, <1>7, <1>8 DEF Next, Step

\* OneVersionPerDocument: what a search shows of a file is of the time of its
\* call, and all its hits of one document show one version, unless the cache
\* dropped it in between.
THEOREM OneVersionIsShown == Spec => []OneVersionPerDocument
<1>1. VersionInv => OneVersionPerDocument
  BY DEF VersionInv, Shown, OneVersionPerDocument
<1> QED
  BY <1>1, InitSource, NextSource, InitVersion, NextVersion, PTL DEF Spec

-----------------------------------------------------------------------------
(* Fusion. *)

\* The first hits of a ranking are those of an enumeration in order.
LEMMA RankedAre ==
  ASSUME NEW S, IsFiniteSet(S), NEW n \in Int, NEW q \in Ranked(S, n)
  PROVE  \E p : /\ Enumerates(p, S) /\ Sorted(p)
                /\ Len(q) = IF n < 0 THEN 0 ELSE IF n <= Len(p) THEN n ELSE Len(p)
                /\ Len(q) <= Len(p)
                /\ \A i \in 1..Len(q) : q[i] = p[i]
<1>1. PICK p \in SetToSeqs(S) : /\ \A i \in 1..(Len(p) - 1) : p[i].score >= p[i + 1].score
                                /\ q = AtMost(n, p)
  BY DEF Ranked
<1>2. Enumerates(p, S)
  BY EnumerationsAre
<1>3. p \in Seq(S) /\ Len(p) \in Nat
  BY <1>2 DEF Enumerates
<1> DEFINE k == Min({n, Len(p)})
<1>4. k = IF n <= Len(p) THEN n ELSE Len(p)
  BY <1>3, MinOfTwo
<1>5. q = SubSeq(p, 1, k)
  BY <1>1 DEF AtMost
<1> HIDE DEF k
<1>6. k \in Int /\ k <= Len(p)
  BY <1>3, <1>4
<1>7. /\ Len(q) = IF k < 0 THEN 0 ELSE k
      /\ \A i \in 1..Len(q) : q[i] = p[i]
  BY <1>3, <1>5, <1>6
<1>8. Len(q) = (IF n < 0 THEN 0 ELSE IF n <= Len(p) THEN n ELSE Len(p)) /\ Len(q) <= Len(p)
  BY <1>3, <1>4, <1>6, <1>7
<1>9. Sorted(p)
  BY <1>1 DEF Sorted
<1> QED
  BY <1>2, <1>7, <1>8, <1>9

\* What comes before an element of a ranking is in it.
LEMMA RankedHasBetter ==
  ASSUME NEW S, IsFiniteSet(S), Scored(S), NEW n \in Int, NEW q \in Ranked(S, n),
         NEW i \in 1..Len(q), NEW x \in S, x.score > q[i].score
  PROVE  \E j \in 1..(i - 1) : q[j] = x
<1>1. PICK p : /\ Enumerates(p, S) /\ Sorted(p) /\ Len(q) <= Len(p)
               /\ \A k \in 1..Len(q) : q[k] = p[k]
  BY RankedAre
<1>2. p \in Seq(S) /\ Len(p) \in Nat
  BY <1>1 DEF Enumerates
<1>3. PICK j \in 1..Len(p) : p[j] = x
  BY <1>1 DEF Enumerates
<1>4. q \in Seq(S) /\ Len(q) \in Nat
  BY RankedIs
<1>5. i \in 1..Len(p) /\ q[i] = p[i] /\ p[i].score \in Int /\ p[j].score \in Int
  BY <1>1, <1>2, <1>3, <1>4 DEF Scored
<1>6. j < i
  <2> SUFFICES ASSUME j >= i PROVE FALSE
    BY <1>3, <1>5
  <2>1. j \in i..Len(p)
    BY <1>3
  <2>2. p[i].score >= p[j].score
    BY <1>1, <1>2, <1>5, <2>1, SortedPairs
  <2> QED
    BY <1>3, <1>5, <2>2
<1>7. j \in 1..(i - 1) /\ j \in 1..Len(q)
  BY <1>3, <1>4, <1>6
<1> QED
  BY <1>1, <1>3, <1>7

\* The best score is that of a hit, or 0.
LEMMA BestIs ==
  ASSUME NEW S \in SUBSET Hit, IsFiniteSet(S)
  PROVE  Best(S) \in Nat
<1> DEFINE T == {0} \cup {h.score : h \in S}
           f == [h \in S |-> h.score]
           id == [x \in T |-> x]
<1>1. T \subseteq Int
  BY DEF Hit
<1>2. IsFiniteSet(T)
  <2>1. f \in Surjection(S, {h.score : h \in S})
    BY DEF Surjection
  <2>2. IsFiniteSet({h.score : h \in S})
    BY <2>1, FS_Surjection
  <2>3. IsFiniteSet({0})
    BY FS_Singleton, Zenon
  <2> QED
    BY <2>2, <2>3, FS_Union, Zenon
<1>3. id \in [T -> Int] /\ T # {}
  BY <1>1
<1> HIDE DEF id
<1>4. PICK x \in T : \A y \in T : id[x] >= id[y]
  <2> HIDE DEF T
  <2> QED
    BY <1>2, <1>3, GreatestElement
<1>5. x \in T /\ \A y \in T : x >= y
  BY <1>4 DEF id
<1>6. Max(T) \in T /\ \A y \in T : Max(T) >= y
  <2> HIDE DEF T
  <2> QED
    BY <1>5, Zenon DEF Max
<1>7. 0 \in T
  OBVIOUS
<1>8. Max(T) \in Nat
  <2>1. Max(T) \in Int
    BY <1>1, <1>6
  <2>2. Max(T) >= 0
    BY <1>6, <1>7
  <2> QED
    BY <2>1, <2>2
<1> QED
  BY <1>8 DEF Best

LEMMA ScoreInIs ==
  ASSUME NEW S \in SUBSET Hit, NEW k
  PROVE  ScoreIn(S, k) \in Int
<1>1. CASE \E h \in S : Key(h) = k
  <2>1. (CHOOSE h \in S : Key(h) = k) \in S
    BY <1>1
  <2> QED
    BY <1>1, <2>1 DEF ScoreIn, Hit
<1>2. CASE ~\E h \in S : Key(h) = k
  BY <1>2 DEF ScoreIn
<1> QED
  BY <1>1, <1>2

LEMMA Grows ==
  ASSUME NEW a \in Int, NEW b \in Int, NEW n \in Nat
  PROVE  /\ a * n \in Int /\ b * n \in Int
         /\ a >= b => a * n >= b * n
         /\ a > b /\ n > 0 => a * n > b * n
OBVIOUS

\* The score a hit gets from both lists.
Fusion(L, S, k) ==
  LET norm(best) == Max({1, best})
  IN ScoreIn(L, k) * norm(Best(S)) * (2 - Weight)
       + (IF Best(S) = 0 THEN 0 ELSE ScoreIn(S, k)) * norm(Best(L)) * Weight

LEMMA FusionGrows ==
  ASSUME NEW L \in SUBSET Hit, NEW S \in SUBSET Hit,
         IsFiniteSet(L), IsFiniteSet(S), NEW k, NEW l
  PROVE  /\ Fusion(L, S, k) \in Int
         /\ /\ ScoreIn(L, k) >= ScoreIn(L, l) /\ ScoreIn(S, k) >= ScoreIn(S, l)
            /\ \/ ScoreIn(L, k) > ScoreIn(L, l) /\ Weight < 2
               \/ ScoreIn(S, k) > ScoreIn(S, l) /\ Weight > 0 /\ Best(S) > 0
            => Fusion(L, S, k) > Fusion(L, S, l)
<1> DEFINE n == Max({1, Best(S)})
           m == Max({1, Best(L)})
           v == 2 - Weight
           a(j) == ScoreIn(L, j)
           b(j) == IF Best(S) = 0 THEN 0 ELSE ScoreIn(S, j)
<1>1. n \in Nat /\ n > 0 /\ m \in Nat /\ m > 0
  <2>1. Best(S) \in Int /\ Best(L) \in Int /\ 1 \in Int
    BY BestIs
  <2> QED
    BY <2>1, MaxOfTwo, BestIs
<1>2. v \in Nat /\ Weight \in Nat /\ (Weight < 2 => v > 0)
  BY SearchAssumption
<1>3. \A j : a(j) \in Int /\ b(j) \in Int
  BY ScoreInIs
<1>4. \A j : Fusion(L, S, j) = a(j) * n * v + b(j) * m * Weight
  BY DEF Fusion
<1>5. Best(S) \in Nat
  BY BestIs
<1>6. ScoreIn(S, k) >= ScoreIn(S, l) => b(k) >= b(l)
  BY ScoreInIs
<1>7. ScoreIn(S, k) > ScoreIn(S, l) /\ Best(S) > 0 => b(k) > b(l)
  BY ScoreInIs, <1>5
<1>8. a(k) = ScoreIn(L, k) /\ a(l) = ScoreIn(L, l)
  OBVIOUS
<1> HIDE DEF n, m, v, a, b
<1>9. /\ a(k) * n \in Int /\ a(l) * n \in Int /\ b(k) * m \in Int /\ b(l) * m \in Int
      /\ a(k) >= a(l) => a(k) * n >= a(l) * n
      /\ b(k) >= b(l) => b(k) * m >= b(l) * m
      /\ a(k) > a(l) => a(k) * n > a(l) * n
      /\ b(k) > b(l) => b(k) * m > b(l) * m
  BY <1>1, <1>3, Grows
<1>10. /\ a(k) * n * v \in Int /\ a(l) * n * v \in Int
       /\ b(k) * m * Weight \in Int /\ b(l) * m * Weight \in Int
       /\ a(k) >= a(l) => a(k) * n * v >= a(l) * n * v
       /\ b(k) >= b(l) => b(k) * m * Weight >= b(l) * m * Weight
       /\ a(k) > a(l) /\ v > 0 => a(k) * n * v > a(l) * n * v
       /\ b(k) > b(l) /\ Weight > 0 => b(k) * m * Weight > b(l) * m * Weight
  BY <1>2, <1>9, Grows
<1> DEFINE x == a(k) * n * v
           y == a(l) * n * v
           z == b(k) * m * Weight
           w == b(l) * m * Weight
<1>11. Fusion(L, S, k) = x + z /\ Fusion(L, S, l) = y + w
  BY <1>4
<1>12. x \in Int /\ y \in Int /\ z \in Int /\ w \in Int
  BY <1>10
<1>13. ASSUME ScoreIn(L, k) >= ScoreIn(L, l), ScoreIn(S, k) >= ScoreIn(S, l)
       PROVE  x >= y /\ z >= w
  BY <1>6, <1>8, <1>10, <1>13
<1>14. ASSUME \/ ScoreIn(L, k) > ScoreIn(L, l) /\ Weight < 2
              \/ ScoreIn(S, k) > ScoreIn(S, l) /\ Weight > 0 /\ Best(S) > 0
       PROVE  x > y \/ z > w
  BY <1>2, <1>7, <1>8, <1>10, <1>14
<1> HIDE DEF x, y, z, w
<1> QED
  BY <1>11, <1>12, <1>13, <1>14

-----------------------------------------------------------------------------
(* What a hybrid answer has first. *)

\* A document is walked for a look-up only.
FusionInv ==
  /\ SourceInv
  /\ stage = "locate" => call.op # "search"
  /\ BetterInBothIsFirst

\* A step after which the answer is the same, or none is there.
LEMMA BetterKeeps ==
  ASSUME FusionInv, SourceInv',
         \/ UNCHANGED <<stage, hits, lexical, semantic, call>>
         \/ stage' \notin {"locate", "returned"}
         \/ stage' = "locate" /\ call'.op # "search"
         \/ stage' = "returned" /\ (call'.mode # "hybrid" \/ call'.op # "search")
  PROVE  FusionInv'
<1>1. CASE UNCHANGED <<stage, hits, lexical, semantic, call>>
  BY <1>1 DEF FusionInv, BetterInBothIsFirst
<1>2. CASE stage' \notin {"locate", "returned"}
  BY <1>2 DEF FusionInv, BetterInBothIsFirst
<1>3. CASE stage' = "locate" /\ call'.op # "search"
  BY <1>3 DEF FusionInv, BetterInBothIsFirst
<1>4. CASE stage' = "returned" /\ (call'.mode # "hybrid" \/ call'.op # "search")
  BY <1>4 DEF FusionInv, BetterInBothIsFirst
<1> QED
  BY <1>1, <1>2, <1>3, <1>4

\* What is ranked is what the lists have, with the score of its key.
LEMMA FusedScores ==
  ASSUME NEW L \in SUBSET Hit, NEW S \in SUBSET Hit,
         IsFiniteSet(L), IsFiniteSet(S)
  PROVE  /\ Fused(L, S) \subseteq Hit
         /\ \A g \in Fused(L, S) : g.score = Fusion(L, S, Key(g))
         /\ \A h \in L \cup S : \E g \in Fused(L, S) : Key(g) = Key(h)
<1> DEFINE kept == L \cup {s \in S : \A l \in L : Key(l) # Key(s)}
<1>1. Fused(L, S) = {[h EXCEPT !.score = Fusion(L, S, Key(h))] : h \in kept}
  BY DEF Fused, Fusion
<1>2. ASSUME NEW h \in Hit, NEW n \in Int
      PROVE  /\ [h EXCEPT !.score = n] \in Hit
             /\ [h EXCEPT !.score = n].score = n
             /\ Key([h EXCEPT !.score = n]) = Key(h)
  BY DEF Hit, Key
<1>3. \A k : Fusion(L, S, k) \in Int
  BY FusionGrows
<1>4. kept \subseteq Hit
  OBVIOUS
<1>5. \A h \in L \cup S : \E g \in kept : Key(g) = Key(h)
  OBVIOUS
<1> HIDE DEF kept
<1>6. \A h \in kept : LET g == [h EXCEPT !.score = Fusion(L, S, Key(h))]
                      IN g \in Hit /\ g.score = Fusion(L, S, Key(g)) /\ Key(g) = Key(h)
  BY <1>2, <1>3, <1>4
<1> QED
  BY <1>1, <1>5, <1>6

LEMMA EndSemanticBetter ==
  ASSUME FusionInv, SourceInv', EndSemantic
  PROVE  FusionInv'
<1> DEFINE L == ToSet(lexical)
           S == ToSet(semantic)
           n == ClampLimit(call.limit)
<1>1. /\ stage' = "returned" /\ call' = call
      /\ lexical' = lexical /\ semantic' = semantic
  BY DEF EndSemantic
<1>2. CASE call.mode # "hybrid"
  BY <1>1, <1>2, BetterKeeps
<1>3. CASE call.mode = "hybrid"
  <2>1. hits' \in Ranked(Fused(L, S), n)
    BY <1>3 DEF EndSemantic
  <2>2. IsFiniteSet(L) /\ IsFiniteSet(S) /\ L \subseteq Hit /\ S \subseteq Hit
    BY SeqFinite DEF FusionInv, SourceInv, Shape
  <2>3. n \in Int
    BY LimitsAre DEF FusionInv, SourceInv, Shape, IsCall
  <2> SUFFICES ASSUME NEW i \in 1..Len(hits'), NEW h \in L \cup S,
                      ScoreIn(L, Key(h)) >= ScoreIn(L, Key(hits'[i])),
                      ScoreIn(S, Key(h)) >= ScoreIn(S, Key(hits'[i])),
                      \/ ScoreIn(L, Key(h)) > ScoreIn(L, Key(hits'[i])) /\ Weight < 2
                      \/ ScoreIn(S, Key(h)) > ScoreIn(S, Key(hits'[i])) /\ Weight > 0
                           /\ Best(S) > 0
               PROVE  \E j \in 1..(i - 1) : Key(hits'[j]) = Key(h)
    BY <1>1 DEF FusionInv, BetterInBothIsFirst
  <2> HIDE DEF L, S, n
  <2> DEFINE F == Fused(L, S)
  <2>4. IsFiniteSet(F)
    BY <2>2, FusedAre
  <2>5. /\ F \subseteq Hit
        /\ \A g \in F : g.score = Fusion(L, S, Key(g))
        /\ \E g \in F : Key(g) = Key(h)
    BY <2>2, FusedScores
  <2>6. PICK g \in F : Key(g) = Key(h)
    BY <2>5
  <2>7. Scored(F)
    BY <2>5 DEF Scored, Hit
  <2> HIDE DEF F
  <2>8. hits' \in Seq(F)
    BY <2>1, <2>3, <2>4, RankedIs DEF F
  <2>9. hits'[i] \in F
    BY <2>8
  <2>10. Fusion(L, S, Key(h)) > Fusion(L, S, Key(hits'[i]))
    BY <2>2, FusionGrows
  <2>11. g.score > hits'[i].score
    BY <2>5, <2>6, <2>9, <2>10
  <2>12. hits' \in Ranked(F, n)
    BY <2>1 DEF F
  <2>13. \E j \in 1..(i - 1) : hits'[j] = g
    BY <2>3, <2>4, <2>6, <2>7, <2>11, <2>12, RankedHasBetter
  <2> QED
    BY <2>6, <2>13
<1> QED
  BY <1>2, <1>3

LEMMA NextFusion ==
  ASSUME FusionInv, [Next]_vars
  PROVE  FusionInv'
<1>1. SourceInv'
  BY NextSource DEF FusionInv
<1>2. CASE (\E d \in Docs : Edit(d)) \/ Rebuild \/ UNCHANGED vars
  BY <1>1, <1>2, BetterKeeps DEF Edit, Rebuild, vars, progress
<1>3. CASE \E q \in Questions : Ask(q)
  <2>1. PICK q \in Questions : Ask(q)
    BY <1>3
  <2>2. PICK r \in Requests :
          \/ EndAtOnce("answered") \/ EndAtOnce("panicked")
          \/ Search(Asked(q, r)) \/ LookUp(Asked(q, r))
    BY <2>1 DEF Ask
  <2>3. CASE EndAtOnce("answered") \/ EndAtOnce("panicked") \/ Search(Asked(q, r))
    <3>1. stage' \notin {"locate", "returned"}
      BY <2>3 DEF EndAtOnce, Search, StartSearch
    <3> QED
      BY <1>1, <3>1, BetterKeeps
  <2>4. CASE LookUp(Asked(q, r))
    <3>1. PICK symbol :
            call' = [Asked(q, r) EXCEPT !.query = symbol, !.op = "locate",
                       !.want = IF Shortcut[Asked(q, r).query] = "def" THEN "definition"
                                ELSE "reference"]
      BY <2>4 DEF LookUp
    <3>2. call'.op = "locate"
      BY <3>1 DEF Asked
    <3>3. stage' = "locate"
      BY <2>4 DEF LookUp, StartLocate
    <3> QED
      BY <1>1, <3>2, <3>3, BetterKeeps
  <2> QED
    BY <2>2, <2>3, <2>4
<1>4. CASE TryNext
  <2>1. call' = [call EXCEPT !.query = Head(plan).query, !.op = Head(plan).op]
    BY <1>4 DEF TryNext
  <2>2. call'.op = Head(plan).op
    BY <2>1 DEF FusionInv, SourceInv, Shape, IsCall
  <2>3. CASE Head(plan).op = "search"
    <3>1. stage' \notin {"locate", "returned"}
      BY <1>4, <2>3 DEF TryNext, StartSearch
    <3> QED
      BY <1>1, <3>1, BetterKeeps
  <2>4. CASE Head(plan).op # "search"
    <3>1. stage' = "locate"
      BY <1>4, <2>4 DEF TryNext, StartLocate
    <3> QED
      BY <1>1, <2>2, <2>4, <3>1, BetterKeeps
  <2> QED
    BY <2>3, <2>4
<1>5. CASE Answer
  BY <1>1, <1>5, BetterKeeps DEF Answer
<1>6. CASE LocateIn \/ EndLocate
  <2>1. call' = call /\ call.op # "search" /\ stage' \in {"locate", "returned"}
    BY <1>6 DEF LocateIn, EndLocate, FusionInv
  <2> QED
    BY <1>1, <2>1, BetterKeeps
<1>7. CASE SearchLexical \/ LexicalHit
  BY <1>1, <1>7, BetterKeeps DEF SearchLexical, LexicalHit, Fail
<1>8. CASE EndLexical
  <2>1. call' = call
    BY <1>8 DEF EndLexical
  <2>2. CASE call.mode = "lexical"
    <3>1. stage' = "returned" /\ call'.mode # "hybrid"
      BY <1>8, <2>1, <2>2 DEF EndLexical
    <3> QED
      BY <1>1, <3>1, BetterKeeps
  <2>3. CASE call.mode # "lexical"
    <3>1. stage' \notin {"locate", "returned"}
      BY <1>8, <2>3 DEF EndLexical
    <3> QED
      BY <1>1, <3>1, BetterKeeps
  <2> QED
    BY <2>2, <2>3
<1>9. CASE SearchSemantic \/ SemanticHit
  BY <1>1, <1>9, BetterKeeps DEF SearchSemantic, SemanticHit, Fail
<1>10. CASE EndSemantic
  BY <1>1, <1>10, EndSemanticBetter
<1> QED
  BY <1>2, <1>3, <1>4, <1>5, <1>6, <1>7, <1>8, <1>9, <1>10 DEF Next, Step

\* BetterInBothIsFirst: whatever the scores, the similarities and the weight are,
\* fusion does not turn round what the index and the embeddings agree on, nor
\* does the limit cut the better of two hits off.
THEOREM FusionKeepsOrder == Spec => []BetterInBothIsFirst
<1>1. Init => FusionInv
  BY InitSource DEF FusionInv, BetterInBothIsFirst, Init
<1>2. FusionInv /\ [Next]_vars => FusionInv'
  BY NextFusion
<1>3. FusionInv => BetterInBothIsFirst
  BY DEF FusionInv
<1> QED
  BY <1>1, <1>2, <1>3, PTL DEF Spec

-----------------------------------------------------------------------------
(* The two semantic indexes. *)

\* The first elements of an enumeration in order are a ranking.
LEMMA RankedIntro ==
  ASSUME NEW S, NEW p, Enumerates(p, S), Sorted(p), NEW n \in Nat,
         NEW q \in Seq(S), Len(q) = (IF n <= Len(p) THEN n ELSE Len(p)),
         \A i \in 1..Len(q) : q[i] = p[i]
  PROVE  q \in Ranked(S, n)
<1>1. p \in SetToSeqs(S) /\ p \in Seq(S) /\ Len(p) \in Nat
  <2>1. p \in Seq(S)
    BY DEF Enumerates
  <2> QED
    BY <2>1, EnumerationIntro
<1> DEFINE k == Min({n, Len(p)})
<1>2. k = Len(q) /\ k \in 0..Len(p)
  <2>1. k = IF n <= Len(p) THEN n ELSE Len(p)
    BY <1>1, MinOfTwo
  <2> HIDE DEF k
  <2> QED
    BY <1>1, <2>1
<1> HIDE DEF k
<1>3. q = SubSeq(p, 1, k)
  <2>1. /\ SubSeq(p, 1, k) \in Seq(S) /\ Len(SubSeq(p, 1, k)) = k
        /\ \A i \in 1..k : SubSeq(p, 1, k)[i] = p[i]
    BY <1>1, <1>2
  <2>2. \A i \in 1..k : q[i] = SubSeq(p, 1, k)[i]
    BY <1>2, <2>1
  <2> QED
    BY <1>2, <2>1, <2>2
<1>4. q = AtMost(n, p)
  BY <1>3 DEF AtMost, k
<1> QED
  BY <1>1, <1>4 DEF Ranked, Sorted

LEMMA RequestedIs ==
  ASSUME NEW limit \in Nat \ {0}, NEW n \in Nat
  PROVE  Max({1, Min({limit, n})}) = IF n = 0 THEN 1 ELSE IF limit <= n THEN limit ELSE n
<1>1. Min({limit, n}) = IF limit <= n THEN limit ELSE n
  BY MinOfTwo
<1>2. Min({limit, n}) \in Int
  BY <1>1
<1> QED
  BY <1>1, <1>2, MaxOfTwo

\* A part of a finite set has an enumeration that is not longer.
LEMMA PartIsShorter ==
  ASSUME NEW S, IsFiniteSet(S), NEW T \in SUBSET S
  PROVE  /\ IsFiniteSet(T) /\ Cardinality(T) <= Cardinality(S)
         /\ Cardinality(T) \in Nat /\ Cardinality(S) \in Nat
BY FS_Subset, FS_CardinalityType

\* All the flat index ranks, the graph may rank, if only scores count.
LEMMA FlatIsInGraph ==
  ASSUME NEW M \in SUBSET Hit, IsFiniteSet(M), NEW limit \in Nat \ {0},
         \A m \in M : Passes(m) <=> m.score >= MinScore,
         NEW q \in SearchFlat(M, limit)
  PROVE  q \in SearchHnsw(M, limit)
<1> DEFINE P == {m \in M : Passes(m)}
           N == M \ P
           n == Cardinality(M)
           requested == Max({1, Min({limit, n})})
           passing(nearest) == {m \in ToSet(nearest) : Passes(m)}
<1>1. /\ Scored(M) /\ Scored(P) /\ Scored(N)
      /\ IsFiniteSet(P) /\ IsFiniteSet(N) /\ n \in Nat
      /\ Cardinality(P) <= n
  BY FS_Subset, PartIsShorter DEF Scored, Hit
<1>2. requested = IF n = 0 THEN 1 ELSE IF limit <= n THEN limit ELSE n
  BY <1>1, RequestedIs
<1>3. requested \in Nat /\ requested >= 1 /\ requested <= limit
  BY <1>1, <1>2
<1>4. \A x \in P, y \in N : x.score >= y.score
  BY SearchAssumption DEF Hit
<1>5. q \in Ranked(P, limit)
  BY DEF SearchFlat
<1>6. \A nearest \in Ranked(M, requested) :
        Ranked(passing(nearest), requested) \subseteq SearchHnsw(M, limit)
  BY DEF SearchHnsw
<1>7. \A m \in N : ~Passes(m)
  OBVIOUS
<1>8. \A m \in P : Passes(m)
  OBVIOUS
<1>9. P \cup N = M /\ P \cap N = {}
  OBVIOUS
<1> HIDE DEF P, N, n, requested
<1>10. PICK p : /\ Enumerates(p, P) /\ Sorted(p)
                /\ Len(q) = (IF limit <= Len(p) THEN limit ELSE Len(p))
                /\ \A i \in 1..Len(q) : q[i] = p[i]
  <2>1. limit \in Int /\ ~(limit < 0)
    OBVIOUS
  <2> QED
    BY <1>1, <1>5, <2>1, RankedAre
<1>11. PICK r : Enumerates(r, N) /\ Sorted(r)
  BY <1>1, SortedExists
<1> DEFINE s == p \o r
<1>12. Enumerates(s, M)
  BY <1>9, <1>10, <1>11, ConcatEnumerates
<1>13. /\ p \in Seq(M) /\ r \in Seq(M) /\ Len(p) = Cardinality(P) /\ Len(s) = n
       /\ p \in Seq(P) /\ r \in Seq(N)
  <2>1. p \in Seq(P) /\ r \in Seq(N) /\ P \subseteq M /\ N \subseteq M
    BY <1>9, <1>10, <1>11 DEF Enumerates
  <2>2. Len(p) = Cardinality(P) /\ Len(s) = n
    BY <1>10, <1>12, EnumerationIntro DEF n
  <2> QED
    BY <2>1, <2>2, SeqWider
<1>14. Sorted(s)
  <2>1. \A i \in 1..Len(p), j \in 1..Len(r) : p[i].score >= r[j].score
    BY <1>4, <1>13
  <2> QED
    BY <1>1, <1>10, <1>11, <1>13, <2>1, SortedConcat
<1>15. /\ Len(s) = Len(p) + Len(r) /\ Len(p) \in Nat /\ Len(r) \in Nat
       /\ \A i \in 1..Len(p) : s[i] = p[i]
       /\ \A i \in 1..Len(r) : s[Len(p) + i] = r[i]
       /\ s \in Seq(M)
  <2>1. p \in Seq(M) /\ r \in Seq(M)
    BY <1>13
  <2> QED
    BY <2>1, ConcatIs
<1> HIDE DEF s
<1> DEFINE k == IF requested <= n THEN requested ELSE n
           nearest == SubSeq(s, 1, k)
<1>16. k \in 0..n /\ k <= requested
  BY <1>1, <1>3
<1>17. /\ nearest \in Seq(M) /\ Len(nearest) = k
       /\ \A i \in 1..k : nearest[i] = s[i]
  BY <1>13, <1>15, <1>16
<1>18. nearest \in Ranked(M, requested)
  <2> HIDE DEF nearest
  <2>1. Len(nearest) = (IF requested <= Len(s) THEN requested ELSE Len(s))
    BY <1>13, <1>17
  <2> QED
    BY <1>3, <1>12, <1>14, <1>17, <2>1, RankedIntro
<1> HIDE DEF k, nearest
<1> DEFINE t == IF k <= Len(p) THEN k ELSE Len(p)
           A == {p[i] : i \in 1..t}
<1>19. t \in 0..Len(p) /\ t <= k /\ t <= requested
  BY <1>1, <1>3, <1>15, <1>16
<1>20. t = Len(q)
  <2>1. k = IF requested <= n THEN requested ELSE n
    BY DEF k
  <2>2. t = IF k <= Len(p) THEN k ELSE Len(p)
    OBVIOUS
  <2>3. Len(p) <= n /\ Len(p) \in Nat /\ n \in Nat
    BY <1>1, <1>13, <1>15
  <2>4. Len(q) = IF limit <= Len(p) THEN limit ELSE Len(p)
    BY <1>10
  <2> HIDE DEF t
  <2>5. CASE n = 0
    BY <1>2, <2>1, <2>2, <2>3, <2>4, <2>5
  <2>6. CASE n # 0
    BY <1>2, <2>1, <2>2, <2>3, <2>4, <2>6
  <2> QED
    BY <2>5, <2>6
<1>21. passing(nearest) = A
  <2>1. ASSUME NEW m \in passing(nearest) PROVE m \in A
    <3>1. PICK i \in 1..k : m = s[i]
      BY <1>17 DEF ToSet
    <3>2. CASE i <= Len(p)
      <4>1. i \in 1..t /\ i \in 1..Len(p)
        BY <1>15, <1>16, <3>1, <3>2
      <4> QED
        BY <1>15, <3>1, <4>1
    <3>3. CASE i > Len(p)
      <4>1. i - Len(p) \in 1..Len(r) /\ Len(p) + (i - Len(p)) = i
        BY <1>13, <1>15, <1>16, <3>1, <3>3
      <4>2. s[i] = r[i - Len(p)] /\ r[i - Len(p)] \in N
        BY <1>13, <1>15, <4>1
      <4> QED
        BY <1>7, <3>1, <4>2
    <3> QED
      BY <1>15, <1>16, <3>1, <3>2, <3>3
  <2>2. ASSUME NEW m \in A PROVE m \in passing(nearest)
    <3>1. PICK i \in 1..t : m = p[i]
      OBVIOUS
    <3>2. i \in 1..k /\ i \in 1..Len(p)
      BY <1>15, <1>16, <1>19, <3>1
    <3>3. m \in P /\ m = s[i] /\ s[i] = nearest[i] /\ i \in DOMAIN nearest
      BY <1>13, <1>15, <1>17, <3>1, <3>2
    <3> QED
      BY <1>8, <3>3 DEF ToSet
  <2> HIDE DEF A
  <2> QED
    BY <2>1, <2>2
<1> DEFINE a == SubSeq(p, 1, t)
<1>22. Enumerates(a, A) /\ Sorted(a)
  <2>1. 1 \in 1..(Len(p) + 1) /\ t \in (1 - 1)..Len(p)
    BY <1>15, <1>19
  <2> HIDE DEF t
  <2> QED
    BY <1>10, <1>13, <2>1, PartEnumerates, SortedPart
<1>23. /\ Len(a) = t /\ \A i \in 1..t : a[i] = p[i]
  BY <1>13, <1>19
<1>24. q = a
  <2>1. q \in Seq(P)
    BY <1>1, <1>5, RankedIs
  <2>2. a \in Seq(A)
    BY <1>22 DEF Enumerates
  <2>3. \A i \in 1..t : q[i] = a[i]
    BY <1>10, <1>20, <1>23
  <2> HIDE DEF a, t, A
  <2> QED
    BY <1>20, <1>23, <2>1, <2>2, <2>3
<1>25. a \in Ranked(A, requested)
  <2>1. a \in Seq(A) /\ Len(a) \in Nat
    BY <1>22 DEF Enumerates
  <2>2. Len(a) = IF requested <= Len(a) THEN requested ELSE Len(a)
    BY <1>3, <1>19, <1>23, <2>1
  <2> HIDE DEF a, A
  <2> QED
    BY <1>3, <1>22, <2>1, <2>2, RankedIntro
<1> QED
  BY <1>6, <1>18, <1>21, <1>24, <1>25

\* And nothing else.
LEMMA GraphIsInFlat ==
  ASSUME NEW M \in SUBSET Hit, IsFiniteSet(M), NEW limit \in Nat \ {0},
         \A m \in M : Passes(m) <=> m.score >= MinScore,
         NEW q \in SearchHnsw(M, limit)
  PROVE  q \in SearchFlat(M, limit)
<1> DEFINE P == {m \in M : Passes(m)}
           n == Cardinality(M)
           requested == Max({1, Min({limit, n})})
           passing(nearest) == {m \in ToSet(nearest) : Passes(m)}
<1>1. PICK nearest \in Ranked(M, requested) : q \in Ranked(passing(nearest), requested)
  BY DEF SearchHnsw
<1> DEFINE A == passing(nearest)
           N == P \ A
<1>2. n \in Nat
  BY FS_CardinalityType
<1>3. requested = IF n = 0 THEN 1 ELSE IF limit <= n THEN limit ELSE n
  BY <1>2, RequestedIs
<1>4. requested \in Nat /\ requested >= 1 /\ requested <= limit
  BY <1>2, <1>3
<1>5. SearchFlat(M, limit) = Ranked(P, limit)
  BY DEF SearchFlat
<1> HIDE DEF requested
<1>6. PICK s : /\ Enumerates(s, M) /\ Sorted(s)
               /\ Len(nearest) = (IF requested <= Len(s) THEN requested ELSE Len(s))
               /\ \A i \in 1..Len(nearest) : nearest[i] = s[i]
  <2>1. requested \in Int /\ ~(requested < 0)
    BY <1>4
  <2> QED
    BY <1>1, <2>1, RankedAre
<1>7. s \in Seq(M) /\ Len(s) = n /\ Scored(M)
  BY <1>6, EnumerationIntro DEF Enumerates, Scored, Hit
<1>8. nearest \in Seq(M) /\ Len(nearest) <= n /\ Len(nearest) <= requested
      /\ Len(nearest) \in Nat
  BY <1>1, <1>2, <1>4, <1>6, <1>7, RankedIs
<1>9. ToSet(nearest) \subseteq M /\ IsFiniteSet(ToSet(nearest))
  BY <1>8, SeqFinite
<1>10. /\ A \subseteq P /\ P \subseteq M /\ A \subseteq ToSet(nearest)
       /\ IsFiniteSet(A) /\ IsFiniteSet(P) /\ IsFiniteSet(N)
       /\ A \cup N = P /\ A \cap N = {}
  <2>1. A \subseteq P /\ P \subseteq M /\ A \cup N = P /\ A \cap N = {}
    BY <1>9
  <2>2. IsFiniteSet(P) /\ IsFiniteSet(N)
    BY FS_Subset
  <2>3. A \subseteq ToSet(nearest) /\ IsFiniteSet(A)
    BY <1>9, FS_Subset
  <2> QED
    BY <2>1, <2>2, <2>3
<1>11. Scored(A) /\ Scored(N) /\ Scored(P)
  BY <1>7, <1>10 DEF Scored
\* What passes and is not among the nearest is not better than any of them.
<1>12. \A x \in N : \A i \in 1..Len(nearest) : nearest[i].score >= x.score
  <2> SUFFICES ASSUME NEW x \in N, NEW i \in 1..Len(nearest)
               PROVE  nearest[i].score >= x.score
    OBVIOUS
  <2>1. x \in M /\ x \notin ToSet(nearest)
    BY <1>10
  <2>2. PICK j \in 1..Len(s) : s[j] = x
    BY <1>6, <2>1 DEF Enumerates
  <2>3. ~(j \in 1..Len(nearest))
    BY <1>6, <1>8, <2>1, <2>2 DEF ToSet
  <2>4. i \in 1..Len(s) /\ j \in i..Len(s)
    BY <1>7, <1>8, <2>2, <2>3
  <2>5. s[i].score >= s[j].score
    BY <1>6, <1>7, <2>4, SortedPairs
  <2> QED
    BY <1>6, <2>2, <2>5
<1>13. N # {} => A = ToSet(nearest)
  <2> SUFFICES ASSUME NEW x \in N, NEW i \in 1..Len(nearest) PROVE Passes(nearest[i])
    BY <1>8 DEF ToSet
  <2>1. nearest[i].score >= x.score /\ nearest[i] \in M /\ x \in P
    BY <1>8, <1>10, <1>12
  <2>2. x.score >= MinScore
    BY <2>1
  <2>3. MinScore \in Int /\ x.score \in Int /\ nearest[i].score \in Int
    BY <1>7, <1>10, <2>1, SearchAssumption DEF Scored
  <2> QED
    BY <2>1, <2>2, <2>3
<1>14. \A x \in A, y \in N : x.score >= y.score
  BY <1>8, <1>10, <1>12 DEF ToSet
<1> DEFINE k == Cardinality(A)
<1>15. k \in Nat /\ k <= Len(nearest)
  <2>1. Cardinality(ToSet(nearest)) <= Len(nearest)
    <3>1. nearest \in Surjection(1..Len(nearest), ToSet(nearest))
      BY <1>8 DEF Surjection, ToSet
    <3>2. IsFiniteSet(1..Len(nearest)) /\ Cardinality(1..Len(nearest)) = Len(nearest)
      <4>1. \A j \in Nat : IsFiniteSet(1..j) /\ Cardinality(1..j) = j
        BY FS_Interval
      <4> QED
        BY <1>8, <4>1
    <3> QED
      BY <3>1, <3>2, FS_Surjection
  <2>2. k <= Cardinality(ToSet(nearest)) /\ k \in Nat
        /\ Cardinality(ToSet(nearest)) \in Nat
    BY <1>9, <1>10, PartIsShorter
  <2> QED
    BY <1>8, <2>1, <2>2
<1>16. N # {} => k = Len(nearest) /\ k = limit
  <2> SUFFICES ASSUME N # {} PROVE k = Len(nearest) /\ k = limit
    OBVIOUS
  <2>1. A = ToSet(nearest)
    BY <1>13
  <2>2. Enumerates(nearest, ToSet(nearest))
    <3>1. nearest \in Seq(ToSet(nearest))
      BY <1>8 DEF ToSet
    <3>2. \A i, j \in 1..Len(nearest) : nearest[i] = nearest[j] => i = j
      BY <1>6, <1>7, <1>8 DEF Enumerates
    <3>3. \A x \in ToSet(nearest) : \E i \in 1..Len(nearest) : nearest[i] = x
      BY <1>8 DEF ToSet
    <3> QED
      BY <3>1, <3>2, <3>3 DEF Enumerates
  <2>3. k = Len(nearest)
    BY <2>1, <2>2, EnumerationIntro
  <2>4. Len(nearest) < n
    <3>1. PICK x \in N : TRUE
      OBVIOUS
    <3>2. x \in M /\ x \notin ToSet(nearest)
      BY <1>10, <2>1
    <3>3. PICK j \in 1..Len(s) : s[j] = x
      BY <1>6, <3>2 DEF Enumerates
    <3>4. ~(j \in 1..Len(nearest))
      BY <1>6, <1>8, <3>2, <3>3 DEF ToSet
    <3> QED
      BY <1>2, <1>7, <1>8, <3>3, <3>4
  <2>5. Len(nearest) = requested /\ requested = limit
    BY <1>2, <1>3, <1>6, <1>7, <1>8, <2>4
  <2> QED
    BY <2>3, <2>5
<1> HIDE DEF A, N, P
<1>17. PICK a : /\ Enumerates(a, A) /\ Sorted(a)
                /\ Len(q) = (IF requested <= Len(a) THEN requested ELSE Len(a))
                /\ \A i \in 1..Len(q) : q[i] = a[i]
  <2>1. requested \in Int /\ ~(requested < 0)
    BY <1>4
  <2>2. q \in Ranked(A, requested)
    BY <1>1 DEF A
  <2> QED
    BY <1>10, <2>1, <2>2, RankedAre
<1>18. Len(a) = k /\ a \in Seq(A)
  BY <1>17, EnumerationIntro DEF Enumerates
<1>19. PICK b : Enumerates(b, N) /\ Sorted(b)
  BY <1>10, <1>11, SortedExists
<1> DEFINE p == a \o b
<1>20. Enumerates(p, P)
  BY <1>10, <1>17, <1>19, ConcatEnumerates
<1>21. a \in Seq(P) /\ b \in Seq(P) /\ b \in Seq(N)
  <2>1. b \in Seq(N) /\ N \subseteq P
    BY <1>10, <1>19 DEF Enumerates
  <2> QED
    BY <1>10, <1>18, <2>1, SeqWider
<1>22. Sorted(p)
  <2>1. \A i \in 1..Len(a), j \in 1..Len(b) : a[i].score >= b[j].score
    BY <1>14, <1>18, <1>21
  <2> QED
    BY <1>11, <1>17, <1>19, <1>21, <2>1, SortedConcat
<1>23. /\ Len(p) = Len(a) + Len(b) /\ Len(a) \in Nat /\ Len(b) \in Nat
       /\ \A i \in 1..Len(a) : p[i] = a[i]
  BY <1>21, ConcatIs
<1> HIDE DEF p
<1>24. Len(q) = k
  BY <1>4, <1>8, <1>15, <1>17, <1>18
<1>25. q \in Seq(P)
  <2>1. q \in Ranked(A, requested) /\ requested \in Int
    BY <1>1, <1>4 DEF A
  <2>2. q \in Seq(A)
    BY <1>10, <2>1, RankedIs
  <2> QED
    BY <1>10, <2>2, SeqWider
<1>26. Len(q) = IF limit <= Len(p) THEN limit ELSE Len(p)
  <2>1. CASE N = {}
    <3>1. Len(b) = 0
      <4>1. Len(b) = Cardinality(N)
        BY <1>19, EnumerationIntro
      <4> QED
        BY <2>1, <4>1, FS_EmptySet
    <3> QED
      BY <1>4, <1>8, <1>15, <1>18, <1>23, <1>24, <3>1
  <2>2. CASE N # {}
    BY <1>16, <1>18, <1>23, <1>24, <2>2
  <2> QED
    BY <2>1, <2>2
<1>27. \A i \in 1..Len(q) : q[i] = p[i]
  BY <1>17, <1>18, <1>23, <1>24
<1>28. q \in Ranked(P, limit)
  BY <1>20, <1>22, <1>25, <1>26, <1>27, RankedIntro
<1> QED
  BY <1>5, <1>28 DEF P

\* Whatever else counts, the graph ranks no more than the flat index.
LEMMA GraphIsNotLonger ==
  ASSUME NEW M \in SUBSET Hit, IsFiniteSet(M), NEW limit \in Nat \ {0},
         NEW q \in SearchHnsw(M, limit)
  PROVE  \E f \in SearchFlat(M, limit) : Len(q) <= Len(f)
<1> DEFINE P == {m \in M : Passes(m)}
           n == Cardinality(M)
           requested == Max({1, Min({limit, n})})
           passing(nearest) == {m \in ToSet(nearest) : Passes(m)}
<1>1. PICK nearest \in Ranked(M, requested) : q \in Ranked(passing(nearest), requested)
  BY DEF SearchHnsw
<1> DEFINE A == passing(nearest)
<1>2. n \in Nat
  BY FS_CardinalityType
<1>3. requested = IF n = 0 THEN 1 ELSE IF limit <= n THEN limit ELSE n
  BY <1>2, RequestedIs
<1>4. requested \in Nat /\ requested \in Int /\ requested <= limit
  BY <1>2, <1>3
<1>5. SearchFlat(M, limit) = Ranked(P, limit)
  BY DEF SearchFlat
<1> HIDE DEF requested
<1>6. ToSet(nearest) \subseteq M
  BY <1>1, <1>4, RankedIs
<1>7. IsFiniteSet(P) /\ A \subseteq P /\ Scored(P)
  BY <1>6, FS_Subset DEF Scored, Hit
<1>8. q \in Ranked(A, requested)
  BY <1>1
<1> HIDE DEF A, P
<1>9. IsFiniteSet(A) /\ Cardinality(A) <= Cardinality(P)
      /\ Cardinality(A) \in Nat /\ Cardinality(P) \in Nat
  BY <1>7, PartIsShorter
<1>10. PICK a : /\ Enumerates(a, A)
                /\ Len(q) = (IF requested <= Len(a) THEN requested ELSE Len(a))
  <2>1. ~(requested < 0)
    BY <1>4
  <2> QED
    BY <1>4, <1>8, <1>9, <2>1, RankedAre
<1>11. PICK p : Enumerates(p, P) /\ Sorted(p)
  BY <1>7, SortedExists
<1>12. Len(a) = Cardinality(A) /\ Len(p) = Cardinality(P) /\ p \in Seq(P)
  BY <1>10, <1>11, EnumerationIntro DEF Enumerates
<1> DEFINE k == IF limit <= Len(p) THEN limit ELSE Len(p)
           f == SubSeq(p, 1, k)
<1>13. /\ f \in Seq(P) /\ Len(f) = k /\ \A i \in 1..k : f[i] = p[i]
  BY <1>9, <1>12
<1>14. Len(q) <= k
  BY <1>4, <1>9, <1>10, <1>12
<1> HIDE DEF f
<1>15. f \in Ranked(P, limit)
  BY <1>11, <1>13, RankedIntro
<1> HIDE DEF k
<1> QED
  BY <1>5, <1>13, <1>14, <1>15

\* BackendsAgree: a server with a graph index ranks what one with a flat index
\* ranks, for every similarity of the chunks, as long as no source is asked for;
\* with a source the graph may have fewer hits, never more.
THEOREM SemanticIndexesAgree == Spec => []BackendsAgree
<1>1. SourceInv => BackendsAgree
  <2> SUFFICES ASSUME SourceInv, NEW score \in [ChunksOf(embedded) -> Scores]
               PROVE  LET records == Matches(ChunksOf(embedded), embedded, score)
                          flat == SearchFlat(records, SemanticLimit)
                          graph == SearchHnsw(records, SemanticLimit)
                      IN /\ call.filter = {} => flat = graph
                         /\ \A g \in graph : \E f \in flat : Len(g) <= Len(f)
    BY DEF BackendsAgree
  <2> DEFINE M == Matches(ChunksOf(embedded), embedded, score)
  <2>1. embedded \in Snapshot /\ call.limit \in Nat
    BY DEF SourceInv, Shape, IsCall
  <2>2. score \in [ChunksOf(embedded) -> Int]
    <3>1. Scores \subseteq Int
      BY SearchAssumption DEF Scores
    <3> QED
      BY <3>1
  <2>3. IsFiniteSet(M) /\ M \subseteq Hit
    BY <2>1, <2>2, MatchesAre
  <2>4. SemanticLimit \in Nat \ {0}
    <3>1. call.limit \in Int /\ MaxLimit \in Int /\ TopK \in Int
      BY <2>1, SearchAssumption
    <3>2. Min({call.limit, MaxLimit}) \in Int
      BY <3>1, MinOfTwo
    <3>3. ClampLimit(call.limit) \in Nat \ {0}
      BY <3>2, MaxOfTwo DEF ClampLimit
    <3>4. Max({ClampLimit(call.limit), TopK}) \in Nat \ {0}
      <4>1. ClampLimit(call.limit) \in Int
        BY <3>3
      <4> QED
        BY <3>1, <3>3, <4>1, MaxOfTwo
    <3> QED
      BY <3>3, <3>4 DEF SemanticLimit
  <2> HIDE DEF M
  <2>5. ASSUME call.filter = {}
        PROVE  SearchFlat(M, SemanticLimit) = SearchHnsw(M, SemanticLimit)
    <3>1. \A m \in M : Passes(m) <=> m.score >= MinScore
      BY <2>5 DEF Passes, SemanticSelects
    <3>2. \A q \in SearchFlat(M, SemanticLimit) : q \in SearchHnsw(M, SemanticLimit)
      BY <2>3, <2>4, <3>1, FlatIsInGraph
    <3>3. \A q \in SearchHnsw(M, SemanticLimit) : q \in SearchFlat(M, SemanticLimit)
      BY <2>3, <2>4, <3>1, GraphIsInFlat
    <3> QED
      BY <3>2, <3>3
  <2>6. \A q \in SearchHnsw(M, SemanticLimit) :
          \E f \in SearchFlat(M, SemanticLimit) : Len(q) <= Len(f)
    BY <2>3, <2>4, GraphIsNotLonger
  <2> QED
    BY <2>5, <2>6 DEF M
<1> QED
  BY <1>1, InitSource, NextSource, PTL DEF Spec

-----------------------------------------------------------------------------
(* Answers. *)

Shows(h) == h.chunk < Pieces(h.text)

\* Hits in order, of different chunks that the shown texts have.
WellFormed(c, n) ==
  /\ c \in Seq(Hit)
  /\ Len(c) <= n
  /\ \A i \in 1..Len(c) : \A j \in 1..Len(c) :
       i < j => c[i].score >= c[j].score /\ Key(c[i]) # Key(c[j])
  /\ \A i \in 1..Len(c) : Shows(c[i])

LEMMA EmptyIsWellFormed == \A n \in Nat : WellFormed(<<>>, n)
BY DEF WellFormed

LEMMA WellFormedGives ==
  ASSUME NEW c, NEW n \in Int, WellFormed(c, n)
  PROVE  /\ \A i \in 1..(Len(c) - 1) : c[i].score >= c[i + 1].score
         /\ \A i, j \in 1..Len(c) : Key(c[i]) = Key(c[j]) => i = j
         /\ \A h \in ToSet(c) : Shows(h)
         /\ Len(c) \in Nat
<1>1. Len(c) \in Nat /\ DOMAIN c = 1..Len(c)
  BY DEF WellFormed
<1>2. \A i \in 1..(Len(c) - 1) : c[i].score >= c[i + 1].score
  <2> SUFFICES ASSUME NEW i \in 1..(Len(c) - 1) PROVE c[i].score >= c[i + 1].score
    OBVIOUS
  <2>1. i \in 1..Len(c) /\ i + 1 \in 1..Len(c) /\ i < i + 1
    BY <1>1
  <2> QED
    BY <2>1 DEF WellFormed
<1>3. \A i, j \in 1..Len(c) : Key(c[i]) = Key(c[j]) => i = j
  <2> SUFFICES ASSUME NEW i \in 1..Len(c), NEW j \in 1..Len(c), Key(c[i]) = Key(c[j]), i # j
               PROVE  FALSE
    OBVIOUS
  <2>1. i < j \/ j < i
    BY <1>1
  <2> QED
    BY <2>1 DEF WellFormed
<1> QED
  BY <1>1, <1>2, <1>3 DEF WellFormed, ToSet

\* A ranking of hits of different chunks.
LEMMA RankedIsWellFormed ==
  ASSUME NEW S \in SUBSET Hit, IsFiniteSet(S), NEW n \in Nat, NEW q \in Ranked(S, n),
         \A x, y \in S : Key(x) = Key(y) => x = y, \A x \in S : Shows(x)
  PROVE  WellFormed(q, n)
<1>1. PICK p : /\ Enumerates(p, S) /\ Sorted(p)
               /\ Len(q) = (IF n <= Len(p) THEN n ELSE Len(p))
               /\ Len(q) <= Len(p)
               /\ \A i \in 1..Len(q) : q[i] = p[i]
  <2>1. n \in Int /\ ~(n < 0)
    OBVIOUS
  <2> QED
    BY <2>1, RankedAre
<1>2. p \in Seq(S) /\ Len(p) \in Nat /\ Scored(S)
  <2>1. p \in Seq(S)
    BY <1>1 DEF Enumerates
  <2>2. Len(p) \in Nat
    BY <2>1
  <2>3. Scored(S)
    BY DEF Scored, Hit
  <2> QED
    BY <2>1, <2>2, <2>3
<1>3. q \in Seq(S) /\ Len(q) \in Nat
  BY RankedIs
<1>4. q \in Seq(Hit)
  BY <1>3, SeqWider
<1>5. Len(q) <= n
  BY <1>1, <1>2
<1>6. ASSUME NEW i \in 1..Len(q), NEW j \in 1..Len(q), i < j
      PROVE  q[i].score >= q[j].score /\ Key(q[i]) # Key(q[j])
  <2>1. i \in 1..Len(p) /\ j \in i..Len(p) /\ j \in 1..Len(p) /\ i # j
    <3>1. Len(q) <= Len(p) /\ Len(q) \in Nat /\ Len(p) \in Nat
      BY <1>1, <1>2, <1>3
    <3> QED
      BY <3>1, <1>6
  <2>2. p[i].score >= p[j].score
    BY <1>1, <1>2, <2>1, SortedPairs
  <2>3. p[i] \in S /\ p[j] \in S /\ p[i] # p[j]
    <3>1. p[i] \in S /\ p[j] \in S
      BY <1>2, <2>1
    <3>2. \A a, b \in 1..Len(p) : p[a] = p[b] => a = b
      BY <1>1 DEF Enumerates
    <3> QED
      BY <2>1, <3>1, <3>2
  <2>4. Key(p[i]) # Key(p[j])
    BY <2>3
  <2> QED
    BY <1>1, <2>2, <2>4
<1>7. \A i \in 1..Len(q) : Shows(q[i])
  BY <1>3
<1> QED
  BY <1>4, <1>5, <1>6, <1>7 DEF WellFormed

\* A hit is read: it may show another text, and it may be left out.
LEMMA ReadOne ==
  ASSUME NEW a \in Seq(Hit), NEW b \in Seq(Hit), b # <<>>, NEW n \in Int,
         WellFormed(a \o b, n),
         NEW x \in Hit, Key(x) = Key(Head(b)), x.score = Head(b).score, Shows(x)
  PROVE  WellFormed(Append(a, x) \o Tail(b), n)
<1> DEFINE c == a \o b
           d == Append(a, x) \o Tail(b)
           m == Len(a)
           k == Len(b)
<1>1. /\ c \in Seq(Hit) /\ Len(c) = m + k /\ m \in Nat /\ k \in Nat /\ k >= 1
      /\ \A i \in 1..m : c[i] = a[i]
      /\ \A i \in 1..k : c[m + i] = b[i]
  BY ConcatIs
<1>2. /\ Append(a, x) \in Seq(Hit) /\ Len(Append(a, x)) = m + 1
      /\ \A i \in 1..m : Append(a, x)[i] = a[i]
      /\ Append(a, x)[m + 1] = x
  <2>1. Hit \cup {x} = Hit
    OBVIOUS
  <2> QED
    BY <2>1, AppendIs
<1>3. /\ Tail(b) \in Seq(Hit) /\ Len(Tail(b)) = k - 1 /\ Head(b) = b[1]
      /\ \A i \in 1..(k - 1) : Tail(b)[i] = b[i + 1]
  BY TailIs
<1>4. /\ d \in Seq(Hit) /\ Len(d) = m + 1 + (k - 1)
      /\ \A i \in 1..(m + 1) : d[i] = Append(a, x)[i]
      /\ \A i \in 1..(k - 1) : d[m + 1 + i] = Tail(b)[i]
  BY <1>2, <1>3, ConcatIs
<1> HIDE DEF c, d, m, k
<1>5. Len(d) = Len(c) /\ Len(c) \in Nat
  BY <1>1, <1>4
<1>6. d[m + 1] = x /\ c[m + 1] = Head(b)
  <2>1. m + 1 \in 1..(m + 1) /\ 1 \in 1..k
    BY <1>1
  <2> QED
    BY <1>1, <1>2, <1>3, <1>4, <2>1
<1>7. ASSUME NEW i \in 1..Len(c), i # m + 1 PROVE d[i] = c[i]
  <2>1. CASE i <= m
    <3>1. i \in 1..m /\ i \in 1..(m + 1)
      BY <1>1, <1>5, <1>7, <2>1
    <3> QED
      BY <1>1, <1>2, <1>4, <3>1
  <2>2. CASE i > m
    <3> DEFINE l == i - m - 1
    <3>1. l \in 1..(k - 1) /\ l + 1 \in 1..k /\ m + 1 + l = i /\ m + (l + 1) = i
      BY <1>1, <1>5, <1>7, <2>2
    <3> HIDE DEF l
    <3>2. d[m + 1 + l] = Tail(b)[l] /\ Tail(b)[l] = b[l + 1]
      BY <1>3, <1>4, <3>1
    <3>3. c[m + (l + 1)] = b[l + 1]
      BY <1>1, <3>1
    <3> QED
      BY <3>1, <3>2, <3>3
  <2>3. i <= m \/ i > m
    BY <1>1, <1>5, <1>7
  <2> QED
    BY <2>1, <2>2, <2>3
<1>8. WellFormed(c, n)
  BY DEF c
<1>9. \A i \in 1..Len(c) : d[i].score = c[i].score /\ Key(d[i]) = Key(c[i]) /\ Shows(d[i])
  BY <1>6, <1>7, <1>8 DEF WellFormed
<1>10. Len(d) <= n /\ \A i \in 1..Len(d) : Shows(d[i])
  BY <1>5, <1>8, <1>9 DEF WellFormed
<1>11. \A i \in 1..Len(d) : \A j \in 1..Len(d) :
         i < j => d[i].score >= d[j].score /\ Key(d[i]) # Key(d[j])
  <2>1. \A i \in 1..Len(c) : \A j \in 1..Len(c) :
          i < j => c[i].score >= c[j].score /\ Key(c[i]) # Key(c[j])
    BY <1>8 DEF WellFormed
  <2> QED
    BY <1>5, <1>9, <2>1
<1> QED
  BY <1>4, <1>10, <1>11 DEF WellFormed, d

LEMMA LeaveOut ==
  ASSUME NEW a \in Seq(Hit), NEW b \in Seq(Hit), b # <<>>, NEW n \in Int,
         WellFormed(a \o b, n)
  PROVE  WellFormed(a \o Tail(b), n)
<1> DEFINE c == a \o b
           d == a \o Tail(b)
           m == Len(a)
           k == Len(b)
<1>1. /\ c \in Seq(Hit) /\ Len(c) = m + k /\ m \in Nat /\ k \in Nat /\ k >= 1
      /\ \A i \in 1..m : c[i] = a[i]
      /\ \A i \in 1..k : c[m + i] = b[i]
  BY ConcatIs
<1>2. /\ Tail(b) \in Seq(Hit) /\ Len(Tail(b)) = k - 1
      /\ \A i \in 1..(k - 1) : Tail(b)[i] = b[i + 1]
  BY TailIs
<1>3. /\ d \in Seq(Hit) /\ Len(d) = m + (k - 1)
      /\ \A i \in 1..m : d[i] = a[i]
      /\ \A i \in 1..(k - 1) : d[m + i] = Tail(b)[i]
  BY <1>2, ConcatIs
<1> HIDE DEF c, d, m, k
<1> DEFINE from(i) == IF i <= m THEN i ELSE i + 1
<1>4. ASSUME NEW i \in 1..Len(d) PROVE from(i) \in 1..Len(c) /\ d[i] = c[from(i)]
  <2>1. CASE i <= m
    <3>1. i \in 1..m
      BY <1>1, <1>3, <2>1
    <3> QED
      BY <1>1, <1>3, <3>1
  <2>2. CASE i > m
    <3> DEFINE l == i - m
    <3>1. /\ l \in 1..(k - 1) /\ l + 1 \in 1..k /\ m + l = i /\ m + (l + 1) = i + 1
          /\ i + 1 \in 1..Len(c) /\ from(i) = i + 1
      BY <1>1, <1>3, <2>2
    <3> HIDE DEF l
    <3>2. d[m + l] = Tail(b)[l] /\ Tail(b)[l] = b[l + 1]
      BY <1>2, <1>3, <3>1
    <3>3. c[m + (l + 1)] = b[l + 1]
      BY <1>1, <3>1
    <3> QED
      BY <3>1, <3>2, <3>3
  <2> QED
    BY <1>1, <1>3, <2>1, <2>2
<1>5. \A i, j \in 1..Len(d) : i < j => from(i) < from(j)
  BY <1>1, <1>3
<1>6. WellFormed(c, n)
  BY DEF c
<1>7. Len(d) <= n
  BY <1>1, <1>3, <1>6 DEF WellFormed
<1> HIDE DEF from
<1>8. \A i, j \in 1..Len(d) : i < j => d[i].score >= d[j].score /\ Key(d[i]) # Key(d[j])
  BY <1>4, <1>5, <1>6 DEF WellFormed
<1>9. \A i \in 1..Len(d) : Shows(d[i])
  BY <1>4, <1>6 DEF WellFormed
<1> QED
  BY <1>3, <1>7, <1>8, <1>9 DEF WellFormed, d

\* What matches is of different chunks, and the matched texts have them.
LEMMA MatchesDiffer ==
  ASSUME NEW snapshot \in Snapshot, NEW chunks \in SUBSET ChunksOf(snapshot), NEW score
  PROVE  /\ \A x, y \in Matches(chunks, snapshot, score) : Key(x) = Key(y) => x = y
         /\ \A x \in Matches(chunks, snapshot, score) : Shows(x)
<1> DEFINE of(c) == [doc |-> c[1], chunk |-> c[2], score |-> score[c],
                     text |-> snapshot[c[1]], read |-> FALSE]
<1>1. Matches(chunks, snapshot, score) = {of(c) : c \in chunks}
  BY DEF Matches
<1>2. \A c \in chunks : /\ c = <<c[1], c[2]>> /\ c[2] \in 0..(Pieces(snapshot[c[1]]) - 1)
                        /\ Pieces(snapshot[c[1]]) \in Nat
  <2> SUFFICES ASSUME NEW c \in chunks
               PROVE  /\ c = <<c[1], c[2]>> /\ c[2] \in 0..(Pieces(snapshot[c[1]]) - 1)
                      /\ Pieces(snapshot[c[1]]) \in Nat
    OBVIOUS
  <2>1. PICK d \in Docs : /\ snapshot[d] \in Texts
                          /\ c \in {d} \X (0..(Pieces(snapshot[d]) - 1))
    BY DEF ChunksOf
  <2>2. c[1] = d /\ c[2] \in 0..(Pieces(snapshot[d]) - 1) /\ c = <<c[1], c[2]>>
    BY <2>1
  <2> QED
    BY <2>1, <2>2, SearchAssumption
<1>3. \A c \in chunks : Key(of(c)) = c
  BY <1>2 DEF Key
<1>4. \A c \in chunks : Shows(of(c))
  BY <1>2 DEF Shows
<1> HIDE DEF of
<1> QED
  BY <1>1, <1>3, <1>4

LEMMA Wider ==
  ASSUME NEW c, NEW n \in Int, NEW m \in Int, n <= m, WellFormed(c, n)
  PROVE  WellFormed(c, m)
<1>1. Len(c) \in Nat /\ Len(c) <= n
  BY DEF WellFormed
<1> QED
  BY <1>1 DEF WellFormed

LEMMA LimitBounds ==
  ASSUME NEW limit \in Nat
  PROVE  /\ ClampLimit(limit) \in Nat \ {0}
         /\ ClampLimit(limit) <= Max({1, limit})
         /\ Max({ClampLimit(limit), TopK}) \in Nat \ {0}
         /\ Max({1, limit}) \in Nat
<1>1. limit \in Int /\ MaxLimit \in Int /\ TopK \in Int /\ 1 \in Int
  BY SearchAssumption
<1>2. Min({limit, MaxLimit}) = IF limit <= MaxLimit THEN limit ELSE MaxLimit
  BY <1>1, MinOfTwo
<1>3. Min({limit, MaxLimit}) \in Int /\ Min({limit, MaxLimit}) <= limit
  BY <1>1, <1>2
<1>4. \A a, b \in Int : Max({a, b}) = IF a >= b THEN a ELSE b
  BY MaxOfTwo
<1>5. ClampLimit(limit) = IF 1 >= Min({limit, MaxLimit}) THEN 1 ELSE Min({limit, MaxLimit})
  BY <1>1, <1>3, <1>4 DEF ClampLimit
<1>6. Max({1, limit}) = IF 1 >= limit THEN 1 ELSE limit
  BY <1>1, <1>4
<1>7. ClampLimit(limit) \in Int /\ ClampLimit(limit) >= 1
  BY <1>3, <1>5
<1>8. Max({ClampLimit(limit), TopK}) = IF ClampLimit(limit) >= TopK THEN ClampLimit(limit) ELSE TopK
  BY <1>1, <1>4, <1>7
<1> QED
  BY <1>1, <1>3, <1>5, <1>6, <1>7, <1>8

\* What the index finds is ranked and of its own texts.
LEMMA LexicalIsWellFormed ==
  ASSUME Shape, NEW score \in [LexicalMatches -> 1..MaxScore],
         NEW q \in Ranked(Matches(LexicalMatches, indexed, score), ClampLimit(call.limit))
  PROVE  WellFormed(q, ClampLimit(call.limit))
<1> DEFINE M == Matches(LexicalMatches, indexed, score)
<1>1. LexicalMatches \in SUBSET ChunksOf(indexed)
  BY DEF LexicalMatches
<1>2. indexed \in Snapshot /\ call.limit \in Nat
  BY DEF Shape, IsCall
<1>3. score \in [LexicalMatches -> Int]
  OBVIOUS
<1>4. IsFiniteSet(M) /\ M \subseteq Hit
  BY <1>1, <1>2, <1>3, MatchesAre
<1>5. (\A x, y \in M : Key(x) = Key(y) => x = y) /\ \A x \in M : Shows(x)
  BY <1>1, <1>2, MatchesDiffer
<1>6. ClampLimit(call.limit) \in Nat
  BY <1>2, LimitBounds
<1>7. q \in Ranked(M, ClampLimit(call.limit))
  OBVIOUS
<1> HIDE DEF M
<1> QED
  BY <1>4, <1>5, <1>6, <1>7, RankedIsWellFormed

\* So is what either semantic index finds.
LEMMA SemanticIsWellFormed ==
  ASSUME Shape, NEW score \in [ChunksOf(embedded) -> Scores],
         NEW q \in SemanticMatches(Matches(ChunksOf(embedded), embedded, score),
                                   SemanticLimit)
  PROVE  WellFormed(q, SemanticLimit)
<1> DEFINE M == Matches(ChunksOf(embedded), embedded, score)
<1>1. embedded \in Snapshot /\ call.limit \in Nat
  BY DEF Shape, IsCall
<1>2. score \in [ChunksOf(embedded) -> Int]
  <2>1. Scores \subseteq Int
    BY SearchAssumption DEF Scores
  <2> QED
    BY <2>1
<1>3. IsFiniteSet(M) /\ M \subseteq Hit
  BY <1>1, <1>2, MatchesAre
<1>4. (\A x, y \in M : Key(x) = Key(y) => x = y) /\ \A x \in M : Shows(x)
  BY <1>1, MatchesDiffer
<1>5. SemanticLimit \in Nat \ {0}
  BY <1>1, LimitBounds DEF SemanticLimit
<1>6. q \in SemanticMatches(M, SemanticLimit)
  OBVIOUS
<1> HIDE DEF M
<1>7. CASE backend # "hnsw"
  <2>1. q \in Ranked({m \in M : Passes(m)}, SemanticLimit)
    BY <1>6, <1>7 DEF SemanticMatches, SearchFlat
  <2> DEFINE P == {m \in M : Passes(m)}
  <2>2. IsFiniteSet(P) /\ P \in SUBSET Hit
    BY <1>3, FS_Subset
  <2>3. (\A x, y \in P : Key(x) = Key(y) => x = y) /\ \A x \in P : Shows(x)
    BY <1>4
  <2> HIDE DEF P
  <2> QED
    BY <1>5, <2>1, <2>2, <2>3, RankedIsWellFormed DEF P
<1>8. CASE backend = "hnsw"
  <2> DEFINE requested == Max({1, Min({SemanticLimit, Cardinality(M)})})
  <2>1. PICK nearest \in Ranked(M, requested) :
          q \in Ranked({m \in ToSet(nearest) : Passes(m)}, requested)
    BY <1>6, <1>8 DEF SemanticMatches, SearchHnsw
  <2>2. requested = IF Cardinality(M) = 0 THEN 1
                    ELSE IF SemanticLimit <= Cardinality(M) THEN SemanticLimit
                    ELSE Cardinality(M)
    BY <1>3, <1>5, FS_CardinalityType, RequestedIs
  <2>3. requested \in Nat /\ requested <= SemanticLimit
    <3>1. Cardinality(M) \in Nat
      BY <1>3, FS_CardinalityType
    <3> HIDE DEF requested
    <3> QED
      BY <1>5, <2>2, <3>1
  <2> HIDE DEF requested
  <2> DEFINE P == {m \in ToSet(nearest) : Passes(m)}
  <2>4. ToSet(nearest) \subseteq M
    BY <1>3, <2>1, <2>3, RankedIs
  <2>5. IsFiniteSet(P) /\ P \in SUBSET Hit
    BY <1>3, <2>4, FS_Subset
  <2>6. (\A x, y \in P : Key(x) = Key(y) => x = y) /\ \A x \in P : Shows(x)
    BY <1>4, <2>4
  <2>7. q \in Ranked(P, requested)
    BY <2>1
  <2> HIDE DEF P
  <2>8. WellFormed(q, requested)
    BY <2>3, <2>5, <2>6, <2>7, RankedIsWellFormed
  <2> QED
    BY <1>5, <2>3, <2>8, Wider
<1> QED
  BY <1>7, <1>8

\* Fusion lists each chunk once, and shows what a list showed.
LEMMA FusedIsWellFormed ==
  ASSUME NEW a, NEW b, NEW m \in Int, NEW k \in Int, WellFormed(a, m), WellFormed(b, k),
         NEW n \in Nat, NEW q \in Ranked(Fused(ToSet(a), ToSet(b)), n)
  PROVE  WellFormed(q, n)
<1> DEFINE L == ToSet(a)
           S == ToSet(b)
           F == Fused(L, S)
           kept == L \cup {s \in S : \A l \in L : Key(l) # Key(s)}
           of(h) == [h EXCEPT !.score = Fusion(L, S, Key(h))]
<1>1. IsFiniteSet(L) /\ IsFiniteSet(S) /\ L \subseteq Hit /\ S \subseteq Hit
  BY SeqFinite DEF WellFormed
<1>2. IsFiniteSet(F)
  BY <1>1, FusedAre
<1>3. F \in SUBSET Hit
  BY <1>1, FusedScores
<1>4. F = {of(h) : h \in kept}
  BY DEF Fused, Fusion
<1>5. /\ \A x, y \in L : Key(x) = Key(y) => x = y
      /\ \A x, y \in S : Key(x) = Key(y) => x = y
      /\ \A x \in L \cup S : Shows(x)
  <2>1. \A i, j \in 1..Len(a) : Key(a[i]) = Key(a[j]) => i = j
    BY WellFormedGives
  <2>2. \A i, j \in 1..Len(b) : Key(b[i]) = Key(b[j]) => i = j
    BY WellFormedGives
  <2>3. DOMAIN a = 1..Len(a) /\ DOMAIN b = 1..Len(b)
    BY DEF WellFormed
  <2> QED
    BY <2>1, <2>2, <2>3, WellFormedGives DEF ToSet
<1> HIDE DEF L, S
<1>6. kept \subseteq Hit /\ \A x, y \in kept : Key(x) = Key(y) => x = y
  BY <1>1, <1>5
<1>7. \A x \in kept : Shows(x)
  BY <1>5
<1>8. \A h \in kept : Key(of(h)) = Key(h) /\ (Shows(h) => Shows(of(h)))
  <2> HIDE DEF kept
  <2>1. ASSUME NEW h \in Hit, NEW x
        PROVE  /\ Key([h EXCEPT !.score = x]) = Key(h)
               /\ Shows(h) => Shows([h EXCEPT !.score = x])
    BY DEF Hit, Key, Shows
  <2> QED
    BY <1>6, <2>1
<1> HIDE DEF kept, of, F
<1>9. (\A x, y \in F : Key(x) = Key(y) => x = y) /\ \A x \in F : Shows(x)
  BY <1>4, <1>6, <1>7, <1>8
<1>10. q \in Ranked(F, n)
  BY DEF F, L, S
<1> QED
  BY <1>2, <1>3, <1>9, <1>10, RankedIsWellFormed

\* Hits of a look-up: the n-th scores 1 - n, and shows the first chunk of its text.
Listed(list, limit) ==
  /\ Len(list) <= limit
  /\ \A i \in 1..Len(list) : list[i].score = 1 - i /\ Shows(list[i])

\* What a search has found and not read yet follows, in order, on what it has read.
WellInv ==
  /\ FusionInv
  /\ stage = "lexical" => lexical = <<>> /\ semantic = <<>>
  /\ stage = "lexical_hits" =>
       semantic = <<>> /\ WellFormed(lexical \o todo, ClampLimit(call.limit))
  /\ stage = "semantic" =>
       semantic = <<>> /\ WellFormed(lexical, ClampLimit(call.limit))
  /\ stage = "semantic_hits" =>
       WellFormed(lexical, ClampLimit(call.limit)) /\ WellFormed(semantic \o todo, SemanticLimit)
  /\ stage = "locate" => Listed(hits, call.limit)
  /\ stage = "failed" => hits = <<>>
  /\ AnswerWellFormed

LEMMA AnswerFromWellFormed ==
  ASSUME NEW c, NEW limit \in Nat, NEW n \in Nat, n <= Max({1, limit}), WellFormed(c, n)
  PROVE  /\ \A i \in 1..(Len(c) - 1) : c[i].score >= c[i + 1].score
         /\ Len(c) <= Max({1, limit})
         /\ \A i, j \in 1..Len(c) : Key(c[i]) = Key(c[j]) => i = j
         /\ \A h \in ToSet(c) : h.chunk < Pieces(h.text)
<1>1. Len(c) \in Nat /\ Len(c) <= n
  BY WellFormedGives DEF WellFormed
<1>2. Max({1, limit}) \in Nat
  BY LimitBounds
<1>3. \A h \in ToSet(c) : Shows(h)
  BY WellFormedGives
<1> QED
  BY <1>1, <1>2, <1>3, WellFormedGives DEF Shows

LEMMA NoHitsAnswer ==
  ASSUME NEW limit \in Nat, hits = <<>>, call.limit \in Nat
  PROVE  AnswerWellFormed
<1>1. Max({1, call.limit}) \in Nat
  BY LimitBounds
<1> QED
  BY <1>1, EmptySet DEF AnswerWellFormed

\* The hits of a look-up are an answer.
LEMMA ListedAnswer ==
  ASSUME NEW c \in Seq(Hit), NEW limit \in Nat, Listed(c, limit)
  PROVE  /\ \A i \in 1..(Len(c) - 1) : c[i].score >= c[i + 1].score
         /\ Len(c) <= Max({1, limit})
         /\ \A h \in ToSet(c) : h.chunk < Pieces(h.text)
<1>1. Len(c) \in Nat /\ Len(c) <= limit /\ DOMAIN c = 1..Len(c)
  BY DEF Listed
<1>2. Max({1, limit}) = IF 1 >= limit THEN 1 ELSE limit
  BY MaxOfTwo
<1>3. \A i \in 1..(Len(c) - 1) : c[i].score = 1 - i /\ c[i + 1].score = 1 - (i + 1)
  <2> SUFFICES ASSUME NEW i \in 1..(Len(c) - 1)
               PROVE  c[i].score = 1 - i /\ c[i + 1].score = 1 - (i + 1)
    OBVIOUS
  <2>1. i \in 1..Len(c) /\ i + 1 \in 1..Len(c)
    BY <1>1
  <2> QED
    BY <2>1 DEF Listed
<1>4. \A h \in ToSet(c) : Shows(h)
  BY <1>1 DEF Listed, ToSet
<1> QED
  BY <1>1, <1>2, <1>3, <1>4 DEF Shows

\* A step that changes none of the lists.
LEMMA WellStays ==
  ASSUME WellInv, FusionInv',
         UNCHANGED <<stage, lexical, semantic, todo, hits, call>>
  PROVE  WellInv'
BY DEF WellInv, AnswerWellFormed, SemanticLimit, Found

LEMMA StartWell ==
  ASSUME FusionInv',
         \/ StartSearch
         \/ StartLocate
         \/ EndAtOnce("answered") \/ EndAtOnce("panicked")
  PROVE  WellInv'
<1>1. call'.limit \in Nat
  BY DEF FusionInv, SourceInv, Shape, IsCall
<1>2. CASE StartSearch
  <2>1. /\ stage' \in {"lexical", "semantic"}
        /\ lexical' = <<>> /\ semantic' = <<>>
    BY <1>2 DEF StartSearch, Clear
  <2>2. WellFormed(<<>>, ClampLimit(call'.limit))
    BY <1>1, LimitBounds, EmptyIsWellFormed
  <2> QED
    BY <2>1, <2>2 DEF WellInv, AnswerWellFormed, Found
<1>3. CASE StartLocate
  <2>1. stage' = "locate" /\ hits' = <<>>
    BY <1>3 DEF StartLocate
  <2>2. Listed(<<>>, call'.limit)
    BY <1>1 DEF Listed
  <2> QED
    BY <2>1, <2>2 DEF WellInv, AnswerWellFormed, Found
<1>4. CASE EndAtOnce("answered") \/ EndAtOnce("panicked")
  <2>1. stage' \in {"answered", "panicked"} /\ hits' = <<>>
    BY <1>4 DEF EndAtOnce
  <2>2. Max({1, call'.limit}) \in Nat
    BY <1>1, LimitBounds
  <2>3. AnswerWellFormed'
    BY <2>1, <2>2, EmptySet DEF AnswerWellFormed
  <2> QED
    BY <2>1, <2>3 DEF WellInv
<1> QED
  BY <1>2, <1>3, <1>4

LEMMA EmptyEnds ==
  ASSUME NEW S, NEW q \in Seq(S)
  PROVE  q \o <<>> = q /\ <<>> \o q = q
OBVIOUS

LEMMA LexicalWell ==
  ASSUME WellInv, FusionInv', SearchLexical \/ LexicalHit \/ EndLexical
  PROVE  WellInv'
<1> DEFINE n == ClampLimit(call.limit)
<1>1. call' = call /\ semantic' = semantic
  BY DEF SearchLexical, LexicalHit, EndLexical
<1>2. Shape /\ call.limit \in Nat
  BY DEF WellInv, FusionInv, SourceInv, Shape, IsCall
<1>3. n \in Nat /\ n <= Max({1, call.limit})
  BY <1>2, LimitBounds
<1>4. CASE SearchLexical
  <2>1. stage = "lexical" /\ lexical' = lexical
    BY <1>4 DEF SearchLexical
  <2>2. CASE stage' = "lexical_hits"
    <3>1. PICK score \in [LexicalMatches -> 1..MaxScore] :
            todo' \in Ranked(Matches(LexicalMatches, indexed, score), n)
      BY <1>4, <2>2 DEF SearchLexical, Fail
    <3>2. WellFormed(todo', n)
      BY <1>2, <3>1, LexicalIsWellFormed
    <3>3. lexical' \o todo' = todo'
      BY <2>1, <3>2, EmptyEnds DEF WellInv, WellFormed
    <3> QED
      BY <1>1, <2>1, <2>2, <3>2, <3>3 DEF WellInv, AnswerWellFormed, Found
  <2>3. CASE stage' # "lexical_hits"
    <3>1. stage' = "failed" /\ hits' = <<>>
      BY <1>4, <2>3 DEF SearchLexical, Fail
    <3> QED
      BY <3>1 DEF WellInv, AnswerWellFormed, Found
  <2> QED
    BY <2>2, <2>3
<1>5. CASE LexicalHit
  <2> DEFINE m == Head(todo)
  <2>1. /\ stage = "lexical_hits" /\ stage' = stage
        /\ todo # <<>> /\ todo' = Tail(todo)
    BY <1>5 DEF LexicalHit
  <2>2. lexical \in Seq(Hit) /\ todo \in Seq(Hit) /\ m \in Hit
    BY <1>2, <2>1, HeadTail DEF Shape
  <2>3. WellFormed(lexical \o todo, n) /\ semantic = <<>>
    BY <2>1 DEF WellInv
  <2>4. Shows(m)
    <3>1. /\ Len(todo) \in Nat /\ 1 \in 1..Len(todo) /\ m = todo[1]
          /\ Len(lexical) \in Nat
      BY <2>1, <2>2, TailIs
    <3>2. /\ (lexical \o todo)[Len(lexical) + 1] = m
          /\ Len(lexical \o todo) = Len(lexical) + Len(todo)
      BY <2>2, <3>1, ConcatIs
    <3>3. Len(lexical) + 1 \in 1..Len(lexical \o todo)
      BY <3>1, <3>2
    <3> HIDE DEF m
    <3> QED
      BY <2>3, <3>2, <3>3 DEF WellFormed
  <2>5. \E x \in Hit : /\ lexical' = Append(lexical, x)
                       /\ Key(x) = Key(m) /\ x.score = m.score /\ Shows(x)
    <3>1. CASE lexical' = Append(lexical, m)
      BY <2>2, <2>4, <3>1
    <3>2. CASE lexical' # Append(lexical, m)
      <4>1. PICK outcome :
              /\ HasChunk(outcome, m)
              /\ lexical' = Append(lexical, AsRead(m, outcome))
        BY <1>5, <3>2 DEF LexicalHit
      <4>2. AsRead(m, outcome) \in Hit
        BY <2>2, <4>1, AsReadIs DEF HasChunk
      <4>3. /\ Key(AsRead(m, outcome)) = Key(m) /\ AsRead(m, outcome).score = m.score
            /\ Shows(AsRead(m, outcome))
        BY <2>2, <4>1 DEF AsRead, HasChunk, Key, Hit, Shows
      <4> QED
        BY <4>1, <4>2, <4>3
    <3> QED
      BY <3>1, <3>2
  <2>6. PICK x \in Hit : /\ lexical' = Append(lexical, x)
                         /\ Key(x) = Key(m) /\ x.score = m.score /\ Shows(x)
    BY <2>5
  <2>7. WellFormed(Append(lexical, x) \o Tail(todo), n)
    BY <1>3, <2>1, <2>2, <2>3, <2>6, ReadOne
  <2> QED
    BY <1>1, <2>1, <2>3, <2>6, <2>7 DEF WellInv, AnswerWellFormed, Found
<1>6. CASE EndLexical
  <2>1. stage = "lexical_hits" /\ todo = <<>> /\ lexical' = lexical
    BY <1>6 DEF EndLexical
  <2>2. WellFormed(lexical, n) /\ semantic = <<>>
    BY <1>2, <2>1, EmptyEnds DEF WellInv, Shape
  <2>3. CASE call.mode = "lexical"
    <3>1. stage' = "returned" /\ hits' = lexical
      BY <1>6, <2>3 DEF EndLexical
    <3>2. AnswerWellFormed'
      BY <1>1, <1>2, <1>3, <2>2, <3>1, AnswerFromWellFormed DEF AnswerWellFormed
    <3> QED
      BY <3>1, <3>2 DEF WellInv
  <2>4. CASE call.mode # "lexical"
    <3>1. stage' = "semantic"
      BY <1>6, <2>4 DEF EndLexical
    <3> QED
      BY <1>1, <2>1, <2>2, <3>1 DEF WellInv, AnswerWellFormed, Found
  <2> QED
    BY <2>3, <2>4
<1> QED
  BY <1>4, <1>5, <1>6

LEMMA SemanticWell ==
  ASSUME WellInv, FusionInv', SearchSemantic \/ SemanticHit \/ EndSemantic
  PROVE  WellInv'
<1> DEFINE n == ClampLimit(call.limit)
<1>1. call' = call /\ lexical' = lexical /\ SemanticLimit' = SemanticLimit
  BY DEF SearchSemantic, SemanticHit, EndSemantic, SemanticLimit
<1>2. Shape /\ call.limit \in Nat
  BY DEF WellInv, FusionInv, SourceInv, Shape, IsCall
<1>3. n \in Nat /\ n <= Max({1, call.limit}) /\ SemanticLimit \in Nat
  BY <1>2, LimitBounds DEF SemanticLimit
<1>4. CASE SearchSemantic
  <2>1. stage = "semantic" /\ semantic' = semantic
    BY <1>4 DEF SearchSemantic
  <2>2. CASE stage' = "semantic_hits"
    <3>1. PICK score \in [ChunksOf(embedded) -> Scores] :
            todo' \in SemanticMatches(Matches(ChunksOf(embedded), embedded, score),
                                      SemanticLimit)
      BY <1>4, <2>2 DEF SearchSemantic, Fail
    <3>2. WellFormed(todo', SemanticLimit)
      BY <1>2, <3>1, SemanticIsWellFormed
    <3>3. semantic' \o todo' = todo'
      BY <2>1, <3>2, EmptyEnds DEF WellInv, WellFormed
    <3> QED
      BY <1>1, <2>1, <2>2, <3>2, <3>3 DEF WellInv, AnswerWellFormed, Found
  <2>3. CASE stage' # "semantic_hits"
    <3>1. stage' = "failed" /\ hits' = <<>>
      BY <1>4, <2>3 DEF SearchSemantic, Fail
    <3> QED
      BY <3>1 DEF WellInv, AnswerWellFormed, Found
  <2> QED
    BY <2>2, <2>3
<1>5. CASE SemanticHit
  <2> DEFINE m == Head(todo)
  <2>1. stage = "semantic_hits" /\ todo # <<>> /\ todo' = Tail(todo)
    BY <1>5 DEF SemanticHit
  <2>2. semantic \in Seq(Hit) /\ todo \in Seq(Hit) /\ m \in Hit
    BY <1>2, <2>1, HeadTail DEF Shape
  <2>3. WellFormed(lexical, n) /\ WellFormed(semantic \o todo, SemanticLimit)
    BY <2>1 DEF WellInv
  <2>4. CASE stage' = "failed"
    <3>1. hits' = <<>>
      BY <1>5, <2>1, <2>4 DEF SemanticHit, Fail
    <3> QED
      BY <2>4, <3>1 DEF WellInv, AnswerWellFormed, Found
  <2>5. CASE stage' # "failed"
    <3>1. stage' = "semantic_hits"
      BY <1>5, <2>1, <2>5 DEF SemanticHit, Fail
    <3>2. WellFormed(semantic' \o todo', SemanticLimit)
      <4>1. CASE semantic' = semantic
        BY <1>3, <2>1, <2>2, <2>3, <4>1, LeaveOut
      <4>2. CASE semantic' # semantic
        <5>1. PICK outcome :
                /\ HasChunk(outcome, m)
                /\ semantic' = Append(semantic, AsRead(m, outcome))
          BY <1>5, <4>2 DEF SemanticHit
        <5>2. AsRead(m, outcome) \in Hit
          BY <2>2, <5>1, AsReadIs DEF HasChunk
        <5>3. /\ Key(AsRead(m, outcome)) = Key(m) /\ AsRead(m, outcome).score = m.score
              /\ Shows(AsRead(m, outcome))
          BY <2>2, <5>1 DEF AsRead, HasChunk, Key, Hit, Shows
        <5>4. WellFormed(Append(semantic, AsRead(m, outcome)) \o Tail(todo), SemanticLimit)
          BY <1>3, <2>1, <2>2, <2>3, <5>2, <5>3, ReadOne
        <5> QED
          BY <2>1, <5>1, <5>4
      <4> QED
        BY <4>1, <4>2
    <3> QED
      BY <1>1, <2>3, <3>1, <3>2 DEF WellInv, AnswerWellFormed, Found
  <2> QED
    BY <2>4, <2>5
<1>6. CASE EndSemantic
  <2>1. stage = "semantic_hits" /\ todo = <<>> /\ stage' = "returned"
    BY <1>6 DEF EndSemantic
  <2>2. WellFormed(lexical, n) /\ WellFormed(semantic, SemanticLimit)
    BY <1>2, <2>1, EmptyEnds DEF WellInv, Shape
  <2>3. WellFormed(hits', n)
    <3>1. CASE call.mode = "hybrid"
      <4>1. hits' \in Ranked(Fused(ToSet(lexical), ToSet(semantic)), n)
        BY <1>6, <3>1 DEF EndSemantic
      <4> QED
        BY <1>3, <2>2, <4>1, FusedIsWellFormed
    <3>2. CASE call.mode # "hybrid"
      BY <1>6, <2>2, <3>2 DEF EndSemantic, SemanticLimit
    <3> QED
      BY <3>1, <3>2
  <2>4. AnswerWellFormed'
    BY <1>1, <1>2, <1>3, <2>3, AnswerFromWellFormed DEF AnswerWellFormed
  <2> QED
    BY <2>1, <2>4 DEF WellInv
<1> QED
  BY <1>4, <1>5, <1>6

LEMMA FirstOnes ==
  ASSUME NEW S, NEW q \in Seq(S), NEW n \in Nat
  PROVE  /\ Len(AtMost(n, q)) = (IF n <= Len(q) THEN n ELSE Len(q))
         /\ Len(AtMost(n, q)) \in Nat
         /\ \A i \in 1..Len(AtMost(n, q)) : AtMost(n, q)[i] = q[i]
<1> DEFINE k == Min({n, Len(q)})
<1>0. Len(q) \in Nat
  OBVIOUS
<1>1. k = (IF n <= Len(q) THEN n ELSE Len(q))
  BY <1>0, MinOfTwo
<1>2. AtMost(n, q) = SubSeq(q, 1, k)
  BY DEF AtMost
<1> HIDE DEF k
<1>3. k \in Nat /\ k <= Len(q) /\ k \in (1 - 1)..Len(q) /\ 1 \in 1..(Len(q) + 1)
  BY <1>0, <1>1
<1>4. Len(SubSeq(q, 1, k)) = k - 1 + 1 /\ \A i \in 1..(k - 1 + 1) : SubSeq(q, 1, k)[i] = q[1 + i - 1]
  BY <1>3, SubSeqIs
<1> QED
  BY <1>0, <1>1, <1>2, <1>3, <1>4

\* One file of a look-up adds to its list, up to the limit.
LEMMA LocateLists ==
  ASSUME Shape, LocateIn, Listed(hits, call.limit)
  PROVE  Listed(hits', call.limit)
<1> DEFINE d == Head(todo)
           found == IF file[d] \in Texts /\ LocateSelects(call.filter, SourceOf[d])
                    THEN Cardinality({i \in 1..Len(Occurrences[file[d]]) :
                                        Wanted(Occurrences[file[d]][i])})
                    ELSE 0
           new == [i \in 1..found |->
                     [doc |-> d, chunk |-> 0, score |-> 1 - Len(hits) - i,
                      text |-> file[d], read |-> TRUE]]
           all == hits \o new
<1>1. /\ stage = "locate" /\ todo # <<>>
      /\ hits' = AtMost(call.limit, all)
  BY DEF LocateIn
<1>2. todo \in Seq(Docs) /\ hits \in Seq(Hit) /\ call.limit \in Nat
  BY <1>1 DEF Shape, IsCall
<1>3. d \in Docs
  BY <1>1, <1>2, HeadTail
<1>4. found \in Nat
  <2>1. CASE file[d] \in Texts
    <3> DEFINE n == Len(Occurrences[file[d]])
               W == {i \in 1..n : Wanted(Occurrences[file[d]][i])}
    <3>1. n \in Nat
      BY <2>1, SearchAssumption
    <3>2. IsFiniteSet(1..n)
      BY <3>1, FS_Interval
    <3>3. IsFiniteSet(W)
      BY <3>2, FS_Subset
    <3>4. Cardinality(W) \in Nat
      BY <3>3, FS_CardinalityType
    <3> QED
      BY <3>4
  <2>2. CASE file[d] \notin Texts
    BY <2>2
  <2> QED
    BY <2>1, <2>2
<1>5. found > 0 => file[d] \in Texts
  OBVIOUS
<1> HIDE DEF found
<1>6. Len(hits) \in Nat
  BY <1>2
<1>7. /\ new \in [1..found -> Hit]
      /\ \A i \in 1..found : new[i].score = 1 - Len(hits) - i /\ Shows(new[i])
  <2>1. \A t \in Texts : 0 < Pieces(t)
    BY SearchAssumption
  <2> QED
    BY <1>3, <1>4, <1>5, <1>6, <2>1 DEF Hit, Shows
<1> HIDE DEF new
<1>8. new \in Seq(Hit) /\ Len(new) = found
  BY <1>4, <1>7, SeqIntro
<1>9. /\ all \in Seq(Hit) /\ Len(all) = Len(hits) + found
      /\ \A i \in 1..Len(hits) : all[i] = hits[i]
      /\ \A i \in 1..found : all[Len(hits) + i] = new[i]
  <2>1. /\ hits \o new \in Seq(Hit) /\ Len(hits \o new) = Len(hits) + Len(new)
        /\ \A i \in 1..Len(hits) : (hits \o new)[i] = hits[i]
        /\ \A i \in 1..Len(new) : (hits \o new)[Len(hits) + i] = new[i]
    <3>1. hits \in Seq(Hit) /\ new \in Seq(Hit)
      BY <1>2, <1>8
    <3>2. \A p, q \in Seq(Hit) :
            /\ p \o q \in Seq(Hit) /\ Len(p \o q) = Len(p) + Len(q)
            /\ \A i \in 1..Len(p) : (p \o q)[i] = p[i]
            /\ \A i \in 1..Len(q) : (p \o q)[Len(p) + i] = q[i]
      BY ConcatIs
    <3> QED
      BY <3>1, <3>2
  <2> QED
    BY <1>8, <2>1
<1> HIDE DEF all
<1>10. \A i \in 1..Len(all) : all[i].score = 1 - i /\ Shows(all[i])
  <2> SUFFICES ASSUME NEW i \in 1..Len(all) PROVE all[i].score = 1 - i /\ Shows(all[i])
    OBVIOUS
  <2>1. CASE i \in 1..Len(hits)
    BY <1>9, <2>1 DEF Listed
  <2>2. CASE i \notin 1..Len(hits)
    <3> DEFINE j == i - Len(hits)
    <3>1. j \in 1..found /\ Len(hits) + j = i /\ 1 - Len(hits) - j = 1 - i
      BY <1>4, <1>6, <1>9, <2>2
    <3> HIDE DEF j
    <3>2. all[Len(hits) + j] = new[j]
      BY <1>9, <3>1
    <3>3. new[j].score = 1 - Len(hits) - j /\ Shows(new[j])
      BY <1>7, <3>1
    <3> QED
      BY <3>1, <3>2, <3>3
  <2> QED
    BY <2>1, <2>2
<1>11. /\ Len(hits') = (IF call.limit <= Len(all) THEN call.limit ELSE Len(all))
       /\ Len(hits') \in Nat
       /\ \A i \in 1..Len(hits') : hits'[i] = all[i]
  BY <1>1, <1>2, <1>9, FirstOnes
<1>12. Len(hits') <= call.limit /\ Len(hits') <= Len(all) /\ Len(all) \in Nat
  BY <1>2, <1>4, <1>6, <1>9, <1>11
<1>13. 1..Len(hits') \subseteq 1..Len(all)
  BY <1>11, <1>12
<1> QED
  BY <1>10, <1>11, <1>12, <1>13 DEF Listed

LEMMA LocateWell ==
  ASSUME WellInv, FusionInv', LocateIn \/ EndLocate
  PROVE  WellInv'
<1>1. call' = call /\ stage = "locate" /\ call.op # "search"
  BY DEF LocateIn, EndLocate, WellInv, FusionInv
<1>2. Shape /\ call.limit \in Nat /\ hits \in Seq(Hit)
  BY <1>1 DEF WellInv, FusionInv, SourceInv, Shape, IsCall
<1>3. Listed(hits, call.limit)
  BY <1>1 DEF WellInv
<1>4. CASE LocateIn
  <2>1. stage' = "locate" /\ Listed(hits', call.limit)
    BY <1>2, <1>3, <1>4, LocateLists DEF LocateIn
  <2> QED
    BY <1>1, <2>1 DEF WellInv, AnswerWellFormed, Found
<1>5. CASE EndLocate
  <2>1. stage' = "returned" /\ hits' = hits
    BY <1>5 DEF EndLocate
  <2>2. AnswerWellFormed'
    BY <1>1, <1>2, <1>3, <2>1, ListedAnswer DEF AnswerWellFormed
  <2> QED
    BY <2>1, <2>2 DEF WellInv
<1> QED
  BY <1>4, <1>5

LEMMA NextWell ==
  ASSUME WellInv, [Next]_vars
  PROVE  WellInv'
<1>1. FusionInv'
  BY NextFusion DEF WellInv
<1>2. CASE (\E d \in Docs : Edit(d)) \/ Rebuild \/ UNCHANGED vars
  <2>1. UNCHANGED <<stage, lexical, semantic, todo, hits, call>>
    BY <1>2 DEF Edit, Rebuild, vars, progress
  <2> QED
    BY <1>1, <2>1, WellStays
<1>3. CASE \E q \in Questions : Ask(q)
  <2>1. \/ EndAtOnce("answered") \/ EndAtOnce("panicked")
        \/ StartSearch \/ StartLocate
    BY <1>3 DEF Ask, Search, LookUp
  <2> QED
    BY <1>1, <2>1, StartWell
<1>4. CASE TryNext
  <2>1. StartSearch \/ StartLocate
    BY <1>4 DEF TryNext
  <2> QED
    BY <1>1, <2>1, StartWell
<1>5. CASE Answer
  <2>1. stage' = "answered" /\ call' = call /\ hits' = hits
    BY <1>5 DEF Answer
  <2>2. AnswerWellFormed'
    <3>1. CASE stage = "returned"
      BY <2>1, <3>1 DEF WellInv, AnswerWellFormed, Found
    <3>2. CASE stage = "failed"
      <4>1. hits' = <<>> /\ Max({1, call'.limit}) \in Nat
        BY <1>1, <2>1, <3>2, LimitBounds
           DEF WellInv, FusionInv, SourceInv, Shape, IsCall
      <4> QED
        BY <4>1, EmptySet DEF AnswerWellFormed
    <3> QED
      BY <1>5, <3>1, <3>2 DEF Answer
  <2> QED
    BY <1>1, <2>1, <2>2 DEF WellInv
<1>6. CASE LocateIn \/ EndLocate
  BY <1>1, <1>6, LocateWell
<1>7. CASE SearchLexical \/ LexicalHit \/ EndLexical
  BY <1>1, <1>7, LexicalWell
<1>8. CASE SearchSemantic \/ SemanticHit \/ EndSemantic
  BY <1>1, <1>8, SemanticWell
<1> QED
  BY <1>2, <1>3, <1>4, <1>5, <1>6, <1>7, <1>8 DEF Next, Step

\* AnswerWellFormed: an answer is in order, within its limit, and shows chunks that
\* its texts have, each once, whatever was edited since the index was built.
THEOREM AnswersAreWellFormed == Spec => []AnswerWellFormed
<1>1. Init => WellInv
  <2>1. Init => FusionInv
    BY InitSource DEF FusionInv, BetterInBothIsFirst, Init
  <2> QED
    BY <2>1 DEF Init, WellInv, AnswerWellFormed, Found
<1>2. WellInv /\ [Next]_vars => WellInv'
  BY NextWell
<1>3. WellInv => AnswerWellFormed
  BY DEF WellInv
<1> QED
  BY <1>1, <1>2, <1>3, PTL DEF Spec

-----------------------------------------------------------------------------
(* What is found nowhere. *)

\* A literal call for an identifier, of which no file was edited meanwhile.
ForIdentifier ==
  /\ call.kind = "literal" /\ call.asked \in Identifiers
  /\ Shortcut[call.asked] = "" /\ call.limit > 0
Still == \A d \in Docs : seen[d] = {file[d]}

Has(d, symbol) ==
  /\ file[d] \in Texts /\ LocateSelects(call.filter, SourceOf[d])
  /\ \E o \in ToSet(Occurrences[file[d]]) : o.symbol = symbol

Absent(symbol)  == \A d \in Docs : ~Has(d, symbol)
Planned(symbol) == \E i \in 1..Len(plan) : plan[i].query = symbol
Hunted(symbol)  == symbol = call.query /\ \A d \in Docs : Has(d, symbol) => d \in ToSet(todo)

Searching == {"lexical", "lexical_hits", "semantic", "semantic_hits"}

Pursued(symbol) ==
  \/ stage \in Searching /\ Planned(symbol)
  \/ stage = "locate" /\ (Planned(symbol) \/ Absent(symbol) \/ Hunted(symbol))
  \/ stage = "returned" /\ (Planned(symbol) \/ Absent(symbol))
  \/ stage = "failed"
  \/ stage = "answered" /\ (failure # "none" \/ Absent(symbol))

\* A symbol that would do is still planned, or looked for where it is, or nowhere.
EmptyInv ==
  /\ SourceInv /\ VersionInv
  /\ stage = "failed" => failure # "none"
  /\ stage \in Searching => hits = <<>>
  /\ ForIdentifier => /\ plan \in Seq([op : {"locate"}, query : Queries])
                      /\ call.want = "any"
  /\ ForIdentifier /\ Still =>
       hits # <<>> \/ \A symbol \in ToSet(CaseVariants[call.asked]) : Pursued(symbol)

LEMMA InvGivesEmpty == EmptyInv => EmptyIsExhausted
<1> SUFFICES ASSUME EmptyInv,
                    stage = "answered" /\ failure = "none" /\ hits = <<>>,
                    ForIdentifier, Still,
                    NEW d \in Docs,
                    file[d] \in Texts /\ LocateSelects(call.filter, SourceOf[d]),
                    NEW o \in ToSet(Occurrences[file[d]]),
                    o.symbol \in ToSet(CaseVariants[call.asked])
             PROVE  FALSE
  BY DEF EmptyIsExhausted, ForIdentifier, Still
<1>1. Pursued(o.symbol)
  BY DEF EmptyInv
<1>2. Absent(o.symbol)
  BY <1>1 DEF Pursued, Searching
<1> QED
  BY <1>2 DEF Absent, Has

\* An edit is seen until the next call.
LEMMA EditIsSeen ==
  ASSUME EmptyInv, \E d \in Docs : Edit(d)
  PROVE  ~Still'
<1>1. PICK d \in Docs : \E content \in Contents \ {file[d]} :
        /\ file' = [file EXCEPT ![d] = content]
        /\ seen' = [seen EXCEPT ![d] = @ \cup {content}]
  BY DEF Edit
<1>2. PICK content \in Contents \ {file[d]} :
        /\ file' = [file EXCEPT ![d] = content]
        /\ seen' = [seen EXCEPT ![d] = @ \cup {content}]
  BY <1>1
<1>3. file \in [Docs -> Contents] /\ seen \in [Docs -> SUBSET Contents] /\ file[d] \in seen[d]
  BY DEF EmptyInv, SourceInv, Shape, VersionInv
<1>4. file'[d] = content /\ file[d] \in seen'[d]
  BY <1>2, <1>3
<1> QED
  BY <1>2, <1>4 DEF Still

LEMMA TriesAre ==
  ASSUME NEW op, NEW queries \in Seq(Queries)
  PROVE  /\ Tries(op, queries) \in Seq([op : {op}, query : Queries])
         /\ Len(Tries(op, queries)) = Len(queries)
         /\ \A i \in 1..Len(queries) : Tries(op, queries)[i].query = queries[i]
<1>1. Len(queries) \in Nat /\ \A i \in 1..Len(queries) : queries[i] \in Queries
  OBVIOUS
<1>2. Tries(op, queries) \in [1..Len(queries) -> [op : {op}, query : Queries]]
  BY <1>1 DEF Tries
<1>3. Tries(op, queries) \in Seq([op : {op}, query : Queries]) /\ Len(Tries(op, queries)) = Len(queries)
  BY <1>1, <1>2, SeqIntro
<1> QED
  BY <1>1, <1>3 DEF Tries

\* A call that searches plans all the names of an identifier.
LEMMA SearchPlans ==
  ASSUME SourceInv', VersionInv', NEW q \in Questions, NEW r \in Requests, Search(Asked(q, r))
  PROVE  EmptyInv'
<1>1. /\ call'.asked = q /\ call'.kind = r.kind /\ call'.want = "any"
      /\ plan' = Fallbacks(q, call'.kind)
      /\ StartSearch
  BY DEF Search, Asked
<1>2. stage' \in Searching /\ stage' # "failed" /\ hits' = <<>>
  BY <1>1 DEF StartSearch, Searching
<1>3. CASE ForIdentifier'
  <2>1. plan' = Tries("locate", CaseVariants[q])
    BY <1>1, <1>3 DEF Fallbacks, ForIdentifier
  <2>2. CaseVariants[q] \in Seq(Queries)
    BY SearchToolAssumption
  <2>3. /\ plan' \in Seq([op : {"locate"}, query : Queries])
        /\ Len(plan') = Len(CaseVariants[q])
        /\ \A i \in 1..Len(CaseVariants[q]) : plan'[i].query = CaseVariants[q][i]
    BY <2>1, <2>2, TriesAre
  <2>4. \A symbol \in ToSet(CaseVariants[q]) :
          \E i \in 1..Len(CaseVariants[q]) : CaseVariants[q][i] = symbol
    BY <2>2 DEF ToSet
  <2>5. \A symbol \in ToSet(CaseVariants[q]) : Planned(symbol)'
    BY <2>3, <2>4 DEF Planned
  <2>6. \A symbol \in ToSet(CaseVariants[call'.asked]) : Pursued(symbol)'
    BY <1>1, <1>2, <2>5 DEF Pursued
  <2> QED
    BY <1>1, <1>2, <2>3, <2>6 DEF EmptyInv
<1>4. CASE ~ForIdentifier'
  BY <1>2, <1>4 DEF EmptyInv
<1> QED
  BY <1>3, <1>4

\* A step of a call, after which its symbols are pursued.
LEMMA PursuitKeeps ==
  ASSUME EmptyInv, SourceInv', VersionInv',
         stage' = "failed" => failure' # "none",
         stage' \in Searching => hits' = <<>>,
         UNCHANGED <<file, seen, plan, call>>,
         \A symbol : ForIdentifier /\ hits' = <<>> /\ (hits = <<>> => Pursued(symbol))
                       => Pursued(symbol)'
  PROVE  EmptyInv'
<1>1. ForIdentifier' = ForIdentifier /\ Still' = Still
  BY DEF ForIdentifier, Still
<1> QED
  BY <1>1 DEF EmptyInv

LEMMA CorpusEmpty ==
  ASSUME EmptyInv, SourceInv', VersionInv',
         (\E d \in Docs : Edit(d) /\ UNCHANGED plan) \/ (Rebuild /\ UNCHANGED plan)
           \/ UNCHANGED vars
  PROVE  EmptyInv'
<1>1. CASE \E d \in Docs : Edit(d) /\ UNCHANGED plan
  <2>1. ~Still'
    BY <1>1, EditIsSeen
  <2>2. UNCHANGED <<stage, failure, plan, call, hits>>
    BY <1>1 DEF Edit, progress
  <2> QED
    BY <2>1, <2>2 DEF EmptyInv, ForIdentifier
<1>2. CASE (Rebuild /\ UNCHANGED plan) \/ UNCHANGED vars
  <2>1. UNCHANGED <<file, seen, plan, call, stage, todo, hits, failure>>
    BY <1>2 DEF Rebuild, vars, corpus, progress
  <2>2. \A symbol : Pursued(symbol)' = Pursued(symbol)
    BY <2>1 DEF Pursued, Planned, Absent, Has, Hunted
  <2> QED
    BY <2>1, <2>2, PursuitKeeps DEF EmptyInv
<1> QED
  BY <1>1, <1>2

LEMMA AskEmpty ==
  ASSUME EmptyInv, SourceInv', VersionInv', NEW q \in Questions, Ask(q)
  PROVE  EmptyInv'
<1>1. PICK r \in Requests :
        \/ EndAtOnce("answered") \/ EndAtOnce("panicked")
        \/ Search(Asked(q, r)) \/ LookUp(Asked(q, r))
  BY DEF Ask
<1>2. CASE EndAtOnce("answered") \/ EndAtOnce("panicked")
  <2>1. call' = NoCall /\ stage' \in {"answered", "panicked"}
    BY <1>2 DEF EndAtOnce
  <2>2. call'.limit = 0
    BY <2>1 DEF NoCall
  <2>3. ~ForIdentifier'
    BY <2>2 DEF ForIdentifier
  <2> QED
    BY <2>1, <2>3 DEF EmptyInv, Searching
<1>3. CASE Search(Asked(q, r))
  BY <1>3, SearchPlans
<1>4. CASE LookUp(Asked(q, r))
  <2> DEFINE a == Asked(q, r)
  <2>1. PICK symbol :
          call' = [a EXCEPT !.query = symbol, !.op = "locate",
                     !.want = IF Shortcut[a.query] = "def" THEN "definition"
                              ELSE "reference"]
    BY <1>4 DEF LookUp
  <2>2. Shortcut[q] # "" /\ stage' = "locate"
    BY <1>4 DEF LookUp, StartLocate, Asked
  <2>3. call'.asked = q
    BY <2>1 DEF Asked
  <2> QED
    BY <2>2, <2>3 DEF EmptyInv, ForIdentifier, Searching
<1> QED
  BY <1>1, <1>2, <1>3, <1>4

\* The next name of the plan is looked for in all files.
LEMMA TryNextEmpty ==
  ASSUME EmptyInv, SourceInv', VersionInv', TryNext
  PROVE  EmptyInv'
<1>1. /\ stage = "returned" /\ hits = <<>> /\ plan # <<>> /\ plan' = Tail(plan)
      /\ call' = [call EXCEPT !.query = Head(plan).query, !.op = Head(plan).op]
      /\ file' = file /\ seen' = seen
  BY DEF TryNext, corpus
<1>2. /\ call'.query = Head(plan).query /\ call'.asked = call.asked
      /\ call'.kind = call.kind /\ call'.limit = call.limit /\ call'.want = call.want
      /\ call'.filter = call.filter
  BY <1>1 DEF EmptyInv, SourceInv, Shape, IsCall
<1>3. stage' # "failed" /\ hits' = <<>>
  BY DEF TryNext, StartSearch, StartLocate
<1>4. ForIdentifier' = ForIdentifier /\ Still' = Still
  BY <1>1, <1>2 DEF ForIdentifier, Still
<1>5. CASE ForIdentifier
  <2>1. /\ Head(plan) \in [op : {"locate"}, query : Queries]
        /\ Tail(plan) \in Seq([op : {"locate"}, query : Queries])
        /\ Len(plan) \in Nat /\ Head(plan) = plan[1]
        /\ \A i \in 1..(Len(plan) - 1) : Tail(plan)[i] = plan[i + 1]
        /\ Len(Tail(plan)) = Len(plan) - 1
    <3>1. plan \in Seq([op : {"locate"}, query : Queries])
      BY <1>5 DEF EmptyInv
    <3> DEFINE T == [op : {"locate"}, query : Queries]
    <3> HIDE DEF T
    <3>2. plan \in Seq(T)
      BY <3>1 DEF T
    <3>3. /\ Head(plan) \in T /\ Tail(plan) \in Seq(T) /\ Len(plan) \in Nat
          /\ Head(plan) = plan[1]
          /\ \A i \in 1..(Len(plan) - 1) : Tail(plan)[i] = plan[i + 1]
          /\ Len(Tail(plan)) = Len(plan) - 1
      BY <1>1, <3>2, TailIs, HeadTail
    <3> QED
      BY <3>3 DEF T
  <2>2. stage' = "locate" /\ todo' = Walk
    <3>1. Head(plan).op = "locate"
      BY <2>1
    <3>2. call.limit \in Nat
      BY DEF EmptyInv, SourceInv, Shape, IsCall
    <3>3. call'.limit # 0
      <4>1. call.limit > 0
        BY <1>5 DEF ForIdentifier
      <4>2. call.limit # 0
        BY <3>2, <4>1
      <4> QED
        BY <1>2, <4>2, Zenon
    <3>4. StartLocate
      BY <3>1 DEF TryNext
    <3> QED
      BY <3>3, <3>4 DEF StartLocate
  <2>3. ASSUME NEW symbol, Pursued(symbol) PROVE Pursued(symbol)'
    <3>1. CASE Absent(symbol)
      <4>1. Absent(symbol)'
        BY <1>1, <1>2, <3>1 DEF Absent, Has
      <4> QED
        BY <2>2, <4>1 DEF Pursued
    <3>2. CASE Planned(symbol)
      <4>1. PICK i \in 1..Len(plan) : plan[i].query = symbol
        BY <3>2 DEF Planned
      <4>2. CASE i = 1
        <5>1. Hunted(symbol)'
          BY <1>2, <2>1, <2>2, <4>1, <4>2 DEF Hunted, Docs
        <5> QED
          BY <2>2, <5>1 DEF Pursued
      <4>3. CASE i # 1
        <5>1. i - 1 \in 1..Len(Tail(plan)) /\ Tail(plan)[i - 1] = plan[i]
          <6>1. i - 1 \in 1..(Len(plan) - 1) /\ (i - 1) + 1 = i
            BY <2>1, <4>3
          <6> QED
            BY <2>1, <6>1
        <5>2. Planned(symbol)'
          BY <1>1, <4>1, <5>1 DEF Planned
        <5> QED
          BY <2>2, <5>2 DEF Pursued
      <4> QED
        BY <4>2, <4>3
    <3> QED
      BY <1>1, <2>3, <3>1, <3>2 DEF Pursued, Searching
  <2> QED
    BY <1>1, <1>2, <1>3, <1>4, <2>1, <2>3 DEF EmptyInv
<1>6. CASE ~ForIdentifier
  BY <1>3, <1>4, <1>6 DEF EmptyInv
<1> QED
  BY <1>5, <1>6

LEMMA AnswerEmpty ==
  ASSUME EmptyInv, SourceInv', VersionInv', Answer
  PROVE  EmptyInv'
<1>1. /\ stage' = "answered" /\ plan' = <<>>
      /\ UNCHANGED <<file, seen, call, hits, failure>>
      /\ \/ stage = "returned" /\ (hits # <<>> \/ plan = <<>>)
         \/ stage = "failed"
  BY DEF Answer, corpus
<1>2. ForIdentifier' = ForIdentifier /\ Still' = Still
  BY <1>1 DEF ForIdentifier, Still
<1>3. ASSUME NEW symbol, Pursued(symbol), hits = <<>> PROVE Pursued(symbol)'
  <2>1. CASE stage = "failed"
    BY <1>1, <2>1 DEF EmptyInv, Pursued
  <2>2. CASE stage = "returned"
    <3>1. ~Planned(symbol)
      BY <1>1, <1>3, <2>2 DEF Planned
    <3>2. Absent(symbol)
      BY <1>3, <2>2, <3>1 DEF Pursued, Searching
    <3>3. Absent(symbol)'
      BY <1>1, <3>2 DEF Absent, Has
    <3> QED
      BY <1>1, <3>3 DEF Pursued
  <2> QED
    BY <1>1, <2>1, <2>2
<1> QED
  BY <1>1, <1>2, <1>3, EmptySet DEF EmptyInv, Searching

\* What a search does leaves its plan alone.
LEMMA SearchingEmpty ==
  ASSUME EmptyInv, SourceInv', VersionInv', UNCHANGED plan,
         SearchLexical \/ LexicalHit \/ EndLexical
           \/ SearchSemantic \/ SemanticHit \/ EndSemantic
  PROVE  EmptyInv'
<1>1. UNCHANGED <<file, seen, call, plan>> /\ stage \in Searching
  BY DEF SearchLexical, LexicalHit, EndLexical, SearchSemantic, SemanticHit, EndSemantic,
         corpus, Searching
<1>2. /\ stage' \in Searching \cup {"returned", "failed"}
      /\ stage' = "failed" => failure' # "none"
      /\ stage' \in Searching => hits' = hits
  BY DEF SearchLexical, LexicalHit, EndLexical, SearchSemantic, SemanticHit, EndSemantic,
         Searching, Fail
<1>3. ASSUME NEW symbol, ForIdentifier, hits' = <<>>, hits = <<>> => Pursued(symbol)
      PROVE  Pursued(symbol)'
  <2>1. Planned(symbol)
    BY <1>1, <1>3 DEF Pursued, Searching, EmptyInv
  <2> QED
    BY <1>1, <1>2, <1>3, <2>1 DEF Pursued, Planned
<1> QED
  BY <1>1, <1>2, <1>3, PursuitKeeps DEF EmptyInv

\* A file of the walk that adds no hit has not the symbol.
LEMMA LocateMisses ==
  ASSUME Shape, LocateIn, hits' = <<>>, call.limit > 0, call.want = "any"
  PROVE  /\ hits = <<>> /\ todo \in Seq(Docs) /\ todo # <<>> /\ todo' = Tail(todo)
         /\ ~Has(Head(todo), call.query)
<1> DEFINE d == Head(todo)
           n == Len(Occurrences[file[d]])
           W == {i \in 1..n : Wanted(Occurrences[file[d]][i])}
           found == IF file[d] \in Texts /\ LocateSelects(call.filter, SourceOf[d])
                    THEN Cardinality(W) ELSE 0
           new == [i \in 1..found |->
                     [doc |-> d, chunk |-> 0, score |-> 1 - Len(hits) - i,
                      text |-> file[d], read |-> TRUE]]
           all == hits \o new
<1>1. /\ stage = "locate" /\ todo # <<>>
      /\ hits' = AtMost(call.limit, all)
      /\ todo' = IF Len(all) >= call.limit THEN <<>> ELSE Tail(todo)
  BY DEF LocateIn
<1>2. todo \in Seq(Docs) /\ hits \in Seq(Hit) /\ call.limit \in Nat
  BY <1>1 DEF Shape, IsCall
<1>3. d \in Docs
  BY <1>1, <1>2, HeadTail
<1>4. file[d] \in Texts => IsFiniteSet(W) /\ n \in Nat
  <2> SUFFICES ASSUME file[d] \in Texts PROVE IsFiniteSet(W) /\ n \in Nat
    OBVIOUS
  <2>1. n \in Nat
    BY SearchAssumption
  <2>2. IsFiniteSet(1..n)
    BY <2>1, FS_Interval
  <2> QED
    BY <2>1, <2>2, FS_Subset
<1>5. found \in Nat
  <2>1. file[d] \in Texts => Cardinality(W) \in Nat
    BY <1>4, FS_CardinalityType
  <2> QED
    BY <2>1
<1>6. found > 0 => file[d] \in Texts
  OBVIOUS
<1>7. found = 0 /\ file[d] \in Texts /\ LocateSelects(call.filter, SourceOf[d]) => W = {}
  BY <1>4, FS_EmptySet
<1> HIDE DEF found
<1>8. new \in [1..found -> Hit]
  <2>1. Len(hits) \in Int
    BY <1>2
  <2> QED
    BY <1>3, <1>5, <1>6, <2>1 DEF Hit
<1> HIDE DEF new
<1>9. new \in Seq(Hit) /\ Len(new) = found
  BY <1>5, <1>8, SeqIntro
<1>10. all \in Seq(Hit) /\ Len(all) = Len(hits) + found /\ Len(hits) \in Nat
  <2>1. hits \in Seq(Hit) /\ new \in Seq(Hit)
    BY <1>2, <1>9
  <2>2. \A p, q \in Seq(Hit) : p \o q \in Seq(Hit) /\ Len(p \o q) = Len(p) + Len(q)
    BY ConcatIs
  <2> QED
    BY <1>9, <2>1, <2>2
<1> HIDE DEF all
<1>11. Len(hits') = (IF call.limit <= Len(all) THEN call.limit ELSE Len(all))
  BY <1>1, <1>2, <1>10, FirstOnes
<1>12. Len(hits') = 0
  OBVIOUS
<1>13. Len(all) = 0
  BY <1>2, <1>5, <1>10, <1>11, <1>12
<1>14. Len(hits) = 0 /\ found = 0
  <2>1. ASSUME NEW x \in Nat, NEW y \in Nat, x + y = 0 PROVE x = 0 /\ y = 0
    BY <2>1
  <2>2. Len(hits) + found = 0
    BY <1>10, <1>13
  <2> QED
    BY <1>5, <1>10, <2>1, <2>2
<1>15. hits = <<>>
  BY <1>2, <1>14
<1>16. todo' = Tail(todo)
  BY <1>1, <1>2, <1>13
<1>17. ~Has(d, call.query)
  <2> SUFFICES ASSUME file[d] \in Texts, LocateSelects(call.filter, SourceOf[d]),
                      NEW o \in ToSet(Occurrences[file[d]]), o.symbol = call.query
               PROVE  FALSE
    BY DEF Has
  <2>1. PICK i \in DOMAIN Occurrences[file[d]] : Occurrences[file[d]][i] = o
    BY DEF ToSet
  <2>2. Wanted(o)
    BY DEF Wanted
  <2>3. DOMAIN Occurrences[file[d]] = 1..n
    BY SearchAssumption
  <2> QED
    BY <1>7, <1>14, <2>1, <2>2, <2>3
<1> QED
  BY <1>1, <1>2, <1>15, <1>16, <1>17

LEMMA LocateEmpty ==
  ASSUME EmptyInv, SourceInv', VersionInv', UNCHANGED plan, LocateIn \/ EndLocate
  PROVE  EmptyInv'
<1>1. /\ UNCHANGED <<file, seen, call, plan>> /\ stage = "locate"
      /\ stage' \notin Searching \cup {"failed"}
  BY DEF LocateIn, EndLocate, corpus, Searching
<1>2. \A d, symbol : Has(d, symbol)' <=> Has(d, symbol)
  BY <1>1 DEF Has
<1>3. CASE LocateIn
  <2>1. ASSUME NEW symbol, ForIdentifier, hits' = <<>>, hits = <<>> => Pursued(symbol)
        PROVE  Pursued(symbol)'
    <3>1. /\ hits = <<>> /\ todo \in Seq(Docs) /\ todo # <<>> /\ todo' = Tail(todo)
          /\ ~Has(Head(todo), call.query)
      BY <1>3, <2>1, LocateMisses DEF EmptyInv, SourceInv, ForIdentifier
    <3>2. stage' = "locate"
      BY <1>3 DEF LocateIn
    <3>3. ASSUME Hunted(symbol) PROVE Hunted(symbol)'
      <4>1. \A d \in ToSet(todo) : d = Head(todo) \/ d \in ToSet(Tail(todo))
        <5>1. \A i \in 1..Len(todo) : i = 1 \/ (i - 1) \in 1..(Len(todo) - 1)
          BY <3>1
        <5>2. /\ Head(todo) = todo[1] /\ DOMAIN todo = 1..Len(todo)
              /\ DOMAIN Tail(todo) = 1..(Len(todo) - 1)
              /\ \A i \in 1..(Len(todo) - 1) : Tail(todo)[i] = todo[i + 1]
          BY <3>1, TailIs
        <5>3. \A i \in 1..Len(todo) : (i - 1) + 1 = i
          BY <3>1
        <5> SUFFICES ASSUME NEW i \in 1..Len(todo), i # 1
                     PROVE  todo[i] \in ToSet(Tail(todo))
          BY <5>2 DEF ToSet
        <5>4. i - 1 \in DOMAIN Tail(todo) /\ Tail(todo)[i - 1] = todo[i]
          BY <5>1, <5>2, <5>3
        <5> QED
          BY <5>4 DEF ToSet
      <4> QED
        BY <1>1, <1>2, <3>1, <3>3, <4>1 DEF Hunted
    <3> QED
      BY <1>1, <1>2, <2>1, <3>1, <3>2, <3>3 DEF Pursued, Searching, Planned, Absent
  <2> QED
    BY <1>1, <2>1, PursuitKeeps
<1>4. CASE EndLocate
  <2>1. stage' = "returned" /\ hits' = hits /\ todo = <<>>
    BY <1>4 DEF EndLocate
  <2>2. \A symbol : Hunted(symbol) => Absent(symbol)
    BY <2>1, EmptySet DEF Hunted, Absent
  <2>3. ASSUME NEW symbol, Pursued(symbol) PROVE Pursued(symbol)'
    BY <1>1, <1>2, <2>1, <2>2, <2>3 DEF Pursued, Searching, Planned, Absent
  <2> QED
    BY <1>1, <2>1, <2>3, PursuitKeeps
<1> QED
  BY <1>3, <1>4

LEMMA NextEmpty ==
  ASSUME EmptyInv, [Next]_vars
  PROVE  EmptyInv'
<1>1. SourceInv' /\ VersionInv'
  BY NextSource, NextVersion DEF EmptyInv
<1>2. CASE (\E d \in Docs : Edit(d) /\ UNCHANGED plan) \/ (Rebuild /\ UNCHANGED plan)
             \/ UNCHANGED vars
  BY <1>1, <1>2, CorpusEmpty
<1>3. CASE \E q \in Questions : Ask(q)
  BY <1>1, <1>3, AskEmpty
<1>4. CASE TryNext
  BY <1>1, <1>4, TryNextEmpty
<1>5. CASE Answer
  BY <1>1, <1>5, AnswerEmpty
<1>6. CASE (LocateIn \/ EndLocate) /\ UNCHANGED plan
  BY <1>1, <1>6, LocateEmpty
<1>7. CASE /\ \/ SearchLexical \/ LexicalHit \/ EndLexical
              \/ SearchSemantic \/ SemanticHit \/ EndSemantic
           /\ UNCHANGED plan
  BY <1>1, <1>7, SearchingEmpty
<1> QED
  BY <1>2, <1>3, <1>4, <1>5, <1>6, <1>7 DEF Next, Step

\* EmptyIsExhausted: an identifier of which nothing is answered is in no file, in
\* none of its cases, unless a file was edited meanwhile, though the index and the
\* embeddings may be as old as they like.
THEOREM EmptyAnswersAreTrue == Spec => []EmptyIsExhausted
<1>1. Init => EmptyInv
  <2>1. Init => SourceInv /\ VersionInv
    BY InitSource, InitVersion
  <2>2. Init => ~ForIdentifier /\ stage = "idle"
    <3>1. Init => stage = "idle" /\ call.limit = 0
      <4>1. Init => stage = "idle" /\ call = NoCall
        BY DEF Init
      <4>2. NoCall.limit = 0
        BY DEF NoCall
      <4> QED
        BY <4>1, <4>2, Zenon
    <3>2. call.limit = 0 => ~ForIdentifier
      BY DEF ForIdentifier
    <3> QED
      BY <3>1, <3>2
  <2> QED
    BY <2>1, <2>2 DEF EmptyInv, Searching
<1>2. EmptyInv /\ [Next]_vars => EmptyInv'
  BY NextEmpty
<1>3. EmptyInv => EmptyIsExhausted
  BY InvGivesEmpty
<1> QED
  BY <1>1, <1>2, <1>3, PTL DEF Spec

-----------------------------------------------------------------------------
(* Types. *)

Try == [op : Ops, query : Queries]

LEMMA OneOrNone ==
  ASSUME NEW S, NEW x \in S, NEW b \in BOOLEAN
  PROVE  (IF b THEN <<>> ELSE <<x>>) \in Seq(S)
OBVIOUS

\* Of a sequence some elements are left out.
LEMMA DistinctIs ==
  ASSUME NEW S, NEW s \in Seq(S)
  PROVE  Distinct(s) \in Seq(S)
<1> DEFINE n == Len(s)
           again(i) == \E j \in 1..(i - 1) : s[j] = s[i]
           ss == [i \in 1..n |-> IF again(i) THEN <<>> ELSE <<s[i]>>]
<1>1. n \in Nat /\ \A i \in 1..n : s[i] \in S
  OBVIOUS
<1>2. \A i \in 1..n : ss[i] \in Seq(S)
  <2> SUFFICES ASSUME NEW i \in 1..n PROVE (IF again(i) THEN <<>> ELSE <<s[i]>>) \in Seq(S)
    OBVIOUS
  <2> HIDE DEF again
  <2> QED
    BY <1>1
<1>3. ss \in [1..n -> Seq(S)]
  BY <1>2
<1>4. Distinct(s) = FlattenSeq(ss)
  BY DEF Distinct
<1> HIDE DEF ss
<1>5. ss \in Seq(Seq(S))
  BY <1>1, <1>3, SeqIntro
<1> QED
  BY <1>4, <1>5, FlattenIs

LEMMA WithoutIs ==
  ASSUME NEW S, NEW s \in Seq(S), NEW e
  PROVE  Without(s, e) \in Seq(S)
<1> DEFINE n == Len(s)
           ss == [i \in 1..n |-> IF s[i] = e THEN <<>> ELSE <<s[i]>>]
<1>1. n \in Nat /\ \A i \in 1..n : s[i] \in S
  OBVIOUS
<1>2. ss \in [1..n -> Seq(S)]
  BY <1>1
<1>3. Without(s, e) = FlattenSeq(ss)
  BY DEF Without
<1> HIDE DEF ss
<1>4. ss \in Seq(Seq(S))
  BY <1>1, <1>2, SeqIntro
<1> QED
  BY <1>3, <1>4, FlattenIs

LEMMA CasesAre ==
  ASSUME NEW queries \in Seq(Queries)
  PROVE  InEachCase(queries) \in Seq(Queries)
<1> DEFINE ss == [i \in 1..Len(queries) |-> CaseVariants[queries[i]]]
<1>1. Len(queries) \in Nat /\ \A i \in 1..Len(queries) : queries[i] \in Queries
  OBVIOUS
<1>2. ss \in [1..Len(queries) -> Seq(Queries)]
  BY <1>1, SearchToolAssumption
<1>3. ss \in Seq(Seq(Queries))
  BY <1>1, <1>2, SeqIntro
<1>4. InEachCase(queries) = Distinct(FlattenSeq(ss))
  BY DEF InEachCase
<1> HIDE DEF ss
<1>5. FlattenSeq(ss) \in Seq(Queries)
  BY <1>3, FlattenIs
<1> QED
  BY <1>4, <1>5, DistinctIs

LEMMA TriesHaveType ==
  ASSUME NEW op \in Ops, NEW queries \in Seq(Queries)
  PROVE  Tries(op, queries) \in Seq(Try)
<1>1. Tries(op, queries) \in Seq([op : {op}, query : Queries])
  BY TriesAre
<1>2. [op : {op}, query : Queries] \subseteq Try
  BY DEF Try
<1> QED
  BY <1>1, <1>2, SeqWider

LEMMA FallbacksAre ==
  ASSUME NEW q \in Queries, NEW kind
  PROVE  Fallbacks(q, kind) \in Seq(Try)
<1>1. /\ Variants[q] \in Seq(Queries) /\ CaseVariants[q] \in Seq(Queries)
      /\ Tokens[q] \in Seq(Queries)
  BY SearchToolAssumption
<1>2. "search" \in Ops /\ "locate" \in Ops
  BY DEF Ops
<1>3. CASE kind = "literal" /\ q \in Identifiers
  BY <1>1, <1>2, <1>3, TriesHaveType DEF Fallbacks
<1>4. CASE kind = "literal" /\ q \notin Identifiers /\ q \in MultiToken
  <2> DEFINE a == Tries("search", Without(Variants[q], LowerQuery[q]))
             b == Tries("locate", InEachCase(Variants[q]))
             c == Tries("locate", InEachCase(Tokens[q]))
  <2>1. a \in Seq(Try)
    BY <1>1, <1>2, WithoutIs, TriesHaveType
  <2>2. b \in Seq(Try) /\ c \in Seq(Try)
    BY <1>1, <1>2, CasesAre, TriesHaveType
  <2>3. Fallbacks(q, kind) = a \o b \o c
    BY <1>4 DEF Fallbacks
  <2> HIDE DEF a, b, c
  <2>4. a \o b \in Seq(Try)
    BY <2>1, <2>2, ConcatIs
  <2> QED
    BY <2>2, <2>3, <2>4, ConcatIs
<1>5. CASE /\ ~(kind = "literal" /\ q \in Identifiers)
           /\ ~(kind = "literal" /\ q \notin Identifiers /\ q \in MultiToken)
  BY <1>5, EmptySet DEF Fallbacks
<1> QED
  BY <1>3, <1>4, <1>5

\* What a client asks for becomes a call with names of sources.
LEMMA AskedIs ==
  ASSUME NEW q \in Questions, NEW r \in Requests, Accepted(r)
  PROVE  Asked(q, r) \in Call /\ Asked(q, r).query = q
<1>1. /\ q \in Queries /\ r.mode \in Modes \cup {"auto"} /\ r.kind \in {"literal", "tantivy"}
      /\ r.context \in BOOLEAN /\ r.limit \in Nat
  BY SearchToolAssumption
<1>2. EffectiveMode(r.mode) \in Modes
  BY <1>1 DEF EffectiveMode, Modes
<1>3. ResolveSourceFilter(r.sources, r.source, Sources) \subseteq Sources \cup {Local}
  <2> DEFINE of(n) == IF IsLocal(n) THEN Local
                      ELSE CHOOSE s \in Sources : Lower[s] = Lower[n]
  <2>1. ASSUME NEW n \in RequestedNames(r.sources, r.source)
        PROVE  of(n) \in Sources \cup {Local}
    <3>1. Known(n, Sources)
      BY DEF Accepted, UnknownSources
    <3> QED
      BY <3>1 DEF Known
  <2>2. ResolveSourceFilter(r.sources, r.source, Sources)
          = {of(n) : n \in RequestedNames(r.sources, r.source)}
    BY DEF ResolveSourceFilter
  <2> HIDE DEF of
  <2> QED
    BY <2>1, <2>2
<1>4. "search" \in Ops
  BY DEF Ops
<1> QED
  BY <1>1, <1>2, <1>3, <1>4 DEF Asked, Call

Done == {"idle", "answered", "panicked"}

CallType ==
  /\ call \in Call \cup {NoCall}
  /\ stage \notin Done => call \in Call
  /\ stage \in Stages /\ failure \in Failures
  /\ backend \in Backends
  /\ plan \in Seq(Try)

LEMMA CallRenamed ==
  ASSUME NEW c \in Call, NEW q \in Queries, NEW o \in Ops,
         NEW w \in {"any", "definition", "reference"}
  PROVE  [c EXCEPT !.query = q, !.op = o] \in Call /\ [c EXCEPT !.query = q, !.op = o, !.want = w] \in Call
BY DEF Call

LEMMA StartHasType ==
  ASSUME StartSearch \/ StartLocate
  PROVE  stage' \in Stages \ Done /\ failure' = "none"
BY DEF StartSearch, StartLocate, Stages, Done

LEMMA NextCallType ==
  ASSUME CallType, [Next]_vars
  PROVE  CallType'
<1>1. backend' = backend
  BY DEF Next, vars, corpus, Edit, Rebuild, Ask, Step, TryNext, Answer, SearchLexical, LexicalHit,
         EndLexical, SearchSemantic, SemanticHit, EndSemantic, LocateIn, EndLocate
<1>2. "none" \in Failures /\ Try = [op : Ops, query : Queries]
  BY DEF Failures, Try
<1>3. CASE \E q \in Questions : Ask(q)
  <2>1. PICK q \in Questions : Ask(q)
    BY <1>3
  <2>2. PICK r \in Requests :
          \/ EndAtOnce("answered") \/ EndAtOnce("panicked")
          \/ Accepted(r) /\ (Search(Asked(q, r)) \/ LookUp(Asked(q, r)))
    BY <2>1 DEF Ask
  <2>3. CASE EndAtOnce("answered") \/ EndAtOnce("panicked")
    <3>1. /\ call' = NoCall /\ plan' = <<>> /\ failure' = "none"
          /\ stage' \in {"answered", "panicked"}
      BY <2>3 DEF EndAtOnce
    <3> QED
      BY <1>1, <1>2, <3>1, EmptySet DEF CallType, Done, Stages
  <2>4. CASE Accepted(r) /\ Search(Asked(q, r))
    <3>1. Asked(q, r) \in Call /\ Asked(q, r).query = q /\ q \in Queries
      BY <2>4, AskedIs, SearchToolAssumption
    <3>2. call' = Asked(q, r) /\ StartSearch /\ plan' \in Seq(Try)
      BY <2>4, <3>1, FallbacksAre DEF Search
    <3> QED
      BY <1>1, <1>2, <3>1, <3>2, StartHasType DEF CallType
  <2>5. CASE Accepted(r) /\ LookUp(Asked(q, r))
    <3> DEFINE a == Asked(q, r)
    <3>1. a \in Call /\ a.query = q /\ q \in Queries
      BY <2>5, AskedIs, SearchToolAssumption
    <3>2. PICK symbol \in Subject[q] :
            call' = [a EXCEPT !.query = symbol, !.op = "locate",
                       !.want = IF Shortcut[a.query] = "def" THEN "definition"
                                ELSE "reference"]
      BY <2>5, <3>1 DEF LookUp
    <3>3. symbol \in Queries /\ "locate" \in Ops
      BY <3>1, SearchToolAssumption DEF Ops
    <3> HIDE DEF a
    <3>4. call' \in Call
      BY <3>1, <3>2, <3>3, CallRenamed
    <3>5. plan' = <<>> /\ StartLocate
      BY <2>5 DEF LookUp
    <3> QED
      BY <1>1, <1>2, <3>4, <3>5, StartHasType, EmptySet DEF CallType
  <2> QED
    BY <2>2, <2>3, <2>4, <2>5
<1>4. CASE TryNext
  <2>1. Head(plan) \in Try /\ Tail(plan) \in Seq(Try)
    <3>1. plan # <<>> /\ plan \in Seq(Try)
      BY <1>4 DEF TryNext, CallType
    <3> QED
      BY <3>1, HeadTail
  <2>2. call \in Call
    BY <1>4 DEF TryNext, CallType, Done
  <2>3. call' = [call EXCEPT !.query = Head(plan).query, !.op = Head(plan).op]
    BY <1>4 DEF TryNext
  <2>4. Head(plan).query \in Queries /\ Head(plan).op \in Ops
    BY <2>1 DEF Try
  <2>5. call' \in Call
    BY <2>2, <2>3, <2>4, CallRenamed
  <2>6. plan' = Tail(plan) /\ (StartSearch \/ StartLocate)
    BY <1>4 DEF TryNext
  <2> QED
    BY <1>1, <1>2, <2>1, <2>5, <2>6, StartHasType DEF CallType
<1>5. CASE Answer
  <2>1. stage' = "answered" /\ plan' = <<>> /\ UNCHANGED <<call, failure>>
    BY <1>5 DEF Answer
  <2> QED
    BY <1>1, <2>1, EmptySet DEF CallType, Stages, Done
<1>6. CASE (\E d \in Docs : Edit(d) /\ UNCHANGED plan) \/ (Rebuild /\ UNCHANGED plan)
             \/ UNCHANGED vars
  <2>1. UNCHANGED <<call, stage, failure, plan>>
    BY <1>6 DEF Edit, Rebuild, vars, progress
  <2> QED
    BY <1>1, <2>1 DEF CallType
<1>7. CASE Step /\ UNCHANGED plan
  <2>1. UNCHANGED <<call, plan>> /\ stage \notin Done
    BY <1>7 DEF Step, SearchLexical, LexicalHit, EndLexical, SearchSemantic, SemanticHit,
                EndSemantic, LocateIn, EndLocate, Done
  <2>2. stage' \in Stages /\ failure' \in Failures
    BY <1>7 DEF Step, SearchLexical, LexicalHit, EndLexical, SearchSemantic, SemanticHit,
                EndSemantic, LocateIn, EndLocate, Fail, Stages, Failures, CallType
  <2> QED
    BY <1>1, <2>1, <2>2 DEF CallType
<1> QED
  BY <1>3, <1>4, <1>5, <1>6, <1>7 DEF Next

ListType ==
  /\ hits \in Seq(Hit)
  /\ stage # "locate" => todo \in Seq(Hit)

LEMMA NextListType ==
  ASSUME SourceInv, ListType, [Next]_vars
  PROVE  ListType'
<1>1. /\ SourceInv' /\ lexical \in Seq(Hit) /\ semantic \in Seq(Hit)
  BY NextSource DEF SourceInv, Shape
<1>2. CASE (\E d \in Docs : Edit(d)) \/ Rebuild \/ UNCHANGED vars
  <2>1. UNCHANGED <<stage, todo, hits>>
    BY <1>2 DEF Edit, Rebuild, vars, progress
  <2> QED
    BY <2>1 DEF ListType
<1>3. CASE (\E q \in Questions : Ask(q)) \/ TryNext
  <2>1. \/ EndAtOnce("answered") \/ EndAtOnce("panicked")
        \/ StartSearch \/ StartLocate
    BY <1>3 DEF Ask, Search, LookUp, TryNext
  <2>2. hits' = <<>> /\ (stage' = "locate" \/ todo' = <<>>)
    BY <2>1 DEF EndAtOnce, StartSearch, StartLocate, Clear
  <2> QED
    BY <2>2, EmptySet DEF ListType
<1>4. CASE Answer
  <2>1. hits' = hits /\ todo' = <<>>
    BY <1>4 DEF Answer, Clear
  <2> QED
    BY <2>1, EmptySet DEF ListType
<1>5. CASE LocateIn
  <2>1. hits' \in Seq(Hit) /\ stage' = "locate"
    BY <1>1, <1>5, LocateFinds DEF LocateIn, SourceInv
  <2> QED
    BY <2>1 DEF ListType
<1>6. CASE EndLocate
  <2>1. hits' = hits /\ todo' = <<>>
    BY <1>6 DEF EndLocate
  <2> QED
    BY <2>1, EmptySet DEF ListType
<1>7. CASE SearchLexical \/ SearchSemantic
  <2>1. /\ stage' \in {"lexical_hits", "semantic_hits", "failed"} /\ stage # "locate"
        /\ hits' = hits \/ hits' = <<>>
        /\ stage' = "failed" => todo' = todo
    BY <1>7 DEF SearchLexical, SearchSemantic, Fail
  <2>2. stage' # "failed" => todo' \in Seq(Hit)
    BY <1>1, <2>1 DEF SourceInv, Shape
  <2> QED
    BY <2>1, <2>2, EmptySet DEF ListType
<1>8. CASE LexicalHit \/ SemanticHit
  <2>1. /\ stage \in {"lexical_hits", "semantic_hits"} /\ todo # <<>> /\ todo' = Tail(todo)
        /\ hits' = hits \/ hits' = <<>>
    BY <1>8 DEF LexicalHit, SemanticHit, Fail
  <2>2. todo' \in Seq(Hit)
    BY <2>1, HeadTail DEF ListType
  <2> QED
    BY <2>1, <2>2, EmptySet DEF ListType
<1>9. CASE EndLexical
  <2>1. todo' = <<>> /\ (hits' = hits \/ hits' = lexical)
    BY <1>9 DEF EndLexical
  <2> QED
    BY <1>1, <2>1, EmptySet DEF ListType
<1>10. CASE EndSemantic
  <2>1. todo' = <<>>
    BY <1>10 DEF EndSemantic
  <2>2. hits' \in Seq(Hit)
    <3> DEFINE L == ToSet(lexical)
               S == ToSet(semantic)
               n == ClampLimit(call.limit)
    <3>1. IsFiniteSet(L) /\ IsFiniteSet(S) /\ L \subseteq Hit /\ S \subseteq Hit
      BY <1>1, SeqFinite
    <3>2. hits' = semantic \/ hits' \in Ranked(Fused(L, S), n)
      BY <1>10 DEF EndSemantic
    <3>3. n \in Int
      BY LimitsAre DEF SourceInv, Shape, IsCall
    <3> HIDE DEF L, S, n
    <3>4. IsFiniteSet(Fused(L, S)) /\ Fused(L, S) \subseteq Hit
      BY <3>1, FusedAre, FusedScores
    <3>5. hits' \in Ranked(Fused(L, S), n) => hits' \in Seq(Fused(L, S))
      BY <3>3, <3>4, RankedIs
    <3> QED
      BY <1>1, <3>2, <3>4, <3>5, SeqWider
  <2> QED
    BY <2>1, <2>2, EmptySet DEF ListType
<1> QED
  BY <1>2, <1>3, <1>4, <1>5, <1>6, <1>7, <1>8, <1>9, <1>10 DEF Next, Step

\* The cache holds documents, and evicts what it holds.
CacheType ==
  /\ IsCache(cache)
  /\ DOMAIN cache.entries \subseteq Docs
  /\ evicted \subseteq Docs

LEMMA ReadHasType ==
  ASSUME CacheType, NEW d \in Docs, NEW outcome, Read(d, outcome)
  PROVE  CacheType'
<1>1. IsCache(cache) /\ DOMAIN cache.entries \subseteq Docs /\ evicted \subseteq Docs
  BY DEF CacheType
<1>2. IsCache(cache')
  BY <1>1, ReadKeeps
<1>3. Evicts(cache) \subseteq DOMAIN cache.entries
  <2>1. cache.order \in Seq(DOMAIN cache.entries)
    BY <1>1 DEF IsCache
  <2> DEFINE K == DOMAIN cache.entries
  <2> HIDE DEF K
  <2>2. cache.order \in Seq(K)
    BY <2>1 DEF K
  <2>3. cache.order # <<>> => Head(cache.order) \in K
    BY <2>2, HeadTail
  <2> QED
    BY <2>3 DEF Evicts, Full, K
<1>4. DOMAIN cache'.entries \subseteq Docs /\ evicted' \subseteq Docs
  <2>1. CASE Cached(cache, d)
    <3>1. cache' = Touch(cache, d) /\ evicted' = evicted
      BY <2>1 DEF Read
    <3>2. cache'.entries = cache.entries
      BY <1>1, <2>1, <3>1, TouchKeeps DEF Cached
    <3> QED
      BY <1>1, <3>1, <3>2
  <2>2. CASE ~Cached(cache, d)
    <3>1. CASE outcome \in Texts
      <4>1. cache' = Insert(cache, d, outcome) /\ evicted' = evicted \cup Evicts(cache)
        BY <2>2, <3>1 DEF Read
      <4>2. DOMAIN cache'.entries = (DOMAIN cache.entries \ Evicts(cache)) \cup {d}
        BY <1>1, <2>2, <4>1, InsertKeeps DEF Cached
      <4> QED
        BY <1>1, <1>3, <4>1, <4>2
    <3>2. CASE outcome \notin Texts
      BY <1>1, <2>2, <3>2 DEF Read
    <3> QED
      BY <3>1, <3>2
  <2> QED
    BY <2>1, <2>2
<1> QED
  BY <1>2, <1>4 DEF CacheType, IsCache, Agrees

LEMMA NextCacheType ==
  ASSUME SourceInv, CacheType, [Next]_vars
  PROVE  CacheType'
<1>1. CASE UNCHANGED <<cache, evicted>>
  BY <1>1 DEF CacheType, IsCache, Agrees
<1>2. CASE cache' = NewCache(CacheCapacity) /\ evicted' = {}
  <2>1. IsCache(NewCache(CacheCapacity)) /\ DOMAIN NewCache(CacheCapacity).entries = {}
    BY NewCacheAgrees, SearchAssumption
  <2>2. IsCache(cache') /\ DOMAIN cache'.entries = {}
    BY <1>2, <2>1
  <2> QED
    BY <1>2, <2>2 DEF CacheType, IsCache, Agrees
<1>3. CASE LexicalHit \/ SemanticHit
  <2>1. todo # <<>> /\ todo \in Seq(Hit)
    BY <1>3 DEF LexicalHit, SemanticHit, SourceInv, Shape
  <2>2. Head(todo).doc \in Docs
    <3>1. Head(todo) \in Hit
      BY <2>1, HeadTail
    <3> QED
      BY <3>1 DEF Hit
  <2>3. UNCHANGED <<cache, evicted>> \/ \E outcome : Read(Head(todo).doc, outcome)
    BY <1>3 DEF LexicalHit, SemanticHit
  <2> QED
    BY <1>1, <2>2, <2>3, ReadHasType
<1>4. CASE (\E d \in Docs : Edit(d)) \/ Rebuild \/ UNCHANGED vars
  BY <1>1, <1>4 DEF Edit, Rebuild, progress, vars
<1>5. CASE (\E q \in Questions : Ask(q)) \/ TryNext \/ Answer
  BY <1>2, <1>5 DEF Ask, EndAtOnce, Search, LookUp, TryNext, Answer, StartSearch,
                    StartLocate, Clear
<1>6. CASE SearchLexical \/ EndLexical \/ SearchSemantic \/ EndSemantic
             \/ LocateIn \/ EndLocate
  BY <1>1, <1>6 DEF SearchLexical, EndLexical, SearchSemantic, EndSemantic, LocateIn,
                    EndLocate
<1> QED
  BY <1>3, <1>4, <1>5, <1>6 DEF Next, Step

TypeInv == SourceInv /\ VersionInv /\ CallType /\ ListType /\ CacheType

LEMMA TypeInvGives == TypeInv => TypeOK
<1> SUFFICES ASSUME TypeInv PROVE TypeOK
  OBVIOUS
<1>1. /\ file \in [Docs -> Contents] /\ indexed \in Snapshot /\ embedded \in Snapshot
      /\ lexical \in Seq(Hit) /\ semantic \in Seq(Hit)
      /\ seen \in [Docs -> SUBSET Contents]
  BY DEF TypeInv, SourceInv, Shape, VersionInv
<1>2. hits \in Seq(Hit) /\ (stage # "locate" => todo \in Seq(Hit))
  BY DEF TypeInv, ListType
<1>3. stage = "locate" => todo \in Seq(Docs)
  BY DEF TypeInv, SourceInv, Shape
<1>4. \A list \in {lexical, semantic, hits} : ToSet(list) \subseteq Hit
  BY <1>1, <1>2, SeqFinite
<1>5. ToSet(todo) \subseteq IF stage = "locate" THEN Docs ELSE Hit
  BY <1>2, <1>3, SeqFinite
<1>6. /\ call \in Call \cup {NoCall} /\ stage \in Stages /\ failure \in Failures
      /\ backend \in Backends /\ plan \in Seq(Try)
  BY DEF TypeInv, CallType
<1>7. \A i \in 1..Len(plan) : plan[i] \in [op : Ops, query : Queries]
  <2>1. plan \in Seq(Try)
    BY <1>6
  <2>2. \A i \in 1..Len(plan) : plan[i] \in Try
    BY <2>1
  <2> QED
    BY <2>2 DEF Try
<1>8. DOMAIN cache.entries \subseteq Docs /\ evicted \subseteq Docs
  BY DEF TypeInv, CacheType
<1>9. ToSet(cache.order) \subseteq Docs
  <2>1. cache.order \in Seq(DOMAIN cache.entries)
    BY DEF TypeInv, CacheType, IsCache
  <2> QED
    BY <1>8, <2>1, SeqFinite
<1> QED
  BY <1>1, <1>4, <1>5, <1>6, <1>7, <1>8, <1>9 DEF TypeOK, Snapshot

\* TypeOK: the variables of a search keep their types: in particular every
\* fallback is a query, every hit is of a document and a text, and the cache holds
\* nothing but documents.
THEOREM SearchHasType == Spec => []TypeOK
<1>1. Init => TypeInv
  <2> SUFFICES ASSUME Init PROVE TypeInv
    OBVIOUS
  <2>1. SourceInv /\ VersionInv
    BY InitSource, InitVersion
  <2>2. /\ hits = <<>> /\ todo = <<>> /\ plan = <<>> /\ call = NoCall /\ stage = "idle"
        /\ failure = "none" /\ backend \in Backends /\ evicted = {}
        /\ cache = NewCache(CacheCapacity)
    BY DEF Init
  <2>3. IsCache(cache) /\ DOMAIN cache.entries = {}
    BY <2>2, NewCacheAgrees, SearchAssumption
  <2>4. CallType /\ ListType /\ CacheType
    BY <2>2, <2>3, EmptySet DEF CallType, ListType, CacheType, Stages, Done, Failures
  <2> QED
    BY <2>1, <2>4 DEF TypeInv
<1>2. TypeInv /\ [Next]_vars => TypeInv'
  BY NextSource, NextVersion, NextCallType, NextListType, NextCacheType DEF TypeInv
<1>3. TypeInv => TypeOK
  BY TypeInvGives
<1> QED
  BY <1>1, <1>2, <1>3, PTL DEF Spec
=============================================================================
