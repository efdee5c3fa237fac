--------------------------- MODULE RequestsProofs ---------------------------
(***************************************************************************)
(* Theorems about the tools that answer about files, for every file system *)
(* with its links, every change of it, every way to write a path, every    *)
(* set of mounts, every text and every position in it.                     *)
(***************************************************************************)
EXTENDS Requests, OrderLemmas, FiniteSetTheorems, SequenceTheorems, TLAPS

-----------------------------------------------------------------------------
(* The file system. *)

Name == STRING
Path == Seq(Name)
Real(t) == t.dirs \cup DOMAIN t.files

LEMMA FrontAndLast ==
  ASSUME NEW p \in Path, p # <<>>
  PROVE  /\ Front(p) \in Path /\ Last(p) \in Name
         /\ Len(p) \in Nat /\ Len(p) > 0 /\ Len(Front(p)) = Len(p) - 1
         /\ Append(Front(p), Last(p)) = p
         /\ Last(p) = p[Len(p)]
<1> DEFINE k == Len(p) - 1
<1>1. p \in Seq(Name) /\ Len(p) \in Nat
  BY DEF Path
<1>2. /\ Len(p) > 0 /\ Len(p) \in 1..Len(p) /\ 1 \in 1..Len(p)
      /\ k \in Nat /\ \A i \in 1..k : i \in 1..Len(p)
  BY <1>1
<1>3. Len(p) = k + 1
  BY <1>1
<1> HIDE DEF k
<1>4. SubSeq(p, 1, k) \in Seq(Name) /\ Len(SubSeq(p, 1, k)) = k
  <2>1. k \in Int /\ 1 \in Int /\ \A i \in 1..k : p[i] \in Name
    BY <1>1, <1>2, ElementOfSeq
  <2>2. /\ SubSeq(p, 1, k) \in Seq(Name)
        /\ Len(SubSeq(p, 1, k)) = IF 1 <= k THEN k - 1 + 1 ELSE 0
    BY <2>1, SubSeqProperties
  <2>3. (IF 1 <= k THEN k - 1 + 1 ELSE 0) = k
    BY <1>2
  <2> QED
    BY <2>2, <2>3
<1>5. Append(SubSeq(p, 1, k), p[Len(p)]) = p
  <2>1. SubSeq(p, 1, Len(p)) = SubSeq(p, 1, Len(p) - 1) \o <<p[Len(p)]>>
    BY <1>1, <1>2, SubSeqRecursiveSecond
  <2>2. p[Len(p)] \in Name
    BY <1>1, <1>2, ElementOfSeq
  <2> QED
    BY <1>1, <1>4, <2>1, <2>2, SubSeqFull, AppendIsConcat DEF k
<1>6. Front(p) = SubSeq(p, 1, k) /\ Last(p) = p[Len(p)]
  BY DEF Front, Last, k
<1>7. p[Len(p)] \in Name
  BY <1>1, <1>2, ElementOfSeq
<1> QED
  BY <1>1, <1>2, <1>4, <1>5, <1>6, <1>7 DEF k, Path

LEMMA TreeGives ==
  ASSUME NEW t, IsTree(t)
  PROVE  /\ Root \in t.dirs /\ Root \in Real(t) /\ t.dirs \subseteq Real(t)
         /\ \A p \in Real(t) : p # Root => Front(p) \in t.dirs
         /\ DOMAIN t.files \cap t.dirs = {}
         /\ DOMAIN t.links \cap Real(t) = {}
BY Zenon DEF IsTree, Real

LEMMA PartsAreNames ==
  ASSUME NEW t, IsTree(t)
  PROVE  \A p \in Real(t) : /\ p \in Path /\ Len(p) \in Nat /\ DOMAIN p = 1..Len(p)
                            /\ \A i \in DOMAIN p : p[i] \notin {"", ".", ".."}
<1>1. \A p \in Real(t) : p \in Path /\ \A i \in DOMAIN p : p[i] \notin {"", ".", ".."}
  BY Zenon DEF IsTree, Real, Path, Name
<1>2. \A p \in Path : Len(p) \in Nat /\ DOMAIN p = 1..Len(p)
  BY DEF Path
<1> QED
  BY <1>1, <1>2

LEMMA MissingIsNotReal ==
  ASSUME NEW t, IsTree(t)
  PROVE  Missing \notin Real(t)
<1>1. 1 \in DOMAIN Missing /\ Missing[1] = ""
  BY DEF Missing
<1> QED
  BY <1>1, PartsAreNames

LEMMA EnterIs ==
  ASSUME NEW t, IsTree(t), NEW v, NEW e
  PROVE  Enter(t, v, e) \in Real(t) \cup {Missing}
<1> QED
  BY TreeGives, Zenon DEF Enter, Exists, Real

\* f is what the parts of p lead to, one after the other.
Leads(f, t, p) ==
  /\ f[0] = Root
  /\ \A i \in 1..Len(p) : f[i] = Enter(t, f[i - 1], p[i])

LEMMA CanonicalLeads ==
  ASSUME NEW t, IsTree(t), NEW p \in Path
  PROVE  \E f : Leads(f, t, p) /\ Canonical(t, p) = f[Len(p)]
<1> DEFINE n == Len(p)
           V == Real(t) \cup {Missing}
           step == [x \in (1..n) \X V |-> Enter(t, x[2], p[x[1]])]
           Is(g) == g = [i \in 0..n |-> IF i = 0 THEN Root ELSE Enter(t, g[i - 1], p[i])]
<1>1. n \in Nat /\ Root \in V
  <2>1. n \in Nat
    BY DEF Path
  <2> QED
    BY <2>1, TreeGives
<1>2. \A v, e : Enter(t, v, e) \in V
  BY EnterIs
<1>3. Canonical(t, p) = (CHOOSE g : Is(g))[n]
  BY DEF Canonical
<1> HIDE DEF n, V
<1>4. step \in [(1..n) \X V -> V]
  BY <1>2
<1>5. \A i \in 1..n, v \in V : step[<<i, v>>] = Enter(t, v, p[i])
  <2>1. \A i \in 1..n, v \in V : <<i, v>> \in (1..n) \X V
    OBVIOUS
  <2>2. \A x \in (1..n) \X V : step[x] = Enter(t, x[2], p[x[1]])
    OBVIOUS
  <2>3. \A i, v : <<i, v>>[1] = i /\ <<i, v>>[2] = v
    OBVIOUS
  <2> HIDE DEF step
  <2> QED
    BY <2>1, <2>2, <2>3
<1> HIDE DEF step
<1>6. PICK f : /\ f \in [0..n -> V] /\ f[0] = Root
               /\ \A i \in 1..n : f[i] = step[<<i, f[i - 1]>>]
  <2>1. \E f : Iterates(f, n, V, Root, step)
    BY <1>1, <1>4, Iteration
  <2> QED
    BY <2>1 DEF Iterates
<1>7. \A i \in 1..n : f[i] = Enter(t, f[i - 1], p[i])
  <2>1. \A i \in 1..n : i - 1 \in 0..n /\ f[i - 1] \in V
    BY <1>1, <1>6
  <2> QED
    BY <1>5, <1>6, <2>1
<1>8. Is(f)
  <2>1. \A i \in 0..n : i = 0 \/ i \in 1..n
    BY <1>1
  <2> QED
    BY <1>6, <1>7, <2>1
<1> DEFINE g == CHOOSE g : Is(g)
<1>9. Is(g)
  <2>1. \E h : Is(h)
    BY <1>8
  <2> HIDE DEF Is
  <2> QED
    BY <2>1
<1> HIDE DEF g
<1>10. \A i \in 0..n : g[i] = IF i = 0 THEN Root ELSE Enter(t, g[i - 1], p[i])
  <2> DEFINE h == [i \in 0..n |-> IF i = 0 THEN Root ELSE Enter(t, g[i - 1], p[i])]
  <2>1. \A i \in 0..n : h[i] = IF i = 0 THEN Root ELSE Enter(t, g[i - 1], p[i])
    OBVIOUS
  <2>2. g = h
    BY <1>9
  <2> HIDE DEF h
  <2> QED
    BY <2>1, <2>2
<1>11. Leads(g, t, p)
  <2>1. 0 \in 0..n /\ \A i \in 1..n : i \in 0..n /\ i # 0
    BY <1>1
  <2> QED
    BY <1>10, <2>1 DEF Leads, n
<1> QED
  BY <1>3, <1>11 DEF g, n

LEMMA LeadsTheSame ==
  ASSUME NEW t, NEW p \in Path, NEW q \in Path, NEW f, NEW g,
         Leads(f, t, p), Leads(g, t, q), Len(q) <= Len(p),
         \A i \in 1..Len(q) : q[i] = p[i]
  PROVE  f[Len(q)] = g[Len(q)]
<1> DEFINE n == Len(q)
           B == {i \in 0..n : f[i] # g[i]}
<1>1. n \in Nat /\ Len(p) \in Nat
  BY DEF Path
<1>2. ASSUME B # {} PROVE FALSE
  <2>1. PICK i \in B : \A j \in B : i <= j
    <3>1. B \subseteq Nat
      BY <1>1
    <3> HIDE DEF B
    <3> QED
      BY <1>2, <3>1, LeastNumber
  <2>2. i # 0
    BY DEF Leads
  <2>3. i \in 1..n /\ i - 1 \in 0..n /\ i \in 1..Len(p) /\ ~(i <= i - 1)
    BY <1>1, <2>1, <2>2
  <2>4. f[i - 1] = g[i - 1]
    BY <2>1, <2>3
  <2>5. f[i] = Enter(t, f[i - 1], p[i]) /\ g[i] = Enter(t, g[i - 1], q[i])
    BY <2>3 DEF Leads
  <2> QED
    BY <2>1, <2>3, <2>4, <2>5
<1>3. n \in 0..n
  BY <1>1
<1> QED
  BY <1>2, <1>3

LEMMA CanonicalOfRoot == \A t : IsTree(t) => Canonical(t, Root) = Root
<1> SUFFICES ASSUME NEW t, IsTree(t) PROVE Canonical(t, Root) = Root
  OBVIOUS
<1>1. Root \in Path /\ Len(Root) = 0
  BY DEF Root, Path
<1> QED
  BY <1>1, CanonicalLeads DEF Leads

\* One part more is one step more.
LEMMA CanonicalStep ==
  ASSUME NEW t, IsTree(t), NEW p \in Path, NEW e \in Name
  PROVE  Canonical(t, Append(p, e)) = Enter(t, Canonical(t, p), e)
<1> DEFINE q == Append(p, e)
<1>1. /\ q \in Path /\ Len(p) \in Nat /\ Len(q) = Len(p) + 1 /\ q[Len(q)] = e
      /\ \A i \in 1..Len(p) : q[i] = p[i]
  <2>1. p \in Seq(Name)
    BY DEF Path
  <2>2. Len(p) \in Nat
    BY <2>1
  <2> QED
    BY <2>1, <2>2, AppendProperties DEF Path, q
<1> HIDE DEF q
<1>2. PICK f : Leads(f, t, p) /\ Canonical(t, p) = f[Len(p)]
  BY CanonicalLeads
<1>3. PICK g : Leads(g, t, q) /\ Canonical(t, q) = g[Len(q)]
  BY <1>1, CanonicalLeads
<1>4. g[Len(p)] = f[Len(p)]
  BY <1>1, <1>2, <1>3, LeadsTheSame
<1>5. Len(q) \in 1..Len(q) /\ Len(q) - 1 = Len(p)
  BY <1>1
<1>6. g[Len(q)] = Enter(t, g[Len(q) - 1], q[Len(q)])
  BY <1>3, <1>5 DEF Leads
<1> QED
  BY <1>1, <1>2, <1>3, <1>4, <1>5, <1>6 DEF q

LEMMA CanonicalIsReal ==
  ASSUME NEW t, IsTree(t), NEW p \in Path
  PROVE  Canonical(t, p) \in Real(t) \cup {Missing}
<1>1. CASE p = <<>>
  <2>1. Canonical(t, Root) = Root /\ p = Root
    BY <1>1, CanonicalOfRoot DEF Root
  <2> QED
    BY <2>1, TreeGives
<1>2. CASE p # <<>>
  <2>1. Canonical(t, p) = Enter(t, Canonical(t, Front(p)), Last(p))
    <3>1. /\ Front(p) \in Path /\ Last(p) \in Name
          /\ Append(Front(p), Last(p)) = p
      BY <1>2, FrontAndLast
    <3> QED
      BY <3>1, CanonicalStep
  <2> QED
    BY <2>1, EnterIs
<1> QED
  BY <1>1, <1>2

\* What is there by its real path is found by it.
LEMMA RealIsCanonical ==
  ASSUME NEW t, IsTree(t), NEW p \in Real(t)
  PROVE  Canonical(t, p) = p
<1> DEFINE B == {n \in Nat : \E q \in Real(t) : Len(q) = n /\ Canonical(t, q) # q}
<1>1. \A q \in Real(t) : q \in Path /\ Len(q) \in Nat
  BY PartsAreNames
<1>2. ASSUME B # {} PROVE FALSE
  <2>1. PICK n \in B : \A m \in B : n <= m
    <3>1. B \subseteq Nat
      OBVIOUS
    <3> HIDE DEF B
    <3> QED
      BY <1>2, <3>1, LeastNumber
  <2>2. PICK q \in Real(t) : Len(q) = n /\ Canonical(t, q) # q
    BY <2>1
  <2>3. q \in Path /\ q # <<>>
    BY <1>1, <2>2, CanonicalOfRoot DEF Root
  <2> DEFINE at == Front(q)
             e == Last(q)
  <2>4. /\ at \in Path /\ e \in Name /\ Append(at, e) = q /\ n \in Nat /\ Len(at) = n - 1
        /\ e = q[Len(q)] /\ Len(q) \in DOMAIN q
    <3>1. Len(q) \in Nat /\ Len(q) > 0 /\ DOMAIN q = 1..Len(q)
      BY <2>3, FrontAndLast DEF Path
    <3> QED
      BY <2>2, <2>3, <3>1, FrontAndLast
  <2>5. at \in t.dirs /\ q \notin DOMAIN t.links /\ e \notin {"", ".", ".."}
    BY <2>2, <2>3, <2>4, TreeGives, PartsAreNames DEF Root
  <2> HIDE DEF at, e
  <2>6. at \in Real(t) /\ Len(at) \notin B
    <3>1. ~(n <= n - 1)
      BY <2>4
    <3> QED
      BY <2>1, <2>4, <2>5, <3>1 DEF Real
  <2>7. Canonical(t, at) = at
    BY <1>1, <2>6
  <2>8. Enter(t, at, e) = q
    BY <2>2, <2>4, <2>5, Zenon DEF Enter, Exists, Real
  <2> QED
    BY <2>2, <2>4, <2>7, <2>8, CanonicalStep
<1> QED
  BY <1>1, <1>2

-----------------------------------------------------------------------------
(* Mounts and ids. *)

Mount == [label : LocalNames \cup {""}, root : Path]

\* The corpus comes first and has no label, and a label is of one mount.
MountsOk(ms) ==
  /\ ms \in Seq(Mount)
  /\ 1 \in DOMAIN ms
  /\ \A i \in DOMAIN ms : ms[i].label = "" <=> i = 1
  /\ \A i, j \in DOMAIN ms : ms[i].label = ms[j].label => ms[i] = ms[j]

LEMMA MountsGive ==
  ASSUME NEW ms, MountsOk(ms)
  PROVE  /\ Len(ms) \in Nat /\ DOMAIN ms = 1..Len(ms) /\ DOMAIN ms \subseteq Nat /\ 1 \in DOMAIN ms
         /\ \A i \in DOMAIN ms : /\ ms[i] \in Mount /\ ms[i].root \in Path
                                 /\ ms[i].label = "" <=> i = 1
                                 /\ i # 1 => ms[i].label \in LocalNames
<1>1. ms \in Seq(Mount) /\ 1 \in DOMAIN ms /\ \A i \in DOMAIN ms : ms[i].label = "" <=> i = 1
  BY Zenon DEF MountsOk
<1>2. Len(ms) \in Nat /\ DOMAIN ms = 1..Len(ms) /\ \A i \in DOMAIN ms : ms[i] \in Mount
  <2>1. Len(ms) \in Nat /\ DOMAIN ms = 1..Len(ms)
    BY <1>1, LenProperties
  <2>2. \A i \in 1..Len(ms) : ms[i] \in Mount
    BY <1>1, ElementOfSeq
  <2> QED
    BY <2>1, <2>2, Zenon
<1>3. \A i \in DOMAIN ms : ms[i].root \in Path /\ ms[i].label \in LocalNames \cup {""}
  BY <1>2 DEF Mount
<1>4. 1..Len(ms) \subseteq Nat
  BY <1>2
<1> QED
  BY <1>1, <1>2, <1>3, <1>4

LEMMA CanonicalIsPath ==
  ASSUME NEW t, IsTree(t), NEW p \in Path
  PROVE  Canonical(t, p) \in Path
<1>1. Missing \in Path
  <2>1. "" \in Name
    BY PathsAssumption, Zenon DEF Name
  <2>2. \A x \in Name : <<x>> \in Seq(Name)
    OBVIOUS
  <2>3. <<"">> \in Seq(Name)
    BY <2>1, <2>2
  <2> QED
    BY <2>3, Zenon DEF Missing, Path
<1> QED
  BY <1>1, CanonicalIsReal, PartsAreNames

LEMMA NamesArePaths ==
  /\ CorpusDir \in Path /\ Cwd \in Path
  /\ \A i \in DOMAIN Included : <<"", WorkspaceRoot, Included[i]>> \in Path
  /\ LocalNames \subseteq Name /\ "" \notin LocalNames
<1>1. CorpusDir \in Path /\ Cwd \in Path /\ Included \in Path
  BY PathsAssumption DEF Path, Name
<1>2. "" \in Name /\ WorkspaceRoot \in Name
  BY PathsAssumption, Zenon DEF Name
<1>3. \A i \in DOMAIN Included : Included[i] \in Name
  BY <1>1 DEF Path
<1>4. \A x, y, z \in Name : <<x, y, z>> \in Path
  BY DEF Path
<1>5. LocalNames \subseteq Name /\ "" \notin LocalNames
  BY PathsAssumption DEF Name
<1> QED
  BY <1>1, <1>2, <1>3, <1>4, <1>5

LEMMA MountsAreOk ==
  ASSUME NEW t, IsTree(t)
  PROVE  /\ MountsOk(BuildMounts(t))
         /\ BuildMounts(t)[1].root = Canonical(t, CorpusDir)
<1> DEFINE corpus == [label |-> "", root |-> Canonical(t, CorpusDir)]
           found(i) == [label |-> LabelOf[Included[i]],
                        root  |-> Canonical(t, <<"", WorkspaceRoot, Included[i]>>)]
           all == IF WorkspaceRoot = "none" THEN <<>> ELSE [i \in DOMAIN Included |-> found(i)]
           Usable(m) == m.root \in t.dirs /\ m.root # corpus.root
           ss == [i \in DOMAIN all |-> IF Usable(all[i]) THEN <<all[i]>> ELSE <<>>]
           F == {found(i) : i \in DOMAIN Included}
           n == Len(Included)
<1>1. BuildMounts(t) = <<corpus>> \o FlattenSeq(ss)
  BY DEF BuildMounts
<1>2. n \in Nat /\ DOMAIN Included = 1..n
  <2>1. Included \in Seq(STRING)
    BY PathsAssumption
  <2> QED
    BY <2>1
<1>3. \A i \in DOMAIN Included : Included[i] \in ToSet(Included) /\ Included[i] \in DOMAIN LabelOf
  BY PathsAssumption DEF ToSet
<1>4. /\ \A i \in DOMAIN Included : found(i) \in Mount /\ found(i).label \in LocalNames
      /\ corpus \in Mount
  <2>1. \A i \in DOMAIN Included : LabelOf[Included[i]] \in LocalNames
    BY <1>3, PathsAssumption
  <2>2. \A i \in DOMAIN Included : Canonical(t, <<"", WorkspaceRoot, Included[i]>>) \in Path
    BY NamesArePaths, CanonicalIsPath
  <2>3. Canonical(t, CorpusDir) \in Path
    BY NamesArePaths, CanonicalIsPath
  <2> QED
    BY <2>1, <2>2, <2>3 DEF Mount
<1>5. \A i, j \in DOMAIN Included : found(i).label = found(j).label => found(i) = found(j)
  BY <1>3, PathsAssumption
<1>6. F \subseteq Mount /\ \A m \in F : m.label \in LocalNames
  BY <1>4
<1>7. \A a, b \in F : a.label = b.label => a = b
  <2> SUFFICES ASSUME NEW a \in F, NEW b \in F, a.label = b.label PROVE a = b
    OBVIOUS
  <2>1. PICK i \in DOMAIN Included : a = found(i)
    OBVIOUS
  <2>2. PICK j \in DOMAIN Included : b = found(j)
    OBVIOUS
  <2> HIDE DEF found
  <2> QED
    BY <1>5, <2>1, <2>2
<1>8. ss \in Seq(Seq(F)) /\ \A i \in DOMAIN ss : ss[i] \in Seq(F)
  <2> DEFINE k == IF WorkspaceRoot = "none" THEN 0 ELSE n
  <2>1. k \in Nat /\ DOMAIN all = 1..k /\ \A i \in 1..k : all[i] \in F
    <3>1. CASE WorkspaceRoot = "none"
      <4>1. all = <<>> /\ k = 0
        BY <3>1
      <4>2. DOMAIN <<>> = 1..0 /\ \A i \in 1..0 : FALSE
        OBVIOUS
      <4>3. 0 \in Nat
        OBVIOUS
      <4> HIDE DEF all, F, k
      <4> QED
        BY <4>1, <4>2, <4>3, Zenon
    <3>2. CASE WorkspaceRoot # "none"
      <4> DEFINE e == [i \in DOMAIN Included |-> found(i)]
      <4>1. all = IF WorkspaceRoot = "none" THEN <<>> ELSE e
        OBVIOUS
      <4>2. k = n
        BY <3>2
      <4>3. \A i \in DOMAIN Included : e[i] = found(i)
        OBVIOUS
      <4>4. DOMAIN e = DOMAIN Included
        OBVIOUS
      <4> HIDE DEF found, all, k, n, e
      <4>5. all = e
        BY <3>2, <4>1
      <4> QED
        BY <1>2, <4>2, <4>3, <4>4, <4>5 DEF F
    <3> QED
      BY <3>1, <3>2
  <2> HIDE DEF F, all, k
  <2>2. \A i \in 1..k : (IF Usable(all[i]) THEN <<all[i]>> ELSE <<>>) \in Seq(F)
    BY <2>1
  <2> HIDE DEF Usable
  <2>3. ss \in [1..k -> Seq(F)]
    BY <2>1, <2>2
  <2> HIDE DEF ss
  <2> QED
    BY <2>1, <2>3
<1> HIDE DEF corpus, F, ss
<1>9. FlattenSeq(ss) \in Seq(F)
  BY <1>8, FlattenIs
<1> DEFINE q == FlattenSeq(ss)
           ms == <<corpus>> \o q
<1> HIDE DEF q
<1>10. ms \in Seq(F \cup {corpus}) /\ Len(ms) = Len(q) + 1 /\ Len(q) \in Nat
       /\ ms[1] = corpus /\ \A i \in 2..Len(ms) : ms[i] \in F
  <2>1. q \in Seq(F \cup {corpus}) /\ <<corpus>> \in Seq(F \cup {corpus}) /\ q \in Seq(F)
    BY <1>9 DEF q
  <2> DEFINE S == F \cup {corpus}
             r == <<corpus>>
  <2>2. Len(r) = 1 /\ r[1] = corpus /\ r \in Seq(S)
    BY <2>1
  <2> HIDE DEF S, r
  <2>3. /\ r \o q \in Seq(S) /\ Len(r \o q) = Len(r) + Len(q) /\ Len(q) \in Nat
        /\ \A i \in 1..Len(r) : (r \o q)[i] = r[i]
        /\ \A i \in 1..Len(q) : (r \o q)[Len(r) + i] = q[i]
    BY <2>1, <2>2, ConcatIs DEF S
  <2>4. \A i \in 1..Len(q) : q[i] \in F
    BY <2>1
  <2>5. ASSUME NEW i \in 2..Len(r \o q) PROVE (r \o q)[i] \in F
    <3> DEFINE l == i - 1
    <3>1. l \in 1..Len(q) /\ Len(r) + l = i
      BY <2>2, <2>3
    <3> HIDE DEF l
    <3> QED
      BY <2>3, <2>4, <3>1
  <2> QED
    BY <2>2, <2>3, <2>5 DEF r, S
<1>11. ms \in Seq(Mount) /\ DOMAIN ms = 1..Len(ms) /\ Len(ms) \in Nat /\ 1 \in DOMAIN ms
  <2>1. F \cup {corpus} \subseteq Mount
    BY <1>4, <1>6
  <2> HIDE DEF ms
  <2> QED
    BY <1>10, <2>1
<1> HIDE DEF ms
<1>12. \A i \in DOMAIN ms : i = 1 \/ i \in 2..Len(ms)
  BY <1>11
<1>13. corpus.label = "" /\ corpus.root = Canonical(t, CorpusDir)
  BY DEF corpus
<1>14. \A i \in DOMAIN ms : ms[i].label = "" <=> i = 1
  BY <1>6, <1>10, <1>12, <1>13, NamesArePaths
<1>15. \A i, j \in DOMAIN ms : ms[i].label = ms[j].label => ms[i] = ms[j]
  BY <1>6, <1>7, <1>10, <1>12, <1>13, NamesArePaths
<1>16. BuildMounts(t) = ms
  BY <1>1 DEF ms, q
<1> QED
  BY <1>10, <1>11, <1>13, <1>14, <1>15, <1>16 DEF MountsOk

\* What follows a prefix.
LEMMA RestOf ==
  ASSUME NEW r \in Path, NEW f \in Path, Below(r, f)
  PROVE  LET rest == SubSeq(f, Len(r) + 1, Len(f)) IN
         /\ rest \in Path /\ r \o rest = f
         /\ Len(r) \in Nat /\ Len(f) \in Nat /\ Len(rest) = Len(f) - Len(r)
         /\ \A i \in 1..Len(rest) : Len(r) + i \in 1..Len(f) /\ rest[i] = f[Len(r) + i]
<1> DEFINE m == Len(r)
           n == Len(f)
           rest == SubSeq(f, m + 1, n)
<1>1. m \in Nat /\ n \in Nat /\ r \in Seq(Name) /\ f \in Seq(Name)
  BY DEF Path
<1>2. m <= n /\ SubSeq(r, 1, m) = SubSeq(f, 1, m)
  BY DEF Below, IsPrefix
<1>3. SubSeq(r, 1, m) = r /\ SubSeq(f, 1, n) = f
  BY <1>1, SubSeqFull
<1> HIDE DEF m, n
<1>4. /\ 1 \in 1..(n + 1) /\ m \in (1 - 1)..n /\ n \in m..n
      /\ m + 1 \in 1..(n + 1) /\ n \in (m + 1 - 1)..n
      /\ n - (m + 1) + 1 = n - m
  BY <1>1, <1>2
<1>5. r \o rest = f
  <2>1. SubSeq(f, 1, m) \o SubSeq(f, m + 1, n) = SubSeq(f, 1, n)
    BY <1>1, <1>4, ConcatAdjacentSubSeq DEF n
  <2> QED
    BY <1>2, <1>3, <2>1
<1>6. /\ rest \in Seq(Name) /\ Len(rest) = n - m
      /\ \A i \in 1..(n - m) : rest[i] = f[m + 1 + i - 1]
  <2> DEFINE k == m + 1
  <2>1. k \in 1..(Len(f) + 1) /\ n \in (k - 1)..Len(f) /\ n - k + 1 = n - m
    BY <1>4 DEF n
  <2> HIDE DEF k
  <2>2. /\ SubSeq(f, k, n) \in Seq(Name) /\ Len(SubSeq(f, k, n)) = n - k + 1
        /\ \A i \in 1..(n - k + 1) : SubSeq(f, k, n)[i] = f[k + i - 1]
    BY <1>1, <2>1, SubSeqIs
  <2> QED
    BY <2>1, <2>2 DEF k
<1> HIDE DEF rest
<1>7. \A i \in 1..Len(rest) : m + i \in 1..n /\ rest[i] = f[m + i]
  <2> SUFFICES ASSUME NEW i \in 1..Len(rest) PROVE m + i \in 1..n /\ rest[i] = f[m + i]
    OBVIOUS
  <2>1. m + i \in 1..n /\ m + 1 + i - 1 = m + i /\ i \in 1..(n - m)
    BY <1>1, <1>6
  <2> QED
    BY <1>6, <2>1
<1> QED
  BY <1>1, <1>5, <1>6, <1>7 DEF m, n, rest, Path

\* Where something lies below a path is a directory.
LEMMA PrefixIsDir ==
  ASSUME NEW t, IsTree(t), NEW r \in Path, NEW p \in Real(t), Below(r, p), r # p
  PROVE  r \in t.dirs
<1> DEFINE k == Len(r)
           Under(q) == k < Len(q) /\ \A i \in 1..k : q[i] = r[i]
           B == {n \in Nat : \E q \in Real(t) : Len(q) = n /\ Under(q)}
<1>1. k \in Nat /\ r \in Seq(Name)
  BY DEF Path
<1>2. \A q \in Real(t) : q \in Seq(Name) /\ q \in Path /\ Len(q) \in Nat
  BY PartsAreNames DEF Path
<1>3. B # {}
  <2>1. Len(p) \in B
    <3> DEFINE rest == SubSeq(p, Len(r) + 1, Len(p))
    <3>1. /\ rest \in Path /\ r \o rest = p
          /\ Len(p) \in Nat /\ Len(rest) = Len(p) - Len(r)
      BY <1>2, RestOf
    <3> HIDE DEF rest
    <3>2. rest \in Seq(Name) /\ Len(rest) \in Nat
      BY <3>1 DEF Path
    <3>3. \A i \in 1..k : p[i] = r[i]
      BY <1>1, <3>1, <3>2, ConcatIs
    <3>4. Len(p) # k
      <4>1. p \in Seq(Name)
        BY <1>2
      <4> QED
        BY <1>1, <3>3, <4>1, SeqEqual
    <3> QED
      BY <1>1, <3>1, <3>2, <3>3, <3>4
  <2> QED
    BY <2>1
<1>4. PICK n \in B : \A m \in B : n <= m
  <2>1. B \subseteq Nat
    OBVIOUS
  <2> HIDE DEF B
  <2> QED
    BY <1>3, <2>1, LeastNumber
<1>5. PICK q \in Real(t) : Len(q) = n /\ Under(q)
  BY <1>4
<1>6. n \in Nat /\ q \in Path /\ q # <<>> /\ k < n
  BY <1>1, <1>2, <1>5
<1> DEFINE at == Front(q)
           e == Last(q)
<1>7. at \in Path /\ e \in Name /\ Len(at) = n - 1 /\ Append(at, e) = q
  BY <1>5, <1>6, FrontAndLast
<1>8. at \in t.dirs /\ at \in Real(t)
  BY <1>5, <1>6, TreeGives DEF Root
<1> HIDE DEF at, e
<1>9. at \in Seq(Name) /\ \A i \in 1..k : at[i] = r[i]
  <2>1. at \in Seq(Name)
    BY <1>7 DEF Path
  <2>2. \A i \in 1..Len(at) : Append(at, e)[i] = at[i]
    BY <1>7, <2>1, AppendProperties
  <2>3. \A i \in 1..k : i \in 1..Len(at)
    BY <1>1, <1>6, <1>7
  <2> QED
    BY <1>5, <1>7, <2>1, <2>2, <2>3
<1>10. CASE Len(at) = k
  <2>1. at = r
    BY <1>1, <1>9, <1>10, SeqEqual
  <2> QED
    BY <1>8, <2>1
<1>11. CASE Len(at) # k
  <2>1. Len(at) \in Nat /\ k < Len(at)
    BY <1>1, <1>6, <1>7, <1>11
  <2>2. Len(at) \in B
    BY <1>8, <1>9, <2>1
  <2>3. ~(n <= n - 1)
    BY <1>6
  <2> QED
    BY <1>4, <1>7, <2>2, <2>3
<1> QED
  BY <1>10, <1>11

\* The mount m answers for what follows its label.
ResolveIn(t, m, rest) ==
  LET file == Canonical(t, Join(m.root, rest)) IN
  IF rest \in {<<>>, <<"">>} \/ file = Missing THEN None
  ELSE IF Below(m.root, file) THEN [how |-> "found", mount |-> m, file |-> file]
  ELSE Escapes

Label(ms, i, doc) == ms[i].label # "" /\ ms[i].label = doc[1]

LEMMA ResolveLabelled ==
  ASSUME NEW t, NEW ms, MountsOk(ms), NEW doc \in Path, doc # <<>>,
         NEW i \in DOMAIN ms, Label(ms, i, doc)
  PROVE  ResolveDoc(t, ms, doc) = ResolveIn(t, ms[i], Tail(doc))
<1> DEFINE L == {j \in DOMAIN ms : doc # <<>> /\ ms[j].label # "" /\ ms[j].label = doc[1]}
           k == Min(L)
<1>1. k \in L
  <2>1. DOMAIN ms \subseteq Nat
    BY MountsGive
  <2>2. i \in L
    BY DEF Label
  <2> QED
    BY <2>1, <2>2, MinOfNumbers
<1>2. L # {} /\ ms[k] = ms[i]
  <2>1. ms[k].label = ms[i].label /\ k \in DOMAIN ms
    BY <1>1 DEF Label
  <2> QED
    BY <1>1, <2>1 DEF MountsOk
<1>3. doc \notin {<<>>, <<"">>}
  <2>1. <<"">>[1] = ""
    OBVIOUS
  <2> QED
    BY <2>1 DEF Label
<1> DEFINE rest == Tail(doc)
           file == Canonical(t, Join(ms[k].root, rest))
<1>4. ResolveDoc(t, ms, doc) =
        IF doc \in {<<>>, <<"">>} \/ rest \in {<<>>, <<"">>} \/ file = Missing THEN None
        ELSE IF Below(ms[k].root, file) THEN InMount(ms, k, file) ELSE Escapes
  <2> HIDE DEF L
  <2>1. ResolveDoc(t, ms, doc) =
          LET j == IF L = {} THEN 1 ELSE Min(L)
              r == IF L = {} THEN doc ELSE Tail(doc)
              f == Canonical(t, Join(ms[j].root, r))
          IN IF doc \in {<<>>, <<"">>} \/ r \in {<<>>, <<"">>} \/ f = Missing THEN None
             ELSE IF Below(ms[j].root, f) THEN InMount(ms, j, f) ELSE Escapes
    BY Zenon DEF ResolveDoc, L
  <2> QED
    BY <1>2, <2>1, Zenon
<1> QED
  BY <1>2, <1>3, <1>4, Zenon DEF ResolveIn, InMount

LEMMA ResolveUnlabelled ==
  ASSUME NEW t, NEW ms, NEW doc \in Path, doc # <<>>,
         \A i \in DOMAIN ms : ~Label(ms, i, doc)
  PROVE  ResolveDoc(t, ms, doc) = ResolveIn(t, ms[1], doc)
<1> DEFINE L == {j \in DOMAIN ms : doc # <<>> /\ ms[j].label # "" /\ ms[j].label = doc[1]}
<1>1. L = {}
  BY DEF Label
<1> HIDE DEF L
<1>2. ResolveDoc(t, ms, doc) =
        LET j == IF L = {} THEN 1 ELSE Min(L)
            r == IF L = {} THEN doc ELSE Tail(doc)
            f == Canonical(t, Join(ms[j].root, r))
        IN IF doc \in {<<>>, <<"">>} \/ r \in {<<>>, <<"">>} \/ f = Missing THEN None
           ELSE IF Below(ms[j].root, f) THEN InMount(ms, j, f) ELSE Escapes
  BY Zenon DEF ResolveDoc, L
<1> QED
  BY <1>1, <1>2, Zenon DEF ResolveIn, InMount

LEMMA ResolveNothing ==
  ASSUME NEW t, NEW ms
  PROVE  ResolveDoc(t, ms, <<>>) = None
BY Zenon DEF ResolveDoc
LEMMA OneAndRest ==
  ASSUME NEW S, NEW e \in S, NEW s \in Seq(S)
  PROVE  /\ <<e>> \o s \in Seq(S) /\ <<e>> \o s # <<>>
         /\ (<<e>> \o s)[1] = e /\ Tail(<<e>> \o s) = s
<1>1. <<e>> \in Seq(S) /\ Len(<<e>>) = 1 /\ Len(s) \in Nat
  OBVIOUS
<1> DEFINE r == <<e>> \o s
<1>2. r \in Seq(S) /\ Len(r) = Len(s) + 1 /\ r[1] = e /\ \A i \in 1..Len(s) : r[i + 1] = s[i]
  <2> DEFINE o == <<e>>
  <2>1. o \in Seq(S) /\ Len(o) = 1 /\ o[1] = e
    OBVIOUS
  <2> HIDE DEF o
  <2>2. /\ o \o s \in Seq(S) /\ Len(o \o s) = Len(o) + Len(s)
        /\ \A i \in 1..Len(o) : (o \o s)[i] = o[i]
        /\ \A i \in 1..Len(s) : (o \o s)[Len(o) + i] = s[i]
    <3>1. \A p, q \in Seq(S) : /\ p \o q \in Seq(S) /\ Len(p \o q) = Len(p) + Len(q)
                               /\ \A i \in 1..Len(p) : (p \o q)[i] = p[i]
                               /\ \A i \in 1..Len(q) : (p \o q)[Len(p) + i] = q[i]
      BY ConcatIs
    <3> QED
      BY <2>1, <3>1
  <2>3. \A i \in 1..Len(s) : i + 1 = 1 + i
    BY <1>1
  <2> QED
    BY <1>1, <2>1, <2>2, <2>3 DEF o
<1> HIDE DEF r
<1>3. r # <<>>
  BY <1>1, <1>2
<1>4. Tail(r) \in Seq(S) /\ Len(Tail(r)) = Len(s) /\ \A i \in 1..Len(Tail(r)) : Tail(r)[i] = s[i]
  <2>1. /\ Tail(r) \in Seq(S) /\ Len(Tail(r)) = Len(r) - 1
        /\ \A i \in 1..Len(Tail(r)) : Tail(r)[i] = r[i + 1]
    BY <1>2, <1>3, HeadTailProperties
  <2>2. Len(r) - 1 = Len(s)
    BY <1>1, <1>2
  <2> QED
    BY <1>2, <2>1, <2>2
<1>5. Tail(r) = s
  BY <1>4, SeqEqual
<1> QED
  BY <1>2, <1>3, <1>5 DEF r

LEMMA ResolveOwn ==
  ASSUME NEW t, IsTree(t), NEW m, m.root \in Path, NEW f \in Real(t), Below(m.root, f)
  PROVE  LET rest == SubSeq(f, Len(m.root) + 1, Len(f)) IN
         /\ rest \in Path
         /\ f = m.root => rest = <<>>
         /\ f # m.root => /\ rest # <<>>
                          /\ ResolveIn(t, m, rest) = [how |-> "found", mount |-> m, file |-> f]
<1> DEFINE r == m.root
           rest == SubSeq(f, Len(r) + 1, Len(f))
<1>1. f \in Path /\ r \in Path /\ DOMAIN f = 1..Len(f)
      /\ \A i \in DOMAIN f : f[i] \notin {"", ".", ".."}
  BY PartsAreNames
<1>2. /\ rest \in Path /\ r \o rest = f
      /\ Len(r) \in Nat /\ Len(f) \in Nat /\ Len(rest) = Len(f) - Len(r)
      /\ \A i \in 1..Len(rest) : Len(r) + i \in 1..Len(f) /\ rest[i] = f[Len(r) + i]
  BY <1>1, RestOf
<1> HIDE DEF r, rest
<1>3. ASSUME f = r PROVE rest = <<>>
  <2>1. Len(rest) = 0
    BY <1>2, <1>3
  <2> QED
    BY <1>2, <2>1 DEF Path
<1>4. ASSUME f # r PROVE rest # <<>>
  <2>1. r \o <<>> = r
    BY <1>1, ConcatEmptySeq DEF Path
  <2> QED
    BY <1>2, <1>4, <2>1
<1>5. ASSUME f # r PROVE ResolveIn(t, m, rest) = [how |-> "found", mount |-> m, file |-> f]
  <2>1. Len(rest) \in Nat /\ Len(rest) # 0
    <3>1. rest \in Seq(Name)
      BY <1>2 DEF Path
    <3> QED
      BY <1>4, <1>5, <3>1
  <2>2. 1 \in 1..Len(rest) /\ rest[1] # ""
    <3>1. 1 \in 1..Len(rest)
      BY <2>1
    <3>2. Len(r) + 1 \in DOMAIN f /\ rest[1] = f[Len(r) + 1]
      BY <1>1, <1>2, <3>1
    <3> QED
      BY <1>1, <3>1, <3>2
  <2>3. Head(rest) = rest[1]
    <3>1. rest \in Seq(Name)
      BY <1>2 DEF Path
    <3> QED
      BY <3>1
  <2>4. rest # <<"">>
    <3>1. <<"">>[1] = ""
      OBVIOUS
    <3> QED
      BY <2>2, <3>1, Zenon
  <2>5. Join(r, rest) = f
    BY <1>2, <2>2, <2>3 DEF Join, IsAbsolute
  <2>6. Canonical(t, f) = f /\ f # Missing
    BY RealIsCanonical, MissingIsNotReal
  <2> QED
    BY <1>4, <1>5, <2>4, <2>5, <2>6 DEF ResolveIn, r
<1> QED
  BY <1>2, <1>3, <1>4, <1>5 DEF r, rest

\* The id of a file of a mount leads back to it, unless it is hidden by a label;
\* the id of the mount itself leads to nothing.
LEMMA IdResolves ==
  ASSUME NEW t, IsTree(t), NEW ms, MountsOk(ms), NEW i \in DOMAIN ms,
         NEW f \in Real(t), Below(ms[i].root, f)
  PROVE  LET docId == IdOf(ms[i], f) IN
         /\ docId \in Path
         /\ f = ms[i].root => ResolveDoc(t, ms, docId) = None
         /\ f # ms[i].root /\ (i # 1 \/ \A j \in DOMAIN ms : ~Label(ms, j, docId)) =>
              ResolveDoc(t, ms, docId) = [how |-> "found", mount |-> ms[i], file |-> f]
<1> DEFINE m == ms[i]
           rest == SubSeq(f, Len(m.root) + 1, Len(f))
           docId == IdOf(m, f)
           there == [how |-> "found", mount |-> m, file |-> f]
<1>1. m \in Mount /\ m.root \in Path /\ (m.label = "" <=> i = 1)
  BY MountsGive, Zenon
<1>2. /\ rest \in Path
      /\ f = m.root => rest = <<>>
      /\ f # m.root => rest # <<>> /\ ResolveIn(t, m, rest) = there
  <2> DEFINE Rest(x) == SubSeq(f, Len(x.root) + 1, Len(f))
  <2>1. \A x : x.root \in Path /\ Below(x.root, f) =>
          /\ Rest(x) \in Path
          /\ f = x.root => Rest(x) = <<>>
          /\ f # x.root => /\ Rest(x) # <<>>
                          /\ ResolveIn(t, x, Rest(x)) = [how |-> "found", mount |-> x, file |-> f]
    BY ResolveOwn
  <2>2. rest = Rest(m)
    OBVIOUS
  <2>3. there = [how |-> "found", mount |-> m, file |-> f]
    OBVIOUS
  <2> HIDE DEF Rest, rest, there
  <2> QED
    BY <1>1, <2>1, <2>2, <2>3
<1>3. CASE i = 1
  <2>1. docId = rest
    <3>1. docId = <<>> \o rest
      BY <1>1, <1>3 DEF IdOf
    <3> QED
      BY <1>2, <3>1, ConcatEmptySeq DEF Path
  <2>2. f = m.root => ResolveDoc(t, ms, docId) = None
    BY <1>2, <2>1, ResolveNothing
  <2>3. f # m.root /\ (\A j \in DOMAIN ms : ~Label(ms, j, docId)) => ResolveDoc(t, ms, docId) = there
    <3> HIDE DEF rest, docId, there
    <3> QED
      BY <1>2, <1>3, <2>1, ResolveUnlabelled
  <2> QED
    BY <1>2, <1>3, <2>1, <2>2, <2>3
<1>4. CASE i # 1
  <2>1. m.label \in Name /\ m.label # ""
    BY <1>1, <1>4, NamesArePaths DEF Mount
  <2>2. docId = <<m.label>> \o rest
    BY <2>1 DEF IdOf
  <2>3. docId \in Path /\ docId # <<>> /\ docId[1] = m.label /\ Tail(docId) = rest
    <3>1. rest \in Seq(Name)
      BY <1>2 DEF Path
    <3> DEFINE l == m.label
    <3>3. l \in Name
      BY <2>1
    <3>4. docId = <<l>> \o rest
      BY <2>2
    <3> HIDE DEF docId, rest, l
    <3>2. <<l>> \o rest \in Seq(Name) /\ <<l>> \o rest # <<>>
          /\ (<<l>> \o rest)[1] = l /\ Tail(<<l>> \o rest) = rest
      BY <3>1, <3>3, OneAndRest
    <3>5. l = m.label
      BY DEF l
    <3> HIDE DEF m
    <3> QED
      BY <3>2, <3>4, <3>5, Zenon DEF Path
  <2> HIDE DEF docId, rest, there
  <2>4. Label(ms, i, docId)
    BY <2>1, <2>3 DEF Label
  <2>5. ResolveDoc(t, ms, docId) = ResolveIn(t, m, rest)
    BY <2>3, <2>4, ResolveLabelled
  <2>6. rest = <<>> => ResolveIn(t, m, rest) = None
    BY Zenon DEF ResolveIn
  <2> QED
    BY <1>2, <2>3, <2>5, <2>6 DEF docId, there
<1> QED
  BY <1>3, <1>4
-----------------------------------------------------------------------------
(* The file system is always one of those there may be, and the mounts stay. *)

TreeInv ==
  /\ tree \in Trees
  /\ MountsOk(mounts)
  /\ \E t \in Trees : mounts[1].root = Canonical(t, CorpusDir)

LEMMA TreeIsTree == TreeInv => IsTree(tree)
BY RequestsAssumption DEF TreeInv

LEMMA InitTree == Init => TreeInv
<1> SUFFICES ASSUME Init PROVE TreeInv
  OBVIOUS
<1>1. tree \in Trees /\ mounts = BuildMounts(tree)
  BY DEF Init
<1>2. IsTree(tree)
  BY <1>1, RequestsAssumption
<1>3. MountsOk(mounts) /\ mounts[1].root = Canonical(tree, CorpusDir)
  BY <1>1, <1>2, MountsAreOk
<1> QED
  BY <1>1, <1>3, Zenon DEF TreeInv

\* The first step of a call that reads a document or a file.
LEMMA StartsAre ==
  ASSUME NEW c, StartGet(c) \/ StartResource(c)
  PROVE  /\ call = Idle /\ call' = c /\ c.tool \in {"get_doc", "get_chunk", "read_resource"}
         /\ tree' = tree /\ mounts' = mounts /\ sources' = sources /\ id' = id
         /\ moved' = FALSE /\ swapped' = swapped
<1>1. CASE StartGet(c)
  <2>1. c.tool \in {"get_doc", "get_chunk"}
    BY <1>1 DEF StartGet
  <2> QED
    BY <1>1, <2>1 DEF StartGet, Begins
<1>2. CASE StartResource(c)
  <2>1. /\ c.tool = "read_resource" /\ Begins(c)
        /\ UNCHANGED <<tree, mounts, sources, id, swapped>>
    BY <1>2, Zenon DEF StartResource
  <2> QED
    BY <2>1 DEF Begins
<1> QED
  BY <1>1, <1>2

\* The steps that follow.
Works == LookUp \/ Measure \/ ReadDoc \/ ReadFile \/ EndHover

LEMMA WorksAre ==
  ASSUME Works
  PROVE  /\ tree' = tree /\ mounts' = mounts /\ sources' = sources /\ call' = call
         /\ moved' = moved /\ swapped' = swapped
         /\ (id # NoId /\ id' = NoId) \/ (id' = id /\ opened # NoFile)
<1>1. CASE LookUp
  BY <1>1, Zenon DEF LookUp
<1>2. CASE Measure \/ ReadDoc \/ ReadFile \/ EndHover
  <2>1. /\ UNCHANGED <<tree, mounts, sources, call, id, moved, swapped>>
        /\ opened.how \in {"found", "measured", "workspace"}
    BY <1>2 DEF Measure, ReadDoc, ReadFile, EndHover
  <2>2. opened # NoFile
    BY <2>1 DEF NoFile
  <2> QED
    BY <2>1, <2>2
<1> QED
  BY <1>1, <1>2 DEF Works

\* What a step does to the files and the mounts.
LEMMA StepsAre ==
  ASSUME [Next]_vars
  PROVE  /\ mounts' = mounts
         /\ tree' = tree \/ Edit
<1>1. ASSUME NEW c, StartGet(c) \/ StartResource(c) PROVE mounts' = mounts /\ tree' = tree
  BY <1>1, StartsAre
<1>2. ASSUME NEW c, ListResources(c) \/ Locate(c) PROVE mounts' = mounts /\ tree' = tree
  BY <1>2 DEF ListResources, Locate, Answers
<1>3. ASSUME NEW c, StartHover(c) PROVE mounts' = mounts /\ tree' = tree
  BY <1>3 DEF StartHover
<1>4. ASSUME NEW c, Reindex(c) PROVE mounts' = mounts /\ tree' = tree
  BY <1>4 DEF Reindex, Answers
<1>5. CASE Works
  BY <1>5, WorksAre
<1>6. CASE Done
  BY <1>6 DEF Done
<1>7. CASE Edit
  BY <1>7 DEF Edit
<1>8. CASE UNCHANGED vars
  BY <1>8 DEF vars
<1> QED
  BY <1>1, <1>2, <1>3, <1>4, <1>5, <1>6, <1>7, <1>8, Zenon DEF Next, Works

LEMMA NextTree == TreeInv /\ [Next]_vars => TreeInv'
<1> SUFFICES ASSUME TreeInv, [Next]_vars PROVE TreeInv'
  OBVIOUS
<1>1. mounts' = mounts
  BY StepsAre
<1>2. tree' \in Trees
  <2>1. CASE tree' = tree
    BY <2>1 DEF TreeInv
  <2>2. CASE Edit
    BY <2>2, RequestsAssumption DEF Edit, TreeInv
  <2> QED
    BY <2>1, <2>2, StepsAre
<1> QED
  BY <1>1, <1>2 DEF TreeInv

\* A mount, with what its root leads to.
LEMMA FollowedIs ==
  ASSUME NEW t, IsTree(t), NEW m \in Mount
  PROVE  /\ Followed(t, m) \in Mount
         /\ Followed(t, m).label = m.label
         /\ Followed(t, m).root = Canonical(t, m.root)
         /\ Canonical(t, m.root) = m.root => Followed(t, m) = m
<1> DEFINE root == Canonical(t, m.root)
<1>1. m.root \in Path
  BY DEF Mount
<1>2. root \in Path
  BY <1>1, CanonicalIsPath
<1>3. Followed(t, m) = [m EXCEPT !.root = root]
  BY DEF Followed
<1> HIDE DEF root
<1>4. [m EXCEPT !.root = root] \in Mount
      /\ [m EXCEPT !.root = root].label = m.label /\ [m EXCEPT !.root = root].root = root
  BY <1>2 DEF Mount
<1>5. root = m.root => [m EXCEPT !.root = root] = m
  <2>1. \A L, R : \A x \in [label : L, root : R] : [x EXCEPT !.root = x.root] = x
    OBVIOUS
  <2> QED
    BY <2>1 DEF Mount
<1> QED
  BY <1>3, <1>4, <1>5 DEF root

\* The files of a walk.
LEMMA WalkedIs ==
  ASSUME NEW t, NEW m, NEW f \in Walked(t, m)
  PROVE  /\ f \in DOMAIN t.files /\ f \in Real(t) /\ t.files[f].kind # "big"
         /\ Below(Canonical(t, m.root), f)
         /\ Last(IF f = Canonical(t, m.root) THEN m.root ELSE f) \in Indexable
BY Zenon DEF Walked, Real

\* What follows the root in the path of a file below it.
Behind(root, f) == SubSeq(f, Len(root) + 1, Len(f))

\* Where the root of a mount is no directory any more, an id leads to no file.
LEMMA IdsOfNoRoot ==
  ASSUME NEW t, IsTree(t), NEW ms, MountsOk(ms), NEW i \in DOMAIN ms,
         NEW f \in Real(t), Below(Canonical(t, ms[i].root), f), ms[i].root \notin t.dirs,
         NEW rest, rest = Behind(Canonical(t, ms[i].root), f)
  PROVE  /\ rest \in Path
         /\ f = Canonical(t, ms[i].root) => rest = <<>>
         /\ ResolveIn(t, ms[i], rest) \in {None, Escapes}
<1> DEFINE m == ms[i]
           start == Canonical(t, m.root)
           g == Canonical(t, Join(m.root, rest))
<1>1. m \in Mount /\ m.root \in Path
  BY MountsGive
<1>2. rest \in Path /\ (f = start => rest = <<>>)
  <2>1. \A x : x.root \in Path /\ Below(x.root, f) =>
          /\ SubSeq(f, Len(x.root) + 1, Len(f)) \in Path
          /\ f = x.root => SubSeq(f, Len(x.root) + 1, Len(f)) = <<>>
    BY ResolveOwn
  <2>2. Followed(t, m).root = start /\ Followed(t, m) \in Mount
    BY <1>1, FollowedIs
  <2>3. Followed(t, m).root \in Path
    BY <2>2 DEF Mount
  <2>4. rest = SubSeq(f, Len(start) + 1, Len(f))
    BY DEF Behind
  <2> QED
    BY <2>1, <2>2, <2>3, <2>4
<1>3. ASSUME rest # <<>>, g # Missing, Below(m.root, g) PROVE FALSE
  <2>1. g \in Real(t)
    <3>1. Join(m.root, rest) \in Path
      BY <1>1, <1>2, ConcatIs DEF Join, Path
    <3> QED
      BY <1>3, <3>1, CanonicalIsReal
  <2>2. g = m.root
    <3> HIDE DEF g, m
    <3> QED
      BY <1>1, <1>3, <2>1, PrefixIsDir DEF m
  <2>3. start = m.root
    BY <2>1, <2>2, RealIsCanonical
  <2>4. f # m.root
    BY <1>2, <1>3, <2>3
  <2> QED
    BY <1>1, <2>3, <2>4, PrefixIsDir
<1>4. ResolveIn(t, m, rest) = IF rest \in {<<>>, <<"">>} \/ g = Missing THEN None
                              ELSE IF Below(m.root, g) THEN [how |-> "found", mount |-> m, file |-> g]
                              ELSE Escapes
  BY DEF ResolveIn
<1> HIDE DEF g
<1> QED
  BY <1>2, <1>3, <1>4

\* IdLeadsBack: for every file system, every change of it since the mounts were resolved
\* and every set of mounts, the id that a walk gives a file, if no label hides it, leads
\* to this file if the root of the mount is a directory still.  If the root has become
\* a link, or has gone, the ids of what the walk finds behind it lead to no file at all.
THEOREM IdsLeadBack == Spec => []IdLeadsBack
<1>1. ASSUME TreeInv PROVE IdLeadsBack
  <2> SUFFICES ASSUME NEW i \in DOMAIN mounts, NEW f \in Walked(tree, mounts[i]),
                      ~Shadowed(Followed(tree, mounts[i]), f)
               PROVE  LET found == ResolveDoc(tree, mounts, IdOf(Followed(tree, mounts[i]), f)) IN
                      IF mounts[i].root \in tree.dirs THEN found.how = "found" /\ found.file = f
                      ELSE found.how \in {"escapes", "none"}
    BY Zenon DEF IdLeadsBack
  <2> DEFINE m == mounts[i]
             start == Canonical(tree, m.root)
             mount == Followed(tree, m)
             docId == IdOf(mount, f)
             found == ResolveDoc(tree, mounts, docId)
  <2>1. IsTree(tree) /\ MountsOk(mounts)
    BY <1>1, TreeIsTree DEF TreeInv
  <2>2. f \in DOMAIN tree.files /\ f \in Real(tree) /\ Below(start, f)
    BY WalkedIs
  <2>3. /\ m \in Mount /\ m.root \in Path /\ (m.label = "" <=> i = 1)
        /\ i # 1 => m.label \in LocalNames
    BY <2>1, MountsGive, Zenon
  <2>4. /\ mount \in Mount /\ mount.label = m.label /\ mount.root = start
        /\ start = m.root => mount = m
    BY <2>1, <2>3, FollowedIs
  <2>5. i = 1 /\ f # start => \A j \in DOMAIN mounts : ~Label(mounts, j, docId)
    BY <2>2, <2>3, <2>4 DEF Shadowed, Label
  <2>6. CASE m.root \in tree.dirs
    <3>1. start = m.root /\ f # m.root
      <4>1. m.root \in Real(tree) /\ DOMAIN tree.files \cap tree.dirs = {}
        BY <2>1, <2>6, TreeGives
      <4>2. start = m.root
        BY <2>1, <4>1, RealIsCanonical
      <4>3. f # m.root
        BY <2>2, <2>6, <4>1
      <4> QED
        BY <4>2, <4>3
    <3>2. mount = m
      BY <2>4, <3>1
    <3>3. found = [how |-> "found", mount |-> m, file |-> f]
      <4>1. docId = IdOf(mounts[i], f)
        BY <3>2
      <4>2. i # 1 \/ \A j \in DOMAIN mounts : ~Label(mounts, j, IdOf(mounts[i], f))
        BY <2>5, <3>1, <4>1
      <4>3. f \in Real(tree) /\ Below(mounts[i].root, f) /\ f # mounts[i].root
        BY <2>2, <3>1
      <4>4. ResolveDoc(tree, mounts, IdOf(mounts[i], f)) = [how |-> "found", mount |-> mounts[i], file |-> f]
        BY <2>1, <4>2, <4>3, IdResolves, Zenon
      <4> QED
        BY <4>1, <4>4
    <3> HIDE DEF found, m
    <3> QED
      BY <2>6, <3>3 DEF found, m
  <2>7. CASE m.root \notin tree.dirs
    <3> DEFINE rest == Behind(start, f)
    <3>1. /\ rest \in Path /\ (f = start => rest = <<>>)
          /\ ResolveIn(tree, m, rest) \in {None, Escapes}
      <4>1. rest = Behind(Canonical(tree, mounts[i].root), f)
        OBVIOUS
      <4>2. /\ IsTree(tree) /\ MountsOk(mounts) /\ f \in Real(tree)
            /\ Below(Canonical(tree, mounts[i].root), f) /\ mounts[i].root \notin tree.dirs
        BY <2>1, <2>2, <2>7
      <4> HIDE DEF rest, m, start
      <4>3. /\ rest \in Path
            /\ f = Canonical(tree, mounts[i].root) => rest = <<>>
            /\ ResolveIn(tree, mounts[i], rest) \in {None, Escapes}
        BY <4>1, <4>2, IdsOfNoRoot
      <4> QED
        BY <4>3 DEF m, start
    <3>2. docId = (IF m.label = "" THEN <<>> ELSE <<m.label>>) \o rest
      BY <2>4 DEF IdOf, Behind
    <3> DEFINE l == m.label
    <3> HIDE DEF docId, rest
    <3>3. found \in {None, ResolveIn(tree, m, rest)}
      <4>1. CASE i = 1
        <5>1. docId = rest
          BY <2>3, <3>1, <3>2, <4>1, ConcatEmptySeq DEF Path
        <5>2. CASE rest = <<>>
          BY <5>1, <5>2, ResolveNothing
        <5>3. CASE rest # <<>>
          BY <2>1, <2>5, <3>1, <4>1, <5>1, <5>3, ResolveUnlabelled
        <5> QED
          BY <5>2, <5>3
      <4>2. CASE i # 1
        <5>1. l \in Name /\ l # "" /\ rest \in Seq(Name)
          BY <2>3, <3>1, <4>2, NamesArePaths DEF Path
        <5>2. docId = <<l>> \o rest
          BY <3>2, <5>1
        <5> HIDE DEF l
        <5>3. docId \in Seq(Name) /\ docId # <<>> /\ docId[1] = l /\ Tail(docId) = rest
          BY <5>1, <5>2, OneAndRest
        <5>4. docId \in Path /\ Label(mounts, i, docId)
          BY <5>1, <5>3 DEF Label, l, Path
        <5> HIDE DEF m
        <5>5. ResolveDoc(tree, mounts, docId) = ResolveIn(tree, mounts[i], Tail(docId))
          BY <2>1, <5>3, <5>4, ResolveLabelled
        <5> QED
          BY <5>3, <5>5 DEF m
      <4> QED
        BY <4>1, <4>2
    <3>4. None.how = "none" /\ Escapes.how = "escapes"
      BY DEF None, Escapes
    <3>5. found.how \in {"escapes", "none"}
      BY <3>1, <3>3, <3>4
    <3> HIDE DEF found, m
    <3> QED
      BY <2>7, <3>5 DEF found, m, docId
  <2> QED
    BY <2>6, <2>7
<1>2. Spec => []TreeInv
  BY InitTree, NextTree, PTL DEF Spec
<1> QED
  BY <1>1, <1>2, PTL

-----------------------------------------------------------------------------

(* What is answered. *)

\* What a document is resolved to lies in the mount that it is found in.
LEMMA ResolvedIsInside ==
  ASSUME NEW t, NEW ms, MountsOk(ms), NEW doc
  PROVE  \/ ResolveDoc(t, ms, doc) \in {None, Escapes}
         \/ \E i \in DOMAIN ms : \E f : /\ ResolveDoc(t, ms, doc) = InMount(ms, i, f)
                                        /\ Below(ms[i].root, f)
<1> DEFINE L == {j \in DOMAIN ms : doc # <<>> /\ ms[j].label # "" /\ ms[j].label = doc[1]}
           i == IF L = {} THEN 1 ELSE Min(L)
           rest == IF L = {} THEN doc ELSE Tail(doc)
           f == Canonical(t, Join(ms[i].root, rest))
<1>1. i \in DOMAIN ms
  <2>1. DOMAIN ms \subseteq Nat /\ 1 \in DOMAIN ms
    BY MountsGive
  <2>2. L # {} => Min(L) \in L
    BY <2>1, MinOfNumbers
  <2> QED
    BY <2>1, <2>2
<1>2. ResolveDoc(t, ms, doc) =
        IF doc \in {<<>>, <<"">>} \/ rest \in {<<>>, <<"">>} \/ f = Missing THEN None
        ELSE IF Below(ms[i].root, f) THEN InMount(ms, i, f) ELSE Escapes
  BY Zenon DEF ResolveDoc
<1> HIDE DEF i, f, rest, L
<1> QED
  BY <1>1, <1>2, Zenon

\* A path that was checked.
Checked(o) ==
  \/ o = NoFile
  \/ \E i \in DOMAIN mounts : \E f : \E how \in {"found", "measured"} :
       /\ o = [how |-> how, mount |-> mounts[i], file |-> f]
       /\ Below(mounts[i].root, f)
  \/ \E f : /\ o = [how |-> "workspace", file |-> f]
            /\ Below(WorkspaceOf(mounts), f) /\ Last(f) \in Markdown

\* What ServedIsInside says of the path in a reply.
Inside(r) ==
  "file" \in DOMAIN r =>
    IF r.tool = "resource"
    THEN Below(WorkspaceOf(mounts), r.file) /\ Last(r.file) \in Markdown
    ELSE \E i \in DOMAIN mounts : /\ Below(mounts[i].root, r.file)
                                  /\ r.id = IdOf(mounts[i], r.file)

Proper(r) == r.outcome \in Outcomes /\ Inside(r)

LEMMA NoFileIsProper ==
  /\ \A tool, outcome : outcome \in Outcomes => Proper([tool |-> tool, outcome |-> outcome])
  /\ \A path, reason : Proper(Failed(path, reason))
  /\ Proper(NotFound) /\ Proper(NoReply)
BY DEF Proper, Inside, Failed, NotFound, NoReply, Outcomes

\* Why there is no document.
Whys == {"not_found", "invalid", "error"}

LEMMA RefusalIs ==
  ASSUME NEW c, NEW why \in Whys
  PROVE  /\ Proper(Refusal(c, why)) /\ "file" \notin DOMAIN Refusal(c, why)
         /\ Refusal(c, why).outcome \in {"not_found", "failed", "invalid", "error"}
<1> DEFINE r == Refusal(c, why)
<1>1. \/ r = NotFound
      \/ \E reason : r = Failed(c.path, reason)
      \/ r = [tool |-> c.tool, outcome |-> why]
  BY Zenon DEF Refusal
<1>2. Whys \subseteq Outcomes
  BY DEF Whys, Outcomes
<1>3. Proper(r)
  BY <1>1, <1>2, NoFileIsProper
<1>4. ASSUME NEW reason PROVE LET o == Failed(c.path, reason) IN "file" \notin DOMAIN o /\ o.outcome = "failed"
  BY DEF Failed
<1>5. LET o == [tool |-> c.tool, outcome |-> why] IN "file" \notin DOMAIN o /\ o.outcome = why
  OBVIOUS
<1>6. "file" \notin DOMAIN NotFound /\ NotFound.outcome = "not_found"
  BY DEF NotFound
<1> HIDE DEF r
<1>7. "file" \notin DOMAIN r /\ r.outcome \in {"not_found", "failed", "invalid", "error"}
  BY <1>1, <1>4, <1>5, <1>6 DEF Whys
<1> QED
  BY <1>3, <1>7 DEF r

\* How the look-up of an id ends.
LEMMA LooksUpIs ==
  ASSUME MountsOk(mounts), NEW c, NEW doc, LooksUp(c, doc)
  PROVE  \/ /\ opened' = NoFile
            /\ \/ ResolveDoc(tree, mounts, doc) = None /\ reply' = Refusal(c, "not_found")
               \/ ResolveDoc(tree, mounts, doc) = Escapes /\ reply' = Refusal(c, "invalid")
         \/ \E i \in DOMAIN mounts : \E f :
              /\ ResolveDoc(tree, mounts, doc) = InMount(mounts, i, f)
              /\ Below(mounts[i].root, f)
              /\ opened' = InMount(mounts, i, f) /\ reply' = NoReply
<1> DEFINE found == ResolveDoc(tree, mounts, doc)
<1>1. IF found.how = "found" THEN opened' = found /\ reply' = NoReply
      ELSE /\ opened' = NoFile
           /\ reply' = Refusal(c, IF found.how = "none" THEN "not_found" ELSE "invalid")
  BY Zenon DEF LooksUp, Opens, Ends
<1>2. \/ found \in {None, Escapes}
      \/ \E i \in DOMAIN mounts : \E f : found = InMount(mounts, i, f) /\ Below(mounts[i].root, f)
  BY ResolvedIsInside
<1> HIDE DEF found
<1>3. CASE found = None
  <2>1. found.how = "none"
    BY <1>3 DEF None
  <2> QED
    BY <1>1, <1>3, <2>1 DEF found
<1>4. CASE found = Escapes
  <2>1. found.how = "escapes"
    BY <1>4 DEF Escapes
  <2> QED
    BY <1>1, <1>4, <2>1 DEF found
<1>5. ASSUME NEW i \in DOMAIN mounts, NEW f, found = InMount(mounts, i, f), Below(mounts[i].root, f)
      PROVE  opened' = InMount(mounts, i, f) /\ reply' = NoReply
  <2>1. found.how = "found"
    BY <1>5 DEF InMount
  <2> QED
    BY <1>1, <1>5, <2>1
<1> QED
  BY <1>2, <1>3, <1>4, <1>5, Zenon DEF found

LEMMA LooksUpIsProper ==
  ASSUME MountsOk(mounts), NEW c, NEW doc, LooksUp(c, doc)
  PROVE  Proper(reply') /\ Checked(opened') /\ (opened' # NoFile => reply' = NoReply)
<1>1. CASE opened' = NoFile /\ \E why \in Whys : reply' = Refusal(c, why)
  BY <1>1, RefusalIs, Zenon DEF Checked
<1>2. ASSUME NEW i \in DOMAIN mounts, NEW f, Below(mounts[i].root, f),
             opened' = InMount(mounts, i, f), reply' = NoReply
      PROVE  Proper(reply') /\ Checked(opened') /\ (opened' # NoFile => reply' = NoReply)
  <2>1. Checked(opened')
    BY <1>2 DEF Checked, InMount
  <2> QED
    BY <1>2, <2>1, NoFileIsProper
<1>3. "not_found" \in Whys /\ "invalid" \in Whys
  BY DEF Whys
<1> QED
  BY <1>1, <1>2, <1>3, LooksUpIs

\* How the size and the text are looked at.
LEMMA MeasureIs ==
  ASSUME Measure
  PROVE  /\ opened.how = "found"
         /\ \/ /\ opened' = NoFile
               /\ \/ Canonical(tree, opened.file) = Missing /\ reply' = Refusal(call, "error")
                  \/ TooLarge(Canonical(tree, opened.file)) /\ reply' = Refusal(call, "invalid")
            \/ opened' = [opened EXCEPT !.how = "measured"] /\ reply' = NoReply
<1> DEFINE file == Canonical(tree, opened.file)
<1>1. /\ opened.how = "found"
      /\ CASE file = Missing -> opened' = NoFile /\ reply' = Refusal(call, "error")
           [] TooLarge(file) -> opened' = NoFile /\ reply' = Refusal(call, "invalid")
           [] OTHER          -> opened' = [opened EXCEPT !.how = "measured"] /\ reply' = NoReply
  BY Zenon DEF Measure, Ends, Opens
<1> HIDE DEF file
<1> QED
  BY <1>1, Zenon DEF file

LEMMA ReadDocIs ==
  ASSUME ReadDoc
  PROVE  /\ opened.how = "measured" /\ opened' = NoFile /\ call.tool # "hover"
         /\ \/ reply' = Refusal(call, "not_found")
            \/ reply' = [tool |-> "doc", outcome |-> "answered", file |-> opened.file,
                         read |-> Canonical(tree, opened.file),
                         id |-> IdOf(opened.mount, opened.file)]
BY Zenon DEF ReadDoc, Ends

LEMMA ReadFileIs ==
  ASSUME ReadFile
  PROVE  /\ opened.how = "workspace" /\ opened' = NoFile /\ call.tool = "read_resource"
         /\ \/ reply' = NotFound
            \/ reply' = [tool |-> "resource", outcome |-> "answered", file |-> opened.file,
                         read |-> Canonical(tree, opened.file)]
BY Zenon DEF ReadFile, Ends

LEMMA EndHoverIs ==
  ASSUME EndHover
  PROVE  LET file == Canonical(tree, opened.file)
             at == Hovered(TextOf(file), call.line, call.column, call.symbol)
         IN /\ opened.how = "measured" /\ opened' = NoFile /\ call.tool = "hover"
            /\ \/ TextOf(file) = <<>> /\ reply' = Refusal(call, "not_found")
               \/ /\ TextOf(file) # <<>>
                  /\ reply' = [tool |-> "hover",
                               outcome |-> IF at.snippet[1] > at.snippet[2] THEN "panicked" ELSE "answered",
                               file |-> opened.file, read |-> file,
                               id |-> IdOf(opened.mount, opened.file), at |-> at]
BY Zenon DEF EndHover, Ends

\* The reads answer with the path that was checked.
LEMMA MountIsOpen ==
  ASSUME Checked(opened), opened.how \in {"found", "measured"}
  PROVE  \E i \in DOMAIN mounts : /\ opened.mount = mounts[i]
                                  /\ Below(mounts[i].root, opened.file)
                                  /\ opened = [how |-> opened.how, mount |-> mounts[i], file |-> opened.file]
<1>1. opened # NoFile
  BY DEF NoFile
<1>2. ASSUME NEW f, opened = [how |-> "workspace", file |-> f] PROVE FALSE
  <2>1. opened.how = "workspace"
    BY <1>2
  <2> QED
    BY <2>1
<1>3. PICK i \in DOMAIN mounts : \E f : \E how \in {"found", "measured"} :
        /\ opened = [how |-> how, mount |-> mounts[i], file |-> f]
        /\ Below(mounts[i].root, f)
  BY <1>1, <1>2 DEF Checked
<1>4. PICK f : \E how \in {"found", "measured"} :
        /\ opened = [how |-> how, mount |-> mounts[i], file |-> f]
        /\ Below(mounts[i].root, f)
  BY <1>3
<1>5. PICK how \in {"found", "measured"} :
        opened = [how |-> how, mount |-> mounts[i], file |-> f] /\ Below(mounts[i].root, f)
  BY <1>4
<1>6. opened.mount = mounts[i] /\ opened.file = f /\ opened.how = how
  BY <1>5
<1> QED
  BY <1>5, <1>6

LEMMA FileIsOpen ==
  ASSUME Checked(opened), opened.how = "workspace"
  PROVE  Below(WorkspaceOf(mounts), opened.file) /\ Last(opened.file) \in Markdown
<1>1. opened # NoFile
  BY DEF NoFile
<1>2. ASSUME NEW x, NEW y, NEW how, opened = [how |-> how, mount |-> x, file |-> y]
      PROVE  how = "workspace"
  BY <1>2
<1>3. PICK f : /\ opened = [how |-> "workspace", file |-> f]
               /\ Below(WorkspaceOf(mounts), f) /\ Last(f) \in Markdown
  BY <1>1, <1>2 DEF Checked
<1>4. opened.file = f
  BY <1>3
<1> QED
  BY <1>3, <1>4

\* A document, of a reply with its id.
LEMMA DocumentIsProper ==
  ASSUME Checked(opened), opened.how = "measured", NEW r,
         r.outcome \in Outcomes, r.tool # "resource",
         r.file = opened.file, r.id = IdOf(opened.mount, opened.file)
  PROVE  Proper(r)
BY MountIsOpen DEF Proper, Inside

LEMMA WorksIsProper ==
  ASSUME MountsOk(mounts), Checked(opened), Works
  PROVE  Proper(reply') /\ Checked(opened') /\ (opened' # NoFile => reply' = NoReply)
<1>0. /\ "not_found" \in Whys /\ "invalid" \in Whys /\ "error" \in Whys /\ Checked(NoFile)
      /\ "answered" \in Outcomes /\ "panicked" \in Outcomes
  BY DEF Whys, Checked, Outcomes
<1>1. CASE LookUp
  <2>1. LooksUp(call, id)
    BY <1>1 DEF LookUp
  <2> QED
    BY <2>1, LooksUpIsProper
<1>2. CASE Measure
  <2>1. CASE \E why \in Whys : opened' = NoFile /\ reply' = Refusal(call, why)
    BY <1>0, <2>1, RefusalIs
  <2>2. CASE opened' = [opened EXCEPT !.how = "measured"] /\ reply' = NoReply
    <3>1. opened.how = "found"
      BY <1>2, MeasureIs
    <3>2. PICK i \in DOMAIN mounts : /\ Below(mounts[i].root, opened.file)
            /\ opened = [how |-> opened.how, mount |-> mounts[i], file |-> opened.file]
      BY <3>1, MountIsOpen
    <3> DEFINE f == opened.file
    <3>3. opened = [how |-> "found", mount |-> mounts[i], file |-> f]
      BY <3>1, <3>2
    <3> HIDE DEF f
    <3>4. opened' = [how |-> "measured", mount |-> mounts[i], file |-> f]
      BY <2>2, <3>3
    <3>5. Checked(opened')
      BY <3>2, <3>4 DEF Checked, f
    <3> QED
      BY <2>2, <3>5, NoFileIsProper
  <2> QED
    BY <1>0, <1>2, <2>1, <2>2, MeasureIs
<1>3. CASE ReadDoc
  <2> DEFINE r == [tool |-> "doc", outcome |-> "answered", file |-> opened.file,
                   read |-> Canonical(tree, opened.file),
                   id |-> IdOf(opened.mount, opened.file)]
  <2>1. opened.how = "measured" /\ opened' = NoFile /\ reply' \in {Refusal(call, "not_found"), r}
    BY <1>3, ReadDocIs
  <2>2. r.outcome = "answered" /\ r.tool = "doc" /\ r.file = opened.file /\ r.id = IdOf(opened.mount, opened.file)
    OBVIOUS
  <2> HIDE DEF r
  <2>3. Proper(r)
    BY <1>0, <2>1, <2>2, DocumentIsProper
  <2> QED
    BY <1>0, <2>1, <2>3, RefusalIs
<1>4. CASE ReadFile
  <2> DEFINE r == [tool |-> "resource", outcome |-> "answered", file |-> opened.file,
                   read |-> Canonical(tree, opened.file)]
  <2>1. opened.how = "workspace" /\ opened' = NoFile /\ reply' \in {NotFound, r}
    BY <1>4, ReadFileIs
  <2>2. r.outcome = "answered" /\ r.tool = "resource" /\ r.file = opened.file
    OBVIOUS
  <2> HIDE DEF r
  <2>3. Proper(r)
    BY <1>0, <2>1, <2>2, FileIsOpen DEF Proper, Inside
  <2> QED
    BY <1>0, <2>1, <2>3, NoFileIsProper
<1>5. CASE EndHover
  <2> DEFINE file == Canonical(tree, opened.file)
             at == Hovered(TextOf(file), call.line, call.column, call.symbol)
             outcome == IF at.snippet[1] > at.snippet[2] THEN "panicked" ELSE "answered"
             r == [tool |-> "hover", outcome |-> outcome, file |-> opened.file, read |-> file,
                   id |-> IdOf(opened.mount, opened.file), at |-> at]
  <2>1. opened.how = "measured" /\ opened' = NoFile /\ reply' \in {Refusal(call, "not_found"), r}
    BY <1>5, EndHoverIs, Zenon
  <2>2. outcome \in Outcomes
    BY <1>0, Zenon
  <2> HIDE DEF at, file, outcome
  <2>3. r.outcome = outcome /\ r.tool = "hover" /\ r.file = opened.file /\ r.id = IdOf(opened.mount, opened.file)
    OBVIOUS
  <2> HIDE DEF r
  <2>4. Proper(r)
    BY <2>1, <2>2, <2>3, DocumentIsProper
  <2> QED
    BY <1>0, <2>1, <2>4, RefusalIs
<1> QED
  BY <1>1, <1>2, <1>3, <1>4, <1>5 DEF Works

\* How the reading of a resource starts.
LEMMA StartResourceIs ==
  ASSUME NEW c, StartResource(c)
  PROVE  \/ /\ TrimSlashes(c.path) # <<>>
            /\ \/ LooksUp(c, TrimSlashes(c.path))
               \/ LooksUp(c, Front(TrimSlashes(c.path)))
         \/ \E p : /\ UnderWorkspace(tree, WorkspaceOf(mounts), p) # Missing
                   /\ HasWorkspace(mounts)
                   /\ p = c.path \/ (c.scheme = "spec" /\ c.path # <<"">> /\ p = SpecPath(c.path))
                   /\ opened' = [how |-> "workspace", file |-> UnderWorkspace(tree, WorkspaceOf(mounts), p)]
                   /\ reply' = NoReply
         \/ opened' = NoFile /\ reply' = NotFound
<1> DEFINE part == TrimSlashes(c.path)
           U(p) == UnderWorkspace(tree, WorkspaceOf(mounts), p)
           spec == c.scheme = "spec" /\ c.path # <<"">>
           file == CASE c.scheme = "workspace" -> U(c.path)
                     [] spec                   -> U(SpecPath(c.path))
                     [] OTHER                  -> Missing
           A == c.scheme = "doc" /\ part # <<>>
           B == c.scheme = "chunk" /\ Len(part) > 1 /\ Last(part) \in DOMAIN Number
           C == c.scheme \in {"workspace", "spec"} /\ HasWorkspace(mounts) /\ file # Missing
<1>1. (CASE A -> LooksUp(c, part)
         [] B -> LooksUp(c, Front(part))
         [] C -> opened' = [how |-> "workspace", file |-> file] /\ reply' = NoReply
         [] OTHER -> opened' = NoFile /\ reply' = NotFound)
  BY Zenon DEF StartResource, Opens, Ends
<1>2. B => part # <<>>
  <2>1. Len(<<>>) = 0
    OBVIOUS
  <2> QED
    BY <2>1
<1>3. file = Missing \/ file = U(c.path) \/ (spec /\ file = U(SpecPath(c.path)))
  <2> DEFINE one == U(c.path)
             two == U(SpecPath(c.path))
  <2> HIDE DEF U, spec, one, two
  <2>1. file = Missing \/ file = one \/ (spec /\ file = two)
    BY DEF one, two
  <2> QED
    BY <2>1 DEF one, two
<1>4. \/ A /\ LooksUp(c, part)
      \/ B /\ LooksUp(c, Front(part))
      \/ /\ file # Missing /\ HasWorkspace(mounts)
         /\ opened' = [how |-> "workspace", file |-> file] /\ reply' = NoReply
      \/ opened' = NoFile /\ reply' = NotFound
  <2> DEFINE F == file # Missing /\ HasWorkspace(mounts)
  <2>1. C => F
    BY Zenon
  <2> HIDE DEF A, B, C, file, part, F
  <2>3. \/ A /\ LooksUp(c, part)
        \/ B /\ LooksUp(c, Front(part))
        \/ F /\ opened' = [how |-> "workspace", file |-> file] /\ reply' = NoReply
        \/ opened' = NoFile /\ reply' = NotFound
    BY <1>1, <2>1, Zenon
  <2> QED
    BY <2>3, Zenon DEF F
<1> HIDE DEF file
<1> QED
  BY <1>2, <1>3, <1>4, Zenon

LEMMA StartsIsProper ==
  ASSUME MountsOk(mounts), NEW c, StartGet(c) \/ StartResource(c)
  PROVE  Proper(reply') /\ Checked(opened') /\ (opened' # NoFile => reply' = NoReply)
<1>1. CASE StartGet(c)
  <2>1. LooksUp(c, c.path)
    BY <1>1 DEF StartGet
  <2> QED
    BY <2>1, LooksUpIsProper
<1>2. CASE StartResource(c)
  <2>1. CASE \E doc : LooksUp(c, doc)
    BY <2>1, LooksUpIsProper
  <2>2. ASSUME NEW p, UnderWorkspace(tree, WorkspaceOf(mounts), p) # Missing,
               opened' = [how |-> "workspace", file |-> UnderWorkspace(tree, WorkspaceOf(mounts), p)],
               reply' = NoReply
        PROVE  Proper(reply') /\ Checked(opened') /\ (opened' # NoFile => reply' = NoReply)
    <3> DEFINE file == UnderWorkspace(tree, WorkspaceOf(mounts), p)
    <3>1. Below(WorkspaceOf(mounts), file) /\ Last(file) \in Markdown
      BY <2>2, Zenon DEF UnderWorkspace
    <3> HIDE DEF file
    <3>2. Checked(opened')
      BY <2>2, <3>1 DEF Checked, file
    <3> QED
      BY <2>2, <3>2, NoFileIsProper
  <2>3. CASE opened' = NoFile /\ reply' = NotFound
    BY <2>3, NoFileIsProper DEF Checked
  <2>4. \/ \E doc : LooksUp(c, doc)
        \/ \E p : /\ UnderWorkspace(tree, WorkspaceOf(mounts), p) # Missing
                  /\ opened' = [how |-> "workspace", file |-> UnderWorkspace(tree, WorkspaceOf(mounts), p)]
                  /\ reply' = NoReply
        \/ opened' = NoFile /\ reply' = NotFound
    BY <1>2, StartResourceIs, Zenon
  <2> QED
    BY <2>1, <2>2, <2>3, <2>4
<1> QED
  BY <1>1, <1>2

\* The first part of an id is a label, or the first part of the path in the corpus.
LEMMA FirstOfId ==
  ASSUME NEW t, IsTree(t), NEW m \in Mount, NEW f \in Real(t), Below(m.root, f)
  PROVE  /\ m.label # "" => IdOf(m, f)[1] = m.label
         /\ m.label = "" /\ f # m.root => /\ Len(m.root) + 1 \in 1..Len(f)
                                          /\ IdOf(m, f)[1] = f[Len(m.root) + 1]
<1> DEFINE r == m.root
           l == m.label
           none == l = ""
           rest == SubSeq(f, Len(r) + 1, Len(f))
           docId == IdOf(m, f)
<1>1. r \in Path /\ (~none => l \in Name)
  <2>1. r \in Path /\ l \in LocalNames \cup {""}
    BY DEF Mount
  <2> QED
    BY <2>1, NamesArePaths
<1>2. f \in Path
  BY PartsAreNames
<1>3. docId = (IF none THEN <<>> ELSE <<l>>) \o rest
  BY Zenon DEF IdOf
<1>4. Below(r, f)
  OBVIOUS
<1> HIDE DEF r, l, docId, none
<1>5. /\ rest \in Path /\ r \o rest = f
      /\ Len(r) \in Nat /\ Len(f) \in Nat /\ Len(rest) = Len(f) - Len(r)
      /\ \A j \in 1..Len(rest) : Len(r) + j \in 1..Len(f) /\ rest[j] = f[Len(r) + j]
  BY <1>1, <1>2, <1>4, RestOf
<1> HIDE DEF rest
<1>6. ASSUME ~none PROVE docId[1] = l
  <2>1. rest \in Seq(Name) /\ l \in Name
    BY <1>1, <1>5, <1>6 DEF Path
  <2>2. (<<l>> \o rest)[1] = l
    BY <2>1, OneAndRest
  <2> QED
    BY <1>3, <1>6, <2>2
<1>7. ASSUME none, f # r PROVE Len(r) + 1 \in 1..Len(f) /\ docId[1] = f[Len(r) + 1]
  <2>1. rest \in Seq(Name) /\ r \in Seq(Name)
    BY <1>1, <1>5 DEF Path
  <2>2. docId = rest
    BY <1>3, <1>7, <2>1, ConcatEmptySeq
  <2>3. rest # <<>>
    <3>1. r \o <<>> = r
      BY <2>1, ConcatEmptySeq
    <3> QED
      BY <1>5, <1>7, <3>1
  <2>4. 1 \in 1..Len(rest)
    BY <2>1, <2>3
  <2> QED
    BY <1>5, <2>2, <2>4
<1> QED
  BY <1>6, <1>7 DEF r, l, docId, none

\* scan_sources finds no other sources than there are.
LEMMA ScannedAreSources ==
  ASSUME NEW t \in Trees, NEW ms, MountsOk(ms),
         \E t0 \in Trees : ms[1].root = Canonical(t0, CorpusDir)
  PROVE  ScanSources(t, ms) \subseteq Sources
<1>1. ASSUME NEW i \in DOMAIN ms, NEW f \in Walked(t, ms[i])
      PROVE  SourceIn(Followed(t, ms[i]), f) \in Sources
  <2> DEFINE start == Canonical(t, ms[i].root)
             mount == Followed(t, ms[i])
  <2>1. /\ f \in DOMAIN t.files /\ Below(start, f)
        /\ Last(IF f = start THEN ms[i].root ELSE f) \in Indexable
    BY WalkedIs
  <2>2. IsTree(t) /\ f \in Real(t)
    BY <2>1, RequestsAssumption DEF Real
  <2>3. ms[i] \in Mount
    BY MountsGive
  <2>4. mount \in Mount /\ mount.label = ms[i].label /\ mount.root = start
    BY <2>2, <2>3, FollowedIs
  <2>5. SourceIn(mount, f) = IdOf(mount, f)[1]
    BY DEF SourceIn
  <2>6. /\ mount.label # "" => IdOf(mount, f)[1] = mount.label
        /\ mount.label = "" /\ f # mount.root => IdOf(mount, f)[1] = f[Len(mount.root) + 1]
    <3>1. Below(mount.root, f)
      BY <2>1, <2>4
    <3> HIDE DEF mount
    <3> QED
      BY <2>2, <2>4, <3>1, FirstOfId, Zenon
  <2>7. /\ ms[i].label = "" <=> i = 1
        /\ i # 1 => ms[i].label \in LocalNames
    BY MountsGive, Zenon
  <2> HIDE DEF start, mount
  <2>8. ASSUME i # 1 PROVE SourceIn(mount, f) \in Sources
    <3>1. ms[i].label \in LocalNames /\ ms[i].label # ""
      BY <2>7, <2>8
    <3> QED
      BY <2>4, <2>5, <2>6, <3>1, SourceFiltersAssumption
  <2>9. ASSUME i = 1 PROVE SourceIn(mount, f) \in Sources
    <3>1. \A r \in {Canonical(t1, CorpusDir) : t1 \in Trees} : \A t1 \in Trees : \A g \in DOMAIN t1.files :
            /\ g # Canonical(t1, r)
            /\ Below(Canonical(t1, r), g) /\ Last(g) \in Indexable
                 => g[Len(Canonical(t1, r)) + 1] \in Sources
      BY RequestsAssumption, Zenon
    <3>2. ms[i].root \in {Canonical(t1, CorpusDir) : t1 \in Trees}
      BY <2>9
    <3>3. f # start /\ (Below(start, f) /\ Last(f) \in Indexable => f[Len(start) + 1] \in Sources)
      BY <2>1, <3>1, <3>2, Zenon DEF start
    <3>4. mount.label = ""
      BY <2>4, <2>7, <2>9
    <3> QED
      BY <2>1, <2>4, <2>5, <2>6, <3>3, <3>4
  <2> QED
    BY <2>8, <2>9 DEF mount
<1>2. ASSUME NEW s \in ScanSources(t, ms) PROVE s \in Sources
  <2>1. PICK p \in UNION {{i} \X Walked(t, ms[i]) : i \in DOMAIN ms} : s = SourceIn(Followed(t, ms[p[1]]), p[2])
    BY DEF ScanSources
  <2>2. PICK i \in DOMAIN ms : p \in {i} \X Walked(t, ms[i])
    BY <2>1
  <2>3. p[1] = i /\ p[2] \in Walked(t, ms[i])
    BY <2>2
  <2> QED
    BY <1>1, <2>1, <2>3
<1> QED
  BY <1>2

\* What stays true of what is indexed and answered.
TypeInv ==
  /\ TreeInv
  /\ Proper(reply)
  /\ Checked(opened)
  /\ sources \subseteq Sources
  /\ moved \in BOOLEAN
  /\ swapped \in BOOLEAN
  /\ id # NoId => call.tool = "hover" /\ opened = NoFile
  /\ opened # NoFile => call.tool \in Readers
  /\ id # NoId \/ opened # NoFile => reply = NoReply

LEMMA InitType == Init => TypeInv
<1> SUFFICES ASSUME Init PROVE TypeInv
  OBVIOUS
<1>1. TreeInv
  BY InitTree
<1>2. tree \in Trees /\ sources = ScanSources(tree, mounts)
  BY DEF Init
<1>3. sources \subseteq Sources
  BY <1>1, <1>2, ScannedAreSources DEF TypeInv, TreeInv
<1>4. Proper(reply) /\ moved \in BOOLEAN /\ swapped \in BOOLEAN /\ id = NoId /\ opened = NoFile
  BY NoFileIsProper DEF Init
<1> QED
  BY <1>1, <1>3, <1>4 DEF TypeInv, Checked

\* Between two calls nothing is resolved and nothing is open.
LEMMA IdleHoldsNothing ==
  ASSUME TypeInv, call = Idle
  PROVE  id = NoId /\ opened = NoFile
<1>1. Idle.tool = "none"
  BY DEF Idle
<1>2. "none" \notin Readers
  BY DEF Readers
<1> QED
  BY <1>1, <1>2 DEF TypeInv

\* The parts of the invariant that a step may touch.
LEMMA TypeFrom ==
  ASSUME TypeInv, mounts' = mounts, TreeInv', Proper(reply'), Checked(opened'),
         sources' \subseteq Sources, moved' \in BOOLEAN, swapped' \in BOOLEAN,
         id' # NoId => call'.tool = "hover" /\ opened' = NoFile,
         opened' # NoFile => call'.tool \in Readers,
         id' # NoId \/ opened' # NoFile => reply' = NoReply
  PROVE  TypeInv'
<1>1. Proper(reply)'
  BY DEF Proper, Inside
<1>2. Checked(opened)'
  BY DEF Checked
<1> QED
  BY <1>1, <1>2, Zenon DEF TypeInv

\* A call that is answered at once.
LEMMA AnswersType ==
  ASSUME TypeInv, NEW c, NEW answer, Answers(c, answer), Proper(answer),
         sources' \subseteq Sources
  PROVE  TypeInv'
<1>1. /\ tree' = tree /\ mounts' = mounts /\ id' = id /\ opened' = opened /\ swapped' = swapped
      /\ moved' = FALSE /\ reply' = answer /\ call = Idle
  BY DEF Answers, Begins
<1>2. TreeInv'
  BY <1>1 DEF TypeInv, TreeInv
<1>3. id' = NoId /\ opened' = NoFile
  BY <1>1, IdleHoldsNothing
<1>4. Checked(opened') /\ swapped' \in BOOLEAN
  BY <1>1 DEF TypeInv
<1> QED
  BY <1>1, <1>2, <1>3, <1>4, TypeFrom

LEMMA ReindexType ==
  ASSUME TypeInv, NEW c \in Calls(tree), Reindex(c)
  PROVE  TypeInv'
<1>1. \/ \E effective, paths, allowed :
           Answers(c, [tool |-> "reindex", outcome |-> "answered", effective |-> effective,
                       paths |-> paths, allowed |-> allowed])
      \/ Answers(c, [tool |-> "reindex", outcome |-> "invalid"])
  BY Zenon DEF Reindex
<1>2. sources' = ScanSources(tree, mounts) \/ sources' = sources
  BY DEF Reindex
<1>3. sources' \subseteq Sources
  BY <1>2, ScannedAreSources DEF TypeInv, TreeInv
<1>4. \A effective, paths, allowed :
        Proper([tool |-> "reindex", outcome |-> "answered", effective |-> effective,
                paths |-> paths, allowed |-> allowed])
  BY DEF Proper, Inside, Outcomes
<1>5. Proper([tool |-> "reindex", outcome |-> "invalid"])
  BY NoFileIsProper DEF Outcomes
<1>6. \A answer : Answers(c, answer) /\ Proper(answer) => TypeInv'
  BY <1>3, AnswersType
<1> QED
  BY <1>1, <1>4, <1>5, <1>6

LEMMA StartHoverType ==
  ASSUME TypeInv, NEW c, StartHover(c)
  PROVE  TypeInv'
<1>1. /\ tree' = tree /\ mounts' = mounts /\ sources' = sources /\ moved' = FALSE
      /\ opened' = opened /\ swapped' = swapped /\ call = Idle
      /\ call' = c /\ c.tool = "hover"
  BY DEF StartHover, Begins
<1>2. \/ reply' = NoReply
      \/ /\ id' = NoId
         /\ \/ reply' = [tool |-> "hover", outcome |-> "invalid"]
            \/ \E reason : reply' = Failed(c.path, reason)
  <2> DEFINE why == CASE ResolveFile(tree, mounts, c.path).how = "none"    -> NoneReason(c.path)
                      [] ResolveFile(tree, mounts, c.path).how = "outside" -> "outside_root"
                      [] OTHER                                             -> "invalid_input"
             found == ResolveFile(tree, mounts, c.path)
  <2>1. IF found.how = "found"
        THEN id' = IdOf(found.mount, found.file) /\ reply' = NoReply
        ELSE /\ id' = NoId
             /\ reply' = IF c.path = <<"">> THEN [tool |-> "hover", outcome |-> "invalid"]
                         ELSE Failed(c.path, why)
    BY Zenon DEF StartHover
  <2> HIDE DEF why, found
  <2> QED
    BY <2>1
<1>3. Proper(reply')
  BY <1>2, NoFileIsProper DEF Outcomes
<1>4. opened' = NoFile /\ Checked(opened') /\ swapped' \in BOOLEAN /\ sources' \subseteq Sources
  BY <1>1, IdleHoldsNothing DEF TypeInv
<1>5. TreeInv'
  BY <1>1 DEF TypeInv, TreeInv
<1> QED
  BY <1>1, <1>2, <1>3, <1>4, <1>5, TypeFrom

LEMMA StartsType ==
  ASSUME TypeInv, NEW c, StartGet(c) \/ StartResource(c)
  PROVE  TypeInv'
<1>1. /\ call = Idle /\ call' = c /\ c.tool \in {"get_doc", "get_chunk", "read_resource"}
      /\ tree' = tree /\ mounts' = mounts /\ sources' = sources /\ id' = id
      /\ moved' = FALSE /\ swapped' = swapped
  BY StartsAre
<1>2. TreeInv' /\ MountsOk(mounts) /\ sources' \subseteq Sources /\ swapped' \in BOOLEAN
  BY <1>1 DEF TypeInv, TreeInv
<1>3. Proper(reply') /\ Checked(opened') /\ (opened' # NoFile => reply' = NoReply)
  BY <1>2, StartsIsProper
<1>4. id' = NoId /\ call'.tool \in Readers
  BY <1>1, IdleHoldsNothing DEF Readers
<1> QED
  BY <1>1, <1>2, <1>3, <1>4, TypeFrom

LEMMA WorksType ==
  ASSUME TypeInv, Works
  PROVE  TypeInv'
<1>1. /\ tree' = tree /\ mounts' = mounts /\ sources' = sources /\ call' = call
      /\ moved' = moved /\ swapped' = swapped
      /\ (id # NoId /\ id' = NoId) \/ (id' = id /\ opened # NoFile)
  BY WorksAre
<1>2. TreeInv' /\ MountsOk(mounts) /\ Checked(opened)
  BY <1>1 DEF TypeInv, TreeInv
<1>3. sources' \subseteq Sources /\ moved' \in BOOLEAN /\ swapped' \in BOOLEAN
  BY <1>1 DEF TypeInv
<1>4. Proper(reply') /\ Checked(opened') /\ (opened' # NoFile => reply' = NoReply)
  BY <1>2, WorksIsProper
<1>5. id' = NoId /\ call'.tool \in Readers
  BY <1>1 DEF TypeInv, Readers
<1> QED
  BY <1>1, <1>2, <1>3, <1>4, <1>5, TypeFrom

\* The steps that follow are of a tool that reads.
LEMMA WorksFor ==
  ASSUME TypeInv, Works
  PROVE  call.tool \in Readers /\ call' = call
BY WorksAre DEF TypeInv, Readers

LEMMA NextType == TypeInv /\ [Next]_vars => TypeInv'
<1> SUFFICES ASSUME TypeInv, [Next]_vars PROVE TypeInv'
  OBVIOUS
<1>0. TreeInv /\ sources \subseteq Sources
  BY DEF TypeInv
<1>1. ASSUME NEW c, StartGet(c) \/ StartResource(c) PROVE TypeInv'
  BY <1>1, StartsType
<1>2. CASE Works
  BY <1>2, WorksType
<1>3. ASSUME NEW c, StartHover(c) PROVE TypeInv'
  BY <1>3, StartHoverType
<1>4. ASSUME NEW c \in Calls(tree), ListResources(c) PROVE TypeInv'
  <2> DEFINE listed == IF HasWorkspace(mounts) THEN Listed(tree, WorkspaceOf(mounts)) ELSE {}
             answer == [tool |-> "list_resources", outcome |-> "answered", listed |-> listed]
  <2>1. Answers(c, answer) /\ sources' = sources
    BY <1>4 DEF ListResources
  <2> HIDE DEF listed
  <2>2. Proper(answer)
    BY DEF Proper, Inside, Outcomes
  <2> HIDE DEF answer
  <2> QED
    BY <1>0, <2>1, <2>2, AnswersType
<1>5. ASSUME NEW c \in Calls(tree), Locate(c) PROVE TypeInv'
  <2> DEFINE hits == Located(c.symbol, c.want, c.filter, c.limit)
             answer == [tool |-> "locate", outcome |-> "answered", hits |-> hits]
  <2>1. Answers(c, answer) /\ sources' = sources
    BY <1>5, Zenon DEF Locate
  <2> HIDE DEF hits
  <2>2. Proper(answer)
    BY DEF Proper, Inside, Outcomes
  <2> HIDE DEF answer
  <2> QED
    BY <1>0, <2>1, <2>2, AnswersType
<1>6. ASSUME NEW c \in Calls(tree), Reindex(c) PROVE TypeInv'
  BY <1>6, ReindexType
<1>7. CASE Done
  <2>1. /\ tree' = tree /\ mounts' = mounts /\ sources' = sources /\ moved' = FALSE /\ swapped' = FALSE
        /\ id' = id /\ opened' = opened /\ reply # NoReply /\ reply' = NoReply
    BY <1>7 DEF Done
  <2>2. Proper(reply')
    BY <2>1, NoFileIsProper
  <2>3. TreeInv' /\ id' = NoId /\ opened' = NoFile /\ Checked(opened')
    BY <1>0, <2>1 DEF TreeInv, TypeInv
  <2> QED
    BY <1>0, <2>1, <2>2, <2>3, TypeFrom
<1>8. CASE Edit
  <2>1. /\ mounts' = mounts /\ sources' = sources /\ moved' = TRUE /\ call' = call
        /\ id' = id /\ opened' = opened /\ reply' = reply
        /\ swapped' = (swapped \/ opened # NoFile)
    BY <1>8 DEF Edit
  <2>2. TreeInv'
    BY <1>0, NextTree
  <2>3. swapped' \in BOOLEAN
    BY <2>1, Zenon
  <2>4. Proper(reply') /\ Checked(opened')
    BY <2>1 DEF TypeInv
  <2>5. /\ id' # NoId => call'.tool = "hover" /\ opened' = NoFile
        /\ opened' # NoFile => call'.tool \in Readers
        /\ id' # NoId \/ opened' # NoFile => reply' = NoReply
    BY <2>1, Zenon DEF TypeInv
  <2> QED
    BY <1>0, <2>1, <2>2, <2>3, <2>4, <2>5, TypeFrom
<1>9. CASE UNCHANGED vars
  <2>1. /\ tree' = tree /\ mounts' = mounts /\ sources' = sources /\ moved' = moved /\ call' = call
        /\ id' = id /\ opened' = opened /\ reply' = reply /\ swapped' = swapped
    BY <1>9 DEF vars
  <2>2. TreeInv' /\ Proper(reply)' /\ Checked(opened)'
    BY <2>1 DEF TypeInv, TreeInv, Proper, Inside, Checked
  <2> QED
    BY <2>1, <2>2 DEF TypeInv
<1> QED
  BY <1>1, <1>2, <1>3, <1>4, <1>5, <1>6, <1>7, <1>8, <1>9, Zenon DEF Next, Works

LEMMA AlwaysType == Spec => []TypeInv
BY InitType, NextType, PTL DEF Spec

\* TypeOK of Requests: the file system stays a tree, only sources there are get
\* listed, a hover that holds an id has opened nothing, what is open is of a tool that
\* reads, and nothing is answered before.
THEOREM RequestsHasType == Spec => []TypeOK
<1>1. TypeInv => TypeOK
  <2> SUFFICES ASSUME TypeInv PROVE TypeOK
    OBVIOUS
  <2>1. TreeInv
    BY DEF TypeInv
  <2>2. IsTree(tree) /\ MountsOk(mounts)
    BY <2>1, TreeIsTree DEF TreeInv
  <2>3. \A i \in DOMAIN mounts : mounts[i].label \in LocalNames \cup {""}
    BY <2>2, MountsGive
  <2>4. reply.outcome \in Outcomes
    BY DEF TypeInv, Proper
  <2> QED
    BY <2>2, <2>3, <2>4, Zenon DEF TypeInv, TypeOK
<1> QED
  BY <1>1, AlwaysType, PTL

-----------------------------------------------------------------------------

(* What a reindex takes in. *)

LEMMA NothingIsEffective == EffectiveSources({}) = {}
BY DEF EffectiveSources

\* An effective source was asked for by its name, or is one of the local ones.
LEMMA EffectiveIs ==
  ASSUME NEW requested, NEW s \in EffectiveSources(requested)
  PROVE  \/ s \in LocalNames
         \/ \E n \in requested : ~IsLocal(n) /\ Lower[s] = Lower[n]
<1> DEFINE locals == sources \cap LocalNames
           Named(n) == {x \in sources : Lower[x] = Lower[n]}
           Chosen(n) == CHOOSE x \in Named(n) : TRUE
<1>1. \A n \in requested : IsLocal(n) \/ Named(n) # {}
  BY DEF EffectiveSources
<1>2. s \in UNION {IF IsLocal(n) THEN locals ELSE {Chosen(n)} : n \in requested}
  BY <1>1 DEF EffectiveSources
<1>3. PICK n \in requested : s \in IF IsLocal(n) THEN locals ELSE {Chosen(n)}
  BY <1>2
<1>4. CASE IsLocal(n)
  BY <1>3, <1>4
<1>5. CASE ~IsLocal(n)
  <2>1. Chosen(n) \in Named(n)
    BY <1>1, <1>5
  <2> QED
    BY <1>3, <1>5, <2>1
<1> QED
  BY <1>4, <1>5

\* What a reindex that is not full may ask for is local.
LEMMA ScopeIsLocal ==
  ASSUME NEW c, NEW allowed, ~c.full, NEW n \in Requested(c, allowed)
  PROVE  LocalScope(n)
BY DEF Requested, LocalScope

LEMMA ReindexIsLocal ==
  ASSUME NEW c, NEW allowed, ~c.full, NEW s \in EffectiveSources(Requested(c, allowed))
  PROVE  Lower[s] \in LocalNames
<1>1. CASE s \in LocalNames
  BY <1>1, RequestsAssumption
<1>2. CASE s \notin LocalNames
  <2>1. PICK n \in Requested(c, allowed) : ~IsLocal(n) /\ Lower[s] = Lower[n]
    BY <1>2, EffectiveIs
  <2>2. n # Local
    BY <2>1, SourceFiltersAssumption DEF IsLocal
  <2>3. n \in LocalNames
    BY <2>2, ScopeIsLocal DEF LocalScope
  <2> QED
    BY <2>1, <2>3, RequestsAssumption
<1> QED
  BY <1>1, <1>2

LEMMA ReindexKeeps ==
  ASSUME TypeInv, NEW c \in Calls(tree), Reindex(c)
  PROVE  ReindexScope'
<1>1. c.tool = "reindex"
  BY DEF Reindex
<1>2. PICK allowed \in FullAllowed :
        LET effective == EffectiveSources(Requested(c, allowed))
            paths == c.paths \ {<<"">>}
        IN IF /\ effective # {}
              /\ \A p \in paths : AcceptsShape(p) /\ InsideWorkspace(tree, mounts, p)
           THEN /\ Answers(c, [tool |-> "reindex", outcome |-> "answered",
                               effective |-> effective, paths |-> paths,
                               allowed |-> allowed])
                /\ sources' = ScanSources(tree, mounts)
           ELSE /\ Answers(c, [tool |-> "reindex", outcome |-> "invalid"])
                /\ UNCHANGED sources
  BY Zenon DEF Reindex
<1> DEFINE effective == EffectiveSources(Requested(c, allowed))
           paths == c.paths \ {<<"">>}
           answer == [tool |-> "reindex", outcome |-> "answered", effective |-> effective,
                      paths |-> paths, allowed |-> allowed]
<1>3. \/ Answers(c, [tool |-> "reindex", outcome |-> "invalid"])
      \/ /\ effective # {}
         /\ \A p \in paths : InsideWorkspace(tree, mounts, p)
         /\ Answers(c, answer)
  BY <1>2, Zenon
<1>4. CASE Answers(c, [tool |-> "reindex", outcome |-> "invalid"])
  <2>1. reply'.outcome = "invalid"
    BY <1>4 DEF Answers
  <2> QED
    BY <2>1 DEF ReindexScope, Answered
<1>5. CASE /\ effective # {}
           /\ \A p \in paths : InsideWorkspace(tree, mounts, p)
           /\ Answers(c, answer)
  <2>1. tree' = tree /\ mounts' = mounts /\ call' = c /\ reply' = answer
    BY <1>5 DEF Answers, Begins
  <2>2. ~c.full => \A s \in effective : Lower[s] \in LocalNames
    BY ReindexIsLocal
  <2>3. c.full => allowed
    <3>1. c.full /\ ~allowed => Requested(c, allowed) = {}
      BY DEF Requested
    <3> QED
      BY <1>5, <3>1, NothingIsEffective
  <2>4. \A p \in paths :
          Below(Canonical(tree, WorkspaceOf(mounts)), Canonical(tree, WorkspaceOf(mounts) \o p))
    BY <1>5, Zenon DEF InsideWorkspace
  <2> HIDE DEF effective, paths
  <2>5. reply'.effective = effective /\ reply'.paths = paths /\ reply'.allowed = allowed
    BY <2>1
  <2> HIDE DEF answer
  <2> QED
    BY <1>5, <2>1, <2>2, <2>3, <2>4, <2>5 DEF ReindexScope
<1> QED
  BY <1>3, <1>4, <1>5

\* After any other step the call is not a reindex, or it and its answer are as before.
LEMMA NextReindex ==
  ASSUME TypeInv, [Next]_vars, ReindexScope
  PROVE  ReindexScope'
<1>1. ASSUME NEW c \in Calls(tree),
             StartGet(c) \/ StartResource(c) \/ ListResources(c) \/ Locate(c) \/ StartHover(c)
      PROVE  ReindexScope'
  <2>1. c.tool # "reindex" /\ call' = c
    <3>1. CASE StartGet(c) \/ StartResource(c)
      <4>1. c.tool \in {"get_doc", "get_chunk", "read_resource"} /\ call' = c
        BY <3>1, StartsAre
      <4> QED
        BY <4>1
    <3>2. CASE ListResources(c) \/ Locate(c) \/ StartHover(c)
      BY <3>2 DEF ListResources, Locate, StartHover, Answers, Begins
    <3> QED
      BY <1>1, <3>1, <3>2
  <2> QED
    BY <2>1 DEF ReindexScope, Answered
<1>2. ASSUME NEW c \in Calls(tree), Reindex(c) PROVE ReindexScope'
  BY <1>2, ReindexKeeps
<1>3. CASE Works
  <2>1. call' = call /\ call.tool # "reindex"
    BY <1>3, WorksFor DEF Readers
  <2> QED
    BY <2>1 DEF ReindexScope, Answered
<1>4. CASE Done
  <2>1. call'.tool = "none"
    BY <1>4 DEF Done, Idle
  <2> QED
    BY <2>1 DEF ReindexScope, Answered
<1>5. CASE Edit
  <2>1. call' = call /\ reply' = reply /\ moved' = TRUE
    BY <1>5 DEF Edit
  <2> QED
    BY <2>1 DEF ReindexScope, Answered
<1>6. CASE UNCHANGED vars
  <2>1. call' = call /\ reply' = reply /\ moved' = moved /\ mounts' = mounts /\ tree' = tree
    BY <1>6 DEF vars
  <2> QED
    BY <2>1 DEF ReindexScope, Answered
<1> QED
  BY <1>1, <1>2, <1>3, <1>4, <1>5, <1>6, Zenon DEF Next, Works

\* ReindexScope: whatever case and blanks the names have, a reindex that is not full
\* reports local sources only and at least one, a full one is allowed, and the
\* paths of both lie inside of the workspace.
THEOREM ReindexStaysInScope == Spec => []ReindexScope
<1>1. Init => ReindexScope
  BY DEF Init, ReindexScope, Answered, Idle
<1>2. TypeInv /\ ReindexScope /\ [Next]_vars => ReindexScope'
  BY NextReindex
<1> QED
  BY <1>1, <1>2, AlwaysType, PTL DEF Spec

-----------------------------------------------------------------------------
(* What hover finds by a path. *)

Bases(ms) ==
  {ms[i].root : i \in DOMAIN ms} \cup {Cwd}
    \cup (IF HasWorkspace(ms) THEN {WorkspaceOf(ms)} ELSE {})

LEMMA BasesArePaths ==
  ASSUME NEW ms, MountsOk(ms)
  PROVE  /\ Bases(ms) \subseteq Path
         /\ \A path \in Path, b \in Bases(ms) : Join(b, path) \in Path
<1>1. \A p \in Path : Front(p) \in Path
  <2>1. Front(<<>>) \in Path
    <3>1. Front(<<>>) = SubSeq(<<>>, 1, 0 - 1)
      BY DEF Front
    <3>2. <<>> \in Seq(Name) /\ SubSeq(<<>>, 1, 0 - 1) = <<>>
      OBVIOUS
    <3> QED
      BY <3>1, <3>2 DEF Path
  <2> QED
    BY <2>1, FrontAndLast
<1>2. HasWorkspace(ms) => WorkspaceOf(ms) \in Path
  <2> SUFFICES ASSUME HasWorkspace(ms) PROVE WorkspaceOf(ms) \in Path
    OBVIOUS
  <2> DEFINE W == {i \in DOMAIN ms : LocalMount(ms[i])}
             k == Min(W)
  <2>1. k \in DOMAIN ms
    <3>1. W # {} /\ W \subseteq Nat
      BY MountsGive DEF HasWorkspace
    <3> QED
      BY <3>1, MinOfNumbers
  <2>2. ms[k].root \in Path
    BY <2>1, MountsGive
  <2>3. WorkspaceOf(ms) = Front(ms[k].root)
    BY Zenon DEF WorkspaceOf
  <2> QED
    BY <1>1, <2>2, <2>3
<1>3. Bases(ms) \subseteq Path
  <2>1. \A i \in DOMAIN ms : ms[i].root \in Path
    BY MountsGive
  <2>2. Cwd \in Path
    BY NamesArePaths
  <2> QED
    BY <1>2, <2>1, <2>2, Zenon DEF Bases
<1>4. \A p, q \in Path : p \o q \in Path
  BY DEF Path
<1> QED
  BY <1>3, <1>4 DEF Join

\* A candidate starts at one of the bases, and one of them at the corpus.
LEMMA CandidatesAre ==
  ASSUME NEW ms, MountsOk(ms), NEW path
  PROVE  LET cs == Candidates(ms, path) IN
         /\ DOMAIN cs \subseteq Nat
         /\ \A k \in DOMAIN cs : \E b \in Bases(ms) : cs[k] = Join(b, path)
         /\ \E k \in DOMAIN cs : cs[k] = Join(ms[1].root, path)
<1> DEFINE cs == Candidates(ms, path)
           from(b) == Join(b, path)
           S == {from(b) : b \in Bases(ms)}
<1>0. Cwd \in Bases(ms) /\ (\A i \in DOMAIN ms : ms[i].root \in Bases(ms))
      /\ (HasWorkspace(ms) => WorkspaceOf(ms) \in Bases(ms))
  BY DEF Bases
<1>m. Len(ms) \in Nat /\ DOMAIN ms = 1..Len(ms) /\ 1 \in DOMAIN ms
  BY MountsGive
<1>1. CASE IsAbsolute(path)
  <2>1. cs = <<path>> /\ \A b : from(b) = path
    BY <1>1 DEF Candidates, Join
  <2> HIDE DEF cs, from
  <2>2. DOMAIN cs = {1} /\ cs[1] = path
    BY <2>1
  <2> QED
    BY <1>0, <2>1, <2>2 DEF cs, from
<1>2. CASE ~IsAbsolute(path)
  <2> DEFINE p == <<from(Cwd)>>
             q == IF HasWorkspace(ms) THEN <<from(WorkspaceOf(ms))>> ELSE <<>>
             r == [i \in DOMAIN ms |-> from(ms[i].root)]
  <2>1. cs = (p \o q) \o r
    BY <1>2, Zenon DEF Candidates
  <2>2. from(Cwd) \in S /\ (\A i \in DOMAIN ms : from(ms[i].root) \in S)
        /\ (HasWorkspace(ms) => from(WorkspaceOf(ms)) \in S)
    BY <1>0
  <2>f. from(ms[1].root) = Join(ms[1].root, path)
    OBVIOUS
  <2>s. \A x \in S : \E b \in Bases(ms) : x = Join(b, path)
    OBVIOUS
  <2> HIDE DEF cs, from, S
  <2>3. p \in Seq(S) /\ q \in Seq(S) /\ r \in Seq(S) /\ Len(r) = Len(ms) /\ r[1] = from(ms[1].root)
    BY <1>m, <2>2
  <2> HIDE DEF p, q, r
  <2>4. p \o q \in Seq(S)
    BY <2>3
  <2> DEFINE o == p \o q
  <2> HIDE DEF o
  <2>5. /\ o \o r \in Seq(S) /\ Len(o \o r) = Len(o) + Len(r) /\ Len(o) \in Nat
        /\ \A i \in 1..Len(r) : (o \o r)[Len(o) + i] = r[i]
    <3>1. \A u, v \in Seq(S) : /\ u \o v \in Seq(S) /\ Len(u \o v) = Len(u) + Len(v) /\ Len(u) \in Nat
                               /\ \A i \in 1..Len(v) : (u \o v)[Len(u) + i] = v[i]
      BY ConcatIs
    <3> QED
      BY <2>3, <2>4, <3>1, Zenon DEF o
  <2>6. cs = o \o r
    BY <2>1 DEF o
  <2>7. DOMAIN cs = 1..Len(cs) /\ Len(cs) \in Nat /\ \A k \in DOMAIN cs : cs[k] \in S
    BY <2>5, <2>6
  <2>8. Len(o) + 1 \in DOMAIN cs /\ cs[Len(o) + 1] = from(ms[1].root)
    <3>1. 1 \in 1..Len(r)
      BY <1>m, <2>3
    <3>2. Len(o) + 1 \in 1..Len(cs)
      BY <1>m, <2>3, <2>5, <2>6
    <3> QED
      BY <2>3, <2>5, <2>6, <2>7, <3>1, <3>2
  <2> QED
    BY <2>7, <2>8, <2>f, <2>s DEF cs
<1> QED
  BY <1>1, <1>2

\* The candidates of a path lead to nothing, out of every mount, or into one.
LEMMA CandidatesResolve ==
  ASSUME NEW t, IsTree(t), NEW ms, MountsOk(ms), NEW path \in Path
  PROVE  LET way == ResolveCandidates(t, ms, Candidates(ms, path))
             real == {Canonical(t, p) : p \in ToSet(Candidates(ms, path))} \ {Missing}
             inside == {f \in real : \E i \in DOMAIN ms : Below(ms[i].root, f)}
         IN \/ way = None
            \/ way = [how |-> "outside"] /\ real # {} /\ inside = {}
            \/ \E i \in DOMAIN ms : \E f \in inside :
                 /\ way = InMount(ms, i, f)
                 /\ f \in Real(t) /\ Below(ms[i].root, f)
                 /\ \E b \in Bases(ms) : f = Canonical(t, Join(b, path))
<1> DEFINE cs == Candidates(ms, path)
           way == ResolveCandidates(t, ms, cs)
           RealSet == {Canonical(t, p) : p \in ToSet(cs)} \ {Missing}
           Ins == {f \in RealSet : \E i \in DOMAIN ms : Below(ms[i].root, f)}
           real == [k \in DOMAIN cs |-> Canonical(t, cs[k])]
           M(k) == {m \in DOMAIN ms : real[k] # Missing /\ Below(ms[m].root, real[k])}
           inside == {k \in DOMAIN cs : M(k) # {}}
           k == Min(inside)
           i == Min(M(k))
<1>1. way = CASE inside # {} -> InMount(ms, i, real[k])
              [] inside = {} /\ \E j \in DOMAIN cs : real[j] # Missing -> [how |-> "outside"]
              [] OTHER -> None
  BY Zenon DEF ResolveCandidates
<1>2. /\ DOMAIN cs \subseteq Nat
      /\ \A j \in DOMAIN cs : \E b \in Bases(ms) : cs[j] = Join(b, path)
  BY CandidatesAre
<1>3. \A j \in DOMAIN cs : real[j] = Canonical(t, cs[j])
  OBVIOUS
<1>4. RealSet = {real[j] : j \in DOMAIN cs} \ {Missing}
  BY DEF ToSet
<1>5. \A j : M(j) \subseteq DOMAIN ms /\ \A m \in M(j) : real[j] # Missing /\ Below(ms[m].root, real[j])
  OBVIOUS
<1>6. inside = {} => Ins = {}
  BY <1>4
<1>7. (\E j \in DOMAIN cs : real[j] # Missing) => RealSet # {}
  BY <1>4
<1>8. \A j \in inside : j \in DOMAIN cs /\ M(j) # {}
  OBVIOUS
<1>9. DOMAIN ms \subseteq Nat
  BY MountsGive
<1>10. \A f \in RealSet, m \in DOMAIN ms : Below(ms[m].root, f) => f \in Ins
  OBVIOUS
<1> HIDE DEF way, M, Ins, RealSet, real, inside, cs
<1>11. ASSUME inside # {}
       PROVE  \E j \in DOMAIN ms : \E f \in Ins :
                 /\ way = InMount(ms, j, f)
                 /\ f \in Real(t) /\ Below(ms[j].root, f)
                 /\ \E b \in Bases(ms) : f = Canonical(t, Join(b, path))
  <2>1. k \in inside
    <3>1. inside \subseteq Nat
      BY <1>2, <1>8
    <3> QED
      BY <1>11, <3>1, MinOfNumbers
  <2>2. k \in DOMAIN cs /\ i \in M(k)
    <3>1. M(k) # {} /\ M(k) \subseteq Nat /\ k \in DOMAIN cs
      BY <1>5, <1>8, <1>9, <2>1
    <3> QED
      BY <3>1, MinOfNumbers
  <2> HIDE DEF k, i
  <2>3. i \in DOMAIN ms /\ real[k] # Missing /\ Below(ms[i].root, real[k])
    BY <1>5, <2>2
  <2>4. PICK b \in Bases(ms) : cs[k] = Join(b, path)
    BY <1>2, <2>2
  <2>5. real[k] = Canonical(t, Join(b, path))
    BY <1>3, <2>2, <2>4
  <2>6. real[k] \in Real(t)
    BY <2>3, <2>4, <2>5, BasesArePaths, CanonicalIsReal
  <2>7. real[k] \in Ins
    BY <1>4, <1>10, <2>2, <2>3
  <2>8. way = InMount(ms, i, real[k])
    BY <1>1, <1>11 DEF i, k
  <2> QED
    BY <2>3, <2>5, <2>6, <2>7, <2>8
<1>12. ASSUME inside = {} PROVE way = None \/ (way = [how |-> "outside"] /\ RealSet # {} /\ Ins = {})
  BY <1>1, <1>6, <1>7, <1>12
<1> QED
  BY <1>11, <1>12 DEF way, Ins, RealSet, cs

\* The three ways by which hover comes to the file f of the mount i: the path is
\* an id with a label, an id in the corpus, or leads there from some place.
ByLabel(path, i, f) ==
  /\ i # 1 /\ ~IsAbsolute(path)
  /\ ResolveDoc(tree, mounts, path) = InMount(mounts, i, f)
  /\ Labelled(path) /\ mounts[i].label = path[1]
  /\ f = Canonical(tree, Join(mounts[i].root, Tail(path)))

ByCorpus(path, i, f) ==
  /\ i = 1 /\ ~IsAbsolute(path)
  /\ ResolveDoc(tree, mounts, path) = InMount(mounts, i, f)
  /\ \A j \in DOMAIN mounts : ~Label(mounts, j, path)
  /\ f = Canonical(tree, Join(mounts[1].root, path))

\* Whether a path is not an id.
NotAnId(path) == IsAbsolute(path) \/ ResolveDoc(tree, mounts, path).how = "none"

RealOf(path) == {Canonical(tree, p) : p \in ToSet(Candidates(mounts, path))} \ {Missing}
InsideOf(path) == {f \in RealOf(path) : \E i \in DOMAIN mounts : Below(mounts[i].root, f)}

ByPlace(path, i, f) ==
  /\ NotAnId(path)
  /\ f \in InsideOf(path)
  /\ ResolveCandidates(tree, mounts, Candidates(mounts, path)) = InMount(mounts, i, f)
  /\ \E b \in Bases(mounts) : f = Canonical(tree, Join(b, path))

LEMMA TailIs ==
  ASSUME NEW S, NEW s \in Seq(S), s # <<>>
  PROVE  /\ Tail(s) \in Seq(S) /\ Len(s) \in Nat /\ Len(s) > 0
         /\ Tail(s) # <<>> <=> Len(s) > 1
<1> DEFINE r == Tail(s)
           n == Len(s)
<1>1. n \in Nat /\ n > 0
  OBVIOUS
<1>2. r \in Seq(S) /\ Len(r) = n - 1
  BY HeadTailProperties
<1> HIDE DEF r, n
<1>3. r # <<>> <=> Len(r) > 0
  BY <1>2
<1>4. Len(r) > 0 <=> n > 1
  BY <1>1, <1>2
<1> QED
  BY <1>1, <1>2, <1>3, <1>4 DEF r, n

LEMMA LabelledIs ==
  ASSUME NEW path \in Path, path # <<>>, path[1] # "", Tail(path) \notin {<<>>, <<"">>}
  PROVE  Labelled(path)
<1>1. path \in Seq(Name) /\ Tail(path) # <<>>
  BY DEF Path
<1>2. Len(path) > 1
  BY <1>1, TailIs
<1> QED
  BY <1>2, Zenon DEF Labelled

LEMMA AsLabelled ==
  ASSUME TreeInv, NEW path \in Path, path # <<>>, ~IsAbsolute(path),
         NEW j \in DOMAIN mounts, Label(mounts, j, path)
  PROVE  LET way == ResolveDoc(tree, mounts, path) IN
         \/ way = None
         \/ way = Escapes
         \/ \E f \in Real(tree) : /\ way = InMount(mounts, j, f) /\ Below(mounts[j].root, f)
                                  /\ ByLabel(path, j, f)
<1> DEFINE m == mounts[j]
           rest == Tail(path)
           file == Canonical(tree, Join(m.root, rest))
           way == ResolveDoc(tree, mounts, path)
<1>0. IsTree(tree) /\ MountsOk(mounts)
  BY TreeIsTree DEF TreeInv
<1>1. way = ResolveIn(tree, m, rest)
  BY <1>0, ResolveLabelled
<1>2. j # 1 /\ m.root \in Path /\ m.label # "" /\ m.label = path[1]
  BY <1>0, MountsGive DEF Label
<1>3. file \in Real(tree) \cup {Missing}
  <2>1. path \in Seq(Name) /\ Tail(path) \in Path
    BY DEF Path
  <2>2. Join(m.root, rest) \in Path
    <3>1. m.root \in Bases(mounts)
      BY DEF Bases
    <3> QED
      BY <1>0, <2>1, <3>1, BasesArePaths
  <2> QED
    BY <1>0, <2>2, CanonicalIsReal
<1>4. way = IF rest \in {<<>>, <<"">>} \/ file = Missing THEN None
            ELSE IF Below(m.root, file) THEN InMount(mounts, j, file) ELSE Escapes
  BY <1>1, Zenon DEF ResolveIn, InMount
<1>5. ASSUME rest \notin {<<>>, <<"">>}, file # Missing, Below(m.root, file)
      PROVE  /\ file \in Real(tree) /\ way = InMount(mounts, j, file)
             /\ ByLabel(path, j, file)
  <2>1. Labelled(path)
    BY <1>2, <1>5, LabelledIs
  <2>2. way = InMount(mounts, j, file)
    BY <1>4, <1>5
  <2> QED
    BY <1>2, <1>3, <1>5, <2>1, <2>2, Zenon DEF ByLabel
<1> HIDE DEF file, way, rest
<1> QED
  BY <1>4, <1>5 DEF way

LEMMA AsCorpus ==
  ASSUME TreeInv, NEW path \in Path, path # <<>>, ~IsAbsolute(path),
         \A j \in DOMAIN mounts : ~Label(mounts, j, path)
  PROVE  LET way == ResolveDoc(tree, mounts, path) IN
         \/ way = None
         \/ way = Escapes
         \/ \E f \in Real(tree) : /\ way = InMount(mounts, 1, f) /\ Below(mounts[1].root, f)
                                  /\ ByCorpus(path, 1, f)
<1> DEFINE m == mounts[1]
           file == Canonical(tree, Join(m.root, path))
           way == ResolveDoc(tree, mounts, path)
<1>0. IsTree(tree) /\ MountsOk(mounts)
  BY TreeIsTree DEF TreeInv
<1>1. way = ResolveIn(tree, m, path)
  BY <1>0, ResolveUnlabelled
<1>3. file \in Real(tree) \cup {Missing}
  <2>1. m.root \in Bases(mounts)
    BY <1>0, MountsGive DEF Bases
  <2> QED
    BY <1>0, <2>1, BasesArePaths, CanonicalIsReal
<1>4. way = IF path \in {<<>>, <<"">>} \/ file = Missing THEN None
            ELSE IF Below(m.root, file) THEN InMount(mounts, 1, file) ELSE Escapes
  BY <1>1, Zenon DEF ResolveIn, InMount
<1>5. ASSUME way = InMount(mounts, 1, file) PROVE ByCorpus(path, 1, file)
  BY <1>5, Zenon DEF ByCorpus
<1> HIDE DEF file, way
<1> QED
  BY <1>3, <1>4, <1>5 DEF way

LEMMA FileIs ==
  ASSUME TreeInv, NEW path \in Path, path # <<>>, path # <<"">>
  PROVE  LET found == ResolveFile(tree, mounts, path)
             way == ResolveCandidates(tree, mounts, Candidates(mounts, path))
         IN \/ \E i \in DOMAIN mounts : \E f \in Real(tree) :
                 /\ found = InMount(mounts, i, f) /\ Below(mounts[i].root, f)
                 /\ ByLabel(path, i, f) \/ ByCorpus(path, i, f) \/ ByPlace(path, i, f)
            \/ found = Escapes
            \/ NotAnId(path) /\ found = None /\ way = None
            \/ found = [how |-> "outside"] /\ RealOf(path) # {} /\ InsideOf(path) = {}
<1> DEFINE found == ResolveFile(tree, mounts, path)
           asId == ResolveDoc(tree, mounts, path)
           way == ResolveCandidates(tree, mounts, Candidates(mounts, path))
<1>0. IsTree(tree) /\ MountsOk(mounts) /\ 1 \in DOMAIN mounts
  BY TreeIsTree, MountsGive DEF TreeInv
<1>1. found = IF ~IsAbsolute(path) /\ asId.how # "none" THEN asId ELSE way
  BY Zenon DEF ResolveFile
<1>2. asId = None => asId.how = "none"
  <2>1. None.how = "none"
    BY DEF None
  <2> HIDE DEF asId
  <2> QED
    BY <2>1
<1>3. CASE ~IsAbsolute(path) /\ asId.how # "none"
  <2>1. CASE \E j \in DOMAIN mounts : Label(mounts, j, path)
    <3>1. PICK j \in DOMAIN mounts : Label(mounts, j, path)
      BY <2>1
    <3>2. \/ asId = None
          \/ asId = Escapes
          \/ \E f \in Real(tree) : /\ asId = InMount(mounts, j, f) /\ Below(mounts[j].root, f)
                                   /\ ByLabel(path, j, f)
      BY <1>3, <3>1, AsLabelled
    <3> HIDE DEF asId, way, found
    <3> QED
      BY <1>1, <1>2, <1>3, <3>1, <3>2 DEF found, way
  <2>2. CASE \A j \in DOMAIN mounts : ~Label(mounts, j, path)
    <3>2. \/ asId = None
          \/ asId = Escapes
          \/ \E f \in Real(tree) : /\ asId = InMount(mounts, 1, f) /\ Below(mounts[1].root, f)
                                   /\ ByCorpus(path, 1, f)
      BY <1>3, <2>2, AsCorpus
    <3> HIDE DEF asId, way, found
    <3> QED
      BY <1>0, <1>1, <1>2, <1>3, <3>2 DEF found, way
  <2> QED
    BY <2>1, <2>2
<1>4. CASE ~(~IsAbsolute(path) /\ asId.how # "none")
  <2>1. NotAnId(path)
    BY <1>4 DEF NotAnId
  <2>2. found = way
    BY <1>1, <1>4
  <2>3. \/ way = None
        \/ way = [how |-> "outside"] /\ RealOf(path) # {} /\ InsideOf(path) = {}
        \/ \E i \in DOMAIN mounts : \E f \in InsideOf(path) :
             /\ way = InMount(mounts, i, f)
             /\ f \in Real(tree) /\ Below(mounts[i].root, f)
             /\ \E b \in Bases(mounts) : f = Canonical(tree, Join(b, path))
    BY <1>0, CandidatesResolve, Zenon DEF RealOf, InsideOf
  <2>4. CASE \E i \in DOMAIN mounts : \E f \in InsideOf(path) :
               /\ way = InMount(mounts, i, f)
               /\ f \in Real(tree) /\ Below(mounts[i].root, f)
               /\ \E b \in Bases(mounts) : f = Canonical(tree, Join(b, path))
    <3>1. PICK i \in DOMAIN mounts, f \in InsideOf(path) :
               /\ way = InMount(mounts, i, f)
               /\ f \in Real(tree) /\ Below(mounts[i].root, f)
               /\ \E b \in Bases(mounts) : f = Canonical(tree, Join(b, path))
      BY <2>4, Zenon
    <3>2. ByPlace(path, i, f)
      BY <2>1, <3>1, Zenon DEF ByPlace
    <3> QED
      BY <2>2, <3>1, <3>2, Zenon
  <2> QED
    BY <2>1, <2>2, <2>3, <2>4, Zenon
<1> QED
  BY <1>3, <1>4

\* The id of a file of a mount leads to nothing if it is of the mount itself, or
\* back to the file, or to a file that hides it.
LEMMA IdLeads ==
  ASSUME TreeInv, NEW i \in DOMAIN mounts, NEW f \in Real(tree), Below(mounts[i].root, f)
  PROVE  LET way == ResolveDoc(tree, mounts, IdOf(mounts[i], f)) IN
         \/ f = mounts[i].root /\ way = None
         \/ way = InMount(mounts, i, f)
         \/ i = 1 /\ Shadowed(mounts[1], f)
<1>0. IsTree(tree) /\ MountsOk(mounts)
  BY TreeIsTree DEF TreeInv
<1> DEFINE docId == IdOf(mounts[i], f)
<1>1. /\ f = mounts[i].root => ResolveDoc(tree, mounts, docId) = None
      /\ f # mounts[i].root /\ (i # 1 \/ \A j \in DOMAIN mounts : ~Label(mounts, j, docId)) =>
            ResolveDoc(tree, mounts, docId) = [how |-> "found", mount |-> mounts[i], file |-> f]
  BY <1>0, IdResolves
<1>2. i = 1 => mounts[1].label = ""
  BY <1>0, MountsGive
<1>3. ASSUME i = 1, f # mounts[1].root, NEW j \in DOMAIN mounts, Label(mounts, j, docId)
      PROVE  Shadowed(mounts[1], f)
  BY <1>2, <1>3, Zenon DEF Shadowed, Label
<1> HIDE DEF docId
<1> QED
  BY <1>1, <1>3 DEF InMount, docId

By(path, i, f) == ByLabel(path, i, f) \/ ByCorpus(path, i, f) \/ ByPlace(path, i, f)

\* HoverIsOfTheFile, of a file that hover has come to by a path.
Led(path) == {Canonical(tree, Join(b, path)) : b \in Bases(mounts)}
Own(path) == {m \in DOMAIN mounts : Labelled(path) /\ mounts[m].label = path[1]}
LedByLabel(path) ==
  {Canonical(tree, Join(mounts[m].root, Tail(path))) : m \in Own(path)} \ {Missing}

OfTheFile(path, file) ==
  \/ file \in IF LedByLabel(path) # {} THEN LedByLabel(path) ELSE Led(path)
  \/ \E f \in Led(path) : /\ Shadowed(mounts[1], f) /\ LedByLabel(path) = {}
                          /\ file = ResolveDoc(tree, mounts, IdOf(mounts[1], f)).file

\* A path that is not an id leads to nothing by its label.
LEMMA NoLabelLeads ==
  ASSUME TreeInv, NEW path \in Path, path # <<>>,
         NotAnId(path) \/ \A j \in DOMAIN mounts : ~Label(mounts, j, path)
  PROVE  LedByLabel(path) = {}
<1>0. IsTree(tree) /\ MountsOk(mounts)
  BY TreeIsTree DEF TreeInv
<1>1. \A m \in Own(path) : /\ m \in DOMAIN mounts /\ Label(mounts, m, path)
                           /\ Labelled(path)
  BY DEF Own, Label, Labelled
<1>2. ASSUME NEW m \in Own(path), NotAnId(path)
      PROVE  Canonical(tree, Join(mounts[m].root, Tail(path))) = Missing
  <2> DEFINE file == Canonical(tree, Join(mounts[m].root, Tail(path)))
             way == ResolveDoc(tree, mounts, path)
  <2>1. path \in Seq(Name) /\ Len(path) > 1 /\ path[1] # "" /\ Tail(path) # <<"">>
    BY <1>1 DEF Labelled, Path
  <2>2. Head(path) = path[1]
    <3>1. path \in Seq(Name)
      BY <2>1
    <3> QED
      BY <3>1
  <2>3. ~IsAbsolute(path)
    BY <2>1, <2>2 DEF IsAbsolute
  <2>4. way.how = "none"
    BY <1>2, <2>3 DEF NotAnId
  <2>5. Tail(path) # <<>>
    <3>1. path \in Seq(Name) /\ Len(path) > 1
      BY <2>1
    <3> QED
      BY <3>1, TailIs
  <2>6. way = ResolveIn(tree, mounts[m], Tail(path))
    BY <1>0, <1>1, ResolveLabelled
  <2>7. Tail(path) \notin {<<>>, <<"">>}
    BY <2>1, <2>5
  <2>8. way = IF file = Missing THEN None
              ELSE IF Below(mounts[m].root, file)
                   THEN [how |-> "found", mount |-> mounts[m], file |-> file] ELSE Escapes
    BY <2>6, <2>7, Zenon DEF ResolveIn
  <2> HIDE DEF way, file
  <2>9. file = Missing
    BY <2>4, <2>8 DEF Escapes
  <2> QED
    BY <2>9 DEF file
<1> QED
  BY <1>1, <1>2 DEF LedByLabel

LEMMA HoverLeads ==
  ASSUME TreeInv, NEW path \in Path, path # <<>>,
         NEW i \in DOMAIN mounts, NEW f \in Real(tree), Below(mounts[i].root, f), By(path, i, f),
         NEW k, NEW g, ResolveDoc(tree, mounts, IdOf(mounts[i], f)) = InMount(mounts, k, g)
  PROVE  OfTheFile(path, g)
<1> DEFINE way == ResolveDoc(tree, mounts, IdOf(mounts[i], f))
<1>0. IsTree(tree) /\ f # Missing
  BY TreeIsTree, MissingIsNotReal DEF TreeInv
<1>1. way.file = g /\ way # None /\ (way = InMount(mounts, i, f) => g = f)
  <2>1. InMount(mounts, k, g).file = g /\ InMount(mounts, i, f).file = f
        /\ InMount(mounts, k, g).how = "found" /\ None.how = "none"
    BY DEF InMount, None
  <2> HIDE DEF way
  <2>2. way = InMount(mounts, k, g)
    BY DEF way
  <2> QED
    BY <2>1, <2>2
<1>2. g = f \/ (i = 1 /\ Shadowed(mounts[1], f) /\ g = ResolveDoc(tree, mounts, IdOf(mounts[1], f)).file)
  <2>1. \/ f = mounts[i].root /\ way = None
        \/ way = InMount(mounts, i, f)
        \/ i = 1 /\ Shadowed(mounts[1], f)
    BY IdLeads
  <2>2. i = 1 => way = ResolveDoc(tree, mounts, IdOf(mounts[1], f))
    OBVIOUS
  <2> HIDE DEF way
  <2> QED
    BY <1>1, <2>1, <2>2
<1>3. CASE ByLabel(path, i, f)
  <2>1. i \in Own(path) /\ i # 1 /\ f = Canonical(tree, Join(mounts[i].root, Tail(path)))
    BY <1>3 DEF ByLabel, Own
  <2>2. f \in LedByLabel(path)
    BY <1>0, <2>1 DEF LedByLabel
  <2>3. g = f
    BY <1>2, <2>1
  <2> QED
    BY <2>2, <2>3 DEF OfTheFile
<1>4. CASE ByCorpus(path, i, f) \/ ByPlace(path, i, f)
  <2>1. f \in Led(path)
    <3>1. ByCorpus(path, i, f) => f = Canonical(tree, Join(mounts[1].root, path)) /\ 1 \in DOMAIN mounts
      BY DEF ByCorpus
    <3>2. ByPlace(path, i, f) => \E b \in Bases(mounts) : f = Canonical(tree, Join(b, path))
      BY DEF ByPlace
    <3>3. 1 \in DOMAIN mounts => mounts[1].root \in Bases(mounts)
      BY DEF Bases
    <3> QED
      BY <1>4, <3>1, <3>2, <3>3 DEF Led
  <2>2. LedByLabel(path) = {}
    BY <1>4, NoLabelLeads DEF ByCorpus, ByPlace
  <2> QED
    BY <1>2, <2>1, <2>2, Zenon DEF OfTheFile
<1> QED
  BY <1>3, <1>4 DEF By

-----------------------------------------------------------------------------
(* What is checked and what is read. *)

\* A document is resolved to a real path.
LEMMA ResolvedIsReal ==
  ASSUME NEW t, IsTree(t), NEW ms, MountsOk(ms), NEW doc \in Path,
         NEW i, NEW f, ResolveDoc(t, ms, doc) = InMount(ms, i, f)
  PROVE  f \in Real(t) /\ Canonical(t, f) = f
<1> DEFINE L == {j \in DOMAIN ms : doc # <<>> /\ ms[j].label # "" /\ ms[j].label = doc[1]}
           k == IF L = {} THEN 1 ELSE Min(L)
           rest == IF L = {} THEN doc ELSE Tail(doc)
           g == Canonical(t, Join(ms[k].root, rest))
<1>1. k \in DOMAIN ms
  <2>1. DOMAIN ms \subseteq Nat /\ 1 \in DOMAIN ms
    BY MountsGive
  <2>2. L # {} => Min(L) \in L
    BY <2>1, MinOfNumbers
  <2> QED
    BY <2>1, <2>2
<1>2. ResolveDoc(t, ms, doc) =
        IF doc \in {<<>>, <<"">>} \/ rest \in {<<>>, <<"">>} \/ g = Missing THEN None
        ELSE IF Below(ms[k].root, g) THEN InMount(ms, k, g) ELSE Escapes
  BY Zenon DEF ResolveDoc
<1>3. None.how = "none" /\ Escapes.how = "escapes" /\ InMount(ms, i, f).how = "found"
      /\ InMount(ms, i, f).file = f /\ InMount(ms, k, g).file = g
  BY DEF None, Escapes, InMount
<1>4. L # {} => doc # <<>>
  OBVIOUS
<1> HIDE DEF L, k
<1>5. doc # <<>> => Tail(doc) \in Path
  BY DEF Path
<1>6. rest \in Path
  BY <1>4, <1>5
<1>7. ms[k].root \in Path
  BY <1>1, MountsGive
<1> HIDE DEF rest
<1>8. g \in Real(t) \cup {Missing}
  <2>1. Join(ms[k].root, rest) \in Path
    BY <1>6, <1>7, ConcatIs DEF Join, Path
  <2> QED
    BY <2>1, CanonicalIsReal
<1> HIDE DEF g
<1>9. g # Missing /\ f = g
  BY <1>2, <1>3
<1> QED
  BY <1>8, <1>9, RealIsCanonical

LEMMA TrimmedIsPath ==
  ASSUME NEW path \in Path
  PROVE  TrimFront(path) \in Path /\ TrimSlashes(path) \in Path
<1>1. ASSUME NEW p \in Path PROVE TrimFront(p) \in Path
  <2> DEFINE named == {i \in DOMAIN p : p[i] # ""}
             k == Min(named)
  <2>1. p \in Seq(Name) /\ Len(p) \in Nat /\ DOMAIN p = 1..Len(p)
    BY DEF Path
  <2>2. named \subseteq DOMAIN p
    OBVIOUS
  <2>3. TrimFront(p) = IF named = {} THEN <<>> ELSE SubSeq(p, k, Len(p))
    BY Zenon DEF TrimFront
  <2> HIDE DEF named
  <2>4. CASE named = {}
    BY <2>3, <2>4 DEF Path
  <2>5. CASE named # {}
    <3>1. named \subseteq Nat
      BY <2>1, <2>2
    <3>2. k \in 1..Len(p)
      BY <2>1, <2>2, <2>5, <3>1, MinOfNumbers
    <3> HIDE DEF k
    <3>3. k \in 1..(Len(p) + 1) /\ Len(p) \in (k - 1)..Len(p)
      BY <2>1, <3>2
    <3> QED
      BY <2>1, <2>3, <2>5, <3>3, SubSeqIs DEF Path
  <2> QED
    BY <2>4, <2>5
<1>2. ASSUME NEW p \in Path PROVE Reverse(p) \in Path
  <2> DEFINE r == [i \in 1..Len(p) |-> p[(Len(p) - i) + 1]]
  <2>1. p \in Seq(Name) /\ Len(p) \in Nat
    BY DEF Path
  <2>2. Reverse(p) = r
    BY DEF Reverse
  <2>3. \A i \in 1..Len(p) : (Len(p) - i) + 1 \in 1..Len(p)
    BY <2>1
  <2>4. \A i \in 1..Len(p) : p[(Len(p) - i) + 1] \in Name
    BY <2>1, <2>3, ElementOfSeq
  <2>5. r \in [1..Len(p) -> Name]
    BY <2>4
  <2> HIDE DEF r
  <2>6. r \in Seq(Name)
    BY <2>1, <2>5
  <2> QED
    BY <2>2, <2>6 DEF Path
<1>3. TrimSlashes(path) \in Path
  <2>1. TrimFront(path) \in Path
    BY <1>1
  <2>2. Reverse(TrimFront(path)) \in Path
    BY <1>2, <2>1
  <2>3. TrimFront(Reverse(TrimFront(path))) \in Path
    BY <1>1, <2>2
  <2>4. Reverse(TrimFront(Reverse(TrimFront(path)))) \in Path
    BY <1>2, <2>3
  <2> QED
    BY <2>4, Zenon DEF TrimSlashes
<1> QED
  BY <1>1, <1>3

LEMMA SpecIsPath ==
  ASSUME NEW path \in Path, path # <<>>, WithMd[Last(path)] \in STRING
  PROVE  SpecPath(path) \in Path
<1> DEFINE name == WithMd[Last(path)]
           at == Front(path)
<1>1. at \in Path /\ name \in Name
  BY FrontAndLast DEF Name
<1>2. SpecPath(path) = <<"spec">> \o at \o <<name>>
  BY DEF SpecPath
<1> HIDE DEF at, name
<1>3. \A x \in Name : <<x>> \in Seq(Name)
  OBVIOUS
<1>4. "spec" \in Name
  <2>1. "spec" \in STRING
    BY PathsAssumption, Zenon
  <2> QED
    BY <2>1 DEF Name
<1> DEFINE spec == <<"spec">>
<1>5. spec \in Seq(Name) /\ <<name>> \in Seq(Name)
  BY <1>1, <1>3, <1>4
<1> HIDE DEF spec
<1>6. spec \o at \in Seq(Name)
  BY <1>1, <1>5, ConcatIs DEF Path
<1>7. (spec \o at) \o <<name>> \in Seq(Name)
  BY <1>5, <1>6, ConcatIs
<1> QED
  BY <1>2, <1>7 DEF Path, spec

\* A file of the workspace is checked by its real path.
LEMMA WorkspaceFileIsReal ==
  ASSUME TreeInv, HasWorkspace(mounts), NEW p \in Path,
         UnderWorkspace(tree, WorkspaceOf(mounts), p) # Missing
  PROVE  LET file == UnderWorkspace(tree, WorkspaceOf(mounts), p) IN Canonical(tree, file) = file
<1> DEFINE workspace == WorkspaceOf(mounts)
           file == UnderWorkspace(tree, workspace, p)
           q == workspace \o TrimFront(p)
<1>1. IsTree(tree) /\ MountsOk(mounts)
  BY TreeIsTree DEF TreeInv
<1>2. workspace \in Path
  <2>1. workspace \in Bases(mounts)
    BY Zenon DEF Bases
  <2> QED
    BY <1>1, <2>1, BasesArePaths
<1>3. q \in Path
  BY <1>2, TrimmedIsPath, ConcatIs DEF Path
<1>4. file = Canonical(tree, q)
  BY Zenon DEF UnderWorkspace
<1> HIDE DEF q
<1>5. file \in Real(tree)
  BY <1>1, <1>3, <1>4, CanonicalIsReal
<1> HIDE DEF file
<1>6. Canonical(tree, file) = file
  BY <1>1, <1>5, RealIsCanonical
<1> QED
  BY <1>6 DEF file

LEMMA NoIdIsPath == NoId \in Path
<1>1. "" \in Name
  BY PathsAssumption, Zenon DEF Name
<1>2. \A x \in Name : <<x>> \in Seq(Name)
  OBVIOUS
<1>3. <<"">> \in Seq(Name)
  BY <1>1, <1>2
<1> QED
  BY <1>3, Zenon DEF NoId, Path

\* The id of what hover finds is a path.
LEMMA HoverIdIsPath ==
  ASSUME TypeInv, NEW c \in Calls(tree), StartHover(c)
  PROVE  id' \in Path
<1> DEFINE path == c.path
           found == ResolveFile(tree, mounts, path)
<1>0. TreeInv /\ IsTree(tree) /\ MountsOk(mounts)
  BY TreeIsTree DEF TypeInv, TreeInv
<1>1. path \in Path /\ path # <<>>
  <2>1. tree \in Trees /\ c.tool = "hover"
    BY <1>0 DEF TreeInv, StartHover
  <2> QED
    BY <2>1, RequestsAssumption DEF Path, Name
<1>2. IF found.how = "found" THEN id' = IdOf(found.mount, found.file) ELSE id' = NoId
  BY Zenon DEF StartHover
<1>3. NoId \in Path
  BY NoIdIsPath
<1>4. \/ found.how # "found"
      \/ \E i \in DOMAIN mounts : \E f \in Real(tree) :
           found = InMount(mounts, i, f) /\ Below(mounts[i].root, f)
  <2>1. None.how = "none" /\ Escapes.how = "escapes" /\ [how |-> "outside"].how = "outside"
    BY DEF None, Escapes
  <2>2. path = <<"">> => found = None
    BY Zenon DEF ResolveFile
  <2>3. path # <<"">> =>
          \/ \E i \in DOMAIN mounts : \E f \in Real(tree) :
               found = InMount(mounts, i, f) /\ Below(mounts[i].root, f)
          \/ found \in {None, Escapes, [how |-> "outside"]}
    BY <1>0, <1>1, FileIs, Zenon
  <2> HIDE DEF found, path
  <2> QED
    BY <2>1, <2>2, <2>3
<1> HIDE DEF found, path
<1>5. ASSUME NEW i \in DOMAIN mounts, NEW f \in Real(tree),
             found = InMount(mounts, i, f), Below(mounts[i].root, f)
      PROVE  id' \in Path
  <2>1. IdOf(mounts[i], f) \in Path
    BY <1>0, <1>5, IdResolves
  <2>2. found.how = "found" /\ found.mount = mounts[i] /\ found.file = f
    BY <1>5 DEF InMount
  <2> QED
    BY <1>2, <2>1, <2>2
<1> QED
  BY <1>2, <1>3, <1>4, <1>5

\* A path that was checked leads to itself as long as nothing changes.
CheckInv ==
  /\ swapped => moved /\ call # Idle
  /\ id \in Path
  /\ opened # NoFile /\ ~swapped => Canonical(tree, opened.file) = opened.file
  /\ "file" \in DOMAIN reply /\ ~swapped => reply.read = reply.file

LEMMA CheckFrom ==
  ASSUME CheckInv, tree' = tree, id' \in Path, swapped' = swapped,
         swapped => moved' /\ call' # Idle,
         opened' # NoFile /\ ~swapped => Canonical(tree, opened'.file) = opened'.file,
         "file" \in DOMAIN reply' /\ ~swapped => reply'.read = reply'.file
  PROVE  CheckInv'
BY Zenon DEF CheckInv

LEMMA AnswersCheck ==
  ASSUME TypeInv, CheckInv, NEW c, NEW answer, Answers(c, answer), "file" \notin DOMAIN answer
  PROVE  CheckInv'
<1>1. /\ tree' = tree /\ id' = id /\ opened' = opened /\ swapped' = swapped
      /\ reply' = answer /\ call = Idle
  BY DEF Answers, Begins
<1>2. opened' = NoFile
  BY <1>1, IdleHoldsNothing
<1>3. ~swapped /\ id' \in Path
  BY <1>1 DEF CheckInv
<1> QED
  BY <1>1, <1>2, <1>3, CheckFrom

LEMMA LooksUpChecks ==
  ASSUME TreeInv, NEW c, NEW doc \in Path, LooksUp(c, doc)
  PROVE  /\ opened' # NoFile => Canonical(tree, opened'.file) = opened'.file
         /\ "file" \notin DOMAIN reply'
<1>1. IsTree(tree) /\ MountsOk(mounts)
  BY TreeIsTree DEF TreeInv
<1>2. CASE opened' = NoFile /\ \E why \in Whys : reply' = Refusal(c, why)
  BY <1>2, RefusalIs
<1>3. ASSUME NEW i \in DOMAIN mounts, NEW f, ResolveDoc(tree, mounts, doc) = InMount(mounts, i, f),
             opened' = InMount(mounts, i, f), reply' = NoReply
      PROVE  Canonical(tree, opened'.file) = opened'.file /\ "file" \notin DOMAIN reply'
  <2>1. opened'.file = f
    BY <1>3 DEF InMount
  <2>2. "file" \notin DOMAIN NoReply
    BY DEF NoReply
  <2> QED
    BY <1>1, <1>3, <2>1, <2>2, ResolvedIsReal
<1>4. "not_found" \in Whys /\ "invalid" \in Whys
  BY DEF Whys
<1> QED
  BY <1>1, <1>2, <1>3, <1>4, LooksUpIs

LEMMA StartsCheck ==
  ASSUME TypeInv, CheckInv, NEW c \in Calls(tree), StartGet(c) \/ StartResource(c)
  PROVE  CheckInv'
<1>1. /\ call = Idle /\ call' = c /\ c.tool \in {"get_doc", "get_chunk", "read_resource"}
      /\ tree' = tree /\ id' = id /\ swapped' = swapped
  BY StartsAre
<1>2. TreeInv /\ tree \in Trees
  BY DEF TypeInv, TreeInv
<1>3. ~swapped /\ id' \in Path
  BY <1>1 DEF CheckInv
<1>4. c.path \in Path /\ c.path # <<>>
  BY <1>1, <1>2, RequestsAssumption DEF Path, Name
<1>5. ASSUME /\ opened' # NoFile => Canonical(tree, opened'.file) = opened'.file
             /\ "file" \notin DOMAIN reply'
      PROVE  CheckInv'
  BY <1>1, <1>3, <1>5, CheckFrom
<1>6. ASSUME NEW doc \in Path, LooksUp(c, doc) PROVE CheckInv'
  BY <1>2, <1>5, <1>6, LooksUpChecks
<1>7. CASE StartGet(c)
  <2>1. LooksUp(c, c.path)
    BY <1>7 DEF StartGet
  <2> QED
    BY <1>4, <1>6, <2>1
<1>8. CASE StartResource(c)
  <2> DEFINE part == TrimSlashes(c.path)
  <2>1. part \in Path /\ (part # <<>> => Front(part) \in Path)
    BY <1>4, TrimmedIsPath, FrontAndLast
  <2>2. CASE part # <<>> /\ (LooksUp(c, part) \/ LooksUp(c, Front(part)))
    BY <1>6, <2>1, <2>2
  <2>3. ASSUME NEW p, UnderWorkspace(tree, WorkspaceOf(mounts), p) # Missing, HasWorkspace(mounts),
               p = c.path \/ (c.scheme = "spec" /\ c.path # <<"">> /\ p = SpecPath(c.path)),
               opened' = [how |-> "workspace", file |-> UnderWorkspace(tree, WorkspaceOf(mounts), p)],
               reply' = NoReply
        PROVE  CheckInv'
    <3> DEFINE file == UnderWorkspace(tree, WorkspaceOf(mounts), p)
    <3>1. p \in Path
      <4>1. ASSUME c.scheme = "spec", c.path # <<"">> PROVE SpecPath(c.path) \in Path
        <5>1. c.tool = "read_resource"
          BY <1>8, Zenon DEF StartResource
        <5>2. \A t \in Trees : \A x \in Calls(t) :
                x.tool = "read_resource" /\ x.scheme = "spec" /\ x.path # <<"">> => WithMd[Last(x.path)] \in STRING
          BY RequestsAssumption, Zenon
        <5>3. WithMd[Last(c.path)] \in STRING
          BY <1>2, <4>1, <5>1, <5>2, Zenon
        <5> QED
          BY <1>4, <5>3, SpecIsPath
      <4> QED
        BY <1>4, <2>3, <4>1, Zenon
    <3>2. Canonical(tree, file) = file
      BY <1>2, <2>3, <3>1, WorkspaceFileIsReal
    <3> HIDE DEF file
    <3>3. opened'.file = file
      BY <2>3 DEF file
    <3>4. "file" \notin DOMAIN NoReply
      BY DEF NoReply
    <3> QED
      BY <1>5, <2>3, <3>2, <3>3, <3>4
  <2>4. CASE opened' = NoFile /\ reply' = NotFound
    <3>1. "file" \notin DOMAIN NotFound
      BY DEF NotFound
    <3> QED
      BY <1>5, <2>4, <3>1
  <2> QED
    BY <1>8, <2>2, <2>3, <2>4, StartResourceIs, Zenon
<1> QED
  BY <1>7, <1>8

LEMMA WorksCheck ==
  ASSUME TypeInv, CheckInv, Works
  PROVE  CheckInv'
<1>1. tree' = tree /\ call' = call /\ moved' = moved /\ swapped' = swapped /\ id' \in {id, NoId}
  BY WorksAre
<1>2. TreeInv /\ Checked(opened) /\ id \in Path
  BY DEF TypeInv, CheckInv
<1>3. id' = id \/ LookUp
  BY Zenon DEF Works, LookUp, Measure, ReadDoc, ReadFile, EndHover
<1>4. id' \in Path
  <2>1. LookUp => id' = NoId
    BY Zenon DEF LookUp
  <2> QED
    BY <1>2, <1>3, <2>1, NoIdIsPath
<1>5. ASSUME /\ opened' # NoFile /\ ~swapped => Canonical(tree, opened'.file) = opened'.file
             /\ "file" \in DOMAIN reply' /\ ~swapped => reply'.read = reply'.file
      PROVE  CheckInv'
  <2>1. swapped => moved' /\ call' # Idle
    BY <1>1, Zenon DEF CheckInv
  <2> QED
    BY <1>1, <1>4, <1>5, <2>1, CheckFrom
<1>6. opened # NoFile /\ ~swapped => Canonical(tree, opened.file) = opened.file
  BY Zenon DEF CheckInv
<1>8. NoFile.how = "none" /\ "file" \notin DOMAIN NoReply /\ "file" \notin DOMAIN NotFound
  BY DEF NoFile, NoReply, NotFound
<1>9. CASE LookUp
  <2>1. LooksUp(call, id)
    BY <1>9 DEF LookUp
  <2> QED
    BY <1>2, <1>5, <2>1, LooksUpChecks
<1>10. CASE Measure
  <2>1. CASE \E why \in Whys : opened' = NoFile /\ reply' = Refusal(call, why)
    BY <1>5, <2>1, RefusalIs
  <2>2. CASE opened' = [opened EXCEPT !.how = "measured"] /\ reply' = NoReply
    <3>1. opened.how = "found"
      BY <1>10, MeasureIs
    <3>2. PICK i \in DOMAIN mounts :
            opened = [how |-> opened.how, mount |-> mounts[i], file |-> opened.file]
      BY <1>2, <3>1, MountIsOpen
    <3>3. opened'.file = opened.file
      <4> DEFINE f == opened.file
      <4>1. opened = [how |-> "found", mount |-> mounts[i], file |-> f]
        BY <3>1, <3>2
      <4> HIDE DEF f
      <4>2. opened'.file = f
        BY <2>2, <4>1
      <4> QED
        BY <4>2 DEF f
    <3>4. opened # NoFile
      BY <1>8, <3>1
    <3> QED
      BY <1>5, <1>6, <1>8, <2>2, <3>3, <3>4
  <2>3. "error" \in Whys /\ "invalid" \in Whys
    BY DEF Whys
  <2> QED
    BY <1>10, <2>1, <2>2, <2>3, MeasureIs
<1>11. ASSUME opened.how \in {"measured", "workspace"}, opened' = NoFile,
              \/ "file" \notin DOMAIN reply'
              \/ reply'.file = opened.file /\ reply'.read = Canonical(tree, opened.file)
       PROVE  CheckInv'
  <2>1. opened # NoFile
    BY <1>8, <1>11
  <2> QED
    BY <1>5, <1>6, <1>11, <2>1
<1>12. "not_found" \in Whys
  BY DEF Whys
<1>13. CASE ReadDoc
  <2> DEFINE r == [tool |-> "doc", outcome |-> "answered", file |-> opened.file,
                   read |-> Canonical(tree, opened.file),
                   id |-> IdOf(opened.mount, opened.file)]
  <2>1. opened.how = "measured" /\ opened' = NoFile /\ reply' \in {Refusal(call, "not_found"), r}
    BY <1>13, ReadDocIs
  <2>2. r.file = opened.file /\ r.read = Canonical(tree, opened.file)
    OBVIOUS
  <2> HIDE DEF r
  <2> QED
    BY <1>11, <1>12, <2>1, <2>2, RefusalIs
<1>14. CASE ReadFile
  <2> DEFINE r == [tool |-> "resource", outcome |-> "answered", file |-> opened.file,
                   read |-> Canonical(tree, opened.file)]
  <2>1. opened.how = "workspace" /\ opened' = NoFile /\ reply' \in {NotFound, r}
    BY <1>14, ReadFileIs
  <2>2. r.file = opened.file /\ r.read = Canonical(tree, opened.file)
    OBVIOUS
  <2> HIDE DEF r
  <2> QED
    BY <1>8, <1>11, <2>1, <2>2
<1>15. CASE EndHover
  <2> DEFINE file == Canonical(tree, opened.file)
             at == Hovered(TextOf(file), call.line, call.column, call.symbol)
             outcome == IF at.snippet[1] > at.snippet[2] THEN "panicked" ELSE "answered"
             r == [tool |-> "hover", outcome |-> outcome, file |-> opened.file, read |-> file,
                   id |-> IdOf(opened.mount, opened.file), at |-> at]
  <2>1. opened.how = "measured" /\ opened' = NoFile /\ reply' \in {Refusal(call, "not_found"), r}
    BY <1>15, EndHoverIs, Zenon
  <2> HIDE DEF at, outcome
  <2>2. r.file = opened.file /\ r.read = Canonical(tree, opened.file)
    OBVIOUS
  <2> HIDE DEF r, file
  <2> QED
    BY <1>11, <1>12, <2>1, <2>2, RefusalIs
<1> QED
  BY <1>9, <1>10, <1>13, <1>14, <1>15 DEF Works

LEMMA NextCheck ==
  ASSUME TypeInv, CheckInv, [Next]_vars
  PROVE  CheckInv'
<1>1. ASSUME NEW c \in Calls(tree), StartGet(c) \/ StartResource(c) PROVE CheckInv'
  BY <1>1, StartsCheck
<1>2. CASE Works
  BY <1>2, WorksCheck
<1>3. ASSUME NEW c \in Calls(tree), StartHover(c) PROVE CheckInv'
  <2>1. id' \in Path
    BY <1>3, HoverIdIsPath
  <2>2. /\ tree' = tree /\ opened' = opened /\ swapped' = swapped /\ call = Idle
        /\ \/ reply' = NoReply
           \/ reply' = [tool |-> "hover", outcome |-> "invalid"]
           \/ \E reason : reply' = Failed(c.path, reason)
    BY <1>3, Zenon DEF StartHover, Begins
  <2>3. opened' = NoFile /\ ~swapped
    BY <2>2, IdleHoldsNothing, Zenon DEF CheckInv
  <2>4. "file" \notin DOMAIN reply'
    <3>1. \A path, reason : "file" \notin DOMAIN Failed(path, reason)
      BY DEF Failed
    <3>2. "file" \notin DOMAIN NoReply /\ "file" \notin DOMAIN [tool |-> "hover", outcome |-> "invalid"]
      BY DEF NoReply
    <3> QED
      BY <2>2, <3>1, <3>2
  <2> QED
    BY <2>1, <2>2, <2>3, <2>4, CheckFrom
<1>4. ASSUME NEW c, ListResources(c) \/ Locate(c) \/ Reindex(c) PROVE CheckInv'
  <2>1. \E answer : Answers(c, answer) /\ "file" \notin DOMAIN answer
    <3>1. \A listed : "file" \notin DOMAIN [tool |-> "list_resources", outcome |-> "answered", listed |-> listed]
      OBVIOUS
    <3>2. \A hits : "file" \notin DOMAIN [tool |-> "locate", outcome |-> "answered", hits |-> hits]
      OBVIOUS
    <3>3. \A effective, paths, allowed :
            "file" \notin DOMAIN [tool |-> "reindex", outcome |-> "answered", effective |-> effective,
                                  paths |-> paths, allowed |-> allowed]
      OBVIOUS
    <3>4. "file" \notin DOMAIN [tool |-> "reindex", outcome |-> "invalid"]
      OBVIOUS
    <3>5. CASE ListResources(c)
      BY <3>1, <3>5, Zenon DEF ListResources
    <3>6. CASE Locate(c)
      BY <3>2, <3>6, Zenon DEF Locate
    <3>7. CASE Reindex(c)
      <4>1. \/ \E effective, paths, allowed :
                 Answers(c, [tool |-> "reindex", outcome |-> "answered", effective |-> effective,
                             paths |-> paths, allowed |-> allowed])
            \/ Answers(c, [tool |-> "reindex", outcome |-> "invalid"])
        BY <3>7, Zenon DEF Reindex
      <4> QED
        BY <3>3, <3>4, <4>1, Zenon
    <3> QED
      BY <1>4, <3>5, <3>6, <3>7
  <2> QED
    BY <2>1, AnswersCheck
<1>5. CASE Done
  <2>1. /\ tree' = tree /\ swapped' = FALSE /\ id' = id /\ opened' = opened
        /\ reply # NoReply /\ reply' = NoReply
    BY <1>5 DEF Done
  <2>2. opened' = NoFile /\ id' \in Path
    BY <2>1 DEF TypeInv, CheckInv
  <2>3. "file" \notin DOMAIN NoReply
    BY DEF NoReply
  <2> QED
    BY <2>1, <2>2, <2>3, Zenon DEF CheckInv
<1>6. CASE Edit
  <2>1. /\ moved' = TRUE /\ call' = call /\ id' = id /\ opened' = opened /\ reply' = reply
        /\ swapped' = (swapped \/ opened # NoFile)
    BY <1>6 DEF Edit
  <2>2. opened # NoFile => call # Idle
    BY IdleHoldsNothing
  <2>3. /\ id \in Path
        /\ swapped => call # Idle
        /\ "file" \in DOMAIN reply /\ ~swapped => reply.read = reply.file
    BY Zenon DEF CheckInv
  <2> QED
    BY <2>1, <2>2, <2>3, Zenon DEF CheckInv
<1>7. CASE UNCHANGED vars
  BY <1>7, Zenon DEF vars, CheckInv
<1> QED
  BY <1>1, <1>2, <1>3, <1>4, <1>5, <1>6, <1>7, Zenon DEF Next, Works

LEMMA AlwaysChecked == Spec => []CheckInv
<1>1. Init => CheckInv
  <2> SUFFICES ASSUME Init PROVE CheckInv
    OBVIOUS
  <2>1. swapped = FALSE /\ id = NoId /\ opened = NoFile /\ reply = NoReply
    BY DEF Init
  <2>2. "file" \notin DOMAIN NoReply
    BY DEF NoReply
  <2> QED
    BY <2>1, <2>2, NoIdIsPath, Zenon DEF CheckInv
<1>2. TypeInv /\ CheckInv /\ [Next]_vars => CheckInv'
  BY NextCheck
<1> QED
  BY <1>1, <1>2, AlwaysType, PTL DEF Spec

\* ServedIsInside: whatever links there are, however a path is written and whatever
\* changes between the steps of a call, the path that a reply names lies in the mount of
\* its id, or is a markdown file of the workspace; and its content is that of this very
\* file, if nothing changes between the check of the path and the read.
THEOREM ServedStaysInside == Spec => []ServedIsInside
<1>1. TypeInv /\ CheckInv => ServedIsInside
  <2> SUFFICES ASSUME TypeInv, CheckInv, "file" \in DOMAIN reply PROVE ServedIsInside
    BY Zenon DEF ServedIsInside
  <2>1. ~swapped => reply.read = reply.file
    BY Zenon DEF CheckInv
  <2> QED
    BY <2>1, Zenon DEF TypeInv, Proper, Inside, ServedIsInside
<1> QED
  BY <1>1, AlwaysType, AlwaysChecked, PTL

-----------------------------------------------------------------------------

(* Why hover finds nothing. *)

\* ReasonIsTrue, of a hover that fails by its path.
TextlessWay(way) == way.how = "found" => TextOf(way.file) = <<>>

NothingThere(path) ==
  LET byId   == ResolveDoc(tree, mounts, path)
      byPath == ResolveCandidates(tree, mounts, Candidates(mounts, path))
  IN \/ \E f \in InsideOf(path) : Shadowed(mounts[1], f)
     \/ \E i \in DOMAIN mounts : IsFile(tree, mounts[i].root)
     \/ IF ~IsAbsolute(path) /\ byId.how = "found" THEN TextlessWay(byId) ELSE TextlessWay(byPath)

TrueReason(path, reason) ==
  /\ reason = "outside_root" => RealOf(path) # {} /\ InsideOf(path) = {}
  /\ reason \in {"not_found", "unmapped_source"} => NothingThere(path)
  /\ reason = "unmapped_source" => \A s \in sources : s # path[1]
  /\ \A p \in Suggestions(path) : NoneReason(p) # "unmapped_source"

LEMMA SuggestionsAreMapped ==
  ASSUME NEW path \in Path
  PROVE  \A p \in Suggestions(path) : NoneReason(p) # "unmapped_source"
<1>1. \A p : SourceExists(p[1]) => NoneReason(p) # "unmapped_source"
  BY DEF NoneReason
<1> DEFINE locals == sources \cap LocalNames
           short(part) == {s \in locals : part # Blank /\ Lower[part] = Alias[s]}
           On(i) == i < Len(path) /\ short(path[i]) # {}
<1>2. \A part : short(part) \subseteq locals
  OBVIOUS
<1>3. \A s \in locals : SourceExists(s) /\ s \in Name
  BY NamesArePaths DEF SourceExists
<1>4. ASSUME NEW s \in locals, NEW q \in Seq(Name) PROVE SourceExists((<<s>> \o q)[1])
  <2>1. (<<s>> \o q)[1] = s
    BY <1>3, OneAndRest
  <2> QED
    BY <1>3, <2>1
<1>5. \/ SourceExists(path[1]) /\ Suggestions(path) = {path}
      \/ Len(path) > 1 /\ Suggestions(path) = {<<s>> \o Tail(path) : s \in short(path[1])}
      \/ Suggestions(path) =
           UNION {{<<s>> \o SubSeq(path, i + 1, Len(path)) : s \in short(path[i])} :
                   i \in {j \in 2..Len(path) : On(j)}}
      \/ Suggestions(path) = {}
  BY Zenon DEF Suggestions, Labelled
<1> HIDE DEF locals, short
<1>6. path \in Seq(Name) /\ Len(path) \in Nat
  BY DEF Path
<1>7. Len(path) > 1 => Tail(path) \in Seq(Name)
  BY <1>6
<1>8. ASSUME NEW i \in 2..Len(path), On(i) PROVE SubSeq(path, i + 1, Len(path)) \in Seq(Name)
  <2> DEFINE k == i + 1
  <2>1. k \in 1..(Len(path) + 1) /\ Len(path) \in (k - 1)..Len(path)
    BY <1>6
  <2> HIDE DEF k
  <2>2. SubSeq(path, k, Len(path)) \in Seq(Name)
    BY <1>6, <2>1, SubSeqIs
  <2> QED
    BY <2>2 DEF k
<1>9. ASSUME NEW p \in UNION {{<<s>> \o SubSeq(path, i + 1, Len(path)) : s \in short(path[i])} :
                                i \in {j \in 2..Len(path) : On(j)}}
      PROVE  SourceExists(p[1])
  <2>1. PICK i \in {j \in 2..Len(path) : On(j)} :
          p \in {<<s>> \o SubSeq(path, i + 1, Len(path)) : s \in short(path[i])}
    BY <1>9
  <2>2. PICK s \in short(path[i]) : p = <<s>> \o SubSeq(path, i + 1, Len(path))
    BY <2>1
  <2>3. s \in locals /\ SubSeq(path, i + 1, Len(path)) \in Seq(Name)
    BY <1>2, <1>8, <2>1, <2>2
  <2> QED
    BY <1>4, <2>2, <2>3
<1>10. ASSUME Len(path) > 1, NEW p \in {<<s>> \o Tail(path) : s \in short(path[1])}
       PROVE  SourceExists(p[1])
  BY <1>2, <1>4, <1>7, <1>10
<1> HIDE DEF On
<1> QED
  BY <1>1, <1>5, <1>9, <1>10

LEMMA NoneReasonIs ==
  ASSUME NEW path
  PROVE  /\ NoneReason(path) \in {"not_found", "unmapped_source"}
         /\ NoneReason(path) = "unmapped_source" => \A s \in sources : s # path[1]
BY DEF NoneReason, SourceExists

LEMMA NothingIsTrue ==
  ASSUME NEW path \in Path, NothingThere(path)
  PROVE  TrueReason(path, NoneReason(path))
BY NoneReasonIs, SuggestionsAreMapped DEF TrueReason

LEMMA OthersAreTrue ==
  ASSUME NEW path \in Path
  PROVE  /\ TrueReason(path, "invalid_input")
         /\ RealOf(path) # {} /\ InsideOf(path) = {} => TrueReason(path, "outside_root")
BY SuggestionsAreMapped DEF TrueReason

\* The id that hover comes to leads to nothing with a text, so there was none.
LEMMA HoverHasNoText ==
  ASSUME TreeInv, NEW path \in Path, path # <<>>,
         NEW i \in DOMAIN mounts, NEW f \in Real(tree), Below(mounts[i].root, f), By(path, i, f),
         LET way == ResolveDoc(tree, mounts, IdOf(mounts[i], f)) IN
         way = None \/ \E k, g : way = InMount(mounts, k, g) /\ TextOf(g) = <<>>
  PROVE  NothingThere(path)
<1> DEFINE way == ResolveDoc(tree, mounts, IdOf(mounts[i], f))
<1>0. IsTree(tree) /\ f # Missing
  BY TreeIsTree, MissingIsNotReal DEF TreeInv
<1>1. \A k, g : InMount(mounts, k, g).file = g /\ InMount(mounts, k, g).how = "found" /\ None.how = "none"
  BY DEF InMount, None
<1>2. ASSUME ~IsFile(tree, mounts[i].root), ~(i = 1 /\ Shadowed(mounts[1], f))
      PROVE  TextOf(f) = <<>>
  <2>1. \/ f = mounts[i].root /\ way = None
        \/ way = InMount(mounts, i, f)
    BY <1>2, IdLeads
  <2>2. f = mounts[i].root => TextOf(f) = <<>>
    BY <1>2 DEF TextOf
  <2>3. way = None \/ \E k, g : way = InMount(mounts, k, g) /\ TextOf(g) = <<>>
    OBVIOUS
  <2> HIDE DEF way
  <2> QED
    BY <1>1, <2>1, <2>2, <2>3
<1>3. \/ ~IsAbsolute(path) /\ ResolveDoc(tree, mounts, path) = InMount(mounts, i, f)
      \/ /\ NotAnId(path)
         /\ ResolveCandidates(tree, mounts, Candidates(mounts, path)) = InMount(mounts, i, f)
  BY Zenon DEF By, ByLabel, ByCorpus, ByPlace
<1>4. i = 1 => f \in InsideOf(path)
  <2> SUFFICES ASSUME i = 1 PROVE f \in InsideOf(path)
    OBVIOUS
  <2>1. CASE ByPlace(path, i, f)
    BY <2>1 DEF ByPlace
  <2>2. CASE ByCorpus(path, i, f)
    <3>1. MountsOk(mounts)
      BY DEF TreeInv
    <3> DEFINE cs == Candidates(mounts, path)
    <3>2. PICK k \in DOMAIN cs : cs[k] = Join(mounts[1].root, path)
      BY <3>1, CandidatesAre
    <3>3. cs[k] \in ToSet(cs) /\ f = Canonical(tree, cs[k])
      BY <2>2, <3>2 DEF ByCorpus, ToSet
    <3> HIDE DEF cs
    <3>4. f \in RealOf(path)
      BY <1>0, <3>3 DEF RealOf, cs
    <3> QED
      BY <3>4 DEF InsideOf
  <2>3. ~ByLabel(path, i, f)
    BY DEF ByLabel
  <2> QED
    BY <2>1, <2>2, <2>3 DEF By
<1>5. CASE TextOf(f) = <<>>
  <2> DEFINE byId == ResolveDoc(tree, mounts, path)
             byPath == ResolveCandidates(tree, mounts, Candidates(mounts, path))
  <2>1. TextlessWay(InMount(mounts, i, f))
    BY <1>1, <1>5 DEF TextlessWay
  <2>2. IF ~IsAbsolute(path) /\ byId.how = "found" THEN TextlessWay(byId) ELSE TextlessWay(byPath)
    <3>1. NotAnId(path) => IsAbsolute(path) \/ byId.how = "none"
      BY DEF NotAnId
    <3> HIDE DEF byId, byPath
    <3> QED
      BY <1>1, <1>3, <2>1, <3>1 DEF byId, byPath
  <2> QED
    BY <2>2, Zenon DEF NothingThere
<1>6. CASE TextOf(f) # <<>>
  <2>1. IsFile(tree, mounts[i].root) \/ (i = 1 /\ Shadowed(mounts[1], f))
    BY <1>2, <1>6
  <2> QED
    BY <1>4, <2>1, Zenon DEF NothingThere
<1> QED
  BY <1>5, <1>6

\* A hover holds the id of a file that its path leads to.
FoundAt(path, d) ==
  /\ path \in Path /\ path # <<>>
  /\ \E i \in DOMAIN mounts : \E f \in Real(tree) :
       /\ Below(mounts[i].root, f) /\ By(path, i, f)
       /\ d = IdOf(mounts[i], f)

\* What it has opened is what such an id leads to.
OpenedAt(path, o) ==
  /\ o.how \in {"found", "measured"}
  /\ \E d : /\ FoundAt(path, d)
           /\ \E k \in DOMAIN mounts : ResolveDoc(tree, mounts, d) = InMount(mounts, k, o.file)

\* What is true of a hover of this path that has this id, this open path and this reply.
Kept(path, d, o, r) ==
  /\ d # NoId => FoundAt(path, d)
  /\ o # NoFile => OpenedAt(path, o)
  /\ r.outcome = "answered" => OfTheFile(path, r.read)
  /\ r.outcome = "failed" =>
       \E reason : r = Failed(path, reason) /\ TrueReason(path, reason)

HoverInv == call.tool = "hover" /\ ~moved => Kept(call.path, id, opened, reply)

LEMMA SameFiles ==
  ASSUME tree' = tree, mounts' = mounts, sources' = sources
  PROVE  \A path, d, o, r : Kept(path, d, o, r)' = Kept(path, d, o, r)
<1>1. \A path, i, f : By(path, i, f)' = By(path, i, f)
  <2>1. \A path : InsideOf(path)' = InsideOf(path) /\ RealOf(path)' = RealOf(path)
    BY DEF InsideOf, RealOf
  <2>2. \A path : NotAnId(path)' = NotAnId(path)
    BY DEF NotAnId
  <2> QED
    BY <2>1, <2>2 DEF By, ByLabel, ByCorpus, ByPlace
<1>2. \A path, d : FoundAt(path, d)' = FoundAt(path, d)
  BY <1>1 DEF FoundAt
<1>3. \A m, f : Shadowed(m, f)' = Shadowed(m, f)
  BY DEF Shadowed
<1>4. \A path, f : OfTheFile(path, f)' = OfTheFile(path, f)
  <2>1. \A path : Led(path)' = Led(path) /\ Own(path)' = Own(path)
    BY DEF Led, Own
  <2>2. \A path : LedByLabel(path)' = LedByLabel(path)
    BY <2>1 DEF LedByLabel
  <2> QED
    BY <1>3, <2>1, <2>2 DEF OfTheFile
<1>5. \A label : SourceExists(label)' = SourceExists(label)
  BY DEF SourceExists
<1>6. \A path : NoneReason(path)' = NoneReason(path)
  BY <1>5 DEF NoneReason
<1>7. \A path : Suggestions(path)' = Suggestions(path)
  BY <1>5 DEF Suggestions
<1>8. \A path, reason : Failed(path, reason)' = Failed(path, reason)
  BY <1>7 DEF Failed
<1>9. \A path : NothingThere(path)' = NothingThere(path)
  <2>1. \A path : InsideOf(path)' = InsideOf(path)
    BY DEF InsideOf, RealOf
  <2>2. \A way : TextlessWay(way)' = TextlessWay(way)
    BY DEF TextlessWay, TextOf, IsFile
  <2>3. \A file : IsFile(tree, file)' = IsFile(tree, file)
    OBVIOUS
  <2> QED
    BY <1>3, <2>1, <2>2, <2>3 DEF NothingThere
<1>10. \A path, reason : TrueReason(path, reason)' = TrueReason(path, reason)
  <2>1. \A path : InsideOf(path)' = InsideOf(path) /\ RealOf(path)' = RealOf(path)
    BY DEF InsideOf, RealOf
  <2> QED
    BY <1>6, <1>7, <1>9, <2>1 DEF TrueReason
<1>11. \A path, o : OpenedAt(path, o)' = OpenedAt(path, o)
  BY <1>2 DEF OpenedAt
<1> QED
  BY <1>2, <1>4, <1>8, <1>10, <1>11 DEF Kept

-----------------------------------------------------------------------------
(* Hover, which works in several steps. *)

LEMMA StartHoverKeeps ==
  ASSUME TypeInv, NEW c \in Calls(tree), StartHover(c)
  PROVE  Kept(c.path, id', NoFile, reply')
<1> DEFINE path == c.path
           found == ResolveFile(tree, mounts, path)
           why == CASE found.how = "none"    -> NoneReason(path)
                    [] found.how = "outside" -> "outside_root"
                    [] OTHER                 -> "invalid_input"
<1>0. TreeInv
  BY DEF TypeInv
<1>1. path \in Path /\ path # <<>>
  <2>1. tree \in Trees /\ c.tool = "hover"
    BY <1>0 DEF TreeInv, StartHover
  <2> QED
    BY <2>1, RequestsAssumption DEF Path, Name
<1>2. IF found.how = "found"
      THEN id' = IdOf(found.mount, found.file) /\ reply' = NoReply
      ELSE /\ id' = NoId
           /\ reply' = IF path = <<"">> THEN [tool |-> "hover", outcome |-> "invalid"]
                       ELSE Failed(path, why)
  BY Zenon DEF StartHover
<1>3. /\ None.how = "none" /\ Escapes.how = "escapes" /\ [how |-> "outside"].how = "outside"
      /\ NoReply.outcome = "none"
      /\ [tool |-> "hover", outcome |-> "invalid"].outcome = "invalid"
      /\ \A i, f : /\ InMount(mounts, i, f).how = "found"
                  /\ InMount(mounts, i, f).mount = mounts[i]
                  /\ InMount(mounts, i, f).file = f
      /\ \A reason : Failed(path, reason).outcome = "failed"
  BY DEF None, Escapes, NoReply, InMount, Failed
<1>4. \A reason : TrueReason(path, reason) => Kept(path, NoId, NoFile, Failed(path, reason))
  BY <1>3 DEF Kept
<1>5. CASE path = <<"">>
  <2>1. found = None
    BY <1>5 DEF ResolveFile
  <2> HIDE DEF found, why, path
  <2> QED
    BY <1>2, <1>3, <1>5, <2>1 DEF Kept, path
<1>6. CASE path # <<"">>
  <2>1. \/ \E i \in DOMAIN mounts : \E f \in Real(tree) :
             /\ found = InMount(mounts, i, f) /\ Below(mounts[i].root, f)
             /\ By(path, i, f)
        \/ found = Escapes
        \/ /\ NotAnId(path) /\ found = None
           /\ ResolveCandidates(tree, mounts, Candidates(mounts, path)) = None
        \/ found = [how |-> "outside"] /\ RealOf(path) # {} /\ InsideOf(path) = {}
    BY <1>0, <1>1, <1>6, FileIs, Zenon DEF By
  <2> HIDE DEF found, path
  <2>2. CASE \E i \in DOMAIN mounts : \E f \in Real(tree) :
               /\ found = InMount(mounts, i, f) /\ Below(mounts[i].root, f)
               /\ By(path, i, f)
    <3>1. PICK i \in DOMAIN mounts, f \in Real(tree) :
               /\ found = InMount(mounts, i, f) /\ Below(mounts[i].root, f)
               /\ By(path, i, f)
      BY <2>2, Zenon
    <3>2. id' = IdOf(mounts[i], f) /\ reply' = NoReply
      <4>1. /\ InMount(mounts, i, f).how = "found" /\ InMount(mounts, i, f).mount = mounts[i]
            /\ InMount(mounts, i, f).file = f
        BY <1>3
      <4>2. found.how = "found" /\ found.mount = mounts[i] /\ found.file = f
        BY <3>1, <4>1
      <4> QED
        BY <1>2, <4>2
    <3>3. FoundAt(path, id')
      BY <1>1, <3>1, <3>2, Zenon DEF FoundAt
    <3> QED
      BY <1>3, <3>2, <3>3 DEF Kept, path
  <2>3. CASE found = Escapes
    <3>1. id' = NoId /\ reply' = Failed(path, "invalid_input")
      BY <1>2, <1>3, <1>6, <2>3
    <3> QED
      BY <1>1, <1>4, <3>1, OthersAreTrue DEF path
  <2>4. CASE /\ NotAnId(path) /\ found = None
             /\ ResolveCandidates(tree, mounts, Candidates(mounts, path)) = None
    <3>1. id' = NoId /\ reply' = Failed(path, NoneReason(path))
      BY <1>2, <1>3, <1>6, <2>4
    <3>2. TextlessWay(None)
      BY <1>3 DEF TextlessWay
    <3>3. ~(~IsAbsolute(path) /\ ResolveDoc(tree, mounts, path).how = "found")
      BY <2>4 DEF NotAnId
    <3>4. NothingThere(path)
      BY <2>4, <3>2, <3>3 DEF NothingThere
    <3> QED
      BY <1>1, <1>4, <3>1, <3>4, NothingIsTrue DEF path
  <2>5. CASE found = [how |-> "outside"] /\ RealOf(path) # {} /\ InsideOf(path) = {}
    <3>1. id' = NoId /\ reply' = Failed(path, "outside_root")
      BY <1>2, <1>3, <1>6, <2>5
    <3> QED
      BY <1>1, <1>4, <2>5, <3>1, OthersAreTrue DEF path
  <2> QED
    BY <2>1, <2>2, <2>3, <2>4, <2>5
<1> QED
  BY <1>5, <1>6

LEMMA HoverRefusal ==
  ASSUME NEW c, c.tool = "hover"
  PROVE  /\ Refusal(c, "not_found") = Failed(c.path, NoneReason(c.path))
         /\ Refusal(c, "invalid") = Failed(c.path, "invalid_input")
         /\ Refusal(c, "error").outcome = "error"
BY DEF Refusal

LEMMA FailedIsKept ==
  ASSUME NEW path, NEW reason, TrueReason(path, reason)
  PROVE  Kept(path, NoId, NoFile, Failed(path, reason))
BY DEF Kept, Failed

LEMMA WorksKeeps ==
  ASSUME TypeInv, CheckInv, HoverInv, Works, call.tool = "hover", ~moved
  PROVE  Kept(call.path, id', opened', reply')
<1> DEFINE path == call.path
<1>0. TreeInv /\ Checked(opened) /\ MountsOk(mounts)
  BY DEF TypeInv, TreeInv
<1>1. /\ id # NoId => FoundAt(path, id) /\ opened = NoFile
      /\ opened # NoFile => OpenedAt(path, opened) /\ id = NoId
  BY Zenon DEF HoverInv, Kept, TypeInv
<1>2. NoFile.how = "none" /\ NoReply.outcome = "none"
  BY DEF NoFile, NoReply
<1>3. /\ Refusal(call, "not_found") = Failed(path, NoneReason(path))
      /\ Refusal(call, "invalid") = Failed(path, "invalid_input")
      /\ Refusal(call, "error").outcome = "error"
  BY HoverRefusal
<1>4. \A d : FoundAt(path, d) => path \in Path /\ path # <<>>
  BY Zenon DEF FoundAt
<1> SUFFICES Kept(path, id', opened', reply')
  OBVIOUS
<1> HIDE DEF path
<1>5. ASSUME NothingThere(path), id' = NoId, opened' = NoFile, reply' = Refusal(call, "not_found"),
             path \in Path
      PROVE  Kept(path, id', opened', reply')
  BY <1>3, <1>5, NothingIsTrue, FailedIsKept
<1>6. ASSUME id' = NoId, opened' = NoFile, reply' = Refusal(call, "invalid"), path \in Path
      PROVE  Kept(path, id', opened', reply')
  BY <1>3, <1>6, OthersAreTrue, FailedIsKept
<1>7. ASSUME NEW d, FoundAt(path, d),
             \/ ResolveDoc(tree, mounts, d) = None
             \/ \E k \in DOMAIN mounts : \E g :
                  ResolveDoc(tree, mounts, d) = InMount(mounts, k, g) /\ TextOf(g) = <<>>
      PROVE  NothingThere(path)
  <2>1. PICK i \in DOMAIN mounts, f \in Real(tree) :
          Below(mounts[i].root, f) /\ By(path, i, f) /\ d = IdOf(mounts[i], f)
    BY <1>7, Zenon DEF FoundAt
  <2> QED
    BY <1>0, <1>4, <1>7, <2>1, HoverHasNoText
<1>8. CASE LookUp
  <2>1. FoundAt(path, id) /\ id' = NoId /\ LooksUp(call, id) /\ path \in Path
    BY <1>1, <1>4, <1>8 DEF LookUp
  <2>2. CASE /\ opened' = NoFile
             /\ ResolveDoc(tree, mounts, id) = None /\ reply' = Refusal(call, "not_found")
    BY <1>5, <1>7, <2>1, <2>2
  <2>3. CASE /\ opened' = NoFile
             /\ ResolveDoc(tree, mounts, id) = Escapes /\ reply' = Refusal(call, "invalid")
    BY <1>6, <2>1, <2>3
  <2>4. ASSUME NEW i \in DOMAIN mounts, NEW f, ResolveDoc(tree, mounts, id) = InMount(mounts, i, f),
               opened' = InMount(mounts, i, f), reply' = NoReply
        PROVE  Kept(path, id', opened', reply')
    <3>1. opened'.how = "found" /\ opened'.file = f
      BY <2>4 DEF InMount
    <3>2. OpenedAt(path, opened')
      BY <2>1, <2>4, <3>1, Zenon DEF OpenedAt
    <3> QED
      BY <1>2, <2>1, <2>4, <3>2 DEF Kept
  <2> QED
    BY <1>0, <2>1, <2>2, <2>3, <2>4, LooksUpIs
<1>9. ASSUME OpenedAt(path, opened), id' = NoId, opened' = NoFile, reply' = Refusal(call, "invalid")
      PROVE  Kept(path, id', opened', reply')
  <2>1. path \in Path
    BY <1>4, <1>9, Zenon DEF OpenedAt
  <2> QED
    BY <1>6, <1>9, <2>1
<1>10. CASE opened # NoFile
  <2>1. OpenedAt(path, opened) /\ id = NoId /\ id' = NoId
    BY <1>1, <1>10, WorksAre
  <2>2. PICK d : /\ FoundAt(path, d)
                 /\ \E k \in DOMAIN mounts : ResolveDoc(tree, mounts, d) = InMount(mounts, k, opened.file)
    BY <2>1, Zenon DEF OpenedAt
  <2>3. PICK k \in DOMAIN mounts : ResolveDoc(tree, mounts, d) = InMount(mounts, k, opened.file)
    BY <2>2
  <2>4. opened.how \in {"found", "measured"}
    BY <2>1 DEF OpenedAt
  <2>5. CASE Measure
    <3>1. CASE opened' = NoFile /\ reply' = Refusal(call, "error")
      BY <1>3, <2>1, <3>1 DEF Kept
    <3>2. CASE opened' = NoFile /\ reply' = Refusal(call, "invalid")
      BY <1>9, <2>1, <3>2
    <3>3. CASE opened' = [opened EXCEPT !.how = "measured"] /\ reply' = NoReply
      <4>1. PICK i \in DOMAIN mounts :
              opened = [how |-> opened.how, mount |-> mounts[i], file |-> opened.file]
        BY <1>0, <2>4, MountIsOpen
      <4> DEFINE f == opened.file
                 how == opened.how
      <4>2. opened = [how |-> how, mount |-> mounts[i], file |-> f]
        BY <4>1
      <4>3. ResolveDoc(tree, mounts, d) = InMount(mounts, k, f)
        BY <2>3
      <4> HIDE DEF f, how
      <4>4. opened'.how = "measured" /\ opened'.file = f
        BY <3>3, <4>2
      <4>5. OpenedAt(path, opened')
        BY <2>2, <4>3, <4>4, Zenon DEF OpenedAt
      <4> QED
        BY <1>2, <2>1, <3>3, <4>5 DEF Kept
    <3> QED
      BY <2>5, <3>1, <3>2, <3>3, MeasureIs
  <2>6. CASE EndHover
    <3> DEFINE file == Canonical(tree, opened.file)
               at == Hovered(TextOf(file), call.line, call.column, call.symbol)
               outcome == IF at.snippet[1] > at.snippet[2] THEN "panicked" ELSE "answered"
               answer == [tool |-> "hover", outcome |-> outcome, file |-> opened.file, read |-> file,
                          id |-> IdOf(opened.mount, opened.file), at |-> at]
    <3>1. /\ opened' = NoFile
          /\ \/ TextOf(file) = <<>> /\ reply' = Refusal(call, "not_found")
             \/ reply' = answer
      BY <2>6, EndHoverIs, Zenon
    <3>2. file = opened.file
      <4>1. ~swapped
        BY Zenon DEF CheckInv
      <4> QED
        BY <1>10, <4>1, Zenon DEF CheckInv
    <3> HIDE DEF at, outcome, file
    <3>3. CASE TextOf(file) = <<>> /\ reply' = Refusal(call, "not_found")
      <4>1. path \in Path
        BY <1>4, <2>2
      <4>2. NothingThere(path)
        BY <1>7, <2>2, <2>3, <3>2, <3>3
      <4> QED
        BY <1>5, <2>1, <3>1, <3>3, <4>1, <4>2
    <3>4. CASE reply' = answer
      <4>1. reply'.read = file /\ reply'.outcome = outcome
        BY <3>4
      <4>2. outcome # "failed"
        BY DEF outcome
      <4> HIDE DEF answer
      <4>3. PICK i \in DOMAIN mounts, f \in Real(tree) :
              Below(mounts[i].root, f) /\ By(path, i, f) /\ d = IdOf(mounts[i], f)
        BY <2>2, Zenon DEF FoundAt
      <4>4. OfTheFile(path, file)
        BY <1>0, <1>4, <2>2, <2>3, <3>2, <4>3, HoverLeads
      <4> QED
        BY <2>1, <3>1, <4>1, <4>2, <4>4 DEF Kept
    <3> QED
      BY <3>1, <3>3, <3>4
  <2>7. ~ReadDoc /\ ~ReadFile
    BY <2>4 DEF ReadDoc, ReadFile
  <2>8. ~LookUp
    BY <2>1 DEF LookUp
  <2> QED
    BY <2>5, <2>6, <2>7, <2>8 DEF Works
<1>11. LookUp \/ opened # NoFile
  <2>1. (id # NoId /\ id' = NoId) \/ opened # NoFile
    BY WorksAre
  <2>2. CASE opened = NoFile
    BY <1>2, <2>2 DEF Works, Measure, ReadDoc, ReadFile, EndHover
  <2> QED
    BY <2>2
<1> QED
  BY <1>8, <1>10, <1>11

LEMMA NextHover ==
  ASSUME TypeInv, CheckInv, HoverInv, [Next]_vars
  PROVE  HoverInv'
<1>1. ASSUME call'.tool # "hover" PROVE HoverInv'
  BY <1>1 DEF HoverInv
<1>2. ASSUME NEW c \in Calls(tree),
             StartGet(c) \/ StartResource(c) \/ ListResources(c) \/ Locate(c) \/ Reindex(c)
      PROVE  HoverInv'
  <2>1. CASE StartGet(c) \/ StartResource(c)
    BY <1>1, <2>1, StartsAre
  <2>2. CASE ListResources(c) \/ Locate(c)
    BY <1>1, <2>2 DEF ListResources, Locate, Answers, Begins
  <2>3. CASE Reindex(c)
    <3>1. c.tool = "reindex" /\ call' = c
      BY <2>3, Zenon DEF Reindex, Answers, Begins
    <3> QED
      BY <1>1, <3>1
  <2> QED
    BY <1>2, <2>1, <2>2, <2>3
<1>3. ASSUME NEW c \in Calls(tree), StartHover(c) PROVE HoverInv'
  <2>1. /\ tree' = tree /\ mounts' = mounts /\ sources' = sources /\ call' = c
        /\ opened' = opened /\ call = Idle
    BY <1>3, Zenon DEF StartHover, Begins
  <2>2. Kept(c.path, id', NoFile, reply')
    BY <1>3, StartHoverKeeps
  <2>3. \A path, d, o, r : Kept(path, d, o, r)' = Kept(path, d, o, r)
    BY <2>1, SameFiles
  <2>4. opened' = NoFile
    BY <2>1, IdleHoldsNothing
  <2> QED
    BY <2>1, <2>2, <2>3, <2>4, Zenon DEF HoverInv
<1>4. CASE Works
  <2>1. /\ tree' = tree /\ mounts' = mounts /\ sources' = sources /\ call' = call
        /\ moved' = moved
    BY <1>4, WorksAre
  <2>2. call.tool = "hover" /\ ~moved => Kept(call.path, id', opened', reply')
    BY <1>4, WorksKeeps
  <2>3. \A path, d, o, r : Kept(path, d, o, r)' = Kept(path, d, o, r)
    BY <2>1, SameFiles
  <2> QED
    BY <2>1, <2>2, <2>3, Zenon DEF HoverInv
<1>5. CASE Done
  <2>1. call'.tool = "none"
    BY <1>5 DEF Done, Idle
  <2> QED
    BY <1>1, <2>1
<1>6. CASE Edit
  <2>1. moved' = TRUE
    BY <1>6 DEF Edit
  <2> QED
    BY <2>1 DEF HoverInv
<1>7. CASE UNCHANGED vars
  <2>1. /\ tree' = tree /\ mounts' = mounts /\ sources' = sources /\ call' = call
        /\ moved' = moved /\ id' = id /\ opened' = opened /\ reply' = reply
    BY <1>7 DEF vars
  <2>2. \A path, d, o, r : Kept(path, d, o, r)' = Kept(path, d, o, r)
    BY <2>1, SameFiles
  <2> QED
    BY <2>1, <2>2, Zenon DEF HoverInv
<1> QED
  BY <1>2, <1>3, <1>4, <1>5, <1>6, <1>7, Zenon DEF Next, Works

LEMMA AlwaysHover == Spec => []HoverInv
<1>1. Init => HoverInv
  BY DEF Init, HoverInv, Idle
<1>2. TypeInv /\ CheckInv /\ HoverInv /\ [Next]_vars => HoverInv'
  BY NextHover
<1> QED
  BY <1>1, <1>2, AlwaysType, AlwaysChecked, PTL DEF Spec

\* HoverIsOfTheFile: whatever mounts and links there are and whatever is written as
\* a path, hover answers about a file that the path leads to, though it resolves
\* the path to an id, the id to a file, measures the file and reads it in four steps; a
\* label goes before a place.  (Of hovers during which the files do not change.)
THEOREM HoverStaysOnFile == Spec => []HoverIsOfTheFile
<1>1. HoverInv => HoverIsOfTheFile
  <2> SUFFICES ASSUME HoverInv, call.tool = "hover", reply.outcome = "answered", ~moved
               PROVE  HoverIsOfTheFile
    BY Zenon DEF HoverIsOfTheFile, Answered
  <2>1. OfTheFile(call.path, reply.read)
    BY DEF HoverInv, Kept
  <2> QED
    BY <2>1, Zenon DEF OfTheFile, Led, Own, LedByLabel, Bases, HoverIsOfTheFile
<1> QED
  BY <1>1, AlwaysHover, PTL

\* ReasonIsTrue: the reason of a failed hover is true of the files as they are, and
\* no suggestion is an unmapped one.
THEOREM ReasonsAreTrue == Spec => []ReasonIsTrue
<1>1. HoverInv => ReasonIsTrue
  <2> SUFFICES ASSUME HoverInv, call.tool = "hover", reply.outcome = "failed", ~moved
               PROVE  ReasonIsTrue
    BY Zenon DEF ReasonIsTrue
  <2>1. PICK reason : reply = Failed(call.path, reason) /\ TrueReason(call.path, reason)
    BY Zenon DEF HoverInv, Kept
  <2>2. reply.reason = reason /\ reply.suggested = Suggestions(call.path)
    BY <2>1 DEF Failed
  <2>3. NothingThere(call.path) =
          LET byId   == ResolveDoc(tree, mounts, call.path)
              byPath == ResolveCandidates(tree, mounts, Candidates(mounts, call.path))
              Textless(way) == way.how = "found" => TextOf(way.file) = <<>>
          IN \/ \E f \in InsideOf(call.path) : Shadowed(mounts[1], f)
             \/ \E i \in DOMAIN mounts : IsFile(tree, mounts[i].root)
             \/ IF ~IsAbsolute(call.path) /\ byId.how = "found" THEN Textless(byId) ELSE Textless(byPath)
    BY Zenon DEF NothingThere, TextlessWay
  <2> QED
    BY <2>1, <2>2, <2>3, Zenon DEF TrueReason, RealOf, InsideOf, ReasonIsTrue
<1> QED
  BY <1>1, AlwaysHover, PTL

-----------------------------------------------------------------------------
(* Sets of numbers in order. *)

\* Max of a finite set of numbers.
LEMMA MaxOfNumbers ==
  ASSUME NEW S, IsFiniteSet(S), S \subseteq Int, S # {}
  PROVE  Max(S) \in S /\ \A y \in S : Max(S) >= y
<1> DEFINE f == [x \in S |-> x]
<1>1. f \in [S -> Int] /\ \A x \in S : f[x] = x
  OBVIOUS
<1> HIDE DEF f
<1>2. \E x \in S : \A y \in S : f[x] >= f[y]
  BY <1>1, GreatestElement
<1>3. \E x \in S : \A y \in S : x >= y
  BY <1>1, <1>2
<1> QED
  BY <1>3 DEF Max

LEMMA PositionsAreFinite ==
  ASSUME NEW n \in Nat, NEW S, S \subseteq 1..n
  PROVE  IsFiniteSet(S) /\ S \subseteq Nat /\ S \subseteq Int
<1>1. IsFiniteSet(1..n)
  BY FS_Interval
<1>2. S \in SUBSET (1..n)
  OBVIOUS
<1>3. IsFiniteSet(S)
  BY <1>1, <1>2, FS_Subset
<1> QED
  BY <1>3

LEMMA InOrderIs ==
  ASSUME NEW S, IsFiniteSet(S), S \subseteq Int
  PROVE  /\ Cardinality(S) \in Nat
         /\ InOrder(S) \in [1..Cardinality(S) -> S]
         /\ \A i, j \in 1..Cardinality(S) : i < j => InOrder(S)[i] < InOrder(S)[j]
         /\ \A x \in S : \E k \in 1..Cardinality(S) : InOrder(S)[k] = x
<1> DEFINE n == Cardinality(S)
           upTo(x) == {j \in S : j <= x}
           rank == [x \in S |-> Cardinality(upTo(x))]
<1>1. n \in Nat /\ \A T \in SUBSET S :
        /\ IsFiniteSet(T) /\ Cardinality(T) \in Nat /\ Cardinality(T) <= n
        /\ \A U \in SUBSET T : /\ Cardinality(U) <= Cardinality(T)
                               /\ Cardinality(U) = Cardinality(T) => U = T
  <2>1. \A T \in SUBSET S : IsFiniteSet(T) /\ Cardinality(T) <= n
    BY FS_Subset
  <2>2. \A T \in SUBSET S : Cardinality(T) \in Nat
    BY <2>1, FS_CardinalityType
  <2>3. ASSUME NEW T \in SUBSET S, NEW U \in SUBSET T
        PROVE  Cardinality(U) <= Cardinality(T) /\ (Cardinality(U) = Cardinality(T) => U = T)
    BY <2>1, FS_Subset
  <2>4. n \in Nat
    BY FS_CardinalityType
  <2> HIDE DEF n
  <2> QED
    BY <2>1, <2>2, <2>3, <2>4
<1>2. \A x \in S : upTo(x) \in SUBSET S /\ x \in upTo(x)
  OBVIOUS
<1>3. \A x, y \in S : x < y => upTo(x) \in SUBSET upTo(y) /\ y \notin upTo(x)
  <2> SUFFICES ASSUME NEW x \in S, NEW y \in S, x < y
               PROVE  (\A j \in S : j <= x => j <= y) /\ ~(y <= x)
    OBVIOUS
  <2>1. \A a, b, c \in Int : a < c /\ b <= a => b <= c /\ ~(c <= a)
    OBVIOUS
  <2>2. \A j \in S : j \in Int
    OBVIOUS
  <2> QED
    BY <2>1, <2>2
<1>4. \A x \in S : rank[x] = Cardinality(upTo(x))
  OBVIOUS
<1>5. \A x, y \in S : x < y => rank[x] < rank[y]
  <2> SUFFICES ASSUME NEW x \in S, NEW y \in S, x < y PROVE rank[x] < rank[y]
    OBVIOUS
  <2>1. upTo(x) \in SUBSET upTo(y) /\ upTo(x) # upTo(y)
    BY <1>2, <1>3
  <2>2. /\ Cardinality(upTo(x)) <= Cardinality(upTo(y))
        /\ Cardinality(upTo(x)) # Cardinality(upTo(y))
        /\ Cardinality(upTo(x)) \in Nat /\ Cardinality(upTo(y)) \in Nat
    BY <1>1, <1>2, <2>1
  <2> HIDE DEF upTo, rank
  <2> QED
    BY <1>4, <2>2
<1>6. \A x \in S : rank[x] \in 1..n
  <2> SUFFICES ASSUME NEW x \in S PROVE Cardinality(upTo(x)) \in 1..n
    BY <1>4
  <2>1. Cardinality(upTo(x)) \in Nat /\ Cardinality(upTo(x)) <= n
    BY <1>1, <1>2
  <2>2. Cardinality(upTo(x)) # 0
    BY <1>1, <1>2, FS_EmptySet
  <2> HIDE DEF upTo
  <2> QED
    BY <1>1, <2>1, <2>2
<1>7. rank \in Injection(S, 1..n)
  <2>1. rank \in [S -> 1..n]
    BY <1>6
  <2>2. \A x, y \in S : rank[x] = rank[y] => x = y
    <3> SUFFICES ASSUME NEW x \in S, NEW y \in S, x # y PROVE rank[x] # rank[y]
      OBVIOUS
    <3>1. x < y \/ y < x
      OBVIOUS
    <3>2. rank[x] \in Int /\ rank[y] \in Int
      BY <1>6
    <3> HIDE DEF rank
    <3> QED
      BY <1>5, <3>1, <3>2
  <2> HIDE DEF rank
  <2> QED
    BY <2>1, <2>2 DEF Injection, IsInjective
<1>8. \A k \in 1..n : \E x \in S : rank[x] = k
  <2>1. IsFiniteSet(1..n) /\ Cardinality(1..n) = n
    <3>1. Cardinality(1..n) = (IF 1 > n THEN 0 ELSE n - 1 + 1) /\ IsFiniteSet(1..n)
      BY <1>1, FS_Interval
    <3> HIDE DEF n
    <3> QED
      BY <1>1, <3>1
  <2> HIDE DEF rank
  <2>2. rank \in Surjection(S, 1..n)
    BY <1>7, <2>1, FS_Injection
  <2> QED
    BY <2>2 DEF Surjection
<1> DEFINE nth == InOrder(S)
<1>9. nth = [k \in 1..n |-> CHOOSE x \in S : Cardinality(upTo(x)) = k]
  BY DEF InOrder
<1>10. \A k \in 1..n : nth[k] \in S /\ rank[nth[k]] = k
  <2> SUFFICES ASSUME NEW k \in 1..n PROVE nth[k] \in S /\ rank[nth[k]] = k
    OBVIOUS
  <2>1. nth[k] = CHOOSE x \in S : Cardinality(upTo(x)) = k
    BY <1>9
  <2>2. \E x \in S : Cardinality(upTo(x)) = k
    BY <1>4, <1>8
  <2> HIDE DEF nth, upTo, rank
  <2>3. nth[k] \in S /\ Cardinality(upTo(nth[k])) = k
    BY <2>1, <2>2
  <2> QED
    BY <1>4, <2>3
<1>11. \A i, j \in 1..n : i < j => nth[i] < nth[j]
  <2> SUFFICES ASSUME NEW i \in 1..n, NEW j \in 1..n, i < j PROVE nth[i] < nth[j]
    OBVIOUS
  <2> HIDE DEF nth, rank
  <2>1. nth[i] \in Int /\ nth[j] \in Int /\ nth[i] \in S /\ nth[j] \in S
    BY <1>10
  <2>2. nth[i] # nth[j]
    BY <1>10
  <2>3. ~(nth[j] < nth[i])
    BY <1>5, <1>10, <2>1
  <2> QED
    BY <2>1, <2>2, <2>3
<1>12. \A x \in S : \E k \in 1..n : nth[k] = x
  <2> SUFFICES ASSUME NEW x \in S PROVE \E k \in 1..n : nth[k] = x
    OBVIOUS
  <2> HIDE DEF nth, rank
  <2> DEFINE k == rank[x]
  <2>1. k \in 1..n
    BY <1>6
  <2>2. nth[k] \in S /\ rank[nth[k]] = rank[x]
    BY <1>10, <2>1
  <2>3. x \in Int /\ nth[k] \in Int /\ rank[x] \in Int
    <3>1. rank[x] \in 1..n /\ n \in Nat
      BY <1>1, <1>6
    <3>2. rank[x] \in Int
      <4> HIDE DEF n
      <4> QED
        BY <3>1
    <3>3. x \in Int /\ nth[k] \in Int
      BY <2>2
    <3> QED
      BY <3>2, <3>3
  <2> HIDE DEF k
  <2>4. ~(x < nth[k]) /\ ~(nth[k] < x)
    <3>1. x < nth[k] => rank[x] < rank[nth[k]]
      BY <1>5, <2>2
    <3>2. nth[k] < x => rank[nth[k]] < rank[x]
      BY <1>5, <2>2
    <3> QED
      BY <2>2, <2>3, <3>1, <3>2
  <2> QED
    BY <2>1, <2>3, <2>4
<1>13. nth \in [1..n -> S]
  <2> HIDE DEF rank, upTo
  <2>1. DOMAIN nth = 1..n /\ nth = [k \in 1..n |-> nth[k]]
    BY <1>9, Zenon
  <2> HIDE DEF nth
  <2> QED
    BY <1>10, <2>1
<1> QED
  BY <1>1, <1>11, <1>12, <1>13

-----------------------------------------------------------------------------
(* The scan for comments and strings. *)

Masks(n) == [kept : SUBSET (1..n), depth : Nat, string : BOOLEAN, next : Nat, end : 0..n]

\* What one step of the scan does: nothing, or a step in a comment, in a string, in code.
Skips(s, i, r) == i < s.next /\ r = s

CommentStep(line, s, i, r) ==
  /\ s.depth > 0
  /\ r.kept = s.kept /\ r.string = s.string /\ r.end = s.end
  /\ \/ r.next = i + 1 /\ r.depth = s.depth
     \/ r.next = i + 2 /\ r.depth = s.depth - 1 /\ At(line, i + 1) \in {"/", ")"}

StringStep(line, s, i, r) ==
  /\ s.depth = 0 /\ s.string
  /\ r.kept = s.kept /\ r.depth = s.depth /\ r.end = s.end
  /\ \/ r.next \in {i + 1, i + 2} /\ r.string
     \/ r.next = i + 1 /\ ~r.string /\ line[i] = "\""

CodeStep(line, s, i, r) ==
  /\ s.depth = 0 /\ ~s.string
  /\ \/ OpensComment(line[i], At(line, i + 1))
          /\ r = [s EXCEPT !.next = i + 2, !.depth = s.depth + 1]
     \/ CutsLine(line[i], At(line, i + 1))
          /\ r = [s EXCEPT !.next = Len(line) + 1, !.end = i - 1]
     \/ line[i] = "\"" /\ r = [s EXCEPT !.next = i + 1, !.string = TRUE]
     \/ /\ ~OpensComment(line[i], At(line, i + 1)) /\ ~CutsLine(line[i], At(line, i + 1))
        /\ line[i] # "\""
        /\ r = [s EXCEPT !.next = i + 1, !.kept = s.kept \cup {i}]

ScanStep(line, s, i, r) ==
  \/ Skips(s, i, r)
  \/ /\ i >= s.next
     /\ CommentStep(line, s, i, r) \/ StringStep(line, s, i, r) \/ CodeStep(line, s, i, r)

LEMMA ScanIs ==
  ASSUME NEW line, Len(line) \in Nat, NEW i \in 1..Len(line), NEW s \in Masks(Len(line))
  PROVE  ScanStep(line, s, i, Scan(line, s, i)) /\ Scan(line, s, i) \in Masks(Len(line))
<1> DEFINE n == Len(line)
           r == Scan(line, s, i)
<1>1. /\ s.depth \in Nat /\ s.string \in BOOLEAN /\ s.next \in Nat
      /\ s.kept \in SUBSET (1..n) /\ s.end \in 0..n
      /\ s = [kept |-> s.kept, depth |-> s.depth, string |-> s.string, next |-> s.next,
              end |-> s.end]
  BY DEF Masks
<1>a. \A t, a, b : t = [s EXCEPT !.next = a, !.depth = b] =>
        /\ t.kept = s.kept /\ t.depth = b /\ t.string = s.string /\ t.next = a /\ t.end = s.end
        /\ a \in Nat /\ b \in Nat => t \in Masks(n)
  BY DEF Masks
<1>e. \A t, a : t = [s EXCEPT !.next = a] =>
        /\ t.kept = s.kept /\ t.depth = s.depth /\ t.string = s.string /\ t.next = a
        /\ t.end = s.end
        /\ a \in Nat => t \in Masks(n)
  BY DEF Masks
<1>b. \A t, a, b : t = [s EXCEPT !.next = a, !.string = b] =>
        /\ t.kept = s.kept /\ t.depth = s.depth /\ t.string = b /\ t.next = a /\ t.end = s.end
        /\ a \in Nat /\ b \in BOOLEAN => t \in Masks(n)
  BY DEF Masks
<1>c. \A t, a, b : t = [s EXCEPT !.next = a, !.end = b] /\ a \in Nat /\ b \in 0..n =>
        t \in Masks(n)
  BY DEF Masks
<1>d. \A t, a, b : t = [s EXCEPT !.next = a, !.kept = b] /\ a \in Nat /\ b \in SUBSET (1..n) =>
        t \in Masks(n)
  BY DEF Masks
<1>2. i \in Nat /\ i + 1 \in Nat /\ i + 2 \in Nat /\ i - 1 \in 0..n /\ n + 1 \in Nat
  OBVIOUS
<1>3. CASE i < s.next
  <2>1. r = s
    BY <1>3 DEF Scan
  <2> QED
    BY <1>3, <2>1 DEF ScanStep, Skips
<1>4. CASE ~(i < s.next) /\ s.depth > 0
  <2>1. r = InComment(line, s, i)
    BY <1>4, Zenon DEF Scan
  <2>2. CommentStep(line, s, i, r) /\ r \in Masks(n)
    <3>1. CASE line[i] = "*" /\ At(line, i + 1) \in {"/", ")"}
      <4>1. r = [s EXCEPT !.next = i + 2, !.depth = s.depth - 1]
        BY <2>1, <3>1 DEF InComment
      <4>2. s.depth - 1 \in Nat
        BY <1>1, <1>4
      <4> HIDE DEF r
      <4>3. /\ r.kept = s.kept /\ r.depth = s.depth - 1 /\ r.string = s.string /\ r.next = i + 2
            /\ r.end = s.end
        <5> DEFINE d == s.depth - 1
                   x == i + 2
        <5>1. r = [s EXCEPT !.next = x, !.depth = d]
          BY <4>1
        <5> HIDE DEF d, x
        <5>2. r.kept = s.kept 
          BY <1>a, <5>1
        <5>3. r.string = s.string 
          BY <1>a, <5>1
        <5>4. r.end = s.end 
          BY <1>a, <5>1
        <5>5. r.depth = d
          BY <5>1 DEF Masks
        <5>6. r.next = x
          BY <1>a, <5>1
        <5> QED
          BY <5>2, <5>3, <5>4, <5>5, <5>6 DEF d, x
      <4>4. r \in Masks(n)
        BY <1>2, <1>a, <4>1, <4>2
      <4> QED
        BY <1>4, <3>1, <4>3, <4>4, Zenon DEF CommentStep
    <3>2. CASE ~(line[i] = "*" /\ At(line, i + 1) \in {"/", ")"})
      <4>1. r = [s EXCEPT !.next = i + 1]
        BY <2>1, <3>2 DEF InComment
      <4> HIDE DEF r
      <4> QED
        BY <1>2, <1>4, <1>e, <4>1 DEF CommentStep
    <3> QED
      BY <3>1, <3>2
  <2> QED
    BY <1>1, <1>2, <1>4, <2>2 DEF ScanStep
<1>5. CASE ~(i < s.next) /\ ~(s.depth > 0) /\ s.string
  <2>1. r = InString(line, s, i)
    BY <1>5, Zenon DEF Scan
  <2>2. StringStep(line, s, i, r) /\ r \in Masks(n)
    <3>0. s.depth = 0
      BY <1>1, <1>5
    <3>1. CASE line[i] = "\\" \/ (line[i] = "\"" /\ At(line, i + 1) = "\"")
      <4>1. r = [s EXCEPT !.next = i + 2]
        BY <2>1, <3>1, Zenon DEF InString
      <4> HIDE DEF r
      <4>2. r.string
        BY <1>5, <1>e, <4>1, Zenon
      <4> QED
        BY <1>2, <1>5, <1>e, <3>0, <4>1, <4>2 DEF StringStep
    <3>2. CASE ~(line[i] = "\\" \/ (line[i] = "\"" /\ At(line, i + 1) = "\"")) /\ line[i] = "\""
      <4>1. r = [s EXCEPT !.next = i + 1, !.string = FALSE]
        BY <2>1, <3>2, Zenon DEF InString
      <4> HIDE DEF r
      <4>2. /\ r.kept = s.kept /\ r.depth = s.depth /\ r.string = FALSE /\ r.next = i + 1
            /\ r.end = s.end /\ r \in Masks(n)
        BY <1>2, <1>b, <4>1, Zenon
      <4> QED
        BY <1>5, <3>0, <3>2, <4>2, Zenon DEF StringStep
    <3>3. CASE ~(line[i] = "\\" \/ (line[i] = "\"" /\ At(line, i + 1) = "\"")) /\ line[i] # "\""
      <4>1. r = [s EXCEPT !.next = i + 1]
        BY <2>1, <3>3, Zenon DEF InString
      <4> HIDE DEF r
      <4>2. r.string
        BY <1>5, <1>e, <4>1, Zenon
      <4> QED
        BY <1>2, <1>5, <1>e, <3>0, <4>1, <4>2 DEF StringStep
    <3> QED
      BY <3>1, <3>2, <3>3
  <2> QED
    BY <1>1, <1>2, <1>5, <2>2 DEF ScanStep
<1>6. CASE ~(i < s.next) /\ ~(s.depth > 0) /\ ~s.string
  <2>1. r = InCode(line, s, i)
    BY <1>6, Zenon DEF Scan
  <2>2. CodeStep(line, s, i, r) /\ r \in Masks(n)
    <3>0. s.depth = 0
      BY <1>1, <1>6
    <3> DEFINE opens == OpensComment(line[i], At(line, i + 1))
               cuts == CutsLine(line[i], At(line, i + 1))
    <3>1. CASE opens
      <4>1. r = [s EXCEPT !.next = i + 2, !.depth = s.depth + 1]
        BY <2>1, <3>1 DEF InCode
      <4>2. s.depth + 1 \in Nat
        BY <1>1
      <4> HIDE DEF r
      <4> QED
        BY <1>2, <1>6, <1>a, <3>0, <3>1, <4>1, <4>2 DEF CodeStep
    <3>2. CASE ~opens /\ cuts
      <4>1. r = [s EXCEPT !.next = n + 1, !.end = i - 1]
        BY <2>1, <3>2, Zenon DEF InCode
      <4> HIDE DEF r
      <4> QED
        BY <1>2, <1>6, <1>c, <3>0, <3>2, <4>1 DEF CodeStep
    <3>3. CASE ~opens /\ ~cuts /\ line[i] = "\""
      <4>1. r = [s EXCEPT !.next = i + 1, !.string = TRUE]
        BY <2>1, <3>3, Zenon DEF InCode
      <4> HIDE DEF r
      <4> QED
        BY <1>2, <1>6, <1>b, <3>0, <3>3, <4>1 DEF CodeStep
    <3>4. CASE ~opens /\ ~cuts /\ line[i] # "\""
      <4>1. r = [s EXCEPT !.next = i + 1, !.kept = s.kept \cup {i}]
        BY <2>1, <3>4 DEF InCode
      <4>2. s.kept \cup {i} \in SUBSET (1..n)
        BY <1>1
      <4> HIDE DEF r
      <4> QED
        BY <1>2, <1>6, <1>d, <3>0, <3>4, <4>1, <4>2 DEF CodeStep
    <3> QED
      BY <3>1, <3>2, <3>3, <3>4
  <2> QED
    BY <1>1, <1>2, <1>6, <2>2 DEF ScanStep
<1> QED
  BY <1>3, <1>4, <1>5, <1>6

FirstMask(n, depth) == [kept |-> {}, depth |-> depth, string |-> FALSE, next |-> 1, end |-> n]

\* The scan is a sequence of such steps.
Scanned(line, depth, scan) ==
  /\ scan \in [0..Len(line) -> Masks(Len(line))]
  /\ scan[0] = FirstMask(Len(line), depth)
  /\ \A i \in 1..Len(line) : ScanStep(line, scan[i - 1], i, scan[i])

LEMMA MaskIs ==
  ASSUME NEW line, Len(line) \in Nat, NEW depth \in Nat
  PROVE  \E scan : Scanned(line, depth, scan) /\ Mask(line, depth) = scan[Len(line)]
<1> DEFINE n == Len(line)
           V == Masks(n)
           base == FirstMask(n, depth)
           step == [p \in (1..n) \X V |-> Scan(line, p[2], p[1])]
           Is(g) == g = [i \in 0..n |-> IF i = 0 THEN base ELSE Scan(line, g[i - 1], i)]
<1>1. base \in V
  BY DEF FirstMask, Masks
<1>2. \A i \in 1..n, s \in V : Scan(line, s, i) \in V /\ ScanStep(line, s, i, Scan(line, s, i))
  BY ScanIs
<1>3. Mask(line, depth) = (CHOOSE g : Is(g))[n]
  BY Zenon DEF Mask, FirstMask
<1> HIDE DEF V, base, n
<1>4. step \in [(1..n) \X V -> V]
  BY <1>2
<1>5. \A i \in 1..n, v \in V : step[<<i, v>>] = Scan(line, v, i)
  <2>1. \A i \in 1..n, v \in V : <<i, v>> \in (1..n) \X V
    OBVIOUS
  <2>2. \A p \in (1..n) \X V : step[p] = Scan(line, p[2], p[1])
    OBVIOUS
  <2>3. \A i, v : <<i, v>>[1] = i /\ <<i, v>>[2] = v
    OBVIOUS
  <2> HIDE DEF step
  <2> QED
    BY <2>1, <2>2, <2>3, Zenon
<1> HIDE DEF step
<1>6. \E f : Iterates(f, n, V, base, step)
  BY <1>1, <1>4, Iteration DEF n
<1>7. PICK f : /\ f \in [0..n -> V] /\ f[0] = base
               /\ \A i \in 1..n : f[i] = step[<<i, f[i - 1]>>]
  BY <1>6 DEF Iterates
<1>8. \A i \in 1..n : i - 1 \in 0..n /\ f[i - 1] \in V
  BY <1>7 DEF n
<1>9. \A i \in 1..n : f[i] = Scan(line, f[i - 1], i)
  BY <1>5, <1>7, <1>8
<1>10. Is(f)
  <2>1. \A i \in 0..n : i # 0 => i \in 1..n
    BY DEF n
  <2>2. \A i \in 0..n : f[i] = IF i = 0 THEN base ELSE Scan(line, f[i - 1], i)
    BY <1>7, <1>9, <2>1
  <2> QED
    BY <1>7, <2>2
<1> DEFINE g == CHOOSE g : Is(g)
<1>11. Is(g)
  <2>1. \E h : Is(h)
    BY <1>10
  <2> HIDE DEF Is
  <2> QED
    BY <2>1
<1> HIDE DEF g
<1>12. \A i \in 0..n : g[i] = IF i = 0 THEN base ELSE Scan(line, g[i - 1], i)
  <2> DEFINE h == [i \in 0..n |-> IF i = 0 THEN base ELSE Scan(line, g[i - 1], i)]
  <2>1. \A i \in 0..n : h[i] = IF i = 0 THEN base ELSE Scan(line, g[i - 1], i)
    OBVIOUS
  <2>2. g = h
    BY <1>11
  <2> HIDE DEF h
  <2> QED
    BY <2>1, <2>2
<1>13. DOMAIN g = 0..n /\ g = [i \in 0..n |-> g[i]]
  BY <1>11
<1> HIDE DEF Is
<1> DEFINE B == {i \in 0..n : g[i] \notin V}
<1>14. ASSUME B # {} PROVE FALSE
  <2>1. PICK i \in B : \A j \in B : i <= j
    <3>1. B \subseteq Nat
      BY DEF n
    <3> HIDE DEF B
    <3> QED
      BY <1>14, <3>1, LeastNumber
  <2>2. i # 0
    BY <1>1, <1>12, <2>1
  <2>3. i \in 1..n /\ i - 1 \in 0..n /\ ~(i <= i - 1)
    BY <2>1, <2>2 DEF n
  <2>4. g[i - 1] \in V
    BY <2>1, <2>3
  <2>5. g[i] = Scan(line, g[i - 1], i)
    BY <1>12, <2>1, <2>2
  <2> QED
    BY <1>2, <2>1, <2>3, <2>4, <2>5
<1>15. \A i \in 0..n : g[i] \in V
  BY <1>14
<1>16. \A i \in 1..n : ScanStep(line, g[i - 1], i, g[i])
  <2> SUFFICES ASSUME NEW i \in 1..n PROVE ScanStep(line, g[i - 1], i, g[i])
    OBVIOUS
  <2>1. i \in 0..n /\ i - 1 \in 0..n /\ i # 0
    BY DEF n
  <2> QED
    BY <1>2, <1>12, <1>15, <2>1
<1>17. 0 \in 0..n
  BY DEF n
<1>18. g \in [0..n -> V] /\ g[0] = base
  BY <1>12, <1>13, <1>15, <1>17
<1>19. Mask(line, depth) = g[n]
  BY <1>3 DEF g
<1>20. Scanned(line, depth, g)
  BY <1>16, <1>18 DEF Scanned, n, V, base
<1> QED
  BY <1>19, <1>20 DEF n

-----------------------------------------------------------------------------
(* What is kept of a line. *)

\* A character of code: no quote, and no comment starts there.
Plain(line, i) ==
  /\ line[i] # "\""
  /\ ~OpensComment(line[i], At(line, i + 1)) /\ ~CutsLine(line[i], At(line, i + 1))

NoName(c) == c \in {"\"", "/", "(", ")", "*", "-"}

\* What stands between a part that is kept and one that is not.
Border(line, kept, i) ==
  /\ i \notin kept /\ i + 1 \in kept => NoName(line[i])
  /\ i \in kept /\ i + 1 \notin kept => NoName(line[i + 1])

\* Neither a comment nor a string goes on.
Open(s) == s.depth = 0 /\ ~s.string

\* The scan after i characters.
Fine(line, s, i) ==
  LET n == Len(line)
  IN /\ s.next > i /\ (s.next <= i + 2 \/ s.next = n + 1)
     /\ s.kept \subseteq 1..i
     /\ \A j \in s.kept : Plain(line, j)
     /\ \A j \in 1..(i - 1) : Border(line, s.kept, j)
     /\ i \in s.kept => Open(s) /\ s.next = i + 1
     /\ Open(s) /\ i >= 1 /\ i \notin s.kept /\ s.next = i + 1 => i = n \/ NoName(line[i])
     /\ Open(s) /\ s.next = i + 2 => i + 1 >= n \/ NoName(line[i + 1])

LEMMA FineStep ==
  ASSUME NEW line, Len(line) \in Nat, DOMAIN line = 1..Len(line), NEW i \in 1..Len(line),
         NEW s \in Masks(Len(line)), NEW r \in Masks(Len(line)),
         Fine(line, s, i - 1), ScanStep(line, s, i, r)
  PROVE  Fine(line, r, i)
<1> DEFINE n == Len(line)
<1>1. /\ s.depth \in Nat /\ s.next \in Nat /\ r.depth \in Nat /\ r.next \in Nat
      /\ s.string \in BOOLEAN /\ r.string \in BOOLEAN
      /\ i \in Nat /\ i >= 1 /\ i <= n /\ i - 1 + 1 = i /\ i - 1 + 2 = i + 1 /\ n \in Nat
  BY DEF Masks
<1>2. /\ s.next >= i /\ (s.next <= i + 1 \/ s.next = n + 1)
      /\ s.kept \subseteq 1..(i - 1)
      /\ \A j \in s.kept : Plain(line, j)
      /\ \A j \in 1..(i - 2) : Border(line, s.kept, j)
      /\ i - 1 \in s.kept => Open(s) /\ s.next = i
      /\ Open(s) /\ i - 1 >= 1 /\ i - 1 \notin s.kept /\ s.next = i => i - 1 = n \/ NoName(line[i - 1])
      /\ Open(s) /\ s.next = i + 1 => i >= n \/ NoName(line[i])
  <2>1. i - 1 - 1 = i - 2 /\ (s.next > i - 1 <=> s.next >= i)
    BY <1>1
  <2> QED
    BY <1>1, <2>1 DEF Fine
<1>3. i \notin s.kept /\ \A x : x \in {"/", ")"} /\ At(line, i + 1) = x => NoName(line[i + 1])
  <2>1. i \notin s.kept
    BY <1>1, <1>2
  <2>2. \A x : x \in {"/", ")"} /\ At(line, i + 1) = x => NoName(line[i + 1])
    BY DEF At, NoName
  <2> QED
    BY <2>1, <2>2
\* The borders before i, if i is not kept.
<1>4. ASSUME r.kept = s.kept, i - 1 \in s.kept => NoName(line[i])
      PROVE  /\ r.kept \subseteq 1..i /\ i \notin r.kept
             /\ \A j \in r.kept : Plain(line, j)
             /\ \A j \in 1..(i - 1) : Border(line, r.kept, j)
  <2>1. r.kept \subseteq 1..i
    BY <1>1, <1>2, <1>4
  <2>2. ASSUME NEW j \in 1..(i - 1) PROVE Border(line, s.kept, j)
    <3>1. CASE j \in 1..(i - 2)
      BY <1>2, <3>1
    <3>2. CASE j = i - 1
      BY <1>1, <1>3, <1>4, <3>2 DEF Border
    <3> QED
      BY <1>1, <3>1, <3>2
  <2> QED
    BY <1>2, <1>3, <1>4, <2>1, <2>2
<1>5. CASE Skips(s, i, r)
  <2>1. r = s /\ i < s.next
    BY <1>5 DEF Skips
  <2>2. i - 1 \notin s.kept
    BY <1>1, <1>2, <2>1
  <2>3. Open(r) /\ r.next = i + 2 => i + 1 >= n
    BY <1>1, <1>2, <2>1
  <2> QED
    <3>k. /\ r.kept \subseteq 1..i /\ i \notin r.kept
          /\ \A j \in r.kept : Plain(line, j)
          /\ \A j \in 1..(i - 1) : Border(line, r.kept, j)
      BY <1>4, <2>1, <2>2
    <3>n. r.next > i /\ (r.next <= i + 2 \/ r.next = n + 1)
      BY <1>1, <1>2, <2>1
    <3>o. /\ Open(r) /\ r.next = i + 1 => i = n \/ NoName(line[i])
          /\ Open(r) /\ r.next = i + 2 => i + 1 >= n \/ NoName(line[i + 1])
      <4>1. i >= n => i = n
        <5>1. i \in Int /\ n \in Int /\ i <= n
          BY <1>1
        <5> HIDE DEF n
        <5> QED
          BY <5>1
      <4> QED
        BY <1>2, <2>1, <2>3, <4>1, Zenon
    <3> QED
      BY <3>k, <3>n, <3>o, Zenon DEF Fine
<1>6. CASE i >= s.next /\ CommentStep(line, s, i, r)
  <2>1. ~Open(s) /\ r.kept = s.kept
    <3>1. s.depth > 0 /\ s.depth # 0 /\ r.kept = s.kept
      BY <1>1, <1>6 DEF CommentStep
    <3> QED
      BY <3>1, Zenon DEF Open
  <2>2. i - 1 \notin s.kept
    BY <1>2, <2>1
  <2>3. \/ r.next = i + 1 /\ ~Open(r)
        \/ r.next = i + 2 /\ NoName(line[i + 1])
    <3>1. \/ r.next = i + 1 /\ r.depth # 0
          \/ r.next = i + 2 /\ NoName(line[i + 1])
      BY <1>1, <1>3, <1>6 DEF CommentStep
    <3> QED
      BY <3>1, Zenon DEF Open
  <2> QED
    <3>k. /\ r.kept \subseteq 1..i /\ i \notin r.kept
          /\ \A j \in r.kept : Plain(line, j)
          /\ \A j \in 1..(i - 1) : Border(line, r.kept, j)
      BY <1>4, <2>1, <2>2
    <3>n. r.next > i /\ (r.next <= i + 2 \/ r.next = n + 1)
      BY <1>1, <2>3
    <3>o. /\ Open(r) /\ r.next = i + 1 => i = n \/ NoName(line[i])
          /\ Open(r) /\ r.next = i + 2 => i + 1 >= n \/ NoName(line[i + 1])
      <4>1. i + 1 # i + 2
        BY <1>1
      <4> QED
        BY <2>3, <4>1, Zenon
    <3> QED
      BY <3>k, <3>n, <3>o, Zenon DEF Fine
<1>7. CASE i >= s.next /\ StringStep(line, s, i, r)
  <2>1. ~Open(s) /\ r.kept = s.kept
    BY <1>7, Zenon DEF StringStep, Open
  <2>2. i - 1 \notin s.kept
    BY <1>2, <2>1
  <2>3. \/ r.next \in {i + 1, i + 2} /\ ~Open(r)
        \/ r.next = i + 1 /\ NoName(line[i])
    BY <1>7, Zenon DEF StringStep, NoName, Open
  <2> QED
    <3>k. /\ r.kept \subseteq 1..i /\ i \notin r.kept
          /\ \A j \in r.kept : Plain(line, j)
          /\ \A j \in 1..(i - 1) : Border(line, r.kept, j)
      BY <1>4, <2>1, <2>2
    <3>n. r.next > i /\ (r.next <= i + 2 \/ r.next = n + 1)
      BY <1>1, <2>3
    <3>o. /\ Open(r) /\ r.next = i + 1 => i = n \/ NoName(line[i])
          /\ Open(r) /\ r.next = i + 2 => i + 1 >= n \/ NoName(line[i + 1])
      <4>1. i + 1 # i + 2
        BY <1>1
      <4> QED
        BY <2>3, <4>1, Zenon
    <3> QED
      BY <3>k, <3>n, <3>o, Zenon DEF Fine
<1>8. CASE i >= s.next /\ CodeStep(line, s, i, r)
  <2>1. s.next = i /\ Open(s)
    <3>1. Open(s)
      BY <1>8, Zenon DEF CodeStep, Open
    <3> QED
      BY <1>1, <1>2, <1>8, <3>1
  <2>2. CASE OpensComment(line[i], At(line, i + 1)) /\ r = [s EXCEPT !.next = i + 2, !.depth = s.depth + 1]
    <3>1. r.kept = s.kept /\ r.next = i + 2 /\ ~Open(r)
      <4>1. r.kept = s.kept /\ r.next = i + 2 /\ r.depth # 0
        BY <1>1, <2>2 DEF Masks
      <4> QED
        BY <4>1, Zenon DEF Open
    <3>2. NoName(line[i])
      BY <2>2 DEF NoName, OpensComment
    <3> QED
      BY <1>1, <1>4, <3>1, <3>2 DEF Fine
  <2>3. CASE CutsLine(line[i], At(line, i + 1)) /\ r = [s EXCEPT !.next = n + 1, !.end = i - 1]
    <3>1. r.kept = s.kept /\ r.next = n + 1
      BY <2>3 DEF Masks
    <3>2. NoName(line[i])
      BY <2>3 DEF NoName, CutsLine
    <3> QED
      BY <1>1, <1>4, <3>1, <3>2 DEF Fine
  <2>4. CASE line[i] = "\"" /\ r = [s EXCEPT !.next = i + 1, !.string = TRUE]
    <3>1. r.kept = s.kept /\ r.next = i + 1 /\ ~Open(r)
      <4>1. r.kept = s.kept /\ r.next = i + 1 /\ r.string = TRUE
        BY <2>4 DEF Masks
      <4> QED
        BY <4>1, Zenon DEF Open
    <3>2. NoName(line[i])
      BY <2>4 DEF NoName
    <3> QED
      BY <1>1, <1>4, <3>1, <3>2 DEF Fine
  <2>5. CASE Plain(line, i) /\ r = [s EXCEPT !.next = i + 1, !.kept = s.kept \cup {i}]
    <3>1. r.kept = s.kept \cup {i} /\ r.next = i + 1 /\ r.depth = s.depth /\ r.string = s.string
      BY <2>5 DEF Masks
    <3>2. Open(r)
      BY <2>1, <3>1, Zenon DEF Open
    <3>3. r.kept \subseteq 1..i /\ i \in r.kept /\ \A j \in r.kept : Plain(line, j)
      BY <1>1, <1>2, <2>5, <3>1
    <3>4. ASSUME NEW j \in 1..(i - 1) PROVE Border(line, r.kept, j)
      <4>1. CASE j \in 1..(i - 2)
        <5>1. j + 1 # i /\ j # i /\ Border(line, s.kept, j)
          BY <1>1, <1>2, <4>1
        <5> QED
          BY <3>1, <5>1 DEF Border
      <4>2. CASE j = i - 1
        <5>1. j + 1 = i /\ j # i /\ j >= 1 /\ j # n
          BY <1>1, <4>2
        <5>2. j \in s.kept \/ NoName(line[j])
          BY <1>2, <2>1, <4>2, <5>1
        <5> QED
          BY <3>1, <3>3, <5>1, <5>2 DEF Border
      <4> QED
        BY <1>1, <4>1, <4>2
    <3> QED
      <4>1. r.next > i /\ (r.next <= i + 2 \/ r.next = n + 1)
        BY <1>1, <3>1
      <4>2. r.next # i + 2
        BY <1>1, <3>1
      <4> QED
        BY <3>1, <3>2, <3>3, <3>4, <4>1, <4>2, Zenon DEF Fine
  <2> QED
    BY <1>8, <2>2, <2>3, <2>4, <2>5, Zenon DEF CodeStep, Plain
<1> QED
  BY <1>5, <1>6, <1>7, <1>8 DEF ScanStep

LEMMA MaskHas ==
  ASSUME NEW line, Len(line) \in Nat, DOMAIN line = 1..Len(line), NEW depth \in Nat
  PROVE  LET m == Mask(line, depth) IN
         /\ m.kept \subseteq 1..Len(line) /\ m.depth \in Nat /\ m.end \in 0..Len(line)
         /\ \A i \in m.kept : Plain(line, i)
         /\ \A i \in 1..(Len(line) - 1) : Border(line, m.kept, i)
<1> DEFINE n == Len(line)
<1>1. PICK scan : Scanned(line, depth, scan) /\ Mask(line, depth) = scan[n]
  BY MaskIs
<1>2. /\ \A i \in 0..n : scan[i] \in Masks(n)
      /\ scan[0] = FirstMask(n, depth)
      /\ \A i \in 1..n : ScanStep(line, scan[i - 1], i, scan[i])
  BY <1>1 DEF Scanned
<1>3. n \in Nat /\ 0 \in 0..n /\ n \in 0..n
  OBVIOUS
<1>4. Fine(line, scan[0], 0)
  <2>1. /\ scan[0].kept = {} /\ scan[0].next = 1
    BY <1>2 DEF FirstMask
  <2>2. 1..(0 - 1) = {}
    OBVIOUS
  <2>3. 1 > 0 /\ 1 <= 0 + 2 /\ 1 # 0 + 2 /\ ~(0 >= 1)
    OBVIOUS
  <2> QED
    BY <2>1, <2>2, <2>3, Zenon DEF Fine
<1> DEFINE B == {i \in 0..n : ~Fine(line, scan[i], i)}
<1>5. ASSUME B # {} PROVE FALSE
  <2>1. PICK i \in B : \A j \in B : i <= j
    <3>1. B \subseteq Nat
      BY <1>3
    <3> HIDE DEF B
    <3> QED
      BY <1>5, <3>1, LeastNumber
  <2>2. i # 0
    BY <1>4, <2>1
  <2>3. i \in 1..n /\ i - 1 \in 0..n /\ ~(i <= i - 1) /\ i \in 0..n
    BY <1>3, <2>1, <2>2
  <2>4. Fine(line, scan[i - 1], i - 1)
    BY <2>1, <2>3
  <2>5. Fine(line, scan[i], i)
    BY <1>2, <2>3, <2>4, FineStep
  <2> QED
    BY <2>1, <2>5
<1>6. Fine(line, scan[n], n)
  BY <1>3, <1>5
<1>7. /\ scan[n].kept \subseteq 1..n
      /\ \A i \in scan[n].kept : Plain(line, i)
      /\ \A i \in 1..(n - 1) : Border(line, scan[n].kept, i)
  BY <1>6, Zenon DEF Fine
<1>8. scan[n].depth \in Nat /\ scan[n].end \in 0..n
  <2>1. scan[n] \in Masks(n)
    BY <1>2, <1>3
  <2> QED
    BY <2>1 DEF Masks
<1> QED
  BY <1>1, <1>7, <1>8

\* All of a line that has no comment and no string is kept.
LEMMA PlainIsKept ==
  ASSUME NEW line, Len(line) \in Nat, DOMAIN line = 1..Len(line),
         \A i \in 1..Len(line) : Plain(line, i)
  PROVE  Mask(line, 0).kept = 1..Len(line) /\ Mask(line, 0).end = Len(line)
<1> DEFINE n == Len(line)
           All(i, s) == /\ s.kept = 1..i /\ s.depth = 0 /\ s.string = FALSE /\ s.next = i + 1
                        /\ s.end = n
<1>1. PICK scan : Scanned(line, 0, scan) /\ Mask(line, 0) = scan[n]
  BY MaskIs
<1>2. /\ \A i \in 0..n : scan[i] \in Masks(n)
      /\ scan[0] = FirstMask(n, 0)
      /\ \A i \in 1..n : ScanStep(line, scan[i - 1], i, scan[i])
  BY <1>1 DEF Scanned
<1>3. n \in Nat /\ 0 \in 0..n /\ n \in 0..n
  OBVIOUS
<1>4. All(0, scan[0])
  <2>1. 1..0 = {} /\ 0 + 1 = 1
    OBVIOUS
  <2> QED
    BY <1>2, <2>1 DEF FirstMask
<1> DEFINE B == {i \in 0..n : ~All(i, scan[i])}
<1>5. ASSUME B # {} PROVE FALSE
  <2>1. PICK i \in B : \A j \in B : i <= j
    <3>1. B \subseteq Nat
      BY <1>3
    <3> HIDE DEF B
    <3> QED
      BY <1>5, <3>1, LeastNumber
  <2>2. i # 0
    BY <1>4, <2>1
  <2>3. i \in 1..n /\ i - 1 \in 0..n /\ ~(i <= i - 1) /\ i \in 0..n
    BY <1>3, <2>1, <2>2
  <2> DEFINE s == scan[i - 1]
             r == scan[i]
  <2>4. All(i - 1, s)
    BY <2>1, <2>3
  <2>5. s.next = i /\ ~(i < s.next) /\ ~(s.depth > 0)
    BY <2>3, <2>4
  <2>6. ScanStep(line, s, i, r) /\ s \in Masks(n)
    BY <1>2, <2>3
  <2>7. CodeStep(line, s, i, r)
    BY <2>4, <2>5, <2>6, Zenon DEF ScanStep, Skips, CommentStep, StringStep
  <2>8. Plain(line, i)
    BY <2>3
  <2> HIDE DEF s, r
  <2>9. r = [s EXCEPT !.next = i + 1, !.kept = s.kept \cup {i}]
    BY <2>7, <2>8, Zenon DEF CodeStep, Plain
  <2>10. /\ r.kept = s.kept \cup {i} /\ r.next = i + 1 /\ r.depth = s.depth
         /\ r.string = s.string /\ r.end = s.end
    BY <2>6, <2>9 DEF Masks
  <2>11. (1..(i - 1)) \cup {i} = 1..i
    BY <2>3
  <2>12. All(i, r)
    BY <2>4, <2>10, <2>11, Zenon
  <2> QED
    BY <2>1, <2>12 DEF r
<1> QED
  BY <1>1, <1>3, <1>5

Chars == DOMAIN Lowered

\* A line without its comments and strings.
LEMMA MaskedIs ==
  ASSUME NEW line \in Seq(Chars), NEW depth \in Nat
  PROVE  LET m == Mask(line, depth)
             clean == Masked(line, m)
         IN /\ clean \in Seq(Chars \cup {" "})
            /\ Len(clean) = m.end /\ m.end \in 0..Len(line) /\ DOMAIN clean = 1..m.end
            /\ \A i \in 1..m.end : clean[i] = IF i \in m.kept THEN line[i] ELSE " "
<1> DEFINE m == Mask(line, depth)
           clean == Masked(line, m)
<1>1. Len(line) \in Nat /\ DOMAIN line = 1..Len(line)
  OBVIOUS
<1>2. m.end \in 0..Len(line)
  BY <1>1, MaskHas
<1>3. clean = [i \in 1..m.end |-> IF i \in m.kept THEN line[i] ELSE " "]
  BY DEF Masked
<1> HIDE DEF m, clean
<1>4. \A i \in 1..m.end : i \in 1..Len(line) /\ line[i] \in Chars
  BY <1>1, <1>2
<1>5. m.end \in Nat
  BY <1>1, <1>2
<1>6. \A i \in 1..m.end : clean[i] = IF i \in m.kept THEN line[i] ELSE " "
  BY <1>3, Zenon
<1>7. \A i \in 1..m.end : clean[i] \in Chars \cup {" "}
  BY <1>4, <1>6
<1>8. clean = [i \in 1..m.end |-> clean[i]]
  BY <1>3, <1>6
<1>9. clean \in Seq(Chars \cup {" "}) /\ Len(clean) = m.end /\ DOMAIN clean = 1..m.end
  <2>1. clean \in [1..m.end -> Chars \cup {" "}]
    BY <1>7, <1>8
  <2>2. \A S : \A n \in Nat : \A f \in [1..n -> S] : f \in Seq(S) /\ Len(f) = n /\ DOMAIN f = 1..n
    OBVIOUS
  <2> QED
    BY <1>5, <2>1, <2>2
<1> QED
  BY <1>2, <1>6, <1>9 DEF m, clean

LEMMA CleanStaysClean ==
  ASSUME NEW line \in Seq(Chars), NEW depth \in Nat
  PROVE  LET clean == Masked(line, Mask(line, depth)) IN
         "\"" \notin ToSet(clean) /\ Masked(clean, Mask(clean, 0)) = clean
<1> DEFINE m == Mask(line, depth)
           clean == Masked(line, m)
<1>1. Len(line) \in Nat /\ DOMAIN line = 1..Len(line)
  OBVIOUS
<1>2. /\ Len(clean) = m.end /\ m.end \in 0..Len(line) /\ DOMAIN clean = 1..m.end
      /\ \A i \in 1..m.end : clean[i] = IF i \in m.kept THEN line[i] ELSE " "
  BY MaskedIs
<1>3. \A i \in m.kept : Plain(line, i)
  BY <1>1, MaskHas
<1> HIDE DEF m, clean
<1>4. m.end \in Nat /\ \A i \in 1..m.end : i \in 1..Len(line)
  <2>1. m.end \in 0..Len(line)
    BY <1>2
  <2> QED
    BY <1>1, <2>1
<1>5. ASSUME NEW i \in 1..m.end PROVE Plain(clean, i)
  <2>1. CASE i \in m.kept
    <3>1. Plain(line, i) /\ clean[i] = line[i]
      BY <1>2, <1>3, <2>1
    <3>2. At(clean, i + 1) \in {At(line, i + 1), " ", ""}
      <4>1. CASE i + 1 \in 1..m.end
        <5>1. clean[i + 1] \in {line[i + 1], " "}
          BY <1>2, <4>1
        <5>2. At(clean, i + 1) = clean[i + 1] /\ At(line, i + 1) = line[i + 1]
          BY <1>1, <1>2, <1>4, <4>1 DEF At
        <5> QED
          BY <5>1, <5>2
      <4>2. CASE i + 1 \notin 1..m.end
        BY <1>2, <4>2 DEF At
      <4> QED
        BY <4>1, <4>2
    <3>3. ~OpensComment(clean[i], " ") /\ ~OpensComment(clean[i], "")
      BY DEF OpensComment
    <3>4. ~CutsLine(clean[i], " ") /\ ~CutsLine(clean[i], "")
      BY DEF CutsLine
    <3> QED
      BY <3>1, <3>2, <3>3, <3>4 DEF Plain
  <2>2. CASE i \notin m.kept
    <3>1. clean[i] = " "
      BY <1>2, <2>2
    <3> QED
      BY <3>1 DEF Plain, OpensComment, CutsLine
  <2> QED
    BY <2>1, <2>2
<1>6. "\"" \notin ToSet(clean)
  BY <1>2, <1>5 DEF ToSet, Plain
<1> DEFINE k == Mask(clean, 0)
<1>7. k.kept = 1..m.end /\ k.end = m.end
  BY <1>2, <1>4, <1>5, PlainIsKept
<1>8. Masked(clean, k) = [i \in 1..m.end |-> clean[i]]
  <2> HIDE DEF k
  <2>1. Masked(clean, k) = [i \in 1..m.end |-> IF i \in 1..m.end THEN clean[i] ELSE " "]
    BY <1>7, Zenon DEF Masked
  <2> QED
    BY <2>1
<1>9. clean = [i \in 1..m.end |-> clean[i]]
  BY <1>2 DEF clean, Masked
<1> QED
  BY <1>6, <1>8, <1>9 DEF clean, m

-----------------------------------------------------------------------------
(* Lines. *)

LineFrom(text, i) == IF i = 1 THEN 1 ELSE Breaks(text)[i - 1] + 1
LineTo(text, i) == IF i <= Len(Breaks(text)) THEN Breaks(text)[i] ELSE Len(text) + 1
LastOpen(text) == IF At(text, Len(text)) \in {"\n", ""} THEN 0 ELSE 1

LEMMA BreaksAre ==
  ASSUME NEW text \in Seq(Chars)
  PROVE  LET b == Breaks(text) IN
         /\ b \in Seq(1..Len(text)) /\ Len(b) \in Nat /\ DOMAIN b = 1..Len(b)
         /\ \A i, j \in 1..Len(b) : i < j => b[i] < b[j]
         /\ \A i \in 1..Len(b) : b[i] \in 1..Len(text) /\ text[b[i]] = "\n"
         /\ \A x \in 1..Len(text) : text[x] = "\n" => \E k \in 1..Len(b) : b[k] = x
<1> DEFINE S == {i \in DOMAIN text : text[i] = "\n"}
           b == Breaks(text)
           n == Cardinality(S)
<1>1. Len(text) \in Nat /\ DOMAIN text = 1..Len(text)
  OBVIOUS
<1>2. S \subseteq 1..Len(text) /\ \A x \in S : text[x] = "\n"
  BY <1>1
<1>3. IsFiniteSet(S) /\ S \subseteq Int
  <2> HIDE DEF S
  <2> QED
    BY <1>1, <1>2, PositionsAreFinite
<1>4. b = InOrder(S)
  BY DEF Breaks
<1> HIDE DEF b
<1>5. /\ n \in Nat /\ b \in [1..n -> S]
      /\ \A i, j \in 1..n : i < j => b[i] < b[j]
      /\ \A x \in S : \E k \in 1..n : b[k] = x
  <2> HIDE DEF S
  <2> QED
    BY <1>3, <1>4, InOrderIs
<1>6. \A x \in 1..Len(text) : text[x] = "\n" => x \in S
  BY <1>1
<1> HIDE DEF S, n
<1>7. b \in [1..n -> 1..Len(text)]
  BY <1>2, <1>5
<1>8. b \in Seq(1..Len(text)) /\ Len(b) = n /\ DOMAIN b = 1..n
  <2>1. \A T : \A m \in Nat : \A f \in [1..m -> T] : f \in Seq(T) /\ Len(f) = m /\ DOMAIN f = 1..m
    OBVIOUS
  <2> QED
    BY <1>5, <1>7, <2>1
<1>9. \A i \in 1..n : b[i] \in S
  BY <1>5
<1> QED
  BY <1>2, <1>5, <1>6, <1>7, <1>8, <1>9 DEF b

\* The lines as parts of the text.
LEMMA LinesAre ==
  ASSUME NEW text \in Seq(Chars)
  PROVE  LET lines == LinesOf(text)
             b == Breaks(text)
         IN /\ lines \in Seq(Seq(Chars)) /\ Len(lines) = Len(b) + LastOpen(text)
            /\ Len(lines) \in Nat /\ DOMAIN lines = 1..Len(lines)
            /\ \A i \in 1..Len(lines) :
                 /\ lines[i] \in Seq(Chars)
                 /\ LineFrom(text, i) \in 1..(Len(text) + 1)
                 /\ LineTo(text, i) \in LineFrom(text, i)..(Len(text) + 1)
                 /\ Len(lines[i]) = LineTo(text, i) - LineFrom(text, i)
                 /\ \A k \in 1..Len(lines[i]) : /\ LineFrom(text, i) + k - 1 \in 1..Len(text)
                                               /\ lines[i][k] = text[LineFrom(text, i) + k - 1]
<1> DEFINE lines == LinesOf(text)
           b == Breaks(text)
           n == Len(text)
           from == <<1>> \o [i \in DOMAIN b |-> b[i] + 1]
           to == b \o <<n + 1>>
           count == Len(b) + LastOpen(text)
           F(i) == LineFrom(text, i)
           T(i) == LineTo(text, i)
<1>1. n \in Nat /\ DOMAIN text = 1..n /\ \A i \in 1..n : text[i] \in Chars
  OBVIOUS
<1>2. /\ b \in Seq(1..n) /\ Len(b) \in Nat /\ DOMAIN b = 1..Len(b)
      /\ \A i, j \in 1..Len(b) : i < j => b[i] < b[j]
      /\ \A i \in 1..Len(b) : b[i] \in 1..n
  BY BreaksAre
<1>3. lines = [i \in 1..count |-> SubSeq(text, from[i], to[i] - 1)]
  BY Zenon DEF LinesOf, LastOpen
<1>4. count \in Nat /\ count <= Len(b) + 1
  <2>1. LastOpen(text) \in {0, 1}
    BY DEF LastOpen
  <2> HIDE DEF b
  <2> QED
    BY <1>2, <2>1
<1> HIDE DEF b, n
<1>5. \A i \in 1..(Len(b) + 1) : from[i] = F(i) /\ to[i] = T(i)
  <2> DEFINE rest == [i \in DOMAIN b |-> b[i] + 1]
  <2>1. rest \in Seq(Int) /\ Len(rest) = Len(b) /\ \A i \in 1..Len(b) : rest[i] = b[i] + 1
    BY <1>2
  <2> HIDE DEF rest
  <2>2. \A i \in 1..(Len(b) + 1) : from[i] = IF i = 1 THEN 1 ELSE rest[i - 1]
    BY <1>2, <2>1
  <2>3. \A i \in 1..(Len(b) + 1) : i # 1 => i - 1 \in 1..Len(b)
    BY <1>2
  <2>4. b \in Seq(Int) /\ n + 1 \in Int
    BY <1>1, <1>2
  <2>5. \A i \in 1..(Len(b) + 1) : to[i] = IF i <= Len(b) THEN b[i] ELSE n + 1
    BY <1>2, <2>4
  <2> QED
    BY <2>1, <2>2, <2>3, <2>5 DEF LineFrom, LineTo, b, n
<1>6. ASSUME NEW i \in 1..(Len(b) + 1)
      PROVE  F(i) \in 1..(n + 1) /\ T(i) \in F(i)..(n + 1)
  <2>1. F(i) \in 1..(n + 1)
    <3>1. CASE i = 1
      BY <1>1, <3>1 DEF LineFrom
    <3>2. CASE i # 1
      <4>1. i - 1 \in 1..Len(b)
        BY <1>2, <3>2
      <4>2. b[i - 1] \in 1..n /\ F(i) = b[i - 1] + 1
        BY <1>2, <3>2, <4>1 DEF LineFrom, b
      <4> QED
        BY <1>1, <4>2
    <3> QED
      BY <3>1, <3>2
  <2>2. CASE i <= Len(b)
    <3>1. i \in 1..Len(b) /\ b[i] \in 1..n /\ T(i) = b[i]
      BY <1>2, <2>2 DEF LineTo, b
    <3>2. CASE i = 1
      <4>1. F(i) = 1
        BY <3>2 DEF LineFrom
      <4> HIDE DEF F, T
      <4> QED
        BY <1>1, <3>1, <4>1
    <3>3. CASE i # 1
      <4>1. i - 1 \in 1..Len(b) /\ i - 1 < i
        BY <1>2, <3>3
      <4>2. b[i - 1] < b[i] /\ b[i - 1] \in 1..n /\ F(i) = b[i - 1] + 1
        BY <1>2, <3>1, <3>3, <4>1 DEF LineFrom, b
      <4> HIDE DEF F, T
      <4> QED
        BY <1>1, <3>1, <4>2
    <3> QED
      BY <2>1, <3>2, <3>3
  <2>3. CASE ~(i <= Len(b))
    <3>1. T(i) = n + 1
      BY <2>3 DEF LineTo, b, n
    <3> HIDE DEF F, T
    <3> QED
      BY <1>1, <2>1, <3>1
  <2> QED
    BY <2>2, <2>3
<1> HIDE DEF lines, count, from, to, F, T
<1>7. ASSUME NEW i \in 1..count
      PROVE  /\ i \in 1..(Len(b) + 1)
             /\ lines[i] \in Seq(Chars) /\ Len(lines[i]) = T(i) - F(i)
             /\ F(i) \in 1..(n + 1) /\ T(i) \in F(i)..(n + 1)
             /\ \A k \in 1..Len(lines[i]) : F(i) + k - 1 \in 1..n /\ lines[i][k] = text[F(i) + k - 1]
  <2>1. i \in 1..(Len(b) + 1)
    BY <1>2, <1>4
  <2>2. lines[i] = SubSeq(text, F(i), T(i) - 1)
    BY <1>3, <1>5, <2>1
  <2>3. F(i) \in 1..(n + 1) /\ T(i) \in F(i)..(n + 1)
    BY <1>6, <2>1
  <2>4. F(i) \in 1..(Len(text) + 1) /\ T(i) - 1 \in (F(i) - 1)..Len(text)
    BY <1>1, <2>3 DEF n
  <2> DEFINE f == F(i)
             u == T(i) - 1
  <2>5. /\ SubSeq(text, f, u) \in Seq(Chars) /\ Len(SubSeq(text, f, u)) = u - f + 1
        /\ \A k \in 1..(u - f + 1) : SubSeq(text, f, u)[k] = text[f + k - 1]
    BY <2>4, SubSeqIs
  <2>6. u - f + 1 = T(i) - F(i)
    BY <1>1, <2>3
  <2>7. \A k \in 1..(u - f + 1) : F(i) + k - 1 \in 1..n
    BY <1>1, <2>3
  <2> QED
    BY <2>1, <2>2, <2>3, <2>5, <2>6, <2>7
<1>8. lines \in Seq(Seq(Chars)) /\ Len(lines) = count /\ DOMAIN lines = 1..count
  <2>1. lines \in [1..count -> Seq(Chars)]
    BY <1>3, <1>7
  <2>2. \A S : \A m \in Nat : \A f \in [1..m -> S] : f \in Seq(S) /\ Len(f) = m /\ DOMAIN f = 1..m
    OBVIOUS
  <2> QED
    BY <1>4, <2>1, <2>2
<1> QED
  BY <1>4, <1>7, <1>8 DEF lines, b, n, count, F, T

\* A line without its comments and strings is the scan of that line, from some depth.
LEMMA SanitizedAre ==
  ASSUME NEW text \in Seq(Chars)
  PROVE  LET lines == LinesOf(text)
             clean == SanitizedLines(text)
         IN /\ DOMAIN clean = 1..Len(lines) /\ Len(clean) = Len(lines)
            /\ \A k \in 1..Len(lines) : \E d \in Nat : clean[k] = Masked(lines[k], Mask(lines[k], d))
<1> DEFINE lines == LinesOf(text)
           clean == SanitizedLines(text)
           m == Len(lines)
           step == [p \in (1..m) \X Nat |-> Mask(lines[p[1]], p[2]).depth]
           Is(g) == g = [k \in 0..m |-> IF k = 0 THEN 0 ELSE Mask(lines[k], g[k - 1]).depth]
           g == CHOOSE g : Is(g)
<1>1. m \in Nat /\ DOMAIN lines = 1..m /\ \A k \in 1..m : lines[k] \in Seq(Chars)
  BY LinesAre
<1>2. clean = [k \in DOMAIN lines |-> Masked(lines[k], Mask(lines[k], g[k - 1]))]
  BY Zenon DEF SanitizedLines
<1> HIDE DEF lines, clean, m, g
<1>3. ASSUME NEW k \in 1..m, NEW d \in Nat PROVE Mask(lines[k], d).depth \in Nat
  <2>1. Len(lines[k]) \in Nat /\ DOMAIN lines[k] = 1..Len(lines[k])
    BY <1>1
  <2> QED
    BY <2>1, MaskHas
<1>4. step \in [(1..m) \X Nat -> Nat]
  BY <1>3
<1>5. \A k \in 1..m, d \in Nat : step[<<k, d>>] = Mask(lines[k], d).depth
  <2>1. \A k \in 1..m, d \in Nat : <<k, d>> \in (1..m) \X Nat
    OBVIOUS
  <2>2. \A p \in (1..m) \X Nat : step[p] = Mask(lines[p[1]], p[2]).depth
    OBVIOUS
  <2>3. \A k, d : <<k, d>>[1] = k /\ <<k, d>>[2] = d
    OBVIOUS
  <2> HIDE DEF step
  <2> QED
    BY <2>1, <2>2, <2>3, Zenon
<1> HIDE DEF step
<1>6. \E f : Iterates(f, m, Nat, 0, step)
  BY <1>1, <1>4, Iteration
<1>7. PICK f : /\ f \in [0..m -> Nat] /\ f[0] = 0
               /\ \A k \in 1..m : f[k] = step[<<k, f[k - 1]>>]
  BY <1>6 DEF Iterates
<1>8. \A k \in 1..m : k - 1 \in 0..m /\ f[k - 1] \in Nat
  BY <1>1, <1>7
<1>9. \A k \in 1..m : f[k] = Mask(lines[k], f[k - 1]).depth
  BY <1>5, <1>7, <1>8
<1>10. Is(f)
  <2>1. \A k \in 0..m : k # 0 => k \in 1..m
    BY <1>1
  <2>2. \A k \in 0..m : f[k] = IF k = 0 THEN 0 ELSE Mask(lines[k], f[k - 1]).depth
    BY <1>7, <1>9, <2>1
  <2> QED
    BY <1>7, <2>2
<1>11. Is(g)
  <2>1. \E h : Is(h)
    BY <1>10
  <2> HIDE DEF Is
  <2> QED
    BY <2>1 DEF g
<1>12. \A k \in 0..m : g[k] = IF k = 0 THEN 0 ELSE Mask(lines[k], g[k - 1]).depth
  <2> DEFINE h == [k \in 0..m |-> IF k = 0 THEN 0 ELSE Mask(lines[k], g[k - 1]).depth]
  <2>1. \A k \in 0..m : h[k] = IF k = 0 THEN 0 ELSE Mask(lines[k], g[k - 1]).depth
    OBVIOUS
  <2>2. g = h
    BY <1>11
  <2> HIDE DEF h
  <2> QED
    BY <2>1, <2>2
<1> HIDE DEF Is
<1> DEFINE B == {k \in 0..m : g[k] \notin Nat}
<1>13. ASSUME B # {} PROVE FALSE
  <2>1. PICK k \in B : \A j \in B : k <= j
    <3>1. B \subseteq Nat
      BY <1>1
    <3> HIDE DEF B
    <3> QED
      BY <1>13, <3>1, LeastNumber
  <2>2. k # 0
    BY <1>12, <2>1
  <2>3. k \in 1..m /\ k - 1 \in 0..m /\ ~(k <= k - 1)
    BY <1>1, <2>1, <2>2
  <2>4. g[k - 1] \in Nat
    BY <2>1, <2>3
  <2> QED
    BY <1>3, <1>12, <2>1, <2>2, <2>3, <2>4
<1>14. \A k \in 1..m : g[k - 1] \in Nat /\ clean[k] = Masked(lines[k], Mask(lines[k], g[k - 1]))
  <2>1. \A k \in 1..m : k - 1 \in 0..m
    BY <1>1
  <2>2. \A k \in 1..m : g[k - 1] \in Nat
    BY <1>13, <2>1
  <2> QED
    BY <1>1, <1>2, <2>2
<1>15. DOMAIN clean = 1..m /\ Len(clean) = m
  <2>1. DOMAIN clean = 1..m
    BY <1>1, <1>2
  <2>2. \E T : clean \in [1..m -> T]
    <3> DEFINE T == {clean[k] : k \in 1..m}
    <3>1. clean = [k \in 1..m |-> clean[k]]
      BY <1>1, <1>2
    <3>2. clean \in [1..m -> T]
      BY <3>1
    <3> QED
      BY <3>2
  <2>3. \A T : \A n \in Nat : \A h \in [1..n -> T] : Len(h) = n
    OBVIOUS
  <2> QED
    BY <1>1, <2>1, <2>2, <2>3
<1> QED
  BY <1>14, <1>15 DEF lines, clean, m

-----------------------------------------------------------------------------
(* Names in lines. *)

\* The recursive search of line_contains_symbol: a function of that kind exists, and
\* whatever it says of a place follows from what it says behind it.
Searches(f, line, s) ==
  /\ DOMAIN f = 1..(Len(line) + 1)
  /\ \A i \in DOMAIN f :
       LET later == {p \in Places(line, s) : p >= i} IN
       f[i] = (later # {} /\ \/ Delimited(line, s, Min(later)) \/ f[Min(later) + Len(s)])

LEMMA PlacesAre ==
  ASSUME NEW C, NEW line \in Seq(C), NEW D, NEW s \in Seq(D), s # <<>>
  PROVE  /\ Len(line) \in Nat /\ Len(s) \in Nat /\ Len(s) >= 1
         /\ Places(line, s) \subseteq 1..Len(line)
         /\ \A p \in Places(line, s) : p + Len(s) \in (p + 1)..(Len(line) + 1)
         /\ \A p \in Nat : p \in Places(line, s) <=>
              /\ p >= 1 /\ p + Len(s) - 1 <= Len(line)
              /\ \A k \in 1..Len(s) : line[p + k - 1] = s[k]
<1> DEFINE n == Len(line)
           l == Len(s)
<1>1. n \in Nat /\ l \in Nat /\ l >= 1
  BY EmptySeq
<1>2. ASSUME NEW p \in 1..(n - l + 1)
      PROVE  SubSeq(line, p, p + l - 1) = s <=> \A k \in 1..l : line[p + k - 1] = s[k]
  <2>1. p \in 1..(n + 1) /\ p + l - 1 \in (p - 1)..n /\ p + l - 1 - p + 1 = l
    BY <1>1
  <2> DEFINE e == p + l - 1
             q == SubSeq(line, p, e)
  <2>2. /\ q \in Seq(C) /\ Len(q) = l
        /\ \A k \in 1..l : q[k] = line[p + k - 1]
    BY <2>1, SubSeqIs
  <2> HIDE DEF q, e
  <2>3. (\A k \in 1..l : q[k] = s[k]) => q = s
    <3>1. q \in Seq(C \cup D) /\ s \in Seq(C \cup D)
      BY <2>2, SeqMonotonic
    <3> QED
      BY <2>2, <3>1, SeqEqual
  <2> QED
    BY <2>2, <2>3 DEF q, e
<1>3. \A p \in Nat : p \in 1..(n - l + 1) <=> p >= 1 /\ p + l - 1 <= n
  BY <1>1
<1>4. \A p \in 1..(n - l + 1) : p \in 1..n /\ p \in Nat /\ p + l \in (p + 1)..(n + 1)
  BY <1>1
<1> QED
  BY <1>1, <1>2, <1>3, <1>4 DEF Places

\* Whether a search from i finds the symbol, if T says from where behind i it does.
FoundFrom(line, s, i, T) ==
  LET later == {p \in Places(line, s) : p >= i} IN
  later # {} /\ (Delimited(line, s, Min(later)) \/ Min(later) + Len(s) \in T)

LEMMA LaterAre ==
  ASSUME NEW C, NEW line \in Seq(C), NEW D, NEW s \in Seq(D), s # <<>>, NEW i \in Nat,
         {p \in Places(line, s) : p >= i} # {}
  PROVE  LET m == Min({p \in Places(line, s) : p >= i}) IN
         /\ m \in Places(line, s) /\ m \in Nat /\ m >= i
         /\ \A p \in Places(line, s) : p >= i => m <= p
         /\ m + Len(s) \in (i + 1)..(Len(line) + 1)
<1> DEFINE later == {p \in Places(line, s) : p >= i}
           m == Min(later)
<1>1. Places(line, s) \subseteq 1..Len(line) /\ Len(line) \in Nat
  BY PlacesAre
<1>2. later \subseteq Nat
  BY <1>1
<1> HIDE DEF later
<1>3. m \in later /\ \A y \in later : m <= y
  BY <1>2, MinOfNumbers DEF later
<1> HIDE DEF m
<1>4. m \in Places(line, s) /\ m \in Nat /\ m >= i /\ \A p \in Places(line, s) : p >= i => m <= p
  BY <1>2, <1>3 DEF later
<1>5. m + Len(s) \in (m + 1)..(Len(line) + 1)
  BY <1>4, PlacesAre
<1>6. m + Len(s) \in (i + 1)..(Len(line) + 1)
  BY <1>1, <1>4, <1>5
<1> QED
  BY <1>4, <1>6 DEF m, later

LEMMA SearchExists ==
  ASSUME NEW C, NEW line \in Seq(C), NEW D, NEW s \in Seq(D), s # <<>>
  PROVE  \E T \in SUBSET (1..(Len(line) + 1)) :
           \A i \in 1..(Len(line) + 1) : i \in T <=> FoundFrom(line, s, i, T)
<1> DEFINE N == Len(line) + 1
           Good(k, T) == \A i \in (N + 1 - k)..N : i \in T <=> FoundFrom(line, s, i, T)
           B == {k \in 0..N : \A T \in SUBSET (1..N) : ~Good(k, T)}
<1>1. N \in Nat
  OBVIOUS
<1>2. ASSUME B # {} PROVE FALSE
  <2>1. PICK k \in B : \A j \in B : k <= j
    <3>1. B \subseteq Nat
      BY <1>1
    <3> HIDE DEF B
    <3> QED
      BY <1>2, <3>1, LeastNumber
  <2>2. k # 0
    <3>1. Good(0, {})
      BY <1>1
    <3>2. {} \in SUBSET (1..N)
      OBVIOUS
    <3> HIDE DEF Good
    <3> QED
      BY <2>1, <3>1, <3>2
  <2>3. k \in 1..N /\ k - 1 \in 0..N /\ ~(k <= k - 1)
    BY <1>1, <2>1, <2>2
  <2>4. PICK T \in SUBSET (1..N) : Good(k - 1, T)
    <3> HIDE DEF Good
    <3> QED
      BY <2>1, <2>3
  <2> DEFINE i == N + 1 - k
             U == (T \ {i}) \cup (IF FoundFrom(line, s, i, T) THEN {i} ELSE {})
  <2>5. i \in 1..N /\ \A j \in i..N : j \in 1..N /\ (j # i => j \in (N + 1 - (k - 1))..N /\ j > i)
    BY <1>1, <2>3
  <2>6. U \in SUBSET (1..N) /\ (i \in U <=> FoundFrom(line, s, i, T))
    BY <2>5
  <2>7. \A x : x # i => (x \in U <=> x \in T)
    OBVIOUS
  <2> HIDE DEF U
  <2>8. ASSUME NEW j \in i..N PROVE FoundFrom(line, s, j, U) <=> FoundFrom(line, s, j, T)
    <3> DEFINE later == {p \in Places(line, s) : p >= j}
               m == Min(later)
    <3>1. CASE later = {}
      BY <3>1 DEF FoundFrom
    <3>2. CASE later # {}
      <4>1. j \in Nat /\ i \in Nat /\ i <= j
        BY <1>1, <2>5
      <4>2. m + Len(s) \in (j + 1)..(Len(line) + 1)
        BY <3>2, <4>1, LaterAre
      <4> HIDE DEF m, i
      <4>3. m + Len(s) # i
        BY <4>1, <4>2
      <4>4. m + Len(s) \in U <=> m + Len(s) \in T
        BY <2>7, <4>3
      <4> QED
        BY <3>2, <4>4 DEF FoundFrom, m
    <3> QED
      BY <3>1, <3>2
  <2>9. Good(k, U)
    <3> SUFFICES ASSUME NEW j \in i..N PROVE j \in U <=> FoundFrom(line, s, j, U)
      OBVIOUS
    <3>1. j = i => (j \in U <=> FoundFrom(line, s, j, T))
      BY <2>6
    <3>2. j # i => (j \in U <=> FoundFrom(line, s, j, T))
      <4>1. j # i => j \in (N + 1 - (k - 1))..N
        BY <2>5
      <4>2. j # i => (j \in T <=> FoundFrom(line, s, j, T))
        BY <2>4, <4>1
      <4> QED
        BY <2>7, <4>2
    <3> QED
      BY <2>8, <3>1, <3>2
  <2>10. k \in 0..N
    BY <2>1
  <2> HIDE DEF Good, i
  <2> QED
    BY <2>1, <2>6, <2>9, <2>10
<1>3. \E T \in SUBSET (1..N) : Good(N, T)
  <2>1. N \in 0..N
    BY <1>1
  <2> HIDE DEF Good, N
  <2> QED
    BY <1>2, <2>1, Zenon
<1>4. N + 1 - N = 1
  BY <1>1
<1> HIDE DEF N
<1>5. PICK T \in SUBSET (1..N) : \A i \in 1..N : i \in T <=> FoundFrom(line, s, i, T)
  BY <1>3, <1>4
<1> QED
  BY <1>5 DEF N

\* What line_contains_symbol says is what such a search from the first place says.
LEMMA ContainsIs ==
  ASSUME NEW C, NEW line \in Seq(C), NEW D, NEW s \in Seq(D), s # <<>>
  PROVE  \E f : Searches(f, line, s) /\ ContainsSymbol(line, s) = f[1]
<1> DEFINE N == Len(line) + 1
           L(i) == {p \in Places(line, s) : p >= i}
           Is(g) == g = [i \in 1..N |->
                           L(i) # {} /\ (Delimited(line, s, Min(L(i))) \/ g[Min(L(i)) + Len(s)])]
           g == CHOOSE h : Is(h)
<1>1. N \in Nat
  OBVIOUS
<1>2. ContainsSymbol(line, s) = g[1]
  BY Zenon DEF ContainsSymbol
<1>3. PICK T \in SUBSET (1..N) : \A i \in 1..N : i \in T <=> FoundFrom(line, s, i, T)
  BY SearchExists
<1> DEFINE H(i, X) == L(i) # {} /\ (Delimited(line, s, Min(L(i))) \/ X)
           f == [i \in 1..N |-> H(i, Min(L(i)) + Len(s) \in T)]
<1>4. Is(f)
  <2>1. \A i \in 1..N : f[i] = H(i, Min(L(i)) + Len(s) \in T)
    BY Zenon
  <2>2. \A i \in 1..N : i \in T <=> H(i, Min(L(i)) + Len(s) \in T)
    BY <1>3, Zenon DEF FoundFrom
  <2>3. ASSUME NEW i \in 1..N
        PROVE  H(i, Min(L(i)) + Len(s) \in T) = H(i, f[Min(L(i)) + Len(s)])
    <3>1. CASE L(i) = {}
      <4>1. \A X : ~H(i, X)
        BY <3>1, Zenon
      <4>2. \A X : H(i, X) = FALSE
        BY <3>1
      <4> HIDE DEF H
      <4> QED
        BY <4>2, Zenon
    <3>2. CASE L(i) # {}
      <4> DEFINE q == Min(L(i)) + Len(s)
      <4>1. i \in Nat
        BY <1>1
      <4>2. q \in (i + 1)..N
        BY <3>2, <4>1, LaterAre
      <4>3. q \in 1..N
        <5> HIDE DEF q
        <5> QED
          BY <1>1, <4>1, <4>2
      <4> HIDE DEF q
      <4>4. f[q] = H(q, Min(L(q)) + Len(s) \in T)
        BY <2>1, <4>3, Zenon
      <4>5. q \in T <=> H(q, Min(L(q)) + Len(s) \in T)
        BY <2>2, <4>3, Zenon
      <4>6. H(q, Min(L(q)) + Len(s) \in T) \in BOOLEAN
        BY Zenon
      <4> HIDE DEF H, f
      <4>7. f[q] = (q \in T)
        BY <4>4, <4>5, <4>6
      <4> QED
        BY <4>7, Zenon DEF q
    <3> QED
      BY <3>1, <3>2
  <2> DEFINE r == [i \in 1..N |-> H(i, f[Min(L(i)) + Len(s)])]
  <2>4. DOMAIN f = 1..N /\ f = [i \in 1..N |-> f[i]]
    BY Zenon
  <2> HIDE DEF f, H, L
  <2>5. f = r
    BY <2>1, <2>3, <2>4, Zenon
  <2> QED
    BY <2>5, Zenon DEF H
<1>5. Is(g)
  <2>1. \E h : Is(h)
    BY <1>4
  <2> HIDE DEF Is, f
  <2> QED
    BY <2>1, Zenon DEF g
<1> HIDE DEF g, f
<1>6. Searches(g, line, s)
  <2> DEFINE h == [i \in 1..N |-> H(i, g[Min(L(i)) + Len(s)])]
  <2>1. g = h
    BY <1>5, Zenon
  <2>2. \A i \in 1..N : h[i] = H(i, g[Min(L(i)) + Len(s)])
    BY Zenon
  <2>3. DOMAIN h = 1..N
    BY Zenon
  <2> HIDE DEF h, H, L
  <2>4. DOMAIN g = 1..N /\ \A i \in 1..N : g[i] = H(i, g[Min(L(i)) + Len(s)])
    BY <2>1, <2>2, <2>3, Zenon
  <2>5. \A i \in 1..N : g[i] = (L(i) # {} /\ (Delimited(line, s, Min(L(i))) \/ g[Min(L(i)) + Len(s)]))
    BY <2>4, Zenon DEF H
  <2> QED
    BY <2>4, <2>5, Zenon DEF Searches, L
<1> QED
  BY <1>2, <1>6

\* The symbol is found at a place that nothing before overlaps.
LEMMA ContainsIfApart ==
  ASSUME NEW C, NEW line \in Seq(C), NEW D, NEW s \in Seq(D), s # <<>>,
         NEW p \in Places(line, s), Delimited(line, s, p),
         \A x \in Places(line, s) : x < p => x + Len(s) <= p
  PROVE  ContainsSymbol(line, s)
<1>1. PICK f : Searches(f, line, s) /\ ContainsSymbol(line, s) = f[1]
  BY ContainsIs
<1> DEFINE N == Len(line) + 1
           B == {k \in Nat : k < p /\ ~f[p - k]}
<1>2. /\ N \in Nat /\ p \in 1..Len(line) /\ p \in 1..N /\ Places(line, s) \subseteq 1..Len(line)
      /\ Len(s) \in Nat
  <2>1. Len(line) \in Nat /\ Places(line, s) \subseteq 1..Len(line) /\ Len(s) \in Nat
    BY PlacesAre
  <2> QED
    BY <2>1
<1>3. ASSUME B # {} PROVE FALSE
  <2>1. PICK k \in B : \A j \in B : k <= j
    <3>1. B \subseteq Nat
      OBVIOUS
    <3> HIDE DEF B
    <3> QED
      BY <1>3, <3>1, LeastNumber
  <2> DEFINE i == p - k
             later == {q \in Places(line, s) : q >= i}
             m == Min(later)
  <2>2. k \in Nat /\ i \in 1..N /\ i <= p /\ i \in Nat /\ ~f[i]
    BY <1>2, <2>1
  <2>3. p \in later
    BY <2>2
  <2>4. later # {}
    BY <2>3
  <2>5. m \in Places(line, s) /\ m \in Nat /\ m >= i /\ m <= p
    <3> HIDE DEF i
    <3> QED
      BY <2>2, <2>3, <2>4, LaterAre
  <2> HIDE DEF B
  <2>6. f[i] = (later # {} /\ (Delimited(line, s, m) \/ f[m + Len(s)]))
    <3> HIDE DEF i
    <3> QED
      BY <1>1, <2>2, Zenon DEF Searches
  <2>7. ~Delimited(line, s, m) /\ ~f[m + Len(s)]
    <3> HIDE DEF m, later, i
    <3> QED
      BY <2>2, <2>4, <2>6
  <2>8. m < p /\ m + Len(s) <= p /\ m + Len(s) > m
    <3>1. m # p
      BY <2>7
    <3>2. m + Len(s) \in (m + 1)..(Len(line) + 1)
      BY <2>5, PlacesAre
    <3> HIDE DEF m, i
    <3>3. m < p
      BY <1>2, <2>5, <3>1
    <3> QED
      BY <1>2, <2>5, <3>2, <3>3
  <2> DEFINE j == p - (m + Len(s))
  <2> HIDE DEF m, later
  <2>9. j \in Nat /\ j < p /\ ~(k <= j) /\ p - j = m + Len(s)
    BY <1>2, <2>2, <2>5, <2>8
  <2>10. j \in B
    BY <2>7, <2>9 DEF B
  <2> QED
    BY <2>1, <2>9, <2>10
<1>4. p - 1 \in Nat /\ p - 1 < p /\ p - (p - 1) = 1
  BY <1>2
<1>5. f[1]
  BY <1>3, <1>4
<1> QED
  BY <1>1, <1>5

SymbolChars == Ident \cup {"."}

LEMMA NoSymbolChars ==
  "" \notin SymbolChars /\ " " \notin SymbolChars /\ "\n" \notin SymbolChars
<1>1. Ident \cap {"", " ", "\n", ".", "\"", "\\", "/", "*", "-", "(", ")"} = {}
  BY LinesAssumption
<1> QED
  BY <1>1 DEF SymbolChars

\* A stretch of a line that has only characters of symbols, with none beside it.
IsStretch(line, a, b) ==
  /\ a \in 1..Len(line) /\ b \in a..Len(line)
  /\ \A i \in a..b : line[i] \in SymbolChars
  /\ At(line, a - 1) \notin SymbolChars /\ At(line, b + 1) \notin SymbolChars

\* What is left of a part of a line when its ends are trimmed.
LEMMA WithinIs ==
  ASSUME NEW C, NEW line \in Seq(C), NEW a \in 1..Len(line), NEW b \in a..Len(line),
         NEW S, Within(SubSeq(line, a, b), S) # <<>>
  PROVE  \E p \in a..b : \E q \in p..b :
           /\ Within(SubSeq(line, a, b), S) = SubSeq(line, p, q)
           /\ line[p] \in S /\ line[q] \in S
           /\ \A i \in a..b : line[i] \in S => p <= i /\ i <= q
<1> DEFINE part == SubSeq(line, a, b)
           kept == {i \in DOMAIN part : part[i] \in S}
           l == Min(kept)
           r == Max(kept)
           n == b - a + 1
<1>1. Len(line) \in Nat /\ n \in Nat /\ a \in 1..(Len(line) + 1) /\ b \in (a - 1)..Len(line)
  OBVIOUS
<1>2. part \in Seq(C) /\ Len(part) = n /\ \A i \in 1..n : part[i] = line[a + i - 1]
  BY <1>1, SubSeqIs
<1> HIDE DEF part
<1>3. DOMAIN part = 1..n
  BY <1>2
<1>4. Within(part, S) = IF kept = {} THEN <<>> ELSE SubSeq(part, l, r)
  BY Zenon DEF Within
<1>5. kept # {} /\ kept \subseteq 1..n
  BY <1>3, <1>4 DEF part
<1>6. IsFiniteSet(kept) /\ kept \subseteq Nat /\ kept \subseteq Int
  <2> HIDE DEF kept, n
  <2> QED
    BY <1>1, <1>5, PositionsAreFinite
<1>7. /\ l \in kept /\ \A y \in kept : l <= y
      /\ r \in kept /\ \A y \in kept : r >= y
  <2> HIDE DEF kept
  <2> QED
    BY <1>5, <1>6, MinOfNumbers, MaxOfNumbers
<1> HIDE DEF l, r
<1>8. l \in 1..n /\ r \in 1..n /\ l <= r /\ part[l] \in S /\ part[r] \in S
  BY <1>3, <1>7
<1>9. \A i \in 1..n : part[i] \in S => l <= i /\ i <= r
  <2>1. \A i \in 1..n : part[i] \in S => i \in kept
    BY <1>3
  <2>2. \A i \in kept : l <= i /\ i <= r
    BY <1>6, <1>7
  <2> QED
    BY <2>1, <2>2
<1> HIDE DEF kept
<1> DEFINE p == a + l - 1
           q == a + r - 1
<1>10. p \in a..b /\ q \in p..b
  BY <1>1, <1>8
<1>11. line[p] \in S /\ line[q] \in S
  BY <1>2, <1>8
<1>12. \A i \in a..b : line[i] \in S => p <= i /\ i <= q
  <2> SUFFICES ASSUME NEW i \in a..b, line[i] \in S PROVE p <= i /\ i <= q
    OBVIOUS
  <2>1. i - a + 1 \in 1..n /\ a + (i - a + 1) - 1 = i
    BY <1>1
  <2>2. part[i - a + 1] = line[i]
    BY <1>2, <2>1
  <2>3. l <= i - a + 1 /\ i - a + 1 <= r
    BY <1>9, <2>1, <2>2
  <2> QED
    BY <1>1, <1>8, <2>3
<1>13. SubSeq(part, l, r) = SubSeq(line, p, q)
  <2> DEFINE u == SubSeq(part, l, r)
             v == SubSeq(line, p, q)
             k == r - l + 1
  <2>1. l \in 1..(Len(part) + 1) /\ r \in (l - 1)..Len(part)
    BY <1>1, <1>2, <1>8
  <2>2. u \in Seq(C) /\ Len(u) = k /\ \A i \in 1..k : u[i] = part[l + i - 1]
    BY <1>2, <2>1, SubSeqIs
  <2>3. p \in 1..(Len(line) + 1) /\ q \in (p - 1)..Len(line) /\ q - p + 1 = k
    BY <1>1, <1>8
  <2> HIDE DEF u
  <2>4. v \in Seq(C) /\ Len(v) = k /\ \A i \in 1..k : v[i] = line[p + i - 1]
    <3> HIDE DEF p, q
    <3>1. /\ v \in Seq(C) /\ Len(v) = q - p + 1 /\ \A i \in 1..(q - p + 1) : v[i] = line[p + i - 1]
      BY <2>3, SubSeqIs
    <3> QED
      BY <2>3, <3>1
  <2> HIDE DEF v
  <2>5. ASSUME NEW i \in 1..k PROVE u[i] = v[i]
    <3>1. l + i - 1 \in 1..n /\ a + (l + i - 1) - 1 = p + i - 1
      BY <1>1, <1>8
    <3>2. part[l + i - 1] = line[a + (l + i - 1) - 1]
      BY <1>2, <3>1
    <3> HIDE DEF p
    <3> QED
      BY <2>2, <2>4, <3>1, <3>2
  <2>6. u = v
    <3> HIDE DEF k
    <3> QED
      BY <2>2, <2>4, <2>5, SeqEqual
  <2> QED
    BY <2>6 DEF u, v
<1>14. Within(part, S) = SubSeq(line, p, q)
  BY <1>4, <1>5, <1>13
<1> HIDE DEF p, q
<1> QED
  BY <1>10, <1>11, <1>12, <1>14 DEF part

\* The symbol of a stretch is found in the line of the stretch.
LEMMA StretchIsFound ==
  ASSUME NEW C, NEW line \in Seq(C), NEW a, NEW b, IsStretch(line, a, b),
         NEW s, s = Within(SubSeq(line, a, b), Ident), s # <<>>
  PROVE  ContainsSymbol(line, s)
<1>1. /\ a \in 1..Len(line) /\ b \in a..Len(line) /\ Len(line) \in Nat
      /\ DOMAIN line = 1..Len(line)
  BY DEF IsStretch
<1>2. PICK p \in a..b : \E q \in p..b :
        /\ s = SubSeq(line, p, q) /\ line[p] \in Ident /\ line[q] \in Ident
        /\ \A i \in a..b : line[i] \in Ident => p <= i /\ i <= q
  BY <1>1, WithinIs
<1>3. PICK q \in p..b :
        /\ s = SubSeq(line, p, q) /\ line[p] \in Ident /\ line[q] \in Ident
        /\ \A i \in a..b : line[i] \in Ident => p <= i /\ i <= q
  BY <1>2
<1> DEFINE l == q - p + 1
<1>4. p \in 1..Len(line) /\ q \in p..Len(line) /\ p \in Nat /\ q \in Nat /\ l \in Nat /\ l >= 1
  BY <1>1, <1>3
<1>5. s \in Seq(C) /\ Len(s) = l /\ \A i \in 1..l : s[i] = line[p + i - 1]
  <2>1. p \in 1..(Len(line) + 1) /\ q \in (p - 1)..Len(line)
    BY <1>1, <1>4
  <2> HIDE DEF l
  <2> QED
    BY <1>3, <2>1, SubSeqIs DEF l
<1>6. p \in Places(line, s)
  <2>1. p >= 1 /\ p + l - 1 <= Len(line) /\ \A k \in 1..l : line[p + k - 1] = s[k]
    BY <1>1, <1>4, <1>5
  <2> HIDE DEF l
  <2> QED
    BY <1>4, <1>5, <2>1, PlacesAre
<1>7. Delimited(line, s, p)
  <2>1. At(line, a - 1) \notin Ident /\ At(line, b + 1) \notin Ident
    BY DEF IsStretch, SymbolChars
  <2>2. At(line, p - 1) \notin Ident
    <3>1. CASE p = a
      BY <2>1, <3>1
    <3>2. CASE p # a
      <4>1. p - 1 \in a..b /\ p - 1 \in 1..Len(line) /\ ~(p <= p - 1)
        BY <1>1, <1>4, <3>2
      <4>2. line[p - 1] \notin Ident
        BY <1>3, <4>1
      <4> QED
        BY <1>1, <4>1, <4>2 DEF At
    <3> QED
      BY <3>1, <3>2
  <2>3. p + Len(s) = q + 1
    BY <1>4, <1>5
  <2>4. At(line, q + 1) \notin Ident
    <3>1. CASE q = b
      BY <2>1, <3>1
    <3>2. CASE q # b
      <4>1. q + 1 \in a..b /\ q + 1 \in 1..Len(line) /\ ~(q + 1 <= q)
        BY <1>1, <1>3, <1>4, <3>2
      <4>2. line[q + 1] \notin Ident
        BY <1>3, <4>1
      <4> QED
        BY <1>1, <4>1, <4>2 DEF At
    <3> QED
      BY <3>1, <3>2
  <2> QED
    BY <2>2, <2>3, <2>4 DEF Delimited
<1>8. ASSUME NEW x \in Places(line, s), x < p PROVE x + Len(s) <= p
  <2>1. x \in Nat /\ x >= 1 /\ x + l - 1 <= Len(line) /\ \A k \in 1..l : line[x + k - 1] = s[k]
    <3>1. x \in Nat
      BY <1>5, PlacesAre
    <3> HIDE DEF l
    <3> QED
      BY <1>5, <3>1, PlacesAre
  <2>2. line[x] \in Ident
    <3>1. 1 \in 1..l /\ x + 1 - 1 = x /\ p + 1 - 1 = p
      BY <1>4, <2>1
    <3>2. line[x + 1 - 1] = s[1] /\ s[1] = line[p + 1 - 1]
      BY <1>5, <2>1, <3>1
    <3> QED
      BY <1>3, <3>1, <3>2
  <2>3. x < a
    <3>1. x >= a => x \in a..b /\ ~(p <= x)
      BY <1>1, <1>4, <1>8, <2>1
    <3> QED
      BY <1>1, <1>3, <2>1, <2>2, <3>1
  <2>4. ASSUME x + l > p PROVE FALSE
    <3> DEFINE k == a - x
    <3>1. k \in 1..l /\ x + k - 1 = a - 1 /\ a - 1 \in 1..Len(line) /\ p + k - 1 \in a..b
      BY <1>1, <1>3, <1>4, <2>1, <2>3, <2>4
    <3> HIDE DEF k
    <3>2. line[a - 1] = s[k] /\ s[k] = line[p + k - 1]
      BY <1>5, <2>1, <3>1
    <3>3. line[a - 1] \in SymbolChars
      BY <3>1, <3>2 DEF IsStretch
    <3> QED
      BY <1>1, <3>1, <3>3 DEF IsStretch, At
  <2> QED
    BY <1>4, <1>5, <2>1, <2>4
<1> QED
  BY <1>5, <1>6, <1>7, <1>8, ContainsIfApart

\* The stretch around a character of it.
LEMMA StretchIs ==
  ASSUME NEW C, NEW line \in Seq(C), NEW i \in 1..Len(line), line[i] \in SymbolChars
  PROVE  \E a, b : Stretch(line, i, SymbolChars) = <<a, b>> /\ IsStretch(line, a, b)
<1> DEFINE n == Len(line)
           outside == {j \in DOMAIN line : line[j] \notin SymbolChars}
           before == {0} \cup {j \in outside : j < i}
           after == {n + 1} \cup {j \in outside : j > i}
           x == Max(before)
           y == Min(after)
<1>1. n \in Nat /\ DOMAIN line = 1..n /\ i \in 1..n
  OBVIOUS
<1>2. outside \subseteq 1..n /\ \A j \in 1..n : j \in outside <=> line[j] \notin SymbolChars
  BY <1>1
<1> HIDE DEF outside, n
<1>a. \A j \in outside : j \in Int /\ j >= 1 /\ j <= n
  BY <1>1, <1>2
<1>b. /\ \A j : j \in before <=> j = 0 \/ (j \in outside /\ j < i)
      /\ \A j : j \in after <=> j = n + 1 \/ (j \in outside /\ j > i)
  BY Zenon
<1> HIDE DEF before, after
<1>3. before \subseteq 0..(i - 1) /\ after \subseteq (i + 1)..(n + 1)
  <2>1. \A j \in before : j \in 0..(i - 1)
    BY <1>1, <1>a, <1>b
  <2>2. \A j \in after : j \in (i + 1)..(n + 1)
    BY <1>1, <1>a, <1>b
  <2> QED
    BY <2>1, <2>2
<1>4. x \in before /\ \A j \in before : x >= j
  <2>1. 0..(i - 1) = 0..(i - 1) /\ IsFiniteSet(0..(i - 1))
    BY <1>1, FS_Interval
  <2>2. IsFiniteSet(before)
    <3> QED
      BY <1>3, <2>1, FS_Subset
  <2>3. before \subseteq Int /\ before # {}
    <3>1. 0 \in before
      BY <1>b
    <3> QED
      BY <1>1, <1>3, <3>1
  <2> QED
    BY <2>2, <2>3, MaxOfNumbers
<1>5. y \in after /\ \A j \in after : y <= j
  <2>1. after \subseteq Nat /\ after # {}
    <3>1. n + 1 \in after
      BY <1>b
    <3> QED
      BY <1>1, <1>3, <3>1
  <2> QED
    BY <2>1, MinOfNumbers
<1> HIDE DEF x, y
<1>6. x \in 0..(i - 1) /\ y \in (i + 1)..(n + 1)
  BY <1>3, <1>4, <1>5
<1> DEFINE a == x + 1
           b == y - 1
<1>7. a \in 1..i /\ b \in i..n
  BY <1>1, <1>6
<1>8. ASSUME NEW j \in a..b PROVE line[j] \in SymbolChars
  <2>1. j \in 1..n
    BY <1>1, <1>7
  <2>2. CASE j < i
    <3>1. j \in outside => j \in before
      BY <1>b, <2>2
    <3>2. ~(x >= j)
      BY <1>6
    <3> QED
      BY <1>2, <1>4, <2>1, <3>1, <3>2
  <2>3. CASE j = i
    BY <2>3
  <2>4. CASE j > i
    <3>1. j \in outside => j \in after
      BY <1>b, <2>4
    <3>2. ~(y <= j)
      BY <1>1, <1>6, <1>7
    <3> QED
      BY <1>2, <1>5, <2>1, <3>1, <3>2
  <2> QED
    BY <1>1, <2>1, <2>2, <2>3, <2>4
<1>9. At(line, a - 1) \notin SymbolChars
  <2>1. a - 1 = x /\ (x = 0 \/ x \in outside)
    BY <1>4, <1>6, <1>b
  <2>2. 0 \notin DOMAIN line
    BY <1>1
  <2>3. x \in outside => x \in DOMAIN line /\ line[x] \notin SymbolChars
    BY <1>1, <1>2
  <2> QED
    BY <2>1, <2>2, <2>3, NoSymbolChars DEF At
<1>10. At(line, b + 1) \notin SymbolChars
  <2>1. b + 1 = y /\ (y = n + 1 \/ y \in outside)
    BY <1>1, <1>5, <1>6, <1>b
  <2>2. n + 1 \notin DOMAIN line
    BY <1>1
  <2>3. y \in outside => y \in DOMAIN line /\ line[y] \notin SymbolChars
    BY <1>1, <1>2
  <2> QED
    BY <2>1, <2>2, <2>3, NoSymbolChars DEF At
<1>11. Stretch(line, i, SymbolChars) = <<a, b>>
  BY Zenon DEF Stretch, x, y, before, after, outside, n
<1>12. a \in 1..n /\ b \in a..n
  BY <1>1, <1>7
<1>13. IsStretch(line, a, b)
  <2> HIDE DEF a, b
  <2> QED
    BY <1>8, <1>9, <1>10, <1>12 DEF IsStretch, n
<1> QED
  BY <1>11, <1>13, Zenon

LEMMA PlaceIs ==
  ASSUME NEW C, NEW line \in Seq(C), NEW column \in Nat, SymbolPlace(line, column) # <<>>
  PROVE  \E a, b : SymbolPlace(line, column) = <<a, b>> /\ IsStretch(line, a, b)
<1> DEFINE col  == Min({column, Len(line)})
           back == ~IsSymbolChar(At(line, col)) /\ IsSymbolChar(At(line, col - 1))
           at   == IF back THEN col - 1 ELSE col
<1>1. SymbolPlace(line, column) = IF IsSymbolChar(At(line, at)) THEN Stretch(line, at, SymbolChars) ELSE <<>>
  BY Zenon DEF SymbolPlace, SymbolChars
<1> HIDE DEF at
<1>2. At(line, at) \in SymbolChars /\ SymbolPlace(line, column) = Stretch(line, at, SymbolChars)
  BY <1>1 DEF IsSymbolChar, SymbolChars
<1>3. at \in 1..Len(line) /\ line[at] \in SymbolChars
  <2>1. DOMAIN line = 1..Len(line)
    OBVIOUS
  <2> QED
    BY <1>2, <2>1, NoSymbolChars DEF At
<1> QED
  BY <1>2, <1>3, StretchIs

\* The symbol that hover takes from a line is found in it.
LEMMA InferredIsInLine ==
  ASSUME NEW C, NEW line \in Seq(C), NEW column \in Nat, InferSymbol(line, column) # <<>>
  PROVE  /\ ContainsSymbol(line, InferSymbol(line, column))
         /\ SymbolPlace(line, column) # <<>>
<1>1. /\ SymbolPlace(line, column) # <<>>
      /\ InferSymbol(line, column) =
           Within(SubSeq(line, SymbolPlace(line, column)[1], SymbolPlace(line, column)[2]), Ident)
  BY DEF InferSymbol
<1>2. PICK a, b : SymbolPlace(line, column) = <<a, b>> /\ IsStretch(line, a, b)
  BY <1>1, PlaceIs
<1>3. InferSymbol(line, column) = Within(SubSeq(line, a, b), Ident)
  BY <1>1, <1>2
<1> QED
  BY <1>1, <1>2, <1>3, StretchIsFound

Shows(clean, line, place) ==
  SubSeq(clean, place[1], Min({place[2], Len(clean)})) = SubSeq(line, place[1], place[2])

Blanked(clean, line) ==
  /\ Len(clean) <= Len(line)
  /\ \A i \in 1..Len(clean) : clean[i] = line[i] \/ clean[i] = " "

\* It is found also where other parts of the line are blank or cut.
LEMMA InferredIsInClean ==
  ASSUME NEW C, NEW line \in Seq(C), NEW column \in Nat, InferSymbol(line, column) # <<>>,
         NEW D, NEW clean \in Seq(D), Blanked(clean, line),
         Shows(clean, line, SymbolPlace(line, column))
  PROVE  ContainsSymbol(clean, InferSymbol(line, column))
<1> DEFINE place == SymbolPlace(line, column)
           m == Len(clean)
           n == Len(line)
<1>1. /\ place # <<>>
      /\ InferSymbol(line, column) = Within(SubSeq(line, place[1], place[2]), Ident)
  BY DEF InferSymbol
<1>2. PICK a, b : place = <<a, b>> /\ IsStretch(line, a, b)
  BY <1>1, PlaceIs
<1>3. place[1] = a /\ place[2] = b
  BY <1>2
<1> HIDE DEF place
<1>4. /\ m \in Nat /\ n \in Nat /\ m <= n /\ DOMAIN line = 1..n /\ DOMAIN clean = 1..m
      /\ a \in 1..n /\ b \in a..n
  <2>1. m \in Nat /\ n \in Nat /\ DOMAIN line = 1..n /\ DOMAIN clean = 1..m
    OBVIOUS
  <2>2. m <= n
    BY DEF Blanked
  <2>3. a \in 1..n /\ b \in a..n
    BY <1>2 DEF IsStretch
  <2> QED
    BY <2>1, <2>2, <2>3
<1> DEFINE e == Min({b, m})
<1>5. SubSeq(clean, a, e) = SubSeq(line, a, b)
  BY <1>3, Zenon DEF place, Shows
<1>6. e = IF b <= m THEN b ELSE m
  BY <1>4, MinOfTwo
<1> HIDE DEF e, m, n
<1>7. /\ Len(SubSeq(line, a, b)) = b - a + 1
      /\ \A i \in 1..(b - a + 1) : SubSeq(line, a, b)[i] = line[a + i - 1]
  <2>1. a \in 1..(Len(line) + 1) /\ b \in (a - 1)..Len(line)
    BY <1>4 DEF n
  <2> QED
    BY <2>1, SubSeqIs
<1>8. b <= m
  <2> SUFFICES ASSUME m < b PROVE FALSE
    BY <1>4
  <2>1. e = m
    BY <1>4, <1>6
  <2>2. CASE a <= m + 1
    <3>1. a \in 1..(Len(clean) + 1) /\ m \in (a - 1)..Len(clean)
      BY <1>4, <2>2 DEF m
    <3>2. Len(SubSeq(clean, a, m)) = m - a + 1
      BY <3>1, SubSeqIs
    <3> QED
      BY <1>4, <1>5, <1>7, <2>1, <3>2
  <2>3. CASE ~(a <= m + 1)
    <3>1. Len(SubSeq(clean, a, m)) = 0
      <4>1. \A j \in a..m : j \in 1..m /\ clean[j] \in D
        BY <1>4, <2>3
      <4>2. a \in Int /\ m \in Int /\ ~(a <= m)
        BY <1>4, <2>3
      <4>3. Len(SubSeq(clean, a, m)) = IF a <= m THEN m - a + 1 ELSE 0
        BY <4>1, <4>2, SubSeqProperties
      <4> QED
        BY <4>2, <4>3
    <3> QED
      BY <1>4, <1>5, <1>7, <2>1, <3>1
  <2> QED
    BY <1>4, <2>2, <2>3
<1>9. e = b /\ SubSeq(clean, a, b) = SubSeq(line, a, b)
  BY <1>5, <1>6, <1>8
<1>10. /\ \A i \in 1..(b - a + 1) : SubSeq(clean, a, b)[i] = clean[a + i - 1]
  <2>1. a \in 1..(Len(clean) + 1) /\ b \in (a - 1)..Len(clean)
    BY <1>4, <1>8 DEF m
  <2> QED
    BY <2>1, SubSeqIs
<1>11. \A i \in a..b : clean[i] = line[i]
  <2> SUFFICES ASSUME NEW i \in a..b PROVE clean[i] = line[i]
    OBVIOUS
  <2>1. i - a + 1 \in 1..(b - a + 1) /\ a + (i - a + 1) - 1 = i
    BY <1>4
  <2> QED
    BY <1>7, <1>9, <1>10, <2>1
<1>12. ASSUME NEW i \in Int, At(line, i) \notin SymbolChars PROVE At(clean, i) \notin SymbolChars
  <2>1. i \in 1..m => i \in 1..n /\ (clean[i] = line[i] \/ clean[i] = " ")
    <3>1. i \in 1..m => i \in 1..n
      BY <1>4
    <3>2. i \in 1..m => clean[i] = line[i] \/ clean[i] = " "
      BY Zenon DEF Blanked, m
    <3> QED
      BY <3>1, <3>2
  <2>2. CASE i \in 1..m
    <3>1. At(line, i) = line[i] /\ At(clean, i) = clean[i]
      BY <1>4, <2>1, <2>2, Zenon DEF At
    <3> QED
      BY <1>12, <2>1, <2>2, <3>1, NoSymbolChars
  <2>3. CASE i \notin 1..m
    <3>1. At(clean, i) = ""
      BY <1>4, <2>3, Zenon DEF At
    <3> QED
      BY <3>1, NoSymbolChars
  <2> QED
    BY <2>2, <2>3
<1>13. IsStretch(clean, a, b)
  <2>1. a \in 1..m /\ b \in a..m /\ a - 1 \in Int /\ b + 1 \in Int
    BY <1>4, <1>8
  <2>2. /\ \A i \in a..b : line[i] \in SymbolChars
        /\ At(line, a - 1) \notin SymbolChars /\ At(line, b + 1) \notin SymbolChars
    BY <1>2 DEF IsStretch
  <2>3. \A i \in a..b : clean[i] \in SymbolChars
    BY <1>11, <2>2
  <2> QED
    BY <1>12, <2>1, <2>2, <2>3 DEF IsStretch, m
<1>14. InferSymbol(line, column) = Within(SubSeq(clean, a, b), Ident)
  BY <1>1, <1>3, <1>9
<1> QED
  BY <1>13, <1>14, StretchIsFound

\* What is found in one line is found in another one that has its occurrences, each
\* delimited as before, and no occurrence of its own that reaches into them.
LEMMA SearchTransfers ==
  ASSUME NEW C, NEW u \in Seq(C), NEW E, NEW w \in Seq(E), NEW D, NEW s \in Seq(D), s # <<>>,
         Places(u, s) \subseteq Places(w, s),
         \A p \in Places(u, s) : Delimited(u, s, p) => Delimited(w, s, p),
         \A x \in Places(w, s) \ Places(u, s) : \A p \in Places(u, s) : x < p => x + Len(s) <= p,
         ContainsSymbol(u, s)
  PROVE  ContainsSymbol(w, s)
<1> DEFINE l == Len(s)
           m == Len(u) + 1
           n == Len(w) + 1
           P == Places(u, s)
           Q == Places(w, s)
           Of(i) == {p \in P : p >= i}
           In(i) == {p \in Q : p >= i}
<1>1. PICK f : Searches(f, u, s) /\ ContainsSymbol(u, s) = f[1]
  BY ContainsIs
<1>2. PICK g : Searches(g, w, s) /\ ContainsSymbol(w, s) = g[1]
  BY ContainsIs
<1>3. /\ l \in Nat /\ l >= 1 /\ m \in Nat /\ n \in Nat /\ 1 \in 1..m /\ 1 \in 1..n
      /\ \A p \in P : p \in Nat /\ p + l \in 1..m /\ p + l > p
      /\ \A p \in Q : p \in Nat /\ p + l \in 1..n /\ p + l > p
  <2>1. /\ Len(u) \in Nat /\ l \in Nat /\ l >= 1 /\ P \subseteq 1..Len(u)
        /\ \A p \in P : p + l \in (p + 1)..(Len(u) + 1)
    BY PlacesAre
  <2>2. /\ Len(w) \in Nat /\ Q \subseteq 1..Len(w)
        /\ \A p \in Q : p + l \in (p + 1)..(Len(w) + 1)
    BY PlacesAre
  <2> HIDE DEF P, Q, l
  <2>3. \A p \in P : p \in Nat /\ p + l \in 1..m /\ p + l > p
    BY <2>1
  <2>4. \A p \in Q : p \in Nat /\ p + l \in 1..n /\ p + l > p
    BY <2>2
  <2> QED
    BY <2>1, <2>2, <2>3, <2>4
<1>4. \A i \in 1..m : f[i] = (Of(i) # {} /\ (Delimited(u, s, Min(Of(i))) \/ f[Min(Of(i)) + l]))
  BY <1>1, Zenon DEF Searches
<1>5. \A i \in 1..n : g[i] = (In(i) # {} /\ (Delimited(w, s, Min(In(i))) \/ g[Min(In(i)) + l]))
  BY <1>2, Zenon DEF Searches
<1>6. /\ P \subseteq Q
      /\ \A p \in P : Delimited(u, s, p) => Delimited(w, s, p)
      /\ \A x \in Q : \A p \in P : x \notin P /\ x < p => x + l <= p
  OBVIOUS
<1> HIDE DEF l, m, n, P, Q
<1>7. \A i \in Nat : /\ Of(i) # {} => Min(Of(i)) \in Of(i) /\ \A p \in Of(i) : Min(Of(i)) <= p
                     /\ In(i) # {} => Min(In(i)) \in In(i) /\ \A p \in In(i) : Min(In(i)) <= p
  <2>1. \A i \in Nat : Of(i) \subseteq Nat /\ In(i) \subseteq Nat
    BY <1>3
  <2> HIDE DEF Of, In
  <2> QED
    BY <2>1, MinOfNumbers
<1> DEFINE B == {k \in Nat : k < m /\ m - k \in 1..n /\ f[m - k] /\ ~g[m - k]}
<1>8. ASSUME B # {} PROVE FALSE
  <2>1. PICK k \in B : \A j \in B : k <= j
    <3>1. B \subseteq Nat
      OBVIOUS
    <3> HIDE DEF B
    <3> QED
      BY <1>8, <3>1, LeastNumber
  <2> DEFINE i == m - k
  <2>2. k \in Nat /\ i \in 1..m /\ i \in 1..n /\ i \in Nat /\ f[i] /\ ~g[i]
    BY <1>3, <2>1
  <2>3. \A j \in 1..m : j \in 1..n /\ j > i /\ f[j] => g[j]
    <3> SUFFICES ASSUME NEW j \in 1..m, j \in 1..n, j > i, f[j], ~g[j] PROVE FALSE
      OBVIOUS
    <3>1. m - j \in Nat /\ m - j < m /\ m - (m - j) = j /\ ~(k <= m - j)
      BY <1>3, <2>2
    <3>2. m - j \in B
      BY <3>1
    <3> QED
      BY <2>1, <3>1, <3>2
  <2> HIDE DEF B, i
  <2> DEFINE p == Min(Of(i))
             x == Min(In(i))
  <2>4. f[i] = (Of(i) # {} /\ (Delimited(u, s, p) \/ f[p + l]))
    BY <1>4, <2>2, Zenon
  <2>5. g[i] = (In(i) # {} /\ (Delimited(w, s, x) \/ g[x + l]))
    BY <1>5, <2>2, Zenon
  <2>6. Of(i) # {} /\ (Delimited(u, s, p) \/ f[p + l])
    BY <2>2, <2>4, Zenon
  <2>7. p \in P /\ p >= i /\ \A q \in P : q >= i => p <= q
    BY <1>7, <2>2, <2>6
  <2>8. p \in In(i) /\ In(i) # {}
    BY <1>6, <2>7
  <2>9. x \in Q /\ x >= i /\ x <= p
    BY <1>7, <2>2, <2>8
  <2>10. ~Delimited(w, s, x) /\ ~g[x + l]
    BY <2>2, <2>5, <2>8, Zenon
  <2> HIDE DEF p, x
  <2>11. CASE x = p
    <3>1. ~Delimited(u, s, p)
      BY <1>6, <2>7, <2>10, <2>11
    <3>2. f[p + l]
      BY <2>6, <3>1
    <3>3. p + l \in 1..m /\ p + l \in 1..n /\ p + l > i
      BY <1>3, <2>2, <2>7, <2>9, <2>11
    <3> QED
      BY <2>3, <2>10, <2>11, <3>2, <3>3
  <2>12. CASE x # p
    <3>1. x < p /\ x \in Nat /\ p \in Nat
      BY <1>3, <2>7, <2>9, <2>12
    <3>2. x \notin P
      BY <2>7, <2>9, <3>1
    <3>3. x + l <= p /\ x + l \in 1..n /\ x + l > i /\ x + l \in Nat
      BY <1>3, <1>6, <2>2, <2>7, <2>9, <3>1, <3>2
    <3>4. x + l \in 1..m
      <4>1. p + l \in 1..m
        BY <1>3, <2>7
      <4> QED
        BY <1>3, <3>1, <3>3, <4>1
    <3>5. Of(x + l) = Of(i)
      <4>1. \A q \in P : q >= i <=> q >= x + l
        BY <1>3, <2>2, <2>7, <3>1, <3>3
      <4> QED
        BY <4>1
    <3>6. f[x + l]
      <4>1. f[x + l] = (Of(x + l) # {} /\ (Delimited(u, s, Min(Of(x + l))) \/ f[Min(Of(x + l)) + l]))
        BY <1>4, <3>4, Zenon
      <4> HIDE DEF Of
      <4> QED
        BY <2>6, <3>5, <4>1, Zenon DEF p
    <3> QED
      BY <2>3, <2>10, <3>3, <3>4, <3>6
  <2> QED
    BY <2>11, <2>12
<1>9. m - 1 \in Nat /\ m - 1 < m /\ m - (m - 1) = 1
  BY <1>3
<1>10. f[1] => g[1]
  BY <1>3, <1>8, <1>9
<1> QED
  BY <1>1, <1>2, <1>10

-----------------------------------------------------------------------------
(* The scan, once more: nothing is kept behind its end. *)

LEMMA KeptBeforeEnd ==
  ASSUME NEW line, Len(line) \in Nat, DOMAIN line = 1..Len(line), NEW depth \in Nat
  PROVE  LET m == Mask(line, depth) IN m.kept \subseteq 1..m.end
<1> DEFINE n == Len(line)
           Good(i, s) == s.kept \subseteq 1..i /\ s.kept \subseteq 1..s.end /\ (s.end = n \/ s.next = n + 1)
<1>1. PICK scan : Scanned(line, depth, scan) /\ Mask(line, depth) = scan[n]
  BY MaskIs
<1>2. /\ \A i \in 0..n : scan[i] \in Masks(n)
      /\ scan[0] = FirstMask(n, depth)
      /\ \A i \in 1..n : ScanStep(line, scan[i - 1], i, scan[i])
  BY <1>1 DEF Scanned
<1>3. n \in Nat /\ 0 \in 0..n /\ n \in 0..n
  OBVIOUS
<1>4. Good(0, scan[0])
  BY <1>2 DEF FirstMask
<1> DEFINE B == {i \in 0..n : ~Good(i, scan[i])}
<1>5. ASSUME B # {} PROVE FALSE
  <2>1. PICK i \in B : \A j \in B : i <= j
    <3>1. B \subseteq Nat
      BY <1>3
    <3> HIDE DEF B
    <3> QED
      BY <1>5, <3>1, LeastNumber
  <2>2. i # 0
    BY <1>4, <2>1
  <2>3. i \in 1..n /\ i - 1 \in 0..n /\ ~(i <= i - 1) /\ i \in 0..n
    BY <1>3, <2>1, <2>2
  <2> DEFINE s == scan[i - 1]
             r == scan[i]
  <2>4. Good(i - 1, s)
    BY <2>1, <2>3
  <2>5. ScanStep(line, s, i, r) /\ s \in Masks(n)
    BY <1>2, <2>3
  <2> HIDE DEF s, r
  <2>6. s.kept \subseteq 1..i /\ s.kept \subseteq 1..(i - 1)
    BY <2>3, <2>4
  <2>7. ASSUME Skips(s, i, r) PROVE Good(i, r)
    <3>1. r = s
      BY <2>7 DEF Skips
    <3> QED
      BY <2>4, <2>6, <3>1
  <2>8. i >= s.next => s.end = n /\ s.kept \subseteq 1..n
    BY <2>3, <2>4
  <2>a. n \in Nat /\ i - 1 \in 0..n
    BY <2>3
  <2>9. ASSUME i >= s.next, CommentStep(line, s, i, r) \/ StringStep(line, s, i, r)
        PROVE  Good(i, r)
    <3>1. r.kept = s.kept /\ r.end = s.end
      BY <2>9, Zenon DEF CommentStep, StringStep
    <3> HIDE DEF n
    <3> QED
      BY <2>6, <2>8, <2>9, <3>1
  <2>10. ASSUME i >= s.next, CodeStep(line, s, i, r) PROVE Good(i, r)
    <3>1. \/ r.kept = s.kept /\ r.end = s.end
          \/ r.kept = s.kept /\ r.end = i - 1 /\ r.next = n + 1
          \/ r.kept = s.kept \cup {i} /\ r.end = s.end
      <4>1. \/ r = [s EXCEPT !.next = i + 2, !.depth = s.depth + 1]
            \/ r = [s EXCEPT !.next = Len(line) + 1, !.end = i - 1]
            \/ r = [s EXCEPT !.next = i + 1, !.string = TRUE]
            \/ r = [s EXCEPT !.next = i + 1, !.kept = s.kept \cup {i}]
        BY <2>10, Zenon DEF CodeStep
      <4>2. s = [kept |-> s.kept, depth |-> s.depth, string |-> s.string, next |-> s.next,
                 end |-> s.end]
        BY <2>5 DEF Masks
      <4> QED
        BY <4>1, <4>2
    <3>2. s.kept \cup {i} \subseteq 1..i /\ s.kept \cup {i} \subseteq 1..n
      BY <2>3, <2>6, <2>8, <2>10
    <3> HIDE DEF n
    <3>3. CASE r.kept = s.kept /\ r.end = s.end
      BY <2>6, <2>8, <2>10, <3>3
    <3>4. CASE r.kept = s.kept /\ r.end = i - 1 /\ r.next = n + 1
      BY <2>6, <3>4
    <3>5. CASE r.kept = s.kept \cup {i} /\ r.end = s.end
      BY <2>8, <2>10, <3>2, <3>5
    <3> QED
      BY <3>1, <3>3, <3>4, <3>5
  <2>11. Good(i, r)
    BY <2>5, <2>7, <2>9, <2>10, Zenon DEF ScanStep
  <2> QED
    BY <2>1, <2>11 DEF r
<1> QED
  BY <1>1, <1>3, <1>5

LEMMA NoNameIs == \A c : NoName(c) => c \notin SymbolChars /\ c \notin Ident
<1>1. Ident \cap {"", " ", "\n", ".", "\"", "\\", "/", "*", "-", "(", ")"} = {}
  BY LinesAssumption
<1> QED
  BY <1>1 DEF SymbolChars, NoName

\* A stretch of characters of symbols is kept as a whole or not at all.
LEMMA KeptAsAWhole ==
  ASSUME NEW line, NEW kept, NEW n \in Nat, NEW a \in 1..n, NEW b \in a..n,
         \A i \in 1..(n - 1) : Border(line, kept, i),
         \A i \in a..b : line[i] \in SymbolChars,
         NEW p \in a..b, p \in kept
  PROVE  \A i \in a..b : i \in kept
<1>0. p \in Nat /\ a \in Nat /\ b \in Nat /\ a <= p /\ p <= b /\ b <= n /\ a >= 1
  OBVIOUS
<1>1. \A i \in 1..(n - 1) : /\ line[i] \in SymbolChars /\ i + 1 \in kept => i \in kept
                            /\ line[i + 1] \in SymbolChars /\ i \in kept => i + 1 \in kept
  BY NoNameIs DEF Border
<1> DEFINE B == {k \in Nat : p + k <= b /\ p + k \notin kept}
           D == {k \in Nat : p - k >= a /\ p - k \notin kept}
<1>2. ASSUME B # {} PROVE FALSE
  <2>1. PICK k \in B : \A j \in B : k <= j
    <3>1. B \subseteq Nat
      OBVIOUS
    <3> HIDE DEF B
    <3> QED
      BY <1>2, <3>1, LeastNumber
  <2>2. k \in Nat /\ k # 0 /\ p + k <= b /\ p + k \notin kept
    BY <1>0, <2>1
  <2>3. k - 1 \in Nat /\ ~(k <= k - 1) /\ p + (k - 1) <= b
    BY <1>0, <2>2
  <2>4. p + (k - 1) \in kept
    BY <2>1, <2>3
  <2>5. p + (k - 1) \in 1..(n - 1) /\ p + (k - 1) + 1 = p + k /\ p + k \in a..b
    BY <1>0, <2>2, <2>3
  <2> QED
    BY <1>1, <2>2, <2>4, <2>5
<1>3. ASSUME D # {} PROVE FALSE
  <2>1. PICK k \in D : \A j \in D : k <= j
    <3>1. D \subseteq Nat
      OBVIOUS
    <3> HIDE DEF D
    <3> QED
      BY <1>3, <3>1, LeastNumber
  <2>2. k \in Nat /\ k # 0 /\ p - k >= a /\ p - k \notin kept
    BY <1>0, <2>1
  <2>3. k - 1 \in Nat /\ ~(k <= k - 1) /\ p - (k - 1) >= a
    BY <1>0, <2>2
  <2>4. p - (k - 1) \in kept
    BY <2>1, <2>3
  <2>5. p - k \in 1..(n - 1) /\ p - k + 1 = p - (k - 1) /\ p - k \in a..b
    BY <1>0, <2>2, <2>3
  <2> QED
    BY <1>1, <2>2, <2>4, <2>5
<1> SUFFICES ASSUME NEW i \in a..b PROVE i \in kept
  OBVIOUS
<1>4. CASE i >= p
  <2>1. i - p \in Nat /\ p + (i - p) = i /\ i <= b
    BY <1>0, <1>4
  <2> QED
    BY <1>2, <2>1
<1>5. CASE i < p
  <2>1. p - i \in Nat /\ p - (p - i) = i /\ i >= a
    BY <1>0, <1>5
  <2> QED
    BY <1>3, <2>1
<1> QED
  BY <1>0, <1>4, <1>5

\* w is line without white space at its end.
Cut(w, line) ==
  /\ Len(w) <= Len(line)
  /\ \A i \in 1..Len(w) : w[i] = line[i]
  /\ \A i \in 1..Len(line) : i > Len(w) => line[i] \in White

\* A name that is found in what is left of a line without its comments and strings is
\* found in the line.
LEMMA FoundInLine ==
  ASSUME NEW line \in Seq(Chars), NEW d \in Nat, NEW w \in Seq(Chars), Cut(w, line),
         NEW s \in Seq(Chars), s # <<>>, \A k \in 1..Len(s) : s[k] \in SymbolChars,
         ContainsSymbol(Masked(line, Mask(line, d)), s)
  PROVE  ContainsSymbol(w, s)
<1> DEFINE m == Mask(line, d)
           u == Masked(line, m)
           l == Len(s)
           n == Len(line)
           e == m.end
           kept == m.kept
<1>1. /\ n \in Nat /\ DOMAIN line = 1..n /\ Len(w) \in Nat /\ DOMAIN w = 1..Len(w)
      /\ l \in Nat /\ l >= 1
  BY EmptySeq
<1>2. /\ u \in Seq(Chars \cup {" "}) /\ Len(u) = e /\ e \in 0..n /\ DOMAIN u = 1..e
      /\ \A i \in 1..e : u[i] = IF i \in kept THEN line[i] ELSE " "
  BY MaskedIs
<1>3. /\ kept \subseteq 1..e /\ \A i \in 1..(n - 1) : Border(line, kept, i)
  BY <1>1, MaskHas, KeptBeforeEnd
<1>4. ContainsSymbol(u, s)
  OBVIOUS
<1>5. /\ Len(w) <= n
      /\ \A i \in 1..Len(w) : w[i] = line[i]
      /\ \A i \in 1..n : line[i] \in SymbolChars => i <= Len(w)
  <2>1. \A i \in 1..n : i > Len(w) => line[i] \in White
    BY DEF Cut
  <2>2. \A i \in 1..n : line[i] \in SymbolChars => ~(i > Len(w))
    BY <2>1, NoSymbolChars DEF White
  <2> QED
    BY <1>1, <2>2 DEF Cut
<1> HIDE DEF m, u, n, e, kept
<1>a. e \in Nat /\ e <= n /\ \A i \in 1..e : i \in 1..n
  <2>1. e \in 0..n /\ n \in Nat
    BY <1>1, <1>2, Zenon
  <2> QED
    BY <2>1
<1> DEFINE P == Places(u, s)
           Q == Places(w, s)
<1>6. /\ P \subseteq 1..e
      /\ \A p \in Nat : p \in P <=> /\ p >= 1 /\ p + l - 1 <= e
                                    /\ \A k \in 1..l : u[p + k - 1] = s[k]
  <2>1. /\ P \subseteq 1..Len(u)
        /\ \A p \in Nat : p \in P <=> /\ p >= 1 /\ p + l - 1 <= Len(u)
                                      /\ \A k \in 1..l : u[p + k - 1] = s[k]
    <3> DEFINE U == Chars \cup {" "}
    <3>1. u \in Seq(U)
      BY <1>2, Zenon
    <3> HIDE DEF U
    <3> QED
      BY <3>1, PlacesAre
  <2> HIDE DEF P, l
  <2> QED
    BY <1>2, <2>1
<1>7. /\ Q \subseteq 1..Len(w)
      /\ \A p \in Nat : p \in Q <=> /\ p >= 1 /\ p + l - 1 <= Len(w)
                                    /\ \A k \in 1..l : w[p + k - 1] = s[k]
  BY PlacesAre
<1> HIDE DEF l, P, Q
<1>8. ASSUME NEW p \in P
      PROVE  /\ p \in Nat /\ p >= 1 /\ p + l - 1 <= Len(w)
             /\ \A i \in p..(p + l - 1) : i \in kept /\ i \in 1..Len(w) /\ u[i] = line[i]
                                          /\ w[i] = line[i]
             /\ p \in Q
  <2>1. p \in Nat /\ p >= 1 /\ p + l - 1 <= e /\ \A k \in 1..l : u[p + k - 1] = s[k]
    BY <1>6, <1>8
  <2>2. ASSUME NEW i \in p..(p + l - 1)
        PROVE  i \in kept /\ i \in 1..Len(w) /\ u[i] = line[i] /\ w[i] = line[i]
    <3>1. i - p + 1 \in 1..l /\ p + (i - p + 1) - 1 = i /\ i \in 1..e
      BY <1>1, <1>a, <2>1
    <3>2. u[i] \in SymbolChars
      BY <2>1, <3>1 DEF l
    <3>3. i \in kept /\ u[i] = line[i]
      BY <1>2, <3>1, <3>2, NoSymbolChars
    <3>4. i <= Len(w) /\ i \in 1..Len(w)
      BY <1>1, <1>5, <1>a, <3>1, <3>2, <3>3
    <3> QED
      BY <1>5, <3>3, <3>4
  <2>3. p + l - 1 \in p..(p + l - 1) /\ p + l - 1 <= Len(w)
    <3>1. p + l - 1 \in p..(p + l - 1)
      BY <1>1, <2>1
    <3>2. p + l - 1 \in 1..Len(w)
      BY <2>2, <3>1
    <3> QED
      BY <1>1, <3>1, <3>2
  <2>4. \A k \in 1..l : w[p + k - 1] = s[k]
    <3>1. \A k \in 1..l : p + k - 1 \in p..(p + l - 1)
      BY <1>1, <2>1
    <3> QED
      BY <2>1, <2>2, <3>1
  <2> QED
    BY <1>7, <2>1, <2>2, <2>3, <2>4
<1>9. ASSUME NEW p \in P, Delimited(u, s, p) PROVE Delimited(w, s, p)
  <2>0. /\ p \in Nat /\ p >= 1 /\ p + l - 1 <= Len(w)
        /\ \A i \in p..(p + l - 1) : i \in kept
    BY <1>8
  <2>1. At(u, p - 1) \notin Ident /\ At(u, p + l) \notin Ident
    BY <1>9 DEF Delimited, l
  <2>2. ASSUME NEW i \in 1..Len(w), At(u, i) \notin Ident,
               i \notin kept => NoName(line[i])
        PROVE  At(w, i) \notin Ident
    <3>1. At(w, i) = line[i]
      BY <1>1, <1>5 DEF At
    <3>2. i \in kept => At(u, i) = line[i]
      BY <1>2, <1>3 DEF At
    <3> QED
      BY <2>2, <3>1, <3>2, NoNameIs
  <2>3. "" \notin Ident
    BY NoSymbolChars DEF SymbolChars
  <2>4. At(w, p - 1) \notin Ident
    <3>1. CASE p - 1 \in 1..Len(w)
      <4>1. p - 1 \in 1..(n - 1) /\ p - 1 + 1 = p /\ p \in p..(p + l - 1)
        BY <1>1, <1>5, <2>0, <3>1
      <4>2. p - 1 \notin kept => NoName(line[p - 1])
        BY <1>3, <2>0, <4>1 DEF Border
      <4> QED
        BY <2>1, <2>2, <3>1, <4>2
    <3>2. CASE p - 1 \notin 1..Len(w)
      BY <1>1, <2>3, <3>2 DEF At
    <3> QED
      BY <3>1, <3>2
  <2>5. At(w, p + l) \notin Ident
    <3>1. CASE p + l \in 1..Len(w)
      <4>1. p + l - 1 \in 1..(n - 1) /\ p + l - 1 + 1 = p + l /\ p + l - 1 \in p..(p + l - 1)
        BY <1>1, <1>5, <2>0, <3>1
      <4>2. p + l \notin kept => NoName(line[p + l])
        BY <1>3, <2>0, <4>1 DEF Border
      <4> QED
        BY <2>1, <2>2, <3>1, <4>2
    <3>2. CASE p + l \notin 1..Len(w)
      BY <1>1, <2>3, <3>2 DEF At
    <3> QED
      BY <3>1, <3>2
  <2> QED
    BY <2>4, <2>5 DEF Delimited, l
<1>10. ASSUME NEW x \in Q, x \notin P, NEW p \in P, x < p PROVE x + l <= p
  <2>1. x \in Nat /\ x >= 1 /\ x + l - 1 <= Len(w) /\ \A k \in 1..l : w[x + k - 1] = s[k]
    BY <1>7
  <2>2. p \in Nat /\ p \in p..(p + l - 1) /\ p \in kept
    <3>1. p \in Nat
      BY <1>8
    <3>2. p \in p..(p + l - 1)
      BY <1>1, <3>1
    <3> QED
      BY <1>8, <3>1, <3>2
  <2>3. ASSUME p < x + l PROVE FALSE
    <3> DEFINE b == x + l - 1
    <3>1. b \in Nat /\ x \in 1..n /\ b \in x..n /\ p \in x..b /\ b <= Len(w)
      BY <1>1, <1>5, <1>10, <2>1, <2>2, <2>3
    <3>2. \A i \in x..b : /\ i \in 1..Len(w) /\ i \in 1..n
                          /\ i - x + 1 \in 1..l /\ x + (i - x + 1) - 1 = i
      BY <1>1, <1>5, <2>1
    <3> HIDE DEF b
    <3>3. \A i \in x..b : line[i] \in SymbolChars /\ line[i] = s[i - x + 1]
      BY <1>5, <2>1, <3>2 DEF l
    <3>4. \A i \in x..b : i \in kept
      BY <1>1, <1>3, <2>2, <3>1, <3>3, KeptAsAWhole
    <3>5. \A i \in x..b : i \in 1..e /\ u[i] = s[i - x + 1]
      BY <1>2, <1>3, <3>3, <3>4
    <3>6. \A k \in 1..l : x + k - 1 \in x..b /\ (x + k - 1) - x + 1 = k
      BY <1>1, <2>1 DEF b
    <3>7. \A k \in 1..l : u[x + k - 1] = s[k]
      BY <3>5, <3>6
    <3>8. x + l - 1 <= e
      <4>1. b \in x..b
        BY <2>1, <3>1
      <4>2. b \in 1..e
        BY <3>5, <4>1
      <4> QED
        BY <1>a, <3>1, <4>2 DEF b
    <3> QED
      BY <1>6, <1>10, <2>1, <3>7, <3>8
  <2> QED
    BY <1>1, <2>1, <2>2, <2>3
<1>11. /\ P \subseteq Q
       /\ \A p \in P : Delimited(u, s, p) => Delimited(w, s, p)
       /\ \A x \in Q \ P : \A p \in P : x < p => x + l <= p
  BY <1>8, <1>9, <1>10
<1> QED
  BY <1>2, <1>4, <1>11, SearchTransfers DEF P, Q, l

\* The numbers up to r in order are a beginning of all numbers in order.
NumbersUpTo(b, m, c, n, r) ==
  /\ \A i \in 1..m : b[i] \in Int /\ b[i] <= r
  /\ \A i \in 1..n : c[i] \in Int
  /\ \A i, j \in 1..m : i < j => b[i] < b[j]
  /\ \A i, j \in 1..n : i < j => c[i] < c[j]
  /\ \A i \in 1..m : \E j \in 1..n : b[i] = c[j]
  /\ \A j \in 1..n : c[j] <= r => \E i \in 1..m : b[i] = c[j]

LEMMA SameBeginning ==
  ASSUME NEW b, NEW c, NEW m \in Nat, NEW n \in Nat, NEW r \in Int,
         NumbersUpTo(b, m, c, n, r)
  PROVE  /\ m <= n
         /\ \A i \in 1..m : b[i] = c[i]
         /\ \A j \in 1..n : j > m => c[j] > r
<1> USE DEF NumbersUpTo
<1> DEFINE B == {k \in 1..m : ~(k <= n /\ b[k] = c[k])}
<1>1. ASSUME B # {} PROVE FALSE
  <2>1. PICK k \in B : \A j \in B : k <= j
    <3>1. B \subseteq Nat
      OBVIOUS
    <3> HIDE DEF B
    <3> QED
      BY <1>1, <3>1, LeastNumber
  <2>2. k \in 1..m /\ ~(k <= n /\ b[k] = c[k]) /\ \A i \in 1..m : i < k => i <= n /\ b[i] = c[i]
    BY <2>1
  <2> HIDE DEF B
  <2>3. PICK j \in 1..n : b[k] = c[j]
    BY <2>2
  <2>4. j >= k
    <3>1. j < k => j \in 1..m /\ b[j] = c[j] /\ b[j] < b[k]
      BY <2>2, <2>3
    <3>2. j < k => FALSE
      BY <2>2, <2>3, <3>1
    <3> QED
      BY <2>2, <2>3, <3>2
  <2>5. k <= n /\ k \in 1..n
    BY <2>2, <2>3, <2>4
  <2>6. j # k /\ k < j
    BY <2>2, <2>3, <2>4, <2>5
  <2>7. c[k] < c[j] /\ c[j] <= r /\ c[k] \in Int /\ c[j] \in Int
    BY <2>2, <2>3, <2>5, <2>6
  <2>8. c[k] <= r
    BY <2>7
  <2>9. PICK i \in 1..m : b[i] = c[k]
    BY <2>5, <2>8
  <2>10. b[i] < b[k] /\ b[i] \in Int /\ b[k] \in Int
    BY <2>2, <2>3, <2>7, <2>9
  <2>11. i < k
    <3>1. ~(k < i)
      BY <2>2, <2>10
    <3>2. i # k
      BY <2>10
    <3> QED
      BY <2>2, <2>9, <3>1, <3>2
  <2>12. c[i] = c[k] /\ i \in 1..n /\ c[i] < c[k]
    BY <2>2, <2>5, <2>9, <2>11
  <2> QED
    BY <2>7, <2>12
<1>2. \A k \in 1..m : k <= n /\ b[k] = c[k]
  BY <1>1
<1>3. m <= n
  <2>1. m = 0 \/ m \in 1..m
    OBVIOUS
  <2> QED
    BY <1>2, <2>1
<1>4. ASSUME NEW j \in 1..n, j > m PROVE c[j] > r
  <2> SUFFICES ASSUME c[j] <= r PROVE FALSE
    OBVIOUS
  <2>1. PICK i \in 1..m : b[i] = c[j]
    OBVIOUS
  <2>2. i \in 1..n /\ c[i] = c[j] /\ i < j
    BY <1>2, <1>4, <2>1
  <2>3. c[i] < c[j] /\ c[i] \in Int
    BY <2>2
  <2> QED
    BY <2>2, <2>3
<1> QED
  BY <1>2, <1>3, <1>4

\* The lines of a text without white space at its end are lines of the text.
LEMMA LinesOfTrimmed ==
  ASSUME NEW raw \in Seq(Chars), NEW r \in 1..Len(raw), raw[r] \notin White,
         \A i \in 1..Len(raw) : i > r => raw[i] \in White,
         NEW text, text = SubSeq(raw, 1, r),
         NEW k \in 1..Len(LinesOf(raw)), LineFrom(raw, k) <= r
  PROVE  k \in 1..Len(LinesOf(text)) /\ Cut(LinesOf(text)[k], LinesOf(raw)[k])
<1> DEFINE n == Len(raw)
           b == Breaks(text)
           c == Breaks(raw)
<1>1. n \in Nat /\ DOMAIN raw = 1..n /\ r \in Nat /\ r >= 1 /\ r <= n
  OBVIOUS
<1>2. /\ text \in Seq(Chars) /\ Len(text) = r /\ DOMAIN text = 1..r
      /\ \A i \in 1..r : text[i] = raw[i]
  <2>1. 1 \in 1..(Len(raw) + 1) /\ r \in (1 - 1)..Len(raw) /\ r - 1 + 1 = r
    BY <1>1
  <2>2. /\ SubSeq(raw, 1, r) \in Seq(Chars) /\ Len(SubSeq(raw, 1, r)) = r - 1 + 1
        /\ \A i \in 1..(r - 1 + 1) : SubSeq(raw, 1, r)[i] = raw[1 + i - 1]
    BY <2>1, SubSeqIs
  <2>3. text \in Seq(Chars) /\ Len(text) = r /\ \A i \in 1..r : text[i] = raw[1 + i - 1]
    BY <2>1, <2>2
  <2>4. \A i \in 1..r : 1 + i - 1 = i
    BY <1>1
  <2>5. DOMAIN text = 1..Len(text)
    BY <2>3
  <2> QED
    BY <2>3, <2>4, <2>5
<1>3. /\ Len(c) \in Nat
      /\ \A i, j \in 1..Len(c) : i < j => c[i] < c[j]
      /\ \A i \in 1..Len(c) : c[i] \in 1..n /\ raw[c[i]] = "\n"
      /\ \A x \in 1..n : raw[x] = "\n" => \E j \in 1..Len(c) : c[j] = x
  BY BreaksAre
<1>4. /\ Len(b) \in Nat
      /\ \A i, j \in 1..Len(b) : i < j => b[i] < b[j]
      /\ \A i \in 1..Len(b) : b[i] \in 1..r /\ text[b[i]] = "\n"
      /\ \A x \in 1..r : text[x] = "\n" => \E j \in 1..Len(b) : b[j] = x
  <2>1. /\ Len(b) \in Nat
        /\ \A i, j \in 1..Len(b) : i < j => b[i] < b[j]
        /\ \A i \in 1..Len(b) : b[i] \in 1..Len(text) /\ text[b[i]] = "\n"
        /\ \A x \in 1..Len(text) : text[x] = "\n" => \E j \in 1..Len(b) : b[j] = x
    BY <1>2, BreaksAre
  <2> HIDE DEF b
  <2> QED
    BY <1>2, <2>1
<1>5. /\ Len(LinesOf(raw)) = Len(c) + LastOpen(raw)
      /\ LET i == k IN
         /\ LinesOf(raw)[i] \in Seq(Chars)
         /\ LineFrom(raw, i) \in 1..(n + 1)
         /\ LineTo(raw, i) \in LineFrom(raw, i)..(n + 1)
         /\ Len(LinesOf(raw)[i]) = LineTo(raw, i) - LineFrom(raw, i)
         /\ \A j \in 1..Len(LinesOf(raw)[i]) : /\ LineFrom(raw, i) + j - 1 \in 1..n
                                              /\ LinesOf(raw)[i][j] = raw[LineFrom(raw, i) + j - 1]
  BY LinesAre
<1> DEFINE lines == LinesOf(text)
<1>6. /\ Len(lines) = Len(b) + LastOpen(text)
      /\ \A i \in 1..Len(lines) :
           /\ LineFrom(text, i) \in 1..(Len(text) + 1)
           /\ LineTo(text, i) \in LineFrom(text, i)..(Len(text) + 1)
           /\ Len(lines[i]) = LineTo(text, i) - LineFrom(text, i)
           /\ \A j \in 1..Len(lines[i]) : /\ LineFrom(text, i) + j - 1 \in 1..Len(text)
                                         /\ lines[i][j] = text[LineFrom(text, i) + j - 1]
  BY <1>2, LinesAre
<1> HIDE DEF b, c, lines, n
<1>7. /\ Len(b) <= Len(c)
      /\ \A i \in 1..Len(b) : b[i] = c[i]
      /\ \A j \in 1..Len(c) : j > Len(b) => c[j] > r
  <2>1. /\ \A i \in 1..Len(b) : b[i] \in Int /\ b[i] <= r
        /\ \A i \in 1..Len(c) : c[i] \in Int
    BY <1>1, <1>3, <1>4
  <2>2. \A i \in 1..Len(b) : \E j \in 1..Len(c) : b[i] = c[j]
    <3> SUFFICES ASSUME NEW i \in 1..Len(b) PROVE \E j \in 1..Len(c) : b[i] = c[j]
      OBVIOUS
    <3>1. b[i] \in 1..r /\ b[i] \in 1..n /\ raw[b[i]] = "\n"
      BY <1>1, <1>2, <1>4
    <3> QED
      BY <1>3, <3>1
  <2>3. \A j \in 1..Len(c) : c[j] <= r => \E i \in 1..Len(b) : b[i] = c[j]
    <3> SUFFICES ASSUME NEW j \in 1..Len(c), c[j] <= r PROVE \E i \in 1..Len(b) : b[i] = c[j]
      OBVIOUS
    <3>1. c[j] \in 1..r /\ text[c[j]] = "\n"
      BY <1>1, <1>2, <1>3
    <3> QED
      BY <1>4, <3>1
  <2>4. Len(b) \in Nat /\ Len(c) \in Nat /\ r \in Int
    BY <1>1, <1>3, <1>4
  <2>5. /\ \A i, j \in 1..Len(b) : i < j => b[i] < b[j]
        /\ \A i, j \in 1..Len(c) : i < j => c[i] < c[j]
        /\ \A i \in 1..Len(b) : b[i] <= r
    BY <1>3, <1>4, <2>1
  <2>6. NumbersUpTo(b, Len(b), c, Len(c), r)
    BY <2>1, <2>2, <2>3, <2>5 DEF NumbersUpTo
  <2> QED
    BY <2>4, <2>6, SameBeginning
<1>8. LastOpen(text) = 1
  <2>1. At(text, Len(text)) = raw[r]
    BY <1>1, <1>2 DEF At
  <2>2. raw[r] # "" /\ raw[r] # "\n"
    <3>1. raw[r] \in Chars
      BY <1>1
    <3> QED
      BY <3>1, LinesAssumption DEF Chars, White
  <2> QED
    BY <2>1, <2>2 DEF LastOpen
<1>9. k \in Nat /\ k >= 1 /\ k <= Len(b) + 1
  <2>1. k \in Nat /\ k >= 1
    OBVIOUS
  <2>2. CASE k = 1
    BY <1>4, <2>1, <2>2
  <2>3. CASE k # 1
    <3>1. k - 1 \in 1..Len(c)
      <4>1. LastOpen(raw) \in {0, 1}
        BY DEF LastOpen
      <4>2. k <= Len(LinesOf(raw))
        OBVIOUS
      <4> QED
        BY <1>3, <1>5, <2>1, <2>3, <4>1, <4>2
    <3>2. LineFrom(raw, k) = c[k - 1] + 1 /\ c[k - 1] \in Int
      BY <1>3, <2>3, <3>1 DEF LineFrom, c
    <3>3. ~(c[k - 1] > r)
      BY <1>1, <3>2
    <3>4. ~(k - 1 > Len(b))
      BY <1>7, <3>1, <3>3
    <3> QED
      BY <1>4, <2>1, <3>4
  <2> QED
    BY <2>2, <2>3
<1>10. k \in 1..Len(lines)
  BY <1>4, <1>6, <1>8, <1>9
<1>11. LineFrom(text, k) = LineFrom(raw, k)
  <2>1. CASE k = 1
    BY <2>1 DEF LineFrom
  <2>2. CASE k # 1
    <3>1. k - 1 \in 1..Len(b)
      BY <1>4, <1>9, <2>2
    <3>2. b[k - 1] = c[k - 1]
      BY <1>7, <3>1
    <3> QED
      BY <2>2, <3>2 DEF LineFrom, b, c
  <2> QED
    BY <2>1, <2>2
<1>12. LineTo(text, k) = LineTo(raw, k) \/ (LineTo(text, k) = r + 1 /\ LineTo(raw, k) > r)
  <2>1. CASE k <= Len(b)
    <3>1. k \in 1..Len(b) /\ k <= Len(c) /\ b[k] = c[k]
      BY <1>3, <1>4, <1>7, <1>9, <2>1
    <3> QED
      BY <2>1, <3>1 DEF LineTo, b, c
  <2>2. CASE ~(k <= Len(b))
    <3>1. LineTo(text, k) = r + 1
      BY <1>2, <2>2 DEF LineTo, b
    <3>2. CASE k <= Len(c)
      <4>1. k \in 1..Len(c) /\ k > Len(b)
        BY <1>3, <1>4, <1>9, <2>2, <3>2
      <4>2. LineTo(raw, k) = c[k] /\ c[k] > r
        BY <1>7, <3>2, <4>1 DEF LineTo, c
      <4> QED
        BY <3>1, <4>2
    <3>3. CASE ~(k <= Len(c))
      <4>1. LineTo(raw, k) = n + 1
        BY <3>3 DEF LineTo, c, n
      <4> QED
        BY <1>1, <3>1, <4>1
    <3> QED
      BY <3>2, <3>3
  <2> QED
    BY <2>1, <2>2
<1> DEFINE w == lines[k]
           line == LinesOf(raw)[k]
           F == LineFrom(raw, k)
           T == LineTo(raw, k)
           U == LineTo(text, k)
<1>13. /\ F \in 1..(n + 1) /\ T \in F..(n + 1) /\ U \in F..(r + 1)
       /\ Len(line) = T - F /\ Len(w) = U - F
       /\ \A j \in 1..Len(line) : F + j - 1 \in 1..n /\ line[j] = raw[F + j - 1]
       /\ \A j \in 1..Len(w) : F + j - 1 \in 1..r /\ w[j] = text[F + j - 1]
  BY <1>2, <1>5, <1>6, <1>10, <1>11
<1>14. U = T \/ (U = r + 1 /\ T > r)
  BY <1>12
<1> HIDE DEF w, line, F, T, U
<1>15. Len(w) <= Len(line)
  BY <1>1, <1>13, <1>14
<1>16. \A j \in 1..Len(w) : w[j] = line[j]
  <2> SUFFICES ASSUME NEW j \in 1..Len(w) PROVE w[j] = line[j]
    OBVIOUS
  <2>1. j \in 1..Len(line)
    BY <1>1, <1>13, <1>15
  <2> QED
    BY <1>2, <1>13, <2>1
<1>17. \A j \in 1..Len(line) : j > Len(w) => line[j] \in White
  <2> SUFFICES ASSUME NEW j \in 1..Len(line), j > Len(w) PROVE line[j] \in White
    OBVIOUS
  <2>1. F + j - 1 \in 1..n /\ line[j] = raw[F + j - 1]
    BY <1>13
  <2>2. F + j - 1 > r
    BY <1>1, <1>13, <1>14
  <2>3. \A i \in 1..n : i > r => raw[i] \in White
    BY DEF n
  <2> QED
    BY <2>1, <2>2, <2>3
<1> QED
  BY <1>10, <1>15, <1>16, <1>17 DEF Cut, w, line, lines

-----------------------------------------------------------------------------
(* What the replies show. *)

\* SanitizedIsClean: whatever is written in a file, what is left of each of its lines
\* has no comments and no strings.
THEOREM SanitizedStaysClean == Spec => []SanitizedIsClean
<1>1. TypeInv => SanitizedIsClean
  <2> SUFFICES ASSUME TypeInv, NEW f \in DOMAIN tree.files,
                      NEW line \in ToSet(SanitizedLines(tree.files[f].text))
               PROVE  "\"" \notin ToSet(line) /\ Masked(line, Mask(line, 0)) = line
    BY Zenon DEF SanitizedIsClean
  <2> DEFINE text == tree.files[f].text
             lines == LinesOf(text)
             clean == SanitizedLines(text)
  <2>1. text \in Seq(Chars)
    <3>1. tree \in Trees
      BY DEF TypeInv, TreeInv
    <3> QED
      BY <3>1, RequestsAssumption DEF Chars
  <2>2. /\ DOMAIN clean = 1..Len(lines)
        /\ \A k \in 1..Len(lines) : \E d \in Nat : clean[k] = Masked(lines[k], Mask(lines[k], d))
        /\ \A k \in 1..Len(lines) : lines[k] \in Seq(Chars)
    BY <2>1, SanitizedAre, LinesAre
  <2> HIDE DEF text, lines, clean
  <2>3. PICK k \in DOMAIN clean : line = clean[k]
    BY DEF ToSet, clean, text
  <2>4. PICK d \in Nat : line = Masked(lines[k], Mask(lines[k], d))
    BY <2>2, <2>3
  <2>5. lines[k] \in Seq(Chars)
    BY <2>2, <2>3
  <2> QED
    BY <2>4, <2>5, CleanStaysClean
<1> QED
  BY <1>1, AlwaysType, PTL

-----------------------------------------------------------------------------
(* What a hover and a search for a symbol show, as long as no file moves. *)

LocatedIn(t, ms, symbol, want, filter, limit) ==
  LET Text(file) == IF IsFile(t, file) /\ t.files[file].kind = "text"
                    THEN Trim(t.files[file].text) ELSE <<>>
      In(i) ==
        FlattenSeq([k \in DOMAIN SetToSeq(Walked(t, ms[i])) |->
          LET file == SetToSeq(Walked(t, ms[i]))[k]
              mount == Followed(t, ms[i])
              named == IF Text(file) # <<>> /\ Selects(filter, SourceIn(mount, file))
                       THEN Naming(t.files[file].text, symbol) ELSE <<>>
              kept  == InOrder({n \in DOMAIN named : Wanted(named[n].kind, want)})
          IN [n \in DOMAIN kept |->
                [file |-> file, id |-> IdOf(mount, file),
                 line |-> named[kept[n]].line, kind |-> named[kept[n]].kind]]])
      all == FlattenSeq([i \in DOMAIN ms |-> In(i)])
  IN SubSeq(all, 1, Min({limit, Len(all)}))

LEMMA LocatedStays ==
  ASSUME tree' = tree, mounts' = mounts, NEW symbol, NEW want, NEW filter, NEW limit
  PROVE  Located(symbol, want, filter, limit)' = Located(symbol, want, filter, limit)
<1>1. Located(symbol, want, filter, limit) = LocatedIn(tree, mounts, symbol, want, filter, limit)
  BY Zenon DEF Located, LocatedIn, TextOf
<1>2. Located(symbol, want, filter, limit)' = LocatedIn(tree', mounts', symbol, want, filter, limit)
  BY Zenon DEF Located, LocatedIn, TextOf
<1> QED
  BY <1>1, <1>2

HoveredBy(c, file) == Hovered(TextOf(file), c.line, c.column, c.symbol)

\* What is true of the reply to a call.
ShownBy(c, r) ==
  /\ r.outcome = "answered" /\ c.tool = "hover" =>
       TextOf(r.read) # <<>> /\ r.at = HoveredBy(c, r.read)
  /\ r.outcome = "panicked" =>
       /\ c.tool = "hover" /\ TextOf(r.read) # <<>>
       /\ HoveredBy(c, r.read).snippet[1] > HoveredBy(c, r.read).snippet[2]
  /\ r.outcome = "answered" /\ c.tool = "locate" =>
       r.hits = Located(c.symbol, c.want, c.filter, c.limit)

Asked(c) == \E t \in Trees : c \in Calls(t)

ShownInv ==
  /\ call = Idle \/ Asked(call)
  /\ ~moved => ShownBy(call, reply)

\* Only hover panics, and a call that has just begun is answered in a later step.
Quiet(r) == r.outcome \notin {"answered", "panicked"}

LEMMA QuietIsShown ==
  ASSUME NEW r, Quiet(r)
  PROVE  \A c : ShownBy(c, r)
BY DEF Quiet, ShownBy

LEMMA RefusalIsQuiet ==
  ASSUME NEW c, NEW why \in Whys
  PROVE  Quiet(Refusal(c, why))
BY RefusalIs DEF Quiet

LEMMA LooksUpQuietly ==
  ASSUME MountsOk(mounts), NEW c, NEW doc, LooksUp(c, doc)
  PROVE  Quiet(reply')
<1>1. "not_found" \in Whys /\ "invalid" \in Whys
  BY DEF Whys
<1>2. Quiet(NoReply)
  BY DEF Quiet, NoReply
<1> QED
  BY <1>1, <1>2, LooksUpIs, RefusalIsQuiet

LEMMA StartsQuietly ==
  ASSUME MountsOk(mounts), NEW c, StartGet(c) \/ StartResource(c)
  PROVE  Quiet(reply')
<1>1. Quiet(NoReply) /\ Quiet(NotFound)
  BY DEF Quiet, NoReply, NotFound
<1>2. CASE StartGet(c)
  BY <1>2, LooksUpQuietly DEF StartGet
<1>3. CASE StartResource(c)
  <2>1. \/ \E doc : LooksUp(c, doc)
        \/ reply' = NoReply
        \/ reply' = NotFound
    BY <1>3, StartResourceIs
  <2> QED
    BY <1>1, <2>1, LooksUpQuietly
<1> QED
  BY <1>2, <1>3

LEMMA ShownStays ==
  ASSUME tree' = tree, mounts' = mounts
  PROVE  \A c, r : ShownBy(c, r)' = ShownBy(c, r)
<1>1. \A file : TextOf(file)' = TextOf(file)
  BY DEF TextOf
<1>2. \A c, file : HoveredBy(c, file)' = HoveredBy(c, file)
  BY <1>1 DEF HoveredBy
<1>3. \A s, w, f, l : Located(s, w, f, l)' = Located(s, w, f, l)
  BY LocatedStays
<1> QED
  BY <1>1, <1>2, <1>3, Zenon DEF ShownBy

LEMMA EndHoverShows ==
  ASSUME EndHover
  PROVE  ShownBy(call, reply')
<1> DEFINE file == Canonical(tree, opened.file)
           at == Hovered(TextOf(file), call.line, call.column, call.symbol)
           outcome == IF at.snippet[1] > at.snippet[2] THEN "panicked" ELSE "answered"
           answer == [tool |-> "hover", outcome |-> outcome, file |-> opened.file, read |-> file,
                      id |-> IdOf(opened.mount, opened.file), at |-> at]
<1>1. /\ call.tool = "hover"
      /\ \/ reply' = Refusal(call, "not_found")
         \/ TextOf(file) # <<>> /\ reply' = answer
  BY EndHoverIs, Zenon
<1>2. at = HoveredBy(call, file)
  BY DEF HoveredBy
<1> HIDE DEF at, file
<1>3. CASE reply' = Refusal(call, "not_found")
  <2>1. "not_found" \in Whys
    BY DEF Whys
  <2> QED
    BY <1>3, <2>1, RefusalIsQuiet, QuietIsShown
<1>4. CASE TextOf(file) # <<>> /\ reply' = answer
  <2>1. reply'.outcome = outcome /\ reply'.read = file /\ reply'.at = at
    BY <1>4
  <2> HIDE DEF answer
  <2> QED
    BY <1>1, <1>2, <1>4, <2>1 DEF ShownBy
<1> QED
  BY <1>1, <1>3, <1>4

LEMMA WorksShow ==
  ASSUME TypeInv, Works
  PROVE  /\ ShownBy(call, reply')
         /\ EndHover \/ Quiet(reply') \/ call.tool # "hover"
<1>1. MountsOk(mounts) /\ call.tool \in Readers
  BY WorksFor DEF TypeInv, TreeInv
<1>2. Quiet(NoReply) /\ Quiet(NotFound)
  BY DEF Quiet, NoReply, NotFound
<1>3. "not_found" \in Whys /\ "invalid" \in Whys /\ "error" \in Whys
  BY DEF Whys
<1>4. ASSUME Quiet(reply') PROVE ShownBy(call, reply')
  BY <1>4, QuietIsShown
<1>5. CASE LookUp
  <2>1. LooksUp(call, id)
    BY <1>5 DEF LookUp
  <2> QED
    BY <1>1, <1>4, <2>1, LooksUpQuietly
<1>6. CASE Measure
  <2>1. Quiet(reply')
    BY <1>2, <1>3, <1>6, MeasureIs, RefusalIsQuiet
  <2> QED
    BY <1>4, <2>1
<1>7. ASSUME call.tool # "hover", reply'.outcome = "answered" PROVE ShownBy(call, reply')
  BY <1>1, <1>7 DEF ShownBy, Readers
<1>8. CASE ReadDoc
  <2>1. call.tool # "hover"
    BY <1>8, ReadDocIs
  <2>2. Quiet(reply') \/ reply'.outcome = "answered"
    BY <1>3, <1>8, ReadDocIs, RefusalIsQuiet
  <2> QED
    BY <1>4, <1>7, <2>1, <2>2
<1>9. CASE ReadFile
  <2>1. call.tool # "hover"
    BY <1>9, ReadFileIs
  <2>2. Quiet(reply') \/ reply'.outcome = "answered"
    BY <1>2, <1>9, ReadFileIs
  <2> QED
    BY <1>4, <1>7, <2>1, <2>2
<1>10. CASE EndHover
  BY <1>10, EndHoverShows
<1> QED
  BY <1>5, <1>6, <1>8, <1>9, <1>10 DEF Works

LEMMA NextShown ==
  ASSUME TypeInv, ShownInv, [Next]_vars
  PROVE  ShownInv'
<1>0. TreeInv /\ tree \in Trees /\ MountsOk(mounts)
  BY DEF TypeInv, TreeInv
<1>1. \A c \in Calls(tree) : Asked(c)
  BY <1>0 DEF Asked
<1>2. ASSUME NEW c \in Calls(tree), StartGet(c) \/ StartResource(c) PROVE ShownInv'
  <2>1. call' = c /\ c.tool \in {"get_doc", "get_chunk", "read_resource"}
    BY <1>2, StartsAre
  <2>2. Quiet(reply')
    BY <1>0, <1>2, StartsQuietly
  <2> QED
    BY <1>1, <2>1, <2>2 DEF ShownInv, ShownBy, Asked, Quiet
<1>3. ASSUME NEW c \in Calls(tree), Locate(c) PROVE ShownInv'
  <2>1. /\ call' = c /\ c.tool = "locate" /\ tree' = tree /\ mounts' = mounts
        /\ reply' = [tool |-> "locate", outcome |-> "answered",
                     hits |-> Located(c.symbol, c.want, c.filter, c.limit)]
    BY <1>3 DEF Locate, Answers, Begins
  <2>2. /\ reply'.outcome = "answered" /\ reply'.hits = Located(c.symbol, c.want, c.filter, c.limit)
    BY <2>1
  <2>3. ShownBy(c, reply')
    BY <2>1, <2>2 DEF ShownBy
  <2>4. \A d, r : ShownBy(d, r)' = ShownBy(d, r)
    BY <2>1, ShownStays
  <2> QED
    BY <1>1, <2>1, <2>3, <2>4 DEF ShownInv, Asked
<1>4. ASSUME NEW c \in Calls(tree), ListResources(c) \/ Reindex(c) PROVE ShownInv'
  <2>1. /\ call' = c /\ c.tool # "hover" /\ c.tool # "locate"
        /\ reply'.outcome = "answered" \/ reply'.outcome = "invalid"
    <3>1. ASSUME NEW answer, Answers(c, answer) PROVE call' = c /\ reply' = answer
      BY <3>1 DEF Answers, Begins
    <3>2. CASE ListResources(c)
      <4>1. c.tool = "list_resources"
        BY <3>2 DEF ListResources
      <4>2. \E listed : Answers(c, [tool |-> "list_resources", outcome |-> "answered", listed |-> listed])
        BY <3>2, Zenon DEF ListResources
      <4> QED
        BY <3>1, <4>1, <4>2
    <3>3. CASE Reindex(c)
      <4>1. c.tool = "reindex"
        BY <3>3, Zenon DEF Reindex
      <4>2. \/ \E effective, paths, allowed :
                 Answers(c, [tool |-> "reindex", outcome |-> "answered", effective |-> effective,
                             paths |-> paths, allowed |-> allowed])
            \/ Answers(c, [tool |-> "reindex", outcome |-> "invalid"])
        BY <3>3, Zenon DEF Reindex
      <4>3. ASSUME NEW effective, NEW paths, NEW allowed,
                   Answers(c, [tool |-> "reindex", outcome |-> "answered", effective |-> effective,
                               paths |-> paths, allowed |-> allowed])
            PROVE  call' = c /\ reply'.outcome = "answered"
        BY <3>1, <4>3
      <4>4. ASSUME Answers(c, [tool |-> "reindex", outcome |-> "invalid"])
            PROVE  call' = c /\ reply'.outcome = "invalid"
        BY <3>1, <4>4
      <4> QED
        BY <4>1, <4>2, <4>3, <4>4
    <3> QED
      BY <1>4, <3>2, <3>3
  <2> QED
    BY <1>1, <2>1 DEF ShownInv, ShownBy, Asked
<1>5. ASSUME NEW c \in Calls(tree), StartHover(c) PROVE ShownInv'
  <2>1. /\ call' = c
        /\ \/ reply' = NoReply
           \/ reply' = [tool |-> "hover", outcome |-> "invalid"]
           \/ \E reason : reply' = Failed(c.path, reason)
    BY <1>5, Zenon DEF StartHover, Begins
  <2>2. reply'.outcome \in {"none", "invalid", "failed"}
    BY <2>1 DEF NoReply, Failed
  <2> QED
    BY <1>1, <2>1, <2>2 DEF ShownInv, ShownBy, Asked
<1>6. CASE Works
  <2>1. tree' = tree /\ mounts' = mounts /\ call' = call /\ moved' = moved
    BY <1>6, WorksAre
  <2>2. ShownBy(call, reply')
    BY <1>6, WorksShow
  <2>3. \A d, r : ShownBy(d, r)' = ShownBy(d, r)
    BY <2>1, ShownStays
  <2> QED
    BY <2>1, <2>2, <2>3 DEF ShownInv, Asked
<1>7. CASE Done
  <2>1. call' = Idle /\ reply' = NoReply
    BY <1>7 DEF Done
  <2> QED
    BY <2>1 DEF ShownInv, ShownBy, NoReply
<1>8. CASE Edit
  <2>1. moved' = TRUE /\ call' = call
    BY <1>8 DEF Edit
  <2> QED
    BY <2>1 DEF ShownInv, Asked
<1>9. CASE UNCHANGED vars
  <2>1. tree' = tree /\ mounts' = mounts /\ call' = call /\ moved' = moved /\ reply' = reply
    BY <1>9 DEF vars
  <2>2. \A d, r : ShownBy(d, r)' = ShownBy(d, r)
    BY <2>1, ShownStays
  <2> QED
    BY <2>1, <2>2 DEF ShownInv, Asked
<1> QED
  BY <1>2, <1>3, <1>4, <1>5, <1>6, <1>7, <1>8, <1>9, Zenon DEF Next, Works

LEMMA AlwaysShown == Spec => []ShownInv
<1>1. Init => ShownInv
  BY DEF Init, ShownInv, ShownBy, NoReply
<1>2. TypeInv /\ ShownInv /\ [Next]_vars => ShownInv'
  BY NextShown
<1> QED
  BY <1>1, <1>2, AlwaysType, PTL DEF Spec

\* What a hover was asked for.
LEMMA HoverArguments ==
  ASSUME ShownInv, call.tool = "hover"
  PROVE  call.line \in Nat /\ call.column \in Nat /\ call.symbol \in Seq(Chars)
<1>1. Asked(call)
  <2>1. call # Idle
    BY DEF Idle
  <2> QED
    BY <2>1 DEF ShownInv
<1> QED
  BY <1>1, RequestsAssumption DEF Asked, Chars

\* The text of a document.
LEMMA TextIs ==
  ASSUME TreeInv, NEW file
  PROVE  TextOf(file) \in Seq(Chars)
<1>1. IsFile(tree, file) => tree.files[file].text \in Seq(Chars)
  <2>1. tree \in Trees
    BY DEF TreeInv
  <2> QED
    BY <2>1, RequestsAssumption DEF IsFile, Chars
<1>2. ASSUME NEW text \in Seq(Chars) PROVE Trim(text) \in Seq(Chars)
  <2> DEFINE kept == {i \in DOMAIN text : text[i] \notin White}
             l == Min(kept)
             r == Max(kept)
  <2>1. Trim(text) = IF kept = {} THEN <<>> ELSE SubSeq(text, l, r)
    BY Zenon DEF Trim
  <2>2. kept \subseteq 1..Len(text) /\ Len(text) \in Nat
    OBVIOUS
  <2>3. IsFiniteSet(kept) /\ kept \subseteq Nat /\ kept \subseteq Int
    <3> HIDE DEF kept
    <3> QED
      BY <2>2, PositionsAreFinite
  <2> HIDE DEF kept
  <2>4. CASE kept # {}
    <3>1. l \in kept /\ r \in kept /\ l <= r
      BY <2>3, <2>4, MinOfNumbers, MaxOfNumbers
    <3>2. l \in 1..(Len(text) + 1) /\ r \in (l - 1)..Len(text)
      <4> HIDE DEF l, r
      <4> QED
        BY <2>2, <3>1
    <3> HIDE DEF l, r
    <3> QED
      BY <2>1, <2>4, <3>2, SubSeqIs
  <2> QED
    BY <2>1, <2>4
<1> QED
  BY <1>1, <1>2 DEF TextOf

\* A text that is not empty has a line.
LEMMA SomeLine ==
  ASSUME NEW text \in Seq(Chars), text # <<>>
  PROVE  Len(LinesOf(text)) \in Nat /\ Len(LinesOf(text)) >= 1
<1> DEFINE b == Breaks(text)
           n == Len(text)
<1>1. n \in Nat /\ n >= 1 /\ n \in DOMAIN text /\ n \in 1..n
  BY EmptySeq
<1>2. /\ Len(LinesOf(text)) = Len(b) + LastOpen(text)
      /\ Len(b) \in Nat
      /\ \A x \in 1..n : text[x] = "\n" => \E k \in 1..Len(b) : b[k] = x
  BY LinesAre, BreaksAre
<1>3. At(text, n) = text[n] /\ text[n] \in Chars
  BY <1>1 DEF At
<1>4. text[n] # ""
  BY <1>3, LinesAssumption DEF Chars
<1>5. CASE text[n] = "\n"
  <2>1. Len(b) >= 1
    BY <1>1, <1>2, <1>5
  <2>2. LastOpen(text) \in {0, 1}
    BY DEF LastOpen
  <2> HIDE DEF b
  <2> QED
    BY <1>2, <2>1, <2>2
<1>6. CASE text[n] # "\n"
  <2>1. LastOpen(text) = 1
    BY <1>3, <1>4, <1>6 DEF LastOpen, n
  <2> HIDE DEF b
  <2> QED
    BY <1>2, <2>1
<1> QED
  BY <1>5, <1>6

\* What is read for a hover.
LEMMA HoveredIs ==
  ASSUME NEW text \in Seq(Chars), text # <<>>, NEW line \in Nat, NEW column \in Nat, NEW symbol
  PROVE  LET at == Hovered(text, line, column, symbol)
             lines == LinesOf(text)
         IN /\ at.row \in 1..Len(lines)
            /\ Max({1, column}) \in Nat
            /\ at.symbol = IF symbol # <<>> THEN symbol
                           ELSE InferSymbol(lines[at.row], Max({1, column}))
<1> DEFINE lines == LinesOf(text)
           at == Hovered(text, line, column, symbol)
           m == Min({line, Len(lines)})
           row == Max({1, m})
<1>1. at.row = row /\ at.symbol = IF symbol # <<>> THEN symbol
                                  ELSE InferSymbol(lines[row], Max({1, column}))
  BY DEF Hovered
<1>2. Len(lines) \in Nat /\ Len(lines) >= 1
  BY SomeLine
<1> HIDE DEF lines
<1>3. m = IF line <= Len(lines) THEN line ELSE Len(lines)
  BY <1>2, MinOfTwo
<1> HIDE DEF m
<1>4. m \in Nat /\ m <= Len(lines)
  BY <1>2, <1>3
<1>5. row = IF 1 >= m THEN 1 ELSE m
  BY <1>4, MaxOfTwo
<1>6. row \in 1..Len(lines)
  BY <1>2, <1>4, <1>5
<1>7. Max({1, column}) \in Nat
  BY MaxOfTwo
<1> HIDE DEF at, row
<1> QED
  BY <1>1, <1>6, <1>7 DEF at, lines

\* InferredIsFound: whatever is written in the file and wherever hover is asked for,
\* the symbol that it takes from a line is found in that line, and in what is left of
\* the line without comments and strings if the symbol is in neither.
THEOREM InferredStaysFound == Spec => []InferredIsFound
<1>1. ASSUME TypeInv, ShownInv PROVE InferredIsFound
  <2> SUFFICES ASSUME call.tool = "hover", reply.outcome = "answered", ~moved,
                      call.symbol = <<>>, reply.at.symbol # <<>>
               PROVE  InferredIsFound
    BY Zenon DEF InferredIsFound, Answered
  <2> DEFINE text == TextOf(reply.read)
             row == reply.at.row
             line == LinesOf(text)[row]
             col == Max({1, call.column})
             clean == SanitizedLines(text)[row]
             name == reply.at.symbol
  <2>1. text \in Seq(Chars) /\ text # <<>> /\ reply.at = HoveredBy(call, reply.read)
    BY <1>1, TextIs DEF ShownInv, ShownBy, TypeInv
  <2>2. call.line \in Nat /\ call.column \in Nat
    BY <1>1, HoverArguments
  <2>3. reply.at = Hovered(text, call.line, call.column, call.symbol)
    BY <2>1 DEF HoveredBy
  <2> HIDE DEF text
  <2>4. row \in 1..Len(LinesOf(text)) /\ col \in Nat /\ name = InferSymbol(line, col)
    BY <2>1, <2>2, <2>3, HoveredIs
  <2>5. line \in Seq(Chars)
    BY <1>1, <2>1, <2>4, LinesAre
  <2>6. PICK d \in Nat : clean = Masked(line, Mask(line, d))
    BY <2>1, <2>4, SanitizedAre
  <2> HIDE DEF row, line, col, clean, name
  <2>7. InferSymbol(line, col) # <<>>
    BY <2>4 DEF name
  <2>8. ContainsSymbol(line, name)
    BY <2>4, <2>5, <2>7, InferredIsInLine
  <2>9. clean \in Seq(Chars \cup {" "}) /\ Blanked(clean, line)
    <3> DEFINE m == Mask(line, d)
    <3>1. /\ clean \in Seq(Chars \cup {" "})
          /\ Len(clean) = m.end /\ m.end \in 0..Len(line)
          /\ \A i \in 1..m.end : clean[i] = IF i \in m.kept THEN line[i] ELSE " "
      BY <2>5, <2>6, MaskedIs
    <3>2. Len(line) \in Nat
      BY <2>5
    <3> HIDE DEF m
    <3>3. Len(clean) \in 0..Len(line)
      BY <3>1
    <3>4. Len(clean) <= Len(line)
      BY <3>2, <3>3
    <3>5. \A i \in 1..Len(clean) : clean[i] = line[i] \/ clean[i] = " "
      BY <3>1, Zenon
    <3> QED
      BY <3>1, <3>4, <3>5 DEF Blanked
  <2>10. Shows(clean, line, SymbolPlace(line, col)) => ContainsSymbol(clean, name)
    BY <2>4, <2>5, <2>7, <2>9, InferredIsInClean
  <2> QED
    BY <2>8, <2>10, Zenon DEF InferredIsFound, Shows, text, row, line, col, clean, name
<1> QED
  BY <1>1, AlwaysType, AlwaysShown, PTL

\* A text that starts with no white space loses white space at its end only.
LEMMA TrimIs ==
  ASSUME NEW raw \in Seq(Chars), Trim(raw) # <<>>, At(raw, 1) \notin White
  PROVE  \E r \in 1..Len(raw) :
           /\ raw[r] \notin White /\ Trim(raw) = SubSeq(raw, 1, r)
           /\ \A i \in 1..Len(raw) : i > r => raw[i] \in White
<1> DEFINE kept == {i \in DOMAIN raw : raw[i] \notin White}
           l == Min(kept)
           r == Max(kept)
<1>1. Trim(raw) = IF kept = {} THEN <<>> ELSE SubSeq(raw, l, r)
  BY Zenon DEF Trim
<1>2. /\ kept \subseteq 1..Len(raw) /\ Len(raw) \in Nat
      /\ \A i \in 1..Len(raw) : i \in kept <=> raw[i] \notin White
  OBVIOUS
<1>3. kept # {} => 1 \in kept
  <2>1. kept # {} => 1 \in DOMAIN raw
    BY <1>2
  <2> QED
    BY <2>1 DEF At
<1>4. IsFiniteSet(kept) /\ kept \subseteq Nat /\ kept \subseteq Int
  <2> HIDE DEF kept
  <2> QED
    BY <1>2, PositionsAreFinite
<1> HIDE DEF kept
<1>5. kept # {}
  BY <1>1
<1>6. l \in kept /\ (\A y \in kept : l <= y) /\ r \in kept /\ (\A y \in kept : r >= y)
  BY <1>4, <1>5, MinOfNumbers, MaxOfNumbers
<1> HIDE DEF l, r
<1>7. l = 1
  BY <1>2, <1>3, <1>5, <1>6
<1>8. Trim(raw) = SubSeq(raw, 1, r)
  BY <1>1, <1>5, <1>7
<1>9. r \in 1..Len(raw) /\ raw[r] \notin White
  BY <1>2, <1>6
<1>10. \A i \in 1..Len(raw) : i > r => raw[i] \in White
  BY <1>2, <1>6, <1>9
<1> QED
  BY <1>8, <1>9, <1>10

\* A place that names a symbol is a line of the text that has the symbol when comments
\* and strings are left out.
LEMMA NamingIs ==
  ASSUME NEW text \in Seq(Chars), NEW symbol
  PROVE  /\ \E n \in Nat : DOMAIN Naming(text, symbol) = 1..n
         /\ \A k \in DOMAIN Naming(text, symbol) :
              LET i == Naming(text, symbol)[k].line
                  clean == SanitizedLines(text)
              IN i \in 1..Len(LinesOf(text)) /\ ~OnlyWhite(clean[i]) /\ ContainsSymbol(clean[i], symbol)
<1> DEFINE clean == SanitizedLines(text)
           m == Len(LinesOf(text))
           Named(i) == ~OnlyWhite(clean[i]) /\ ContainsSymbol(clean[i], symbol)
           S == {i \in DOMAIN clean : Named(i)}
           named == InOrder(S)
<1>1. Naming(text, symbol) =
        [k \in DOMAIN named |-> [line |-> named[k], kind |-> Kind(clean[named[k]], symbol)]]
  BY Zenon DEF Naming
<1>2. DOMAIN clean = 1..m /\ m \in Nat
  <2>1. DOMAIN clean = 1..m
    BY SanitizedAre
  <2>2. m \in Nat
    BY LinesAre
  <2> QED
    BY <2>1, <2>2
<1> HIDE DEF clean, m, Named
<1>3. S \subseteq 1..m /\ \A i \in S : Named(i)
  BY <1>2
<1> HIDE DEF S
<1>4. IsFiniteSet(S) /\ S \subseteq Int
  BY <1>2, <1>3, PositionsAreFinite
<1>5. Cardinality(S) \in Nat /\ named \in [1..Cardinality(S) -> S]
  BY <1>4, InOrderIs
<1> HIDE DEF named
<1>6. DOMAIN named = 1..Cardinality(S) /\ \A k \in DOMAIN named : named[k] \in S
  BY <1>5
<1>7. DOMAIN Naming(text, symbol) = 1..Cardinality(S)
  BY <1>1, <1>6
<1>8. ASSUME NEW k \in DOMAIN Naming(text, symbol)
      PROVE  LET i == Naming(text, symbol)[k].line IN i \in 1..m /\ Named(i)
  <2>1. k \in DOMAIN named /\ Naming(text, symbol)[k].line = named[k]
    BY <1>1
  <2> QED
    BY <1>3, <1>6, <2>1
<1> QED
  BY <1>5, <1>7, <1>8, Zenon DEF Named, clean, m

\* The place that is found in a file is a place of its text: the line is there, and
\* has the name.
LEMMA PlaceOfText ==
  ASSUME NEW raw \in Seq(Chars), Trim(raw) # <<>>, At(raw, 1) \notin White,
         NEW symbol \in Seq(Chars), symbol # <<>>, \A k \in 1..Len(symbol) : symbol[k] \in SymbolChars,
         NEW n \in DOMAIN Naming(raw, symbol)
  PROVE  ContainsSymbol(LinesOf(Trim(raw))[Naming(raw, symbol)[n].line], symbol)
<1> DEFINE k == Naming(raw, symbol)[n].line
           clean == SanitizedLines(raw)[k]
           line == LinesOf(raw)[k]
           w == LinesOf(Trim(raw))[k]
<1>1. k \in 1..Len(LinesOf(raw)) /\ ~OnlyWhite(clean) /\ ContainsSymbol(clean, symbol)
  BY NamingIs
<1>2. PICK r \in 1..Len(raw) :
        /\ raw[r] \notin White /\ Trim(raw) = SubSeq(raw, 1, r)
        /\ \A i \in 1..Len(raw) : i > r => raw[i] \in White
  BY TrimIs
<1>3. PICK d \in Nat : clean = Masked(line, Mask(line, d))
  BY <1>1, SanitizedAre
<1> HIDE DEF k
<1>4. /\ line \in Seq(Chars) /\ LineFrom(raw, k) \in 1..(Len(raw) + 1)
      /\ \A j \in 1..Len(line) : /\ LineFrom(raw, k) + j - 1 \in 1..Len(raw)
                                 /\ line[j] = raw[LineFrom(raw, k) + j - 1]
  BY <1>1, LinesAre
<1> HIDE DEF clean, line
<1>5. LineFrom(raw, k) <= r
  <2>1. PICK j \in DOMAIN clean : clean[j] \notin White
    BY <1>1 DEF OnlyWhite, ToSet
  <2>2. j \in 1..Len(line) /\ (clean[j] = line[j] \/ clean[j] = " ")
    <3> DEFINE m == Mask(line, d)
    <3>1. /\ m.end \in 0..Len(line) /\ DOMAIN clean = 1..m.end
          /\ \A i \in 1..m.end : clean[i] = IF i \in m.kept THEN line[i] ELSE " "
      BY <1>3, <1>4, MaskedIs
    <3>2. Len(line) \in Nat
      BY <1>4
    <3> HIDE DEF m
    <3>3. j \in 1..m.end
      BY <2>1, <3>1
    <3>4. clean[j] = IF j \in m.kept THEN line[j] ELSE " "
      BY <3>1, <3>3
    <3>5. j \in 1..Len(line)
      <4>1. m.end \in 0..Len(line)
        BY <3>1
      <4> QED
        BY <3>2, <3>3, <4>1
    <3> QED
      BY <3>4, <3>5
  <2>3. line[j] \notin White
    BY <2>1, <2>2 DEF White
  <2>4. LineFrom(raw, k) + j - 1 \in 1..Len(raw) /\ raw[LineFrom(raw, k) + j - 1] \notin White
    BY <1>4, <2>2, <2>3
  <2>5. ~(LineFrom(raw, k) + j - 1 > r)
    BY <1>2, <2>4
  <2>6. j \in Nat /\ j >= 1 /\ r \in Nat /\ LineFrom(raw, k) \in Nat
    <3>1. LineFrom(raw, k) \in Nat
      BY <1>4
    <3>2. r \in Nat
      OBVIOUS
    <3>3. Len(line) \in Nat
      BY <1>4
    <3>4. j \in 1..Len(line)
      BY <2>2
    <3> QED
      BY <3>1, <3>2, <3>3, <3>4
  <2> QED
    BY <2>5, <2>6
<1>6. k \in 1..Len(LinesOf(Trim(raw))) /\ Cut(w, line)
  <2> DEFINE text == Trim(raw)
  <2>1. text = SubSeq(raw, 1, r) /\ w = LinesOf(text)[k] /\ raw[r] \notin White
        /\ \A i \in 1..Len(raw) : i > r => raw[i] \in White
    BY <1>2
  <2> HIDE DEF text, w
  <2>2. k \in 1..Len(LinesOf(text)) /\ Cut(LinesOf(text)[k], LinesOf(raw)[k])
    BY <1>1, <1>5, <2>1, LinesOfTrimmed
  <2> QED
    BY <2>1, <2>2 DEF line, text
<1>7. w \in Seq(Chars)
  <2>1. Trim(raw) \in Seq(Chars)
    BY <1>2, SubSeqIs
  <2> QED
    BY <1>6, <2>1, LinesAre
<1> HIDE DEF w
<1>8. ContainsSymbol(Masked(line, Mask(line, d)), symbol)
  BY <1>1, <1>3
<1>9. ContainsSymbol(w, symbol)
  BY <1>4, <1>6, <1>7, <1>8, FoundInLine
<1> QED
  BY <1>9 DEF w, k

-----------------------------------------------------------------------------
(* What locate answers. *)

\* The order of a walk.
LEMMA WalkIs ==
  ASSUME NEW S, IsFiniteSet(S)
  PROVE  Cardinality(S) \in Nat /\ SetToSeq(S) \in [1..Cardinality(S) -> S]
<1>1. Cardinality(S) \in Nat /\ ExistsBijection(1..Cardinality(S), S)
  BY FS_CardinalityType
<1>2. \E f \in [1..Cardinality(S) -> S] : IsInjective(f)
  BY <1>1 DEF ExistsBijection, Bijection, Injection
<1> QED
  BY <1>1, <1>2 DEF SetToSeq

HitsIn(symbol, want, filter, i, file) ==
  LET mount == Followed(tree, mounts[i])
      named == IF TextOf(file) # <<>> /\ Selects(filter, SourceIn(mount, file))
               THEN Naming(tree.files[file].text, symbol) ELSE <<>>
      kept  == InOrder({n \in DOMAIN named : Wanted(named[n].kind, want)})
  IN [n \in DOMAIN kept |->
        [file |-> file, id |-> IdOf(mount, file),
         line |-> named[kept[n]].line, kind |-> named[kept[n]].kind]]

\* The places that may be found: lines of files with a text that name the symbol.
Hits(symbol) ==
  [file : DOMAIN tree.files,
   id   : {IdOf(Followed(tree, mounts[i]), f) : i \in DOMAIN mounts, f \in DOMAIN tree.files},
   line : {Naming(tree.files[f].text, symbol)[n].line : f \in DOMAIN tree.files, n \in Nat},
   kind : {Naming(tree.files[f].text, symbol)[n].kind : f \in DOMAIN tree.files, n \in Nat}]

IsPlace(symbol, h) ==
  /\ TextOf(h.file) # <<>>
  /\ \E n \in DOMAIN Naming(tree.files[h.file].text, symbol) :
       h.line = Naming(tree.files[h.file].text, symbol)[n].line

PlacesFor(symbol) == {h \in Hits(symbol) : IsPlace(symbol, h)}

LEMMA HitsAre ==
  ASSUME TreeInv, NEW symbol, NEW want, NEW filter, NEW i \in DOMAIN mounts,
         NEW file \in DOMAIN tree.files
  PROVE  HitsIn(symbol, want, filter, i, file) \in Seq(PlacesFor(symbol))
<1> DEFINE text == tree.files[file].text
           naming == Naming(text, symbol)
           mount == Followed(tree, mounts[i])
           given == TextOf(file) # <<>> /\ Selects(filter, SourceIn(mount, file))
           named == IF given THEN naming ELSE <<>>
           T == {n \in DOMAIN named : Wanted(named[n].kind, want)}
           kept == InOrder(T)
           Hit(m) == [file |-> file, id |-> IdOf(mount, file),
                      line |-> named[m].line, kind |-> named[m].kind]
<1>1. HitsIn(symbol, want, filter, i, file) = [n \in DOMAIN kept |-> Hit(kept[n])]
  BY Zenon DEF HitsIn
<1>2. text \in Seq(Chars)
  BY RequestsAssumption DEF TreeInv, Chars
<1>3. PICK n \in Nat : DOMAIN naming = 1..n
  <2> HIDE DEF text
  <2> QED
    BY <1>2, NamingIs
<1>4. \E m \in Nat : DOMAIN named = 1..m
  <2>1. DOMAIN <<>> = 1..0 /\ 0 \in Nat
    OBVIOUS
  <2> HIDE DEF naming
  <2> QED
    BY <1>3, <2>1
<1>5. \A m \in DOMAIN named : given /\ named = naming
  <2> HIDE DEF naming, given
  <2> QED
    OBVIOUS
<1>6. \A m \in DOMAIN named : Hit(m) \in PlacesFor(symbol)
  <2> SUFFICES ASSUME NEW m \in DOMAIN named PROVE Hit(m) \in PlacesFor(symbol)
    OBVIOUS
  <2>1. TextOf(file) # <<>> /\ named = naming /\ m \in DOMAIN naming /\ m \in Nat
    BY <1>3, <1>5
  <2>2. Hit(m) = [file |-> file, id |-> IdOf(mount, file),
                  line |-> naming[m].line, kind |-> naming[m].kind]
    BY <2>1
  <2> HIDE DEF Hit, named
  <2>3. /\ IdOf(mount, file) \in {IdOf(Followed(tree, mounts[j]), f) : j \in DOMAIN mounts, f \in DOMAIN tree.files}
        /\ naming[m].line \in {Naming(tree.files[f].text, symbol)[k].line : f \in DOMAIN tree.files, k \in Nat}
        /\ naming[m].kind \in {Naming(tree.files[f].text, symbol)[k].kind : f \in DOMAIN tree.files, k \in Nat}
    BY <2>1
  <2>4. Hit(m).file = file /\ Hit(m).line = naming[m].line
    BY <2>2
  <2>5. \E k \in DOMAIN Naming(tree.files[file].text, symbol) :
           Hit(m).line = Naming(tree.files[file].text, symbol)[k].line
    BY <2>1, <2>4
  <2>6. Hit(m) \in Hits(symbol)
    <3> HIDE DEF naming
    <3> QED
      BY <2>2, <2>3 DEF Hits
  <2>7. IsPlace(symbol, Hit(m))
    BY <2>1, <2>4, <2>5 DEF IsPlace
  <2> QED
    BY <2>6, <2>7 DEF PlacesFor
<1> HIDE DEF named, Hit, given
<1>7. T \subseteq DOMAIN named
  OBVIOUS
<1> HIDE DEF T
<1>8. IsFiniteSet(T) /\ T \subseteq Int
  BY <1>4, <1>7, PositionsAreFinite
<1>9. Cardinality(T) \in Nat /\ kept \in [1..Cardinality(T) -> T]
  BY <1>8, InOrderIs
<1> HIDE DEF kept
<1> DEFINE q == [k \in DOMAIN kept |-> Hit(kept[k])]
           P == PlacesFor(symbol)
<1> HIDE DEF P
<1>10. q \in [1..Cardinality(T) -> P]
  BY <1>6, <1>7, <1>9 DEF P
<1> HIDE DEF q
<1>11. q \in Seq(P)
  BY <1>9, <1>10
<1> QED
  BY <1>1, <1>11 DEF P, q

LEMMA LocatedAre ==
  ASSUME TreeInv, NEW symbol, NEW want, NEW filter, NEW limit \in Nat
  PROVE  \A h \in ToSet(Located(symbol, want, filter, limit)) : h \in PlacesFor(symbol)
<1> DEFINE walk(i) == SetToSeq(Walked(tree, mounts[i]))
           ss(i) == [k \in DOMAIN walk(i) |-> HitsIn(symbol, want, filter, i, walk(i)[k])]
           tt == [i \in DOMAIN mounts |-> FlattenSeq(ss(i))]
           all == FlattenSeq(tt)
           P == PlacesFor(symbol)
<1>1. Located(symbol, want, filter, limit) = SubSeq(all, 1, Min({limit, Len(all)}))
  BY Zenon DEF Located, HitsIn
<1>2. ASSUME NEW i \in DOMAIN mounts PROVE FlattenSeq(ss(i)) \in Seq(P)
  <2> DEFINE W == Walked(tree, mounts[i])
             c == Cardinality(W)
             w == walk(i)
             q == ss(i)
  <2>1. W \subseteq DOMAIN tree.files
    BY DEF Walked
  <2>2. IsFiniteSet(DOMAIN tree.files)
    BY RequestsAssumption DEF TreeInv
  <2> HIDE DEF W
  <2>3. IsFiniteSet(W)
    BY <2>1, <2>2, FS_Subset
  <2>4. c \in Nat /\ w \in [1..c -> W]
    BY <2>3, WalkIs DEF W
  <2> HIDE DEF c
  <2>5. \A k \in 1..c : w[k] \in DOMAIN tree.files
    <3> HIDE DEF w
    <3> QED
      BY <2>1, <2>4
  <2>6. DOMAIN w = 1..c
    <3> HIDE DEF w
    <3> QED
      BY <2>4
  <2>7. \A k \in 1..c : HitsIn(symbol, want, filter, i, w[k]) \in Seq(P)
    BY <2>5, HitsAre
  <2>8. q = [k \in 1..c |-> HitsIn(symbol, want, filter, i, w[k])]
    BY <2>6
  <2> HIDE DEF w, q, P
  <2>9. q \in Seq(Seq(P))
    <3> DEFINE V == Seq(P)
    <3> HIDE DEF V
    <3>1. q \in [1..c -> V]
      BY <2>7, <2>8 DEF V
    <3> QED
      BY <2>4, <3>1 DEF V
  <2>10. FlattenSeq(q) \in Seq(P)
    BY <2>9, FlattenIs
  <2> QED
    BY <2>10 DEF q
<1>3. \E n \in Nat : DOMAIN mounts = 1..n
  BY MountsGive DEF TreeInv
<1> HIDE DEF ss, P
<1>4. tt \in Seq(Seq(P))
  <2> DEFINE V == Seq(P)
  <2> HIDE DEF V
  <2>1. tt \in [DOMAIN mounts -> V]
    BY <1>2 DEF V
  <2> HIDE DEF tt
  <2> QED
    BY <1>3, <2>1 DEF V
<1> HIDE DEF tt
<1>5. all \in Seq(P)
  BY <1>4, FlattenIs
<1> HIDE DEF all
<1>6. Len(all) \in Nat
  BY <1>5
<1> DEFINE m == Min({limit, Len(all)})
<1>7. m \in 0..Len(all)
  <2>1. m = IF limit <= Len(all) THEN limit ELSE Len(all)
    BY <1>6, MinOfTwo
  <2> HIDE DEF m
  <2> QED
    BY <1>6, <2>1
<1> HIDE DEF m
<1>8. SubSeq(all, 1, m) \in Seq(P)
  <2>1. 1 \in 1..(Len(all) + 1) /\ m \in (1 - 1)..Len(all)
    BY <1>6, <1>7
  <2> QED
    BY <1>5, <2>1, SubSeqIs
<1> DEFINE hits == Located(symbol, want, filter, limit)
<1>9. hits \in Seq(P)
  BY <1>1, <1>8 DEF m
<1> HIDE DEF hits
<1>10. \A h \in ToSet(hits) : h \in P
  BY <1>9 DEF ToSet
<1> QED
  BY <1>10 DEF hits, P

\* HoverAtLocated: whatever is written in the files, the line that locate has found
\* for a name is a line of the text that hover reads, and it has the name.
THEOREM LocatedIsSeenByHover == Spec => []HoverAtLocated
<1>1. ASSUME TypeInv, ShownInv PROVE HoverAtLocated
  <2> SUFFICES ASSUME call.tool = "locate", reply.outcome = "answered", ~moved,
                      \A c \in ToSet(call.symbol) : IsSymbolChar(c),
                      NEW h \in ToSet(reply.hits),
                      At(tree.files[h.file].text, 1) \notin White
               PROVE  ContainsSymbol(LinesOf(TextOf(h.file))[h.line], call.symbol)
    BY Zenon DEF HoverAtLocated, Answered
  <2> DEFINE s == call.symbol
             raw == tree.files[h.file].text
  <2>1. reply.hits = Located(s, call.want, call.filter, call.limit)
    BY <1>1 DEF ShownInv, ShownBy
  <2>2. s \in Seq(Chars) /\ s # <<>> /\ call.limit \in Nat
    <3>1. Asked(call)
      <4>1. call # Idle
        BY DEF Idle
      <4> QED
        BY <1>1, <4>1 DEF ShownInv
    <3> QED
      BY <3>1, RequestsAssumption DEF Asked, Chars
  <2>3. TreeInv
    BY <1>1 DEF TypeInv
  <2>4. h \in Hits(s) /\ IsPlace(s, h)
    <3>1. h \in PlacesFor(s)
      BY <2>1, <2>2, <2>3, LocatedAre
    <3> QED
      BY <3>1 DEF PlacesFor
  <2>5. PICK n \in DOMAIN Naming(raw, s) : h.line = Naming(raw, s)[n].line
    BY <2>4 DEF IsPlace
  <2>6. h.file \in DOMAIN tree.files /\ TextOf(h.file) # <<>>
    <3>1. h.file \in DOMAIN tree.files
      BY <2>4 DEF Hits
    <3> QED
      BY <2>4, <3>1 DEF IsPlace
  <2>7. TextOf(h.file) = Trim(raw)
    BY <2>6 DEF TextOf
  <2>8. raw \in Seq(Chars)
    BY <2>3, <2>6, RequestsAssumption DEF TreeInv, Chars
  <2>9. \A k \in 1..Len(s) : s[k] \in SymbolChars
    BY <2>2 DEF ToSet, IsSymbolChar, SymbolChars
  <2> HIDE DEF raw, s
  <2>10. ContainsSymbol(LinesOf(Trim(raw))[Naming(raw, s)[n].line], s)
    BY <2>2, <2>5, <2>6, <2>7, <2>8, <2>9, PlaceOfText DEF raw
  <2> QED
    BY <2>5, <2>7, <2>10 DEF s
<1> QED
  BY <1>1, AlwaysType, AlwaysShown, PTL

-----------------------------------------------------------------------------
(* Texts in lower case. *)

LowerOf(c) == Len(Lowered[c])

LEMMA LoweredIs ==
  \A c \in Chars : /\ Lowered[c] \in Seq(Chars) /\ Len(Lowered[c]) \in Nat /\ Len(Lowered[c]) >= 1
                   /\ \A k \in 1..Len(Lowered[c]) : Lowered[c][k] \in Chars
                   /\ c \notin White => \A k \in 1..Len(Lowered[c]) : Lowered[c][k] \notin White
<1> SUFFICES ASSUME NEW c \in Chars
             PROVE  /\ Lowered[c] \in Seq(Chars) /\ Len(Lowered[c]) \in Nat /\ Len(Lowered[c]) >= 1
                    /\ \A k \in 1..Len(Lowered[c]) : Lowered[c][k] \in Chars
                    /\ c \notin White => \A k \in 1..Len(Lowered[c]) : Lowered[c][k] \notin White
  OBVIOUS
<1> DEFINE w == Lowered[c]
<1>1. w \in Seq(Chars) /\ w # <<>> /\ (c \notin White => ToSet(w) \cap White = {})
  BY LinesAssumption, Zenon DEF Chars, White
<1> HIDE DEF w
<1>2. Len(w) \in Nat /\ Len(w) >= 1 /\ DOMAIN w = 1..Len(w) /\ \A k \in 1..Len(w) : w[k] \in Chars
  BY <1>1, EmptySeq
<1>3. c \notin White => \A k \in 1..Len(w) : w[k] \notin White
  BY <1>1, <1>2 DEF ToSet
<1> QED
  BY <1>1, <1>2, <1>3 DEF w

\* A text is at least as long in lower case.  It is as long only if every character is,
\* and then it is changed character by character.
LEMMA LowerTextIs ==
  ASSUME NEW text \in Seq(Chars)
  PROVE  /\ LowerText(text) \in Seq(Chars) /\ Len(LowerText(text)) \in Nat
         /\ Len(LowerText(text)) = Len(text) <=> \A i \in 1..Len(text) : LowerOf(text[i]) = 1
         /\ Len(LowerText(text)) = Len(text) =>
              \A i \in 1..Len(text) : LowerText(text)[i] = Lowered[text[i]][1]
<1> DEFINE n == Len(text)
           ss == [i \in DOMAIN text |-> Lowered[text[i]]]
           V == Seq(Chars)
<1>1. LowerText(text) = FlattenSeq(ss)
  BY DEF LowerText
<1>2. n \in Nat /\ DOMAIN text = 1..n /\ \A i \in 1..n : text[i] \in Chars
  OBVIOUS
<1>3. \A i \in 1..n : Lowered[text[i]] \in V
  BY <1>2, LoweredIs
<1>4. ss \in Seq(V) /\ Len(ss) = n /\ \A i \in 1..n : ss[i] = Lowered[text[i]]
  <2> HIDE DEF V, n
  <2>1. ss \in [1..n -> V] /\ \A i \in 1..n : ss[i] = Lowered[text[i]]
    BY <1>2, <1>3
  <2> HIDE DEF ss
  <2> QED
    BY <1>2, <2>1
<1> HIDE DEF ss
<1>5. PICK f \in [0..Len(ss) -> V] :
        /\ f[0] = <<>> /\ \A i \in 1..Len(ss) : f[i] = f[i - 1] \o ss[i]
        /\ FlattenSeq(ss) = f[Len(ss)]
  BY <1>4, FlattenSteps
<1>6. /\ f \in [0..n -> V] /\ f[0] = <<>> /\ LowerText(text) = f[n]
      /\ \A i \in 1..n : f[i] = f[i - 1] \o Lowered[text[i]]
  BY <1>1, <1>4, <1>5
<1> DEFINE l(i) == Len(f[i])
           o(i) == LowerOf(text[i])
           Plainly(i) == \A j \in 1..i : f[i][j] = Lowered[text[j]][1]
<1>7. /\ \A i \in 0..n : l(i) \in Nat
      /\ l(0) = 0
      /\ \A i \in 1..n : i - 1 \in 0..n /\ o(i) \in Nat /\ o(i) >= 1 /\ l(i) = l(i - 1) + o(i)
  <2>1. \A i \in 0..n : l(i) \in Nat
    BY <1>6
  <2>2. l(0) = 0
    BY <1>6
  <2>3. ASSUME NEW i \in 1..n
        PROVE  i - 1 \in 0..n /\ o(i) \in Nat /\ o(i) >= 1 /\ l(i) = l(i - 1) + o(i)
    <3>1. i - 1 \in 0..n
      BY <1>2
    <3>2. f[i - 1] \in V /\ Lowered[text[i]] \in V /\ f[i] = f[i - 1] \o Lowered[text[i]]
      BY <1>3, <1>6, <3>1
    <3>3. l(i) = l(i - 1) + o(i)
      BY <3>2 DEF LowerOf
    <3>4. o(i) \in Nat /\ o(i) >= 1
      BY <1>2, LoweredIs DEF LowerOf
    <3> QED
      BY <3>1, <3>3, <3>4
  <2> QED
    BY <2>1, <2>2, <2>3
<1>8. \A i \in 1..n : l(i - 1) = i - 1 /\ o(i) = 1 /\ Plainly(i - 1) => Plainly(i)
  <2> SUFFICES ASSUME NEW i \in 1..n, l(i - 1) = i - 1, o(i) = 1, Plainly(i - 1),
                      NEW j \in 1..i
               PROVE  f[i][j] = Lowered[text[j]][1]
    OBVIOUS
  <2> DEFINE a == f[i - 1]
             b == Lowered[text[i]]
  <2>1. i - 1 \in 0..n
    BY <1>2
  <2>2. a \in V /\ b \in V /\ f[i] = a \o b
    BY <1>3, <1>6, <2>1
  <2>3. Len(a) = i - 1 /\ Len(b) = 1
    BY DEF LowerOf
  <2>4. j \in 1..(i - 1) => a[j] = Lowered[text[j]][1]
    OBVIOUS
  <2> HIDE DEF a, b
  <2>5. CASE j \in 1..(i - 1)
    <3>1. (a \o b)[j] = a[j]
      BY <2>2, <2>3, <2>5
    <3> QED
      BY <2>2, <2>4, <2>5, <3>1
  <2>6. CASE j = i
    <3>1. Len(a) + 1 = i
      BY <1>2, <2>3
    <3>2. (a \o b)[Len(a) + 1] = b[1]
      <4>1. 1 \in 1..Len(b)
        BY <2>3
      <4> QED
        BY <2>2, <4>1, ConcatIs
    <3>3. b[1] = Lowered[text[i]][1]
      BY DEF b
    <3> QED
      BY <2>2, <2>6, <3>1, <3>2, <3>3
  <2> QED
    BY <1>2, <2>5, <2>6
<1> HIDE DEF l, o, Plainly, n
<1>9. \A i \in 0..n : l(i) >= i
  <2> DEFINE B == {i \in 0..n : ~(l(i) >= i)}
  <2>1. ASSUME B # {} PROVE FALSE
    <3>1. PICK i \in B : \A j \in B : i <= j
      <4>1. B \subseteq Nat
        BY <1>2
      <4> HIDE DEF B
      <4> QED
        BY <2>1, <4>1, LeastNumber
    <3>2. i \in 1..n /\ i - 1 \in 0..n /\ ~(i <= i - 1)
      BY <1>2, <1>7, <3>1
    <3>3. l(i - 1) >= i - 1
      BY <3>1, <3>2
    <3>4. l(i) = l(i - 1) + o(i) /\ o(i) \in Nat /\ o(i) >= 1 /\ l(i - 1) \in Nat /\ i \in Nat
      BY <1>2, <1>7, <3>2
    <3>5. ~(l(i) >= i)
      BY <3>1
    <3> QED
      BY <3>3, <3>4, <3>5
  <2> QED
    BY <2>1
<1>10. ASSUME l(n) = n PROVE \A i \in 1..n : o(i) = 1
  <2> DEFINE B == {k \in 0..n : l(n - k) # n - k}
  <2>1. ASSUME B # {} PROVE FALSE
    <3>1. PICK k \in B : \A j \in B : k <= j
      <4>1. B \subseteq Nat
        BY <1>2
      <4> HIDE DEF B
      <4> QED
        BY <2>1, <4>1, LeastNumber
    <3>2. k \in Nat /\ k <= n /\ k # 0 /\ l(n - k) # n - k
      BY <1>2, <1>10, <3>1
    <3>3. k - 1 \in 0..n /\ ~(k <= k - 1)
      BY <1>2, <3>2
    <3>4. l(n - (k - 1)) = n - (k - 1)
      BY <3>1, <3>3
    <3> DEFINE i == n - (k - 1)
    <3>5. i \in 1..n /\ i - 1 = n - k /\ i - 1 \in 0..n
      BY <1>2, <3>2
    <3> HIDE DEF i
    <3>6. l(i) = l(i - 1) + o(i) /\ o(i) \in Nat /\ o(i) >= 1 /\ l(i - 1) \in Nat
      BY <1>7, <3>5
    <3>7. l(i - 1) >= i - 1 /\ l(i) = i /\ l(i - 1) # i - 1 /\ i \in Nat
      BY <1>2, <1>9, <3>2, <3>4, <3>5 DEF i
    <3> QED
      BY <3>6, <3>7
  <2>2. \A i \in 0..n : n - i \in 0..n /\ n - (n - i) = i
    BY <1>2
  <2>3. \A i \in 0..n : l(i) = i
    BY <2>1, <2>2
  <2> QED
    BY <1>2, <1>7, <2>3
<1>11. ASSUME \A i \in 1..n : o(i) = 1 PROVE \A i \in 0..n : l(i) = i /\ Plainly(i)
  <2> DEFINE B == {i \in 0..n : ~(l(i) = i /\ Plainly(i))}
  <2>1. ASSUME B # {} PROVE FALSE
    <3>1. PICK i \in B : \A j \in B : i <= j
      <4>1. B \subseteq Nat
        BY <1>2
      <4> HIDE DEF B
      <4> QED
        BY <2>1, <4>1, LeastNumber
    <3>2. l(0) = 0 /\ Plainly(0)
      <4>1. 1..0 = {}
        OBVIOUS
      <4> QED
        BY <1>7, <4>1 DEF Plainly
    <3>3. i \in 0..n /\ ~(l(i) = i /\ Plainly(i))
      BY <3>1
    <3>4. i \in 1..n /\ i - 1 \in 0..n /\ ~(i <= i - 1)
      BY <1>2, <3>2, <3>3
    <3>5. l(i - 1) = i - 1 /\ Plainly(i - 1)
      BY <3>1, <3>4
    <3>6. Plainly(i)
      BY <1>8, <1>11, <3>4, <3>5
    <3>7. l(i) = l(i - 1) + o(i) /\ o(i) = 1
      BY <1>7, <1>11, <3>4
    <3>8. l(i) = i
      BY <1>2, <3>4, <3>5, <3>7
    <3> QED
      BY <3>3, <3>6, <3>8
  <2> QED
    BY <2>1
<1>12. n \in 0..n
  BY <1>2
<1>13. f[n] \in Seq(Chars) /\ Len(f[n]) \in Nat
  <2>1. f[n] \in V
    BY <1>6, <1>12
  <2> QED
    BY <2>1
<1>14. l(n) = n <=> \A i \in 1..n : o(i) = 1
  BY <1>10, <1>11, <1>12
<1>15. l(n) = n => Plainly(n)
  BY <1>10, <1>11, <1>12
<1> QED
  BY <1>6, <1>13, <1>14, <1>15, Zenon DEF l, o, Plainly, n

\* A text without white space is one word.
LEMMA OneWord ==
  ASSUME NEW w \in Seq(Chars), w # <<>>, \A k \in 1..Len(w) : w[k] \notin White
  PROVE  DOMAIN Tokens(w) = {1} /\ Tokens(w)[1] = w
<1> DEFINE S == {i \in DOMAIN w : w[i] \notin White /\ At(w, i - 1) \in White \cup {""}}
           first == InOrder(S)
           After(k) == {j \in DOMAIN w : j > first[k] /\ w[j] \in White}
           token(k) == SubSeq(w, first[k], Min({Len(w) + 1} \cup After(k)) - 1)
<1>1. Tokens(w) = [k \in DOMAIN first |-> token(k)]
  BY Zenon DEF Tokens
<1>2. Len(w) \in Nat /\ Len(w) >= 1 /\ DOMAIN w = 1..Len(w) /\ \A k \in 1..Len(w) : w[k] \in Chars
  BY EmptySeq
<1>3. "" \notin Chars
  BY LinesAssumption DEF Chars
<1>4. S = {1}
  <2>1. 1 \in S
    <3>1. 1 - 1 \notin DOMAIN w
      BY <1>2
    <3> QED
      BY <1>2, <3>1 DEF At
  <2>2. ASSUME NEW i \in S PROVE i = 1
    <3> SUFFICES ASSUME i # 1 PROVE FALSE
      OBVIOUS
    <3>1. i - 1 \in 1..Len(w)
      <4>1. i \in 1..Len(w)
        BY <1>2
      <4> HIDE DEF S
      <4> QED
        BY <1>2, <4>1
    <3>2. At(w, i - 1) = w[i - 1]
      BY <1>2, <3>1 DEF At
    <3>3. w[i - 1] \notin White /\ w[i - 1] \in Chars
      BY <1>2, <3>1
    <3>4. w[i - 1] # ""
      BY <1>3, <3>3
    <3>5. At(w, i - 1) \in White \cup {""}
      OBVIOUS
    <3> QED
      BY <3>2, <3>3, <3>4, <3>5
  <2> QED
    BY <2>1, <2>2
<1> HIDE DEF S
<1>5. DOMAIN first = {1} /\ first[1] = 1
  <2>1. IsFiniteSet(S) /\ Cardinality(S) = 1 /\ S \subseteq Int
    BY <1>4, FS_Singleton
  <2>2. first \in [1..1 -> {1}]
    BY <1>4, <2>1, InOrderIs
  <2> HIDE DEF first
  <2>3. 1..1 = {1}
    OBVIOUS
  <2> QED
    BY <2>2, <2>3
<1>6. After(1) = {}
  BY <1>2
<1>7. token(1) = w
  <2>1. Min({Len(w) + 1} \cup After(1)) = Len(w) + 1
    <3> HIDE DEF After
    <3>1. {Len(w) + 1} \cup After(1) = {Len(w) + 1}
      BY <1>6
    <3>2. \A x \in Int : Min({x}) = x
      BY DEF Min
    <3>3. Len(w) + 1 \in Int
      BY <1>2
    <3> QED
      BY <3>1, <3>2, <3>3
  <2>2. token(1) = SubSeq(w, 1, Len(w) + 1 - 1)
    <3> DEFINE a == first[1]
               b == Min({Len(w) + 1} \cup After(1))
    <3>1. token(1) = SubSeq(w, a, b - 1)
      OBVIOUS
    <3>2. a = 1 /\ b = Len(w) + 1
      BY <1>5, <2>1
    <3> HIDE DEF a, b, token
    <3> QED
      BY <3>1, <3>2
  <2>3. Len(w) + 1 - 1 = Len(w)
    BY <1>2
  <2>4. SubSeq(w, 1, Len(w)) = w
    BY SubSeqFull
  <2> QED
    BY <2>2, <2>3, <2>4
<1> HIDE DEF first, token
<1>8. DOMAIN Tokens(w) = {1} /\ Tokens(w)[1] = token(1)
  BY <1>1, <1>5
<1> QED
  BY <1>7, <1>8

\* A part of a text.
LEMMA PartIs ==
  ASSUME NEW C, NEW text \in Seq(C), NEW a \in Nat, NEW b \in Nat, a >= 1, b <= Len(text)
  PROVE  /\ SubSeq(text, a, b) \in Seq(C)
         /\ \A i \in 1..Len(SubSeq(text, a, b)) : /\ a + i - 1 \in 1..Len(text)
                                                  /\ SubSeq(text, a, b)[i] = text[a + i - 1]
<1>1. CASE a <= b + 1
  <2>1. a \in 1..(Len(text) + 1) /\ b \in (a - 1)..Len(text)
    BY <1>1
  <2>2. /\ SubSeq(text, a, b) \in Seq(C) /\ Len(SubSeq(text, a, b)) = b - a + 1
        /\ \A i \in 1..(b - a + 1) : SubSeq(text, a, b)[i] = text[a + i - 1]
    BY <2>1, SubSeqIs
  <2>3. \A i \in 1..(b - a + 1) : a + i - 1 \in 1..Len(text)
    BY <2>1
  <2> QED
    BY <2>2, <2>3
<1>2. CASE a > b + 1
  <2>1. SubSeq(text, a, b) = <<>>
    BY <1>2
  <2> QED
    BY <2>1
<1> QED
  BY <1>1, <1>2

\* The text of a chunk is a part of the text.
LEMMA ChunkIs ==
  ASSUME NEW text \in Seq(Chars), NEW offset
  PROVE  LET part == ChunkForOffset(ChunkText(text), offset).text IN
         /\ part \in Seq(Chars)
         /\ \A i \in 1..Len(part) : \E j \in 1..Len(text) : part[i] = text[j]
<1> DEFINE chunks == ChunkText(text)
           step == ChunkChars - ChunkOverlap
           count == IF Len(text) <= ChunkChars THEN 1
                    ELSE 1 + ((Len(text) - ChunkChars + step - 1) \div step)
           start(k) == (k - 1) * step
           end(k) == Min({Len(text), start(k) + ChunkChars})
           Good(part) == /\ part \in Seq(Chars)
                         /\ \A i \in 1..Len(part) : \E j \in 1..Len(text) : part[i] = text[j]
<1>1. chunks = [k \in 1..count |-> [index |-> k - 1, start |-> start(k), end |-> end(k),
                                   text |-> SubSeq(text, start(k) + 1, end(k))]]
  BY Zenon DEF ChunkText
<1>2. /\ Len(text) \in Nat /\ ChunkChars \in Nat /\ ChunkOverlap \in Nat
      /\ step \in Nat /\ step >= 1
  <2>1. ChunkChars \in Nat \ {0} /\ ChunkOverlap \in 0..(ChunkChars - 1)
    BY LinesAssumption
  <2> QED
    BY <2>1
<1>3. count \in Nat /\ count >= 1
  <2>1. \A x \in Nat : x \div step \in Nat
    <3> HIDE DEF step
    <3> QED
      BY <1>2
  <2>2. CASE Len(text) <= ChunkChars
    BY <2>2
  <2>3. CASE Len(text) > ChunkChars
    <3>1. Len(text) - ChunkChars + step - 1 \in Nat
      BY <1>2, <2>3
    <3> DEFINE q == (Len(text) - ChunkChars + step - 1) \div step
    <3>2. q \in Nat
      BY <2>1, <3>1
    <3>3. count = 1 + q
      BY <1>2, <2>3
    <3> HIDE DEF q
    <3> QED
      BY <3>2, <3>3
  <2> QED
    BY <1>2, <2>2, <2>3
<1> HIDE DEF count
<1>4. \A k \in 1..count : start(k) \in Nat
  <2> SUFFICES ASSUME NEW k \in 1..count PROVE start(k) \in Nat
    OBVIOUS
  <2>1. k - 1 \in Nat
    BY <1>3
  <2>2. \A x, y \in Nat : x * y \in Nat
    OBVIOUS
  <2> HIDE DEF step
  <2> QED
    BY <1>2, <2>1, <2>2
<1> HIDE DEF step, start
<1>5. \A k \in 1..count : end(k) \in Nat /\ end(k) <= Len(text)
  <2> SUFFICES ASSUME NEW k \in 1..count PROVE end(k) \in Nat /\ end(k) <= Len(text)
    OBVIOUS
  <2>1. start(k) + ChunkChars \in Nat
    BY <1>2, <1>4
  <2> DEFINE x == start(k) + ChunkChars
  <2> HIDE DEF x
  <2>2. Min({Len(text), x}) = IF Len(text) <= x THEN Len(text) ELSE x
    BY <1>2, <2>1, MinOfTwo DEF x
  <2>3. end(k) = Min({Len(text), x})
    BY DEF x
  <2> HIDE DEF end
  <2> QED
    BY <1>2, <2>1, <2>2, <2>3 DEF x
<1> HIDE DEF end
<1>6. ASSUME NEW k \in 1..count PROVE Good(chunks[k].text)
  <2> DEFINE part == SubSeq(text, start(k) + 1, end(k))
  <2>1. chunks[k].text = part
    BY <1>1
  <2>2. start(k) + 1 \in Nat /\ start(k) + 1 >= 1 /\ end(k) \in Nat /\ end(k) <= Len(text)
    BY <1>4, <1>5
  <2>3. /\ part \in Seq(Chars)
        /\ \A i \in 1..Len(part) : /\ start(k) + 1 + i - 1 \in 1..Len(text)
                                   /\ part[i] = text[start(k) + 1 + i - 1]
    BY <2>2, PartIs
  <2> HIDE DEF part
  <2>4. Good(part)
    BY <2>3
  <2> QED
    BY <2>1, <2>4
<1>7. \E k \in 1..count : ChunkForOffset(chunks, offset) = chunks[k]
  <2> DEFINE before == {k \in DOMAIN chunks : chunks[k].start <= offset}
             around == {k \in before : offset < chunks[k].end}
  <2>1. ChunkForOffset(chunks, offset) =
          IF around # {} THEN chunks[Min(around)]
          ELSE IF before # {} THEN chunks[Max(before)] ELSE chunks[1]
    BY Zenon DEF ChunkForOffset
  <2>2. DOMAIN chunks = 1..count
    BY <1>1
  <2> HIDE DEF chunks
  <2>3. before \subseteq 1..count /\ around \subseteq 1..count
    BY <2>2
  <2> HIDE DEF before, around
  <2>4. around # {} => Min(around) \in 1..count
    BY <1>3, <2>3, PositionsAreFinite, MinOfNumbers
  <2>5. before # {} => Max(before) \in 1..count
    BY <1>3, <2>3, PositionsAreFinite, MaxOfNumbers
  <2>6. 1 \in 1..count
    BY <1>3
  <2> QED
    BY <2>1, <2>4, <2>5, <2>6
<1> QED
  BY <1>6, <1>7

-----------------------------------------------------------------------------
(* Snippets. *)

LEMMA TokensAre ==
  ASSUME NEW w \in Seq(Chars)
  PROVE  \E m \in Nat : DOMAIN Tokens(w) = 1..m /\ \A k \in 1..m : Tokens(w)[k] \in Seq(Chars)
<1> DEFINE S == {i \in DOMAIN w : w[i] \notin White /\ At(w, i - 1) \in White \cup {""}}
           first == InOrder(S)
           After(k) == {j \in DOMAIN w : j > first[k] /\ w[j] \in White}
           to(k) == Min({Len(w) + 1} \cup After(k)) - 1
           token(k) == SubSeq(w, first[k], to(k))
           m == Cardinality(S)
<1>1. Tokens(w) = [k \in DOMAIN first |-> token(k)]
  BY Zenon DEF Tokens
<1>2. Len(w) \in Nat /\ DOMAIN w = 1..Len(w)
  OBVIOUS
<1>3. S \subseteq 1..Len(w)
  BY <1>2
<1> HIDE DEF S
<1>4. IsFiniteSet(S) /\ S \subseteq Int
  BY <1>2, <1>3, PositionsAreFinite
<1>5. m \in Nat /\ first \in [1..m -> S]
  BY <1>4, InOrderIs
<1> HIDE DEF m, first
<1>6. ASSUME NEW k \in 1..m PROVE token(k) \in Seq(Chars)
  <2> DEFINE T == {Len(w) + 1} \cup After(k)
  <2>1. first[k] \in 1..Len(w)
    BY <1>3, <1>5
  <2>2. T \subseteq 1..(Len(w) + 1) /\ T # {}
    <3>1. After(k) \subseteq 1..Len(w)
      BY <1>2
    <3> HIDE DEF After
    <3> QED
      BY <1>2, <3>1
  <2> DEFINE x == Min(T)
             n == Len(w) + 1
  <2> HIDE DEF After, T
  <2>3. n \in Nat /\ T \subseteq 1..n
    BY <1>2, <2>2
  <2>4. IsFiniteSet(T) /\ T \subseteq Nat
    <3> HIDE DEF n
    <3> QED
      BY <2>3, PositionsAreFinite
  <2>5. x \in T
    BY <2>2, <2>4, MinOfNumbers
  <2> HIDE DEF x
  <2>6. x \in 1..(Len(w) + 1)
    BY <2>2, <2>5
  <2>7. x - 1 \in Nat /\ x - 1 <= Len(w) /\ first[k] \in Nat /\ first[k] >= 1
    BY <1>2, <2>1, <2>6
  <2>8. SubSeq(w, first[k], x - 1) \in Seq(Chars)
    BY <2>7, PartIs
  <2> QED
    BY <2>8 DEF x, T
<1> HIDE DEF token
<1>7. DOMAIN Tokens(w) = 1..m /\ \A k \in 1..m : Tokens(w)[k] = token(k)
  BY <1>1, <1>5
<1> QED
  BY <1>5, <1>6, <1>7

Size == Max({1, SnippetChars})

\* Where the first word of a query is that is in a text, both in lower case.
MatchAt(text, query) ==
  LET lower == LowerText(text)
      terms == Tokens(LowerText(query))
      found == {k \in DOMAIN terms : Places(lower, terms[k]) # {}}
  IN IF found = {} THEN 0 ELSE Min(Places(lower, terms[Min(found)])) - 1

LEMMA MatchIsWithin ==
  ASSUME NEW text \in Seq(Chars), NEW query \in Seq(Chars)
  PROVE  MatchAt(text, query) \in 0..Len(LowerText(text))
<1> DEFINE lower == LowerText(text)
           terms == Tokens(LowerText(query))
           found == {k \in DOMAIN terms : Places(lower, terms[k]) # {}}
<1>1. lower \in Seq(Chars) /\ Len(lower) \in Nat /\ LowerText(query) \in Seq(Chars)
  BY LowerTextIs
<1>2. PICK m \in Nat : DOMAIN terms = 1..m /\ \A k \in 1..m : terms[k] \in Seq(Chars)
  BY <1>1, TokensAre
<1>3. MatchAt(text, query) = IF found = {} THEN 0 ELSE Min(Places(lower, terms[Min(found)])) - 1
  BY Zenon DEF MatchAt
<1> HIDE DEF lower, terms
<1>4. found \subseteq 1..m /\ \A k \in found : Places(lower, terms[k]) # {}
  BY <1>2
<1> HIDE DEF found
<1>5. CASE found # {}
  <2> DEFINE k == Min(found)
             t == terms[k]
             P == Places(lower, t)
             x == Min(P)
             n == Len(lower) + 1
  <2>1. k \in found
    BY <1>4, <1>5, PositionsAreFinite, MinOfNumbers
  <2> HIDE DEF k
  <2>2. t \in Seq(Chars) /\ P # {}
    BY <1>2, <1>4, <2>1
  <2> HIDE DEF t
  <2>3. P \subseteq 1..n /\ n \in Nat
    <3>1. Len(t) \in Nat
      BY <2>2
    <3> QED
      BY <1>1, <3>1 DEF Places
  <2> HIDE DEF n, P
  <2>4. IsFiniteSet(P) /\ P \subseteq Nat
    BY <2>3, PositionsAreFinite
  <2>5. x \in P
    BY <2>2, <2>4, MinOfNumbers
  <2> HIDE DEF x
  <2>6. x \in 1..n
    BY <2>3, <2>5
  <2>7. x - 1 \in 0..Len(lower)
    BY <1>1, <2>6 DEF n
  <2>8. MatchAt(text, query) = x - 1
    BY <1>3, <1>5 DEF x, P, t, k
  <2> QED
    BY <2>7, <2>8 DEF lower
<1>6. CASE found = {}
  BY <1>1, <1>3, <1>6 DEF lower
<1> QED
  BY <1>5, <1>6

\* The window that is shown when the text is as long in lower case.
LEMMA WindowIs ==
  ASSUME NEW text \in Seq(Chars), NEW query \in Seq(Chars),
         Len(LowerText(text)) = Len(text)
  PROVE  \E from \in Nat, to \in Nat :
           /\ Snippet(text, query) = <<from, to>>
           /\ from <= to /\ to <= Len(text) /\ to - from <= Size
           /\ MatchAt(text, query) < Len(text) =>
                from <= MatchAt(text, query) /\ MatchAt(text, query) < to
<1> DEFINE at == MatchAt(text, query)
           start == Max({0, at - Size \div 2})
           end == Min({start + Size, Len(text)})
<1>1. Snippet(text, query) = IF Len(text) <= Size THEN <<0, Len(text)>> ELSE <<start, end>>
  BY Zenon DEF Snippet, MatchAt, Size
<1>2. Size \in Nat /\ Size >= 1
  <2>1. SnippetChars \in Nat
    BY LinesAssumption
  <2>2. Max({1, SnippetChars}) = IF 1 >= SnippetChars THEN 1 ELSE SnippetChars
    BY <2>1, MaxOfTwo
  <2> QED
    BY <2>1, <2>2 DEF Size
<1>3. Len(text) \in Nat /\ at \in 0..Len(text)
  BY MatchIsWithin
<1> HIDE DEF at
<1> DEFINE half == Size \div 2
<1>4. half \in Nat /\ half < Size
  BY <1>2
<1> HIDE DEF half
<1>5. start = IF 0 >= at - half THEN 0 ELSE at - half
  <2>1. start = Max({0, at - half})
    BY DEF half
  <2>2. at - half \in Int
    BY <1>3, <1>4
  <2> HIDE DEF start
  <2> QED
    BY <2>1, <2>2, MaxOfTwo
<1> HIDE DEF start
<1>6. start \in Nat /\ start <= at /\ at < start + Size
  BY <1>2, <1>3, <1>4, <1>5
<1>7. end = IF start + Size <= Len(text) THEN start + Size ELSE Len(text)
  <2>1. start + Size \in Int
    BY <1>2, <1>6
  <2> QED
    BY <1>3, <2>1, MinOfTwo
<1> HIDE DEF end
<1>8. /\ end \in Nat /\ start <= end /\ end <= Len(text) /\ end - start <= Size
      /\ at < Len(text) => at < end
  BY <1>2, <1>3, <1>6, <1>7
<1>9. CASE Len(text) <= Size
  <2>1. Snippet(text, query) = <<0, Len(text)>>
    BY <1>1, <1>9
  <2>2. 0 \in Nat /\ 0 <= Len(text) /\ Len(text) - 0 <= Size /\ 0 <= at
    BY <1>2, <1>3, <1>9
  <2> QED
    BY <1>3, <2>1, <2>2 DEF at
<1>10. CASE ~(Len(text) <= Size)
  <2>1. Snippet(text, query) = <<start, end>>
    BY <1>1, <1>10
  <2> QED
    BY <1>3, <1>6, <1>8, <2>1 DEF at
<1> QED
  BY <1>9, <1>10

\* A text that names a word has it somewhere.
LEMMA NamedOccurs ==
  ASSUME NEW text \in Seq(Chars), NEW s \in Seq(Chars), s # <<>>,
         \A k \in 1..Len(s) : s[k] \notin White, Naming(text, s) # <<>>
  PROVE  Places(text, s) # {}
<1> DEFINE naming == Naming(text, s)
           i == naming[1].line
           clean == SanitizedLines(text)[i]
           line == LinesOf(text)[i]
<1>1. 1 \in DOMAIN naming
  <2>1. PICK n \in Nat : DOMAIN naming = 1..n
    BY NamingIs
  <2>2. n = 0 => naming = <<>>
    <3>1. naming = [k \in DOMAIN naming |-> naming[k]]
      BY Zenon DEF Naming
    <3> HIDE DEF naming
    <3> QED
      BY <2>1, <3>1
  <2> HIDE DEF naming
  <2> QED
    BY <2>1, <2>2 DEF naming
<1>2. i \in 1..Len(LinesOf(text)) /\ ContainsSymbol(clean, s)
  BY <1>1, NamingIs
<1>3. PICK d \in Nat : clean = Masked(line, Mask(line, d))
  BY <1>2, SanitizedAre
<1> HIDE DEF i, naming
<1>4. /\ line \in Seq(Chars) /\ LineFrom(text, i) \in 1..(Len(text) + 1)
      /\ \A j \in 1..Len(line) : /\ LineFrom(text, i) + j - 1 \in 1..Len(text)
                                 /\ line[j] = text[LineFrom(text, i) + j - 1]
  BY <1>2, LinesAre
<1> HIDE DEF clean, line
<1> DEFINE m == Mask(line, d)
           U == Chars \cup {" "}
           a == LineFrom(text, i)
           l == Len(s)
<1>5. /\ clean \in Seq(Chars \cup {" "}) /\ m.end \in 0..Len(line) /\ Len(clean) = m.end
      /\ \A j \in 1..m.end : clean[j] = IF j \in m.kept THEN line[j] ELSE " "
  BY <1>3, <1>4, MaskedIs
<1> HIDE DEF m
<1>6. clean \in Seq(U)
  BY <1>5
<1> HIDE DEF U
<1>7. PICK p : p \in Places(clean, s)
  <2>1. PICK f : Searches(f, clean, s) /\ ContainsSymbol(clean, s) = f[1]
    BY <1>6, ContainsIs
  <2>2. f[1]
    BY <1>2, <2>1
  <2>3. 1 \in 1..(Len(clean) + 1)
    <3>1. Len(clean) \in Nat
      BY <1>6
    <3> QED
      BY <3>1
  <2>4. {q \in Places(clean, s) : q >= 1} # {}
    BY <2>1, <2>2, <2>3, Zenon DEF Searches
  <2> QED
    BY <2>4
<1>8. /\ Places(clean, s) \subseteq 1..Len(clean) /\ l \in Nat /\ l >= 1
      /\ p \in Nat /\ p >= 1 /\ p + l - 1 <= Len(clean)
      /\ \A k \in 1..l : clean[p + k - 1] = s[k]
  <2>1. /\ l \in Nat /\ l >= 1 /\ Places(clean, s) \subseteq 1..Len(clean)
        /\ \A q \in Nat : q \in Places(clean, s) <=>
              /\ q >= 1 /\ q + l - 1 <= Len(clean)
              /\ \A k \in 1..l : clean[q + k - 1] = s[k]
    BY <1>6, PlacesAre
  <2>2. p \in Nat
    BY <1>7, <2>1
  <2> QED
    BY <1>7, <2>1, <2>2
<1>9. Len(line) \in Nat /\ Len(clean) \in Nat /\ Len(clean) <= Len(line) /\ m.end = Len(clean)
  <2>1. Len(line) \in Nat
    BY <1>4
  <2>2. m.end \in 0..Len(line) /\ Len(clean) = m.end
    BY <1>5
  <2> QED
    BY <2>1, <2>2
<1>10. \A k \in 1..l : p + k - 1 \in 1..Len(line) /\ line[p + k - 1] = s[k]
  <2> SUFFICES ASSUME NEW k \in 1..l PROVE p + k - 1 \in 1..Len(line) /\ line[p + k - 1] = s[k]
    OBVIOUS
  <2> DEFINE x == p + k - 1
  <2>1. x \in 1..m.end /\ x \in 1..Len(line)
    BY <1>8, <1>9
  <2>2. clean[x] = s[k] /\ s[k] # " "
    BY <1>8 DEF White
  <2>3. clean[x] = IF x \in m.kept THEN line[x] ELSE " "
    BY <1>5, <2>1
  <2> HIDE DEF x
  <2>4. line[x] = s[k]
    BY <2>2, <2>3
  <2> QED
    BY <2>1, <2>4 DEF x
<1> DEFINE q == a + p - 1
<1>11. a \in Nat /\ a >= 1 /\ Len(text) \in Nat
  BY <1>4
<1>12. \A k \in 1..l : q + k - 1 \in 1..Len(text) /\ text[q + k - 1] = s[k]
  <2> SUFFICES ASSUME NEW k \in 1..l PROVE q + k - 1 \in 1..Len(text) /\ text[q + k - 1] = s[k]
    OBVIOUS
  <2> DEFINE x == p + k - 1
  <2>1. x \in 1..Len(line) /\ line[x] = s[k]
    BY <1>10
  <2>2. a + x - 1 \in 1..Len(text) /\ line[x] = text[a + x - 1]
    BY <1>4, <2>1
  <2>3. a + x - 1 = q + k - 1
    BY <1>8, <1>11
  <2> HIDE DEF x, q
  <2> QED
    BY <2>1, <2>2, <2>3
<1>13. q \in Nat /\ q >= 1 /\ q + l - 1 <= Len(text)
  <2>1. l \in 1..l
    BY <1>8
  <2>2. q + l - 1 \in 1..Len(text)
    BY <1>12, <2>1
  <2> QED
    BY <1>8, <1>11, <2>2
<1> HIDE DEF q
<1>14. q \in Places(text, s)
  BY <1>12, <1>13, PlacesAre
<1> QED
  BY <1>14

\* Where a text has a word, it has it in lower case, if it is as long.
LEMMA LowerOccurs ==
  ASSUME NEW text \in Seq(Chars), Len(LowerText(text)) = Len(text),
         NEW s \in Seq(Chars), s # <<>>, \A k \in 1..Len(s) : s[k] \notin White,
         NEW p \in Places(text, s)
  PROVE  /\ p \in Places(LowerText(text), LowerText(s))
         /\ LowerText(s) # <<>> /\ \A k \in 1..Len(LowerText(s)) : LowerText(s)[k] \notin White
<1> DEFINE l == Len(s)
           lower == LowerText(text)
           low == LowerText(s)
<1>1. /\ p \in Nat /\ p >= 1 /\ p + l - 1 <= Len(text) /\ l \in Nat /\ l >= 1 /\ Len(text) \in Nat
      /\ \A k \in 1..l : text[p + k - 1] = s[k]
  <2>1. l \in Nat /\ l >= 1 /\ Places(text, s) \subseteq 1..Len(text) /\ Len(text) \in Nat
    BY PlacesAre
  <2>2. p \in Nat
    BY <2>1
  <2>3. p >= 1 /\ p + l - 1 <= Len(text) /\ \A k \in 1..l : text[p + k - 1] = s[k]
    BY <2>2, PlacesAre
  <2> QED
    BY <2>1, <2>2, <2>3
<1>2. /\ lower \in Seq(Chars)
      /\ \A i \in 1..Len(text) : LowerOf(text[i]) = 1 /\ lower[i] = Lowered[text[i]][1]
  BY LowerTextIs
<1>3. \A k \in 1..l : p + k - 1 \in 1..Len(text)
  BY <1>1
<1>4. \A k \in 1..l : LowerOf(s[k]) = 1 /\ lower[p + k - 1] = Lowered[s[k]][1]
  BY <1>1, <1>2, <1>3
<1>5. low \in Seq(Chars) /\ Len(low) = l /\ \A k \in 1..l : low[k] = Lowered[s[k]][1]
  <2>1. /\ low \in Seq(Chars)
        /\ Len(low) = l <=> \A k \in 1..l : LowerOf(s[k]) = 1
        /\ Len(low) = l => \A k \in 1..l : low[k] = Lowered[s[k]][1]
    BY LowerTextIs
  <2>2. Len(low) = l
    BY <1>4, <2>1
  <2> QED
    BY <2>1, <2>2
<1>6. \A k \in 1..l : low[k] \notin White
  <2> SUFFICES ASSUME NEW k \in 1..l PROVE low[k] \notin White
    OBVIOUS
  <2>1. s[k] \in Chars /\ s[k] \notin White
    OBVIOUS
  <2>2. /\ Len(Lowered[s[k]]) >= 1 /\ Len(Lowered[s[k]]) \in Nat
        /\ \A j \in 1..Len(Lowered[s[k]]) : Lowered[s[k]][j] \notin White
    BY <2>1, LoweredIs
  <2>3. Lowered[s[k]][1] \notin White
    BY <2>2
  <2> QED
    BY <1>5, <2>3
<1> HIDE DEF low, lower, l
<1>7. low # <<>>
  BY <1>1, <1>5
<1>8. Len(lower) = Len(text)
  BY DEF lower
<1>9. p \in Places(lower, low)
  <2>1. \A k \in 1..Len(low) : lower[p + k - 1] = low[k]
    BY <1>4, <1>5
  <2>2. p >= 1 /\ p + Len(low) - 1 <= Len(lower)
    BY <1>1, <1>5, <1>8
  <2> QED
    BY <1>1, <1>2, <1>5, <1>7, <2>1, <2>2, PlacesAre
<1>10. \A k \in 1..Len(low) : low[k] \notin White
  BY <1>5, <1>6
<1> QED
  BY <1>7, <1>9, <1>10 DEF low, lower

\* The window shows the first place of a word.
LEMMA WordIsShown ==
  ASSUME NEW text \in Seq(Chars), Len(LowerText(text)) = Len(text),
         NEW s \in Seq(Chars), s # <<>>, \A k \in 1..Len(s) : s[k] \notin White,
         Places(text, s) # {}
  PROVE  \E i \in Places(LowerText(text), LowerText(s)) :
           Snippet(text, s)[1] < i /\ i <= Snippet(text, s)[2]
<1> DEFINE lower == LowerText(text)
           low == LowerText(s)
           terms == Tokens(low)
           found == {k \in DOMAIN terms : Places(lower, terms[k]) # {}}
           P == Places(lower, low)
           x == Min(P)
<1>1. P # {} /\ low # <<>> /\ \A k \in 1..Len(low) : low[k] \notin White
  BY LowerOccurs
<1>2. low \in Seq(Chars) /\ lower \in Seq(Chars) /\ Len(lower) = Len(text)
  BY LowerTextIs
<1>3. DOMAIN terms = {1} /\ terms[1] = low
  <2> HIDE DEF low
  <2> QED
    BY <1>1, <1>2, OneWord
<1>4. MatchAt(text, s) = IF found = {} THEN 0 ELSE Min(Places(lower, terms[Min(found)])) - 1
  BY Zenon DEF MatchAt
<1> HIDE DEF low, lower, terms
<1>5. found = {1}
  BY <1>1, <1>3
<1> HIDE DEF found
<1>6. Min(found) = 1
  BY <1>5 DEF Min
<1>7. MatchAt(text, s) = x - 1
  BY <1>3, <1>4, <1>5, <1>6
<1>8. P \subseteq 1..Len(lower)
  BY <1>1, <1>2, PlacesAre
<1> HIDE DEF P
<1>9. x \in P
  <2>1. P \subseteq Nat
    BY <1>8
  <2> QED
    BY <1>1, <2>1, MinOfNumbers
<1> HIDE DEF x
<1>10. x \in 1..Len(text) /\ Len(text) \in Nat
  BY <1>2, <1>8, <1>9
<1>11. PICK from \in Nat, to \in Nat :
         /\ Snippet(text, s) = <<from, to>>
         /\ MatchAt(text, s) < Len(text) => from <= MatchAt(text, s) /\ MatchAt(text, s) < to
  BY WindowIs
<1>12. from < x /\ x <= to
  BY <1>7, <1>10, <1>11
<1>13. Snippet(text, s)[1] = from /\ Snippet(text, s)[2] = to
  BY <1>11
<1> QED
  BY <1>9, <1>12, <1>13 DEF P, low, lower

\* The symbol taken from a line is a part of it.
LEMMA InferredIs ==
  ASSUME NEW line \in Seq(Chars), NEW column \in Nat
  PROVE  InferSymbol(line, column) \in Seq(Chars)
<1> DEFINE place == SymbolPlace(line, column)
<1>1. InferSymbol(line, column) =
        IF place = <<>> THEN <<>> ELSE Within(SubSeq(line, place[1], place[2]), Ident)
  BY DEF InferSymbol
<1>2. CASE place = <<>>
  BY <1>1, <1>2
<1>3. CASE place # <<>>
  <2>1. PICK a, b : place = <<a, b>> /\ IsStretch(line, a, b)
    BY <1>3, PlaceIs
  <2>2. a \in 1..Len(line) /\ b \in a..Len(line) /\ Len(line) \in Nat
    BY <2>1 DEF IsStretch
  <2> DEFINE s == Within(SubSeq(line, a, b), Ident)
  <2>3. InferSymbol(line, column) = s
    BY <1>1, <1>3, <2>1
  <2>4. CASE s # <<>>
    <3>1. Within(SubSeq(line, a, b), Ident) # <<>>
      BY <2>4
    <3>2. \E p \in a..b : \E q \in p..b :
            /\ Within(SubSeq(line, a, b), Ident) = SubSeq(line, p, q)
            /\ line[p] \in Ident /\ line[q] \in Ident
            /\ \A i \in a..b : line[i] \in Ident => p <= i /\ i <= q
      BY <2>2, <3>1, WithinIs
    <3>3. PICK p \in a..b : \E q \in p..b : s = SubSeq(line, p, q)
      BY <3>2
    <3>4. PICK q \in p..b : s = SubSeq(line, p, q)
      BY <3>3
    <3> HIDE DEF s
    <3>5. p \in Nat /\ p >= 1 /\ q \in Nat /\ q <= Len(line)
      BY <2>2
    <3> QED
      BY <2>3, <3>4, <3>5, PartIs
  <2>5. CASE s = <<>>
    BY <2>3, <2>5
  <2> HIDE DEF s
  <2> QED
    BY <2>4, <2>5
<1> QED
  BY <1>2, <1>3

\* What hover shows of a chunk.
LEMMA HoverShows ==
  ASSUME NEW text \in Seq(Chars), text # <<>>, NEW line \in Nat, NEW column \in Nat,
         NEW asked \in Seq(Chars)
  PROVE  LET at == Hovered(text, line, column, asked)
             part == at.chunk.text
         IN /\ part \in Seq(Chars)
            /\ \A i \in 1..Len(part) : \E j \in 1..Len(text) : part[i] = text[j]
            /\ at.symbol \in Seq(Chars)
            /\ at.match # "none" => at.symbol # <<>> /\ Naming(part, at.symbol) # <<>>
            /\ \E query \in Seq(Chars) : /\ at.snippet = Snippet(part, query)
                                         /\ at.symbol # <<>> => query = at.symbol
<1> DEFINE at == Hovered(text, line, column, asked)
           part == at.chunk.text
           lines == LinesOf(text)
           starts == LineStarts(text)
           row == Max({1, Min({line, Len(lines)})})
           col == Max({1, column})
           offset == OffsetForPosition(lines, starts, row, col)
           name == at.symbol
           query == IF name = <<>> THEN lines[at.row] ELSE name
           named == IF name = <<>> THEN <<>> ELSE Naming(part, name)
<1>1. /\ at.chunk = ChunkForOffset(ChunkText(text), offset)
      /\ at.match = IF named = <<>> THEN "none" ELSE named[1].kind
      /\ at.snippet = Snippet(part, query)
  BY DEF Hovered
<1>2. /\ at.row \in 1..Len(lines) /\ col \in Nat
      /\ name = IF asked # <<>> THEN asked ELSE InferSymbol(lines[at.row], col)
  <2>1. at.row \in 1..Len(LinesOf(text))
    BY HoveredIs
  <2>2. Max({1, column}) \in Nat
    BY HoveredIs
  <2>3. at.symbol = IF asked # <<>> THEN asked
                    ELSE InferSymbol(LinesOf(text)[at.row], Max({1, column}))
    BY DEF Hovered
  <2> HIDE DEF at
  <2> QED
    BY <2>1, <2>2, <2>3
<1>3. lines[at.row] \in Seq(Chars)
  BY <1>2, LinesAre
<1> HIDE DEF at, lines, col, offset
<1>4. /\ part \in Seq(Chars)
      /\ \A i \in 1..Len(part) : \E j \in 1..Len(text) : part[i] = text[j]
  BY <1>1, ChunkIs
<1>5. name \in Seq(Chars)
  <2>1. InferSymbol(lines[at.row], col) \in Seq(Chars)
    BY <1>2, <1>3, InferredIs
  <2> QED
    BY <1>2, <2>1
<1> HIDE DEF part, name
<1>6. at.match # "none" => name # <<>> /\ Naming(part, name) # <<>>
  BY <1>1
<1>7. query \in Seq(Chars) /\ (name # <<>> => query = name)
  BY <1>3, <1>5
<1> HIDE DEF query, named
<1> QED
  BY <1>1, <1>4, <1>5, <1>6, <1>7 DEF at, part, name

\* An answer to a hover is given at the end of a hover, and stays until it is delivered.
LEMMA HoverAnswers ==
  ASSUME TypeInv, [Next]_vars, call'.tool = "hover", reply'.outcome = "answered"
  PROVE  (call' = call /\ reply' = reply) \/ EndHover
<1>1. ASSUME NEW c \in Calls(tree),
             StartGet(c) \/ StartResource(c) \/ ListResources(c) \/ Locate(c) \/ Reindex(c)
      PROVE  FALSE
  <2>1. CASE StartGet(c) \/ StartResource(c)
    BY <2>1, StartsAre
  <2>2. CASE ListResources(c) \/ Locate(c)
    BY <2>2 DEF ListResources, Locate, Answers, Begins
  <2>3. CASE Reindex(c)
    <3>1. c.tool = "reindex" /\ call' = c
      BY <2>3, Zenon DEF Reindex, Answers, Begins
    <3> QED
      BY <3>1
  <2> QED
    BY <1>1, <2>1, <2>2, <2>3
<1>2. ASSUME NEW c \in Calls(tree), StartHover(c) PROVE FALSE
  <2>1. \/ reply' = NoReply
        \/ reply' = [tool |-> "hover", outcome |-> "invalid"]
        \/ \E reason : reply' = Failed(c.path, reason)
    BY <1>2, Zenon DEF StartHover
  <2> QED
    BY <2>1 DEF NoReply, Failed
<1>3. CASE Works
  <2>1. EndHover \/ Quiet(reply') \/ call.tool # "hover"
    BY <1>3, WorksShow
  <2>2. call' = call
    BY <1>3, WorksAre
  <2> QED
    BY <2>1, <2>2 DEF Quiet
<1>4. CASE Done
  BY <1>4 DEF Done, Idle, NoReply
<1>5. CASE Edit
  BY <1>5 DEF Edit
<1>6. CASE UNCHANGED vars
  BY <1>6 DEF vars
<1> QED
  BY <1>1, <1>2, <1>3, <1>4, <1>5, <1>6, Zenon DEF Next, Works

\* What a snippet shows of a match.
InView(c, r) ==
  /\ c.tool = "hover" /\ r.outcome = "answered" /\ r.at.match # "none"
  /\ Len(LowerText(r.at.chunk.text)) = Len(r.at.chunk.text) /\ ToSet(r.at.symbol) \cap White = {}
  => /\ r.at.snippet[2] - r.at.snippet[1] <= Max({1, SnippetChars})
     /\ \E i \in Places(LowerText(r.at.chunk.text), LowerText(r.at.symbol)) :
          r.at.snippet[1] < i /\ i <= r.at.snippet[2]

LEMMA ShownIsInView ==
  ASSUME TreeInv, NEW c, Asked(c), NEW r, ShownBy(c, r)
  PROVE  InView(c, r)
<1> SUFFICES ASSUME c.tool = "hover", r.outcome = "answered", r.at.match # "none",
                    Len(LowerText(r.at.chunk.text)) = Len(r.at.chunk.text),
                    ToSet(r.at.symbol) \cap White = {}
             PROVE  /\ r.at.snippet[2] - r.at.snippet[1] <= Size
                    /\ \E i \in Places(LowerText(r.at.chunk.text), LowerText(r.at.symbol)) :
                         r.at.snippet[1] < i /\ i <= r.at.snippet[2]
  BY Zenon DEF InView, Size
<1> DEFINE text == TextOf(r.read)
           at == Hovered(text, c.line, c.column, c.symbol)
           part == at.chunk.text
           s == at.symbol
<1>1. text # <<>> /\ r.at = at
  BY DEF ShownBy, HoveredBy
<1>2. text \in Seq(Chars)
  BY TextIs
<1>3. c.line \in Nat /\ c.column \in Nat /\ c.symbol \in Seq(Chars)
  BY RequestsAssumption DEF Asked, Chars
<1> HIDE DEF text
<1>4. /\ part \in Seq(Chars) /\ s \in Seq(Chars) /\ s # <<>> /\ Naming(part, s) # <<>>
      /\ at.snippet = Snippet(part, s)
  BY <1>1, <1>2, <1>3, HoverShows
<1> HIDE DEF at
<1>5. Len(LowerText(part)) = Len(part) /\ \A k \in 1..Len(s) : s[k] \notin White
  <2>1. ToSet(s) \cap White = {}
    BY <1>1
  <2> HIDE DEF s
  <2> QED
    BY <1>1, <1>4, <2>1 DEF ToSet
<1> HIDE DEF part, s
<1>6. Places(part, s) # {}
  BY <1>4, <1>5, NamedOccurs
<1>7. \E i \in Places(LowerText(part), LowerText(s)) :
        Snippet(part, s)[1] < i /\ i <= Snippet(part, s)[2]
  BY <1>4, <1>5, <1>6, WordIsShown
<1>8. Snippet(part, s)[2] - Snippet(part, s)[1] <= Size
  <2>1. PICK from \in Nat, to \in Nat : Snippet(part, s) = <<from, to>> /\ to - from <= Size
    BY <1>4, <1>5, WindowIs
  <2>2. Snippet(part, s)[1] = from /\ Snippet(part, s)[2] = to
    BY <2>1
  <2> QED
    BY <2>1, <2>2
<1> QED
  BY <1>1, <1>4, <1>7, <1>8 DEF part, s

LEMMA AlwaysInView == Spec => []InView(call, reply)
<1>1. Init => InView(call, reply)
  BY DEF Init, InView, Idle, NoReply
<1>2. ASSUME TypeInv, ShownInv, InView(call, reply), [Next]_vars PROVE InView(call, reply)'
  <2>1. CASE ~(call'.tool = "hover" /\ reply'.outcome = "answered")
    BY <2>1 DEF InView
  <2>2. CASE call'.tool = "hover" /\ reply'.outcome = "answered"
    <3>1. CASE call' = call /\ reply' = reply
      BY <1>2, <3>1
    <3>2. CASE EndHover
      <4>1. call' = call /\ call.tool = "hover" /\ call # Idle
        BY <1>2, <3>2 DEF EndHover, TypeInv, Idle
      <4>2. ShownBy(call, reply') /\ TreeInv /\ Asked(call)
        BY <1>2, <3>2, <4>1, EndHoverShows DEF TypeInv, ShownInv
      <4>3. InView(call, reply')
        BY <4>2, ShownIsInView
      <4> QED
        BY <4>1, <4>3
    <3> QED
      BY <1>2, <2>2, <3>1, <3>2, HoverAnswers
  <2> QED
    BY <2>1, <2>2
<1> QED
  BY <1>1, <1>2, AlwaysType, AlwaysShown, PTL DEF Spec

\* SnippetShowsMatch: whatever is written in the file, the snippet of a hover is a window
\* of its size that shows the word that was found; it cannot be cut out only of a text
\* that is longer in lower case.
THEOREM SnippetStaysInView == Spec => []SnippetShowsMatch
<1>1. ASSUME TypeInv, ShownInv, InView(call, reply) PROVE SnippetShowsMatch
  <2> DEFINE Grows(text) == Len(LowerText(text)) # Len(text)
  <2>1. ASSUME reply.outcome = "panicked", ~moved PROVE Grows(TextOf(reply.read))
    <3> DEFINE text == TextOf(reply.read)
               at == Hovered(text, call.line, call.column, call.symbol)
               part == at.chunk.text
    <3> SUFFICES ASSUME ~Grows(text) PROVE FALSE
      OBVIOUS
    <3>1. call.tool = "hover" /\ at.snippet[1] > at.snippet[2]
      BY <1>1, <2>1 DEF ShownInv, ShownBy, HoveredBy
    <3>2. text # <<>>
      BY <1>1, <2>1 DEF ShownInv, ShownBy
    <3>3. text \in Seq(Chars)
      BY <1>1, TextIs DEF TypeInv
    <3>4. call.line \in Nat /\ call.column \in Nat /\ call.symbol \in Seq(Chars)
      BY <1>1, <3>1, HoverArguments
    <3> HIDE DEF text
    <3>5. /\ part \in Seq(Chars)
          /\ \A i \in 1..Len(part) : \E j \in 1..Len(text) : part[i] = text[j]
          /\ \E query \in Seq(Chars) : at.snippet = Snippet(part, query)
      <4>1. LET h == Hovered(text, call.line, call.column, call.symbol)
                p == h.chunk.text
            IN /\ p \in Seq(Chars)
               /\ \A i \in 1..Len(p) : \E j \in 1..Len(text) : p[i] = text[j]
               /\ h.symbol \in Seq(Chars)
               /\ h.match # "none" => h.symbol # <<>> /\ Naming(p, h.symbol) # <<>>
               /\ \E query \in Seq(Chars) : /\ h.snippet = Snippet(p, query)
                                            /\ h.symbol # <<>> => query = h.symbol
        BY <3>2, <3>3, <3>4, HoverShows
      <4> QED
        BY <4>1, Zenon
    <3> HIDE DEF at, part
    <3>6. Len(LowerText(part)) = Len(part)
      <4>1. \A j \in 1..Len(text) : LowerOf(text[j]) = 1
        BY <3>3, LowerTextIs
      <4>2. \A i \in 1..Len(part) : LowerOf(part[i]) = 1
        BY <3>5, <4>1
      <4> QED
        BY <3>5, <4>2, LowerTextIs
    <3>7. PICK query \in Seq(Chars) : at.snippet = Snippet(part, query)
      BY <3>5
    <3>8. PICK from \in Nat, to \in Nat : Snippet(part, query) = <<from, to>> /\ from <= to
      BY <3>5, <3>6, WindowIs
    <3>9. at.snippet[1] = from /\ at.snippet[2] = to
      BY <3>7, <3>8
    <3> QED
      BY <3>1, <3>8, <3>9
  <2> QED
    BY <1>1, <2>1, Zenon DEF SnippetShowsMatch, InView, Answered
<1> QED
  BY <1>1, AlwaysType, AlwaysShown, AlwaysInView, PTL
=============================================================================
