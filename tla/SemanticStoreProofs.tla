------------------------- MODULE SemanticStoreProofs -------------------------
(***************************************************************************)
(* Theorems about the files of the semantic index for any number of        *)
(* processes, any configurations of them, every order of their reads and   *)
(* writes, every crash and every version of the corpus.                    *)
(***************************************************************************)
EXTENDS SemanticStore, TLAPS

AtMostOne(S) == \A x, y \in S : x = y

\* A process that has the directory for itself, and one of which it is also known
\* what it works with: it found files that agree, or it is building its own.
Owns(p) == Active(p) /\ (~disturbed \/ alone[p])
Sure(p) == Active(p) /\ (~disturbed \/ (alone[p] /\ mem[p].built))

Exclusive == \A p, q \in Procs : Owns(p) /\ Active(q) => p = q

Early   == {"wipe", "meta", "embed"}
Read    == {"data", "graph", "dump", "dumping", "saveMeta"}
Loaded  == {"graph", "dump", "dumping", "saveMeta", "savingMeta", "saveData",
            "savingData"}
Saving  == {"savingMeta", "saveData", "savingData"}

\* What the variables of a process hold before it has records and a graph.
LocalOf(p) ==
  /\ AtMostOne(mem[p].meta) /\ AtMostOne(mem[p].records)
  /\ pc[p] \in Early => mem[p].meta = {}
  /\ pc[p] \in Early \cup {"data", "graph"} => ~mem[p].built
  /\ pc[p] \in Early \cup {"data", "graph", "dump", "dumping"} =>
       mem[p].hnsw = {} /\ mem[p].hnswMeta = {}
  /\ pc[p] \in Read /\ mem[p].built => mem[p].meta = {}
  /\ pc[p] \in Loaded => mem[p].records # {}
  /\ pc[p] \in {"graph", "dump", "dumping"} => cfg[p].backend # "flat"

Local == AtMostOne(meta) /\ AtMostOne(data) /\ \A p \in Procs : LocalOf(p)

GraphOf(p, r) == [of |-> r, params |-> cfg[p].backend]

\* What it says of the graph it will have: nothing, or that it is of its records.
GraphFits(p) ==
  \/ mem[p].hnswMeta = {} /\ mem[p].hnsw = {}
  \/ /\ mem[p].hnswMeta = {cfg[p].backend}
     /\ \A r \in mem[p].records : \A g \in mem[p].hnsw \cup graph : g = GraphOf(p, r)

\* Do this metadata and these records describe each other, and the graph?
Describes(m, r, G) ==
  /\ m.settings = r.settings
  /\ m.count = Size(r)
  /\ m.hnsw # {} => \A g \in G : g = [of |-> r, params |-> CHOOSE h \in m.hnsw : TRUE]

Known(p) ==
  /\ ~disturbed /\ ~HalfWay(p) => Agree
  /\ pc[p] \in Read /\ ~mem[p].built =>
       /\ mem[p].meta # {} /\ mem[p].meta \subseteq meta
       /\ \A m \in mem[p].meta : m.settings = cfg[p].settings
       /\ pc[p] \in Loaded =>
            \A m \in mem[p].meta, r \in mem[p].records : m.count = Size(r)
  /\ pc[p] \in Loaded =>
       /\ \A r \in mem[p].records : r.settings = cfg[p].settings
       /\ ~mem[p].built => mem[p].records = data
  /\ pc[p] = "saveMeta" => GraphFits(p)
  /\ pc[p] \in Saving =>
       /\ \A m \in mem[p].meta, r \in mem[p].records : Describes(m, r, graph)
       /\ \A r \in mem[p].records, g \in mem[p].hnsw : g.of = r
       /\ pc[p] # "savingMeta" => meta = mem[p].meta

\* What a server says that came up on files it could trust.
Serves(p) ==
  pc[p] = "up" /\ mem[p].sound =>
    \A r \in mem[p].records :
      /\ r.settings = cfg[p].settings
      /\ \A g \in mem[p].hnsw : g.of = r

IInv ==
  /\ TypeOK
  /\ Exclusive
  /\ Local
  /\ \A p \in Procs : Sure(p) => Known(p)
  /\ DiskAgrees
  /\ \A p \in Procs : Serves(p)

-----------------------------------------------------------------------------
(* Records and variables. *)

LEMMA TornIsNone == Torn \notin Metas /\ Torn \notin Records /\ Torn \notin Graphs
<1>1. DOMAIN Torn = {"torn"}
  BY DEF Torn
<1>2. \A m \in Metas : DOMAIN m = {"settings", "count", "hnsw"}
  BY DEF Metas
<1>3. \A r \in Records : DOMAIN r = {"settings", "version"}
  BY DEF Records
<1>4. \A g \in Graphs : DOMAIN g = {"of", "params"}
  BY DEF Graphs
<1> QED
  BY <1>1, <1>2, <1>3, <1>4

-----------------------------------------------------------------------------
(* What a step leaves alone, and type correctness. *)

\* The variables of the other processes.
OthersStay(p) ==
  \A q \in Procs \ {p} : pc'[q] = pc[q] /\ cfg'[q] = cfg[q] /\ mem'[q] = mem[q]

LEMMA FreshIs == Fresh \in Variables
BY DEF Fresh, Variables

LEMMA AnyIs == AnyConfig \in Configs
BY SemanticStoreAssumption DEF AnyConfig

LEMMA ConfigIs ==
  ASSUME TypeOK, NEW p \in Procs
  PROVE  /\ cfg[p] \in Config
         /\ cfg[p].backend \in Params \cup {"flat"} /\ cfg[p].settings \in Settings
         /\ mem[p] \in Variables
         /\ NoIndex(p) \in {"embed", "off"}
BY SemanticStoreAssumption DEF TypeOK, Config, NoIndex

LEMMA SizeIs ==
  ASSUME NEW r \in Records
  PROVE  Size(r) \in Nat
BY SemanticStoreAssumption DEF Records, Size

LEMMA MoveIs ==
  ASSUME TypeOK, NEW p \in Procs, NEW x \in Points, GoTo(p, x)
  PROVE  /\ pc' \in [Procs -> Points] /\ pc'[p] = x
         /\ \A q \in Procs \ {p} : pc'[q] = pc[q]
BY DEF TypeOK, GoTo

\* A process that ends.
LEMMA GoneIs ==
  ASSUME TypeOK, NEW p \in Procs, Gone(p)
  PROVE  /\ pc' \in [Procs -> Points] /\ cfg' \in [Procs -> Configs]
         /\ mem' \in [Procs -> Variables]
         /\ pc'[p] = "down" /\ cfg'[p] = AnyConfig /\ mem'[p] = Fresh
         /\ OthersStay(p)
BY FreshIs, AnyIs DEF TypeOK, Gone, GoTo, OthersStay, Points

\* A startup that is over.
LEMMA DoneIs ==
  ASSUME TypeOK, NEW p \in Procs, Done(p)
  PROVE  /\ pc' \in [Procs -> Points] /\ cfg' \in [Procs -> Configs]
         /\ mem' \in [Procs -> Variables] /\ OthersStay(p)
         /\ disturbed' = (disturbed /\ ~(mem[p].built /\ alone[p]))
         /\ \/ pc'[p] = "down" /\ mem'[p] = Fresh
            \/ /\ pc'[p] = "up" /\ cfg'[p] = cfg[p]
               /\ mem'[p].records = mem[p].records /\ mem'[p].hnsw = mem[p].hnsw
               /\ mem'[p].meta = {}
               /\ mem'[p].sound = (alone[p] /\ ~disturbed')
<1>1. disturbed' = (disturbed /\ ~(mem[p].built /\ alone[p]))
  BY DEF Done
<1>2. CASE cfg[p].embed
  BY <1>1, <1>2, GoneIs DEF Done
<1>3. CASE ~cfg[p].embed
  <2>1. /\ GoTo(p, "up") /\ cfg' = cfg
        /\ mem' = [mem EXCEPT ![p].meta = {}, ![p].sound = alone[p] /\ ~disturbed']
    BY <1>3 DEF Done
  <2>2. "up" \in Points
    BY DEF Points
  <2>3. mem \in [Procs -> Variables] /\ {} \in SUBSET Metas
    BY DEF TypeOK
  <2>4. PICK y \in BOOLEAN :
          /\ y = (alone[p] /\ ~disturbed')
          /\ mem' = [mem EXCEPT ![p].meta = {}, ![p].sound = y]
    <3>1. (alone[p] /\ ~disturbed') \in BOOLEAN
      OBVIOUS
    <3> QED
      BY <2>1, <3>1, Zenon
  <2>5. mem' = [mem EXCEPT ![p].meta = {}, ![p].sound = y]
    BY <2>4, Zenon
  <2>6. mem' \in [Procs -> Variables] /\ \A q \in Procs \ {p} : mem'[q] = mem[q]
    BY <2>3, <2>5 DEF Variables
  <2>7. /\ pc' \in [Procs -> Points] /\ pc'[p] = "up"
        /\ \A q \in Procs \ {p} : pc'[q] = pc[q]
    BY <2>1, <2>2, MoveIs
  <2>8. /\ mem'[p].records = mem[p].records /\ mem'[p].hnsw = mem[p].hnsw
        /\ mem'[p].meta = {}
    BY <2>3, <2>5 DEF Variables
  <2>9. mem'[p].sound = y
    BY <2>3, <2>5, Zenon DEF Variables
  <2>10. cfg' \in [Procs -> Configs]
    BY <2>1 DEF TypeOK
  <2> QED
    BY <1>1, <2>1, <2>4, <2>6, <2>7, <2>8, <2>9, <2>10 DEF OthersStay
<1> QED
  BY <1>2, <1>3

Typed(p) ==
  /\ pc' \in [Procs -> Points] /\ cfg' \in [Procs -> Configs]
  /\ mem' \in [Procs -> Variables]
  /\ OthersStay(p)

\* The variables of p that a step does not touch.
KeepsGraph(p) == mem'[p].hnsw = mem[p].hnsw /\ mem'[p].hnswMeta = mem[p].hnswMeta
KeepsRecords(p) == mem'[p].records = mem[p].records /\ mem'[p].built = mem[p].built

\* A step that only moves.
LEMMA OnlyMoves ==
  ASSUME TypeOK, NEW p \in Procs, NEW x \in Points, GoTo(p, x), UNCHANGED <<cfg, mem>>
  PROVE  Typed(p) /\ pc'[p] = x /\ cfg'[p] = cfg[p] /\ mem'[p] = mem[p]
BY MoveIs DEF Typed, OthersStay, TypeOK

LEMMA ReadMetaIs ==
  ASSUME TypeOK, NEW p \in Procs, ReadMeta(p)
  PROVE  /\ Typed(p) /\ pc[p] = "meta" /\ cfg'[p] = cfg[p]
         /\ UNCHANGED <<corpus, disk, history>>
         /\ \/ /\ pc'[p] \in {"embed", "off"} /\ mem'[p] = mem[p]
               /\ \/ meta = {} \/ data = {}
                  \/ \E m \in meta \ {Torn} : m.settings # cfg[p].settings
            \/ /\ pc'[p] = "data" /\ KeepsGraph(p) /\ KeepsRecords(p)
               /\ \E m \in meta \ {Torn} :
                    mem'[p].meta = {m} /\ m.settings = cfg[p].settings
<1>1. /\ pc[p] = "meta" /\ cfg' = cfg /\ UNCHANGED <<corpus, disk, history>>
      /\ cfg' \in [Procs -> Configs] /\ mem \in [Procs -> Variables]
  BY DEF ReadMeta, TypeOK
<1>2. NoIndex(p) \in Points /\ "data" \in Points
  BY ConfigIs DEF Points
<1>3. CASE mem' = mem /\ GoTo(p, NoIndex(p))
           /\ (meta = {} \/ data = {} \/ \E m \in meta \ {Torn} : ~MetaMatches(m, cfg[p]))
  BY <1>1, <1>2, <1>3, OnlyMoves, ConfigIs DEF MetaMatches
<1>4. ASSUME NEW m \in meta \ {Torn}, MetaMatches(m, cfg[p]), GoTo(p, "data"),
             mem' = [mem EXCEPT ![p].meta = {m}]
      PROVE  /\ Typed(p) /\ pc'[p] = "data" /\ KeepsGraph(p) /\ KeepsRecords(p)
             /\ mem'[p].meta = {m} /\ m.settings = cfg[p].settings
  <2>1. m \in Metas
    BY DEF TypeOK
  <2>2. mem' \in [Procs -> Variables] /\ \A q \in Procs \ {p} : mem'[q] = mem[q]
    BY <1>1, <1>4, <2>1 DEF Variables
  <2>3. mem'[p] = [mem[p] EXCEPT !.meta = {m}] /\ mem[p] \in Variables
    BY <1>1, <1>4
  <2>4. mem'[p].meta = {m} /\ KeepsGraph(p) /\ KeepsRecords(p)
    BY <2>3 DEF Variables, KeepsGraph, KeepsRecords
  <2> QED
    BY <1>1, <1>2, <1>4, <2>2, <2>4, MoveIs DEF Typed, OthersStay, MetaMatches
<1> QED
  BY <1>1, <1>3, <1>4 DEF ReadMeta

LEMMA ReadDataIs ==
  ASSUME TypeOK, NEW p \in Procs, ReadData(p)
  PROVE  /\ Typed(p) /\ pc[p] = "data" /\ cfg'[p] = cfg[p]
         /\ UNCHANGED <<corpus, disk, history>>
         /\ KeepsGraph(p) /\ mem'[p].built = mem[p].built
         /\ \E r \in data \ {Torn} :
              \/ /\ \E m \in mem[p].meta : m.count # Size(r)
                 /\ pc'[p] \in {"embed", "off"}
                 /\ mem'[p].meta = {} /\ mem'[p].records = mem[p].records
              \/ /\ \/ pc'[p] = "graph" /\ cfg[p].backend # "flat"
                    \/ pc'[p] = "saveMeta"
                 /\ \E m \in mem[p].meta : m.count = Size(r)
                 /\ mem'[p].records = {r} /\ mem'[p].meta = mem[p].meta
<1>1. /\ pc[p] = "data" /\ cfg' = cfg /\ UNCHANGED <<corpus, disk, history>>
      /\ cfg' \in [Procs -> Configs] /\ mem \in [Procs -> Variables]
  BY DEF ReadData, TypeOK
<1>2. NoIndex(p) \in Points /\ "graph" \in Points /\ "saveMeta" \in Points
  BY ConfigIs DEF Points
<1>3. PICK r \in data \ {Torn}, m \in mem[p].meta :
        \/ /\ Size(r) # m.count
           /\ GoTo(p, NoIndex(p))
           /\ mem' = [mem EXCEPT ![p].meta = {}]
        \/ /\ Size(r) = m.count
           /\ GoTo(p, IF WantsGraph(p, {r}) THEN "graph" ELSE "saveMeta")
           /\ mem' = [mem EXCEPT ![p].records = {r}]
  BY DEF ReadData
<1>4. r \in Records /\ mem[p] \in Variables
  BY <1>1 DEF TypeOK
<1>5. CASE GoTo(p, NoIndex(p)) /\ mem' = [mem EXCEPT ![p].meta = {}] /\ Size(r) # m.count
  <2>1. mem' \in [Procs -> Variables] /\ \A q \in Procs \ {p} : mem'[q] = mem[q]
    BY <1>1, <1>5 DEF Variables
  <2>2. mem'[p] = [mem[p] EXCEPT !.meta = {}]
    BY <1>1, <1>5
  <2>3. mem'[p].meta = {} /\ KeepsGraph(p) /\ KeepsRecords(p)
    BY <1>4, <2>2 DEF Variables, KeepsGraph, KeepsRecords
  <2>4. Typed(p)
    BY <1>1, <1>2, <1>5, <2>1, MoveIs DEF Typed, OthersStay
  <2>5. pc'[p] \in {"embed", "off"}
    BY <1>2, <1>5, MoveIs, ConfigIs
  <2> QED
    BY <1>1, <1>3, <1>5, <2>3, <2>4, <2>5 DEF KeepsRecords
<1>6. CASE /\ GoTo(p, IF WantsGraph(p, {r}) THEN "graph" ELSE "saveMeta")
           /\ mem' = [mem EXCEPT ![p].records = {r}]
           /\ Size(r) = m.count
  <2>1. mem' \in [Procs -> Variables] /\ \A q \in Procs \ {p} : mem'[q] = mem[q]
    BY <1>1, <1>4, <1>6 DEF Variables
  <2>2. mem'[p] = [mem[p] EXCEPT !.records = {r}]
    BY <1>1, <1>6
  <2>3. /\ mem'[p].meta = mem[p].meta /\ mem'[p].records = {r}
        /\ KeepsGraph(p) /\ mem'[p].built = mem[p].built
    BY <1>4, <2>2 DEF Variables, KeepsGraph
  <2>4. CASE WantsGraph(p, {r})
    <3>1. GoTo(p, "graph") /\ cfg[p].backend # "flat"
      BY <1>6, <2>4 DEF WantsGraph
    <3>2. Typed(p) /\ pc'[p] = "graph"
      BY <1>1, <1>2, <2>1, <3>1, MoveIs DEF Typed, OthersStay
    <3> QED
      BY <1>1, <1>3, <1>6, <2>3, <3>1, <3>2
  <2>5. CASE ~WantsGraph(p, {r})
    <3>1. GoTo(p, "saveMeta")
      BY <1>6, <2>5
    <3>2. Typed(p) /\ pc'[p] = "saveMeta"
      BY <1>1, <1>2, <2>1, <3>1, MoveIs DEF Typed, OthersStay
    <3> QED
      BY <1>1, <1>3, <1>6, <2>3, <3>2
  <2> QED
    BY <2>4, <2>5
<1> QED
  BY <1>3, <1>5, <1>6

LEMMA BuildIs ==
  ASSUME TypeOK, NEW p \in Procs, BuildEmbeddings(p)
  PROVE  /\ Typed(p) /\ pc[p] = "embed" /\ cfg'[p] = cfg[p]
         /\ UNCHANGED <<corpus, disk, history>>
         /\ KeepsGraph(p) /\ mem'[p].meta = mem[p].meta /\ mem'[p].built
         /\ \/ pc'[p] = "dump" /\ cfg[p].backend # "flat"
            \/ pc'[p] = "saveMeta"
         /\ \E r \in Records : mem'[p].records = {r} /\ r.settings = cfg[p].settings
<1> DEFINE r == [settings |-> cfg[p].settings, version |-> corpus]
<1>1. /\ pc[p] = "embed" /\ cfg' = cfg /\ UNCHANGED <<corpus, disk, history>>
      /\ cfg' \in [Procs -> Configs] /\ mem \in [Procs -> Variables]
      /\ mem' = [mem EXCEPT ![p].records = {r}, ![p].built = TRUE]
      /\ GoTo(p, IF WantsGraph(p, {r}) THEN "dump" ELSE "saveMeta")
  BY DEF BuildEmbeddings, TypeOK
<1>2. r \in Records /\ r.settings = cfg[p].settings
  BY ConfigIs DEF Records, TypeOK
<1> HIDE DEF r
<1>3. mem' \in [Procs -> Variables] /\ \A q \in Procs \ {p} : mem'[q] = mem[q]
  BY <1>1, <1>2 DEF Variables
<1>4. /\ KeepsGraph(p) /\ mem'[p].meta = mem[p].meta /\ mem'[p].built
      /\ mem'[p].records = {r}
  BY <1>1 DEF Variables, KeepsGraph
<1>5. CASE WantsGraph(p, {r})
  <2>1. GoTo(p, "dump") /\ cfg[p].backend # "flat" /\ "dump" \in Points
    BY <1>1, <1>5 DEF WantsGraph, Points
  <2>2. Typed(p) /\ pc'[p] = "dump"
    BY <1>1, <1>3, <2>1, MoveIs DEF Typed, OthersStay
  <2> QED
    BY <1>1, <1>2, <1>4, <2>1, <2>2
<1>6. CASE ~WantsGraph(p, {r})
  <2>1. GoTo(p, "saveMeta") /\ "saveMeta" \in Points
    BY <1>1, <1>6 DEF Points
  <2>2. Typed(p) /\ pc'[p] = "saveMeta"
    BY <1>1, <1>3, <2>1, MoveIs DEF Typed, OthersStay
  <2> QED
    BY <1>1, <1>2, <1>4, <2>2
<1> QED
  BY <1>5, <1>6

LEMMA OpenGraphIs ==
  ASSUME TypeOK, NEW p \in Procs, OpenGraph(p), cfg[p].backend # "flat"
  PROVE  /\ Typed(p) /\ pc[p] = "graph" /\ cfg'[p] = cfg[p]
         /\ UNCHANGED <<corpus, disk, history>>
         /\ KeepsRecords(p) /\ mem'[p].meta = mem[p].meta
         /\ \/ /\ Trusted(p) /\ pc'[p] = "saveMeta"
               /\ mem'[p].hnsw \subseteq graph \ {Torn}
               /\ mem'[p].hnswMeta = {cfg[p].backend}
               /\ \E g \in graph : TRUE
            \/ pc'[p] \in {"dump", "saveMeta"} /\ mem'[p] = mem[p]
<1>1. /\ pc[p] = "graph" /\ cfg' = cfg /\ UNCHANGED <<corpus, disk, history>>
      /\ cfg' \in [Procs -> Configs] /\ mem \in [Procs -> Variables]
  BY DEF OpenGraph, TypeOK
<1>2. "dump" \in Points /\ "saveMeta" \in Points
  BY DEF Points
<1>3. CASE GoTo(p, IF cfg[p].build THEN "dump" ELSE "saveMeta") /\ UNCHANGED mem
  <2>1. CASE cfg[p].build
    BY <1>1, <1>2, <1>3, <2>1, OnlyMoves DEF KeepsRecords
  <2>2. CASE ~cfg[p].build
    BY <1>1, <1>2, <1>3, <2>2, OnlyMoves DEF KeepsRecords
  <2> QED
    BY <2>1, <2>2
<1>4. ASSUME NEW g \in graph \ {Torn}, NEW r \in mem[p].records, Trusted(p),
             GoTo(p, "saveMeta"),
             mem' = [mem EXCEPT ![p].hnsw = {x \in {g} : Size(x.of) = Size(r)},
                                ![p].hnswMeta = {cfg[p].backend}]
      PROVE  /\ Typed(p) /\ KeepsRecords(p) /\ mem'[p].meta = mem[p].meta
             /\ pc'[p] = "saveMeta" /\ mem'[p].hnsw \subseteq graph \ {Torn}
             /\ mem'[p].hnswMeta = {cfg[p].backend}
  <2> DEFINE G == {x \in {g} : Size(x.of) = Size(r)}
  <2>1. G \subseteq {g} /\ G \in SUBSET Graphs /\ {cfg[p].backend} \in SUBSET Params
    BY ConfigIs DEF TypeOK
  <2>2. mem' = [mem EXCEPT ![p].hnsw = G, ![p].hnswMeta = {cfg[p].backend}]
    BY <1>4
  <2> HIDE DEF G
  <2>3. mem' \in [Procs -> Variables] /\ \A q \in Procs \ {p} : mem'[q] = mem[q]
    BY <1>1, <2>1, <2>2 DEF Variables
  <2>4. /\ KeepsRecords(p) /\ mem'[p].meta = mem[p].meta
        /\ mem'[p].hnsw = G /\ mem'[p].hnswMeta = {cfg[p].backend}
    BY <1>1, <2>2 DEF Variables, KeepsRecords
  <2> QED
    BY <1>1, <1>2, <1>4, <2>1, <2>3, <2>4, MoveIs DEF Typed, OthersStay
<1> QED
  BY <1>1, <1>3, <1>4 DEF OpenGraph

LEMMA DumpGraphIs ==
  ASSUME TypeOK, NEW p \in Procs, DumpGraph(p)
  PROVE  /\ Typed(p) /\ pc[p] = "dump" /\ pc'[p] = "dumping"
         /\ cfg'[p] = cfg[p] /\ mem'[p] = mem[p] /\ graph' = {Torn}
         /\ UNCHANGED <<corpus, meta, data, history>>
<1>1. "dumping" \in Points
  BY DEF Points, Writing
<1> QED
  BY <1>1, OnlyMoves DEF DumpGraph

LEMMA GraphDumpedIs ==
  ASSUME TypeOK, NEW p \in Procs, GraphDumped(p), cfg[p].backend # "flat"
  PROVE  /\ Typed(p) /\ pc[p] = "dumping" /\ pc'[p] = "saveMeta" /\ cfg'[p] = cfg[p]
         /\ UNCHANGED <<corpus, meta, data, history>>
         /\ KeepsRecords(p) /\ mem'[p].meta = mem[p].meta
         /\ mem'[p].hnswMeta = {cfg[p].backend}
         /\ \E r \in mem[p].records :
              /\ mem'[p].hnsw = {GraphOf(p, r)} /\ GraphOf(p, r) \in Graphs
              /\ graph' \in Written(p, {GraphOf(p, r)})
<1>1. /\ pc[p] = "dumping" /\ cfg' = cfg /\ UNCHANGED <<corpus, meta, data, history>>
      /\ cfg' \in [Procs -> Configs] /\ mem \in [Procs -> Variables]
      /\ GoTo(p, "saveMeta")
  BY DEF GraphDumped, TypeOK
<1>2. PICK r \in mem[p].records :
        /\ graph' \in Written(p, {GraphOf(p, r)})
        /\ mem' = [mem EXCEPT ![p].hnsw = {GraphOf(p, r)}, ![p].hnswMeta = {cfg[p].backend}]
  BY DEF GraphDumped, GraphOf
<1>3. GraphOf(p, r) \in Graphs /\ cfg[p].backend \in Params
  BY ConfigIs DEF GraphOf, Graphs, Variables
<1> DEFINE g == GraphOf(p, r)
<1> HIDE DEF g
<1>4. mem' = [mem EXCEPT ![p].hnsw = {g}, ![p].hnswMeta = {cfg[p].backend}]
  BY <1>2 DEF g
<1>5. mem' \in [Procs -> Variables] /\ \A q \in Procs \ {p} : mem'[q] = mem[q]
  BY <1>1, <1>3, <1>4 DEF Variables, g
<1>6. /\ KeepsRecords(p) /\ mem'[p].meta = mem[p].meta
      /\ mem'[p].hnsw = {g} /\ mem'[p].hnswMeta = {cfg[p].backend}
  BY <1>1, <1>4 DEF Variables, KeepsRecords
<1>7. "saveMeta" \in Points
  BY DEF Points
<1>8. Typed(p) /\ pc'[p] = "saveMeta"
  BY <1>1, <1>5, <1>7, MoveIs DEF Typed, OthersStay
<1> QED
  BY <1>1, <1>2, <1>3, <1>6, <1>8 DEF g

LEMMA SaveMetaIs ==
  ASSUME TypeOK, NEW p \in Procs, SaveMeta(p), mem[p].records # {}
  PROVE  /\ Typed(p) /\ pc[p] = "saveMeta" /\ pc'[p] = "savingMeta"
         /\ cfg'[p] = cfg[p] /\ meta' = {Torn}
         /\ UNCHANGED <<corpus, data, graph, history>>
         /\ KeepsGraph(p) /\ KeepsRecords(p)
         /\ \E exist \in BOOLEAN, r \in mem[p].records :
              mem'[p].meta = {[settings |-> cfg[p].settings, count |-> Size(r),
                               hnsw |-> PersistedHnsw(p, exist)]}
<1>1. /\ pc[p] = "saveMeta" /\ cfg' = cfg /\ UNCHANGED <<corpus, data, graph, history>>
      /\ cfg' \in [Procs -> Configs] /\ mem \in [Procs -> Variables]
      /\ GoTo(p, "savingMeta") /\ meta' = {Torn}
  BY DEF SaveMeta, TypeOK
<1>2. PICK exist \in BOOLEAN, r \in mem[p].records :
        mem' = [mem EXCEPT ![p].meta =
                  {[settings |-> cfg[p].settings, count |-> Size(r),
                    hnsw |-> PersistedHnsw(p, exist)]}]
  BY DEF SaveMeta
<1> DEFINE m == [settings |-> cfg[p].settings, count |-> Size(r),
                 hnsw |-> PersistedHnsw(p, exist)]
<1>3. m \in Metas
  <2>1. cfg[p].settings \in Settings
    BY ConfigIs
  <2>2. mem[p].meta \subseteq Metas /\ mem[p].hnswMeta \subseteq Params
        /\ mem[p].records \subseteq Records
    BY <1>1 DEF Variables
  <2>3. Size(r) \in Nat
    BY <2>2, SizeIs
  <2>4. \A x \in mem[p].meta : x.hnsw \subseteq Params
    BY <2>2 DEF Metas
  <2>5. UNION {x.hnsw : x \in {y \in mem[p].meta : exist}} \subseteq Params
    BY <2>4
  <2>6. PersistedHnsw(p, exist) \subseteq Params
    BY <2>2, <2>5 DEF PersistedHnsw
  <2> QED
    BY <2>1, <2>3, <2>6 DEF Metas
<1> HIDE DEF m
<1>4. mem' = [mem EXCEPT ![p].meta = {m}]
  BY <1>2 DEF m
<1>5. mem' \in [Procs -> Variables] /\ \A q \in Procs \ {p} : mem'[q] = mem[q]
  BY <1>1, <1>3, <1>4 DEF Variables
<1>6. mem'[p].meta = {m} /\ KeepsGraph(p) /\ KeepsRecords(p)
  BY <1>1, <1>4 DEF Variables, KeepsGraph, KeepsRecords
<1>7. "savingMeta" \in Points
  BY DEF Points, Writing
<1>8. Typed(p) /\ pc'[p] = "savingMeta"
  BY <1>1, <1>5, <1>7, MoveIs DEF Typed, OthersStay
<1> QED
  BY <1>1, <1>6, <1>8 DEF m

\* How a startup ends.
Ends(p) ==
  /\ Typed(p)
  /\ disturbed' = (disturbed /\ ~(mem[p].built /\ alone[p]))
  /\ \/ pc'[p] = "down" /\ mem'[p] = Fresh
     \/ /\ pc'[p] = "up" /\ cfg'[p] = cfg[p]
        /\ mem'[p].records = mem[p].records /\ mem'[p].hnsw = mem[p].hnsw
        /\ mem'[p].meta = {}
        /\ mem'[p].sound = (alone[p] /\ ~disturbed')

LEMMA MetaSavedIs ==
  ASSUME TypeOK, NEW p \in Procs, MetaSaved(p)
  PROVE  /\ Typed(p) /\ pc[p] = "savingMeta"
         /\ meta' \in Written(p, mem[p].meta)
         /\ UNCHANGED <<corpus, data, graph, alone>>
         /\ \/ /\ mem[p].built /\ pc'[p] = "saveData" /\ disturbed' = disturbed
               /\ cfg'[p] = cfg[p] /\ mem'[p] = mem[p]
            \/ ~mem[p].built /\ Ends(p)
<1>1. /\ pc[p] = "savingMeta" /\ meta' \in Written(p, mem[p].meta)
      /\ UNCHANGED <<corpus, data, graph, alone>>
  BY DEF MetaSaved
<1>2. CASE mem[p].built /\ GoTo(p, "saveData") /\ UNCHANGED <<cfg, mem, disturbed>>
  <2>1. "saveData" \in Points
    BY DEF Points
  <2> QED
    BY <1>1, <1>2, <2>1, OnlyMoves
<1>3. CASE ~mem[p].built /\ Done(p)
  BY <1>1, <1>3, DoneIs DEF Typed, Ends
<1> QED
  BY <1>2, <1>3 DEF MetaSaved

LEMMA SaveDataIs ==
  ASSUME TypeOK, NEW p \in Procs, SaveData(p)
  PROVE  /\ Typed(p) /\ pc[p] = "saveData" /\ pc'[p] = "savingData"
         /\ cfg'[p] = cfg[p] /\ mem'[p] = mem[p] /\ data' = {Torn}
         /\ UNCHANGED <<corpus, meta, graph, history>>
<1>1. "savingData" \in Points
  BY DEF Points, Writing
<1> QED
  BY <1>1, OnlyMoves DEF SaveData

LEMMA DataSavedIs ==
  ASSUME TypeOK, NEW p \in Procs, DataSaved(p)
  PROVE  /\ Ends(p) /\ pc[p] = "savingData"
         /\ data' \in Written(p, mem[p].records)
         /\ UNCHANGED <<corpus, meta, graph, alone>>
BY DoneIs DEF DataSaved, Typed, Ends

LEMMA StopIs ==
  ASSUME TypeOK, NEW p \in Procs, Stop(p)
  PROVE  /\ Typed(p) /\ pc'[p] = "down" /\ mem'[p] = Fresh
         /\ disturbed' = (disturbed \/ HalfWay(p))
         /\ UNCHANGED <<corpus, disk, alone>>
BY GoneIs DEF Stop, Typed

LEMMA WipeFileIs ==
  ASSUME TypeOK, NEW p \in Procs, WipeFile(p)
  PROVE  /\ Typed(p) /\ pc[p] = "wipe" /\ UNCHANGED <<corpus, procs, history>>
         /\ meta' \subseteq meta /\ data' \subseteq data /\ graph' \subseteq graph
BY DEF WipeFile, procs, Typed, OthersStay, TypeOK

LEMMA WipedIs ==
  ASSUME TypeOK, NEW p \in Procs, Wiped(p)
  PROVE  /\ Typed(p) /\ pc[p] = "wipe" /\ pc'[p] \in {"embed", "off"}
         /\ mem'[p] = mem[p] /\ UNCHANGED <<corpus, disk, history>>
<1>1. NoIndex(p) \in {"embed", "off"} /\ "embed" \in Points /\ "off" \in Points
  BY ConfigIs DEF Points
<1>2. CASE GoTo(p, "embed")
  BY <1>1, <1>2, OnlyMoves DEF Wiped
<1>3. CASE GoTo(p, NoIndex(p))
  BY <1>1, <1>3, OnlyMoves DEF Wiped
<1> QED
  BY <1>2, <1>3 DEF Wiped

LEMMA StartIs ==
  ASSUME TypeOK, NEW p \in Procs, NEW c \in Configs, Start(p, c)
  PROVE  /\ Typed(p) /\ pc[p] = "down" /\ pc'[p] \in {"wipe", "embed", "meta"}
         /\ mem'[p] = Fresh /\ UNCHANGED <<corpus, disk>>
         /\ alone' \in [Procs -> BOOLEAN] /\ disturbed' \in BOOLEAN
         /\ alone'[p] => \A q \in Procs : ~Active(q)
         /\ \A q \in Procs \ {p} : alone'[q] => ~Active(q) /\ alone[q]
         /\ ~disturbed' => ~disturbed /\ \A q \in Procs : ~Active(q)
<1> DEFINE others == {q \in Procs : Active(q)}
<1>1. /\ pc[p] = "down"
      /\ cfg' = [cfg EXCEPT ![p] = c] /\ mem' = [mem EXCEPT ![p] = Fresh]
      /\ GoTo(p, IF c.reindex THEN "wipe" ELSE IF c.embed THEN "embed" ELSE "meta")
      /\ alone' = [q \in Procs |-> IF q = p THEN others = {} ELSE alone[q] /\ q \notin others]
      /\ disturbed' = (disturbed \/ others # {})
      /\ UNCHANGED <<corpus, disk>>
  BY DEF Start
<1>2. PICK x \in {"wipe", "embed", "meta"} : GoTo(p, x)
  <2>1. (IF c.reindex THEN "wipe" ELSE IF c.embed THEN "embed" ELSE "meta")
          \in {"wipe", "embed", "meta"}
    OBVIOUS
  <2> QED
    BY <1>1, <2>1, Zenon
<1>3. x \in Points
  BY DEF Points
<1>4. /\ pc' \in [Procs -> Points] /\ pc'[p] = x
      /\ \A q \in Procs \ {p} : pc'[q] = pc[q]
  BY <1>2, <1>3, MoveIs
<1>5. /\ cfg' \in [Procs -> Configs] /\ \A q \in Procs \ {p} : cfg'[q] = cfg[q]
      /\ mem' \in [Procs -> Variables] /\ \A q \in Procs \ {p} : mem'[q] = mem[q]
      /\ mem'[p] = Fresh
  BY <1>1, FreshIs DEF TypeOK
<1>6. alone' \in [Procs -> BOOLEAN] /\ disturbed' \in BOOLEAN
  BY <1>1
<1>7. alone'[p] => others = {}
  BY <1>1
<1>8. \A q \in Procs \ {p} : alone'[q] => ~Active(q) /\ alone[q]
  BY <1>1
<1>9. ~disturbed' => ~disturbed /\ others = {}
  BY <1>1
<1>10. others = {} => \A q \in Procs : ~Active(q)
  OBVIOUS
<1> HIDE DEF others
<1> QED
  BY <1>1, <1>4, <1>5, <1>6, <1>7, <1>8, <1>9, <1>10 DEF Typed, OthersStay

-----------------------------------------------------------------------------
(* One step of one process. *)

LEMMA AgreeIs ==
  Agree <=> \A m \in meta, r \in data : m # Torn /\ r # Torn /\ Describes(m, r, graph)
BY DEF Agree, Describes

\* The others keep what is known of them: whoever is sure is the only one there.
LEMMA OthersKnow ==
  ASSUME IInv, NEW p \in Procs, Typed(p), alone' = alone, disturbed' \in BOOLEAN,
         disturbed' \/ ~disturbed \/ Owns(p),
         Active(p) \/ (UNCHANGED disk /\ disturbed' = disturbed),
         NEW q \in Procs \ {p}, Sure(q)'
  PROVE  Known(q)'
<1>1. pc'[q] = pc[q] /\ cfg'[q] = cfg[q] /\ mem'[q] = mem[q]
  BY DEF Typed, OthersStay
<1>2. Active(q) /\ alone'[q] = alone[q]
  BY <1>1 DEF Sure, Active
<1>3. ~Owns(p)
  BY <1>2 DEF IInv, Exclusive
<1>4. Sure(q)
  BY <1>1, <1>2, <1>3 DEF Sure
<1>5. ~Active(p)
  BY <1>4 DEF Sure, Owns, IInv, Exclusive
<1>6. meta' = meta /\ data' = data /\ graph' = graph /\ disturbed' = disturbed
  BY <1>5 DEF disk
<1>7. Known(q)
  BY <1>4 DEF IInv
<1>8. Agree => Agree'
  BY <1>6, AgreeIs DEF Agree
<1>9. HalfWay(q)' <=> HalfWay(q)
  BY <1>1 DEF HalfWay, Trusted
<1>10. GraphFits(q) => GraphFits(q)'
  BY <1>1, <1>6 DEF GraphFits, GraphOf
<1> QED
  BY <1>1, <1>6, <1>7, <1>8, <1>9, <1>10 DEF Known

\* What a step of p has to show.
LEMMA StepKeeps ==
  ASSUME IInv, NEW p \in Procs, Typed(p), alone' = alone, disturbed' \in BOOLEAN,
         Active(p)' => Active(p),
         disturbed' \/ ~disturbed \/ (Owns(p) /\ ~Active(p)'),
         Active(p) \/ (UNCHANGED disk /\ disturbed' = disturbed),
         corpus' = corpus,
         meta' \subseteq Metas \cup {Torn}, data' \subseteq Records \cup {Torn},
         graph' \subseteq Graphs \cup {Torn},
         pc'[p] = "up" => mem'[p].records # {},
         pc'[p] \in {"saveData", "savingData"} => mem'[p].built,
         AtMostOne(meta'), AtMostOne(data'), LocalOf(p)',
         Sure(p)' => Known(p)',
         DiskAgrees',
         Serves(p)'
  PROVE  IInv'
<1>1. \A q \in Procs \ {p} : pc'[q] = pc[q] /\ cfg'[q] = cfg[q] /\ mem'[q] = mem[q]
  BY DEF Typed, OthersStay
<1>2. TypeOK'
  BY <1>1 DEF IInv, TypeOK, Typed
<1>3. Exclusive'
  <2>1. \A q \in Procs : Active(q)' => Active(q)
    BY <1>1 DEF Active
  <2>2. CASE disturbed' \/ ~disturbed
    <3>1. \A q \in Procs : Owns(q)' => Owns(q)
      BY <2>1, <2>2 DEF Owns
    <3> QED
      BY <2>1, <3>1 DEF IInv, Exclusive
  <2>3. CASE Owns(p) /\ ~Active(p)'
    <3>1. \A q \in Procs : ~Active(q)'
      BY <2>1, <2>3 DEF IInv, Exclusive
    <3> QED
      BY <3>1 DEF Exclusive
  <2> QED
    BY <2>2, <2>3
<1>4. Local'
  <2>1. ASSUME NEW q \in Procs \ {p} PROVE LocalOf(q)'
    BY <1>1 DEF IInv, Local, LocalOf
  <2> QED
    BY <2>1 DEF Local
<1>5. \A q \in Procs : Sure(q)' => Known(q)'
  BY OthersKnow
<1>6. \A q \in Procs : Serves(q)'
  <2>1. ASSUME NEW q \in Procs \ {p} PROVE Serves(q)'
    BY <1>1 DEF IInv, Serves
  <2> QED
    BY <2>1
<1> QED
  BY <1>2, <1>3, <1>4, <1>5, <1>6 DEF IInv

\* A step that leaves the process active: nothing is claimed of the directory at
\* rest, nor of a server.
LEMMA ActiveStepKeeps ==
  ASSUME IInv, NEW p \in Procs, Typed(p), UNCHANGED <<corpus, alone, disturbed>>,
         Active(p), Active(p)',
         meta' \subseteq Metas \cup {Torn}, data' \subseteq Records \cup {Torn},
         graph' \subseteq Graphs \cup {Torn},
         pc'[p] \in {"saveData", "savingData"} => mem'[p].built,
         AtMostOne(meta'), AtMostOne(data'), LocalOf(p)',
         Sure(p)' => Known(p)'
  PROVE  IInv'
<1>1. disturbed' \in BOOLEAN
  BY DEF IInv, TypeOK
<1>2. DiskAgrees'
  BY DEF DiskAgrees
<1>3. pc'[p] # "up" /\ Serves(p)'
  BY DEF Active, Serves
<1>4. disturbed' \/ ~disturbed
  OBVIOUS
<1> QED
  BY <1>1, <1>2, <1>3, <1>4, StepKeeps

\* A step that leaves files and history alone and stays in the startup.
LEMMA ReadStepKeeps ==
  ASSUME IInv, NEW p \in Procs, Typed(p), UNCHANGED <<corpus, disk, history>>,
         Active(p), Active(p)',
         pc'[p] \in {"saveData", "savingData"} => mem'[p].built,
         LocalOf(p)',
         Sure(p)' => Known(p)'
  PROVE  IInv'
<1>1. /\ meta' = meta /\ data' = data /\ graph' = graph
      /\ alone' = alone /\ disturbed' = disturbed
  BY DEF disk, history
<1>2. /\ meta' \subseteq Metas \cup {Torn} /\ data' \subseteq Records \cup {Torn}
      /\ graph' \subseteq Graphs \cup {Torn} /\ AtMostOne(meta') /\ AtMostOne(data')
  BY <1>1 DEF IInv, TypeOK, Local
<1> QED
  BY <1>1, <1>2, ActiveStepKeeps

LEMMA WipeFileKeeps ==
  ASSUME IInv, NEW p \in Procs, WipeFile(p)
  PROVE  IInv'
<1>1. /\ Typed(p) /\ pc[p] = "wipe" /\ UNCHANGED <<corpus, procs, history>>
      /\ meta' \subseteq meta /\ data' \subseteq data /\ graph' \subseteq graph
  BY WipeFileIs DEF IInv
<1>2. /\ pc' = pc /\ cfg' = cfg /\ mem' = mem /\ alone' = alone /\ disturbed' = disturbed
  BY <1>1 DEF procs, history
<1>3. Active(p) /\ Active(p)'
  BY <1>1, <1>2 DEF Active
<1>4. LocalOf(p)' /\ AtMostOne(meta') /\ AtMostOne(data')
  BY <1>1, <1>2 DEF IInv, Local, LocalOf, AtMostOne
<1>5. Sure(p)' => Known(p)'
  <2> SUFFICES ASSUME Sure(p)' PROVE Known(p)'
    OBVIOUS
  <2>1. Sure(p)
    BY <1>2 DEF Sure, Active
  <2>2. ~HalfWay(p)
    BY <1>1 DEF HalfWay, Writing
  <2>3. ~disturbed => Agree
    BY <2>1, <2>2 DEF IInv, Known
  <2>4. ~disturbed => Agree'
    BY <1>1, <2>3, AgreeIs DEF Agree
  <2> QED
    BY <1>1, <1>2, <2>4 DEF Known, Read, Loaded, Saving
<1> QED
  BY <1>1, <1>2, <1>3, <1>4, <1>5, ActiveStepKeeps DEF IInv, TypeOK

\* What is known at the start of a startup, and before any file is written.
LEMMA EarlyKnows ==
  ASSUME NEW p \in Procs, pc[p] \in Early, ~disturbed => Agree
  PROVE  Known(p)
BY DEF Known, Early, Read, Loaded, Saving

LEMMA WipedKeeps ==
  ASSUME IInv, NEW p \in Procs, Wiped(p)
  PROVE  IInv'
<1>1. /\ Typed(p) /\ pc[p] = "wipe" /\ pc'[p] \in {"embed", "off"}
      /\ mem'[p] = mem[p] /\ UNCHANGED <<corpus, disk, history>>
      /\ meta = {} /\ meta' = meta
  BY WipedIs DEF IInv, Wiped, disk
<1>2. Agree'
  BY <1>1 DEF Agree
<1>3. LocalOf(p)
  BY DEF IInv, Local
<1>4. CASE pc'[p] = "embed"
  <2>1. LocalOf(p)'
    BY <1>1, <1>3, <1>4 DEF LocalOf, Early, Read, Loaded
  <2>2. Known(p)'
    BY <1>2, <1>4 DEF Known, Early, Read, Loaded, Saving
  <2>3. Active(p) /\ Active(p)'
    BY <1>1, <1>4 DEF Active
  <2> QED
    BY <1>1, <1>4, <2>1, <2>2, <2>3, ReadStepKeeps
<1>5. CASE pc'[p] = "off"
  <2>1. LocalOf(p)'
    BY <1>1, <1>3, <1>5 DEF LocalOf, Early, Read, Loaded
  <2>2. Active(p) /\ ~Active(p)' /\ ~Sure(p)'
    BY <1>1, <1>5 DEF Active, Sure
  <2>3. Serves(p)' /\ DiskAgrees'
    BY <1>2, <1>5 DEF Serves, DiskAgrees
  <2> QED
    BY <1>1, <1>5, <2>1, <2>2, <2>3, StepKeeps DEF IInv, TypeOK, Local, disk, history
<1> QED
  BY <1>1, <1>4, <1>5

\* A server that goes without an index has touched nothing.
LEMMA OffKeeps ==
  ASSUME IInv, NEW p \in Procs, Typed(p), pc[p] \in {"meta", "data"}, pc'[p] = "off",
         UNCHANGED <<corpus, disk, history>>, LocalOf(p)'
  PROVE  IInv'
<1>1. /\ meta' = meta /\ data' = data /\ graph' = graph
      /\ alone' = alone /\ disturbed' = disturbed
  BY DEF disk, history
<1>2. Active(p) /\ ~Active(p)' /\ ~Sure(p)'
  BY DEF Active, Sure
<1>3. DiskAgrees'
  <2> SUFFICES ASSUME ~disturbed PROVE Agree'
    BY <1>1 DEF DiskAgrees
  <2>1. Sure(p) /\ ~HalfWay(p)
    BY <1>2 DEF Sure, HalfWay, Writing
  <2>2. Agree
    BY <2>1 DEF IInv, Known
  <2> QED
    BY <1>1, <2>2 DEF Agree
<1>4. Serves(p)'
  BY DEF Serves
<1> QED
  BY <1>1, <1>2, <1>3, <1>4, StepKeeps DEF IInv, TypeOK, Local

LEMMA ReadMetaKeeps ==
  ASSUME IInv, NEW p \in Procs, ReadMeta(p)
  PROVE  IInv'
<1>1. /\ Typed(p) /\ pc[p] = "meta" /\ cfg'[p] = cfg[p]
      /\ UNCHANGED <<corpus, disk, history>>
      /\ \/ pc'[p] \in {"embed", "off"} /\ mem'[p] = mem[p]
         \/ /\ pc'[p] = "data" /\ KeepsGraph(p) /\ KeepsRecords(p)
            /\ \E m \in meta \ {Torn} :
                 mem'[p].meta = {m} /\ m.settings = cfg[p].settings
  BY ReadMetaIs DEF IInv
<1>2. /\ meta' = meta /\ data' = data /\ graph' = graph
      /\ alone' = alone /\ disturbed' = disturbed
  BY <1>1 DEF disk, history
<1>3. LocalOf(p) /\ Active(p) /\ ~HalfWay(p)
  BY <1>1 DEF IInv, Local, Active, HalfWay, Writing
<1>4. ~disturbed => Agree'
  <2> SUFFICES ASSUME ~disturbed PROVE Agree'
    OBVIOUS
  <2>1. Agree
    BY <1>3 DEF IInv, Known, Sure
  <2> QED
    BY <1>2, <2>1 DEF Agree
<1>5. CASE pc'[p] = "off" /\ mem'[p] = mem[p]
  <2>1. LocalOf(p)'
    BY <1>1, <1>3, <1>5 DEF LocalOf, Early, Read, Loaded
  <2> QED
    BY <1>1, <1>5, <2>1, OffKeeps
<1>6. CASE pc'[p] = "embed" /\ mem'[p] = mem[p]
  <2>1. LocalOf(p)'
    BY <1>1, <1>3, <1>6 DEF LocalOf, Early, Read, Loaded
  <2>2. Known(p)'
    BY <1>2, <1>4, <1>6 DEF Known, Early, Read, Loaded, Saving
  <2>3. Active(p)'
    BY <1>6 DEF Active
  <2> QED
    BY <1>1, <1>3, <1>6, <2>1, <2>2, <2>3, ReadStepKeeps
<1>7. CASE /\ pc'[p] = "data" /\ KeepsGraph(p) /\ KeepsRecords(p)
           /\ \E m \in meta \ {Torn} :
                mem'[p].meta = {m} /\ m.settings = cfg[p].settings
  <2>1. LocalOf(p)'
    BY <1>1, <1>3, <1>7
       DEF LocalOf, Early, Read, Loaded, KeepsGraph, KeepsRecords, AtMostOne
  <2>2. Known(p)'
    BY <1>1, <1>2, <1>4, <1>7 DEF Known, Read, Loaded, Saving
  <2>3. Active(p)'
    BY <1>7 DEF Active
  <2> QED
    BY <1>1, <1>3, <1>7, <2>1, <2>2, <2>3, ReadStepKeeps
<1> QED
  BY <1>1, <1>5, <1>6, <1>7

LEMMA ReadDataKeeps ==
  ASSUME IInv, NEW p \in Procs, ReadData(p)
  PROVE  IInv'
<1>1. /\ Typed(p) /\ pc[p] = "data" /\ cfg'[p] = cfg[p]
      /\ UNCHANGED <<corpus, disk, history>>
      /\ KeepsGraph(p) /\ mem'[p].built = mem[p].built
  BY ReadDataIs DEF IInv
<1>2. PICK r \in data \ {Torn} :
        \/ /\ pc'[p] \in {"embed", "off"}
           /\ mem'[p].meta = {} /\ mem'[p].records = mem[p].records
        \/ /\ \/ pc'[p] = "graph" /\ cfg[p].backend # "flat"
              \/ pc'[p] = "saveMeta"
           /\ \E m \in mem[p].meta : m.count = Size(r)
           /\ mem'[p].records = {r} /\ mem'[p].meta = mem[p].meta
  BY ReadDataIs DEF IInv
<1>3. /\ meta' = meta /\ data' = data /\ graph' = graph
      /\ alone' = alone /\ disturbed' = disturbed
  BY <1>1 DEF disk, history
<1>4. LocalOf(p) /\ Active(p) /\ ~HalfWay(p) /\ AtMostOne(data)
  BY <1>1 DEF IInv, Local, Active, HalfWay, Writing
<1>5. ~disturbed => /\ Agree /\ Agree'
                    /\ mem[p].meta # {} /\ mem[p].meta \subseteq meta
                    /\ \A m \in mem[p].meta : m.settings = cfg[p].settings
  <2> SUFFICES ASSUME ~disturbed
               PROVE  /\ Agree /\ Agree'
                      /\ mem[p].meta # {} /\ mem[p].meta \subseteq meta
                      /\ \A m \in mem[p].meta : m.settings = cfg[p].settings
    OBVIOUS
  <2>1. Known(p)
    BY <1>4 DEF IInv, Sure
  <2>2. Agree /\ Agree'
    BY <1>3, <1>4, <2>1 DEF Known, Agree
  <2> QED
    BY <1>1, <1>4, <2>1, <2>2 DEF Known, LocalOf, Read
<1>6. CASE pc'[p] = "off" /\ mem'[p].meta = {} /\ mem'[p].records = mem[p].records
  <2>1. LocalOf(p)'
    BY <1>1, <1>4, <1>6 DEF LocalOf, Early, Read, Loaded, AtMostOne
  <2> QED
    BY <1>1, <1>6, <2>1, OffKeeps
<1>7. CASE pc'[p] = "embed" /\ mem'[p].meta = {} /\ mem'[p].records = mem[p].records
  <2>1. LocalOf(p)'
    BY <1>1, <1>4, <1>7 DEF LocalOf, Early, Read, Loaded, AtMostOne, KeepsGraph
  <2>2. Known(p)'
    BY <1>3, <1>5, <1>7 DEF Known, Early, Read, Loaded, Saving
  <2>3. Active(p)'
    BY <1>7 DEF Active
  <2> QED
    BY <1>1, <1>4, <1>7, <2>1, <2>2, <2>3, ReadStepKeeps
<1>8. CASE /\ \/ pc'[p] = "graph" /\ cfg[p].backend # "flat"
              \/ pc'[p] = "saveMeta"
           /\ \E m \in mem[p].meta : m.count = Size(r)
           /\ mem'[p].records = {r} /\ mem'[p].meta = mem[p].meta
  <2>1. LocalOf(p)'
    BY <1>1, <1>4, <1>8 DEF LocalOf, Early, Read, Loaded, AtMostOne, KeepsGraph
  <2>2. Active(p)'
    BY <1>8 DEF Active
  <2>3. Sure(p)' => Known(p)'
    <3> SUFFICES ASSUME Sure(p)' PROVE Known(p)'
      OBVIOUS
    <3>1. ~mem[p].built /\ ~disturbed
      BY <1>1, <1>3, <1>4 DEF LocalOf, Sure
    <3>2. data = {r}
      BY <1>4 DEF AtMostOne
    <3>3. r.settings = cfg[p].settings
      BY <1>5, <3>1, AgreeIs DEF Describes
    <3>4. \A m \in mem[p].meta : m.count = Size(r)
      BY <1>4, <1>8 DEF LocalOf, AtMostOne
    <3>5. mem'[p].hnsw = {} /\ mem'[p].hnswMeta = {}
      BY <1>1, <1>4 DEF LocalOf, KeepsGraph
    <3>6. GraphFits(p)'
      BY <3>5 DEF GraphFits
    <3>7. pc'[p] \notin Saving
      BY <1>8 DEF Saving
    <3> QED
      BY <1>1, <1>3, <1>5, <1>8, <3>1, <3>2, <3>3, <3>4, <3>6, <3>7 DEF Known
  <2>4. pc'[p] \notin {"saveData", "savingData"}
    BY <1>8
  <2> QED
    BY <1>1, <1>4, <2>1, <2>2, <2>3, <2>4, ReadStepKeeps
<1> QED
  BY <1>2, <1>6, <1>7, <1>8

LEMMA BuildKeeps ==
  ASSUME IInv, NEW p \in Procs, BuildEmbeddings(p)
  PROVE  IInv'
<1>1. /\ Typed(p) /\ pc[p] = "embed" /\ cfg'[p] = cfg[p]
      /\ UNCHANGED <<corpus, disk, history>>
      /\ KeepsGraph(p) /\ mem'[p].meta = mem[p].meta /\ mem'[p].built
      /\ \/ pc'[p] = "dump" /\ cfg[p].backend # "flat"
         \/ pc'[p] = "saveMeta"
  BY BuildIs DEF IInv
<1>2. PICK r \in Records : mem'[p].records = {r} /\ r.settings = cfg[p].settings
  BY BuildIs DEF IInv
<1>3. /\ meta' = meta /\ data' = data /\ graph' = graph
      /\ alone' = alone /\ disturbed' = disturbed
  BY <1>1 DEF disk, history
<1>4. LocalOf(p) /\ Active(p) /\ Active(p)' /\ ~HalfWay(p)
  BY <1>1 DEF IInv, Local, Active, HalfWay, Writing
<1>5. mem'[p].hnsw = {} /\ mem'[p].hnswMeta = {} /\ mem'[p].meta = {}
  BY <1>1, <1>4 DEF LocalOf, KeepsGraph, Early
<1>6. LocalOf(p)'
  BY <1>1, <1>2, <1>5 DEF LocalOf, Early, Read, Loaded, AtMostOne
<1>7. ~disturbed => Agree'
  <2> SUFFICES ASSUME ~disturbed PROVE Agree'
    OBVIOUS
  <2>1. Agree
    BY <1>4 DEF IInv, Known, Sure
  <2> QED
    BY <1>3, <2>1 DEF Agree
<1>8. Known(p)'
  <2>1. GraphFits(p)'
    BY <1>5 DEF GraphFits
  <2>2. pc'[p] \notin Saving
    BY <1>1 DEF Saving
  <2> QED
    BY <1>1, <1>2, <1>3, <1>7, <2>1, <2>2 DEF Known
<1> QED
  BY <1>1, <1>4, <1>6, <1>8, ReadStepKeeps

LEMMA OpenGraphKeeps ==
  ASSUME IInv, NEW p \in Procs, OpenGraph(p)
  PROVE  IInv'
<1>1. pc[p] = "graph" /\ LocalOf(p) /\ cfg[p].backend # "flat"
  BY DEF OpenGraph, IInv, Local, LocalOf
<1>2. /\ Typed(p) /\ cfg'[p] = cfg[p]
      /\ UNCHANGED <<corpus, disk, history>>
      /\ KeepsRecords(p) /\ mem'[p].meta = mem[p].meta
      /\ \/ /\ Trusted(p) /\ pc'[p] = "saveMeta"
            /\ mem'[p].hnsw \subseteq graph \ {Torn}
            /\ mem'[p].hnswMeta = {cfg[p].backend}
         \/ pc'[p] \in {"dump", "saveMeta"} /\ mem'[p] = mem[p]
  BY <1>1, OpenGraphIs DEF IInv
<1>3. /\ meta' = meta /\ data' = data /\ graph' = graph
      /\ alone' = alone /\ disturbed' = disturbed
  BY <1>2 DEF disk, history
<1>4. Active(p) /\ Active(p)' /\ ~HalfWay(p) /\ ~mem[p].built
  BY <1>1, <1>2 DEF Active, HalfWay, Writing, LocalOf
<1>5. LocalOf(p)'
  BY <1>1, <1>2 DEF LocalOf, Early, Read, Loaded, KeepsRecords
<1>6. Sure(p)' => Known(p)'
  <2> SUFFICES ASSUME Sure(p)' PROVE Known(p)'
    OBVIOUS
  <2>1. ~disturbed /\ Known(p)
    BY <1>2, <1>3, <1>4 DEF Sure, KeepsRecords, IInv
  <2>2. Agree /\ Agree'
    BY <1>3, <1>4, <2>1 DEF Known, Agree
  <2>3. /\ mem[p].meta # {} /\ mem[p].meta \subseteq meta
        /\ \A m \in mem[p].meta : m.settings = cfg[p].settings
        /\ \A m \in mem[p].meta, r \in mem[p].records : m.count = Size(r)
        /\ \A r \in mem[p].records : r.settings = cfg[p].settings
        /\ mem[p].records = data
    BY <1>1, <1>4, <2>1 DEF Known, Read, Loaded
  <2>4. GraphFits(p)'
    <3>1. CASE mem'[p] = mem[p]
      BY <1>1, <3>1 DEF LocalOf, GraphFits
    <3>2. CASE /\ Trusted(p)
               /\ mem'[p].hnsw \subseteq graph \ {Torn}
               /\ mem'[p].hnswMeta = {cfg[p].backend}
      <4>1. PICK m \in mem[p].meta : m.hnsw = {cfg[p].backend}
        BY <3>2 DEF Trusted
      <4>2. \A r \in data : Describes(m, r, graph)
        BY <2>2, <2>3, AgreeIs
      <4>3. (CHOOSE h \in m.hnsw : TRUE) = cfg[p].backend
        BY <4>1
      <4>4. \A r \in data, g \in graph : g = GraphOf(p, r)
        BY <4>1, <4>2, <4>3 DEF Describes, GraphOf
      <4>5. mem'[p].records = data
        BY <1>2, <2>3 DEF KeepsRecords
      <4>6. \A r \in data : GraphOf(p, r)' = GraphOf(p, r)
        BY <1>2 DEF GraphOf
      <4>7. \A r \in mem'[p].records, g \in mem'[p].hnsw \cup graph' : g = GraphOf(p, r)'
        BY <1>3, <3>2, <4>4, <4>5, <4>6
      <4> QED
        BY <1>2, <3>2, <4>7 DEF GraphFits
    <3> QED
      BY <1>2, <3>1, <3>2
  <2>5. pc'[p] \notin Saving
    BY <1>2 DEF Saving
  <2> QED
    BY <1>2, <1>3, <2>2, <2>3, <2>4, <2>5 DEF Known, KeepsRecords
<1>7. pc'[p] \notin {"saveData", "savingData"}
  BY <1>2
<1> QED
  BY <1>2, <1>4, <1>5, <1>6, <1>7, ReadStepKeeps

\* Whoever is sure writes without another writing the same file.
LEMMA SureIsAlone ==
  ASSUME IInv, NEW p \in Procs, Sure(p), NEW value
  PROVE  Written(p, value) = {value}
<1>1. \A q \in Procs \ {p} : ~Active(q)
  BY DEF Sure, Owns, IInv, Exclusive
<1>2. Active(p)
  BY DEF Sure
<1>3. ~Contested(p)
  BY <1>1, <1>2 DEF Contested, Active
<1> QED
  BY <1>3 DEF Written

LEMMA WrittenIs ==
  ASSUME NEW p, NEW value, NEW x \in Written(p, value)
  PROVE  x = value \/ x = {Torn}
BY DEF Written

LEMMA DumpGraphKeeps ==
  ASSUME IInv, NEW p \in Procs, DumpGraph(p)
  PROVE  IInv'
<1>1. /\ Typed(p) /\ pc[p] = "dump" /\ pc'[p] = "dumping"
      /\ cfg'[p] = cfg[p] /\ mem'[p] = mem[p] /\ graph' = {Torn}
      /\ UNCHANGED <<corpus, meta, data, history>>
  BY DumpGraphIs DEF IInv
<1>2. alone' = alone /\ disturbed' = disturbed
  BY <1>1 DEF history
<1>3. Active(p) /\ Active(p)' /\ HalfWay(p)'
  BY <1>1 DEF Active, HalfWay, Writing
<1>4. LocalOf(p)'
  BY <1>1 DEF IInv, Local, LocalOf, Early, Read, Loaded
<1>5. Sure(p)' => Known(p)'
  <2> SUFFICES ASSUME Sure(p)' PROVE Known(p)'
    OBVIOUS
  <2>1. Known(p)
    BY <1>1, <1>2, <1>3 DEF Sure, IInv
  <2> QED
    BY <1>1, <1>3, <2>1 DEF Known, Read, Loaded, Saving
<1>6. /\ meta' \subseteq Metas \cup {Torn} /\ data' \subseteq Records \cup {Torn}
      /\ graph' \subseteq Graphs \cup {Torn} /\ AtMostOne(meta') /\ AtMostOne(data')
  BY <1>1 DEF IInv, TypeOK, Local
<1> QED
  BY <1>1, <1>2, <1>3, <1>4, <1>5, <1>6, ActiveStepKeeps

LEMMA GraphDumpedKeeps ==
  ASSUME IInv, NEW p \in Procs, GraphDumped(p)
  PROVE  IInv'
<1>1. pc[p] = "dumping" /\ LocalOf(p) /\ cfg[p].backend # "flat"
  BY DEF GraphDumped, IInv, Local, LocalOf
<1>2. /\ Typed(p) /\ pc'[p] = "saveMeta" /\ cfg'[p] = cfg[p]
      /\ UNCHANGED <<corpus, meta, data, history>>
      /\ KeepsRecords(p) /\ mem'[p].meta = mem[p].meta
      /\ mem'[p].hnswMeta = {cfg[p].backend}
  BY <1>1, GraphDumpedIs DEF IInv
<1>3. PICK r \in mem[p].records :
        /\ mem'[p].hnsw = {GraphOf(p, r)} /\ GraphOf(p, r) \in Graphs
        /\ graph' \in Written(p, {GraphOf(p, r)})
  BY <1>1, GraphDumpedIs DEF IInv
<1>4. /\ meta' = meta /\ data' = data /\ alone' = alone /\ disturbed' = disturbed
  BY <1>2 DEF history
<1>5. Active(p) /\ Active(p)'
  BY <1>1, <1>2 DEF Active
<1>6. LocalOf(p)'
  BY <1>1, <1>2 DEF LocalOf, Early, Read, Loaded, KeepsRecords
<1>7. graph' = {GraphOf(p, r)} \/ graph' = {Torn}
  BY <1>3, WrittenIs
<1>8. /\ meta' \subseteq Metas \cup {Torn} /\ data' \subseteq Records \cup {Torn}
      /\ graph' \subseteq Graphs \cup {Torn} /\ AtMostOne(meta') /\ AtMostOne(data')
  BY <1>3, <1>4, <1>7 DEF IInv, TypeOK, Local
<1>9. mem[p].records = {r} /\ mem'[p].records = {r} /\ mem'[p].built = mem[p].built
  BY <1>1, <1>2 DEF LocalOf, AtMostOne, KeepsRecords
<1>10. Sure(p)' => Known(p)'
  <2> SUFFICES ASSUME Sure(p)' PROVE Known(p)'
    OBVIOUS
  <2>1. Sure(p) /\ Known(p)
    BY <1>4, <1>5, <1>9 DEF Sure, IInv
  <2>2. graph' = {GraphOf(p, r)}
    BY <1>3, <2>1, SureIsAlone
  <2>3. r.settings = cfg[p].settings /\ (~mem[p].built => data = {r})
    BY <1>1, <1>9, <2>1 DEF Known, Loaded
  <2>4. ~mem[p].built =>
          /\ mem[p].meta # {} /\ mem[p].meta \subseteq meta
          /\ \A m \in mem[p].meta : m.settings = cfg[p].settings /\ m.count = Size(r)
    BY <1>1, <1>9, <2>1 DEF Known, Read, Loaded
  <2>5. GraphOf(p, r)' = GraphOf(p, r)
    BY <1>2 DEF GraphOf
  <2>6. GraphFits(p)'
    BY <1>2, <1>3, <1>9, <2>2, <2>5 DEF GraphFits
  <2>7. ~disturbed' /\ ~HalfWay(p)' => Agree'
    <3> SUFFICES ASSUME ~HalfWay(p)' PROVE Agree'
      OBVIOUS
    <3>1. ~mem[p].built /\ Trusted(p)'
      BY <1>2, <1>3, <1>9 DEF HalfWay
    <3>2. PICK m \in mem[p].meta : m.hnsw = {cfg[p].backend}
      BY <1>2, <3>1 DEF Trusted
    <3>3. meta = {m}
      BY <2>4, <3>1 DEF IInv, Local, AtMostOne
    <3>4. m \in Metas /\ r \in Records
      BY <1>9 DEF IInv, TypeOK, Variables
    <3>5. m # Torn /\ r # Torn
      BY <3>4, TornIsNone
    <3>6. (CHOOSE h \in m.hnsw : TRUE) = cfg[p].backend
      BY <3>2
    <3>7. Describes(m, r, graph')
      BY <2>2, <2>3, <2>4, <3>1, <3>6 DEF Describes, GraphOf
    <3>8. meta' = {m} /\ data' = {r}
      BY <1>4, <2>3, <3>1, <3>3
    <3> QED
      BY <3>5, <3>7, <3>8 DEF Agree, Describes
  <2>8. pc'[p] \notin Saving
    BY <1>2 DEF Saving
  <2> QED
    BY <1>2, <1>4, <1>9, <2>3, <2>4, <2>6, <2>7, <2>8 DEF Known
<1> QED
  BY <1>2, <1>4, <1>5, <1>6, <1>8, <1>10, ActiveStepKeeps

LEMMA SaveMetaKeeps ==
  ASSUME IInv, NEW p \in Procs, SaveMeta(p)
  PROVE  IInv'
<1>1. pc[p] = "saveMeta" /\ LocalOf(p) /\ mem[p].records # {}
  BY DEF SaveMeta, IInv, Local, LocalOf, Loaded
<1>2. /\ Typed(p) /\ pc'[p] = "savingMeta" /\ cfg'[p] = cfg[p] /\ meta' = {Torn}
      /\ UNCHANGED <<corpus, data, graph, history>>
      /\ KeepsGraph(p) /\ KeepsRecords(p)
  BY <1>1, SaveMetaIs DEF IInv
<1>3. PICK exist \in BOOLEAN, r \in mem[p].records :
        mem'[p].meta = {[settings |-> cfg[p].settings, count |-> Size(r),
                         hnsw |-> PersistedHnsw(p, exist)]}
  BY <1>1, SaveMetaIs DEF IInv
<1>4. data' = data /\ graph' = graph /\ alone' = alone /\ disturbed' = disturbed
  BY <1>2 DEF history
<1>5. Active(p) /\ Active(p)' /\ HalfWay(p)'
  BY <1>1, <1>2 DEF Active, HalfWay, Writing
<1>6. LocalOf(p)'
  BY <1>1, <1>2, <1>3 DEF LocalOf, Early, Read, Loaded, KeepsRecords, AtMostOne
<1>7. /\ meta' \subseteq Metas \cup {Torn} /\ data' \subseteq Records \cup {Torn}
      /\ graph' \subseteq Graphs \cup {Torn} /\ AtMostOne(meta') /\ AtMostOne(data')
  BY <1>2, <1>4 DEF IInv, TypeOK, Local, AtMostOne
<1>8. /\ mem[p].records = {r} /\ mem'[p].records = {r}
      /\ mem'[p].built = mem[p].built /\ mem'[p].hnsw = mem[p].hnsw
  BY <1>1, <1>2 DEF LocalOf, AtMostOne, KeepsRecords, KeepsGraph
<1>9. Sure(p)' => Known(p)'
  <2> SUFFICES ASSUME Sure(p)' PROVE Known(p)'
    OBVIOUS
  <2>1. Known(p) /\ Sure(p)
    BY <1>4, <1>5, <1>8 DEF Sure, IInv
  <2>2. r.settings = cfg[p].settings /\ (~mem[p].built => data = {r})
    BY <1>1, <1>8, <2>1 DEF Known, Loaded
  <2>3. GraphFits(p)
    BY <1>1, <2>1 DEF Known
  <2> DEFINE h == PersistedHnsw(p, exist)
  <2>4. h # {} => \A g \in graph : g = [of |-> r, params |-> CHOOSE x \in h : TRUE]
    <3>1. CASE mem[p].hnswMeta # {}
      <4>1. /\ mem[p].hnswMeta = {cfg[p].backend}
            /\ \A g \in graph : g = GraphOf(p, r)
        BY <1>8, <2>3, <3>1 DEF GraphFits
      <4>2. h = {cfg[p].backend}
        BY <3>1, <4>1 DEF PersistedHnsw
      <4>3. (CHOOSE x \in h : TRUE) = cfg[p].backend
        BY <4>2
      <4> QED
        BY <4>1, <4>3 DEF GraphOf
    <3>2. CASE mem[p].hnswMeta = {} /\ mem[p].built
      <4>1. mem[p].meta = {}
        BY <1>1, <3>2 DEF LocalOf, Read
      <4>2. h = {}
        BY <3>2, <4>1 DEF PersistedHnsw
      <4> QED
        BY <4>2
    <3>3. CASE mem[p].hnswMeta = {} /\ ~mem[p].built
      <4>1. mem[p].hnsw = {} /\ ~disturbed
        BY <2>1, <2>3, <3>3 DEF GraphFits, Sure
      <4>2. ~HalfWay(p)
        BY <1>1, <4>1 DEF HalfWay, Writing
      <4>3. Agree /\ mem[p].meta \subseteq meta
        BY <1>1, <2>1, <3>3, <4>1, <4>2 DEF Known, Read
      <4>4. ASSUME h # {} PROVE \E m \in mem[p].meta : h = m.hnsw
        <5>1. h = UNION {m.hnsw : m \in {x \in mem[p].meta : exist}}
          BY <3>3, <4>4 DEF PersistedHnsw
        <5>2. PICK m \in mem[p].meta : exist
          BY <4>4, <5>1
        <5>3. {x \in mem[p].meta : exist} = {m}
          BY <1>1, <5>2 DEF LocalOf, AtMostOne
        <5>4. h = m.hnsw
          BY <5>1, <5>3
        <5> QED
          BY <5>4
      <4>5. \A m \in mem[p].meta : Describes(m, r, graph)
        BY <2>2, <3>3, <4>3, AgreeIs
      <4> HIDE DEF h
      <4> QED
        BY <4>4, <4>5 DEF Describes
    <3> QED
      BY <3>1, <3>2, <3>3
  <2>5. \A g \in mem[p].hnsw : g.of = r
    BY <1>8, <2>3 DEF GraphFits, GraphOf
  <2> HIDE DEF h
  <2>6. mem'[p].meta = {[settings |-> cfg[p].settings, count |-> Size(r), hnsw |-> h]}
    BY <1>3 DEF h
  <2>7. \A m \in mem'[p].meta : Describes(m, r, graph')
    BY <1>4, <2>2, <2>4, <2>6 DEF Describes
  <2>8. pc'[p] \notin Read
    BY <1>2 DEF Read
  <2> QED
    BY <1>2, <1>4, <1>5, <1>8, <2>2, <2>5, <2>7, <2>8 DEF Known
<1> QED
  BY <1>2, <1>4, <1>5, <1>6, <1>7, <1>9, ActiveStepKeeps

\* A startup that ends with files that agree.
LEMMA EndsKeep ==
  ASSUME IInv, NEW p \in Procs, Ends(p), pc[p] \in {"savingMeta", "savingData"},
         UNCHANGED <<corpus, graph, alone>>,
         meta' \subseteq Metas \cup {Torn}, data' \subseteq Records \cup {Torn},
         AtMostOne(meta'), AtMostOne(data'),
         ~disturbed' => Sure(p) /\ Agree'
  PROVE  IInv'
<1>1. /\ Typed(p) /\ Active(p)
      /\ disturbed' = (disturbed /\ ~(mem[p].built /\ alone[p]))
      /\ \/ pc'[p] = "down" /\ mem'[p] = Fresh
         \/ /\ pc'[p] = "up" /\ cfg'[p] = cfg[p]
            /\ mem'[p].records = mem[p].records /\ mem'[p].hnsw = mem[p].hnsw
            /\ mem'[p].meta = {}
            /\ mem'[p].sound = (alone[p] /\ ~disturbed')
  BY DEF Ends, Active
<1>2. disturbed' \in BOOLEAN
  BY <1>1
<1>3. ~Active(p)' /\ ~Sure(p)'
  BY <1>1 DEF Active, Sure
<1>4. LocalOf(p) /\ mem[p].records # {}
  BY DEF IInv, Local, LocalOf, Loaded
<1>5. LocalOf(p)'
  <2>1. CASE pc'[p] = "down" /\ mem'[p] = Fresh
    BY <2>1 DEF LocalOf, Fresh, AtMostOne, Early, Read, Loaded
  <2>2. CASE /\ pc'[p] = "up" /\ mem'[p].records = mem[p].records /\ mem'[p].meta = {}
    BY <1>4, <2>2 DEF LocalOf, AtMostOne, Early, Read, Loaded
  <2> QED
    BY <1>1, <2>1, <2>2
<1>6. disturbed' \/ ~disturbed \/ (Owns(p) /\ ~Active(p)')
  BY <1>1, <1>3 DEF Owns
<1>7. DiskAgrees'
  BY DEF DiskAgrees
<1>8. Serves(p)'
  <2> SUFFICES ASSUME pc'[p] = "up", mem'[p].sound, NEW r \in mem'[p].records
               PROVE  /\ r.settings = cfg'[p].settings
                      /\ \A g \in mem'[p].hnsw : g.of = r
    BY DEF Serves
  <2>1. ~disturbed'
    <3>1. mem'[p].sound = (alone[p] /\ ~disturbed')
      BY <1>1
    <3> QED
      BY <3>1
  <2>2. Known(p)
    BY <2>1 DEF IInv
  <2>3. /\ \A x \in mem[p].records : x.settings = cfg[p].settings
        /\ \A x \in mem[p].records, g \in mem[p].hnsw : g.of = x
    BY <2>2 DEF Known, Loaded, Saving
  <2> QED
    BY <1>1, <2>3
<1>9. pc'[p] = "up" => mem'[p].records # {}
  BY <1>1, <1>4
<1>10. pc'[p] \notin {"saveData", "savingData"}
  BY <1>1
<1>11. graph' \subseteq Graphs \cup {Torn}
  BY DEF IInv, TypeOK
<1> QED
  BY <1>1, <1>2, <1>3, <1>5, <1>6, <1>7, <1>8, <1>9, <1>10, <1>11, StepKeeps

\* What p has described and is about to have on disk agrees.
LEMMA SavedAgrees ==
  ASSUME IInv, NEW p \in Procs, Sure(p), pc[p] \in Saving,
         meta' = mem[p].meta, data' = mem[p].records, graph' = graph
  PROVE  Agree'
<1>1. Known(p)
  BY DEF IInv
<1>2. \A m \in mem[p].meta, r \in mem[p].records : Describes(m, r, graph)
  BY <1>1 DEF Known
<1>3. mem[p].meta \subseteq Metas /\ mem[p].records \subseteq Records
  BY DEF IInv, TypeOK, Variables
<1>4. \A m \in mem[p].meta, r \in mem[p].records : m # Torn /\ r # Torn
  BY <1>3, TornIsNone
<1> QED
  BY <1>2, <1>4 DEF Agree, Describes

LEMMA MetaSavedKeeps ==
  ASSUME IInv, NEW p \in Procs, MetaSaved(p)
  PROVE  IInv'
<1>1. /\ Typed(p) /\ pc[p] = "savingMeta"
      /\ meta' \in Written(p, mem[p].meta)
      /\ UNCHANGED <<corpus, data, graph, alone>>
      /\ \/ /\ mem[p].built /\ pc'[p] = "saveData" /\ disturbed' = disturbed
            /\ cfg'[p] = cfg[p] /\ mem'[p] = mem[p]
         \/ ~mem[p].built /\ Ends(p)
  BY MetaSavedIs DEF IInv
<1>2. LocalOf(p) /\ Active(p)
  BY <1>1 DEF IInv, Local, Active
<1>3. meta' = mem[p].meta \/ meta' = {Torn}
  BY <1>1, WrittenIs
<1>4. /\ meta' \subseteq Metas \cup {Torn} /\ data' \subseteq Records \cup {Torn}
      /\ graph' \subseteq Graphs \cup {Torn} /\ AtMostOne(meta') /\ AtMostOne(data')
  <2>1. mem[p].meta \subseteq Metas /\ AtMostOne(mem[p].meta)
    BY <1>2 DEF IInv, TypeOK, Variables, LocalOf
  <2> QED
    BY <1>1, <1>3, <2>1 DEF IInv, TypeOK, Local, AtMostOne
<1>5. Sure(p) => meta' = mem[p].meta
  BY <1>1, SureIsAlone
<1>6. CASE /\ mem[p].built /\ pc'[p] = "saveData" /\ disturbed' = disturbed
           /\ cfg'[p] = cfg[p] /\ mem'[p] = mem[p]
  <2>1. Active(p)' /\ HalfWay(p)'
    BY <1>6 DEF Active, HalfWay
  <2>2. LocalOf(p)'
    BY <1>1, <1>2, <1>6 DEF LocalOf, Early, Read, Loaded
  <2>3. Sure(p)' => Known(p)'
    <3> SUFFICES ASSUME Sure(p)' PROVE Known(p)'
      OBVIOUS
    <3>1. Sure(p) /\ Known(p)
      BY <1>1, <1>2, <1>6 DEF Sure, IInv
    <3>2. graph' = graph /\ data' = data
      BY <1>1
    <3> QED
      BY <1>1, <1>5, <1>6, <2>1, <3>1, <3>2 DEF Known, Read, Loaded, Saving
  <2> QED
    BY <1>1, <1>2, <1>4, <1>6, <2>1, <2>2, <2>3, ActiveStepKeeps
<1>7. CASE ~mem[p].built /\ Ends(p)
  <2>1. ~disturbed' => Sure(p)
    BY <1>2, <1>7 DEF Ends, Sure
  <2>2. ~disturbed' => Agree'
    <3> SUFFICES ASSUME ~disturbed' PROVE Agree'
      OBVIOUS
    <3>1. Sure(p) /\ Known(p)
      BY <2>1 DEF IInv
    <3>2. data' = mem[p].records
      BY <1>1, <1>7, <3>1 DEF Known, Loaded
    <3>3. pc[p] \in Saving /\ graph' = graph
      BY <1>1 DEF Saving
    <3> QED
      BY <1>5, <3>1, <3>2, <3>3, SavedAgrees
  <2> QED
    BY <1>1, <1>4, <1>7, <2>1, <2>2, EndsKeep
<1> QED
  BY <1>1, <1>6, <1>7

LEMMA SaveDataKeeps ==
  ASSUME IInv, NEW p \in Procs, SaveData(p)
  PROVE  IInv'
<1>1. /\ Typed(p) /\ pc[p] = "saveData" /\ pc'[p] = "savingData"
      /\ cfg'[p] = cfg[p] /\ mem'[p] = mem[p] /\ data' = {Torn}
      /\ UNCHANGED <<corpus, meta, graph, history>>
  BY SaveDataIs DEF IInv
<1>2. alone' = alone /\ disturbed' = disturbed
  BY <1>1 DEF history
<1>3. Active(p) /\ Active(p)' /\ HalfWay(p)' /\ mem[p].built
  BY <1>1 DEF Active, HalfWay, Writing, IInv, TypeOK
<1>4. LocalOf(p)'
  BY <1>1 DEF IInv, Local, LocalOf, Early, Read, Loaded
<1>5. Sure(p)' => Known(p)'
  <2> SUFFICES ASSUME Sure(p)' PROVE Known(p)'
    OBVIOUS
  <2>1. Known(p)
    BY <1>1, <1>2, <1>3 DEF Sure, IInv
  <2>2. graph' = graph /\ meta' = meta
    BY <1>1
  <2> QED
    BY <1>1, <1>3, <2>1, <2>2 DEF Known, Read, Loaded, Saving
<1>6. /\ meta' \subseteq Metas \cup {Torn} /\ data' \subseteq Records \cup {Torn}
      /\ graph' \subseteq Graphs \cup {Torn} /\ AtMostOne(meta') /\ AtMostOne(data')
  BY <1>1 DEF IInv, TypeOK, Local, AtMostOne
<1> QED
  BY <1>1, <1>2, <1>3, <1>4, <1>5, <1>6, ActiveStepKeeps

LEMMA DataSavedKeeps ==
  ASSUME IInv, NEW p \in Procs, DataSaved(p)
  PROVE  IInv'
<1>1. /\ Ends(p) /\ pc[p] = "savingData"
      /\ data' \in Written(p, mem[p].records)
      /\ UNCHANGED <<corpus, meta, graph, alone>>
  BY DataSavedIs DEF IInv
<1>2. LocalOf(p) /\ Active(p) /\ mem[p].built
  BY <1>1 DEF IInv, Local, Active, TypeOK
<1>3. data' = mem[p].records \/ data' = {Torn}
  BY <1>1, WrittenIs
<1>4. /\ meta' \subseteq Metas \cup {Torn} /\ data' \subseteq Records \cup {Torn}
      /\ AtMostOne(meta') /\ AtMostOne(data')
  <2>1. mem[p].records \subseteq Records /\ AtMostOne(mem[p].records)
    BY <1>2 DEF IInv, TypeOK, Variables, LocalOf
  <2> QED
    BY <1>1, <1>3, <2>1 DEF IInv, TypeOK, Local, AtMostOne
<1>5. ~disturbed' => Sure(p)
  BY <1>1, <1>2 DEF Ends, Sure
<1>6. ~disturbed' => Agree'
  <2> SUFFICES ASSUME ~disturbed' PROVE Agree'
    OBVIOUS
  <2>1. Sure(p) /\ Known(p)
    BY <1>5 DEF IInv
  <2>2. data' = mem[p].records
    BY <1>1, <2>1, SureIsAlone
  <2>3. meta' = mem[p].meta /\ pc[p] \in Saving /\ graph' = graph
    BY <1>1, <2>1 DEF Known, Saving
  <2> QED
    BY <2>1, <2>2, <2>3, SavedAgrees
<1> QED
  BY <1>1, <1>4, <1>5, <1>6, EndsKeep

LEMMA StopKeeps ==
  ASSUME IInv, NEW p \in Procs, Stop(p)
  PROVE  IInv'
<1>1. /\ Typed(p) /\ pc[p] # "down" /\ pc'[p] = "down" /\ mem'[p] = Fresh
      /\ disturbed' = (disturbed \/ HalfWay(p))
      /\ UNCHANGED <<corpus, disk, alone>>
  BY StopIs DEF IInv, Stop
<1>2. /\ meta' = meta /\ data' = data /\ graph' = graph
  BY <1>1 DEF disk
<1>3. disturbed' \in BOOLEAN
  BY <1>1 DEF IInv, TypeOK, HalfWay
<1>4. ~Active(p)' /\ ~Sure(p)'
  BY <1>1 DEF Active, Sure
<1>5. HalfWay(p) => Active(p)
  BY DEF HalfWay, Writing, Active
<1>6. Active(p) \/ (UNCHANGED disk /\ disturbed' = disturbed)
  BY <1>1, <1>5 DEF IInv, TypeOK
<1>7. LocalOf(p)'
  BY <1>1 DEF LocalOf, Fresh, AtMostOne, Early, Read, Loaded
<1>8. DiskAgrees'
  <2> SUFFICES ASSUME ~disturbed', \A q \in Procs : ~Active(q)' PROVE Agree'
    BY DEF DiskAgrees
  <2>1. ~disturbed /\ ~HalfWay(p)
    BY <1>1
  <2>2. CASE Active(p)
    <3>1. Known(p)
      BY <2>1, <2>2 DEF IInv, Sure
    <3> QED
      BY <1>2, <2>1, <3>1 DEF Known, Agree
  <2>3. CASE ~Active(p)
    <3>1. \A q \in Procs \ {p} : ~Active(q)
      BY <1>1 DEF Active, Typed, OthersStay
    <3>2. Agree
      BY <2>1, <2>3, <3>1 DEF IInv, DiskAgrees
    <3> QED
      BY <1>2, <3>2 DEF Agree
  <2> QED
    BY <2>2, <2>3
<1>9. Serves(p)'
  BY <1>1 DEF Serves
<1>10. disturbed' \/ ~disturbed
  BY <1>1
<1> QED
  BY <1>1, <1>2, <1>3, <1>4, <1>6, <1>7, <1>8, <1>9, <1>10, StepKeeps
     DEF IInv, TypeOK, Local

\* Whoever was starting is no longer alone, and the files it works with count as
\* disturbed: nothing is known of it.
LEMMA StartKeeps ==
  ASSUME IInv, NEW p \in Procs, NEW c \in Configs, Start(p, c)
  PROVE  IInv'
<1>1. /\ Typed(p) /\ pc[p] = "down" /\ pc'[p] \in {"wipe", "embed", "meta"}
      /\ mem'[p] = Fresh /\ UNCHANGED <<corpus, disk>>
      /\ alone' \in [Procs -> BOOLEAN] /\ disturbed' \in BOOLEAN
      /\ alone'[p] => \A q \in Procs : ~Active(q)
      /\ \A q \in Procs \ {p} : alone'[q] => ~Active(q) /\ alone[q]
      /\ ~disturbed' => ~disturbed /\ \A q \in Procs : ~Active(q)
  BY StartIs DEF IInv
<1>2. \A q \in Procs \ {p} : pc'[q] = pc[q] /\ cfg'[q] = cfg[q] /\ mem'[q] = mem[q]
  BY <1>1 DEF Typed, OthersStay
<1>3. meta' = meta /\ data' = data /\ graph' = graph
  BY <1>1 DEF disk
<1>4. TypeOK'
  BY <1>1, <1>2, <1>3 DEF IInv, TypeOK, Typed
<1>5. Active(p)' /\ \A q \in Procs \ {p} : Active(q)' <=> Active(q)
  BY <1>1, <1>2 DEF Active
<1>6. ASSUME NEW q \in Procs \ {p} PROVE ~Owns(q)' /\ ~Sure(q)'
  BY <1>1, <1>2, <1>5 DEF Owns, Sure
<1>7. Exclusive'
  <2> SUFFICES ASSUME NEW x \in Procs, NEW q \in Procs, Owns(x)', Active(q)' PROVE x = q
    BY DEF Exclusive
  <2>1. x = p
    BY <1>6
  <2>2. \A y \in Procs : ~Active(y)
    BY <1>1, <2>1 DEF Owns
  <2> QED
    BY <1>5, <2>1, <2>2
<1>8. Local'
  <2>1. LocalOf(p)'
    BY <1>1 DEF LocalOf, Fresh, AtMostOne, Early, Read, Loaded
  <2>2. ASSUME NEW q \in Procs \ {p} PROVE LocalOf(q)'
    BY <1>2 DEF IInv, Local, LocalOf
  <2> QED
    BY <1>3, <2>1, <2>2 DEF IInv, Local
<1>9. \A q \in Procs : Sure(q)' => Known(q)'
  <2> SUFFICES ASSUME NEW q \in Procs, Sure(q)' PROVE Known(q)'
    OBVIOUS
  <2>1. q = p
    BY <1>6
  <2>2. ~disturbed' => Agree'
    <3> SUFFICES ASSUME ~disturbed' PROVE Agree'
      OBVIOUS
    <3>1. Agree
      BY <1>1 DEF IInv, DiskAgrees
    <3> QED
      BY <1>3, <3>1 DEF Agree
  <2> QED
    BY <1>1, <2>1, <2>2 DEF Known, Read, Loaded, Saving
<1>10. DiskAgrees'
  BY <1>5 DEF DiskAgrees
<1>11. \A q \in Procs : Serves(q)'
  <2>1. Serves(p)'
    BY <1>1 DEF Serves
  <2>2. ASSUME NEW q \in Procs \ {p} PROVE Serves(q)'
    BY <1>2 DEF IInv, Serves
  <2> QED
    BY <2>1, <2>2
<1> QED
  BY <1>4, <1>7, <1>8, <1>9, <1>10, <1>11 DEF IInv

\* An edit of the corpus, or nothing, happens.
LEMMA SameKeeps ==
  ASSUME IInv, corpus' \in Versions, UNCHANGED <<disk, procs, history>>
  PROVE  IInv'
<1>1. /\ meta' = meta /\ data' = data /\ graph' = graph /\ pc' = pc /\ cfg' = cfg
      /\ mem' = mem /\ alone' = alone /\ disturbed' = disturbed
  BY DEF disk, procs, history
<1>2. TypeOK' /\ Exclusive' /\ Local' /\ \A p \in Procs : Serves(p)'
  BY <1>1 DEF IInv, TypeOK, Exclusive, Owns, Active, Local, LocalOf, Serves
<1>3. Agree => Agree'
  BY <1>1 DEF Agree
<1>4. DiskAgrees'
  BY <1>1, <1>3 DEF IInv, DiskAgrees, Active
<1>5. ASSUME NEW p \in Procs, Sure(p)' PROVE Known(p)'
  <2>1. Known(p)
    BY <1>1, <1>5 DEF IInv, Sure, Active
  <2>2. HalfWay(p)' <=> HalfWay(p)
    BY <1>1 DEF HalfWay, Trusted
  <2>3. GraphFits(p) => GraphFits(p)'
    BY <1>1 DEF GraphFits, GraphOf
  <2> QED
    BY <1>1, <1>3, <2>1, <2>2, <2>3 DEF Known
<1> QED
  BY <1>2, <1>4, <1>5 DEF IInv

-----------------------------------------------------------------------------
(* The theorems. *)

LEMMA InitInv == Init => IInv
<1> SUFFICES ASSUME Init PROVE IInv
  OBVIOUS
<1>1. /\ corpus = 1 /\ meta = {} /\ data = {} /\ graph = {}
      /\ pc = [p \in Procs |-> "down"] /\ cfg = [p \in Procs |-> AnyConfig]
      /\ mem = [p \in Procs |-> Fresh] /\ alone = [p \in Procs |-> TRUE]
      /\ disturbed = FALSE
  BY DEF Init
<1>2. TypeOK
  <2>1. corpus \in Versions
    BY <1>1, SemanticStoreAssumption DEF Versions
  <2>2. "down" \in Points
    BY DEF Points
  <2>3. /\ pc \in [Procs -> Points] /\ cfg \in [Procs -> Configs]
        /\ mem \in [Procs -> Variables] /\ alone \in [Procs -> BOOLEAN]
    BY <1>1, <2>2, FreshIs, AnyIs
  <2>4. disturbed \in BOOLEAN /\ \A p \in Procs : pc[p] = "down"
    BY <1>1
  <2> QED
    BY <1>1, <2>1, <2>3, <2>4 DEF TypeOK
<1>3. \A p \in Procs : ~Active(p)
  BY <1>1 DEF Active
<1>4. Local
  BY <1>1 DEF Local, LocalOf, AtMostOne, Fresh, Early, Read, Loaded
<1>5. DiskAgrees
  BY <1>1 DEF DiskAgrees, Agree
<1>6. \A p \in Procs : Serves(p)
  BY <1>1 DEF Serves
<1> QED
  BY <1>2, <1>3, <1>4, <1>5, <1>6 DEF IInv, Exclusive, Owns, Sure

LEMMA NextInv == IInv /\ [Next]_vars => IInv'
<1> SUFFICES ASSUME IInv, [Next]_vars PROVE IInv'
  OBVIOUS
<1>1. ASSUME NEW p \in Procs, NEW c \in Configs, Start(p, c) PROVE IInv'
  BY <1>1, StartKeeps
<1>2. ASSUME NEW p \in Procs, Step(p) PROVE IInv'
  BY <1>2, WipeFileKeeps, WipedKeeps, ReadMetaKeeps, ReadDataKeeps, BuildKeeps,
     OpenGraphKeeps, DumpGraphKeeps, GraphDumpedKeeps, SaveMetaKeeps, MetaSavedKeeps,
     SaveDataKeeps, DataSavedKeeps, StopKeeps DEF Step
<1>3. CASE EditCorpus
  <2>1. corpus' \in Versions
    BY <1>3, SemanticStoreAssumption DEF EditCorpus, Versions, IInv, TypeOK
  <2> QED
    BY <1>3, <2>1, SameKeeps DEF EditCorpus
<1>4. CASE UNCHANGED vars
  <2>1. corpus' \in Versions
    BY <1>4 DEF vars, IInv, TypeOK
  <2> QED
    BY <1>4, <2>1, SameKeeps DEF vars
<1> QED
  BY <1>1, <1>2, <1>3, <1>4 DEF Next

\* Only its own reads take a process from reading to going without an index.
LEMMA LeavesStartup ==
  ASSUME IInv, [Next]_vars, NEW p \in Procs, pc[p] \in {"meta", "data"}, pc'[p] = "off"
  PROVE  ReadMeta(p) \/ ReadData(p)
<1>1. ASSUME NEW q \in Procs, Step(q) PROVE Typed(q)
  <2>1. TypeOK /\ LocalOf(q)
    BY DEF IInv, Local
  <2>2. CASE OpenGraph(q) \/ GraphDumped(q)
    <3>1. cfg[q].backend # "flat"
      BY <2>1, <2>2 DEF LocalOf, OpenGraph, GraphDumped
    <3> QED
      BY <2>1, <2>2, <3>1, OpenGraphIs, GraphDumpedIs
  <2>3. CASE SaveMeta(q)
    <3>1. mem[q].records # {}
      BY <2>1, <2>3 DEF LocalOf, SaveMeta, Loaded
    <3> QED
      BY <2>1, <2>3, <3>1, SaveMetaIs
  <2> QED
    BY <1>1, <2>1, <2>2, <2>3, WipeFileIs, WipedIs, ReadMetaIs, ReadDataIs, BuildIs,
       DumpGraphIs, MetaSavedIs, SaveDataIs, DataSavedIs, StopIs DEF Step, Ends
<1>2. ASSUME NEW q \in Procs, Step(q) PROVE q = p
  BY <1>1, <1>2 DEF Typed, OthersStay
<1>3. ASSUME NEW q \in Procs, NEW c \in Configs, Start(q, c) PROVE FALSE
  <2>1. Typed(q) /\ pc'[q] # "off"
    BY <1>3, StartIs DEF IInv
  <2> QED
    BY <2>1 DEF Typed, OthersStay
<1>4. CASE EditCorpus \/ UNCHANGED vars
  BY <1>4 DEF EditCorpus, vars, procs
<1>5. CASE Step(p)
  <2>1. ~Stop(p)
    BY StopIs DEF IInv
  <2>2. ~WipeFile(p) /\ ~Wiped(p) /\ ~BuildEmbeddings(p) /\ ~OpenGraph(p)
        /\ ~DumpGraph(p) /\ ~GraphDumped(p) /\ ~SaveMeta(p) /\ ~MetaSaved(p)
        /\ ~SaveData(p) /\ ~DataSaved(p)
    BY DEF WipeFile, Wiped, BuildEmbeddings, OpenGraph, DumpGraph, GraphDumped, SaveMeta,
           MetaSaved, SaveData, DataSaved
  <2> QED
    BY <1>5, <2>1, <2>2 DEF Step
<1> QED
  BY <1>2, <1>3, <1>4, <1>5 DEF Next

LEMMA Invariance == Spec => []IInv
BY InitInv, NextInv, PTL DEF Spec

\* TypeOK: files, processes and their variables stay what they are.
THEOREM TypeCorrect == Spec => []TypeOK
<1>1. IInv => TypeOK
  BY DEF IInv
<1> QED
  BY <1>1, Invariance, PTL

\* DiskAgrees: between processes the three files describe each other, unless one
\* died among its writes or two overlapped since the last complete build.
THEOREM FilesAgree == Spec => []DiskAgrees
<1>1. IInv => DiskAgrees
  BY DEF IInv
<1> QED
  BY <1>1, Invariance, PTL

\* ServesAsConfigured: a server that came up on such files searches embeddings
\* of its own settings, with a graph of these very embeddings.
THEOREM ServersServeTheirOwn == Spec => []ServesAsConfigured
<1>1. IInv => ServesAsConfigured
  BY DEF IInv, Serves, ServesAsConfigured
<1> QED
  BY <1>1, Invariance, PTL

\* PreparedIsServed: a server alone with files nobody disturbed goes without
\* semantic search only if there is no index of its settings.
THEOREM PreparedIndexIsServed == Spec => PreparedIsServed
<1>1. ASSUME IInv, [Next]_vars, NEW p \in Procs, pc[p] \in {"meta", "data"},
             pc'[p] = "off", alone[p], ~disturbed
      PROVE  meta = {} \/ \A r \in data : r.settings # cfg[p].settings
  <2>1. Sure(p) /\ ~HalfWay(p)
    BY <1>1 DEF Sure, Active, HalfWay, Writing
  <2>2. Known(p)
    BY <1>1, <2>1 DEF IInv
  <2>3. Agree
    BY <1>1, <2>1, <2>2 DEF Known
  <2>4. CASE ReadMeta(p)
    <3>1. meta = {} \/ data = {} \/ \E m \in meta \ {Torn} : m.settings # cfg[p].settings
      BY <1>1, <2>4, ReadMetaIs DEF IInv
    <3> QED
      BY <2>3, <3>1, AgreeIs DEF Describes
  <2>5. CASE ReadData(p)
    <3>1. PICK r \in data \ {Torn}, m \in mem[p].meta : m.count # Size(r)
      BY <1>1, <2>5, ReadDataIs DEF IInv
    <3>2. m \in meta
      <4>1. pc[p] = "data" /\ ~mem[p].built
        BY <1>1, <2>5 DEF ReadData, IInv, Local, LocalOf
      <4> QED
        BY <2>2, <3>1, <4>1 DEF Known, Read
    <3> QED
      BY <2>3, <3>1, <3>2, AgreeIs DEF Describes
  <2>6. ReadMeta(p) \/ ReadData(p)
    BY <1>1, LeavesStartup
  <2> QED
    BY <2>4, <2>5, <2>6
<1> DEFINE Prepared ==
      \A p \in Procs :
        /\ pc[p] \in {"meta", "data"} /\ pc'[p] = "off"
        /\ alone[p] /\ ~disturbed
        => meta = {} \/ \A r \in data : r.settings # cfg[p].settings
<1>2. ASSUME IInv, [Next]_vars PROVE [Prepared]_vars
  BY <1>1, <1>2
<1> QED
  BY <1>2, Invariance, PTL DEF Spec, PreparedIsServed
=============================================================================
