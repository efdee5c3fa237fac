---------------------------- MODULE SemanticStore ----------------------------
(***************************************************************************)
(* The files of the semantic index and the processes that read and write   *)
(* them: servers, which open the index or build it at startup              *)
(* (SemanticIndex::open_or_build in src/src/search/runtime.rs), and runs   *)
(* of spark-embed, which always build it (build_only).                     *)
(*                                                                         *)
(* The index is three files written one after the other, the graph of the  *)
(* nearest-neighbour search, meta.json and embeddings.bin; a file that is  *)
(* being written, or whose writer has died, is torn.  Nothing keeps two    *)
(* processes from using the directory together.                            *)
(*                                                                         *)
(* Embeddings are told apart by the settings and by the version of the     *)
(* corpus they were computed from.                                         *)
(***************************************************************************)
EXTENDS Naturals

CONSTANTS
  Procs,        \* processes: a server or a spark-embed, restarted at will
  Settings,     \* what meta_matches compares: model, chunks, file size
  Params,       \* parameters of the HNSW backend
  MaxVersion,   \* bound on the versions of the corpus
  Count,        \* how many chunks a corpus has: depends on the settings too
  Configs       \* the configurations a process can be started with

Versions == 1..MaxVersion

Records == [settings : Settings, version : Versions]
Torn    == [torn |-> TRUE]
Metas   == [settings : Settings, count : Nat, hnsw : SUBSET Params]
Graphs  == [of : Records, params : Params]
Config  == [embed : BOOLEAN, settings : Settings, backend : Params \cup {"flat"},
            reindex : BOOLEAN, build : BOOLEAN]

ASSUME SemanticStoreAssumption ==
  /\ MaxVersion \in Nat \ {0}
  /\ Count \in [Settings -> [Versions -> Nat]]
  /\ "flat" \notin Params
  /\ Configs \subseteq Config /\ Configs # {}

VARIABLES
  corpus,     \* version of the files on disk
  meta,       \* meta.json: no element, a description, or Torn
  data,       \* embeddings.bin: no element, embeddings, or Torn
  graph,      \* the files of the graph: no element, a graph, or Torn
  pc,         \* where each process is
  cfg,        \* the configuration it was started with
  mem,        \* its variables: meta, records, built, hnsw, hnswMeta
  alone,      \* history: has no other process been starting meanwhile?
  disturbed   \* history: overlapping or interrupted writes since a build

disk    == <<meta, data, graph>>
procs   == <<pc, cfg, mem>>
history == <<alone, disturbed>>
vars    == <<corpus, disk, procs, history>>

\* The variables of a process that starts.
Fresh == [meta |-> {}, records |-> {}, built |-> FALSE,
          hnsw |-> {}, hnswMeta |-> {}, sound |-> FALSE]

Variables ==
  [meta : SUBSET Metas, records : SUBSET Records, built : BOOLEAN,
   hnsw : SUBSET Graphs, hnswMeta : SUBSET Params, sound : BOOLEAN]

Writing == {"dumping", "savingMeta", "savingData"}
Points  == {"down", "wipe", "meta", "data", "embed", "graph", "dump", "saveMeta",
            "saveData", "up", "off"} \cup Writing

TypeOK ==
  /\ corpus \in Versions
  /\ meta \subseteq Metas \cup {Torn}
  /\ data \subseteq Records \cup {Torn}
  /\ graph \subseteq Graphs \cup {Torn}
  /\ pc \in [Procs -> Points]
  /\ cfg \in [Procs -> Configs]
  /\ mem \in [Procs -> Variables]
  /\ \A p \in Procs :
       /\ pc[p] = "up" => mem[p].records # {}
       /\ pc[p] \in {"saveData", "savingData"} => mem[p].built
  /\ alone \in [Procs -> BOOLEAN]
  /\ disturbed \in BOOLEAN

AnyConfig == CHOOSE c \in Configs : TRUE

Init ==
  /\ corpus = 1
  /\ meta = {}
  /\ data = {}
  /\ graph = {}
  /\ pc = [p \in Procs |-> "down"]
  /\ cfg = [p \in Procs |-> AnyConfig]
  /\ mem = [p \in Procs |-> Fresh]
  /\ alone = [p \in Procs |-> TRUE]
  /\ disturbed = FALSE

-----------------------------------------------------------------------------
(* What the code asks of the files. *)

Size(r) == Count[r.settings][r.version]

Active(p) == pc[p] \notin {"down", "up", "off"}

GoTo(p, point) == pc' = [pc EXCEPT ![p] = point]

\* The process and its variables are gone.
Gone(p) ==
  /\ GoTo(p, "down")
  /\ cfg' = [cfg EXCEPT ![p] = AnyConfig]
  /\ mem' = [mem EXCEPT ![p] = Fresh]

\* Mutant: an index of the other backend is stale.
MetaMatchesBackend(m, c) ==
  m.settings = c.settings /\ (c.backend = "flat" <=> m.hnsw = {})

MetaMatches(m, c) == m.settings = c.settings

\* hnsw_files_exist: of a torn graph one of the two files may be missing.
FilesExist(answer) ==
  answer \in (IF graph = {} THEN {FALSE}
              ELSE IF graph = {Torn} THEN BOOLEAN ELSE {TRUE})

\* Mutant: the server comes up with what it has.
NoIndexUp(p) == IF cfg[p].build THEN "embed" ELSE "up"

\* Where the process goes when its index is missing or stale.
NoIndex(p) == IF cfg[p].build THEN "embed" ELSE "off"

\* Is there a graph to be had for these records?
WantsGraph(p, records) ==
  cfg[p].backend # "flat" /\ \E r \in records : Size(r) # 0

\* hnsw_meta of build_only; persisted_hnsw of open_or_build.
PersistedHnsw(p, exist) ==
  IF cfg[p].embed \/ mem[p].hnswMeta # {} THEN mem[p].hnswMeta
  ELSE UNION {m.hnsw : m \in {x \in mem[p].meta : exist}}

-----------------------------------------------------------------------------
(* Startup up to the records. *)

Start(p, c) ==
  /\ pc[p] = "down"
  /\ cfg' = [cfg EXCEPT ![p] = c]
  /\ mem' = [mem EXCEPT ![p] = Fresh]
  /\ GoTo(p, IF c.reindex THEN "wipe" ELSE IF c.embed THEN "embed" ELSE "meta")
  /\ LET others == {q \in Procs : Active(q)} IN
     /\ alone' = [q \in Procs |->
                    IF q = p THEN others = {}
                    ELSE alone[q] /\ q \notin others]
     /\ disturbed' = (disturbed \/ others # {})
  /\ UNCHANGED <<corpus, disk>>

\* remove_dir_all takes the files one by one, in any order.
WipeFile(p) ==
  /\ pc[p] = "wipe"
  /\ \/ meta # {}  /\ meta' = {}  /\ UNCHANGED <<data, graph>>
     \/ data # {}  /\ data' = {}  /\ UNCHANGED <<meta, graph>>
     \/ graph # {} /\ graph' = {} /\ UNCHANGED <<meta, data>>
  /\ UNCHANGED <<corpus, procs, history>>

Wiped(p) ==
  /\ pc[p] = "wipe"
  /\ meta = {} /\ data = {} /\ graph = {}
  /\ GoTo(p, IF cfg[p].embed THEN "embed" ELSE NoIndex(p))
  /\ UNCHANGED <<corpus, disk, cfg, mem, history>>

ReadMeta(p) ==
  /\ pc[p] = "meta"
  /\ \/ /\ meta = {} \/ data = {} \/ \E m \in meta \ {Torn} : ~MetaMatches(m, cfg[p])
        /\ GoTo(p, NoIndex(p))
        /\ UNCHANGED mem
     \/ /\ data # {}
        /\ \E m \in meta \ {Torn} :
             /\ MetaMatches(m, cfg[p])
             /\ mem' = [mem EXCEPT ![p].meta = {m}]
        /\ GoTo(p, "data")
  /\ UNCHANGED <<corpus, disk, cfg, history>>

\* Mutant: metadata of another count is kept.
ReadDataKeepsMeta(p) ==
  /\ pc[p] = "data"
  /\ \E r \in data \ {Torn}, m \in mem[p].meta :
       \/ /\ Size(r) # m.count
          /\ GoTo(p, NoIndex(p))
          /\ UNCHANGED mem
       \/ /\ Size(r) = m.count
          /\ GoTo(p, IF WantsGraph(p, {r}) THEN "graph" ELSE "saveMeta")
          /\ mem' = [mem EXCEPT ![p].records = {r}]
  /\ UNCHANGED <<corpus, disk, cfg, history>>

ReadData(p) ==
  /\ pc[p] = "data"
  /\ \E r \in data \ {Torn}, m \in mem[p].meta :
       \/ /\ Size(r) # m.count
          /\ GoTo(p, NoIndex(p))
          /\ mem' = [mem EXCEPT ![p].meta = {}]
       \/ /\ Size(r) = m.count
          /\ GoTo(p, IF WantsGraph(p, {r}) THEN "graph" ELSE "saveMeta")
          /\ mem' = [mem EXCEPT ![p].records = {r}]
  /\ UNCHANGED <<corpus, disk, cfg, history>>

\* build_embeddings walks the corpus.
BuildEmbeddings(p) ==
  /\ pc[p] = "embed"
  /\ LET r == [settings |-> cfg[p].settings, version |-> corpus] IN
     /\ mem' = [mem EXCEPT ![p].records = {r}, ![p].built = TRUE]
     /\ GoTo(p, IF WantsGraph(p, {r}) THEN "dump" ELSE "saveMeta")
  /\ UNCHANGED <<corpus, disk, cfg, history>>

-----------------------------------------------------------------------------
(* The graph. *)

\* Mutant: whatever graph is there is trusted.
TrustedAlways(p) == TRUE

\* Does the stored metadata say that the graph has these parameters?
Trusted(p) == \E m \in mem[p].meta : m.hnsw = {cfg[p].backend}

\* The records came from the disk: the graph is loaded, built, or done without.
OpenGraph(p) ==
  /\ pc[p] = "graph"
  /\ \E exist \in BOOLEAN :
       /\ FilesExist(exist)
       /\ \/ /\ exist /\ Trusted(p)
             /\ \E g \in graph \ {Torn}, r \in mem[p].records :
                  mem' = [mem EXCEPT
                            ![p].hnsw = {x \in {g} : Size(x.of) = Size(r)},
                            ![p].hnswMeta = {cfg[p].backend}]
             /\ GoTo(p, "saveMeta")
          \/ /\ ~(exist /\ Trusted(p))
             /\ GoTo(p, IF cfg[p].build THEN "dump" ELSE "saveMeta")
             /\ UNCHANGED mem
  /\ UNCHANGED <<corpus, disk, cfg, history>>

\* Another process is in the middle of writing the same file.
Contested(p) == \E q \in Procs \ {p} : pc[q] = pc[p]

\* What a finished write leaves in the file.
Written(p, value) == IF Contested(p) THEN {value, {Torn}} ELSE {value}

DumpGraph(p) ==
  /\ pc[p] = "dump"
  /\ graph' = {Torn}
  /\ GoTo(p, "dumping")
  /\ UNCHANGED <<corpus, meta, data, cfg, mem, history>>

GraphDumped(p) ==
  /\ pc[p] = "dumping"
  /\ \E r \in mem[p].records :
       LET g == [of |-> r, params |-> cfg[p].backend] IN
       /\ graph' \in Written(p, {g})
       /\ mem' = [mem EXCEPT ![p].hnsw = {g}, ![p].hnswMeta = {cfg[p].backend}]
  /\ GoTo(p, "saveMeta")
  /\ UNCHANGED <<corpus, meta, data, cfg, history>>

-----------------------------------------------------------------------------
(* The metadata, then the embeddings if they are new. *)

\* The startup is over: a server is up, spark-embed exits.
Done(p) ==
  /\ disturbed' = (disturbed /\ ~(mem[p].built /\ alone[p]))
  /\ IF cfg[p].embed
     THEN Gone(p)
     ELSE /\ GoTo(p, "up")
          /\ mem' = [mem EXCEPT ![p].meta = {},
                                ![p].sound = alone[p] /\ ~disturbed']
          /\ UNCHANGED cfg

SaveMeta(p) ==
  /\ pc[p] = "saveMeta"
  /\ \E exist \in BOOLEAN, r \in mem[p].records :
       /\ FilesExist(exist)
       /\ mem' = [mem EXCEPT ![p].meta =
                    {[settings |-> cfg[p].settings, count |-> Size(r),
                      hnsw |-> PersistedHnsw(p, exist)]}]
  /\ meta' = {Torn}
  /\ GoTo(p, "savingMeta")
  /\ UNCHANGED <<corpus, data, graph, cfg, history>>

\* Mutant: embeddings that are there are not written again.
MetaSavedFirstOnly(p) ==
  /\ pc[p] = "savingMeta"
  /\ meta' \in Written(p, mem[p].meta)
  /\ \/ data = {} /\ GoTo(p, "saveData") /\ UNCHANGED <<cfg, mem, disturbed>>
     \/ data # {} /\ Done(p)
  /\ UNCHANGED <<corpus, data, graph, alone>>

MetaSaved(p) ==
  /\ pc[p] = "savingMeta"
  /\ meta' \in Written(p, mem[p].meta)
  /\ \/ mem[p].built /\ GoTo(p, "saveData") /\ UNCHANGED <<cfg, mem, disturbed>>
     \/ ~mem[p].built /\ Done(p)
  /\ UNCHANGED <<corpus, data, graph, alone>>

SaveData(p) ==
  /\ pc[p] = "saveData"
  /\ data' = {Torn}
  /\ GoTo(p, "savingData")
  /\ UNCHANGED <<corpus, meta, graph, cfg, mem, history>>

DataSaved(p) ==
  /\ pc[p] = "savingData"
  /\ data' \in Written(p, mem[p].records)
  /\ Done(p)
  /\ UNCHANGED <<corpus, meta, graph, alone>>

-----------------------------------------------------------------------------
(* Ends and surroundings. *)

\* Has the process changed a file that the next ones do not fit yet?
HalfWay(p) ==
  \/ pc[p] \in Writing \cup {"saveData"}
  \/ pc[p] = "saveMeta" /\ mem[p].hnsw # {} /\ (mem[p].built \/ ~Trusted(p))

\* An error of the startup (a torn or a vanished file among them), a crash
\* or a kill.
Stop(p) ==
  /\ pc[p] # "down"
  /\ Gone(p)
  /\ disturbed' = (disturbed \/ HalfWay(p))
  /\ UNCHANGED <<corpus, disk, alone>>

EditCorpus ==
  /\ corpus < MaxVersion
  /\ corpus' = corpus + 1
  /\ UNCHANGED <<disk, procs, history>>

Step(p) ==
  \/ WipeFile(p) \/ Wiped(p)
  \/ ReadMeta(p) \/ ReadData(p) \/ BuildEmbeddings(p)
  \/ OpenGraph(p) \/ DumpGraph(p) \/ GraphDumped(p)
  \/ SaveMeta(p) \/ MetaSaved(p) \/ SaveData(p) \/ DataSaved(p)
  \/ Stop(p)

Next ==
  \/ \E p \in Procs, c \in Configs : Start(p, c)
  \/ \E p \in Procs : Step(p)
  \/ EditCorpus

Spec == Init /\ [][Next]_vars

-----------------------------------------------------------------------------
(* Properties. *)

\* The three files describe each other.
Agree ==
  \A m \in meta, r \in data :
    /\ m # Torn /\ r # Torn
    /\ m.settings = r.settings
    /\ m.count = Size(r)
    /\ m.hnsw # {} => \A g \in graph : g = [of |-> r, params |-> CHOOSE h \in m.hnsw : TRUE]

\* Between processes the files agree, unless one died among its writes or two
\* overlapped since the last build; one complete build repairs what they
\* left, also without a wipe and whatever backends and settings came before.
DiskAgrees == ~disturbed /\ (\A p \in Procs : ~Active(p)) => Agree

\* A server that came up on such files searches embeddings of its own
\* settings, with a graph of these very embeddings.
ServesAsConfigured ==
  \A p \in Procs :
    pc[p] = "up" /\ mem[p].sound =>
      \A r \in mem[p].records :
        /\ r.settings = cfg[p].settings
        /\ \A g \in mem[p].hnsw : g.of = r

\* "Build embeddings out of process, then start the server without building
\* on startup": that server goes without semantic search only if there is no
\* index for its settings or it was told to reindex.
PreparedIsServed ==
  [][\A p \in Procs :
       /\ pc[p] \in {"meta", "data"} /\ pc'[p] = "off"
       /\ alone[p] /\ ~disturbed
       => meta = {} \/ \A r \in data : r.settings # cfg[p].settings]_vars

=============================================================================
