---------------------------- MODULE SearchIndex -----------------------------
(***************************************************************************)
(* The life of the lexical index: what open_or_create finds, creates and   *)
(* builds at startup, what reindex_scoped replaces while the server runs,  *)
(* what survives a crash at any point of either, and what the freshness    *)
(* report and the source summary say about it meanwhile                    *)
(* (src/src/search/runtime.rs, src/src/search/indexing.rs).                *)
(*                                                                         *)
(* Contents are version numbers: version 0 is the index with no document   *)
(* in it.  A commit of the index writer is atomic and sets the             *)
(* modification time of meta.json, which is all the freshness report       *)
(* compares the files with.                                                *)
(***************************************************************************)
EXTENDS Naturals

CONSTANTS
  MaxVersion,   \* bound on the versions of the corpus
  MaxTime,      \* bound on the clock
  KeepsMtime    \* may files vanish, or be replaced keeping an old mtime?

ASSUME SearchIndexAssumption ==
  /\ MaxVersion \in Nat \ {0}
  /\ MaxTime \in Nat \ {0}
  /\ KeepsMtime \in BOOLEAN

VARIABLES
  now,        \* the clock of the file system
  corpus,     \* version of the files of the local mounts
  mtime,      \* the latest modification time among those files
  dir,        \* index_dir: absent, torn, or present (it holds meta.json)
  content,    \* version of the last commit in index_dir
  stamp,      \* modification time of meta.json
  proc,       \* the server process: down, a point of open_or_create, or up
  rebuild,    \* was it started with SPARK_MCP_REINDEX?
  job,        \* the point reindex_scoped has reached, or idle
  snapshot,   \* the version build_index has read
  scanned,    \* the version scan_sources has counted
  served,     \* the version the reader answers searches from
  summary,    \* the version list_sources describes
  totals,     \* the version whose totals the index metadata gives
  began,      \* history: the corpus when the running reindex_scoped began
  reported,   \* history: the newest corpus an "ok" has vouched for
  hidden      \* history: did a change escape the modification times?

files   == <<now, corpus, mtime>>
disk    == <<dir, content, stamp>>
server  == <<proc, rebuild, served, summary, totals>>
work    == <<job, snapshot, scanned>>
history == <<began, reported, hidden>>
vars    == <<files, disk, server, work, history>>

TypeOK ==
  /\ now \in 1..MaxTime
  /\ corpus \in 1..MaxVersion
  /\ mtime \in 0..now
  /\ dir \in {"absent", "torn", "present"}
  /\ content \in 0..corpus
  /\ stamp \in 0..now
  /\ proc \in {"down", "wipe", "scan", "open", "build", "commit", "ready", "up"}
  /\ rebuild \in BOOLEAN
  /\ job \in {"idle", "scan", "read", "commit", "reload", "report", "swap"}
  /\ snapshot \in 0..corpus
  /\ scanned \in 0..corpus
  /\ served \in 0..corpus
  /\ summary \in 0..corpus
  /\ totals \in 0..corpus
  /\ began \in 0..corpus
  /\ reported \in 0..corpus
  /\ hidden \in BOOLEAN

Init ==
  /\ now = 1
  /\ corpus = 1
  /\ mtime = 0
  /\ dir = "absent"
  /\ content = 0
  /\ stamp = 0
  /\ proc = "down"
  /\ rebuild = FALSE
  /\ job = "idle"
  /\ snapshot = 0
  /\ scanned = 0
  /\ served = 0
  /\ summary = 0
  /\ totals = 0
  /\ began = 0
  /\ reported = 0
  /\ hidden = FALSE

-----------------------------------------------------------------------------
(* What the server reports. *)

\* Mutant: a modification within a tick of the commit counts as indexed.
StaleWithTolerance == dir = "absent" \/ mtime > stamp + 1

\* any_stale of local_freshness_report.
Stale == dir = "absent" \/ mtime > stamp

-----------------------------------------------------------------------------
(* Startup: open_or_create. *)

StartServer(r) ==
  /\ proc = "down"
  /\ rebuild' = r
  /\ proc' = IF r /\ dir # "absent" THEN "wipe" ELSE "scan"
  /\ UNCHANGED <<files, disk, served, summary, totals, work, history>>

\* remove_dir_all.
Wipe ==
  /\ proc = "wipe"
  /\ dir' = "absent"
  /\ content' = 0
  /\ proc' = "scan"
  /\ UNCHANGED <<files, stamp, rebuild, served, summary, totals, work, history>>

\* scan_sources, before the index is opened.
ScanAtStart ==
  /\ proc = "scan"
  /\ summary' = corpus
  /\ totals' = corpus
  /\ proc' = "open"
  /\ UNCHANGED <<files, disk, rebuild, served, work, history>>

\* Index::open_in_dir, or Index::create_in_dir, which writes meta.json; the
\* decision to build looks for meta.json only afterwards.
OpenIndex ==
  /\ proc = "open"
  /\ \/ /\ dir = "present"
        /\ UNCHANGED disk
     \/ /\ dir = "absent"
        /\ dir' = "present"
        /\ content' = 0
        /\ stamp' = now
  /\ proc' = IF rebuild \/ dir' = "absent" THEN "build" ELSE "ready"
  /\ UNCHANGED <<files, rebuild, served, summary, totals, work, history>>

\* build_index walks the corpus.
BuildAtStart ==
  /\ proc = "build"
  /\ snapshot' = corpus
  /\ proc' = "commit"
  /\ UNCHANGED <<files, disk, rebuild, served, summary, totals, job, scanned,
                 history>>

\* Mutant: the time of the commit is rounded up to the next tick.
CommitRoundedUp ==
  /\ content' = snapshot
  /\ stamp' = now + 1
  /\ hidden' = (snapshot # corpus)
  /\ UNCHANGED dir

\* A commit replaces the content of the directory in one step.
Commit ==
  /\ content' = snapshot
  /\ stamp' = now
  /\ hidden' = (snapshot # corpus)
  /\ UNCHANGED dir

CommitAtStart ==
  /\ proc = "commit"
  /\ Commit
  /\ proc' = "ready"
  /\ UNCHANGED <<files, rebuild, served, summary, totals, work,
                 began, reported>>

\* The reader is opened and the server goes up.
Serve ==
  /\ proc = "ready"
  /\ served' = content
  /\ proc' = "up"
  /\ UNCHANGED <<files, disk, rebuild, summary, totals, work, history>>

\* The process ends: a crash, a kill, or an error of open_or_create, which a
\* directory left torn by an interrupted remove_dir_all always is.
Crash ==
  /\ proc # "down"
  /\ proc' = "down"
  /\ \/ UNCHANGED <<dir, content>>
     \/ proc = "wipe" /\ dir' \in {"absent", "torn"} /\ content' = 0
  /\ rebuild' = FALSE
  /\ job' = "idle"
  /\ snapshot' = 0
  /\ scanned' = 0
  /\ served' = 0
  /\ summary' = 0
  /\ totals' = 0
  /\ began' = 0
  /\ UNCHANGED <<files, stamp, reported, hidden>>

-----------------------------------------------------------------------------
(* In-process refresh: reindex_scoped under its lock. *)

BeginReindex ==
  /\ proc = "up"
  /\ job = "idle"
  /\ job' = "scan"
  /\ began' = corpus
  /\ UNCHANGED <<files, disk, server, snapshot, scanned, reported, hidden>>

\* Mutant: a scan that has been made is not made again.
ScanSourcesOnce ==
  /\ job = "scan"
  /\ scanned' = IF scanned = 0 THEN corpus ELSE scanned
  /\ job' = "read"
  /\ UNCHANGED <<files, disk, server, snapshot, history>>

\* scan_sources, before the files are read for the index.
ScanSources ==
  /\ job = "scan"
  /\ scanned' = corpus
  /\ job' = "read"
  /\ UNCHANGED <<files, disk, server, snapshot, history>>

\* Mutant: the walk reads what the last scan counted.
BuildIndexFromSummary ==
  /\ job = "read"
  /\ snapshot' = summary
  /\ job' = "commit"
  /\ UNCHANGED <<files, disk, server, scanned, history>>

\* delete_all_documents and the new documents, none of it visible yet.
BuildIndex ==
  /\ job = "read"
  /\ snapshot' = corpus
  /\ job' = "commit"
  /\ UNCHANGED <<files, disk, server, scanned, history>>

CommitIndex ==
  /\ job = "commit"
  /\ Commit
  /\ job' = "reload"
  /\ UNCHANGED <<files, server, snapshot, scanned, began, reported>>

Reload ==
  /\ job = "reload"
  /\ served' = content
  /\ job' = "report"
  /\ UNCHANGED <<files, disk, proc, rebuild, summary, totals,
                 snapshot, scanned, history>>

\* The sources are replaced in a critical section of their own.
ReplaceSources ==
  /\ job = "report"
  /\ summary' = scanned
  /\ job' = "swap"
  /\ UNCHANGED <<files, disk, proc, rebuild, served, totals,
                 snapshot, scanned, history>>

\* The metadata is replaced, and the report returned.
ReportOk ==
  /\ job = "swap"
  /\ totals' = scanned
  /\ reported' = began
  /\ job' = "idle"
  /\ began' = 0
  /\ UNCHANGED <<files, disk, proc, rebuild, served, summary,
                 snapshot, scanned, hidden>>

\* Mutant: the deletions are committed before the walk that may fail.
FailReindexHalfWay ==
  /\ job \notin {"idle", "swap"}
  /\ job' = "idle"
  /\ began' = 0
  /\ content' = IF job = "commit" THEN 0 ELSE content
  /\ UNCHANGED <<files, dir, stamp, server, snapshot, scanned, reported, hidden>>

\* Any `?` of reindex_scoped: an uncommitted writer is rolled back, a commit
\* stays.  Nothing can panic while it holds a guard of the sources or of the
\* metadata, so those locks are never poisoned.
FailReindex ==
  /\ job \notin {"idle", "swap"}
  /\ job' = "idle"
  /\ began' = 0
  /\ UNCHANGED <<files, disk, server, snapshot, scanned, reported, hidden>>

\* The reader's own watcher notices the commit sooner or later.
WatcherReload ==
  /\ proc = "up"
  /\ served' = content
  /\ UNCHANGED <<files, disk, proc, rebuild, summary, totals, work, history>>

-----------------------------------------------------------------------------
(* The files. *)

\* A file is written: its modification time is the present.
EditFile ==
  /\ corpus < MaxVersion
  /\ corpus' = corpus + 1
  /\ mtime' = now
  /\ hidden' = (hidden \/ now <= stamp)
  /\ UNCHANGED <<now, disk, server, work, began, reported>>

\* A file is deleted, or replaced by one that keeps an old modification time.
ReplaceFile ==
  /\ KeepsMtime
  /\ corpus < MaxVersion
  /\ corpus' = corpus + 1
  /\ mtime' \in 0..now
  /\ hidden' = TRUE
  /\ UNCHANGED <<now, disk, server, work, began, reported>>

Tick ==
  /\ now < MaxTime
  /\ now' = now + 1
  /\ UNCHANGED <<corpus, mtime, disk, server, work, history>>

Startup == Wipe \/ ScanAtStart \/ OpenIndex \/ BuildAtStart \/ CommitAtStart
           \/ Serve
Reindex == BeginReindex \/ ScanSources \/ BuildIndex \/ CommitIndex \/ Reload
           \/ ReplaceSources \/ ReportOk \/ FailReindex

Next ==
  \/ \E r \in BOOLEAN : StartServer(r)
  \/ Startup
  \/ Reindex
  \/ WatcherReload
  \/ Crash
  \/ EditFile \/ ReplaceFile
  \/ Tick

Spec == Init /\ [][Next]_vars

-----------------------------------------------------------------------------
(* Properties. *)

\* Once the index has been built, a report without stale sources is wrong
\* only about changes that modification times cannot show: those made while
\* a build had already read the files, in the very tick of the commit, or
\* without a new modification time.  It holds across restarts, because the
\* time compared with is the one on disk, never one kept in memory.
FreshUnlessHidden ==
  content # 0 /\ ~Stale => content = corpus \/ hidden

\* What a caller was told is refreshed stays so: the server that is up serves
\* every edit an "ok" has vouched for, through later failures, crashes and
\* restarts, unless an interrupted rebuild left the index empty.
ReportedSurvives ==
  proc = "up" /\ served # 0 => served >= reported

\* The index on disk never goes back to an earlier version, nor do search
\* results while the server runs: only remove_dir_all at startup discards.
NeverGoesBack ==
  [][/\ content' < content => proc = "wipe"
     /\ proc = "up" /\ proc' = "up" => served' >= served]_vars

\* After an "ok", list_sources and the totals of index_status describe files at
\* least as new as those the caller had written before it asked, also after a
\* restart and although the files are counted before they are indexed; and the
\* two agree, except between the critical sections in which a refresh replaces
\* first one and then the other.
SummarySurvives ==
  proc = "up" =>
    /\ summary >= reported /\ totals >= reported
    /\ job # "swap" => totals = summary

\* "Open an existing index or crawl the corpus to build a new one": a server
\* that is up serves an index that was built.
OpenedOrBuilt == proc = "up" => content # 0

=============================================================================
