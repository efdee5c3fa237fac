# A formal model of spark-mcp

spark-mcp is an MCP server, written in Rust, that answers search and
documentation requests about SPARK/Ada from a corpus on disk. It keeps a lexical
index (tantivy) and optionally a semantic one (embeddings with an HNSW graph),
refreshes the lexical index inside the running process on request, serves the
results over stdio or streamable HTTP, and decides at startup whether the
evidence of its test gates allows it to run at all.

This directory holds TLA+ modules that follow that code, the TLC configurations
that check them on small instances, and TLAPS proofs for every value of the
constants. `PROJECT.json` lists runs, mutants, theorems, findings, hazards, and for
every definition the source lines it stands for. Paths below are relative to the
repository (`src/` is its root, `src/src/` the crate).

    tlc -config SearchSafety.cfg MCSearch.tla     # a run
    tlapm AutoReindexProofs.tla                   # the proofs of a module

## 1. The system

| Component | Source | State | Operations | Module |
|---|---|---|---|---|
| Reindex coordinator | `auto_reindex.rs` | `State` under a tokio mutex (generation, running, pending, waiters), a `Notify`, one worker task, one thread per run | `force_and_wait`, `schedule`, `run_loop` | `AutoReindex`, `ReindexService` |
| Lexical index life cycle | `search/runtime.rs`, `search/indexing.rs` | the index directory and its `meta.json`, the tantivy reader, `sources`, `metadata`, `reindex_lock` | `open_or_create`, `build_index`, `reindex_scoped`, `local_freshness_report` | `SearchIndex` |
| Provenance and admission | `build.rs`, `provenance.rs`, `admission.rs`, `config.rs`, `main.rs` | label compiled into the executable, gate artifacts on disk, environment | build script, `load_startup_admission_config`, `evaluate_startup_admission`, `/attest` | `Admission` |
| Semantic index | `search/runtime.rs` 1466-1795, `bin/spark-embed.rs` | `meta.json`, `embeddings.bin`, HNSW graph | `open_or_build`, `build_only`, `search` | `SemanticStore`, `Search` |
| Query evaluation, filters | `search/query.rs`, `search/runtime.rs` | that of one call | lexical, semantic and hybrid search, symbol search, source filters | `SourceFilters`, `Search` |
| Document cache | `search/runtime.rs` 1412-1463 | LRU queue and map | `get_or_load`, `touch`, `insert` | `DocCaches` |
| Search tools, validation | `tools.rs` | none of its own | `spark_search`; `spark_get_doc`, `spark_get_chunk`, `spark_hover`, `spark_locate`, `spark_refs`, `spark_reindex` | `SearchTool`; `Requests` |
| HTTP sessions and replay | `main.rs` 331-548, `config.rs` 301-402 | session manager and event store (libraries), resume mode | `host_guard`, `handle_mcp`, replay, stateless fallback | `McpSessions` |
| Resources, paths | `resources.rs`, `search/runtime.rs` 348-458, 642-703 | none | mounts, ids, path resolution, listing and reading of resources | `Paths`, `Requests` |
| Chunks, lines, snippets | `search/indexing.rs`, `search/runtime.rs` 1314-1390 | none | `make_snippet`, `line_for_offset`, `sanitize_line`, `find_symbol_match`, hover positions | `Lines`, `Requests` |
| Server, prompts, registry | `server.rs`, `prompts.rs`, `llm.rs` | hover telemetry | registration | not modelled |
| Corpus, scripts | `corpus/`, `scripts/` | none | third-party text | not modelled |

How they interact. An HTTP request passes the host check and `handle_mcp`, which
forwards it to a session, to a server without sessions, or answers it from the
event store; what arrives is a tool call. A `spark.reindex` call is validated by
the tool, becomes a request in the coordinator's shared state, and waits on a
oneshot channel. The worker runs `SearchIndex::reindex_scoped` on a thread of its
own and answers all the waiters of the batch. A `spark.search` call resolves its
source filter against the source list of the last refresh, searches the reader
that a refresh reloads and the embeddings loaded at startup, and then reads the
files themselves, through a cache that lives as long as the search. The ids in its
answer are the input of `get_doc`, `get_chunk`, `hover` and of the resources, which
resolve them again to files. At startup `main` loads the configuration, asks
admission, and only then opens or builds the indexes.

What is hard about each of them, and what makes it correct:

* **Coordinator.** A critical section, the notification after it and the
  comparison of a copied deadline are separate steps; `notify_waiters` leaves no
  permit; requests merge; a caller's future may be dropped; the thread may fail
  to spawn, fail or panic. Correct: an `ok` is answered by a run that read the
  files after the call; no waiter is forgotten; no wakeup is lost; merging never
  hides an invalid scope; everybody is answered.
* **Index life cycle.** The process can end at any point of creation, deletion
  or rebuild; files change while they are read; freshness is judged from
  modification times alone; list and totals of the sources are replaced one after
  the other. Correct: what a caller was told is indexed stays served; freshness
  reports are wrong only where times cannot tell; results never go back.
* **Provenance and admission.** The label is produced by a build script that
  cargo caches, the evidence by a gate that runs while somebody may rebuild, the
  decision by variables that can be unset, empty or wrong. Correct: strict mode
  serves only builds whose required gate has passed; production cannot switch the
  guard off; the attestation says `ok` only of what passed.
* **Semantic index.** Three files written one after the other, by processes that
  can die in between and that nothing keeps apart; servers that rewrite the
  metadata at every start. Correct: files left by complete builds agree; a server takes
  embeddings only for what they are; a prepared index is served.
* **Search.** The index is older than the files it is read with, and these may
  change between two hits; three filters have three readings of a source; one
  backend cuts before it filters; an empty answer starts a chain of fallbacks.
  Correct: no hit of another source, no chunk twice or of another text, one
  version of a document in one answer, an order that both rankings agree on, and
  no empty answer for an identifier that is there.
* **Sessions.** Whether a session is there is asked before an await and used
  after it; streams break, stores drop events, servers restart. Correct: who is
  told its session is gone is never served in it again; resumed and replayed events
  are the ones sent, in order and once.
* **Paths, lines, symbols.** Links, labels that are also names of directories, ids
  that are resolved twice; offsets in trimmed text, positions behind the end, lower case
  that changes lengths, comments across lines. Correct: what is opened lies where its id
  or its path says, an id leads back to its file, and the tools agree with one another
  about lines, symbols and reasons.

`PROJECT.json` lists the hazards of all of these at their lines, also of those that
no property covers. A hazard names a property only if that property would be violated by
its going wrong; where the code does have the behaviour and the property states it as
an exception, the hazard has a note instead.

## 2. The modules

| Module | What it is |
|---|---|
| `ReindexService` | abstract: what a refresh promises its callers, with no queue, worker or lock |
| `AutoReindex` | the coordinator, step by step; refines `ReindexService` |
| `SearchIndex` | directory, commit, reader, refresh, crash and restart of the lexical index |
| `Admission` | source tree, build script, gates, artifacts, configuration, decision, attestation |
| `SemanticStore` | the three files of the semantic index, servers and `spark-embed` runs that read and write them |
| `SourceFilters` | names of sources a call accepts, and which documents a filter selects in the index, the embeddings and the files |
| `DocCaches` | the cache of one search, as operators on a record |
| `Search` | `SearchIndex::search` and `locate_symbol`, hit by hit, over files that change; extends the two above |
| `SearchTool` | `spark.search`: shortcuts, modes, the search, the fallbacks, the answer; extends `Search` |
| `Lines` | operators on texts: lines, positions, chunks, contexts, symbols, comments, snippets |
| `Paths` | operators on file systems: mounts, ids, the ways to resolve a path, the workspace |
| `Requests` | the tools and resources built from `Lines`, `Paths` and `SourceFilters`, over a file system that changes between and within calls |
| `McpSessions` | settings, sessions, streams, event store and the handler of `/mcp` |
| `MC...` | names, small corpora and environments for TLC |
| `OrderLemmas` | lemmas on sequences, finite sets and enumerations in the order of a score, which the proofs share |
| `...Proofs` | theorems and proofs |

### AutoReindex

`generation`, `running`, `pending` and `waiters` are the fields of `State`
(`Option` is a set of no element or one, `Vec` of waiters a set, since the drain
does not depend on order). `notified` is the worker's `Notified` future: it is
armed when it is created at the top of the loop, because tokio counts
`notify_waiters` from the creation of the future on, and fired by a notification
after that. `wpc` is the program point of `run_loop`, `seen` the deadline it copied
out of the critical section, `current` what it took, `job` and `outcome` the thread
and its report, `lock` the `reindex_lock` of `SearchIndex`, which is poisoned when the
thread unwinds. `ReindexService` sees of all this the versions, where each call stands, and
`broken`, which is whether that lock is poisoned. Each critical section is one action: it contains no await. The
steps outside are actions of their own: `ForceNotify` and `ScheduleNotify` after
the unlock, `CheckDue` on the copy, `Sleep` for the `select!`.

Time is relative: a deadline is the number of ticks left, 0 for "now" and -1 for
"past", and `Tick` brings every deadline nearer. So there is no clock to bound.
A request is due only when its deadline is strictly past, as in `Due`.
The corpus and the served index are version numbers; `asked` remembers
the corpus a call was made in.

Abstractions, named: `Known` says which labels and workspace paths
`resolve_reindex_sources` accepts (a selection without eligible sources is not
modelled, nor the reason that goes into the log); an unknown name fails the
whole merged request, as in the code. The generation counter saturates at `MaxGen`,
as `saturating_add` does at 2^64 - 1. There the newest generation no longer tells
requests apart, so the two properties that compare them are stated for
`Unsaturated` states, and the refinement for behaviours of such states; waiters and
wakeups need no such condition. `schedule` has no
caller in the present source; it is part of the type's interface and of its tests, and
is modelled, with callers in some runs and none in others.

### SearchIndex

A document set is the version of the corpus it was read from, 0 being the empty
index. `dir`, `content` and `stamp` are the index directory, its last commit and the
modification time of `meta.json`; `proc` is the point of `open_or_create`, `job` that of
`reindex_scoped`; `served` is what the reader answers from, `summary` what
`list_sources` describes and `totals` what the metadata says of it. `StartServer` to
`Serve` follow startup in code order: wipe if asked, scan the sources, open or
create, ask for `meta.json` only afterwards, build, open the reader. A refresh scans,
commits, reloads, replaces the list (`ReplaceSources`) and then totals and report
(`ReportOk`): a reader may come between the two lock sections. `Crash` can come
at each point, `FailReindex` stands for each `?`, `WatcherReload` for tantivy's own
reload. Files change by `EditFile` (new modification time) and `ReplaceFile`
(deletion, or an old time kept), at any moment, also between read and commit.
`began`, `reported` and `hidden` are history. The commit of a tantivy writer is one
step, and `remove_dir_all` is one step that a crash can leave half done. The
poisoned lock is modelled in `AutoReindex`, not again here.

### Admission

`tree` and `head` are versions of the working tree and of HEAD. `Build` is cargo: the
build script runs again only when HEAD has moved (`Printed`), and an executable
is written only if its source or label changed. A label `[rev, dirty]` stands for
both the build identity and the source fingerprint, which are two renderings of
it. A gate (external: run by scripts) remembers the executable it started on and
writes its artifact when it ends; `overlapped` records a build meanwhile.
`Mode`, `Profile` and `Loads` are `load_startup_admission_config`; `Failed` and `Outcome`
are `evaluate_startup_admission`; `Reason` is the first failed check in code order;
`AttestationStatus` is the status of `/attest`. `swapped` stands for the two path
variables naming each other's file, `json` for the extension of that file.
Not modelled: a revision given by environment variable, an unreadable
executable (`CODE_PROVENANCE_UNAVAILABLE`), the time a TTL ends, which no code acts on.

### SemanticStore

A process is a server (`open_or_build`) or a run of `spark-embed` (`build_only`),
with settings, backend and the two flags in `cfg`, its local variables in `mem` and
its program point in `pc`. Embeddings are told apart by what `meta_matches`
compares (`Settings`) and the corpus version; `Count` says how many chunks that makes,
which is what `records` in `meta.json` and the size check of the graph see. Each file
is written in two steps, between which, and after a crash there, it is `Torn`: readers
fail on it (`Stop`). If two processes write one file at once the result is either
value or torn. The wipe removes the files one by one, in any order. A torn graph may
lack one of its two files, so `FilesExist` leaves the answer open. That a torn graph
is refused by the HNSW library is an assumption about that library. A server is done
with the files when it is up: records and graph are in memory.
`disturbed` is history: writes overlapped, or a process died among its own, since the
last complete build that ran alone.

### Search and SearchTool

A file has one of a few texts, or is gone, blank or too large; a text is cut into
chunks, of which the words count, and names symbols in some order. `indexed` and
`embedded` say which text of each file the two indexes were built from. A call is
a record; `stage` is the point of `search` or `locate_symbol` it is at, `todo` the matches
not turned into hits yet, or the files not walked yet. One hit is one action: this is where
files are read, and `Edit` and `Rebuild` may come before each. Scores of
tantivy and similarities of embeddings come from libraries and are chosen freely,
equal ones in any order. Scores of a hybrid search are kept exact by multiplying out
the two norms and the weights. The neighbours of the HNSW graph are assumed to be the
nearest ones, which is the best it may give; what `BackendsAgree` says of the two
backends is under that assumption.

`SearchTool` is the handler: `Ask` validates, resolves the filter and starts the search
or the look-up of a shortcut; `plan` lists what `spark_search` would try after an empty
result, `TryNext` takes the next of it, `Answer` ends the call. Words, variants and
identifiers of a query are tables in `MCSearch`, with what the code's functions give
for such queries. `cafe` stands for a query with a character of two bytes at its fourth
place. Calls share nothing but files and indexes, so one at a time is checked. Not modelled: related definitions, the text of
snippets (see `Lines`), titles and provenance of hits.

Facts of the code that the model shows and no document contradicts: `local` means the
mounts with such a label to the lexical filter, every source named `local-...` to locate,
and nothing to the semantic one, which compares the whole filter with one source; a
variant of a literal query has the same words, so searching for it finds nothing new
unless the index was rebuilt in between; the look-up of symbols that `spark_search` adds to an answer
with hits cannot fail it, because `collect_symbol_matches` skips what it cannot read and has no other
error, so the model leaves it out; a hit found by the symbol fallback has
chunk number 0 wherever its line is; one unreadable document fails a whole
semantic search; the branch that reads a chunk without the cache is never reached.

### Paths, Lines and Requests

A path is a sequence of components, with an empty first one if it is absolute; a
file system is a set of directories, files with a text or without, and links. `Enter`
follows links and `..` as the operating system does; `Canonical` is
`fs::canonicalize`. Mounts are resolved once, at the start; a walk begins at what the root of a mount
leads to by now (`Followed`, `Walked`), and follows no other link. `BuildMounts`, `IdOf`, `ResolveDoc`, `ResolveFile` and `UnderWorkspace` follow the
functions of these names. A text is a sequence of characters, each of them one element
whatever its bytes: the code counts characters, too, except in `find` and
`to_lowercase`, where `Lowered` may make two characters of one. `Mask` is the scan of `sanitize_line` and carries the depth of
comments from line to line.

`Requests` is one client and somebody who edits files, moves them or makes links, between any
two steps. A call for a document takes three: its id is resolved and checked (`StartGet`,
`StartResource`), the path that was checked is measured (`Measure`) and read (`ReadDoc`). Hover
takes one before these, which resolves its path to an id (`StartHover`, `LookUp`, `Measure`,
`EndHover`), and a file of the workspace is checked and read, but not measured (`StartResource`,
`ReadFile`). `id` and `opened` hold what the call has between its steps; `moved` and `swapped` are
history: whether files have changed since the call began, and since its check. Within a step
there remain the questions whether a path exists and what it is canonically, and the steps of a walk:
`ListResources`, `Locate` and `Reindex` look at the files in one step, and a start resolves its mounts
in one. A reindex is the
validation and the new source list; what it does is `AutoReindex` and `SearchIndex`.
Not modelled: the cut of long documents, the texts of help and index status,
resource templates, related definitions; a corpus directory that does not exist, whose mount
keeps the path as it is configured (`build_mounts`): every file system of the run has it.

Facts of the code that the model shows and no document contradicts: a blank
source filter matches everything in `spark.search` and nothing in `spark.locate`;
`list_resources` lists links, directories and names with two dots that `read_resource` refuses; the
walk follows the root of a mount that has become a link since the start, so its files are indexed and
located under ids that `resolve_doc_path` refuses, until the next start; a checked path is measured and
read by calls that check nothing again, and what is read is what it leads to by then; a
directory of the corpus with the name of a label is hidden by it, and files in both
get the same id; the root of the workspace is the parent of the first local mount after links are
resolved; the suggestion of a failed hover keeps the caller's spelling; `make_snippet`
can start behind its end, and panic, if lower case has more characters than the text;
hover reads its chunk alone, so one that begins inside of a block comment is
read as code; the scope of a reindex is checked and reported, and the build rebuilds everything.

### McpSessions

`server` is the configuration of the running server, if there is one. Sessions, streams and
the event store are libraries, modelled by what `main.rs` relies on: a session lives
until it expires, is evicted or deleted or the process ends; its events are numbered;
the store holds the latest of them, from `first` on; only sqlite outlives the process.
A request sits in a slot and takes one step per await of `handle_mcp`: `Receive` (host
check, headers), the look-up of the session and the choice of a service
(`PostToSession`, `PostWithoutSession`, `GetOrDelete`), then the service itself or
the replay. A session may expire between the two. `stream` is the next event an open
stream gives, `got` the event the client has got last; `lossy` and `odd` are history. The client
asks only with ids it was given and the id it got last, and keeps one stream per
session, as the protocol tells it to. A look-up that fails counts as "no", so a live session may be
told it is gone; `doubted` excludes it from `GoneIsGone`. Not modelled: authentication
(a layer of a library), the trailing-slash layer (added by `Router::layer`, so it runs
after routing), the time to live itself.

## 3. The runs

| Run | Bounds | What it shows |
|---|---|---|
| `coordinator_service` | three calls, one for an unknown source, no scheduler, 1 edit, 4 generations | type invariant, `AnswerFresh`, `FailClosed`, and that the coordinator implements `ReindexService` |
| `coordinator_liveness` | two calls, a scheduler that never stops, debounce 2, saturation at 3 | `NoLostWaiter`, `NoMissedWakeup`, and `CallsSettle` under fairness |
| `search_index_safety` | 3 corpus versions, 3 ticks, both kinds of edit | `FreshUnlessHidden`, `ReportedSurvives`, `SummarySurvives`, `NeverGoesBack` |
| `search_index_opened_or_built` | 2 versions, 3 ticks, plain edits | violation: finding 1 |
| `admission_safety` | 2 source versions, 3 ticks, 2 gates, every environment of `MCAdmission` | `StrictIsGated` (in strict mode and in production), `PassedWasTested` |
| `admission_fingerprint` | 2 versions, 2 ticks, 2 gates | violation: finding 2 |
| `semantic_store_safety` | two processes, in turn and at once, 9 configurations, 2 corpus versions | `DiskAgrees`, `ServesAsConfigured`, `PreparedIsServed` |
| `search` | two documents in two sources, four corpora, every mode and backend, four filters, cache of one document, 1 edit | `SourceRespected`, `AnswerWellFormed`, `OneVersionPerDocument`, `CacheAgrees`, `BetterInBothIsFirst`, `BackendsAgree`, `EmptyIsExhausted` |
| `search_panic` | as `search` | violation: finding 3 |
| `requests` | six file systems that change into each other between any two steps, 26 ways to write a path, every text of up to five characters over three alphabets | `ServedIsInside`, `IdLeadsBack`, `HoverIsOfTheFile`, `ReasonIsTrue`, `ReindexScope`, `InferredIsFound`, `SanitizedIsClean`, `HoverAtLocated`, `SnippetShowsMatch` |
| `hover_line` | as `requests` | violation: finding 4 |
| `sessions` | one session, two requests at once, 2 events, every combination of the two modes, a failing look-up | `GoneIsGone`, `NothingLostOrRepeated` |

Why the bounds are enough. *Coordinator*: the worker handles one batch at a time,
so the interesting cases need one request in the batch that runs, one pending and one
merged into it; two calls with a scheduler, or three calls, give all of these.
In the liveness run the scheduler repeats, so generations run into `MaxGen` and the
saturated counter is explored too. One edit tells "before" from "after" a call. A
debounce of 2 lets a deadline be postponed while it is already near. *Index*: a stale
answer needs an old version, a new one and one in between, hence 3; three ticks order
commit, edit and next commit strictly. *Admission*: two versions, two gates (one per
profile, or one repeated) and a validity of one tick give every artifact relation the
decision looks at; the `Defects` of that run hold one member because the decision
treats all of them alike but for the reason code. *Semantic index*: one set of graph parameters is run, since the code compares them in
one equality and hands them on as they are; what a start does depends on
the files only, and each file is described by its last writer. The chunk
counts are chosen so that different settings have equal counts, equal settings
different ones, and one corpus has none; the configurations of `MCSemanticStore`
contain each kind of process and starts with equal and with different settings,
backends and flags. The processes are interchangeable, so the run uses symmetry; it
checks no liveness. *Search*: two documents and a cache of one make it evict and read
again; one text has two chunks and one has one, so a chunk number can be past the
end after an edit; the corpora contain an index that agrees with the files, one that
is behind them, one that has what the files no longer have; scores of one unit and
below zero give ties and cut-offs. *Requests*: the trees hold a directory with the
name of a label, links to outside, between mounts and in place of the directory of a mount, a file that is gone, one that is
too large and one that is not a text; five characters are enough for an overlap of chunks
of four, a delimiter on each side of a symbol, and a comment or string that
opens, nests and closes; columns start at 0, and one
character is two in lower case. *Sessions*: nothing in the handler relates two sessions, and
two requests are enough to race on one; the theorems of section 5 hold for any
number of both. `CHECK_DEADLOCK FALSE` appears where everything may come to rest: in
the coordinator run without a scheduler, when every call has settled, and in the
search runs, after the answer of the one call.

Every property of a passing run has a mutant in `PROJECT.json`: a plausible slip
in one mapped definition (the older generation kept in a merge, a forced deadline
postponed, an expiry compared in place of a modification time, a filter dropped, a
replay that starts at the event the client names, ...) under which TLC finds that
property violated.

## 4. Fairness

`FairSpec` of `AutoReindex` has weak fairness on `Worker`, `Job` and `Tick`, on each
caller's notification and on each return. Weak fairness on the worker is tokio
polling a task that is ready, on the job the operating system running a thread,
on `Tick` that time passes, on notification and return that a caller past its
critical section runs on to its next await and is polled when its receiver is
ready. All of these stay enabled until they are taken. Nobody is obliged to call,
cancel, edit or schedule, and nothing prevents `schedule` from being called without
end: `CallsSettle` holds nevertheless, because a forced request sets the deadline
to now and a later debounced one does not postpone a deadline that is reached
(`MergedDeadline`). The other specifications state no fairness; their properties
are safety properties, and their calls are loops over finite lists, in which
nothing waits.

## 5. What is proved

All proofs are checked by TLAPS to the last leaf, from the named assumptions on
the constants only (`CallersAssumption`, `BoundsAssumption`, `SearchIndexAssumption`,
`AdmissionAssumption`, `SessionsAssumption`, `SourceFiltersAssumption`, `SearchAssumption`,
`SearchToolAssumption`, `SemanticStoreAssumption`, `PathsAssumption`, `LinesAssumption`,
`RequestsAssumption`): any sets of calls, schedulers, names,
sessions, requests and environments, any bounds.

**AutoReindexProofs.** `TypeCorrect`, `FreshAnswers` (`AnswerFresh`), `ClosedFailures`
(`FailClosed`), `NoWaiterLost`, `NoWakeupMissed`, all from one inductive invariant,
`IInv`. None of the properties is inductive: `AnswerFresh` is about answers
already given, and what protects it is a chain through the whole pipeline. The
conjuncts follow that chain: which variables carry something at which program
point (a batch exists exactly in `spawn` and `join`, a job exactly in `join`, `running`
says so, an outcome exactly when the job is done); the pending request carries the
latest generation, so that whatever the taken one does not cover the pending one does;
every waiter belongs to one of the two; versions are ordered from served over
snapshot to corpus; what the running job has read includes what its own waiters
asked for; the scope of a request covers the scopes of its waiters. `NoMissedWakeup`
is a conjunct of its own. `Inductive` is the theorem
`Spec => []IInv`; the properties follow from it. `OnlyPanicIsBusy` (`BusyNeedsPanic`, stated
by no run) needs `LockUse` besides: the lock is held by the job of this worker or by nobody, an
outcome "busy" is there only if the lock is poisoned, and one that is about a refresh ("ok", "scope") only
if it is not.

The same module proves the refinement, `Refinement`: `Spec /\ []Unsaturated => ImplementsService`. Each
action of the coordinator is a step of the service or leaves its view unchanged:
`ForceAndWait` is `Ask`, `JobPublish` is `Refresh`, `Finish` is `Answer` of the whole batch, `Cancel` is
`GiveUp`. The batch is the calls of the waiters served, which is why the proof needs
`OneWaiter` (a call has at most one) besides `IInv`, `LockUse` because a caller may hear "busy" only
if a run has panicked, and "ok" only if none has, and `Unsaturated` because a counter at its
end answers requests that came later with an older run.

**SearchIndexProofs.** `TypeCorrect`; `FreshReports` (`FreshUnlessHidden`);
`ReportsSurvive` (`ReportedSurvives`); `NoWayBack` (`NeverGoesBack`); `SummariesSurvive`
(`SummarySurvives`). The strengthening
says that the commit on disk is at least as new as what is reported unless it is
empty, that the reader never has more than the disk, that a job between
commit and report has committed a version not older than the corpus it began with,
and that list and totals differ only between the two lock sections or after a failure there.

**AdmissionProofs.** `TypeCorrect`; `StrictNeedsGate` (`StrictIsGated`);
`PassedIsTested` (`PassedWasTested`); `OkMeansPassed` (`AttestedOkIsPassed`, which no run
checks: it follows from the outcomes a running server can have). The strengthening relates the running gate and
each artifact to the executable: as long as no build has come between, the
tested source is the executable's, and otherwise the modification times tell.

**McpSessionsProofs.** `TypeCorrect`; `ReplayRecords` (`ReplayHasItsStore`, stated by no run: a
server replays exactly if it has an event store); `GoneForGood`
(`GoneIsGone`); `NoneLostOrRepeated` (`NothingLostOrRepeated`). A session id is handed out
once, so one that is not live and was issued stays so (`GoneIsGone` is inductive with that).
For the events: an open stream of a session that lost nothing stands right behind
what the client has, and a request that names an event and has not been served
names the last one, because the client has no second stream meanwhile.

**OrderLemmas.** The prover has no induction over data that could be used for sequences and
finite sets. These lemmas take a least counterexample instead, whose existence follows from the
well-foundedness of `<` on the naturals: so they prove what `FoldLeft`, `FlattenSeq` and the
choice of `SetToSeq` give, that a step repeated along a sequence has a value at each place, and
that a finite set can be enumerated in the order of a score.

**SearchProofs.** All the properties of the run `search`, for every corpus, history of
edits, ranking, weight, limit and capacity.

* `CacheIsConsistent` (`CacheAgrees`): lemmas about each operation; `Touch` permutes
  the queue, `Insert` drops its head exactly when map and queue are full.
* `SourcesAreRespected` (`SourceRespected`): `SourceInv` says that what is asked of the
  index, what is drawn from the embeddings and what has been collected is of the documents the
  filter means, in every phase, also across the fallbacks.
* `OneVersionIsShown` (`OneVersionPerDocument`): `VersionInv` relates hits to the entry of
  the cache as long as it is there, and every version shown to those the file had since
  the call began.
* `FusionKeepsOrder` (`BetterInBothIsFirst`): the property is about the step that fuses; that the
  answer is not changed after it needs only that a look-up is no hybrid search (`FusionInv`). The
  work is in the arithmetic: the fused score is monotone in both scores, strictly in one
  that counts, and the best `n` of a set in the order of that score hold each element
  that is above one of them. Equal scores keep no order, and a weight of
  nothing (or a best similarity of zero) makes a strictly better rank worthless; the property
  excludes these.
* `SemanticIndexesAgree` (`BackendsAgree`): a graph that gives its nearest neighbours lists, up
  to its cut, what sorting all similarities lists; with a source, the graph cuts
  before it filters.
* `AnswersAreWellFormed` (`AnswerWellFormed`): `WellInv` is about the hits read so far
  together with those to read: a hit that cannot be read is dropped from the middle of a list,
  which leaves it in order, without repetition and within its limit; a chunk number is
  checked against the text at the time of its reading.
* `EmptyAnswersAreTrue` (`EmptyIsExhausted`): `EmptyInv` says of an identifier, as long as nothing
  was edited, that each of its cases is still in the plan, is being looked up with all files
  that have it ahead (`Hunted`), or is in no file: whatever of the three, an empty list at the
  end of the plan means the last.
* `SearchHasType` (`TypeOK`): from `SourceInv`, `VersionInv` and what the fallbacks are.

**SemanticStoreProofs.** `TypeCorrect`; `FilesAgree` (`DiskAgrees`);
`ServersServeTheirOwn` (`ServesAsConfigured`); `PreparedIndexIsServed`
(`PreparedIsServed`). A build is three writes, so `DiskAgrees` is broken and repaired within
one; the strengthening says which process the files belong to meanwhile (`Sure`: it is
alone in a directory nobody disturbed, or alone and building) and, for such a process, what
files and variables hold at each program point (`Known`). Stopping in the
middle, or a second process, sets `disturbed`, and only a complete build by a process
alone clears it.

**RequestsProofs.** `RequestsHasType`; `IdsLeadBack` (`IdLeadsBack`); `ServedStaysInside`
(`ServedIsInside`); `ReindexStaysInScope` (`ReindexScope`); `HoverStaysOnFile`
(`HoverIsOfTheFile`); `ReasonsAreTrue` (`ReasonIsTrue`). They hold for every set of file systems with
links in any number, every change of them and every way to write a path. The lemmas below them
say what canonicalizing does: it gives a real path or nothing, the real path of something that is
there is its own canonical one, so a path below a mount is found again by what follows the
root (`RealIsCanonical`, `ResolveOwn`, `IdResolves`). `FileIs` lists the ways
by which hover comes to a file: as an id with a label (`ByLabel`), as an id in the corpus
(`ByCorpus`), from a place where the path may start (`ByPlace`). Invariants: `TreeInv` (the mounts
stay as they were resolved, the corpus first, a label for one of them), `TypeInv` (what
is opened and answered lies inside), `CheckInv` (the path that is opened is its own canonical path, and
what is read is that file, as long as nothing has changed since the check), and `HoverInv`: as
long as nothing has moved, the id a hover holds is that of a file its path leads to, so is the path it
has opened, and reply or reason is true of that path. Assumed of the constants: names in a file system are not "", "." or ".."; the sources there may be
contain the first part of every indexable path in the corpus, which is itself a directory; a
local name is one in lower case, too.
Three of the properties were stated too broadly before they were proved, in cases the small
instance did not have: an id is not led back to a mount whose root has become a file or a link; a file that a
path leads to from its first place may be hidden by a label; and hover
takes the first place that leads into a mount and does not look for a text at the next one.

The properties that compare what the tools read out of a text are proved for every text, symbol,
position, limit and table of lower case: `SanitizedStaysClean` (`SanitizedIsClean`),
`InferredStaysFound` (`InferredIsFound`), `LocatedIsSeenByHover` (`HoverAtLocated`) and
`SnippetStaysInView` (`SnippetShowsMatch`). The recursive functions of `Lines` recurse over
positions; what they compute is proved by a least number at which it would be wrong
(`LeastNumber` in `OrderLemmas`), because induction theorems over an operator are out of the
prover's reach. The lemmas, in their order: the least and the
greatest of a set, and a set of numbers in order (`InOrder`); the scan of a line, which keeps
characters at places that only grow, and which changes nothing in a line that is already
blank where it should be (`MaskHas`, `SanitizedAre`); the lines of a text, also of one that has lost
white space at its end (`LinesOfTrimmed`); the search for a symbol, as the existence of an
occurrence that is delimited (`FoundFrom`); the stretch that hover takes a symbol from; the chunks, which
are parts of the text; the words of a text in lower case; and the window of a snippet.
Invariants: `ShownInv` (as long as nothing has moved, a reply of hover is `Hovered` of the text of its
file, and one of locate is `Located`), and `InView` (what a snippet shows, which stays true when files
change before the reply is delivered).
Assumed: texts and symbols are sequences of the characters that `Lowered` knows, none of which is
"no character"; lower case makes white space only of white space, and at least one character of
every character; the characters that delimit comments, strings and words are not those of names;
a file system has finitely many files.
Two properties were too broad before. A symbol with a blank in it is found by locate where a
comment or string has become blank, but not in the line itself, so `HoverAtLocated` is about
names. The snippet of a symbol of several words is placed by the first of them that occurs, so
`SnippetShowsMatch` is about one word. Column 0 is read as column 1.

Only model-checked: liveness (`CallsSettle`), because fairness and ENABLED are out of
the prover's reach. Every other property of a passing run is a theorem.

## 6. Findings

Each is a run whose property states what a document or comment says, and which TLC
violates by what the code does; `PROJECT.json` quotes both sides.

1. Without an index directory, `create_in_dir` writes `meta.json` before the code asks
   whether an index exists, so the new index is never built and stays empty unless
   the reindex flag is set.
2. The dirty flag is that of the first build after a commit: cargo does not run
   the build script again for an edit.
3. The prefixes of a query are told by its first four bytes, cut out as a string: a
   query with a character of two bytes there, such as "café", ends in a panic.
4. Hover numbers the lines of the text without its leading blanks; the line it is
   given by locate, or by a reader of the file, is another one if the file begins with
   a blank line.

Behaviour that a reader may not expect, but that no document contradicts; the models
have it, and the properties are stated around it:

* A panic in a reindex poisons `reindex_lock`; `try_lock` maps every error to
  "reindex already in progress; retry later", so every later call is told so.
* Freshness compares with the time of the commit: a file edited after it was
  read and before the commit is reported fresh and is not indexed (`hidden`).
* The contents of a gate artifact are checked only if its file name ends in
  `.json`; any other file that is new enough passes strict mode (`json`).
* `meta.json` of the semantic index is written before `embeddings.bin`, and the number
  of chunks does not depend on the model: a build for another model that ends between
  the two writes makes the next server search the old embeddings as the new ones
  (`disturbed`).
* A torn file of the semantic index fails every start without the reindex flag,
  also one that may build.
* A blank variable for the mode of admission or of resuming means "off", while one that is not
  set means the default.
* The TTL of a bypass is required and shown, and nothing ends when it has passed.
* `/health` shows the time of the index at startup; the resource of the index status
  turns an error of the freshness report into a report without stale sources.
* The merged request of several callers keeps the reason of the last one only, and one unknown
  label fails all of them.

## 7. Not modelled

* `prompts.rs`, `server.rs`, `llm.rs` and the registry: constant texts, wiring and
  counters for telemetry; `corpus/` and `scripts/`: third-party text and shell.
* Of `tools.rs` and `resources.rs`: the texts of `list_sources`, `index_status`, help and
  resource templates; related definitions; `spark.answer`; the cut of long documents.
  They keep no state and decide nothing the modelled tools rely on; what
  `list_sources` and `index_status` describe is `summary` and `totals` of `SearchIndex`.
* Of `main.rs`: the authentication layer, which is a library's, the trailing-slash layer,
  which runs after routing, and the layout of the attestation.
* The rankings of tantivy, of the embeddings and of the HNSW graph: libraries, chosen
  freely or assumed as described in section 2. So is the session manager.
* The composition of `AutoReindex` with `SearchIndex`: the job of the one is the refresh
  of the other, in the same steps under other names (`JobRead`, `JobPublish`); a module that
  runs both together would have no variable in common but the version of the files.
