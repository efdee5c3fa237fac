-------------------------- MODULE SearchIndexProofs --------------------------
(***************************************************************************)
(* Theorems about the life of the lexical index for every number of edits  *)
(* and every length of time.                                               *)
(***************************************************************************)
EXTENDS SearchIndex, TLAPS

\* The versions a refresh or a startup build carries only get newer on their
\* way from the files to the directory and from there to the reader.
Newer ==
  /\ dir = "absent" => content = 0
  /\ proc \in {"build", "commit", "ready", "up"} => dir = "present"
  /\ job # "idle" => proc = "up"
  /\ proc = "commit" \/ job = "commit" =>
       content <= snapshot /\ reported <= snapshot
  /\ job = "commit" => began <= snapshot
  /\ job \in {"reload", "report", "swap"} => began <= content
  /\ job \in {"report", "swap"} => began <= served
  /\ content # 0 => reported <= content
  /\ proc = "up" => served <= content

IInv == TypeOK /\ FreshUnlessHidden /\ Newer /\ ReportedSurvives

LEMMA InitIInv == Init => IInv
<1>1. Init => TypeOK
  <2>1. 1 \in 1..MaxTime /\ 1 \in 1..MaxVersion /\ 0 \in 0..1
    BY SearchIndexAssumption
  <2>2. Init => rebuild \in BOOLEAN /\ hidden \in BOOLEAN
    BY DEF Init
  <2> QED
    BY <2>1, <2>2 DEF Init, TypeOK
<1>2. Init => FreshUnlessHidden /\ Newer /\ ReportedSurvives
  BY DEF Init, FreshUnlessHidden, Newer, ReportedSurvives
<1> QED
  BY <1>1, <1>2 DEF IInv

-----------------------------------------------------------------------------
(* Type correctness. *)

\* The integers behind the bounds, which every later step compares.
LEMMA Numbers ==
  ASSUME TypeOK
  PROVE  /\ now \in Nat /\ mtime \in Nat /\ stamp \in Nat /\ corpus \in Nat
         /\ content \in Nat /\ snapshot \in Nat /\ scanned \in Nat
         /\ served \in Nat /\ summary \in Nat /\ totals \in Nat
         /\ began \in Nat /\ reported \in Nat
BY SearchIndexAssumption DEF TypeOK

LEMMA StepType == TypeOK /\ [Next]_vars => TypeOK'
<1> SUFFICES ASSUME TypeOK, [Next]_vars PROVE TypeOK'
  OBVIOUS
<1>0. /\ now \in Nat /\ mtime \in Nat /\ stamp \in Nat /\ corpus \in Nat
      /\ now \in 0..now /\ corpus \in 0..corpus /\ 0 \in 0..corpus /\ 0 \in 0..now
      /\ 0..corpus \subseteq 0..(corpus + 1) /\ 0..now \subseteq 0..(now + 1)
  BY Numbers
<1> USE <1>0, SearchIndexAssumption
    DEF files, disk, server, work, history, TypeOK
<1>1. ASSUME NEW r \in BOOLEAN, StartServer(r) PROVE TypeOK'
  BY <1>1 DEF StartServer
<1>2. CASE Wipe \/ ScanAtStart
  BY <1>2 DEF Wipe, ScanAtStart
<1>3. CASE OpenIndex
  BY <1>3 DEF OpenIndex
<1>4. CASE BuildAtStart \/ CommitAtStart
  <2>1. (snapshot # corpus) \in BOOLEAN
    OBVIOUS
  <2> QED
    BY <1>4, <2>1 DEF BuildAtStart, CommitAtStart, Commit
<1>5. CASE Serve \/ WatcherReload
  BY <1>5 DEF Serve, WatcherReload
<1>6. CASE Crash
  BY <1>6 DEF Crash
<1>7. CASE BeginReindex \/ ScanSources \/ BuildIndex
  BY <1>7 DEF BeginReindex, ScanSources, BuildIndex
<1>8. CASE CommitIndex
  <2>1. (snapshot # corpus) \in BOOLEAN
    OBVIOUS
  <2> QED
    BY <1>8, <2>1 DEF CommitIndex, Commit
<1>9. CASE Reload \/ ReplaceSources \/ ReportOk \/ FailReindex
  BY <1>9 DEF Reload, ReplaceSources, ReportOk, FailReindex
<1>10. CASE EditFile
  <2>1. (hidden \/ now <= stamp) \in BOOLEAN
    OBVIOUS
  <2> QED
    BY <1>10, <2>1 DEF EditFile
<1>11. CASE ReplaceFile
  <2>1. hidden' \in BOOLEAN
    BY <1>11 DEF ReplaceFile
  <2> QED
    BY <1>11, <2>1 DEF ReplaceFile
<1>12. CASE Tick
  BY <1>12 DEF Tick
<1>13. CASE UNCHANGED vars
  BY <1>13 DEF vars
<1> QED
  BY <1>1, <1>2, <1>3, <1>4, <1>5, <1>6, <1>7, <1>8, <1>9, <1>10, <1>11,
     <1>12, <1>13 DEF Next, Startup, Reindex

\* TypeOK: every version and time keeps within the ones that exist.
THEOREM TypeCorrect == Spec => []TypeOK
<1>1. Init => TypeOK
  BY InitIInv DEF IInv
<1> QED
  BY <1>1, StepType, PTL DEF Spec

-----------------------------------------------------------------------------
(* The freshness report. *)

LEMMA StepFreshUnlessHidden ==
  TypeOK /\ FreshUnlessHidden /\ [Next]_vars => FreshUnlessHidden'
<1> SUFFICES ASSUME TypeOK, FreshUnlessHidden, [Next]_vars
             PROVE  FreshUnlessHidden'
  OBVIOUS
<1>0. now \in Nat /\ mtime \in Nat /\ stamp \in Nat /\ corpus \in Nat
  BY Numbers
<1> USE DEF files, disk, server, work, history, FreshUnlessHidden, Stale
<1>1. ASSUME NEW r \in BOOLEAN, StartServer(r) PROVE FreshUnlessHidden'
  BY <1>1 DEF StartServer
<1>2. CASE Wipe \/ OpenIndex
  BY <1>2 DEF Wipe, OpenIndex
<1>3. CASE ScanAtStart \/ BuildAtStart \/ Serve \/ WatcherReload
  BY <1>3 DEF ScanAtStart, BuildAtStart, Serve, WatcherReload
<1>4. CASE CommitAtStart \/ CommitIndex
  BY <1>4 DEF CommitAtStart, CommitIndex, Commit
<1>5. CASE Crash
  BY <1>5 DEF Crash
<1>6. CASE BeginReindex \/ ScanSources \/ BuildIndex \/ Reload
           \/ ReplaceSources \/ ReportOk \/ FailReindex
  BY <1>6 DEF BeginReindex, ScanSources, BuildIndex, Reload, ReplaceSources,
              ReportOk, FailReindex
<1>7. CASE EditFile \/ ReplaceFile
  <2>1. hidden' \/ mtime' > stamp'
    <3>1. CASE EditFile /\ now <= stamp
      BY <3>1 DEF EditFile
    <3>2. CASE EditFile /\ ~(now <= stamp)
      BY <1>0, <3>2 DEF EditFile
    <3> QED
      BY <1>7, <3>1, <3>2 DEF ReplaceFile
  <2> QED
    BY <2>1
<1>8. CASE Tick \/ UNCHANGED vars
  BY <1>8 DEF Tick, vars
<1> QED
  BY <1>1, <1>2, <1>3, <1>4, <1>5, <1>6, <1>7, <1>8 DEF Next, Startup, Reindex

\* FreshUnlessHidden: a report without stale sources is wrong only about
\* changes that modification times cannot show.
THEOREM FreshReports == Spec => []FreshUnlessHidden
<1>1. Init => FreshUnlessHidden
  BY InitIInv DEF IInv
<1> QED
  BY <1>1, StepFreshUnlessHidden, TypeCorrect, PTL DEF Spec

-----------------------------------------------------------------------------
(* What was reported survives. *)

LEMMA StepNewer ==
  TypeOK /\ Newer /\ ReportedSurvives /\ [Next]_vars
    => Newer' /\ ReportedSurvives'
<1> SUFFICES ASSUME TypeOK, Newer, ReportedSurvives, [Next]_vars
             PROVE  Newer' /\ ReportedSurvives'
  OBVIOUS
<1>0. /\ corpus \in Nat /\ content \in Nat /\ snapshot \in Nat
      /\ served \in Nat /\ began \in Nat /\ reported \in Nat
      /\ content <= corpus /\ began <= corpus /\ reported <= corpus
  BY Numbers DEF TypeOK
<1> USE DEF files, disk, server, work, history, Newer, ReportedSurvives
<1>1. ASSUME NEW r \in BOOLEAN, StartServer(r)
      PROVE  Newer' /\ ReportedSurvives'
  BY <1>0, <1>1 DEF StartServer
<1>2. CASE Wipe \/ ScanAtStart
  BY <1>0, <1>2 DEF Wipe, ScanAtStart
<1>3. CASE OpenIndex
  BY <1>0, <1>3 DEF OpenIndex
<1>4. CASE BuildAtStart
  BY <1>0, <1>4 DEF BuildAtStart
<1>5. CASE CommitAtStart
  BY <1>0, <1>5 DEF CommitAtStart, Commit
<1>6. CASE Serve \/ WatcherReload
  BY <1>0, <1>6 DEF Serve, WatcherReload
<1>7. CASE Crash
  BY <1>0, <1>7 DEF Crash
<1>8. CASE BeginReindex \/ ScanSources \/ BuildIndex
  BY <1>0, <1>8 DEF BeginReindex, ScanSources, BuildIndex
<1>9. CASE CommitIndex
  BY <1>0, <1>9 DEF CommitIndex, Commit
<1>10. CASE Reload \/ ReplaceSources \/ ReportOk \/ FailReindex
  BY <1>0, <1>10 DEF Reload, ReplaceSources, ReportOk, FailReindex
<1>11. CASE EditFile \/ ReplaceFile \/ Tick
  BY <1>0, <1>11 DEF EditFile, ReplaceFile, Tick
<1>12. CASE UNCHANGED vars
  BY <1>12 DEF vars
<1> QED
  BY <1>1, <1>2, <1>3, <1>4, <1>5, <1>6, <1>7, <1>8, <1>9, <1>10, <1>11,
     <1>12 DEF Next, Startup, Reindex

\* The strengthening is an invariant.
THEOREM Inductive == Spec => []IInv
<1>1. IInv /\ [Next]_vars => IInv'
  BY StepType, StepFreshUnlessHidden, StepNewer DEF IInv
<1> QED
  BY <1>1, InitIInv, PTL DEF Spec

\* ReportedSurvives: a server that is up serves every edit an "ok" has
\* vouched for, unless an interrupted rebuild left the index empty.
THEOREM ReportsSurvive == Spec => []ReportedSurvives
<1>1. IInv => ReportedSurvives
  BY DEF IInv
<1> QED
  BY <1>1, Inductive, PTL

\* NeverGoesBack: neither the index on disk nor what is served goes back to
\* an earlier version, except by the remove_dir_all of a startup.
THEOREM NoWayBack == Spec => NeverGoesBack
<1> DEFINE Forward == /\ content' < content => proc = "wipe"
                      /\ proc = "up" /\ proc' = "up" => served' >= served
<1>1. ASSUME IInv, [Next]_vars PROVE [Forward]_vars
  <2>0. /\ corpus \in Nat /\ content \in Nat /\ snapshot \in Nat
        /\ served \in Nat
    BY <1>1, Numbers DEF IInv
  <2> USE DEF files, disk, server, work, history
  <2>1. ASSUME NEW r \in BOOLEAN, StartServer(r) PROVE Forward
    BY <2>0, <2>1 DEF StartServer
  <2>2. CASE Wipe \/ ScanAtStart \/ BuildAtStart \/ Serve \/ Crash
    BY <2>0, <2>2 DEF Wipe, ScanAtStart, BuildAtStart, Serve, Crash
  <2>3. CASE OpenIndex
    BY <1>1, <2>0, <2>3 DEF OpenIndex, IInv, Newer
  <2>4. CASE CommitAtStart \/ CommitIndex
    BY <1>1, <2>0, <2>4 DEF CommitAtStart, CommitIndex, Commit, IInv, Newer
  <2>5. CASE Reload \/ WatcherReload
    BY <1>1, <2>0, <2>5 DEF Reload, WatcherReload, IInv, Newer
  <2>6. CASE BeginReindex \/ ScanSources \/ BuildIndex \/ ReplaceSources
             \/ ReportOk \/ FailReindex
    BY <2>0, <2>6 DEF BeginReindex, ScanSources, BuildIndex, ReplaceSources,
                      ReportOk, FailReindex
  <2>7. CASE EditFile \/ ReplaceFile \/ Tick
    BY <2>0, <2>7 DEF EditFile, ReplaceFile, Tick
  <2> QED
    BY <1>1, <2>1, <2>2, <2>3, <2>4, <2>5, <2>6, <2>7
    DEF Next, Startup, Reindex
<1> QED
  BY <1>1, Inductive, PTL DEF Spec, NeverGoesBack

-----------------------------------------------------------------------------
(* What the source summary describes. *)

\* A refresh counts the files after its caller has written them, and both
\* summaries come from that count or from the one of a later startup.
Counted ==
  /\ job # "idle" => reported <= began
  /\ job \in {"read", "commit", "reload", "report", "swap"} => began <= scanned
  /\ job = "swap" => summary = scanned
  /\ proc \in {"open", "build", "commit", "ready", "up"} =>
       reported <= summary /\ reported <= totals
  /\ proc \in {"open", "build", "commit", "ready"} => totals = summary
  /\ proc = "up" /\ job # "swap" => totals = summary

LEMMA StepCounted ==
  TypeOK /\ Newer /\ Counted /\ [Next]_vars => Counted'
<1> SUFFICES ASSUME TypeOK, Newer, Counted, [Next]_vars PROVE Counted'
  OBVIOUS
<1>0. /\ corpus \in Nat /\ scanned \in Nat /\ summary \in Nat
      /\ totals \in Nat /\ began \in Nat /\ reported \in Nat
      /\ began <= corpus /\ reported <= corpus
  BY Numbers DEF TypeOK
<1> USE <1>0 DEF files, disk, server, work, history, Newer, Counted
<1>1. ASSUME NEW r \in BOOLEAN, StartServer(r) PROVE Counted'
  BY <1>1 DEF StartServer
<1>2. CASE Wipe \/ ScanAtStart \/ OpenIndex
  BY <1>2 DEF Wipe, ScanAtStart, OpenIndex
<1>3. CASE BuildAtStart \/ CommitAtStart \/ Serve \/ WatcherReload
  BY <1>3 DEF BuildAtStart, CommitAtStart, Commit, Serve, WatcherReload
<1>4. CASE Crash
  BY <1>4 DEF Crash
<1>5. CASE BeginReindex \/ ScanSources
  BY <1>5 DEF BeginReindex, ScanSources
<1>6. CASE BuildIndex \/ CommitIndex \/ Reload
  BY <1>6 DEF BuildIndex, CommitIndex, Commit, Reload
<1>7. CASE ReplaceSources \/ ReportOk
  BY <1>7 DEF ReplaceSources, ReportOk
<1>8. CASE FailReindex
  BY <1>8 DEF FailReindex
<1>9. CASE EditFile \/ ReplaceFile \/ Tick \/ UNCHANGED vars
  BY <1>9 DEF EditFile, ReplaceFile, Tick, vars
<1> QED
  BY <1>1, <1>2, <1>3, <1>4, <1>5, <1>6, <1>7, <1>8, <1>9
  DEF Next, Startup, Reindex

\* The two summaries come from counts that are new enough.
THEOREM CountedAlways == Spec => []Counted
<1>1. Init => Counted
  BY DEF Init, Counted
<1>2. IInv /\ Counted /\ [Next]_vars => Counted'
  BY StepCounted DEF IInv
<1> QED
  BY <1>1, <1>2, Inductive, PTL DEF Spec

\* SummarySurvives: list_sources and the totals describe files at least as new
\* as those the caller of any refresh reported "ok" had written, and the same
\* files but for the time between two lock sections.
THEOREM SummariesSurvive == Spec => []SummarySurvives
<1>1. TypeOK /\ Counted => SummarySurvives
  BY Numbers DEF Counted, SummarySurvives
<1> QED
  BY <1>1, TypeCorrect, CountedAlways, PTL

=============================================================================
