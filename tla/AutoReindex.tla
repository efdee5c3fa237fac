---------------------------- MODULE AutoReindex -----------------------------
(***************************************************************************)
(* The background reindex coordinator (src/src/auto_reindex.rs): callers   *)
(* of force_and_wait and schedule leave a request in the shared state and  *)
(* wake one worker task; the worker waits until the request is due, takes  *)
(* it, runs SearchIndex::reindex_scoped on a thread of its own and answers *)
(* every waiter whose request was part of what it took.                    *)
(*                                                                         *)
(* Each critical section of the state mutex contains no await and is one   *)
(* step.  The steps outside it are steps of their own: notify_waiters      *)
(* after the unlock, the creation of the worker's Notified future, the     *)
(* comparison of a deadline that was copied before the unlock.             *)
(*                                                                         *)
(* Time is relative: a deadline is the number of ticks until it is reached *)
(* (0: now, -1: past), so that the model needs no clock and no bound on    *)
(* one.  The corpus and the served index are version numbers.              *)
(***************************************************************************)
EXTENDS Integers

CONSTANTS
  Calls,        \* calls of force_and_wait: each is made at most once
  Schedulers,   \* callers of schedule: each calls it again and again
  Names,        \* source labels and workspace paths a request can name
  Known,        \* those that resolve_reindex_sources accepts
  Scope,        \* the names in the request of each call and scheduler
  Debounce,     \* the debounce delay of schedule, in ticks
  MaxGen,       \* the value at which the generation counter saturates
  MaxEdits      \* bound on the edits of the corpus

ASSUME CallersAssumption ==
  /\ Calls \cap Schedulers = {}
  /\ Scope \in [Calls \cup Schedulers -> SUBSET Names]
  /\ Known \subseteq Names
ASSUME BoundsAssumption ==
  /\ Debounce \in Nat
  /\ MaxGen \in Nat \ {0}
  /\ MaxEdits \in Nat

VARIABLES
  generation,   \* State.generation
  running,      \* State.running
  pending,      \* State.pending: no element or one
  waiters,      \* State.waiters
  notified,     \* the worker's Notified future: none, armed or fired
  wpc,          \* where run_loop is
  seen,         \* the deadline run_loop copied out of the critical section
  current,      \* the request run_loop took: no element or one
  job,          \* the spark-mcp-reindex thread
  outcome,      \* what the thread reported
  lock,         \* SearchIndex.reindex_lock: free, held or poisoned
  snapshot,     \* the corpus version the running job read
  corpus,       \* version of the files on disk
  served,       \* version of the files the search results come from
  pc,           \* where each caller is
  answer,       \* what each call's oneshot channel delivered
  asked         \* history: the corpus version when the call was made

state     == <<generation, running, pending, waiters>>
worker    == <<notified, wpc, seen, current>>
jobVars   == <<job, outcome, lock, snapshot>>
indexVars == <<corpus, served>>
callVars  == <<pc, answer, asked>>
vars      == <<state, worker, jobVars, indexVars, callVars>>

Callers == Calls \cup Schedulers
Answers == {"ok", "scope", "busy", "internal"}
Pending == [generation : 1..MaxGen, scope : SUBSET Names, due : -1..Debounce]
Batch   == [generation : 1..MaxGen, scope : SUBSET Names]
Waiter  == [generation : 1..MaxGen, call : Calls]

TypeOK ==
  /\ generation \in 0..MaxGen
  /\ running \in BOOLEAN
  /\ pending \in SUBSET Pending
  /\ waiters \in SUBSET Waiter
  /\ notified \in {"none", "armed", "fired"}
  /\ wpc \in {"top", "read", "check", "wait", "sleep", "take", "spawn", "join"}
  /\ seen \in -1..Debounce
  /\ current \in SUBSET Batch
  /\ job \in {"none", "start", "locked", "read", "done"}
  /\ outcome \in Answers \cup {"none"}
  /\ lock \in {"free", "held", "poisoned"}
  /\ snapshot \in 0..MaxEdits
  /\ corpus \in 0..MaxEdits
  /\ served \in 0..MaxEdits
  /\ pc \in [Callers -> {"idle", "notify", "await", "done", "cancelled"}]
  /\ answer \in [Calls -> Answers \cup {"none"}]
  /\ asked \in [Calls -> 0..MaxEdits]
  /\ running = (current # {})

Init ==
  /\ generation = 0
  /\ running = FALSE
  /\ pending = {}
  /\ waiters = {}
  /\ notified = "none"
  /\ wpc = "top"
  /\ seen = -1
  /\ current = {}
  /\ job = "none"
  /\ outcome = "none"
  /\ lock = "free"
  /\ snapshot = 0
  /\ corpus = 0
  /\ served = 0
  /\ pc = [c \in Callers |-> "idle"]
  /\ answer = [c \in Calls |-> "none"]
  /\ asked = [c \in Calls |-> 0]

-----------------------------------------------------------------------------
(* The helpers of the coordinator. *)

Earlier(a, b) == IF a <= b THEN a ELSE b
Later(a, b)   == IF a <= b THEN b ELSE a

\* generation.saturating_add(1)
NextGeneration == IF generation < MaxGen THEN generation + 1 ELSE generation

\* A request is due when its deadline is strictly in the past.
Due(deadline) == deadline < 0

\* Mutant: the latest request replaces the pending one.
MergeRequestLatest(left, right) == right

MergeRequest(left, right) == left \cup right

\* Mutant: a debounced request postpones even a request that is due.
MergedDeadlinePostpones(policy, existing, incoming) ==
  IF policy = "Force" THEN Earlier(incoming, existing)
                      ELSE Later(incoming, existing)

MergedDeadline(policy, existing, incoming) ==
  CASE policy = "Force"                      -> Earlier(incoming, existing)
    [] policy = "Debounced" /\ existing <= 0 -> existing
    [] policy = "Debounced" /\ existing > 0  -> Later(incoming, existing)

\* Mutant: the merged request keeps the generation of the older one.
MergePendingOldGeneration(existing, incoming, policy) ==
  IF existing = {}
  THEN {incoming}
  ELSE {[p EXCEPT !.scope = MergeRequest(p.scope, incoming.scope),
                  !.due   = MergedDeadline(policy, p.due, incoming.due)]
           : p \in existing}

\* What becomes of State.pending when a request joins it.
MergePending(existing, incoming, policy) ==
  IF existing = {}
  THEN {incoming}
  ELSE {[generation |-> Later(incoming.generation, p.generation),
         scope      |-> MergeRequest(p.scope, incoming.scope),
         due        |-> MergedDeadline(policy, p.due, incoming.due)]
           : p \in existing}

\* The waiters whose request was part of the batch that finished.
Served(batch) == {w \in waiters : \E b \in batch : w.generation <= b.generation}

\* Mutant: only a future that is being polled hears the notification.
NotifyPolledOnly ==
  notified' = IF notified = "armed" /\ wpc \in {"wait", "sleep"}
              THEN "fired" ELSE notified

\* notify_waiters wakes a future that exists; it leaves no permit behind.
NotifyWaiters == notified' = IF notified = "armed" THEN "fired" ELSE notified

-----------------------------------------------------------------------------
(* The callers. *)

\* force_and_wait up to the unlock.
ForceAndWait(c) ==
  /\ pc[c] = "idle"
  /\ generation' = NextGeneration
  /\ pending' = MergePending(
        pending,
        [generation |-> NextGeneration, scope |-> Scope[c], due |-> 0],
        "Force")
  /\ waiters' = waiters \cup {[generation |-> NextGeneration, call |-> c]}
  /\ pc' = [pc EXCEPT ![c] = "notify"]
  /\ asked' = [asked EXCEPT ![c] = corpus]
  /\ UNCHANGED <<running, worker, jobVars, indexVars, answer>>

\* notify_waiters after the unlock of force_and_wait.
ForceNotify(c) ==
  /\ pc[c] = "notify"
  /\ NotifyWaiters
  /\ pc' = [pc EXCEPT ![c] = "await"]
  /\ UNCHANGED <<state, wpc, seen, current, jobVars, indexVars, answer, asked>>

\* The receiver resolves and force_and_wait returns.
Return(c) ==
  /\ pc[c] = "await"
  /\ answer[c] # "none"
  /\ pc' = [pc EXCEPT ![c] = "done"]
  /\ UNCHANGED <<state, worker, jobVars, indexVars, answer, asked>>

\* The future of force_and_wait is dropped at its await; its waiter stays.
Cancel(c) ==
  /\ pc[c] = "await"
  /\ pc' = [pc EXCEPT ![c] = "cancelled"]
  /\ UNCHANGED <<state, worker, jobVars, indexVars, answer, asked>>

\* schedule up to the unlock.
Schedule(s) ==
  /\ pc[s] = "idle"
  /\ generation' = NextGeneration
  /\ pending' = MergePending(
        pending,
        [generation |-> NextGeneration, scope |-> Scope[s], due |-> Debounce],
        "Debounced")
  /\ pc' = [pc EXCEPT ![s] = "notify"]
  /\ UNCHANGED <<running, waiters, worker, jobVars, indexVars, answer, asked>>

\* notify_waiters after the unlock of schedule, which then returns.
ScheduleNotify(s) ==
  /\ pc[s] = "notify"
  /\ NotifyWaiters
  /\ pc' = [pc EXCEPT ![s] = "idle"]
  /\ UNCHANGED <<state, wpc, seen, current, jobVars, indexVars, answer, asked>>

-----------------------------------------------------------------------------
(* The worker task, run_loop. *)

\* A new turn of the loop: the Notified future exists from here on.
Arm ==
  /\ wpc = "top"
  /\ notified' = "armed"
  /\ wpc' = "read"
  /\ UNCHANGED <<state, seen, current, jobVars, indexVars, callVars>>

\* The first critical section: copy the pending request unless one runs.
ReadPending ==
  /\ wpc = "read"
  /\ \/ /\ running \/ pending = {}
        /\ wpc' = "wait"
        /\ UNCHANGED seen
     \/ /\ ~running
        /\ \E p \in pending : seen' = p.due
        /\ wpc' = "check"
  /\ UNCHANGED <<state, notified, current, jobVars, indexVars, callVars>>

\* Nothing to do: the loop awaits the future and starts over.
Woken ==
  /\ wpc = "wait"
  /\ notified = "fired"
  /\ wpc' = "top"
  /\ UNCHANGED <<state, notified, seen, current, jobVars, indexVars, callVars>>

\* The deadline of the copy is compared outside the lock.
CheckDue ==
  /\ wpc = "check"
  /\ wpc' = IF Due(seen) THEN "take" ELSE "sleep"
  /\ UNCHANGED <<state, notified, seen, current, jobVars, indexVars, callVars>>

\* select! of the sleep until the copied deadline and the notification.
Sleep ==
  /\ wpc = "sleep"
  /\ seen <= 0 \/ notified = "fired"
  /\ wpc' = "top"
  /\ seen' = -1
  /\ UNCHANGED <<state, notified, current, jobVars, indexVars, callVars>>

\* The second critical section: everything is looked at again.
Take ==
  /\ wpc = "take"
  /\ \/ /\ ~running
        /\ \E p \in pending :
             /\ Due(p.due)
             /\ current' = {[generation |-> p.generation, scope |-> p.scope]}
        /\ pending' = {}
        /\ running' = TRUE
        /\ wpc' = "spawn"
     \/ /\ running \/ \A p \in pending : ~Due(p.due)
        /\ wpc' = "top"
        /\ UNCHANGED <<running, pending, current>>
  /\ seen' = -1
  /\ UNCHANGED <<generation, waiters, notified, jobVars, indexVars, callVars>>

\* thread::Builder::spawn, which may fail.
Spawn ==
  /\ wpc = "spawn"
  /\ wpc' = "join"
  /\ \/ job' = "start" /\ UNCHANGED outcome
     \/ job' = "done" /\ outcome' = "internal"
  /\ UNCHANGED <<state, notified, seen, current, lock, snapshot,
                 indexVars, callVars>>

\* Mutant: the waiters that were answered stay in the list.
FinishKeepsWaiters ==
  /\ wpc = "join"
  /\ job = "done"
  /\ running' = FALSE
  /\ answer' = [c \in Calls |->
                  IF /\ pc[c] # "cancelled"
                     /\ \E w \in Served(current) : w.call = c
                  THEN outcome ELSE answer[c]]
  /\ current' = {}
  /\ job' = "none"
  /\ outcome' = "none"
  /\ NotifyWaiters
  /\ wpc' = "top"
  /\ UNCHANGED <<generation, pending, waiters, seen, lock, snapshot, indexVars,
                 pc, asked>>

\* Mutant: the worker does not note that nothing runs any more.
FinishStaysRunning ==
  /\ wpc = "join"
  /\ job = "done"
  /\ waiters' = waiters \ Served(current)
  /\ answer' = [c \in Calls |->
                  IF /\ pc[c] # "cancelled"
                     /\ \E w \in Served(current) : w.call = c
                  THEN outcome ELSE answer[c]]
  /\ current' = {}
  /\ job' = "none"
  /\ outcome' = "none"
  /\ NotifyWaiters
  /\ wpc' = "top"
  /\ UNCHANGED <<generation, running, pending, seen, lock, snapshot, indexVars,
                 pc, asked>>

\* The outcome is in: the last critical section and the notification that
\* follows it, whose only listener is this task's own future.
Finish ==
  /\ wpc = "join"
  /\ job = "done"
  /\ running' = FALSE
  /\ waiters' = waiters \ Served(current)
  /\ answer' = [c \in Calls |->
                  IF /\ pc[c] # "cancelled"
                     /\ \E w \in Served(current) : w.call = c
                  THEN outcome ELSE answer[c]]
  /\ current' = {}
  /\ job' = "none"
  /\ outcome' = "none"
  /\ NotifyWaiters
  /\ wpc' = "top"
  /\ UNCHANGED <<generation, pending, seen, lock, snapshot, indexVars,
                 pc, asked>>

-----------------------------------------------------------------------------
(* The reindex thread: reindex_scoped as the coordinator sees it.          *)

\* try_lock fails on a held lock and on a poisoned one alike.
JobLock ==
  /\ job = "start"
  /\ \/ lock = "free" /\ lock' = "held" /\ job' = "locked" /\ UNCHANGED outcome
     \/ lock # "free" /\ job' = "done" /\ outcome' = "busy" /\ UNCHANGED lock
  /\ UNCHANGED <<state, worker, snapshot, indexVars, callVars>>

\* The scope resolves and the corpus is walked.
JobRead ==
  /\ job = "locked"
  /\ \A b \in current : b.scope \subseteq Known
  /\ snapshot' = corpus
  /\ job' = "read"
  /\ UNCHANGED <<state, worker, outcome, lock, indexVars, callVars>>

\* Mutant: the reader is not reloaded.
JobPublishNoReload ==
  /\ job = "read"
  /\ job' = "done"
  /\ outcome' = "ok"
  /\ lock' = "free"
  /\ UNCHANGED <<state, worker, snapshot, indexVars, callVars>>

\* Commit and reload: the results come from the new index.
JobPublish ==
  /\ job = "read"
  /\ served' = snapshot
  /\ job' = "done"
  /\ outcome' = "ok"
  /\ lock' = "free"
  /\ UNCHANGED <<state, worker, snapshot, corpus, callVars>>

\* An unknown name fails the whole batch.
JobReject ==
  /\ job = "locked"
  /\ \E b \in current : ~(b.scope \subseteq Known)
  /\ job' = "done"
  /\ outcome' = "scope"
  /\ lock' = "free"
  /\ UNCHANGED <<state, worker, snapshot, indexVars, callVars>>

\* Any other error, before the commit or between it and the return.
JobFail ==
  /\ job \in {"locked", "read"}
  /\ \A b \in current : b.scope \subseteq Known
  /\ job' = "done"
  /\ outcome' = "internal"
  /\ lock' = "free"
  /\ \/ UNCHANGED served
     \/ job = "read" /\ served' = snapshot
  /\ UNCHANGED <<state, worker, snapshot, corpus, callVars>>

\* The thread unwinds: the guard poisons the lock, the sender is dropped.
JobPanic ==
  /\ job \in {"locked", "read"}
  /\ job' = "done"
  /\ outcome' = "internal"
  /\ lock' = "poisoned"
  /\ \/ UNCHANGED served
     \/ job = "read" /\ served' = snapshot
  /\ UNCHANGED <<state, worker, snapshot, corpus, callVars>>

-----------------------------------------------------------------------------
(* The surroundings. *)

\* A file of the corpus is edited.
Edit ==
  /\ corpus < MaxEdits
  /\ corpus' = corpus + 1
  /\ UNCHANGED <<state, worker, jobVars, served, callVars>>

\* Time passes for every deadline that still lies ahead.
Tick ==
  /\ seen >= 0 \/ \E p \in pending : p.due >= 0
  /\ seen' = Later(seen - 1, -1)
  /\ pending' = {[p EXCEPT !.due = Later(p.due - 1, -1)] : p \in pending}
  /\ UNCHANGED <<generation, running, waiters, notified, wpc, current,
                 jobVars, indexVars, callVars>>

Worker == Arm \/ ReadPending \/ Woken \/ CheckDue \/ Sleep \/ Take \/ Spawn
          \/ Finish
Job    == JobLock \/ JobRead \/ JobPublish \/ JobReject \/ JobFail \/ JobPanic

Next ==
  \/ \E c \in Calls : ForceAndWait(c) \/ ForceNotify(c) \/ Return(c) \/ Cancel(c)
  \/ \E s \in Schedulers : Schedule(s) \/ ScheduleNotify(s)
  \/ Worker
  \/ Job
  \/ Edit
  \/ Tick

\* The runtime polls a task that is ready, the thread runs on, time passes,
\* and a caller that left the critical section reaches its notify_waiters.
\* Nothing makes anybody call, cancel or edit.
Fairness ==
  /\ WF_vars(Worker)
  /\ WF_vars(Job)
  /\ WF_vars(Tick)
  /\ \A c \in Calls : WF_vars(ForceNotify(c))
  /\ \A c \in Calls : WF_vars(Return(c))
  /\ \A s \in Schedulers : WF_vars(ScheduleNotify(s))

Spec     == Init /\ [][Next]_vars
FairSpec == Spec /\ Fairness

-----------------------------------------------------------------------------
(* Properties. *)

\* The counter has not run out of values: with MaxGen standing for the
\* 2^64 - 1 of the code, every state the program reaches.
Unsaturated == generation < MaxGen

\* A call whose unlock is behind it and that has heard nothing yet.
Unanswered(c) == pc[c] \in {"notify", "await"} /\ answer[c] = "none"

\* "ok" means the index now serves every edit made before the call, however
\* the request was merged, whichever run answered it and whatever failed
\* before: run_loop's drain of the waiters against the run it just joined.
AnswerFresh ==
  Unsaturated => \A c \in Calls : answer[c] = "ok" => asked[c] <= served

\* A call that names an unknown source or path is never told "ok": merging
\* with valid requests, earlier or later, does not lose the invalid name.
FailClosed ==
  Unsaturated => \A c \in Calls : answer[c] = "ok" => Scope[c] \subseteq Known

\* Every call still to be answered has its waiter in the state, and some
\* request, pending or taken, is recent enough to answer it.
NoLostWaiter ==
  \A c \in Calls :
    Unanswered(c) =>
      \E w \in waiters :
        /\ w.call = c
        /\ \E b \in pending \cup current : w.generation <= b.generation

\* The worker does not sleep through a request: when it is about to block on
\* an unfired future although a request is pending, or until later than the
\* deadline of the request, the caller that made it so is between its unlock
\* and its notify_waiters.
NoMissedWakeup ==
  notified = "armed" =>
    \A p \in pending :
      \/ wpc = "wait"
      \/ wpc \in {"check", "sleep"} /\ p.due < seen
      => \E c \in Callers : pc[c] = "notify"

\* "busy", which classify_reindex_error words as "reindex already in progress;
\* retry later", is never due to the coordinator itself: one job runs at a
\* time and gives the lock back on every way out, so only a panic of an
\* earlier job, which poisons the lock for good, makes try_lock fail.
BusyNeedsPanic == outcome = "busy" => lock = "poisoned"

\* The coordinator implements the service its callers are promised.
Status(c) ==
  CASE answer[c] # "none"                             -> answer[c]
    [] answer[c] = "none" /\ pc[c] = "idle"           -> "idle"
    [] answer[c] = "none" /\ pc[c] = "cancelled"      -> "gone"
    [] answer[c] = "none" /\ pc[c] \in {"notify", "await"} -> "waiting"
    [] answer[c] = "none" /\ pc[c] = "done"           -> "waiting"

Service == INSTANCE ReindexService
  WITH status <- [c \in Calls |-> Status(c)], broken <- lock = "poisoned"

\* Every step of the coordinator is a step of ReindexService or none at all.
ImplementsService == Service!Spec

\* Nobody waits for ever, even while schedule is called without end.
CallsSettle == Service!EveryCallSettles

=============================================================================
