------------------------- MODULE AutoReindexProofs --------------------------
(***************************************************************************)
(* Theorems about the coordinator for every set of callers, every scope    *)
(* and every value of the bounds.  The inductive invariant says what the   *)
(* shared state and the worker know about each other; each property of     *)
(* AutoReindex that is proved here follows from it, and so does the        *)
(* refinement of ReindexService.                                           *)
(***************************************************************************)
EXTENDS AutoReindex, TLAPS

AtMostOne(S) == \A x, y \in S : x = y

\* The request a waiter is part of has been taken by the running job.
TakenBy(w) == \E b \in current : w.generation <= b.generation

\* Where the worker is determines what it holds.
Phases ==
  /\ AtMostOne(pending)
  /\ AtMostOne(current)
  /\ running <=> wpc \in {"spawn", "join"}
  /\ current = {} <=> wpc \notin {"spawn", "join"}
  /\ job = "none" <=> wpc # "join"
  /\ job = "done" <=> outcome # "none"

\* Generations only grow, and the pending request carries the latest one.
Generations ==
  /\ \A p \in pending : p.generation = generation
  /\ \A b \in current : b.generation <= generation
  /\ \A w \in waiters : w.generation <= generation

\* Every waiter belongs to a pending or a taken request, every unanswered
\* call has a waiter, and a call not made yet has neither waiter nor answer.
Waiting ==
  /\ \A w \in waiters : \E b \in pending \cup current :
                            w.generation <= b.generation
  /\ \A c \in Calls : Unanswered(c) => \E w \in waiters : w.call = c
  /\ \A c \in Calls : pc[c] = "idle" => answer[c] = "none"
  /\ \A w \in waiters : pc[w.call] # "idle"

\* How versions are ordered.
Versions ==
  /\ snapshot <= corpus
  /\ served <= corpus
  /\ job = "read" => served <= snapshot
  /\ \A c \in Calls : asked[c] <= corpus

\* What a run has read includes what its own waiters asked for.
Fresh ==
  Unsaturated =>
    /\ \A c \in Calls : answer[c] = "ok" => asked[c] <= served
    /\ \A w \in waiters : TakenBy(w) =>
         /\ job = "read" => asked[w.call] <= snapshot
         /\ job = "done" /\ outcome = "ok" => asked[w.call] <= served

\* The scope of a request covers the scopes of its waiters.
Scopes ==
  /\ job = "read" \/ outcome = "ok" => \A b \in current : b.scope \subseteq Known
  /\ Unsaturated =>
    /\ \A c \in Calls : answer[c] = "ok" => Scope[c] \subseteq Known
    /\ \A w \in waiters, b \in current :
         w.generation <= b.generation => Scope[w.call] \subseteq b.scope
    /\ \A w \in waiters, p \in pending :
         ~TakenBy(w) => Scope[w.call] \subseteq p.scope

IInv ==
  /\ TypeOK
  /\ Phases
  /\ Generations
  /\ Waiting
  /\ NoMissedWakeup
  /\ Versions
  /\ Fresh
  /\ Scopes

-----------------------------------------------------------------------------
(* What the helpers return. *)

\* Merging keeps the type, and there is always a request afterwards.
LEMMA MergeType ==
  ASSUME NEW existing \in SUBSET Pending, NEW incoming \in Pending,
         NEW policy \in {"Force", "Debounced"}
  PROVE  /\ MergePending(existing, incoming, policy) \in SUBSET Pending
         /\ MergePending(existing, incoming, policy) # {}
<1>1. CASE existing = {}
  BY <1>1 DEF MergePending
<1>2. CASE existing # {}
  <2>1. ASSUME NEW p \in existing
        PROVE  /\ Later(incoming.generation, p.generation) \in 1..MaxGen
               /\ MergeRequest(p.scope, incoming.scope) \in SUBSET Names
               /\ MergedDeadline(policy, p.due, incoming.due) \in -1..Debounce
    <3>1. p \in Pending
      OBVIOUS
    <3> QED
      BY <3>1, BoundsAssumption
      DEF Pending, Later, Earlier, MergeRequest, MergedDeadline
  <2> DEFINE Merged(p) ==
        [generation |-> Later(incoming.generation, p.generation),
         scope      |-> MergeRequest(p.scope, incoming.scope),
         due        |-> MergedDeadline(policy, p.due, incoming.due)]
  <2>2. \A p \in existing : Merged(p) \in Pending
    BY <2>1 DEF Pending
  <2>3. MergePending(existing, incoming, policy) = {Merged(p) : p \in existing}
    BY <1>2 DEF MergePending
  <2> HIDE DEF Merged
  <2> QED
    BY <1>2, <2>2, <2>3
<1> QED
  BY <1>1, <1>2

\* The merged request is at least as recent and as wide as the incoming one,
\* and as the one that was pending.
LEMMA MergeCovers ==
  ASSUME NEW existing \in SUBSET Pending, NEW incoming \in Pending,
         NEW policy, AtMostOne(existing),
         NEW q \in MergePending(existing, incoming, policy)
  PROVE  /\ incoming.generation <= q.generation
         /\ incoming.scope \subseteq q.scope
         /\ \A p \in existing : /\ p.generation <= q.generation
                                /\ p.scope \subseteq q.scope
         /\ \/ q.generation = incoming.generation
            \/ \E p \in existing : q.generation = p.generation
<1>1. CASE existing = {}
  BY <1>1 DEF MergePending, Pending
<1>2. CASE existing # {}
  <2>1. PICK p \in existing :
          q = [generation |-> Later(incoming.generation, p.generation),
               scope      |-> MergeRequest(p.scope, incoming.scope),
               due        |-> MergedDeadline(policy, p.due, incoming.due)]
    BY <1>2 DEF MergePending
  <2>2. \A r \in existing : r = p
    BY DEF AtMostOne
  <2>3. p \in Pending
    OBVIOUS
  <2>4. /\ q.generation = Later(incoming.generation, p.generation)
        /\ q.scope = p.scope \cup incoming.scope
    BY <2>1 DEF MergeRequest
  <2> QED
    BY <2>2, <2>3, <2>4 DEF Pending, Later
<1> QED
  BY <1>1, <1>2

\* There is still at most one pending request.
LEMMA MergeAtMostOne ==
  ASSUME NEW existing, NEW incoming, NEW policy, AtMostOne(existing)
  PROVE  AtMostOne(MergePending(existing, incoming, policy))
BY DEF AtMostOne, MergePending

-----------------------------------------------------------------------------
(* Type correctness. *)

LEMMA NextGenerationType ==
  ASSUME generation \in 0..MaxGen
  PROVE  NextGeneration \in 1..MaxGen /\ generation <= NextGeneration
BY BoundsAssumption DEF NextGeneration

\* What a caller leaves in the state is a request and a waiter.
LEMMA IncomingType ==
  ASSUME TypeOK, NEW c \in Callers, NEW due \in -1..Debounce
  PROVE  [generation |-> NextGeneration, scope |-> Scope[c], due |-> due] \in Pending
BY NextGenerationType, CallersAssumption DEF TypeOK, Pending, Callers

LEMMA InitType == Init => TypeOK
<1>1. /\ 0 \in 0..MaxGen /\ -1 \in -1..Debounce
      /\ 0 \in 0..MaxEdits
  BY BoundsAssumption
<1> QED
  BY <1>1 DEF Init, TypeOK

LEMMA StepType == TypeOK /\ [Next]_vars => TypeOK'
<1> SUFFICES ASSUME TypeOK, [Next]_vars PROVE TypeOK'
  OBVIOUS
<1> USE DEF state, worker, jobVars, indexVars, callVars
<1>1. ASSUME NEW c \in Calls, ForceAndWait(c) PROVE TypeOK'
  <2>1. 0 \in -1..Debounce /\ c \in Callers
    BY BoundsAssumption DEF Callers
  <2>2. pending' \in SUBSET Pending
    BY <1>1, <2>1, IncomingType, MergeType DEF ForceAndWait, TypeOK
  <2>3. waiters' \in SUBSET Waiter /\ generation' \in 0..MaxGen
    BY <1>1, NextGenerationType DEF ForceAndWait, TypeOK, Waiter
  <2> QED
    BY <1>1, <2>2, <2>3 DEF ForceAndWait, TypeOK
<1>2. ASSUME NEW c \in Calls, ForceNotify(c) PROVE TypeOK'
  BY <1>2 DEF ForceNotify, NotifyWaiters, TypeOK
<1>3. ASSUME NEW c \in Calls, Return(c) PROVE TypeOK'
  BY <1>3 DEF Return, TypeOK
<1>4. ASSUME NEW c \in Calls, Cancel(c) PROVE TypeOK'
  BY <1>4 DEF Cancel, TypeOK
<1>5. ASSUME NEW s \in Schedulers, Schedule(s) PROVE TypeOK'
  <2>1. Debounce \in -1..Debounce /\ s \in Callers
    BY BoundsAssumption DEF Callers
  <2>2. pending' \in SUBSET Pending
    BY <1>5, <2>1, IncomingType, MergeType DEF Schedule, TypeOK
  <2>3. generation' \in 0..MaxGen
    BY <1>5, NextGenerationType DEF Schedule, TypeOK
  <2> QED
    BY <1>5, <2>2, <2>3 DEF Schedule, TypeOK
<1>6. ASSUME NEW s \in Schedulers, ScheduleNotify(s) PROVE TypeOK'
  BY <1>6 DEF ScheduleNotify, NotifyWaiters, TypeOK
<1>7. CASE Arm
  BY <1>7 DEF Arm, TypeOK
<1>8. CASE ReadPending
  BY <1>8 DEF ReadPending, TypeOK, Pending
<1>9. CASE Woken
  BY <1>9 DEF Woken, TypeOK
<1>10. CASE CheckDue
  BY <1>10 DEF CheckDue, TypeOK
<1>11. CASE Sleep
  BY <1>11, BoundsAssumption DEF Sleep, TypeOK
<1>12. CASE Take
  <2>1. current' \in SUBSET Batch /\ pending' \in SUBSET Pending
    BY <1>12 DEF Take, TypeOK, Pending, Batch
  <2>2. seen' \in -1..Debounce
    BY <1>12, BoundsAssumption DEF Take
  <2>3. /\ running' \in BOOLEAN
        /\ wpc' \in {"top", "read", "check", "wait", "sleep", "take", "spawn", "join"}
    BY <1>12 DEF Take, TypeOK
  <2> QED
    BY <1>12, <2>1, <2>2, <2>3 DEF Take, TypeOK
<1>13. CASE Spawn
  BY <1>13 DEF Spawn, TypeOK, Answers
<1>14. CASE Finish
  <2>1. waiters' \in SUBSET Waiter
    BY <1>14 DEF Finish, TypeOK
  <2>2. answer' \in [Calls -> Answers \cup {"none"}]
    BY <1>14 DEF Finish, TypeOK
  <2> QED
    BY <1>14, <2>1, <2>2 DEF Finish, NotifyWaiters, TypeOK
<1>15. CASE JobLock
  BY <1>15 DEF JobLock, TypeOK, Answers
<1>16. CASE JobRead
  BY <1>16 DEF JobRead, TypeOK
<1>17. CASE JobPublish
  BY <1>17 DEF JobPublish, TypeOK, Answers
<1>18. CASE JobReject
  BY <1>18 DEF JobReject, TypeOK, Answers
<1>19. CASE JobFail
  BY <1>19 DEF JobFail, TypeOK, Answers
<1>20. CASE JobPanic
  BY <1>20 DEF JobPanic, TypeOK, Answers
<1>21. CASE Edit
  BY <1>21, BoundsAssumption DEF Edit, TypeOK
<1>22. CASE Tick
  <2>1. seen' \in -1..Debounce
    BY <1>22, BoundsAssumption DEF Tick, TypeOK, Later
  <2>2. ASSUME NEW p \in pending
        PROVE [p EXCEPT !.due = Later(p.due - 1, -1)] \in Pending
    BY BoundsAssumption DEF TypeOK, Pending, Later
  <2> QED
    BY <1>22, <2>1, <2>2 DEF Tick, TypeOK
<1>23. CASE UNCHANGED vars
  BY <1>23 DEF vars, TypeOK
<1> QED
  BY <1>1, <1>2, <1>3, <1>4, <1>5, <1>6, <1>7, <1>8, <1>9, <1>10, <1>11,
     <1>12, <1>13, <1>14, <1>15, <1>16, <1>17, <1>18, <1>19, <1>20, <1>21,
     <1>22, <1>23 DEF Next, Worker, Job

\* TypeOK: every variable keeps its type; deadlines stay within the debounce
\* delay and generations within the counter.
THEOREM TypeCorrect == Spec => []TypeOK
BY InitType, StepType, PTL DEF Spec

-----------------------------------------------------------------------------
(* The worker and what it holds. *)

LEMMA InitPhases == Init => Phases
BY DEF Init, Phases, AtMostOne

LEMMA StepPhases == TypeOK /\ Phases /\ [Next]_vars => Phases'
<1> SUFFICES ASSUME TypeOK, Phases, [Next]_vars PROVE Phases'
  OBVIOUS
<1> USE DEF state, worker, jobVars, indexVars, callVars
<1>1. ASSUME NEW c \in Calls, ForceAndWait(c) PROVE Phases'
  <2>1. AtMostOne(pending')
    BY <1>1, MergeAtMostOne DEF ForceAndWait, Phases
  <2> QED
    BY <1>1, <2>1 DEF ForceAndWait, Phases, AtMostOne
<1>2. ASSUME NEW s \in Schedulers, Schedule(s) PROVE Phases'
  <2>1. AtMostOne(pending')
    BY <1>2, MergeAtMostOne DEF Schedule, Phases
  <2> QED
    BY <1>2, <2>1 DEF Schedule, Phases, AtMostOne
<1>3. ASSUME NEW c \in Calls, ForceNotify(c) \/ Return(c) \/ Cancel(c)
      PROVE Phases'
  BY <1>3 DEF ForceNotify, Return, Cancel, Phases, AtMostOne
<1>4. ASSUME NEW s \in Schedulers, ScheduleNotify(s) PROVE Phases'
  BY <1>4 DEF ScheduleNotify, Phases, AtMostOne
<1>5. CASE Arm \/ ReadPending \/ Woken \/ CheckDue \/ Sleep
  BY <1>5 DEF Arm, ReadPending, Woken, CheckDue, Sleep, Phases, AtMostOne
<1>6. CASE Take
  <2>1. AtMostOne(pending') /\ AtMostOne(current')
    BY <1>6 DEF Take, Phases, AtMostOne
  <2>2. CASE wpc' = "spawn"
    <3>1. running' = TRUE /\ current' # {}
      BY <1>6, <2>2 DEF Take
    <3> QED
      BY <1>6, <2>1, <2>2, <3>1 DEF Take, Phases
  <2>3. CASE wpc' = "top"
    <3>1. UNCHANGED <<running, current>>
      BY <1>6, <2>3 DEF Take
    <3> QED
      BY <1>6, <2>1, <2>3, <3>1 DEF Take, Phases
  <2> QED
    BY <1>6, <2>2, <2>3 DEF Take
<1>7. CASE Spawn
  BY <1>7 DEF Spawn, Phases, AtMostOne
<1>8. CASE Finish
  BY <1>8 DEF Finish, Phases, AtMostOne
<1>9. CASE Job
  BY <1>9 DEF Job, JobLock, JobRead, JobPublish, JobReject, JobFail, JobPanic,
              Phases, AtMostOne
<1>10. CASE Edit
  BY <1>10 DEF Edit, Phases, AtMostOne
<1>11. CASE Tick
  <2>1. AtMostOne(pending')
    BY <1>11 DEF Tick, Phases, AtMostOne
  <2> QED
    BY <1>11, <2>1 DEF Tick, Phases, AtMostOne
<1>12. CASE UNCHANGED vars
  BY <1>12 DEF vars, Phases, AtMostOne
<1> QED
  BY <1>1, <1>2, <1>3, <1>4, <1>5, <1>6, <1>7, <1>8, <1>9, <1>10, <1>11,
     <1>12 DEF Next, Worker

-----------------------------------------------------------------------------
(* Generations. *)

LEMMA InitGenerations == Init => Generations
BY DEF Init, Generations

LEMMA StepGenerations ==
  TypeOK /\ Phases /\ Generations /\ [Next]_vars => Generations'
<1> SUFFICES ASSUME TypeOK, Phases, Generations, [Next]_vars
             PROVE Generations'
  OBVIOUS
<1> USE DEF state, worker, jobVars, indexVars, callVars
<1>1. ASSUME NEW c \in Callers, NEW due \in -1..Debounce, NEW policy,
             pending' = MergePending(
               pending,
               [generation |-> NextGeneration, scope |-> Scope[c], due |-> due],
               policy)
      PROVE \A p \in pending' : p.generation = NextGeneration
  <2> DEFINE incoming ==
        [generation |-> NextGeneration, scope |-> Scope[c], due |-> due]
  <2>1. incoming \in Pending
    BY IncomingType
  <2>2. TAKE q \in pending'
  <2>3. \/ q.generation = NextGeneration
        \/ \E p \in pending : q.generation = p.generation
    BY <1>1, <2>1, <2>2, MergeCovers DEF TypeOK, Phases
  <2>4. NextGeneration <= q.generation
    BY <1>1, <2>1, <2>2, MergeCovers DEF TypeOK, Phases
  <2> QED
    BY <2>3, <2>4, NextGenerationType DEF Generations, TypeOK
<1>2. ASSUME NEW c \in Calls, ForceAndWait(c) PROVE Generations'
  <2>1. \A p \in pending' : p.generation = generation'
    <3>1. 0 \in -1..Debounce /\ c \in Callers
      BY BoundsAssumption DEF Callers
    <3> QED
      BY <1>1, <1>2, <3>1 DEF ForceAndWait
  <2>2. generation <= generation' /\ generation' \in Nat
    BY <1>2, NextGenerationType, BoundsAssumption DEF ForceAndWait, TypeOK
  <2>3. \A b \in current' : b.generation <= generation'
    BY <1>2, <2>2 DEF ForceAndWait, Generations, TypeOK, Batch
  <2>4. \A w \in waiters' : w.generation <= generation'
    BY <1>2, <2>2 DEF ForceAndWait, Generations, TypeOK, Waiter
  <2> QED
    BY <2>1, <2>3, <2>4 DEF Generations
<1>3. ASSUME NEW s \in Schedulers, Schedule(s) PROVE Generations'
  <2>1. \A p \in pending' : p.generation = generation'
    <3>1. Debounce \in -1..Debounce /\ s \in Callers
      BY BoundsAssumption DEF Callers
    <3> QED
      BY <1>1, <1>3, <3>1 DEF Schedule
  <2>2. generation <= generation' /\ generation' \in Nat
    BY <1>3, NextGenerationType, BoundsAssumption DEF Schedule, TypeOK
  <2>3. \A b \in current' : b.generation <= generation'
    BY <1>3, <2>2 DEF Schedule, Generations, TypeOK, Batch
  <2>4. \A w \in waiters' : w.generation <= generation'
    BY <1>3, <2>2 DEF Schedule, Generations, TypeOK, Waiter
  <2> QED
    BY <2>1, <2>3, <2>4 DEF Generations
<1>4. ASSUME NEW c \in Calls, ForceNotify(c) \/ Return(c) \/ Cancel(c)
      PROVE Generations'
  BY <1>4 DEF ForceNotify, Return, Cancel, Generations
<1>5. ASSUME NEW s \in Schedulers, ScheduleNotify(s) PROVE Generations'
  BY <1>5 DEF ScheduleNotify, Generations
<1>6. CASE Arm \/ ReadPending \/ Woken \/ CheckDue \/ Sleep \/ Spawn
  BY <1>6 DEF Arm, ReadPending, Woken, CheckDue, Sleep, Spawn, Generations
<1>7. CASE Take
  BY <1>7 DEF Take, Generations, TypeOK
<1>8. CASE Finish
  BY <1>8 DEF Finish, Generations
<1>9. CASE Job
  BY <1>9 DEF Job, JobLock, JobRead, JobPublish, JobReject, JobFail, JobPanic,
              Generations
<1>10. CASE Edit
  BY <1>10 DEF Edit, Generations
<1>11. CASE Tick
  <2>1. ASSUME NEW p \in pending
        PROVE [p EXCEPT !.due = Later(p.due - 1, -1)].generation = p.generation
    BY DEF TypeOK, Pending
  <2> QED
    BY <1>11, <2>1 DEF Tick, Generations
<1>12. CASE UNCHANGED vars
  BY <1>12 DEF vars, Generations
<1> QED
  BY <1>2, <1>3, <1>4, <1>5, <1>6, <1>7, <1>8, <1>9, <1>10, <1>11,
     <1>12 DEF Next, Worker

-----------------------------------------------------------------------------
(* Waiters. *)

LEMMA InitWaiting == Init => Waiting
BY DEF Init, Waiting, Unanswered, Callers

\* A merge keeps every waiter covered by what was pending.
LEMMA MergeKeepsCover ==
  ASSUME TypeOK, Phases, Waiting,
         NEW c \in Callers, NEW due \in -1..Debounce, NEW policy,
         policy \in {"Force", "Debounced"},
         pending' = MergePending(
           pending,
           [generation |-> NextGeneration, scope |-> Scope[c], due |-> due],
           policy),
         current' = current,
         NEW w \in waiters
  PROVE  \E b \in pending' \cup current' : w.generation <= b.generation
<1> DEFINE incoming ==
      [generation |-> NextGeneration, scope |-> Scope[c], due |-> due]
<1>1. incoming \in Pending
  BY IncomingType
<1>2. pending' # {} /\ pending' \in SUBSET Pending
  BY <1>1, MergeType DEF TypeOK
<1>3. CASE \E b \in current : w.generation <= b.generation
  BY <1>3
<1>4. CASE \E p \in pending : w.generation <= p.generation
  <2>1. PICK p \in pending : w.generation <= p.generation
    BY <1>4
  <2>2. PICK q \in pending' : TRUE
    BY <1>2
  <2>3. p.generation <= q.generation
    BY <1>1, <2>2, MergeCovers DEF TypeOK, Phases
  <2>4. p \in Pending /\ q \in Pending /\ w \in Waiter
    BY <1>2 DEF TypeOK
  <2>5. w.generation <= q.generation
    BY <2>1, <2>3, <2>4 DEF Pending, Waiter
  <2> QED
    BY <2>2, <2>5
<1> QED
  BY <1>3, <1>4 DEF Waiting

LEMMA StepWaiting ==
  TypeOK /\ Phases /\ Generations /\ Waiting /\ [Next]_vars => Waiting'
<1> SUFFICES ASSUME TypeOK, Phases, Generations, Waiting, [Next]_vars
             PROVE Waiting'
  OBVIOUS
<1> USE DEF state, worker, jobVars, indexVars, callVars
<1>1. ASSUME NEW c \in Calls, ForceAndWait(c) PROVE Waiting'
  <2> DEFINE mine == [generation |-> NextGeneration, call |-> c]
  <2>1. 0 \in -1..Debounce /\ c \in Callers
    BY BoundsAssumption DEF Callers
  <2>2. \A w \in waiters : \E b \in pending' \cup current' :
                               w.generation <= b.generation
    BY <1>1, <2>1, MergeKeepsCover DEF ForceAndWait
  <2>3. \E b \in pending' : mine.generation <= b.generation
    <3>1. [generation |-> NextGeneration, scope |-> Scope[c], due |-> 0]
            \in Pending
      BY <2>1, IncomingType
    <3>2. PICK q \in pending' : TRUE
      BY <1>1, <3>1, MergeType DEF ForceAndWait, TypeOK
    <3> QED
      BY <1>1, <3>1, <3>2, MergeCovers DEF ForceAndWait, TypeOK, Phases
  <2>4. waiters' = waiters \cup {mine} /\ mine.call = c
    BY <1>1 DEF ForceAndWait
  <2>5. /\ pc'[c] = "notify"
        /\ \A d \in Calls \ {c} : pc'[d] = pc[d]
        /\ answer' = answer
    BY <1>1, <2>1 DEF ForceAndWait, TypeOK, Callers
  <2>6. \A w \in waiters : w.call \in Calls
    BY DEF TypeOK, Waiter
  <2>7. \A d \in Calls : Unanswered(d)' => \E w \in waiters' : w.call = d
    <3> TAKE d \in Calls
    <3>1. CASE d = c
      BY <2>4, <3>1
    <3>2. CASE d # c
      BY <2>4, <2>5, <3>2 DEF Waiting, Unanswered
    <3> QED
      BY <3>1, <3>2
  <2>8. \A d \in Calls : pc'[d] = "idle" => answer'[d] = "none"
    BY <2>5 DEF Waiting
  <2>9. \A w \in waiters' : pc'[w.call] # "idle"
    BY <2>4, <2>5, <2>6 DEF Waiting
  <2>10. \A w \in waiters' : \E b \in pending' \cup current' :
                                 w.generation <= b.generation
    BY <2>2, <2>3, <2>4
  <2> QED
    BY <2>7, <2>8, <2>9, <2>10 DEF Waiting
<1>2. ASSUME NEW s \in Schedulers, Schedule(s) PROVE Waiting'
  <2>1. Debounce \in -1..Debounce /\ s \in Callers
    BY BoundsAssumption DEF Callers
  <2>2. \A w \in waiters : \E b \in pending' \cup current' :
                               w.generation <= b.generation
    BY <1>2, <2>1, MergeKeepsCover DEF Schedule
  <2>3. \A d \in Calls : pc'[d] = pc[d]
    BY <1>2, CallersAssumption DEF Schedule, TypeOK, Callers
  <2>4. \A w \in waiters : w.call \in Calls
    BY DEF TypeOK, Waiter
  <2> QED
    BY <1>2, <2>2, <2>3, <2>4 DEF Schedule, Waiting, Unanswered
<1>3. ASSUME NEW c \in Calls, ForceNotify(c) \/ Return(c) \/ Cancel(c)
      PROVE Waiting'
  <2>1. /\ pc[c] # "idle" /\ pc'[c] # "idle"
        /\ pc[c] \in {"notify", "await"}
        /\ \A d \in Calls \ {c} : pc'[d] = pc[d]
    BY <1>3 DEF ForceNotify, Return, Cancel, TypeOK, Callers
  <2>2. UNCHANGED <<pending, current, waiters, answer>>
    BY <1>3 DEF ForceNotify, Return, Cancel
  <2>3. \A d \in Calls : Unanswered(d)' => Unanswered(d)
    BY <2>1, <2>2 DEF Unanswered
  <2>4. \A w \in waiters : w.call \in Calls
    BY DEF TypeOK, Waiter
  <2> QED
    BY <2>1, <2>2, <2>3, <2>4 DEF Waiting
<1>4. ASSUME NEW s \in Schedulers, ScheduleNotify(s) PROVE Waiting'
  <2>1. \A d \in Calls : pc'[d] = pc[d]
    BY <1>4, CallersAssumption DEF ScheduleNotify, TypeOK, Callers
  <2>2. \A w \in waiters : w.call \in Calls
    BY DEF TypeOK, Waiter
  <2> QED
    BY <1>4, <2>1, <2>2 DEF ScheduleNotify, Waiting, Unanswered
<1>5. CASE Arm \/ ReadPending \/ Woken \/ CheckDue \/ Sleep \/ Spawn
  BY <1>5 DEF Arm, ReadPending, Woken, CheckDue, Sleep, Spawn, Waiting,
              Unanswered
<1>6. CASE Take
  <2>1. UNCHANGED <<waiters, pc, answer>>
    BY <1>6 DEF Take
  <2>2. CASE wpc' = "spawn"
    <3>1. PICK p \in pending :
            current' = {[generation |-> p.generation, scope |-> p.scope]}
      BY <1>6, <2>2 DEF Take
    <3>2. current = {}
      BY <1>6 DEF Take, Phases
    <3>3. \A w \in waiters : w.generation <= p.generation
      BY <3>1, <3>2 DEF Waiting, Phases, AtMostOne
    <3>4. PICK b \in current' : b.generation = p.generation
      BY <3>1
    <3>5. \A w \in waiters : w.generation <= b.generation
      BY <3>3, <3>4
    <3> QED
      BY <2>1, <3>5 DEF Waiting, Unanswered
  <2>3. CASE wpc' = "top"
    <3>1. UNCHANGED <<pending, current>>
      BY <1>6, <2>3 DEF Take
    <3> QED
      BY <2>1, <3>1 DEF Waiting, Unanswered
  <2> QED
    BY <1>6, <2>2, <2>3 DEF Take
<1>7. CASE Finish
  <2>1. /\ waiters' = waiters \ Served(current)
        /\ UNCHANGED <<pending, pc>>
        /\ outcome # "none"
    BY <1>7 DEF Finish, Phases
  <2>2. \A d \in Calls :
          answer'[d] = IF /\ pc[d] # "cancelled"
                          /\ \E w \in Served(current) : w.call = d
                       THEN outcome ELSE answer[d]
    BY <1>7 DEF Finish
  <2>3. \A w \in waiters' : \E b \in pending' : w.generation <= b.generation
    BY <2>1 DEF Waiting, Served
  <2>4. \A d \in Calls : Unanswered(d)' => \E w \in waiters' : w.call = d
    <3> SUFFICES ASSUME NEW d \in Calls, Unanswered(d)'
                 PROVE \E w \in waiters' : w.call = d
      OBVIOUS
    <3>1. pc[d] \in {"notify", "await"} /\ answer'[d] = "none"
      BY <2>1 DEF Unanswered
    <3>2. ~\E w \in Served(current) : w.call = d
      BY <2>1, <2>2, <3>1
    <3>3. PICK w \in waiters : w.call = d
      BY <2>2, <3>1, <3>2 DEF Waiting, Unanswered
    <3> QED
      BY <2>1, <3>2, <3>3
  <2>5. \A d \in Calls : pc[d] = "idle" => answer'[d] = "none"
    BY <2>2 DEF Waiting, Served
  <2> QED
    BY <2>1, <2>3, <2>4, <2>5 DEF Waiting
<1>8. CASE Job
  BY <1>8 DEF Job, JobLock, JobRead, JobPublish, JobReject, JobFail, JobPanic,
              Waiting, Unanswered
<1>9. CASE Edit
  BY <1>9 DEF Edit, Waiting, Unanswered
<1>10. CASE Tick
  <2>1. ASSUME NEW p \in pending
        PROVE [p EXCEPT !.due = Later(p.due - 1, -1)].generation = p.generation
    BY DEF TypeOK, Pending
  <2>2. \A w \in waiters : \E b \in pending' \cup current' :
                               w.generation <= b.generation
    <3> DEFINE Sooner(p) == [p EXCEPT !.due = Later(p.due - 1, -1)]
    <3>1. \A p \in pending : Sooner(p).generation = p.generation
      BY <2>1
    <3>2. pending' = {Sooner(p) : p \in pending} /\ current' = current
      BY <1>10 DEF Tick
    <3> HIDE DEF Sooner
    <3> QED
      BY <3>1, <3>2 DEF Waiting
  <2> QED
    BY <1>10, <2>2 DEF Tick, Waiting, Unanswered
<1>11. CASE UNCHANGED vars
  BY <1>11 DEF vars, Waiting, Unanswered
<1> QED
  BY <1>1, <1>2, <1>3, <1>4, <1>5, <1>6, <1>7, <1>8, <1>9, <1>10, <1>11
  DEF Next, Worker

-----------------------------------------------------------------------------
(* Wakeups. *)

LEMMA InitNoMissedWakeup == Init => NoMissedWakeup
BY DEF Init, NoMissedWakeup

LEMMA StepNoMissedWakeup ==
  TypeOK /\ Phases /\ NoMissedWakeup /\ [Next]_vars => NoMissedWakeup'
<1> SUFFICES ASSUME TypeOK, Phases, NoMissedWakeup, [Next]_vars
             PROVE NoMissedWakeup'
  OBVIOUS
<1> USE DEF state, worker, jobVars, indexVars, callVars
<1>1. ASSUME NEW c \in Calls, ForceAndWait(c) PROVE NoMissedWakeup'
  <2>1. c \in Callers /\ pc'[c] = "notify"
    BY <1>1 DEF ForceAndWait, TypeOK, Callers
  <2> QED
    BY <2>1 DEF NoMissedWakeup
<1>2. ASSUME NEW s \in Schedulers, Schedule(s) PROVE NoMissedWakeup'
  <2>1. s \in Callers /\ pc'[s] = "notify"
    BY <1>2 DEF Schedule, TypeOK, Callers
  <2> QED
    BY <2>1 DEF NoMissedWakeup
<1>3. ASSUME NEW c \in Calls, ForceNotify(c) PROVE NoMissedWakeup'
  BY <1>3 DEF ForceNotify, NotifyWaiters, NoMissedWakeup
<1>4. ASSUME NEW s \in Schedulers, ScheduleNotify(s) PROVE NoMissedWakeup'
  BY <1>4 DEF ScheduleNotify, NotifyWaiters, NoMissedWakeup
<1>5. ASSUME NEW c \in Calls, Return(c) \/ Cancel(c) PROVE NoMissedWakeup'
  <2>1. /\ pc[c] # "notify"
        /\ \A d \in Callers \ {c} : pc'[d] = pc[d]
        /\ UNCHANGED <<notified, pending, wpc, seen>>
    BY <1>5 DEF Return, Cancel, TypeOK
  <2>2. (\E d \in Callers : pc[d] = "notify")
          => (\E d \in Callers : pc'[d] = "notify")
    BY <2>1
  <2> QED
    BY <2>1, <2>2 DEF NoMissedWakeup
<1>6. CASE ReadPending
  <2>1. CASE wpc' = "wait"
    <3>1. pending' = {}
      BY <1>6, <2>1 DEF ReadPending, Phases
    <3> QED
      BY <3>1 DEF NoMissedWakeup
  <2>2. CASE wpc' = "check"
    <3>1. PICK p \in pending : seen' = p.due
      BY <1>6, <2>2 DEF ReadPending
    <3>2. \A q \in pending' : q.due = seen'
      BY <1>6, <3>1 DEF ReadPending, Phases, AtMostOne
    <3>3. seen' \in Int
      BY <3>1 DEF TypeOK, Pending
    <3>4. \A q \in pending' : ~(q.due < seen')
      BY <3>2, <3>3
    <3> QED
      BY <2>2, <3>4 DEF NoMissedWakeup
  <2> QED
    BY <1>6, <2>1, <2>2 DEF ReadPending
<1>7. CASE Arm \/ Woken \/ CheckDue \/ Sleep \/ Take \/ Spawn \/ Finish
  BY <1>7 DEF Arm, Woken, CheckDue, Sleep, Take, Spawn, Finish, NoMissedWakeup
<1>8. CASE Job
  BY <1>8 DEF Job, JobLock, JobRead, JobPublish, JobReject, JobFail, JobPanic,
              NoMissedWakeup
<1>9. CASE Edit
  BY <1>9 DEF Edit, NoMissedWakeup
<1>10. CASE Tick
  <2>1. UNCHANGED <<notified, wpc, pc>>
    BY <1>10 DEF Tick
  <2>2. \A q \in pending' : \E p \in pending : q.due < seen' => p.due < seen
    <3> SUFFICES ASSUME NEW q \in pending'
                 PROVE  \E p \in pending : q.due < seen' => p.due < seen
      OBVIOUS
    <3>1. PICK p \in pending : q = [p EXCEPT !.due = Later(p.due - 1, -1)]
      BY <1>10 DEF Tick
    <3>2. p \in Pending
      BY DEF TypeOK
    <3>3. q.due = Later(p.due - 1, -1)
      BY <3>1, <3>2 DEF Pending
    <3>4. seen' = Later(seen - 1, -1)
      BY <1>10 DEF Tick
    <3>5. p.due \in Int /\ seen \in Int
      BY <3>2, BoundsAssumption DEF Pending, TypeOK
    <3>6. q.due < seen' => p.due < seen
      BY <3>3, <3>4, <3>5 DEF Later
    <3> QED
      BY <3>6
  <2> QED
    BY <2>1, <2>2 DEF NoMissedWakeup
<1>11. CASE UNCHANGED vars
  BY <1>11 DEF vars, NoMissedWakeup
<1> QED
  BY <1>1, <1>2, <1>3, <1>4, <1>5, <1>6, <1>7, <1>8, <1>9, <1>10, <1>11
  DEF Next, Worker

-----------------------------------------------------------------------------
(* Versions. *)

LEMMA InitVersions == Init => Versions
BY DEF Init, Versions

LEMMA StepVersions == TypeOK /\ Versions /\ [Next]_vars => Versions'
<1> SUFFICES ASSUME TypeOK, Versions, [Next]_vars PROVE Versions'
  OBVIOUS
<1> USE DEF state, worker, jobVars, indexVars, callVars
<1>0. /\ corpus \in Int /\ served \in Int /\ snapshot \in Int
      /\ \A c \in Calls : asked[c] \in Int
  BY BoundsAssumption DEF TypeOK
<1>1. ASSUME NEW c \in Calls, ForceAndWait(c) PROVE Versions'
  <2>1. \A d \in Calls : asked'[d] = asked[d] \/ asked'[d] = corpus
    BY <1>1 DEF ForceAndWait, TypeOK
  <2> QED
    BY <1>0, <1>1, <2>1 DEF ForceAndWait, Versions
<1>2. ASSUME NEW c \in Calls, ForceNotify(c) \/ Return(c) \/ Cancel(c)
      PROVE Versions'
  BY <1>2 DEF ForceNotify, Return, Cancel, Versions
<1>3. ASSUME NEW s \in Schedulers, Schedule(s) \/ ScheduleNotify(s)
      PROVE Versions'
  BY <1>3 DEF Schedule, ScheduleNotify, Versions
<1>4. CASE Worker
  BY <1>4 DEF Worker, Arm, ReadPending, Woken, CheckDue, Sleep, Take, Spawn,
              Finish, Versions
<1>5. CASE Job
  BY <1>0, <1>5 DEF Job, JobLock, JobRead, JobPublish, JobReject, JobFail,
                    JobPanic, Versions
<1>6. CASE Edit
  BY <1>0, <1>6 DEF Edit, Versions
<1>7. CASE Tick \/ UNCHANGED vars
  BY <1>7 DEF Tick, vars, Versions
<1> QED
  BY <1>1, <1>2, <1>3, <1>4, <1>5, <1>6, <1>7 DEF Next

-----------------------------------------------------------------------------
(* What a new request does not belong to. *)

\* While the counter lasts, a new request is later than the running one, so
\* the running job does not answer the waiter of the new request.
LEMMA NewWaiterNotTaken ==
  ASSUME TypeOK, Generations, NEW c \in Calls, ForceAndWait(c), Unsaturated'
  PROVE  /\ Unsaturated
         /\ \A w \in waiters' :
              \/ w \in waiters /\ TakenBy(w)' = TakenBy(w)
              \/ /\ w = [generation |-> NextGeneration, call |-> c]
                 /\ ~TakenBy(w)'
<1>1. /\ generation' = NextGeneration /\ current' = current
      /\ waiters' = waiters \cup {[generation |-> NextGeneration, call |-> c]}
  BY DEF ForceAndWait, worker
<1>2. generation \in Int /\ MaxGen \in Int /\ generation <= MaxGen
  BY BoundsAssumption DEF TypeOK
<1>3. generation < MaxGen /\ NextGeneration = generation + 1
  BY <1>1, <1>2 DEF Unsaturated, NextGeneration
<1>4. \A b \in current : ~(NextGeneration <= b.generation)
  BY <1>2, <1>3 DEF Generations, TypeOK, Batch
<1> QED
  BY <1>1, <1>3, <1>4 DEF Unsaturated, TakenBy

\* The counter does not come back from saturation.
LEMMA StepUnsaturated ==
  TypeOK /\ [Next]_vars /\ Unsaturated' => Unsaturated
<1> SUFFICES ASSUME TypeOK, [Next]_vars PROVE generation <= generation'
  BY BoundsAssumption, StepType DEF Unsaturated, TypeOK
<1> USE DEF state, worker, jobVars, indexVars, callVars
<1>0. generation <= NextGeneration /\ generation <= generation
  BY NextGenerationType, BoundsAssumption DEF TypeOK
<1>1. CASE UNCHANGED vars
  BY <1>0, <1>1 DEF vars
<1>2. CASE generation' = NextGeneration
  BY <1>0, <1>2
<1>3. ASSUME NEW c \in Calls,
             ForceAndWait(c) \/ ForceNotify(c) \/ Return(c) \/ Cancel(c)
      PROVE generation' = generation \/ generation' = NextGeneration
  BY <1>3 DEF ForceAndWait, ForceNotify, Return, Cancel
<1>4. ASSUME NEW s \in Schedulers, Schedule(s) \/ ScheduleNotify(s)
      PROVE generation' = generation \/ generation' = NextGeneration
  BY <1>4 DEF Schedule, ScheduleNotify
<1>5. CASE Worker
  <2>1. generation' = generation
    BY <1>5 DEF Worker, Arm, ReadPending, Woken, CheckDue, Sleep, Take, Spawn,
                Finish
  <2> QED
    BY <1>0, <2>1
<1>6. CASE Job \/ Edit \/ Tick
  <2>1. generation' = generation
    BY <1>6 DEF Job, JobLock, JobRead, JobPublish, JobReject, JobFail,
                JobPanic, Edit, Tick
  <2> QED
    BY <1>0, <2>1
<1> QED
  BY <1>0, <1>1, <1>2, <1>3, <1>4, <1>5, <1>6 DEF Next

-----------------------------------------------------------------------------
(* Answers and what the runs behind them have read. *)

LEMMA InitFresh == Init => Fresh
BY DEF Init, Fresh, TakenBy

LEMMA StepFresh ==
  /\ TypeOK /\ Phases /\ Generations /\ Waiting /\ Versions /\ Fresh
  /\ [Next]_vars
  => Fresh'
<1> DEFINE AnswersFresh ==
             \A c \in Calls : answer[c] = "ok" => asked[c] <= served
           RunFresh ==
             \A w \in waiters : TakenBy(w) =>
               /\ job = "read" => asked[w.call] <= snapshot
               /\ job = "done" /\ outcome = "ok" => asked[w.call] <= served
           Goal == AnswersFresh' /\ RunFresh'
<1> SUFFICES ASSUME TypeOK, Phases, Generations, Waiting, Versions,
                    [Next]_vars, Unsaturated', AnswersFresh, RunFresh
             PROVE  Goal
  BY StepUnsaturated DEF Fresh
<1> USE DEF state, worker, jobVars, indexVars, callVars
<1>0. /\ corpus \in Int /\ served \in Int /\ snapshot \in Int
      /\ \A c \in Calls : asked[c] \in Int
      /\ \A w \in waiters : w.call \in Calls
  BY BoundsAssumption DEF TypeOK, Waiter
<1>1. ASSUME NEW c \in Calls, ForceAndWait(c) PROVE Goal
  <2>1. /\ UNCHANGED <<answer, served, snapshot, job, outcome>>
        /\ \A d \in Calls \ {c} : asked'[d] = asked[d]
        /\ pc[c] = "idle"
    BY <1>1 DEF ForceAndWait, TypeOK
  <2>2. answer[c] = "none"
    BY <2>1 DEF Waiting
  <2>3. AnswersFresh'
    BY <2>1, <2>2
  <2>4. \A w \in waiters : w.call # c
    BY <2>1 DEF Waiting
  <2>5. \A w \in waiters' : TakenBy(w)' => w \in waiters /\ TakenBy(w)
    BY <1>1, NewWaiterNotTaken
  <2>6. RunFresh'
    BY <1>0, <2>1, <2>4, <2>5
  <2> QED
    BY <2>3, <2>6
<1>2. ASSUME NEW c \in Calls, ForceNotify(c) \/ Return(c) \/ Cancel(c)
      PROVE Goal
  BY <1>2 DEF ForceNotify, Return, Cancel, TakenBy
<1>3. ASSUME NEW s \in Schedulers, Schedule(s) \/ ScheduleNotify(s)
      PROVE Goal
  BY <1>3 DEF Schedule, ScheduleNotify, TakenBy
<1>4. CASE Arm \/ ReadPending \/ Woken \/ CheckDue \/ Sleep
  BY <1>4 DEF Arm, ReadPending, Woken, CheckDue, Sleep, TakenBy
<1>5. CASE Take
  <2>1. job' = "none" /\ UNCHANGED <<answer, asked, served>>
    BY <1>5 DEF Take, Phases
  <2> QED
    BY <2>1
<1>6. CASE Spawn
  <2>1. /\ UNCHANGED <<answer, asked, served>>
        /\ job' \in {"start", "done"}
        /\ outcome' # "ok"
    BY <1>6 DEF Spawn, Phases
  <2> QED
    BY <2>1
<1>7. CASE Finish
  <2>1. job' = "none" /\ UNCHANGED <<asked, served>> /\ job = "done"
    BY <1>7 DEF Finish
  <2>2. ASSUME NEW c \in Calls, answer'[c] = "ok" PROVE asked[c] <= served
    <3>1. CASE answer[c] = "ok"
      BY <3>1
    <3>2. CASE answer[c] # "ok"
      <4>1. outcome = "ok" /\ \E w \in Served(current) : w.call = c
        BY <1>7, <2>2, <3>2 DEF Finish
      <4>2. PICK w \in waiters : TakenBy(w) /\ w.call = c
        BY <4>1 DEF Served, TakenBy
      <4> QED
        BY <2>1, <4>1, <4>2
    <3> QED
      BY <3>1, <3>2
  <2> QED
    BY <2>1, <2>2
<1>8. CASE JobLock
  BY <1>8 DEF JobLock, TakenBy
<1>9. CASE JobRead
  BY <1>0, <1>9 DEF JobRead, Versions, TakenBy
<1>10. CASE JobPublish \/ JobReject \/ JobFail \/ JobPanic
  <2>1. /\ UNCHANGED <<answer, asked, waiters, current, snapshot>>
        /\ served' = served \/ (job = "read" /\ served' = snapshot)
        /\ job' = "done"
        /\ outcome' = "ok" => job = "read" /\ served' = snapshot
    BY <1>10 DEF JobPublish, JobReject, JobFail, JobPanic
  <2>2. served <= served'
    BY <1>0, <2>1 DEF Versions
  <2>3. AnswersFresh'
    BY <1>0, <2>1, <2>2
  <2>4. RunFresh'
    BY <2>1 DEF TakenBy
  <2> QED
    BY <2>3, <2>4
<1>11. CASE Edit
  BY <1>11 DEF Edit, TakenBy
<1>12. CASE Tick
  BY <1>12 DEF Tick, TakenBy
<1>13. CASE UNCHANGED vars
  BY <1>13 DEF vars, TakenBy
<1> QED
  BY <1>1, <1>2, <1>3, <1>4, <1>5, <1>6, <1>7, <1>8, <1>9, <1>10, <1>11,
     <1>12, <1>13 DEF Next, Worker, Job

-----------------------------------------------------------------------------
(* Scopes. *)

LEMMA InitScopes == Init => Scopes
BY DEF Init, Scopes, TakenBy

\* A request that joins the pending one keeps the scope of every waiter that
\* is still to be taken.
LEMMA MergeKeepsScope ==
  ASSUME TypeOK, Phases, Waiting,
         NEW c \in Callers, NEW due \in -1..Debounce,
         NEW policy \in {"Force", "Debounced"},
         pending' = MergePending(
           pending,
           [generation |-> NextGeneration, scope |-> Scope[c], due |-> due],
           policy),
         NEW w \in waiters, ~TakenBy(w),
         \A p \in pending : Scope[w.call] \subseteq p.scope,
         NEW q \in pending'
  PROVE  Scope[w.call] \subseteq q.scope
<1> DEFINE incoming ==
      [generation |-> NextGeneration, scope |-> Scope[c], due |-> due]
<1>1. incoming \in Pending
  BY IncomingType
<1>2. PICK p \in pending : w.generation <= p.generation
  BY DEF Waiting, TakenBy
<1>3. p.scope \subseteq q.scope
  BY <1>1, MergeCovers DEF TypeOK, Phases
<1> QED
  BY <1>3

LEMMA StepScopes ==
  /\ TypeOK /\ Phases /\ Generations /\ Waiting /\ Scopes
  /\ [Next]_vars
  => Scopes'
<1> DEFINE RunKnown ==
             job = "read" \/ outcome = "ok" =>
               \A b \in current : b.scope \subseteq Known
           AnswersKnown ==
             \A c \in Calls : answer[c] = "ok" => Scope[c] \subseteq Known
           RunCovers ==
             \A w \in waiters, b \in current :
               w.generation <= b.generation => Scope[w.call] \subseteq b.scope
           PendingCovers ==
             \A w \in waiters, p \in pending :
               ~TakenBy(w) => Scope[w.call] \subseteq p.scope
           Goal == AnswersKnown' /\ RunCovers' /\ PendingCovers'
<1> SUFFICES ASSUME TypeOK, Phases, Generations, Waiting, Scopes,
                    [Next]_vars
             PROVE  Scopes'
  OBVIOUS
<1>0. RunKnown
  BY DEF Scopes
<1> USE DEF state, worker, jobVars, indexVars, callVars
<1>1. RunKnown'
  <2>1. ASSUME NEW c \in Calls,
               ForceAndWait(c) \/ ForceNotify(c) \/ Return(c) \/ Cancel(c)
        PROVE RunKnown'
    BY <1>0, <2>1 DEF ForceAndWait, ForceNotify, Return, Cancel
  <2>2. ASSUME NEW s \in Schedulers, Schedule(s) \/ ScheduleNotify(s)
        PROVE RunKnown'
    BY <1>0, <2>2 DEF Schedule, ScheduleNotify
  <2>3. CASE Arm \/ ReadPending \/ Woken \/ CheckDue \/ Sleep \/ Edit \/ Tick
             \/ UNCHANGED vars
    BY <1>0, <2>3 DEF Arm, ReadPending, Woken, CheckDue, Sleep, Edit, Tick,
                       vars
  <2>4. CASE Take \/ Spawn \/ Finish
    BY <1>0, <2>4 DEF Take, Spawn, Finish, Phases
  <2>5. CASE Job
    BY <1>0, <2>5 DEF Job, JobLock, JobRead, JobPublish, JobReject, JobFail,
                       JobPanic
  <2> QED
    BY <2>1, <2>2, <2>3, <2>4, <2>5 DEF Next, Worker
<1> SUFFICES ASSUME Unsaturated', AnswersKnown, RunCovers, PendingCovers
             PROVE  Goal
  BY <1>1, StepUnsaturated DEF Scopes
<1>2. ASSUME NEW c \in Calls, ForceAndWait(c) PROVE Goal
  <2> DEFINE mine == [generation |-> NextGeneration, call |-> c]
             incoming == [generation |-> NextGeneration, scope |-> Scope[c],
                          due |-> 0]
  <2>1. 0 \in -1..Debounce /\ c \in Callers
    BY BoundsAssumption DEF Callers
  <2>2. /\ pending' = MergePending(pending, incoming, "Force")
        /\ UNCHANGED <<answer, current>>
    BY <1>2 DEF ForceAndWait
  <2>3. \A w \in waiters' : \/ w \in waiters /\ TakenBy(w)' = TakenBy(w)
                            \/ w = mine /\ ~TakenBy(w)'
    BY <1>2, NewWaiterNotTaken
  <2>4. RunCovers'
    BY <2>2, <2>3 DEF TakenBy
  <2>5. ASSUME NEW w \in waiters', NEW q \in pending', ~TakenBy(w)'
        PROVE  Scope[w.call] \subseteq q.scope
    <3>1. CASE w \in waiters /\ ~TakenBy(w)
      BY <2>1, <2>2, <3>1, MergeKeepsScope
    <3>2. CASE w = mine
      <4>1. incoming \in Pending
        BY <2>1, IncomingType
      <4>2. incoming.scope \subseteq q.scope
        BY <2>2, <4>1, MergeCovers DEF TypeOK, Phases
      <4> QED
        BY <3>2, <4>2
    <3> QED
      BY <2>3, <2>5, <3>1, <3>2
  <2> QED
    BY <2>2, <2>4, <2>5
<1>3. ASSUME NEW c \in Calls, ForceNotify(c) \/ Return(c) \/ Cancel(c)
      PROVE Goal
  BY <1>3 DEF ForceNotify, Return, Cancel, TakenBy
<1>4. ASSUME NEW s \in Schedulers, Schedule(s) PROVE Goal
  <2>1. Debounce \in -1..Debounce /\ s \in Callers
    BY BoundsAssumption DEF Callers
  <2>2. UNCHANGED <<answer, current, waiters>>
    BY <1>4 DEF Schedule
  <2>3. ASSUME NEW w \in waiters, NEW q \in pending', ~TakenBy(w)
        PROVE  Scope[w.call] \subseteq q.scope
    BY <1>4, <2>1, <2>3, MergeKeepsScope DEF Schedule
  <2> QED
    BY <2>2, <2>3 DEF TakenBy
<1>5. ASSUME NEW s \in Schedulers, ScheduleNotify(s) PROVE Goal
  BY <1>5 DEF ScheduleNotify, TakenBy
<1>6. CASE Arm \/ ReadPending \/ Woken \/ CheckDue \/ Sleep \/ Spawn
  BY <1>6 DEF Arm, ReadPending, Woken, CheckDue, Sleep, Spawn, TakenBy
<1>7. CASE Take
  <2>1. UNCHANGED <<answer, waiters>>
    BY <1>7 DEF Take
  <2>2. CASE wpc' = "spawn"
    <3>1. PICK p \in pending :
            current' = {[generation |-> p.generation, scope |-> p.scope]}
      BY <1>7, <2>2 DEF Take
    <3>2. \A b \in current' : b.scope = p.scope
      BY <3>1
    <3>3. \A w \in waiters : ~TakenBy(w)
      BY <1>7 DEF Take, Phases, TakenBy
    <3>4. pending' = {}
      BY <1>7, <2>2 DEF Take
    <3> QED
      BY <2>1, <3>2, <3>3, <3>4
  <2>3. CASE wpc' = "top"
    <3>1. UNCHANGED <<pending, current>>
      BY <1>7, <2>3 DEF Take
    <3> QED
      BY <2>1, <3>1 DEF TakenBy
  <2> QED
    BY <1>7, <2>2, <2>3 DEF Take
<1>8. CASE Finish
  <2>1. /\ waiters' = waiters \ Served(current)
        /\ current' = {}
        /\ pending' = pending
    BY <1>8 DEF Finish
  <2>2. ASSUME NEW c \in Calls, answer'[c] = "ok"
        PROVE  Scope[c] \subseteq Known
    <3>1. CASE answer[c] = "ok"
      BY <3>1
    <3>2. CASE answer[c] # "ok"
      <4>1. outcome = "ok" /\ \E w \in Served(current) : w.call = c
        BY <1>8, <2>2, <3>2 DEF Finish
      <4>2. PICK w \in waiters, b \in current :
                   w.generation <= b.generation /\ w.call = c
        BY <4>1 DEF Served
      <4> QED
        BY <1>0, <4>1, <4>2
    <3> QED
      BY <3>1, <3>2
  <2>3. \A w \in waiters' : w \in waiters /\ ~TakenBy(w)
    BY <2>1 DEF Served, TakenBy
  <2> QED
    BY <2>1, <2>2, <2>3
<1>9. CASE Job
  BY <1>9 DEF Job, JobLock, JobRead, JobPublish, JobReject, JobFail, JobPanic,
              TakenBy
<1>10. CASE Edit
  BY <1>10 DEF Edit, TakenBy
<1>11. CASE Tick
  <2>1. /\ UNCHANGED <<answer, waiters, current>>
        /\ \A q \in pending' : \E p \in pending : q.scope = p.scope
    <3>1. ASSUME NEW p \in pending
          PROVE [p EXCEPT !.due = Later(p.due - 1, -1)].scope = p.scope
      BY DEF TypeOK, Pending
    <3> QED
      BY <1>11, <3>1 DEF Tick
  <2> QED
    BY <2>1 DEF TakenBy
<1>12. CASE UNCHANGED vars
  BY <1>12 DEF vars, TakenBy
<1> QED
  BY <1>2, <1>3, <1>4, <1>5, <1>6, <1>7, <1>8, <1>9, <1>10, <1>11, <1>12
  DEF Next, Worker

-----------------------------------------------------------------------------
(* The invariant and what follows from it. *)

\* What the state, the worker and the job know about each other is invariant.
THEOREM Inductive == Spec => []IInv
<1>1. Init => IInv
  BY InitType, InitPhases, InitGenerations, InitWaiting, InitNoMissedWakeup,
     InitVersions, InitFresh, InitScopes DEF IInv
<1>2. IInv /\ [Next]_vars => IInv'
  BY StepType, StepPhases, StepGenerations, StepWaiting, StepNoMissedWakeup,
     StepVersions, StepFresh, StepScopes DEF IInv
<1> QED
  BY <1>1, <1>2, PTL DEF Spec

\* AnswerFresh: an "ok" means that every edit made before the call is served.
THEOREM FreshAnswers == Spec => []AnswerFresh
<1>1. IInv => AnswerFresh
  BY DEF IInv, Fresh, AnswerFresh
<1> QED
  BY <1>1, Inductive, PTL

\* FailClosed: a call with an unknown source or path is never told "ok".
THEOREM ClosedFailures == Spec => []FailClosed
<1>1. IInv => FailClosed
  BY DEF IInv, Scopes, FailClosed
<1> QED
  BY <1>1, Inductive, PTL

\* NoLostWaiter: every unanswered call has a waiter, and a request that will
\* answer it.
THEOREM NoWaiterLost == Spec => []NoLostWaiter
<1>1. IInv => NoLostWaiter
  <2> SUFFICES ASSUME Waiting, NEW c \in Calls, Unanswered(c)
               PROVE  \E w \in waiters :
                        /\ w.call = c
                        /\ \E b \in pending \cup current :
                              w.generation <= b.generation
    BY DEF IInv, NoLostWaiter
  <2>1. PICK w \in waiters : w.call = c
    BY DEF Waiting
  <2> QED
    BY <2>1 DEF Waiting
<1> QED
  BY <1>1, Inductive, PTL

\* NoMissedWakeup: the worker does not block on a future that the request it
\* should act on will never fire.
THEOREM NoWakeupMissed == Spec => []NoMissedWakeup
<1>1. IInv => NoMissedWakeup
  BY DEF IInv
<1> QED
  BY <1>1, Inductive, PTL

-----------------------------------------------------------------------------
(* The reindex lock. *)

\* A job holds the lock as long as it is at work.
LockUse ==
  /\ lock = "held" <=> job \in {"locked", "read"}
  /\ BusyNeedsPanic
  /\ outcome \in {"ok", "scope"} => lock # "poisoned"

LEMMA StepLockUse == TypeOK /\ Phases /\ LockUse /\ [Next]_vars => LockUse'
<1> SUFFICES ASSUME TypeOK, Phases, LockUse, [Next]_vars PROVE LockUse'
  OBVIOUS
<1> USE DEF state, worker, jobVars, indexVars, callVars, LockUse, BusyNeedsPanic
<1>1. ASSUME NEW c \in Calls,
             ForceAndWait(c) \/ ForceNotify(c) \/ Return(c) \/ Cancel(c)
      PROVE LockUse'
  BY <1>1 DEF ForceAndWait, ForceNotify, Return, Cancel
<1>2. ASSUME NEW s \in Schedulers, Schedule(s) \/ ScheduleNotify(s)
      PROVE LockUse'
  BY <1>2 DEF Schedule, ScheduleNotify
<1>3. CASE Arm \/ ReadPending \/ Woken \/ CheckDue \/ Sleep \/ Take
  BY <1>3 DEF Arm, ReadPending, Woken, CheckDue, Sleep, Take
<1>4. CASE Spawn \/ Finish
  BY <1>4 DEF Spawn, Finish, Phases
<1>5. CASE JobLock
  BY <1>5 DEF JobLock, TypeOK
<1>6. CASE JobRead \/ JobPublish \/ JobReject \/ JobFail \/ JobPanic
  BY <1>6 DEF JobRead, JobPublish, JobReject, JobFail, JobPanic, Phases
<1>7. CASE Edit \/ Tick \/ UNCHANGED vars
  BY <1>7 DEF Edit, Tick, vars
<1> QED
  BY <1>1, <1>2, <1>3, <1>4, <1>5, <1>6, <1>7 DEF Next, Worker, Job

LEMMA AlwaysLockUse == Spec => []LockUse
<1>1. Init => LockUse
  BY DEF Init, LockUse, BusyNeedsPanic
<1>2. IInv /\ LockUse /\ [Next]_vars => LockUse'
  BY StepLockUse DEF IInv
<1> QED
  BY <1>1, <1>2, Inductive, PTL DEF Spec

\* BusyNeedsPanic: "busy" is never due to the coordinator's own jobs, which
\* give the lock back on every way out but a panic.
THEOREM OnlyPanicIsBusy == Spec => []BusyNeedsPanic
<1>1. LockUse => BusyNeedsPanic
  BY DEF LockUse
<1> QED
  BY <1>1, AlwaysLockUse, PTL

-----------------------------------------------------------------------------
(* The coordinator implements ReindexService for every set of callers,     *)
(* every scope and every delay, as long as the generation counter has not  *)
(* run out of its 2^64 values.                                             *)

\* A call has at most one waiter, which goes when the answer comes.
OneWaiter ==
  /\ \A w, v \in waiters : w.call = v.call => w = v
  /\ \A w \in waiters : answer[w.call] = "none"

LEMMA StepOneWaiter ==
  TypeOK /\ Waiting /\ OneWaiter /\ [Next]_vars => OneWaiter'
<1> SUFFICES ASSUME TypeOK, Waiting, OneWaiter, [Next]_vars PROVE OneWaiter'
  OBVIOUS
<1> USE DEF state, worker, jobVars, indexVars, callVars
<1>1. ASSUME NEW c \in Calls, ForceAndWait(c) PROVE OneWaiter'
  <2> DEFINE new == [generation |-> NextGeneration, call |-> c]
  <2>1. waiters' = waiters \cup {new} /\ answer' = answer
    BY <1>1 DEF ForceAndWait
  <2>2. answer[c] = "none" /\ \A w \in waiters : w.call # c
    BY <1>1 DEF ForceAndWait, Waiting
  <2>3. new.call = c
    OBVIOUS
  <2> HIDE DEF new
  <2> QED
    BY <2>1, <2>2, <2>3 DEF OneWaiter
<1>2. ASSUME NEW c \in Calls, ForceNotify(c) \/ Return(c) \/ Cancel(c)
      PROVE OneWaiter'
  BY <1>2 DEF ForceNotify, Return, Cancel, OneWaiter
<1>3. ASSUME NEW s \in Schedulers, Schedule(s) \/ ScheduleNotify(s)
      PROVE OneWaiter'
  BY <1>3 DEF Schedule, ScheduleNotify, OneWaiter
<1>4. CASE Arm \/ ReadPending \/ Woken \/ CheckDue \/ Sleep \/ Take \/ Spawn
  BY <1>4 DEF Arm, ReadPending, Woken, CheckDue, Sleep, Take, Spawn, OneWaiter
<1>5. CASE Finish
  <2>1. waiters' = waiters \ Served(current)
    BY <1>5 DEF Finish
  <2>2. ASSUME NEW w \in waiters \ Served(current)
        PROVE  answer'[w.call] = "none"
    <3>1. w.call \in Calls
      BY DEF TypeOK, Waiter
    <3>2. ~\E v \in Served(current) : v.call = w.call
      BY DEF OneWaiter, Served
    <3>3. answer'[w.call] = answer[w.call]
      BY <1>5, <3>1, <3>2 DEF Finish
    <3> QED
      BY <3>3 DEF OneWaiter
  <2> QED
    BY <2>1, <2>2 DEF OneWaiter
<1>6. CASE Job
  BY <1>6 DEF Job, JobLock, JobRead, JobPublish, JobReject, JobFail, JobPanic,
              OneWaiter
<1>7. CASE Edit \/ Tick \/ UNCHANGED vars
  BY <1>7 DEF Edit, Tick, vars, OneWaiter
<1> QED
  BY <1>1, <1>2, <1>3, <1>4, <1>5, <1>6, <1>7 DEF Next, Worker

\* Steps that change neither versions nor calls are invisible to the callers.
LEMMA InvisibleStep ==
  ASSUME UNCHANGED <<indexVars, callVars>>, (lock = "poisoned") = (lock' = "poisoned")
  PROVE  UNCHANGED Service!vars
BY DEF indexVars, callVars, Service!vars, Status

LEMMA InitService == Init => Service!Init
BY DEF Init, Service!Init, Status, Callers

LEMMA StepService ==
  IInv /\ LockUse /\ OneWaiter /\ Unsaturated /\ [Next]_vars
    => [Service!Next]_(Service!vars)
<1> SUFFICES ASSUME IInv, LockUse, OneWaiter, Unsaturated, [Next]_vars
             PROVE  Service!Next \/ UNCHANGED Service!vars
  OBVIOUS
<1> DEFINE st == [c \in Calls |-> Status(c)]
           broken == lock = "poisoned"
<1>0. /\ TypeOK /\ Phases /\ Waiting /\ Versions /\ Fresh
      /\ pc \in [Callers -> {"idle", "notify", "await", "done", "cancelled"}]
      /\ answer \in [Calls -> Answers \cup {"none"}]
      /\ Calls \subseteq Callers
  BY DEF IInv, TypeOK, Callers
<1>1. ASSUME NEW c \in Calls, ForceAndWait(c) PROVE Service!Next
  <2>1. /\ pc' = [pc EXCEPT ![c] = "notify"] /\ answer' = answer
        /\ pc[c] = "idle" /\ answer[c] = "none"
        /\ asked' = [asked EXCEPT ![c] = corpus]
        /\ corpus' = corpus /\ served' = served /\ broken' = broken
    BY <1>0, <1>1 DEF ForceAndWait, indexVars, jobVars, Waiting
  <2>2. st[c] = "idle" /\ st' = [st EXCEPT ![c] = "waiting"]
    BY <1>0, <2>1 DEF Status
  <2>3. Service!Ask(c)
    BY <2>1, <2>2 DEF Service!Ask
  <2> QED
    BY <2>3 DEF Service!Next
<1>2. ASSUME NEW c \in Calls, ForceNotify(c) \/ Return(c)
      PROVE  UNCHANGED Service!vars
  <2>1. \A d \in Calls : Status(d)' = Status(d)
    BY <1>0, <1>2 DEF ForceNotify, Return, Status
  <2> QED
    BY <1>2, <2>1 DEF ForceNotify, Return, indexVars, jobVars, Service!vars
<1>3. ASSUME NEW c \in Calls, Cancel(c)
      PROVE  Service!Next \/ UNCHANGED Service!vars
  <2>1. /\ pc' = [pc EXCEPT ![c] = "cancelled"] /\ answer' = answer
        /\ pc[c] = "await" /\ asked' = asked
        /\ corpus' = corpus /\ served' = served /\ broken' = broken
    BY <1>3 DEF Cancel, indexVars, jobVars
  <2>2. CASE answer[c] = "none"
    <3>1. st[c] = "waiting" /\ st' = [st EXCEPT ![c] = "gone"]
      BY <1>0, <2>1, <2>2 DEF Status
    <3>2. Service!GiveUp(c)
      BY <2>1, <3>1 DEF Service!GiveUp
    <3> QED
      BY <3>2 DEF Service!Next
  <2>3. CASE answer[c] # "none"
    <3>1. \A d \in Calls : Status(d)' = Status(d)
      BY <1>0, <2>1, <2>3 DEF Status
    <3> QED
      BY <2>1, <3>1 DEF Service!vars
  <2> QED
    BY <2>2, <2>3
<1>4. ASSUME NEW s \in Schedulers, Schedule(s) \/ ScheduleNotify(s)
      PROVE  UNCHANGED Service!vars
  <2>1. \A d \in Calls : pc'[d] = pc[d] /\ answer'[d] = answer[d]
    BY <1>0, <1>4, CallersAssumption DEF Schedule, ScheduleNotify
  <2>2. \A d \in Calls : Status(d)' = Status(d)
    BY <2>1 DEF Status
  <2> QED
    BY <1>4, <2>2 DEF Schedule, ScheduleNotify, indexVars, jobVars, Service!vars
<1>5. CASE Arm \/ ReadPending \/ Woken \/ CheckDue \/ Sleep \/ Take \/ Spawn
           \/ JobLock \/ JobRead \/ JobReject \/ Tick \/ UNCHANGED vars
  <2>1. broken' = broken
    BY <1>5 DEF Arm, ReadPending, Woken, CheckDue, Sleep, Take, Spawn, JobLock, JobRead,
                JobReject, Tick, vars, jobVars, LockUse
  <2> QED
    BY <1>5, <2>1, InvisibleStep
    DEF Arm, ReadPending, Woken, CheckDue, Sleep, Take, Spawn, JobLock, JobRead,
        JobReject, Tick, vars
<1>6. CASE Finish
  <2> DEFINE batch == {c \in Calls : /\ pc[c] # "cancelled"
                                     /\ \E w \in Served(current) : w.call = c}
  <2>1. /\ answer' = [c \in Calls |-> IF c \in batch THEN outcome ELSE answer[c]]
        /\ job = "done" /\ pc' = pc /\ asked' = asked
        /\ corpus' = corpus /\ served' = served /\ broken' = broken
    BY <1>6 DEF Finish, indexVars
  <2>2. outcome \in Answers
    BY <1>0, <2>1 DEF TypeOK, Phases
  <2>3. ASSUME NEW c \in batch
        PROVE  answer[c] = "none" /\ st[c] = "waiting"
               /\ (outcome = "ok" => asked[c] <= served)
    <3>1. PICK w \in waiters : w.call = c /\ TakenBy(w)
      BY DEF Served, TakenBy
    <3>2. answer[c] = "none" /\ pc[c] # "idle" /\ pc[c] # "cancelled"
      BY <1>0, <3>1 DEF OneWaiter, Waiting
    <3>3. st[c] = "waiting"
      BY <1>0, <3>2 DEF Status
    <3> QED
      BY <1>0, <2>1, <3>1, <3>2, <3>3 DEF Fresh
  <2>4. outcome # "none"
    BY <2>2 DEF Answers
  <2>5. st' = [c \in Calls |-> IF c \in batch THEN outcome ELSE st[c]]
    <3> SUFFICES ASSUME NEW c \in Calls
                 PROVE  Status(c)' = IF c \in batch THEN outcome ELSE Status(c)
      OBVIOUS
    <3>1. CASE c \in batch
      BY <2>1, <2>4, <3>1 DEF Status
    <3>2. CASE c \notin batch
      <4>1. answer'[c] = answer[c] /\ pc'[c] = pc[c]
        BY <2>1, <3>2
      <4>2. Status(c)' = Status(c)
        BY <4>1 DEF Status
      <4> QED
        BY <3>2, <4>2
    <3> QED
      BY <3>1, <3>2
  <2>6. Service!Answer(batch, outcome)
    <3>1. (outcome = "busy" => broken) /\ (outcome \in {"ok", "scope"} => ~broken)
      BY DEF LockUse, BusyNeedsPanic
    <3> QED
      BY <2>1, <2>3, <2>5, <3>1 DEF Service!Answer
  <2>7. batch \in SUBSET Calls /\ outcome \in Service!Answers
    BY <2>2 DEF Answers, Service!Answers
  <2> QED
    BY <2>6, <2>7 DEF Service!Next
<1>7. CASE JobPublish \/ JobFail \/ JobPanic
  <2> DEFINE works == JobPublish \/ JobFail
  <2>1. /\ corpus' = corpus /\ UNCHANGED callVars
        /\ served' = served \/ (job = "read" /\ served' = snapshot)
    BY <1>7 DEF JobPublish, JobFail, JobPanic
  <2>2. served' \in served..corpus
    BY <1>0, <2>1, BoundsAssumption DEF TypeOK, Versions
  <2>3. asked' = asked /\ st' = st
    BY <2>1 DEF callVars, Status
  <2>4. CASE works
    <3>1. broken' = broken
      BY <1>0, <2>4 DEF JobPublish, JobFail, Phases, LockUse
    <3>2. Service!Refresh
      BY <2>1, <2>2, <2>3, <3>1 DEF Service!Refresh
    <3> QED
      BY <3>2 DEF Service!Next
  <2>5. CASE JobPanic
    <3>1. broken'
      BY <2>5 DEF JobPanic
    <3>2. Service!Break
      BY <2>1, <2>2, <2>3, <3>1 DEF Service!Break
    <3> QED
      BY <3>2 DEF Service!Next
  <2> QED
    BY <1>7, <2>4, <2>5
<1>8. CASE Edit
  <2>1. st' = st /\ Service!Edit
    BY <1>8 DEF Edit, callVars, jobVars, Status, Service!Edit
  <2> QED
    BY <2>1 DEF Service!Next
<1> QED
  BY <1>1, <1>2, <1>3, <1>4, <1>5, <1>6, <1>7, <1>8 DEF Next, Worker, Job

\* ImplementsService: whatever is merged, debounced, cancelled or fails, the
\* callers of the coordinator see the abstract service.
THEOREM Refinement == Spec /\ []Unsaturated => ImplementsService
<1>1. Init => OneWaiter
  BY DEF Init, OneWaiter
<1>2. IInv /\ OneWaiter /\ [Next]_vars => OneWaiter'
  BY StepOneWaiter DEF IInv
<1> QED
  BY <1>1, <1>2, Inductive, AlwaysLockUse, InitService, StepService, PTL
  DEF Spec, ImplementsService, Service!Spec
=============================================================================
