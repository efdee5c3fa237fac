--------------------------- MODULE AdmissionProofs ---------------------------
(***************************************************************************)
(* Theorems about startup admission for every environment the server can   *)
(* be started in and every history of edits, builds and gates.             *)
(***************************************************************************)
EXTENDS Admission, TLAPS

AtMostOne(S) == \A x, y \in S : x = y

\* An artifact that says pass was written by a gate that passed.
Vouched ==
  \A p \in Profiles : \A a \in artifact[p] :
    a.status = "pass" /\ a.defect = "none" => <<a.level, a.label>> \in passed

\* A gate tests the executable unless that was replaced meanwhile, and an
\* artifact is about the executable unless that was replaced since.
Tested ==
  /\ AtMostOne(exe)
  /\ \A g \in gating, x \in exe : g.overlapped \/ g.src = x.src
  /\ \A p \in Profiles : \A a \in artifact[p], x \in exe :
       a.overlapped \/ a.tested = x.src \/ a.mtime <= x.mtime

IInv == TypeOK /\ Vouched /\ Tested /\ StrictIsGated /\ PassedWasTested

-----------------------------------------------------------------------------
(* Type correctness. *)

LEMMA InitType == Init => TypeOK
BY AdmissionAssumption DEF Init, TypeOK, Versions

\* The range of the outcomes of an environment that loads.
LEMMA OutcomeType ==
  ASSUME NEW env \in Environments, NEW x, Loads(env)
  PROVE  Outcome(env, x) \in
           {"disabled", "bypassed", "passed", "warning", "rejected"}
<1>1. Mode(env) \in {"off", "warn", "strict"}
  BY AdmissionAssumption DEF Loads, Mode, Environment, ModeValues
<1>2. CASE Mode(env) = "off"
  BY <1>2 DEF Outcome
<1>3. CASE Mode(env) = "warn"
  BY <1>3, AdmissionAssumption DEF Outcome, Environment
<1>4. CASE Mode(env) = "strict"
  BY <1>4, AdmissionAssumption DEF Outcome, Environment
<1> QED
  BY <1>1, <1>2, <1>3, <1>4

\* "passed" means that there was an artifact and every check held.
LEMMA PassedMeans ==
  ASSUME NEW env \in Environments, NEW x, Loads(env),
         Outcome(env, x) = "passed"
  PROVE  Failed(env, x) = {} /\ artifact[RequiredGatePath(env)] # {}
<1>1. Mode(env) \in {"off", "warn", "strict"} /\ env.bypass \in BOOLEAN
  BY AdmissionAssumption DEF Loads, Mode, Environment, ModeValues
<1>2. Failed(env, x) = {}
  BY <1>1 DEF Outcome
<1> QED
  BY <1>2 DEF Failed

LEMMA StepType == TypeOK /\ [Next]_vars => TypeOK'
<1> SUFFICES ASSUME TypeOK, [Next]_vars PROVE TypeOK'
  OBVIOUS
<1>0. /\ now \in Nat /\ tree \in Nat /\ head \in Nat /\ MaxVersion \in Nat
      /\ tree \in 1..tree /\ now \in 1..now /\ tree \in Versions
      /\ head \in Versions
      /\ 1..tree \subseteq 1..(tree + 1) /\ 1..now \subseteq 1..(now + 1)
  BY AdmissionAssumption DEF TypeOK, Versions
<1>1. CASE EditSource
  <2>1. tree' \in Versions /\ head' \in 1..tree' /\ 1..tree \subseteq 1..tree'
    BY <1>0, <1>1, AdmissionAssumption DEF EditSource, TypeOK, Versions
  <2>2. UNCHANGED <<now, script, exe, gating, artifact, server, gates, passed>>
    BY <1>1 DEF EditSource
  <2> HIDE DEF Versions
  <2>3. exe' \subseteq [src : 1..tree', label : Label, mtime : 1..now']
    BY <2>1, <2>2 DEF TypeOK
  <2>4. gating' \subseteq [profile : Profiles, src : 1..tree', label : Label,
                           overlapped : BOOLEAN]
    BY <2>1, <2>2 DEF TypeOK
  <2>5. \A p \in Profiles :
          artifact'[p] \subseteq
            [level : Profiles, label : Label, status : {"pass", "fail"},
             defect : Defects \cup {"none"}, mtime : 1..now',
             expires : Nat, tested : 1..tree', overlapped : BOOLEAN]
    BY <2>1, <2>2 DEF TypeOK
  <2> QED
    BY <2>1, <2>2, <2>3, <2>4, <2>5 DEF TypeOK
<1>2. CASE CommitSource
  BY <1>0, <1>2 DEF CommitSource, TypeOK
<1>3. CASE Build
  <2>1. Printed \subseteq Label
    <3>1. CASE \E l \in script : l.rev = head
      BY <3>1 DEF Printed, TypeOK
    <3>2. CASE ~\E l \in script : l.rev = head
      <4>1. ASSUME NEW d \in BOOLEAN PROVE [rev |-> head, dirty |-> d] \in Label
        BY <1>0 DEF Label
      <4>2. [rev |-> head, dirty |-> tree # head] \in Label
        BY <4>1, Zenon
      <4> QED
        BY <3>2, <4>2 DEF Printed
    <3> QED
      BY <3>1, <3>2
  <2>2. exe' \subseteq [src : 1..tree, label : Label, mtime : 1..now]
    BY <1>0, <1>3, <2>1 DEF Build
  <2>3. gating' \subseteq [profile : Profiles, src : 1..tree, label : Label,
                           overlapped : BOOLEAN]
    <3>1. gating' = {[g EXCEPT !.overlapped = TRUE] : g \in gating}
      BY <1>3 DEF Build
    <3>2. ASSUME NEW g \in gating
          PROVE  [g EXCEPT !.overlapped = TRUE] \in
                   [profile : Profiles, src : 1..tree, label : Label,
                    overlapped : BOOLEAN]
      BY DEF TypeOK
    <3> QED
      BY <3>1, <3>2
  <2> QED
    BY <1>3, <2>1, <2>2, <2>3 DEF Build, TypeOK
<1>4. ASSUME NEW p \in Profiles, StartGate(p) PROVE TypeOK'
  <2>1. gating' \subseteq [profile : Profiles, src : 1..tree, label : Label,
                           overlapped : BOOLEAN]
    BY <1>4 DEF StartGate, TypeOK
  <2>2. gates' \in 0..MaxGates
    BY <1>4, AdmissionAssumption DEF StartGate, TypeOK
  <2> QED
    BY <1>4, <2>1, <2>2 DEF StartGate, TypeOK
<1>5. ASSUME NEW status \in {"pass", "fail"}, NEW defect \in Defects \cup {"none"},
             FinishGate(status, defect)
      PROVE  TypeOK'
  <2>1. PICK g \in gating :
          /\ artifact' = [artifact EXCEPT ![g.profile] =
               {[level |-> g.profile, label |-> g.label, status |-> status,
                 defect |-> defect, mtime |-> now, expires |-> now + Validity,
                 tested |-> g.src, overlapped |-> g.overlapped]}]
          /\ passed' = IF status = "pass" /\ defect = "none"
                       THEN passed \cup {<<g.profile, g.label>>} ELSE passed
    BY <1>5 DEF FinishGate
  <2>2. /\ g.profile \in Profiles /\ g.label \in Label /\ g.src \in 1..tree
        /\ g.overlapped \in BOOLEAN
    BY DEF TypeOK
  <2>3. now + Validity \in Nat
    BY <1>0, AdmissionAssumption
  <2>4. [level |-> g.profile, label |-> g.label, status |-> status,
         defect |-> defect, mtime |-> now, expires |-> now + Validity,
         tested |-> g.src, overlapped |-> g.overlapped] \in
           [level : Profiles, label : Label, status : {"pass", "fail"},
            defect : Defects \cup {"none"}, mtime : 1..now,
            expires : Nat, tested : 1..tree, overlapped : BOOLEAN]
    BY <1>0, <2>2, <2>3
  <2>5. UNCHANGED <<now, tree, head, script, exe, server, gates>> /\ gating' = {}
    BY <1>5 DEF FinishGate
  <2>6. \A p \in Profiles :
          artifact'[p] \subseteq
            [level : Profiles, label : Label, status : {"pass", "fail"},
             defect : Defects \cup {"none"}, mtime : 1..now,
             expires : Nat, tested : 1..tree, overlapped : BOOLEAN]
    BY <2>1, <2>4 DEF TypeOK
  <2>7. passed' \subseteq Profiles \X Label
    BY <2>1, <2>2 DEF TypeOK
  <2> QED
    BY <2>5, <2>6, <2>7 DEF TypeOK
<1>6. ASSUME NEW env \in Environments, StartServer(env) PROVE TypeOK'
  <2>1. UNCHANGED <<now, tree, head, script, exe, gating, artifact, gates, passed>>
    BY <1>6 DEF StartServer
  <2>2. PICK x \in exe :
          /\ Outcome(env, x) # "rejected"
          /\ server' = {[env |-> env, src |-> x.src, label |-> x.label,
                         built |-> x.mtime, outcome |-> Outcome(env, x),
                         reason |-> Reason(env, x),
                         basis |-> artifact[RequiredGatePath(env)]]}
    BY <1>6 DEF StartServer
  <2>3. Loads(env)
    BY <1>6 DEF StartServer
  <2>4. Outcome(env, x) \in {"disabled", "bypassed", "passed", "warning"}
    BY <2>2, <2>3, OutcomeType
  <2>5. Outcome(env, x) = "passed" => artifact[RequiredGatePath(env)] # {}
    BY <2>3, PassedMeans
  <2> QED
    BY <2>1, <2>2, <2>4, <2>5 DEF TypeOK
<1>7. CASE StopServer
  BY <1>7 DEF StopServer, TypeOK
<1>8. CASE Tick
  <2>1. now' \in 1..MaxTime /\ 1..now \subseteq 1..now'
    BY <1>0, <1>8, AdmissionAssumption DEF Tick, TypeOK
  <2>2. UNCHANGED <<tree, head, script, exe, gating, artifact, server, gates, passed>>
    BY <1>8 DEF Tick
  <2>3. exe' \subseteq [src : 1..tree', label : Label, mtime : 1..now']
    BY <2>1, <2>2 DEF TypeOK
  <2>4. \A p \in Profiles :
          artifact'[p] \subseteq
            [level : Profiles, label : Label, status : {"pass", "fail"},
             defect : Defects \cup {"none"}, mtime : 1..now',
             expires : Nat, tested : 1..tree', overlapped : BOOLEAN]
    BY <2>1, <2>2 DEF TypeOK
  <2> QED
    BY <2>1, <2>2, <2>3, <2>4 DEF TypeOK
<1>9. CASE UNCHANGED vars
  BY <1>9 DEF vars, TypeOK
<1> QED
  BY <1>1, <1>2, <1>3, <1>4, <1>5, <1>6, <1>7, <1>8, <1>9 DEF Next

\* TypeOK: every artifact, executable and server is about versions and times
\* that exist.
THEOREM TypeCorrect == Spec => []TypeOK
BY InitType, StepType, PTL DEF Spec

-----------------------------------------------------------------------------
(* Evidence. *)

LEMMA InitEvidence ==
  Init => Vouched /\ Tested /\ StrictIsGated /\ PassedWasTested
BY DEF Init, Vouched, Tested, AtMostOne, StrictIsGated, PassedWasTested

LEMMA StepVouched == TypeOK /\ Vouched /\ [Next]_vars => Vouched'
<1> SUFFICES ASSUME TypeOK, Vouched, [Next]_vars PROVE Vouched'
  OBVIOUS
<1>1. CASE UNCHANGED <<artifact, passed>>
  BY <1>1 DEF Vouched
<1>2. ASSUME NEW status \in {"pass", "fail"}, NEW defect \in Defects \cup {"none"},
             FinishGate(status, defect)
      PROVE  Vouched'
  <2>1. PICK g \in gating :
          /\ artifact' = [artifact EXCEPT ![g.profile] =
               {[level |-> g.profile, label |-> g.label, status |-> status,
                 defect |-> defect, mtime |-> now, expires |-> now + Validity,
                 tested |-> g.src, overlapped |-> g.overlapped]}]
          /\ passed' = IF status = "pass" /\ defect = "none"
                       THEN passed \cup {<<g.profile, g.label>>} ELSE passed
    BY <1>2 DEF FinishGate
  <2>2. SUFFICES ASSUME NEW p \in Profiles, NEW a \in artifact'[p],
                        a.status = "pass", a.defect = "none"
                 PROVE  <<a.level, a.label>> \in passed'
    BY DEF Vouched
  <2>3. CASE a \in artifact[p]
    BY <2>1, <2>2, <2>3 DEF Vouched
  <2>4. CASE a \notin artifact[p]
    <3>1. a = [level |-> g.profile, label |-> g.label, status |-> status,
               defect |-> defect, mtime |-> now, expires |-> now + Validity,
               tested |-> g.src, overlapped |-> g.overlapped]
      BY <2>1, <2>4
    <3> QED
      BY <2>1, <2>2, <3>1
  <2> QED
    BY <2>3, <2>4
<1> QED
  BY <1>1, <1>2 DEF Next, vars, EditSource, CommitSource, Build, StartGate,
                    StartServer, StopServer, Tick

LEMMA StepTested == TypeOK /\ Tested /\ [Next]_vars => Tested'
<1> SUFFICES ASSUME TypeOK, Tested, [Next]_vars PROVE Tested'
  OBVIOUS
<1>0. now \in Nat
  BY AdmissionAssumption DEF TypeOK
<1>1. CASE UNCHANGED <<exe, gating, artifact>>
  BY <1>1 DEF Tested, AtMostOne
<1>2. CASE Build
  <2>1. AtMostOne(exe') /\ \A x \in exe' : x.mtime = now
    BY <1>2 DEF Build, AtMostOne
  <2>2. \A g \in gating' : g.overlapped
    <3>1. \A g \in gating : [g EXCEPT !.overlapped = TRUE].overlapped
      BY DEF TypeOK
    <3> QED
      BY <1>2, <3>1 DEF Build
  <2>3. \A p \in Profiles : \A a \in artifact[p] : a.mtime <= now
    BY <1>0 DEF TypeOK
  <2>4. artifact' = artifact
    BY <1>2 DEF Build
  <2> QED
    BY <2>1, <2>2, <2>3, <2>4 DEF Tested
<1>3. ASSUME NEW p \in Profiles, StartGate(p) PROVE Tested'
  <2>1. PICK x \in exe :
          gating' = {[profile |-> p, src |-> x.src, label |-> x.label,
                      overlapped |-> FALSE]}
    BY <1>3 DEF StartGate
  <2>2. \A y \in exe : y = x
    BY DEF Tested, AtMostOne
  <2> QED
    BY <1>3, <2>1, <2>2 DEF StartGate, Tested, AtMostOne
<1>4. ASSUME NEW status \in {"pass", "fail"}, NEW defect \in Defects \cup {"none"},
             FinishGate(status, defect)
      PROVE  Tested'
  <2>1. PICK g \in gating :
          artifact' = [artifact EXCEPT ![g.profile] =
            {[level |-> g.profile, label |-> g.label, status |-> status,
              defect |-> defect, mtime |-> now, expires |-> now + Validity,
              tested |-> g.src, overlapped |-> g.overlapped]}]
    BY <1>4 DEF FinishGate
  <2>2. SUFFICES ASSUME NEW p \in Profiles, NEW a \in artifact'[p], NEW x \in exe
                 PROVE  a.overlapped \/ a.tested = x.src \/ a.mtime <= x.mtime
    BY <1>4 DEF FinishGate, Tested, AtMostOne
  <2>3. CASE a \in artifact[p]
    BY <2>3 DEF Tested
  <2>4. CASE a \notin artifact[p]
    <3>1. a.overlapped = g.overlapped /\ a.tested = g.src
      BY <2>1, <2>2, <2>4
    <3>2. g.overlapped \/ g.src = x.src
      BY DEF Tested
    <3> QED
      BY <3>1, <3>2
  <2> QED
    BY <2>3, <2>4
<1> QED
  BY <1>1, <1>2, <1>3, <1>4 DEF Next, vars, EditSource, CommitSource,
     StartServer, StopServer, Tick

\* What an environment with JSON artifacts lets pass.
LEMMA NothingWrong ==
  ASSUME TypeOK, NEW env \in Environments, NEW x \in exe, Loads(env),
         Outcome(env, x) = "passed", env.json
  PROVE  /\ RequiredGatePath(env) \in Profiles
         /\ \E a \in artifact[RequiredGatePath(env)] :
              /\ a.defect = "none" /\ a.status = "pass"
              /\ a.level = Profile(env) /\ a.label = x.label
<1>1. Failed(env, x) = {} /\ artifact[RequiredGatePath(env)] # {}
  BY PassedMeans
<1>2. PICK a \in artifact[RequiredGatePath(env)] : Wrong(a, env, x) = {}
  BY <1>1 DEF Failed
<1>3. Profile(env) \in Profiles /\ env.swapped \in BOOLEAN
  BY AdmissionAssumption
  DEF Loads, Profile, Environment, ProfileValues, Profiles
<1>4. RequiredGatePath(env) \in Profiles
  BY <1>3 DEF RequiredGatePath, Profiles
<1>5. a.level = Profile(env) /\ a.status = "pass" /\ a.label = x.label
  BY <1>2 DEF Wrong
<1>6. a.defect \notin DefectValues
  BY <1>2 DEF Wrong, DefectValues
<1>7. a.defect \in Defects \cup {"none"}
  BY <1>4 DEF TypeOK
<1>8. a.defect = "none"
  BY <1>6, <1>7, AdmissionAssumption
<1> QED
  BY <1>4, <1>5, <1>8

LEMMA StepStrictIsGated ==
  TypeOK /\ Vouched /\ StrictIsGated /\ [Next]_vars => StrictIsGated'
<1> SUFFICES ASSUME TypeOK, Vouched, StrictIsGated, [Next]_vars
             PROVE  StrictIsGated'
  OBVIOUS
<1>1. CASE UNCHANGED <<server, passed>>
  BY <1>1 DEF StrictIsGated, Mode, Profile
<1>2. ASSUME NEW status \in {"pass", "fail"}, NEW defect \in Defects \cup {"none"},
             FinishGate(status, defect)
      PROVE  StrictIsGated'
  <2>1. server' = server /\ passed \subseteq passed'
    BY <1>2 DEF FinishGate
  <2> QED
    BY <2>1 DEF StrictIsGated, Mode, Profile
<1>3. CASE StopServer
  BY <1>3 DEF StopServer, StrictIsGated
<1>4. ASSUME NEW env \in Environments, StartServer(env) PROVE StrictIsGated'
  <2>1. PICK x \in exe :
          /\ Outcome(env, x) # "rejected"
          /\ server' = {[env |-> env, src |-> x.src, label |-> x.label,
                         built |-> x.mtime, outcome |-> Outcome(env, x),
                         reason |-> Reason(env, x),
                         basis |-> artifact[RequiredGatePath(env)]]}
    BY <1>4 DEF StartServer
  <2>2. Loads(env) /\ UNCHANGED <<artifact, passed>>
    BY <1>4 DEF StartServer
  <2>3. CASE env.bypass
    <3>1. env.ttl \in Nat
      BY AdmissionAssumption DEF Environment
    <3>2. env.reason /\ env.ttl > 0 /\ (env.production => env.optIn)
      BY <2>2, <2>3, <3>1 DEF Loads
    <3>3. \A s \in server' : s.env = env
      BY <2>1
    <3> QED
      BY <2>3, <3>2, <3>3 DEF StrictIsGated
  <2>4. ASSUME ~env.bypass, env.json,
               Mode(env) = "strict" \/ (env.production /\ Mode(env) # "warn")
        PROVE  <<Profile(env), x.label>> \in passed
    <3>0. Mode(env) = "strict"
      BY <2>2, <2>4, AdmissionAssumption
      DEF Loads, Mode, Environment, ModeValues
    <3>1. Outcome(env, x) = "passed"
      BY <2>1, <2>4, <3>0 DEF Outcome
    <3>2. PICK a \in artifact[RequiredGatePath(env)] :
            /\ a.defect = "none" /\ a.status = "pass"
            /\ a.level = Profile(env) /\ a.label = x.label
      BY <2>2, <2>4, <3>1, NothingWrong
    <3>3. RequiredGatePath(env) \in Profiles
      BY <2>2, <2>4, <3>1, NothingWrong
    <3> QED
      BY <3>2, <3>3 DEF Vouched
  <2>5. \A s \in server' : s.env = env /\ s.label = x.label
    BY <2>1
  <2>6. CASE ~env.bypass
    BY <2>2, <2>4, <2>5, <2>6 DEF StrictIsGated
  <2> QED
    BY <2>3, <2>6
<1> QED
  BY <1>1, <1>2, <1>3, <1>4 DEF Next, vars, EditSource, CommitSource, Build,
                                StartGate, Tick

LEMMA StepPassedWasTested ==
  TypeOK /\ Tested /\ PassedWasTested /\ [Next]_vars => PassedWasTested'
<1> SUFFICES ASSUME TypeOK, Tested, PassedWasTested, [Next]_vars
             PROVE  PassedWasTested'
  OBVIOUS
<1>1. CASE server' = server
  BY <1>1 DEF PassedWasTested
<1>2. CASE StopServer
  BY <1>2 DEF StopServer, PassedWasTested
<1>3. ASSUME NEW env \in Environments, StartServer(env) PROVE PassedWasTested'
  <2>1. PICK x \in exe :
          server' = {[env |-> env, src |-> x.src, label |-> x.label,
                      built |-> x.mtime, outcome |-> Outcome(env, x),
                      reason |-> Reason(env, x),
                      basis |-> artifact[RequiredGatePath(env)]]}
    BY <1>3 DEF StartServer
  <2>2. Loads(env)
    BY <1>3 DEF StartServer
  <2>3. ASSUME Outcome(env, x) = "passed",
               NEW a \in artifact[RequiredGatePath(env)]
        PROVE  a.tested = x.src \/ a.overlapped \/ a.mtime = x.mtime
    <3>1. Wrong(a, env, x) = {}
      BY <2>2, <2>3, PassedMeans DEF Failed
    <3>2. ~(a.mtime < x.mtime)
      BY <3>1 DEF Wrong, IsStale
    <3>3. RequiredGatePath(env) \in Profiles
      <4>1. Profile(env) \in Profiles /\ env.swapped \in BOOLEAN
        BY <2>2, AdmissionAssumption
        DEF Loads, Profile, Environment, ProfileValues, Profiles
      <4> QED
        BY <4>1 DEF RequiredGatePath, Profiles
    <3>4. a.mtime \in Nat /\ x.mtime \in Nat
      BY <3>3, AdmissionAssumption DEF TypeOK
    <3> QED
      BY <3>2, <3>3, <3>4 DEF Tested
  <2>4. \A s \in server' : /\ s.outcome = Outcome(env, x)
                           /\ s.basis = artifact[RequiredGatePath(env)]
                           /\ s.src = x.src /\ s.built = x.mtime
    BY <2>1
  <2> QED
    BY <2>3, <2>4 DEF PassedWasTested
<1> QED
  BY <1>1, <1>2, <1>3 DEF Next, vars, EditSource, CommitSource, Build,
                          StartGate, FinishGate, Tick

\* The evidence behind what is running is invariant.
THEOREM Inductive == Spec => []IInv
<1>1. Init => IInv
  BY InitType, InitEvidence DEF IInv
<1>2. IInv /\ [Next]_vars => IInv'
  BY StepType, StepVouched, StepTested, StepStrictIsGated, StepPassedWasTested
  DEF IInv
<1> QED
  BY <1>1, <1>2, PTL DEF Spec

\* StrictIsGated: a strict server, and one in production that does more than
\* warn, has a justified bypass or runs an executable for whose label a gate of
\* the required profile has passed.
THEOREM StrictNeedsGate == Spec => []StrictIsGated
<1>1. IInv => StrictIsGated
  BY DEF IInv
<1> QED
  BY <1>1, Inductive, PTL

\* PassedWasTested: what passed is what was tested, unless the executable was
\* replaced during the gate or within the tick of the artifact.
THEOREM PassedIsTested == Spec => []PassedWasTested
<1>1. IInv => PassedWasTested
  BY DEF IInv
<1> QED
  BY <1>1, Inductive, PTL

-----------------------------------------------------------------------------
(* What the server says. *)

\* AttestedOkIsPassed: of the outcomes a server can run with, only "passed" has
\* a label that the attestation does not call degraded.
THEOREM OkMeansPassed == Spec => []AttestedOkIsPassed
<1>1. TypeOK => AttestedOkIsPassed
  BY DEF TypeOK, AttestedOkIsPassed, AttestationStatus, AdmissionOutcomeLabel
<1> QED
  BY <1>1, TypeCorrect, PTL

=============================================================================
