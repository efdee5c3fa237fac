----------------------------- MODULE Admission ------------------------------
(***************************************************************************)
(* From the source tree to a running server: what the build script says    *)
(* the executable was built from (src/build.rs, src/src/provenance.rs),    *)
(* what a test gate leaves behind, and whether the server starts on that   *)
(* evidence (src/src/config.rs, src/src/admission.rs, src/src/main.rs).    *)
(*                                                                         *)
(* Source trees are version numbers.  The label [rev, dirty] stands for    *)
(* the build identity and for the source fingerprint, which are two        *)
(* renderings of it.  The gates themselves run outside the repository;     *)
(* they test the executable they find and write an artifact when they end. *)
(***************************************************************************)
EXTENDS Naturals, Sequences, SequencesExt

CONSTANTS
  MaxVersion,     \* bound on the versions of the source tree
  MaxTime,        \* bound on the clock
  MaxGates,       \* bound on the gates that are started
  Validity,       \* how long an artifact is valid, in ticks
  Defects,        \* defects an artifact can have besides its status
  Environments    \* the environment variables a server can be started with

ModeValues    == {"unset", "empty", "off", "warn", "strict", "bad"}
ProfileValues == {"unset", "empty", "fast", "standard", "bad"}
Profiles      == {"fast", "standard"}
DefectValues  == {"schema", "component", "manifest", "timestamp"}
Environment   == [production : BOOLEAN, mode : ModeValues,
                  profile : ProfileValues, bypass : BOOLEAN, reason : BOOLEAN,
                  ttl : Nat, optIn : BOOLEAN, json : BOOLEAN,
                  swapped : BOOLEAN]

ASSUME AdmissionAssumption ==
  /\ MaxVersion \in Nat \ {0}
  /\ MaxTime \in Nat \ {0}
  /\ MaxGates \in Nat
  /\ Validity \in Nat
  /\ Defects \subseteq DefectValues
  /\ Environments \subseteq Environment

VARIABLES
  now,        \* the clock
  tree,       \* version of the working tree
  head,       \* version of the commit that HEAD names
  script,     \* the label the build script printed when it last ran
  exe,        \* the executable: no element or one
  gating,     \* the gate that is running: no element or one
  artifact,   \* the artifact on each profile's path: no element or one
  server,     \* the running server: no element or one
  gates,      \* history: how many gates were started
  passed      \* history: <<profile, label>> of every gate that passed

vars == <<now, tree, head, script, exe, gating, artifact, server, gates, passed>>

Versions == 1..MaxVersion
Label    == [rev : Versions, dirty : BOOLEAN]

TypeOK ==
  /\ now \in 1..MaxTime
  /\ tree \in Versions
  /\ head \in 1..tree
  /\ script \subseteq Label
  /\ exe \subseteq [src : 1..tree, label : Label, mtime : 1..now]
  /\ gating \subseteq [profile : Profiles, src : 1..tree, label : Label,
                       overlapped : BOOLEAN]
  /\ \A p \in Profiles :
       artifact[p] \subseteq
         [level : Profiles, label : Label, status : {"pass", "fail"},
          defect : Defects \cup {"none"}, mtime : 1..now,
          expires : Nat, tested : 1..tree, overlapped : BOOLEAN]
  /\ \A s \in server :
       /\ s.outcome \in {"disabled", "bypassed", "passed", "warning"}
       /\ s.outcome = "passed" => s.basis # {}
  /\ gates \in 0..MaxGates
  /\ passed \subseteq Profiles \X Label

Init ==
  /\ now = 1
  /\ tree = 1
  /\ head = 1
  /\ script = {}
  /\ exe = {}
  /\ gating = {}
  /\ artifact = [p \in Profiles |-> {}]
  /\ server = {}
  /\ gates = 0
  /\ passed = {}

-----------------------------------------------------------------------------
(* Configuration: load_startup_admission_config. *)

Mode(env) ==
  CASE env.mode = "unset"             -> IF env.production THEN "strict" ELSE "warn"
    [] env.mode \in {"empty", "off"}  -> "off"
    [] env.mode \in {"warn", "strict"} -> env.mode
    [] env.mode = "bad"               -> "error"

Profile(env) ==
  CASE env.profile = "unset"            -> IF env.production THEN "standard" ELSE "fast"
    [] env.profile \in {"empty", "fast"} -> "fast"
    [] env.profile = "standard"         -> "standard"
    [] env.profile = "bad"              -> "error"

Loads(env) ==
  /\ Mode(env) # "error" /\ Profile(env) # "error"
  /\ ~(env.production /\ Mode(env) = "off")
  /\ env.bypass => /\ env.reason /\ env.ttl # 0
                   /\ env.production => env.optIn

-----------------------------------------------------------------------------
(* Evaluation: evaluate_startup_admission. *)

Checks == <<"missing", "schema", "component", "level", "status", "label",
            "manifest", "timestamp", "expired", "stale">>

\* The file that the path variable of the required profile names; the two
\* variables can be set to each other's file.
RequiredGatePath(env) ==
  CHOOSE p \in Profiles : env.swapped <=> p # Profile(env)

\* Mutant: the expiry of the artifact is compared.
StaleByExpiry(a, x) == a.expires < x.mtime

IsStale(a, x) == a.mtime < x.mtime

\* What is wrong with an artifact that is there.  Its contents are read only
\* if the name of the file ends in .json.
Wrong(a, env, x) ==
  {check \in {"schema", "component", "level", "status", "label", "manifest",
              "timestamp", "expired"} :
     env.json /\ CASE check = "level"   -> a.level # Profile(env)
                   [] check = "status"  -> a.status # "pass"
                   [] check = "label"   -> a.label # x.label
                   [] check = "expired" -> a.defect # "timestamp" /\ now > a.expires
                   [] OTHER             -> a.defect = check}
  \cup {check \in {"stale"} : IsStale(a, x)}

\* Mutant: an artifact that is missing cannot be wrong.
FailedIfPresent(env, x) ==
  UNION {Wrong(a, env, x) : a \in artifact[RequiredGatePath(env)]}

\* Mutant: the path is trusted to name the level.
FailedExceptLevel(env, x) ==
  IF artifact[RequiredGatePath(env)] = {}
  THEN {"missing"}
  ELSE UNION {Wrong(a, env, x) \ {"level"} : a \in artifact[RequiredGatePath(env)]}

Failed(env, x) ==
  IF artifact[RequiredGatePath(env)] = {}
  THEN {"missing"}
  ELSE UNION {Wrong(a, env, x) : a \in artifact[RequiredGatePath(env)]}

Outcome(env, x) ==
  CASE Mode(env) = "off"                   -> "disabled"
    [] Mode(env) # "off" /\ env.bypass     -> "bypassed"
    [] Mode(env) # "off" /\ ~env.bypass    ->
         CASE Failed(env, x) = {}                              -> "passed"
           [] Failed(env, x) # {} /\ Mode(env) = "warn"   -> "warning"
           [] Failed(env, x) # {} /\ Mode(env) = "strict" -> "rejected"

\* The reason code is that of the first check that fails.
Reason(env, x) ==
  IF Outcome(env, x) \in {"warning", "rejected"}
  THEN Checks[SelectInSeq(Checks, LAMBDA check : check \in Failed(env, x))]
  ELSE Outcome(env, x)

-----------------------------------------------------------------------------
(* What the server says of itself. *)

AdmissionOutcomeLabel(outcome) == IF outcome = "warning" THEN "warn" ELSE outcome

\* The status of build_attestation_envelope; revisions are always known here.
AttestationStatus(s) ==
  IF AdmissionOutcomeLabel(s.outcome) \in {"warn", "bypassed", "disabled"}
  THEN "degraded" ELSE "ok"

-----------------------------------------------------------------------------
(* The source tree and the build. *)

EditSource ==
  /\ tree < MaxVersion
  /\ tree' = tree + 1
  /\ UNCHANGED <<now, head, script, exe, gating, artifact, server, gates, passed>>

CommitSource ==
  /\ head # tree
  /\ head' = tree
  /\ UNCHANGED <<now, tree, script, exe, gating, artifact, server, gates, passed>>

\* What the build script prints: it runs again only when HEAD has moved.
Printed ==
  IF \E l \in script : l.rev = head
  THEN script
  ELSE {[rev |-> head, dirty |-> tree # head]}

\* A build writes an executable if the sources or the printed label changed.
Build ==
  /\ script' = Printed
  /\ \E l \in Printed :
       /\ ~\E x \in exe : x.src = tree /\ x.label = l
       /\ exe' = {[src |-> tree, label |-> l, mtime |-> now]}
  /\ gating' = {[g EXCEPT !.overlapped = TRUE] : g \in gating}
  /\ UNCHANGED <<now, tree, head, artifact, server, gates, passed>>

-----------------------------------------------------------------------------
(* The gates. *)

StartGate(p) ==
  /\ gating = {} /\ gates < MaxGates
  /\ gates' = gates + 1
  /\ \E x \in exe : gating' = {[profile |-> p, src |-> x.src,
                                label |-> x.label, overlapped |-> FALSE]}
  /\ UNCHANGED <<now, tree, head, script, exe, artifact, server, passed>>

FinishGate(status, defect) ==
  /\ \E g \in gating :
       /\ artifact' = [artifact EXCEPT ![g.profile] =
            {[level |-> g.profile, label |-> g.label, status |-> status,
              defect |-> defect, mtime |-> now, expires |-> now + Validity,
              tested |-> g.src, overlapped |-> g.overlapped]}]
       /\ passed' = IF status = "pass" /\ defect = "none"
                    THEN passed \cup {<<g.profile, g.label>>} ELSE passed
  /\ gating' = {}
  /\ UNCHANGED <<now, tree, head, script, exe, server, gates>>

-----------------------------------------------------------------------------
(* The server. *)

\* main until the admission decision; the rejected process ends there.
StartServer(env) ==
  /\ server = {}
  /\ Loads(env)
  /\ \E x \in exe :
       /\ Outcome(env, x) # "rejected"
       /\ server' = {[env |-> env, src |-> x.src, label |-> x.label,
                      built |-> x.mtime, outcome |-> Outcome(env, x),
                      reason |-> Reason(env, x),
                      basis |-> artifact[RequiredGatePath(env)]]}
  /\ UNCHANGED <<now, tree, head, script, exe, gating, artifact, gates, passed>>

StopServer ==
  /\ server # {}
  /\ server' = {}
  /\ UNCHANGED <<now, tree, head, script, exe, gating, artifact, gates, passed>>

Tick ==
  /\ now < MaxTime
  /\ now' = now + 1
  /\ UNCHANGED <<tree, head, script, exe, gating, artifact, server, gates, passed>>

Next ==
  \/ EditSource \/ CommitSource \/ Build
  \/ \E p \in Profiles : StartGate(p)
  \/ \E status \in {"pass", "fail"}, defect \in Defects \cup {"none"} :
       FinishGate(status, defect)
  \/ \E env \in Environments : StartServer(env)
  \/ StopServer
  \/ Tick

Spec == Init /\ [][Next]_vars

-----------------------------------------------------------------------------
(* Properties. *)

\* In strict mode, and in production unless it only warns, nothing is served
\* without evidence: some gate of the required profile has passed for the label
\* of the executable, whatever files the two path variables name, or there is a
\* bypass with a reason and a TTL, in production also with its opt-in; and no
\* variable, not even an empty one, switches that off.  (JSON files, as by
\* default.)
StrictIsGated ==
  \A s \in server :
    /\ Mode(s.env) = "strict" \/ (s.env.production /\ Mode(s.env) # "warn")
    /\ s.env.json
    => \/ <<Profile(s.env), s.label>> \in passed
       \/ /\ s.env.bypass /\ s.env.reason /\ s.env.ttl > 0
          /\ s.env.production => s.env.optIn

\* What passed is what was tested: the comparison of modification times and
\* labels is wrong only if the executable was replaced while the gate ran, or
\* within the tick in which the artifact was written.
PassedWasTested ==
  \A s \in server :
    s.outcome = "passed" =>
      \A a \in s.basis : a.tested = s.src \/ a.overlapped \/ a.mtime = s.built

\* /attest says "ok" only of a server whose gate checks passed: the labels of
\* main.rs agree with those that provenance.rs calls degraded.
AttestedOkIsPassed ==
  \A s \in server : AttestationStatus(s) = "ok" => s.outcome = "passed"

\* "Source fingerprint: git:<revision>:clean|dirty": an executable that says
\* clean was built from that revision.
CleanFingerprintIsTrue ==
  \A x \in exe : ~x.label.dirty => x.src = x.label.rev

=============================================================================
