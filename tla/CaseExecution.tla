--------------------------- MODULE CaseExecution ----------------------------
(***************************************************************************)
(* One case on one tool profile: campaign._run_campaign_case, the adapters' *)
(* execution plans, executor.execute_plan with its classification of exit  *)
(* codes, evaluator.evaluate, the coherence NormalizedResult enforces, and *)
(* the later verification of what was recorded.                            *)
(*                                                                         *)
(* Output is abstracted to what a judgment looks at: whether it was        *)
(* truncated, whether it shows an internal error, which diagnostics it     *)
(* holds (severity, and whether one is tied to the case's anchor) and how  *)
(* often the pass marker stands on a line.  ProcessRun models the process. *)
(***************************************************************************)
EXTENDS Integers, Sequences

CONSTANTS
  Profiles,       \* tool profiles: adapter, phase ceiling, direct phases
  ExitCodes,      \* BOUND: exit codes a process may end with
  DiagnosticSets, \* BOUND: sets of diagnostics an output may hold
  MaxMarkers      \* BOUND: pass markers an output may hold

\* PHASE_ORDER
Preprocess == 0
Parse == 1
Elaborate == 2
Simulate == 3
Phases == Preprocess..Simulate
PhaseReaches(attempted, target) == attempted >= target

Adapters == {"slang", "icarus", "verilator", "vcs", "fake"}
DiagnosticKinds == [severity : {"error", "warning", "note"}, targeted : BOOLEAN]

ASSUME CaseExecutionAssumption ==
  /\ Profiles \subseteq [adapter : Adapters, ceiling : Phases,
                         direct : SUBSET Phases]
  /\ ExitCodes \subseteq Nat /\ MaxMarkers \in Nat
  /\ DiagnosticSets \subseteq SUBSET DiagnosticKinds

VARIABLES
  pc,            \* where _run_campaign_case is
  case,          \* target phase, expectation, applicability to the revision
  profile,
  available,     \* the local wrapper can be started
  plan,          \* the stages of the execution plan
  observations,
  result         \* status and reason, once there is one

caseVars == <<pc, case, profile, available, plan, observations, result>>

Expectations == {"accept", "reject", "diagnostic"}
Applicabilities == {"applicable", "same-rule-different-clause",
                    "changed-expectation", "not-applicable", "not-assessed"}
Cases == [target : Phases, expectation : Expectations,
          applicability : Applicabilities]

NoExit == -1
NoResult == [status |-> "none", reason |-> "none"]
Result(status, reason) == [status |-> status, reason |-> reason]
InvalidPlan == Result("harness-error", "invalid-execution-plan")
IsWrapped(p) == p.adapter = "vcs"
Supports(p, target) == PhaseReaches(p.ceiling, target)

\* The runtime marker and the diagnostic anchor a valid case declares.
HasMarker(c) == c.target = Simulate /\ c.expectation # "reject"
HasAnchor(c) == c.expectation # "accept"

CaseInit ==
  /\ pc = "dispatch" /\ case \in Cases /\ profile \in Profiles
  /\ available \in BOOLEAN /\ (~IsWrapped(profile) => available)
  /\ plan = <<>> /\ observations = <<>> /\ result = NoResult

-----------------------------------------------------------------------------
(* What needs no execution. *)

\* The structural disposition of a case under a profile, in the order the
\* dispatcher looks for one.
Structural(c, p) ==
  CASE ~Supports(p, c.target) ->
         Result("unsupported-capability", "unsupported-phase")
    [] Supports(p, c.target) /\ c.applicability = "not-applicable" ->
         Result("not-applicable", "not-applicable")
    [] /\ Supports(p, c.target)
       /\ c.applicability \in {"not-assessed", "changed-expectation"} ->
         Result("unsupported-revision", "unsupported-revision")
    [] OTHER -> NoResult

Dispose ==
  /\ pc = "dispatch" /\ Structural(case, profile) # NoResult
  /\ result' = Structural(case, profile) /\ pc' = "recorded"
  /\ UNCHANGED <<case, profile, available, plan, observations>>

\* Mutant of SkipUnavailable: availability is looked at first.
SkipUnavailableFirst ==
  /\ pc = "dispatch" /\ ~available
  /\ result' = Result("skipped-unavailable", "tool-unavailable")
  /\ pc' = "recorded"
  /\ UNCHANGED <<case, profile, available, plan, observations>>

SkipUnavailable ==
  /\ pc = "dispatch" /\ Structural(case, profile) = NoResult /\ ~available
  /\ result' = Result("skipped-unavailable", "tool-unavailable")
  /\ pc' = "recorded"
  /\ UNCHANGED <<case, profile, available, plan, observations>>

-----------------------------------------------------------------------------
(* Execution plans. *)

Stage(kind, through, artifact) ==
  [kind |-> kind, through |-> through, artifact |-> artifact]

Compile(through, artifact) == <<Stage("compile", through, artifact)>>
RunIfSimulated(c) ==
  IF c.target = Simulate THEN <<Stage("run", Simulate, FALSE)>> ELSE <<>>

\* Every adapter's plan for a case: which phase its commands attempt, and
\* whether the compilation must leave a file.  <<>>: build_plan raises.
SlangPlan(c) == IF c.target = Simulate THEN <<>> ELSE Compile(c.target, FALSE)

IcarusPlan(c) ==
  (IF c.target = Preprocess THEN Compile(Preprocess, FALSE)
   ELSE Compile(Elaborate, TRUE)) \o RunIfSimulated(c)

VerilatorPlan(c) ==
  Compile(IF c.target = Preprocess THEN Preprocess ELSE Elaborate,
          c.target = Simulate) \o RunIfSimulated(c)

VcsPlan(c) == Compile(Elaborate, TRUE) \o RunIfSimulated(c)

FakePlan(c) ==
  CASE c.target = Simulate -> Compile(Elaborate, TRUE) \o RunIfSimulated(c)
    [] c.target # Simulate /\ c.expectation # "diagnostic" ->
         Compile(c.target, FALSE)
    [] OTHER -> <<>>

PlanFor(c, p) ==
  CASE p.adapter = "slang" -> SlangPlan(c)
    [] p.adapter = "icarus" -> IcarusPlan(c)
    [] p.adapter = "verilator" -> VerilatorPlan(c)
    [] p.adapter = "vcs" -> VcsPlan(c)
    [] p.adapter = "fake" -> FakePlan(c)

First(S) == CHOOSE i \in S : \A j \in S : i <= j
Reaching(items, target) ==
  {i \in 1..Len(items) : PhaseReaches(items[i].through, target)}

\* ExecutionPlan's validator, then validate_plan_for_profile.
PlanValid(c, p) ==
  LET stages == PlanFor(c, p)
      reaching == Reaching(stages, c.target)
  IN  /\ stages # <<>> /\ reaching # {}
      /\ (stages[First(reaching)].through = c.target) <=> (c.target \in p.direct)

BuildPlan ==
  /\ pc = "dispatch" /\ Structural(case, profile) = NoResult /\ available
  /\ IF PlanValid(case, profile)
     THEN /\ plan' = PlanFor(case, profile) /\ pc' = "execute"
          /\ UNCHANGED result
     ELSE result' = InvalidPlan /\ pc' = "recorded" /\ UNCHANGED plan
  /\ UNCHANGED <<case, profile, available, observations>>

-----------------------------------------------------------------------------
(* Execution. *)

\* What run_process hands back.
RawResults ==
  [outcome : {"normal-exit"}, exit : ExitCodes]
    \cup [outcome : {"timeout", "signal", "launch-failure"}, exit : {NoExit}]

\* Docker's own exit codes, and those of a process killed by a signal.
ClassifyContainer(raw) ==
  CASE raw.exit \in 125..127 -> [outcome |-> "container-failure", exit |-> NoExit]
    [] raw.exit \in 129..192 -> [outcome |-> "signal", exit |-> NoExit]
    [] OTHER -> raw

\* The wrapper protocol adds EX_UNAVAILABLE.
Classify(p, raw) ==
  IF IsWrapped(p) /\ raw.exit = 69
  THEN [outcome |-> "backend-unavailable", exit |-> NoExit]
  ELSE ClassifyContainer(raw)

Outputs ==
  [diagnostics : DiagnosticSets, markers : 0..MaxMarkers,
   internal : BOOLEAN, truncated : BOOLEAN]

Observation(stage, raw, out, artifact) ==
  [kind |-> stage.kind, through |-> stage.through,
   outcome |-> raw.outcome, exit |-> raw.exit,
   diagnostics |-> out.diagnostics, markers |-> out.markers,
   internal |-> out.internal, truncated |-> out.truncated,
   artifact |-> IF ~stage.artifact THEN "not-expected"
                ELSE IF artifact THEN "present" ELSE "absent"]

\* Later stages need this one to have exited zero and left its artifact.
Continues(o) ==
  o.outcome = "normal-exit" /\ o.exit = 0 /\ o.artifact # "absent"

RunStage(raw, out, artifact) ==
  /\ pc = "execute"
  /\ \A d \in out.diagnostics : d.targeted => HasAnchor(case)
  /\ out.markers > 0 => HasMarker(case)
  /\ LET o == Observation(plan[Len(observations) + 1], Classify(profile, raw),
                          out, artifact) IN
       /\ observations' = Append(observations, o)
       /\ pc' = IF Continues(o) /\ Len(observations) + 1 < Len(plan)
                THEN "execute" ELSE "evaluate"
  /\ UNCHANGED <<case, profile, available, plan, result>>

\* An observation, the request file or the result exceeds what its model
\* admits (lengths of paths, codes and commands): the observations are lost.
Rejected ==
  /\ pc \in {"execute", "evaluate"}
  /\ result' = InvalidPlan /\ observations' = <<>> /\ pc' = "recorded"
  /\ UNCHANGED <<case, profile, available, plan>>

\* ProcessCancelled passes through: no result.
Cancelled ==
  /\ pc \in {"dispatch", "execute"} /\ pc' = "raised"
  /\ observations' = <<>>
  /\ UNCHANGED <<case, profile, available, plan, result>>

-----------------------------------------------------------------------------
(* Evaluation. *)

\* What an outcome that is no judgment of the tool's verdict becomes.
Trouble(o) ==
  CASE o.outcome = "backend-unavailable" ->
         Result("skipped-unavailable", "tool-unavailable")
    [] o.outcome \in {"container-failure", "launch-failure"} ->
         Result("harness-error", o.outcome)
    [] o.outcome = "timeout" -> Result("inconclusive", "timeout")
    [] o.outcome = "signal" -> Result("inconclusive", "crash")
    [] o.outcome = "normal-exit" ->
         IF o.internal THEN Result("inconclusive", "internal-error") ELSE NoResult

\* Mutant of OperationalFailure: truncated output is judged.
OperationalFailureIgnoringTruncation(obs) ==
  LET troubled == {i \in 1..Len(obs) : Trouble(obs[i]) # NoResult}
  IN  IF troubled # {} THEN Trouble(obs[First(troubled)]) ELSE NoResult

OperationalFailure(obs) ==
  LET troubled == {i \in 1..Len(obs) : Trouble(obs[i]) # NoResult}
  IN  IF troubled # {} THEN Trouble(obs[First(troubled)])
      ELSE IF \E i \in 1..Len(obs) : obs[i].truncated
      THEN Result("inconclusive", "output-truncated")
      ELSE NoResult

\* A stage exits zero without the file the target needs.
LacksArtifact(c, o) ==
  /\ o.artifact = "absent" /\ o.exit = 0
  /\ c.target = Simulate \/ o.through = c.target

Conforming == Result("conforming", "expectation-met")

\* Mutant of Targeted: a note at the anchor counts as well.
TargetedBySeverityOrNote(o, severities) == \E d \in o.diagnostics : d.targeted

Targeted(o, severities) ==
  \E d \in o.diagnostics : d.targeted /\ d.severity \in severities

NoTargetReason(o) ==
  IF o.diagnostics = {} THEN "missing-diagnostic" ELSE "off-target-diagnostic"

JudgeReject(o) ==
  CASE o.exit = 0 -> Result("nonconforming", "unexpected-accept")
    [] o.exit # 0 /\ Targeted(o, {"error"}) -> Conforming
    [] OTHER -> Result("inconclusive", NoTargetReason(o))

MarkerReason(o) ==
  IF o.markers = 0 THEN "missing-pass-marker" ELSE "multiple-pass-markers"

JudgeDiagnostic(c, o) ==
  IF ~Targeted(o, {"warning", "error"})
  THEN IF o.through # c.target /\ o.exit # 0
       THEN Result("inconclusive", "target-phase-unproven")
       ELSE Result("nonconforming", NoTargetReason(o))
  ELSE IF o.exit = 0 /\ HasMarker(c) /\ o.markers # 1
       THEN Result("nonconforming", MarkerReason(o))
       ELSE Conforming

JudgeStatic(c, o) ==
  CASE o.exit = 0 -> Conforming
    [] o.exit # 0 /\ o.through # c.target ->
         Result("inconclusive", "target-phase-unproven")
    [] OTHER -> Result("nonconforming", "unexpected-reject")

JudgeRun(o) ==
  CASE o.exit # 0 -> Result("nonconforming",
         IF o.markers > 0 THEN "pass-marker-nonzero" ELSE "wrong-runtime-result")
    [] o.exit = 0 /\ o.markers # 1 -> Result("nonconforming", MarkerReason(o))
    [] OTHER -> Conforming

Judge(c, o) ==
  CASE c.expectation = "reject" -> JudgeReject(o)
    [] c.expectation = "diagnostic" -> JudgeDiagnostic(c, o)
    [] c.expectation = "accept" /\ c.target # Simulate -> JudgeStatic(c, o)
    [] c.expectation = "accept" /\ c.target = Simulate -> JudgeRun(o)

Verdict(c, obs) ==
  LET reaching == Reaching(obs, c.target)
  IN  CASE obs = <<>> -> InvalidPlan
        [] obs # <<>> /\ OperationalFailure(obs) # NoResult ->
             OperationalFailure(obs)
        [] OTHER ->
             IF \E i \in 1..Len(obs) : LacksArtifact(c, obs[i])
             THEN Result("nonconforming", "missing-artifact")
             ELSE IF reaching = {}
             THEN Result("nonconforming", "unexpected-reject")
             ELSE Judge(c, obs[First(reaching)])

Evaluate ==
  /\ pc = "evaluate"
  /\ result' = Verdict(case, observations) /\ pc' = "recorded"
  /\ UNCHANGED <<case, profile, available, plan, observations>>

CaseNext ==
  \/ Dispose \/ SkipUnavailable \/ BuildPlan
  \/ \E raw \in RawResults, out \in Outputs, artifact \in BOOLEAN :
       RunStage(raw, out, artifact)
  \/ Rejected \/ Cancelled \/ Evaluate

CaseSpec == CaseInit /\ [][CaseNext]_caseVars

-----------------------------------------------------------------------------
(* What is accepted of a result later on. *)

Reasons ==
  [status \in {"conforming", "nonconforming", "inconclusive",
               "unsupported-capability", "unsupported-revision",
               "not-applicable", "skipped-unavailable", "harness-error"} |->
     CASE status = "conforming" -> {"expectation-met"}
       [] status = "nonconforming" ->
            {"unexpected-accept", "unexpected-reject", "missing-diagnostic",
             "off-target-diagnostic", "missing-pass-marker",
             "multiple-pass-markers", "pass-marker-nonzero",
             "wrong-runtime-result", "missing-artifact"}
       [] status = "inconclusive" ->
            {"missing-diagnostic", "off-target-diagnostic", "timeout", "crash",
             "internal-error", "output-truncated", "target-phase-unproven"}
       [] status = "unsupported-capability" -> {"unsupported-phase"}
       [] status = "unsupported-revision" -> {"unsupported-revision"}
       [] status = "not-applicable" -> {"not-applicable"}
       [] status = "skipped-unavailable" -> {"tool-unavailable"}
       [] status = "harness-error" ->
            {"container-failure", "launch-failure", "invalid-execution-plan"}]

\* NormalizedResult.coherent_judgment
Coherent(c, obs, r) ==
  /\ r.status \in DOMAIN Reasons /\ r.reason \in Reasons[r.status]
  /\ r.status \in {"conforming", "nonconforming", "inconclusive"} => obs # <<>>
  /\ r.status = "conforming" => Reaching(obs, c.target) # {}
  /\ r.status \in {"unsupported-capability", "unsupported-revision",
                   "not-applicable"} => obs = <<>>

\* The stages observed are the first ones of the plan.
Provenance(items) ==
  [i \in 1..Len(items) |-> <<items[i].kind, items[i].through>>]

\* verify_result_against_case, for a tool that was prepared.
Verifies(c, p, obs, r) ==
  IF Structural(c, p) # NoResult THEN obs = <<>> /\ r = Structural(c, p)
  ELSE IF obs = <<>>
  THEN IsWrapped(p) /\ r = Result("skipped-unavailable", "tool-unavailable")
  ELSE /\ PlanValid(c, p) /\ Len(obs) <= Len(PlanFor(c, p))
       /\ Provenance(obs) = SubSeq(Provenance(PlanFor(c, p)), 1, Len(obs))
       /\ r = Verdict(c, obs)

-----------------------------------------------------------------------------
(* Properties. *)

Recorded == pc = "recorded"

\* Taken from docs/methodology.md:34-47 and not from evaluate: the case's
\* oracle is met by a command that reaches the target, nothing in any stage
\* went wrong, and every file the target needs was there.
Reference(c, obs) ==
  LET t == CHOOSE i \in 1..Len(obs) :
             /\ obs[i].through >= c.target
             /\ \A j \in 1..i - 1 : obs[j].through < c.target
      atAnchor(levels) == \E d \in obs[t].diagnostics :
                            d.targeted /\ d.severity \in levels
  IN  /\ \A i \in 1..Len(obs) :
           obs[i].outcome = "normal-exit" /\ ~obs[i].internal /\ ~obs[i].truncated
      /\ \E i \in 1..Len(obs) : obs[i].through >= c.target
      /\ \A i \in 1..Len(obs) : obs[i].artifact = "absent" =>
           obs[i].exit # 0 \/ (c.target # Simulate /\ obs[i].through > c.target)
      /\ CASE c.expectation = "accept" -> obs[t].exit = 0
           [] c.expectation = "reject" -> obs[t].exit # 0 /\ atAnchor({"error"})
           [] c.expectation = "diagnostic" -> atAnchor({"warning", "error"})
      /\ HasMarker(c) => obs[t].markers = 1 \/ obs[t].exit # 0

\* A case is reported as conforming exactly when its oracle is met.
ConformingIffOracleMet ==
  Recorded /\ observations # <<>> =>
    (result.status = "conforming" <=> Reference(case, observations))

\* A tool is blamed only on complete evidence: never for a timeout, a crash,
\* truncated output, an internal error or an unavailable backend, and for an
\* earlier phase only by a command that stopped there.
BlamedOnlyOnCompleteEvidence ==
  Recorded /\ result.status = "nonconforming" =>
    /\ \A i \in 1..Len(observations) :
         LET o == observations[i]
         IN  o.outcome = "normal-exit" /\ ~o.internal /\ ~o.truncated
    /\ result.reason = "unexpected-reject" =>
         \A i \in 1..Len(observations) : observations[i].through <= case.target

\* What is recorded is coherent, or its construction would have raised: reason
\* and status agree, judgments have observations, conformance has one that
\* reaches the target.  And what run_campaign records the exporter and the
\* publisher accept again, with one exception: an invalid plan's result has no
\* observations left.
RecordedResultVerifies ==
  Recorded =>
    /\ Coherent(case, observations, result)
    /\ result # InvalidPlan => Verifies(case, profile, observations, result)

=============================================================================
