-------------------------- MODULE MCCaseExecution ---------------------------
(* CaseExecution for the tools of tools/*/tool.toml. *)
EXTENDS CaseExecution

Profile(adapter, ceiling, direct) ==
  [adapter |-> adapter, ceiling |-> ceiling, direct |-> direct]

RegisteredProfiles == {
  Profile("slang", Parse, {Preprocess, Parse}),
  Profile("slang", Elaborate, {Preprocess, Parse, Elaborate}),
  Profile("icarus", Elaborate, {Preprocess, Elaborate}),
  Profile("icarus", Simulate, {Preprocess, Elaborate, Simulate}),
  Profile("verilator", Elaborate, {Preprocess, Elaborate}),
  Profile("verilator", Simulate, {Preprocess, Elaborate, Simulate}),
  Profile("vcs", Elaborate, {Elaborate}),
  Profile("vcs", Simulate, {Elaborate, Simulate}),
  Profile("fake", Simulate, Phases)}

\* Nothing, something elsewhere, and each severity at the anchor.
AtMostOneDiagnostic ==
  {{}, {[severity |-> "error", targeted |-> FALSE]}}
    \cup {{[severity |-> s, targeted |-> TRUE]} : s \in {"error", "warning", "note"}}

\* Success, failure, EX_UNAVAILABLE, Docker's own failure, 128 + SIGKILL.
Exits == {0, 1, 69, 125, 137}

=============================================================================
