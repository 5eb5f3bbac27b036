--------------------------- MODULE HeadlineMetric ----------------------------
(***************************************************************************)
(* metric.compute_metric: requirements of the covered corpus counted once  *)
(* for a tool's headline profile.                                          *)
(***************************************************************************)
EXTENDS Naturals, FiniteSets, Sequences, SequencesExt

CONSTANTS
  Tools,     \* tools of the catalog, each with its headline profile
  Cases,     \* the selection, a sequence of cases
  Facts,     \* per case: requirement, mandatory, applicability, and whether
             \* the requirement itself applies to the profile's revision
  Supports   \* per tool: the cases its profile can reach

CaseSet == Range(Cases)
Applies == {"applicable", "same-rule-different-clause"}

ASSUME HeadlineMetricAssumption ==
  /\ Cases \in Seq(CaseSet) /\ IsInjective(Cases) /\ Supports \in [Tools -> SUBSET CaseSet]
  /\ \A c \in CaseSet :
       Facts[c].mandatory \in BOOLEAN /\ Facts[c].requirementApplies \in BOOLEAN

\* The cases that count for t.
Scoped(t) ==
  {c \in Supports[t] : /\ Facts[c].mandatory /\ Facts[c].requirementApplies
                       /\ Facts[c].applicability \in Applies}

Requirements(t) == {Facts[c].requirement : c \in Scoped(t)}
Variants(t, r) == {c \in Scoped(t) : Facts[c].requirement = r}

Present(campaign, t, c) ==
  {i \in 1..Len(campaign.results) :
     campaign.results[i].case = c /\ campaign.results[i].tool = t}

\* The statuses of r's variants, with "absent" for one without a result.
StatusesOf(campaign, t, r) ==
  {IF Present(campaign, t, c) = {} THEN "absent"
   ELSE campaign.results[CHOOSE i \in Present(campaign, t, c) : TRUE].status :
     c \in Variants(t, r)}

Executed == {"conforming", "nonconforming", "inconclusive", "harness-error"}

\* Mutant of Class: one conforming variant is enough.
ClassOfBest(statuses) ==
  IF "conforming" \in statuses THEN "conforming"
  ELSE IF "nonconforming" \in statuses THEN "nonconforming"
  ELSE IF statuses \cap {"inconclusive", "harness-error"} # {} THEN "inconclusive"
  ELSE "unsupported"

\* What a requirement counts as.
Class(statuses) ==
  IF statuses = {"conforming"} THEN "conforming"
  ELSE IF "nonconforming" \in statuses THEN "nonconforming"
  ELSE IF statuses \cap {"inconclusive", "harness-error"} # {} THEN "inconclusive"
  ELSE "unsupported"

Available(campaign, t) == t \in campaign.expected \ campaign.missing

State(harness, available, covered) ==
  CASE harness -> "harness-error"
    [] ~harness /\ ~available -> "missing-tool"
    [] ~harness /\ available /\ ~covered -> "incomplete-evidence"
    [] OTHER -> "valid"

ComputeMetric(campaign, t) ==
  LET of(class) == {r \in Requirements(t) : Class(StatusesOf(campaign, t, r)) = class}
      executed == {r \in Requirements(t) : StatusesOf(campaign, t, r) \subseteq Executed}
      harness == \E r \in Requirements(t) : "harness-error" \in StatusesOf(campaign, t, r)
      available == Available(campaign, t)
      covered == executed = Requirements(t)
  IN  [numerator |-> Cardinality(of("conforming")),
       denominator |-> Cardinality(Requirements(t)),
       executed |-> Cardinality(executed),
       nonconforming |-> Cardinality(of("nonconforming")),
       inconclusive |-> Cardinality(of("inconclusive")),
       unsupported |-> Cardinality(of("unsupported")),
       complete |-> available /\ ~harness /\ covered,
       valid |-> ~harness,
       state |-> State(harness, available, covered)]

=============================================================================
