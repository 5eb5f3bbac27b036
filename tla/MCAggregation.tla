---------------------------- MODULE MCAggregation ----------------------------
(***************************************************************************)
(* Instances of Aggregation: two publication tools (one a parser that      *)
(* cannot reach every case) and cases of every kind the metric tells apart.*)
(***************************************************************************)
EXTENDS Aggregation

TwoTools == {"slang", "icarus"}

Case(requirement, mandatory, applicability, applies) ==
  [requirement |-> requirement, mandatory |-> mandatory,
   applicability |-> applicability, requirementApplies |-> applies]

\* Two variants of one requirement, the second out of slang's reach; an
\* exploratory case out of icarus's; and two cases no judgment is made of, of which the last
\* has a requirement that does not count.
FiveCases == <<"parse", "run", "explore", "not", "later">>
FiveFacts ==
  [c \in Range(FiveCases) |->
     CASE c = "parse" -> Case("first", TRUE, "applicable", TRUE)
       [] c = "run" -> Case("first", TRUE, "same-rule-different-clause", TRUE)
       [] c = "explore" -> Case("second", FALSE, "applicable", TRUE)
       [] c = "not" -> Case("third", TRUE, "not-applicable", TRUE)
       [] c = "later" -> Case("fourth", TRUE, "changed-expectation", FALSE)]
FiveSupports ==
  [t \in TwoTools |-> Range(FiveCases) \ (IF t = "slang" THEN {"run"} ELSE {"explore"})]

=============================================================================
