----------------------------- MODULE Aggregation -----------------------------
(***************************************************************************)
(* From the collection jobs of a publication run to one campaign record    *)
(* and its headline metrics: run_campaign's record, the justfile's         *)
(* collect-public, create_preparation_failure_campaign,                    *)
(* create_missing_campaign, aggregate_artifacts.py, aggregate_campaigns    *)
(* and metric.compute_metric.  A job runs one tool with its headline       *)
(* profile; by hand any kept campaigns may be aggregated, in any order,    *)
(* aggregates too.                                                         *)
(***************************************************************************)
EXTENDS HeadlineMetric

CONSTANTS
  Expected,       \* tools the publication policy names
  Judgments,      \* statuses evaluate may give a case
  Elsewhere,      \* other checkouts campaigns come from; "stale": another corpus
  ByHand,         \* campaigns are also aggregated by hand
  MaxCampaigns    \* BOUND: campaigns kept

Synthetic == {"unsupported-capability", "not-applicable", "unsupported-revision"}
Unavailable == {"harness-error", "skipped-unavailable"}
Statuses == Judgments \cup Synthetic \cup Unavailable

ASSUME AggregationAssumption ==
  /\ Expected \subseteq Tools /\ Expected # {} /\ MaxCampaigns \in Nat
  /\ ByHand \in BOOLEAN
  /\ Judgments \subseteq Executed \cup Unavailable /\ "conforming" \in Judgments

VARIABLES
  job,       \* per expected tool: "waiting", "done" or "failed"
  artifact,  \* per expected tool: the campaign its job left, or NoCampaign
  kept       \* the campaigns ever saved; a campaign is named by its place

aggregationVars == <<job, artifact, kept>>

NoCampaign == 0
Next1 == Len(kept) + 1

AggregationInit ==
  /\ job = [t \in Expected |-> "waiting"]
  /\ artifact = [t \in Expected |-> NoCampaign]
  /\ kept = <<>>

-----------------------------------------------------------------------------
(* What the jobs leave. *)

\* The judgment no tool is asked for, or "none".
Structural(t, c) ==
  CASE c \notin Supports[t] -> "unsupported-capability"
    [] c \in Supports[t] /\ Facts[c].applicability = "not-applicable" ->
         "not-applicable"
    [] c \in Supports[t] /\ Facts[c].applicability \in {"not-assessed", "changed-expectation"} ->
         "unsupported-revision"
    [] OTHER -> "none"

Or(status, other) == IF status = "none" THEN other ELSE status

\* The status maps one run of t may produce.
Runs(t) ==
  {[c \in CaseSet |-> Or(Structural(t, c), f[c])] : f \in [CaseSet -> Judgments]}
    \cup {[c \in CaseSet |-> Or(Structural(t, c), "skipped-unavailable")]}

Grid(t, status) ==
  [i \in 1..Len(Cases) |-> [case |-> Cases[i], tool |-> t, status |-> status[Cases[i]]]]

Harmed(results) == \E i \in 1..Len(results) : results[i].status \in Unavailable

RunCampaign(t, repository, status) ==
  [by |-> "run", id |-> [kind |-> "run", of |-> {Next1}, expected |-> {t}],
   repository |-> repository, tools |-> {t}, failed |-> {},
   expected |-> {t}, missing |-> {}, results |-> Grid(t, status),
   complete |-> ~Harmed(Grid(t, status))]

\* The whole grid for a tool that was never prepared.
PreparationFailure(t) ==
  [by |-> "run", id |-> [kind |-> "preparation", of |-> {Next1}, expected |-> {t}],
   repository |-> "this", tools |-> {t}, failed |-> {t},
   expected |-> {t}, missing |-> {},
   results |-> Grid(t, [c \in CaseSet |-> Or(Structural(t, c), "harness-error")]),
   complete |-> FALSE]

\* No job left anything.
MissingCampaign ==
  [by |-> "job", id |-> [kind |-> "missing", of |-> {Next1}, expected |-> Expected],
   repository |-> "this", tools |-> {}, failed |-> {},
   expected |-> Expected, missing |-> Expected, results |-> <<>>, complete |-> FALSE]

Leave(t, campaign, verdict) ==
  /\ Len(kept) < MaxCampaigns
  /\ kept' = Append(kept, campaign)
  /\ artifact' = [artifact EXCEPT ![t] = Next1]
  /\ job' = [job EXCEPT ![t] = verdict]

\* A campaign ran; exit policy infra-only fails the job if it was harmed.
Collect(t, status) ==
  /\ job[t] = "waiting"
  /\ LET campaign == RunCampaign(t, "this", status)
     IN  Leave(t, campaign, IF campaign.complete THEN "done" ELSE "failed")

\* run ended without a campaign, so record-missing wrote one.
CollectUnprepared(t) ==
  job[t] = "waiting" /\ Leave(t, PreparationFailure(t), "failed")

\* The job was killed, or its upload failed.
CollectLost(t) ==
  /\ job[t] = "waiting" /\ job' = [job EXCEPT ![t] = "failed"]
  /\ UNCHANGED <<artifact, kept>>

\* "Re-run failed jobs": a new attempt, whose artifact replaces the old one.
Rerun(t) ==
  /\ job[t] = "failed" /\ job' = [job EXCEPT ![t] = "waiting"]
  /\ UNCHANGED <<artifact, kept>>

-----------------------------------------------------------------------------
(* Aggregation. *)

Measured(campaign) == campaign.tools \ campaign.failed

\* Mutant of Retained: the results of an unprepared tool are kept.
RetainedWithFailed(campaign) == campaign.results

Retained(campaign) ==
  LET retained(r) == IF r.tool \in Measured(campaign) THEN <<r>> ELSE <<>>
  IN  FlattenSeq([k \in 1..Len(campaign.results) |-> retained(campaign.results[k])])

\* Mutant of Acceptable: the corpus is compared, the checkout is not.
AcceptableAnyCheckout(inputs) ==
  /\ \A i \in 1..Len(inputs) : kept[inputs[i]].repository # "stale"
  /\ \A i, j \in 1..Len(inputs) :
       i # j => Measured(kept[inputs[i]]) \cap Measured(kept[inputs[j]]) = {}

\* What aggregate_campaigns checks: the corpus is the catalog's, the checkout
\* is one, and no tool was measured twice.
Acceptable(inputs) ==
  /\ \A i \in 1..Len(inputs) : /\ kept[inputs[i]].repository # "stale"
                               /\ kept[inputs[i]].repository = kept[inputs[1]].repository
  /\ \A i, j \in 1..Len(inputs) :
       i # j => Measured(kept[inputs[i]]) \cap Measured(kept[inputs[j]]) = {}

\* Mutant of Missing: a tool that was named is there.
MissingIfNeverNamed(expected, inputs) ==
  expected \ UNION {kept[inputs[i]].tools : i \in 1..Len(inputs)}

Missing(expected, inputs) ==
  expected \ UNION {Measured(kept[inputs[i]]) : i \in 1..Len(inputs)}

Aggregate(by, inputs, declared) ==
  LET places == 1..Len(inputs)
      expected == declared \cup UNION {kept[inputs[i]].expected : i \in places}
      results == FlattenSeq([i \in places |-> Retained(kept[inputs[i]])])
  IN  [by |-> by, id |-> [kind |-> "aggregate", of |-> Range(inputs), expected |-> expected],
       repository |-> kept[inputs[1]].repository,
       tools |-> UNION {Measured(kept[inputs[i]]) : i \in places}, failed |-> {},
       expected |-> expected, missing |-> Missing(expected, inputs),
       results |-> results,
       complete |-> Missing(expected, inputs) = {} /\ ~Harmed(results)]

\* save_campaign: a record is written once; another one of its id is refused.
\* The publish job has a checkout of its own.
Save(campaign) ==
  /\ IF \E i \in 1..Len(kept) :
          kept[i].id = campaign.id /\ kept[i].by = campaign.by
     THEN UNCHANGED kept
     ELSE Len(kept) < MaxCampaigns /\ kept' = Append(kept, campaign)
  /\ UNCHANGED <<job, artifact>>

\* Mutant of Arrived: the paths are not sorted.
ArrivedUnsorted(T) == SetToSeqs({artifact[t] : t \in T})

\* The artifacts that arrived, in the order of their sorted paths.
Arrived(T) ==
  {s \in SetToSeqs({artifact[t] : t \in T}) :
     \A i, j \in DOMAIN s : i < j => s[i] < s[j]}

\* The publish job runs when no collection job does, whatever became of them,
\* on the artifacts it could download.
PublishJob ==
  /\ \A t \in Expected : job[t] # "waiting"
  /\ \E T \in SUBSET {t \in Expected : artifact[t] # NoCampaign} :
       IF T = {} THEN Save(MissingCampaign)
       ELSE \E inputs \in Arrived(T) :
              Acceptable(inputs) /\ Save(Aggregate("job", inputs, Expected))

\* A campaign somebody ran in another checkout is at hand.
RunElsewhere(t, repository) ==
  /\ ByHand /\ Len(kept) < MaxCampaigns
  /\ kept' = Append(kept, RunCampaign(t, repository,
                [c \in CaseSet |-> Or(Structural(t, c), "conforming")]))
  /\ UNCHANGED <<job, artifact>>

\* svtorture aggregate.
AggregateByHand(inputs) ==
  ByHand /\ Acceptable(inputs) /\ Save(Aggregate("hand", inputs, {}))

AggregationNext ==
  \/ \E t \in Expected :
       \/ \E status \in Runs(t) : Collect(t, status)
       \/ CollectUnprepared(t) \/ CollectLost(t) \/ Rerun(t)
  \/ \E t \in Tools, repository \in Elsewhere : RunElsewhere(t, repository)
  \/ PublishJob
  \/ \E i, j \in 1..Len(kept) : AggregateByHand(IF i = j THEN <<i>> ELSE <<i, j>>)

AggregationSpec == AggregationInit /\ [][AggregationNext]_aggregationVars

-----------------------------------------------------------------------------
(* Properties. *)

\* models.Campaign.internally_consistent never refuses what the code builds:
\* one result for each case and tool of the campaign, the missing tools those
\* expected and not there, and "complete" only without any missing evidence.
CampaignsConsistent ==
  \A i \in 1..Len(kept) :
    LET campaign == kept[i]  results == kept[i].results IN
    /\ {<<results[k].case, results[k].tool>> : k \in 1..Len(results)} =
         CaseSet \X campaign.tools
    /\ Len(results) = Len(Cases) * Cardinality(campaign.tools)
    /\ campaign.missing = campaign.expected \ campaign.tools
    /\ campaign.tools \subseteq campaign.expected
    /\ campaign.complete =>
         campaign.missing = {} /\ campaign.failed = {} /\ ~Harmed(results)

\* docs/architecture.md:88: "preparation failures are not presented as
\* conformance measurements", and nothing else is: each result of an aggregate
\* is that of one of the campaigns it is named after, in which the tool was
\* measured, and no measurement of those campaigns is left out.
MeasurementsKept ==
  \A i \in 1..Len(kept) : kept[i].id.kind = "aggregate" =>
    LET sources == kept[i].id.of IN
    /\ Range(kept[i].results) =
         UNION {{r \in Range(kept[j].results) : r.tool \in Measured(kept[j])} : j \in sources}
    /\ \A j \in sources : kept[j].repository = kept[i].repository

\* "publication cannot silently present a partial run as complete"
\* (scripts/aggregate_artifacts.py): a published aggregate is complete only if
\* each tool of the policy has a complete headline metric in it.
CompleteIsComplete ==
  \A i \in 1..Len(kept) :
    kept[i].complete =>
      /\ \A t \in kept[i].expected : ComputeMetric(kept[i], t).complete
      /\ kept[i].by = "job" => Expected \subseteq kept[i].expected

\* The metric counts a requirement once, as verified only if a campaign has a
\* conforming result for each mandatory variant, and a failing variant is never
\* hidden by another (docs/methodology.md:56); and that of a tool that was not
\* measured says so.
MetricCountsRequirements ==
  \A i \in 1..Len(kept), t \in Tools :
    LET metric == ComputeMetric(kept[i], t)
        counts(c) == /\ Facts[c].mandatory /\ Facts[c].requirementApplies
                     /\ c \in Supports[t] /\ Facts[c].applicability \in Applies
        has(c, status) == [case |-> c, tool |-> t, status |-> status]
                            \in Range(kept[i].results)
        required == {Facts[c].requirement : c \in {d \in CaseSet : counts(d)}}
        variants(r) == {c \in CaseSet : counts(c) /\ Facts[c].requirement = r}
    IN  /\ metric.denominator = Cardinality(required)
        /\ metric.numerator = Cardinality(
             {r \in required : \A c \in variants(r) : has(c, "conforming")})
        /\ metric.nonconforming = Cardinality(
             {r \in required : \E c \in variants(r) : has(c, "nonconforming")})
        /\ metric.numerator + metric.nonconforming + metric.inconclusive
             + metric.unsupported = metric.denominator
        /\ t \in kept[i].missing \cup kept[i].failed /\ required # {} =>
             /\ ~metric.complete
             /\ metric.state = IF t \in kept[i].failed THEN "harness-error"
                              ELSE "missing-tool"

\* The publish job may be run again over artifacts it has already aggregated,
\* and then it makes the very record it made before, as the immutable Release
\* of that id demands.
PublishingAgainAgrees ==
  \A T \in SUBSET {t \in Expected : artifact[t] # NoCampaign} : \A inputs \in Arrived(T) :
    T # {} /\ Acceptable(inputs) =>
      LET again == Aggregate("job", inputs, Expected)
      IN  \A i \in 1..Len(kept) :
            kept[i].by = "job" /\ kept[i].id = again.id => kept[i] = again

=============================================================================
