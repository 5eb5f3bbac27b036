# Verification of svtorture

TLA+ models of svtorture, the conformance harness that runs SystemVerilog tools
over a corpus, judges what they do, records campaigns and publishes them. TLC
checks the models on small instances; TLAPS proves the core invariants for every
value of the constants. Paths below are relative to the repository; Python
modules live in `src/svtorture/`.

## 1. The system

| component | state | operations | interacts with |
|---|---|---|---|
| Bounded process execution, `process.py` | one child and its process group, two pipes, two drain threads, two collectors, a deadline, the campaign's cancel event | `run_process`, `_terminate_process_group`, `_drain`, `_Collector.consume/finish` | called by every stage; shares collectors with its threads and the event with the campaign |
| Campaign runner, `campaign.py` `run_campaign` | futures, workers, the results collected so far, the event | submit, collect in completion order, cancel, sort, save | calls case execution on pool threads, then the store |
| Case execution and judgment, `campaign.py`, `executor.py`, `evaluator.py`, `models.py` | one case under one profile: plan, observations, judgment | disposition, `build_plan`, `execute_plan`, `evaluate`, `verify_result_against_case` | adapters give plans, process execution gives raw outcomes |
| Tool adapters, `adapters/` | none | the stages of a plan, normalised diagnostics | used by case execution |
| Campaign store, `campaign.py` `save_campaign`, `load_campaign` | `.svtorture/campaigns/<id>/campaign.json` | save, load | written by runs and aggregation, read by export |
| Aggregation, `campaign.py`, `scripts/aggregate_artifacts.py`, `.github/workflows/publish-dashboard.yml` | the artifacts of the collection jobs, the aggregate | preparation-failure and missing campaigns, `aggregate_campaigns` | reads and writes the store; feeds publication |
| Headline metric, `metric.py` | none | `compute_metric` | read from a campaign by bundles, summaries and views |
| Evidence packing and bundles, `bundle.py` | shards; `.svtorture/bundles/campaigns/<id>`, archives | `pack_evidence_results`, `export_campaign_bundle`, archive write, extract | from a record to what is published |
| Dashboard data, `bundle.py` `assemble_dashboard_data` | one data directory, its lock, a backup per call | assemble, replace | read by the dashboard server |
| Release publication, `github_publish.py` | GitHub tags, Releases and their assets, the Pages site | `publish_dashboard`, `publish_campaign_release`, `build_pages_from_releases` | immutable Releases are the archive Pages are rebuilt from |
| Bundle content, `bundle.py`, `reproduce.py`, `dashboard_models.py` | manifest, catalog, verdicts, evidence shards of a campaign | `validate_campaign_bundle`, `_build_replay_context`, the dashboard's loaders | written by the export, read by publication, replay and the page |
| Upstream resolution, `resolver.py` | the upstream's branches and tags | `resolve_tool_ref` | asked twice by each preparation |
| Image cache, `images.py` | `.svtorture/images/`, the daemon's images, tags and digests, a registry | `build_image`, `load_cached_image` | shared by all preparations and replays of a machine |
| Tool preparation, `cli.py` `_prepare`, `run` | one invocation: commit, exact tags, image | resolve, save the selection, build or load, read the version | before `run_campaign` |
| Reproduction, `reproduce.py` | one replay, a git worktree | `reproduce_case` | looks for the recorded image, runs one case, compares |
| Dashboard client, `dashboard/src/useDashboard.ts`, `EvidenceView.tsx` | two promise caches, the core data, the selection, a card's evidence | fetch, validate, select, open | reads bundles over HTTP |
| Catalog, hashing, models, command line | none after loading | validation | everywhere |

What is hard about it:

- *Concurrency.* A call of `run_process` is a caller, two threads and a process
  tree nobody controls. A campaign is a main thread and a pool, over one event.
  Savers, exporters and assemblers of one name race in the file system, and tag
  pushes race with publication.
- *Failure.* Interrupts reach different lines with different handlers. Processes
  are killed between two renames or between `mkdir` and `write`. Any `gh` call of
  a publication may fail, and publication is then run again over what it left.
- *Ordering.* Results complete in any order, artifacts arrive in any order, and
  both must lead to one canonical record.
- *Evidence.* A verdict may blame a tool only on complete evidence of the right
  phase; truncation, timeouts, missing artifacts and infrastructure failures must
  never read as a verdict. An aggregate must not present what was never measured.

- *Staleness.* A build asks the daemon again and again about a tag that other
  builds move; a replay meets a checkout, an image or an upstream that is no longer
  what was recorded; a page outlives the deployment its manifest came from.
- *Two readings of one document.* A bundle is checked by the publisher, by a replay
  and by the page, each in its own way.

## 2. Modules

| module | models | composed with |
|---|---|---|
| `ProcessRun` | `run_process` with its threads and processes | `ProcessRunProofs` |
| `CampaignContract` | abstract: one run records every pair once, or nothing, and ends | implemented by `CampaignRun` |
| `CampaignRun` | the pool of `run_campaign` | `CampaignProofs` |
| `CaseExecution` | one case from disposition to re-verified record | `CampaignProofs` |
| `WriteOnce` | abstract: at most one value under a name | implemented twice, by the two below |
| `CampaignStore` | `save_campaign`, `load_campaign` | `CampaignFiles` |
| `BundleExport` | build aside, look, rename | `CampaignFiles` |
| `CampaignFiles` | both stores of one campaign id, as `svtorture dashboard bundle` connects them | extends `CampaignStore`, instantiates `BundleExport`; `CampaignRecordProofs` |
| `EvidencePacking` | `pack_evidence_results` | extended by `BundleContent` |
| `BundleContent` | a bundle's documents, its three readers, and alterations of it | extends `EvidencePacking`; `BundleContentProofs` |
| `HeadlineMetric` | `compute_metric` as operators | extended by `Aggregation` |
| `Aggregation` | collection jobs, the publish job, aggregation by hand | extends `HeadlineMetric`; `CampaignRecordProofs` |
| `AtomicTree` | abstract: a tree exchanged by one assembler at a time | implemented by `DataSwap` |
| `DataSwap` | the locked two-rename replacement of dashboard data | `DataSwapProofs` |
| `ReleaseContract` | abstract: an archive that only grows and a page of it | implemented by `ReleasePublish` |
| `ReleasePublish` | `publish_dashboard` against GitHub | `ReleasePublishProofs` |
| `Resolver` | `resolve_tool_ref` as operators over a listing | extended by `ImageBuild` |
| `ImageBuild` | `build_image` and `load_cached_image` by several invocations | extended by `Preparation` |
| `Preparation` | `_prepare` and the `run` command around it | extended by `Reproduction` |
| `Reproduction` | `reproduce_case` beside the preparations | composes the three above; `ReproductionProofs` |
| `DashboardClient` | the page's loading hook and a card's evidence | `DashboardClientProofs` |

Modules named `MC...` hold the constants of a run. Definitions whose comment
starts with "Mutant of" are plausible mistakes in the code they stand beside; each
is used to confirm that the property named for it notices the mistake.

### How state and actions correspond to the code

**ProcessRun.** `pc` is the line the caller is at: the wait loop (`poll`, `clock`,
`wait`), the leftover-group check (`group`), `_terminate_process_group` (`term`,
`reap`), the joins (`join`) and the two collectors' `finish` (`finish` to `record`).
`why` folds the locals `timed_out`, `cancelled` and the exception handler.
A byte is its position in its stream. `consume` is a step for each thing it updates,
the log, the size, the digest with the head, the tail, and the tail's trimming, and
`finish` one for each thing it reads, because once a join has given up the thread runs
on between them. `head` and `tail` hold the very bytes, so a chunk that straddles the
head's limit is split in the model as it is in the code; the digest is a count of the
bytes it is of, since they are always a prefix. Descendants fork, exit, close the
pipes, and leave the group with `setsid`. The reuse of process numbers is not modelled.

**CampaignRun.** An item is a (tool, case) pair; its future, its value and the
worker that has it are separate variables. `Interrupt` is a KeyboardInterrupt in
the `try`; `InterruptHandler` one where nothing catches it, recorded in
`unhandled`. A case's execution is told apart where it meets the event: `Enter` is the
check at campaign.py:358, `CheckStage` that of process.py:145 before each stage's tool
and `StartTool` the `Popen` after it, which nothing guards; `EndTool`, `LaunchFails`,
`Finish`, `Fail` and `Stop` are its ends. `late` and `window` are history, read only by
the property.

**CaseExecution.** The state is the case, the profile, the plan, the observations
made and the result. `Dispose`, `SkipUnavailable`, `BuildPlan`, `RunStage`,
`Evaluate` follow `_run_campaign_case`. Raw outcomes go through
`_classify_container` or `_classify_wrapper`. A diagnostic is its severity and
whether it is at the anchor. `Verifies` is `verify_result_against_case` with the
model's own `coherent_judgment`.

**CampaignFiles.** In the store each line of `save_campaign` is a step, and
`write_text` is two: the file is there but torn in between. Exporters load the
record and build its tree (`Export`); `ExportOther` builds a tree of a record with
the same id that came from elsewhere. Aggregate ids are derived from their
inputs' ids and not from the order of their results, so two records of one id
may differ.

**EvidencePacking.** One step per case of the loop, the last flush, and prefix
sums of sizes for the input; a length is arithmetic on them.

**BundleContent.** `bundle` is a record of the fields the checks relate: a document
is identified with its content, a hash with what it was computed from, and `stale`
holds the files a reference of the manifest no longer fits. `Valid` is
`validate_campaign_bundle`, `Replayable` is `_build_replay_context` for one result,
`Shown` what `loadCampaign` and `loadCaseEvidence` demand. The bundle is first the
one `export_campaign_bundle` wrote on the shards `EvidencePacking` made; `Alter`
then changes one field of one document at a time, or derives everything derived
again, as an exporter of another version would.

**Aggregation.** A campaign is a record of the fields `aggregate_campaigns`
reads. `kept` is every campaign saved so far; a campaign is named by its place in
it. Jobs end with a campaign, a preparation failure or nothing, may be run again,
and a new artifact replaces the one of the same name. The download step continues
on error, so the publish job may see any subset. Trust, platform and the
catalog's hashes are abstracted to the checkout a campaign was made in.

**DataSwap.** `output`, `backup` and `temporary` are the three directories of
bundle.py:929-946, `holder` the `flock`. A killed process loses its lock and
leaves its directories. `AtomicTree` is an exchange by one assembler at a time. In the
mapping the tree is the output or, while a *live* process is between its two renames
(`Exchanging`), the backup its handler would move back; the output itself does not exist
in that window, and a reader that looks then finds nothing. A process interrupted,
killed, or unable to move back in that window takes the tree away: `Disrupt` in the
middle of an exchange, the one step of `AtomicTree` that does. The plan's "atomically
replaced" (docs/exec-plans/dashboard-pages-releases.md:257) holds with this exemption
and not without it.

**ReleasePublish.** Each `gh` call is a step and each may fail (`Raise`). A tag, a
Release and each asset are `right`, `wrong` or absent. `StartSession` chooses any
sequence of campaigns; `PushTag` is somebody else's.

**Resolver, ImageBuild, Preparation, Reproduction.** A listing of the upstream gives
branches their commits and tags their object and peeled commit. An image is what went
into it: recipe files, the recipe label its builder claimed, base, commit. Each
Docker command of `build_image` is a step, since each is asked about a tag that
another build may have moved; `write_text` of the cache file is two. `place` is what
each checkout holds, and it may be edited under a build or a replay. A replay stays in
the checkout, uses or adds a worktree, finds, pulls or rebuilds the image, runs the case
and reports. The fields `retagged`, `edited`, `named` and `edits` are history: what
others did while an operation was under way.

**DashboardClient.** A promise of `byteCache` is a fetch, one of `validatedCache` a
load; both caches drop their oldest entry at the limit. Lookups and the fetch they
start are one step because they run before any `await`; what a response holds is read
from the site when it arrives. Each `await` of the selection effect is a step of its
task, and `active` is the effect's own flag. A campaign's documents on one version of
the site carry one revision, which stands for their content and their hash.

## 3. Runs

Every run is exhaustive within its bounds.

| run | properties | shows |
|---|---|---|
| `ProcessRun` | `NoGroupSurvivor`, `OwnKillNeverReported`, `CaptureFaithful`, `EndsUnlessHeld` | what returns left no process of the group behind and does not report its own kill as the tool's exit; of a stream it waited for it counts and digests everything, and the excerpt is exactly the head and the last bytes of the rest; of one whose `join(timeout=5)` gave up the excerpt is still the stream's own bytes in order; and it returns unless an escaped descendant holds a pipe of a call that timed out, was cancelled or interrupted |
| `ProcessRun_hang` | `CallEnds` (violated) | that exception is real: the documented bound on a call does not hold |
| `CampaignRun` | `RecordOnlyWhenAllFinished`, `QuietWhenOver`, `LateToolsWereChecked`, `ImplementsContract` | only whole campaigns are recorded, in manifest order; no worker outlives the call unless an interrupt hit the handler; after a cancellation each worker starts one tool at most, and only if it had passed the check before; the call ends |
| `CaseExecution` | `ConformingIffOracleMet`, `BlamedOnlyOnCompleteEvidence`, `RecordedResultVerifies` | for all kinds of case and all registered profiles the judgment agrees with a reference statement of the oracle and what is recorded passes re-verification |
| `CampaignFiles` | `RecordIsWriteOnce`, `BundleIsWriteOnce`, `ExportedIsTheRecord`, `EveryExportSettles` | record and bundle are each written once and agree whoever races or dies; retried exports settle |
| `DataSwap` | `ImplementsAtomicTree`, `EveryAssemblyEnds` | one assembler at a time exchanges the tree; whatever fails, the exchange ends with the new tree or the old one, unless its own process is interrupted, killed or unable to move back between its renames; "ok" is answered only for a tree that was put there; nobody waits for ever |
| `DataSwap_interrupt` | `OldOrNewSurvives` (violated) | an interrupt between the renames deletes the only copy of the old data |
| `BundleContent` | `AccountingExact`, `ShardsBounded`, `ShardsPartition`, `ExportValidates`, `ValidBundlesReplay`, `OneFaultNeverMisleads` | the byte count is the serialized length, shards respect the limits and hold every case once and in order; an export passes its own validation; what validation accepts, every replay and the page accept; one altered field may stop a replay but not make it answer for another result |
| `Aggregation` | `CampaignsConsistent`, `MeasurementsKept`, `CompleteIsComplete`, `MetricCountsRequirements`, `PublishingAgainAgrees` | aggregates hold exactly the measurements of what they are named after, admit what is missing, and are the same record when published again |
| `ReleasePublish` | `ReturnedIsExact`, `NothingMovedOrReplaced`, `PublishedExact`, `ImplementsArchive`, `EveryCampaignIsListed` | what a session returns is exact also under a racing tag push; published files never change; Pages are built from all published Releases; reruns complete what failed |
| `Reproduction` | `ProvenanceExact`, `AnsweredAsAsked`, `ReplaySound`, `PreparationSettles` | an image identity is true of its image unless another build moved the tag meanwhile; what the cache answers is what was asked; a replay that reports no difference ran the recorded corpus with the measured image; a preparation that is repeated succeeds |
| `DashboardClient` | `ShownIsOneExport`, `AnswersTheChoice`, `LoadingEnds` | whatever is deployed between two requests, what is shown together was exported together; it answers the user's present choice; loading ends |

### Bounds and why they are enough

- `ProcessRun`: one descendant, two streams, one of three bytes and one of one, a limit
  of two bytes (a head and a tail of one each) and reads of two. One descendant is enough for each relation the code distinguishes
  (in the group, escaped, holding a pipe, dead), and for two to differ they would
  have to be told apart by code that only sees the group as a whole. Of the
  three bytes the first read straddles the end of the head, the second is short, makes
  the tail overflow and be trimmed; two of them are exactly the limit, and one is less.
  964,612 states, about a minute.
- `CampaignRun`: two tools, two cases, two workers, up to two stages: order of
  completion, of submission and of recording all differ, items outnumber workers, and
  when the event is set a worker may have a stage and a case still before it. 1,437,059
  states, under three minutes.
- `CaseExecution`: all registered profiles, all kinds of case. The bounds are the
  exit codes (one per class the code tells apart), at most one diagnostic per
  output, and up to two pass markers (none, the one required, too many).
- `CampaignFiles`: two savers with different records, one exporter of each
  origin, two failures in the store and two in the exports.
- `DataSwap`: three assemblers, two failing calls, any interrupts and kills. A
  third is needed for one that waits while another has left the lock.
- `BundleContent`: every sequence of up to four cases of four kinds, with every
  combination of limits: a shard closed by count, by bytes, by both, a case that
  alone is over the target, an empty one. One input that fills two shards is altered
  up to three times: a consistent falsification of a judgment takes two alterations,
  and with what is derived again three. 97,933 states.
- `Aggregation`: two tools, five cases (two variants of one requirement, an
  exploratory case, two that are not asked), three kept campaigns, by-hand
  aggregation of one or two. Three suffice for an aggregate of an aggregate and
  for an aggregate over a rerun beside the first attempt.
- `ReleasePublish`: an older and a newer campaign, every earlier history the
  publisher or somebody else can leave, two failing calls, one racing tag.
- `Reproduction`: three users (two prepare, one replays), three places (two
  checkouts and the replay's worktree), four contents of a checkout on two commits,
  two recipes and two corpora (a clean one, two local edits of it, a later commit; one
  edit changes the recipe and not the corpus, the other the corpus and not the recipe),
  two names and two commits upstream, two bases, two images per set of inputs. The
  scenarios of `Stories` name who asks for what: a measured campaign and its replay
  with up to three mishaps; two preparations racing in one checkout or in two with
  different recipes; a race whose outcome is replayed; a run without a build; an
  internal tool. Three mishaps allow an image to be pruned, its registry copy lost and
  a base moved before one replay. 451,912 states, about two minutes.
- `DashboardClient`: two comparable campaigns, three versions of the site (one of them
  re-exports a campaign, one withdraws one), caches of three entries so that entries
  are evicted while they are awaited, five promises, two selections loading at once,
  two choices, two mishaps (a redeployment or a failed fetch). 901,092 states, under
  two minutes.

### Fairness

- `ProcessRun`: the caller and the drain threads are scheduled and the clock
  advances. Nothing is assumed of the tool, its descendants or who cancels.
- `CampaignRun`: main thread and workers are scheduled, and a tool that runs
  ends. The latter is what `EndsUnlessHeld` establishes of each of its processes,
  up to the exception it names.
- `CampaignFiles`: a process that began goes on, an exporter is started once there
  is a record it can load, and a refused export is started again by its user.
- `DataSwap`: an assembler that is not killed takes its next step; the kernel
  releases the lock of one that is, and hands a free lock to a waiter that is
  repeatedly able to take it.
- `ReleasePublish`: a session takes its next step, and one is run, again and again,
  for the campaigns that are pushed and not yet listed on Pages, what the workflow's
  "Re-run failed jobs" does. The aggregate of the same
  artifacts is the same record (`PublishingAgainAgrees`), so a rerun publishes the
  very campaign the failed session did. Failures are finite (`MaxFailures`).
- `Reproduction`: a preparation takes its next step and a failed one is repeated, a
  replay takes its next step. Nothing is assumed of the upstream, the daemon, the
  registry or editors; mishaps are finite.
- `DashboardClient`: a fetch settles, and the event loop runs what is ready. The
  browser's timeouts justify the first, the run-to-completion loop the second.

`CHECK_DEADLOCK FALSE` is given where the system stops: a call has returned, a
campaign is saved, every process is over.

## 4. Disagreements between code and documents

- **A call may never return** (`ProcessRun_hang`). After a timeout or a
  cancellation the drain threads are joined without a bound (process.py:209). A
  descendant that called `setsid` survives the kill of the group; while it holds
  the pipe, end of file does not come. The module calls itself "Bounded,
  timeout-safe".
- **An interrupt can delete the data** (`DataSwap_interrupt`). Between the two
  renames a KeyboardInterrupt skips `except Exception`, and the `finally` removes
  the backup. (`RestoreFails` is the other way to lose it: the rename and the
  handler's own rename back both fail; a kill in the same window, which nothing can
  catch, is the third. `ImplementsAtomicTree` allows these three losses and no other.)

Further observations, without a run of their own. `compute_metric` looks for
harness errors in mandatory cases of applicable requirements only (metric.py:97),
while docs/methodology.md:67 says any harness error invalidates a profile's
metric. A log that cannot be opened, a thread that cannot be started or an
interrupt between `Popen` and the `try` (process.py:172-181) leaves the tool
running with nobody to end it (`LaunchUnsupervised`): `NoGroupSurvivor` is about
the calls that got past that point. After a *normal* end the joins are bounded by
five seconds, and a stream whose join gave up is recorded with `truncated` false.
A saver killed between `mkdir` and the write leaves a directory that makes every
later save of that id fail, which for aggregates, whose ids are derived, lasts
until somebody removes it. `load_release_summaries` never looks at a Release's
tag, so a Release published under a tag somebody moved is refused to its publisher
(`ReturnedIsExact`) and listed on Pages all the same.

Of preparation and replay. Tags and cache files are named by the source commit alone,
though the comment at images.py:129 says they "carry the full source/recipe identity":
two builds of one commit with different recipes move each other's tag, each fails the
other's label check, and two that are repeated for ever may never succeed
(`PreparationSettles` exempts exactly this rivalry). Two builds with one recipe on
different bases both pass the check, and the recorded base may then not be the image's;
after a push the recorded digest may be another build's (`ProvenanceExact` says how
often the tag must move for that). The corpus is loaded when the command starts and
the repository's identity noted after the preparation: a checkout changed in between
gives a record that its own replay refuses.

Of readers. A replay checks less than validation does: a verdict and the evidence for
it, altered alike, are replayed although validation refuses the bundle. The bytes of a
download whose hash did not fit stay in `byteCache`, so that "Close and reopen this
section to retry." (EvidenceView.tsx:577) fails again until the entry is evicted or the
page reloaded.

## 5. Proofs

TLAPS checks eight modules of theorems, each about the specification without
fairness and for every value of the constants that satisfies the `ASSUME`s of the
modules it extends. TLC evaluates those on every run, and checked each inductive
invariant on a run's instance before it was proved.

- `ProcessRunProofs` (`ProcessRunAssumption`: the leader is not a descendant, the
  bounds are naturals, there is a stream and streams have distinct names). `GroupNeverSurvives` and
  `KillsAreOwned` are `NoGroupSurvivor` and `OwnKillNeverReported` for any set of
  descendants. The invariant says in which control states the group may still be
  populated, that past the reaping the leader is reaped and the group empty, and
  that `leaderEnd` is "killed" only once `why` names a reason. It is needed
  because the two properties speak of the last state only. `CapturesAreFaithful` is
  `CaptureFaithful` for any streams, sizes and capture limit. Its invariant places
  every byte (written, in the pipe, in hand, counted, digested; `BytesAccounted`),
  says which bytes head and tail hold at each step of `consume` (`ExcerptKept`), and
  of the caller that a stream is captured only after its thread ended or its join
  gave up (`CaptureFollowsCaller`).
- `CampaignProofs` (`CampaignRunAssumption`, `CaseExecutionAssumption`). `TypesHold`,
  `OnlyFinishedCampaignsRecorded`, `NothingRunsAfterReturn` and
  `LateToolsHadBeenChecked` for any numbers of tools, cases, stages, jobs and CPUs. The
  invariant follows an item: not yet submitted, its future is untouched; taken,
  exactly one worker has it and it is running; collected, it holds a result for
  good; and the event is set only on the way out. Once it is set, whoever stands between
  check and start stood there at that moment and has started nothing since
  (`StartsAgree`). The lemmas on division show
  that the submission loop enumerates every pair once. `RunImplementsContract` is the
  safety half of `ImplementsContract`, step by step: saving maps to the recording of a
  whole campaign, since what was collected is every pair once and sorting puts it in
  manifest order whatever order it came in; everything else stutters or gives up.
  About `CaseExecution`, for any profiles, kinds of case and outputs:
  `ConformanceIsTheOracle`, `BlameNeedsEvidence` and `RecordsVerify` are
  `ConformingIffOracleMet`, `BlamedOnlyOnCompleteEvidence` and
  `RecordedResultVerifies`. Their invariant says that what was observed are the first
  stages of the plan and where a result came from; the rest is that `judge`, which
  decides by exclusion after trouble, markers and exit codes, agrees with a statement
  of the oracle (`JudgedAsStated`), and that re-verification rebuilds plan and verdict.
- `CampaignRecordProofs`. Of the stores (`CampaignStoreAssumption`,
  `CampaignFilesAssumption`), about `FilesSafety`, which is without fairness:
  `RecordsAreWriteOnce` and `BundlesAreWriteOnce` are the two refinements of
  `WriteOnce`, for any savers, exporters, records and failures: `mkdir` elects one
  writer for good, so the file goes from absent to torn to one value and no further;
  the rename finds the name free or fails. `StoredBundleIsOfTheRecord` composes them:
  an exporter holds nothing or the record the id has, which by write-once is the one it
  will always have.
  Of aggregation (`HeadlineMetricAssumption`, `AggregationAssumption`), for any tools,
  corpus, support table, policy and number of campaigns, aggregates of aggregates
  included: `RecordsAreConsistent`, `MeasurementsAreKept`, `PublishingAgainIsTheSame`,
  `CompleteMeansComplete` and `MetricIsOfRequirements` are the run's five properties.
  The invariant (`AggregationInv`) says that every kept record has exactly one fitting
  result for each of its cells, with missing, failed and complete to match
  (`SoundCampaign`), and that an aggregate is still what aggregation makes of the
  earlier campaigns it names, the job's taken in increasing order (`FromEarlier`). The
  first part is needed because an aggregate of records that hold a cell twice would
  hold it twice; the second because a campaign is appended while older ones are
  referred to. Publishing again agrees because a finite set of numbers has one
  increasing enumeration (`SortedOnce`). Of the metric, one result per cell makes the
  `CHOOSE` of a case's status the status that was recorded, and the four classes
  partition the requirements (`FourClasses`). The assumption on judgments, that
  `evaluate` gives an executed status or one of trouble, is what its code returns.
  Flattening is recursive: what it keeps (`FlattenRange`, `FlattenOnce`) is proved by
  induction in the form that a nonempty set of naturals has a least member (`Least`).
- `DataSwapProofs` (`DataSwapAssumption`). `SwapsExclude`: one process at most is past
  the lock. `SwapImplementsAtomicTree` is the refinement of `AtomicTree` for any
  processes, failures, interrupts and kills. The invariant says what a process knows at
  each step of where its tree and the old one are; it survives the steps of the others
  because only the holder of the lock touches the output. So there is one exchange at a
  time (`OneExchanges`), a tree exactly if there is an output or an exchange
  (`TreeThere`), and the steps outside it leave both as they are (`ExchangeStays`).
- `ReleasePublishProofs` (`ReleasePublishAssumption`, `ArchiveAssumption`).
  `WhatReturnsIsExact`, `NothingIsMovedOrReplaced` and `PublishedIsExact` for any
  campaigns and histories, any sessions and failures, and any pushed tags. The
  invariant says that what a session has looked at stays so while it goes on.
  `PublicationImplementsArchive` is the refinement of `ReleaseContract`; it alone uses
  `ArchiveAssumption`: whoever published a Release under a campaign's tag before was
  this publisher. The page build relies on it, for it downloads and hashes the latest
  archive only (github_publish.py:427-432).
- `BundleContentProofs` (`BundleContentAssumption`, `EvidencePackingAssumption`).
  `AccountingIsExact`, `ShardsStayBounded` and `ShardsArePartition` for inputs of any
  length, sizes and limits; the invariant ties the loop's counters to the prefix sums
  of the cases in the open shard. `BundlesArePacked` carries them to bundles.
  `ValidReplays` and `ValidIsShown` are about any bundle with finitely many cases and
  tools: if `Valid` accepts it, every result replays from every place and every case is
  shown. The step that is not routine is that a replay compares numbers of rows and
  coordinates where validation compares sets; it needs the cardinality of a product
  (`ValidCounts`). `ValidBundlesAlwaysReplay` is `ValidBundlesReplay` for every input and
  every sequence of alterations. `ExportsAreValid` is `ExportValidates`: the shards
  partition the cases, so the counts the manifest gives add up and each result is where
  the index says. `OneFaultIsNoticed` is `OneFaultNeverMisleads`: until the first
  alteration the bundle is the exported one, and each single fault either leaves
  catalog and evidence as exported or contradicts another document a replay reads.
- `ReproductionProofs` (the assumptions of `Resolver`, `ImageBuild`, `Preparation` and
  `Reproduction`), for any users, checkouts, commits, recipes, images and mishaps.
  `IdentitiesAreTrue`, `BuildsAnswerTheRequest` and `ReplaysAreSound` are
  `ProvenanceExact`, `AnsweredAsAsked` and `ReplaySound`. From the end of a build until
  the daemon is asked for the image's id, the tag names that image unless another build
  moved it, which `retagged` counts; a label that fits its recipe is then either the
  build's own or takes two moves. A suffix tells the source commit because commits and
  recipes are named apart (`SuffixTells`), which makes a cached identity one of the
  commit that asks. Of a replay, the corpus is the recorded one until its checkout is
  first edited. Two assumptions matter: a job's checkout exists, and a clean checkout
  is determined by its commit.
- `DashboardClientProofs` (`DashboardClientAssumption`).
  `ShownTogetherWasExportedTogether` and `LatestChoiceIsAnswered` are `ShownIsOneExport`
  and `AnswersTheChoice` for any site, history, choices, cache size and number of
  promises. Two facts carry them: a promise answers what was asked of it for as long as
  anyone awaits it, whatever was evicted or deployed meanwhile, and the only task whose
  answer counts is that of the last effect.

A proof that failed corrected a property. `ReplaySound` once said that a report
without a difference survives one edit of the checkout, whatever the campaign was
measured on. That is not so when the campaign's own checkout was edited while it was
measured, into one with another corpus: one further edit during the replay then meets
the corpus that was measured and not the one recorded. The run missed it for lack of an
edit that changes the corpus alone; it has one now, and the property asks that the
record is true of its checkout.

Every invariant and every action property of the passing runs is stated by a theorem,
and the safety part of each refinement. Only model-checked is every liveness property
(`EndsUnlessHeld`, `EveryExportSettles`, `EveryAssemblyEnds`, `EveryCampaignIsListed`,
`PreparationSettles`, `LoadingEnds` and the ending of a campaign in
`ImplementsContract`): fairness and `ENABLED` are out of the prover's reach.

## 6. Not modelled

The catalog and hashing are pure and have no state; a hash is taken to be the
identity of what it is of. Of the data models only the checks that relate fields are
modelled. Command lines and diagnostic patterns of the adapters are text. The archive
format, downloads, the dashboard's date filters and byte limits, and the reports of
`publish.py` are left out. Local wrappers are modelled as a case executes, not as they
are configured. The annotation tool for the standard's PDF and the dashboard's views are
separate programs. Docker, GitHub, git upstreams, browsers, the kernel and the pool's
queue are external and modelled from how the code uses them. A container that outlives
its killed client is outside the model of `ProcessRun`, and process numbers are not
reused.

## 7. Plan

1. Archives: `assemble_public_pages`' unlocked replacement, beside `DataSwap`.
2. The container of a killed client, with a model of the work directory it mounts.
