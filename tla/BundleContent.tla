---------------------------- MODULE BundleContent ----------------------------
(***************************************************************************)
(* What is in a campaign's bundle, and the three programs that read it:    *)
(* bundle.validate_campaign_bundle, which guards every publication, the    *)
(* replay of one result (reproduce._build_replay_context) and the          *)
(* dashboard's loaders.  The bundle is the exporter's, on the shards that  *)
(* EvidencePacking made, or has been altered since: by a fault, by hand or *)
(* by an exporter of another version.                                      *)
(*                                                                         *)
(* A document is identified with its content and a hash with what it was   *)
(* computed from, the references of the manifest excepted: `stale' holds   *)
(* the files they do not fit.  Documents list cases and results sorted and *)
(* once, their models see to that, so that the lists are functions here.   *)
(***************************************************************************)
EXTENDS EvidencePacking, FiniteSets

CONSTANTS
  Grid,           \* tool and profile pairs of the campaign, 1..g
  AlteredInputs,  \* BOUND: the inputs whose bundles are altered
  MaxAlterations  \* BOUND: of one bundle

ASSUME BundleContentAssumption ==
  /\ IsFiniteSet(Grid) /\ Grid \subseteq Nat
  /\ AlteredInputs \subseteq Inputs /\ MaxAlterations \in Nat

VARIABLES bundle, alterations

Cases == 1..N
Unselected == 0        \* a case of the catalog the campaign did not select
NoBundle == [state |-> "none"]
CatalogFile == 0
VerdictFile == -1
Stray == -2            \* a file that belongs to no bundle

\* A definition, a content, a commit, a campaign's id: as exported, or other.
Original == 1
Other == 2
Met == "met"
Missed == "missed"
Opposite(judgment) == IF judgment = Met THEN Missed ELSE Met

-----------------------------------------------------------------------------
(* export_campaign_bundle. *)

\* Mutant of ShardOf: the last shard is written down for every case.
ShardOfLast(c) == Len(shards)

\* case_shards.
ShardOf(c) == CHOOSE i \in 1..Len(shards) : shards[i].first <= c /\ c <= shards[i].last

ResultsOfCases(S) == UNION {{c} \X (1..CaseResults(c)) : c \in S}

Entry == [content |-> Original, definition |-> Original, declared |-> Original,
          link |-> Original]
Result == [judgment |-> Met, observed |-> Met, target |-> Original]

ShardFile(i) ==
  LET cases == shards[i].first..shards[i].last
  IN [campaign |-> Original, cases |-> cases,
      results |-> [x \in ResultsOfCases(cases) |-> Result]]

Counts(shard) == <<Cardinality(shard.cases), Cardinality(DOMAIN shard.results)>>

\* The metric of a tool and profile: its cases judged met.
Passed(b, g) ==
  Cardinality(UNION {{x[1] : x \in {y \in DOMAIN b.shards[i].results :
                        y[2] = g /\ b.shards[i].results[y].judgment = Met}}
                      : i \in DOMAIN b.shards})

Written ==
  [state |-> "kept", dir |-> Original,
   files |-> {CatalogFile, VerdictFile} \cup 1..Len(shards), stale |-> {},
   id |-> Original, commit |-> Original, grid |-> Grid,
   identities |-> [c \in Cases |-> [content |-> Original, definition |-> Original]],
   hashed |-> [cases |-> [c \in Cases |-> Original], requirements |-> Original,
               selection |-> <<Cases, Grid>>],
   metrics |-> [g \in Grid |-> N],
   total |-> <<N, Cardinality(ResultsOfCases(Cases))>>,
   counts |-> [i \in 1..Len(shards) |-> Counts(ShardFile(i))],
   catalog |-> [campaign |-> Original, requirements |-> Original,
                cases |-> [c \in Cases \cup {Unselected} |-> Entry]],
   verdicts |-> [campaign |-> Original,
     rows |-> [c \in Cases |-> [href |-> ShardOf(c),
                               results |-> [g \in 1..CaseResults(c) |-> Met]]]],
   shards |-> [i \in 1..Len(shards) |-> ShardFile(i)]]

-----------------------------------------------------------------------------
(* What the documents' own models demand (dashboard_models). *)

\* The sum of a count over the evidence shards.
Sum(b, part) ==
  Cardinality(UNION {{i} \X (1..b.counts[i][part]) : i \in DOMAIN b.counts})

ManifestParses(b) ==
  /\ DOMAIN b.metrics = b.grid
  /\ b.total = <<Cardinality(DOMAIN b.identities),
                 Cardinality(DOMAIN b.identities) * Cardinality(b.grid)>>
  /\ b.total = <<Sum(b, 1), Sum(b, 2)>>

ShardParses(shard) ==
  /\ shard.cases # {}
  /\ \A x \in DOMAIN shard.results : x[1] \in shard.cases

\* A resource is there and is what the manifest refers to.
Verified(b, href) == href \in b.files /\ href \notin b.stale

VerdictRows(b) == DOMAIN b.verdicts.rows
VerdictCoordinates(b) ==
  UNION {{c} \X (DOMAIN b.verdicts.rows[c].results) : c \in VerdictRows(b)}

-----------------------------------------------------------------------------
(* validate_campaign_bundle. *)

Defined(b, c) == b.catalog.cases[c].definition = b.catalog.cases[c].declared
Linked(b, c) == b.catalog.cases[c].link = b.commit

Identified(b, c) ==
  /\ c \in DOMAIN b.catalog.cases
  /\ b.catalog.cases[c].content = b.identities[c].content
  /\ b.catalog.cases[c].declared = b.identities[c].definition

\* hashes.cases, hashes.requirements and hashes.selection are recomputed.
HashesFit(b) ==
  /\ b.hashed.cases = [c \in DOMAIN b.identities |-> b.identities[c].content]
  /\ b.hashed.requirements = b.catalog.requirements
  /\ b.hashed.selection = <<DOMAIN b.identities, b.grid>>

CatalogFits(b) ==
  /\ \A c \in DOMAIN b.catalog.cases : Defined(b, c) /\ Linked(b, c)
  /\ \A c \in DOMAIN b.identities : Identified(b, c)
  /\ HashesFit(b)

ShardsFit(b) ==
  /\ \A i \in DOMAIN b.counts :
       /\ Verified(b, i) /\ ShardParses(b.shards[i])
       /\ b.shards[i].campaign = b.id /\ Counts(b.shards[i]) = b.counts[i]
       /\ \A j \in DOMAIN b.counts \ {i} : b.shards[i].cases \cap b.shards[j].cases = {}
  /\ UNION {b.shards[i].cases : i \in DOMAIN b.counts} = VerdictRows(b)

Judged(b, x) == b.shards[b.verdicts.rows[x[1]].href].results[x]

\* Mutant of RowsFit: a row's shard is only one of the manifest's.
RowsFitAnywhere(b) ==
  \A c \in VerdictRows(b) :
    /\ b.verdicts.rows[c].href \in DOMAIN b.counts
    /\ \A g \in DOMAIN b.verdicts.rows[c].results : \E i \in DOMAIN b.counts :
         /\ <<c, g>> \in DOMAIN b.shards[i].results
         /\ b.shards[i].results[<<c, g>>].target = b.catalog.cases[c].definition
         /\ b.shards[i].results[<<c, g>>].judgment = b.verdicts.rows[c].results[g]

\* Each verdict is the judgment of one result, in the shard its row names, of
\* the requirement the catalog has for the case.
RowsFit(b) ==
  \A c \in VerdictRows(b) :
    LET row == b.verdicts.rows[c] IN
    /\ row.href \in DOMAIN b.counts /\ c \in b.shards[row.href].cases
    /\ \A g \in DOMAIN row.results :
         /\ <<c, g>> \in DOMAIN b.shards[row.href].results
         /\ Judged(b, <<c, g>>).target = b.catalog.cases[c].definition
         /\ Judged(b, <<c, g>>).judgment = row.results[g]

GridFits(b) ==
  LET all == UNION {DOMAIN b.shards[i].results : i \in DOMAIN b.counts}
  IN VerdictCoordinates(b) = all /\ all = (DOMAIN b.identities) \X b.grid

\* verify_result_against_case and the recomputed metrics.
JudgmentsStand(b) ==
  /\ \A i \in DOMAIN b.counts : \A x \in DOMAIN b.shards[i].results :
       b.shards[i].results[x].judgment = b.shards[i].results[x].observed
  /\ \A g \in b.grid : b.metrics[g] = Passed(b, g)

Valid(b) ==
  /\ ManifestParses(b) /\ b.dir = b.id
  /\ Verified(b, CatalogFile) /\ Verified(b, VerdictFile)
  /\ b.catalog.campaign = b.id /\ b.verdicts.campaign = b.id
  /\ VerdictRows(b) = DOMAIN b.identities
  /\ CatalogFits(b) /\ ShardsFit(b) /\ RowsFit(b) /\ GridFits(b) /\ JudgmentsStand(b)
  /\ b.files = {CatalogFile, VerdictFile} \cup DOMAIN b.counts

-----------------------------------------------------------------------------
(* _build_replay_context for one result, from an archive, a directory or a *)
(* site: only the documents it needs are read.                             *)

Locations == {"archive", "directory", "site"}

Core(b) ==
  /\ ManifestParses(b)
  /\ Verified(b, CatalogFile) /\ Verified(b, VerdictFile)
  /\ b.catalog.campaign = b.id /\ b.verdicts.campaign = b.id

ReplayCatalogFits(b) ==
  /\ \A c \in DOMAIN b.identities :
       Identified(b, c) /\ Defined(b, c) /\ Linked(b, c)
  /\ HashesFit(b)

EvidenceFits(b, href, c) ==
  /\ href \in DOMAIN b.counts /\ Verified(b, href) /\ ShardParses(b.shards[href])
  /\ b.shards[href].campaign = b.id /\ c \in b.shards[href].cases
  /\ Counts(b.shards[href]) = b.counts[href]

\* Mutant of SameJudgment: the evidence alone counts.
AnyJudgment(b, c, g) == TRUE

SameJudgment(b, c, g) == Judged(b, <<c, g>>).judgment = b.verdicts.rows[c].results[g]

Replayable(b, location, c, g) ==
  /\ location = "archive" => b.dir = b.id
  /\ Core(b)
  /\ b.total = <<Cardinality(VerdictRows(b)), Cardinality(VerdictCoordinates(b))>>
  /\ VerdictRows(b) = DOMAIN b.identities /\ ReplayCatalogFits(b)
  /\ c \in DOMAIN b.identities
  /\ EvidenceFits(b, b.verdicts.rows[c].href, c)
  /\ <<c, g>> \in DOMAIN b.shards[b.verdicts.rows[c].href].results
  /\ g \in DOMAIN b.verdicts.rows[c].results
  /\ SameJudgment(b, c, g)
  /\ Judged(b, <<c, g>>).target = b.catalog.cases[c].definition
  /\ g \in b.grid

-----------------------------------------------------------------------------
(* The dashboard (loadCampaign and loadCaseEvidence): the documents' shape *)
(* is checked against JSON schemas, which relate no two fields.            *)

Shown(b, c) ==
  /\ b.dir = b.id /\ Verified(b, CatalogFile) /\ Verified(b, VerdictFile)
  /\ b.catalog.campaign = b.id /\ b.verdicts.campaign = b.id
  /\ VerdictRows(b) \subseteq DOMAIN b.catalog.cases
  /\ \A d \in VerdictRows(b) : b.verdicts.rows[d].href \in DOMAIN b.counts
  /\ c \in VerdictRows(b)
  /\ LET href == b.verdicts.rows[c].href
     IN /\ Verified(b, href) /\ b.shards[href].campaign = b.id
        /\ c \in b.shards[href].cases

-----------------------------------------------------------------------------
(* Alterations of a bundle, each of one field; the references fit the      *)
(* altered documents again unless a file is spoilt.                        *)

Drop(f, x) == [y \in DOMAIN f \ {x} |-> f[y]]

AlteredManifest(b) ==
  {[b EXCEPT !.dir = Other], [b EXCEPT !.id = Other], [b EXCEPT !.commit = Other],
   [b EXCEPT !.hashed.requirements = Other]}
  \cup {[b EXCEPT !.grid = @ \ {g}] : g \in b.grid}
  \cup {[b EXCEPT !.metrics[g] = @ - 1] : g \in DOMAIN b.metrics}
  \cup {[b EXCEPT !.counts = Drop(@, i)] : i \in DOMAIN b.counts}
  \cup {[b EXCEPT !.identities = Drop(@, c)] : c \in DOMAIN b.identities}
  \cup {[b EXCEPT !.identities[c].content = Other] : c \in DOMAIN b.identities}
  \cup {[b EXCEPT !.identities[c].definition = Other] : c \in DOMAIN b.identities}

AlteredCatalog(b) ==
  LET cases == DOMAIN b.catalog.cases IN
  {[b EXCEPT !.catalog.campaign = Other], [b EXCEPT !.catalog.requirements = Other]}
  \cup {[b EXCEPT !.catalog.cases = Drop(@, c)] : c \in cases}
  \cup {[b EXCEPT !.catalog.cases[c].content = Other] : c \in cases}
  \cup {[b EXCEPT !.catalog.cases[c].definition = Other] : c \in cases}
  \cup {[b EXCEPT !.catalog.cases[c].declared = Other] : c \in cases}
  \cup {[b EXCEPT !.catalog.cases[c].link = Other] : c \in cases}

AlteredVerdicts(b) ==
  {[b EXCEPT !.verdicts.campaign = Other]}
  \cup {[b EXCEPT !.verdicts.rows = Drop(@, c)] : c \in VerdictRows(b)}
  \cup {[b EXCEPT !.verdicts.rows[x[1]].href = x[2]]
          : x \in VerdictRows(b) \X (DOMAIN b.shards)}
  \cup {[b EXCEPT !.verdicts.rows[x[1]].results = Drop(@, x[2])]
          : x \in VerdictCoordinates(b)}
  \cup {[b EXCEPT !.verdicts.rows[x[1]].results[x[2]] = Opposite(@)]
          : x \in VerdictCoordinates(b)}

\* Evidence of a case, in shard i, is copied to shard j, or lost.
WithEvidence(b, i, c) ==
  {x \in DOMAIN b.shards[i].results : x[1] = c}
Copied(b, i, j, c) ==
  [b EXCEPT !.shards[j].cases = @ \cup {c},
            !.shards[j].results = [x \in DOMAIN @ \cup WithEvidence(b, i, c) |->
               IF x \in DOMAIN @ THEN @[x] ELSE b.shards[i].results[x]]]
Lost(b, i, c) ==
  [b EXCEPT !.shards[i].cases = @ \ {c},
            !.shards[i].results = [x \in DOMAIN @ \ WithEvidence(b, i, c) |-> @[x]]]

AlteredShard(b, i) ==
  LET given == DOMAIN b.shards[i].results
      others == (DOMAIN b.shards) \ {i} IN
  {[b EXCEPT !.shards[i].campaign = Other]}
  \cup {Lost(b, i, c) : c \in b.shards[i].cases}
  \cup {Copied(b, i, x[1], x[2]) : x \in others \X b.shards[i].cases}
  \cup {Lost(Copied(b, i, x[1], x[2]), i, x[2]) : x \in others \X b.shards[i].cases}
  \cup {[b EXCEPT !.shards[i].results = Drop(@, x)] : x \in given}
  \cup {[b EXCEPT !.shards[i].results[x].target = Other] : x \in given}
  \cup {[b EXCEPT !.shards[i].results[x].judgment = Opposite(@)] : x \in given}
  \cup {[b EXCEPT !.shards[i].results[x].judgment = Opposite(@),
                  !.shards[i].results[x].observed = Opposite(@)] : x \in given}

AlteredFiles(b) ==
  {[b EXCEPT !.files = @ \cup {Stray}]}
  \cup {[b EXCEPT !.files = @ \ {f}] : f \in b.files}
  \cup {[b EXCEPT !.stale = @ \cup {f}] : f \in b.files}

\* All that the manifest derives from the documents is derived again.
Rederived(b) ==
  [b EXCEPT
    !.total = <<Cardinality(DOMAIN b.identities),
                Cardinality(DOMAIN b.identities) * Cardinality(b.grid)>>,
    !.counts = [i \in DOMAIN @ |-> Counts(b.shards[i])],
    !.hashed = [cases |-> [c \in DOMAIN b.identities |-> b.identities[c].content],
                requirements |-> b.catalog.requirements,
                selection |-> <<DOMAIN b.identities, b.grid>>],
    !.metrics = [g \in b.grid |-> Passed(b, g)]]

Altered(b) ==
  {Rederived(b)} \cup AlteredManifest(b) \cup AlteredCatalog(b) \cup AlteredVerdicts(b)
  \cup AlteredFiles(b) \cup (UNION {AlteredShard(b, i) : i \in DOMAIN b.shards})

-----------------------------------------------------------------------------
BundleInit == Init /\ bundle = NoBundle /\ alterations = 0

Packing == Next /\ UNCHANGED <<bundle, alterations>>

\* A campaign that is no full grid makes the export raise.
Export ==
  /\ packed = N /\ Pending = 0 /\ bundle = NoBundle
  /\ bundle' = IF Valid(Written) THEN Written ELSE [state |-> "refused"]
  /\ UNCHANGED <<vars, alterations>>

Alter ==
  /\ bundle.state = "kept" /\ input \in AlteredInputs
  /\ alterations < MaxAlterations /\ alterations' = alterations + 1
  /\ bundle' \in Altered(bundle) /\ UNCHANGED vars

BundleNext == Packing \/ Export \/ Alter

BundleSpec == BundleInit /\ [][BundleNext]_<<vars, bundle, alterations>>

-----------------------------------------------------------------------------
(* Properties. *)

\* An export of a full grid of results is never refused by the validation it
\* ends with, however the cases fell into shards (bundle.py:490).
ExportValidates ==
  bundle.state = "refused" => \E c \in Cases : 1..CaseResults(c) # Grid

\* The two checkers of a bundle were written apart and check different things
\* in different order.  What the publisher's accepts, a replay of any result
\* of the campaign accepts too, from wherever it is read, and the dashboard
\* shows (bundle.py:535, reproduce.py:187, useDashboard.ts:435).
ValidBundlesReplay ==
  bundle.state = "kept" => (Valid(bundle) =>
    \A c \in DOMAIN bundle.identities :
      /\ Shown(bundle, c)
      /\ \A g \in bundle.grid, l \in Locations : Replayable(bundle, l, c, g))

\* One fault in a bundle may make a replay fail but not answer anything else
\* than what was exported: a judgment or a definition that is altered alone, in
\* any document, contradicts another one (reproduce.py:328).
OneFaultNeverMisleads ==
  bundle.state = "kept" /\ alterations <= 1 =>
    \A c \in VerdictRows(bundle) \cap Cases, g \in Grid, l \in Locations :
      Replayable(bundle, l, c, g) =>
        /\ Judged(bundle, <<c, g>>) = Result
        /\ bundle.catalog.cases[c] = Entry

=============================================================================
