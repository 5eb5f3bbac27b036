-------------------------- MODULE DashboardClient --------------------------
(***************************************************************************)
(* The dashboard's loading hook and the evidence section of a case card    *)
(* (useDashboard.ts, EvidenceView.tsx) against a site that is redeployed   *)
(* while they load.  Responses come in any order and may fail; the user    *)
(* changes the selection and the view meanwhile.                           *)
(*                                                                         *)
(* A campaign's documents on the site are of one revision, which is their  *)
(* content and hash: a manifest expects documents of its own revision.     *)
(* Catalog and verdicts, fetched side by side, are one document, the body. *)
(* The date filters and the limits on bytes are left out.                  *)
(***************************************************************************)
EXTENDS Integers, Sequences, FiniteSets

CONSTANTS
  Site,        \* for each version of the site, revisions of its campaigns
  History,     \* all campaigns, oldest first
  Signature,   \* for each campaign, what makes it comparable
  Opened,      \* BOUND: site and choice a page is opened with
  MaxEntries,  \* MAX_CACHE_ENTRIES
  MaxPromises, \* BOUND: loads, and fetches, alive at once
  MaxTasks,    \* BOUND: selections loading at once
  MaxChoices,  \* BOUND: choices of the user
  MaxMishaps   \* BOUND: redeployments and failed fetches

Versions == DOMAIN Site
Campaigns == {History[i] : i \in DOMAIN History}
None == "none"
Unreferenced == 0      \* no hash is expected

ASSUME DashboardClientAssumption ==
  /\ \A v \in Versions : DOMAIN Site[v] \subseteq Campaigns
  /\ \A v \in Versions : v \in Nat /\ \A c \in DOMAIN Site[v] : Site[v][c] \in Nat \ {0}
  /\ None \notin Campaigns /\ DOMAIN Signature = Campaigns
  /\ \A o \in Opened : o[1] \in Versions /\ {o[2].detail, o[2].comparison} \subseteq BOOLEAN
  /\ {MaxEntries, MaxPromises, MaxTasks, MaxChoices, MaxMishaps} \subseteq Nat
  /\ MaxEntries > 0 /\ MaxPromises > 0 /\ History \in Seq(Campaigns)

VARIABLES
  site,       \* the version deployed
  bytes,      \* byteCache, oldest entry first: url and fetch
  validated,  \* validatedCache, likewise: url and expected hash, and load
  fetches, loads,  \* the promises, by id
  core,       \* versions of index and trends: loading, loaded or failed
  choice,     \* what the user asks for: campaign, detail, comparison
  effect,     \* what the last effect ran for
  tasks,      \* loading selections
  selection, selectionError, loading,
  card,       \* the evidence section of a case of the shown campaign
  choices, mishaps

caches == <<bytes, validated, fetches, loads>>
hook == <<core, effect, tasks, selection, selectionError, loading>>
vars == <<site, caches, choice, hook, card, choices, mishaps>>

Ids == 1..MaxPromises
NoFetch == [url |-> <<>>, state |-> "none", holds |-> 0]
NoLoad == [url |-> <<>>, expected |-> 0, fetch |-> 0, state |-> "none", holds |-> 0]
NoTask == [step |-> "none", id |-> None, active |-> FALSE, comparison |-> FALSE,
           load |-> 0, manifest |-> 0, other |-> None, body |-> 0,
           otherManifest |-> 0]
NoSelection == [id |-> None, manifest |-> 0, body |-> 0, other |-> None,
                otherManifest |-> 0, otherBody |-> 0]
NoCard == [requested |-> FALSE, load |-> 0, evidence |-> 0, error |-> FALSE]
NoEffect == [core |-> FALSE, id |-> None, detail |-> FALSE, comparison |-> FALSE]
Choices == [campaign : Campaigns \cup {None}, detail : BOOLEAN, comparison : BOOLEAN]

Index == <<"index">>
Trends == <<"trends">>
Manifest(c) == <<"manifest", c>>
Body(c) == <<"body", c>>
Evidence(c) == <<"evidence", c>>

-----------------------------------------------------------------------------
(* fetchResource and fetchBytes: their lookups run before any await.       *)

\* remember: insertion order, the oldest goes.
Remember(cache, entry) ==
  LET q == Append(cache, entry)
  IN SubSeq(q, IF Len(q) > MaxEntries THEN 2 ELSE 1, Len(q))
Entries(cache) == {cache[i] : i \in DOMAIN cache}
Known(cache, key) == {e \in Entries(cache) : e.key = key}

\* Map.delete: a key has one entry, since only what is not known is remembered.
Forget(cache, key) ==
  LET i == CHOOSE i \in DOMAIN cache : cache[i].key = key
  IN IF Known(cache, key) = {} THEN cache
     ELSE SubSeq(cache, 1, i - 1) \o SubSeq(cache, i + 1, Len(cache))

\* Promises nothing refers to any more can be taken again.
FreeLoads ==
  {l \in Ids : /\ loads[l].state # "pending" /\ l # core.load /\ l # card.load
               /\ \A e \in Entries(validated) : e.promise # l
               /\ \A t \in 1..MaxTasks : tasks[t].load # l}
FreeFetches ==
  {f \in Ids : /\ fetches[f].state # "pending"
               /\ \A e \in Entries(bytes) : e.promise # f
               /\ \A l \in Ids : loads[l].state = "pending" => loads[l].fetch # f}
Least(S) == CHOOSE x \in S : \A y \in S : x <= y

\* Mutant of Key: the expected hash is not part of it.
KeyOfUrl(url, expected) == <<url, Unreferenced>>

Key(url, expected) == <<url, expected>>

Promise(known) == (CHOOSE e \in known : TRUE).promise

\* The load a call awaits: the cached one or a new one.
LoadOf(url, expected) ==
  LET known == Known(validated, Key(url, expected))
  IN IF known # {} THEN Promise(known) ELSE Least(FreeLoads)

Await(url, expected) ==
  /\ FreeLoads # {} /\ FreeFetches # {}
  /\ IF Known(validated, Key(url, expected)) # {} THEN UNCHANGED caches
     ELSE LET had == Known(bytes, url)
              f == IF had # {} THEN Promise(had) ELSE Least(FreeFetches)
              l == LoadOf(url, expected)
          IN /\ IF had # {} THEN UNCHANGED <<fetches, bytes>>
                ELSE /\ fetches' = [fetches EXCEPT ![f] =
                          [url |-> url, state |-> "pending", holds |-> 0]]
                     /\ bytes' = Remember(bytes, [key |-> url, promise |-> f])
             /\ loads' = [loads EXCEPT ![l] =
                  [url |-> url, expected |-> expected, fetch |-> f,
                   state |-> "pending", holds |-> 0]]
             /\ validated' = Remember(validated,
                  [key |-> Key(url, expected), promise |-> l])

IsCore(url) == Len(url) = 1
Exists(url) == IF IsCore(url) THEN TRUE ELSE url[2] \in DOMAIN Site[site]
Content(url) == IF IsCore(url) THEN site ELSE Site[site][url[2]]

\* The response has come, with what the site holds by now.
FetchOk(f) ==
  /\ fetches[f].state = "pending" /\ Exists(fetches[f].url)
  /\ fetches' = [fetches EXCEPT ![f] =
       [url |-> <<>>, state |-> "ok", holds |-> Content(fetches[f].url)]]
  /\ UNCHANGED <<site, bytes, validated, loads, choice, hook, card, choices, mishaps>>

\* A failed fetch is forgotten by its address.
FetchFails(f) ==
  /\ fetches[f].state = "pending"
  /\ IF Exists(fetches[f].url) THEN mishaps < MaxMishaps /\ mishaps' = mishaps + 1
     ELSE UNCHANGED mishaps
  /\ fetches' = [fetches EXCEPT ![f] = [NoFetch EXCEPT !.state = "failed"]]
  /\ bytes' = Forget(bytes, fetches[f].url)
  /\ UNCHANGED <<site, validated, loads, choice, hook, card, choices>>

\* Size and hash are checked against the reference, if there is one.  A
\* rejected load is forgotten by its key; its bytes stay.
LoadSettles(l) ==
  /\ loads[l].state = "pending" /\ fetches[loads[l].fetch].state # "pending"
  /\ LET f == fetches[loads[l].fetch]
         good == f.state = "ok" /\ loads[l].expected \in {Unreferenced, f.holds}
     IN /\ loads' = [loads EXCEPT ![l] =
                      IF good THEN [NoLoad EXCEPT !.state = "ok", !.holds = f.holds]
                      ELSE [NoLoad EXCEPT !.state = "failed"]]
        /\ validated' = IF good THEN validated
             ELSE Forget(validated, Key(loads[l].url, loads[l].expected))
  /\ UNCHANGED <<site, bytes, fetches, choice, hook, card, choices, mishaps>>

Settled(l) == l # 0 /\ loads[l].state \in {"ok", "failed"}
Good(l) == loads[l].state = "ok"

-----------------------------------------------------------------------------
(* The hook. *)

Listed(v) == DOMAIN Site[v]
\* Trends keep the campaigns whose details are gone.
Recorded(v) == UNION {Listed(w) : w \in {x \in Versions : x <= v}}
Newest(S) == IF S = {} THEN None
  ELSE History[CHOOSE i \in DOMAIN History :
                 History[i] \in S /\ \A j \in DOMAIN History : History[j] \in S => j <= i]
Before(c) == {History[j] : j \in {k \in DOMAIN History :
                                   \E i \in DOMAIN History : History[i] = c /\ k < i}}
Available == Listed(core.index) \cap Recorded(core.trends)

\* selectedId: what is asked for if the index has it, the newest otherwise
\* only if nothing is asked for.
SelectedId ==
  IF core.step # "loaded" THEN None
  ELSE IF choice.campaign = None THEN Newest(Available)
  ELSE IF choice.campaign \in Listed(core.index) THEN choice.campaign ELSE None

Previous(c) ==
  Newest({d \in Available \cap Before(c) : Signature[d] = Signature[c]})

\* currentSelection.
Dataset == IF choice.detail /\ selection.id = SelectedId THEN selection ELSE NoSelection

\* Cards live only below a dataset.
KeepCard == card' = IF Dataset' = NoSelection THEN NoCard ELSE card

Init ==
  /\ \E opened \in Opened : site = opened[1] /\ choice = opened[2]
  /\ core = [step |-> "index", load |-> 1, index |-> 0, trends |-> 0]
  /\ fetches = [f \in Ids |-> IF f = 1
       THEN [url |-> Index, state |-> "pending", holds |-> 0] ELSE NoFetch]
  /\ loads = [l \in Ids |-> IF l = 1
       THEN [NoLoad EXCEPT !.url = Index, !.fetch = 1, !.state = "pending"] ELSE NoLoad]
  /\ bytes = <<[key |-> Index, promise |-> 1]>>
  /\ validated = <<[key |-> Key(Index, Unreferenced), promise |-> 1]>>
  /\ effect = NoEffect /\ tasks = [t \in 1..MaxTasks |-> NoTask]
  /\ selection = NoSelection /\ selectionError = FALSE /\ loading = FALSE
  /\ card = NoCard /\ choices = 0 /\ mishaps = 0

\* The index, then the trends it names.
CoreStep ==
  /\ core.step \in {"index", "trends"} /\ Settled(core.load)
  /\ UNCHANGED <<site, choice, effect, tasks, selection, selectionError, loading,
                 card, choices, mishaps>>
  /\ \/ /\ ~Good(core.load)
        /\ core' = [core EXCEPT !.step = "failed", !.load = 0] /\ UNCHANGED caches
     \/ /\ Good(core.load) /\ core.step = "index"
        /\ Await(Trends, Unreferenced)
        /\ core' = [core EXCEPT !.step = "trends", !.index = loads[core.load].holds,
                                !.load = LoadOf(Trends, Unreferenced)]
     \/ /\ Good(core.load) /\ core.step = "trends"
        /\ core' = [core EXCEPT !.step = "loaded", !.load = 0,
                                !.trends = loads[core.load].holds]
        /\ UNCHANGED caches

Choose ==
  /\ choices < MaxChoices /\ choices' = choices + 1
  /\ choice' \in Choices \ {choice} /\ UNCHANGED <<site, caches, hook, mishaps>>
  /\ KeepCard

Wanted == [core |-> core.step = "loaded", id |-> SelectedId,
           detail |-> choice.detail, comparison |-> choice.comparison]

Cancelled == [t \in 1..MaxTasks |-> [tasks[t] EXCEPT !.active = FALSE]]
Idle == {t \in 1..MaxTasks : tasks[t].step = "none"}

\* Mutant of Nothing: only the selection and its error are reset.
NothingButLoading == selectionError' = FALSE /\ UNCHANGED <<loading, caches>>

\* Nothing to load.
Nothing == selectionError' = FALSE /\ loading' = FALSE /\ UNCHANGED caches

\* The effect of a changed dependency: the last one's cleanup, then its own.
Effect ==
  /\ effect # Wanted /\ effect' = Wanted
  /\ selection' = NoSelection /\ card' = NoCard
  /\ IF SelectedId = None \/ ~choice.detail
     THEN Nothing /\ tasks' = Cancelled
     ELSE /\ selectionError' = FALSE /\ loading' = TRUE
          /\ Idle # {} /\ Await(Manifest(SelectedId), Unreferenced)
          /\ tasks' = [Cancelled EXCEPT ![Least(Idle)] =
               [NoTask EXCEPT !.step = "manifest", !.id = SelectedId, !.active = TRUE,
                 !.comparison = choice.comparison,
                 !.load = LoadOf(Manifest(SelectedId), Unreferenced)]]
  /\ UNCHANGED <<site, choice, core, choices, mishaps>>

\* Mutant of Done: an old selection's answer is taken too.
DoneAnyway(t, found) ==
  /\ tasks' = [tasks EXCEPT ![t] = NoTask]
  /\ selection' = found /\ selectionError' = (found = NoSelection) /\ loading' = FALSE

\* What came of the task, if it is still wanted.
Done(t, found) ==
  /\ tasks' = [tasks EXCEPT ![t] = NoTask]
  /\ IF ~tasks[t].active THEN UNCHANGED <<selection, selectionError, loading>>
     ELSE /\ loading' = FALSE
          /\ IF found = NoSelection THEN selectionError' = TRUE /\ UNCHANGED selection
             ELSE selection' = found /\ UNCHANGED selectionError

\* The task goes on to await another document.
Continue(t, task, url, expected) ==
  /\ Await(url, expected)
  /\ tasks' = [tasks EXCEPT ![t] = [task EXCEPT !.load = LoadOf(url, expected)]]
  /\ UNCHANGED <<selection, selectionError, loading>>

\* loadManifest, loadCampaign and loadPreviousComparable, one await a step.
TaskStep(t) ==
  LET task == tasks[t]
      got == loads[task.load].holds
      previous == IF task.comparison THEN Previous(task.id) ELSE None
      found == [id |-> task.id, manifest |-> task.manifest, body |-> task.body,
                other |-> task.other, otherManifest |-> task.otherManifest,
                otherBody |-> 0]
  IN
  /\ task.step # "none" /\ Settled(task.load)
  /\ UNCHANGED <<site, choice, core, effect, card, choices, mishaps>>
  /\ \/ ~Good(task.load) /\ Done(t, NoSelection) /\ UNCHANGED caches
     \/ /\ Good(task.load) /\ task.step = "manifest"
        /\ Continue(t, [task EXCEPT !.step = "body", !.manifest = got],
                    Body(task.id), got)
     \/ /\ Good(task.load) /\ task.step = "body" /\ previous = None
        /\ Done(t, [found EXCEPT !.body = got]) /\ UNCHANGED caches
     \/ /\ Good(task.load) /\ task.step = "body" /\ previous # None
        /\ Continue(t, [task EXCEPT !.step = "otherManifest", !.body = got,
                                    !.other = previous],
                    Manifest(previous), Unreferenced)
     \/ /\ Good(task.load) /\ task.step = "otherManifest"
        /\ Continue(t, [task EXCEPT !.step = "otherBody", !.otherManifest = got],
                    Body(task.other), got)
     \/ /\ Good(task.load) /\ task.step = "otherBody"
        /\ Done(t, [found EXCEPT !.otherBody = got]) /\ UNCHANGED caches

-----------------------------------------------------------------------------
(* The evidence section of a card. *)

\* It is opened for the first time, or again after an error.
Open ==
  /\ Dataset # NoSelection /\ ~card.requested
  /\ choices < MaxChoices /\ choices' = choices + 1
  /\ Await(Evidence(selection.id), selection.manifest)
  /\ card' = [requested |-> TRUE, evidence |-> 0, error |-> FALSE,
              load |-> LoadOf(Evidence(selection.id), selection.manifest)]
  /\ UNCHANGED <<site, choice, hook, mishaps>>

Answer ==
  /\ card.requested /\ Settled(card.load)
  /\ card' = IF Good(card.load)
             THEN [card EXCEPT !.load = 0, !.evidence = loads[card.load].holds]
             ELSE [NoCard EXCEPT !.error = TRUE]
  /\ UNCHANGED <<site, caches, choice, hook, choices, mishaps>>

\* Another version is deployed, or an older one again.
Redeploy ==
  /\ mishaps < MaxMishaps /\ mishaps' = mishaps + 1
  /\ site' \in Versions \ {site}
  /\ UNCHANGED <<caches, choice, hook, card, choices>>

\* What the browser does by itself.
Browser ==
  \/ CoreStep \/ Effect \/ Answer
  \/ \E f \in Ids : FetchOk(f) \/ FetchFails(f)
  \/ \E l \in Ids : LoadSettles(l)
  \/ \E t \in 1..MaxTasks : TaskStep(t)

Next == Browser \/ Choose \/ Open \/ Redeploy

Spec == Init /\ [][Next]_vars

\* Fetches settle, and the event loop runs what is ready.
FairSpec == Spec /\ WF_vars(Browser)

-----------------------------------------------------------------------------
(* Properties. *)

\* What is shown together was exported together, whatever was deployed between
\* the requests: each campaign's catalog and verdicts, and the evidence opened
\* below it, are of its manifest's revision (useDashboard.ts:291, 435, 645).
ShownIsOneExport ==
  LET d == Dataset IN
  /\ d.body = d.manifest /\ d.otherBody = d.otherManifest
  /\ card.evidence # 0 => card.evidence = d.manifest

\* Once the effects have run, the page loads what the user asks for or shows
\* it, with the campaign to compare if that was asked for, or an error: an
\* answer to an earlier choice counts for nothing (useDashboard.ts:594-634).
AnswersTheChoice ==
  LET asked == SelectedId # None /\ choice.detail
      pending == \E t \in 1..MaxTasks : /\ tasks[t].active /\ tasks[t].id = SelectedId
                                        /\ tasks[t].comparison = choice.comparison
  IN effect = Wanted =>
     /\ loading <=> (asked /\ pending)
     /\ asked /\ ~loading =>
          \/ selectionError
          \/ /\ Dataset # NoSelection
             /\ Dataset.other = IF choice.comparison THEN Previous(SelectedId) ELSE None
     /\ ~asked => Dataset = NoSelection /\ ~selectionError

\* The page does not stay in "Loading campaign evidence" (App.tsx:653), nor the
\* card in "Loading detailed evidence" (EvidenceView.tsx:572).
LoadingEnds ==
  []<>(/\ core.step \in {"loaded", "failed"} /\ ~loading
       /\ (card.requested => card.evidence # 0))

=============================================================================
