------------------------ MODULE DashboardClientProofs ------------------------
(***************************************************************************)
(* Proofs about DashboardClient for any site, history, choices and number  *)
(* of promises, tasks, cache entries and mishaps.                          *)
(*                                                                         *)
(* Two facts carry them.  A promise answers what was asked of it for as    *)
(* long as anyone awaits it, whatever was forgotten, evicted or deployed   *)
(* meanwhile: Kept.  And the only task whose answer counts is that of the  *)
(* last effect: Current.                                                   *)
(***************************************************************************)
EXTENDS DashboardClient, SequenceTheorems, FiniteSetTheorems, TLAPS

Urls == {Index, Trends}
        \cup {<<k, c>> : k \in {"manifest", "body", "evidence"}, c \in Campaigns}
States == {"none", "pending", "ok", "failed"}
CampaignOrNone == Campaigns \cup {None}
Steps == {"manifest", "body", "otherManifest", "otherBody"}
Tasks == 1..MaxTasks

FetchRecords == [url : Urls \cup {<<>>}, state : States, holds : Nat]
LoadRecords == [url : Urls \cup {<<>>}, expected : Nat, fetch : 0..MaxPromises,
                state : States, holds : Nat]
TaskRecords == [step : Steps \cup {"none"}, id : CampaignOrNone, active : BOOLEAN,
                comparison : BOOLEAN, load : 0..MaxPromises, manifest : Nat,
                other : CampaignOrNone, body : Nat, otherManifest : Nat]
Selections == [id : CampaignOrNone, manifest : Nat, body : Nat,
               other : CampaignOrNone, otherManifest : Nat, otherBody : Nat]
Cores == [step : {"index", "trends", "loaded", "failed"}, load : 0..MaxPromises,
          index : Versions \cup {0}, trends : Versions \cup {0}]
Cards == [requested : BOOLEAN, load : 0..MaxPromises, evidence : Nat, error : BOOLEAN]
Effects == [core : BOOLEAN, id : CampaignOrNone, detail : BOOLEAN, comparison : BOOLEAN]
ByteEntries == [key : Urls, promise : Ids]
LoadEntries == [key : Urls \X Nat, promise : Ids]

CacheTypes ==
  /\ bytes \in Seq(ByteEntries) /\ validated \in Seq(LoadEntries)
  /\ fetches \in [Ids -> FetchRecords] /\ loads \in [Ids -> LoadRecords]

HookTypes ==
  /\ core \in Cores /\ effect \in Effects /\ tasks \in [Tasks -> TaskRecords]
  /\ selection \in Selections /\ {selectionError, loading} \subseteq BOOLEAN

\* An asked-for campaign may be unknown: it comes from the address.
TypeOK ==
  /\ site \in Versions /\ CacheTypes /\ HookTypes /\ card \in Cards
  /\ {choice.detail, choice.comparison} \subseteq BOOLEAN
  /\ {choices, mishaps} \subseteq Nat

\* Some version of the site has it.
Answers(url, holds) ==
  \E v \in Versions :
    IF IsCore(url) THEN holds = v ELSE url[2] \in DOMAIN Site[v] /\ holds = Site[v][url[2]]

Fetched(f, url) ==
  /\ f \in Ids /\ fetches[f].state # "none"
  /\ fetches[f].state = "pending" => fetches[f].url = url
  /\ fetches[f].state = "ok" => Answers(url, fetches[f].holds)

Awaited(l, url, expected) ==
  /\ l \in Ids /\ loads[l].state # "none"
  /\ loads[l].state = "pending" => loads[l].url = url /\ loads[l].expected = expected
  /\ loads[l].state = "ok" => /\ Answers(url, loads[l].holds)
                              /\ expected \in {Unreferenced, loads[l].holds}

FetchesKept ==
  /\ \A e \in Entries(bytes) : Fetched(e.promise, e.key)
  /\ \A l \in Ids : loads[l].state = "pending" =>
       loads[l].url \in Urls /\ Fetched(loads[l].fetch, loads[l].url)
LoadsKept ==
  \A e \in Entries(validated) : Awaited(e.promise, e.key[1], e.key[2])

\* What a task waits for, and what it may have gathered by then.
UrlOf(task) ==
  CASE task.step = "manifest" -> Manifest(task.id)
    [] task.step = "body" -> Body(task.id)
    [] task.step = "otherManifest" -> Manifest(task.other)
    [] task.step = "otherBody" -> Body(task.other)
ExpectedOf(task) ==
  CASE task.step \in {"manifest", "otherManifest"} -> Unreferenced
    [] task.step = "body" -> task.manifest
    [] task.step = "otherBody" -> task.otherManifest
Gathered(task) ==
  /\ task.id \in Campaigns
  /\ task.step # "manifest" => task.manifest # 0
  /\ task.step \in {"manifest", "body"} => task.other = None /\ task.otherManifest = 0
  /\ task.step \in {"otherManifest", "otherBody"} =>
       task.body = task.manifest /\ task.other \in Campaigns
  /\ task.step = "otherManifest" => task.otherManifest = 0
  /\ task.step = "otherBody" => task.otherManifest # 0

CoreKept ==
  /\ core.step \in {"index", "trends"} =>
       Awaited(core.load, IF core.step = "index" THEN Index ELSE Trends, Unreferenced)
  /\ core.step \in {"trends", "loaded"} => core.index \in Versions
  /\ core.step = "loaded" => core.trends \in Versions
TasksKept ==
  \A t \in Tasks :
    /\ tasks[t].step = "none" => tasks[t] = NoTask
    /\ tasks[t].step # "none" =>
         Gathered(tasks[t]) /\ Awaited(tasks[t].load, UrlOf(tasks[t]), ExpectedOf(tasks[t]))
SelectionKept ==
  /\ selection.body = selection.manifest /\ selection.otherBody = selection.otherManifest
  /\ selection # NoSelection => selection.id \in Campaigns /\ selection.manifest # 0
CardKept ==
  /\ card # NoCard => Dataset # NoSelection
  /\ card.load # 0 => Awaited(card.load, Evidence(selection.id), selection.manifest)
  /\ card.evidence # 0 => card.evidence = selection.manifest

Kept == FetchesKept /\ LoadsKept /\ CoreKept /\ TasksKept /\ SelectionKept /\ CardKept

\* What the last effect was for.
Asked == effect.id # None /\ effect.detail
ForComparison == IF effect.comparison THEN Previous(effect.id) ELSE None

Current ==
  /\ Asked => core.step = "loaded"
  /\ \A t \in Tasks : tasks[t].step # "none" => core.step = "loaded"
  /\ \A t \in Tasks : tasks[t].active =>
       /\ tasks[t].step # "none" /\ Asked
       /\ tasks[t].id = effect.id /\ tasks[t].comparison = effect.comparison
  /\ \A t \in Tasks : tasks[t].step \in {"otherManifest", "otherBody"} =>
       /\ tasks[t].comparison /\ tasks[t].other = Previous(tasks[t].id)
  /\ \A t, u \in Tasks : tasks[t].active /\ tasks[u].active => t = u
  /\ loading <=> \E t \in Tasks : tasks[t].active
  /\ loading => selection = NoSelection /\ ~selectionError
  /\ ~Asked => selection = NoSelection /\ ~selectionError
  /\ Asked /\ ~loading => selectionError \/ selection # NoSelection
  /\ selection # NoSelection => /\ selection.id = effect.id
                                /\ selection.other = ForComparison

IInv == TypeOK /\ Kept /\ Current

-----------------------------------------------------------------------------
(* The operators. *)

\* The down-sets of a finite set of integers are ordered by inclusion.
LEMMA FiniteHasLeast ==
  ASSUME NEW S \in SUBSET Int, IsFiniteSet(S), S # {}
  PROVE  \E x \in S : \A y \in S : x <= y
<1> DEFINE Below(x) == {y \in S : y < x}
           D == {Below(x) : x \in S}
           R == StrictSubsetOrdering(S)
<1>1. D \subseteq FiniteSubsetsOf(S) /\ D # {}
  <2>1. \A x \in S : Below(x) \in SUBSET S /\ IsFiniteSet(Below(x))
    <3>1. \A T \in SUBSET S : IsFiniteSet(T)
      BY FS_Subset
    <3> QED
      BY <3>1
  <2> QED
    BY <2>1 DEF FiniteSubsetsOf
<1>2. IsWellFoundedOn(R, FiniteSubsetsOf(S))
  BY FS_StrictSubsetOrderingWellFounded
<1>3. PICK d \in D : \A e \in D : ~ (<<e, d>> \in R)
  <2> HIDE DEF D, R
  <2> QED
    BY <1>1, <1>2, WFMin
<1>4. PICK x \in S : d = Below(x)
  BY <1>3
<1>5. ASSUME NEW y \in S, y < x
      PROVE  FALSE
  <2>1. Below(y) \subseteq Below(x) /\ y \in Below(x) /\ y \notin Below(y)
    <3>1. x \in Int /\ y \in Int /\ \A z \in S : z \in Int /\ (z < y => z < x) /\ ~ (y < y)
      BY <1>5
    <3> QED
      BY <1>5, <3>1
  <2>2. Below(y) \in D /\ <<Below(y), d>> \in R
    BY <1>4, <2>1 DEF StrictSubsetOrdering
  <2> QED
    BY <1>3, <2>2
<1> QED
  BY <1>5

LEMMA LeastIsMember ==
  ASSUME NEW n \in Nat, NEW S \in SUBSET (1..n), S # {}
  PROVE  Least(S) \in S
<1>1. IsFiniteSet(1..n) /\ S \in SUBSET Int
  BY FS_Interval
<1>2. IsFiniteSet(S)
  BY <1>1, FS_Subset
<1> QED
  BY <1>1, <1>2, FiniteHasLeast DEF Least

LEMMA BoundedHasGreatest ==
  ASSUME NEW n \in Nat, NEW S \in SUBSET (1..n), S # {}
  PROVE  \E i \in S : \A j \in S : j <= i
<1> DEFINE T == {n - i : i \in S}
<1>1. T # {} /\ T \subseteq 0..n /\ IsFiniteSet(0..n)
  <2>1. \A i \in S : n - i \in 0..n
    OBVIOUS
  <2>2. IsFiniteSet(0..n)
    BY FS_Interval
  <2> QED
    BY <2>1, <2>2
<1>2. IsFiniteSet(T) /\ T \in SUBSET Int
  BY <1>1, FS_Subset
<1>3. PICK x \in T : \A y \in T : x <= y
  <2> HIDE DEF T
  <2> QED
    BY <1>1, <1>2, FiniteHasLeast
<1>4. PICK i \in S : x = n - i
  BY <1>3
<1>5. ASSUME NEW j \in S
      PROVE  j <= i
  <2>1. n - j \in T
    OBVIOUS
  <2>2. n - i <= n - j /\ i \in Int /\ j \in Int
    BY <1>3, <1>4, <2>1
  <2> QED
    BY <2>2
<1> QED
  BY <1>5

\* The newest of some campaigns is one of them.
LEMMA NewestIsMember ==
  ASSUME NEW S \in SUBSET Campaigns
  PROVE  Newest(S) \in CampaignOrNone /\ (S # {} => Newest(S) \in S)
<1>1. CASE S = {}
  BY <1>1 DEF Newest, CampaignOrNone
<1>2. CASE S # {}
  <2> DEFINE I == {i \in DOMAIN History : History[i] \in S}
  <2>1. DOMAIN History = 1..Len(History) /\ Len(History) \in Nat
    BY DashboardClientAssumption, LenProperties
  <2>2. I # {} /\ I \in SUBSET (1..Len(History))
    BY <1>2, <2>1 DEF Campaigns
  <2>3. PICK i \in I : \A j \in I : j <= i
    BY <2>1, <2>2, BoundedHasGreatest
  <2>4. \E k \in DOMAIN History :
          History[k] \in S /\ \A j \in DOMAIN History : History[j] \in S => j <= k
    BY <2>3
  <2> QED
    BY <1>2, <2>4 DEF Newest, CampaignOrNone
<1> QED
  BY <1>1, <1>2

\* What is selected was exported, and nothing is before the page's core is there.
LEMMA SelectedIsListed ==
  ASSUME core \in Cores, CoreKept
  PROVE  /\ SelectedId \in CampaignOrNone /\ None \notin Campaigns
         /\ SelectedId # None => core.step = "loaded"
         /\ core.step = "loaded" => \A c : Previous(c) \in CampaignOrNone
<1>1. core.step = "loaded" => Available \subseteq Campaigns /\ Listed(core.index) \subseteq Campaigns
  BY DashboardClientAssumption DEF CoreKept, Available, Listed
<1>2. Available \subseteq Listed(core.index)
  BY DEF Available
<1>3. core.step = "loaded" => \A c : Previous(c) \in CampaignOrNone
  BY <1>1, NewestIsMember DEF Previous
<1> QED
  BY <1>1, <1>2, <1>3, NewestIsMember, DashboardClientAssumption DEF SelectedId, CampaignOrNone

\* Remembering adds one entry and may evict others.
LEMMA RememberAdds ==
  ASSUME NEW S, NEW cache \in Seq(S), NEW entry \in S
  PROVE  /\ Remember(cache, entry) \in Seq(S)
         /\ Entries(Remember(cache, entry)) \subseteq Entries(cache) \cup {entry}
<1> DEFINE q == Append(cache, entry)
           m == IF Len(q) > MaxEntries THEN 2 ELSE 1
<1>1. /\ q \in Seq(S) /\ Len(q) = Len(cache) + 1 /\ Len(cache) \in Nat
      /\ \A i \in 1..Len(q) : q[i] = IF i <= Len(cache) THEN cache[i] ELSE entry
  BY LenProperties
<1>2. m \in {1, 2} /\ Remember(cache, entry) = SubSeq(q, m, Len(q))
  BY DEF Remember
<1>3. \A i \in m..Len(q) : q[i] \in S
  BY <1>1, <1>2
<1>4. /\ SubSeq(q, m, Len(q)) \in Seq(S)
      /\ Len(SubSeq(q, m, Len(q))) = Len(q) - m + 1
      /\ \A i \in 1..(Len(q) - m + 1) : SubSeq(q, m, Len(q))[i] = q[m + i - 1]
  <2> HIDE DEF q, m
  <2>1. m \in Int /\ Len(q) \in Int /\ m <= Len(q) + 1
    BY <1>1, <1>2
  <2> QED
    BY <1>3, <2>1, SubSeqProperties
<1>5. \A e \in Entries(SubSeq(q, m, Len(q))) : e \in Entries(cache) \cup {entry}
  <2> HIDE DEF q, m
  <2> SUFFICES ASSUME NEW i \in 1..(Len(q) - m + 1)
               PROVE  SubSeq(q, m, Len(q))[i] \in Entries(cache) \cup {entry}
    BY <1>4, LenProperties DEF Entries
  <2>1. m + i - 1 \in 1..Len(q)
    BY <1>1, <1>2
  <2>2. SubSeq(q, m, Len(q))[i] = IF m + i - 1 <= Len(cache) THEN cache[m + i - 1] ELSE entry
    BY <1>1, <1>4, <2>1
  <2> QED
    <3>1. CASE m + i - 1 <= Len(cache)
      <4>1. m + i - 1 \in DOMAIN cache
        BY <1>1, <2>1, <3>1, LenProperties
      <4> QED
        BY <2>2, <3>1, <4>1 DEF Entries
    <3>2. CASE ~ (m + i - 1 <= Len(cache))
      BY <2>2, <3>2
    <3> QED
      BY <3>1, <3>2
<1> QED
  BY <1>2, <1>4, <1>5

\* Forgetting only removes.
LEMMA ForgetRemoves ==
  ASSUME NEW S, NEW cache \in Seq(S), NEW key
  PROVE  Forget(cache, key) \in Seq(S) /\ Entries(Forget(cache, key)) \subseteq Entries(cache)
<1>1. CASE Known(cache, key) = {}
  BY <1>1 DEF Forget
<1>2. CASE Known(cache, key) # {}
  <2>1. PICK n \in Nat : n = Len(cache) /\ DOMAIN cache = 1..n
    BY LenProperties
  <2>2. PICK i \in 1..n : i = CHOOSE k \in DOMAIN cache : cache[k].key = key
    BY <1>2, <2>1 DEF Known, Entries
  <2> DEFINE a == SubSeq(cache, 1, i - 1)
             b == SubSeq(cache, i + 1, n)
  <2>3. \A j \in 1..n : cache[j] \in S
    BY <2>1, ElementOfSeq
  <2>4. Forget(cache, key) = a \o b
    BY <1>2, <2>1, <2>2 DEF Forget
  <2>5. a \in Seq(S) /\ Len(a) = i - 1 /\ \A j \in 1..i - 1 : a[j] = cache[j]
    <3>1. 1 \in Int /\ i - 1 \in Int /\ \A j \in 1..i - 1 : cache[j] \in S
      BY <2>3
    <3> QED
      BY <3>1, SubSeqProperties
  <2>6. b \in Seq(S) /\ Len(b) = n - i /\ \A j \in 1..n - i : b[j] = cache[i + j]
    <3>1. i + 1 \in Int /\ n \in Int /\ \A j \in i + 1..n : cache[j] \in S
      BY <2>3
    <3>2. /\ b \in Seq(S) /\ Len(b) = IF i + 1 <= n THEN n - (i + 1) + 1 ELSE 0
          /\ \A j \in 1..n - (i + 1) + 1 : b[j] = cache[(i + 1) + j - 1]
      BY <3>1, SubSeqProperties
    <3>3. n - (i + 1) + 1 = n - i /\ \A j \in 1..n - i : (i + 1) + j - 1 = i + j
      OBVIOUS
    <3>4. i + 1 <= n \/ n - i = 0
      OBVIOUS
    <3> QED
      BY <3>2, <3>3, <3>4
  <2> HIDE DEF a, b
  <2>7. /\ a \o b \in Seq(S) /\ Len(a \o b) = n - 1
        /\ \A j \in 1..n - 1 : (a \o b)[j] = IF j <= i - 1 THEN a[j] ELSE b[j - (i - 1)]
    <3>1. (i - 1) + (n - i) = n - 1
      OBVIOUS
    <3>2. /\ a \o b \in Seq(S) /\ Len(a \o b) = Len(a) + Len(b)
          /\ \A j \in 1..Len(a) + Len(b) :
               (a \o b)[j] = IF j <= Len(a) THEN a[j] ELSE b[j - Len(a)]
      BY <2>5, <2>6, ConcatProperties
    <3> QED
      BY <2>5, <2>6, <3>1, <3>2
  <2>8. \A j \in 1..n - 1 : (a \o b)[j] \in {cache[k] : k \in 1..n}
    BY <2>5, <2>6, <2>7
  <2> QED
    BY <2>1, <2>4, <2>7, <2>8, LenProperties DEF Entries
<1> QED
  BY <1>1, <1>2

-----------------------------------------------------------------------------
(* What is selected and what precedes it depend on the page's core alone. *)

LEMMA SameCore ==
  ASSUME core' = core
  PROVE  Available' = Available /\ \A c : Previous(c)' = Previous(c)
<1>1. Available' = Available
  BY DEF Available, Listed, Recorded
<1>2. ASSUME NEW c
      PROVE  Previous(c)' = Previous(c)
  <2>1. {d \in Available' \cap Before(c) : Signature[d] = Signature[c]}
        = {d \in Available \cap Before(c) : Signature[d] = Signature[c]}
    BY <1>1
  <2> QED
    BY <2>1 DEF Previous
<1> QED
  BY <1>1, <1>2

LEMMA SameSelection ==
  ASSUME core' = core, choice' = choice
  PROVE  SelectedId' = SelectedId /\ (selection' = selection => Dataset' = Dataset)
<1>1. SelectedId' = SelectedId
  BY SameCore DEF SelectedId, Listed
<1> QED
  BY <1>1 DEF Dataset

-----------------------------------------------------------------------------
(* The caches and the promises. *)

CachesKept == CacheTypes /\ FetchesKept /\ LoadsKept

LEMMA NamesOfDocuments ==
  /\ Index \in Urls /\ Trends \in Urls /\ IsCore(Index) /\ IsCore(Trends)
  /\ \A c \in Campaigns :
       /\ {Manifest(c), Body(c), Evidence(c)} \subseteq Urls
       /\ ~IsCore(Manifest(c)) /\ ~IsCore(Body(c)) /\ ~IsCore(Evidence(c))
  BY DEF Urls, Index, Trends, Manifest, Body, Evidence, IsCore

\* An answer is a version, or a revision, which is never 0.
LEMMA AnswerIsNumber ==
  ASSUME NEW url, NEW holds, Answers(url, holds)
  PROVE  holds \in Nat /\ (IsCore(url) => holds \in Versions) /\ (~IsCore(url) => holds # 0)
  BY DashboardClientAssumption DEF Answers

LEMMA FetchOkKeepsCaches ==
  ASSUME TypeOK, CachesKept, NEW f \in Ids, FetchOk(f)
  PROVE  CachesKept'
<1>1. PICK h : h = Content(fetches[f].url)
  OBVIOUS
<1>2. Answers(fetches[f].url, h) /\ h \in Nat
  <2>1. Answers(fetches[f].url, h)
    BY <1>1 DEF FetchOk, Exists, Content, Answers, TypeOK
  <2> QED
    BY <2>1, AnswerIsNumber
<1>3. /\ fetches' = [fetches EXCEPT ![f] = [url |-> <<>>, state |-> "ok", holds |-> h]]
      /\ fetches[f].state = "pending" /\ UNCHANGED <<bytes, validated, loads>>
  BY <1>1 DEF FetchOk
<1>4. fetches' \in [Ids -> FetchRecords]
  <2>1. [url |-> <<>>, state |-> "ok", holds |-> h] \in FetchRecords
    BY <1>2 DEF FetchRecords, States
  <2> QED
    BY <1>3, <2>1 DEF CachesKept, CacheTypes
<1>5. \A g, url : Fetched(g, url) => Fetched(g, url)'
  BY <1>2, <1>3 DEF Fetched, CachesKept, CacheTypes, Answers
<1>6. UNCHANGED <<Entries(bytes), Entries(validated)>>
  BY <1>3 DEF Entries
<1> QED
  BY <1>3, <1>4, <1>5, <1>6 DEF CachesKept, CacheTypes, FetchesKept, LoadsKept, Awaited, Answers

LEMMA FetchFailsKeepsCaches ==
  ASSUME TypeOK, CachesKept, NEW f \in Ids, FetchFails(f)
  PROVE  CachesKept'
<1>1. /\ fetches' = [fetches EXCEPT ![f] = [NoFetch EXCEPT !.state = "failed"]]
      /\ fetches[f].state = "pending" /\ UNCHANGED <<validated, loads>>
      /\ bytes' = Forget(bytes, fetches[f].url)
  BY DEF FetchFails
<1>2. fetches' \in [Ids -> FetchRecords]
  <2>1. [NoFetch EXCEPT !.state = "failed"] \in FetchRecords
    BY DEF FetchRecords, States, NoFetch
  <2> QED
    BY <1>1, <2>1 DEF CachesKept, CacheTypes
<1>3. \A g, url : Fetched(g, url) => Fetched(g, url)'
  BY <1>1 DEF Fetched, CachesKept, CacheTypes, Answers, NoFetch
<1>4. bytes' \in Seq(ByteEntries) /\ Entries(bytes)' \subseteq Entries(bytes)
  <2>1. Entries(bytes)' = Entries(bytes')
    BY DEF Entries
  <2> QED
    BY <1>1, <2>1, ForgetRemoves DEF CachesKept, CacheTypes
<1>5. UNCHANGED Entries(validated)
  BY <1>1 DEF Entries
<1> QED
  BY <1>1, <1>2, <1>3, <1>4, <1>5
  DEF CachesKept, CacheTypes, FetchesKept, LoadsKept, Awaited, Answers

\* A load settles the way its fetch did, if that is what it expected.
LEMMA LoadSettlesKeepsCaches ==
  ASSUME CachesKept, NEW l \in Ids, LoadSettles(l)
  PROVE  CachesKept' /\ \A k, url, expected : Awaited(k, url, expected) => Awaited(k, url, expected)'
<1>1. PICK f \in Ids : f = loads[l].fetch
  BY DEF CachesKept, FetchesKept, Fetched, LoadSettles
<1>2. PICK load : load = IF /\ fetches[f].state = "ok"
                            /\ loads[l].expected \in {Unreferenced, fetches[f].holds}
                         THEN [NoLoad EXCEPT !.state = "ok", !.holds = fetches[f].holds]
                         ELSE [NoLoad EXCEPT !.state = "failed"]
  OBVIOUS
<1>3. /\ loads' = [loads EXCEPT ![l] = load] /\ loads[l].state = "pending"
      /\ UNCHANGED <<bytes, fetches>>
      /\ validated' \in {validated, Forget(validated, Key(loads[l].url, loads[l].expected))}
  BY <1>1, <1>2 DEF LoadSettles
<1>4. /\ load \in LoadRecords /\ load.state \in {"ok", "failed"}
      /\ load.state = "ok" => /\ Answers(loads[l].url, load.holds)
                              /\ loads[l].expected \in {Unreferenced, load.holds}
  <2>1. fetches[f] \in FetchRecords /\ Fetched(f, loads[l].url)
    BY <1>1, <1>3 DEF CachesKept, CacheTypes, FetchesKept
  <2>2. CASE /\ fetches[f].state = "ok"
             /\ loads[l].expected \in {Unreferenced, fetches[f].holds}
    <3>1. load = [NoLoad EXCEPT !.state = "ok", !.holds = fetches[f].holds]
      BY <1>2, <2>2
    <3>2. /\ load = [url |-> <<>>, expected |-> 0, fetch |-> 0, state |-> "ok",
                     holds |-> fetches[f].holds]
          /\ fetches[f].holds \in Nat
      BY <2>1, <3>1 DEF FetchRecords, NoLoad
    <3>3. load \in LoadRecords
      BY <3>2, DashboardClientAssumption DEF LoadRecords, States
    <3>4. Answers(loads[l].url, fetches[f].holds)
      BY <2>1, <2>2 DEF Fetched
    <3> QED
      BY <2>2, <3>2, <3>3, <3>4
  <2>3. CASE ~ (/\ fetches[f].state = "ok"
                /\ loads[l].expected \in {Unreferenced, fetches[f].holds})
    <3>1. load = [NoLoad EXCEPT !.state = "failed"]
      BY <1>2, <2>3
    <3> QED
      BY <3>1, DashboardClientAssumption DEF LoadRecords, States, NoLoad
  <2> QED
    BY <2>2, <2>3
<1>5. loads' \in [Ids -> LoadRecords]
  BY <1>3, <1>4 DEF CachesKept, CacheTypes
<1>6. \A k, url, expected : Awaited(k, url, expected) => Awaited(k, url, expected)'
  BY <1>3, <1>4 DEF Awaited, CachesKept, CacheTypes, Answers
<1>7. validated' \in Seq(LoadEntries) /\ Entries(validated)' \subseteq Entries(validated)
  <2>1. Entries(validated)' = Entries(validated')
    BY DEF Entries
  <2> QED
    BY <1>3, <2>1, ForgetRemoves DEF CachesKept, CacheTypes
<1>8. UNCHANGED Entries(bytes) /\ \A g, url : Fetched(g, url) => Fetched(g, url)'
  BY <1>3 DEF Entries, Fetched, Answers
<1>9. \A k \in Ids : loads'[k].state = "pending" => loads'[k] = loads[k] /\ loads[k].state = "pending"
  BY <1>3, <1>4 DEF CachesKept, CacheTypes
<1>10. FetchesKept'
  BY <1>8, <1>9 DEF CachesKept, FetchesKept
<1>11. LoadsKept'
  BY <1>6, <1>7 DEF CachesKept, LoadsKept
<1> QED
  BY <1>3, <1>5, <1>6, <1>7, <1>10, <1>11 DEF CachesKept, CacheTypes

\* Promises somebody still awaits are not free.
InUse(l) == l = core.load \/ l = card.load \/ \E t \in Tasks : tasks[t].load = l

\* The promise k a task waits for, and for what.
WaitsFor(task, k, u, e) == k = task.load /\ u = UrlOf(task) /\ e = ExpectedOf(task)

Pending(l, f, url) == loads[l].state = "pending" /\ loads[l].fetch = f /\ loads[l].url = url

\* A call finds a promise that answers it or makes one, and disturbs none that
\* is awaited.
LEMMA AwaitKeepsCaches ==
  ASSUME CachesKept, NEW url \in Urls, NEW expected \in Nat, Await(url, expected)
  PROVE  /\ CachesKept'
         /\ \E l \in Ids : l = LoadOf(url, expected) /\ Awaited(l, url, expected)'
         /\ \A k, u, e : Awaited(k, u, e) /\ InUse(k) => Awaited(k, u, e)'
<1> DEFINE known == Known(validated, Key(url, expected))
           had == Known(bytes, url)
<1>1. CASE known # {}
  <2>1. UNCHANGED caches /\ LoadOf(url, expected) = Promise(known)
    BY <1>1 DEF Await, LoadOf
  <2>2. PICK e \in known : e = CHOOSE x \in known : TRUE
    BY <1>1
  <2>3. e \in Entries(validated) /\ e.key = <<url, expected>> /\ Promise(known) = e.promise
    BY <2>2 DEF Known, Promise, Key
  <2>4. Awaited(e.promise, url, expected)
    BY <2>3 DEF CachesKept, LoadsKept
  <2>5. \A k, u, x : Awaited(k, u, x) => Awaited(k, u, x)'
    BY <2>1 DEF caches, Awaited, Answers
  <2>6. e.promise \in Ids
    BY <2>4 DEF Awaited
  <2>7. CachesKept'
    BY <2>1 DEF caches, CachesKept, CacheTypes, FetchesKept, LoadsKept, Fetched, Awaited,
                Answers, Entries
  <2> QED
    BY <2>1, <2>3, <2>4, <2>5, <2>6, <2>7
<1>2. CASE known = {}
  <2>1. PICK l \in Ids : l = LoadOf(url, expected) /\ l \in FreeLoads
    <3>1. FreeLoads \in SUBSET (1..MaxPromises) /\ FreeLoads # {}
      BY DEF FreeLoads, Await, Ids
    <3>2. Least(FreeLoads) \in FreeLoads
      BY <3>1, LeastIsMember, DashboardClientAssumption
    <3> QED
      BY <1>2, <3>2 DEF LoadOf, FreeLoads
  <2>2. PICK f \in Ids : f = IF had # {} THEN Promise(had) ELSE Least(FreeFetches)
    <3>1. FreeFetches \in SUBSET (1..MaxPromises) /\ FreeFetches # {}
      BY DEF FreeFetches, Await, Ids
    <3>2. Least(FreeFetches) \in Ids
      BY <3>1, LeastIsMember, DashboardClientAssumption DEF Ids
    <3>3. had # {} => Promise(had) \in Ids
      BY DEF Known, Promise, CachesKept, FetchesKept, Fetched
    <3> QED
      BY <3>2, <3>3
  <2>3. /\ IF had # {} THEN UNCHANGED <<fetches, bytes>>
           ELSE /\ fetches' = [fetches EXCEPT ![f] =
                                 [url |-> url, state |-> "pending", holds |-> 0]]
                /\ bytes' = Remember(bytes, [key |-> url, promise |-> f])
        /\ loads' = [loads EXCEPT ![l] = [url |-> url, expected |-> expected, fetch |-> f,
                                          state |-> "pending", holds |-> 0]]
        /\ validated' = Remember(validated, [key |-> <<url, expected>>, promise |-> l])
    BY <1>2, <2>1, <2>2 DEF Await, Key
  <2>4. /\ fetches' \in [Ids -> FetchRecords] /\ bytes' \in Seq(ByteEntries)
        /\ Fetched(f, url)' /\ \A e \in Entries(bytes') : Fetched(e.promise, e.key)'
        /\ \A k \in Ids : \A g, u : Pending(k, g, u) => Fetched(g, u)'
    <3>1. CASE had # {}
      <4>1. PICK e \in had : e = CHOOSE x \in had : TRUE
        BY <3>1
      <4>2. e \in Entries(bytes) /\ e.key = url /\ f = e.promise
        BY <2>2, <3>1, <4>1 DEF Known, Promise
      <4>3. UNCHANGED <<fetches, bytes>> /\ Fetched(f, url)
        BY <2>3, <3>1, <4>2 DEF CachesKept, FetchesKept
      <4>4. \A g, u : Fetched(g, u) => Fetched(g, u)'
        BY <4>3 DEF Fetched, Answers
      <4> QED
        BY <4>3, <4>4 DEF CachesKept, CacheTypes, FetchesKept, Pending
    <3>2. CASE had = {}
      <4>1. /\ f \in FreeFetches
            /\ fetches' = [fetches EXCEPT ![f] =
                 [url |-> url, state |-> "pending", holds |-> 0]]
            /\ bytes' = Remember(bytes, [key |-> url, promise |-> f])
        <5>1. FreeFetches \in SUBSET (1..MaxPromises) /\ FreeFetches # {}
          BY DEF FreeFetches, Await, Ids
        <5>2. Least(FreeFetches) \in FreeFetches
          BY <5>1, LeastIsMember, DashboardClientAssumption
        <5> QED
          BY <2>2, <2>3, <3>2, <5>2
      <4>2. fetches' \in [Ids -> FetchRecords]
        <5>1. [url |-> url, state |-> "pending", holds |-> 0] \in FetchRecords
          BY DEF FetchRecords, States
        <5> QED
          BY <4>1, <5>1 DEF CachesKept, CacheTypes
      <4>3. /\ bytes' \in Seq(ByteEntries)
            /\ Entries(bytes') \subseteq Entries(bytes) \cup {[key |-> url, promise |-> f]}
        <5>1. [key |-> url, promise |-> f] \in ByteEntries /\ bytes \in Seq(ByteEntries)
          BY DEF ByteEntries, CachesKept, CacheTypes
        <5> QED
          BY <4>1, <5>1, RememberAdds
      <4>4. \A g, u : Fetched(g, u) /\ g # f => Fetched(g, u)'
        BY <4>1 DEF Fetched, Answers, CachesKept, CacheTypes
      <4>5. Fetched(f, url)'
        BY <4>1 DEF Fetched, CachesKept, CacheTypes
      <4>6. \A e \in Entries(bytes) : Fetched(e.promise, e.key)'
        BY <4>1, <4>4 DEF FreeFetches, CachesKept, FetchesKept
      <4>7. \A k \in Ids : \A g, u : Pending(k, g, u) => Fetched(g, u)'
        BY <4>1, <4>4 DEF FreeFetches, CachesKept, FetchesKept, Pending
      <4> QED
        BY <4>2, <4>3, <4>5, <4>6, <4>7
    <3> QED
      BY <3>1, <3>2
  <2>5. /\ loads' \in [Ids -> LoadRecords] /\ Awaited(l, url, expected)'
        /\ \A k, u, x : Awaited(k, u, x) /\ k # l => Awaited(k, u, x)'
    <3>1. [url |-> url, expected |-> expected, fetch |-> f, state |-> "pending",
           holds |-> 0] \in LoadRecords
      BY DEF LoadRecords, States, Ids
    <3>2. loads' \in [Ids -> LoadRecords]
      BY <2>3, <3>1 DEF CachesKept, CacheTypes
    <3>3. Awaited(l, url, expected)'
      BY <2>3 DEF Awaited, CachesKept, CacheTypes
    <3>4. \A k, u, x : Awaited(k, u, x) /\ k # l => Awaited(k, u, x)'
      BY <2>3 DEF Awaited, Answers, CachesKept, CacheTypes
    <3> QED
      BY <3>2, <3>3, <3>4
  <2>6. FetchesKept'
    <3>1. \A e \in Entries(bytes)' : Fetched(e.promise, e.key)'
      BY <2>4 DEF Entries
    <3>2. ASSUME NEW k \in Ids, loads'[k].state = "pending"
          PROVE  /\ loads'[k].url \in Urls
                 /\ \E g, u : g = loads'[k].fetch /\ u = loads'[k].url /\ Fetched(g, u)'
      <4>1. CASE k = l
        <5>1. loads'[k].url = url /\ loads'[k].fetch = f
          BY <2>3, <4>1 DEF CachesKept, CacheTypes
        <5> QED
          BY <2>4, <5>1
      <4>2. CASE k # l
        <5>1. loads'[k] = loads[k]
          BY <2>3, <4>2 DEF CachesKept, CacheTypes
        <5> QED
          BY <2>4, <3>2, <5>1 DEF CachesKept, FetchesKept, Pending
      <4> QED
        BY <4>1, <4>2
    <3> QED
      BY <3>1, <3>2 DEF FetchesKept, Fetched
  <2>7. validated' \in Seq(LoadEntries) /\ LoadsKept'
    <3>1. PICK entry \in LoadEntries : entry = [key |-> <<url, expected>>, promise |-> l]
      BY DEF LoadEntries
    <3>2. validated' = Remember(validated, entry) /\ validated \in Seq(LoadEntries)
      BY <2>3, <3>1 DEF CachesKept, CacheTypes
    <3>3. /\ validated' \in Seq(LoadEntries)
          /\ Entries(validated') \subseteq Entries(validated) \cup {entry}
      BY <3>2, RememberAdds
    <3>4. \A e \in Entries(validated) : Awaited(e.promise, e.key[1], e.key[2])'
      BY <2>1, <2>5 DEF FreeLoads, CachesKept, LoadsKept
    <3>5. Awaited(entry.promise, entry.key[1], entry.key[2])'
      BY <2>5, <3>1
    <3> QED
      BY <3>3, <3>4, <3>5 DEF LoadsKept, Entries
  <2>8. \A k : InUse(k) => k # l
    BY <2>1 DEF FreeLoads, InUse, Tasks
  <2> QED
    BY <2>1, <2>4, <2>5, <2>6, <2>7, <2>8 DEF CachesKept, CacheTypes
<1> QED
  BY <1>1, <1>2

-----------------------------------------------------------------------------
(* The steps.  What was awaited goes on being awaited, and what an effect   *)
(* asked for stays comparable with the same campaign.                       *)

AwaitedOn == \A k, u, e : Awaited(k, u, e) /\ InUse(k) => Awaited(k, u, e)'

LEMMA NothingIsTyped ==
  /\ 0 \in 0..MaxPromises /\ Ids \subseteq 0..MaxPromises /\ 1 \in Ids /\ 0 \notin Ids
  /\ None \in CampaignOrNone /\ None \notin Campaigns /\ Campaigns \subseteq CampaignOrNone
  /\ NoCard \in Cards /\ NoTask \in TaskRecords /\ NoSelection \in Selections
  /\ NoEffect \in Effects
<1>1. /\ 0 \in 0..MaxPromises /\ Ids \subseteq 0..MaxPromises /\ 1 \in Ids /\ 0 \notin Ids
      /\ None \in CampaignOrNone /\ None \notin Campaigns /\ Campaigns \subseteq CampaignOrNone
  BY DashboardClientAssumption DEF Ids, CampaignOrNone
<1>2. NoCard \in Cards
  BY <1>1 DEF NoCard, Cards
<1>3. NoTask \in TaskRecords
  BY <1>1 DEF NoTask, TaskRecords
<1>4. NoSelection \in Selections
  BY <1>1 DEF NoSelection, Selections
<1>5. NoEffect \in Effects
  BY <1>1 DEF NoEffect, Effects
<1> QED
  BY <1>1, <1>2, <1>3, <1>4, <1>5

LEMMA SameComparison ==
  ASSUME UNCHANGED <<core, effect>>
  PROVE  ForComparison' = ForComparison
  BY SameCore DEF ForComparison

LEMMA UsersKept ==
  ASSUME Kept, UNCHANGED hook, AwaitedOn
  PROVE  CoreKept' /\ TasksKept' /\ SelectionKept'
<1>1. CoreKept'
  <2>1. \A k, u, e : Awaited(k, u, e) /\ k = core.load => Awaited(k, u, e)'
    BY DEF AwaitedOn, InUse
  <2> QED
    BY <2>1 DEF Kept, CoreKept, hook
<1>2. TasksKept'
  <2>1. ASSUME NEW t \in Tasks
        PROVE  \A u, e : Awaited(tasks[t].load, u, e) => \E k : k = tasks[t].load /\ Awaited(k, u, e)'
    BY DEF AwaitedOn, InUse
  <2> QED
    BY <2>1 DEF Kept, TasksKept, hook
<1>3. SelectionKept'
  BY DEF Kept, SelectionKept, hook
<1> QED
  BY <1>1, <1>2, <1>3

LEMMA CurrentKept ==
  ASSUME Current, UNCHANGED hook
  PROVE  Current'
<1>1. \A t \in Tasks : tasks[t].step \in {"otherManifest", "otherBody"} =>
        \E c : c = tasks[t].id /\ tasks[t].other = Previous(c)'
  BY SameCore DEF Current, hook
<1>2. ForComparison' = ForComparison
  BY SameComparison DEF hook
<1> QED
  BY <1>1, <1>2 DEF Current, Asked, hook

LEMMA PromisesMove ==
  ASSUME IInv, CachesKept', UNCHANGED <<choice, hook, card>>, AwaitedOn,
         site' \in Versions, {choices', mishaps'} \subseteq Nat
  PROVE  IInv'
<1>1. TypeOK'
  BY DEF IInv, TypeOK, HookTypes, hook, CachesKept
<1>2. Dataset' = Dataset
  BY SameSelection DEF hook
<1>3. CardKept'
  <2>1. card.load # 0 =>
          \E k, u, e : /\ k = card.load /\ u = Evidence(selection.id) /\ e = selection.manifest
                       /\ Awaited(k, u, e)'
    BY DEF IInv, Kept, CardKept, AwaitedOn, InUse
  <2> QED
    BY <1>2, <2>1 DEF IInv, Kept, CardKept, hook
<1>4. Kept'
  BY <1>3, UsersKept DEF IInv, Kept, CachesKept
<1>5. Current'
  BY <1>1, <1>2, CurrentKept DEF IInv
<1> QED
  BY <1>1, <1>4, <1>5 DEF IInv

LEMMA FetchesKeepIInv ==
  ASSUME IInv, NEW f \in Ids, FetchOk(f) \/ FetchFails(f)
  PROVE  IInv'
<1>1. CachesKept /\ TypeOK
  BY DEF IInv, Kept, TypeOK, CachesKept
<1>2. CachesKept'
  BY <1>1, FetchOkKeepsCaches, FetchFailsKeepsCaches
<1>3. /\ UNCHANGED <<choice, hook, card, choices, loads, site>> /\ mishaps' \in Nat
  BY <1>1 DEF FetchOk, FetchFails, TypeOK
<1>4. AwaitedOn
  BY <1>3 DEF AwaitedOn, Awaited, Answers
<1>5. site' \in Versions /\ choices' \in Nat
  BY <1>1, <1>3 DEF TypeOK
<1> QED
  BY <1>2, <1>3, <1>4, <1>5, PromisesMove

LEMMA LoadsKeepIInv ==
  ASSUME IInv, NEW l \in Ids, LoadSettles(l)
  PROVE  IInv'
<1>1. CachesKept /\ TypeOK
  BY DEF IInv, Kept, TypeOK, CachesKept
<1>2. CachesKept' /\ AwaitedOn
  BY <1>1, LoadSettlesKeepsCaches DEF AwaitedOn
<1>3. UNCHANGED <<choice, hook, card, choices, mishaps, site>>
  BY DEF LoadSettles
<1>4. site' \in Versions /\ {choices', mishaps'} \subseteq Nat
  BY <1>1, <1>3 DEF TypeOK
<1> QED
  BY <1>2, <1>3, <1>4, PromisesMove

LEMMA SameCaches ==
  ASSUME UNCHANGED caches
  PROVE  (CachesKept => CachesKept') /\ AwaitedOn
<1>1. \A k, u, e : Awaited(k, u, e) => Awaited(k, u, e)'
  BY DEF caches, Awaited, Answers
<1>2. \A f, u : Fetched(f, u) => Fetched(f, u)'
  BY DEF caches, Fetched, Answers
<1>3. UNCHANGED <<Entries(bytes), Entries(validated)>>
  BY DEF caches, Entries
<1> QED
  BY <1>1, <1>2, <1>3
  DEF AwaitedOn, caches, CachesKept, CacheTypes, FetchesKept, LoadsKept

LEMMA RedeployKeepsIInv ==
  ASSUME IInv, Redeploy
  PROVE  IInv'
<1>1. /\ UNCHANGED <<caches, choice, hook, card, choices>>
      /\ site' \in Versions /\ mishaps' = mishaps + 1
  BY DEF Redeploy
<1>2. CachesKept' /\ AwaitedOn
  BY <1>1, SameCaches DEF IInv, Kept, TypeOK, CachesKept
<1>3. {choices', mishaps'} \subseteq Nat
  BY <1>1 DEF IInv, TypeOK
<1> QED
  BY <1>1, <1>2, <1>3, PromisesMove

LEMMA AnswerKeepsIInv ==
  ASSUME IInv, Answer
  PROVE  IInv'
<1>1. /\ UNCHANGED <<site, caches, choice, hook, choices, mishaps>>
      /\ card' = IF Good(card.load)
                 THEN [card EXCEPT !.load = 0, !.evidence = loads[card.load].holds]
                 ELSE [NoCard EXCEPT !.error = TRUE]
      /\ card.load # 0 /\ card # NoCard
  BY DEF Answer, Settled, NoCard
<1>2. CachesKept' /\ AwaitedOn
  BY <1>1, SameCaches DEF IInv, Kept, TypeOK, CachesKept
<1>3. PICK m \in Nat : m = selection.manifest
  BY DEF IInv, TypeOK, HookTypes, Selections
<1>4. m # 0 /\ Awaited(card.load, Evidence(selection.id), m) /\ Dataset # NoSelection
  BY <1>1, <1>3 DEF IInv, Kept, CardKept, SelectionKept, Dataset
<1>5. Good(card.load) => loads[card.load].holds = m
  BY <1>4 DEF Awaited, Good, Unreferenced
<1>6. card' \in Cards /\ card'.load = 0 /\ card'.evidence \in {0, m}
  <2>1. CASE Good(card.load)
    <3>1. card' = [card EXCEPT !.load = 0, !.evidence = m] /\ card \in Cards
      BY <1>1, <1>5, <2>1 DEF IInv, TypeOK
    <3> QED
      BY <3>1, NothingIsTyped DEF Cards
  <2>2. CASE ~Good(card.load)
    <3>1. card' = [requested |-> FALSE, load |-> 0, evidence |-> 0, error |-> TRUE]
      BY <1>1, <2>2 DEF NoCard
    <3> QED
      BY <3>1, NothingIsTyped DEF Cards
  <2> QED
    BY <2>1, <2>2
<1>7. Dataset' = Dataset
  BY <1>1, SameSelection DEF hook
<1>8. TypeOK'
  BY <1>1, <1>2, <1>6 DEF IInv, TypeOK, HookTypes, hook, CachesKept
<1>9. CardKept'
  BY <1>1, <1>3, <1>4, <1>6, <1>7 DEF CardKept, hook
<1>10. Kept'
  BY <1>1, <1>2, <1>9, UsersKept DEF IInv, Kept, CachesKept
<1>11. Current'
  BY <1>1, <1>2, CurrentKept DEF IInv
<1> QED
  BY <1>8, <1>10, <1>11 DEF IInv

LEMMA ChooseKeepsIInv ==
  ASSUME IInv, Choose
  PROVE  IInv'
<1>1. /\ UNCHANGED <<site, caches, hook, mishaps>> /\ choices' = choices + 1
      /\ choice' \in Choices /\ card' = IF Dataset' = NoSelection THEN NoCard ELSE card
  BY DEF Choose, KeepCard
<1>2. CachesKept' /\ AwaitedOn
  BY <1>1, SameCaches DEF IInv, Kept, TypeOK, CachesKept
<1>3. TypeOK'
  BY <1>1, <1>2, NothingIsTyped DEF IInv, TypeOK, HookTypes, hook, CachesKept, Choices
<1>4. CardKept'
  <2>1. CASE card' = NoCard
    BY <2>1 DEF CardKept, NoCard
  <2>2. CASE card' = card /\ Dataset' # NoSelection
    <3>1. card.load # 0 =>
            \E k, u, e : /\ k = card.load /\ u = Evidence(selection.id) /\ e = selection.manifest
                         /\ Awaited(k, u, e)'
      BY <1>2 DEF IInv, Kept, CardKept, AwaitedOn, InUse
    <3> QED
      BY <1>1, <2>2, <3>1 DEF IInv, Kept, CardKept, hook
  <2> QED
    BY <1>1, <2>1, <2>2
<1>5. Kept'
  BY <1>1, <1>2, <1>4, UsersKept DEF IInv, Kept, CachesKept
<1>6. Current'
  BY <1>1, <1>2, CurrentKept DEF IInv
<1> QED
  BY <1>3, <1>5, <1>6 DEF IInv

LEMMA OpenKeepsIInv ==
  ASSUME IInv, Open
  PROVE  IInv'
<1>1. PICK u \in Urls, m \in Nat \ {0} :
        u = Evidence(selection.id) /\ m = selection.manifest /\ Dataset # NoSelection
  <2>1. selection # NoSelection /\ Dataset # NoSelection
    BY DEF Open, Dataset
  <2>2. selection.id \in Campaigns /\ selection.manifest \in Nat \ {0}
    BY <2>1 DEF IInv, TypeOK, HookTypes, Selections, Kept, SelectionKept
  <2> QED
    BY <2>1, <2>2, NamesOfDocuments
<1>2. /\ Await(u, m) /\ UNCHANGED <<site, choice, hook, mishaps>> /\ choices' = choices + 1
      /\ card' = [requested |-> TRUE, evidence |-> 0, error |-> FALSE, load |-> LoadOf(u, m)]
  BY <1>1 DEF Open
<1>3. CachesKept' /\ AwaitedOn /\ \E l \in Ids : l = LoadOf(u, m) /\ Awaited(l, u, m)'
  BY <1>2, AwaitKeepsCaches DEF IInv, Kept, TypeOK, CachesKept, AwaitedOn
<1>4. PICK l \in Ids : l = LoadOf(u, m) /\ Awaited(l, u, m)'
  BY <1>3
<1>5. card' = [requested |-> TRUE, evidence |-> 0, error |-> FALSE, load |-> l]
  BY <1>2, <1>4
<1>6. card' \in Cards
  BY <1>5, NothingIsTyped DEF Cards
<1>7. TypeOK'
  BY <1>2, <1>3, <1>6 DEF IInv, TypeOK, HookTypes, hook, CachesKept
<1>8. Dataset' = Dataset
  BY <1>2, SameSelection DEF hook
<1>9. CardKept'
  BY <1>1, <1>2, <1>4, <1>5, <1>8 DEF CardKept, hook
<1>10. Kept'
  BY <1>2, <1>3, <1>9, UsersKept DEF IInv, Kept, CachesKept
<1>11. Current'
  BY <1>1, <1>2, CurrentKept DEF IInv
<1> QED
  BY <1>7, <1>10, <1>11 DEF IInv

\* Before the core is there nothing is selected.
LEMMA CoreStepKeepsIInv ==
  ASSUME IInv, CoreStep
  PROVE  IInv'
<1>1. /\ core.step \in {"index", "trends"} /\ core.load # 0
      /\ UNCHANGED <<site, choice, effect, tasks, selection, selectionError, loading,
                     card, choices, mishaps>>
  BY DEF CoreStep, Settled
<1>2. /\ ~Asked /\ loading = FALSE /\ selection = NoSelection /\ selectionError = FALSE
      /\ \A t \in Tasks : tasks[t] = NoTask
  BY <1>1 DEF IInv, TypeOK, HookTypes, Kept, TasksKept, Current
<1>3. card = NoCard
  BY <1>2 DEF IInv, Kept, CardKept, Dataset
<1>4. PICK url \in Urls : url = (IF core.step = "index" THEN Index ELSE Trends)
                          /\ IsCore(url) /\ Awaited(core.load, url, Unreferenced)
  BY <1>1, NamesOfDocuments DEF IInv, Kept, CoreKept
<1>5. Good(core.load) => loads[core.load].holds \in Versions
  BY <1>4, AnswerIsNumber DEF Good, Awaited
<1>6. CachesKept /\ core \in Cores
  BY DEF IInv, Kept, TypeOK, HookTypes, CachesKept
<1>7. CachesKept' /\ core' \in Cores /\ CoreKept'
  <2>1. CASE core' = [core EXCEPT !.step = "failed", !.load = 0] /\ UNCHANGED caches
    <3>1. core' \in Cores /\ core'.step = "failed"
      BY <1>6, <2>1, NothingIsTyped DEF Cores
    <3> QED
      BY <1>6, <2>1, <3>1, SameCaches DEF CoreKept
  <2>2. CASE /\ Good(core.load) /\ core.step = "index" /\ Await(Trends, Unreferenced)
             /\ core' = [core EXCEPT !.step = "trends", !.index = loads[core.load].holds,
                                     !.load = LoadOf(Trends, Unreferenced)]
    <3>1. /\ CachesKept'
          /\ \E l \in Ids : l = LoadOf(Trends, Unreferenced) /\ Awaited(l, Trends, Unreferenced)'
      BY <1>6, <2>2, AwaitKeepsCaches, NamesOfDocuments DEF Unreferenced
    <3>2. PICK l \in Ids : l = LoadOf(Trends, Unreferenced) /\ Awaited(l, Trends, Unreferenced)'
      BY <3>1
    <3>3. PICK v \in Versions : v = loads[core.load].holds
      BY <1>5, <2>2
    <3>4. core' = [core EXCEPT !.step = "trends", !.index = v, !.load = l]
      BY <2>2, <3>2, <3>3
    <3>5. core' \in Cores /\ core'.step = "trends" /\ core'.index = v /\ core'.load = l
      BY <1>6, <3>4, NothingIsTyped DEF Cores
    <3> QED
      BY <3>1, <3>2, <3>5 DEF CoreKept
  <2>3. CASE /\ Good(core.load) /\ core.step = "trends" /\ UNCHANGED caches
             /\ core' = [core EXCEPT !.step = "loaded", !.load = 0,
                                     !.trends = loads[core.load].holds]
    <3>1. PICK v \in Versions : v = loads[core.load].holds
      BY <1>5, <2>3
    <3>2. core.index \in Versions
      BY <2>3 DEF IInv, Kept, CoreKept
    <3>3. core' \in Cores /\ core'.step = "loaded" /\ core'.index \in Versions
          /\ core'.trends = v
      BY <1>6, <2>3, <3>1, <3>2, NothingIsTyped DEF Cores
    <3> QED
      BY <1>6, <2>3, <3>3, SameCaches DEF CoreKept
  <2> QED
    BY <2>1, <2>2, <2>3 DEF CoreStep
<1>8. TypeOK'
  BY <1>1, <1>7 DEF IInv, TypeOK, HookTypes, CachesKept
<1>9. Kept'
  <2>1. TasksKept'
    <3>1. NoTask.step = "none" /\ \A t \in Tasks : tasks'[t] = NoTask
      BY <1>1, <1>2 DEF NoTask
    <3> QED
      BY <3>1 DEF TasksKept
  <2>2. SelectionKept' /\ CardKept'
    BY <1>1, <1>2, <1>3 DEF SelectionKept, CardKept, NoSelection, NoCard
  <2> QED
    BY <1>7, <2>1, <2>2 DEF Kept, CachesKept
<1>10. Current'
  BY <1>1, <1>2 DEF Current, Asked, NoTask
<1> QED
  BY <1>8, <1>9, <1>10 DEF IInv

\* A changed dependency: only the effect's own task counts from now on.
LEMMA CancelledTasks ==
  ASSUME tasks \in [Tasks -> TaskRecords], TasksKept, NEW t \in Tasks
  PROVE  /\ Cancelled \in [Tasks -> TaskRecords] /\ ~Cancelled[t].active
         /\ Cancelled[t].step = tasks[t].step /\ Cancelled[t].load = tasks[t].load
         /\ Cancelled[t].id = tasks[t].id /\ Cancelled[t].other = tasks[t].other
         /\ Cancelled[t].comparison = tasks[t].comparison
         /\ (tasks[t].step = "none" => Cancelled[t] = NoTask)
         /\ (Gathered(tasks[t]) => Gathered(Cancelled[t]))
         /\ UrlOf(Cancelled[t]) = UrlOf(tasks[t])
         /\ ExpectedOf(Cancelled[t]) = ExpectedOf(tasks[t])
<1>1. /\ Cancelled \in [Tasks -> TaskRecords]
      /\ Cancelled[t] = [tasks[t] EXCEPT !.active = FALSE] /\ tasks[t] \in TaskRecords
  BY DEF Cancelled, Tasks, TaskRecords
<1>2. /\ Cancelled[t].active = FALSE /\ Cancelled[t].step = tasks[t].step
      /\ Cancelled[t].load = tasks[t].load
      /\ Cancelled[t].id = tasks[t].id /\ Cancelled[t].other = tasks[t].other
      /\ Cancelled[t].manifest = tasks[t].manifest /\ Cancelled[t].body = tasks[t].body
      /\ Cancelled[t].otherManifest = tasks[t].otherManifest
      /\ Cancelled[t].comparison = tasks[t].comparison
  BY <1>1 DEF TaskRecords
<1>3. tasks[t].step = "none" => Cancelled[t] = NoTask
  <2>1. SUFFICES ASSUME tasks[t] = NoTask
                 PROVE  Cancelled[t] = NoTask
    BY DEF TasksKept
  <2>2. tasks[t] \in TaskRecords /\ tasks[t].active = FALSE
    BY <1>1, <2>1 DEF NoTask
  <2>3. [tasks[t] EXCEPT !.active = FALSE] = tasks[t]
    BY <2>2 DEF TaskRecords
  <2> QED
    BY <1>1, <2>1, <2>3
<1>4. Gathered(tasks[t]) => Gathered(Cancelled[t])
  BY <1>2 DEF Gathered
<1>5. UrlOf(Cancelled[t]) = UrlOf(tasks[t]) /\ ExpectedOf(Cancelled[t]) = ExpectedOf(tasks[t])
  BY <1>2 DEF UrlOf, ExpectedOf
<1> QED
  BY <1>1, <1>2, <1>3, <1>4, <1>5

LEMMA EffectKeepsIInv ==
  ASSUME IInv, Effect
  PROVE  IInv'
<1> DEFINE asks == SelectedId # None /\ choice.detail
<1>1. /\ effect' = Wanted /\ selection' = NoSelection /\ card' = NoCard
      /\ selectionError' = FALSE
      /\ UNCHANGED <<site, choice, core, choices, mishaps>>
  BY DEF Effect, Nothing
<1>2. PICK s \in CampaignOrNone :
        s = SelectedId /\ (s # None => s \in Campaigns /\ core.step = "loaded")
  BY SelectedIsListed DEF IInv, TypeOK, HookTypes, Kept, CampaignOrNone
<1>3. PICK w \in Effects :
        w = Wanted /\ w.id = s /\ w.detail = choice.detail /\ w.comparison = choice.comparison
  <2>1. PICK b \in BOOLEAN : b = (core.step = "loaded")
    OBVIOUS
  <2>2. Wanted = [core |-> b, id |-> s, detail |-> choice.detail,
                  comparison |-> choice.comparison]
    BY <1>2, <2>1 DEF Wanted
  <2>3. choice.detail \in BOOLEAN /\ choice.comparison \in BOOLEAN
    BY DEF IInv, TypeOK
  <2>4. [core |-> b, id |-> s, detail |-> choice.detail,
         comparison |-> choice.comparison] \in Effects
    BY <2>1, <2>3 DEF Effects
  <2> QED
    BY <2>2, <2>4
<1>4. tasks \in [Tasks -> TaskRecords] /\ TasksKept /\ CachesKept
  BY DEF IInv, TypeOK, HookTypes, Kept, CachesKept
<1>5. PICK cancelled \in [Tasks -> TaskRecords] : cancelled = Cancelled
  BY <1>4, CancelledTasks, NothingIsTyped DEF Cancelled, Tasks, TaskRecords
<1>6. CASE ~asks
  <2>1. tasks' = cancelled /\ loading' = FALSE /\ UNCHANGED caches
    BY <1>5, <1>6 DEF Effect, Nothing
  <2>2. CachesKept' /\ AwaitedOn
    BY <1>4, <2>1, SameCaches
  <2>3. TypeOK'
    BY <1>1, <1>3, <1>5, <2>1, <2>2, NothingIsTyped
    DEF IInv, TypeOK, HookTypes, CachesKept
  <2>4. TasksKept'
    <3>1. ASSUME NEW t \in Tasks
          PROVE  /\ cancelled[t].step = "none" => cancelled[t] = NoTask
                 /\ cancelled[t].step # "none" =>
                      /\ Gathered(cancelled[t])
                      /\ \A k, u, e : WaitsFor(cancelled[t], k, u, e) => Awaited(k, u, e)'
      BY <1>4, <1>5, <2>2, CancelledTasks DEF TasksKept, AwaitedOn, InUse, WaitsFor
    <3> QED
      BY <2>1, <3>1 DEF TasksKept, WaitsFor
  <2>5. Kept'
    <3>1. CoreKept'
      <4>1. \A k, u, e : Awaited(k, u, e) /\ k = core.load => Awaited(k, u, e)'
        BY <2>2 DEF AwaitedOn, InUse
      <4> QED
        BY <1>1, <4>1 DEF IInv, Kept, CoreKept
    <3>2. SelectionKept' /\ CardKept'
      BY <1>1 DEF SelectionKept, CardKept, NoSelection, NoCard
    <3> QED
      BY <2>2, <2>4, <3>1, <3>2 DEF Kept, CachesKept
  <2>6. Current'
    <3>1. \A t \in Tasks : ~cancelled[t].active
      BY <1>4, <1>5, CancelledTasks
    <3>2. Asked' = FALSE /\ loading' = FALSE /\ selection' = NoSelection /\ selectionError' = FALSE
      BY <1>1, <1>2, <1>3, <1>6, <2>1 DEF Asked
    <3>3. \A t \in Tasks : cancelled[t].step # "none" => core.step = "loaded"
      BY <1>4, <1>5, CancelledTasks DEF IInv, Current
    <3>4. \A t \in Tasks : cancelled[t].step \in {"otherManifest", "otherBody"} =>
            /\ cancelled[t].comparison
            /\ \E c : c = cancelled[t].id /\ cancelled[t].other = Previous(c)'
      BY <1>1, <1>4, <1>5, CancelledTasks, SameCore DEF IInv, Current
    <3> QED
      BY <1>1, <2>1, <3>1, <3>2, <3>3, <3>4 DEF Current
  <2> QED
    BY <2>3, <2>5, <2>6 DEF IInv
<1>7. CASE asks
  <2>1. s \in Campaigns /\ choice.detail /\ core.step = "loaded"
    BY <1>2, <1>7
  <2>2. PICK url \in Urls : url = Manifest(s)
    BY <2>1, NamesOfDocuments
  <2>3. PICK t0 \in Tasks : t0 = Least(Idle) /\ tasks[t0].step = "none"
    <3>1. Idle \in SUBSET (1..MaxTasks) /\ Idle # {}
      BY <1>7 DEF Effect, Idle
    <3>2. Least(Idle) \in Idle
      BY <3>1, LeastIsMember, DashboardClientAssumption
    <3> QED
      BY <3>2 DEF Idle, Tasks
  <2>4. Await(url, 0) /\ loading' = TRUE
    BY <1>2, <1>7, <2>2 DEF Effect, Unreferenced
  <2>5. /\ CachesKept' /\ AwaitedOn
        /\ \E l \in Ids : l = LoadOf(url, 0) /\ Awaited(l, url, 0)'
    BY <1>4, <2>4, AwaitKeepsCaches DEF AwaitedOn
  <2>6. PICK l \in Ids : l = LoadOf(url, 0) /\ Awaited(l, url, 0)'
    BY <2>5
  <2>7. PICK task \in TaskRecords :
          /\ task.step = "manifest" /\ task.id = s /\ task.active = TRUE
          /\ task.comparison = choice.comparison /\ task.load = l
          /\ task.other = None /\ task.otherManifest = 0
          /\ tasks' = [cancelled EXCEPT ![t0] = task]
    <3> DEFINE new == [NoTask EXCEPT !.step = "manifest", !.id = s, !.active = TRUE,
                                     !.comparison = choice.comparison, !.load = l]
    <3>1. tasks' = [cancelled EXCEPT ![t0] = new]
      BY <1>2, <1>5, <1>7, <2>2, <2>3, <2>6 DEF Effect, Unreferenced
    <3>2. choice.comparison \in BOOLEAN
      BY DEF IInv, TypeOK
    <3>3. new \in TaskRecords
      BY <2>1, <3>2, NothingIsTyped DEF TaskRecords, Steps
    <3>4. /\ new.step = "manifest" /\ new.id = s /\ new.active = TRUE
          /\ new.comparison = choice.comparison /\ new.load = l
          /\ new.other = None /\ new.otherManifest = 0
      BY DEF NoTask
    <3> QED
      BY <3>1, <3>3, <3>4
  <2>8. TypeOK'
    BY <1>1, <1>3, <1>5, <2>4, <2>5, <2>7, NothingIsTyped
    DEF IInv, TypeOK, HookTypes, CachesKept
  <2>9. TasksKept'
    <3>1. ASSUME NEW t \in Tasks, t # t0
          PROVE  /\ cancelled[t].step = "none" => cancelled[t] = NoTask
                 /\ cancelled[t].step # "none" =>
                      /\ Gathered(cancelled[t])
                      /\ \A k, u, e : WaitsFor(cancelled[t], k, u, e) => Awaited(k, u, e)'
      BY <1>4, <1>5, <2>5, CancelledTasks DEF TasksKept, AwaitedOn, InUse, WaitsFor
    <3>2. Gathered(task) /\ UrlOf(task) = url /\ ExpectedOf(task) = 0
      BY <2>1, <2>2, <2>7 DEF Gathered, UrlOf, ExpectedOf, Unreferenced
    <3>3. \A t \in Tasks : tasks'[t] = IF t = t0 THEN task ELSE cancelled[t]
      BY <2>7
    <3>4. ASSUME NEW t \in Tasks
          PROVE  /\ tasks'[t].step = "none" => tasks'[t] = NoTask
                 /\ tasks'[t].step # "none" =>
                      /\ Gathered(tasks'[t])
                      /\ \A k, u, e : WaitsFor(tasks'[t], k, u, e) => Awaited(k, u, e)'
      <4>1. CASE t = t0
        BY <2>6, <2>7, <3>2, <3>3, <4>1 DEF WaitsFor
      <4>2. CASE t # t0
        BY <3>1, <3>3, <4>2
      <4> QED
        BY <4>1, <4>2
    <3> QED
      BY <3>4 DEF TasksKept, WaitsFor
  <2>10. Kept'
    <3>1. CoreKept'
      BY <1>1, <2>1 DEF IInv, Kept, CoreKept
    <3>2. SelectionKept' /\ CardKept'
      BY <1>1 DEF SelectionKept, CardKept, NoSelection, NoCard
    <3> QED
      BY <2>5, <2>9, <3>1, <3>2 DEF Kept, CachesKept
  <2>11. Current'
    <3>1. \A t \in Tasks : /\ tasks'[t] = IF t = t0 THEN task ELSE cancelled[t]
                           /\ ~cancelled[t].active
      BY <1>4, <1>5, <2>7, CancelledTasks
    <3>2. Asked' /\ effect'.id = s /\ effect'.comparison = choice.comparison
      BY <1>1, <1>3, <2>1, NothingIsTyped DEF Asked
    <3>3. ASSUME NEW t \in Tasks, tasks'[t].active
          PROVE  t = t0
      BY <3>1, <3>3
    <3>4. tasks'[t0].active /\ tasks'[t0] = task
      BY <2>7, <3>1
    <3>5. \A t \in Tasks : tasks'[t].step \in {"otherManifest", "otherBody"} =>
            /\ tasks'[t].comparison
            /\ \E c : c = tasks'[t].id /\ tasks'[t].other = Previous(c)'
      <4>1. \A t \in Tasks : cancelled[t].step \in {"otherManifest", "otherBody"} =>
              /\ cancelled[t].comparison
              /\ \E c : c = cancelled[t].id /\ cancelled[t].other = Previous(c)'
        BY <1>1, <1>4, <1>5, CancelledTasks, SameCore DEF IInv, Current
      <4> QED
        BY <2>7, <3>1, <4>1
    <3>6. selection' = NoSelection /\ selectionError' = FALSE /\ loading' = TRUE
          /\ core'.step = "loaded"
      BY <1>1, <2>1, <2>4
    <3> QED
      BY <2>7, <3>2, <3>3, <3>4, <3>5, <3>6 DEF Current
  <2> QED
    BY <2>8, <2>10, <2>11 DEF IInv
<1> QED
  BY <1>6, <1>7

\* What else a task's step leaves alone.
AsideFromTask == UNCHANGED <<site, choice, core, effect, card, choices, mishaps>>

\* A task ends: its answer is shown only if it is the last effect's.
LEMMA DoneKeepsIInv ==
  ASSUME IInv, AsideFromTask, UNCHANGED caches,
         NEW t \in Tasks, tasks[t].step # "none", NEW found \in Selections, Done(t, found),
         found # NoSelection =>
           /\ found.id = tasks[t].id /\ found.id \in Campaigns /\ found.manifest # 0
           /\ found.body = found.manifest /\ found.otherBody = found.otherManifest
           /\ found.other = IF tasks[t].comparison THEN Previous(tasks[t].id) ELSE None
  PROVE  IInv'
<1>1. tasks' = [tasks EXCEPT ![t] = NoTask] /\ tasks \in [Tasks -> TaskRecords]
  BY DEF Done, IInv, TypeOK, HookTypes
<1>2. /\ \A u \in Tasks : tasks'[u] = IF u = t THEN NoTask ELSE tasks[u]
      /\ tasks' \in [Tasks -> TaskRecords] /\ NoTask.step = "none" /\ NoTask.active = FALSE
  <2>1. NoTask.step = "none" /\ NoTask.active = FALSE
    BY DEF NoTask
  <2> QED
    BY <1>1, <2>1, NothingIsTyped
<1>3. CachesKept' /\ AwaitedOn
  BY SameCaches DEF IInv, Kept, TypeOK, CachesKept
<1>4. TasksKept'
  <2>1. ASSUME NEW u \in Tasks, tasks'[u].step # "none"
        PROVE  /\ tasks'[u] = tasks[u] /\ Gathered(tasks[u])
               /\ \A k, a, e : WaitsFor(tasks[u], k, a, e) => Awaited(k, a, e)'
    <3>1. tasks'[u] = tasks[u] /\ tasks[u].step # "none"
      BY <1>2, <2>1
    <3>2. /\ Gathered(tasks[u])
          /\ \A k, a, e : WaitsFor(tasks[u], k, a, e) => Awaited(k, a, e) /\ InUse(k)
      BY <3>1 DEF IInv, Kept, TasksKept, InUse, WaitsFor
    <3> QED
      BY <1>3, <3>1, <3>2 DEF AwaitedOn
  <2>2. \A u \in Tasks : tasks'[u].step = "none" => tasks'[u] = NoTask
    BY <1>2 DEF IInv, Kept, TasksKept
  <2> QED
    BY <2>1, <2>2 DEF TasksKept, WaitsFor
<1>5. CASE ~tasks[t].active
  <2>1. UNCHANGED <<selection, selectionError, loading>>
    BY <1>5 DEF Done
  <2>2. Dataset' = Dataset /\ ForComparison' = ForComparison
    BY <2>1, SameSelection, SameComparison DEF AsideFromTask
  <2>3. TypeOK'
    BY <1>2, <1>3, <2>1 DEF IInv, TypeOK, HookTypes, CachesKept, AsideFromTask
  <2>4. CoreKept' /\ SelectionKept' /\ CardKept'
    <3>1. \A k, u, e : Awaited(k, u, e) /\ k \in {core.load, card.load} => Awaited(k, u, e)'
      BY <1>3 DEF AwaitedOn, InUse
    <3>2. CoreKept'
      BY <3>1 DEF IInv, Kept, CoreKept, AsideFromTask
    <3>3. card.load # 0 =>
            \E k, u, e : /\ k = card.load /\ u = Evidence(selection.id) /\ e = selection.manifest
                         /\ Awaited(k, u, e)'
      BY <3>1 DEF IInv, Kept, CardKept
    <3> QED
      BY <2>1, <2>2, <3>2, <3>3 DEF IInv, Kept, SelectionKept, CardKept, AsideFromTask
  <2>5. Current'
    <3>1. \A u \in Tasks : tasks[u].step \in {"otherManifest", "otherBody"} =>
            \E c : c = tasks[u].id /\ tasks[u].other = Previous(c)'
      BY SameCore DEF IInv, Current, AsideFromTask
    <3>2. \A u \in Tasks : tasks'[u].active <=> tasks[u].active
      BY <1>2, <1>5
    <3> QED
      BY <1>2, <2>1, <2>2, <3>1, <3>2 DEF IInv, Current, Asked, AsideFromTask
  <2> QED
    BY <1>3, <1>4, <2>3, <2>4, <2>5 DEF IInv, Kept, CachesKept
<1>6. CASE tasks[t].active
  <2>1. /\ core.step = "loaded" /\ Asked /\ selection = NoSelection /\ selectionError = FALSE
        /\ tasks[t].id = effect.id /\ tasks[t].comparison = effect.comparison
        /\ \A u \in Tasks : tasks[u].active => u = t
    BY <1>6 DEF IInv, Current, TypeOK, HookTypes
  <2>2. card = NoCard
    BY <2>1 DEF IInv, Kept, CardKept, Dataset
  <2>3. /\ loading' = FALSE /\ selection' = found
        /\ selectionError' = IF found = NoSelection THEN TRUE ELSE FALSE
    BY <1>6, <2>1 DEF Done
  <2>4. TypeOK'
    BY <1>2, <1>3, <2>3 DEF IInv, TypeOK, HookTypes, CachesKept, AsideFromTask
  <2>5. CoreKept' /\ SelectionKept' /\ CardKept'
    <3>1. CoreKept'
      BY <2>1 DEF IInv, Kept, CoreKept, AsideFromTask
    <3>2. CardKept'
      BY <2>2 DEF CardKept, NoCard, AsideFromTask
    <3> QED
      BY <2>3, <3>1, <3>2 DEF SelectionKept, NoSelection
  <2>6. Current'
    <3>1. \A u \in Tasks : tasks[u].step \in {"otherManifest", "otherBody"} =>
            \E c : c = tasks[u].id /\ tasks[u].other = Previous(c)'
      BY SameCore DEF IInv, Current, AsideFromTask
    <3>2. \A u \in Tasks : ~tasks'[u].active
      BY <1>2, <2>1
    <3>3. ForComparison' = ForComparison
      BY SameComparison DEF AsideFromTask
    <3>4. found # NoSelection => found.id = effect.id /\ found.other = ForComparison
      BY <2>1 DEF ForComparison
    <3> QED
      BY <1>2, <2>1, <2>3, <3>1, <3>2, <3>3, <3>4 DEF IInv, Current, Asked, AsideFromTask
  <2> QED
    BY <1>3, <1>4, <2>4, <2>5, <2>6 DEF IInv, Kept, CachesKept
<1> QED
  BY <1>5, <1>6

\* A task goes on with what it has gathered.
LEMMA ContinueKeepsIInv ==
  ASSUME IInv, AsideFromTask, UNCHANGED <<selection, selectionError, loading>>,
         NEW t \in Tasks, NEW next \in TaskRecords, NEW url \in Urls, NEW expected \in Nat,
         Await(url, expected),
         tasks' = [tasks EXCEPT ![t] = [next EXCEPT !.load = LoadOf(url, expected)]],
         tasks[t].step # "none", next.step \in Steps, Gathered(next),
         UrlOf(next) = url, ExpectedOf(next) = expected,
         next.active = tasks[t].active, next.id = tasks[t].id,
         next.comparison = tasks[t].comparison,
         next.step \in {"otherManifest", "otherBody"} =>
           next.comparison /\ next.other = Previous(next.id)
  PROVE  IInv'
<1>1. tasks \in [Tasks -> TaskRecords] /\ CachesKept
  BY DEF IInv, TypeOK, HookTypes, Kept, CachesKept
<1>2. /\ CachesKept' /\ AwaitedOn
      /\ \E l \in Ids : l = LoadOf(url, expected) /\ Awaited(l, url, expected)'
  BY <1>1, AwaitKeepsCaches DEF AwaitedOn
<1>3. PICK l \in Ids : l = LoadOf(url, expected) /\ Awaited(l, url, expected)'
  BY <1>2
<1>4. PICK task \in TaskRecords :
        /\ task = [next EXCEPT !.load = l] /\ task.load = l
        /\ task.step = next.step /\ task.active = next.active /\ task.id = next.id
        /\ task.comparison = next.comparison /\ task.other = next.other
        /\ task.manifest = next.manifest /\ task.body = next.body
        /\ task.otherManifest = next.otherManifest
  <2> DEFINE after == [next EXCEPT !.load = l]
  <2>1. l \in 0..MaxPromises
    BY NothingIsTyped
  <2>2. after \in TaskRecords
    BY <2>1 DEF TaskRecords
  <2>3. /\ after.load = l /\ after.step = next.step /\ after.active = next.active
        /\ after.id = next.id /\ after.comparison = next.comparison
        /\ after.other = next.other /\ after.manifest = next.manifest
        /\ after.body = next.body /\ after.otherManifest = next.otherManifest
    BY DEF TaskRecords
  <2> QED
    BY <2>2, <2>3
<1>5. /\ \A u \in Tasks : tasks'[u] = IF u = t THEN task ELSE tasks[u]
      /\ tasks' \in [Tasks -> TaskRecords]
  BY <1>1, <1>3, <1>4
<1>6. Gathered(task) /\ UrlOf(task) = url /\ ExpectedOf(task) = expected /\ task.step # "none"
  BY <1>4 DEF Gathered, UrlOf, ExpectedOf, Steps
<1>7. TypeOK'
  BY <1>2, <1>5 DEF IInv, TypeOK, HookTypes, CachesKept, AsideFromTask
<1>8. TasksKept'
  <2>1. ASSUME NEW u \in Tasks
        PROVE  /\ tasks'[u].step = "none" => tasks'[u] = NoTask
               /\ tasks'[u].step # "none" =>
                    /\ Gathered(tasks'[u])
                    /\ \A k, a, e : WaitsFor(tasks'[u], k, a, e) => Awaited(k, a, e)'
    <3>1. CASE u = t
      <4>1. tasks'[u] = task
        BY <1>5, <3>1
      <4>2. \A k, a, e : WaitsFor(task, k, a, e) => Awaited(k, a, e)'
        BY <1>3, <1>4, <1>6 DEF WaitsFor
      <4> QED
        BY <1>6, <4>1, <4>2
    <3>2. CASE u # t
      <4>1. tasks'[u] = tasks[u]
        BY <1>5, <3>2
      <4>2. /\ tasks[u].step = "none" => tasks[u] = NoTask
            /\ tasks[u].step # "none" =>
                 /\ Gathered(tasks[u])
                 /\ \A k, a, e : WaitsFor(tasks[u], k, a, e) => Awaited(k, a, e) /\ InUse(k)
        BY DEF IInv, Kept, TasksKept, InUse, WaitsFor
      <4> QED
        BY <1>2, <4>1, <4>2 DEF AwaitedOn
    <3> QED
      BY <3>1, <3>2
  <2> QED
    BY <2>1 DEF TasksKept, WaitsFor
<1>9. Dataset' = Dataset /\ ForComparison' = ForComparison
  BY SameSelection, SameComparison DEF AsideFromTask
<1>10. CoreKept' /\ SelectionKept' /\ CardKept'
  <2>1. \A k, u, e : Awaited(k, u, e) /\ k \in {core.load, card.load} => Awaited(k, u, e)'
    BY <1>2 DEF AwaitedOn, InUse
  <2>2. CoreKept'
    BY <2>1 DEF IInv, Kept, CoreKept, AsideFromTask
  <2>3. card.load # 0 =>
          \E k, u, e : /\ k = card.load /\ u = Evidence(selection.id) /\ e = selection.manifest
                       /\ Awaited(k, u, e)'
    BY <2>1 DEF IInv, Kept, CardKept
  <2> QED
    BY <1>9, <2>2, <2>3 DEF IInv, Kept, SelectionKept, CardKept, AsideFromTask
<1>11. Current'
  <2>1. \A u \in Tasks : tasks'[u].step \in {"otherManifest", "otherBody"} =>
          /\ tasks'[u].comparison
          /\ \E c : c = tasks'[u].id /\ tasks'[u].other = Previous(c)'
    BY <1>4, <1>5, SameCore DEF IInv, Current, AsideFromTask
  <2>2. \A u \in Tasks : /\ tasks'[u].active = tasks[u].active /\ tasks'[u].id = tasks[u].id
                         /\ tasks'[u].comparison = tasks[u].comparison
                         /\ (tasks'[u].step # "none" <=> tasks[u].step # "none")
    BY <1>4, <1>5, <1>6
  <2> QED
    BY <1>9, <2>1, <2>2 DEF IInv, Current, Asked, AsideFromTask
<1> QED
  BY <1>2, <1>7, <1>8, <1>10, <1>11 DEF IInv, Kept, CachesKept

LEMMA TaskStepKeepsIInv ==
  ASSUME IInv, NEW t \in Tasks, TaskStep(t)
  PROVE  IInv'
<1>1. PICK task \in TaskRecords : task = tasks[t]
  BY DEF IInv, TypeOK, HookTypes
<1>2. PICK previous \in CampaignOrNone :
        previous = IF task.comparison THEN Previous(task.id) ELSE None
  <2>1. core.step = "loaded"
    BY <1>1 DEF TaskStep, IInv, Current
  <2> QED
    BY <2>1, SelectedIsListed, NothingIsTyped DEF IInv, TypeOK, HookTypes, Kept
<1>3. /\ task.step \in Steps /\ Gathered(task) /\ AsideFromTask
      /\ Awaited(task.load, UrlOf(task), ExpectedOf(task))
  <2>1. task.step # "none" /\ AsideFromTask
    BY <1>1 DEF TaskStep, AsideFromTask
  <2> QED
    BY <1>1, <2>1 DEF IInv, Kept, TasksKept, TaskRecords
<1>4. CASE ~Good(task.load) /\ Done(t, NoSelection) /\ UNCHANGED caches
  BY <1>1, <1>3, <1>4, DoneKeepsIInv, NothingIsTyped DEF Steps
<1>5. CASE Good(task.load)
  <2>1. PICK got : got = loads[task.load].holds
    OBVIOUS
  <2>2. /\ UrlOf(task) \in Urls /\ ~IsCore(UrlOf(task))
    <3>1. task.id \in Campaigns
          /\ (task.step \in {"otherManifest", "otherBody"} => task.other \in Campaigns)
      BY <1>3 DEF Gathered
    <3>2. UrlOf(task) \in {Manifest(task.id), Body(task.id)} \/
          (/\ task.step \in {"otherManifest", "otherBody"}
           /\ UrlOf(task) \in {Manifest(task.other), Body(task.other)})
      BY <1>3 DEF UrlOf, Steps
    <3> QED
      BY <3>1, <3>2, NamesOfDocuments
  <2>3. got \in Nat \ {0} /\ ExpectedOf(task) \in {0, got}
    BY <1>3, <1>5, <2>1, <2>2, AnswerIsNumber DEF Awaited, Good, Unreferenced
  <2> DEFINE found == [id |-> task.id, manifest |-> task.manifest, body |-> task.body,
                       other |-> task.other, otherManifest |-> task.otherManifest,
                       otherBody |-> 0]
  <2>4. found \in Selections
    BY DEF Selections, TaskRecords
  <2>5. \/ /\ task.step = "manifest"
           /\ Continue(t, [task EXCEPT !.step = "body", !.manifest = got], Body(task.id), got)
        \/ /\ task.step = "body" /\ previous = None
           /\ Done(t, [found EXCEPT !.body = got]) /\ UNCHANGED caches
        \/ /\ task.step = "body" /\ previous # None
           /\ Continue(t, [task EXCEPT !.step = "otherManifest", !.body = got,
                                       !.other = previous],
                       Manifest(previous), 0)
        \/ /\ task.step = "otherManifest"
           /\ Continue(t, [task EXCEPT !.step = "otherBody", !.otherManifest = got],
                       Body(task.other), got)
        \/ /\ task.step = "otherBody"
           /\ Done(t, [found EXCEPT !.otherBody = got]) /\ UNCHANGED caches
    BY <1>1, <1>2, <1>5, <2>1 DEF TaskStep, Unreferenced
  <2>6. CASE /\ task.step = "manifest"
             /\ Continue(t, [task EXCEPT !.step = "body", !.manifest = got], Body(task.id), got)
    <3> DEFINE next == [task EXCEPT !.step = "body", !.manifest = got]
    <3>1. next \in TaskRecords
      BY <2>3 DEF TaskRecords, Steps
    <3>2. /\ next.step = "body" /\ next.manifest = got /\ next.id = task.id
          /\ next.active = task.active /\ next.comparison = task.comparison
          /\ next.other = task.other /\ next.otherManifest = task.otherManifest
      BY DEF TaskRecords
    <3> HIDE DEF next
    <3>3. Gathered(next) /\ UrlOf(next) = Body(task.id) /\ ExpectedOf(next) = got
      BY <1>3, <2>3, <2>6, <3>2 DEF Gathered, UrlOf, ExpectedOf
    <3>4. Body(task.id) \in Urls
      BY <1>3, NamesOfDocuments DEF Gathered
    <3>5. /\ Await(Body(task.id), got) /\ UNCHANGED <<selection, selectionError, loading>>
          /\ tasks' = [tasks EXCEPT ![t] = [next EXCEPT !.load = LoadOf(Body(task.id), got)]]
      BY <2>6 DEF Continue, next
    <3> QED
      BY <1>1, <1>3, <2>3, <3>1, <3>2, <3>3, <3>4, <3>5, ContinueKeepsIInv DEF Steps
  <2>7. CASE /\ task.step = "body" /\ previous = None
             /\ Done(t, [found EXCEPT !.body = got]) /\ UNCHANGED caches
    <3>1. PICK answer \in Selections :
            /\ answer = [found EXCEPT !.body = got] /\ answer.id = task.id
            /\ answer.manifest = task.manifest /\ answer.body = got
            /\ answer.other = task.other /\ answer.otherManifest = task.otherManifest
            /\ answer.otherBody = 0
      <4>1. [found EXCEPT !.body = got] \in Selections
        BY <2>3, <2>4 DEF Selections
      <4> QED
        BY <4>1
    <3>2. /\ answer.body = answer.manifest /\ answer.manifest # 0
          /\ answer.otherBody = answer.otherManifest
          /\ answer.other = None /\ answer.id \in Campaigns
      BY <1>3, <2>3, <2>7, <3>1 DEF Gathered, ExpectedOf
    <3>3. Done(t, answer)
      BY <2>7, <3>1
    <3>4. answer.other = IF tasks[t].comparison THEN Previous(tasks[t].id) ELSE None
      BY <1>1, <1>2, <2>7, <3>2
    <3>5. tasks[t].step # "none" /\ answer.id = tasks[t].id
      BY <1>1, <2>7, <3>1
    <3> QED
      BY <1>3, <2>7, <3>2, <3>3, <3>4, <3>5, DoneKeepsIInv
  <2>8. CASE /\ task.step = "body" /\ previous # None
             /\ Continue(t, [task EXCEPT !.step = "otherManifest", !.body = got,
                                         !.other = previous],
                         Manifest(previous), 0)
    <3> DEFINE next == [task EXCEPT !.step = "otherManifest", !.body = got,
                                    !.other = previous]
    <3>1. next \in TaskRecords
      BY <2>3 DEF TaskRecords, Steps
    <3>2. /\ next.step = "otherManifest" /\ next.manifest = task.manifest
          /\ next.id = task.id /\ next.active = task.active
          /\ next.comparison = task.comparison /\ next.body = got
          /\ next.other = previous /\ next.otherManifest = task.otherManifest
      BY DEF TaskRecords
    <3> HIDE DEF next
    <3>3. previous \in Campaigns /\ task.comparison /\ previous = Previous(task.id)
      BY <1>2, <2>8 DEF CampaignOrNone
    <3>4. Gathered(next) /\ UrlOf(next) = Manifest(previous) /\ ExpectedOf(next) = 0
      BY <1>3, <2>3, <2>8, <3>2, <3>3 DEF Gathered, UrlOf, ExpectedOf, Unreferenced
    <3>5. PICK url \in Urls, expected \in Nat : url = Manifest(previous) /\ expected = 0
      BY <3>3, NamesOfDocuments
    <3>6. /\ Await(url, expected) /\ UNCHANGED <<selection, selectionError, loading>>
          /\ tasks' = [tasks EXCEPT ![t] = [next EXCEPT !.load = LoadOf(url, expected)]]
          /\ UrlOf(next) = url /\ ExpectedOf(next) = expected
      BY <2>8, <3>4, <3>5 DEF Continue, next
    <3> QED
      <4>1. next.comparison /\ next.other = Previous(next.id)
        BY <3>2, <3>3
      <4>2. tasks[t].step # "none" /\ next.step \in Steps /\ next.active = tasks[t].active
            /\ next.id = tasks[t].id /\ next.comparison = tasks[t].comparison
        BY <1>1, <2>8, <3>2 DEF Steps
      <4> QED
        BY <1>3, <3>1, <3>4, <3>6, <4>1, <4>2, ContinueKeepsIInv
  <2>9. CASE /\ task.step = "otherManifest"
             /\ Continue(t, [task EXCEPT !.step = "otherBody", !.otherManifest = got],
                         Body(task.other), got)
    <3> DEFINE next == [task EXCEPT !.step = "otherBody", !.otherManifest = got]
    <3>1. next \in TaskRecords
      BY <2>3 DEF TaskRecords, Steps
    <3>2. /\ next.step = "otherBody" /\ next.manifest = task.manifest
          /\ next.id = task.id /\ next.active = task.active
          /\ next.comparison = task.comparison /\ next.body = task.body
          /\ next.other = task.other /\ next.otherManifest = got
      BY DEF TaskRecords
    <3> HIDE DEF next
    <3>3. task.comparison /\ task.other = Previous(task.id)
      BY <1>1, <2>9 DEF IInv, Current
    <3>4. Gathered(next) /\ UrlOf(next) = Body(task.other) /\ ExpectedOf(next) = got
      BY <1>3, <2>3, <2>9, <3>2 DEF Gathered, UrlOf, ExpectedOf
    <3>5. Body(task.other) \in Urls
      BY <1>3, <2>9, NamesOfDocuments DEF Gathered
    <3>6. /\ Await(Body(task.other), got) /\ UNCHANGED <<selection, selectionError, loading>>
          /\ tasks' = [tasks EXCEPT ![t] =
                         [next EXCEPT !.load = LoadOf(Body(task.other), got)]]
      BY <2>9 DEF Continue, next
    <3> QED
      BY <1>1, <1>3, <2>3, <2>9, <3>1, <3>2, <3>3, <3>4, <3>5, <3>6, ContinueKeepsIInv
      DEF Steps
  <2>10. CASE /\ task.step = "otherBody"
              /\ Done(t, [found EXCEPT !.otherBody = got]) /\ UNCHANGED caches
    <3>1. PICK answer \in Selections :
            /\ answer = [found EXCEPT !.otherBody = got] /\ answer.id = task.id
            /\ answer.manifest = task.manifest /\ answer.body = task.body
            /\ answer.other = task.other /\ answer.otherManifest = task.otherManifest
            /\ answer.otherBody = got
      <4>1. [found EXCEPT !.otherBody = got] \in Selections
        BY <2>3, <2>4 DEF Selections
      <4> QED
        BY <4>1
    <3>2. /\ answer.body = answer.manifest /\ answer.manifest # 0
          /\ answer.otherBody = answer.otherManifest /\ answer.id \in Campaigns
      BY <1>3, <2>3, <2>10, <3>1 DEF Gathered, ExpectedOf
    <3>3. Done(t, answer)
      BY <2>10, <3>1
    <3>4. answer.other = IF tasks[t].comparison THEN Previous(tasks[t].id) ELSE None
      BY <1>1, <2>10, <3>1 DEF IInv, Current
    <3>5. tasks[t].step # "none" /\ answer.id = tasks[t].id
      BY <1>1, <2>10, <3>1
    <3> QED
      BY <1>3, <2>10, <3>2, <3>3, <3>4, <3>5, DoneKeepsIInv
  <2> QED
    BY <2>5, <2>6, <2>7, <2>8, <2>9, <2>10
<1> QED
  BY <1>1, <1>4, <1>5 DEF TaskStep

-----------------------------------------------------------------------------
(* The theorems. *)

LEMMA InitEstablishesIInv ==
  ASSUME Init
  PROVE  IInv
<1>1. PICK opened \in Opened : site = opened[1] /\ choice = opened[2]
  BY DEF Init
<1>2. /\ core = [step |-> "index", load |-> 1, index |-> 0, trends |-> 0]
      /\ fetches = [f \in Ids |-> IF f = 1
           THEN [url |-> Index, state |-> "pending", holds |-> 0] ELSE NoFetch]
      /\ loads = [l \in Ids |-> IF l = 1
           THEN [NoLoad EXCEPT !.url = Index, !.fetch = 1, !.state = "pending"] ELSE NoLoad]
      /\ bytes = <<[key |-> Index, promise |-> 1]>>
      /\ validated = <<[key |-> <<Index, 0>>, promise |-> 1]>>
      /\ effect = NoEffect /\ tasks = [t \in Tasks |-> NoTask]
      /\ selection = NoSelection /\ selectionError = FALSE /\ loading = FALSE
      /\ card = NoCard /\ choices = 0 /\ mishaps = 0
  BY DEF Init, Tasks, Key, Unreferenced
<1>3. CacheTypes
  <2>1. [url |-> Index, state |-> "pending", holds |-> 0] \in FetchRecords
        /\ NoFetch \in FetchRecords
    BY NamesOfDocuments DEF FetchRecords, NoFetch, States
  <2>2. NoLoad \in LoadRecords
    BY NothingIsTyped DEF LoadRecords, NoLoad, States
  <2>3. [NoLoad EXCEPT !.url = Index, !.fetch = 1, !.state = "pending"] \in LoadRecords
    BY <2>2, NamesOfDocuments, NothingIsTyped DEF LoadRecords, States
  <2>4. [key |-> Index, promise |-> 1] \in ByteEntries
        /\ [key |-> <<Index, 0>>, promise |-> 1] \in LoadEntries
    BY NamesOfDocuments, NothingIsTyped DEF ByteEntries, LoadEntries
  <2> QED
    BY <1>2, <2>1, <2>2, <2>3, <2>4 DEF CacheTypes
<1>4. TypeOK
  <2>1. core \in Cores
    BY <1>2, NothingIsTyped DEF Cores
  <2>2. /\ effect \in Effects /\ selection \in Selections /\ card \in Cards
        /\ tasks \in [Tasks -> TaskRecords]
    BY <1>2, NothingIsTyped
  <2>3. site \in Versions /\ {choice.detail, choice.comparison} \subseteq BOOLEAN
    BY <1>1, DashboardClientAssumption
  <2>4. {choices, mishaps} \subseteq Nat /\ {selectionError, loading} \subseteq BOOLEAN
    <3>1. choices = 0 /\ mishaps = 0
      BY DEF Init
    <3>2. selectionError = FALSE /\ loading = FALSE
      BY DEF Init
    <3>3. {choices, mishaps} \subseteq Nat
      BY <3>1
    <3>4. {selectionError, loading} \subseteq BOOLEAN
      BY <3>2, Zenon
    <3> QED
      BY <3>3, <3>4
  <2> QED
    BY <1>3, <2>1, <2>2, <2>3, <2>4 DEF TypeOK, HookTypes
<1>5. FetchesKept /\ LoadsKept /\ CoreKept
  <2>1. Entries(bytes) = {[key |-> Index, promise |-> 1]}
        /\ Entries(validated) = {[key |-> <<Index, 0>>, promise |-> 1]}
    BY <1>2 DEF Entries
  <2>2. Fetched(1, Index) /\ Awaited(1, Index, 0)
    BY <1>2, NothingIsTyped DEF Fetched, Awaited, NoLoad
  <2>3. \A l \in Ids : loads[l].state = "pending" =>
          l = 1 /\ loads[l].url = Index /\ loads[l].fetch = 1
    BY <1>2 DEF NoLoad
  <2>4. FetchesKept
    BY <2>1, <2>2, <2>3, NamesOfDocuments DEF FetchesKept
  <2>5. LoadsKept
    BY <2>1, <2>2 DEF LoadsKept
  <2>6. CoreKept
    BY <1>2, <2>2 DEF CoreKept, Unreferenced
  <2> QED
    BY <2>4, <2>5, <2>6
<1>6. \A t \in Tasks : tasks[t] = NoTask
  BY <1>2
<1>7. TasksKept
  <2>1. NoTask.step = "none"
    BY DEF NoTask
  <2> QED
    BY <1>6, <2>1 DEF TasksKept
<1>8. SelectionKept /\ CardKept
  BY <1>2 DEF SelectionKept, CardKept, NoSelection, NoCard
<1>9. Current
  BY <1>2, <1>6 DEF Current, Asked, NoTask, NoEffect
<1> QED
  BY <1>4, <1>5, <1>7, <1>8, <1>9 DEF IInv, Kept

LEMMA StepKeepsIInv ==
  ASSUME IInv, [Next]_vars
  PROVE  IInv'
<1>1. CASE Next
  BY <1>1, CoreStepKeepsIInv, EffectKeepsIInv, AnswerKeepsIInv, FetchesKeepIInv,
     LoadsKeepIInv, TaskStepKeepsIInv, ChooseKeepsIInv, OpenKeepsIInv, RedeployKeepsIInv
  DEF Next, Browser, Tasks
<1>2. CASE UNCHANGED vars
  <2>1. UNCHANGED <<site, caches, choice, hook, card, choices, mishaps>>
    BY <1>2 DEF vars
  <2>2. CachesKept' /\ AwaitedOn
    BY <2>1, SameCaches DEF IInv, Kept, TypeOK, CachesKept
  <2>3. site' \in Versions /\ {choices', mishaps'} \subseteq Nat
    BY <2>1 DEF IInv, TypeOK
  <2> QED
    BY <2>1, <2>2, <2>3, PromisesMove
<1> QED
  BY <1>1, <1>2

LEMMA IInvHolds == Spec => []IInv
  BY InitEstablishesIInv, StepKeepsIInv, PTL DEF Spec

\* The caches, the promises and the hook's state are what their records say, in
\* particular every campaign named is one of the history's.
THEOREM TypesHold == Spec => []TypeOK
<1>1. IInv => TypeOK
  BY DEF IInv
<1> QED
  BY <1>1, IInvHolds, PTL

\* However often the site is redeployed between the requests of one page, and
\* whatever the caches evict, the catalog, the verdicts and the evidence that
\* are shown are of the manifest shown with them.
THEOREM ShownTogetherWasExportedTogether == Spec => []ShownIsOneExport
<1>1. IInv => ShownIsOneExport
  BY DEF IInv, Kept, SelectionKept, CardKept, ShownIsOneExport, Dataset, NoSelection, NoCard
<1> QED
  BY <1>1, IInvHolds, PTL

\* In whatever order the answers to earlier and later choices come, the page
\* shows, loads or refuses what is chosen now.
THEOREM LatestChoiceIsAnswered == Spec => []AnswersTheChoice
<1>1. ASSUME IInv
      PROVE  AnswersTheChoice
  <2> DEFINE asked == SelectedId # None /\ choice.detail
  <2> SUFFICES ASSUME effect = Wanted
               PROVE  /\ loading <=> (asked /\ \E t \in Tasks :
                           /\ tasks[t].active /\ tasks[t].id = SelectedId
                           /\ tasks[t].comparison = choice.comparison)
                      /\ asked /\ ~loading =>
                           \/ selectionError
                           \/ /\ Dataset # NoSelection
                              /\ Dataset.other = IF choice.comparison
                                                 THEN Previous(SelectedId) ELSE None
                      /\ ~asked => Dataset = NoSelection /\ ~selectionError
    BY DEF AnswersTheChoice, Tasks
  <2>1. /\ effect.id = SelectedId /\ effect.detail = choice.detail
        /\ effect.comparison = choice.comparison
    BY DEF Wanted
  <2> QED
    BY <1>1, <2>1 DEF IInv, Current, Asked, Dataset, ForComparison
<1> QED
  BY <1>1, IInvHolds, PTL

=============================================================================
