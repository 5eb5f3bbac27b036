------------------------- MODULE ReproductionProofs -------------------------
(***************************************************************************)
(* Proofs about Reproduction: what an image identity says is true as long  *)
(* as nobody moved its tag, a build or a cached image answers what was     *)
(* asked, and a replay that reports ran what was recorded or says so, for  *)
(* every number of users, checkouts, contents, commits and mishaps.        *)
(***************************************************************************)
EXTENDS Reproduction, TLAPS

\* An image a builder made, of a source commit or of none.
IsImage(i) ==
  /\ DOMAIN i = {"recipe", "label", "base", "sha", "serial"}
  /\ i.label \in Recipes /\ i.sha \in Commits \cup {None}

\* An image whose tag, and whose cache file, is found by suffix s.
Suffixed(i, recipe, s) ==
  /\ i.sha \in Commits \cup {None} /\ recipe \in Recipes /\ Suffix(i.sha, recipe) = s

BuildFields == {"pc", "place", "sha", "pinned", "push", "recipe", "base", "image",
                "retagged", "edited", "identity"}
IdentityFields == {"reference", "image", "recipe", "base", "retagged", "edited"}

\* ProvenanceExact of one identity, whether its image was pushed or not.
Exact(i) ==
  /\ i.retagged = 0 =>
       /\ i.reference.image = i.image /\ i.image.base = i.base
       /\ ~i.edited => i.image.recipe = i.recipe
  /\ i.retagged <= 1 => i.image.label = i.recipe

\* What u built, if nobody else moved the tag.
Mine(u, i) ==
  /\ IsImage(i) /\ i.label = build[u].recipe /\ i.base = build[u].base
  /\ ~build[u].edited => i.recipe = build[u].recipe

TagsOK ==
  /\ DOMAIN tag = Suffixes
  /\ \A s \in Suffixes : tag[s] # NoImage =>
       IsImage(tag[s]) /\ Suffixed(tag[s], tag[s].label, s)

\* What the cache of one checkout holds under one suffix.
FileOK(file, s) ==
  file.state = "whole" =>
    /\ Exact(file.identity) /\ DOMAIN file.identity = IdentityFields
    /\ Suffixed(file.identity.image, file.identity.recipe, s)

CacheOK ==
  /\ DOMAIN cache = Places \X Suffixes
  /\ \A p \in Places, s \in Suffixes : FileOK(cache[<<p, s>>], s)

StoreOK ==
  /\ TagsOK /\ CacheOK
  /\ \A i \in made \cup images \cup digested \cup registry : IsImage(i)

\* Until its id is asked, the tag is u's own image or was moved; from then on
\* the image is, or the tag still names what was asked.
TagFits(u) ==
  LET b == build[u]
      now == tag[Own(u)]
  IN /\ b.pc = "built" /\ b.retagged = 0 => now = NoImage \/ Mine(u, now)
     /\ b.pc \in {"identified", "labelled", "pushed"} /\ b.retagged = 0 =>
          Mine(u, b.image) /\ now \in {NoImage, b.image}
     /\ b.pc = "identified" /\ b.retagged = 1 =>
          b.image.label = b.recipe \/ now \in {NoImage, b.image}

\* What a call of build_image has found out so far.
Knows(b) ==
  /\ DOMAIN b = BuildFields /\ DOMAIN b.identity = IdentityFields
  /\ b.retagged \in 0..2
  /\ b.pc \in Building => b.sha \in Commits \cup {None} /\ b.recipe \in Recipes
  /\ b.pc \in {"missed", "based"} => b.retagged = 0
  /\ b.pc \in Building \ {"missed"} /\ b.pinned # None => b.base = b.pinned
  /\ b.pc \in {"identified", "labelled", "pushed", "named", "opened"} =>
       IsImage(b.image) /\ b.image.sha = b.sha
  /\ b.pc \in {"labelled", "pushed", "named", "opened"} /\ b.retagged <= 1 =>
       b.image.label = b.recipe
  /\ b.pc \in {"named", "opened"} /\ b.retagged = 0 =>
       /\ b.push => b.identity.reference.image = b.image
       /\ b.image.base = b.base
       /\ ~b.edited => b.image.recipe = b.recipe

\* What it answers.
Answers(b) ==
  b.pc = "ready" =>
    /\ Exact(b.identity)
    /\ b.identity.image.sha = b.sha /\ b.identity.recipe = b.recipe
    /\ b.sha \in Commits \cup {None} /\ b.recipe \in Recipes
    /\ b.pinned # None => b.identity.base = b.pinned
    /\ ~b.push => b.identity.reference.image = b.identity.image

BuildsOK ==
  /\ DOMAIN build = Users
  /\ \A u \in Users :
       /\ Knows(build[u]) /\ Answers(build[u]) /\ TagFits(u)
       /\ build[u].pc \in Building => build[u].place \in Places

PrepFields == {"pc", "job", "content", "sha", "tags", "named", "image", "repository"}

\* One preparing invocation.
PrepOK(u) ==
  LET p == prep[u] IN
  /\ DOMAIN p = PrepFields
  /\ p.job # NoJob => p.job \in Jobs /\ place[p.job.place] \in Contents
  /\ p.pc = "idle" => p = Idle(p.job)
  /\ p.sha \in Commits \cup {None}
  /\ p.pc # "idle" => p.job # NoJob
  /\ p.pc \in {"resolved", "building"} => p.image = NoIdentity
  /\ p.pc = "resolved" => \A n \in p.named : n \in Names /\ p.sha \in Tagged(upstream, n)
  /\ p.pc = "building" => p.named \subseteq p.tags /\ build[u].sha = p.sha
  /\ p.pc \in {"obtained", "prepared", "running"} => p.image.recipe \in Recipes
  /\ p.image # NoIdentity => p.image.image.sha = p.sha /\ Exact(p.image)

PrepsOK ==
  /\ upstream \in Listings /\ DOMAIN place = Places
  /\ DOMAIN prep = Preparers /\ \A u \in Preparers : PrepOK(u)

RecordOK ==
  record # NoRecord =>
    /\ IsImage(record.image.reference.image)
    /\ record.measured[1] = record.image.reference.image
    /\ record.image.recipe \in Recipes /\ record.sha \in Commits \cup {None}

ReplayFields == {"pc", "at", "reference", "edits", "ran", "differences"}
Placed == {"checkout", "loaded", "rebuilding", "run", "ran", "reported"}
Recorded == {NoImage, record.image.reference.image, record.image.image}

\* The corpus is the recorded one until the user edits; after one edit it is
\* that or the one the checkout has since.
ReplayOK ==
  /\ DOMAIN replay = ReplayFields /\ replay.edits \in Nat
  /\ ~build[Replayer].push
  /\ replay.pc \notin {"idle", "failed"} => record # NoRecord
  /\ replay.pc = "adding" => record.repository \in Contents
  /\ replay.pc \notin Placed => replay.edits = 0
  /\ replay.pc \in Placed =>
       replay.at \in {Root, Worktree} /\ (replay.at = Worktree => replay.edits = 0)
  /\ replay.pc \in {"loaded", "rebuilding", "run"} /\ replay.edits = 0 =>
       CorpusOf[place[replay.at]] = record.corpus
  /\ replay.pc = "run" => replay.reference.image \in Recorded
  /\ replay.pc \in {"ran", "reported"} =>
       /\ replay.ran[1] \in Recorded
       /\ replay.edits = 0 => replay.ran[2] = record.corpus
  /\ replay.pc = "ran" /\ replay.edits = 1 =>
       replay.ran[2] \in {record.corpus, CorpusOf[place[replay.at]]}
  /\ ReplaySound

IInv == StoreOK /\ BuildsOK /\ PrepsOK /\ RecordOK /\ ReplayOK

-----------------------------------------------------------------------------
(* Suffixes and images. *)

\* A suffix tells the source commit.
LEMMA SuffixTells ==
  ASSUME NEW a \in Commits \cup {None}, NEW b \in Commits \cup {None},
         NEW r \in Recipes, NEW q \in Recipes, Suffix(a, r) = Suffix(b, q)
  PROVE  a = b
BY ResolverAssumption, ImageBuildAssumption DEF Suffix

LEMMA NoImageIsNone == ~IsImage(NoImage)
BY ImageBuildAssumption DEF IsImage, NoImage

LEMMA OwnIsSuffix ==
  ASSUME NEW u, build[u].sha \in Commits \cup {None}, build[u].recipe \in Recipes
  PROVE  Own(u) \in Suffixes
BY DEF Own, Suffix, Suffixes

\* NoBuild, and what Ask makes of it, for TagFits.
LEMMA TagFitsOf ==
  ASSUME NEW u, build'[u].pc \notin {"built", "identified", "labelled", "pushed"}
  PROVE  TagFits(u)'
BY DEF TagFits

LEMMA TagFitsStays ==
  ASSUME NEW u, TagFits(u), build'[u] = build[u],
         tag'[Own(u)] \in {tag[Own(u)], NoImage}
  PROVE  TagFits(u)'
<1>1. Own(u)' = Own(u)
  BY DEF Own
<1>2. \A i : Mine(u, i)' = Mine(u, i)
  BY DEF Mine, IsImage
<1> QED
  BY <1>1, <1>2 DEF TagFits

\* One builder's record changes.
LEMMA OneBuild ==
  ASSUME BuildsOK, NEW u \in Users, DOMAIN build' = Users, tag' = tag,
         \A v \in Users \ {u} : build'[v] = build[v],
         Knows(build'[u]), Answers(build'[u]), TagFits(u)',
         build'[u].pc \in Building => build'[u].place \in Places
  PROVE  BuildsOK'
<1>1. ASSUME NEW v \in Users
      PROVE  /\ Knows(build'[v]) /\ Answers(build'[v]) /\ TagFits(v)'
             /\ build'[v].pc \in Building => build'[v].place \in Places
  <2>1. CASE v = u
    BY <2>1
  <2>2. CASE v # u
    BY <2>2, TagFitsStays DEF BuildsOK
  <2> QED
    BY <2>1, <2>2
<1> QED
  BY <1>1 DEF BuildsOK, Knows, Answers, Exact, Building, IsImage

-----------------------------------------------------------------------------
(* build_image. *)

LEMMA AskKeeps ==
  ASSUME StoreOK, BuildsOK, NEW u \in Users, NEW at \in Places,
         NEW sha \in Commits \cup {None}, RecipeOf[place[at]] \in Recipes,
         NEW pinned, NEW push, Ask(u, at, sha, pinned, push), tag' = tag
  PROVE  BuildsOK' /\ build'[u].sha = sha /\ build'[u].push = push
<1> DEFINE recipe == RecipeOf[place[at]]
           file == cache[<<at, Suffix(sha, recipe)>>]
           hit == Usable(file, recipe, pinned, sha) /\ ~push
           b == build'[u]
<1>1. /\ DOMAIN build' = Users /\ \A v \in Users \ {u} : build'[v] = build[v]
      /\ b = [NoBuild EXCEPT !.pc = IF hit THEN "ready" ELSE "missed",
                !.place = at, !.sha = sha, !.pinned = pinned, !.push = push,
                !.recipe = recipe,
                !.identity = IF hit THEN file.identity ELSE NoIdentity]
  BY DEF Ask, BuildsOK
<1>2. /\ DOMAIN b = BuildFields /\ b.pc = (IF hit THEN "ready" ELSE "missed")
      /\ b.place = at /\ b.sha = sha /\ b.pinned = pinned /\ b.push = push
      /\ b.recipe = recipe /\ b.retagged = 0
      /\ b.identity = (IF hit THEN file.identity ELSE NoIdentity)
  BY <1>1 DEF NoBuild, BuildFields
<1>3. Suffix(sha, recipe) \in Suffixes
  BY DEF Suffix, Suffixes
<1>4. FileOK(file, Suffix(sha, recipe))
  BY <1>3 DEF StoreOK, CacheOK
<1>5. CASE hit
  <2>1. /\ file.state = "whole" /\ file.identity.recipe = recipe
        /\ pinned # None => file.identity.base = pinned
        /\ file.identity.reference.image = file.identity.image
    BY <1>5 DEF Usable
  <2>2. /\ Exact(file.identity) /\ DOMAIN file.identity = IdentityFields
        /\ Suffixed(file.identity.image, recipe, Suffix(sha, recipe))
    BY <1>4, <2>1 DEF FileOK
  <2>3. file.identity.image.sha = sha
    BY <2>2, SuffixTells DEF Suffixed
  <2> HIDE DEF b, file, recipe, hit
  <2>4. Knows(b) /\ Answers(b)
    BY <1>2, <1>5, <2>1, <2>2, <2>3 DEF Knows, Answers, Building, recipe
  <2>5. b.pc = "ready"
    BY <1>2, <1>5
  <2> QED
    BY <1>1, <1>2, <2>4, <2>5, TagFitsOf, OneBuild DEF b, Building
<1>6. CASE ~hit
  <2>1. DOMAIN b.identity = IdentityFields
    BY <1>2, <1>6 DEF NoIdentity, Identity, IdentityFields
  <2> HIDE DEF b, file, hit, recipe
  <2>2. Knows(b) /\ Answers(b)
    BY <1>2, <1>6, <2>1 DEF Knows, Answers, Building, recipe
  <2>3. b.pc = "missed"
    BY <1>2, <1>6
  <2> QED
    BY <1>1, <1>2, <2>2, <2>3, TagFitsOf, OneBuild DEF b
<1> QED
  BY <1>5, <1>6

\* A call that is over is forgotten.
LEMMA ForgetKeeps ==
  ASSUME BuildsOK, NEW u \in Users, build' = [build EXCEPT ![u] = NoBuild], tag' = tag
  PROVE  BuildsOK'
<1>1. /\ DOMAIN build' = Users /\ \A v \in Users \ {u} : build'[v] = build[v]
      /\ build'[u] = NoBuild
  BY DEF BuildsOK
<1>2. NoBuild.pc = "idle"
  BY DEF NoBuild
<1>3. Knows(NoBuild) /\ Answers(NoBuild)
  BY DEF Knows, Answers, NoBuild, BuildFields, NoIdentity, Identity, IdentityFields,
         Building
<1> QED
  BY <1>1, <1>2, <1>3, TagFitsOf, OneBuild DEF Building

LEMMA GoKeeps ==
  ASSUME StoreOK, BuildsOK, NEW u \in Users, Go(u, "failed"), tag' = tag
  PROVE  BuildsOK' /\ build'[u].sha = build[u].sha /\ build'[u].push = build[u].push
<1> DEFINE b == build'[u]
<1>1. /\ DOMAIN build' = Users /\ \A v \in Users \ {u} : build'[v] = build[v]
      /\ DOMAIN b = BuildFields /\ b.pc = "failed" /\ b.retagged = build[u].retagged
      /\ b.identity = build[u].identity
      /\ b.sha = build[u].sha /\ b.push = build[u].push
  BY DEF Go, BuildsOK, Knows, BuildFields
<1>2. Knows(b) /\ Answers(b)
  BY <1>1 DEF BuildsOK, Knows, Answers, Building
<1> QED
  BY <1>1, <1>2, TagFitsOf, OneBuild DEF Building

\* What a builder's steps leave as it was asked.
Same(u) ==
  /\ build'[u].sha = build[u].sha /\ build'[u].push = build[u].push
  /\ build'[u].recipe = build[u].recipe

LEMMA PullBaseKeeps ==
  ASSUME StoreOK, BuildsOK, NEW u \in Users, PullBase(u)
  PROVE  BuildsOK' /\ Same(u)
<1> DEFINE a == build[u]
           b == build'[u]
<1>1. /\ DOMAIN build' = Users /\ \A v \in Users \ {u} : build'[v] = build[v]
      /\ DOMAIN b = BuildFields /\ b.pc = "based" /\ a.pc = "missed"
      /\ b.base = (IF a.pinned = None THEN baseTag ELSE a.pinned)
      /\ b.pinned = a.pinned /\ b.retagged = a.retagged /\ b.identity = a.identity
      /\ b.sha = a.sha /\ b.push = a.push /\ b.recipe = a.recipe /\ b.place = a.place
      /\ tag' = tag
  BY DEF PullBase, At, docker, BuildsOK, Knows, BuildFields
<1>2. Knows(a) /\ (a.pc \in Building => a.place \in Places)
  BY DEF BuildsOK
<1> HIDE DEF a, b
<1>3. Knows(b) /\ Answers(b)
  BY <1>1, <1>2 DEF Knows, Answers, Building
<1>4. b.place \in Places
  BY <1>1, <1>2 DEF Building
<1> QED
  BY <1>1, <1>3, <1>4, TagFitsOf, OneBuild DEF b, a, Same

LEMMA InspectIdKeeps ==
  ASSUME StoreOK, BuildsOK, NEW u \in Users, InspectId(u)
  PROVE  BuildsOK' /\ Same(u)
<1> DEFINE a == build[u]
           b == build'[u]
           now == tag[Own(u)]
<1>1. /\ DOMAIN build' = Users /\ \A v \in Users \ {u} : build'[v] = build[v]
      /\ DOMAIN b = BuildFields /\ b.pc = "identified" /\ a.pc = "built"
      /\ b.image = now /\ now # NoImage
      /\ b.base = a.base /\ b.edited = a.edited
      /\ b.pinned = a.pinned /\ b.retagged = a.retagged /\ b.identity = a.identity
      /\ b.sha = a.sha /\ b.push = a.push /\ b.recipe = a.recipe /\ b.place = a.place
      /\ tag' = tag
  BY DEF InspectId, At, docker, BuildsOK, Knows, BuildFields
<1>2. /\ Knows(a) /\ TagFits(u) /\ (a.pc \in Building => a.place \in Places)
      /\ a.pc \in Building
  BY <1>1 DEF BuildsOK, Building
<1>3. Own(u) \in Suffixes /\ Own(u)' = Own(u)
  BY <1>1, <1>2, OwnIsSuffix DEF Knows, Own
<1>4. IsImage(now) /\ Suffixed(now, now.label, Own(u))
  BY <1>1, <1>3 DEF StoreOK, TagsOK
<1>5. now.sha = a.sha
  <2>1. Own(u) = Suffix(a.sha, a.recipe)
    BY DEF Own
  <2> QED
    BY <1>2, <1>4, <2>1, SuffixTells DEF Suffixed, Knows
<1>6. TagFits(u)'
  <2>1. a.retagged = 0 => Mine(u, now)
    BY <1>1, <1>2 DEF TagFits
  <2>2. b.retagged = 0 =>
          /\ DOMAIN b.image = {"recipe", "label", "base", "sha", "serial"}
          /\ b.image.label \in Recipes /\ b.image.sha \in Commits \cup {None}
          /\ b.image.label = b.recipe /\ b.image.base = b.base
          /\ ~b.edited => b.image.recipe = b.recipe
    <3> HIDE DEF now, a, b
    <3>1. b.retagged = 0 => Mine(u, now)
      BY <1>1, <2>1
    <3> QED
      BY <1>1, <3>1 DEF Mine, IsImage, a
  <2>3. now' = b.image
    BY <1>1, <1>3
  <2>4. b.retagged = 0 => Mine(u, build[u].image)'
    BY <2>2 DEF Mine, IsImage
  <2> QED
    BY <1>1, <2>3, <2>4 DEF TagFits
<1> HIDE DEF a, b, now
<1>7. Knows(b) /\ Answers(b)
  BY <1>1, <1>2, <1>4, <1>5 DEF Knows, Answers, Building
<1>8. b.place \in Places
  BY <1>1, <1>2
<1> QED
  BY <1>1, <1>6, <1>7, <1>8, OneBuild DEF b, a, Same

LEMMA InspectLabelsKeeps ==
  ASSUME StoreOK, BuildsOK, NEW u \in Users, InspectLabels(u)
  PROVE  BuildsOK' /\ Same(u)
<1> DEFINE a == build[u]
           b == build'[u]
           now == tag[Own(u)]
           next == IF a.push THEN "labelled" ELSE "named"
<1>1. /\ a.pc = "identified" /\ now # NoImage /\ tag' = tag
      /\ \/ Go(u, "failed")
         \/ now.label = a.recipe /\ Go(u, next)
  BY DEF InspectLabels, At, docker, Go
<1>2. CASE Go(u, "failed")
  BY <1>1, <1>2, GoKeeps DEF Same, Go, BuildsOK, Knows, BuildFields
<1>3. CASE now.label = a.recipe /\ Go(u, next)
  <2>1. /\ DOMAIN build' = Users /\ \A v \in Users \ {u} : build'[v] = build[v]
        /\ DOMAIN b = BuildFields /\ b.pc = next
        /\ b.image = a.image /\ b.base = a.base /\ b.edited = a.edited
        /\ b.pinned = a.pinned /\ b.retagged = a.retagged /\ b.identity = a.identity
        /\ b.sha = a.sha /\ b.push = a.push /\ b.recipe = a.recipe /\ b.place = a.place
    BY <1>3 DEF Go, BuildsOK, Knows, BuildFields
  <2>2. /\ Knows(a) /\ TagFits(u) /\ a.place \in Places
    BY <1>1 DEF BuildsOK, Building
  <2>3. next \in {"labelled", "named"} /\ (next = "named" => ~a.push)
    OBVIOUS
  <2>4. Own(u)' = Own(u)
    BY <2>1 DEF Own
  <2>5. a.retagged = 0 => Mine(u, a.image) /\ now \in {NoImage, a.image}
    BY <1>1, <2>2 DEF TagFits
  <2>6. a.retagged = 1 => a.image.label = a.recipe
    BY <1>1, <1>3, <2>2 DEF TagFits
  <2>7. Mine(u, a.image) => Mine(u, a.image)'
    BY <2>1 DEF Mine, IsImage
  <2>8. TagFits(u)'
    <3>1. now' = now
      BY <1>1, <2>4
    <3> QED
      BY <2>1, <2>3, <2>5, <2>7, <3>1 DEF TagFits
  <2>9. a.retagged = 0 => /\ a.image.label = a.recipe /\ a.image.base = a.base
                          /\ ~a.edited => a.image.recipe = a.recipe
    BY <2>5 DEF Mine
  <2> HIDE DEF a, b, now, next
  <2>10. Knows(b) /\ Answers(b)
    BY <1>1, <2>1, <2>2, <2>3, <2>6, <2>9 DEF Knows, Answers, Building
  <2>11. b.place \in Places
    BY <2>1, <2>2
  <2> QED
    BY <1>1, <2>1, <2>8, <2>10, <2>11, OneBuild DEF b, a, Same
<1> QED
  BY <1>1, <1>2, <1>3

LEMMA PushKeeps ==
  ASSUME StoreOK, BuildsOK, NEW u \in Users, Push(u)
  PROVE  StoreOK' /\ BuildsOK' /\ Same(u)
<1> DEFINE a == build[u]
           b == build'[u]
<1>1. /\ DOMAIN build' = Users /\ \A v \in Users \ {u} : build'[v] = build[v]
      /\ DOMAIN b = BuildFields /\ b.pc = "pushed" /\ a.pc = "labelled"
      /\ b.image = a.image /\ b.base = a.base /\ b.edited = a.edited
      /\ b.pinned = a.pinned /\ b.retagged = a.retagged /\ b.identity = a.identity
      /\ b.sha = a.sha /\ b.push = a.push /\ b.recipe = a.recipe /\ b.place = a.place
      /\ tag' = tag
  BY DEF Push, At, Go, BuildsOK, Knows, BuildFields
<1>2. Knows(a) /\ TagFits(u) /\ a.place \in Places
  BY <1>1 DEF BuildsOK, Building
<1>3. Own(u) \in Suffixes /\ Own(u)' = Own(u)
  BY <1>1, <1>2, OwnIsSuffix DEF Knows, Own, Building
<1>4. IsImage(tag[Own(u)])
  BY <1>3 DEF StoreOK, TagsOK, Push
<1>5. StoreOK'
  BY <1>4 DEF Push, StoreOK, TagsOK, CacheOK, FileOK, Suffixed, Exact, IsImage
<1>6. TagFits(u)'
  <2>1. Mine(u, a.image) => Mine(u, a.image)'
    BY <1>1 DEF Mine, IsImage
  <2> QED
    BY <1>1, <1>2, <1>3, <2>1 DEF TagFits
<1> HIDE DEF a, b
<1>7. Knows(b) /\ Answers(b)
  BY <1>1, <1>2 DEF Knows, Answers, Building
<1> QED
  BY <1>1, <1>2, <1>5, <1>6, <1>7, OneBuild DEF b, a, Same

LEMMA InspectDigestKeeps ==
  ASSUME StoreOK, BuildsOK, NEW u \in Users, InspectDigest(u)
  PROVE  BuildsOK' /\ Same(u)
<1> DEFINE a == build[u]
           b == build'[u]
           now == tag[Own(u)]
<1>1. /\ DOMAIN build' = Users /\ \A v \in Users \ {u} : build'[v] = build[v]
      /\ DOMAIN b = BuildFields /\ b.pc \in {"named", "failed"} /\ a.pc = "pushed"
      /\ now # NoImage
      /\ b.image = a.image /\ b.base = a.base /\ b.edited = a.edited
      /\ b.pinned = a.pinned /\ b.retagged = a.retagged
      /\ b.sha = a.sha /\ b.push = a.push /\ b.recipe = a.recipe /\ b.place = a.place
      /\ tag' = tag
  BY DEF InspectDigest, At, docker, BuildsOK, Knows, BuildFields
<1>2. /\ b.identity.reference.image = now /\ DOMAIN b.identity = IdentityFields
  BY DEF InspectDigest, BuildsOK, Knows, BuildFields, IdentityFields, Reference
<1>3. Knows(a) /\ TagFits(u) /\ a.place \in Places
  BY <1>1 DEF BuildsOK, Building
<1>4. a.retagged = 0 => Mine(u, a.image) /\ now = a.image
  BY <1>1, <1>3 DEF TagFits
<1>5. a.retagged = 0 => /\ a.image.base = a.base
                        /\ ~a.edited => a.image.recipe = a.recipe
  BY <1>4 DEF Mine
<1> HIDE DEF a, b, now
<1>6. Knows(b) /\ Answers(b)
  BY <1>1, <1>2, <1>3, <1>4, <1>5 DEF Knows, Answers, Building
<1> QED
  BY <1>1, <1>3, <1>6, TagFitsOf, OneBuild DEF b, a, Same

\* A cache file is replaced by one that is as good.
LEMMA OneFile ==
  ASSUME StoreOK, NEW p, NEW s, NEW file, FileOK(file, s),
         cache' = [cache EXCEPT ![<<p, s>>] = file],
         UNCHANGED <<made, images, digested, registry, tag>>
  PROVE  StoreOK'
<1>1. DOMAIN cache' = Places \X Suffixes
  BY DEF StoreOK, CacheOK
<1>2. ASSUME NEW q \in Places, NEW t \in Suffixes
      PROVE  FileOK(cache'[<<q, t>>], t)
  <2>1. FileOK(cache[<<q, t>>], t)
    BY DEF StoreOK, CacheOK
  <2>2. <<q, t>> \in DOMAIN cache
    BY DEF StoreOK, CacheOK
  <2>3. CASE <<q, t>> = <<p, s>>
    BY <2>2, <2>3
  <2>4. CASE <<q, t>> # <<p, s>>
    BY <2>1, <2>2, <2>4
  <2> QED
    BY <2>3, <2>4
<1>3. CacheOK'
  BY <1>1, <1>2 DEF CacheOK, FileOK, Exact, Suffixed
<1> QED
  BY <1>3 DEF StoreOK, TagsOK, IsImage, Suffixed

LEMMA OpenCacheKeeps ==
  ASSUME StoreOK, BuildsOK, NEW u \in Users, OpenCache(u)
  PROVE  StoreOK' /\ BuildsOK' /\ Same(u)
<1> DEFINE a == build[u]
           b == build'[u]
<1>1. /\ DOMAIN build' = Users /\ \A v \in Users \ {u} : build'[v] = build[v]
      /\ DOMAIN b = BuildFields /\ b.pc = "opened" /\ a.pc = "named"
      /\ b.image = a.image /\ b.base = a.base /\ b.edited = a.edited
      /\ b.pinned = a.pinned /\ b.retagged = a.retagged /\ b.identity = a.identity
      /\ b.sha = a.sha /\ b.push = a.push /\ b.recipe = a.recipe /\ b.place = a.place
      /\ tag' = tag
  BY DEF OpenCache, At, Go, docker, BuildsOK, Knows, BuildFields
<1>2. Knows(a) /\ a.place \in Places
  BY <1>1 DEF BuildsOK, Building
<1>3. StoreOK'
  <2>1. FileOK(Torn, Own(u))
    BY DEF FileOK, Torn
  <2> QED
    BY <2>1, OneFile DEF OpenCache, docker
<1> HIDE DEF a, b
<1>4. Knows(b) /\ Answers(b)
  BY <1>1, <1>2 DEF Knows, Answers, Building
<1> QED
  BY <1>1, <1>2, <1>3, <1>4, TagFitsOf, OneBuild DEF b, a, Same

\* The answer is what was found out.
LEMMA ResultIsExact ==
  ASSUME BuildsOK, NEW u \in Users, build[u].pc = "opened"
  PROVE  /\ Exact(Result(u)) /\ DOMAIN Result(u) = IdentityFields
         /\ Suffixed(Result(u).image, Result(u).recipe, Own(u))
         /\ Result(u).image.sha = build[u].sha /\ Result(u).recipe = build[u].recipe
         /\ build[u].pinned # None => Result(u).base = build[u].pinned
         /\ ~build[u].push => Result(u).reference.image = Result(u).image
<1> DEFINE a == build[u]
           r == Result(u)
<1>1. Knows(a)
  BY DEF BuildsOK
<1>2. /\ DOMAIN r = IdentityFields
      /\ r.image = a.image /\ r.recipe = a.recipe /\ r.base = a.base
      /\ r.retagged = a.retagged /\ r.edited = a.edited
      /\ a.push => r.reference = a.identity.reference
      /\ ~a.push => r.reference.image = a.image
  BY DEF Result, Identity, IdentityFields, Reference
<1>3. Own(u) = Suffix(a.sha, a.recipe)
  BY DEF Own
<1> HIDE DEF a, r
<1>4. a.pc = "opened"
  BY DEF a
<1>5. Exact(r)
  BY <1>1, <1>2, <1>4 DEF Exact, Knows
<1>6. Suffixed(r.image, r.recipe, Own(u))
  BY <1>1, <1>2, <1>3, <1>4 DEF Suffixed, Knows, Building, IsImage
<1>7. r.image.sha = a.sha /\ (a.pinned # None => r.base = a.pinned)
  BY <1>1, <1>2, <1>4 DEF Knows, Building
<1> QED
  BY <1>2, <1>5, <1>6, <1>7 DEF a, r

LEMMA WriteCacheKeeps ==
  ASSUME StoreOK, BuildsOK, NEW u \in Users, WriteCache(u)
  PROVE  StoreOK' /\ BuildsOK' /\ Same(u)
<1> DEFINE a == build[u]
           b == build'[u]
<1>1. /\ DOMAIN build' = Users /\ \A v \in Users \ {u} : build'[v] = build[v]
      /\ DOMAIN b = BuildFields /\ b.pc = "ready" /\ a.pc = "opened"
      /\ b.identity = Result(u) /\ b.retagged = 0 /\ b.pinned = a.pinned
      /\ b.sha = a.sha /\ b.push = a.push /\ b.recipe = a.recipe
      /\ tag' = tag
  BY DEF WriteCache, At, docker, BuildsOK, Knows, BuildFields
<1>2. Knows(a)
  BY DEF BuildsOK
<1>3. StoreOK'
  <2>1. PICK file : /\ file = Whole(Result(u)) \/ file = Torn
                    /\ cache' = [cache EXCEPT ![<<build[u].place, Own(u)>>] = file]
    BY DEF WriteCache
  <2>2. FileOK(file, Own(u))
    BY <1>1, <2>1, ResultIsExact DEF FileOK, Whole, Torn
  <2> QED
    BY <2>1, <2>2, OneFile DEF WriteCache, docker
<1>4. /\ Exact(Result(u)) /\ DOMAIN Result(u) = IdentityFields
      /\ Result(u).image.sha = a.sha /\ Result(u).recipe = a.recipe
      /\ a.pinned # None => Result(u).base = a.pinned
      /\ ~a.push => Result(u).reference.image = Result(u).image
  BY <1>1, ResultIsExact
<1> HIDE DEF a, b
<1>5. Knows(b)
  BY <1>1, <1>2, <1>4 DEF Knows, Building
<1>6. Answers(b)
  BY <1>1, <1>2, <1>4 DEF Knows, Answers, Building
<1> QED
  BY <1>1, <1>3, <1>5, <1>6, TagFitsOf, OneBuild DEF b, a, Same, Building

\* What is built is of the inputs, or the cached layers of an image that is.
LEMMA OutcomeIsMine ==
  ASSUME StoreOK, NEW recipe, NEW label \in Recipes, NEW base,
         NEW sha \in Commits \cup {None},
         NEW i \in Outcomes([recipe |-> recipe, label |-> label, base |-> base,
                             sha |-> sha, serial |-> 0])
  PROVE  /\ IsImage(i) /\ i.recipe = recipe /\ i.label = label /\ i.base = base
         /\ i.sha = sha
<1> DEFINE inputs == [recipe |-> recipe, label |-> label, base |-> base, sha |-> sha,
                      serial |-> 0]
<1>1. \/ i \in made /\ [i EXCEPT !.serial = 0] = inputs
      \/ \E n \in 1..MaxSerial : i = [inputs EXCEPT !.serial = n]
  BY DEF Outcomes
<1>2. CASE i \in made /\ [i EXCEPT !.serial = 0] = inputs
  <2>1. IsImage(i)
    BY <1>2 DEF StoreOK
  <2>2. DOMAIN i = {"recipe", "label", "base", "sha", "serial"}
    BY <2>1 DEF IsImage
  <2>3. /\ [i EXCEPT !.serial = 0].recipe = i.recipe
        /\ [i EXCEPT !.serial = 0].label = i.label
        /\ [i EXCEPT !.serial = 0].base = i.base
        /\ [i EXCEPT !.serial = 0].sha = i.sha
    BY <2>2
  <2> QED
    BY <1>2, <2>1, <2>3
<1>3. CASE \E n \in 1..MaxSerial : i = [inputs EXCEPT !.serial = n]
  BY <1>3 DEF IsImage
<1> QED
  BY <1>1, <1>2, <1>3

LEMMA DockerBuildKeeps ==
  ASSUME StoreOK, BuildsOK, NEW u \in Users, DockerBuild(u)
  PROVE  /\ StoreOK' /\ BuildsOK' /\ Same(u)
         /\ \A v \in Users \ {u} : Same(v)
<1> DEFINE a == build[u]
           s == Own(u)
<1>1. a.pc = "based" /\ Knows(a) /\ a.place \in Places
  BY DEF DockerBuild, At, BuildsOK, Building
<1>2. a.sha \in Commits \cup {None} /\ a.recipe \in Recipes /\ a.retagged = 0
  BY <1>1 DEF Knows, Building
<1>3. s \in Suffixes
  BY <1>2, OwnIsSuffix
<1>4. PICK image \in Outcomes([recipe |-> RecipeOf[place[a.place]], label |-> a.recipe,
                              base |-> a.base, sha |-> a.sha, serial |-> 0]) :
        LET loses(v) == /\ v # u /\ Own(v) = s /\ tag[s] # image
                        /\ build[v].pc \in {"built", "identified", "labelled", "pushed"}
        IN /\ made' = made \cup {image} /\ images' = images \cup {image}
           /\ tag' = [tag EXCEPT ![s] = image]
           /\ build' = [v \in Users |->
                CASE v = u -> [a EXCEPT !.pc = "built", !.edited = image.recipe # a.recipe]
                  [] loses(v) -> [build[v] EXCEPT !.retagged = IF @ < 2 THEN @ + 1 ELSE @]
                  [] OTHER -> build[v]]
  BY DEF DockerBuild
<1>5. /\ IsImage(image) /\ image.label = a.recipe /\ image.base = a.base
      /\ image.sha = a.sha
  BY <1>2, OutcomeIsMine
<1>6. /\ DOMAIN tag' = Suffixes /\ tag'[s] = image
      /\ \A t \in Suffixes \ {s} : tag'[t] = tag[t]
  BY <1>3, <1>4 DEF StoreOK, TagsOK
<1>7. StoreOK'
  <2>1. Suffixed(image, image.label, s)
    BY <1>2, <1>5 DEF Suffixed, Own
  <2>2. TagsOK'
    BY <1>5, <1>6, <2>1 DEF StoreOK, TagsOK, IsImage, Suffixed
  <2>3. cache' = cache /\ digested' = digested /\ registry' = registry
    BY DEF DockerBuild
  <2> QED
    BY <1>4, <1>5, <2>2, <2>3 DEF StoreOK, CacheOK, FileOK, Exact, Suffixed, IsImage
<1>8. DOMAIN build' = Users
  BY <1>4
<1>9. /\ Knows(build'[u]) /\ Answers(build'[u]) /\ TagFits(u)' /\ Same(u)
      /\ build'[u].place \in Places
  <2> DEFINE b == build'[u]
  <2>1. b = [a EXCEPT !.pc = "built", !.edited = image.recipe # a.recipe]
    BY <1>4
  <2>2. /\ DOMAIN b = BuildFields /\ b.pc = "built"
        /\ b.base = a.base /\ b.pinned = a.pinned /\ b.retagged = 0
        /\ b.identity = a.identity /\ b.sha = a.sha /\ b.push = a.push
        /\ b.recipe = a.recipe /\ b.place = a.place
    BY <1>1, <1>2, <2>1 DEF Knows, BuildFields
  <2>3. ~b.edited => image.recipe = b.recipe
    BY <1>1, <2>1, <2>2 DEF Knows, BuildFields
  <2>4. Own(u)' = s /\ tag'[Own(u)'] = image
    BY <1>6, <2>2 DEF Own
  <2>5. TagFits(u)'
    BY <1>5, <2>2, <2>3, <2>4 DEF TagFits, Mine, IsImage
  <2>6. Knows(b) /\ Answers(b)
    <3> HIDE DEF a, b
    <3> QED
      BY <1>1, <1>2, <2>2 DEF Knows, Answers, Building
  <2> QED
    BY <1>1, <2>2, <2>5, <2>6 DEF Same
<1>10. ASSUME NEW v \in Users \ {u}
       PROVE  /\ Knows(build'[v]) /\ Answers(build'[v]) /\ TagFits(v)' /\ Same(v)
              /\ build'[v].pc \in Building => build'[v].place \in Places
  <2> DEFINE loses == /\ Own(v) = s /\ tag[s] # image
                      /\ build[v].pc \in {"built", "identified", "labelled", "pushed"}
             d == build[v]
             e == build'[v]
  <2>1. /\ Knows(d) /\ Answers(d) /\ TagFits(v) /\ (d.pc \in Building => d.place \in Places)
    BY DEF BuildsOK
  <2>2. CASE ~loses
    <3>1. e = d
      BY <1>4, <2>2
    <3>2. CASE tag'[Own(v)] = tag[Own(v)]
      BY <2>1, <3>1, <3>2, TagFitsStays DEF Same
    <3>3. CASE tag'[Own(v)] # tag[Own(v)]
      <4>1. d.pc \notin {"built", "identified", "labelled", "pushed"}
        <5>1. SUFFICES ASSUME d.pc \in {"built", "identified", "labelled", "pushed"}
                       PROVE  FALSE
          OBVIOUS
        <5>2. Own(v) \in Suffixes
          BY <2>1, <5>1, OwnIsSuffix DEF Knows, Building
        <5> QED
          BY <1>6, <2>2, <3>3, <5>1, <5>2
      <4> QED
        BY <2>1, <3>1, <4>1, TagFitsOf DEF Same
    <3> QED
      BY <3>2, <3>3
  <2>3. CASE loses
    <3>1. e = [d EXCEPT !.retagged = IF @ < 2 THEN @ + 1 ELSE @]
      BY <1>4, <2>3
    <3>2. /\ DOMAIN e = BuildFields /\ e.pc = d.pc /\ e.image = d.image
          /\ e.base = d.base /\ e.edited = d.edited /\ e.pinned = d.pinned
          /\ e.identity = d.identity /\ e.sha = d.sha /\ e.push = d.push
          /\ e.recipe = d.recipe /\ e.place = d.place
          /\ e.retagged = IF d.retagged < 2 THEN d.retagged + 1 ELSE d.retagged
      BY <2>1, <3>1 DEF Knows, BuildFields
    <3>3. e.retagged \in 1..2 /\ (e.retagged = 1 => d.retagged = 0)
      BY <2>1, <3>2 DEF Knows
    <3>4. d.pc \in {"identified", "labelled", "pushed"} /\ d.retagged = 0 =>
            d.image.label = d.recipe
      BY <2>1 DEF TagFits, Mine
    <3>5. TagFits(v)'
      BY <3>2, <3>3, <3>4 DEF TagFits
    <3> HIDE DEF d, e
    <3>6. d.pc \in {"built", "identified", "labelled", "pushed"}
      BY <2>3 DEF d
    <3>7. Knows(e) /\ Answers(e)
      BY <2>1, <3>2, <3>3, <3>4, <3>6 DEF Knows, Answers, Building
    <3> QED
      BY <2>1, <3>2, <3>5, <3>7 DEF Same, d, e
  <2> QED
    BY <2>2, <2>3
<1>11. BuildsOK'
  <2>1. \A v \in Users : /\ Knows(build'[v]) /\ Answers(build'[v]) /\ TagFits(v)'
                         /\ build'[v].pc \in Building => build'[v].place \in Places
    BY <1>9, <1>10
  <2> QED
    BY <1>8, <2>1 DEF BuildsOK, Knows, Answers, Exact, Building, IsImage
<1> QED
  BY <1>7, <1>9, <1>10, <1>11

LEMMA StoreStays ==
  ASSUME StoreOK, UNCHANGED <<docker, cache>>
  PROVE  StoreOK'
BY DEF StoreOK, TagsOK, CacheOK, FileOK, Exact, Suffixed, IsImage, docker

LEMMA BuildsStay ==
  ASSUME BuildsOK, UNCHANGED <<build, tag>>
  PROVE  BuildsOK'
<1>1. \A u \in Users : TagFits(u)'
  BY TagFitsStays DEF BuildsOK
<1> QED
  BY <1>1 DEF BuildsOK, Knows, Answers, Exact, Building, IsImage

\* One step of build_image, or its failure.
LEMMA BuildingKeeps ==
  ASSUME StoreOK, BuildsOK, NEW u \in Users, BuildStep(u) \/ BuildFails(u)
  PROVE  /\ StoreOK' /\ BuildsOK' /\ place' = place
         /\ \A v \in Users : /\ build'[v].sha = build[v].sha
                             /\ build'[v].push = build[v].push
<1>1. /\ place' = place
      /\ DockerBuild(u) \/ \A v \in Users \ {u} : build'[v] = build[v]
  <2>1. CASE DockerBuild(u)
    BY <2>1 DEF DockerBuild
  <2>2. CASE ~DockerBuild(u)
    BY <2>2 DEF BuildStep, BuildFails, PullBase, InspectId, InspectLabels, Push,
                InspectDigest, OpenCache, WriteCache, Go, BuildsOK
  <2> QED
    BY <2>1, <2>2
<1>2. CASE PullBase(u)
  BY <1>1, <1>2, PullBaseKeeps, StoreStays DEF PullBase, Same, DockerBuild, At
<1>3. CASE DockerBuild(u)
  BY <1>1, <1>3, DockerBuildKeeps DEF Same
<1>4. CASE InspectId(u)
  BY <1>1, <1>4, InspectIdKeeps, StoreStays DEF InspectId, Same, DockerBuild, At
<1>5. CASE InspectLabels(u)
  BY <1>1, <1>5, InspectLabelsKeeps, StoreStays DEF InspectLabels, Same, DockerBuild, At
<1>6. CASE Push(u)
  BY <1>1, <1>6, PushKeeps DEF Push, Same, DockerBuild, At
<1>7. CASE InspectDigest(u)
  BY <1>1, <1>7, InspectDigestKeeps, StoreStays DEF InspectDigest, Same, DockerBuild, At
<1>8. CASE OpenCache(u)
  BY <1>1, <1>8, OpenCacheKeeps DEF OpenCache, Same, DockerBuild, At
<1>9. CASE WriteCache(u)
  BY <1>1, <1>9, WriteCacheKeeps DEF WriteCache, Same, DockerBuild, At
<1>10. CASE BuildFails(u)
  <2>1. Go(u, "failed") /\ UNCHANGED <<docker, cache>>
    BY <1>10 DEF BuildFails
  <2>2. tag' = tag /\ \A v \in Users \ {u} : build'[v] = build[v]
    BY <2>1 DEF docker, Go, BuildsOK
  <2> QED
    BY <1>1, <2>1, <2>2, GoKeeps, StoreStays
<1> QED
  BY <1>2, <1>3, <1>4, <1>5, <1>6, <1>7, <1>8, <1>9, <1>10 DEF BuildStep

-----------------------------------------------------------------------------
(* Preparations. *)

LEMMA RepliesAreCommits ==
  ASSUME NEW up \in Listings, NEW request
  PROVE  /\ \A n \in Names : up.heads[n] \in Commits \cup {None}
         /\ \A n \in Names : TagCommit(up.tags[n]) \in Commits \cup {None}
         /\ request = "latest" \/ request \in Commits \cup TagObjects \cup Names =>
              Resolved(up, request) \subseteq Commits
<1>1. \A n \in Names : up.heads[n] \in Commits \cup {None}
  BY DEF Listings
<1>2. \A n \in Names : TagCommit(up.tags[n]) \in Commits \cup {None}
  <2> SUFFICES ASSUME NEW n \in Names
               PROVE  TagCommit(up.tags[n]) \in Commits \cup {None}
    OBVIOUS
  <2> DEFINE t == up.tags[n]
  <2>1. t \in Tags
    BY DEF Listings
  <2> HIDE DEF t
  <2> SUFFICES TagCommit(t) \in Commits \cup {None}
    BY DEF t
  <2>2. CASE t = NoTag
    BY <2>2 DEF NoTag, TagCommit
  <2>3. CASE t \in [object : Commits, peeled : {None}]
    BY <2>3 DEF TagCommit
  <2>4. CASE t \in [object : TagObjects, peeled : Commits]
    BY <2>4, ResolverAssumption DEF TagCommit
  <2> QED
    BY <2>1, <2>2, <2>3, <2>4 DEF Tags
<1>3. ASSUME request = "latest" \/ request \in Commits \cup TagObjects \cup Names
      PROVE  Resolved(up, request) \subseteq Commits
  <2>1. CASE request = "latest"
    <3>1. up.default \in Names
      BY DEF Listings
    <3> QED
      BY <1>1, <2>1, <3>1, ResolverAssumption DEF Resolved, Latest, Branch
  <2>2. CASE request # "latest" /\ request \in Commits \cup TagObjects
    BY <2>2, ResolverAssumption DEF Resolved, FullSha
  <2>3. CASE request # "latest" /\ request \notin Commits \cup TagObjects
    <3>1. request \in Names
      BY <1>3, <2>3
    <3> QED
      BY <1>1, <1>2, <2>3, <3>1, ResolverAssumption DEF Resolved, Named, Branch, Tagged
  <2> QED
    BY <2>1, <2>2, <2>3
<1> QED
  BY <1>1, <1>2, <1>3

\* What the first listing named, the second one lists if nothing moved.
LEMMA NamedIsListed ==
  ASSUME NEW up \in Listings, NEW n \in Names, NEW sha, sha \in Tagged(up, n)
  PROVE  n \in ExactTags(up, sha)
<1>1. up.tags[n] \in Tags
  BY DEF Listings
<1> QED
  BY <1>1 DEF Tags, NoTag, TagCommit, Tagged, ExactTags

LEMMA PrepStays ==
  ASSUME NEW u, PrepOK(u), prep'[u] = prep[u], upstream' = upstream,
         \A p \in Places : place[p] \in Contents => place'[p] \in Contents,
         build'[u].sha = build[u].sha
  PROVE  PrepOK(u)'
BY DEF PrepOK, Jobs, Exact, Idle

LEMMA PrepsStay ==
  ASSUME PrepsOK, UNCHANGED <<prep, upstream>>, DOMAIN place' = Places,
         \A p \in Places : place[p] \in Contents => place'[p] \in Contents,
         \A u \in Preparers : build'[u].sha = build[u].sha
  PROVE  PrepsOK'
<1>1. \A u \in Preparers : PrepOK(u)'
  BY PrepStays DEF PrepsOK
<1> QED
  BY <1>1 DEF PrepsOK

LEMMA OnePrep ==
  ASSUME PrepsOK, NEW u \in Preparers, UNCHANGED <<upstream, place>>,
         DOMAIN prep' = Preparers,
         \A v \in Preparers \ {u} : prep'[v] = prep[v] /\ build'[v].sha = build[v].sha,
         PrepOK(u)'
  PROVE  PrepsOK'
<1>1. \A v \in Preparers : PrepOK(v)'
  BY PrepStays DEF PrepsOK
<1> QED
  BY <1>1 DEF PrepsOK

LEMMA ReplayStays ==
  ASSUME ReplayOK, replay' = replay, record' = record \/ record = NoRecord,
         place' = place, build'[Replayer].push = build[Replayer].push
  PROVE  ReplayOK'
<1>1. CASE record' = record
  BY <1>1 DEF ReplayOK, Recorded, Placed, ReplaySound, RecordedClean
<1>2. CASE record = NoRecord
  <2>1. replay.pc \in {"idle", "failed"}
    BY <1>2 DEF ReplayOK
  <2> QED
    BY <2>1 DEF ReplayOK, Placed, ReplaySound
<1> QED
  BY <1>1, <1>2

\* What every step of a preparation shows.
PrepKept(u) ==
  /\ StoreOK' /\ BuildsOK' /\ PrepsOK' /\ RecordOK' /\ place' = place
  /\ \A v \in Users \ {u} : build'[v].push = build[v].push
  /\ record' = record \/ record = NoRecord

\* Nothing but the invocation itself changes.
LEMMA PrepAlone ==
  ASSUME StoreOK, BuildsOK, PrepsOK, RecordOK, NEW u \in Preparers,
         UNCHANGED <<imageVars, upstream, record>>, DOMAIN prep' = Preparers,
         \A v \in Preparers \ {u} : prep'[v] = prep[v], PrepOK(u)'
  PROVE  PrepKept(u)
<1>1. StoreOK' /\ BuildsOK'
  BY StoreStays, BuildsStay DEF imageVars, docker
<1>2. PrepsOK'
  BY OnePrep DEF imageVars
<1> QED
  BY <1>1, <1>2 DEF PrepKept, RecordOK, IsImage, imageVars

LEMMA IdleIsOK ==
  ASSUME NEW u \in Preparers, PrepOK(u), prep'[u] = Idle(Job(u)), place' = place
  PROVE  PrepOK(u)'
<1>1. /\ prep'[u].pc = "idle" /\ prep'[u].job = prep[u].job /\ prep'[u].image = NoIdentity
      /\ prep'[u].sha = None /\ DOMAIN prep'[u] = PrepFields
  BY DEF Idle, Job, PrepFields
<1> QED
  BY <1>1 DEF PrepOK, Job

LEMMA BackToIdleKeeps ==
  ASSUME StoreOK, BuildsOK, PrepsOK, RecordOK, NEW u \in Preparers, BackToIdle(u),
         UNCHANGED <<place, docker, cache, upstream, record>>,
         build' = build \/ build' = [build EXCEPT ![u] = NoBuild]
  PROVE  PrepKept(u)
<1>1. /\ DOMAIN prep' = Preparers /\ \A v \in Preparers \ {u} : prep'[v] = prep[v]
      /\ prep'[u] = Idle(Job(u)) /\ u \in Users
  BY PreparationAssumption DEF BackToIdle, PrepsOK
<1>2. PrepOK(u)'
  BY <1>1, IdleIsOK DEF PrepsOK
<1>3. \A v \in Users \ {u} : build'[v] = build[v]
  BY DEF BuildsOK
<1>4. BuildsOK' /\ StoreOK'
  BY <1>1, ForgetKeeps, BuildsStay, StoreStays DEF docker
<1>5. PrepsOK'
  BY <1>1, <1>2, <1>3, OnePrep, PreparationAssumption
<1> QED
  BY <1>3, <1>4, <1>5 DEF PrepKept, RecordOK, IsImage

LEMMA ObtainKeeps ==
  ASSUME StoreOK, BuildsOK, PrepsOK, RecordOK, NEW u \in Preparers,
         NEW sha \in Commits \cup {None}, NEW next, Obtain(u, sha, next),
         DOMAIN next = PrepFields, next.job = Job(u), next.sha = sha,
         next.named \subseteq next.tags, next.image = NoIdentity, Job(u) # NoJob,
         UNCHANGED <<place, docker, cache, upstream, record>>
  PROVE  PrepKept(u)
<1>1. /\ u \in Users /\ PrepOK(u)
  BY PreparationAssumption DEF PrepsOK
<1>2. Job(u) \in Jobs /\ Job(u).place \in Places /\ Here(u) \in Contents
  BY <1>1 DEF PrepOK, Job, Jobs, Here
<1>3. RecipeOf[Here(u)] \in Recipes
  BY <1>2 DEF Recipes
<1>4. tag' = tag
  BY DEF docker
<1>5. CASE Job(u).build
  <2>1. /\ Ask(u, Job(u).place, sha, None, Job(u).push)
        /\ prep' = [prep EXCEPT ![u] = [next EXCEPT !.pc = "building"]]
    BY <1>5 DEF Obtain
  <2>2. BuildsOK' /\ build'[u].sha = sha
    BY <1>1, <1>2, <1>3, <1>4, <2>1, AskKeeps DEF Here
  <2>3. /\ DOMAIN prep' = Preparers /\ \A v \in Preparers \ {u} : prep'[v] = prep[v]
        /\ prep'[u] = [next EXCEPT !.pc = "building"]
    BY <2>1 DEF PrepsOK
  <2>4. /\ DOMAIN prep'[u] = PrepFields /\ prep'[u].pc = "building"
        /\ prep'[u].job = prep[u].job /\ prep'[u].sha = sha
        /\ prep'[u].named \subseteq prep'[u].tags /\ prep'[u].image = NoIdentity
    BY <2>3 DEF PrepFields, Job
  <2>5. PrepOK(u)'
    BY <1>1, <2>2, <2>4 DEF PrepOK, Job
  <2>6. \A v \in Users \ {u} : build'[v] = build[v]
    BY <2>1 DEF Ask, BuildsOK
  <2>7. PrepsOK'
    BY <2>3, <2>5, <2>6, OnePrep, PreparationAssumption
  <2> QED
    BY <2>2, <2>6, <2>7, StoreStays DEF PrepKept, RecordOK, IsImage
<1>6. CASE ~Job(u).build
  <2> DEFINE s == Suffix(sha, RecipeOf[Here(u)])
             file == cache[<<Job(u).place, s>>]
  <2>1. /\ Usable(file, RecipeOf[Here(u)], None, sha) /\ build' = build
        /\ prep' = [prep EXCEPT ![u] =
                      [next EXCEPT !.pc = "obtained", !.image = file.identity]]
    BY <1>6 DEF Obtain
  <2>2. s \in Suffixes
    BY <1>3 DEF Suffix, Suffixes
  <2>3. FileOK(file, s)
    BY <1>2, <2>2 DEF StoreOK, CacheOK
  <2>4. file.state = "whole" /\ file.identity.recipe = RecipeOf[Here(u)]
    BY <2>1 DEF Usable
  <2>5. Exact(file.identity) /\ file.identity.image.sha = sha
    BY <1>3, <2>3, <2>4, SuffixTells DEF FileOK, Suffixed
  <2>6. /\ DOMAIN prep' = Preparers /\ \A v \in Preparers \ {u} : prep'[v] = prep[v]
        /\ prep'[u] = [next EXCEPT !.pc = "obtained", !.image = file.identity]
    BY <2>1 DEF PrepsOK
  <2>7. /\ DOMAIN prep'[u] = PrepFields /\ prep'[u].pc = "obtained"
        /\ prep'[u].job = prep[u].job /\ prep'[u].sha = sha
        /\ prep'[u].image = file.identity
    BY <2>6 DEF PrepFields, Job
  <2>8. PrepOK(u)'
    <3> HIDE DEF file
    <3> QED
      BY <1>1, <1>3, <2>4, <2>5, <2>7 DEF PrepOK, Job, Exact
  <2>9. PrepsOK'
    BY <2>1, <2>6, <2>8, OnePrep
  <2> QED
    BY <1>4, <2>1, <2>9, StoreStays, BuildsStay DEF PrepKept, RecordOK, IsImage
<1> QED
  BY <1>5, <1>6

LEMMA BundledKeeps ==
  ASSUME StoreOK, BuildsOK, PrepsOK, RecordOK, NEW u \in Preparers, Bundled(u)
  PROVE  PrepKept(u)
<1> DEFINE next == [prep[u] EXCEPT !.content = Here(u)]
<1>1. /\ Obtain(u, None, next) /\ Job(u) # NoJob
      /\ UNCHANGED <<place, docker, cache, upstream, record>>
      /\ prep[u] = Idle(Job(u)) /\ DOMAIN prep[u] = PrepFields
  BY DEF Bundled, Preparing, PrepsOK, PrepOK, Job
<1>2. /\ DOMAIN next = PrepFields /\ next.job = Job(u) /\ next.sha = None
      /\ next.named = {} /\ next.image = NoIdentity
  BY <1>1 DEF Idle, PrepFields
<1>3. next.named \subseteq next.tags
  BY <1>2
<1> HIDE DEF next
<1> QED
  BY <1>1, <1>2, <1>3, ObtainKeeps

LEMMA ResolveRefKeeps ==
  ASSUME StoreOK, BuildsOK, PrepsOK, RecordOK, NEW u \in Preparers, ResolveRef(u)
  PROVE  PrepKept(u)
<1>1. PICK sha \in Resolved(upstream, Job(u).request) :
        prep' = [prep EXCEPT ![u].pc = "resolved", ![u].sha = sha,
                             ![u].content = Here(u),
                             ![u].named = {n \in {Job(u).request} \cap Names :
                                             sha \in Tagged(upstream, n)}]
  BY DEF ResolveRef
<1>2. /\ PrepOK(u) /\ prep[u].pc = "idle" /\ Job(u) # NoJob
      /\ Job(u).request # "bundled"
  BY DEF ResolveRef, Preparing, PrepsOK
<1>3. Job(u) \in Jobs
  BY <1>2 DEF PrepOK, Job
<1>4. sha \in Commits
  <2>1. Job(u).request = "latest" \/ Job(u).request \in Commits \cup TagObjects \cup Names
    BY <1>2, <1>3 DEF Jobs
  <2>2. Resolved(upstream, Job(u).request) \subseteq Commits
    BY <2>1, RepliesAreCommits DEF PrepsOK
  <2> QED
    BY <2>2
<1>5. /\ DOMAIN prep' = Preparers /\ \A v \in Preparers \ {u} : prep'[v] = prep[v]
      /\ DOMAIN prep'[u] = PrepFields /\ prep'[u].pc = "resolved" /\ prep'[u].sha = sha
      /\ prep'[u].job = prep[u].job /\ prep'[u].image = prep[u].image
      /\ prep'[u].named = {n \in {Job(u).request} \cap Names : sha \in Tagged(upstream, n)}
  BY <1>1, <1>2 DEF PrepsOK, PrepOK, PrepFields
<1>6. prep[u].image = NoIdentity
  BY <1>2 DEF PrepOK, Idle
<1>7. UNCHANGED <<imageVars, upstream, record>>
  BY DEF ResolveRef
<1>8. PrepOK(u)'
  <2>1. place' = place /\ upstream' = upstream
    BY <1>7 DEF imageVars
  <2>2. \A n \in prep'[u].named : n \in Names /\ prep'[u].sha \in Tagged(upstream, n)
    BY <1>5
  <2> QED
    BY <1>2, <1>4, <1>5, <1>6, <2>1, <2>2 DEF PrepOK, Job, Tagged
<1> QED
  BY <1>5, <1>7, <1>8, PrepAlone

LEMMA SelectKeeps ==
  ASSUME StoreOK, BuildsOK, PrepsOK, RecordOK, NEW u \in Preparers, Select(u)
  PROVE  PrepKept(u)
<1> DEFINE sha == prep[u].sha
           next == [prep[u] EXCEPT !.tags = ExactTags(upstream, prep[u].sha)]
<1>1. /\ Obtain(u, sha, next) /\ prep[u].pc = "resolved"
      /\ UNCHANGED <<place, docker, cache, upstream, record>>
  BY DEF Select, Preparing
<1>2. /\ DOMAIN prep[u] = PrepFields /\ prep[u].job # NoJob
      /\ prep[u].image = NoIdentity /\ sha \in Commits \cup {None}
      /\ \A n \in prep[u].named : n \in Names /\ sha \in Tagged(upstream, n)
  BY <1>1 DEF PrepsOK, PrepOK
<1>3. /\ DOMAIN next = PrepFields /\ next.job = Job(u) /\ next.sha = sha
      /\ next.named = prep[u].named /\ next.tags = ExactTags(upstream, sha)
      /\ next.image = NoIdentity /\ Job(u) # NoJob
  BY <1>2 DEF PrepFields, Job
<1>4. next.named \subseteq next.tags
  BY <1>2, <1>3, NamedIsListed DEF PrepsOK
<1> HIDE DEF next, sha
<1> QED
  BY <1>1, <1>2, <1>3, <1>4, ObtainKeeps

LEMMA ObtainedKeeps ==
  ASSUME StoreOK, BuildsOK, PrepsOK, RecordOK, NEW u \in Preparers, Obtained(u)
  PROVE  PrepKept(u)
<1>1. /\ prep[u].pc = "building" /\ build[u].pc = "ready" /\ PrepOK(u) /\ u \in Users
      /\ build' = [build EXCEPT ![u] = NoBuild]
      /\ UNCHANGED <<place, docker, cache, upstream, record>>
  BY PreparationAssumption DEF Obtained, Preparing, PrepsOK
<1>2. Answers(build[u])
  BY <1>1 DEF BuildsOK
<1>3. /\ DOMAIN prep' = Preparers /\ \A v \in Preparers \ {u} : prep'[v] = prep[v]
      /\ DOMAIN prep'[u] = PrepFields /\ prep'[u].pc = "obtained"
      /\ prep'[u].image = build[u].identity /\ prep'[u].sha = prep[u].sha
      /\ prep'[u].job = prep[u].job
  BY <1>1 DEF Obtained, PrepsOK, PrepOK, PrepFields
<1>4. PrepOK(u)'
  BY <1>1, <1>2, <1>3 DEF PrepOK, Answers, Exact
<1>5. \A v \in Users \ {u} : build'[v] = build[v]
  BY <1>1 DEF BuildsOK
<1>6. PrepsOK'
  BY <1>1, <1>3, <1>4, <1>5, OnePrep, PreparationAssumption
<1>7. StoreOK' /\ BuildsOK'
  BY <1>1, StoreStays, ForgetKeeps DEF docker
<1> QED
  BY <1>1, <1>5, <1>6, <1>7 DEF PrepKept, RecordOK, IsImage

LEMMA ReadVersionKeeps ==
  ASSUME StoreOK, BuildsOK, PrepsOK, RecordOK, NEW u \in Preparers, ReadVersion(u)
  PROVE  PrepKept(u)
<1>1. prep[u].pc = "obtained" /\ PrepOK(u) /\ UNCHANGED <<imageVars, upstream, record>>
  BY DEF ReadVersion, Preparing, PrepsOK
<1>2. /\ DOMAIN prep' = Preparers /\ \A v \in Preparers \ {u} : prep'[v] = prep[v]
      /\ DOMAIN prep'[u] = PrepFields /\ prep'[u].pc = "prepared"
      /\ prep'[u].image = prep[u].image /\ prep'[u].sha = prep[u].sha
      /\ prep'[u].job = prep[u].job
  BY DEF ReadVersion, PrepsOK, PrepOK, PrepFields
<1>3. PrepOK(u)'
  BY <1>1, <1>2 DEF PrepOK, Exact, imageVars
<1> QED
  BY <1>1, <1>2, <1>3, PrepAlone

LEMMA BeginCampaignKeeps ==
  ASSUME StoreOK, BuildsOK, PrepsOK, RecordOK, NEW u \in Preparers, BeginCampaign(u)
  PROVE  PrepKept(u)
<1>1. prep[u].pc = "prepared" /\ PrepOK(u) /\ UNCHANGED <<imageVars, upstream, record>>
  BY DEF BeginCampaign, Preparing, PrepsOK
<1>2. /\ DOMAIN prep' = Preparers /\ \A v \in Preparers \ {u} : prep'[v] = prep[v]
      /\ DOMAIN prep'[u] = PrepFields /\ prep'[u].pc = "running"
      /\ prep'[u].image = prep[u].image /\ prep'[u].sha = prep[u].sha
      /\ prep'[u].job = prep[u].job
  BY DEF BeginCampaign, PrepsOK, PrepOK, PrepFields
<1>3. PrepOK(u)'
  BY <1>1, <1>2 DEF PrepOK, Exact, imageVars
<1> QED
  BY <1>1, <1>2, <1>3, PrepAlone

LEMMA EndCampaignKeeps ==
  ASSUME StoreOK, BuildsOK, PrepsOK, RecordOK, NEW u \in Preparers, EndCampaign(u)
  PROVE  PrepKept(u)
<1>1. prep[u].pc = "running" /\ PrepOK(u) /\ UNCHANGED <<imageVars, upstream>>
  BY DEF EndCampaign, Preparing, PrepsOK
<1>2. /\ DOMAIN prep' = Preparers /\ \A v \in Preparers \ {u} : prep'[v] = prep[v]
      /\ DOMAIN prep'[u] = PrepFields /\ prep'[u].pc = "measured"
      /\ prep'[u].image = prep[u].image /\ prep'[u].sha = prep[u].sha
      /\ prep'[u].job = prep[u].job
  BY DEF EndCampaign, PrepsOK, PrepOK, PrepFields
<1>3. PrepOK(u)'
  BY <1>1, <1>2 DEF PrepOK, Exact, imageVars
<1>4. IsImage(prep[u].image.reference.image)
  BY DEF EndCampaign, Present, StoreOK
<1>5. RecordOK' /\ (record' = record \/ record = NoRecord)
  <2>1. CASE record # NoRecord
    <3>1. record' = record
      BY <2>1 DEF EndCampaign
    <3> QED
      BY <3>1 DEF RecordOK, IsImage
  <2>2. CASE record = NoRecord
    <3>1. /\ record'.image = prep[u].image /\ record'.sha = prep[u].sha
          /\ record'.measured[1] = prep[u].image.reference.image
      BY <2>2 DEF EndCampaign
    <3>2. prep[u].image.recipe \in Recipes /\ prep[u].sha \in Commits \cup {None}
      BY <1>1 DEF PrepOK
    <3> QED
      BY <1>4, <2>2, <3>1, <3>2 DEF RecordOK, IsImage
  <2> QED
    BY <2>1, <2>2
<1>6. StoreOK' /\ BuildsOK'
  BY <1>1, StoreStays, BuildsStay DEF imageVars, docker
<1>7. PrepsOK'
  BY <1>1, <1>2, <1>3, OnePrep DEF imageVars
<1> QED
  BY <1>1, <1>5, <1>6, <1>7 DEF PrepKept, imageVars

LEMMA PreparationKeeps ==
  ASSUME StoreOK, BuildsOK, PrepsOK, RecordOK, NEW u \in Preparers, PreparationStep(u)
  PROVE  PrepKept(u)
<1>1. CASE NothingCached(u)
  BY <1>1, BackToIdleKeeps DEF NothingCached, imageVars
<1>2. CASE GivesUp(u)
  BY <1>2, BackToIdleKeeps DEF GivesUp
<1>3. CASE (BuildStep(u) \/ BuildFails(u)) /\ UNCHANGED <<upstream, prep, record>>
  <2>1. /\ StoreOK' /\ BuildsOK' /\ place' = place
        /\ \A v \in Users : /\ build'[v].sha = build[v].sha
                            /\ build'[v].push = build[v].push
    BY <1>3, BuildingKeeps, PreparationAssumption
  <2>2. PrepsOK'
    <3>1. DOMAIN place' = Places
      BY <2>1 DEF PrepsOK
    <3> QED
      BY <1>3, <2>1, <3>1, PrepsStay, PreparationAssumption
  <2> QED
    BY <1>3, <2>1, <2>2 DEF PrepKept, RecordOK, IsImage
<1> QED
  BY <1>1, <1>2, <1>3, BundledKeeps, ResolveRefKeeps, SelectKeeps, ObtainedKeeps,
     ReadVersionKeeps, BeginCampaignKeeps, EndCampaignKeeps DEF PreparationStep

-----------------------------------------------------------------------------
(* The replay. *)

\* Steps that touch the replay alone.
LEMMA ReplayAlone ==
  ASSUME StoreOK, BuildsOK, PrepsOK, RecordOK, Unprepared
  PROVE  /\ StoreOK' /\ BuildsOK' /\ PrepsOK' /\ RecordOK'
         /\ place' = place /\ build' = build /\ record' = record
<1>1. StoreOK' /\ BuildsOK'
  BY StoreStays, BuildsStay DEF Unprepared, imageVars, docker
<1>2. PrepsOK'
  <2>1. place' = place /\ build' = build /\ prep' = prep /\ upstream' = upstream
    BY DEF Unprepared, imageVars
  <2>2. DOMAIN place' = Places
    BY <2>1 DEF PrepsOK
  <2> QED
    BY <2>1, <2>2, PrepsStay
<1> QED
  BY <1>1, <1>2 DEF Unprepared, imageVars, RecordOK, IsImage

LEMMA FailsKeeps ==
  ASSUME Fails, ~build'[Replayer].push
  PROVE  ReplayOK'
<1>1. /\ DOMAIN replay' = ReplayFields /\ replay'.pc = "failed" /\ replay'.edits = 0
  BY DEF Fails, NoReplay, ReplayFields
<1> QED
  BY <1>1 DEF ReplayOK, Placed, ReplaySound

\* The replay goes to its place.
LEMMA CheckoutKeeps ==
  ASSUME ReplayOK, NEW at \in {Root, Worktree}, record # NoRecord,
         replay.pc \in {"idle", "adding"},
         replay' = [replay EXCEPT !.pc = "checkout", !.at = at],
         ~build'[Replayer].push, record' = record
  PROVE  ReplayOK'
<1>1. /\ DOMAIN replay' = ReplayFields /\ replay'.pc = "checkout" /\ replay'.at = at
      /\ replay'.edits = 0
  BY DEF ReplayOK, ReplayFields, Placed
<1> QED
  BY <1>1 DEF ReplayOK, Placed, ReplaySound

LEMMA LoadCatalogKeeps ==
  ASSUME ReplayOK, LoadCatalog, UNCHANGED <<place, build, record>>
  PROVE  ReplayOK'
<1>1. CASE Fails
  BY <1>1, FailsKeeps DEF ReplayOK
<1>2. CASE /\ CorpusOf[place[replay.at]] = record.corpus
           /\ replay' = [replay EXCEPT !.pc = "loaded"]
  <2>1. /\ DOMAIN replay' = ReplayFields /\ replay'.pc = "loaded"
        /\ replay'.at = replay.at /\ replay'.edits = replay.edits
    BY <1>2 DEF ReplayOK, ReplayFields
  <2>2. replay.pc = "checkout"
    BY DEF LoadCatalog, Replaying
  <2> QED
    BY <1>2, <2>1, <2>2 DEF ReplayOK, Placed, ReplaySound
<1> QED
  BY <1>1, <1>2 DEF LoadCatalog

LEMMA RunWithKeeps ==
  ASSUME ReplayOK, NEW reference, reference.image \in Recorded, RunWith(reference),
         replay.pc \in {"loaded", "rebuilding"}, ~build'[Replayer].push,
         UNCHANGED <<place, record>>
  PROVE  ReplayOK'
<1>1. /\ DOMAIN replay' = ReplayFields /\ replay'.pc = "run"
      /\ replay'.at = replay.at /\ replay'.edits = replay.edits
      /\ replay'.reference = reference
  BY DEF ReplayOK, ReplayFields, RunWith
<1> QED
  BY <1>1 DEF ReplayOK, Placed, ReplaySound, Recorded

LEMMA RunKeeps ==
  ASSUME ReplayOK, Run, UNCHANGED <<place, build, record>>
  PROVE  ReplayOK'
<1> DEFINE image == IF Present(replay.reference) THEN replay.reference.image ELSE NoImage
<1>1. /\ replay.pc = "run"
      /\ replay' = [replay EXCEPT !.pc = "ran",
                      !.ran = <<image, CorpusOf[place[replay.at]]>>]
  BY DEF Run, Replaying
<1>2. image \in Recorded
  BY <1>1 DEF ReplayOK, Recorded
<1> HIDE DEF image
<1>3. /\ DOMAIN replay' = ReplayFields /\ replay'.pc = "ran"
      /\ replay'.at = replay.at /\ replay'.edits = replay.edits
      /\ replay'.ran = <<image, CorpusOf[place[replay.at]]>>
  BY <1>1 DEF ReplayOK, ReplayFields
<1> QED
  BY <1>1, <1>2, <1>3 DEF ReplayOK, Placed, ReplaySound, Recorded

\* The report.
LEMMA ReportKeeps ==
  ASSUME ReplayOK, RecordOK, Report, UNCHANGED <<place, build, record>>
  PROVE  ReplayOK'
<1>1. PICK judgment \in CASE replay.ran = record.measured -> {{}}
                          [] replay.ran[1] = NoImage -> {{"judgment"}}
                          [] OTHER -> {{}, {"judgment"}} :
        replay' = [replay EXCEPT !.pc = "reported",
                     !.differences = CheckoutDifferences \cup judgment]
  BY DEF Report
<1>2. replay.pc = "ran"
  BY DEF Report, Replaying
<1>3. /\ DOMAIN replay' = ReplayFields /\ replay'.pc = "reported"
      /\ replay'.at = replay.at /\ replay'.edits = replay.edits
      /\ replay'.ran = replay.ran
      /\ replay'.differences = CheckoutDifferences \cup judgment
  BY <1>1 DEF ReplayOK, ReplayFields
<1>4. /\ record # NoRecord /\ replay.edits \in Nat /\ replay.ran[1] \in Recorded
      /\ replay.edits = 0 => replay.ran[2] = record.corpus
      /\ replay.edits = 1 => replay.ran[2] \in {record.corpus, CorpusOf[place[replay.at]]}
      /\ replay.at \in {Root, Worktree} /\ (replay.at = Worktree => replay.edits = 0)
  BY <1>2 DEF ReplayOK, Placed
<1>5. /\ record.measured[1] = record.image.reference.image
      /\ record.image.reference.image # NoImage
  BY <1>4, NoImageIsNone DEF RecordOK
<1>6. judgment = {} => replay.ran[1] # NoImage
  <2>1. SUFFICES ASSUME replay.ran[1] = NoImage
                 PROVE  judgment = {"judgment"}
    OBVIOUS
  <2>2. replay.ran # record.measured
    BY <1>5, <2>1
  <2> QED
    BY <1>1, <2>1, <2>2
<1>7. ASSUME CheckoutDifferences = {}, RecordedClean
      PROVE  place[Root] = record.repository
  <2>1. IsOfCommit(place[Root], record.repository) /\ place[Root] \in Clean
    BY <1>7 DEF CheckoutDifferences
  <2> QED
    BY <1>7, <2>1, PreparationAssumption DEF IsOfCommit, RecordedClean
<1>8. ReplaySound'
  <2> DEFINE twoImages == record.image.reference.image # record.image.image
             changed == replay.at = Root /\ replay.edits > 0
  <2>1. replay.ran[1] \in {NoImage, record.measured[1]} \/ twoImages
    BY <1>4, <1>5 DEF Recorded
  <2>2. replay.ran[2] = record.corpus \/ changed
    BY <1>4
  <2>3. ASSUME CheckoutDifferences \cup judgment = {}, RecordedClean, replay.edits <= 1,
               {CorpusOf[record.repository], record.measured[2]} = {record.corpus}
        PROVE  replay.ran[2] = record.measured[2] /\ replay.ran[1] # NoImage
    <3>1. judgment = {} /\ CheckoutDifferences = {}
      BY <2>3
    <3>2. place[Root] = record.repository
      BY <1>7, <2>3, <3>1
    <3>3. /\ CorpusOf[record.repository] = record.corpus
          /\ record.measured[2] = record.corpus
      BY <2>3
    <3>4. replay.edits = 0 \/ (replay.edits = 1 /\ replay.at = Root)
      BY <1>4, <2>3
    <3>5. replay.ran[2] = record.corpus
      BY <1>4, <3>2, <3>3, <3>4
    <3> QED
      BY <1>6, <3>1, <3>3, <3>5
  <2>4. RecordedClean' = RecordedClean
    BY DEF RecordedClean
  <2> QED
    BY <1>3, <2>1, <2>2, <2>3, <2>4 DEF ReplaySound
<1> QED
  BY <1>3, <1>4, <1>8 DEF ReplayOK, Placed, Recorded

LEMMA RebuildKeeps ==
  ASSUME StoreOK, BuildsOK, PrepsOK, RecordOK, ReplayOK, Rebuild
  PROVE  StoreOK' /\ BuildsOK' /\ PrepsOK' /\ RecordOK' /\ ReplayOK'
<1>1. /\ replay.pc = "loaded"
      /\ UNCHANGED <<place, baseTag, docker, cache, mishaps, upstream, prep, record>>
  BY DEF Rebuild, Replaying
<1>2. /\ StoreOK' /\ RecordOK' /\ DOMAIN place' = Places /\ tag' = tag
      /\ Replayer \in Users \ Preparers
  BY <1>1, StoreStays, ReproductionAssumption DEF RecordOK, IsImage, PrepsOK, docker
<1>3. CASE Fails /\ UNCHANGED build
  <2>1. BuildsOK' /\ PrepsOK'
    BY <1>1, <1>2, <1>3, BuildsStay, PrepsStay
  <2> QED
    BY <1>2, <1>3, <2>1, FailsKeeps DEF ReplayOK
<1>4. CASE /\ RecipeOf[place[replay.at]] = record.image.recipe
           /\ Ask(Replayer, replay.at, record.sha, record.image.base, FALSE)
           /\ replay' = [replay EXCEPT !.pc = "rebuilding"]
  <2>1. record # NoRecord /\ replay.at \in Places
    BY <1>1, ReproductionAssumption DEF ReplayOK, Placed
  <2>2. record.sha \in Commits \cup {None} /\ record.image.recipe \in Recipes
    BY <2>1 DEF RecordOK
  <2>3. BuildsOK' /\ ~build'[Replayer].push
    <3>1. RecipeOf[place[replay.at]] \in Recipes /\ Replayer \in Users /\ tag' = tag
      BY <1>2, <1>4, <2>2
    <3>2. \E push : ~push /\ Ask(Replayer, replay.at, record.sha, record.image.base, push)
      BY <1>4, Zenon
    <3>3. PICK push : ~push /\ Ask(Replayer, replay.at, record.sha, record.image.base, push)
      BY <3>2
    <3>4. BuildsOK' /\ build'[Replayer].push = push
      BY <2>1, <2>2, <3>1, <3>3, AskKeeps
    <3> QED
      BY <3>3, <3>4
  <2>4. \A v \in Users \ {Replayer} : build'[v] = build[v]
    BY <1>4 DEF Ask, BuildsOK
  <2>5. PrepsOK'
    BY <1>1, <1>2, <2>4, PrepsStay, PreparationAssumption
  <2>6. /\ DOMAIN replay' = ReplayFields /\ replay'.pc = "rebuilding"
        /\ replay'.at = replay.at /\ replay'.edits = replay.edits
    BY <1>4 DEF ReplayOK, ReplayFields
  <2>7. ReplayOK'
    BY <1>1, <2>3, <2>6 DEF ReplayOK, Placed, ReplaySound
  <2> QED
    BY <1>2, <2>3, <2>5, <2>7
<1> QED
  BY <1>3, <1>4 DEF Rebuild

\* The build's answer, or its failure, ends it.
LEMMA RebuiltKeeps ==
  ASSUME StoreOK, BuildsOK, PrepsOK, RecordOK, ReplayOK, Rebuilt \/ RebuildFails
  PROVE  StoreOK' /\ BuildsOK' /\ PrepsOK' /\ RecordOK' /\ ReplayOK'
<1>1. /\ replay.pc = "rebuilding" /\ build' = [build EXCEPT ![Replayer] = NoBuild]
      /\ UNCHANGED <<place, baseTag, docker, cache, mishaps, upstream, prep, record>>
      /\ Replayer \in Users \ Preparers
  BY ReproductionAssumption DEF Rebuilt, RebuildFails, Replaying
<1>2. /\ StoreOK' /\ RecordOK' /\ DOMAIN place' = Places /\ tag' = tag
  BY <1>1, StoreStays DEF RecordOK, IsImage, PrepsOK, docker
<1>3. BuildsOK'
  BY <1>1, <1>2, ForgetKeeps
<1>4. /\ \A v \in Users \ {Replayer} : build'[v] = build[v]
      /\ build'[Replayer] = NoBuild
  BY <1>1 DEF BuildsOK
<1>5. PrepsOK'
  BY <1>1, <1>2, <1>4, PrepsStay, PreparationAssumption
<1>6. ~build'[Replayer].push
  BY <1>4 DEF NoBuild
<1>7. ReplayOK'
  <2>1. CASE Fails
    BY <1>6, <2>1, FailsKeeps
  <2>2. CASE ~Fails
    <3>1. /\ build[Replayer].pc = "ready"
          /\ build[Replayer].identity.image = record.image.image
          /\ RunWith(build[Replayer].identity.reference)
      BY <2>2 DEF Rebuilt, RebuildFails
    <3>2. Answers(build[Replayer]) /\ ~build[Replayer].push
      BY <1>1 DEF BuildsOK, ReplayOK
    <3>3. build[Replayer].identity.reference.image \in Recorded
      BY <3>1, <3>2 DEF Answers, Recorded
    <3> QED
      BY <1>1, <1>6, <3>1, <3>3, RunWithKeeps
  <2> QED
    BY <2>1, <2>2
<1> QED
  BY <1>2, <1>3, <1>5, <1>7

\* All that the replay does.
LEMMA ReplayStepKeeps ==
  ASSUME IInv, ReplayStep \/ TryAgain
  PROVE  IInv'
<1> USE DEF IInv
<1>1. CASE LoadCatalog
  BY <1>1, ReplayAlone, LoadCatalogKeeps DEF LoadCatalog
<1>2. CASE FoundLocally
  <2>1. Unprepared /\ RunWith(record.image.reference) /\ replay.pc = "loaded"
    BY <1>2 DEF FoundLocally, Replaying
  <2>2. record.image.reference.image \in Recorded
    BY DEF Recorded
  <2>3. ~build'[Replayer].push
    BY <2>1, ReplayAlone DEF ReplayOK
  <2> QED
    BY <2>1, <2>2, <2>3, ReplayAlone, RunWithKeeps
<1>3. CASE Run
  BY <1>3, ReplayAlone, RunKeeps DEF Run
<1>4. CASE Report
  BY <1>4, ReplayAlone, ReportKeeps DEF Report
<1>5. CASE Rebuild \/ Rebuilt \/ RebuildFails
  BY <1>5, RebuildKeeps, RebuiltKeeps
<1>6. CASE StayInRoot \/ UseWorktree
  <2>1. CASE Fails
    <3>1. Unprepared
      BY <1>6 DEF StayInRoot, UseWorktree
    <3> QED
      BY <2>1, <3>1, ReplayAlone, FailsKeeps DEF ReplayOK
  <2>2. CASE ~Fails
    <3>1. /\ Unprepared /\ record # NoRecord /\ replay.pc = "idle"
          /\ \/ replay' = [replay EXCEPT !.pc = "checkout", !.at = Root]
             \/ replay' = [replay EXCEPT !.pc = "checkout", !.at = Worktree]
      BY <1>6, <2>2 DEF StayInRoot, UseWorktree, ElsewhereNeeded, Replaying
    <3> QED
      BY <3>1, ReplayAlone, CheckoutKeeps DEF ReplayOK
  <2> QED
    BY <2>1, <2>2
<1>7. CASE AddWorktree \/ WorktreeAdded
  <2>1. /\ UNCHANGED <<docker, cache, build, upstream, prep, record>>
        /\ \E c : place' = [place EXCEPT ![Worktree] = c]
    BY <1>7 DEF AddWorktree, WorktreeAdded
  <2>2. tag' = tag /\ DOMAIN place' = Places
    BY <2>1 DEF docker, PrepsOK
  <2>3. \A p \in Places : place[p] \in Contents => place'[p] \in Contents
    <3>1. CASE AddWorktree
      BY <3>1, ImageBuildAssumption DEF AddWorktree, PrepsOK
    <3>2. CASE WorktreeAdded
      BY <3>2 DEF WorktreeAdded, Replaying, PrepsOK, ReplayOK
    <3> QED
      BY <1>7, <3>1, <3>2
  <2>4. StoreOK' /\ BuildsOK' /\ PrepsOK' /\ RecordOK'
    BY <2>1, <2>2, <2>3, StoreStays, BuildsStay, PrepsStay DEF RecordOK, IsImage
  <2>5. CASE AddWorktree
    <3>1. /\ record.repository \in Contents /\ record # NoRecord
          /\ replay' = [replay EXCEPT !.pc = "adding"] /\ replay.pc = "idle"
      BY <2>5, PreparationAssumption
         DEF AddWorktree, ElsewhereNeeded, RecordedClean, Replaying
    <3>2. /\ DOMAIN replay' = ReplayFields /\ replay'.pc = "adding"
          /\ replay'.edits = replay.edits
      BY <3>1 DEF ReplayOK, ReplayFields
    <3> QED
      BY <2>1, <2>4, <3>1, <3>2 DEF ReplayOK, Placed, ReplaySound
  <2>6. CASE WorktreeAdded
    <3>1. /\ replay.pc = "adding" /\ record # NoRecord
          /\ replay' = [replay EXCEPT !.pc = "checkout", !.at = Worktree]
      BY <2>6 DEF WorktreeAdded, Replaying, ReplayOK
    <3> QED
      BY <2>1, <2>4, <3>1, CheckoutKeeps DEF ReplayOK
  <2> QED
    BY <1>7, <2>5, <2>6
<1>8. CASE Pulled
  <2>1. /\ replay.pc = "loaded" /\ RunWith(record.image.reference)
        /\ images' = images \cup {record.image.reference.image}
        /\ digested' = digested \cup {record.image.reference.image}
        /\ UNCHANGED <<place, made, registry, tag, cache, build, upstream, prep, record>>
    BY <1>8 DEF Pulled, Replaying
  <2>2. record # NoRecord
    BY <2>1 DEF ReplayOK
  <2>3. StoreOK'
    BY <2>1, <2>2 DEF StoreOK, TagsOK, CacheOK, FileOK, Exact, Suffixed, IsImage, RecordOK
  <2>4. DOMAIN place' = Places
    BY <2>1 DEF PrepsOK
  <2>5. BuildsOK' /\ PrepsOK' /\ RecordOK'
    BY <2>1, <2>4, BuildsStay, PrepsStay DEF RecordOK, IsImage
  <2>6. record.image.reference.image \in Recorded /\ ~build'[Replayer].push
    BY <2>1 DEF Recorded, ReplayOK
  <2>7. ReplayOK'
    BY <2>1, <2>6, RunWithKeeps
  <2> QED
    BY <2>3, <2>5, <2>7
<1>9. CASE /\ BuildStep(Replayer) \/ BuildFails(Replayer)
           /\ UNCHANGED <<upstream, prep, record, replay>>
  <2>1. Replayer \in Users
    BY ReproductionAssumption
  <2>2. /\ StoreOK' /\ BuildsOK' /\ place' = place
        /\ \A v \in Users : /\ build'[v].sha = build[v].sha
                            /\ build'[v].push = build[v].push
    BY <1>9, <2>1, BuildingKeeps
  <2>3. DOMAIN place' = Places
    BY <2>2 DEF PrepsOK
  <2>4. PrepsOK' /\ RecordOK'
    BY <1>9, <2>2, <2>3, PrepsStay, PreparationAssumption DEF RecordOK, IsImage
  <2> QED
    BY <1>9, <2>1, <2>2, <2>4, ReplayStays
<1>10. CASE TryAgain
  <2>1. Unprepared /\ replay' = NoReplay
    BY <1>10 DEF TryAgain
  <2>2. DOMAIN NoReplay = ReplayFields /\ NoReplay.pc = "idle" /\ NoReplay.edits = 0
    BY DEF NoReplay, ReplayFields
  <2>3. build' = build
    BY <2>1, ReplayAlone
  <2>4. ReplayOK'
    BY <2>1, <2>2, <2>3 DEF ReplayOK, Placed, ReplaySound
  <2> QED
    BY <2>1, <2>4, ReplayAlone
<1> QED
  BY <1>1, <1>2, <1>3, <1>4, <1>5, <1>6, <1>7, <1>8, <1>9, <1>10 DEF ReplayStep

-----------------------------------------------------------------------------
(* Mishaps. *)

LEMMA EditKeeps ==
  ASSUME IInv, Edit
  PROVE  IInv'
<1> USE DEF IInv
<1>1. PICK at \in {p \in Places : place[p] \in Contents /\ p # Worktree} :
        /\ \E c \in Contents \ {place[at]} : place' = [place EXCEPT ![at] = c]
        /\ replay' = IF /\ replay.pc \in {"checkout", "loaded", "rebuilding", "run", "ran"}
                        /\ replay.at = at
                     THEN [replay EXCEPT !.edits = @ + 1] ELSE replay
  BY DEF Edit
<1>2. UNCHANGED <<docker, cache, build, upstream, prep, record>>
  BY DEF Edit
<1>3. /\ DOMAIN place' = Places
      /\ \A p \in Places : place[p] \in Contents => place'[p] \in Contents
      /\ \A p \in Places \ {at} : place'[p] = place[p]
  BY <1>1 DEF PrepsOK
<1>4. tag' = tag
  BY <1>2 DEF docker
<1>5. StoreOK' /\ BuildsOK' /\ PrepsOK' /\ RecordOK'
  BY <1>2, <1>3, <1>4, StoreStays, BuildsStay, PrepsStay DEF RecordOK, IsImage
<1>6. CASE /\ replay.pc \in {"checkout", "loaded", "rebuilding", "run", "ran"}
           /\ replay.at = at
  <2>1. /\ DOMAIN replay' = ReplayFields /\ replay'.pc = replay.pc
        /\ replay'.at = replay.at /\ replay'.edits = replay.edits + 1
        /\ replay'.reference = replay.reference /\ replay'.ran = replay.ran
    BY <1>1, <1>6 DEF ReplayOK, ReplayFields
  <2>2. replay'.edits \in Nat /\ replay'.edits # 0 /\ at # Worktree
    BY <1>1, <2>1 DEF ReplayOK
  <2>3. replay.pc = "ran" /\ replay'.edits = 1 => replay.ran[2] = record.corpus
    BY <2>1 DEF ReplayOK
  <2>4. ReplayOK'
    BY <1>2, <1>6, <2>1, <2>2, <2>3 DEF ReplayOK, Placed, ReplaySound, Recorded
  <2> QED
    BY <1>5, <2>4
<1>7. CASE ~(/\ replay.pc \in {"checkout", "loaded", "rebuilding", "run", "ran"}
             /\ replay.at = at)
  <2>1. replay' = replay
    BY <1>1, <1>7
  <2>2. replay.pc \in {"checkout", "loaded", "rebuilding", "run", "ran"} =>
          place'[replay.at] = place[replay.at]
    BY <1>3, <1>7, ReproductionAssumption DEF ReplayOK, Placed
  <2>3. ReplayOK'
    BY <1>2, <2>1, <2>2
       DEF ReplayOK, Placed, ReplaySound, Recorded, RecordedClean
  <2> QED
    BY <1>5, <2>3
<1> QED
  BY <1>6, <1>7

\* A mishap that leaves preparations and places alone.
LEMMA AroundKeeps ==
  ASSUME IInv, StoreOK', BuildsOK', UNCHANGED <<place, upstream, prep, record, replay>>,
         \A v \in Users : /\ build'[v].sha = build[v].sha
                          /\ build'[v].push = build[v].push
  PROVE  IInv'
<1> USE DEF IInv
<1>1. DOMAIN place' = Places
  BY DEF PrepsOK
<1>2. PrepsOK' /\ RecordOK'
  BY <1>1, PrepsStay, PreparationAssumption DEF RecordOK, IsImage
<1>3. ReplayOK'
  BY ReplayStays, ReproductionAssumption
<1> QED
  BY <1>2, <1>3

LEMMA PruneKeeps ==
  ASSUME StoreOK, BuildsOK, Prune
  PROVE  StoreOK' /\ BuildsOK' /\ build' = build
<1>1. PICK i \in images :
        /\ images' = images \ {i} /\ digested' = digested \ {i}
        /\ tag' = [s \in Suffixes |-> IF tag[s] = i THEN NoImage ELSE tag[s]]
  BY DEF Prune
<1>2. UNCHANGED <<place, made, registry, cache, build>>
  BY DEF Prune
<1>3. TagsOK'
  BY <1>1 DEF StoreOK, TagsOK, IsImage, Suffixed
<1>4. StoreOK'
  BY <1>1, <1>2, <1>3 DEF StoreOK, CacheOK, FileOK, Exact, Suffixed, IsImage
<1>5. ASSUME NEW v \in Users
      PROVE  TagFits(v)'
  <2>1. CASE build[v].pc \in {"built", "identified", "labelled", "pushed"}
    <3>1. Own(v) \in Suffixes
      BY <2>1, OwnIsSuffix DEF BuildsOK, Knows, Building
    <3>2. tag'[Own(v)] \in {tag[Own(v)], NoImage}
      BY <1>1, <3>1
    <3> QED
      BY <1>2, <3>2, TagFitsStays DEF BuildsOK
  <2>2. CASE build[v].pc \notin {"built", "identified", "labelled", "pushed"}
    BY <1>2, <2>2, TagFitsOf
  <2> QED
    BY <2>1, <2>2
<1>6. BuildsOK'
  BY <1>2, <1>5 DEF BuildsOK, Knows, Answers, Exact, Building, IsImage
<1> QED
  BY <1>2, <1>4, <1>6

LEMMA MishapsKeep ==
  ASSUME IInv, Mishaps
  PROVE  IInv'
<1> USE DEF IInv
<1>1. CASE Edit
  BY <1>1, EditKeeps
<1>2. CASE ReplayKilled
  <2>1. Fails /\ UNCHANGED <<place, docker, cache, build, upstream, prep, record>>
    BY <1>2 DEF ReplayKilled
  <2>2. tag' = tag /\ DOMAIN place' = Places
    BY <2>1 DEF docker, PrepsOK
  <2>3. StoreOK' /\ BuildsOK' /\ PrepsOK' /\ RecordOK'
    BY <2>1, <2>2, StoreStays, BuildsStay, PrepsStay DEF RecordOK, IsImage
  <2>4. ReplayOK'
    BY <2>1, FailsKeeps DEF ReplayOK
  <2> QED
    BY <2>3, <2>4
<1>3. CASE RegistryLoses
  <2>1. /\ \E i \in registry : registry' = registry \ {i}
        /\ UNCHANGED <<place, made, images, digested, tag, cache, build, upstream, prep,
                       record, replay>>
    BY <1>3 DEF RegistryLoses
  <2>2. StoreOK' /\ BuildsOK'
    BY <2>1, BuildsStay DEF StoreOK, TagsOK, CacheOK, FileOK, Exact, Suffixed, IsImage
  <2> QED
    BY <2>1, <2>2, AroundKeeps
<1>4. CASE (\E u \in Users : BuildAborts(u)) /\ Quiet /\ UNCHANGED replay
  <2>1. PICK u \in Users : BuildAborts(u)
    BY <1>4
  <2>2. Go(u, "failed") /\ UNCHANGED <<place, docker, cache, upstream, prep, record, replay>>
    BY <1>4, <2>1 DEF BuildAborts, Quiet
  <2>3. tag' = tag /\ \A v \in Users \ {u} : build'[v] = build[v]
    BY <2>2 DEF docker, Go, BuildsOK
  <2>4. /\ StoreOK' /\ BuildsOK'
        /\ build'[u].sha = build[u].sha /\ build'[u].push = build[u].push
    BY <2>2, <2>3, GoKeeps, StoreStays
  <2> QED
    BY <2>2, <2>3, <2>4, AroundKeeps
<1>5. CASE (BaseMoves \/ Prune) /\ Quiet /\ UNCHANGED replay
  <2>1. /\ build' = build /\ UNCHANGED <<place, upstream, prep, record, replay>>
        /\ StoreOK' /\ BuildsOK'
    <3>1. CASE Prune
      BY <1>5, <3>1, PruneKeeps DEF Quiet, Prune
    <3>2. CASE BaseMoves
      <4>1. UNCHANGED <<place, docker, cache, build>>
        BY <3>2 DEF BaseMoves
      <4> QED
        BY <1>5, <4>1, StoreStays, BuildsStay DEF Quiet, docker
    <3> QED
      BY <1>5, <3>1, <3>2
  <2> QED
    BY <2>1, AroundKeeps
<1>6. CASE (\E u \in Preparers : Killed(u)) /\ UNCHANGED replay
  <2>1. PICK u \in Preparers : Killed(u)
    BY <1>6
  <2>2. /\ BackToIdle(u) /\ build' = build
        /\ UNCHANGED <<place, docker, cache, upstream, record>>
    BY <2>1 DEF Killed
  <2>3. PrepKept(u)
    BY <2>2, BackToIdleKeeps
  <2>4. ReplayOK'
    BY <1>6, <2>2, ReplayStays
  <2> QED
    BY <2>3, <2>4 DEF PrepKept
<1>7. CASE UpstreamMoves /\ UNCHANGED replay
  <2>1. /\ upstream' \in Listings
        /\ prep' = [u \in Preparers |->
             IF Preparing(u, "resolved") THEN [prep[u] EXCEPT !.named = {}] ELSE prep[u]]
        /\ UNCHANGED <<place, docker, cache, build, record>>
    BY <1>7, PreparationAssumption DEF UpstreamMoves
  <2>2. ASSUME NEW u \in Preparers
        PROVE  PrepOK(u)'
    <3>1. PrepOK(u)
      BY DEF PrepsOK
    <3>2. CASE prep[u].pc = "resolved"
      <4>1. prep'[u] = [prep[u] EXCEPT !.named = {}]
        BY <2>1, <3>2 DEF Preparing
      <4>2. /\ DOMAIN prep'[u] = PrepFields /\ prep'[u].pc = "resolved"
            /\ prep'[u].named = {} /\ prep'[u].job = prep[u].job
            /\ prep'[u].sha = prep[u].sha /\ prep'[u].image = prep[u].image
        BY <3>1, <3>2, <4>1 DEF PrepOK, PrepFields
      <4> QED
        BY <2>1, <3>1, <3>2, <4>2 DEF PrepOK, Exact
    <3>3. CASE prep[u].pc # "resolved"
      <4>1. prep'[u] = prep[u]
        BY <2>1, <3>3 DEF Preparing
      <4> QED
        BY <2>1, <3>1, <3>3, <4>1 DEF PrepOK, Exact, Idle, Jobs
    <3> QED
      BY <3>2, <3>3
  <2>3. PrepsOK'
    BY <2>1, <2>2 DEF PrepsOK
  <2>4. StoreOK' /\ BuildsOK' /\ RecordOK'
    BY <2>1, StoreStays, BuildsStay DEF RecordOK, IsImage, docker
  <2>5. ReplayOK'
    BY <1>7, <2>1, ReplayStays
  <2> QED
    BY <2>3, <2>4, <2>5
<1> QED
  BY <1>1, <1>2, <1>3, <1>4, <1>5, <1>6, <1>7 DEF Mishaps

-----------------------------------------------------------------------------
(* The invariant and the theorems. *)

LEMMA InitIsOK == Init => IInv
<1> SUFFICES ASSUME Init
             PROVE  IInv
  OBVIOUS
<1>1. PICK s \in Scenarios :
        /\ ImageInit /\ place = s.place /\ baseTag = s.base
        /\ upstream = s.upstream /\ mishaps = s.mishaps /\ record = NoRecord
        /\ prep = [u \in Preparers |-> Idle(s.jobs[u])]
  BY DEF Init, PreparationInit
<1>2. StoreOK
  <2>1. TagsOK
    BY <1>1 DEF ImageInit, TagsOK
  <2>2. CacheOK
    BY <1>1 DEF ImageInit, CacheOK, FileOK, Absent
  <2> QED
    BY <1>1, <2>1, <2>2 DEF ImageInit, StoreOK
<1>3. BuildsOK
  <2>1. /\ DOMAIN NoBuild = BuildFields /\ NoBuild.pc = "idle" /\ NoBuild.retagged = 0
        /\ DOMAIN NoBuild.identity = IdentityFields
    BY DEF NoBuild, BuildFields, NoIdentity, Identity, IdentityFields
  <2>2. Knows(NoBuild) /\ Answers(NoBuild)
    BY <2>1 DEF Knows, Answers, Building
  <2>3. DOMAIN build = Users /\ \A u \in Users : build[u] = NoBuild
    BY <1>1 DEF ImageInit
  <2>4. \A u \in Users : TagFits(u)
    BY <2>1, <2>3 DEF TagFits
  <2> QED
    BY <2>1, <2>2, <2>3, <2>4 DEF BuildsOK, Building
<1>4. PrepsOK
  <2>1. /\ s.upstream \in Listings /\ DOMAIN s.place = Places
        /\ s.jobs \in [Preparers -> Jobs \cup {NoJob}]
    BY PreparationAssumption
  <2>2. ASSUME NEW u \in Preparers
        PROVE  PrepOK(u)
    <3>1. /\ prep[u] = Idle(s.jobs[u]) /\ s.jobs[u] \in Jobs \cup {NoJob}
          /\ s.jobs[u] # NoJob => place[s.jobs[u].place] \in Contents
      BY <1>1, <2>1, PreparationAssumption
    <3>2. /\ DOMAIN prep[u] = PrepFields /\ prep[u].pc = "idle"
          /\ prep[u].job = s.jobs[u] /\ prep[u].sha = None /\ prep[u].image = NoIdentity
      BY <3>1 DEF Idle, PrepFields
    <3> QED
      BY <3>1, <3>2 DEF PrepOK
  <2> QED
    BY <1>1, <2>1, <2>2 DEF PrepsOK
<1>5. ReplayOK
  <2>1. ~build[Replayer].push
    BY <1>1, ReproductionAssumption DEF ImageInit, NoBuild
  <2>2. replay = NoReplay
    BY DEF Init
  <2>3. DOMAIN NoReplay = ReplayFields /\ NoReplay.pc = "idle" /\ NoReplay.edits = 0
    BY DEF NoReplay, ReplayFields
  <2> QED
    BY <2>1, <2>2, <2>3 DEF ReplayOK, Placed, ReplaySound
<1> QED
  BY <1>1, <1>2, <1>3, <1>4, <1>5 DEF IInv, RecordOK

LEMMA NextKeeps ==
  ASSUME IInv, [Next]_vars
  PROVE  IInv'
<1>1. CASE \E u \in Preparers : PreparationStep(u) /\ UNCHANGED replay
  <2>1. PICK u \in Preparers : PreparationStep(u) /\ UNCHANGED replay
    BY <1>1
  <2>2. PrepKept(u)
    BY <2>1, PreparationKeeps DEF IInv
  <2>3. Replayer \in Users \ {u}
    BY ReproductionAssumption
  <2>4. ReplayOK'
    BY <2>1, <2>2, <2>3, ReplayStays DEF PrepKept, IInv
  <2> QED
    BY <2>2, <2>4 DEF PrepKept, IInv
<1>2. CASE ReplayStep \/ TryAgain
  BY <1>2, ReplayStepKeeps
<1>3. CASE Mishaps
  BY <1>3, MishapsKeep
<1>4. CASE UNCHANGED vars
  <2>1. /\ UNCHANGED <<imageVars, upstream, prep, record>> /\ replay' = replay
    BY <1>4 DEF vars, prepVars
  <2>2. /\ StoreOK' /\ BuildsOK' /\ PrepsOK' /\ RecordOK'
        /\ place' = place /\ build' = build /\ record' = record
    BY <2>1, ReplayAlone DEF Unprepared, IInv
  <2>3. ReplayOK'
    BY <2>1, <2>2, ReplayStays DEF IInv
  <2> QED
    BY <2>2, <2>3 DEF IInv
<1> QED
  BY <1>1, <1>2, <1>3, <1>4 DEF Next

LEMMA IInvHolds == Spec => []IInv
BY InitIsOK, NextKeeps, PTL DEF Spec

\* What the cache, a finished build and a preparation say of an image is true,
\* however many builds share a tag, as long as no other moved it meanwhile; one
\* move at most is still noticed where it concerns the recipe.
THEOREM IdentitiesAreTrue == Spec => []ProvenanceExact
<1>1. IInv => ProvenanceExact
  <2> SUFFICES ASSUME IInv, NEW i \in Identities
               PROVE  Exact(i)
    BY DEF ProvenanceExact, Exact
  <2>1. CASE \E k \in DOMAIN cache : cache[k].state = "whole" /\ i = cache[k].identity
    <3>1. PICK p \in Places, s \in Suffixes :
            cache[<<p, s>>].state = "whole" /\ i = cache[<<p, s>>].identity
      BY <2>1 DEF IInv, StoreOK, CacheOK
    <3> QED
      BY <3>1 DEF IInv, StoreOK, CacheOK, FileOK
  <2>2. CASE \E u \in Users : build[u].pc = "ready" /\ i = build[u].identity
    BY <2>2 DEF IInv, BuildsOK, Answers
  <2>3. CASE \E u \in Preparers : prep[u].image # NoIdentity /\ i = prep[u].image
    BY <2>3 DEF IInv, PrepsOK, PrepOK
  <2> QED
    BY <2>1, <2>2, <2>3 DEF Identities
<1> QED
  BY <1>1, IInvHolds, PTL

\* Built or found in the cache, an image is of the commit, the recipe and the
\* pinned base that were asked for, and a selection carries the tag it was
\* asked by unless the upstream moved.
THEOREM BuildsAnswerTheRequest == Spec => []AnsweredAsAsked
<1>1. IInv => AnsweredAsAsked
  BY DEF IInv, BuildsOK, Answers, PrepsOK, PrepOK, AnsweredAsAsked
<1> QED
  BY <1>1, IInvHolds, PTL

\* A replay that reports ran what the campaign recorded, or its record names two
\* images, or the user changed the checkout under it; a report without a
\* difference to a clean record is right even after one such change.
THEOREM ReplaysAreSound == Spec => []ReplaySound
<1>1. IInv => ReplaySound
  BY DEF IInv, ReplayOK
<1> QED
  BY <1>1, IInvHolds, PTL

=============================================================================
