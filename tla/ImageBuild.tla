----------------------------- MODULE ImageBuild -----------------------------
(***************************************************************************)
(* images.build_image and load_cached_image: several invocations, in one   *)
(* or several checkouts, build images of one tool on one Docker daemon.    *)
(* They share the daemon's tags and, in one checkout, the cache files.     *)
(* A tag is "<repository>:<suffix>" and the suffix is the source commit    *)
(* alone, so builds that differ in recipe or base image move one tag; the  *)
(* cache file is found by the same suffix.                                 *)
(*                                                                         *)
(* An image is what went into it, and its id is the image itself: label is *)
(* the recipe hash its builder claimed.  Command lines, platforms and      *)
(* progress output are left out.  What one builder does between two of its *)
(* Docker commands is invisible to the others, so a step is one command.   *)
(***************************************************************************)
EXTENDS Naturals, FiniteSets, Resolver

CONSTANTS
  Users,      \* concurrent invocations of svtorture
  Places,     \* checkouts they work in
  Contents,   \* what a checkout may hold
  RecipeOf,   \* the Dockerfile and recipe files of each content, hashed
  Bases,      \* images the base tag may stand for
  MaxSerial   \* BOUND: images that differ in nothing but their build

Recipes == {RecipeOf[c] : c \in Contents}

ASSUME ImageBuildAssumption ==
  /\ RecipeOf \in [Contents -> Recipes] /\ MaxSerial \in Nat \ {0}
  /\ None \notin Recipes \cup Bases \cup Contents /\ Recipes \cap Commits = {}

VARIABLES
  place,     \* what each checkout holds; None: it does not exist
  baseTag,   \* the image the Dockerfile's BASE_IMAGE tag stands for now
  made,      \* images built so far (history)
  images,    \* those the daemon holds
  digested,  \* those among them that have a repository digest
  registry,  \* images the registry holds, by digest
  tag,       \* what each suffix of the tool's repository names
  cache,     \* .svtorture/images of each checkout, by suffix
  build,     \* each invocation's call of build_image
  mishaps    \* BOUND: how many mishaps may still happen

docker == <<made, images, digested, registry, tag>>
imageVars == <<place, baseTag, docker, cache, build, mishaps>>

Image == [recipe : Recipes, label : Recipes, base : Bases,
          sha : Commits \cup {None}, serial : 1..MaxSerial]
NoImage == [recipe |-> None, label |-> None, base |-> None, sha |-> None,
            serial |-> 0]

\* A reference is an image id or, after a push, a repository digest.
Reference(image, pushed) == [image |-> image, pushed |-> pushed]

\* ImageIdentity.  retagged and edited are history: how often others moved the
\* tag between the build and its last inspection, and whether the recipe
\* files changed between their hash and the build.
Identity(reference, image, recipe, base, retagged, edited) ==
  [reference |-> reference, image |-> image, recipe |-> recipe, base |-> base,
   retagged |-> retagged, edited |-> edited]
NoIdentity == Identity(Reference(NoImage, FALSE), NoImage, None, None, 0, FALSE)

Absent == [state |-> "absent", identity |-> NoIdentity]
Torn == [state |-> "torn", identity |-> NoIdentity]
Whole(identity) == [state |-> "whole", identity |-> identity]

\* Internal tools have no source selection (sha is None).
Suffix(sha, recipe) == IF sha = None THEN recipe ELSE sha
Suffixes == Commits \cup Recipes

NoBuild == [pc |-> "idle", place |-> None, sha |-> None, pinned |-> None,
            push |-> FALSE, recipe |-> None, base |-> None, image |-> NoImage,
            retagged |-> 0, edited |-> FALSE, identity |-> NoIdentity]

ImageInit ==
  /\ made = {} /\ images = {} /\ digested = {} /\ registry = {}
  /\ tag = [s \in Suffixes |-> NoImage]
  /\ cache = [k \in Places \X Suffixes |-> Absent]
  /\ build = [u \in Users |-> NoBuild]

-----------------------------------------------------------------------------
(* The cache. *)

\* `docker image inspect` of a reference.
Present(reference) ==
  reference.image \in (IF reference.pushed THEN digested ELSE images)

\* Mutant: the recipe is not compared.
UsableAnyRecipe(file, recipe, pinned, sha) ==
  /\ file.state = "whole"
  /\ (pinned # None => file.identity.base = pinned)
  /\ Present(file.identity.reference)
  /\ (sha # None => file.identity.reference.image.sha = sha)

\* load_cached_image, for the recipe the checkout holds now.  The label that
\* names the source commit is written by the Dockerfile from the build's
\* argument, so it is the commit the image was built from.
Usable(file, recipe, pinned, sha) ==
  /\ file.state = "whole" /\ file.identity.recipe = recipe
  /\ (pinned # None => file.identity.base = pinned)
  /\ Present(file.identity.reference)
  /\ file.identity.reference.image = file.identity.image
  /\ file.identity.reference.image.label = file.identity.recipe
  /\ (sha # None => file.identity.reference.image.sha = sha)

-----------------------------------------------------------------------------
(* build_image, one Docker command a step. *)

\* Mutant: a cache file that cannot be read is an error.
AskOrFail(u, at, sha, pinned, push) ==
  LET recipe == RecipeOf[place[at]]
      file == cache[<<at, Suffix(sha, recipe)>>]
      hit == Usable(file, recipe, pinned, sha) /\ ~push
  IN build' = [build EXCEPT ![u] =
       [NoBuild EXCEPT !.pc = IF hit THEN "ready"
                              ELSE IF file.state = "torn" THEN "failed" ELSE "missed",
          !.place = at, !.sha = sha, !.pinned = pinned, !.push = push,
          !.recipe = recipe,
          !.identity = IF hit THEN file.identity ELSE NoIdentity]]

\* The call: the recipe is hashed and the cache consulted.
Ask(u, at, sha, pinned, push) ==
  LET recipe == RecipeOf[place[at]]
      file == cache[<<at, Suffix(sha, recipe)>>]
      hit == Usable(file, recipe, pinned, sha) /\ ~push
  IN build' = [build EXCEPT ![u] =
       [NoBuild EXCEPT !.pc = IF hit THEN "ready" ELSE "missed",
          !.place = at, !.sha = sha, !.pinned = pinned, !.push = push,
          !.recipe = recipe,
          !.identity = IF hit THEN file.identity ELSE NoIdentity]]

At(u, pc) == build[u].pc = pc
Go(u, pc) == build' = [build EXCEPT ![u].pc = pc]
Own(u) == Suffix(build[u].sha, build[u].recipe)

\* _pull_base: the base image is pinned before it is built upon.
PullBase(u) ==
  /\ At(u, "missed")
  /\ build' = [build EXCEPT ![u].pc = "based",
       ![u].base = IF build[u].pinned = None THEN baseTag ELSE build[u].pinned]
  /\ UNCHANGED <<place, baseTag, docker, cache, mishaps>>

\* An image with the same inputs is built out of the daemon's layers; without
\* them the build may or may not give an id it gave before.
Outcomes(inputs) ==
  LET same == {i \in made : [i EXCEPT !.serial = 0] = inputs}
      fresh == Cardinality(same) + 1
  IN IF same \cap images # {} THEN same \cap images
     ELSE same \cup {[inputs EXCEPT !.serial = n] : n \in {fresh} \cap 1..MaxSerial}

\* `docker build` from the checkout as it is now, labelled with the recipe
\* hashed before.
DockerBuild(u) ==
  /\ At(u, "based") /\ place[build[u].place] # None
  /\ \E image \in Outcomes([recipe |-> RecipeOf[place[build[u].place]],
                           label |-> build[u].recipe, base |-> build[u].base,
                           sha |-> build[u].sha, serial |-> 0]) :
       LET loses(v) == /\ v # u /\ Own(v) = Own(u) /\ tag[Own(u)] # image
                       /\ build[v].pc \in {"built", "identified", "labelled",
                                           "pushed"}
       IN /\ made' = made \cup {image} /\ images' = images \cup {image}
          /\ tag' = [tag EXCEPT ![Own(u)] = image]
          /\ build' = [v \in Users |->
               CASE v = u -> [build[u] EXCEPT !.pc = "built",
                                !.edited = image.recipe # build[u].recipe]
                 [] loses(v) -> [build[v] EXCEPT !.retagged =
                                   IF @ < 2 THEN @ + 1 ELSE @]
                 [] OTHER -> build[v]]
  /\ UNCHANGED <<place, baseTag, digested, registry, cache, mishaps>>

\* The id is asked of the tag, not of the build.
InspectId(u) ==
  /\ At(u, "built") /\ tag[Own(u)] # NoImage
  /\ build' = [build EXCEPT ![u].pc = "identified", ![u].image = tag[Own(u)]]
  /\ UNCHANGED <<place, baseTag, docker, cache, mishaps>>

\* Mutant: the labels are not compared.
InspectLabelsUnchecked(u) ==
  /\ At(u, "identified") /\ tag[Own(u)] # NoImage
  /\ Go(u, IF build[u].push THEN "labelled" ELSE "named")
  /\ UNCHANGED <<place, baseTag, docker, cache, mishaps>>

\* The labels are asked of the tag a second time and must be the build's.
InspectLabels(u) ==
  /\ At(u, "identified") /\ tag[Own(u)] # NoImage
  /\ Go(u, CASE tag[Own(u)].label # build[u].recipe \/ tag[Own(u)].sha # build[u].sha -> "failed"
             [] OTHER -> IF build[u].push THEN "labelled" ELSE "named")
  /\ UNCHANGED <<place, baseTag, docker, cache, mishaps>>

\* What is pushed is what the tag names by then.
Push(u) ==
  /\ At(u, "labelled") /\ tag[Own(u)] # NoImage
  /\ registry' = registry \cup {tag[Own(u)]}
  /\ digested' = digested \cup {tag[Own(u)]}
  /\ Go(u, "pushed")
  /\ UNCHANGED <<place, baseTag, made, images, tag, cache, mishaps>>

\* The repository digest is asked of the tag again.
InspectDigest(u) ==
  /\ At(u, "pushed") /\ tag[Own(u)] # NoImage
  /\ build' = [build EXCEPT
       ![u].pc = IF tag[Own(u)] \in digested THEN "named" ELSE "failed",
       ![u].identity.reference = Reference(tag[Own(u)], TRUE)]
  /\ UNCHANGED <<place, baseTag, docker, cache, mishaps>>

Result(u) ==
  Identity(IF build[u].push THEN build[u].identity.reference
           ELSE Reference(build[u].image, FALSE),
           build[u].image, build[u].recipe, build[u].base,
           build[u].retagged, build[u].edited)

\* write_text truncates the cache file and then writes it; two writers may
\* leave a file that is neither's.
OpenCache(u) ==
  /\ At(u, "named")
  /\ cache' = [cache EXCEPT ![<<build[u].place, Own(u)>>] = Torn]
  /\ Go(u, "opened")
  /\ UNCHANGED <<place, baseTag, docker, mishaps>>

WriteCache(u) ==
  /\ At(u, "opened")
  /\ \E file \in {Whole(Result(u))} \cup
                 {f \in {Torn} : cache[<<build[u].place, Own(u)>>] # Torn} :
       cache' = [cache EXCEPT ![<<build[u].place, Own(u)>>] = file]
  /\ build' = [build EXCEPT ![u].pc = "ready", ![u].identity = Result(u),
                            ![u].image = NoImage, ![u].base = None,
                            ![u].retagged = 0, ![u].edited = FALSE]
  /\ UNCHANGED <<place, baseTag, docker, mishaps>>

BuildStep(u) ==
  \/ PullBase(u) \/ DockerBuild(u) \/ InspectId(u) \/ InspectLabels(u)
  \/ Push(u) \/ InspectDigest(u) \/ OpenCache(u) \/ WriteCache(u)

\* A tag or a checkout that is gone fails the command that needs it.
BuildFails(u) ==
  /\ \/ build[u].pc \in {"built", "identified", "labelled", "pushed"}
        /\ tag[Own(u)] = NoImage
     \/ At(u, "based") /\ place[build[u].place] = None
  /\ Go(u, "failed")
  /\ UNCHANGED <<place, baseTag, docker, cache, mishaps>>

-----------------------------------------------------------------------------
(* Mishaps. *)

Building == {"missed", "based", "built", "identified", "labelled", "pushed",
             "named", "opened"}

Mishap == mishaps > 0 /\ mishaps' = mishaps - 1

\* A command fails or times out, or the invocation is killed.
BuildAborts(u) ==
  /\ build[u].pc \in Building /\ Mishap
  /\ Go(u, "failed")
  /\ UNCHANGED <<place, baseTag, docker, cache>>

BaseMoves ==
  /\ Mishap /\ \E b \in Bases \ {baseTag} : baseTag' = b
  /\ UNCHANGED <<place, docker, cache, build>>

\* `docker image prune`: an image goes with the tags and digests that name it.
Prune ==
  /\ Mishap
  /\ \E i \in images :
       /\ images' = images \ {i} /\ digested' = digested \ {i}
       /\ tag' = [s \in Suffixes |-> IF tag[s] = i THEN NoImage ELSE tag[s]]
  /\ UNCHANGED <<place, baseTag, made, registry, cache, build>>

=============================================================================
