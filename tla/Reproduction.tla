---------------------------- MODULE Reproduction ----------------------------
(***************************************************************************)
(* reproduce.reproduce_case: one recorded observation is run again, in the *)
(* checkout or in a worktree of the recorded commit, with the recorded     *)
(* image found locally, pulled, or built anew, and the differences are     *)
(* listed.  It runs beside the invocations that prepared and recorded, on  *)
(* the same Docker daemon; the recorded campaign is theirs.                *)
(*                                                                         *)
(* The tool is deterministic: what it makes of a case depends on its image *)
(* and the corpus alone.  The document the record is read from is          *)
(* BundleContent's subject.                                                *)
(***************************************************************************)
EXTENDS Preparation

CONSTANTS
  Replayer,  \* the user who replays
  Root,      \* their checkout
  Worktree   \* .svtorture/reproduce/<recorded commit> in it

ASSUME ReproductionAssumption ==
  /\ Replayer \in Users \ Preparers /\ {Root, Worktree} \subseteq Places
  /\ Root # Worktree

VARIABLE replay
vars == <<prepVars, replay>>

Partial == "partial"  \* a worktree whose creation was cut short

\* edits is history: how often the place was changed since it was loaded.
NoReplay == [pc |-> "idle", at |-> None, reference |-> Reference(NoImage, FALSE),
             edits |-> 0, ran |-> <<>>, differences |-> {}]

Init ==
  PreparationInit /\ replay = NoReplay

Replaying(pc) == replay.pc = pc
Unprepared == UNCHANGED <<imageVars, upstream, prep, record>>
Fails == replay' = [NoReplay EXCEPT !.pc = "failed"]

\* Both say which commit is checked out and whether there are changes.
IsOfCommit(content, recorded) ==
  /\ content \in Contents /\ CommitOf[content] = CommitOf[recorded]
RecordedClean == record.repository \in Clean

-----------------------------------------------------------------------------
(* _ensure_checkout *)

\* A record of a changed checkout, or of the commit that is checked out, is
\* replayed where the user is.
StayInRoot ==
  /\ Replaying("idle") /\ record # NoRecord
  /\ ~RecordedClean \/ IsOfCommit(place[Root], record.repository)
  /\ replay' = [replay EXCEPT !.pc = "checkout", !.at = Root]
  /\ Unprepared

ElsewhereNeeded ==
  /\ Replaying("idle") /\ record # NoRecord
  /\ RecordedClean /\ ~IsOfCommit(place[Root], record.repository)

\* A worktree that exists must be the clean recorded checkout.
UseWorktree ==
  /\ ElsewhereNeeded /\ place[Worktree] # None
  /\ IF place[Worktree] \in Clean /\ IsOfCommit(place[Worktree], record.repository)
     THEN replay' = [replay EXCEPT !.pc = "checkout", !.at = Worktree]
     ELSE Fails
  /\ Unprepared

AddWorktree ==
  /\ ElsewhereNeeded /\ place[Worktree] = None
  /\ place' = [place EXCEPT ![Worktree] = Partial]
  /\ replay' = [replay EXCEPT !.pc = "adding"]
  /\ UNCHANGED <<baseTag, docker, cache, build, mishaps, upstream, prep, record>>

WorktreeAdded ==
  /\ Replaying("adding")
  /\ place' = [place EXCEPT ![Worktree] = record.repository]
  /\ replay' = [replay EXCEPT !.pc = "checkout", !.at = Worktree]
  /\ UNCHANGED <<baseTag, docker, cache, build, mishaps, upstream, prep, record>>

-----------------------------------------------------------------------------
(* _select_context: the catalog of that place must be the recorded one. *)

LoadCatalog ==
  /\ Replaying("checkout")
  /\ IF CorpusOf[place[replay.at]] = record.corpus
     THEN replay' = [replay EXCEPT !.pc = "loaded"]
     ELSE Fails
  /\ Unprepared

-----------------------------------------------------------------------------
(* _ensure_image *)

RunWith(reference) ==
  replay' = [replay EXCEPT !.pc = "run", !.reference = reference]

FoundLocally ==
  /\ Replaying("loaded") /\ Present(record.image.reference)
  /\ RunWith(record.image.reference)
  /\ Unprepared

\* An image id cannot be pulled.
Pullable(reference) == reference.pushed /\ reference.image \in registry

Pulled ==
  /\ Replaying("loaded") /\ ~Present(record.image.reference)
  /\ Pullable(record.image.reference)
  /\ images' = images \cup {record.image.reference.image}
  /\ digested' = digested \cup {record.image.reference.image}
  /\ RunWith(record.image.reference)
  /\ UNCHANGED <<place, baseTag, made, registry, tag, cache, build, mishaps,
                 upstream, prep, record>>

\* Neither here nor to be had (or the pull failed): build it from the
\* recorded commit on the recorded base.
Rebuild ==
  /\ Replaying("loaded") /\ ~Present(record.image.reference)
  /\ IF \/ record.sha = None
        \/ RecipeOf[place[replay.at]] # record.image.recipe
     THEN Fails /\ UNCHANGED build
     ELSE /\ Ask(Replayer, replay.at, record.sha, record.image.base, FALSE)
          /\ replay' = [replay EXCEPT !.pc = "rebuilding"]
  /\ UNCHANGED <<place, baseTag, docker, cache, mishaps, upstream, prep, record>>

\* Mutant: the image id is not compared.
RebuiltAnyId ==
  /\ Replaying("rebuilding") /\ build[Replayer].pc = "ready"
  /\ IF build[Replayer].identity.base = record.image.base
     THEN RunWith(build[Replayer].identity.reference)
     ELSE Fails
  /\ build' = [build EXCEPT ![Replayer] = NoBuild]
  /\ UNCHANGED <<place, baseTag, docker, cache, mishaps, upstream, prep, record>>

Rebuilt ==
  /\ Replaying("rebuilding") /\ build[Replayer].pc = "ready"
  /\ IF /\ build[Replayer].identity.base = record.image.base
        /\ build[Replayer].identity.image = record.image.image
     THEN RunWith(build[Replayer].identity.reference)
     ELSE Fails
  /\ build' = [build EXCEPT ![Replayer] = NoBuild]
  /\ UNCHANGED <<place, baseTag, docker, cache, mishaps, upstream, prep, record>>

RebuildFails ==
  /\ Replaying("rebuilding") /\ build[Replayer].pc = "failed"
  /\ Fails
  /\ build' = [build EXCEPT ![Replayer] = NoBuild]
  /\ UNCHANGED <<place, baseTag, docker, cache, mishaps, upstream, prep, record>>

-----------------------------------------------------------------------------
(* Running the case and comparing. *)

\* An image that has gone meanwhile makes the run a harness error.
Run ==
  /\ Replaying("run")
  /\ replay' = [replay EXCEPT !.pc = "ran",
       !.ran = <<IF Present(replay.reference) THEN replay.reference.image
                 ELSE NoImage, CorpusOf[place[replay.at]]>>]
  /\ Unprepared

CheckoutDifferences ==
  IF ~RecordedClean THEN {}
  ELSE {d \in {"commit", "changes"} :
          IF d = "commit" THEN ~IsOfCommit(place[Root], record.repository)
                          ELSE place[Root] \notin Clean}

\* Another image or another corpus may give the same judgment or another; a
\* harness error is not the judgment of an image that ran.
Report ==
  /\ Replaying("ran")
  /\ \E judgment \in CASE replay.ran = record.measured -> {{}}
                       [] replay.ran[1] = NoImage -> {{"judgment"}}
                       [] OTHER -> {{}, {"judgment"}} :
       replay' = [replay EXCEPT !.pc = "reported",
                    !.differences = CheckoutDifferences \cup judgment]
  /\ Unprepared

ReplayStep ==
  \/ StayInRoot \/ UseWorktree \/ AddWorktree \/ WorktreeAdded \/ LoadCatalog
  \/ FoundLocally \/ Pulled \/ Rebuild \/ Rebuilt \/ RebuildFails \/ Run \/ Report
  \/ /\ BuildStep(Replayer) \/ BuildFails(Replayer)
     /\ UNCHANGED <<upstream, prep, record, replay>>

-----------------------------------------------------------------------------
(* Mishaps. *)

\* A failed or killed replay may be tried again.
ReplayKilled ==
  /\ replay.pc \notin {"idle", "failed", "reported", "rebuilding"} /\ Mishap
  /\ Fails
  /\ UNCHANGED <<place, baseTag, docker, cache, build, upstream, prep, record>>

TryAgain ==
  /\ Replaying("failed") /\ replay' = NoReplay
  /\ Unprepared

\* The user checks out, or edits to, something else.
Edit ==
  /\ Mishap
  /\ \E at \in {p \in Places : place[p] \in Contents /\ p # Worktree} :
       /\ \E c \in Contents \ {place[at]} : place' = [place EXCEPT ![at] = c]
       /\ replay' = IF replay.pc \in {"checkout", "loaded", "rebuilding", "run", "ran"}
                       /\ replay.at = at
                    THEN [replay EXCEPT !.edits = @ + 1] ELSE replay
  /\ UNCHANGED <<baseTag, docker, cache, build, upstream, prep, record>>

RegistryLoses ==
  /\ Mishap /\ \E i \in registry : registry' = registry \ {i}
  /\ UNCHANGED <<place, baseTag, made, images, digested, tag, cache, build, upstream,
                 prep, record, replay>>

Mishaps ==
  \/ Edit \/ ReplayKilled \/ RegistryLoses
  \/ /\ \/ (\E u \in Users : BuildAborts(u)) /\ Quiet
        \/ (BaseMoves \/ Prune) /\ Quiet
        \/ \E u \in Preparers : Killed(u)
        \/ UpstreamMoves
     /\ UNCHANGED replay

Next ==
  \/ \E u \in Preparers : PreparationStep(u) /\ UNCHANGED replay
  \/ ReplayStep \/ TryAgain \/ Mishaps

Spec == Init /\ [][Next]_vars

FairSpec ==
  /\ Spec /\ WF_vars(ReplayStep)
  /\ \A u \in Preparers : WF_vars(PreparationStep(u) /\ UNCHANGED replay)

-----------------------------------------------------------------------------
(* Properties. *)

Identities ==
  {cache[k].identity : k \in {k \in DOMAIN cache : cache[k].state = "whole"}}
  \cup {build[u].identity : u \in {u \in Users : build[u].pc = "ready"}}
  \cup {prep[u].image : u \in {u \in Preparers : prep[u].image # NoIdentity}}

\* What an identity says of an image is true of it: its reference is the image
\* with its id, made of its recipe on its base image.  The tag is inspected
\* again after the build, so this holds if no other build moved the tag in
\* between and the recipe files were not changed under the build.  One such
\* move may falsify the base or, after a push, the reference, which nothing
\* compares; never the recipe of an image that was not pushed.
ProvenanceExact ==
  \A i \in Identities :
    /\ i.retagged = 0 =>
         /\ i.reference.image = i.image /\ i.image.base = i.base
         /\ ~i.edited => i.image.recipe = i.recipe
    /\ i.retagged <= 1 /\ ~i.reference.pushed => i.image.label = i.recipe

\* Cached or built, a build answers what was asked of it: the source commit,
\* the recipe and the base pinned by a replay.  The selection names a commit
\* the request stood for, and a requested tag is among its exact tags unless
\* the upstream moved between the two listings.
AnsweredAsAsked ==
  /\ \A u \in Users : build[u].pc = "ready" =>
       /\ build[u].identity.image.sha = build[u].sha
       /\ build[u].identity.recipe = build[u].recipe
       /\ build[u].pinned # None => build[u].identity.base = build[u].pinned
  /\ \A u \in Preparers :
       /\ prep[u].pc = "building" => prep[u].named \subseteq prep[u].tags
       /\ prep[u].image # NoIdentity => prep[u].image.image.sha = prep[u].sha

\* A replay that reports ran the recorded corpus with the image the campaign
\* measured; another image only if the record itself names two, and another
\* corpus only if the user's own checkout was changed under the replay.  If it
\* reports no difference to a clean record, one change is not enough, unless
\* the campaign was itself measured under changes: its corpus is then another
\* than its commit's.
ReplaySound ==
  replay.pc = "reported" =>
    LET image == replay.ran[1]
        corpus == replay.ran[2]
        twoImages == record.image.reference.image # record.image.image
        changed == replay.at = Root /\ replay.edits > 0
    IN /\ image \in {NoImage, record.measured[1]} \/ twoImages
       /\ corpus = record.corpus \/ changed
       /\ /\ replay.differences = {} /\ RecordedClean /\ replay.edits <= 1
          /\ {CorpusOf[record.repository], record.measured[2]} = {record.corpus}
          /\ ~twoImages
          => corpus = record.measured[2] /\ image # NoImage

\* A preparation that is repeated until it succeeds does succeed, whatever it
\* finds in the cache, on the daemon and upstream, once mishaps have ceased
\* and if the request can be resolved.  Builds of one commit with two recipes
\* share a tag and may undo each other for ever: only then may it go on.
Settled(u) == prep[u].pc \in {"prepared", "running", "measured"}
Refused(u) ==
  /\ Job(u).request \notin {None, "bundled"}
  /\ Resolved(upstream, Job(u).request) = {}
Rivalry ==
  \E u, v \in Users : /\ {build[u].pc, build[v].pc} \subseteq Building
                      /\ Own(u) = Own(v) /\ build[u].recipe # build[v].recipe
PreparationSettles ==
  \A u \in Preparers :
    <>(~Job(u).build \/ Settled(u) \/ []Refused(u)) \/ []<>Rivalry

=============================================================================
