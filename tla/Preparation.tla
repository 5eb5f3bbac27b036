---------------------------- MODULE Preparation -----------------------------
(***************************************************************************)
(* cli._prepare and the `svtorture run` around it: load the corpus,        *)
(* resolve the requested reference against a moving upstream, save the     *)
(* selection, build the image or load a cached one, read its version, and  *)
(* measure.  A user whose invocation fails repeats it.  CampaignRun models *)
(* the measuring itself; here it is what was run and what was written down *)
(* about it.                                                               *)
(***************************************************************************)
EXTENDS ImageBuild

CONSTANTS
  Preparers,  \* users who prepare or run a tool
  Scenarios,  \* BOUND: who asks for what, in which world, and the mishaps
  CorpusOf,   \* cases, requirements and tool definitions of each content
  CommitOf,   \* the commit a content is checked out at
  Clean,      \* contents without local changes
  Upstreams   \* what the tool's upstream may list

\* measure: the invocation is `svtorture run`.
Jobs == [place : Places, request : Names \cup Commits \cup TagObjects \cup
         {"latest", "bundled"}, build : BOOLEAN, push : BOOLEAN,
         measure : BOOLEAN]
NoJob == [place |-> None, request |-> None, build |-> FALSE, push |-> FALSE,
          measure |-> FALSE]

\* An invocation works in a checkout that exists, and a clean checkout holds
\* what its commit does.
ASSUME PreparationAssumption ==
  /\ Preparers \subseteq Users
  /\ Scenarios \subseteq [jobs : [Preparers -> Jobs \cup {NoJob}],
                          place : [Places -> Contents \cup {None}],
                          base : Bases, upstream : Upstreams, mishaps : Nat]
  /\ \A s \in Scenarios : \A u \in Preparers :
       s.jobs[u] # NoJob => s.place[s.jobs[u].place] \in Contents
  /\ Clean \subseteq Contents /\ Upstreams \subseteq Listings
  /\ \A c, d \in Clean : CommitOf[c] = CommitOf[d] => c = d

VARIABLES
  upstream,  \* what the upstream lists now
  prep,      \* each preparing invocation
  record     \* the campaign measured, once there is one

prepVars == <<imageVars, upstream, prep, record>>

\* named is history: the requested tag, while the upstream has not moved.
Idle(job) ==
  [pc |-> "idle", job |-> job, content |-> None, sha |-> None, tags |-> {},
   named |-> {}, image |-> NoIdentity, repository |-> None]

NoRecord == [repository |-> None, corpus |-> None, image |-> NoIdentity,
             sha |-> None, measured |-> <<>>]

PreparationInit ==
  \E s \in Scenarios :
    /\ ImageInit /\ place = s.place /\ baseTag = s.base
    /\ upstream = s.upstream /\ mishaps = s.mishaps /\ record = NoRecord
    /\ prep = [u \in Preparers |-> Idle(s.jobs[u])]

Preparing(u, pc) == prep[u].pc = pc
Job(u) == prep[u].job
Here(u) == place[Job(u).place]
BackToIdle(u) == prep' = [prep EXCEPT ![u] = Idle(Job(u))]

\* build_image, or load_cached_image without a build, for one selection; a
\* cache without a usable image is an error and the invocation ends.
Obtain(u, sha, next) ==
  IF Job(u).build
  THEN /\ Ask(u, Job(u).place, sha, None, Job(u).push)
       /\ prep' = [prep EXCEPT ![u] = [next EXCEPT !.pc = "building"]]
  ELSE LET recipe == RecipeOf[Here(u)]
           file == cache[<<Job(u).place, Suffix(sha, recipe)>>]
       IN /\ Usable(file, recipe, None, sha)
          /\ prep' = [prep EXCEPT ![u] =
                        [next EXCEPT !.pc = "obtained", !.image = file.identity]]
          /\ UNCHANGED build

\* An internal tool has nothing to resolve.
Bundled(u) ==
  /\ Preparing(u, "idle") /\ Job(u) # NoJob /\ Job(u).request = "bundled"
  /\ Obtain(u, None, [prep[u] EXCEPT !.content = Here(u)])
  /\ UNCHANGED <<place, baseTag, docker, cache, mishaps, upstream, record>>

\* The first listing: the catalog is loaded and the request resolved.  A
\* refused request ends the invocation and leaves nothing.
ResolveRef(u) ==
  /\ Preparing(u, "idle") /\ Job(u) # NoJob /\ Job(u).request # "bundled"
  /\ \E sha \in Resolved(upstream, Job(u).request) :
       prep' = [prep EXCEPT ![u].pc = "resolved", ![u].sha = sha,
                            ![u].content = Here(u),
                            ![u].named = {n \in {Job(u).request} \cap Names :
                                            sha \in Tagged(upstream, n)}]
  /\ UNCHANGED <<imageVars, upstream, record>>

\* The second listing gives the tags; the selection is saved and the image
\* obtained.
Select(u) ==
  /\ Preparing(u, "resolved")
  /\ Obtain(u, prep[u].sha,
            [prep[u] EXCEPT !.tags = ExactTags(upstream, prep[u].sha)])
  /\ UNCHANGED <<place, baseTag, docker, cache, mishaps, upstream, record>>

NothingCached(u) ==
  /\ Preparing(u, "resolved") /\ ~Job(u).build
  /\ LET recipe == RecipeOf[Here(u)]
     IN ~Usable(cache[<<Job(u).place, Suffix(prep[u].sha, recipe)>>], recipe, None,
                prep[u].sha)
  /\ BackToIdle(u)
  /\ UNCHANGED <<imageVars, upstream, record>>

Obtained(u) ==
  /\ Preparing(u, "building") /\ build[u].pc = "ready"
  /\ prep' = [prep EXCEPT ![u].pc = "obtained", ![u].image = build[u].identity]
  /\ build' = [build EXCEPT ![u] = NoBuild]
  /\ UNCHANGED <<place, baseTag, docker, cache, mishaps, upstream, record>>

\* The image is started to report its version.
ReadVersion(u) ==
  /\ Preparing(u, "obtained") /\ Present(prep[u].image.reference)
  /\ prep' = [prep EXCEPT ![u].pc = "prepared"]
  /\ UNCHANGED <<imageVars, upstream, record>>

\* The invocation ends with an error: the build failed, or the image is gone
\* when its version is read or its tool is run.
GivesUp(u) ==
  /\ \/ Preparing(u, "building") /\ build[u].pc = "failed"
     \/ prep[u].pc \in {"obtained", "running"}
        /\ ~Present(prep[u].image.reference)
  /\ BackToIdle(u)
  /\ build' = [build EXCEPT ![u] = NoBuild]
  /\ UNCHANGED <<place, baseTag, docker, cache, mishaps, upstream, record>>

\* run_campaign notes the repository's identity when it begins ...
BeginCampaign(u) ==
  /\ Preparing(u, "prepared") /\ Job(u).measure /\ record = NoRecord
  /\ prep' = [prep EXCEPT ![u].pc = "running", ![u].repository = Here(u)]
  /\ UNCHANGED <<imageVars, upstream, record>>

\* ... runs what the reference names on the cases as they are by then, and
\* records the hashes of the corpus loaded at the start.  The first campaign
\* recorded is the one that is replayed.
EndCampaign(u) ==
  /\ Preparing(u, "running") /\ Present(prep[u].image.reference)
  /\ record' = IF record # NoRecord THEN record ELSE
       [repository |-> prep[u].repository,
        corpus |-> CorpusOf[prep[u].content],
        image |-> prep[u].image, sha |-> prep[u].sha,
        measured |-> <<prep[u].image.reference.image, CorpusOf[Here(u)]>>]
  /\ prep' = [prep EXCEPT ![u].pc = "measured"]
  /\ UNCHANGED <<imageVars, upstream>>

PreparationStep(u) ==
  \/ Bundled(u) \/ ResolveRef(u) \/ Select(u) \/ NothingCached(u)
  \/ Obtained(u) \/ ReadVersion(u) \/ GivesUp(u)
  \/ BeginCampaign(u) \/ EndCampaign(u)
  \/ (BuildStep(u) \/ BuildFails(u)) /\ UNCHANGED <<upstream, prep, record>>

-----------------------------------------------------------------------------
(* What happens around it. *)

Quiet == UNCHANGED <<upstream, prep, record>>

\* An invocation that is not building is killed.
Killed(u) ==
  /\ prep[u].pc \in {"resolved", "obtained", "running"} /\ Mishap
  /\ BackToIdle(u)
  /\ UNCHANGED <<place, baseTag, docker, cache, build, upstream, record>>

UpstreamMoves ==
  /\ Mishap /\ upstream' \in Upstreams \ {upstream}
  /\ prep' = [u \in Preparers |->
       IF Preparing(u, "resolved") THEN [prep[u] EXCEPT !.named = {}] ELSE prep[u]]
  /\ UNCHANGED <<place, baseTag, docker, cache, build, record>>

=============================================================================
