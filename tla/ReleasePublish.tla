--------------------------- MODULE ReleasePublish ---------------------------
(***************************************************************************)
(* github_publish.publish_dashboard: one publication session after another *)
(* makes each of its campaigns an immutable GitHub Release, then derives   *)
(* the Pages site from every published Release.                            *)
(*                                                                         *)
(* A session is sequential (the workflow's concurrency group admits one),  *)
(* but every gh call may fail and the runner may die between two calls; a  *)
(* later session finds what the earlier one left.  GitHub's side (tags,    *)
(* drafts, assets) is as the code uses it: a draft makes no tag, its       *)
(* publication creates a missing one at the draft's target, and an upload  *)
(* without --clobber refuses an asset that exists.                         *)
(***************************************************************************)
EXTENDS Naturals, FiniteSets

CONSTANTS
  Campaigns,    \* campaigns to publish
  Rank,         \* their order by (finished_at, id)
  Histories,    \* states of tag and Release a session may find at first
  MaxFailures,  \* BOUND: calls that fail and runners that die
  TagRace       \* somebody else may push a campaign's tag meanwhile

Asset == {"archive", "summary", "extra"}
Expected == {"archive", "summary"}
Targets == {"none", "right", "wrong"}
Contents == {"absent", "right", "wrong"}
History == [tag : Targets, release : {"none", "draft", "published"},
            target : Targets, assets : [Asset -> Contents]]

ASSUME ReleasePublishAssumption ==
  /\ Rank \in [Campaigns -> Nat]
  /\ \A c, d \in Campaigns : Rank[c] = Rank[d] => c = d
  /\ Histories \subseteq History
  /\ \A h \in Histories : h.release = "published" => h.tag # "none"
  /\ MaxFailures \in Nat /\ TagRace \in BOOLEAN

\* Whoever published a Release under a campaign's tag before was this publisher,
\* which leaves no other kind.  The page build relies on it: it downloads and
\* hashes the latest archive only (github_publish.py:427-432).
ASSUME ArchiveAssumption ==
  \A h \in Histories : h.release = "published" =>
    h.assets = [a \in Asset |-> IF a \in Expected THEN "right" ELSE "absent"]

VARIABLES
  remote,    \* GitHub: per campaign its tag, Release, draft target, assets
  pushed,    \* campaigns whose recorded commit is in the repository
  pages,     \* deployed site: campaigns listed, campaign shown
  pc,        \* where the session is ("idle": none runs)
  queue,     \* campaigns the session has still to publish
  current,   \* campaign being published (a set of at most one)
  seenTag,   \* tag target read for it
  missing,   \* expected assets its draft lacked when looked at
  returned,  \* campaigns publish_campaign_release returned for, this session
  built,     \* the Pages tree the session has built
  failures

session == <<pc, queue, current, seenTag, missing, returned, built>>
vars == <<remote, pushed, pages, session, failures>>

NoPages == [listed |-> {}, shown |-> {}]

Init ==
  /\ remote \in [Campaigns -> Histories] /\ pushed \in SUBSET Campaigns
  /\ pages = NoPages
  /\ pc = "idle" /\ queue = {} /\ current = {} /\ seenTag = "none"
  /\ missing = {} /\ returned = {} /\ built = NoPages /\ failures = 0

\* An exception leaves the session; what is on GitHub stays.
Raise ==
  /\ pc' = "idle" /\ queue' = {} /\ current' = {} /\ seenTag' = "none"
  /\ missing' = {} /\ returned' = {} /\ built' = NoPages
  /\ UNCHANGED <<remote, pushed, pages>>

Goto(step) ==
  pc' = step /\ UNCHANGED <<queue, current, seenTag, missing, returned, built,
                            pushed, pages>>

StartSession(S) ==
  /\ pc = "idle" /\ S # {}
  /\ pc' = "next" /\ queue' = S /\ returned' = {}
  /\ UNCHANGED <<remote, pushed, pages, current, seenTag, missing, built, failures>>

\* The next campaign's bundle, archive and summary are written locally.
NextCampaign(c) ==
  /\ pc = "next" /\ c \in queue
  /\ pc' = "commit" /\ current' = {c} /\ queue' = queue \ {c}
  /\ UNCHANGED <<remote, pushed, pages, seenTag, missing, returned, built, failures>>

-----------------------------------------------------------------------------
(* publish_campaign_release, for the current campaign c. *)

RequireCommit(c) ==
  /\ pc = "commit" /\ c \in current
  /\ IF c \in pushed THEN Goto("tag") /\ UNCHANGED remote ELSE Raise
  /\ UNCHANGED failures

ReadTag(c) ==
  /\ pc = "tag" /\ c \in current
  /\ IF remote[c].tag = "wrong" THEN Raise
     ELSE /\ seenTag' = remote[c].tag /\ pc' = "view"
          /\ UNCHANGED <<remote, pushed, pages, queue, current, missing,
                         returned, built>>
  /\ UNCHANGED failures

\* The asset names of a Release, and that it holds nothing it should not.
Present(c) == {a \in Asset : remote[c].assets[a] # "absent"}

\* Mutant of AssetsMatch: the names are compared and the files are not.
AssetsMatchByName(c) == Present(c) \subseteq Expected

AssetsMatch(c) ==
  Present(c) \subseteq Expected /\ \A a \in Present(c) : remote[c].assets[a] = "right"

ReturnFrom(c) ==
  /\ pc' = "next" /\ current' = {} /\ seenTag' = "none" /\ missing' = {}
  /\ returned' = returned \cup {c}
  /\ UNCHANGED <<remote, pushed, pages, queue, built>>

\* A published Release is verified and left alone.
VerifyPublished(c) ==
  /\ pc = "view" /\ c \in current /\ remote[c].release = "published"
  /\ IF AssetsMatch(c) /\ Present(c) = Expected THEN ReturnFrom(c) ELSE Raise
  /\ UNCHANGED failures

\* Mutant of ResumeDraft: a draft that exists is an error.
ResumeRefused(c) ==
  /\ pc = "view" /\ c \in current /\ remote[c].release = "draft"
  /\ Raise /\ UNCHANGED failures

\* A draft an earlier session left is resumed.
ResumeDraft(c) ==
  /\ pc = "view" /\ c \in current /\ remote[c].release = "draft"
  /\ IF seenTag = "none" /\ remote[c].target # "right"
     THEN Raise ELSE Goto("verify") /\ UNCHANGED remote
  /\ UNCHANGED failures

\* Mutant of CreateDraft: a draft that is there is deleted and made anew.
CreateDraftAnew(c) ==
  /\ pc = "view" /\ c \in current /\ remote[c].release # "published"
  /\ remote' = [remote EXCEPT ![c].release = "draft", ![c].target = "right",
                             ![c].assets = [a \in Asset |-> "absent"]]
  /\ Goto("created") /\ UNCHANGED failures

CreateDraft(c) ==
  /\ pc = "view" /\ c \in current /\ remote[c].release = "none"
  /\ remote' = [remote EXCEPT ![c].release = "draft", ![c].target = "right"]
  /\ Goto("created") /\ UNCHANGED failures

CheckCreated(c) ==
  /\ pc = "created" /\ c \in current
  /\ IF remote[c].release = "draft" /\ remote[c].target = "right"
     THEN Goto("verify") /\ UNCHANGED remote ELSE Raise
  /\ UNCHANGED failures

VerifyDraft(c) ==
  /\ pc = "verify" /\ c \in current
  /\ IF AssetsMatch(c)
     THEN /\ missing' = Expected \ Present(c) /\ pc' = "upload"
          /\ UNCHANGED <<remote, pushed, pages, queue, current, seenTag,
                         returned, built>>
     ELSE Raise
  /\ UNCHANGED failures

\* The missing files go up one by one.
Upload(c, a) ==
  /\ pc = "upload" /\ c \in current /\ a \in missing
  /\ IF remote[c].assets[a] = "absent"
     THEN /\ remote' = [remote EXCEPT ![c].assets[a] = "right"]
          /\ missing' = missing \ {a}
          /\ UNCHANGED <<pushed, pages, pc, queue, current, seenTag, returned,
                         built>>
     ELSE Raise
  /\ UNCHANGED failures

\* The refreshed draft must hold exactly the expected assets.
Reverify(c) ==
  /\ pc = "upload" /\ c \in current /\ missing = {}
  /\ IF AssetsMatch(c) /\ Present(c) = Expected
     THEN Goto("edit") /\ UNCHANGED remote ELSE Raise
  /\ UNCHANGED failures

\* release edit --draft=false; a missing tag comes to be at the target.
Edit(c) ==
  /\ pc = "edit" /\ c \in current
  /\ remote' = [remote EXCEPT ![c].release = "published",
                  ![c].tag = IF @ = "none" THEN remote[c].target ELSE @]
  /\ Goto("check") /\ UNCHANGED failures

\* Mutant of CheckTag: the tag is not looked at after publication.
CheckTagSkipped(c) ==
  pc = "check" /\ c \in current /\ ReturnFrom(c) /\ UNCHANGED failures

CheckTag(c) ==
  /\ pc = "check" /\ c \in current
  /\ IF remote[c].tag = "right" THEN ReturnFrom(c) ELSE Raise
  /\ UNCHANGED failures

PublishCampaign(c) ==
  \/ NextCampaign(c) \/ RequireCommit(c) \/ ReadTag(c)
  \/ VerifyPublished(c) \/ ResumeDraft(c) \/ CreateDraft(c) \/ CheckCreated(c)
  \/ VerifyDraft(c) \/ Reverify(c) \/ Edit(c) \/ CheckTag(c)
  \/ \E a \in Expected : Upload(c, a)

-----------------------------------------------------------------------------
(* build_pages_from_releases. *)

Published == {c \in Campaigns : remote[c].release = "published"}

\* A published Release must have a summary of its own and an archive of the
\* size the summary names.
Summarised(c) ==
  remote[c].assets["summary"] = "right" /\ remote[c].assets["archive"] # "absent"

Latest(S) == CHOOSE c \in S : \A d \in S : Rank[d] <= Rank[c]

\* Mutant of BuildPages: only this session's campaigns are listed.
BuildPagesFromSession ==
  /\ pc = "next" /\ queue = {}
  /\ IF returned # {}
     THEN /\ built' = [listed |-> returned, shown |-> {Latest(returned)}]
          /\ pc' = "built"
          /\ UNCHANGED <<remote, pushed, pages, queue, current, seenTag,
                         missing, returned>>
     ELSE Raise
  /\ UNCHANGED failures

\* All summaries are downloaded and checked, then the latest archive is
\* downloaded and its digest checked against the summary.
BuildPages ==
  /\ pc = "next" /\ queue = {}
  /\ IF /\ Published # {} /\ \A c \in Published : Summarised(c)
        /\ remote[Latest(Published)].assets["archive"] = "right"
     THEN /\ built' = [listed |-> Published, shown |-> {Latest(Published)}]
          /\ pc' = "built"
          /\ UNCHANGED <<remote, pushed, pages, queue, current, seenTag,
                         missing, returned>>
     ELSE Raise
  /\ UNCHANGED failures

\* The workflow's last step deploys the tree.
Deploy ==
  /\ pc = "built"
  /\ pages' = built /\ built' = NoPages /\ pc' = "idle" /\ returned' = {}
  /\ UNCHANGED <<remote, pushed, queue, current, seenTag, missing, failures>>

-----------------------------------------------------------------------------

\* A gh call fails, an export or a size gate raises, or the runner dies.
SessionFails ==
  /\ pc # "idle" /\ failures < MaxFailures
  /\ Raise /\ failures' = failures + 1

PushTag(c) ==
  /\ TagRace /\ remote[c].tag = "none"
  /\ remote' = [remote EXCEPT ![c].tag = "wrong"]
  /\ UNCHANGED <<pushed, pages, session, failures>>

Session ==
  BuildPages \/ Deploy \/ \E c \in Campaigns : PublishCampaign(c)

Next ==
  \/ \E S \in SUBSET Campaigns : StartSession(S)
  \/ Session \/ SessionFails
  \/ \E c \in Campaigns : PushTag(c)

Spec == Init /\ [][Next]_vars

\* A started session goes on, and a maintainer who sees campaigns missing
\* dispatches the workflow for them until a run of it starts, whatever other
\* sessions run in between.
FairSpec ==
  /\ Spec /\ WF_vars(Session)
  /\ SF_vars(StartSession(pushed \ pages.listed))

-----------------------------------------------------------------------------
(* Properties. *)

\* A public Release with exactly its two files, and one at its commit too.
Intact(c) ==
  /\ remote[c].release = "published"
  /\ Present(c) = Expected /\ \A a \in Expected : remote[c].assets[a] = "right"
Exact(c) == Intact(c) /\ remote[c].tag = "right"

\* publish_campaign_release returns only for a Release that is published with
\* exactly its two files and tagged at the recorded commit, even when somebody
\* pushes the tag between the check and the publication.
ReturnedIsExact == \A c \in returned : Exact(c)

\* No session, whatever it finds and wherever it dies, moves a tag, deletes or
\* unpublishes a Release, or replaces an asset
\* (docs/exec-plans/dashboard-pages-releases.md:85, 159).
NothingMovedOrReplaced ==
  [][\A c \in Campaigns :
       /\ remote[c].tag # "none" => remote'[c].tag = remote[c].tag
       /\ remote[c].release = "published" =>
            remote'[c].release = "published" /\ remote'[c].assets = remote[c].assets
       /\ \A a \in Asset : remote[c].assets[a] # "absent" =>
            remote'[c].assets[a] = remote[c].assets[a]]_vars

\* A Release becomes public only when its files are complete and exact, and at
\* the recorded commit unless somebody pushed its tag elsewhere just before.
PublishedExact ==
  [][\A c \in Campaigns :
       remote[c].release # "published" /\ remote'[c].release = "published" =>
         Intact(c)' /\ (remote[c].tag # "wrong" => Exact(c)')]_vars

\* What no session may resolve by itself: a tag elsewhere, or a draft with a
\* foreign target or file.
Collides(c) ==
  \/ remote[c].tag = "wrong" \/ remote[c].target = "wrong"
  \/ ~AssetsMatch(c)

\* Every campaign whose commit was pushed gets published and listed, although
\* sessions fail half-way: a draft left behind is completed by a later one,
\* and only a collision with somebody else's tag or files stops that.
EveryCampaignIsListed ==
  <>[](pushed \subseteq pages.listed \/ \E c \in pushed : Collides(c))

Contract == INSTANCE ReleaseContract WITH
  public <- {c \in Campaigns : Intact(c)}

\* Sessions and failures together implement the archive readers are promised.
ImplementsArchive == Contract!Spec

=============================================================================
