------------------------ MODULE ReleasePublishProofs ------------------------
(***************************************************************************)
(* Proofs about ReleasePublish for any campaigns, order among them and     *)
(* histories, any number of sessions and failures, and any pushed tags.    *)
(*                                                                         *)
(* The inductive invariant follows the campaign being published: what the  *)
(* session has looked at stays so while it goes on, since nobody else      *)
(* touches a Release and a tag, once there, does not move.                 *)
(***************************************************************************)
EXTENDS ReleasePublish, TLAPS

Steps == {"idle", "next", "commit", "tag", "view", "created", "verify",
          "upload", "edit", "check", "built"}

TypeOK ==
  /\ remote \in [Campaigns -> History] /\ pushed \subseteq Campaigns
  /\ pages.listed \subseteq Campaigns /\ built.listed \subseteq Campaigns
  /\ pc \in Steps /\ queue \subseteq Campaigns /\ current \subseteq Campaigns
  /\ seenTag \in Targets /\ missing \subseteq Expected
  /\ returned \subseteq Campaigns

FilesExact(c) == AssetsMatch(c) /\ Present(c) = Expected

\* GitHub gives a published Release a tag.
PublishedTagged ==
  \A c \in Campaigns : remote[c].release = "published" => remote[c].tag # "none"

\* What the session knows of the campaign it publishes.
KnownOf(c) ==
  /\ pc = "view" =>
       /\ seenTag \in {"none", "right"}
       /\ seenTag = "right" => remote[c].tag = "right"
       /\ seenTag = "none" => remote[c].release # "published"
  /\ pc \in {"created", "verify", "upload", "edit"} => remote[c].release = "draft"
  /\ pc \in {"verify", "upload", "edit"} =>
       "right" \in {remote[c].tag, remote[c].target}
  /\ pc = "edit" => FilesExact(c)
  /\ pc = "check" => Intact(c)

CurrentKnown ==
  /\ \A c, d \in current : c = d
  /\ \A c \in current : KnownOf(c)

IInv == TypeOK /\ PublishedTagged /\ CurrentKnown /\ ReturnedIsExact

\* What the site is built from.
PublishedIntact == \A c \in Published : Intact(c)
SiteListsPublished ==
  /\ pages.listed \subseteq Published
  /\ pc = "built" =>
       /\ built.listed # {} /\ pages.listed \subseteq built.listed
       /\ built.listed \subseteq Published
       /\ built = [listed |-> built.listed, shown |-> {Latest(built.listed)}]

-----------------------------------------------------------------------------
(* Exactness of a Release's files. *)

\* The publisher's comparison of a Release with its expected assets says that
\* both files are there, are right, and nothing else is.
LEMMA ExactFiles ==
  ASSUME NEW c \in Campaigns
  PROVE  FilesExact(c) <=>
           /\ remote[c].assets["archive"] = "right"
           /\ remote[c].assets["summary"] = "right"
           /\ remote[c].assets["extra"] = "absent"
BY DEF FilesExact, AssetsMatch, Present, Expected, Asset

\* The same, said of an intact Release.
LEMMA IntactFiles ==
  ASSUME NEW c \in Campaigns
  PROVE  Intact(c) <=> remote[c].release = "published" /\ FilesExact(c)
BY DEF Intact, FilesExact, AssetsMatch, Present, Expected, Asset

-----------------------------------------------------------------------------
(* The inductive invariant. *)

\* An exception, wherever it leaves the session, keeps the invariant.
LEMMA RaiseKeeps ==
  ASSUME IInv, Raise
  PROVE  IInv'
BY DEF IInv, Raise, TypeOK, Steps, NoPages, Targets, PublishedTagged,
   CurrentKnown, KnownOf, ReturnedIsExact

\* publish_campaign_release returns for a Release that is exact.
LEMMA ReturnKeeps ==
  ASSUME IInv, NEW c \in current, Exact(c), ReturnFrom(c)
  PROVE  IInv'
BY DEF IInv, ReturnFrom, TypeOK, Steps, Targets, PublishedTagged, CurrentKnown,
   KnownOf, ReturnedIsExact, Exact, Intact, Present

\* A step of the session that only looks at GitHub keeps the invariant if
\* what it goes on with is known.
LEMMA LookKeeps ==
  ASSUME IInv, NEW c \in current, UNCHANGED <<remote, pushed, pages, returned>>,
         current' = current, queue' = queue, built' = built, pc' \in Steps,
         seenTag' \in Targets, missing' \subseteq Expected, KnownOf(c)'
  PROVE  IInv'
<1>1. \A d \in current' : d = c
  BY DEF IInv, CurrentKnown
<1>2. TypeOK'
  BY DEF IInv, TypeOK
<1>3. PublishedTagged'
  BY DEF IInv, PublishedTagged
<1>4. CurrentKnown'
  BY <1>1 DEF IInv, CurrentKnown
<1>5. ReturnedIsExact'
  BY DEF IInv, ReturnedIsExact, Exact, Intact, Present
<1> QED
  BY <1>2, <1>3, <1>4, <1>5 DEF IInv

\* A change of one Release that is not exact touches no exact one.
LEMMA OthersStayExact ==
  ASSUME IInv, NEW c \in Campaigns, ~Exact(c), returned' = returned,
         \A d \in Campaigns \ {c} : remote'[d] = remote[d]
  PROVE  ReturnedIsExact'
<1>1. ASSUME NEW d \in returned
      PROVE  Exact(d)'
  <2>1. d \in Campaigns /\ Exact(d) /\ d # c
    BY DEF IInv, TypeOK, ReturnedIsExact
  <2>2. remote'[d] = remote[d]
    BY <2>1
  <2> QED
    BY <2>1, <2>2 DEF Exact, Intact, Present
<1> QED
  BY <1>1 DEF ReturnedIsExact

\* The session's looks, decisions and comparisons keep the invariant.
LEMMA SessionKeeps ==
  ASSUME IInv, NEW c \in Campaigns, PublishCampaign(c)
  PROVE  IInv'
<1>0. \A d \in current : KnownOf(d)
  BY DEF IInv, CurrentKnown
<1>1. CASE NextCampaign(c)
  BY <1>1 DEF NextCampaign, IInv, TypeOK, Steps, PublishedTagged, CurrentKnown,
     KnownOf, ReturnedIsExact, Exact, Intact, Present
<1>2. CASE RequireCommit(c)
  <2>1. CASE Goto("tag") /\ UNCHANGED remote
    BY <1>2, <2>1, LookKeeps DEF RequireCommit, Goto, IInv, TypeOK, Steps, KnownOf
  <2> QED
    BY <1>2, <2>1, RaiseKeeps DEF RequireCommit
<1>3. CASE ReadTag(c)
  <2>1. CASE remote[c].tag # "wrong"
    <3>1. remote[c].tag \in {"none", "right"}
      BY <2>1 DEF IInv, TypeOK, History, Targets
    <3>2. KnownOf(c)'
      BY <1>3, <2>1, <3>1 DEF ReadTag, KnownOf, IInv, PublishedTagged
    <3> QED
      BY <1>3, <2>1, <3>1, <3>2, LookKeeps
      DEF ReadTag, IInv, TypeOK, Steps, Targets
  <2> QED
    BY <1>3, <2>1, RaiseKeeps DEF ReadTag
<1>4. CASE VerifyPublished(c)
  <2>1. CASE FilesExact(c)
    <3>1. Exact(c)
      BY <1>0, <1>4, <2>1, IntactFiles DEF VerifyPublished, KnownOf, Exact
    <3> QED
      BY <1>4, <2>1, <3>1, ReturnKeeps DEF VerifyPublished, FilesExact
  <2> QED
    BY <1>4, <2>1, RaiseKeeps DEF VerifyPublished, FilesExact
<1>5. CASE ResumeDraft(c)
  <2>1. CASE ~(seenTag = "none" /\ remote[c].target # "right")
    <3>1. KnownOf(c)'
      BY <1>0, <1>5, <2>1 DEF ResumeDraft, Goto, KnownOf
    <3> QED
      BY <1>5, <2>1, <3>1, LookKeeps
      DEF ResumeDraft, Goto, IInv, TypeOK, Steps, Targets
  <2> QED
    BY <1>5, <2>1, RaiseKeeps DEF ResumeDraft
<1>6. CASE CreateDraft(c)
  <2>1. remote' \in [Campaigns -> History] /\ remote'[c].release = "draft"
        /\ \A d \in Campaigns \ {c} : remote'[d] = remote[d]
    BY <1>6 DEF CreateDraft, IInv, TypeOK, History, Targets
  <2>2. TypeOK'
    BY <1>6, <2>1 DEF CreateDraft, Goto, IInv, TypeOK, Steps
  <2>3. PublishedTagged'
    BY <2>1 DEF IInv, PublishedTagged
  <2>4. CurrentKnown'
    BY <1>6, <2>1 DEF CreateDraft, Goto, IInv, CurrentKnown, KnownOf
  <2>5. ReturnedIsExact'
    BY <1>6, <2>1, OthersStayExact DEF CreateDraft, Goto, Exact, Intact
  <2> QED
    BY <2>2, <2>3, <2>4, <2>5 DEF IInv
<1>7. CASE CheckCreated(c)
  <2>1. CASE Goto("verify") /\ UNCHANGED remote /\ remote[c].target = "right"
    <3>1. KnownOf(c)'
      BY <1>0, <1>7, <2>1 DEF CheckCreated, Goto, KnownOf
    <3> QED
      BY <1>7, <2>1, <3>1, LookKeeps
      DEF CheckCreated, Goto, IInv, TypeOK, Steps, Targets
  <2> QED
    BY <1>7, <2>1, RaiseKeeps DEF CheckCreated
<1>8. CASE VerifyDraft(c)
  <2>1. CASE AssetsMatch(c)
    <3>1. KnownOf(c)'
      BY <1>0, <1>8, <2>1 DEF VerifyDraft, KnownOf
    <3> QED
      BY <1>8, <2>1, <3>1, LookKeeps
      DEF VerifyDraft, IInv, TypeOK, Steps, Targets, Expected
  <2> QED
    BY <1>8, <2>1, RaiseKeeps DEF VerifyDraft
<1>9. CASE Reverify(c)
  <2>1. CASE FilesExact(c)
    <3>1. KnownOf(c)'
      BY <1>0, <1>9, <2>1 DEF Reverify, Goto, KnownOf, FilesExact, AssetsMatch, Present
    <3> QED
      BY <1>9, <2>1, <3>1, LookKeeps
      DEF Reverify, Goto, IInv, TypeOK, Steps, Targets, FilesExact
  <2> QED
    BY <1>9, <2>1, RaiseKeeps DEF Reverify, FilesExact
<1>10. CASE Edit(c)
  <2>1. remote[c].release = "draft" /\ FilesExact(c)
        /\ "right" \in {remote[c].tag, remote[c].target}
    BY <1>0, <1>10 DEF Edit, KnownOf
  <2>2. /\ remote' \in [Campaigns -> History]
        /\ remote'[c].release = "published" /\ remote'[c].tag # "none"
        /\ remote'[c].assets = remote[c].assets
        /\ \A d \in Campaigns \ {c} : remote'[d] = remote[d]
    BY <1>10, <2>1 DEF Edit, IInv, TypeOK, History, Targets
  <2>3. TypeOK'
    BY <1>10, <2>2 DEF Edit, Goto, IInv, TypeOK, Steps
  <2>4. PublishedTagged'
    BY <2>2 DEF IInv, PublishedTagged
  <2>5. Intact(c)'
    BY <2>1, <2>2 DEF FilesExact, Intact, AssetsMatch, Present
  <2>6. CurrentKnown'
    BY <1>10, <2>5 DEF Edit, Goto, IInv, CurrentKnown, KnownOf
  <2>7. ReturnedIsExact'
    BY <1>10, <2>1, <2>2, OthersStayExact DEF Edit, Goto, Exact, Intact
  <2> QED
    BY <2>3, <2>4, <2>6, <2>7 DEF IInv
<1>11. CASE CheckTag(c)
  <2>1. CASE remote[c].tag = "right"
    BY <1>0, <1>11, <2>1, ReturnKeeps DEF CheckTag, KnownOf, Exact
  <2> QED
    BY <1>11, <2>1, RaiseKeeps DEF CheckTag
<1>12. ASSUME NEW a \in Expected, Upload(c, a)
       PROVE  IInv'
  <2>1. CASE remote[c].assets[a] = "absent"
    <3>1. remote[c].release = "draft"
      BY <1>0, <1>12 DEF Upload, KnownOf
    <3>2. a \in Asset
      BY DEF Asset, Expected
    <3>3. /\ remote' \in [Campaigns -> History]
          /\ remote'[c].release = remote[c].release
          /\ remote'[c].tag = remote[c].tag /\ remote'[c].target = remote[c].target
          /\ \A d \in Campaigns \ {c} : remote'[d] = remote[d]
      BY <1>12, <2>1, <3>2 DEF Upload, IInv, TypeOK, History, Contents
    <3>4. TypeOK'
      BY <1>12, <2>1, <3>3 DEF Upload, IInv, TypeOK
    <3>5. PublishedTagged'
      BY <3>3 DEF IInv, PublishedTagged
    <3>6. CurrentKnown'
      BY <1>12, <2>1, <3>3 DEF Upload, IInv, CurrentKnown, KnownOf
    <3>7. ReturnedIsExact'
      BY <1>12, <2>1, <3>1, <3>3, OthersStayExact DEF Upload, Exact, Intact
    <3> QED
      BY <3>4, <3>5, <3>6, <3>7 DEF IInv
  <2> QED
    BY <1>12, <2>1, RaiseKeeps DEF Upload
<1> QED
  BY <1>1, <1>2, <1>3, <1>4, <1>5, <1>6, <1>7, <1>8, <1>9, <1>10, <1>11, <1>12
  DEF PublishCampaign

\* Every step keeps the invariant.
LEMMA StepKeeps ==
  ASSUME IInv, [Next]_vars
  PROVE  IInv'
<1>1. ASSUME NEW S \in SUBSET Campaigns, StartSession(S)
      PROVE  IInv'
  BY <1>1 DEF StartSession, IInv, TypeOK, Steps, PublishedTagged, CurrentKnown,
     KnownOf, ReturnedIsExact, Intact
<1>2. ASSUME NEW c \in Campaigns, PublishCampaign(c)
      PROVE  IInv'
  BY <1>2, SessionKeeps
<1>3. CASE BuildPages
  <2>1. CASE pc' = "built"
    <3>1. TypeOK'
      BY <1>3, <2>1 DEF BuildPages, Raise, IInv, TypeOK, Steps, Published
    <3> QED
      BY <1>3, <2>1, <3>1 DEF BuildPages, Raise, IInv, PublishedTagged,
         CurrentKnown, KnownOf, ReturnedIsExact, Exact, Intact, Present
  <2> QED
    BY <1>3, <2>1, RaiseKeeps DEF BuildPages
<1>4. CASE Deploy
  BY <1>4 DEF Deploy, IInv, TypeOK, Steps, NoPages, PublishedTagged,
     CurrentKnown, KnownOf, ReturnedIsExact
<1>5. CASE SessionFails
  BY <1>5, RaiseKeeps DEF SessionFails
<1>6. ASSUME NEW c \in Campaigns, PushTag(c)
      PROVE  IInv'
  <2>1. /\ remote' \in [Campaigns -> History]
        /\ remote'[c].release = remote[c].release /\ remote'[c].tag = "wrong"
        /\ remote'[c].target = remote[c].target
        /\ remote'[c].assets = remote[c].assets /\ remote[c].tag = "none"
        /\ \A d \in Campaigns \ {c} : remote'[d] = remote[d]
    BY <1>6 DEF PushTag, IInv, TypeOK, History, Targets
  <2>2. TypeOK'
    BY <1>6, <2>1 DEF PushTag, session, IInv, TypeOK
  <2>3. PublishedTagged'
    BY <2>1 DEF IInv, PublishedTagged
  <2>4. CurrentKnown'
    <3>1. ASSUME NEW d \in current
          PROVE  KnownOf(d)'
      <4>1. KnownOf(d) /\ d \in Campaigns
        BY DEF IInv, CurrentKnown, TypeOK
      <4>2. CASE d = c
        BY <1>6, <2>1, <4>1, <4>2
        DEF PushTag, session, KnownOf, FilesExact, AssetsMatch, Present, Intact
      <4>3. CASE d # c
        BY <1>6, <2>1, <4>1, <4>3
        DEF PushTag, session, KnownOf, FilesExact, AssetsMatch, Present, Intact
      <4> QED
        BY <4>2, <4>3
    <3> QED
      BY <1>6, <3>1 DEF PushTag, session, IInv, CurrentKnown
  <2>5. ReturnedIsExact'
    BY <1>6, <2>1, OthersStayExact DEF PushTag, session, Exact
  <2> QED
    BY <2>2, <2>3, <2>4, <2>5 DEF IInv
<1>7. CASE UNCHANGED vars
  BY <1>7 DEF vars, session, IInv, TypeOK, PublishedTagged, CurrentKnown, KnownOf,
     FilesExact, AssetsMatch, Present, ReturnedIsExact, Exact, Intact
<1> QED
  BY <1>1, <1>2, <1>3, <1>4, <1>5, <1>6, <1>7 DEF Next, Session


\* At first no session runs and nothing is returned.
LEMMA InitKeeps ==
  ASSUME Init
  PROVE  IInv
BY ReleasePublishAssumption DEF Init, IInv, TypeOK, Steps, Targets, NoPages,
   PublishedTagged, CurrentKnown, KnownOf, ReturnedIsExact

\* The types of the variables, for every number of campaigns.
THEOREM TypesHold == Spec => []TypeOK
<1>1. IInv => TypeOK
  BY DEF IInv
<1> QED
  BY InitKeeps, StepKeeps, <1>1, PTL DEF Spec

\* publish_campaign_release returns only for an exact Release, whatever the
\* session finds, whoever pushes tags and wherever earlier sessions died.
THEOREM WhatReturnsIsExact == Spec => []ReturnedIsExact
<1>1. IInv => ReturnedIsExact
  BY DEF IInv
<1> QED
  BY InitKeeps, StepKeeps, <1>1, PTL DEF Spec

-----------------------------------------------------------------------------
(* What a step may do to GitHub. *)

\* The four steps that write, and what each changes.
Created(c) ==
  /\ remote[c].release = "none" /\ remote'[c].release = "draft"
  /\ remote'[c].tag = remote[c].tag /\ remote'[c].assets = remote[c].assets
Uploaded(c) ==
  /\ remote[c].release = "draft" /\ remote'[c].release = "draft"
  /\ remote'[c].tag = remote[c].tag
  /\ \E a \in Asset : remote[c].assets[a] = "absent"
       /\ \A b \in Asset \ {a} : remote'[c].assets[b] = remote[c].assets[b]
Finalised(c) ==
  /\ pc = "edit" /\ c \in current
  /\ remote[c].release = "draft" /\ remote'[c].release = "published"
  /\ remote'[c].assets = remote[c].assets
  /\ remote'[c].tag = IF remote[c].tag = "none" THEN remote[c].target
                      ELSE remote[c].tag
Tagged(c) ==
  /\ remote[c].tag = "none"
  /\ remote'[c].release = remote[c].release /\ remote'[c].assets = remote[c].assets

\* At most one Release changes in a step, and in one of these ways.
LEMMA WritesOfAStep ==
  ASSUME IInv, [Next]_vars
  PROVE  \/ remote' = remote
         \/ \E c \in Campaigns :
              /\ Created(c) \/ Uploaded(c) \/ Finalised(c) \/ Tagged(c)
              /\ \A d \in Campaigns \ {c} : remote'[d] = remote[d]
<1> SUFFICES ASSUME remote' # remote
             PROVE  \E c \in Campaigns :
                      /\ Created(c) \/ Uploaded(c) \/ Finalised(c) \/ Tagged(c)
                      /\ \A d \in Campaigns \ {c} : remote'[d] = remote[d]
  OBVIOUS
<1>1. ASSUME NEW c \in Campaigns, CreateDraft(c)
      PROVE  Created(c) /\ \A d \in Campaigns \ {c} : remote'[d] = remote[d]
  BY <1>1 DEF CreateDraft, Created, IInv, TypeOK, History
<1>2. ASSUME NEW c \in Campaigns, NEW a \in Expected, Upload(c, a)
      PROVE  Uploaded(c) /\ \A d \in Campaigns \ {c} : remote'[d] = remote[d]
  <2>1. remote[c].release = "draft" /\ a \in Asset
    BY <1>2 DEF Upload, IInv, CurrentKnown, KnownOf, Expected, Asset
  <2>2. remote[c].assets[a] = "absent"
    BY <1>2 DEF Upload, Raise
  <2>3. remote' = [remote EXCEPT ![c].assets[a] = "right"]
    BY <1>2, <2>2 DEF Upload
  <2> QED
    BY <2>1, <2>2, <2>3 DEF Uploaded, IInv, TypeOK, History
<1>3. ASSUME NEW c \in Campaigns, Edit(c)
      PROVE  Finalised(c) /\ \A d \in Campaigns \ {c} : remote'[d] = remote[d]
  <2>1. remote[c].release = "draft"
    BY <1>3 DEF Edit, IInv, CurrentKnown, KnownOf
  <2> QED
    BY <1>3, <2>1 DEF Edit, Finalised, IInv, TypeOK, History
<1>4. ASSUME NEW c \in Campaigns, PushTag(c)
      PROVE  Tagged(c) /\ \A d \in Campaigns \ {c} : remote'[d] = remote[d]
  BY <1>4 DEF PushTag, Tagged, IInv, TypeOK, History
<1>5. ASSUME NEW c \in Campaigns, PublishCampaign(c)
      PROVE  CreateDraft(c) \/ Edit(c) \/ \E a \in Expected : Upload(c, a)
  BY <1>5 DEF PublishCampaign, NextCampaign, RequireCommit, ReadTag,
     VerifyPublished, ResumeDraft, CheckCreated, VerifyDraft, Reverify, CheckTag,
     ReturnFrom, Raise
<1>6. \E c \in Campaigns : PublishCampaign(c) \/ PushTag(c)
  BY DEF Next, Session, StartSession, BuildPages, Deploy, SessionFails, Raise, vars
<1> QED
  BY <1>1, <1>2, <1>3, <1>4, <1>5, <1>6

\* No step moves a tag, unpublishes a Release or replaces an asset.
THEOREM NothingIsMovedOrReplaced == Spec => NothingMovedOrReplaced
<1>1. IInv /\ [Next]_vars =>
        [\A c \in Campaigns :
           /\ remote[c].tag # "none" => remote'[c].tag = remote[c].tag
           /\ remote[c].release = "published" =>
                remote'[c].release = "published"
                /\ remote'[c].assets = remote[c].assets
           /\ \A a \in Asset : remote[c].assets[a] # "absent" =>
                remote'[c].assets[a] = remote[c].assets[a]]_vars
  BY WritesOfAStep DEF Created, Uploaded, Finalised, Tagged
<1> QED
  BY InitKeeps, StepKeeps, <1>1, PTL DEF Spec, NothingMovedOrReplaced

\* A Release is exact from the step that makes it public, except that its tag
\* may have been pushed elsewhere before.
THEOREM PublishedIsExact == Spec => PublishedExact
<1>1. ASSUME IInv, [Next]_vars, NEW c \in Campaigns,
             remote[c].release # "published", remote'[c].release = "published"
      PROVE  Intact(c)' /\ (remote[c].tag # "wrong" => Exact(c)')
  <2>1. Finalised(c)
    BY <1>1, WritesOfAStep DEF Created, Uploaded, Tagged
  <2>2. FilesExact(c) /\ "right" \in {remote[c].tag, remote[c].target}
    BY <1>1, <2>1 DEF Finalised, IInv, CurrentKnown, KnownOf
  <2>3. Intact(c)'
    BY <1>1, <2>1, <2>2 DEF Finalised, FilesExact, Intact, AssetsMatch, Present
  <2>4. remote[c].tag \in {"none", "right", "wrong"}
    BY <1>1 DEF IInv, TypeOK, History, Targets
  <2> QED
    BY <2>1, <2>2, <2>3, <2>4 DEF Finalised, Exact
<1>2. IInv /\ [Next]_vars =>
        [\A c \in Campaigns :
           remote[c].release # "published" /\ remote'[c].release = "published" =>
             Intact(c)' /\ (remote[c].tag # "wrong" => Exact(c)')]_vars
  BY <1>1
<1> QED
  BY InitKeeps, StepKeeps, <1>2, PTL DEF Spec, PublishedExact

-----------------------------------------------------------------------------
(* The archive that readers are promised. *)

\* An intact Release is published, and published Releases are intact when the
\* histories are this publisher's.
ArchiveInv == IInv /\ PublishedIntact /\ SiteListsPublished

\* At first only what earlier sessions left is published, and no site is.
LEMMA ArchiveInit ==
  ASSUME Init
  PROVE  ArchiveInv
<1>1. ASSUME NEW c \in Published
      PROVE  Intact(c)
  BY <1>1, ArchiveAssumption DEF Init, Published, Intact, Present, Expected, Asset
<1>2. SiteListsPublished
  BY DEF Init, SiteListsPublished, NoPages
<1> QED
  BY <1>1, <1>2, InitKeeps DEF ArchiveInv, PublishedIntact

\* The one write that publishes a Release publishes an intact one; no other
\* changes what is public.
LEMMA PublicOnlyGrows ==
  ASSUME IInv, PublishedIntact, [Next]_vars
  PROVE  /\ PublishedIntact'
         /\ \/ Published' = Published
            \/ \E c \in Campaigns \ Published :
                 Published' = Published \cup {c} /\ UNCHANGED pages
<1>1. CASE remote' = remote
  BY <1>1 DEF PublishedIntact, Published, Intact, Present
<1>2. ASSUME NEW c \in Campaigns, Finalised(c),
             \A d \in Campaigns \ {c} : remote'[d] = remote[d]
      PROVE  /\ PublishedIntact' /\ UNCHANGED pages
             /\ Published' = Published \cup {c} /\ c \notin Published
  <2>1. UNCHANGED pages
    BY <1>2 DEF Finalised, Next, Session, StartSession, BuildPages, Deploy,
       SessionFails, Raise, PushTag, vars, session, PublishCampaign, NextCampaign,
       RequireCommit, ReadTag, VerifyPublished, ResumeDraft, CreateDraft,
       CheckCreated, VerifyDraft, Reverify, Edit, CheckTag, Upload, ReturnFrom, Goto
  <2>2. FilesExact(c)
    BY <1>2 DEF Finalised, IInv, CurrentKnown, KnownOf
  <2>3. Intact(c)'
    BY <1>2, <2>2 DEF Finalised, FilesExact, Intact, AssetsMatch, Present
  <2>4. Published' = Published \cup {c} /\ c \notin Published
    BY <1>2 DEF Finalised, Published
  <2>5. ASSUME NEW d \in Published
        PROVE  Intact(d)'
    <3>1. d \in Campaigns \ {c} /\ Intact(d)
      BY <2>4 DEF Published, PublishedIntact
    <3>2. remote'[d] = remote[d]
      BY <1>2, <3>1
    <3> QED
      BY <3>1, <3>2 DEF Intact, Present
  <2> QED
    BY <2>1, <2>3, <2>4, <2>5 DEF PublishedIntact
<1>3. ASSUME NEW c \in Campaigns, Created(c) \/ Uploaded(c) \/ Tagged(c),
             \A d \in Campaigns \ {c} : remote'[d] = remote[d]
      PROVE  PublishedIntact' /\ Published' = Published
  <2>1. ASSUME NEW d \in Campaigns
        PROVE  (d \in Published' <=> d \in Published)
               /\ (d \in Published => (Intact(d)' <=> Intact(d)))
    <3>1. CASE d = c
      BY <1>3, <3>1 DEF Created, Uploaded, Tagged, Published, Intact, Present
    <3>2. CASE d # c
      BY <1>3, <3>2 DEF Published, Intact, Present
    <3> QED
      BY <3>1, <3>2
  <2> QED
    BY <2>1 DEF Published, PublishedIntact
<1> QED
  BY <1>1, <1>2, <1>3, WritesOfAStep

\* The site is built from all published Releases, and is deployed as built.
LEMMA SiteStepKeeps ==
  ASSUME ArchiveInv, [Next]_vars
  PROVE  SiteListsPublished'
<1>1. Published \subseteq Published'
  BY PublicOnlyGrows DEF ArchiveInv
<1>2. CASE BuildPages /\ pc' = "built"
  <2>1. /\ built' = [listed |-> Published, shown |-> {Latest(Published)}]
        /\ Published # {} /\ UNCHANGED <<remote, pages>>
    BY <1>2 DEF BuildPages, Raise
  <2> QED
    BY <2>1, <1>1 DEF ArchiveInv, SiteListsPublished, Latest
<1>3. CASE Deploy
  BY <1>1, <1>3 DEF Deploy, ArchiveInv, SiteListsPublished
<1>4. CASE UNCHANGED <<pages, built, pc>>
  BY <1>1, <1>4 DEF ArchiveInv, SiteListsPublished, Latest
<1>5. CASE UNCHANGED pages /\ pc' # "built"
  BY <1>1, <1>5 DEF ArchiveInv, SiteListsPublished
<1>6. \/ BuildPages /\ pc' = "built"
      \/ Deploy
      \/ UNCHANGED <<pages, built, pc>>
      \/ UNCHANGED pages /\ pc' # "built"
  <2>1. CASE \E c \in Campaigns : PublishCampaign(c)
    BY <2>1 DEF PublishCampaign, NextCampaign, RequireCommit, ReadTag,
       VerifyPublished, ResumeDraft, CreateDraft, CheckCreated, VerifyDraft,
       Reverify, Edit, CheckTag, Upload, ReturnFrom, Goto, Raise
  <2>2. CASE ~\E c \in Campaigns : PublishCampaign(c)
    BY <2>2 DEF Next, Session, StartSession, BuildPages, SessionFails, PushTag,
       Raise, vars, session
  <2> QED
    BY <2>1, <2>2
<1> QED
  BY <1>2, <1>3, <1>4, <1>5, <1>6

\* When the Releases found at first were this publisher's, sessions and their
\* failures implement the archive readers are promised: a campaign becomes
\* public at once and whole, for good, and the site lists only such campaigns,
\* never fewer than before, and shows the latest.
THEOREM PublicationImplementsArchive == Spec => ImplementsArchive
<1>1. Init => Contract!Init
  BY DEF Init, Contract!Init, NoPages
<1>2. ArchiveInv /\ [Next]_vars => [Contract!Next]_Contract!archive
  <2> SUFFICES ASSUME ArchiveInv, [Next]_vars
               PROVE  [Contract!Next]_Contract!archive
    OBVIOUS
  <2> DEFINE public == {c \in Campaigns : Intact(c)}
  <2>1. public = Published /\ public' = Published'
    BY PublicOnlyGrows DEF ArchiveInv, PublishedIntact, Published, Intact
  <2>2. CASE Deploy
    <3>1. Published' = Published
      BY <2>2 DEF Deploy, Published
    <3>2. Contract!Deploy(built.listed)
      BY <2>1, <2>2, <3>1 DEF Deploy, Contract!Deploy, ArchiveInv,
         SiteListsPublished, Latest, Contract!Latest
    <3>3. built.listed \in SUBSET Campaigns
      BY DEF ArchiveInv, IInv, TypeOK
    <3> QED
      BY <3>2, <3>3 DEF Contract!Next
  <2>3. CASE UNCHANGED pages
    <3>1. CASE Published' = Published
      BY <2>1, <2>3, <3>1 DEF Contract!archive
    <3>2. ASSUME NEW c \in Campaigns \ Published,
                 Published' = Published \cup {c}
          PROVE  Contract!Next
      BY <2>1, <2>3, <3>2 DEF Contract!Next, Contract!Publish
    <3> QED
      BY <3>1, <3>2, PublicOnlyGrows DEF ArchiveInv
  <2>4. Deploy \/ UNCHANGED pages
    BY DEF Next, Session, StartSession, BuildPages, SessionFails, Raise, PushTag,
       vars, session, PublishCampaign, NextCampaign, RequireCommit, ReadTag,
       VerifyPublished, ResumeDraft, CreateDraft, CheckCreated, VerifyDraft,
       Reverify, Edit, CheckTag, Upload, ReturnFrom, Goto
  <2> QED
    BY <2>2, <2>3, <2>4
<1>3. ArchiveInv /\ [Next]_vars => ArchiveInv'
  BY StepKeeps, PublicOnlyGrows, SiteStepKeeps DEF ArchiveInv
<1> QED
  BY ArchiveInit, <1>1, <1>2, <1>3, PTL DEF Spec, ImplementsArchive, Contract!Spec

=============================================================================
