-------------------------- MODULE MCReleasePublish --------------------------
(* Small instances of ReleasePublish: an older and a newer campaign. *)
EXTENDS ReleasePublish

TwoCampaigns == {"older", "newer"}
ByTime == [c \in TwoCampaigns |-> IF c = "older" THEN 1 ELSE 2]

Found(tag, release, target, archive, summary, extra) ==
  [tag |-> tag, release |-> release, target |-> target,
   assets |-> [a \in Asset |-> CASE a = "archive" -> archive
                                 [] a = "summary" -> summary
                                 [] a = "extra" -> extra]]

Fresh == Found("none", "none", "none", "absent", "absent", "absent")

\* What an earlier session of this publisher can have left behind.
Resumable == {
  Fresh,
  Found("right", "none", "none", "absent", "absent", "absent"),
  Found("none", "draft", "right", "absent", "absent", "absent"),
  Found("none", "draft", "right", "right", "absent", "absent"),
  Found("none", "draft", "right", "absent", "right", "absent"),
  Found("right", "published", "right", "right", "right", "absent")}

\* Collisions: drafts, tags and files of somebody else's.
Foreign == {
  Found("wrong", "none", "none", "absent", "absent", "absent"),
  Found("right", "draft", "wrong", "right", "absent", "absent"),
  Found("none", "draft", "wrong", "absent", "absent", "absent"),
  Found("none", "draft", "right", "wrong", "absent", "absent"),
  Found("none", "draft", "right", "right", "right", "right")}

AnyHistory == Resumable \cup Foreign

=============================================================================
