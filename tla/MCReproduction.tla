--------------------------- MODULE MCReproduction ---------------------------
(* A small instance of Reproduction. *)
EXTENDS Reproduction, TLC

\* "ours" and its local edits are one commit; one edit shares its recipe with
\* the later commit and leaves the corpus alone, the other does the opposite.
Checkouts == {"ours", "ours+", "ours*", "later"}
OursOrTheirs ==
  [c \in Checkouts |-> IF c \in {"ours", "ours*"} THEN "recipe1" ELSE "recipe2"]
OursOrLater ==
  [c \in Checkouts |-> IF c \in {"ours", "ours+"} THEN "corpus1" ELSE "corpus2"]
CommitsOfCheckouts == [c \in Checkouts |-> IF c = "later" THEN "later" ELSE "ours"]

Annotated(c) == [object |-> "tagobject", peeled |-> c]
Lightweight(c) == [object |-> c, peeled |-> None]
Listing(main, v) ==
  [default |-> "main",
   heads |-> [n \in {"main", "v"} |-> IF n = "main" THEN main ELSE None],
   tags |-> [n \in {"main", "v"} |-> IF n = "v" THEN v ELSE NoTag]]
\* The release moves on, and its tag with it.
BeforeAndAfter == {Listing("c1", Annotated("c1")), Listing("c2", Lightweight("c2"))}

Job_(at, request, build_, push, measure) ==
  [place |-> at, request |-> request, build |-> build_, push |-> push,
   measure |-> measure]
Run_(request, push) == Job_("root", request, TRUE, push, TRUE)
Prepare_(at, request, push) == Job_(at, request, TRUE, push, FALSE)

Scenario(ann, bob, root, other, mishaps_) ==
  [jobs |-> "ann" :> ann @@ "bob" :> bob,
   place |-> "root" :> root @@ "other" :> other @@ "worktree" :> None,
   base |-> "base1", upstream |-> Listing("c1", Annotated("c1")),
   mishaps |-> mishaps_]

\* A measured campaign and its replay, with several mishaps.
MeasureAndReplay ==
  {Scenario(Run_("v", push), NoJob, root, None, 3) :
     push \in BOOLEAN, root \in {"ours", "ours+"}}
\* Two invocations at once, in one checkout or in two that differ.
Racing ==
  {Scenario(Prepare_("root", "v", push), Prepare_(at, "latest", push2), "ours", "later", 1) :
     push \in BOOLEAN, push2 \in BOOLEAN, at \in {"root", "other"}}
\* A measured campaign whose image was built in a race, and its replay.
RacingAndReplay ==
  {Scenario(Run_("v", TRUE), Prepare_("other", "c1", push), "ours", "ours", 1) :
     push \in BOOLEAN}
\* Without a build; and an internal tool.
Others ==
  {Scenario(Prepare_("root", "v", FALSE), Job_("root", "latest", FALSE, FALSE, TRUE), "ours", None, 1),
   Scenario(Run_("bundled", FALSE), Prepare_("root", "bundled", FALSE), "ours", None, 1)}

Stories == MeasureAndReplay \cup Racing \cup RacingAndReplay \cup Others

=============================================================================
