SPECIFICATION FairSpec
CONSTANTS
  Names = {"main", "v"}
  Commits = {"c1", "c2"}
  TagObjects = {"tagobject"}
  Users = {"ann", "bob", "rae"}
  Places = {"root", "other", "worktree"}
  Contents <- Checkouts
  RecipeOf <- OursOrTheirs
  CorpusOf <- OursOrLater
  CommitOf <- CommitsOfCheckouts
  Clean = {"ours", "later"}
  Bases = {"base1", "base2"}
  MaxSerial = 2
  Preparers = {"ann", "bob"}
  Scenarios <- Stories
  Upstreams <- BeforeAndAfter
  Replayer = "rae"
  Root = "root"
  Worktree = "worktree"
INVARIANTS ProvenanceExact AnsweredAsAsked ReplaySound
PROPERTY PreparationSettles
CHECK_DEADLOCK FALSE
