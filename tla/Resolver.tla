------------------------------ MODULE Resolver ------------------------------
(***************************************************************************)
(* resolver.resolve_tool_ref as operators over what an upstream repository *)
(* lists.  A listing gives each branch its commit and each tag the object  *)
(* it names together with the commit an annotated tag peels to.  The code  *)
(* asks the upstream twice, for the requested reference and then for the   *)
(* tags of the commit; Preparation lets the upstream move in between.      *)
(***************************************************************************)
CONSTANTS
  Names,     \* names branches and tags may have
  Commits,   \* full commit hashes
  TagObjects \* hashes of annotated tag objects

None == "none"
NoTag == [object |-> None, peeled |-> None]

\* A lightweight tag names a commit and has no peeled line; an annotated tag
\* names its own object and peels to a commit.
Tags == {NoTag} \cup [object : Commits, peeled : {None}]
                \cup [object : TagObjects, peeled : Commits]

\* The branch "latest" stands for is one of the names.
Listings == [default : Names, heads : [Names -> Commits \cup {None}],
             tags : [Names -> Tags]]

ASSUME ResolverAssumption ==
  /\ None \notin Commits \cup TagObjects \cup Names
  /\ "latest" \notin Commits \cup TagObjects
  /\ Commits \cap TagObjects = {} /\ Names \cap (Commits \cup TagObjects) = {}

\* The value lines `git ls-remote` prints for one reference.
Branch(up, name) == {up.heads[name]} \ {None}

\* The commit a tag stands for: its peeled line when it has one.
TagCommit(tag) == IF tag.peeled # None THEN tag.peeled ELSE tag.object

Tagged(up, name) == {TagCommit(up.tags[name])} \ {None}

Latest(up) == Branch(up, up.default)

\* A name both a branch and a tag carry is refused.
Named(up, name) ==
  IF Branch(up, name) # {} /\ Tagged(up, name) # {}
  THEN {} ELSE Branch(up, name) \cup Tagged(up, name)

\* A full hash is fetched and must peel to itself: a tag object's does not.
FullSha(up, sha) ==
  {c \in Commits : c = sha /\ \E n \in Names :
                                up.heads[n] = c \/ TagCommit(up.tags[n]) = c}

\* The one commit a request resolves to; {} when it is refused.
Resolved(up, requested) ==
  CASE requested = "latest" -> Latest(up)
    [] requested \in Commits \cup TagObjects -> FullSha(up, requested)
    [] requested \in Names \ {"latest"} -> Named(up, requested)

\* _tags_at: lightweight tags at the commit, and annotated ones peeling to it.
ExactTags(up, sha) ==
  {n \in Names : \/ up.tags[n].object = sha /\ up.tags[n].peeled = None
                 \/ up.tags[n].peeled = sha}

=============================================================================
