---------------------------- MODULE BundleExport -----------------------------
(***************************************************************************)
(* bundle.export_campaign_bundle and extract_campaign_archive for one      *)
(* campaign id in one output directory: the tree is made and validated in  *)
(* a temporary directory, and renamed to its place.  Where the tree comes  *)
(* from is for CampaignFiles to say.                                       *)
(***************************************************************************)
EXTENDS Naturals

CONSTANTS
  Writers,     \* processes that export or extract
  Nothing,     \* no tree
  MaxFailures  \* BOUND: kills and failed calls

VARIABLES
  destination,  \* the tree under campaigns/<id>
  tree,         \* per process: the tree it was last given to put there
  temporary,    \* per process: the tree in its temporary directory
  pc,           \* per process: where it is
  answer,       \* per process: how its last call ended
  loaded,       \* trees a reader has validated under campaigns/<id>
  failures

vars == <<destination, tree, temporary, pc, answer, loaded, failures>>

Init ==
  /\ destination = Nothing /\ failures = 0 /\ loaded = {}
  /\ tree = [w \in Writers |-> Nothing]
  /\ temporary = [w \in Writers |-> Nothing]
  /\ pc = [w \in Writers |-> "build"] /\ answer = [w \in Writers |-> "none"]

Goto(w, step) == pc' = [pc EXCEPT ![w] = step]
\* The finally clause removes the temporary directory.
Tell(w, told) ==
  /\ Goto(w, "over") /\ answer' = [answer EXCEPT ![w] = told]
  /\ temporary' = [temporary EXCEPT ![w] = Nothing]

\* Mutant of Build: a directory of fixed name, made with mkdir.
BuildInFixedPlace(w, t) ==
  /\ pc[w] = "build" /\ tree' = [tree EXCEPT ![w] = t]
  /\ IF temporary[w] = Nothing
     THEN /\ Goto(w, "exists") /\ UNCHANGED answer
          /\ temporary' = [temporary EXCEPT ![w] = t]
     ELSE /\ Goto(w, "over") /\ UNCHANGED temporary
          /\ answer' = [answer EXCEPT ![w] = "refused"]
  /\ UNCHANGED <<destination, loaded, failures>>

\* mkdtemp: a new name each time, whatever a killed process left.
Build(w, t) ==
  /\ pc[w] = "build" /\ Goto(w, "exists") /\ tree' = [tree EXCEPT ![w] = t]
  /\ temporary' = [temporary EXCEPT ![w] = t]
  /\ UNCHANGED <<destination, answer, loaded, failures>>

\* Mutant of Exists: an existing tree is taken for the same one.
ExistsIsEnough(w) ==
  /\ pc[w] = "exists"
  /\ IF destination # Nothing THEN Tell(w, "stored")
     ELSE Goto(w, "replace") /\ UNCHANGED <<answer, temporary>>
  /\ UNCHANGED <<destination, tree, loaded, failures>>

Exists(w) ==
  /\ pc[w] = "exists"
  /\ IF destination # Nothing
     THEN Tell(w, IF destination = temporary[w] THEN "stored" ELSE "refused")
     ELSE Goto(w, "replace") /\ UNCHANGED <<answer, temporary>>
  /\ UNCHANGED <<destination, tree, loaded, failures>>

\* Mutant of Replace: a tree that came to be there meanwhile is replaced.
ReplaceOver(w) ==
  /\ pc[w] = "replace"
  /\ destination' = temporary[w] /\ Tell(w, "stored")
  /\ UNCHANGED <<tree, loaded, failures>>

\* os.replace does not replace a directory that has members.
Replace(w) ==
  /\ pc[w] = "replace"
  /\ IF destination = Nothing
     THEN destination' = temporary[w] /\ Tell(w, "stored")
     ELSE Tell(w, "refused") /\ UNCHANGED destination
  /\ UNCHANGED <<tree, loaded, failures>>

\* A validation raises and the finally clause runs, or the process is killed
\* and it does not.
Fail(w) ==
  /\ pc[w] # "over" /\ failures < MaxFailures /\ failures' = failures + 1
  /\ \/ Tell(w, "refused")
     \/ /\ Goto(w, "over") /\ answer' = [answer EXCEPT ![w] = "refused"]
        /\ UNCHANGED temporary
  /\ UNCHANGED <<destination, tree, loaded>>

\* The same export again, in a temporary directory of its own.
Retry(w) ==
  /\ pc[w] = "over" /\ Goto(w, "build")
  /\ answer' = [answer EXCEPT ![w] = "none"]
  /\ UNCHANGED <<destination, tree, temporary, loaded, failures>>

\* _campaign_root finds the tree or raises.
Load ==
  /\ destination # Nothing /\ loaded' = loaded \cup {destination}
  /\ UNCHANGED <<destination, tree, temporary, pc, answer, failures>>

Exporter(w) == Exists(w) \/ Replace(w) \/ Fail(w) \/ Retry(w)

Contract == INSTANCE WriteOnce WITH given <- tree, stored <- destination

\* The bundle directory is a write-once store.
BundleIsWriteOnce == Contract!Spec

=============================================================================
