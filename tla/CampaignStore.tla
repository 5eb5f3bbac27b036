---------------------------- MODULE CampaignStore ----------------------------
(***************************************************************************)
(* campaign.save_campaign and load_campaign for one campaign id.  A run's  *)
(* id is its own, but an aggregate's is derived from its inputs, so that   *)
(* several processes, or one started again, may save under the same id.    *)
(* The record is a directory made first and a file written into it after.  *)
(***************************************************************************)
EXTENDS Naturals

CONSTANTS
  Writers,     \* processes that call save_campaign
  Value,       \* the serialised campaign each of them has
  MaxFailures  \* BOUND: kills and failed writes

Nothing == "nothing"
Torn == "torn"

ASSUME CampaignStoreAssumption ==
  /\ \A w \in Writers : Value[w] \notin {Nothing, Torn}
  /\ MaxFailures \in Nat

VARIABLES
  directory,  \* the campaign's directory exists
  file,       \* campaign.json: Nothing, Torn, or what it holds
  pc,         \* per process: where it is in save_campaign
  answer,     \* per process: how its last call ended
  loaded,     \* records load_campaign has returned
  failures

vars == <<directory, file, pc, answer, loaded, failures>>

Init ==
  /\ directory = FALSE /\ file = Nothing /\ failures = 0 /\ loaded = {}
  /\ pc = [w \in Writers |-> "exists"] /\ answer = [w \in Writers |-> "none"]

Goto(w, step) == pc' = [pc EXCEPT ![w] = step]
Tell(w, told) == Goto(w, "over") /\ answer' = [answer EXCEPT ![w] = told]

Exists(w) ==
  /\ pc[w] = "exists"
  /\ Goto(w, IF file # Nothing THEN "compare" ELSE "mkdir")
  /\ UNCHANGED <<directory, file, answer, loaded, failures>>

Compare(w) ==
  /\ pc[w] = "compare"
  /\ Tell(w, IF file = Value[w] THEN "stored" ELSE "refused")
  /\ UNCHANGED <<directory, file, loaded, failures>>

\* Mutant of Mkdir: exist_ok=True.
MkdirExistOk(w) ==
  /\ pc[w] = "mkdir" /\ directory' = TRUE /\ Goto(w, "open")
  /\ UNCHANGED <<file, answer, loaded, failures>>

\* exist_ok=False: the directory is made by one process only.
Mkdir(w) ==
  /\ pc[w] = "mkdir"
  /\ IF directory THEN Tell(w, "refused") /\ UNCHANGED directory
     ELSE directory' = TRUE /\ Goto(w, "open") /\ UNCHANGED answer
  /\ UNCHANGED <<file, loaded, failures>>

\* write_text creates the file empty, then writes it.
Open(w) ==
  /\ pc[w] = "open" /\ file' = Torn /\ Goto(w, "write")
  /\ UNCHANGED <<directory, answer, loaded, failures>>

Write(w) ==
  /\ pc[w] = "write" /\ file' = Value[w] /\ Tell(w, "stored")
  /\ UNCHANGED <<directory, loaded, failures>>

\* The process is killed, or the disk is full; what it made stays.
Fail(w) ==
  /\ pc[w] # "over" /\ failures < MaxFailures
  /\ Tell(w, "refused") /\ failures' = failures + 1
  /\ UNCHANGED <<directory, file, loaded>>

\* The same campaign is saved again.
Retry(w) ==
  /\ pc[w] = "over" /\ Goto(w, "exists")
  /\ answer' = [answer EXCEPT ![w] = "none"]
  /\ UNCHANGED <<directory, file, loaded, failures>>

\* load_campaign raises on a missing file and on a torn one.
Load ==
  /\ file \notin {Nothing, Torn} /\ loaded' = loaded \cup {file}
  /\ UNCHANGED <<directory, file, pc, answer, failures>>

Saver(w) ==
  \/ Exists(w) \/ Compare(w) \/ Mkdir(w) \/ Open(w) \/ Write(w)
  \/ Fail(w) \/ Retry(w)

Next == Load \/ \E w \in Writers : Saver(w)

Spec == Init /\ [][Next]_vars

-----------------------------------------------------------------------------
(* Properties. *)

StoreContract == INSTANCE WriteOnce WITH
  given <- Value, stored <- IF file = Torn THEN Nothing ELSE file

\* save_campaign and load_campaign implement the write-once store, also when
\* processes race for the id, are killed half-way and try again.
RecordIsWriteOnce == StoreContract!Spec

=============================================================================
