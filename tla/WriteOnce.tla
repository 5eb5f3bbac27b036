------------------------------ MODULE WriteOnce ------------------------------
(***************************************************************************)
(* What the campaign store and the bundle directory promise for one id: at *)
(* most one value is ever stored under it, a writer is told "stored" only  *)
(* when that value is its own, and a reader gets that value or nothing.    *)
(***************************************************************************)
CONSTANTS Writers,  \* processes that store something under the id
          Nothing   \* no value

VARIABLES given,    \* per writer: what it has to store
          stored,   \* the value under the id
          answer,   \* per writer: "none", "stored" or "refused"
          loaded    \* values readers have got

store == <<given, stored, answer, loaded>>

Init ==
  /\ stored = Nothing /\ answer = [w \in Writers |-> "none"] /\ loaded = {}

\* A writer gets something to store before it is answered.
Give(w) ==
  /\ answer[w] = "none" /\ given' = [given EXCEPT ![w] = given'[w]]
  /\ UNCHANGED <<stored, answer, loaded>>

Store(w) ==
  stored = Nothing /\ stored' = given[w] /\ UNCHANGED <<given, answer, loaded>>

\* A writer that stores may be answered in the same step.
Answer(w, told) ==
  /\ answer' = [answer EXCEPT ![w] = told]
  /\ told = "stored" => stored' = given[w]
  /\ stored' = stored \/ (stored = Nothing /\ stored' = given[w])
  /\ UNCHANGED <<given, loaded>>

Load ==
  /\ stored # Nothing /\ loaded' = loaded \cup {stored}
  /\ UNCHANGED <<given, stored, answer>>

Next ==
  \/ Load
  \/ \E w \in Writers :
       \/ Give(w) \/ Store(w)
       \/ \E told \in {"none", "stored", "refused"} : Answer(w, told)

Spec == Init /\ [][Next]_store

=============================================================================
