----------------------------- MODULE AtomicTree ------------------------------
(***************************************************************************)
(* A directory tree that is exchanged as a whole, by one assembler at a    *)
(* time: it holds one complete tree, an assembler puts its own there at    *)
(* most once and answers "ok" only if it did.  The exchange ends with the  *)
(* new tree or with the old one, unless its own assembler is disrupted     *)
(* while it lasts: then there is no tree until the next one is installed.  *)
(***************************************************************************)
CONSTANTS Assemblers,  \* each has a tree of its own, named after it
          Initial,     \* the tree that is there at first
          Absent       \* no tree

VARIABLES tree,        \* the tree that is there
          exchanging,  \* the assembler, if any, that is exchanging it
          installed,   \* assemblers whose tree has been put there
          disrupted,   \* assemblers interrupted, killed, or unable to go back
          answer       \* per assembler: "none", "ok" or "raised"

view == <<tree, exchanging, installed, disrupted, answer>>

Init ==
  /\ tree = Initial /\ exchanging = {}
  /\ installed = {} /\ disrupted = {}
  /\ answer = [a \in Assemblers |-> "none"]

Begin(a) ==
  /\ exchanging = {} /\ tree # Absent /\ a \notin disrupted
  /\ exchanging' = {a}
  /\ UNCHANGED <<tree, installed, disrupted, answer>>

\* The new tree takes the place of the old one, or of none.
Install(a) ==
  /\ exchanging = IF tree = Absent THEN {} ELSE {a}
  /\ a \notin installed \cup disrupted
  /\ tree' = a /\ exchanging' = {} /\ installed' = installed \cup {a}
  /\ UNCHANGED <<disrupted, answer>>

Restore(a) ==
  /\ exchanging = {a} /\ exchanging' = {}
  /\ UNCHANGED <<tree, installed, disrupted, answer>>

\* The one step that takes a tree away, and only in the middle of an exchange.
Disrupt(a) ==
  /\ disrupted' = disrupted \cup {a} /\ exchanging' = exchanging \ {a}
  /\ tree' = IF a \in exchanging THEN Absent ELSE tree
  /\ UNCHANGED <<installed, answer>>

Answer(a, told) ==
  /\ told = "ok" => a \in installed
  /\ answer' = [answer EXCEPT ![a] = told]
  /\ UNCHANGED <<tree, exchanging, installed, disrupted>>

Next ==
  \E a \in Assemblers :
    \/ Begin(a) \/ Install(a) \/ Restore(a) \/ Disrupt(a)
    \/ \E told \in {"ok", "raised"} : Answer(a, told)

Spec == Init /\ [][Next]_view

=============================================================================
