------------------------------ MODULE DataSwap -------------------------------
(***************************************************************************)
(* The end of bundle.assemble_dashboard_data: several processes replace    *)
(* one data directory.  Each has built and validated its tree in a         *)
(* temporary directory; under an exclusive flock it moves the old tree to  *)
(* a backup name and its own to the output, and deletes the backup.        *)
(***************************************************************************)
EXTENDS Naturals

CONSTANTS
  Assemblers,    \* processes; a process's tree is named after it
  Initial,       \* what the output holds at first, or Absent
  MaxFailures,   \* BOUND: calls that fail
  MayInterrupt,  \* KeyboardInterrupt may reach a process
  MayCrash       \* a process may be killed

Absent == "absent"

ASSUME DataSwapAssumption ==
  /\ Absent \notin Assemblers /\ Initial \notin Assemblers
  /\ MaxFailures \in Nat /\ {MayInterrupt, MayCrash} \subseteq BOOLEAN

VARIABLES
  output,     \* the tree under the output's name
  temporary,  \* per process: the tree in its temporary directory
  backup,     \* per process: the tree in its backup directory
  holder,     \* processes that hold the lock
  pc,         \* per process: where it is
  answer,     \* per process: "none", "ok", "raised"
  installed,    \* history: processes whose tree has been put there
  disrupted,    \* history: processes interrupted, killed or unable to restore
  failures

history == <<installed, disrupted>>
vars == <<output, temporary, backup, holder, pc, answer, history, failures>>

Init ==
  /\ output = Initial /\ holder = {} /\ failures = 0
  /\ installed = {} /\ disrupted = {}
  /\ temporary = [a \in Assemblers |-> Absent]
  /\ backup = [a \in Assemblers |-> Absent]
  /\ pc = [a \in Assemblers |-> "build"]
  /\ answer = [a \in Assemblers |-> "none"]

Goto(a, step) == pc' = [pc EXCEPT ![a] = step]
CanFail == failures < MaxFailures /\ failures' = failures + 1

Build(a) ==
  /\ pc[a] = "build" /\ Goto(a, "lock")
  /\ temporary' = [temporary EXCEPT ![a] = a]
  /\ UNCHANGED <<output, backup, holder, answer, history, failures>>

\* A bundle is invalid, or the lock cannot be opened.
BuildFails(a) ==
  /\ pc[a] \in {"build", "lock"} /\ CanFail /\ Goto(a, "finally")
  /\ UNCHANGED <<output, temporary, backup, holder, answer, history>>

Lock(a) ==
  /\ pc[a] = "lock" /\ holder = {} /\ holder' = {a} /\ Goto(a, "look")
  /\ UNCHANGED <<output, temporary, backup, answer, history, failures>>

Look(a) ==
  /\ pc[a] = "look"
  /\ Goto(a, IF output = Absent THEN "moveIn" ELSE "moveOut")
  /\ UNCHANGED <<output, temporary, backup, holder, answer, history, failures>>

MoveOut(a) ==
  /\ pc[a] = "moveOut"
  /\ IF output = Absent
     THEN Goto(a, "unlock") /\ UNCHANGED <<output, backup>>
     ELSE /\ backup' = [backup EXCEPT ![a] = output] /\ output' = Absent
          /\ Goto(a, "moveIn")
  /\ UNCHANGED <<temporary, holder, answer, history, failures>>

MoveOutFails(a) ==
  /\ pc[a] = "moveOut" /\ CanFail /\ Goto(a, "unlock")
  /\ UNCHANGED <<output, temporary, backup, holder, answer, history>>

MoveIn(a) ==
  /\ pc[a] = "moveIn"
  /\ IF output = Absent
     THEN /\ output' = temporary[a]
          /\ temporary' = [temporary EXCEPT ![a] = Absent]
          /\ installed' = installed \cup {a}
          /\ Goto(a, "drop") /\ UNCHANGED disrupted
     ELSE Goto(a, "unlock") /\ UNCHANGED <<output, temporary, history>>
  /\ UNCHANGED <<backup, holder, answer, failures>>

\* Mutant of MoveInFails: the backup is not moved back.
MoveInFailsUnrestored(a) ==
  /\ pc[a] = "moveIn" /\ CanFail /\ Goto(a, "unlock")
  /\ UNCHANGED <<output, temporary, backup, holder, answer, history>>

\* except Exception: the backup is moved back, then the error is raised.
MoveInFails(a) ==
  /\ pc[a] = "moveIn" /\ CanFail /\ Goto(a, "unlock")
  /\ IF backup[a] # Absent /\ output = Absent
     THEN output' = backup[a] /\ backup' = [backup EXCEPT ![a] = Absent]
     ELSE UNCHANGED <<output, backup>>
  /\ UNCHANGED <<temporary, holder, answer, history>>

\* The handler's own os.replace fails too; the finally clause will find the
\* only copy under the backup's name.
RestoreFails(a) ==
  /\ pc[a] = "moveIn" /\ backup[a] # Absent /\ output = Absent
  /\ failures + 2 <= MaxFailures /\ failures' = failures + 2
  /\ Goto(a, "unlock") /\ disrupted' = disrupted \cup {a}
  /\ UNCHANGED <<output, temporary, backup, holder, answer, installed>>

\* The backup is deleted; if that fails the call raises although it is done.
Drop(a) ==
  /\ pc[a] = "drop" /\ Goto(a, "unlock")
  /\ \/ /\ backup' = [backup EXCEPT ![a] = Absent]
        /\ answer' = [answer EXCEPT ![a] = "ok"] /\ UNCHANGED failures
     \/ backup[a] # Absent /\ CanFail /\ UNCHANGED <<backup, answer>>
  /\ UNCHANGED <<output, temporary, holder, history>>

Unlock(a) ==
  /\ pc[a] = "unlock" /\ holder' = holder \ {a} /\ Goto(a, "finally")
  /\ UNCHANGED <<output, temporary, backup, answer, history, failures>>

\* finally: both private directories are removed.
Finally(a) ==
  /\ pc[a] = "finally" /\ Goto(a, "over")
  /\ temporary' = [temporary EXCEPT ![a] = Absent]
  /\ backup' = [backup EXCEPT ![a] = Absent]
  /\ answer' = [answer EXCEPT ![a] = IF @ = "ok" THEN "ok" ELSE "raised"]
  /\ UNCHANGED <<output, holder, history, failures>>

\* KeyboardInterrupt before the finally clause is no Exception: the lock is
\* given back and the finally clause runs, and nothing else.
Interrupt(a) ==
  /\ MayInterrupt /\ pc[a] \notin {"unlock", "finally", "over", "crashed"}
  /\ Goto(a, IF a \in holder THEN "unlock" ELSE "finally")
  /\ disrupted' = disrupted \cup {a}
  /\ UNCHANGED <<output, temporary, backup, holder, answer, installed, failures>>

\* Mutant of Crash: the lock is a file that exists.
CrashLeavesLock(a) ==
  /\ MayCrash /\ pc[a] \notin {"over", "crashed"} /\ Goto(a, "crashed")
  /\ UNCHANGED <<output, temporary, backup, holder, answer, history, failures>>

\* The system gives the lock of a killed process back; its directories stay,
\* and no code looks at a backup that another process made.
Crash(a) ==
  /\ MayCrash /\ pc[a] \notin {"over", "crashed"}
  /\ Goto(a, "crashed") /\ holder' = holder \ {a}
  /\ disrupted' = disrupted \cup {a}
  /\ UNCHANGED <<output, temporary, backup, answer, installed, failures>>

Assembler(a) ==
  \/ Build(a) \/ BuildFails(a) \/ Lock(a) \/ Look(a)
  \/ MoveOut(a) \/ MoveOutFails(a) \/ MoveIn(a) \/ MoveInFails(a)
  \/ RestoreFails(a) \/ Drop(a) \/ Unlock(a) \/ Finally(a)

Next ==
  \E a \in Assemblers : Assembler(a) \/ Interrupt(a) \/ Crash(a)

Spec == Init /\ [][Next]_vars

FairSpec == Spec /\ \A a \in Assemblers : WF_vars(Assembler(a))

-----------------------------------------------------------------------------
(* Properties. *)

\* Nobody waits for the lock forever, whoever failed or was stopped holding it.
EveryAssemblyEnds ==
  \A a \in Assemblers : <>(pc[a] \in {"over", "crashed"})

\* Processes between their two renames: while one is there, and only then, the
\* tree it moved out will be moved back should the second rename fail.
Exchanging == {a \in Assemblers : pc[a] = "moveIn" /\ backup[a] # Absent}

\* The tree there is: the output, or the backup of a process that is between
\* its renames.  The backup of a process killed or interrupted there is none:
\* nothing ever moves it back.
Current ==
  CASE output # Absent -> output
    [] output = Absent /\ Exchanging # {} ->
         backup[CHOOSE a \in Exchanging : TRUE]
    [] OTHER -> Absent

Contract == INSTANCE AtomicTree WITH tree <- Current, exchanging <- Exchanging

\* The locked swap implements an exclusive exchange that loses the tree in one
\* way only: a process interrupted, killed or unable to move back between its
\* own two renames.  A rename that fails, a deletion, and whatever is done to a
\* process at any other point leave the tree as it is, and the lock keeps
\* every other process out of the exchange.
ImplementsAtomicTree == Contract!Spec

\* Claimed by docs/exec-plans/dashboard-pages-releases.md:257: outputs are
\* atomically replaced.  When everything has stopped the old tree or a new one
\* is there, although a process was interrupted.
OldOrNewSurvives ==
  (\A a \in Assemblers : pc[a] = "over") /\ Initial # Absent => output # Absent

=============================================================================
