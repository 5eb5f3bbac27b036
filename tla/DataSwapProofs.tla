--------------------------- MODULE DataSwapProofs ---------------------------
(***************************************************************************)
(* Proofs about DataSwap for any processes, any initial tree and any       *)
(* failures, interrupts and kills: the swap implements an exclusive        *)
(* exchange of a tree.                                                     *)
(*                                                                         *)
(* The inductive invariant has two parts: the lock excludes, and each      *)
(* process knows by the step it has reached where its tree and the old one *)
(* are.  That only the process between flock and its release touches the   *)
(* output makes the second survive the steps of the others.                *)
(***************************************************************************)
EXTENDS DataSwap, TLAPS

Trees == Assemblers \cup {Initial, Absent}
Steps == {"build", "lock", "look", "moveOut", "moveIn", "drop", "unlock",
          "finally", "over", "crashed"}

TypeOK ==
  /\ output \in Trees
  /\ temporary \in [Assemblers -> Trees] /\ backup \in [Assemblers -> Trees]
  /\ holder \subseteq Assemblers /\ pc \in [Assemblers -> Steps]
  /\ answer \in [Assemblers -> {"none", "ok", "raised"}]
  /\ installed \subseteq Assemblers /\ disrupted \subseteq Assemblers

\* The steps of a process between flock and its release.
Locked == {"look", "moveOut", "moveIn", "drop", "unlock"}
LockExcludes ==
  /\ \A a \in Assemblers : pc[a] \in Locked <=> a \in holder
  /\ \A a, b \in holder : a = b

\* What a process that has got so far knows of its directories.
KnownTo(a) ==
  /\ pc[a] \in {"build", "lock", "look", "moveOut", "moveIn"} =>
       a \notin installed \cup disrupted
  /\ pc[a] \in {"lock", "look", "moveOut", "moveIn"} => temporary[a] = a
  /\ pc[a] \in {"build", "lock", "look", "moveOut"} => backup[a] = Absent
  /\ pc[a] = "moveIn" => output = Absent
  /\ pc[a] = "drop" => output = a /\ a \in installed
  /\ answer[a] = "ok" => a \in installed

AllKnown == \A a \in Assemblers : KnownTo(a)

IInv == TypeOK /\ LockExcludes /\ AllKnown

-----------------------------------------------------------------------------
(* The inductive invariant. *)

\* At first nobody has begun.
LEMMA InitKeeps ==
  ASSUME Init
  PROVE  IInv
BY DataSwapAssumption DEF Init, IInv, TypeOK, Trees, Steps, LockExcludes, Locked,
   AllKnown, KnownTo

\* A process's step keeps the types and the exclusion.
LEMMA ExclusionKeeps ==
  ASSUME IInv, NEW a \in Assemblers, Assembler(a) \/ Interrupt(a) \/ Crash(a)
  PROVE  TypeOK' /\ LockExcludes'
<1> USE DEF IInv, TypeOK, Trees, Steps, LockExcludes, Locked, Goto, history
<1>1. CASE Build(a)
  BY <1>1 DEF Build
<1>2. CASE BuildFails(a)
  BY <1>2 DEF BuildFails
<1>3. CASE Lock(a)
  BY <1>3 DEF Lock
<1>4. CASE Look(a)
  BY <1>4 DEF Look
<1>5. CASE MoveOut(a)
  BY <1>5 DEF MoveOut
<1>6. CASE MoveOutFails(a)
  BY <1>6 DEF MoveOutFails
<1>7. CASE MoveIn(a)
  BY <1>7 DEF MoveIn
<1>8. CASE MoveInFails(a)
  BY <1>8 DEF MoveInFails
<1>9. CASE RestoreFails(a)
  BY <1>9 DEF RestoreFails
<1>10. CASE Drop(a)
  BY <1>10 DEF Drop
<1>11. CASE Unlock(a)
  BY <1>11 DEF Unlock
<1>12. CASE Finally(a)
  BY <1>12 DEF Finally
<1>13. CASE Interrupt(a)
  BY <1>13 DEF Interrupt
<1>14. CASE Crash(a)
  BY <1>14 DEF Crash
<1> QED
  BY <1>1, <1>2, <1>3, <1>4, <1>5, <1>6, <1>7, <1>8, <1>9, <1>10, <1>11, <1>12,
     <1>13, <1>14 DEF Assembler


\* What a process knows survives the steps of another, since only the holder
\* of the lock touches the output.
LEMMA OthersKeepKnowing ==
  ASSUME IInv, NEW a \in Assemblers, NEW b \in Assemblers \ {a}, KnownTo(b),
         pc'[b] = pc[b], temporary'[b] = temporary[b], backup'[b] = backup[b],
         answer'[b] = answer[b], b \in disrupted' <=> b \in disrupted,
         b \in installed' <=> b \in installed,
         output' = output \/ pc[a] \in Locked
  PROVE  KnownTo(b)'
<1>1. CASE output' = output
  BY <1>1 DEF KnownTo
<1>2. CASE pc[a] \in Locked
  <2>1. pc[b] \notin Locked
    BY <1>2 DEF IInv, LockExcludes
  <2> QED
    BY <2>1 DEF KnownTo, Locked
<1> QED
  BY <1>1, <1>2

\* A process's step keeps what it and the others know.
LEMMA TreesKeep ==
  ASSUME IInv, NEW a \in Assemblers, Assembler(a) \/ Interrupt(a) \/ Crash(a)
  PROVE  AllKnown'
<1> USE DEF IInv, TypeOK, Trees, Steps, Goto, history
<1>0. KnownTo(a) /\ \A b \in Assemblers : KnownTo(b)
  BY DEF AllKnown
<1> SUFFICES KnownTo(a)' /\ \A b \in Assemblers \ {a} : KnownTo(b)'
  BY DEF AllKnown
<1>1. CASE Build(a)
  BY <1>0, <1>1, OthersKeepKnowing DEF Build, KnownTo
<1>2. CASE BuildFails(a)
  BY <1>0, <1>2, OthersKeepKnowing DEF BuildFails, KnownTo
<1>3. CASE Lock(a)
  BY <1>0, <1>3, OthersKeepKnowing DEF Lock, KnownTo
<1>4. CASE Look(a)
  BY <1>0, <1>4, OthersKeepKnowing DEF Look, KnownTo
<1>5. CASE MoveOut(a)
  <2>1. KnownTo(a)'
    BY <1>0, <1>5 DEF MoveOut, KnownTo
  <2>2. \A b \in Assemblers \ {a} : KnownTo(b)'
    BY <1>0, <1>5, OthersKeepKnowing DEF MoveOut, Locked
  <2> QED
    BY <2>1, <2>2
<1>6. CASE MoveOutFails(a)
  BY <1>0, <1>6, OthersKeepKnowing DEF MoveOutFails, KnownTo
<1>7. CASE MoveIn(a)
  <2>1. output = Absent /\ temporary[a] = a
    BY <1>0, <1>7 DEF MoveIn, KnownTo
  <2>2. KnownTo(a)'
    BY <1>0, <1>7, <2>1 DEF MoveIn, KnownTo
  <2>3. \A b \in Assemblers \ {a} : KnownTo(b)'
    BY <1>0, <1>7, <2>1, OthersKeepKnowing DEF MoveIn, Locked
  <2> QED
    BY <2>2, <2>3
<1>8. CASE MoveInFails(a)
  <2>1. KnownTo(a)'
    BY <1>0, <1>8 DEF MoveInFails, KnownTo
  <2>2. \A b \in Assemblers \ {a} : KnownTo(b)'
    BY <1>0, <1>8, OthersKeepKnowing DEF MoveInFails, Locked
  <2> QED
    BY <2>1, <2>2
<1>9. CASE RestoreFails(a)
  BY <1>0, <1>9, OthersKeepKnowing DEF RestoreFails, KnownTo
<1>10. CASE Drop(a)
  BY <1>0, <1>10, OthersKeepKnowing DEF Drop, KnownTo
<1>11. CASE Unlock(a)
  BY <1>0, <1>11, OthersKeepKnowing DEF Unlock, KnownTo
<1>12. CASE Finally(a)
  BY <1>0, <1>12, OthersKeepKnowing DEF Finally, KnownTo
<1>13. CASE Interrupt(a)
  BY <1>0, <1>13, OthersKeepKnowing DEF Interrupt, KnownTo
<1>14. CASE Crash(a)
  BY <1>0, <1>14, OthersKeepKnowing DEF Crash, KnownTo
<1> QED
  BY <1>1, <1>2, <1>3, <1>4, <1>5, <1>6, <1>7, <1>8, <1>9, <1>10, <1>11, <1>12,
     <1>13, <1>14 DEF Assembler

\* Every step keeps the invariant.
LEMMA StepKeeps ==
  ASSUME IInv, [Next]_vars
  PROVE  IInv'
<1>1. CASE UNCHANGED vars
  BY <1>1 DEF vars, history, IInv, TypeOK, LockExcludes,
     AllKnown, KnownTo
<1>2. CASE Next
  BY <1>2, ExclusionKeeps, TreesKeep DEF Next, IInv
<1> QED
  BY <1>1, <1>2

\* The types of the variables, for any number of processes.
THEOREM TypesHold == Spec => []TypeOK
<1>1. IInv => TypeOK
  BY DEF IInv
<1> QED
  BY InitKeeps, StepKeeps, <1>1, PTL DEF Spec

\* At most one process is between flock and its release, whoever is killed or
\* interrupted there.
THEOREM SwapsExclude == Spec => []LockExcludes
<1>1. IInv => LockExcludes
  BY DEF IInv
<1> QED
  BY InitKeeps, StepKeeps, <1>1, PTL DEF Spec

-----------------------------------------------------------------------------
(* The refinement of AtomicTree. *)

\* Being between the renames needs the lock, so there is one at most.
LEMMA OneExchanges ==
  ASSUME IInv, NEW a \in Assemblers, pc[a] \in Locked
  PROVE  Exchanging = IF pc[a] = "moveIn" /\ backup[a] # Absent THEN {a} ELSE {}
BY DEF IInv, LockExcludes, Locked, Exchanging

\* There is a tree exactly if there is an output or somebody exchanges it.
LEMMA TreeThere ==
  ASSUME IInv
  PROVE  /\ Current = Absent <=> output = Absent /\ Exchanging = {}
         /\ output # Absent => Current = output
         /\ \A a \in Assemblers : Exchanging = {a} => Current = backup[a]
<1>1. ASSUME NEW a \in Assemblers, Exchanging = {a}
      PROVE  output = Absent /\ backup[a] # Absent
  <2>1. pc[a] = "moveIn" /\ backup[a] # Absent
    BY <1>1 DEF Exchanging
  <2> QED
    BY <2>1 DEF IInv, AllKnown, KnownTo
<1>2. ASSUME Exchanging # {}
      PROVE  \E a \in Assemblers : Exchanging = {a}
  <2>1. PICK a \in Assemblers : a \in Exchanging
    BY <1>2 DEF Exchanging
  <2>2. pc[a] = "moveIn" /\ backup[a] # Absent
    BY <2>1 DEF Exchanging
  <2> QED
    BY <2>2, OneExchanges DEF Locked
<1>3. ASSUME NEW a \in Assemblers, Exchanging = {a}
      PROVE  Current = backup[a]
  <2>1. (CHOOSE b \in Exchanging : TRUE) = a
    BY <1>3
  <2> QED
    BY <1>1, <1>3, <2>1 DEF Current
<1> QED
  BY <1>1, <1>2, <1>3 DEF Current

\* A step that leaves the output and the process's place in the exchange alone
\* leaves both as they are.
LEMMA ExchangeStays ==
  ASSUME IInv, NEW a \in Assemblers, output' = output,
         \A b \in Assemblers \ {a} : pc'[b] = pc[b] /\ backup'[b] = backup[b],
         a \in Exchanging <=> a \in Exchanging',
         backup'[a] = backup[a] \/ a \notin Exchanging
  PROVE  Current' = Current /\ Exchanging' = Exchanging
<1>1. Exchanging' = Exchanging
  BY DEF Exchanging
<1>2. CASE Exchanging = {}
  BY <1>1, <1>2 DEF Current
<1>3. CASE Exchanging # {}
  <2>1. (CHOOSE b \in Exchanging : TRUE) \in Exchanging
    BY <1>3
  <2>2. \A b \in Exchanging : b \in Assemblers /\ backup'[b] = backup[b]
    BY DEF Exchanging
  <2> QED
    BY <1>1, <2>1, <2>2 DEF Current
<1> QED
  BY <1>1, <1>2, <1>3

\* The swap implements an exclusive exchange (bundle.py:927-946): the first
\* rename begins it, the second puts the new tree there or the handler moves
\* the old one back; a step that leaves no tree is an interrupt, a kill or a
\* failed reversal of the one process between its renames, and no other.
THEOREM SwapImplementsAtomicTree == Spec => ImplementsAtomicTree
<1>1. Init => Contract!Init
  <2> SUFFICES ASSUME Init PROVE Contract!Init
    OBVIOUS
  <2>1. Exchanging = {}
    BY DEF Init, Exchanging
  <2>2. Current = Initial
    BY <2>1 DEF Init, Current
  <2> QED
    BY <2>1, <2>2 DEF Init, Contract!Init
<1>2. IInv /\ [Next]_vars => [Contract!Next]_Contract!view
  <2> SUFFICES ASSUME IInv, [Next]_vars
               PROVE  [Contract!Next]_Contract!view
    OBVIOUS
  <2>1. CASE UNCHANGED vars
    BY <2>1 DEF vars, history, Contract!view, Current, Exchanging
  <2>2. ASSUME NEW a \in Assemblers, Assembler(a) \/ Interrupt(a) \/ Crash(a)
        PROVE  Contract!Next \/ UNCHANGED Contract!view
    <3> USE DEF Goto, history
    <3>0. /\ KnownTo(a) /\ IInv' /\ TypeOK
          /\ \A b \in Assemblers : b # a => pc[b] # "moveIn" \/ pc[a] \notin Locked
      BY StepKeeps DEF IInv, AllKnown, LockExcludes, Locked
    <3>1. CASE Build(a) \/ BuildFails(a) \/ Lock(a) \/ Look(a) \/ Unlock(a)
               \/ MoveOutFails(a)
      <4>1. UNCHANGED <<output, backup, installed, disrupted, answer>>
        BY <3>1 DEF Build, BuildFails, Lock, Look, Unlock, MoveOutFails
      <4>2. a \notin Exchanging /\ a \notin Exchanging'
        BY <3>0, <3>1 DEF Build, BuildFails, Lock, Look, Unlock, MoveOutFails,
           Exchanging, KnownTo, TypeOK
      <4>3. \A b \in Assemblers \ {a} : pc'[b] = pc[b]
        BY <3>0, <3>1 DEF Build, BuildFails, Lock, Look, Unlock, MoveOutFails, TypeOK
      <4> QED
        BY <4>1, <4>2, <4>3, ExchangeStays DEF Contract!view
    <3>2. CASE MoveOut(a)
      <4>1. UNCHANGED <<installed, disrupted, answer>> /\ Exchanging = {}
        BY <3>2, OneExchanges DEF MoveOut, Locked
      <4>2. CASE output = Absent
        <5>1. a \notin Exchanging' /\ UNCHANGED <<output, backup>>
          BY <3>0, <3>2, <4>2 DEF MoveOut, Exchanging, TypeOK
        <5>2. \A b \in Assemblers \ {a} : pc'[b] = pc[b]
          BY <3>0, <3>2 DEF MoveOut, TypeOK
        <5> QED
          BY <4>1, <5>1, <5>2, ExchangeStays DEF Contract!view
      <4>3. CASE output # Absent
        <5>1. pc'[a] = "moveIn" /\ backup'[a] = output /\ output' = Absent
          BY <3>0, <3>2, <4>3 DEF MoveOut, TypeOK
        <5>2. Exchanging' = {a}
          <6>1. \A b \in Assemblers : b # a => b \notin Exchanging'
            BY <3>0, <3>2 DEF MoveOut, Exchanging, Locked, TypeOK
          <6> QED
            BY <4>3, <5>1, <6>1 DEF Exchanging
        <5>3. Current = output /\ Current' = output
          <6>1. (CHOOSE b \in Exchanging' : TRUE) = a
            BY <5>2
          <6> QED
            BY <4>3, <5>1, <5>2, <6>1 DEF Current
        <5>4. a \notin disrupted
          BY <3>0, <3>2 DEF MoveOut, KnownTo
        <5>5. Contract!Begin(a)
          BY <4>1, <4>3, <5>2, <5>3, <5>4 DEF Contract!Begin
        <5> QED
          BY <5>5 DEF Contract!Next
      <4> QED
        BY <4>2, <4>3
    <3>3. CASE MoveIn(a)
      <4>1. /\ output = Absent /\ temporary[a] = a /\ a # Absent
            /\ a \notin installed \cup disrupted
        BY <3>0, <3>3, DataSwapAssumption DEF MoveIn, KnownTo
      <4>2. /\ output' = a /\ installed' = installed \cup {a} /\ pc'[a] = "drop"
            /\ UNCHANGED <<disrupted, answer>>
        BY <3>0, <3>3, <4>1 DEF MoveIn, TypeOK
      <4>3. Current' = a
        BY <4>1, <4>2 DEF Current
      <4>4. Exchanging \in {{}, {a}} /\ Exchanging' = {}
        <5>1. Exchanging \in {{}, {a}}
          BY <3>3, OneExchanges DEF MoveIn, Locked
        <5>2. \A b \in Assemblers : b \notin Exchanging'
          BY <3>0, <3>3, <4>2 DEF MoveIn, Exchanging, Locked, TypeOK
        <5>3. Exchanging' \subseteq Assemblers
          BY DEF Exchanging
        <5> QED
          BY <5>1, <5>2, <5>3
      <4>5. Exchanging = IF Current = Absent THEN {} ELSE {a}
        BY <4>1, <4>4, TreeThere
      <4>6. Contract!Install(a)
        BY <4>1, <4>2, <4>3, <4>4, <4>5 DEF Contract!Install
      <4> QED
        BY <4>6 DEF Contract!Next
    <3>4. CASE MoveInFails(a)
      <4>1. /\ UNCHANGED <<installed, disrupted, answer>> /\ output = Absent
            /\ pc[a] = "moveIn" /\ pc'[a] = "unlock"
            /\ \A b \in Assemblers \ {a} : pc'[b] = pc[b]
        BY <3>0, <3>4 DEF MoveInFails, KnownTo, TypeOK
      <4>2. CASE backup[a] = Absent
        <5>1. UNCHANGED <<output, backup>>
          BY <3>4, <4>2 DEF MoveInFails
        <5>2. a \notin Exchanging /\ a \notin Exchanging'
          BY <4>1, <4>2 DEF Exchanging
        <5> QED
          BY <4>1, <5>1, <5>2, ExchangeStays DEF Contract!view
      <4>3. CASE backup[a] # Absent
        <5>1. Exchanging = {a} /\ Current = backup[a]
          BY <4>1, <4>3, OneExchanges, TreeThere DEF Locked
        <5>2. output' = backup[a]
          BY <3>4, <4>1, <4>3 DEF MoveInFails
        <5>3. Current' = Current
          BY <4>3, <5>1, <5>2 DEF Current
        <5>4. Exchanging' = {}
          BY <3>0, <4>1 DEF Exchanging, Locked
        <5>5. Contract!Restore(a)
          BY <4>1, <5>1, <5>3, <5>4 DEF Contract!Restore
        <5> QED
          BY <5>5 DEF Contract!Next
      <4> QED
        BY <4>2, <4>3
    <3>5. CASE RestoreFails(a) \/ Interrupt(a) \/ Crash(a)
      <4>1. /\ disrupted' = disrupted \cup {a}
            /\ UNCHANGED <<output, backup, installed, answer>>
            /\ pc'[a] \in {"unlock", "finally", "crashed"}
            /\ \A b \in Assemblers \ {a} : pc'[b] = pc[b]
        BY <3>0, <3>5 DEF RestoreFails, Interrupt, Crash, TypeOK
      <4>2. Exchanging' = Exchanging \ {a}
        BY <4>1 DEF Exchanging
      <4>3. CASE a \in Exchanging
        <5>1. pc[a] = "moveIn" /\ backup[a] # Absent
          BY <4>3 DEF Exchanging
        <5>2. Exchanging = {a} /\ output = Absent
          BY <3>0, <5>1, OneExchanges DEF Locked, KnownTo
        <5>3. Current' = Absent
          BY <4>1, <4>2, <5>2 DEF Current
        <5> QED
          BY <4>1, <4>2, <4>3, <5>3 DEF Contract!Disrupt, Contract!Next
      <4>4. CASE a \notin Exchanging
        <5>1. Current' = Current
          BY <4>1, <4>2, <4>4, ExchangeStays
        <5> QED
          BY <4>1, <4>2, <4>4, <5>1 DEF Contract!Disrupt, Contract!Next
      <4> QED
        BY <4>3, <4>4
    <3>6. CASE Drop(a)
      <4>1. /\ a \in installed /\ UNCHANGED <<output, installed, disrupted>>
            /\ pc[a] = "drop" /\ pc'[a] = "unlock"
            /\ \A b \in Assemblers \ {a} : pc'[b] = pc[b] /\ backup'[b] = backup[b]
        BY <3>0, <3>6 DEF Drop, KnownTo, TypeOK
      <4>2. Current' = Current /\ Exchanging' = Exchanging
        BY <4>1, ExchangeStays DEF Exchanging
      <4>3. CASE answer' = [answer EXCEPT ![a] = "ok"]
        <5>1. Contract!Answer(a, "ok")
          BY <4>1, <4>2, <4>3 DEF Contract!Answer
        <5> QED
          BY <5>1 DEF Contract!Next
      <4>4. CASE UNCHANGED answer
        BY <4>1, <4>2, <4>4 DEF Contract!view
      <4> QED
        BY <3>6, <4>3, <4>4 DEF Drop
    <3>7. CASE Finally(a)
      <4>1. /\ UNCHANGED <<output, installed, disrupted>>
            /\ pc[a] = "finally" /\ pc'[a] = "over"
            /\ \A b \in Assemblers \ {a} : pc'[b] = pc[b] /\ backup'[b] = backup[b]
            /\ answer' = [answer EXCEPT ![a] = IF answer[a] = "ok" THEN "ok" ELSE "raised"]
        BY <3>0, <3>7 DEF Finally, TypeOK
      <4>2. Current' = Current /\ Exchanging' = Exchanging
        BY <4>1, ExchangeStays DEF Exchanging
      <4>3. CASE answer[a] = "ok"
        <5>1. Contract!Answer(a, "ok")
          BY <3>0, <4>1, <4>2, <4>3 DEF Contract!Answer, KnownTo
        <5> QED
          BY <5>1 DEF Contract!Next
      <4>4. CASE answer[a] # "ok"
        <5>1. Contract!Answer(a, "raised")
          BY <4>1, <4>2, <4>4 DEF Contract!Answer
        <5> QED
          BY <5>1 DEF Contract!Next
      <4> QED
        BY <4>3, <4>4
    <3> QED
      BY <2>2, <3>1, <3>2, <3>3, <3>4, <3>5, <3>6, <3>7 DEF Assembler
  <2> QED
    BY <2>1, <2>2 DEF Next
<1> QED
  BY InitKeeps, StepKeeps, <1>1, <1>2, PTL DEF Spec, ImplementsAtomicTree,
     Contract!Spec

=============================================================================
