--------------------------- MODULE CampaignProofs ---------------------------
(***************************************************************************)
(* Proofs about CampaignRun, for any number of tools, cases, jobs and      *)
(* CPUs, and about CaseExecution, which each of its workers runs, for any  *)
(* profiles, cases, exit codes and outputs.                                *)
(*                                                                         *)
(* The inductive invariant of a campaign follows an item through the three *)
(* places it can be: not yet submitted, its future is untouched; taken,    *)
(* exactly one worker has it and its future is running; collected, its     *)
(* future holds a result for good.  The event is set only on the way out,  *)
(* and from then on a worker can be between the check and the start of a   *)
(* tool only if it was there at that moment.                               *)
(*                                                                         *)
(* That of a case says that what was observed are the first stages of its  *)
(* plan, and where a result comes from.  The rest is about the judgment as *)
(* a function: deciding by exclusion gives what the oracle asks for.       *)
(***************************************************************************)
EXTENDS CampaignRun, CaseExecution, SequenceTheorems, FiniteSetTheorems, TLAPS

\* Items still to be submitted have no future; nothing is collected earlier.
NotYetSubmitted ==
  /\ \A k \in 0..Total - 1 : k >= submitted => future[WorkItem(k)] = "none"
  /\ main = "submit" => submitted < Total /\ collected = <<>>

\* A worker's item is its own, and its future is running.
WorkersOwnTheirItems ==
  /\ \A w \in Workers : worker[w] # Idle => future[worker[w]] = "running"
  /\ \A w, v \in Workers : worker[w] = worker[v] /\ worker[w] # Idle => w = v
  /\ \A w \in Workers : place[w] # "entry" => worker[w] # Idle

\* What is collected holds a result and is collected once.
CollectedHoldResults ==
  /\ \A i \in Collected : future[i] = "result"
  /\ \A m, n \in 1..Len(collected) : collected[m] = collected[n] => m = n

\* The event is set only on the way out, saving needs every item, and the
\* queue is empty before the workers are joined.
PhasesAgree ==
  /\ main \in {"submit", "collect", "cancel", "save", "saved"} => ~cancelSet
  /\ main \in {"save", "saved"} => Items \subseteq Collected
  /\ main = "joining" => \A i \in Items : future[i] # "pending"

\* A tool starts for a stage that is left.  Once the event is set, a worker that
\* still has a tool to start passed the check before and has started none since.
StartsAgree ==
  \A w \in Workers :
    /\ place[w] \in {"checked", "tool"} => left[w] > 0
    /\ late[w] <= IF w \in window THEN 1 ELSE 0
    /\ ~cancelSet => late[w] = 0
    /\ cancelSet /\ place[w] = "checked" => w \in window /\ late[w] = 0

IInv ==
  /\ TypeOK /\ NotYetSubmitted /\ WorkersOwnTheirItems
  /\ CollectedHoldResults /\ PhasesAgree /\ QuietWhenOver /\ StartsAgree

\* What the refinement needs besides: a result is a status, and only a call
\* that raises leaves workers behind.
RInv ==
  /\ \A i \in Items : future[i] = "result" => value[i] \in Statuses
  /\ unhandled => main = "raised"

-----------------------------------------------------------------------------
(* The numbering of the work items. *)

\* Division with remainder.
LEMMA Division ==
  ASSUME NEW a \in Nat, NEW n \in Nat \ {0}
  PROVE  a = n * (a \div n) + (a % n) /\ a % n \in 0..n - 1 /\ a \div n \in Nat
  BY SMT

\* A quotient is below m when the dividend is below n * m.
LEMMA QuotientBound ==
  ASSUME NEW a \in Nat, NEW n \in Nat \ {0}, NEW m \in Nat \ {0}, a < n * m
  PROVE  a \div n < m
<1> DEFINE q == a \div n
<1>1. q \in Nat /\ n * q <= a
  BY Division
<1>2. n * q < n * m
  BY <1>1
<1> HIDE DEF q
<1>3. SUFFICES ASSUME q >= m PROVE FALSE
  BY <1>1 DEF q
<1>4. n * q >= n * m
  BY <1>1, <1>3
<1> QED
  BY <1>1, <1>2, <1>4

LEMMA TotalType == Total \in Nat \ {0}
<1>1. NTools \in Nat \ {0} /\ NCases \in Nat \ {0}
  BY CampaignRunAssumption
<1> QED
  BY <1>1 DEF Total

\* The submission loop enumerates tools x cases: every index names an item ...
LEMMA WorkItemInItems ==
  ASSUME NEW k \in 0..Total - 1
  PROVE  WorkItem(k) \in Items
<1>1. NTools \in Nat \ {0} /\ NCases \in Nat \ {0} /\ k \in Nat /\ k < NTools * NCases
  BY CampaignRunAssumption, TotalType DEF Total
<1>2. k % NTools \in 0..NTools - 1 /\ k \div NTools \in Nat
  BY <1>1, Division
<1>3. k \div NTools < NCases
  BY <1>1, QuotientBound
<1> QED
  BY <1>1, <1>2, <1>3 DEF WorkItem, Items

\* ... and no two indices the same one.
LEMMA WorkItemInjective ==
  ASSUME NEW j \in 0..Total - 1, NEW k \in 0..Total - 1,
         WorkItem(j) = WorkItem(k)
  PROVE  j = k
<1>1. NTools \in Nat \ {0} /\ j \in Nat /\ k \in Nat
  BY CampaignRunAssumption, TotalType
<1>2. j % NTools = k % NTools /\ j \div NTools = k \div NTools
  BY DEF WorkItem
<1> QED
  BY <1>1, <1>2, Division

\* An item is a pair, so it is never the mark of an idle worker.
LEMMA ItemNotIdle == Idle \notin Items
  BY DEF Idle, Items

-----------------------------------------------------------------------------
(* Every step keeps the invariant. *)

LEMMA InitIInv == Init => IInv
<1> SUFFICES ASSUME Init PROVE IInv
  OBVIOUS
<1>1. TypeOK
  <2>1. collected \in Seq(Items)
    BY EmptySeq DEF Init
  <2>2. main \in Mains /\ submitted \in 0..Total /\ cancelAt \in 0..Total
    BY TotalType DEF Init, Mains
  <2>3. /\ future \in [Items -> FutureStates]
        /\ value \in [Items -> Statuses \cup {NoStatus}]
    BY DEF Init, FutureStates
  <2>4. /\ worker \in [Workers -> Items \cup {Idle}]
        /\ place \in [Workers -> {"entry", "case", "checked", "tool"}]
        /\ left \in [Workers -> 0..MaxStages] /\ late \in [Workers -> Nat]
        /\ window \subseteq Workers
    BY CampaignRunAssumption DEF Init
  <2>5. /\ cancelSet \in BOOLEAN /\ unhandled \in BOOLEAN
        /\ record.complete \in BOOLEAN
    BY DEF Init, NoRecord
  <2> QED
    BY <2>1, <2>2, <2>3, <2>4, <2>5 DEF TypeOK
<1>2. NotYetSubmitted
  BY TotalType, WorkItemInItems DEF Init, NotYetSubmitted
<1>3. WorkersOwnTheirItems /\ CollectedHoldResults
  BY DEF Init, WorkersOwnTheirItems, CollectedHoldResults, Collected
<1>4. PhasesAgree /\ QuietWhenOver /\ StartsAgree
  BY DEF Init, PhasesAgree, QuietWhenOver, StartsAgree
<1> QED
  BY <1>1, <1>2, <1>3, <1>4 DEF IInv

\* A step of the main thread that touches neither futures nor results, and
\* leaves the submission loop or was out of it, keeps what is said of both.
LEMMA PoolUntouched ==
  ASSUME IInv, main' # "submit",
         UNCHANGED <<submitted, future, worker, place, collected>>
  PROVE  NotYetSubmitted' /\ WorkersOwnTheirItems' /\ CollectedHoldResults'
<1>1. Collected' = Collected
  BY DEF Collected
<1> QED
  BY <1>1 DEF IInv, NotYetSubmitted, WorkersOwnTheirItems,
              CollectedHoldResults

\* What is said of the starts is about the workers and the event only.
LEMMA StartsUntouched ==
  ASSUME IInv, UNCHANGED <<inside, cancelSet>>
  PROVE  StartsAgree'
BY DEF IInv, StartsAgree, inside

LEMMA SubmitKeepsIInv ==
  ASSUME IInv, Submit
  PROVE  IInv'
<1> USE DEF IInv
<1> DEFINE item == WorkItem(submitted)
<1>1. submitted \in 0..Total - 1 /\ collected = <<>> /\ ~cancelSet
  BY TotalType DEF Submit, NotYetSubmitted, TypeOK, PhasesAgree
<1>2. item \in Items /\ future[item] = "none"
  BY <1>1, WorkItemInItems DEF NotYetSubmitted
<1>3. future' = [future EXCEPT ![item] = "pending"]
  BY DEF Submit
<1>4. Collected = {} /\ Collected' = {}
  BY <1>1 DEF Submit, Collected
<1>5. TypeOK'
  <2>1. future' \in [Items -> FutureStates]
    BY <1>3 DEF TypeOK, FutureStates
  <2>2. submitted' \in 0..Total /\ main' \in Mains
    BY <1>1, TotalType DEF Submit, Mains
  <2> QED
    BY <2>1, <2>2 DEF Submit, inside, TypeOK
<1>6. NotYetSubmitted'
  <2>1. ASSUME NEW k \in 0..Total - 1, k >= submitted + 1
        PROVE  future'[WorkItem(k)] = "none"
    <3>1. WorkItem(k) \in Items /\ WorkItem(k) # item
      BY <1>1, <2>1, WorkItemInItems, WorkItemInjective
    <3>2. future[WorkItem(k)] = "none"
      BY <1>1, <2>1 DEF NotYetSubmitted
    <3> QED
      BY <1>3, <3>1, <3>2 DEF TypeOK
  <2> QED
    BY <2>1, <1>1, TotalType DEF Submit, NotYetSubmitted
<1>7. WorkersOwnTheirItems'
  BY <1>2, <1>3 DEF Submit, inside, WorkersOwnTheirItems, TypeOK
<1>8. CollectedHoldResults'
  BY <1>1, <1>4 DEF Submit, CollectedHoldResults
<1>9. PhasesAgree' /\ QuietWhenOver'
  BY <1>1 DEF Submit, PhasesAgree, QuietWhenOver
<1>10. StartsAgree'
  BY StartsUntouched DEF Submit
<1> QED
  BY <1>5, <1>6, <1>7, <1>8, <1>9, <1>10

LEMMA CollectKeepsIInv ==
  ASSUME IInv, NEW i \in Items, NEW r \in BOOLEAN, Collect(i, r)
  PROVE  IInv'
<1> USE DEF IInv
<1>1. /\ i \notin Collected /\ future[i] = "result" /\ main = "collect"
      /\ collected' = Append(collected, i) /\ collected \in Seq(Items)
  BY DEF Collect, Completed, TypeOK
<1>2. /\ Len(collected') = Len(collected) + 1 /\ Len(collected) \in Nat
      /\ \A n \in 1..Len(collected) : collected'[n] = collected[n]
      /\ collected'[Len(collected) + 1] = i
      /\ collected' \in Seq(Items)
  BY <1>1, AppendProperties, LenProperties
<1>3. Collected' = Collected \cup {i}
  <2>1. 1..Len(collected') = 1..Len(collected) \cup {Len(collected) + 1}
    BY <1>2
  <2>2. \A n \in 1..Len(collected) : collected'[n] \in Collected
    BY <1>2 DEF Collected
  <2> QED
    BY <1>2, <2>1, <2>2 DEF Collected
<1>4. TypeOK'
  BY <1>2 DEF Collect, pool, inside, TypeOK, Mains
<1>5. NotYetSubmitted' /\ WorkersOwnTheirItems'
  BY DEF Collect, pool, inside, NotYetSubmitted, WorkersOwnTheirItems
<1>6. CollectedHoldResults'
  <2>1. \A j \in Collected' : future'[j] = "result"
    BY <1>1, <1>3 DEF Collect, pool, CollectedHoldResults
  <2>2. ASSUME NEW m \in 1..Len(collected'), NEW n \in 1..Len(collected'),
               collected'[m] = collected'[n]
        PROVE  m = n
    <3>1. \A k \in 1..Len(collected) : collected'[k] # i
      BY <1>1, <1>2 DEF Collected
    <3> QED
      BY <1>2, <2>2, <3>1 DEF CollectedHoldResults
  <2> QED
    BY <2>1, <2>2 DEF CollectedHoldResults
<1>7. PhasesAgree' /\ QuietWhenOver'
  BY <1>1, <1>3 DEF Collect, pool, PhasesAgree, QuietWhenOver
<1>8. StartsAgree'
  BY StartsUntouched DEF Collect, pool
<1> QED
  BY <1>4, <1>5, <1>6, <1>7, <1>8

\* Cancelling futures that are still pending keeps it as well.
LEMMA PendingDropped ==
  ASSUME IInv, main' # "submit",
         UNCHANGED <<submitted, worker, place, collected>>,
         \A i \in Items : future'[i] # future[i] =>
                          future[i] = "pending" /\ future'[i] = "cancelled"
  PROVE  NotYetSubmitted' /\ WorkersOwnTheirItems' /\ CollectedHoldResults'
<1> USE DEF IInv
<1>1. NotYetSubmitted'
  BY WorkItemInItems DEF NotYetSubmitted
<1>2. WorkersOwnTheirItems'
  BY DEF WorkersOwnTheirItems, TypeOK
<1>3. Collected' = Collected /\ Collected \subseteq Items
  BY ElementOfSeq DEF Collected, TypeOK
<1>4. CollectedHoldResults'
  BY <1>3 DEF CollectedHoldResults
<1> QED
  BY <1>1, <1>2, <1>4

LEMMA CancelFutureKeepsIInv ==
  ASSUME IInv, CancelFuture
  PROVE  IInv'
<1> USE DEF IInv
<1>1. cancelAt \in 0..Total - 1 /\ main = "cancelling" /\ main' = main
  BY TotalType DEF CancelFuture, inside, TypeOK
<1>2. \A i \in Items : future'[i] # future[i] =>
                          future[i] = "pending" /\ future'[i] = "cancelled"
  <2> DEFINE item == WorkItem(cancelAt)
  <2>1. future' = IF future[item] = "pending"
                  THEN [future EXCEPT ![item] = "cancelled"] ELSE future
    BY DEF CancelFuture
  <2> HIDE DEF item
  <2> QED
    BY <2>1 DEF TypeOK
<1>3. TypeOK'
  <2>1. future' \in [Items -> FutureStates]
    BY DEF CancelFuture, TypeOK, FutureStates
  <2> QED
    BY <2>1, <1>1, TotalType DEF CancelFuture, inside, TypeOK
<1>4. NotYetSubmitted' /\ WorkersOwnTheirItems' /\ CollectedHoldResults'
  BY <1>1, <1>2, PendingDropped DEF CancelFuture, inside
<1>5. PhasesAgree' /\ QuietWhenOver'
  BY <1>1 DEF PhasesAgree, QuietWhenOver
<1>6. StartsAgree'
  BY StartsUntouched DEF CancelFuture
<1> QED
  BY <1>3, <1>4, <1>5, <1>6

LEMMA ShutdownQueueKeepsIInv ==
  ASSUME IInv, ShutdownQueue
  PROVE  IInv'
<1> USE DEF IInv
<1>1. \A i \in Items : future'[i] # future[i] =>
                          future[i] = "pending" /\ future'[i] = "cancelled"
  <2> TAKE i \in Items
  <2>1. future'[i] = IF future[i] = "pending" THEN "cancelled" ELSE future[i]
    BY DEF ShutdownQueue
  <2> QED
    BY <2>1
<1>2. main' = "joining" /\ \A i \in Items : future'[i] # "pending"
  BY DEF ShutdownQueue
<1>3. TypeOK'
  <2>1. future' \in [Items -> FutureStates]
    BY DEF ShutdownQueue, TypeOK, FutureStates
  <2> QED
    BY <2>1 DEF ShutdownQueue, inside, TypeOK, Mains
<1>4. NotYetSubmitted' /\ WorkersOwnTheirItems' /\ CollectedHoldResults'
  BY <1>1, <1>2, PendingDropped DEF ShutdownQueue, inside
<1>5. PhasesAgree' /\ QuietWhenOver'
  BY <1>2 DEF PhasesAgree, QuietWhenOver
<1>6. StartsAgree'
  BY StartsUntouched DEF ShutdownQueue
<1> QED
  BY <1>3, <1>4, <1>5, <1>6

\* The ways out of the try, and an interrupt in the handler.
LEMMA LeavingKeepsIInv ==
  ASSUME IInv,
         \/ SubmitFails \/ SetCancel \/ Interrupt \/ InterruptHandler
         \/ \E i \in Items : CollectError(i)
  PROVE  IInv'
<1> USE DEF IInv, SubmitFails, SetCancel, Interrupt, InterruptHandler,
            CollectError, pool, inside
<1>1. main' # "submit" /\ UNCHANGED <<submitted, future, worker, place, collected>>
  OBVIOUS
<1>2. TypeOK'
  <2>1. main' \in Mains
    BY DEF Mains
  <2>2. cancelAt' \in 0..Total
    BY TotalType DEF TypeOK
  <2>3. cancelSet' \in BOOLEAN /\ unhandled' \in BOOLEAN
    BY DEF TypeOK
  <2>4. record' = record /\ UNCHANGED <<value, left, late>>
    OBVIOUS
  <2>5. window' \subseteq Workers
    BY DEF TypeOK
  <2> QED
    BY <1>1, <2>1, <2>2, <2>3, <2>4, <2>5 DEF TypeOK
<1>3. NotYetSubmitted' /\ WorkersOwnTheirItems' /\ CollectedHoldResults'
  BY <1>1, PoolUntouched
<1>4. PhasesAgree' /\ QuietWhenOver'
  BY DEF PhasesAgree, QuietWhenOver
<1>5. StartsAgree'
  <2>1. CASE SetCancel
    <3>1. ~cancelSet
      BY <2>1 DEF PhasesAgree
    <3>2. \A w \in Workers : late[w] = 0
      BY <3>1 DEF StartsAgree
    <3> QED
      BY <2>1, <3>2 DEF StartsAgree
  <2>2. CASE ~SetCancel
    BY <2>2, StartsUntouched
  <2> QED
    BY <2>1, <2>2
<1> QED
  BY <1>2, <1>3, <1>4, <1>5

\* The end: after the join, or after the results were sorted and saved.
LEMMA EndingKeepsIInv ==
  ASSUME IInv, ShutdownJoin \/ Save \/ SaveFails
  PROVE  IInv'
<1> USE DEF IInv
<1>1. /\ main' \in {"saved", "raised"} /\ main \in {"joining", "save"}
      /\ UNCHANGED <<submitted, cancelAt, pool, cancelSet, collected, unhandled>>
      /\ main' = "saved" => main = "save"
      /\ \A w \in Workers : worker[w] = Idle
  BY DEF ShutdownJoin, Save, SaveFails
<1>2. record'.complete \in BOOLEAN
  <2>1. CASE ShutdownJoin \/ SaveFails
    BY <2>1 DEF ShutdownJoin, SaveFails, TypeOK
  <2>2. CASE Save
    <3>1. record'.complete =
            \A n \in 1..Len(Sorted(collected)) :
              value[Sorted(collected)[n]] \notin Incomplete
      BY <2>2 DEF Save
    <3> QED
      BY <3>1
  <2> QED
    BY <2>1, <2>2
<1>3. TypeOK'
  BY <1>1, <1>2 DEF pool, inside, TypeOK, Mains
<1>4. NotYetSubmitted' /\ WorkersOwnTheirItems' /\ CollectedHoldResults'
  BY <1>1, PoolUntouched DEF pool, inside
<1>5. \A i \in Items : future[i] # "pending"
  BY <1>1 DEF PhasesAgree, CollectedHoldResults
<1>6. PhasesAgree' /\ QuietWhenOver'
  BY <1>1, <1>5 DEF pool, PhasesAgree, QuietWhenOver, Collected
<1>7. StartsAgree'
  BY <1>1, StartsUntouched DEF pool
<1> QED
  BY <1>3, <1>4, <1>6, <1>7

LEMMA TakeKeepsIInv ==
  ASSUME IInv, NEW w \in Workers, NEW i \in Items, Take(w, i)
  PROVE  IInv'
<1> USE DEF IInv
<1>1. /\ worker[w] = Idle /\ future[i] = "pending" /\ i # Idle
      /\ worker' = [worker EXCEPT ![w] = i]
      /\ future' = [future EXCEPT ![i] = "running"]
  BY ItemNotIdle DEF Take, Next1stPending
<1>2. \A j \in Items : future'[j] = IF j = i THEN "running" ELSE future[j]
  BY <1>1 DEF TypeOK
<1>3. \A v \in Workers : worker'[v] = IF v = w THEN i ELSE worker[v]
  BY <1>1 DEF TypeOK
<1>4. TypeOK'
  BY <1>1 DEF Take, inside, TypeOK, FutureStates
<1>5. NotYetSubmitted'
  BY <1>1, <1>2, WorkItemInItems DEF Take, NotYetSubmitted
<1>6. WorkersOwnTheirItems'
  <2>1. \A v \in Workers : worker[v] # i
    BY <1>1 DEF WorkersOwnTheirItems
  <2>2. \A v \in Workers : worker[v] # Idle => worker[v] \in Items
    BY DEF TypeOK
  <2>3. place' = place
    BY DEF Take, inside
  <2> QED
    BY <1>1, <1>2, <1>3, <2>1, <2>2, <2>3 DEF WorkersOwnTheirItems, TypeOK
<1>7. Collected' = Collected /\ Collected \subseteq Items
  BY ElementOfSeq DEF Take, Collected, TypeOK
<1>8. CollectedHoldResults'
  BY <1>1, <1>2, <1>7 DEF Take, CollectedHoldResults
<1>9. PhasesAgree' /\ QuietWhenOver'
  BY <1>1, <1>2, <1>7 DEF Take, PhasesAgree, QuietWhenOver
<1>10. StartsAgree'
  BY StartsUntouched DEF Take
<1> QED
  BY <1>4, <1>5, <1>6, <1>8, <1>9, <1>10

\* A worker goes on within its case: only where it is changes, and what it has
\* left and has started.
LEMMA InsideKeepsIInv ==
  ASSUME IInv,
         UNCHANGED <<main, submitted, cancelAt, future, value, worker,
                     cancelSet, collected, unhandled, record>>,
         place' \in [Workers -> {"entry", "case", "checked", "tool"}],
         left' \in [Workers -> 0..MaxStages], late' \in [Workers -> Nat],
         window' \subseteq Workers,
         \A w \in Workers : place'[w] # "entry" => worker[w] # Idle,
         StartsAgree'
  PROVE  IInv'
<1> USE DEF IInv
<1>1. TypeOK'
  BY DEF TypeOK
<1>2. NotYetSubmitted' /\ WorkersOwnTheirItems'
  BY DEF NotYetSubmitted, WorkersOwnTheirItems
<1>3. CollectedHoldResults' /\ PhasesAgree' /\ QuietWhenOver'
  BY DEF Collected, CollectedHoldResults, PhasesAgree, QuietWhenOver
<1> QED
  BY <1>1, <1>2, <1>3

\* The steps of a worker within its case.
Inside(w) ==
  \/ \E n \in 0..MaxStages : Enter(w, n)
  \/ CheckStage(w) \/ StartTool(w) \/ LaunchFails(w)
  \/ \E b \in BOOLEAN : EndTool(w, b)

LEMMA WorkingKeepsIInv ==
  ASSUME IInv, NEW w \in Workers, Inside(w)
  PROVE  IInv'
<1> USE DEF IInv
<1>1. UNCHANGED <<main, submitted, cancelAt, future, value, worker, window,
                  cancelSet, collected, unhandled, record>>
  BY DEF Inside, Enter, CheckStage, StartTool, LaunchFails, EndTool
<1>2. worker[w] # Idle
  BY DEF Inside, Enter, CheckStage, StartTool, LaunchFails, EndTool,
         WorkersOwnTheirItems
<1>3. MaxStages \in Nat /\ left[w] \in 0..MaxStages /\ late[w] \in Nat
  BY CampaignRunAssumption DEF TypeOK
<1>4. ASSUME NEW n \in 0..MaxStages, Enter(w, n)
      PROVE  IInv'
  <2>1. /\ place' = [place EXCEPT ![w] = "case"]
        /\ left' = [left EXCEPT ![w] = n] /\ late' = late
    BY <1>4 DEF Enter
  <2>2. StartsAgree'
    BY <1>1, <2>1 DEF StartsAgree, TypeOK
  <2> QED
    BY <1>1, <1>2, <2>1, <2>2, InsideKeepsIInv DEF TypeOK, WorkersOwnTheirItems
<1>5. CASE CheckStage(w)
  <2>1. /\ place' = [place EXCEPT ![w] = "checked"] /\ left[w] > 0
        /\ left' = left /\ late' = late /\ ~cancelSet
    BY <1>5 DEF CheckStage
  <2>2. StartsAgree'
    BY <1>1, <2>1 DEF StartsAgree, TypeOK
  <2> QED
    BY <1>1, <1>2, <2>1, <2>2, InsideKeepsIInv DEF TypeOK, WorkersOwnTheirItems
<1>6. CASE StartTool(w)
  <2>1. /\ place[w] = "checked" /\ place' = [place EXCEPT ![w] = "tool"]
        /\ left' = left
        /\ late' = [late EXCEPT ![w] = IF cancelSet THEN late[w] + 1 ELSE late[w]]
    BY <1>6 DEF StartTool
  <2>2. left[w] > 0 /\ (cancelSet => w \in window /\ late[w] = 0)
    BY <2>1 DEF StartsAgree
  <2>3. late' \in [Workers -> Nat]
    BY <1>3, <2>1 DEF TypeOK
  <2>4. StartsAgree'
    <3>1. ASSUME NEW v \in Workers, v # w
          PROVE  place'[v] = place[v] /\ late'[v] = late[v]
      BY <2>1, <3>1 DEF TypeOK
    <3>2. /\ place'[w] = "tool"
          /\ late'[w] = IF cancelSet THEN late[w] + 1 ELSE late[w]
      BY <2>1 DEF TypeOK
    <3>3. ~cancelSet => late[w] = 0
      BY DEF StartsAgree
    <3> QED
      BY <1>1, <1>3, <2>1, <2>2, <3>1, <3>2, <3>3 DEF StartsAgree
  <2> QED
    BY <1>1, <1>2, <2>1, <2>3, <2>4, InsideKeepsIInv DEF TypeOK, WorkersOwnTheirItems
<1>7. CASE LaunchFails(w)
  <2>1. /\ place' = [place EXCEPT ![w] = "case"]
        /\ left' = [left EXCEPT ![w] = 0] /\ late' = late
    BY <1>7 DEF LaunchFails
  <2>2. StartsAgree'
    BY <1>1, <2>1 DEF StartsAgree, TypeOK
  <2> QED
    BY <1>1, <1>2, <1>3, <2>1, <2>2, InsideKeepsIInv DEF TypeOK, WorkersOwnTheirItems
<1>8. ASSUME NEW b \in BOOLEAN, EndTool(w, b)
      PROVE  IInv'
  <2>1. /\ place[w] = "tool" /\ place' = [place EXCEPT ![w] = "case"]
        /\ left' = [left EXCEPT ![w] = IF b THEN left[w] - 1 ELSE 0]
        /\ late' = late
    BY <1>8 DEF EndTool
  <2>2. left[w] > 0
    BY <2>1 DEF StartsAgree
  <2>3. left' \in [Workers -> 0..MaxStages]
    BY <1>3, <2>1, <2>2 DEF TypeOK
  <2>4. StartsAgree'
    BY <1>1, <2>1 DEF StartsAgree, TypeOK
  <2> QED
    BY <1>1, <1>2, <2>1, <2>3, <2>4, InsideKeepsIInv DEF TypeOK, WorkersOwnTheirItems
<1> QED
  BY <1>4, <1>5, <1>6, <1>7, <1>8 DEF Inside

\* A worker gives its item up with a result, an error or a cancellation.
LEMMA LeaveKeepsIInv ==
  ASSUME IInv, NEW w \in Workers, worker[w] # Idle,
         NEW state \in {"result", "error", "stopped"},
         NEW status \in Statuses \cup {NoStatus}, Leave(w, state, status)
  PROVE  IInv'
<1> USE DEF IInv
<1> DEFINE item == worker[w]
<1>1. item \in Items /\ future[item] = "running"
  BY DEF TypeOK, WorkersOwnTheirItems
<1>2. \A j \in Items : future'[j] = IF j = item THEN state ELSE future[j]
  BY <1>1 DEF Leave, TypeOK
<1>3. \A v \in Workers : worker'[v] = IF v = w THEN Idle ELSE worker[v]
  BY DEF Leave, TypeOK
<1>4. \A v \in Workers : place'[v] = IF v = w THEN "entry" ELSE place[v]
  BY DEF Leave, TypeOK
<1>5. TypeOK'
  <2>1. future' \in [Items -> FutureStates]
    BY <1>1 DEF Leave, TypeOK, FutureStates
  <2>2. value' \in [Items -> Statuses \cup {NoStatus}]
    BY <1>1 DEF Leave, TypeOK
  <2>3. /\ worker' \in [Workers -> Items \cup {Idle}]
        /\ place' \in [Workers -> {"entry", "case", "checked", "tool"}]
    BY DEF Leave, TypeOK
  <2>4. left' \in [Workers -> 0..MaxStages]
    BY CampaignRunAssumption DEF Leave, TypeOK
  <2> QED
    BY <2>1, <2>2, <2>3, <2>4 DEF Leave, TypeOK
<1>6. NotYetSubmitted'
  BY <1>1, <1>2, WorkItemInItems DEF Leave, NotYetSubmitted
<1>7. WorkersOwnTheirItems'
  <2>1. \A v \in Workers : v # w => worker[v] # item
    BY DEF WorkersOwnTheirItems
  <2>2. \A v \in Workers : worker[v] # Idle => worker[v] \in Items
    BY DEF TypeOK
  <2> HIDE DEF item
  <2> QED
    BY <1>2, <1>3, <1>4, <2>1, <2>2 DEF WorkersOwnTheirItems, TypeOK
<1>8. Collected' = Collected /\ Collected \subseteq Items
  BY ElementOfSeq DEF Leave, Collected, TypeOK
<1>9. item \notin Collected
  BY <1>1 DEF CollectedHoldResults
<1>10. CollectedHoldResults'
  BY <1>2, <1>8, <1>9 DEF Leave, CollectedHoldResults
<1>11. PhasesAgree'
  BY <1>2, <1>8 DEF Leave, PhasesAgree
<1>12. QuietWhenOver'
  BY <1>2, <1>3 DEF Leave, QuietWhenOver
<1>13. StartsAgree'
  BY <1>4 DEF Leave, StartsAgree, TypeOK
<1> QED
  BY <1>5, <1>6, <1>7, <1>10, <1>11, <1>12, <1>13

LEMMA WorkerKeepsIInv ==
  ASSUME IInv, NEW w \in Workers, Worker(w)
  PROVE  IInv'
<1>1. CASE \E i \in Items : Take(w, i)
  BY <1>1, TakeKeepsIInv
<1>2. CASE Inside(w)
  BY <1>2, WorkingKeepsIInv
<1>3. ASSUME place[w] # "entry"
      PROVE  worker[w] # Idle
  BY <1>3 DEF IInv, WorkersOwnTheirItems
<1>4. CASE Fail(w)
  BY <1>3, <1>4, LeaveKeepsIInv DEF Fail
<1>5. CASE Stop(w)
  BY <1>5, LeaveKeepsIInv DEF Stop
<1>6. CASE \E s \in Statuses : Finish(w, s)
  BY <1>3, <1>6, LeaveKeepsIInv DEF Finish
<1> QED
  BY <1>1, <1>2, <1>4, <1>5, <1>6 DEF Worker, Inside

LEMMA StutterKeepsIInv ==
  ASSUME IInv, UNCHANGED vars
  PROVE  IInv'
BY DEF vars, pool, inside, IInv, TypeOK, NotYetSubmitted,
       WorkersOwnTheirItems, CollectedHoldResults, Collected, PhasesAgree,
       QuietWhenOver, StartsAgree

LEMMA NextKeepsIInv == IInv /\ [Next]_vars => IInv'
<1> SUFFICES ASSUME IInv, [Next]_vars PROVE IInv'
  OBVIOUS
<1>1. CASE Submit
  BY <1>1, SubmitKeepsIInv
<1>2. CASE \E i \in Items : \E r \in BOOLEAN : Collect(i, r)
  BY <1>2, CollectKeepsIInv
<1>3. CASE CancelFuture
  BY <1>3, CancelFutureKeepsIInv
<1>4. CASE ShutdownQueue
  BY <1>4, ShutdownQueueKeepsIInv
<1>5. CASE \/ SubmitFails \/ SetCancel \/ Interrupt \/ InterruptHandler
           \/ \E i \in Items : CollectError(i)
  BY <1>5, LeavingKeepsIInv
<1>6. CASE ShutdownJoin \/ Save \/ SaveFails
  BY <1>6, EndingKeepsIInv
<1>7. CASE \E w \in Workers : Worker(w)
  BY <1>7, WorkerKeepsIInv
<1>8. CASE UNCHANGED vars
  BY <1>8, StutterKeepsIInv
<1> QED
  BY <1>1, <1>2, <1>3, <1>4, <1>5, <1>6, <1>7, <1>8 DEF Next, Main

-----------------------------------------------------------------------------
(* The order of the record. *)

\* The index of an item: the results of a tool stand together, case by case.
LEMMA IndexOfItem ==
  ASSUME NEW i \in Items
  PROVE  ResultIndex(i) \in 0..Total - 1
<1>1. NTools \in Nat \ {0} /\ NCases \in Nat \ {0}
  BY CampaignRunAssumption
<1>2. PICK t \in 0..NTools - 1, c \in 0..NCases - 1 : i = <<t, c>>
  BY DEF Items
<1>3. ResultIndex(i) = t * NCases + c
  BY <1>2 DEF ResultIndex
<1>4. t * NCases \in Nat /\ t * NCases <= (NTools - 1) * NCases
  BY <1>1, <1>2
<1>5. (NTools - 1) * NCases = NTools * NCases - NCases /\ NTools * NCases \in Nat
  BY <1>1
<1> QED
  BY <1>1, <1>2, <1>3, <1>4, <1>5 DEF Total

\* No two items share an index ...
LEMMA IndexInjective ==
  ASSUME NEW i \in Items, NEW j \in Items, ResultIndex(i) = ResultIndex(j)
  PROVE  i = j
<1>1. NCases \in Nat \ {0} /\ NTools \in Nat \ {0}
  BY CampaignRunAssumption
<1>2. PICK t \in 0..NTools - 1, c \in 0..NCases - 1 : i = <<t, c>>
  BY DEF Items
<1>3. PICK u \in 0..NTools - 1, d \in 0..NCases - 1 : j = <<u, d>>
  BY DEF Items
<1>4. t * NCases + c = u * NCases + d
  BY <1>2, <1>3 DEF ResultIndex
<1>5. (t - u) * NCases = d - c /\ t \in Nat /\ u \in Nat
  BY <1>1, <1>2, <1>3, <1>4
<1>6. ASSUME NEW a \in Int, a >= 1
      PROVE  a * NCases >= NCases
  BY <1>1, <1>6
<1>7. ~(t - u >= 1)
  BY <1>1, <1>2, <1>3, <1>5, <1>6
<1>8. ~(u - t >= 1)
  <2>1. (u - t) * NCases = c - d
    BY <1>1, <1>2, <1>3, <1>4
  <2> QED
    BY <1>1, <1>2, <1>3, <1>6, <2>1
<1>9. t = u
  BY <1>2, <1>3, <1>7, <1>8
<1> QED
  BY <1>1, <1>2, <1>3, <1>4, <1>9

\* ... and every index up to Total is an item's.
LEMMA IndexOnto ==
  ASSUME NEW q \in 0..Total - 1
  PROVE  \E i \in Items : ResultIndex(i) = q
<1>1. NCases \in Nat \ {0} /\ NTools \in Nat \ {0}
  BY CampaignRunAssumption
<1>2. q \in Nat /\ q < NCases * NTools
  BY <1>1, TotalType DEF Total
<1>3. /\ q = NCases * (q \div NCases) + (q % NCases)
      /\ q % NCases \in 0..NCases - 1 /\ q \div NCases \in Nat
  BY <1>1, <1>2, Division
<1>4. q \div NCases < NTools
  BY <1>1, <1>2, QuotientBound
<1> DEFINE t == q \div NCases
           c == q % NCases
<1>5. <<t, c>> \in Items
  BY <1>1, <1>3, <1>4 DEF Items
<1>6. ResultIndex(<<t, c>>) = t * NCases + c
  BY DEF ResultIndex
<1> QED
  BY <1>1, <1>3, <1>5, <1>6

\* A sequence that holds every item exactly once.
Enumerates(s) ==
  /\ s \in Seq(Items)
  /\ \A i \in Items : \E m \in 1..Len(s) : s[m] = i
  /\ \A m, n \in 1..Len(s) : s[m] = s[n] => m = n

\* In it as many items stand below an index as there are indices below.
LEMMA CountBelow ==
  ASSUME NEW s, Enumerates(s), NEW q \in 0..Total
  PROVE  Cardinality({m \in 1..Len(s) : ResultIndex(s[m]) < q}) = q
<1> DEFINE S == {m \in 1..Len(s) : ResultIndex(s[m]) < q}
           g == [m \in S |-> ResultIndex(s[m])]
<1>1. Len(s) \in Nat /\ \A m \in 1..Len(s) : s[m] \in Items
  BY LenProperties, ElementOfSeq DEF Enumerates
<1>2. IsFiniteSet(S)
  <2>1. IsFiniteSet(1..Len(s))
    BY <1>1, FS_Interval
  <2> QED
    BY <2>1, FS_Subset
<1>3. g \in [S -> 0..q - 1]
  <2>1. ASSUME NEW m \in S
        PROVE  ResultIndex(s[m]) \in 0..q - 1
    BY <1>1, IndexOfItem, TotalType
  <2> QED
    BY <2>1
<1>4. \A m, n \in S : g[m] = g[n] => m = n
  BY <1>1, IndexInjective DEF Enumerates
<1>5. \A r \in 0..q - 1 : \E m \in S : g[m] = r
  <2> TAKE r \in 0..q - 1
  <2>1. PICK i \in Items : ResultIndex(i) = r
    BY IndexOnto, TotalType
  <2>2. PICK m \in 1..Len(s) : s[m] = i
    BY DEF Enumerates
  <2>3. m \in S
    BY <2>1, <2>2
  <2> QED
    BY <2>1, <2>2, <2>3
<1> HIDE DEF g
<1>6. g \in Bijection(S, 0..q - 1)
  BY <1>3, <1>4, <1>5 DEF Bijection, Injection, IsInjective, Surjection
<1>7. ExistsBijection(S, 0..q - 1)
  BY <1>6 DEF ExistsBijection
<1>8. Cardinality(S) = Cardinality(0..q - 1)
  BY <1>2, <1>7, FS_Bijection
<1>9. Cardinality(0..q - 1) = q
  <2>1. q \in Nat /\ 0 \in Int /\ q - 1 \in Int
    BY TotalType
  <2>2. Cardinality(0..q - 1) = IF 0 > q - 1 THEN 0 ELSE q - 1 - 0 + 1
    BY <2>1, FS_Interval
  <2> QED
    BY <2>1, <2>2
<1> QED
  BY <1>8, <1>9

LEMMA EnumerationLength ==
  ASSUME NEW s, Enumerates(s)
  PROVE  Len(s) = Total
<1>1. Len(s) \in Nat /\ \A m \in 1..Len(s) : s[m] \in Items
  BY LenProperties, ElementOfSeq DEF Enumerates
<1>2. {m \in 1..Len(s) : ResultIndex(s[m]) < Total} = 1..Len(s)
  BY <1>1, IndexOfItem, TotalType
<1>3. Cardinality(1..Len(s)) = Total
  BY <1>2, CountBelow, TotalType
<1>4. Cardinality(1..Len(s)) = IF 1 > Len(s) THEN 0 ELSE Len(s) - 1 + 1
  BY <1>1, FS_Interval
<1> QED
  BY <1>1, <1>3, <1>4

\* Sorted puts each item at its own index, whatever the order it came in.
LEMMA SortedByIndex ==
  ASSUME NEW s, Enumerates(s), NEW i \in Items
  PROVE  Sorted(s)[ResultIndex(i) + 1] = i
<1> DEFINE Below(j) ==
      Cardinality({m \in 1..Len(s) : ResultIndex(s[m]) < ResultIndex(j)})
<1>1. Len(s) = Total /\ ResultIndex(i) + 1 \in 1..Len(s)
  BY EnumerationLength, IndexOfItem, TotalType
<1>2. \A j \in Items : Below(j) = ResultIndex(j)
  BY CountBelow, IndexOfItem, TotalType
<1>3. {s[m] : m \in 1..Len(s)} = Items
  BY ElementOfSeq DEF Enumerates
<1>4. Sorted(s)[ResultIndex(i) + 1] =
        CHOOSE j \in Items : Below(j) = (ResultIndex(i) + 1) - 1
  BY <1>1, <1>3 DEF Sorted
<1> HIDE DEF Below
<1>5. (ResultIndex(i) + 1) - 1 = ResultIndex(i)
  BY IndexOfItem, TotalType
<1>6. \A j \in Items : Below(j) = ResultIndex(i) => j = i
  BY <1>2, IndexInjective
<1> QED
  BY <1>2, <1>4, <1>5, <1>6

-----------------------------------------------------------------------------
(* The pool implements the contract. *)

LEMMA InitRInv == Init => RInv
BY DEF Init, RInv

LEMMA NextKeepsRInv ==
  ASSUME IInv, RInv, [Next]_vars
  PROVE  RInv'
<1> USE DEF RInv
<1>1. CASE UNCHANGED vars
  BY <1>1 DEF vars, pool
<1>2. CASE Submit
  <2>1. WorkItem(submitted) \in Items
    BY <1>2, TotalType, WorkItemInItems DEF Submit, IInv, NotYetSubmitted, TypeOK
  <2>2. \A i \in Items : future'[i] = "result" => future[i] = "result"
    BY <1>2, <2>1 DEF Submit, IInv, TypeOK
  <2> QED
    BY <1>2, <2>2 DEF Submit
<1>3. CASE CancelFuture
  <2>1. WorkItem(cancelAt) \in Items
    BY <1>3, TotalType, WorkItemInItems DEF CancelFuture, IInv, TypeOK
  <2>2. \A i \in Items : future'[i] = "result" => future[i] = "result"
    BY <1>3, <2>1 DEF CancelFuture, IInv, TypeOK
  <2> QED
    BY <1>3, <2>2 DEF CancelFuture
<1>4. CASE ShutdownQueue
  BY <1>4 DEF ShutdownQueue
<1>5. CASE SubmitFails \/ SetCancel \/ ShutdownJoin \/ Save \/ SaveFails
  BY <1>5 DEF SubmitFails, SetCancel, ShutdownJoin, Save, SaveFails, pool
<1>6. CASE \/ Interrupt \/ InterruptHandler
           \/ \E i \in Items : CollectError(i)
           \/ \E i \in Items : \E r \in BOOLEAN : Collect(i, r)
  BY <1>6 DEF Interrupt, InterruptHandler, CollectError, Collect, pool
<1>7. ASSUME NEW w \in Workers, NEW i \in Items, Take(w, i)
      PROVE  RInv'
  BY <1>7 DEF Take, IInv, TypeOK
<1>8. ASSUME NEW w \in Workers, Inside(w)
      PROVE  RInv'
  BY <1>8 DEF Inside, Enter, CheckStage, StartTool, LaunchFails, EndTool
<1>9. ASSUME NEW w \in Workers, worker[w] # Idle, NEW state, NEW status,
             state = "result" => status \in Statuses, Leave(w, state, status)
      PROVE  RInv'
  <2> DEFINE item == worker[w]
  <2>1. item \in Items
    BY <1>9 DEF IInv, TypeOK
  <2>2. \A j \in Items : /\ future'[j] = IF j = item THEN state ELSE future[j]
                         /\ value'[j] = IF j = item THEN status ELSE value[j]
    BY <1>9, <2>1 DEF Leave, IInv, TypeOK
  <2>3. main' = main /\ unhandled' = unhandled
    BY <1>9 DEF Leave
  <2> HIDE DEF item
  <2> QED
    BY <1>9, <2>2, <2>3
<1>10. ASSUME NEW w \in Workers, Fail(w) \/ Stop(w) \/ \E s \in Statuses : Finish(w, s)
       PROVE  RInv'
  <2>1. worker[w] # Idle
    BY <1>10 DEF Fail, Stop, Finish, IInv, WorkersOwnTheirItems
  <2>2. CASE Fail(w)
    BY <1>9, <2>1, <2>2 DEF Fail
  <2>3. CASE Stop(w)
    BY <1>9, <2>1, <2>3 DEF Stop
  <2>4. CASE \E s \in Statuses : Finish(w, s)
    BY <1>9, <2>1, <2>4 DEF Finish
  <2> QED
    BY <1>10, <2>2, <2>3, <2>4
<1> QED
  BY <1>1, <1>2, <1>3, <1>4, <1>5, <1>6, <1>7, <1>8, <1>10
     DEF Next, Main, Worker, Inside

\* Before the end the contract is still running and sees no record.
LEMMA BeforeTheEnd ==
  ASSUME main \notin {"saved", "raised"}, main' \notin {"saved", "raised"}
  PROVE  UNCHANGED Contract!contract
BY DEF Contract!contract

\* The save is the contract's Record, with every item's own status.
LEMMA SaveRecords ==
  ASSUME IInv, RInv, Save
  PROVE  Contract!Record
<1> DEFINE order == Sorted(collected)
           results == [i \in Items |-> value[i]]
<1>1. Enumerates(collected)
  BY DEF Save, IInv, TypeOK, PhasesAgree, CollectedHoldResults, Collected,
         Enumerates
<1>2. Len(order) = Total
  BY <1>1, EnumerationLength, TotalType DEF Sorted
<1>3. \A i \in Items : order[ResultIndex(i) + 1] = i
  BY <1>1, SortedByIndex
<1>4. \A i \in Items : value[i] \in Judged \cup Incomplete
  BY DEF Save, IInv, RInv, PhasesAgree, CollectedHoldResults, Statuses
<1>5. main = "save" /\ main' = "saved" /\ value' = value
  BY DEF Save, pool
<1>6. /\ record'.results = [n \in 1..Len(order) |-> <<order[n], value[order[n]]>>]
      /\ record'.complete =
           \A n \in 1..Len(order) : value[order[n]] \notin Incomplete
  BY DEF Save
<1> HIDE DEF order
<1>7. \A i \in Items :
        StatusAt(record.results, ResultIndex(i) + 1, i)' = value[i]
  <2> TAKE i \in Items
  <2>1. ResultIndex(i) + 1 \in 1..Len(order)
    BY <1>2, IndexOfItem, TotalType
  <2>2. record'.results[ResultIndex(i) + 1] = <<i, value[i]>>
    BY <1>3, <1>6, <2>1
  <2> QED
    BY <1>5, <2>2 DEF StatusAt
<1>8. record'.complete = \A i \in Items : value[i] \in Judged
  <2>1. \A i \in Items : ResultIndex(i) + 1 \in 1..Len(order)
    BY <1>2, IndexOfItem, TotalType
  <2>2. \A n \in 1..Len(order) : \E i \in Items : n = ResultIndex(i) + 1
    <3> TAKE n \in 1..Len(order)
    <3>1. n - 1 \in 0..Total - 1
      BY <1>2, TotalType
    <3>2. PICK i \in Items : ResultIndex(i) = n - 1
      BY <3>1, IndexOnto
    <3> QED
      BY <3>2
  <2>3. (\A n \in 1..Len(order) : value[order[n]] \notin Incomplete)
          <=> \A i \in Items : value[i] \notin Incomplete
    BY <1>3, <2>1, <2>2
  <2>4. \A i \in Items : value[i] \notin Incomplete <=> value[i] \in Judged
    BY <1>4, CampaignRunAssumption
  <2> QED
    BY <1>6, <2>3, <2>4
<1>9. results \in [Items -> Judged \cup Incomplete]
  BY <1>4
<1>10. [i \in Items |-> StatusAt(record.results, ResultIndex(i) + 1, i)'] = results
  BY <1>7
<1> QED
  BY <1>5, <1>8, <1>9, <1>10 DEF Contract!Record

LEMMA StepsImplement ==
  ASSUME IInv, RInv, [Next]_vars
  PROVE  [Contract!Next]_Contract!contract
<1>1. CASE main \notin {"saved", "raised"} /\ main' \notin {"saved", "raised"}
  BY <1>1, BeforeTheEnd
<1>2. CASE Save
  BY <1>2, SaveRecords DEF Contract!Next
<1>3. CASE main \notin {"saved", "raised"} /\ main' = "raised"
  BY <1>3 DEF Contract!Next, Contract!Abandon
<1>4. CASE main = "raised" /\ main' = "raised"
  BY <1>4 DEF Contract!contract
<1>5. CASE main = "saved" /\ UNCHANGED <<main, value, record>>
  BY <1>5 DEF Contract!contract, StatusAt
<1>6. main = "saved" => UNCHANGED <<main, value, record>>
  <2> SUFFICES ASSUME main = "saved" PROVE UNCHANGED <<main, value, record>>
    OBVIOUS
  <2>1. \A w \in Workers : worker[w] = Idle /\ place[w] = "entry"
    BY DEF IInv, RInv, QuietWhenOver, WorkersOwnTheirItems
  <2>2. CASE UNCHANGED vars
    BY <2>2 DEF vars, pool
  <2>3. ASSUME NEW w \in Workers, Worker(w)
        PROVE  UNCHANGED <<main, value, record>>
    BY <2>1, <2>3 DEF Worker, Take, Enter, CheckStage, StartTool, LaunchFails,
                       EndTool, Fail, Stop, Finish
  <2>4. ~Main /\ ~Interrupt /\ ~InterruptHandler
    BY DEF Main, Submit, SubmitFails, SetCancel, CancelFuture, ShutdownQueue,
           ShutdownJoin, Save, SaveFails, CollectError, Collect, Interrupt,
           InterruptHandler
  <2> QED
    BY <2>2, <2>3, <2>4 DEF Next
<1>7. main = "raised" => main' = "raised"
  BY DEF vars, Next, Main, Submit, SubmitFails, SetCancel, CancelFuture,
         ShutdownQueue, ShutdownJoin, Save, SaveFails, CollectError, Collect,
         Interrupt, InterruptHandler, Worker, Take, Enter, CheckStage,
         StartTool, LaunchFails, EndTool, Fail, Stop, Finish, Leave
<1>8. main' = "saved" => Save \/ main = "saved"
  BY DEF vars, Next, Main, Submit, SubmitFails, SetCancel, CancelFuture,
         ShutdownQueue, ShutdownJoin, Save, SaveFails, CollectError, Collect,
         Interrupt, InterruptHandler, Worker, Take, Enter, CheckStage,
         StartTool, LaunchFails, EndTool, Fail, Stop, Finish, Leave
<1> QED
  BY <1>1, <1>2, <1>3, <1>4, <1>5, <1>6, <1>7, <1>8

-----------------------------------------------------------------------------
(* The theorems. *)

\* The inductive invariant holds in every state of every campaign run.
THEOREM IInvHolds == Spec => []IInv
BY InitIInv, NextKeepsIInv, PTL DEF Spec

\* Every variable of run_campaign and its pool keeps its type (468-552).
THEOREM TypesHold == Spec => []TypeOK
<1>1. IInv => TypeOK
  BY DEF IInv
<1> QED
  BY <1>1, IInvHolds, PTL

\* A campaign is saved only after every (tool, case) future returned a result
\* of its own, each was collected once and nothing was cancelled (500-551).
THEOREM OnlyFinishedCampaignsRecorded == Spec => []RecordOnlyWhenAllFinished
<1>1. IInv => RecordOnlyWhenAllFinished
  BY DEF IInv, PhasesAgree, CollectedHoldResults, RecordOnlyWhenAllFinished
<1> QED
  BY <1>1, IInvHolds, PTL

\* Once run_campaign has returned or raised, no worker has a case and no case
\* is left in the queue, except after an interrupt of the handler (510-517).
THEOREM NothingRunsAfterReturn == Spec => []QuietWhenOver
<1>1. IInv => QuietWhenOver
  BY DEF IInv
<1> QED
  BY <1>1, IInvHolds, PTL

\* After cancel_event is set (campaign.py:511) a worker starts at most one more
\* tool, and only one whose check of the event (process.py:145) came before: no
\* later stage and no case still queued gets one.
THEOREM LateToolsHadBeenChecked == Spec => []LateToolsWereChecked
<1>1. IInv => LateToolsWereChecked
  BY DEF IInv, StartsAgree, LateToolsWereChecked
<1> QED
  BY <1>1, IInvHolds, PTL

\* One run records every selected pair exactly once, with its own status, in
\* manifest order whatever order the cases end in, or records nothing
\* (500-551): the pool implements the safety half of its contract.
THEOREM RunImplementsContract == Spec => Contract!Safety
<1>1. Init => Contract!Init
  BY DEF Init, Contract!Init, Contract!NoRecord
<1>2. Init => IInv /\ RInv
  BY InitIInv, InitRInv
<1>3. IInv /\ RInv /\ [Next]_vars => (IInv /\ RInv)'
  BY NextKeepsIInv, NextKeepsRInv
<1>4. IInv /\ RInv /\ [Next]_vars => [Contract!Next]_Contract!contract
  BY StepsImplement
<1> QED
  BY <1>1, <1>2, <1>3, <1>4, PTL DEF Spec, Contract!Safety

-----------------------------------------------------------------------------
(* One case: its plan and what is observed of it. *)

Outcomes == {"normal-exit", "timeout", "signal", "launch-failure",
             "container-failure", "backend-unavailable"}
Stages == [kind : {"compile", "run"}, through : Phases, artifact : BOOLEAN]
Observations ==
  [kind : {"compile", "run"}, through : Phases, outcome : Outcomes,
   exit : Nat \cup {NoExit}, diagnostics : SUBSET DiagnosticKinds, markers : Nat,
   internal : BOOLEAN, truncated : BOOLEAN,
   artifact : {"not-expected", "present", "absent"}]

\* The observations are of the first stages of the plan.
Follows(obs, stages) ==
  /\ obs \in Seq(Observations) /\ Len(obs) <= Len(stages)
  /\ \A i \in 1..Len(obs) :
       obs[i].kind = stages[i].kind /\ obs[i].through = stages[i].through

Planned == PlanValid(case, profile) /\ Structural(case, profile) = NoResult

\* Why there is a result without observations.
Unobserved ==
  \/ result = Structural(case, profile) /\ result # NoResult
  \/ /\ result = Result("skipped-unavailable", "tool-unavailable")
     /\ Structural(case, profile) = NoResult /\ IsWrapped(profile)
  \/ result = InvalidPlan

CaseInv ==
  /\ case \in Cases /\ profile \in Profiles
  /\ ~IsWrapped(profile) => available
  /\ pc \in {"dispatch", "execute", "evaluate", "recorded", "raised"}
  /\ pc = "dispatch" => observations = <<>>
  /\ pc \in {"execute", "evaluate"} =>
       /\ Planned /\ plan = PlanFor(case, profile) /\ Follows(observations, plan)
       /\ pc = "execute" => Len(observations) < Len(plan)
       /\ pc = "evaluate" => observations # <<>>
  /\ pc = "recorded" =>
       \/ observations = <<>> /\ Unobserved
       \/ /\ observations # <<>> /\ Planned
          /\ Follows(observations, PlanFor(case, profile))
          /\ result = Verdict(case, observations)

\* A plan has one stage, or two when the case is to be simulated.
LEMMA PlanShape ==
  ASSUME NEW c \in Cases, NEW p \in Profiles
  PROVE  /\ PlanFor(c, p) \in Seq(Stages) /\ Len(PlanFor(c, p)) <= 2
         /\ c.target # Simulate => Len(PlanFor(c, p)) <= 1
<1>1. p.adapter \in Adapters /\ c.target \in Phases /\ Phases = {0, 1, 2, 3}
  BY CaseExecutionAssumption DEF Cases, Phases, Preprocess, Simulate
<1>2. \A k \in {"compile", "run"}, t \in Phases, a \in BOOLEAN : Stage(k, t, a) \in Stages
  BY DEF Stage, Stages
<1>3. \A s \in Stages : <<s>> \in Seq(Stages) /\ Len(<<s>>) = 1
  OBVIOUS
<1>4. <<>> \in Seq(Stages) /\ Len(<<>>) = 0
  OBVIOUS
<1> DEFINE Shaped(s) == /\ s \in Seq(Stages) /\ Len(s) <= 2
                        /\ c.target # Simulate => Len(s) <= 1
<1>5. \A t \in Phases, a \in BOOLEAN :
        Shaped(Compile(t, a)) /\ Shaped(Compile(t, a) \o RunIfSimulated(c))
  <2> SUFFICES ASSUME NEW t \in Phases, NEW a \in BOOLEAN
               PROVE  Shaped(Compile(t, a)) /\ Shaped(Compile(t, a) \o RunIfSimulated(c))
    OBVIOUS
  <2>1. Compile(t, a) \in Seq(Stages) /\ Len(Compile(t, a)) = 1
    BY <1>2, <1>3 DEF Compile
  <2>2. Stage("run", Simulate, FALSE) \in Stages
    BY <1>1 DEF Stage, Stages, Simulate
  <2> DEFINE run == <<Stage("run", Simulate, FALSE)>>
  <2>3. run \in Seq(Stages) /\ Len(run) = 1
    BY <2>2, <1>3
  <2> HIDE DEF run
  <2>4. RunIfSimulated(c) = IF c.target = Simulate THEN run ELSE <<>>
    BY DEF RunIfSimulated, run
  <2>5. /\ RunIfSimulated(c) \in Seq(Stages) /\ Len(RunIfSimulated(c)) <= 1
        /\ Len(RunIfSimulated(c)) \in Nat
        /\ c.target # Simulate => Len(RunIfSimulated(c)) = 0
    <3>1. CASE c.target = Simulate
      <4>1. RunIfSimulated(c) = run
        BY <2>4, <3>1
      <4>2. run \in Seq(Stages) /\ Len(run) <= 1 /\ Len(run) \in Nat
        BY <2>3
      <4> QED
        BY <3>1, <4>1, <4>2, Zenon
    <3>2. CASE c.target # Simulate
      <4>1. RunIfSimulated(c) = <<>>
        BY <2>4, <3>2
      <4> QED
        BY <1>4, <4>1
    <3> QED
      BY <3>1, <3>2
  <2>6. /\ Compile(t, a) \o RunIfSimulated(c) \in Seq(Stages)
        /\ Len(Compile(t, a) \o RunIfSimulated(c)) = 1 + Len(RunIfSimulated(c))
    BY <2>1, <2>5, ConcatProperties
  <2> QED
    BY <2>1, <2>5, <2>6
<1>6. Shaped(<<>>)
  BY <1>4
<1>7. Preprocess \in Phases /\ Elaborate \in Phases
  BY <1>1 DEF Preprocess, Elaborate
<1> HIDE DEF Shaped
<1>8. Shaped(SlangPlan(c)) /\ Shaped(FakePlan(c)) /\ Shaped(VcsPlan(c))
  BY <1>1, <1>5, <1>6, <1>7 DEF SlangPlan, FakePlan, VcsPlan
<1>9. Shaped(VerilatorPlan(c))
  BY <1>1, <1>5, <1>7 DEF VerilatorPlan
<1>10. Shaped(IcarusPlan(c))
  <2>1. CASE c.target = Preprocess
    BY <2>1, <1>5, <1>7 DEF IcarusPlan
  <2>2. CASE c.target # Preprocess
    BY <2>2, <1>5, <1>7 DEF IcarusPlan
  <2> QED
    BY <2>1, <2>2
<1>11. Shaped(PlanFor(c, p))
  BY <1>1, <1>8, <1>9, <1>10 DEF PlanFor, Adapters
<1> QED
  BY <1>11 DEF Shaped

-----------------------------------------------------------------------------
(* The judgment. *)

\* Nothing of an observation keeps it from being judged, truncation apart.
Clean(o) == o.outcome = "normal-exit" /\ ~o.internal
Whole(obs) == \A i \in 1..Len(obs) : Clean(obs[i]) /\ ~obs[i].truncated

InReasons(r) == r.status \in DOMAIN Reasons /\ r.reason \in Reasons[r.status]

Judgments == {"conforming", "nonconforming", "inconclusive"}

\* The first of some stages is one of them and before the others.
LEMMA FirstOf ==
  ASSUME NEW n \in {1, 2}, NEW S \in SUBSET (1..n), S # {}
  PROVE  First(S) \in S /\ \A j \in S : First(S) <= j
<1>1. \E i \in S : \A j \in S : i <= j
  <2>1. CASE 1 \in S
    BY <2>1
  <2>2. CASE 1 \notin S
    <3>1. \A j \in S : j = 2
      BY <2>2
    <3>2. PICK k \in S : TRUE
      OBVIOUS
    <3>3. 2 \in S /\ \A j \in S : 2 <= j
      BY <3>1, <3>2
    <3> QED
      BY <3>3
  <2> QED
    BY <2>1, <2>2
<1> QED
  BY <1>1 DEF First

\* What is no verdict of the tool: it has a reason, and never blames or absolves.
LEMMA Troubles ==
  ASSUME NEW o \in Observations
  PROVE  /\ Trouble(o) = NoResult <=> Clean(o)
         /\ Trouble(o) # NoResult =>
              /\ InReasons(Trouble(o))
              /\ Trouble(o).status \in
                   {"skipped-unavailable", "harness-error", "inconclusive"}
<1>1. o.outcome \in Outcomes
  BY DEF Observations
<1> USE DEF Trouble, Clean, NoResult, Result, InReasons, Reasons
<1>2. CASE o.outcome = "normal-exit"
  BY <1>2
<1>3. CASE o.outcome \in {"timeout", "signal"}
  BY <1>3
<1>4. CASE o.outcome = "launch-failure"
  BY <1>4
<1>5. CASE o.outcome = "container-failure"
  BY <1>5
<1>6. CASE o.outcome = "backend-unavailable"
  BY <1>6
<1> QED
  BY <1>1, <1>2, <1>3, <1>4, <1>5, <1>6 DEF Outcomes

\* The same of all stages together.
LEMMA OperationalFailures ==
  ASSUME NEW obs \in Seq(Observations), Len(obs) \in {1, 2}
  PROVE  LET f == OperationalFailure(obs) IN
         /\ f = NoResult <=> Whole(obs)
         /\ f # NoResult =>
              /\ InReasons(f)
              /\ f.status \in {"skipped-unavailable", "harness-error", "inconclusive"}
<1> DEFINE troubled == {i \in 1..Len(obs) : Trouble(obs[i]) # NoResult}
           f == OperationalFailure(obs)
<1>1. \A i \in 1..Len(obs) : obs[i] \in Observations
  BY ElementOfSeq
<1>2. CASE troubled # {}
  <2>1. First(troubled) \in troubled
    BY <1>2, FirstOf
  <2>2. f = Trouble(obs[First(troubled)])
    BY <1>2 DEF OperationalFailure
  <2>3. f # NoResult /\ ~Clean(obs[First(troubled)])
    BY <2>1, <2>2, <1>1, Troubles
  <2> QED
    BY <2>1, <2>2, <2>3, <1>1, Troubles DEF Whole
<1>3. CASE troubled = {}
  <2>1. \A i \in 1..Len(obs) : Clean(obs[i])
    BY <1>1, <1>3, Troubles
  <2>2. f = IF \E i \in 1..Len(obs) : obs[i].truncated
            THEN Result("inconclusive", "output-truncated") ELSE NoResult
    BY <1>3 DEF OperationalFailure
  <2>3. CASE \E i \in 1..Len(obs) : obs[i].truncated
    BY <2>2, <2>3 DEF Whole, Result, NoResult, InReasons, Reasons
  <2>4. CASE ~\E i \in 1..Len(obs) : obs[i].truncated
    BY <2>1, <2>2, <2>4 DEF Whole
  <2> QED
    BY <2>3, <2>4
<1> QED
  BY <1>2, <1>3

\* What one observation of the target phase says, given that it is complete.
Met(c, o) ==
  /\ CASE c.expectation = "accept" -> o.exit = 0
       [] c.expectation = "reject" -> o.exit # 0 /\ Targeted(o, {"error"})
       [] c.expectation = "diagnostic" -> Targeted(o, {"warning", "error"})
  /\ HasMarker(c) => o.markers = 1 \/ o.exit # 0

\* The judgment of the stage that reaches the target.
LEMMA JudgeDecides ==
  ASSUME NEW c \in Cases, NEW o
  PROVE  /\ Judge(c, o).status = "conforming" <=> Met(c, o)
         /\ Judge(c, o).status \in Judgments /\ InReasons(Judge(c, o))
         /\ Judge(c, o).reason = "unexpected-reject" =>
              c.target # Simulate /\ o.through = c.target
<1>1. c.expectation \in Expectations
  BY DEF Cases
<1> USE DEF Result, Conforming, InReasons, Reasons, Judgments, Met, HasMarker
<1>2. CASE c.expectation = "reject"
  BY <1>2 DEF Judge, JudgeReject, NoTargetReason
<1>3. CASE c.expectation = "diagnostic"
  BY <1>3 DEF Judge, JudgeDiagnostic, NoTargetReason, MarkerReason
<1>4. CASE c.expectation = "accept" /\ c.target # Simulate
  BY <1>4 DEF Judge, JudgeStatic
<1>5. CASE c.expectation = "accept" /\ c.target = Simulate
  BY <1>5 DEF Judge, JudgeRun, MarkerReason
<1> QED
  BY <1>1, <1>2, <1>3, <1>4, <1>5 DEF Expectations


\* Observations that follow a plan the case was given.
LEMMA ObservedShape ==
  ASSUME NEW c \in Cases, NEW p \in Profiles, NEW obs, obs # <<>>,
         PlanValid(c, p), Follows(obs, PlanFor(c, p))
  PROVE  /\ obs \in Seq(Observations) /\ Len(obs) \in {1, 2}
         /\ \A i \in 1..Len(obs) : obs[i] \in Observations
         /\ c.target # Simulate => Len(obs) = 1 /\ obs[1].through >= c.target
<1> DEFINE stages == PlanFor(c, p)
<1>1. stages \in Seq(Stages) /\ Len(stages) <= 2 /\ Len(stages) \in Nat
      /\ (c.target # Simulate => Len(stages) <= 1)
  BY PlanShape, LenProperties
<1>2. obs \in Seq(Observations) /\ Len(obs) \in Nat \ {0} /\ Len(obs) <= Len(stages)
  BY EmptySeq DEF Follows
<1>3. ASSUME c.target # Simulate
      PROVE  obs[1].through >= c.target
  <2>1. Reaching(stages, c.target) # {} /\ 1..Len(stages) \subseteq {1}
    BY <1>1, <1>3 DEF PlanValid
  <2>2. stages[1].through >= c.target
    BY <2>1 DEF Reaching, PhaseReaches
  <2> QED
    BY <2>2, <1>2 DEF Follows
<1> QED
  <2> DEFINE m == Len(obs)
             n == Len(stages)
  <2>0. /\ m \in Nat \ {0} /\ n \in Nat /\ m <= n /\ n <= 2
        /\ c.target # Simulate => n <= 1
    BY <1>1, <1>2
  <2> HIDE DEF m, n
  <2>1. m \in {1, 2}
    BY <2>0
  <2>2. \A i \in 1..Len(obs) : obs[i] \in Observations
    BY <1>2, ElementOfSeq
  <2>3. c.target # Simulate => m = 1
    BY <2>0
  <2> QED
    BY <1>2, <1>3, <2>1, <2>2, <2>3 DEF m

\* Each file the target needs was there.
Complete(c, obs) ==
  \A i \in 1..Len(obs) : obs[i].artifact = "absent" =>
    obs[i].exit # 0 \/ (c.target # Simulate /\ obs[i].through > c.target)

\* The reference asks for evidence first.
LEMMA ReferenceNeeds ==
  ASSUME NEW c, NEW obs, Reference(c, obs)
  PROVE  /\ Whole(obs) /\ Complete(c, obs)
         /\ \E i \in 1..Len(obs) : obs[i].through >= c.target
BY DEF Reference, Whole, Clean, Complete

\* The judgment of what was observed is the reference's.
LEMMA JudgedAsStated ==
  ASSUME NEW c \in Cases, NEW p \in Profiles, NEW obs, obs # <<>>,
         PlanValid(c, p), Follows(obs, PlanFor(c, p))
  PROVE  LET v == Verdict(c, obs) IN
         /\ v.status = "conforming" <=> Reference(c, obs)
         /\ v.status = "nonconforming" =>
              /\ Whole(obs)
              /\ v.reason = "unexpected-reject" =>
                   \A i \in 1..Len(obs) : obs[i].through <= c.target
         /\ InReasons(v)
         /\ v.status = "conforming" => Reaching(obs, c.target) # {}
         /\ v.status \notin {"unsupported-capability", "unsupported-revision",
                             "not-applicable"}
<1> DEFINE v == Verdict(c, obs)
           f == OperationalFailure(obs)
           R == Reaching(obs, c.target)
           lacks == \E i \in 1..Len(obs) : LacksArtifact(c, obs[i])
<1>1. /\ obs \in Seq(Observations) /\ Len(obs) \in {1, 2}
      /\ \A i \in 1..Len(obs) : obs[i] \in Observations
      /\ c.target # Simulate => Len(obs) = 1 /\ obs[1].through >= c.target
  BY ObservedShape
<1>2. /\ f = NoResult <=> Whole(obs)
      /\ f # NoResult =>
           /\ InReasons(f)
           /\ f.status \in {"skipped-unavailable", "harness-error", "inconclusive"}
  BY <1>1, OperationalFailures
<1>3. Reference(c, obs) => Whole(obs)
  BY ReferenceNeeds
<1>4. /\ c.target \in {0, 1, 2, 3} /\ Simulate = 3
      /\ \A i \in 1..Len(obs) : obs[i].through \in {0, 1, 2, 3}
  BY <1>1 DEF Cases, Observations, Phases, Preprocess, Simulate
<1>5. R = {i \in 1..Len(obs) : obs[i].through >= c.target}
  BY DEF Reaching, PhaseReaches
<1>6. CASE f # NoResult
  <2>1. v = f
    BY <1>6 DEF Verdict
  <2> QED
    BY <2>1, <1>2, <1>3, <1>6
<1>7. CASE f = NoResult /\ lacks
  <2>1. v = Result("nonconforming", "missing-artifact")
    BY <1>7 DEF Verdict
  <2>2. PICK i \in 1..Len(obs) : LacksArtifact(c, obs[i])
    BY <1>7
  <2>3. obs[i].artifact = "absent" /\ obs[i].exit = 0
        /\ (c.target = Simulate \/ obs[i].through = c.target)
    BY <2>2 DEF LacksArtifact
  <2>4. ~Reference(c, obs)
    <3>1. ~(obs[i].through > c.target) \/ c.target = Simulate
      BY <2>3, <1>4
    <3> QED
      BY <2>3, <3>1, ReferenceNeeds DEF Complete
  <2> QED
    BY <2>1, <2>4, <1>2, <1>7 DEF Result, InReasons, Reasons
<1>8. CASE f = NoResult /\ ~lacks /\ R = {}
  <2>1. v = Result("nonconforming", "unexpected-reject")
    BY <1>8 DEF Verdict
  <2>2. ~\E i \in 1..Len(obs) : obs[i].through >= c.target
    BY <1>5, <1>8
  <2>3. ~Reference(c, obs)
    BY <2>2, ReferenceNeeds
  <2>4. \A i \in 1..Len(obs) : obs[i].through <= c.target
    BY <2>2, <1>4
  <2> QED
    BY <2>1, <2>3, <2>4, <1>2, <1>8 DEF Result, InReasons, Reasons
<1>9. CASE f = NoResult /\ ~lacks /\ R # {}
  <2> DEFINE t == First(R)
  <2>1. t \in R /\ \A j \in R : t <= j
    BY <1>1, <1>5, <1>9, FirstOf
  <2>2. t = CHOOSE i \in 1..Len(obs) :
              /\ obs[i].through >= c.target
              /\ \A j \in 1..i - 1 : obs[j].through < c.target
    <3>1. ASSUME NEW i \in 1..Len(obs)
          PROVE  i = t <=> /\ obs[i].through >= c.target
                           /\ \A j \in 1..i - 1 : obs[j].through < c.target
      <4>1. t \in 1..Len(obs) /\ obs[t].through >= c.target
        BY <2>1, <1>5
      <4>2. \A j \in 1..t - 1 : obs[j].through < c.target
        <5>1. \A j \in 1..t - 1 : j \in 1..Len(obs) /\ ~(t <= j)
          BY <4>1, <1>1
        <5>2. \A j \in 1..t - 1 : j \notin R
          BY <5>1, <2>1
        <5> QED
          BY <5>1, <5>2, <1>4, <1>5
      <4>3. ASSUME obs[i].through >= c.target,
                   \A j \in 1..i - 1 : obs[j].through < c.target
            PROVE  i = t
        <5>1. t <= i
          BY <4>3, <2>1, <1>5
        <5>2. t \notin 1..i - 1
          BY <4>1, <4>3, <1>4
        <5> QED
          BY <5>1, <5>2, <4>1, <1>1
      <4> QED
        BY <4>1, <4>2, <4>3
    <3> QED
      BY <3>1, <2>1, <1>5
  <2>3. v = Judge(c, obs[t])
    BY <1>9 DEF Verdict
  <2>4. Complete(c, obs)
    BY <1>9, <1>1, <1>4 DEF LacksArtifact, Complete
  <2>5. \E i \in 1..Len(obs) : obs[i].through >= c.target
    BY <1>5, <1>9
  <2>6. Reference(c, obs) <=> Met(c, obs[t])
    BY <2>2, <2>4, <2>5, <1>2, <1>9 DEF Reference, Whole, Clean, Complete, Met, Targeted
  <2>7. v.reason = "unexpected-reject" =>
          \A i \in 1..Len(obs) : obs[i].through <= c.target
    <3> SUFFICES ASSUME v.reason = "unexpected-reject"
                 PROVE  \A i \in 1..Len(obs) : obs[i].through <= c.target
      OBVIOUS
    <3>1. c.target # Simulate /\ obs[t].through = c.target
      BY <2>3, JudgeDecides
    <3>2. Len(obs) = 1 /\ t = 1
      <4>1. Len(obs) = 1
        BY <3>1, <1>1
      <4>2. t \in 1..Len(obs)
        BY <2>1, <1>5
      <4> QED
        BY <4>1, <4>2
    <3> QED
      BY <3>1, <3>2, <1>4
  <2> QED
    BY <2>3, <2>6, <2>7, <1>2, <1>9, JudgeDecides DEF Judgments
<1> QED
  BY <1>6, <1>7, <1>8, <1>9


-----------------------------------------------------------------------------
(* The inductive invariant. *)

LEMMA CaseInitKeeps == CaseInit => CaseInv
BY DEF CaseInit, CaseInv

\* What one stage leaves behind is an observation of that stage.
LEMMA ObservationOf ==
  ASSUME NEW p \in Profiles, NEW stage \in Stages, NEW raw \in RawResults,
         NEW out \in Outputs, NEW artifact \in BOOLEAN
  PROVE  LET o == Observation(stage, Classify(p, raw), out, artifact) IN
         o \in Observations /\ o.kind = stage.kind /\ o.through = stage.through
<1> DEFINE code == Classify(p, raw)
<1>1. raw.outcome \in Outcomes /\ raw.exit \in Nat \cup {NoExit}
  BY CaseExecutionAssumption DEF RawResults, Outcomes
<1>2. code.outcome \in Outcomes /\ code.exit \in Nat \cup {NoExit}
  BY <1>1 DEF Classify, ClassifyContainer, Outcomes
<1>3. /\ out.diagnostics \in SUBSET DiagnosticKinds /\ out.markers \in Nat
      /\ out.internal \in BOOLEAN /\ out.truncated \in BOOLEAN
  BY CaseExecutionAssumption DEF Outputs
<1>4. stage.kind \in {"compile", "run"} /\ stage.through \in Phases
  BY DEF Stages
<1> HIDE DEF code
<1>5. /\ Observation(stage, code, out, artifact) \in Observations
      /\ Observation(stage, code, out, artifact).kind = stage.kind
      /\ Observation(stage, code, out, artifact).through = stage.through
  BY <1>2, <1>3, <1>4 DEF Observation, Observations
<1> QED
  BY <1>5 DEF code

\* One more observation follows the plan one stage further.
LEMMA FollowsFurther ==
  ASSUME NEW stages \in Seq(Stages), NEW obs, Follows(obs, stages),
         Len(obs) < Len(stages), NEW o \in Observations,
         o.kind = stages[Len(obs) + 1].kind, o.through = stages[Len(obs) + 1].through
  PROVE  /\ Follows(Append(obs, o), stages)
         /\ Len(Append(obs, o)) = Len(obs) + 1 /\ Append(obs, o) # <<>>
<1>1. obs \in Seq(Observations) /\ Len(obs) \in Nat /\ Len(stages) \in Nat
  BY LenProperties DEF Follows
<1>2. /\ Append(obs, o) \in Seq(Observations) /\ Len(Append(obs, o)) = Len(obs) + 1
      /\ \A i \in 1..Len(obs) : Append(obs, o)[i] = obs[i]
      /\ Append(obs, o)[Len(obs) + 1] = o
  BY <1>1
<1>3. \A i \in 1..Len(obs) + 1 : i \in 1..Len(obs) \/ i = Len(obs) + 1
  BY <1>1
<1> QED
  BY <1>1, <1>2, <1>3, EmptySeq DEF Follows

\* Each step of a case keeps the invariant.
LEMMA CaseNextKeeps ==
  ASSUME CaseInv, [CaseNext]_caseVars
  PROVE  CaseInv'
<1> USE DEF CaseInv
<1>1. CASE Dispose
  BY <1>1 DEF Dispose, Unobserved, Planned
<1>2. CASE SkipUnavailable
  BY <1>2 DEF SkipUnavailable, Unobserved, Planned
<1>3. CASE BuildPlan
  <2>1. CASE PlanValid(case, profile)
    <3>1. /\ plan' = PlanFor(case, profile) /\ pc' = "execute" /\ observations' = <<>>
          /\ UNCHANGED <<case, profile, available>>
          /\ Structural(case, profile) = NoResult
      BY <1>3, <2>1 DEF BuildPlan
    <3>2. PlanFor(case, profile) \in Seq(Stages) /\ PlanFor(case, profile) # <<>>
      BY <2>1, PlanShape DEF PlanValid
    <3>3. /\ Follows(<<>>, PlanFor(case, profile))
          /\ Len(<<>>) < Len(PlanFor(case, profile))
      BY <3>2, EmptySeq DEF Follows
    <3> QED
      BY <2>1, <3>1, <3>3 DEF Planned
  <2>2. CASE ~PlanValid(case, profile)
    BY <1>3, <2>2 DEF BuildPlan, Unobserved
  <2> QED
    BY <2>1, <2>2
<1>4. ASSUME NEW raw \in RawResults, NEW out \in Outputs, NEW artifact \in BOOLEAN,
             RunStage(raw, out, artifact)
      PROVE  CaseInv'
  <2> DEFINE stage == plan[Len(observations) + 1]
             o == Observation(stage, Classify(profile, raw), out, artifact)
  <2>1. /\ Planned /\ plan = PlanFor(case, profile) /\ Follows(observations, plan)
        /\ Len(observations) < Len(plan) /\ plan \in Seq(Stages)
    BY <1>4, PlanShape DEF RunStage
  <2>2. Len(observations) \in Nat /\ Len(plan) \in Nat
    BY <2>1, LenProperties DEF Follows
  <2>3. stage \in Stages
    BY <2>1, <2>2, ElementOfSeq
  <2>4. o \in Observations /\ o.kind = stage.kind /\ o.through = stage.through
    BY <2>3, ObservationOf
  <2>5. /\ observations' = Append(observations, o)
        /\ pc' = IF Continues(o) /\ Len(observations) + 1 < Len(plan)
                 THEN "execute" ELSE "evaluate"
        /\ UNCHANGED <<case, profile, available, plan, result>>
    BY <1>4 DEF RunStage
  <2> HIDE DEF o
  <2>6. /\ Follows(observations', plan) /\ observations' # <<>>
        /\ Len(observations') = Len(observations) + 1
    BY <2>1, <2>4, <2>5, FollowsFurther
  <2> QED
    BY <2>1, <2>5, <2>6 DEF Planned
<1>5. CASE Rejected
  BY <1>5 DEF Rejected, Unobserved
<1>6. CASE Cancelled
  BY <1>6 DEF Cancelled
<1>7. CASE Evaluate
  BY <1>7 DEF Evaluate, Planned
<1>8. CASE UNCHANGED caseVars
  BY <1>8 DEF caseVars, Planned, Unobserved
<1> QED
  BY <1>1, <1>2, <1>3, <1>4, <1>5, <1>6, <1>7, <1>8 DEF CaseNext

LEMMA CaseInvHolds == CaseSpec => []CaseInv
BY CaseInitKeeps, CaseNextKeeps, PTL DEF CaseSpec

-----------------------------------------------------------------------------
(* Theorems about a case. *)

\* What a result without observations says.
LEMMA UnobservedSays ==
  ASSUME Unobserved
  PROVE  /\ InReasons(result)
         /\ result.status \notin {"conforming", "nonconforming", "inconclusive"}
         /\ result # InvalidPlan => Verifies(case, profile, <<>>, result)
<1> USE DEF Result, InvalidPlan, NoResult, InReasons, Reasons
<1>1. CASE result = Structural(case, profile) /\ result # NoResult
  <2>1. result \in {Result("unsupported-capability", "unsupported-phase"),
                    Result("not-applicable", "not-applicable"),
                    Result("unsupported-revision", "unsupported-revision")}
    BY <1>1 DEF Structural
  <2>2. Verifies(case, profile, <<>>, result)
    BY <1>1 DEF Verifies
  <2> QED
    BY <2>1, <2>2
<1>2. CASE result = Result("skipped-unavailable", "tool-unavailable")
           /\ Structural(case, profile) = NoResult /\ IsWrapped(profile)
  BY <1>2 DEF Verifies
<1>3. CASE result = InvalidPlan
  BY <1>3
<1> QED
  BY <1>1, <1>2, <1>3 DEF Unobserved

\* For every profile, case, exit code and output: a case that was observed is
\* reported as conforming exactly when the oracle of docs/methodology.md:34-47
\* is met, although evaluate decides it by exclusion and in another order.
THEOREM ConformanceIsTheOracle == CaseSpec => []ConformingIffOracleMet
<1>1. CaseInv => ConformingIffOracleMet
  BY JudgedAsStated DEF CaseInv, Planned, ConformingIffOracleMet, Recorded
<1> QED
  BY <1>1, CaseInvHolds, PTL

\* For every profile, case, exit code and output: a tool is blamed only when
\* every stage ended by itself with all its output, and of a command for a
\* later phase never for a rejection.
THEOREM BlameNeedsEvidence == CaseSpec => []BlamedOnlyOnCompleteEvidence
<1>1. CaseInv => BlamedOnlyOnCompleteEvidence
  <2> SUFFICES ASSUME CaseInv, Recorded, result.status = "nonconforming"
               PROVE  /\ Whole(observations)
                      /\ result.reason = "unexpected-reject" =>
                           \A i \in 1..Len(observations) :
                             observations[i].through <= case.target
    BY DEF BlamedOnlyOnCompleteEvidence, Whole, Clean
  <2>1. ~(observations = <<>> /\ Unobserved)
    BY UnobservedSays
  <2> QED
    BY <2>1, JudgedAsStated DEF CaseInv, Planned, Recorded
<1> QED
  BY <1>1, CaseInvHolds, PTL

\* For every profile, case, exit code and output: what a run records passes the
\* model's own coherence check, and the exporter and the publisher, who build
\* the plan and the judgment again from the record, agree with it.
THEOREM RecordsVerify == CaseSpec => []RecordedResultVerifies
<1>1. CaseInv => RecordedResultVerifies
  <2> SUFFICES ASSUME CaseInv, Recorded
               PROVE  /\ Coherent(case, observations, result)
                      /\ result # InvalidPlan =>
                           Verifies(case, profile, observations, result)
    BY DEF RecordedResultVerifies
  <2>1. CASE observations = <<>> /\ Unobserved
    BY <2>1, UnobservedSays DEF Coherent, InReasons
  <2>2. CASE /\ observations # <<>> /\ Planned
             /\ Follows(observations, PlanFor(case, profile))
             /\ result = Verdict(case, observations)
    <3> DEFINE stages == PlanFor(case, profile)
               n == Len(observations)
    <3>1. Coherent(case, observations, result)
      BY <2>2, JudgedAsStated DEF CaseInv, Planned, Coherent, InReasons
    <3>2. /\ n \in Nat /\ Len(stages) \in Nat /\ n <= Len(stages)
          /\ \A i \in 1..n : observations[i].kind = stages[i].kind
                           /\ observations[i].through = stages[i].through
      BY <2>2, PlanShape, LenProperties DEF CaseInv, Follows
    <3>3. Provenance(observations) = SubSeq(Provenance(stages), 1, n)
      BY <3>2 DEF Provenance
    <3> QED
      BY <2>2, <3>1, <3>2, <3>3 DEF Planned, Verifies
  <2> QED
    BY <2>1, <2>2 DEF CaseInv, Recorded
<1> QED
  BY <1>1, CaseInvHolds, PTL

=============================================================================
