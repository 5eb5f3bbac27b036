---------------------------- MODULE CampaignRun -----------------------------
(***************************************************************************)
(* campaign.run_campaign: the main thread submits every prepared tool and  *)
(* selected case to one ThreadPoolExecutor, collects the futures as they   *)
(* complete, and either saves one campaign or cancels, drains and raises.  *)
(*                                                                         *)
(* A work item is <<t, c>>: the t-th prepared tool/profile, the c-th       *)
(* selected case.  Items are submitted case by case; the recorded results  *)
(* are ordered tool by tool.  A case's execution is told apart only where  *)
(* it meets cancel_event: at its beginning, before each of its tools is    *)
(* started, and while one runs.  ProcessRun and CaseExecution open it.     *)
(***************************************************************************)
EXTENDS Integers, Sequences, FiniteSets

CONSTANTS
  NTools, NCases,  \* prepared tools and selected cases
  Jobs, Cpus,      \* --jobs (0: automatic) and the CPUs the process may use
  Judged,          \* statuses that are verdicts
  Incomplete,      \* harness-error and skipped-unavailable
  MaxStages,       \* bound: stages of a case's plan
  MayInterrupt     \* KeyboardInterrupt reaches the main thread

ASSUME CampaignRunAssumption ==
  /\ NTools \in Nat \ {0} /\ NCases \in Nat \ {0}
  /\ Jobs \in Nat /\ Cpus \in Nat /\ MayInterrupt \in BOOLEAN
  /\ MaxStages \in Nat /\ Judged \cap Incomplete = {}

VARIABLES
  main,       \* where the main thread is
  submitted,  \* work items submitted so far
  cancelAt,   \* next future the cancellation loop looks at
  future,     \* per item: state of its future
  value,      \* per item: the status its future holds
  worker,     \* per worker: the item it has, or Idle
  place,      \* per worker: where in _run_campaign_case it is
  left,       \* per worker: stages its plan has left
  late,       \* history: tools it has started since the event was set
  window,     \* history: workers between check and start at that moment
  cancelSet,  \* cancel_event
  collected,  \* indexed_results: items in order of completion
  unhandled,  \* history: an interrupt came where no handler is left
  record      \* results saved, in recorded order, with the complete flag

inside == <<place, left, late, window>>
pool == <<future, value, worker, inside>>
vars == <<main, submitted, cancelAt, pool, cancelSet, collected, unhandled,
          record>>

Total == NTools * NCases
Items == (0..NTools - 1) \X (0..NCases - 1)
Statuses == Judged \cup Incomplete
Idle == <<>>
NoStatus == "none"
NoRecord == [results |-> <<>>, complete |-> FALSE]

\* The k-th item submitted, and the index its result is stored under.
WorkItem(k) == <<k % NTools, k \div NTools>>
ResultIndex(item) == item[1] * NCases + item[2]

\* _worker_count
WorkerCount ==
  LET offered == IF Jobs > 0 THEN Jobs ELSE Cpus
      atLeastOne == IF offered < 1 THEN 1 ELSE offered
  IN  IF atLeastOne < Total THEN atLeastOne ELSE Total
Workers == 1..WorkerCount

Init ==
  /\ main = "submit" /\ submitted = 0 /\ cancelAt = 0
  /\ future = [i \in Items |-> "none"] /\ value = [i \in Items |-> NoStatus]
  /\ worker = [w \in Workers |-> Idle]
  /\ place = [w \in Workers |-> "entry"] /\ left = [w \in Workers |-> 0]
  /\ late = [w \in Workers |-> 0] /\ window = {}
  /\ cancelSet = FALSE /\ collected = <<>> /\ unhandled = FALSE
  /\ record = NoRecord

-----------------------------------------------------------------------------
(* The main thread. *)

Submit ==
  /\ main = "submit"
  /\ future' = [future EXCEPT ![WorkItem(submitted)] = "pending"]
  /\ submitted' = submitted + 1
  /\ main' = IF submitted + 1 = Total THEN "collect" ELSE "submit"
  /\ UNCHANGED <<cancelAt, value, worker, inside, cancelSet, collected,
                 unhandled, record>>

\* submit raises (no thread can be started): the list of futures was never
\* bound, so the cancellation loop has nothing to look at.
SubmitFails ==
  /\ main = "submit"
  /\ main' = "cancel" /\ cancelAt' = Total
  /\ UNCHANGED <<submitted, pool, cancelSet, collected, unhandled, record>>

Collected == {collected[n] : n \in 1..Len(collected)}
Completed == {i \in Items : future[i] \in {"result", "error", "stopped",
                                           "cancelled"}} \ Collected

\* as_completed yields a finished future; its result is kept and progress is
\* reported, which may raise as well.
Collect(i, progressRaises) ==
  /\ main = "collect" /\ i \in Completed /\ future[i] = "result"
  /\ collected' = Append(collected, i)
  /\ main' = IF progressRaises THEN "cancel"
             ELSE IF Items \subseteq Collected \cup {i} THEN "save" ELSE "collect"
  /\ UNCHANGED <<submitted, cancelAt, pool, cancelSet, unhandled, record>>

\* Mutant of CollectError: the worker's exception is swallowed.
CollectErrorSwallowed(i) ==
  /\ main = "collect" /\ i \in Completed /\ future[i] # "result"
  /\ collected' = Append(collected, i)
  /\ main' = IF Items \subseteq Collected \cup {i} THEN "save" ELSE "collect"
  /\ UNCHANGED <<submitted, cancelAt, pool, cancelSet, unhandled, record>>

\* future.result() re-raises what the worker raised.
CollectError(i) ==
  /\ main = "collect" /\ i \in Completed /\ future[i] # "result"
  /\ main' = "cancel"
  /\ UNCHANGED <<submitted, cancelAt, pool, cancelSet, collected, unhandled,
                 record>>

SetCancel ==
  /\ main = "cancel"
  /\ cancelSet' = TRUE /\ main' = "cancelling"
  /\ window' = {w \in Workers : place[w] = "checked"}
  /\ UNCHANGED <<submitted, cancelAt, future, value, worker, place, left,
                 late, collected, unhandled, record>>

CancelFuture ==
  /\ main = "cancelling" /\ cancelAt < Total
  /\ LET i == WorkItem(cancelAt) IN
       future' = IF future[i] = "pending"
                 THEN [future EXCEPT ![i] = "cancelled"] ELSE future
  /\ cancelAt' = cancelAt + 1
  /\ UNCHANGED <<main, submitted, value, worker, inside, cancelSet,
                 collected, unhandled, record>>

\* shutdown(cancel_futures=True) empties the queue, then joins the workers.
ShutdownQueue ==
  /\ main = "cancelling" /\ cancelAt = Total
  /\ future' = [i \in Items |-> IF future[i] = "pending" THEN "cancelled"
                                ELSE future[i]]
  /\ main' = "joining"
  /\ UNCHANGED <<submitted, cancelAt, value, worker, inside, cancelSet,
                 collected, unhandled, record>>

\* Mutant of ShutdownJoin: shutdown(wait=False).
ShutdownNoWait ==
  /\ main = "joining" /\ main' = "raised"
  /\ UNCHANGED <<submitted, cancelAt, pool, cancelSet, collected, unhandled,
                 record>>

ShutdownJoin ==
  /\ main = "joining" /\ \A w \in Workers : worker[w] = Idle
  /\ main' = "raised"
  /\ UNCHANGED <<submitted, cancelAt, pool, cancelSet, collected, unhandled,
                 record>>

\* Mutant of Sorted: the results keep their order of completion.
Unsorted(s) == s

\* results = [result for _, result in sorted(indexed_results)]
Sorted(s) ==
  [n \in 1..Len(s) |->
     CHOOSE i \in {s[m] : m \in 1..Len(s)} :
       Cardinality({m \in 1..Len(s) : ResultIndex(s[m]) < ResultIndex(i)})
         = n - 1]

Save ==
  /\ main = "save" /\ \A w \in Workers : worker[w] = Idle
  /\ LET order == Sorted(collected) IN
       record' = [results |-> [n \in 1..Len(order) |->
                                 <<order[n], value[order[n]]>>],
                  complete |-> \A n \in 1..Len(order) :
                                 value[order[n]] \notin Incomplete]
  /\ main' = "saved"
  /\ UNCHANGED <<submitted, cancelAt, pool, cancelSet, collected, unhandled>>

\* Validation of the record or save_campaign raises.
SaveFails ==
  /\ main = "save" /\ \A w \in Workers : worker[w] = Idle
  /\ main' = "raised"
  /\ UNCHANGED <<submitted, cancelAt, pool, cancelSet, collected, unhandled,
                 record>>

\* KeyboardInterrupt: inside the try it cancels; the list of futures exists
\* only once every item is submitted.  In the handler or after the try nothing
\* catches it, and the workers are left as they are.
Interrupt ==
  /\ MayInterrupt
  /\ \/ main = "submit" /\ main' = "cancel" /\ cancelAt' = Total
     \/ main = "collect" /\ main' = "cancel" /\ UNCHANGED cancelAt
  /\ UNCHANGED <<submitted, pool, cancelSet, collected, unhandled, record>>

InterruptHandler ==
  /\ MayInterrupt /\ main \in {"cancel", "cancelling", "joining", "save"}
  /\ main' = "raised" /\ unhandled' = TRUE
  /\ UNCHANGED <<submitted, cancelAt, pool, cancelSet, collected, record>>

Main ==
  \/ Submit \/ SubmitFails \/ SetCancel \/ CancelFuture
  \/ ShutdownQueue \/ ShutdownJoin \/ Save \/ SaveFails
  \/ \E i \in Items : CollectError(i) \/ \E r \in BOOLEAN : Collect(i, r)

-----------------------------------------------------------------------------
(* The workers. *)

\* The queue is first in, first out; a cancelled future is dropped from it.
Next1stPending(i) ==
  \E k \in 0..submitted - 1 :
    /\ i = WorkItem(k) /\ future[i] = "pending"
    /\ \A j \in 0..k - 1 : future[WorkItem(j)] # "pending"

Take(w, i) ==
  /\ worker[w] = Idle /\ Next1stPending(i)
  /\ worker' = [worker EXCEPT ![w] = i]
  /\ future' = [future EXCEPT ![i] = "running"]
  /\ UNCHANGED <<main, submitted, cancelAt, value, inside, cancelSet,
                 collected, unhandled, record>>

\* _run_campaign_case looks at the event first, then finds the plan of the
\* case: with no stage when the profile cannot run it or nothing is installed.
Enter(w, stages) ==
  /\ worker[w] # Idle /\ place[w] = "entry" /\ ~cancelSet
  /\ place' = [place EXCEPT ![w] = "case"]
  /\ left' = [left EXCEPT ![w] = stages]
  /\ UNCHANGED <<main, submitted, cancelAt, future, value, worker, late,
                 window, cancelSet, collected, unhandled, record>>

\* Mutant of CheckStage: run_process does not look at the event.
CheckStageSkipped(w) ==
  /\ place[w] = "case" /\ left[w] > 0
  /\ place' = [place EXCEPT ![w] = "checked"]
  /\ UNCHANGED <<main, submitted, cancelAt, future, value, worker, left, late,
                 window, cancelSet, collected, unhandled, record>>

\* run_process looks at the event before it starts a stage's tool ...
CheckStage(w) ==
  /\ place[w] = "case" /\ left[w] > 0 /\ ~cancelSet
  /\ place' = [place EXCEPT ![w] = "checked"]
  /\ UNCHANGED <<main, submitted, cancelAt, future, value, worker, left, late,
                 window, cancelSet, collected, unhandled, record>>

\* ... and starts it, whatever has become of the event meanwhile.
StartTool(w) ==
  /\ place[w] = "checked"
  /\ place' = [place EXCEPT ![w] = "tool"]
  /\ late' = [late EXCEPT ![w] = IF cancelSet THEN @ + 1 ELSE @]
  /\ UNCHANGED <<main, submitted, cancelAt, future, value, worker, left,
                 window, cancelSet, collected, unhandled, record>>

\* Popen raises OSError: the observation is a launch failure, the last one.
LaunchFails(w) ==
  /\ place[w] = "checked"
  /\ place' = [place EXCEPT ![w] = "case"] /\ left' = [left EXCEPT ![w] = 0]
  /\ UNCHANGED <<main, submitted, cancelAt, future, value, worker, late,
                 window, cancelSet, collected, unhandled, record>>

\* run_process returns; execute_plan goes on only after a stage that completed.
EndTool(w, completed) ==
  /\ place[w] = "tool"
  /\ place' = [place EXCEPT ![w] = "case"]
  /\ left' = [left EXCEPT ![w] = IF completed THEN @ - 1 ELSE 0]
  /\ UNCHANGED <<main, submitted, cancelAt, future, value, worker, late,
                 window, cancelSet, collected, unhandled, record>>

Leave(w, state, status) ==
  /\ future' = [future EXCEPT ![worker[w]] = state]
  /\ value' = [value EXCEPT ![worker[w]] = status]
  /\ worker' = [worker EXCEPT ![w] = Idle]
  /\ place' = [place EXCEPT ![w] = "entry"] /\ left' = [left EXCEPT ![w] = 0]
  /\ UNCHANGED <<main, submitted, cancelAt, late, window, cancelSet, collected,
                 unhandled, record>>

\* The observations are evaluated, or an error ended the plan early.
Finish(w, status) ==
  /\ place[w] = "case" /\ (left[w] = 0 \/ status \in Incomplete)
  /\ Leave(w, "result", status)

\* An OSError or AdapterError is not turned into a harness-error result.
Fail(w) == place[w] \in {"case", "tool"} /\ Leave(w, "error", NoStatus)

\* ProcessCancelled: at the first check, at a stage's, or while a tool runs.
Stop(w) ==
  /\ worker[w] # Idle /\ cancelSet
  /\ \/ place[w] \in {"entry", "tool"}
     \/ place[w] = "case" /\ left[w] > 0
  /\ Leave(w, "stopped", NoStatus)

Worker(w) ==
  \/ \E i \in Items : Take(w, i)
  \/ \E n \in 0..MaxStages : Enter(w, n)
  \/ CheckStage(w) \/ StartTool(w) \/ LaunchFails(w)
  \/ \E b \in BOOLEAN : EndTool(w, b)
  \/ Fail(w) \/ Stop(w)
  \/ \E s \in Statuses : Finish(w, s)

Next == Main \/ Interrupt \/ InterruptHandler \/ \E w \in Workers : Worker(w)

Spec == Init /\ [][Next]_vars

\* Threads are scheduled and every execution of a case ends, which ProcessRun
\* shows of its processes unless one leaves the group (EndsUnlessHeld).
FairSpec ==
  Spec /\ WF_vars(Main) /\ \A w \in Workers : WF_vars(Worker(w))

-----------------------------------------------------------------------------
(* Properties. *)

Mains == {"submit", "collect", "cancel", "cancelling", "joining", "save",
          "saved", "raised"}
FutureStates == {"none", "pending", "running", "result", "error", "stopped",
                 "cancelled"}

\* Every variable of run_campaign and its pool has its type.
TypeOK ==
  /\ main \in Mains /\ submitted \in 0..Total /\ cancelAt \in 0..Total
  /\ future \in [Items -> FutureStates]
  /\ value \in [Items -> Statuses \cup {NoStatus}]
  /\ worker \in [Workers -> Items \cup {Idle}]
  /\ place \in [Workers -> {"entry", "case", "checked", "tool"}]
  /\ left \in [Workers -> 0..MaxStages] /\ late \in [Workers -> Nat]
  /\ window \subseteq Workers
  /\ cancelSet \in BOOLEAN /\ collected \in Seq(Items)
  /\ unhandled \in BOOLEAN
  /\ record.complete \in BOOLEAN

\* A campaign is recorded only if no case raised, none was cancelled, and
\* every future's own result went into it once.
RecordOnlyWhenAllFinished ==
  main = "saved" =>
    /\ ~cancelSet
    /\ \A i \in Items : future[i] = "result" /\ i \in Collected
    /\ \A m, n \in 1..Len(collected) : collected[m] = collected[n] => m = n

\* When run_campaign returns or raises no case is executing and none is left
\* to start, unless an interrupt hit the handler itself.
QuietWhenOver ==
  main \in {"saved", "raised"} /\ ~unhandled =>
    /\ \A w \in Workers : worker[w] = Idle
    /\ \A i \in Items : future[i] # "pending"

\* The check of the event and the start of the tool are two steps, so a tool
\* may still start after the event was set; but of all the workers only those
\* that had passed the check by then start one, and never a second: neither a
\* later stage of the same case nor a case still in the queue gets a tool.
LateToolsWereChecked ==
  \A w \in Workers : late[w] <= IF w \in window THEN 1 ELSE 0

\* What the n-th recorded result says of item i: it must be i's own.
StatusAt(results, n, i) ==
  IF results[n] = <<i, value[i]>> THEN value[i] ELSE "misplaced"

Contract == INSTANCE CampaignContract WITH
  Grid <- Items,
  phase <- CASE main = "saved" -> "recorded"
             [] main = "raised" -> "abandoned"
             [] OTHER -> "running",
  record <- IF main = "saved"
            THEN [results |-> [i \in Items |->
                                 StatusAt(record.results, ResultIndex(i) + 1, i)],
                  complete |-> record.complete]
            ELSE [results |-> [k \in {} |-> {}], complete |-> FALSE]

\* The pool implements the contract: it ends with no record, or with one in
\* which the results stand tool by tool in manifest order, whatever order they
\* were completed in, each the status of its own pair, and which calls itself
\* complete exactly when none of them is a harness error or a skip.
ImplementsContract == Contract!Spec

=============================================================================
