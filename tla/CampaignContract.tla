-------------------------- MODULE CampaignContract --------------------------
(***************************************************************************)
(* What one `svtorture run` promises: while it works nothing is recorded;  *)
(* it ends either with one record that gives every selected (tool, case)   *)
(* pair exactly one result, or with no record at all.  The record says it  *)
(* is complete exactly when no result is a harness error or a skip.        *)
(***************************************************************************)
CONSTANTS
  Grid,        \* the selected (tool/profile, case) pairs
  Judged,      \* result statuses that are verdicts
  Incomplete   \* harness-error and skipped-unavailable

VARIABLES
  phase,       \* "running", "recorded", "abandoned"
  record       \* what .svtorture/campaigns holds for this campaign

contract == <<phase, record>>

NoRecord == [results |-> [k \in {} |-> {}], complete |-> FALSE]

Init == phase = "running" /\ record = NoRecord

Record ==
  /\ phase = "running"
  /\ \E results \in [Grid -> Judged \cup Incomplete] :
       record' = [results |-> results,
                  complete |-> \A k \in Grid : results[k] \in Judged]
  /\ phase' = "recorded"

Abandon == phase = "running" /\ phase' = "abandoned" /\ UNCHANGED record

Next == Record \/ Abandon

Safety == Init /\ [][Next]_contract

Spec == Safety /\ WF_contract(Next)

=============================================================================
