------------------------- MODULE MCDashboardClient --------------------------
(***************************************************************************)
(* Two comparable campaigns.  The second version of the site exports the   *)
(* older one anew and adds the newer one; the third has dropped the older. *)
(***************************************************************************)
EXTENDS DashboardClient, TLC

MCSite == << "old" :> 1, ("old" :> 2) @@ ("new" :> 1), "new" :> 1 >>
MCHistory == << "old", "new" >>
MCOpened ==
  { <<2, [campaign |-> None, detail |-> TRUE, comparison |-> FALSE]>> }
MCSignature == [c \in {"old", "new"} |-> "p"]
=============================================================================
