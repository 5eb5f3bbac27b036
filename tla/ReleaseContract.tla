--------------------------- MODULE ReleaseContract --------------------------
(***************************************************************************)
(* What readers of the public archive are promised: a campaign's Release   *)
(* appears at once with both its files and never changes; the Pages site   *)
(* lists only such Releases, never fewer than before, and shows the latest *)
(* of them by campaign time, also after a backfill.                        *)
(***************************************************************************)
EXTENDS Naturals

CONSTANTS Campaigns,  \* campaigns
          Rank        \* their order by (finished_at, id)

VARIABLES public,     \* campaigns whose intact Release is public
          pages       \* deployed site: campaigns listed, campaign shown

archive == <<public, pages>>

Latest(S) == CHOOSE c \in S : \A d \in S : Rank[d] <= Rank[c]

Init == public \subseteq Campaigns /\ pages = [listed |-> {}, shown |-> {}]

Publish(c) ==
  c \notin public /\ public' = public \cup {c} /\ UNCHANGED pages

Deploy(S) ==
  /\ S # {} /\ pages.listed \subseteq S /\ S \subseteq public
  /\ pages' = [listed |-> S, shown |-> {Latest(S)}]
  /\ UNCHANGED public

Next ==
  \/ \E c \in Campaigns : Publish(c)
  \/ \E S \in SUBSET Campaigns : Deploy(S)

Spec == Init /\ [][Next]_archive

=============================================================================
