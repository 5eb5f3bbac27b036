--------------------------- MODULE MCCampaignFiles ---------------------------
(***************************************************************************)
(* Two savers whose records differ, an exporter of what they save, and one *)
(* of a record kept elsewhere, which is that of the first saver.           *)
(***************************************************************************)
EXTENDS CampaignFiles

TwoSavers == {"p", "q"}
TwoRecords == [w \in TwoSavers |-> IF w = "p" THEN "one order" ELSE "another order"]
OneOther == [x \in {"other"} |-> "one order"]

=============================================================================
