---------------------------- MODULE MCCampaignRun ---------------------------
(* Small instances of CampaignRun: two tools, two cases, one or two workers. *)
EXTENDS CampaignRun, TLC

=============================================================================
