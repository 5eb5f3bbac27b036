SPECIFICATION AggregationSpec
CONSTANTS
  Tools <- TwoTools
  Cases <- FiveCases
  Facts <- FiveFacts
  Supports <- FiveSupports
  Expected = {"slang", "icarus"}
  Judgments = {"conforming", "nonconforming", "harness-error"}
  Elsewhere = {"other", "stale"}
  ByHand = TRUE
  MaxCampaigns = 3
CHECK_DEADLOCK FALSE
INVARIANTS CampaignsConsistent MeasurementsKept CompleteIsComplete MetricCountsRequirements PublishingAgainAgrees
