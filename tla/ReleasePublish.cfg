SPECIFICATION FairSpec
CONSTANTS
  Campaigns <- TwoCampaigns
  Rank <- ByTime
  Histories <- AnyHistory
  MaxFailures = 2
  TagRace = TRUE
INVARIANT ReturnedIsExact
PROPERTIES NothingMovedOrReplaced PublishedExact ImplementsArchive EveryCampaignIsListed
