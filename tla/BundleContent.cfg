SPECIFICATION BundleSpec
CONSTANTS
  Inputs <- AllInputs
  BaseBytes = 2
  Grid <- Coordinates
  AlteredInputs <- TwoShards
  MaxAlterations = 3
CHECK_DEADLOCK FALSE
INVARIANTS
  AccountingExact ShardsBounded ShardsPartition
  ExportValidates ValidBundlesReplay OneFaultNeverMisleads
