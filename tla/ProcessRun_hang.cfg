SPECIFICATION FairSpec
CONSTANTS
  Leader = leader
  Descendants = {d1}
  Streams <- OneStream
  MaxBytes <- OneByte
  ReadSize = 2
  Limit = 1
  KeepsLog = TRUE
  MayEscape = TRUE
  MayInterrupt = FALSE
  SlowDrain = FALSE
CHECK_DEADLOCK FALSE
PROPERTY CallEnds
