SPECIFICATION FairSpec
CONSTANTS
  Leader = leader
  Descendants = {d1}
  Streams <- TwoStreams
  MaxBytes <- ThreeAndOne
  ReadSize = 2
  Limit = 2
  KeepsLog = TRUE
  MayEscape = TRUE
  MayInterrupt = TRUE
  SlowDrain = TRUE
INVARIANTS NoGroupSurvivor OwnKillNeverReported CaptureFaithful
PROPERTY EndsUnlessHeld
CHECK_DEADLOCK FALSE
