SPECIFICATION FairSpec
CONSTANTS
  Assemblers = {"a", "b", "c"}
  Initial = "old"
  MaxFailures = 2
  MayInterrupt = TRUE
  MayCrash = TRUE
CHECK_DEADLOCK FALSE
PROPERTIES ImplementsAtomicTree EveryAssemblyEnds
