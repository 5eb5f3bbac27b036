SPECIFICATION Spec
CONSTANTS
  Assemblers = {"a"}
  Initial = "old"
  MaxFailures = 0
  MayInterrupt = TRUE
  MayCrash = FALSE
CHECK_DEADLOCK FALSE
INVARIANT OldOrNewSurvives
