SPECIFICATION FairSpec
CONSTANTS
  NTools = 2
  NCases = 2
  Jobs = 0
  Cpus = 2
  Judged = {"judged"}
  Incomplete = {"harness-error"}
  MaxStages = 2
  MayInterrupt = TRUE
INVARIANTS RecordOnlyWhenAllFinished QuietWhenOver LateToolsWereChecked
PROPERTIES ImplementsContract
CHECK_DEADLOCK FALSE
