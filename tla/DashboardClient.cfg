SPECIFICATION FairSpec
CONSTANTS
  Site <- MCSite
  History <- MCHistory
  Signature <- MCSignature
  Opened <- MCOpened
  MaxEntries = 3
  MaxPromises = 5
  MaxTasks = 2
  MaxChoices = 2
  MaxMishaps = 2
INVARIANTS ShownIsOneExport AnswersTheChoice
PROPERTY LoadingEnds
CHECK_DEADLOCK FALSE
