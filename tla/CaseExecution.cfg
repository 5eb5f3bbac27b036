SPECIFICATION CaseSpec
CONSTANTS
  Profiles <- RegisteredProfiles
  ExitCodes <- Exits
  DiagnosticSets <- AtMostOneDiagnostic
  MaxMarkers = 2
INVARIANTS
  ConformingIffOracleMet
  BlamedOnlyOnCompleteEvidence
  RecordedResultVerifies
CHECK_DEADLOCK FALSE
