CONSTANTS
  tests1 = tests1
  test = test
  file = file
  Criteria <- MCCriteria
  Generated <- MCCriteria
  Checks <- MCChecks
  TestCheck = test
  CommandChecks <- MCChecks
  Required <- MCRequired
  Files <- MCNoFiles
  ToolStatuses <- MCNoStatuses
  MaxIterations = 2
  MaxErrors = 2
  MaxQuiet = 2
  MaxProbes = 1
  SharedBelief = TRUE
SPECIFICATION FairLoopSpec
PROPERTIES
  RunsEnd
  SignalsAreWritten
