CONSTANTS
  tests1 = tests1
  test = test
  file = file
  Criteria <- MCCriteria
  Generated <- MCCriteria
  Checks <- MCChecks
  TestCheck = test
  CommandChecks <- MCChecks
  Required <- MCRequired
  Files <- MCFiles
  ToolStatuses <- MCToolStatuses
  MaxIterations = 3
  MaxErrors = 1
  MaxQuiet = 2
  MaxProbes = 1
  SharedBelief = TRUE
SPECIFICATION LoopSpec
INVARIANT GuardBlocksOnlyIdleReruns
