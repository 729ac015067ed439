CONSTANTS
  task1 = task1
  tests1 = tests1
  added = added
  test = test
  build = build
  file = file
  Criteria <- MCCriteria
  Generated <- MCGenerated
  Checks <- MCChecks
  TestCheck = test
  CommandChecks <- MCChecks
  Required <- MCRequired
  Files <- MCFiles
  ToolStatuses <- MCToolStatuses
SPECIFICATION Spec
PROPERTY ContractSurvives
