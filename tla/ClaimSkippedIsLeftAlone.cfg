CONSTANTS
  file1 = file1
  file2 = file2
  cp1 = cp1
  cp2 = cp2
  text = text
  Files <- MCFiles
  Ids <- MCIds
  Texts <- MCTexts
  MaxEdits = 2
  MaxFaults = 1
  task1 = task1
  task2 = task2
  GitFiles <- MCFiles
  GitTasks <- MCGitTasks
  MainBranch = main
  NoBranch = NoBranch
  MaxUserSteps = 1
  MaxGitRuns = 2
SPECIFICATION TreeSpec
CHECK_DEADLOCK FALSE
PROPERTY SkippedIsLeftAlone
