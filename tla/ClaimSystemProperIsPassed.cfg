CONSTANTS
  KeepStart = 4
  KeepEnd = 30
  MinForced = 12
  MinPlain = 30
  MaxTurns = 3
SPECIFICATION HistorySpec
PROPERTY SystemProperIsPassed
CHECK_DEADLOCK FALSE
