CONSTANTS
  id1 = id1
  id2 = id2
  key = key
  proc1 = proc1
  proc2 = proc2
  path1 = path1
  path2 = path2
  bytes1 = bytes1
  bytes2 = bytes2
  write1 = write1
  write2 = write2
  claim1 = claim1
  claim2 = claim2
  ev1 = ev1
  ev2 = ev2
  Null = null
  Absent = absentFile
  RowIds <- MCRowIds
  Keys <- MCKeys
  TaskFiles <- MCTaskFiles
  Focus <- MCFocus
  Processes <- MCProcesses
  MaxConnections = 2
  MaxCrashes = 2
  Paths <- MCPaths
  Bytes <- MCBytes
  Writers <- MCWriters
  Claims <- MCClaims
  Evidence <- MCEvidence
  MaxTime = 1
  StaleAfter = 0
  MaxPasses = 2
  NoMtime <- MCNoMtime
  MaxUpdates = 4
  engine1 = engine1
  engine2 = engine2
  entry1 = entry1
  entry2 = entry2
  run1 = run1
  run2 = run2
  text1 = text1
  text2 = text2
  Engines <- MCEngines
  EntryIds <- MCEntryIds
  Runs <- MCRuns
  Criteria <- MCCriteria
  RepoFiles <- MCRepoFiles
  RepoNames = {"f", "g"}
  Contents <- MCContents
  FirstContent <- MCFirstContent
  Matched <- MCMatched
  Suites <- MCSuites
  TwinOf <- MCTwinOf
  Beside <- MCBeside
  NamedIn <- MCNamedIn
  TopicsOf <- MCTopicsOf
  OwnedFiles = {"a"}
  MaxFileEdits = 2
  MaxScans = 1
SPECIFICATION StorageSpec
CHECK_DEADLOCK FALSE
INVARIANTS
  RowsSound
  TracedForGood
  LifecycleSound
  ArtifactsSound
  BeliefsSound
  GraphSound
  LedgersKeep
  RunLeavesItRight
  GraphHolds
