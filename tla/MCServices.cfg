CONSTANTS
  rpc1 = rpc1
  rpc2 = rpc2
  call1 = call1
  call2 = call2
  plugin1 = plugin1
  plugin2 = plugin2
  capability = capability
  domain1 = domain1
  domain2 = domain2
  tests = tests
  task1 = task1
  task2 = task2
  NoOne = NoOne
  RpcIds <- MCRpcIds
  NoId = NoId
  NullId = NullId
  MaxLines = 2
  MaxNoise = 1
  MaxAttempts = 2
  MaxCompletions = 2
  MaxToolCalls = 2
  KeepStart = 2
  KeepEnd = 4
  MinForced = 2
  MinPlain = 4
  MaxTurns = 3
  LocalCalls <- MCLocalCalls
  MaxResets = 1
  PluginIds <- MCPluginIds
  CapabilityIds <- MCCapabilityIds
  MaxRegistrations = 3
  Domains <- MCDomains
  Tests = tests
  MaxSelectedDomains = 2
  MaxSelectedCapabilities = 3
  MaxCalls = 2
  Budget = 5
  MaxLength = 8
  EdgeLines = 2
  Radius = 1
  MaxLogLines = 5
  MaxItems = 5
  PerFile = 4
  MaxFiles = 2
  ProbedLines = 5
  MinMatches = 3
  Layouts <- MCLayouts
  DashTasks <- MCTasks
  NoTask = NoOne
  ClassicPanels <- MCClassic
  BeliefPanels <- MCBelief
  Refreshes = {1, 2}
  MaxKeys = 3
  MaxChanges = 2
  ProviderNames = {"openrouter", "ollama"}
  DefaultName = "openrouter"
  ModeNames = {"implement", "repair"}
  SessionTasks <- MCTasks
  NoSessionTask = NoOne
  LoopIds = {1, 2}
  MaxInputs = 4
  ClaimKinds <- MCClaimKinds
  ClaimFiles <- MCClaimFiles
  GraphNodes <- MCGraphNodes
  GraphEdges <- MCGraphEdges
  ChangedFiles = {"a", "c"}
  InitialClaim = 50
  MaxPlanEvents = 3
SPECIFICATION ServicesSpec
INVARIANTS
  ServerAnswers
  CallsSettleOnce
  CallsAreOfThisResponse
  NoResponseIsHalved
  RequestIsValid
  LocalRunsAreHonest
  RegistrySound
  RoutingKeepsRecall
  ChoiceKeepsPolicy
  PermissionsHold
  NothingIsLost
  SessionHolds
  PlannerHolds
PROPERTIES
  RequestsImplemented
  LocalCallsReturn
  DashboardConverges
CHECK_DEADLOCK FALSE
