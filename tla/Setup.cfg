SPECIFICATION SetupSpec
CONSTANTS
  Versions = {"v1", "v2", "bare"}
  Contents <- MCContents
  Parts = {"scripts", "switch_mod"}
  ScriptsPart = "scripts"
  ModPart = "switch_mod"
  None = None
  MaxBuilds = 2
  MaxSwaps = 2
  Dumps = {"good", "wrong", "damaged"}
  MaxJobs = 2
  MaxCuts = 1
  MaxLoads = 2
  MaxClicks = 4
  MaxFaults = 1
  MaxWorkers = 4
  MaxStepAttempts = 2
  Gated <- MCGated
  VanillaNeeds <- MCNeeds
  Other = Other
  Amount <- MCAmount
  Fewest <- MCFewest
  FestivalKingdom = "Metro"
  PastFestival <- MCPastFestival
  PinnedKingdom = "Ruined"
  SiteGroups <- MCSiteGroups
  RollSpread = 5
  FloorSets <- MCFloorSets
  Transfers = {1, 5}
  Addrs = {"a", "b"}
  Swept = {"a"}
  Loop = Loop
  MaxSockets = 3
  MaxMoves = 3
  Regions <- MCRegions
  Locations <- MCLocations
  Region <- MCRegion
  Prefix <- MCPrefix
  Authored <- MCAuthored
  Record <- MCRecord
  Junk = {}
  MoonRock <- MCMoonRock
  RockExtra = {}
  MoonCave = {}
  ScenarioGate <- MCScenarioGate
  ExtraGate <- MCExtraGate
  BossGate <- MCBossGate
  Subareas <- MCPool
  Members <- MCMembers
  SubareaGate <- MCGate
  FullGated = {}
  Pool <- MCPool
  StoryMoon <- MCStoryMoon
  Start = "Cascade"
  ConnectsTo <- MCConnectsTo
  RegionRequires <- MCRegionRequires
  Way <- MCWay
  Home <- MCHome
  ExitGate <- MCGate
  Kingdoms <- MCKingdoms
  Needs <- MCLeave
  PowerMoon <- MCPowerMoon
  MultiMoon <- MCMultiMoon
  Items <- MCItems
  Stock <- MCStock
  OptionSets <- MCOptionSets
  Rolls <- MCRolls
INVARIANTS
  TreeTrusted
  WatermarkFresh
  PrereqsCurrent
  PoolFillable
  PagesHonest
  PipelineHonest
  NoEarlyArrival
  GatesSurvive
  NothingLocked
  AnswerMeansListening
PROPERTIES
  DeployedFromTree
  SuccessSticks
\* The bounds on clicks, jobs, builds, items and sockets end every behaviour.
CHECK_DEADLOCK FALSE
