SPECIFICATION AccessSpec
CONSTANTS
  Regions <- MCRegions
  Locations <- MCLocations
  Region <- MCRegion
  Prefix <- MCPrefix
  Authored <- MCAuthored
  Record <- MCRecord
  Junk = {}
  MoonRock <- MCMoonRock
  RockExtra = {}
  MoonCave = {}
  ScenarioGate <- MCScenarioGate
  ExtraGate <- MCExtraGate
  BossGate <- MCBossGate
  Subareas <- MCPool
  Members <- MCMembers
  SubareaGate <- MCGate
  FullGated = {}
  Pool <- MCPool
  StoryMoon <- MCStoryMoon
  Start = "Cascade"
  ConnectsTo <- MCConnectsTo
  RegionRequires <- MCRegionRequires
  Way <- MCWay
  Home <- MCHome
  ExitGate <- MCGate
  Kingdoms <- MCKingdoms
  Needs <- MCLeave
  PowerMoon <- MCPowerMoon
  MultiMoon <- MCMultiMoon
  Items <- MCItems
  Stock <- MCStock
  OptionSets <- ShuffleOn
  Rolls <- OwnDoors
INVARIANT ExtraGatesHold
\* Generation ends with the last item.
CHECK_DEADLOCK FALSE
