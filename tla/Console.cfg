SPECIFICATION ConsoleSpec
CONSTANTS
  p = p
  q = q
  PoolMoons = {"a1", "a2", "b1"}
  Kingdoms = {"A", "B"}
  KingdomOf <- MCKingdomOf
  Needs <- MCNeeds
  Slots = 1
  Pushers = {p, q}
  MaxMishaps = 1
  Subareas = {1, 2, 3, 4, 5}
  Excluded = {5}
  Stageless = {4}
  Pipeless = {3}
  Chunk = 3
  Couriers = {p, q}
  NoDoor = NoDoor
  MaxUpsets = 2
  Siblings = {"Lake", "Wooded"}
  VanillaGate <- MCVanillaGate
  Capacity <- MCCapacity
  Spread = 1
  NoReading = NoReading
  MaxFlaws = 1
  Words = {"w1", "w2"}
  Vals = {"a", "b"}
  Attempts = 2
  MaxWrites = 2
  NoTable = NoTable
  MaxOutside = 1
  QueueCap = 1
  MaxDeaths = 2
  MaxKills = 2
  MaxBreaks = 1
  Shines = {"m1", "m2"}
  ShopShines = {"m1"}
  Players = {"slot1", "slot2"}
  Holds <- MCHolds
  Painters = {p, q}
  Nobody = Nobody
  Unset = Unset
  MaxTurns = 2
  Vanilla = Vanilla
  Garbled = Garbled
  MaxMoons = 3
  MaxDrops = 1
  Frames = {"Sand", "Lake"}
  Tints = {"Useful", "Lost"}
  Gold = Gold
  NoPalette = NoPalette
  MaxCoins = 3
  MaxJolts = 2
  LineCap = 3
  MaxUp = 3
  MaxDown = 2
  MaxCuts = 1
INVARIANTS
  PoolsCurrent
  NeverStuck
  RoundTrip
  GateHonest
  SnapshotCurrent
  StatusHonest
  DeathsHonest
  TablesCurrent
  LabelOwn
  PaintHolds
  CoinsOnce
  LinesExact
PROPERTY LookupsAreAtomic
SYMMETRY Alike
\* The bounds on mishaps, writes and moons end every behaviour.
CHECK_DEADLOCK FALSE
