SPECIFICATION Spec
CONSTANTS
  c1 = c1
  c2 = c2
  c3 = c3
  mario = mario
  p = p
  q = q
  NoConn = NoConn
  NoId = NoId
  Conns = {c1, c2, c3}
  Raw = {mario}
  Peers = {p, q}
  Versions = {"same", "other"}
  ManyChecks = TRUE
  MaxToggles = 2
SYMMETRY Symmetry
INVARIANTS
  NoOrphan
  SlotBound
  ShownIsActive
  ReplayedOnceActive
PROPERTY SamePeerTakeover
CHECK_DEADLOCK FALSE
