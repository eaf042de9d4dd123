SPECIFICATION Spec
CONSTANTS
  cap = cap
  metro = metro
  saveA = saveA
  saveB = saveB
  NoReading = NoReading
  Goals = {FALSE}
  Kingdoms = {cap}
  FESTIVAL_ZEROED_KINGDOMS = {}
  Saves = {saveA, saveB}
  RingCap = 3
  Weights = {1}
  NaturalMoons = {}
  MaxCredit = 1
  MaxDeposits = 1
  MaxFaults = 2
  MaxEvents = 3
INVARIANT OutstandingTracksPay
CHECK_DEADLOCK FALSE
