SPECIFICATION FairSpec
CONSTANTS
  cap = cap
  metro = metro
  saveA = saveA
  saveB = saveB
  NoReading = NoReading
  Goals = {FALSE, TRUE}
  Kingdoms = {cap}
  FESTIVAL_ZEROED_KINGDOMS = {cap}
  Saves = {saveA}
  RingCap = 1
  Weights = {1}
  NaturalMoons = {}
  MaxCredit = 1
  MaxDeposits = 2
  MaxFaults = 1
  MaxEvents = 2
INVARIANTS
  TypeOK
  QuiescentExact
  CreditNeverInvented
PROPERTY EventuallyExact
CHECK_DEADLOCK FALSE
