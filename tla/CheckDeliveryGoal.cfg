SPECIFICATION Spec
CONSTANTS
  m1 = m1
  m2 = m2
  Moons <- TwoMoons
  Captures = {c1}
  GoalMoons <- OneGoalMoon
  SaveMoons <- OneSave
  RingCap = 1
  None = None
  LineCap = 1
  MaxReports = 2
  MaxEvents = 4
CHECK_DEADLOCK FALSE
INVARIANTS
  GoalReportedMeansSent
