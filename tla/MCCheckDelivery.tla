---------------------------- MODULE MCCheckDelivery ----------------------------
\* CheckDelivery for TLC: one of two moons is the goal, the other the save's.
EXTENDS CheckDelivery

CONSTANTS m1, m2

TwoMoons == {m1, m2}
OneGoalMoon == {m2}
OneSave == {{m1}}
=============================================================================
