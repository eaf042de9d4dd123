SPECIFICATION Spec
CONSTANTS
  slotA = slotA
  slotB = slotB
  slotC = slotC
  frog = frog
  jump = jump
  mm = mm
  NoSlot = NoSlot
  Slots = {slotA, slotB, slotC}
  SlotName <- MCSlotName
  Captures = {frog}
  Abilities = {jump}
  MultiMoon = mm
  BonusOf <- MCBonusOf
  Chunk = 1
  MaxItems = 2
  MaxConnects = 3
  MaxFaults = 2
  MaxEvents = 4
INVARIANTS
  MirrorExact
  BonusExact
  SwitchInSync
CHECK_DEADLOCK FALSE
