SPECIFICATION Spec
CONSTANTS
  NVals = 5
  NScratch = 3
  NCalleeSave = 1
  MaxRetains = 2
  MaxShared = 1
  MaxOff = 1
  NSlots = 6
INVARIANTS ValuesIntact FlagsIntact SlotsAllocated CalleeSavedKept
CHECK_DEADLOCK FALSE
