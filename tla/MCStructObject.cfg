CONSTANTS
  Prims = {"struct", "union"}
  Members <- MCMembers
  MaxMembers = 3
  AlignAttrs = {1, 16}
  Values <- MCValues
  MaxStores = 1
  ShiftedOut <- MCShiftedOut
SPECIFICATION ObjectSpec
CHECK_DEADLOCK FALSE
INVARIANTS MembersApart FieldsApart ElementsFit HoldsWhatWasStored ImageMatchesLayout
