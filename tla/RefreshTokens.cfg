SPECIFICATION Spec
CONSTANTS
  Devices = {d1, d2}
  RefreshTTL = 2
  AccessTTL = 1
  MaxTokens = 4
  MaxNow = 4
  NoRow = NoRow
INVARIANTS TypeOK FamiliesAreChains EndedFamiliesAreDead CarefulDevicesStayIn
CHECK_DEADLOCK FALSE
