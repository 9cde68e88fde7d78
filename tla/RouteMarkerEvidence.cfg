SPECIFICATION SSpec
CONSTANTS
  s1 = s1
  s2 = s2
  NoSlot = NoSlot
  MaxFaults = 2
  Slots <- MCSlots
SYMMETRY Symmetry
CONSTRAINT HistoryBound
PROPERTIES
  MarkerIsEvidence
