SPECIFICATION SSpec
CONSTANTS
  s1 = s1
  s2 = s2
  NoSlot = NoSlot
  MaxFaults = 3
  Slots <- MCSlots
SYMMETRY Symmetry
CONSTRAINT HistoryBound
INVARIANTS
  STypeOK
  NoMixedRoute
PROPERTIES
  CleanRollbackExact
  ReconciledTrue
  RestoredTrue
