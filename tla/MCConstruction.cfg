SPECIFICATION CFairSpec
CONSTANTS
  s1 = s1
  s2 = s2
  NoSlot = NoSlot
  MaxFaults = 2
  Slots <- MCSlots
INVARIANTS
  CTypeOK
  WholeBetweenConstructions
PROPERTIES
  RouteDecided
CONSTRAINT
  Undisturbed
