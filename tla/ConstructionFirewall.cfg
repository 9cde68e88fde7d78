SPECIFICATION CSpec
CONSTANTS
  s1 = s1
  s2 = s2
  NoSlot = NoSlot
  MaxFaults = 0
  Slots <- MCSlots
INVARIANTS
  RolledBackInForce
