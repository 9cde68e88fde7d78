SPECIFICATION SSpec
CONSTANTS
  s1 = s1
  s2 = s2
  c1 = c1
  c2 = c2
  file = file
  Absent = Absent
  Torn = Torn
  NoSlot = NoSlot
  NumPaths = 0
  MaxTx = 2
  MaxFaults = 0
  Lingering = TRUE
  Clients = {c1, c2}
  Slots <- MCSlots
  Files <- MCFiles
INVARIANT
  CommittedMessageTrue
