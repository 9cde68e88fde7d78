SPECIFICATION MCSpec
CONSTANTS
  slot1 = slot1
  slot2 = slot2
  file = file
  source1 = source1
  Absent = Absent
  Torn = Torn
  NumPaths = 2
  MaxTx = 1
  Slots <- MCSlots
  Files <- MCFiles
  MaxBuild = 2
  NumManaged = 3
  Erased = {1}
  Packages = {"nginx"}
  Sources <- MCSources
  NoChain = NoChain
INVARIANT DismantleVerifies
