CONSTANTS
  k0 = k0  k1 = k1  k2 = k2  k3 = k3
  v0 = v0  v1 = v1
  NoVal = NoVal
  Keys <- MCKeys
  Vals <- MCVals
  Hash <- MCHash
  MinCapacity = 4
  MaxCapacity = 8
SPECIFICATION Spec
INVARIANTS TypeOK OneSlotPerKey ProbePathUnbroken LoadLeavesRoom
PROPERTY ImplementsMap
CHECK_DEADLOCK FALSE
