CONSTANTS
  k1 = k1
  k2 = k2
  Keys = {k1, k2}
  Values = {v1}
  Absent = Absent
  v1 = v1
  BinarySnapshots = TRUE
  MaxBatchSize = 2
  BatchSize = 2
  MaxMessageSize = 1
  MaxWire = 1
  MaxChanges = 1
  MaxFaults = 1
SPECIFICATION Spec
INVARIANTS   NothingLost InSyncIsThisTrail FullPicture NoSleeperLeft
