CONSTANTS
  k1 = k1
  Keys = {k1}
  Values = {1, 2}
  Absent = 0
  BinarySnapshots = FALSE
  MaxBatchSize = 1
  BatchSize = 2
  MaxMessageSize = 1
  MaxWire = 1
  MaxChanges = 1
  MaxFaults = 1
SPECIFICATION FairSpec
INVARIANTS NothingLost
 
