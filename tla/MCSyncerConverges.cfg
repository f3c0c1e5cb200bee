CONSTANTS
  t1 = t1
  k1 = k1
  k2 = k2
  Types = {t1}
  Keys = {k1, k2}
  SendDeletesOnConnFail = {t1}
  Unwatchable = {}
  Optional = {t1}
  Etcd = FALSE
  MaxErrorsPerRevision = 2
  MaxRev = 3
  MaxFaults = 4
  MaxBacklog = 1
SPECIFICATION FairSpec
CHECK_DEADLOCK FALSE
INVARIANTS TypeOK CacheAtRevision UpdateTypesRight
PROPERTIES Converges StopFinishes
