CONSTANTS
  t1 = t1
  t2 = t2
  k1 = k1
  Types = {t1, t2}
  Keys = {k1}
  SendDeletesOnConnFail = {t2}
  Unwatchable = {t2}
  Optional = {t2}
  Etcd = FALSE
  MaxErrorsPerRevision = 2
  MaxRev = 2
  MaxFaults = 2
  MaxBacklog = 0
SPECIFICATION Spec
CHECK_DEADLOCK FALSE
INVARIANTS CacheAtRevision InSyncIsSnapshot UpdateTypesRight StopDeletesAll
PROPERTIES NoUpdatesWhileWaiting RevisionNotBackwards
