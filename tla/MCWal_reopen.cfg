CONSTANTS
  Keys = {k1}
  Values = {v1}
  Absent = Absent
  None = None
  Clients = {c1, c2}
  Readers = {}
  TypeDefSize = 1
  FlushingBatchCount = 1
  FlushingBatchVolume = 10
  MaxSegmentSize = 10
  ChanCap = 1
  MaxLSN = 2
  MaxRuns = 2
  Faults = {"crash"}
CHECK_DEADLOCK FALSE
SPECIFICATION Spec
INVARIANTS RecoverySucceeds
