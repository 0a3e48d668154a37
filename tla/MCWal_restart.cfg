CONSTANTS
  Keys = {k1}
  Values = {}
  Absent = Absent
  None = None
  Clients = {c1, c2}
  Readers = {}
  TypeDefSize = 1
  FlushingBatchCount = 3
  FlushingBatchVolume = 4
  MaxSegmentSize = 1
  ChanCap = 1
  MaxLSN = 2
  MaxRuns = 3
  Faults = {"crash", "torn", "shutdown", "slowexit"}
SYMMETRY Symmetry
CHECK_DEADLOCK FALSE
SPECIFICATION Spec
INVARIANTS RecoverySucceeds NoRequestLost
PROPERTIES ImplementsDurableLog
