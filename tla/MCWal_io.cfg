CONSTANTS
  Keys = {k1}
  Values = {v1}
  Absent = Absent
  None = None
  Clients = {c1, c2}
  Readers = {r1}
  TypeDefSize = 1
  FlushingBatchCount = 2
  FlushingBatchVolume = 10
  MaxSegmentSize = 4
  ChanCap = 1
  MaxLSN = 2
  MaxRuns = 2
  Faults = {"crash", "torn", "read", "write", "sync", "create"}
SYMMETRY Symmetry
CHECK_DEADLOCK FALSE
SPECIFICATION Spec
INVARIANTS TypeOK Durability RealTimeOrder TableMatchesLog 
PROPERTIES SyncedStreamsStay ImplementsDurableLog
