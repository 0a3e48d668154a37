CONSTANTS
  Keys = {k1}
  Values = {}
  Absent = Absent
  None = None
  Clients = {c1, c2, c3}
  Readers = {}
  TypeDefSize = 1
  FlushingBatchCount = 2
  FlushingBatchVolume = 10
  MaxSegmentSize = 2
  ChanCap = 1
  MaxLSN = 3
  MaxRuns = 1
  Faults = {"write", "sync", "create"}
SPECIFICATION FairSpec
PROPERTIES WritersUnblock
