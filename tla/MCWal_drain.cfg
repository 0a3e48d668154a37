CONSTANTS
  Keys = {k1}
  Values = {v1}
  Absent = Absent
  None = None
  Clients = {c1, c2}
  Readers = {}
  TypeDefSize = 1
  FlushingBatchCount = 1
  FlushingBatchVolume = 10
  MaxSegmentSize = 1
  ChanCap = 1
  MaxLSN = 2
  MaxRuns = 1
  Faults = {"shutdown"}
CHECK_DEADLOCK FALSE
SPECIFICATION FairSpec
PROPERTIES DrainsInFlight
