CONSTANTS
  Conns = {c1}
  None = None
  MaxConnections = 1
  BufferSize = 2
  MaxMessageSize = 2
  MaxParts = 2
  ReplyParts = 1
  Lines <- MCLines
CHECK_DEADLOCK FALSE
SPECIFICATION Spec
INVARIANT LogsWholeLines
