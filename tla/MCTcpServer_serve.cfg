CONSTANTS
  Conns = {c1, c2}
  None = None
  MaxConnections = 1
  BufferSize = 1
  MaxMessageSize = 1
  MaxParts = 1
  ReplyParts = 1
CHECK_DEADLOCK FALSE
SPECIFICATION FairSpec
INVARIANTS TypeOK HandlersBounded
PROPERTIES DialledIsServed ServerStopsIfAnswered
