CONSTANTS
  Conns = {c1}
  None = None
  MaxConnections = 1
  BufferSize = 3
  MaxMessageSize = 2
  MaxParts = 3
  ReplyParts = 1
  Lines <- MCLines
CHECK_DEADLOCK FALSE
SPECIFICATION Spec
INVARIANTS TypeOK OnlyRequestedWrites WritesAreFresh RepliesMatch AnswersAreTrue
