SPECIFICATION RpcFairSpec
CONSTANTS
  MaxCalls = 2
  ReadCounts <- MCReadCounts
  ListLengths = {0, 1, 40}
INVARIANTS
  ReplyOfThisCall
  RepliesFit
PROPERTY
  Answered
CHECK_DEADLOCK FALSE
