CONSTANTS
  n1 = n1
  n2 = n2
  Names = {n1, n2}
  Servers = {s1, s2}
  Declared = {s2}
  Requests <- Conversations
  MaxIterations = 2
SPECIFICATION ProxySpec
INVARIANTS
  AnswerIsReadable
CHECK_DEADLOCK FALSE
