CONSTANTS
  q1 = q1
  q2 = q2
  r2 = r2
  Documents = {d1, d2}
  Deletions = {x1}
  Projects = {p1}
  Registered = {p1}
  Salts = {s1, s2}
  Chunks = 2
  MaxFailures = 1
  Processes = {q1, q2}
  Requests = {r1, r2}
  Operators = {o1}
  Home <- TwoProcesses
  TTL = 2
  MaxNow = 3
  MaxBreakdowns = 1
  MaxSets = 2
SPECIFICATION GatesSpec
SYMMETRY Symmetric
INVARIANTS
  OneSalt
  RefsResolve
  RefusalLeavesNothing
  DeletionErases
  RefusedAfterTTL
  PostReportsItsState
CHECK_DEADLOCK FALSE
