CONSTANTS
  Reviews = {v1, v2}
  Agents = {g1}
  Admins = {a1, a2}
  Timeout = 1
  Grace = 1
  LastRequest = 0
  MaxTime = 3
  MaxFailures = 1
  Writers = {w1, w2}
  Pruners = {p1}
  Resetters = {r1}
  Verifiers = {s1}
SPECIFICATION QueuesSpec
INVARIANTS
  AnswersStand
  AuditAgrees
  ChangesAreSerialised
  DeadlockNeedsReset
PROPERTIES
  ImplementsOutcomes
  EveryReviewEnds
  EveryCallEnds
CHECK_DEADLOCK FALSE
