CONSTANTS
  Writers = {w1, w2}
  Checkpointers = {c1}
  Payloads = {p1, p2}
  ResetPayload = reset
  TailRows = 2
  MaxTime = 6
  MaxDamage = 1
SPECIFICATION Spec
INVARIANTS
  ChainLinked
  HonestChainAccepted
  HonestRangesAccepted
  DamageLocated
PROPERTIES
  DamageNeverPruned
  ImplementsLedger
SYMMETRY Symmetric
CHECK_DEADLOCK FALSE
