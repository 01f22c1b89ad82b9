CONSTANTS
  Writers = {w1, w2}
  Checkpointers = {c1, c2}
  Payloads = {p1, p2}
  ResetPayload = reset
  TailRows = 2
  MaxTime = 5
  MaxDamage = 0
SPECIFICATION Spec
INVARIANT HonestChainAccepted
CHECK_DEADLOCK FALSE
