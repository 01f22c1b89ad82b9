CONSTANTS
  Writers = {w1}
  Checkpointers = {c1}
  Payloads = {p1, p2}
  ResetPayload = reset
  TailRows = 2
  MaxTime = 4
  MaxDamage = 1
  MaxErrors = 1
SPECIFICATION FairStatusSpec
INVARIANTS
  WritersRaiseNoAlarm
PROPERTIES
  DamageReported
  FalseAlarmClears
CHECK_DEADLOCK FALSE
