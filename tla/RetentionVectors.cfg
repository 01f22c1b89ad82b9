CONSTANTS
  Datasets = {d1, d2}
  Expiring = {d1}
  Requests = {r1}
  Linked <- LinkedDatasets
  Named = {}
  Large = {}
  Job = job
  Manual = manual
  MaxErrors = 0
SPECIFICATION RetentionSpec
INVARIANT VectorsAreErased
CHECK_DEADLOCK FALSE
