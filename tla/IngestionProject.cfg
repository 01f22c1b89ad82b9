CONSTANTS
  Documents = {d1}
  Deletions = {x1}
  Projects = {p1}
  Registered = {p1}
  Salts = {s1, s2}
  Chunks = 2
  MaxFailures = 0
SPECIFICATION Spec
INVARIANT FilteredDeletionErasesOriginals
CHECK_DEADLOCK FALSE
