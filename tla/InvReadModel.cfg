SPECIFICATION Spec
CONSTANTS
  t1 = t1
  t2 = t2
  p1 = p1
  p2 = p2
  d1 = d1
  d2 = d2
  None = None
  NoHash = NoHash
  Tools = {t1}
  Defs = {d1, d2}
  Workers = {p1, p2}
  Refreshers = {p1}
  Commands <- Everything
  Faults = {"fetch", "store"}
  MaxJobs = 3
  MaxChanges = 1
INVARIANTS
  ReadModelInSync
PROPERTIES
  IngestReachedTools
  ReadModelCatchesUp
CHECK_DEADLOCK FALSE
