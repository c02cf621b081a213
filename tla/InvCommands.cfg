SPECIFICATION Spec
CONSTANTS
  t1 = t1
  t2 = t2
  p1 = p1
  p2 = p2
  d1 = d1
  d2 = d2
  None = None
  NoHash = NoHash
  Tools = {t1}
  Defs = {d1, d2}
  Workers = {p1, p2}
  Refreshers = {p1, p2}
  Commands <- Everything
  Faults = {"fetch", "store"}
  MaxJobs = 4
  MaxChanges = 1
SYMMETRY WorkerSymmetry
INVARIANTS
  TypeOK
  FailureCountExact
PROPERTIES
  AdminDisableHolds
  OutdatedByRefresh
  RefinesAtomicInventory
CHECK_DEADLOCK FALSE
