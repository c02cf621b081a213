SPECIFICATION CatalogSpec
CONSTANTS
  g1 = g1
  g2 = g2
  p1 = p1
  p2 = p2
  a1 = a1
  s1 = s1
  s2 = s2
  t1 = t1
  Groups = {g1, g2}
  Policies = {p1, p2}
  Agents = {a1}
  Selectors = {s1, s2}
  Tools = {t1}
  Initial <- MCInitial
  MaxEvents = 3
  MaxRestarts = 1
INVARIANTS
  ReadModelConverged
CHECK_DEADLOCK FALSE
