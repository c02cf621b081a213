SPECIFICATION FairSpec
CONSTANTS
  q1 = q1
  q2 = q2
  g1 = g1
  g2 = g2
  p1 = p1
  a1 = a1
  s1 = s1
  t1 = t1
  None = None
  Groups = {g1}
  Policies = {p1}
  Agents = {a1}
  Selectors = {s1}
  Tools = {t1}
  Initial <- MCInitial
  Matches <- MCMatches
  Queries = {q1, q2}
  CacheFaults = TRUE
  MaxEvents = 1
  MaxRestarts = 0
  MaxSwitches = 1
PROPERTIES
  SwitchedOffNotListed
  AnswersConverge
