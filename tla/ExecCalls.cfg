SPECIFICATION BusySpec
CONSTANTS
  s1 = s1
  t1 = t1
  Requests = {p1, p2}
  Keycloak = Keycloak
  Sources = {s1}
  Tools = {t1}
  NoTool = NoTool
  SourceOf <- OneSourceOf
  Exchanged = {t1}
  Polled = {t1}
  Unreliable = {Keycloak, s1}
  Fallible = {t1}
  Threshold = 2
  MaxTests = 1
  MaxPolls = 2
INVARIANTS
  TypeOK
  HalfOpenProbed
PROPERTIES
  RefinesBreakers
  OwnFailuresOnly
  CircuitRecovers
CHECK_DEADLOCK FALSE
