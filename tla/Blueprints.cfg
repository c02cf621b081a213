SPECIFICATION Spec
CONSTANTS
  d1 = d1
  t1 = t1
  i1 = i1
  i2 = i2
  i3 = i3
  i4 = i4
  b1 = b1
  b2 = b2
  a1 = a1
  a2 = a2
  None = None
  Definitions = {d1}
  Templates = {t1}
  Seeds = {t1}
  Admins = {a1, a2}
  Texts = {b1}
  ItemLists <- MCItemLists
  First <- MCFirst
  MaxWrites <- MCMaxWrites
  MaxCreated = 1
  MaxResets = 1
SYMMETRY AdminSymmetry
INVARIANTS
  TypeOK
  ItemsReplaced
  VersionNamesContent
PROPERTIES
  SavedAsSeen
CHECK_DEADLOCK FALSE
