SPECIFICATION PatientUserSpec
CONSTANTS
  c1 = c1
  c2 = c2
  w1 = w1
  w2 = w2
  Conns = {c1}
  MaxRestarts = 1
  N = 3
  Widgets = {w1, w2}
  Required <- ThreeRequired
  Confirm <- ThreeConfirm
  Proactive = TRUE
  ContinueAfter = FALSE
  Faults = {}
  MaxProgress = 7
  MaxMessages = 1
INVARIANTS
  SuspendedAwaitsResponse
PROPERTIES
  PatientUserCompletes
CHECK_DEADLOCK FALSE
