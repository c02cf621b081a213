SPECIFICATION Spec
CONSTANTS
  c1 = c1
  c2 = c2
  w1 = w1
  w2 = w2
  Conns = {c1}
  MaxRestarts = 1
  N = 2
  Widgets = {w1}
  Required <- TwoRequired
  Confirm <- TwoConfirm
  Proactive = TRUE
  ContinueAfter = FALSE
  Faults = {"load", "render", "persist", "agent"}
  MaxProgress = 3
  MaxMessages = 1
INVARIANTS
  TypeOK
  StoredResponsesComplete
PROPERTIES
  NoItemSkipped
  RepliesAccounted
  RefinesTemplateRun
CHECK_DEADLOCK FALSE
