CONSTANTS
  m1 = m1
  c1 = c1
  c2 = c2
  n1 = n1
  n2 = n2
  None = None
  Messages = {m1}
  Cases = {c1, c2}
  Notifications = {n1, n2}
  Drafts <- ReplyFromOneCase
  CaseAddSteps = TRUE
  MaxCrashes = 1
SPECIFICATION Spec
SYMMETRY Symmetry
CHECK_DEADLOCK FALSE
INVARIANTS ReferencesAreSound FilingIsWhole
PROPERTIES StartedPushIsKept ArchiveIsFinished LifeIsImplemented
