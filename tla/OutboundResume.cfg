SPECIFICATION Spec
CONSTANTS
  Revs = {r1}
  Pids = {p1}
  EventIds = {e1, e2}
  Configs <- OneConfig
  MaxMistakes = 0
  None = None
INVARIANTS ResumeNeedsNoDraft
