SPECIFICATION Spec
CONSTANTS
  Revs = {r1, r2}
  Pids = {p1}
  EventIds = {e1, e2}
  Configs <- TwoConfigs
  MaxMistakes = 1
  None = None
SYMMETRY Sym
INVARIANTS TypeOK AtMostOnce AuditIsTruthful OnlyReviewedContentIsSent SentMessageIsKept
PROPERTY ProgressIsNeverForgotten
