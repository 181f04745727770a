SPECIFICATION Spec
CONSTANTS
  Sources = {s1, s2}
  Dirs = {d1, d2, d3}
  Managed = {}
  Ids = {m1}
  Texts = {a, b}
  Broken = Broken
  Own = Own
  Sent = Sent
  None = None
  MaxFiles = 2
  MaxNew = 1
  MaxInputs = 2
  MaxFaults = 1
  MaxChanges = 1
  MaxMistakes = 1
SYMMETRY MCSymmetry
CHECK_DEADLOCK FALSE
INVARIANTS NoInputLost NothingTwice
PROPERTIES ViewsFollowEvidence
