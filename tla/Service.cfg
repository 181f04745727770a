SPECIFICATION FairSpec
CONSTANTS
  h1 = h1
  cli = cli
  h2 = h2
  k1 = k1
  NoKey = NoKey
  Workers = {h1, cli}
  Handlers = {h1}
  Keys = {k1}
  Inputs = {1, 2}
  Offered = {"show", "status", "case_create", "message_spam", "pull", "repair"}
  MaxRequests = 3
  MaxFaults = 1
CHECK_DEADLOCK FALSE
INVARIANTS  WritesAreIsolated StatusIsTruthful
PROPERTIES EveryRequestIsAnswered
