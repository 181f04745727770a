SPECIFICATION Spec
CONSTANTS
    m1 = m1
    m2 = m2
    me = me
    work = work
    Messages = {m1, m2}
    Slugs = {me, work}
    Me = me
    MaxPulls = 1
    MaxConfigs = 1
    MaxDamage = 2
    MaxFaults = 1
SYMMETRY Symmetry
CHECK_DEADLOCK FALSE
INVARIANTS KnownIsKept FinishedMeansDone
PROPERTIES PullContinues
