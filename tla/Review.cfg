SPECIFICATION FairSpec
CONSTANTS
    MaxAgent = 1
    MaxInputs = 2
    MaxPerson = 2
    MaxFaults = 1
    MaxTotal = 3
CHECK_DEADLOCK FALSE
INVARIANTS TypedTextIsKept SettlementIsBound
PROPERTIES NoUnseenOverwrite PageIsNeverStuck
