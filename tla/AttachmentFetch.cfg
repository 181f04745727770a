SPECIFICATION Spec
CONSTANTS
    p1 = p1
    p2 = p2
    p3 = p3
    None = None
    Parts <- MCParts
    Name <- MCName
    MaxCopies = 3
    MaxHand = 1
INVARIANTS
    FetchedIsThePart
CHECK_DEADLOCK FALSE
