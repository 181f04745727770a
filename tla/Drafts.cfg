SPECIFICATION Spec
CONSTANTS
    me = me
    support = support
    f1 = f1
    f2 = f2
    Identities = {me, support}
    Footers = {f1, f2}
    None = None
    Default = me
    IdentityFile <- MCIdentityFile
    MaxCreated = 2
    MaxChanges = 2
    MaxEdits = 1
    MaxFaults = 1
CHECK_DEADLOCK FALSE
INVARIANTS SentIsWhatWasWritten SentFilesWereAttached CommandsKeepDraftsListable
