SPECIFICATION FairSpec
CONSTANTS
  inbox = inbox
  archive = archive
  c1 = c1
  c2 = c2
  Mailboxes = {inbox, archive}
  Contents = {c1, c2}
  ImportAs <- TrashArchive
  TargetLists <- BothMailboxes
  Histories = {TRUE, FALSE}
  InitialMail <- OldInInbox
  MaxNewMessages = 1
  FullInterval = 1
  MaxUid = 2
  MaxValidity = 2
  MaxChanges = 1
  MaxAborts = 1
  MaxSkips = 1
  MaxTroubles = 2
  Arrivals = {inbox}
  Aging = {c2}
  None = None
INVARIANTS NothingSkipped ReferencedIsKept DeletedIsRevisited
PROPERTIES EventuallyStored
