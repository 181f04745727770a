SPECIFICATION FairSpec
CONSTANTS
  o1 = o1
  o2 = o2
  o3 = o3
  c1 = c1
  c2 = c2
  Objects = {o1, o2, o3}
  Contents = {c1, c2}
  ContentOf <- Delivered
  BatchSize = 2
  MaxFaults = 1
  MaxCrashes = 1
  MaxCommands = 1
  MaxTroubles = 2
INVARIANTS NoMailLost NoNotificationLost JournalLoads HandledOnce
PROPERTY MailIsHandedOver
