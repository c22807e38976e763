CONSTANTS
  MaxMessages = 6
  Malformed = {3}
  SocketCapacity = 2
  MailboxCapacity = 1
  EventBuffer = 2
  InboxCapacity = 1
  MaxBackoff = 30
SPECIFICATION FairSpec
INVARIANTS
  TypeOK
  OrderKept
  NoGapAfterBroadcast
PROPERTIES
  ExitDrains
