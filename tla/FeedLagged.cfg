CONSTANTS
  MaxMessages = 4
  Malformed = {}
  SocketCapacity = 1
  MailboxCapacity = 1
  EventBuffer = 1
  InboxCapacity = 1
  MaxBackoff = 2
SPECIFICATION FairSpec
PROPERTY EveryPublishedIsTaken
