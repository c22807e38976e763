CONSTANTS
  Feed <- TwoBlocks
  Addresses <- ThreeAddresses
  Watches <- OneConfig
  Checked = {}
  Gases = {}
  Balances = {}
  Profits = {2}
  BotAccounts = {"missing"}
  ChannelCapacity = 1
  None = None
  Threshold = 1
  MaxConcurrent = 1
  MaxStaleness = 1
  Modes = {"submit"}
SPECIFICATION FairPipelineSpec
INVARIANTS
  PipelineTypeOK
  ViewIsExactOrNewer
  SearchedWhenTouched
  BlockSubmittedOnce
PROPERTIES
  ServesHandler
  EveryFindIsDecided
CHECK_DEADLOCK FALSE
