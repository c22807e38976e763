CONSTANTS
  Feed <- OneBlock
  Addresses <- OneAddress
  Watches <- OneConfig
  Checked = {}
  Gases = {}
  Balances = {}
  Profits = {2}
  BotAccounts = {"missing"}
  ChannelCapacity = 1
  None = None
  Threshold = 1
  MaxConcurrent = 1
  MaxStaleness = 1
  Modes = {"submit"}
  WalletCount = 1
  Strategies = {"default"}
  MaxNonce = 1
SPECIFICATION SystemSpec
INVARIANTS
  CallsWithinPermits
  OneCallPerBlock
  OnePendingPerWallet
  BlockSubmittedOnce
PROPERTIES
  ServesPipeline
  RunsService
CHECK_DEADLOCK FALSE
