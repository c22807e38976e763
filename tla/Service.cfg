CONSTANTS
  Calls = {c1, c2}
  WalletCount = 2
  Strategies = {"default", "round_robin"}
  Modes = {"disabled", "dry_run", "submit"}
  MaxNonce = 1
SPECIFICATION FairSpec
INVARIANTS
  TypeOK
  OnePendingPerWallet
PROPERTIES
  ImplementsSubmission
  EveryCallEnds
  EveryBroadcastEnds
CHECK_DEADLOCK FALSE
