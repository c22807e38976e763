CONSTANTS
  Calls = {c1}
  WalletCount = 1
  Strategies = {"default", "random"}
  Modes = {"submit"}
  MaxNonce = 1
SPECIFICATION Spec
INVARIANT KnownMeansBroadcast
CHECK_DEADLOCK FALSE
