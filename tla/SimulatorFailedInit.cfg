CONSTANTS
  Feed <- ThreeBlocks
  Senders <- TwoSenders
  InboxCapacity = 2
  Losses = FALSE
SPECIFICATION Spec
INVARIANT OneBlockPerOverlay
CHECK_DEADLOCK FALSE
