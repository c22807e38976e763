CONSTANTS
  Feed <- ThreeBlocks
  Senders <- TwoSenders
  InboxCapacity = 2
  Losses = TRUE
SPECIFICATION Spec
INVARIANTS
  TypeOK
  ExecutedInOrder
  BaseNotAheadOfNumber
  ExactUnlessSkipped
  OneBasePerBlock
  MixedOnlyAfterFailure
CHECK_DEADLOCK FALSE
