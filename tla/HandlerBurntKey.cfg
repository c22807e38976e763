CONSTANTS
  Opportunities <- MixedOpportunities
  None = None
  Threshold = 1
  MaxConcurrent = 2
  MaxStaleness = 0
  ChannelCapacity = 2
  MaxBlock = 1
  Modes = {"submit"}
SPECIFICATION Spec
INVARIANT ClaimedMeansSubmitted
CHECK_DEADLOCK FALSE
