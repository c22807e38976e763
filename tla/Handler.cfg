CONSTANTS
  Opportunities <- MixedOpportunities
  None = None
  Threshold = 1
  MaxConcurrent = 2
  MaxStaleness = 0
  ChannelCapacity = 2
  MaxBlock = 1
  Modes = {"disabled", "dry_run", "submit"}
SPECIFICATION FairSpec
INVARIANTS
  TypeOK
  ExclusiveClaim
  PermitConservation
  ClaimAccounted
PROPERTIES
  GiveBackOnlyAfterFailure
  UsesSubmission
  ImplementsLedger
CHECK_DEADLOCK FALSE
