CONSTANTS
  Variants = {"serial", "parallel"}
  Searches <- FourRanges
  Landscapes <- Shapes
  Output <- ShapeOutput
  RandomValues = {0, 4, 8}
  MaxIterations = 12
  BatchSize = 2
  Focus = 2
  CalldataMax = 63
  DeltaMax = 63
  WordMax = 255
SPECIFICATION FairSpec
INVARIANTS
  TypeOK
  QuantityEncodable
PROPERTIES
  ImplementsSearch
  InsideOutOnlyByJump
  SearchEnds
CHECK_DEADLOCK FALSE
