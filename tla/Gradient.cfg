CONSTANTS
  DefaultValues = {1, 245, 9200, 167772}
  Landscapes <- Hills
  Output <- HillOutput
  RandomValues = {0, 1234567, 16777214}
  CalldataMax = 16777215
  DeltaMax = 127
  WordMax = 1023
SPECIFICATION Spec
INVARIANTS
  TypeOK
  QuantityWithinBounds
PROPERTY ImplementsSearch
CHECK_DEADLOCK FALSE
