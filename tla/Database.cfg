CONSTANTS
  Batches <- FewBatches
  Hashes <- ThreeHashes
  OtherSource = "mempool"
  ChannelCapacity = 2
SPECIFICATION FairSpec
INVARIANTS
  TypeOK
  TableIsCommitted
PROPERTIES
  SimulatorNotHeldUp
  QueueDrains
CHECK_DEADLOCK FALSE
