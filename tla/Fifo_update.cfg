SPECIFICATION FairSpec
CONSTANTS
  updater = updater
  blitter = blitter
  Writers = {updater, blitter}
  Batches <- UpdateAndBlit
  fifoCapacity = 17
INVARIANTS
  TypeOK
  PublishedDecodes
PROPERTY EveryBatchPublished
