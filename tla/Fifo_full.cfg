SPECIFICATION Spec
CONSTANTS
  updater = updater
  blitter = blitter
  Writers = {updater}
  Batches <- OnlyUpdate
  fifoCapacity = 15
INVARIANT NeverOverrun
