SPECIFICATION Spec
CONSTANTS
  EpochInterval = 2
  Emergency = FALSE
  MaxEpoch = 3
PROPERTIES BufferIsAppliedWithEveryEpoch
