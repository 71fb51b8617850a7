CONSTANTS
  Pixels = {a, b, c}
  MaxSection = 3
  MaxPixels = 10
SPECIFICATION BothSpec
INVARIANTS
  Lossless
  WithinEstimate
  SdkLossless
  SdkWithinEstimate
CHECK_DEADLOCK FALSE
