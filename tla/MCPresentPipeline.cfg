CONSTANTS
  TotalChunks = 2
  kMaxRetries = 1
  MaxAssigns = 2
  MaxFrames = 2
SPECIFICATION FairSpec
INVARIANTS
  PipelineExclusive
  SwapChainStillLent
  FramesCountedOnce
PROPERTIES
  ChunksInOrder
  UnassignEnds
CHECK_DEADLOCK FALSE
