CONSTANTS
  Clients = {c1, c2}
  Worker = worker
  maxPacketSize_ = 4
  FillSize = 3
  CommandSizes = {4, 8}
SPECIFICATION FairSpec
INVARIANTS
  WaitEndsWithTransfer
  DestroyedWhenQuiet
  CommandArrives
PROPERTIES
  UnplugNoticed
  CallsEnd
CHECK_DEADLOCK FALSE
