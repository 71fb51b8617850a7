CONSTANTS
  Devices = {d1, d2}
  NoDevice = NoDevice
  PoolSizes = {0, 2, 10}
  MaxTickets = 10
  MaxPacket = 64
  MaxTransfer = 65024
  MaxSection = 128
  HeaderSize = 1
  CommandSize = 10
  Width = 320
  Height = 240
  PixelSize = 2
SPECIFICATION FairSpec
INVARIANTS
  BindingConsistent
  LittleLeftBehind
  EnoughTickets
  WorstCaseFits
  

  
CHECK_DEADLOCK FALSE
