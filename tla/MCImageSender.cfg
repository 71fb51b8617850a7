CONSTANTS
  MaxPacket = 5
  MaxTransfer = 16
  MaxSection = 3
  HeaderSize = 1
  CommandSize = 3
  Tickets = {t1, t2, t3}
  NoTicket = NoTicket
  Pixels = {a, b}
  MaxPixels = 11
  Areas = {4, 5, 9, 11}
  Payloads = {10, 12, 14, 20, 23, 24, 28}
  Chunks = {1, 2, 3, 4, 5, 6}
SPECIFICATION ImageSpec
SYMMETRY SenderSymmetry
INVARIANTS
  DeviceGetsImage
  BugOnlyWhenFull
  WholeImageSent
PROPERTIES
  ImplementsEncoder
CHECK_DEADLOCK FALSE
