CONSTANTS
  Tickets = {t1, t2}
  MaxTickets = 2
  NoTicket = NoTicket
  Width = 2
  Height = 2
  PixelsPerTicket = 2
  Clients = {c1}
  DrawRects <- MCDrawRects
  Hints = {"image", "write", "mmap"}
  MaxDraws = 2
  MaxErrors = 0
  AsksAnew = FALSE
  NoDraw = NoDraw
SPECIFICATION FairSyncSpec
PROPERTY EventuallySynced
CHECK_DEADLOCK FALSE
