CONSTANTS
  Tickets = {t1, t2}
  MaxTickets = 2
  NoTicket = NoTicket
  Width = 2
  Height = 2
  PixelsPerTicket = 2
  Clients = {c1, c2}
  DrawRects <- MCDrawRects
  Hints = {"image", "fillrect"}
  MaxDraws = 2
  MaxErrors = 0
  AsksAnew = TRUE
  NoDraw = NoDraw
SPECIFICATION SyncSpec
SYMMETRY TicketSymmetry
INVARIANT StaleCovered
CHECK_DEADLOCK FALSE
