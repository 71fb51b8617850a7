CONSTANTS
  Tickets = {t1, t2, t3}
  MaxTickets = 3
  NoTicket = NoTicket
SPECIFICATION Spec
INVARIANT NoWorkOnFreedDevice
CHECK_DEADLOCK FALSE
