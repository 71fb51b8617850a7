CONSTANTS
  Tickets = {t1, t2, t3}
  MaxTickets = 3
  NoTicket = NoTicket
SPECIFICATION FairSpec
INVARIANTS
  SingleOwner
  CountMatchesList
  DrainIsExclusive
PROPERTIES
  LeakOnlyInRefusedFlush
  DisconnectEnds
  ImplementsLedger
CHECK_DEADLOCK FALSE
