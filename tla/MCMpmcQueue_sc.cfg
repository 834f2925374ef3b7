SPECIFICATION FairSpec
CONSTANTS
  Producers = {p1, p2}
  Consumers = {c1, c2}
  Item = {m1}
  NoItem = NoItem
  BufferSize = 2
  HalfRange = 3
  MaxTickets = 4
  RelaxedLoads = FALSE
INVARIANTS
  NoDataRace
  SignedDifference
PROPERTIES
  ImplementsTicketFifo
  Drained
