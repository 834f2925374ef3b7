SPECIFICATION Spec
CONSTANTS
  Producers = {p1, p2}
  Consumers = {c1, c2}
  Item = {m1, m2}
  NoItem = NoItem
  BufferSize = 2
  HalfRange = 3
  MaxTickets = 3
  RelaxedLoads = TRUE
SYMMETRY Symmetry
INVARIANTS
  IInv
PROPERTIES
  ImplementsTicketFifo
