SPECIFICATION Spec
CONSTANTS
  c1 = c1
  c2 = c2
  c3 = c3
  None = None
  Conns = {c1, c2, c3}
  MAX_CONNECTIONS = 2
  MaxOffers = 2
  MaxPackets = 2
  LateLoops = FALSE
SYMMETRY ConnSymmetry
INVARIANTS SlotsHold ActiveIsAlive
PROPERTIES OnlyStartsTakeOver
CHECK_DEADLOCK FALSE
