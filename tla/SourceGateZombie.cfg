SPECIFICATION FairSpec
CONSTANTS
  c1 = c1
  c2 = c2
  c3 = c3
  None = None
  Conns = {c1, c2}
  MAX_CONNECTIONS = 2
  MaxOffers = 1
  MaxPackets = 2
  LateLoops = TRUE
PROPERTIES SomebodyPlays
CHECK_DEADLOCK FALSE
