SPECIFICATION FairSpec
CONSTANTS
  c1 = c1
  c2 = c2
  c3 = c3
  None = None
  Conns = {c1, c2, c3}
  Paces = {"calm", "overlapping"}
  BusyConns = {c1, c2}
  Fallible = TRUE
  MaxCommands = 2
INVARIANTS Consistent NoActivationLost
PROPERTIES RestoresFinish QuitExits ImplementsPolicy
CHECK_DEADLOCK FALSE
