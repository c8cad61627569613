SPECIFICATION Spec
CONSTANTS
  c1 = c1
  c2 = c2
  c3 = c3
  None = None
  Conns = {c1, c2, c3}
  Paces = {"overlapping"}
  BusyConns = {c1, c2, c3}
  Fallible = FALSE
  MaxCommands = 0
SYMMETRY ConnSymmetry
INVARIANTS ConnectedIsSwitched
CHECK_DEADLOCK FALSE
