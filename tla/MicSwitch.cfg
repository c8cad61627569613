SPECIFICATION Spec
CONSTANTS
  p1 = p1
  p2 = p2
  cable = cable
  usb = usb
  builtin = builtin
  None = None
  Procs = {p1, p2}
  Mics = {cable, usb, builtin}
  Worlds <- AllWorlds
INVARIANTS Consistent MemoryOnDisk Recorded GivenBack
PROPERTIES RecoveryCompletes UserChoiceKept
CHECK_DEADLOCK FALSE
