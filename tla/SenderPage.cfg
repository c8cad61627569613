SPECIFICATION FairSpec
CONSTANTS
  None = None
  Envs = {"calm", "wild"}
  ForcePcm = {TRUE, FALSE}
  MaxEvents = 5
INVARIANTS NoForgottenPeer StoppedIsSilent WaitersServed
PROPERTIES Recovers SetupFinishes
CHECK_DEADLOCK FALSE
