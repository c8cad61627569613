SPECIFICATION FairSpec
CONSTANTS
  MaxBytes = 3
  LineSizes = {1, 2}
  MaxFaults = 3
  States = {"idle", "connected", "trouble"}
  Unset = Unset
  Quit = Quit
  None = None
  Outputs = {{"log"}, {"tray"}}
INVARIANTS Sound HistoryKept
PROPERTIES LogResumes TroubleIsReal IconFollows
CHECK_DEADLOCK FALSE
