SPECIFICATION FairSpec
CONSTANTS
  None = None
  BaseMs = 30
  MaxMs = 35
  TARGET_MAX_MS = 40
  CHUNK = 20
  CALM_AFTER = 1
  MaxUnderruns = 2
  SEQ = 8
  SMALL_GAP = 3
  MAX_PLC = 1
  FRAME = 20
  PCM_MS = 10
  PCM_RATE = 44100
  PULL_MS = 20
  MaxLost = 2
  MaxLate = 1
INVARIANTS Bounded UnderrunsAreGaps LossIsCounted NoExtraAudio
PROPERTIES SilenceEnds
CHECK_DEADLOCK FALSE
