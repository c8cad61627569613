SPECIFICATION FairSpec
CONSTANTS
  None = None
  Absent = Absent
  Unreadable = Unreadable
  Malformed = Malformed
  OwnPort = 8321
  OtherPort = 8443
  OtherNames = {"extra"}
  g1 = g1
  g2 = g2
  Guards = {g1, g2}
  Requests = {"owner", "guest"}
  Extra <- ExtraPage
  LOG_PER_MINUTE = 1
  MaxSuppressed = 1
  MaxUnseen = 6
  MaxChanges = 1
  MaxRestarts = 1
INVARIANTS ServedRightly OneLookup RulesAsDocumented
PROPERTIES RejectionsReported OwnerGetsIn
CHECK_DEADLOCK FALSE
