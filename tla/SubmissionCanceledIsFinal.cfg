CONSTANTS
  Sub = {s1, s2}
  Req = {r1, r2}
  MaxRev = 1
  GroupDraft = TRUE
  Prior = Prior
  None = None
SPECIFICATION OverlapSpec
CHECK_DEADLOCK FALSE
PROPERTIES CanceledIsFinal
