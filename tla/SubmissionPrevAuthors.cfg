CONSTANTS
  Sub = {s1, s2}
  Req = {r1}
  MaxRev = 1
  GroupDraft = FALSE
  Prior = Prior
  None = None
SPECIFICATION MCSpecOK
CHECK_DEADLOCK FALSE
PROPERTIES PreviousAuthorsAsked
