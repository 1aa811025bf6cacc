CONSTANTS
  Sub = {s1, s2}
  Req = {r1}
  MaxRev = 1
  GroupDraft = TRUE
  Prior = Prior
  None = None
SPECIFICATION MCSpec
CHECK_DEADLOCK FALSE
INVARIANTS TypeOK PublishedIsAnnounced GroupApproval OnlyCurrentUnlessFailed
PROPERTIES FollowsWorkflow HistoryComplete
