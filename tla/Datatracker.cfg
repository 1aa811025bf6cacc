CONSTANTS
  Req = {r1}
  MaxMajor = 2
  MaxMinor = 1
  Editor = {e1}
  Row = {1, 2, 3}
  Text = {t1, t2}
  Job = {j1}
  Doc = {d1, d2}
  Last = 3
  MaxChanges = 4
  Updater = {u1}
  Draft = {d1}
  MaxEvents = 2
  Sender = {s1, s2}
  Message = {m1, m2}
  Clerk = {c1}
  Nominee = {n1, n2, n3}
  Position = {p1}
  User = {a1, a2}
  MaxRows = 3
  MaxLoad = 4
  Chair = {c1, c2}
  MaxSlides = 3
  Tracked = {d1, d2}
  Visitor = {v1, v2}
SPECIFICATION MCSpec
INVARIANTS
  TypesOK
  TextIsAnnounced
  TextsAreFinalUnlessFailed
  NoHangingBallotUnlessFailed
  GroupTextIsApprovedUnlessFailed
  PlanIsKept
  StateIsNewestUnlessFailed
  LoggedOnce
  MirrorsQueue
  StateIsLastEventUnlessFailed
  SentIsSettled
  DeliveredOnceUnlessFailed
  DuplicatesEnd
  NothingIsHidden
  OnAgendaCanMeet
  TwoWithoutApproval
  StrictlyOrdered
  SlidesAreKept
  PageIsCurrent
PROPERTIES
  FollowsProcess
  HistoryFirst
CHECK_DEADLOCK FALSE
