CONSTANTS
  Ad = {a1}
  Position <- SomePosition
  Secretariat = Secretariat
  Req = {r1}
  Picked = {"lc"}
  Telechats = {1}
  MaxDay = 1
  MaxBallot = 0
SPECIFICATION MCFairSpec
CHECK_DEADLOCK FALSE
INVARIANTS HistoryUnlessFailed IanaUnlessFailed
PROPERTIES LastCallUncutUnlessFailed LastCallEnds
