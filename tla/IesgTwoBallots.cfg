CONSTANTS
  Ad = {a1, a2}
  Position <- SomePosition
  Secretariat = Secretariat
  Req = {r1, r2}
  Picked = {}
  Telechats = {}
  MaxDay = 0
  MaxBallot = 2
SPECIFICATION MCSpecOK
SYMMETRY Symmetry
CHECK_DEADLOCK FALSE
INVARIANTS PositionsShown
