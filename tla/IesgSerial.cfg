CONSTANTS
  Ad = {a1}
  Position = {"yes", "discuss"}
  Secretariat = Secretariat
  Req = {r1}
  Picked = {}
  Telechats = {0, 1}
  MaxDay = 0
  MaxBallot = 2
SPECIFICATION MCSpec
VIEW Decisive
CHECK_DEADLOCK FALSE
INVARIANTS TypeOK OneState PositionsShown ApprovalEndsBallot
