CONSTANTS
  Req = {r1}
  Life = 1
  MaxRev = 0
  Stream = {"ietf", "ise"}
  Iesg = {}
  Button = {}
SPECIFICATION MCSpec
INVARIANTS InSync
