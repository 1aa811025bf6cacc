CONSTANTS
  Req = {r1}
  Life = 1
  MaxRev = 1
  Stream = {"ietf", "ise"}
  Iesg = {}
  Button = {"revise", "update", "restore", "replace", "extend", "withdraw"}
SPECIFICATION MCSpec
INVARIANTS TypeOK CurrentKeptUnlessFailed
