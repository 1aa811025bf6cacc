CONSTANTS
  Req = {r1}
  Life = 1
  MaxRev = 1
  Stream = {"ise"}
  Iesg = {"watching", "busy"}
  Button = {}
SPECIFICATION MCFairSpec
PROPERTIES Expires
