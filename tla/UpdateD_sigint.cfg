CONSTANTS
  r1 = r1
  r2 = r2
  r3 = r3
  d1 = d1
  d2 = d2
  None = None
  Torn = Torn
  Requests = {r1, r2}
  Dirs = {d1, d2}
  MaxCrashes = 0
SPECIFICATION Spec
PROPERTY SigintShutsDown
