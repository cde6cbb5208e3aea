CONSTANTS
  CommandLines <- MCCommandLines
  IntMax = 3
  LongMaxes = {3, 15}
  DefaultTimeout = 2
  Limits = {2, 3}
  Causes <- MCCauses
  Junk = Junk
  None = None
SPECIFICATION Spec
INVARIANT TimeoutAsAsked
PROPERTY FailedRootfsReboots
