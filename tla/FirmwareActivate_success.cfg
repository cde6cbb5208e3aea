CONSTANTS
  u1 = u1
  u2 = u2
  u3 = u3
  Updates = {u1, u2, u3}
  Package <- Packages
  Disk <- Mmc
  PartNum <- Parts3And5
  Skippable = {}
  Factory = Factory
  Corrupt = Corrupt
  None = None
  MaxActivations = 1
  MaxCuts = 0
SPECIFICATION Spec
CHECK_DEADLOCK FALSE
INVARIANT SuccessMeansInstalled
