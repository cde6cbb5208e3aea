CONSTANTS
  a1 = a1
  a2 = a2
  NoVersion = NoVersion
  Apps = {a1, a2}
  Packages <- TwoApps
  MaxVersion = 3
  MaxIpks = 3
  MaxCrashes = 1
SPECIFICATION Spec
INVARIANTS SuccessInstalls RollbackRestores CleanUpRestores BootVersionKept RemovesIdleOnly
PROPERTIES UpdateEnds BootsForward
