CONSTANTS
  None = None
  Lifetime = 4
  MaxDelay = 1
  Word = 256
  Sizes = {1, 255}
  Errors = {"UpdateErrorConnection", "NoEnumerator"}
SPECIFICATION Spec
INVARIANTS LinesReachNewFile NoUseAfterDelete StateFollowsEvents RegistrationKept
  PercentSound ErrorsTold
PROPERTY ShutdownEnds
