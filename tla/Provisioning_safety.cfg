CONSTANTS
  c1 = c1
  c2 = c2
  DevItems <- MCDevItems
  UpdateItems <- MCUpdateItems
  Generated = {"use_bootstrap"}
  Credentials = {c1, c2}
  Required = {"use_bootstrap", "device_certificate"}
  BuiltIn = c1
  Missing = Missing
  None = None
  MaxRuns = 2
  MaxCuts = 1
SPECIFICATION Spec
INVARIANTS SuccessMeansStored FewItemsLost DaemonUsesOneSet
