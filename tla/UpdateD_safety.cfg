CONSTANTS
  r1 = r1
  r2 = r2
  r3 = r3
  d1 = d1
  d2 = d2
  None = None
  Torn = Torn
  Requests = {r1, r2, r3}
  Dirs = {d1, d2}
  MaxCrashes = 1
SPECIFICATION Spec
INVARIANTS MutexInv FlagInv HandOffMatchesHeader LinkExistsUnlessShared
  NoLeakedLink HandedOffOnce
PROPERTY MailboxSpec
