CONSTANTS
  d1 = d1  d2 = d2
  c1 = c1  c2 = c2  c3 = c3
  f = f
  h1 = h1  h2 = h2
  Daemons = {d1, d2}
  Clients = {c1, c2, c3}
  DaemonLines <- MCDaemonLines
  ClientLines <- MCClientLines
  Askers = {c3}
  Files = {f}
  Headers = {h1, h2}
  Empty = Empty
  Torn = Torn
  None = None
  MaxCleans = 1
SPECIFICATION Spec
INVARIANT OneInstancePerLockFile
PROPERTIES ExitZeroMeansAccepted  RequestKills ClientsEnd
CHECK_DEADLOCK FALSE
