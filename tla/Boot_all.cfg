CONSTANTS
  Sites = {s1}
  Accounts = {a1}
  Logs = {l1}
  Columns <- MCColumns
  Procs = {p1, p2}
  MaxStarts = 3
  Databases <- MCDatabases
  RequireToken = TRUE
  Preferred = 3001
  BusySets <- MCBusy
  KeyFaults = TRUE
  NoSite = NoSite
  NoSecret = NoSecret
  NoPort = NoPort
  NoOrigin = NoOrigin
  BadOrigin = BadOrigin
  NoToken = NoToken
  NoProc = NoProc
  NoKey = NoKey
  EmptyKey = EmptyKey
  NoFault = NoFault
  s1 = s1
  a1 = a1
  l1 = l1
  p1 = p1
  p2 = p2
SPECIFICATION Spec
SYMMETRY MCSymmetry
INVARIANTS SecretsReadable SearchMatches OneServer LoneStartSucceeds OwnPageWorks
PROPERTIES StartsKeepData
\* The starts run out.
CHECK_DEADLOCK FALSE
