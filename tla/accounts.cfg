SPECIFICATION AccountsSpec
CONSTANTS
  p1 = p1
  p2 = p2
  r1 = r1
  r2 = r2
  a1 = a1
  a2 = a2
  Devices = {p1, p2}
  Requests = {r1, r2}
  MaxSends = 2
  CodeLife = 1
  Hour = 2
  MaxCodes = 3
  MaxTokens = 3
  MaxTime = 3
  MaxOverlaps = 1
  MaxActs = 1
  Admins = {a1, a2}
  First = a1
  Windows = {r1, r2}
  MaxSessions = 2
  MaxBeside = 1
INVARIANTS
  OnePhone
  UsedOnce
  CodesPerHour
  SomeOwner
  SessionsEnd
SYMMETRY Alike
CHECK_DEADLOCK FALSE
