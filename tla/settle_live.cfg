SPECIFICATION LiveSpec
CONSTANTS
  p1 = p1
  p2 = p2
  p3 = p3
  u1 = u1
  u2 = u2
  Payments = {p1, p2}
  Users = {u1}
  Owner <- OneUser
  Provider <- MpesaCard
  Servers = {s1}
  Workers = {w1}
  Paths = {"sweep", "verify"}
  BatchLimit = 2
  MaxCredits = 2
  MaxFaults = 1
  None = None
INVARIANTS
  CreditsNeedOverlap
  FailedWereRefused
PROPERTIES
  SuccessIsKept
  PaidIsCredited
