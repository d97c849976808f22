SPECIFICATION Spec
CONSTANTS
  p1 = p1
  p2 = p2
  p3 = p3
  u1 = u1
  u2 = u2
  Payments = {p1, p2}
  Users = {u1}
  Owner <- OneUser
  Provider <- CardKora
  Servers = {s1, s2}
  Workers = {}
  Paths <- AllPaths
  BatchLimit = 2
  MaxCredits = 2
  MaxFaults = 0
  None = None
INVARIANTS
  CreditedWerePaid
  SuccessIsCredited
