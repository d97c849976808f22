SPECIFICATION Spec
CONSTANTS
  p1 = p1
  p2 = p2
  p3 = p3
  u1 = u1
  u2 = u2
  Payments = {p1, p2, p3}
  Users = {u1, u2}
  Owner <- TwoUsers
  Provider <- MpesaCardKora
  Servers = {s1}
  Workers = {s1}
  Paths <- AllButReconcile
  BatchLimit = 2
  MaxCredits = 3
  MaxFaults = 1
  None = None
PROPERTIES
  ImplementsLedger
