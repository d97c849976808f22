SPECIFICATION Spec
CONSTANTS
  g1 = g1
  g2 = g2
  u1 = u1
  u2 = u2
  u3 = u3
  u4 = u4
  s1 = s1
  s2 = s2
  s3 = s3
  Users = {u1, u2, u3}
  Groups = {g1, g2}
  Sessions = {s1, s2, s3}
  Operations <- SeatOperations
  Plans = {"friends"}
  Seats = 2
  Period = 1
  MaxTime = 1
  Bonus = 0
  Horizon = 2
  MaxJoins = 3
  None = None
INVARIANTS
  EntitledHaveSeats
  OversellIsBounded
SYMMETRY Alike
CHECK_DEADLOCK FALSE
