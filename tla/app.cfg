SPECIFICATION AppSpec
CONSTANTS
  r1 = r1
  r2 = r2
  t1 = t1
  t2 = t2
  Requests = {r1, r2}
  Turns = {t1, t2}
  FreeMonthly = 1
  FreeLifetime = 2
  FreeQuizzes = 1
  PaidMonthly = 2
  PaidQuizzes = 1
  MaxTime = 2
  MaxActs = 1
  MaxBegun = 3
  Lookback = 5
  LastDay = 7
  Versions <- SomeVersions
  Taps = {r1, r2}
  Configured = {"daraja", "kora", "paystack"}
INVARIANTS
  AllowanceHolds
  LifetimeExact
  StreakShown
  ForcedHaveAWayOut
  OnePrompt
  MoneyIsTraced
PROPERTIES
  TurnedAwayWhenSpent
SYMMETRY Alike
CHECK_DEADLOCK FALSE
