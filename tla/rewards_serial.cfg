SPECIFICATION LiveSpec
CONSTANTS
  ann = ann
  bob = bob
  cat = cat
  Users = {ann, bob, cat}
  ReferredBy <- AnnBroughtAll
  Sessions = {s1}
  Tiers = {"focus", "season"}
  PeriodOf <- MonthOrSeason
  EarnsOf <- EarnsTwoOrThree
  FriendDays = 1
  VestDays = 1
  Month = 2
  BankDaysToLive = 2
  BankCap = 3
  MaxPerMonth = 1
  SweepLimit = 2
  MaxTime = 4
  MaxFaults = 1
  Horizon = 2
  None = None
INVARIANTS
  MonthlyCap
  BankedHaveNoPlan
PROPERTIES
  ImplementsLedger
  DueIsSettled
