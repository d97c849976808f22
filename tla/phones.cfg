SPECIFICATION PhoneSpec
CONSTANTS
  p1 = p1
  p2 = p2
  u1 = u1
  u2 = u2
  n1 = n1
  n2 = n2
  x1 = x1
  s1 = s1
  s2 = s2
  e1 = e1
  c1 = c1
  Devices = {p1, p2}
  Units = {u1, u2}
  Chats = {n1, n2}
  Sessions = {x1}
  UnitCap = 1
  PageSize = 1
  Restores = TRUE
  MaxTime = 2
  MaxEdits = 3
  Sweepers = {s1, s2}
  Materials = {1, 2}
  Events = {e1}
  Slots = {c1}
  Day = 4
  Week = 2
  Starts = {0, 2}
  Quiets <- QuietWindows
  Leads = {2}
  Offsets = {1}
  Wants <- KindsWanted
  MaxHours = 5
  MaxChanges = 2
  MaxFailures = 1
INVARIANTS
  CursorCoversRows
  NothingSaidIsLost
  CapHolds
  PushedOnce
  AnnouncedOnce
  DueIsHeard
  NothingLapses
PROPERTIES
  NewestWins
SYMMETRY Alike
CHECK_DEADLOCK FALSE
