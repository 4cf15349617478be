CONSTANTS
  User <- Users
  Reader <- Readers
  Id = {1, 2, 3, 4}
  Limit = 1
  MaxClock = 1
  u1 = u1
  u2 = u2
  Nothing = Nothing
SPECIFICATION Spec
INVARIANTS
  PagesAreTheList
CHECK_DEADLOCK FALSE
