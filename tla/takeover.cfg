\* Leases, timeouts, cancels and a row of an older release under a running clock.
CONSTANTS
  i1 = i1 i2 = i2 r1 = r1 r2 = r2 k1 = k1 k2 = k2 c1 = c1 c2 = c2 u1 = u1
  NoOne = NoOne
  Instance = {i1, i2}
  Request = {r1}
  Key = {k1}
  User = {u1}
  Conversation = {c1}
  UserOf <- OneUser
  MaxGen = 2
  Lease = 1
  ReconTimeout = 2
  LegacyGrace = 1
  ClockSkew = 0
  LegacyIn = {c1}
  Lossy = TRUE
SPECIFICATION CancelSpec
INVARIANTS
  CrashCostBounded
PROPERTIES
  UnknownLeftAlone
  CancelNotLost
  SlotRefined
  CancelReaches
CHECK_DEADLOCK FALSE
