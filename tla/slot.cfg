\* Requests of one user race for the slot, from two instances.
CONSTANTS
  i1 = i1 i2 = i2 r1 = r1 r2 = r2 k1 = k1 k2 = k2 c1 = c1 c2 = c2 u1 = u1
  NoOne = NoOne
  Instance = {i1, i2}
  Request = {r1, r2}
  Key = {k1}
  User = {u1}
  Conversation = {c1, c2}
  UserOf <- OneUser
  MaxGen = 2
  Lease = 0
  ReconTimeout = 1
  LegacyGrace = 0
  ClockSkew = 0
  LegacyIn = {}
  Lossy = TRUE
SPECIFICATION Spec
SYMMETRY Interchangeable
INVARIANTS
  TypeOK
  SlotExclusive
  OneGenerationPerKey
  AnswerHasInput
  RetryStillAllowed
  ToldIsRecorded
PROPERTIES
  TerminalStays
CHECK_DEADLOCK FALSE
