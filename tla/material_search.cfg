\* Searches while versions are indexed, applied and deleted; the ends of indexing.
CONSTANTS
  p1 = p1 p2 = p2 i1 = i1 i2 = i2 r1 = r1 r2 = r2 a1 = a1
  plain = plain barren = barren Nothing = Nothing
  Persona = {p1}
  Process = {i1}
  Run = {r1, r2}
  Reader = {a1}
  Text = {plain, barren}
  Barren = barren
  MaxVersion = 2
  MaxRevision = 3
  MaxSources = 1
  PoolSize = 1
  DbFails = TRUE
SPECIFICATION LiveSpec
INVARIANTS
  AnswerFromOneMaterial
PROPERTIES
  PromiseKept
  IndexingEnds
ACTION_CONSTRAINT OneEditLater
CHECK_DEADLOCK FALSE
