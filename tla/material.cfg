\* Edits, indexing runs, crashes and failures around one persona.
CONSTANTS
  p1 = p1 p2 = p2 i1 = i1 i2 = i2 r1 = r1 r2 = r2 a1 = a1
  plain = plain barren = barren Nothing = Nothing
  Persona = {p1}
  Process = {i1, i2}
  Run = {r1, r2}
  Reader = {}
  Text = {plain}
  Barren = barren
  MaxVersion = 2
  MaxRevision = 3
  MaxSources = 1
  PoolSize = 2
  DbFails = TRUE
SPECIFICATION Spec
SYMMETRY Interchangeable
INVARIANTS
  AppliedIsIndexed
  LabelIsCurrent
  NoRunOfDeleted
PROPERTIES
  FrozenOnceApplied
CHECK_DEADLOCK FALSE
