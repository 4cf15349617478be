\* Personas, drafts and conversations made and deleted by requests that overlap and come again.
CONSTANTS
  p1 = p1 p2 = p2 r1 = r1 r2 = r2 r3 = r3 k1 = k1 k2 = k2 i1 = i1 i2 = i2 t1 = t1 t2 = t2 t3 = t3 None = None
  Persona = {p1, p2}
  Request = {r1, r2}
  Key = {k1, k2}
  Input = {i1, i2}
  Ops = {"create_persona", "delete_persona", "create_draft", "discard_draft", "create_conversation"}
  Limit = 1
  Thing = {t1, t2}
SPECIFICATION Spec
SYMMETRY Interchangeable
VIEW WhatMatters
INVARIANTS
  NothingRemains
  NoStrayVersion
  DeadlockIsOfDeletion
PROPERTIES
  NotRevived
  RequestsAtOnce
CHECK_DEADLOCK FALSE
