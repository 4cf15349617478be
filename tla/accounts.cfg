\* Logins of one account that overlap, lock it and wait out the lock-out, while
\* requests read, touch and end the session that a login opened.
CONSTANTS
  n1 = n1 a1 = a1 a2 = a2 a3 = a3 t1 = t1 t2 = t2 c1 = c1 c2 = c2 Never = Never
  Name = {n1}
  Attempt = {a1, a2}
  Token = {t1, t2}
  Caller = {c1, c2}
  Threshold = 2
  LockSeconds = 3
  Ttl = 1
  Interval = 1
  MaxAge = 1
  MaxTime = 4
SPECIFICATION Spec
SYMMETRY Interchangeable
VIEW WhatMatters
INVARIANTS
  GuessesBounded
PROPERTIES
  LockEarned
  RevokedOnce
CHECK_DEADLOCK FALSE
