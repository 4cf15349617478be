\* The default settings, 10, 2 and 30 seconds, in units of 2 seconds.
SPECIFICATION Spec
CONSTANTS
  Row = {r1}
  Heartbeat = 5
  Timeout = 1
  Lease = 15
  MaxFailures = 1
  Stamp = 1
  MaxTime = 26
  Never = Never
INVARIANTS
  RenewedInTime
  CancelHeard
CHECK_DEADLOCK FALSE
