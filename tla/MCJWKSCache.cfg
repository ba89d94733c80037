SPECIFICATION Spec
CONSTANTS
  Caller = {c1, c2}
  Kid = {k1}
  TTL = 1
  RetryFloor = 1
  UnknownWait = 1
  MaxTracked = 1
  Deadline = 1
  MaxFailures = 1
  MaxTime = 7
  NoKid = NoKid
INVARIANTS
  TypeOK
  TrustBound
  RotationBound
