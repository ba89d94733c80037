SPECIFICATION Spec
CONSTANTS
  Caller = {c1}
  Kid = {k1,k2,k3}
  TTL = 1
  RetryFloor = 1
  UnknownWait = 2
  MaxTracked = 2
  Deadline = 1
  MaxFailures = 1
  MaxTime = 3
  NoKid = NoKid
SYMMETRY Symmetry
INVARIANTS
  OutOfBandBound
  NoSqueeze
