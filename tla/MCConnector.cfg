SPECIFICATION Spec
CONSTANTS
  Request = {r1, r2}
  Identity = {i1, i2, i3}
  MaxTracked = 1
  TrackTTL = 4
  SweepInterval = 1
  EntryTTL = 4
  BaseBackoff = 1
  MaxBackoff = 2
  OverflowBaseBackoff = 2
  OverflowMaxBackoff = 3
  Width = 4
  MaxFailures = 2
  Deadline = 1
  None = None
SYMMETRY Symmetry
INVARIANTS
  TypeOK
  BlockedIsTracked
  EntriesBounded
  RecordedWhereAllowed
