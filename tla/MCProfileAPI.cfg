SPECIFICATION Spec
CONSTANTS
  Sub = {s1, s2}
  Record = {a, b, c, d}
  Req = {r1, r2}
  Cap = 2
  Window = 2
  MaxPage = 2
  MaxTime = 4
  NoWindow = NoWindow
SYMMETRY Symmetry
INVARIANTS
  TypeOK
  DisclosureCap
  NoBudgetLeak
  InFlightCovered
  DisclosedIsCounted
