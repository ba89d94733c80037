SPECIFICATION Spec
CONSTANTS
  ClientID = {k1, none}
  NoClient = none
  SourceIP = {i1, i2}
  Req = {r1, r2}
  BaseBackoff = 1
  MaxBackoff = 2
  AlertThreshold = 2
  SweepInterval = 1
  EntryTTL = 1
  Width = 3
  MaxVersion = 2
  MaxTime = 1
  NoEntry = NoEntry
INVARIANT NoSecretReturns
