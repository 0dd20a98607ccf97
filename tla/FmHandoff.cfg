SPECIFICATION FairSpec
CONSTANTS
  d1 = d1
  d2 = d2
  c1 = c1
  c2 = c2
  Daemons = {d1, d2}
  Clients = {c1, c2}
  Nobody = nobody
  MaxAttempts = 2
  MaxKills = 2
INVARIANTS
  TypeOK OpenedOnce
PROPERTIES
  FirmwareKept SharesOneFile AcquireReturns
