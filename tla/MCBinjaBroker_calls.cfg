SPECIFICATION FairSpec
CONSTANTS
  c1 = c1
  c2 = c2
  Clients = {c1, c2}
  Requests <- AllRequests
  MaxReq = 3
CHECK_DEADLOCK FALSE
INVARIANT TypeOK
INVARIANT CalmResponseExact
INVARIANT ErrorsExact
INVARIANT NoDataRace
PROPERTY CallsReturn
PROPERTY ShutdownStops
