SPECIFICATION Spec
CONSTANTS
  c1 = c1
  c2 = c2
  Clients = {c1}
  Requests <- PlainRequests
  MaxReq = 2
CHECK_DEADLOCK FALSE
INVARIANT ResponseExact
