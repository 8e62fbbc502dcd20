CONSTANTS
  pa = pa
  Devs = {pa}
  Levels = {0, 1}
  Nobody = Nobody
  MaxServers = 2
  MaxRequests = 3
  MaxFails = 1
SPECIFICATION FairSpec
CHECK_DEADLOCK FALSE
INVARIANTS TypeOK  OneAtATime NothingLeaked
PROPERTIES  RequestReturns
