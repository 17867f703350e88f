CONSTANTS
  NoDate = NoDate
  NoLimit = NoLimit
  Keep = Keep
  Nobody = Nobody
  Unknown = Unknown
  c1 = c1
  c2 = c2
  r1 = r1
  r2 = r2
  Clients = {c1}
  Lingering = {}
  Requests = {r1}
  InitialDb <- OnePlainClient
  Payloads <- SmallPayloads
  ExtendDates = {1}
  Operations = {"list"}
  MaxTime = 0
  MaxTraffic = 0
  MaxRequests = 1
  MaxFaults = 0
  MaxEvents = 1
SPECIFICATION FairSpec
PROPERTIES
  DriftRepaired
