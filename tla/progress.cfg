CONSTANTS
  NoDate = NoDate
  NoLimit = NoLimit
  Keep = Keep
  Nobody = Nobody
  Unknown = Unknown
  c1 = c1
  c2 = c2
  r1 = r1
  r2 = r2
  Clients = {c1}
  Lingering = {c1}
  Requests = {r1}
  InitialDb <- OneLimitedClient
  Payloads <- SmallPayloads
  ExtendDates = {0, 2}
  Operations = {"list", "update", "extend", "remove", "syncAll"}
  MaxTime = 1
  MaxTraffic = 1
  MaxRequests = 1
  MaxFaults = 0
  MaxEvents = 1
SPECIFICATION FairHistorySpec
PROPERTIES
  RequestsComplete
  OverQuotaCutOff
