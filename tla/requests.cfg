CONSTANTS
  NoDate = NoDate
  NoLimit = NoLimit
  Keep = Keep
  Nobody = Nobody
  Unknown = Unknown
  c1 = c1
  c2 = c2
  r1 = r1
  r2 = r2
  Clients = {c1}
  Lingering = {}
  Requests = {r1, r2}
  InitialDb <- NewOrQuotaClient
  Payloads <- TwoPayloads
  ExtendDates = {1}
  Operations = {"create", "update", "reset", "overwrite"}
  MaxTime = 0
  MaxTraffic = 1
  MaxRequests = 2
  MaxFaults = 1
  MaxEvents = 2
SPECIFICATION HistorySpec
INVARIANTS
  TypeOK
  NoDoubleCounting
  DriftExplained
PROPERTIES
  TrafficKept
  AccountsLikeLedger
  QuotaEnforced
SYMMETRY
  AnyRequest
