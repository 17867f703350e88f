CONSTANTS
  NoDate = NoDate
  NoLimit = NoLimit
  Keep = Keep
  Nobody = Nobody
  Unknown = Unknown
  c1 = c1
  c2 = c2
  r1 = r1
  r2 = r2
  Clients = {c1, c2}
  Lingering = {}
  Requests = {r1}
  InitialDb <- OneOrTwoClients
  Payloads <- SmallPayloads
  ExtendDates = {0, 2}
  Operations = {"create", "update", "extend", "remove", "list", "dashboard", "import", "overwrite"}
  MaxTime = 1
  MaxTraffic = 1
  MaxRequests = 1
  MaxFaults = 1
  MaxEvents = 2
SPECIFICATION HistorySpec
INVARIANTS
  DriftExplained
PROPERTIES
  SyncRepairs
CONSTRAINT
  OneOfTwoInstances
