CONSTANTS
  a = a
  b = b
  all = all
  one = one
  None = None
  Waiting = Waiting
  Failed = Failed
  Clients = {a, b}
  Own = {a, b}
  Queries = {all, one}
  Home = all
  Matching <- MCMatching
  Filters <- MCFilters
  Visits <- MCVisits
  Slots = {1, 2}
  MaxClicks = 3
  Users = {a, b}
  LastDay = 3
  Statuses = {"ACTIVE", "EXPIRED"}
  Windows = {2, 3}
  TrendDays = 2
  ComparisonDays = 1
  Observations <- MCObservations
  Items <- MCItems
  Tables <- MCTables
  Expiring = {b}
  MaxSnapshots = 2
  MaxEdits = 2
  MaxBusy = 2
  NoEntry = NoEntry
  NoReport = NoReport
  Lost = Lost
SPECIFICATION PagesSpec
INVARIANTS
  PagesTypeOK
  CardOfOneClient
  ListExplained
  CardExplained
  ReportAddsUp
  OnlineExplained
CHECK_DEADLOCK FALSE
