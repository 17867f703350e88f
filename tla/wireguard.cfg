CONSTANTS
  Half = 8
  Server = 1
  Block = 4
  Boot = Boot
  Render = Render
  Nobody = Nobody
  NoPeer = NoPeer
  NoFile = NoFile
  AutoEnable = TRUE
  c1 = c1
  c2 = c2
  r1 = r1
  r2 = r2
  Clients = {c1, c2}
  Requests = {r1}
  InitialRows <- Legacy
  MaxRequests = 1
  MaxLapses = 1
  MaxRestarts = 1
SPECIFICATION FairHistorySpec
INVARIANTS
  PoolServes
  FileExplained
  InterfaceFollows
  AddressesExclusive
PROPERTIES
  CallsComplete
CHECK_DEADLOCK FALSE
