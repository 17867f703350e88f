CONSTANTS
  Half = 8
  Server = 9
  Block = 8
  Boot = Boot
  Render = Render
  Nobody = Nobody
  NoPeer = NoPeer
  NoFile = NoFile
  AutoEnable = TRUE
  c1 = c1
  c2 = c2
  r1 = r1
  r2 = r2
  Clients = {c1, c2}
  Requests = {r1, r2}
  InitialRows <- Newcomers
  MaxRequests = 2
  MaxLapses = 0
  MaxRestarts = 0
SPECIFICATION Spec
INVARIANTS
  PoolServes
CHECK_DEADLOCK FALSE
