CONSTANTS
  Timer = Timer
  Loose = Loose
  NoRow = NoRow
  NoFile = NoFile
  NoDir = NoDir
  None = None
  Placeholder = Placeholder
  c1 = c1
  Calls = {c1}
  Interval = 2
  Retention = 1
  Pending = 1
  MaxRows = 2
  MaxTime = 0
  MaxEvents = 1
SPECIFICATION FairHistorySpec
PROPERTIES
  RestartsServices
CHECK_DEADLOCK FALSE
