CONSTANTS
  Timer = Timer
  Loose = Loose
  NoRow = NoRow
  NoFile = NoFile
  NoDir = NoDir
  None = None
  Placeholder = Placeholder
  c1 = c1
  Calls = {c1}
  Interval = 2
  Retention = 1
  Pending = 1
  MaxRows = 5
  MaxTime = 2
  MaxEvents = 2
SPECIFICATION FairHistorySpec
INVARIANTS
  TypeOK
  ReadyRestorable
  ArchivesNamed
PROPERTIES
  KeptUntilExpired
  PlanHonest
  BackupsKeepComing
CHECK_DEADLOCK FALSE
