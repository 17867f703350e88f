CONSTANTS
  NoToken = NoToken
  NoSession = NoSession
  NoReply = NoReply
  Keep = Keep
  t1 = t1
  t2 = t2
  i1 = i1
  i2 = i2
  Tabs = {t1, t2}
  Calls = {i1, i2}
  AccessTtl = 1
  RefreshTtl = 2
  MaxTime = 2
  MaxLogins = 1
  MaxCalls = 4
  MaxLost = 1
SPECIFICATION FairHistorySpec
INVARIANTS
  TypeOK
  TabSettled
  CookieAccepted
PROPERTIES
  SessionsLiveOnce
  RetryAccepted
  CallsEnd
CHECK_DEADLOCK FALSE
