CONSTANTS
  NoEntry = NoEntry
  NoBlock = NoBlock
  NoAccount = NoAccount
  Removed = Removed
  None = None
  Root = Root
  op1 = op1
  op2 = op2
  p1 = p1
  p2 = p2
  l1 = l1
  l2 = l2
  admin = admin
  address = address
  other = other
  otherAddress = otherAddress
  Ids = {Root, op1, op2}
  Names = {admin, address, other, otherAddress}
  RootNames <- InitialNames
  Newcomers <- Operators
  Pages = {p1, p2}
  Logins = {l1, l2}
  BlockTtl = 2
  BlockMax = 2
  SetupTtl = 2
  MaxTime = 2
  MaxSecrets = 2
  MaxUses = 4
  MaxLogins = 4
  MaxRestarts = 1
SPECIFICATION HistorySpec
INVARIANTS
  TypeOK
  AccountsSound
  FailuresBounded
  EnabledAsTold
PROPERTIES
  BlockHolds
  OwnPasswordWorks
CHECK_DEADLOCK FALSE
CONSTRAINT
  FewSteps
SYMMETRY
  Alike
