SPECIFICATION MCSpec
CONSTANTS
  c1 = c1
  c2 = c2
  t1 = t1
  t2 = t2
  u = u
  v = v
  BURN_ADDRESS = BURN_ADDRESS
  NoToken = NoToken
  Admins = {a1, a2}
  AppAddresses = {p1, p2}
  Custodies = {c1, c2}
  Contributors = {u1, c1}
  Tokens = {t1, t2}
  Fee <- SecondTokenHasFee
  Supply <- BothAreFunded
  Amounts = {1}
  Addresses = {1, 2}
  Transactions <- SignedTransactions
  bucket <- OneBucket
  Overlap = 2
  MaxExpiration = 2
  MaxCollected = 1
  Refunds = {0}
  Funds <- Nothing
  MaxTime = 6
  Accounts = {u, v}
  MAXIMUM_OBJECT_NESTING = 2
  MaxObjects = 2
  MaxRefs = 1
  MaxLinear = 1
  Storages = {storage1, storage2}
  Capacities = {1, 2}
  MaxSignerTime = 2
  MaxGranted = 3
SYMMETRY Symmetry
INVARIANTS
  TablesAgree
  WhitelistedTokenIsListed
  RunsAtMostOnce
  TransactionsRunInOrder
  TextIsFaithful
PROPERTIES
  EventsTellTheContributions
  ObjectsStayWithTheirOwners
  PermissionsAreWhatWasGranted
CHECK_DEADLOCK FALSE
