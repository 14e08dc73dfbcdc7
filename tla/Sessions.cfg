SPECIFICATION MCSpec
CONSTANTS
  NoVal = NoVal
  Keys = {"k"}
  Vals = {v1, v2}
  FixMemoryDoubleCounting = TRUE
  MaxHash = 2
  MaxNew = 2
  MaxHeap = 3
  v1 = v1
  v2 = v2
  T = T
  U = U
  Limit = 2
  Amounts = {1, 2}
  MaxSession = 2
  MaxCreated = 2
  MaxAlive = 2
  MaxMoves = 2
  U64Max = 3
  U128Max = 5
  MaxValue = 2
  Inputs = {1, 2}
  Lengths = {1, 2}
  MaxLength = 3
  MaxFields = 2
  MaxFieldCalls = 2
  NoNumber = NoNumber
  Addresses = {"a"}
  Types = {T, U}
  Fee = Fee
  GuidLimit = 4
  Continuous = FALSE
  MaxEvents = 3
  MaxGuids = 2
  NoTarget = NoTarget
  Modules = {"m", "account_abstraction"}
  Special = {"account_abstraction"}
  HomeModule <- MCHomes
  TargetFunctions <- MCFunctions
  LocalMax = 1
  SessionMax = 2
  IndexMax = 2
  TimeMax = 2
  ByteMax = 1
  StateBytes = 2
  MaxCalls = 2
  RangeBits = 3
  MaxPermutation = 4
SYMMETRY Symmetry
INVARIANTS
  AggregatorsApplyTheirCalls
  DelayedFieldsAreExact
  DrawsAreUnique
  EventStreamsAreComplete
  DispatchIsChecked
PROPERTIES
  TablesAreTransactional
CHECK_DEADLOCK FALSE
