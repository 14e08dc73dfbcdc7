SPECIFICATION MCSpec
CONSTANTS
  NoAttribute = NoAttribute
  Families <- SmallPackages
  ModuleIds <- TheModules
  Address <- TheAddresses
  FunIds <- TheFuns
  StructIds <- TheStructs
  ConstantIds <- TheConstants
  RandomnessFuns = {"next"}
  AllowedStructs = {"String"}
  Primitives = {"u64", "signer", "T"}
  ErrorModule = "error"
  MaxU64 = 3
  a = a
  o = o
  p = p
  q = q
  m = m
  Modules = {"m1", "m2"}
  MaxVersion = 1
  V1MinVersion = 6
  BytecodeVersions = {5, 6}
  None = None
  Addresses = {a, o}
  Objects = {o}
  Exempted = {}
  Names = {p, q}
  ModuleNames = {m}
  MaxPublished = 3
  MaxDeps = 1
  CustomOptions <- CompleteCustom
  EditedPackages = {"aptos-framework"}
  MaxEdits = 1
  Truncated = Truncated
  NoFile = NoFile
INVARIANTS
  ChecksCatchTheUnsafe
  BuildsAreWhatTheyClaim
  ReleasesAreComplete
PROPERTIES
  DependenciesHold
CHECK_DEADLOCK FALSE
