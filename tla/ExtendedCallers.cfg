SPECIFICATION ChecksSpec
CONSTANTS
    NoAttribute = NoAttribute
    Families <- SmallPackages
    ModuleIds <- TheModules
    Address <- TheAddresses
    FunIds <- TheFuns
    StructIds <- TheStructs
    ConstantIds <- TheConstants
    RandomnessFuns = {"next"}
    AllowedStructs = {"String"}
    Primitives = {"u64", "signer", "T"}
    ErrorModule = "error"
    MaxU64 = 3
INVARIANTS
    EveryCallerIsReported
CHECK_DEADLOCK FALSE
