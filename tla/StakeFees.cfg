SPECIFICATION MCSpec
CONSTANTS
  v1 = v1
  v2 = v2
  Instances = {"fees"}
  Pools = {v1,v2}
  Genesis = {v1,v2}
  GenesisStake = 2
  Grant <- GrantToJoiners
  Amounts = {1}
  MinimumStakes = {2}
  MaximumStake = 4
  IncreaseLimit = 50
  MaxSetSize = 2
  LockupDuration = 1
  RewardsRate = 1
  RewardsRateDenominator = 2
  FeeLimit = 1
  DistributeFees = TRUE
  TicksPerSecond = 1
  MaxTick = 1
  MaxEpoch = 2
  MaxProposals = 1
  MaxFailures = 0
  MaxFee = 2
PROPERTIES CoinsAreAccountedFor
SYMMETRY Symmetric
