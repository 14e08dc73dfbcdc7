SPECIFICATION MCSpec
CONSTANTS
  v1 = v1
  v2 = v2
  Instances = {"abort"}
  Pools = {v1,v2}
  Genesis = {v1}
  GenesisStake = 2
  Grant <- GrantToJoiners
  Amounts = {1,2}
  MinimumStakes = {2}
  MaximumStake = 4
  IncreaseLimit = 100
  MaxSetSize = 2
  LockupDuration = 1
  RewardsRate = 0
  RewardsRateDenominator = 2
  FeeLimit = 1
  DistributeFees = TRUE
  TicksPerSecond = 1
  MaxTick = 2
  MaxEpoch = 3
  MaxProposals = 1
  MaxFailures = 0
  MaxFee = 0
INVARIANTS OnNewEpochCannotAbort
