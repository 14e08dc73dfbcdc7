SPECIFICATION MCSpec
CONSTANTS
  v1 = v1
  v2 = v2
  v3 = v3
  Instances = {"set", "clocks"}
  Pools = {v1,v2,v3}
  Genesis = {v1,v2}
  GenesisStake = 2
  Grant <- GrantToJoiners
  Amounts = {2}
  MinimumStakes = {2}
  MaximumStake = 4
  IncreaseLimit = 50
  MaxSetSize = 3
  LockupDuration = 1
  RewardsRate = 0
  RewardsRateDenominator = 2
  FeeLimit = 1
  DistributeFees = TRUE
  TicksPerSecond = 1
  MaxTick = 2
  MaxEpoch = 2
  MaxProposals = 1
  MaxFailures = 0
  MaxFee = 0
INVARIANTS OneStanding IndicesNumberTheEpoch VotingPowerIsStaked PowersAreCounted PendingActiveIsPickedUp
PROPERTIES StakeIsHeldUntilLockupEnds NothingMovesDuringReconfiguration EpochAdmitsTheEligible
SYMMETRY Symmetric
