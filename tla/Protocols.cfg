SPECIFICATION MCSpec
CONSTANTS
  EpochInterval = 2
  Emergency = TRUE
  MaxEpoch = 4
  Users = {u1, u2}
  Powers = {0, 7}
  Operators = {o1, o2}
  MaxPeriod = 3
  p1 = p1
  p2 = p2
  a = a
  b = b
  NoHash = NoHash
  StakePools = {p1, p2}
  InitialPower <- MCPower
  LockedUntil <- MCLockedUntil
  min_voting_threshold = 1
  required_proposer_stake = 1
  voting_duration_secs = 2
  Scripts <- MCScripts
  MaxTime = 5
  MaxCreated = 1
  MaxMoves = 2
  ChunkSize = 3
  MaxLength = 4
  MaxModules = 3
  MaxUploads = 2
INVARIANTS
  ReconfigurationCanFinish
  NewestWrittenWins
  UploadsPublishTheirPackage
PROPERTIES
  QuietEpochsGoOn
  ConfigChangesWithEpoch
  EpochChangeSpec
  ProposalsAreSound
  WhatBeginsEnds
CHECK_DEADLOCK FALSE
