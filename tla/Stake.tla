------------------------------- MODULE Stake -------------------------------
(***************************************************************************)
(* aptos-framework/sources/stake.move: the stake pools, the validator set  *)
(* and the epoch change, with the parts of reconfiguration.move,           *)
(* reconfiguration_state.move and block.move that drive them.              *)
(*                                                                         *)
(* One action is one transaction: Move commits a transaction as a whole or *)
(* rolls it back, so an abort is an action that is not enabled.            *)
(*                                                                         *)
(* Abstractions.                                                           *)
(*  - ValidatorSet's three vectors are sets.  The order of a vector only   *)
(*    decides which index on_new_epoch hands out, so the model hands out   *)
(*    the indices 0..n-1 in an arbitrary order.                            *)
(*  - ValidatorInfo is voting_power[p]; its keys and addresses carry no    *)
(*    property and are left out.  validator_index is ValidatorConfig's.    *)
(*  - Every pool is initialised (initialize_validator leaves the state a   *)
(*    pool outside Genesis has here), its owner keeps the OwnerCapability  *)
(*    and is its own operator: who may sign is not modelled.               *)
(*  - `now` counts block timestamps; TicksPerSecond of them make a second. *)
(* MaxTick, MaxEpoch, MaxProposals, MaxFailures and MaxFee are bounds.     *)
(***************************************************************************)
EXTENDS Integers, FiniteSets, Functions

CONSTANTS
  Pools,           \* addresses with a stake pool
  Genesis,         \* the pools of the genesis validator set
  GenesisStake,    \* the active stake each of them starts with
  Grant,           \* the coins of each owner outside its pool
  Amounts,         \* the amounts a transaction may name
  MinimumStakes,   \* the minimum stakes governance may set
  MaximumStake,    \* staking_config maximum_stake
  IncreaseLimit,   \* voting_power_increase_limit, in percent
  MaxSetSize,      \* MAX_VALIDATOR_SET_SIZE
  LockupDuration,  \* recurring_lockup_duration_secs
  RewardsRate, RewardsRateDenominator,
  FeeLimit,        \* max_fee_octa_allowed_per_epoch_per_pool
  DistributeFees,  \* the DISTRIBUTE_TRANSACTION_FEE feature flag
  TicksPerSecond,
  MaxTick, MaxEpoch, MaxProposals, MaxFailures, MaxFee

ASSUME PoolsAssumption ==
  /\ IsFiniteSet(Pools)
  /\ Genesis \subseteq Pools
  /\ Genesis # {}

ASSUME AmountAssumption ==
  /\ GenesisStake \in Nat /\ Grant \in [Pools -> Nat]
  /\ Amounts \subseteq Nat
  /\ MinimumStakes \subseteq Nat /\ MinimumStakes # {}
  /\ MaximumStake \in Nat /\ IncreaseLimit \in Nat /\ MaxSetSize \in Nat
  /\ RewardsRate \in Nat /\ RewardsRateDenominator \in Nat \ {0}
  /\ FeeLimit \in Nat /\ DistributeFees \in BOOLEAN

ASSUME TimeAssumption ==
  /\ LockupDuration \in Nat \ {0}
  /\ TicksPerSecond \in Nat \ {0}
  /\ MaxTick \in Nat /\ MaxEpoch \in Nat
  /\ MaxProposals \in Nat /\ MaxFailures \in Nat /\ MaxFee \in Nat

VARIABLES
  stake_pool,           \* StakePool: the four coin stores and the lockup
  wallet,               \* the owner's coins outside the pool
  supply,               \* the coins ever minted
  active_validators, pending_active, pending_inactive,   \* ValidatorSet
  voting_power,         \* ValidatorInfo.voting_power of the pools in the set
  total_voting_power, total_joining_power,
  validator_index,      \* ValidatorConfig.validator_index
  performance,          \* ValidatorPerformance, by validator index
  pending_fee,          \* PendingTransactionFee, by validator index
  minimum_stake,        \* StakingConfig.minimum_stake
  now,                  \* the block timestamp, in ticks
  in_progress, start_time,   \* reconfiguration_state: StateActive and its time
  dkg_target,           \* the next validators named to the DKG session
  epoch, last_reconfiguration_time

set_vars == <<active_validators, pending_active, pending_inactive, voting_power,
              total_voting_power, validator_index>>
epoch_vars == <<in_progress, start_time, dkg_target, epoch, last_reconfiguration_time>>
block_vars == <<performance, pending_fee, now>>
vars == <<stake_pool, wallet, supply, set_vars, total_joining_power, block_vars,
          minimum_stake, epoch_vars>>

-----------------------------------------------------------------------------
(* Pools and their standing *)

NowSeconds == now \div TicksPerSecond

Inactive(p) == p \notin active_validators \cup pending_active \cup pending_inactive

CurrentEpochValidators == active_validators \cup pending_inactive

\* Mutant: leavers no longer count.
IsCurrentOnlyActive(p) == p \in active_validators

IsCurrentEpochValidator(p) == p \in CurrentEpochValidators

\* get_next_epoch_voting_power
NextEpochPower(s) == s.active + s.pending_active + s.pending_inactive

\* The bound update_voting_power_increase asserts.
WithinIncreaseLimit(joining) ==
  total_voting_power > 0 =>
    joining <= (total_voting_power * IncreaseLimit) \div 100

Least(a, b) == IF a <= b THEN a ELSE b

\* Mutant: without assert_reconfig_not_in_progress.
GateOpen == TRUE

ReconfigNotInProgress == ~in_progress

-----------------------------------------------------------------------------
(* Transactions of owners and operators *)

AddStake(p, amount) ==
  LET counted == p \in active_validators \cup pending_active
      joining == total_joining_power + amount
      added == IF IsCurrentEpochValidator(p)
               THEN [stake_pool[p] EXCEPT !.pending_active = @ + amount]
               ELSE [stake_pool[p] EXCEPT !.active = @ + amount]
  IN /\ ReconfigNotInProgress
     /\ amount > 0
     /\ amount <= wallet[p]
     /\ counted => WithinIncreaseLimit(joining)
     /\ NextEpochPower(added) <= MaximumStake
     /\ total_joining_power' = IF counted THEN joining ELSE total_joining_power
     /\ stake_pool' = [stake_pool EXCEPT ![p] = added]
     /\ wallet' = [wallet EXCEPT ![p] = @ - amount]
     /\ UNCHANGED <<supply, set_vars, block_vars, minimum_stake, epoch_vars>>

Unlock(p, amount) ==
  LET s == stake_pool[p]
      unlocked == Least(amount, s.active)
  IN /\ ReconfigNotInProgress
     /\ stake_pool' = [stake_pool EXCEPT ![p] =
                         [s EXCEPT !.active = s.active - unlocked,
                                   !.pending_inactive = s.pending_inactive + unlocked]]
     /\ UNCHANGED <<wallet, supply, set_vars, total_joining_power, block_vars,
                    minimum_stake, epoch_vars>>

Reactivate(p, amount) ==
  LET s == stake_pool[p]
      moved == Least(amount, s.pending_inactive)
  IN /\ ReconfigNotInProgress
     /\ stake_pool' = [stake_pool EXCEPT ![p] =
                         [s EXCEPT !.active = s.active + moved,
                                   !.pending_inactive = s.pending_inactive - moved]]
     /\ UNCHANGED <<wallet, supply, set_vars, total_joining_power, block_vars,
                    minimum_stake, epoch_vars>>

\* Mutant: without waiting for the lockup.
MayFreePendingAnytime(p) == Inactive(p)

\* withdraw_with_cap first frees the pending_inactive stake that a pool which
\* left the set would otherwise never see again: when it may do so.
MayFreePending(p) == Inactive(p) /\ NowSeconds >= stake_pool[p].locked_until

Withdraw(p, amount) ==
  LET s == stake_pool[p]
      freed == IF MayFreePending(p)
               THEN [s EXCEPT !.inactive = @ + s.pending_inactive, !.pending_inactive = 0]
               ELSE s
      taken == Least(amount, freed.inactive)
  IN /\ ReconfigNotInProgress
     /\ stake_pool' = [stake_pool EXCEPT ![p] = [freed EXCEPT !.inactive = freed.inactive - taken]]
     /\ wallet' = [wallet EXCEPT ![p] = @ + taken]
     /\ UNCHANGED <<supply, set_vars, total_joining_power, block_vars, minimum_stake,
                    epoch_vars>>

\* increase_lockup_with_cap is the one owner call a reconfiguration does not stop.
IncreaseLockup(p) ==
  /\ stake_pool[p].locked_until < NowSeconds + LockupDuration
  /\ stake_pool' = [stake_pool EXCEPT ![p] =
                      [stake_pool[p] EXCEPT !.locked_until = NowSeconds + LockupDuration]]
  /\ UNCHANGED <<wallet, supply, set_vars, total_joining_power, block_vars,
                 minimum_stake, epoch_vars>>

\* Mutant: who is leaving may join again.
MayJoinUnlessActive(p) == p \notin active_validators \cup pending_active

MayJoin(p) == Inactive(p)

JoinValidatorSet(p) ==
  LET power == NextEpochPower(stake_pool[p])
      joining == total_joining_power + power
  IN /\ ReconfigNotInProgress
     /\ MayJoin(p)
     /\ minimum_stake <= power
     /\ power <= MaximumStake
     /\ WithinIncreaseLimit(joining)
     /\ Cardinality(active_validators) + Cardinality(pending_active) < MaxSetSize
     /\ total_joining_power' = joining
     /\ pending_active' = pending_active \cup {p}
     /\ voting_power' = [voting_power EXCEPT ![p] = power]
     /\ UNCHANGED <<stake_pool, wallet, supply, active_validators, pending_inactive,
                    total_voting_power, validator_index, block_vars, minimum_stake,
                    epoch_vars>>

LeavePendingActive(p) ==
  LET power == NextEpochPower(stake_pool[p])
  IN /\ ReconfigNotInProgress
     /\ p \in pending_active
     /\ pending_active' = pending_active \ {p}
     /\ voting_power' = [voting_power EXCEPT ![p] = 0]
     /\ total_joining_power' =
          IF total_joining_power > power THEN total_joining_power - power ELSE 0
     /\ UNCHANGED <<stake_pool, wallet, supply, active_validators, pending_inactive,
                    total_voting_power, validator_index, block_vars, minimum_stake,
                    epoch_vars>>

LeaveActive(p) ==
  /\ ReconfigNotInProgress
  /\ p \in active_validators \ pending_active
  /\ active_validators \ {p} # {}
  /\ active_validators' = active_validators \ {p}
  /\ pending_inactive' = pending_inactive \cup {p}
  /\ UNCHANGED <<stake_pool, wallet, supply, pending_active, voting_power,
                 total_voting_power, total_joining_power, validator_index, block_vars,
                 minimum_stake, epoch_vars>>

-----------------------------------------------------------------------------
(* Governance and the block prologue and epilogue *)

\* remove_validators skips the addresses that are not active, and may empty the set.
RemoveValidators(removed) ==
  /\ ReconfigNotInProgress
  /\ active_validators' = active_validators \ removed
  /\ pending_inactive' = pending_inactive \cup (active_validators \cap removed)
  /\ UNCHANGED <<stake_pool, wallet, supply, pending_active, voting_power,
                 total_voting_power, total_joining_power, validator_index, block_vars,
                 minimum_stake, epoch_vars>>

\* staking_config::update_required_stake
UpdateRequiredStake(minimum) ==
  /\ minimum <= MaximumStake
  /\ minimum_stake' = minimum
  /\ UNCHANGED <<stake_pool, wallet, supply, set_vars, total_joining_power, block_vars,
                 epoch_vars>>

\* A block: the clock, then update_performance_statistics.  `proposer` is the
\* index of the proposer, or the empty set for a NIL block, whose timestamp is
\* the previous one; `failed` the indices of the proposers that failed before.
BlockPrologue(proposer, failed) ==
  /\ now' = IF proposer = {} THEN now ELSE now + 1
  /\ now' <= MaxTick
  /\ performance' = [i \in DOMAIN performance |->
                       [successful |-> performance[i].successful
                                         + (IF i \in proposer THEN 1 ELSE 0),
                        failed |-> performance[i].failed
                                         + (IF i \in failed THEN 1 ELSE 0)]]
  /\ \A i \in DOMAIN performance :
       performance'[i].successful <= MaxProposals /\ performance'[i].failed <= MaxFailures
  /\ UNCHANGED <<stake_pool, wallet, supply, set_vars, total_joining_power, pending_fee,
                 minimum_stake, epoch_vars>>

\* The block epilogue's record_fee; it aborts for an index that has no entry.
RecordFee(index, fee) ==
  /\ index \in DOMAIN pending_fee
  /\ pending_fee[index] + fee <= MaxFee
  /\ pending_fee' = [pending_fee EXCEPT ![index] = @ + fee]
  /\ UNCHANGED <<stake_pool, wallet, supply, set_vars, total_joining_power, performance,
                 now, minimum_stake, epoch_vars>>

-----------------------------------------------------------------------------
(* The epoch change *)

\* get_reconfig_start_time_secs, while a reconfiguration runs or starts here
ReconfigStartTime == IF in_progress THEN start_time ELSE NowSeconds

\* calculate_rewards_amount at the index of pool p
RewardsAmount(p, stake) ==
  LET perf == performance[validator_index[p]]
      total == RewardsRateDenominator * (perf.successful + perf.failed)
  IN IF total > 0 THEN (stake * RewardsRate * perf.successful) \div total ELSE 0

HasFeeEntry(p) == validator_index[p] \in DOMAIN pending_fee

FeeAmount(p) == Least(pending_fee[validator_index[p]], FeeLimit)

\* The share of the fee that goes to the pending_inactive stake; the code
\* computes it, zero divisor or not, whenever the pool has an entry.
FeePendingInactive(p) ==
  LET s == stake_pool[p]
  IN IF HasFeeEntry(p) /\ s.active + s.pending_inactive > 0
     THEN (FeeAmount(p) * s.pending_inactive) \div (s.active + s.pending_inactive)
     ELSE 0

\* Mutant: the leavers' share paid twice.
FeeActiveInFull(p) == IF HasFeeEntry(p) THEN FeeAmount(p) ELSE 0

FeeActive(p) == IF HasFeeEntry(p) THEN FeeAmount(p) - FeePendingInactive(p) ELSE 0

MintedActive(p) ==
  RewardsAmount(p, stake_pool[p].active) + (IF DistributeFees THEN FeeActive(p) ELSE 0)

MintedPendingInactive(p) ==
  RewardsAmount(p, stake_pool[p].pending_inactive)
    + (IF DistributeFees THEN FeePendingInactive(p) ELSE 0)

\* Mutant: without emptying pending_active into active.
UpdateStakePoolKeepPending(p) ==
  LET s == stake_pool[p]
  IN [s EXCEPT !.active = @ + MintedActive(p) + s.pending_active]

UpdateStakePool(p) ==
  LET s == stake_pool[p]
      leaving == s.pending_inactive + MintedPendingInactive(p)
      expired == ReconfigStartTime >= s.locked_until
  IN [active |-> s.active + MintedActive(p) + s.pending_active,
      pending_active |-> 0,
      pending_inactive |-> IF expired THEN 0 ELSE leaving,
      inactive |-> IF expired THEN s.inactive + leaving ELSE s.inactive,
      locked_until |-> s.locked_until]

\* What makes on_new_epoch abort: an index outside the performance vector, a
\* fee entry for a pool without stake (the division), or an entry left over.
DividesByZero(p) ==
  HasFeeEntry(p) /\ stake_pool[p].active + stake_pool[p].pending_inactive = 0

FeeEntriesLeft ==
  DOMAIN pending_fee \ {validator_index[p] : p \in CurrentEpochValidators}

OnNewEpochAborts ==
  \/ \E p \in CurrentEpochValidators : validator_index[p] \notin DOMAIN performance
  \/ \E p \in CurrentEpochValidators : DividesByZero(p)
  \/ FeeEntriesLeft # {}

\* The pools after the rewards, and the validators of the next epoch: the ones
\* with the minimum stake or, when there is none, every candidate.
UpdatedPools ==
  [p \in Pools |-> IF IsCurrentEpochValidator(p) THEN UpdateStakePool(p) ELSE stake_pool[p]]

Candidates == active_validators \cup pending_active

NextValidators(pools) ==
  LET qualified == {p \in Candidates : NextEpochPower(pools[p]) >= minimum_stake}
  IN IF qualified # {} THEN qualified ELSE Candidates

\* Mutant: off by one at the reconfiguration's own second.
RenewedLockupStrict(s) ==
  IF s.locked_until < ReconfigStartTime
  THEN [s EXCEPT !.locked_until = NowSeconds + LockupDuration] ELSE s

\* Lockups of the next validators are renewed if they ended before the reconfiguration.
RenewedLockup(s) ==
  IF s.locked_until <= ReconfigStartTime
  THEN [s EXCEPT !.locked_until = NowSeconds + LockupDuration] ELSE s

\* The ways of numbering the members of S from 0.
Indexings(S) ==
  {f \in [S -> 0..(Cardinality(S) - 1)] :
     /\ \A p, q \in S : f[p] = f[q] => p = q
     /\ \A i \in 0..(Cardinality(S) - 1) : \E p \in S : f[p] = i}

NoProposals == [successful |-> 0, failed |-> 0]

\* Mutant: the old indices kept, new members numbered from 0 like everybody.
KeepIndices(next, index) == validator_index

AssignIndices(next, index) ==
  [p \in Pools |-> IF p \in next THEN index[p] ELSE validator_index[p]]

\* Mutant: total_joining_power not reset.
JoiningPowerKept == total_joining_power

JoiningPowerAfterEpoch == 0

MintedCoins ==
  SumFunctionOnSet([p \in CurrentEpochValidators |-> MintedActive(p) + MintedPendingInactive(p)],
                   CurrentEpochValidators)

TotalPower(pools, validators) ==
  SumFunctionOnSet([p \in validators |-> NextEpochPower(pools[p])], validators)

\* stake::on_new_epoch
OnNewEpoch ==
  LET pools == UpdatedPools
      next == NextValidators(pools)
  IN /\ ~OnNewEpochAborts
     /\ \E index \in Indexings(next) :
          /\ validator_index' = AssignIndices(next, index)
          /\ performance' = [i \in 0..(Cardinality(next) - 1) |-> NoProposals]
          /\ pending_fee' = [i \in {index[p] : p \in next} |-> 0]
     /\ stake_pool' = [p \in Pools |-> IF p \in next THEN RenewedLockup(pools[p])
                                                     ELSE pools[p]]
     /\ supply' = supply + MintedCoins
     /\ active_validators' = next
     /\ pending_active' = {}
     /\ pending_inactive' = {}
     /\ voting_power' = [p \in Pools |->
                           IF p \in next THEN NextEpochPower(pools[p]) ELSE 0]
     /\ total_voting_power' = TotalPower(pools, next)
     /\ total_joining_power' = JoiningPowerAfterEpoch

\* The voting power next_validator_consensus_infos foresees for a candidate.
SimulatedPower(p) ==
  LET s == stake_pool[p]
  IN s.active + s.pending_active
       + (IF ReconfigStartTime >= s.locked_until THEN 0 ELSE s.pending_inactive)
       + (IF p \in active_validators THEN RewardsAmount(p, s.active) ELSE 0)

NextValidatorConsensusInfos ==
  LET qualified == {p \in Candidates : SimulatedPower(p) >= minimum_stake}
  IN IF qualified # {} THEN qualified ELSE Candidates

\* reconfiguration_with_dkg::try_start
TryStart ==
  /\ ~in_progress
  /\ in_progress' = TRUE
  /\ start_time' = NowSeconds
  /\ dkg_target' = NextValidatorConsensusInfos
  /\ UNCHANGED <<stake_pool, wallet, supply, set_vars, total_joining_power, block_vars,
                 minimum_stake, epoch, last_reconfiguration_time>>

\* reconfiguration::reconfigure, at once or at the end of a DKG
Reconfigure ==
  /\ now # 0
  /\ now # last_reconfiguration_time
  /\ epoch < MaxEpoch
  /\ OnNewEpoch
  /\ in_progress' = FALSE
  /\ start_time' = 0
  /\ dkg_target' = {}
  /\ epoch' = epoch + 1
  /\ last_reconfiguration_time' = now
  /\ UNCHANGED <<wallet, now, minimum_stake>>

-----------------------------------------------------------------------------
EmptyPool == [active |-> 0, pending_active |-> 0, pending_inactive |-> 0, inactive |-> 0,
              locked_until |-> 0]

\* The state genesis leaves: the first validators active, their lockup running.
Init ==
  /\ stake_pool = [p \in Pools |->
       IF p \in Genesis
       THEN [EmptyPool EXCEPT !.active = GenesisStake, !.locked_until = LockupDuration]
       ELSE EmptyPool]
  /\ wallet = Grant
  /\ supply = SumFunctionOnSet(Grant, Pools) + GenesisStake * Cardinality(Genesis)
  /\ active_validators = Genesis
  /\ pending_active = {}
  /\ pending_inactive = {}
  /\ voting_power = [p \in Pools |-> IF p \in Genesis THEN GenesisStake ELSE 0]
  /\ total_voting_power = GenesisStake * Cardinality(Genesis)
  /\ total_joining_power = 0
  /\ \E index \in Indexings(Genesis) :
       /\ validator_index = [p \in Pools |-> IF p \in Genesis THEN index[p] ELSE 0]
       /\ performance = [i \in 0..(Cardinality(Genesis) - 1) |-> NoProposals]
       /\ pending_fee = [i \in {index[p] : p \in Genesis} |-> 0]
  /\ minimum_stake \in {m \in MinimumStakes : m <= GenesisStake}
  /\ now = 0
  /\ in_progress = FALSE
  /\ start_time = 0
  /\ dkg_target = {}
  /\ epoch = 1
  /\ last_reconfiguration_time = 0

OwnerStep(p) ==
  \/ \E amount \in Amounts : AddStake(p, amount)
  \/ \E amount \in Amounts : Unlock(p, amount)
  \/ \E amount \in Amounts : Reactivate(p, amount)
  \/ \E amount \in Amounts : Withdraw(p, amount)
  \/ IncreaseLockup(p)

OperatorStep(p) ==
  \/ JoinValidatorSet(p)
  \/ LeavePendingActive(p)
  \/ LeaveActive(p)

Next ==
  \/ \E p \in Pools : OwnerStep(p)
  \/ \E p \in Pools : OperatorStep(p)
  \/ \E removed \in SUBSET Pools : RemoveValidators(removed)
  \/ \E minimum \in MinimumStakes : UpdateRequiredStake(minimum)
  \/ \E failed \in SUBSET (DOMAIN performance) : BlockPrologue({}, failed)
  \/ \E i \in DOMAIN performance : \E failed \in SUBSET (DOMAIN performance) :
       BlockPrologue({i}, failed)
  \/ \E index \in DOMAIN performance : \E fee \in 1..MaxFee : RecordFee(index, fee)
  \/ TryStart
  \/ Reconfigure

Spec == Init /\ [][Next]_vars
-----------------------------------------------------------------------------
(* Properties *)

StakePoolType ==
  [active : Nat, pending_active : Nat, pending_inactive : Nat, inactive : Nat,
   locked_until : Nat]

PerformanceType == [successful : Nat, failed : Nat]

\* Every variable keeps its type.  supply and total_voting_power are sums, which
\* CoinsAreConserved and TotalPowerIsTheirPower determine.
TypeOK ==
  /\ stake_pool \in [Pools -> StakePoolType]
  /\ wallet \in [Pools -> Nat]
  /\ active_validators \subseteq Pools
  /\ pending_active \subseteq Pools
  /\ pending_inactive \subseteq Pools
  /\ voting_power \in [Pools -> Nat]
  /\ total_joining_power \in Nat
  /\ validator_index \in [Pools -> Nat]
  /\ DOMAIN performance \subseteq Nat
  /\ performance \in [DOMAIN performance -> PerformanceType]
  /\ DOMAIN pending_fee \subseteq Nat
  /\ pending_fee \in [DOMAIN pending_fee -> Nat]
  /\ minimum_stake \in Nat
  /\ now \in Nat
  /\ in_progress \in BOOLEAN /\ start_time \in Nat
  /\ dkg_target \subseteq Pools
  /\ epoch \in Nat /\ last_reconfiguration_time \in Nat

\* A pool has one standing: find_validator meets it in at most one of the vectors.
OneStanding ==
  /\ active_validators \cap pending_active = {}
  /\ active_validators \cap pending_inactive = {}
  /\ pending_active \cap pending_inactive = {}

\* Through joins, leaves and removals, the indices of the current epoch's validators
\* (the leavers included) stay a numbering of the performance vector and of the fee
\* table: on_new_epoch reads every validator's own score and fee, and no entry is left.
IndicesNumberTheEpoch ==
  /\ \A p, q \in CurrentEpochValidators : validator_index[p] = validator_index[q] => p = q
  /\ {validator_index[p] : p \in CurrentEpochValidators} = DOMAIN performance
  /\ DOMAIN pending_fee = DOMAIN performance

\* The power a validator votes with is staked all through the epoch: no unlock, withdrawal
\* or exit of a current-epoch validator takes a coin from under ValidatorInfo.voting_power.
VotingPowerIsStaked ==
  \A p \in CurrentEpochValidators :
    voting_power[p] = stake_pool[p].active + stake_pool[p].pending_inactive

\* total_voting_power, the quorum's denominator, is the power of the current validators.
TotalPowerIsTheirPower ==
  total_voting_power = SumFunctionOnSet(voting_power, CurrentEpochValidators)

\* pending_active coins exist only in the pool of a current-epoch validator: nowhere else
\* would an epoch change ever pick them up.
PendingActiveIsPickedUp ==
  \A p \in Pools : stake_pool[p].pending_active > 0 => p \in CurrentEpochValidators

\* The pending_active coins of each pool, and the power each would have in the next epoch.
PendingStake == [p \in Pools |-> stake_pool[p].pending_active]

NextPower == [p \in Pools |-> NextEpochPower(stake_pool[p])]

JoiningPower ==
  SumFunctionOnSet(NextPower, pending_active) + SumFunctionOnSet(PendingStake, active_validators)

\* total_joining_power counts all the stake that joins at the next epoch, once, and beyond it
\* at most the new stake of the leavers: the saturating subtraction of leave_validator_set
\* never loses count.
JoiningPowerIsCounted ==
  /\ JoiningPower <= total_joining_power
  /\ total_joining_power <= JoiningPower + SumFunctionOnSet(PendingStake, pending_inactive)

\* However joins, exits and additions interleave, the stake that joins at the next epoch
\* stays within voting_power_increase_limit of the power that votes now.
IncreaseStaysWithinLimit ==
  total_voting_power > 0 =>
    JoiningPower <= (total_voting_power * IncreaseLimit) \div 100

\* The three powers the set keeps agree with the pools they are sums of, whatever joined, left
\* or added stake in between.
PowersAreCounted == TotalPowerIsTheirPower /\ JoiningPowerIsCounted /\ IncreaseStaysWithinLimit

PoolCoins(s) == s.active + s.pending_active + s.pending_inactive + s.inactive

\* What each owner has, in its wallet and in its pool.
CoinsOf == [p \in Pools |-> wallet[p] + PoolCoins(stake_pool[p])]

\* Coins move between owners and stores and are minted by rewards and fees: none is lost
\* or made twice.
CoinsAreConserved ==
  supply = SumFunctionOnSet(CoinsOf, Pools)

\* At the epoch change every current validator, leavers included, gets its rewards and the
\* fee recorded under its own index, capped and once, and nobody else gets anything.
FeesArePaidOnce ==
  epoch' # epoch => \A p \in Pools :
    PoolCoins(stake_pool'[p]) = PoolCoins(stake_pool[p]) +
      IF p \in CurrentEpochValidators
      THEN RewardsAmount(p, stake_pool[p].active)
             + RewardsAmount(p, stake_pool[p].pending_inactive)
             + (IF DistributeFees THEN Least(pending_fee[validator_index[p]], FeeLimit) ELSE 0)
      ELSE 0

\* No step takes a coin from an owner: wallet and pool together never shrink, whoever acts.
OwnersLoseNothing ==
  \A p \in Pools :
    wallet[p] + PoolCoins(stake_pool[p]) <= wallet'[p] + PoolCoins(stake_pool'[p])

\* Every coin has an owner in every step: none is lost or made twice, an epoch pays exactly the
\* rewards and the capped fees it owes, and nobody pays for it.
CoinsAreAccountedFor ==
  CoinsAreConserved /\ [][CoinsAreConserved' /\ FeesArePaidOnce /\ OwnersLoseNothing]_vars

\* Stake stops counting as stake (it becomes inactive or is withdrawn) only when its lockup
\* has ended, measured at the reconfiguration's start in an epoch change.
StakeIsHeldUntilLockupEnds ==
  [][\A p \in Pools :
       NextEpochPower(stake_pool'[p]) < NextEpochPower(stake_pool[p]) =>
         stake_pool[p].locked_until <= ReconfigStartTime]_vars

\* The inputs of the DKG hold still while it runs: a started reconfiguration leaves the
\* validator set and every coin of every pool alone until the epoch changes.
NothingMovesDuringReconfiguration ==
  [][in_progress /\ epoch' = epoch =>
       /\ UNCHANGED <<set_vars, wallet>>
       /\ \A p \in Pools : [stake_pool'[p] EXCEPT !.locked_until = 0]
                             = [stake_pool[p] EXCEPT !.locked_until = 0]]_vars

\* An epoch that has active validators is not followed by one that has none.
EpochKeepsValidators ==
  active_validators # {} => active_validators' # {} \/ epoch' = epoch

\* Everyone who validates in the new epoch has a lockup beyond the reconfiguration's start.
ValidatorsEnterLocked ==
  epoch' # epoch =>
    \A p \in active_validators' : stake_pool'[p].locked_until > ReconfigStartTime

\* An epoch change admits exactly those who may validate: somebody, and nobody whose stake
\* could be withdrawn during the epoch.
EpochAdmitsTheEligible == [][EpochKeepsValidators /\ ValidatorsEnterLocked]_vars

\* "This function shouldn't abort" (stake.move:1328, :1777): in every state where an epoch
\* change may be due, on_new_epoch goes through.
OnNewEpochCannotAbort == ~OnNewEpochAborts

\* The DKG session is dealt to the validators of the next epoch: next_validator_consensus_infos
\* foresees ("Mirror on_new_epoch's", stake.move:1634) the set on_new_epoch then installs.
DkgTargetIsNextValidatorSet ==
  [][in_progress /\ epoch' # epoch => active_validators' = dkg_target]_vars
=============================================================================
