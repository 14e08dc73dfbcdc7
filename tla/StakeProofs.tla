---------------------------- MODULE StakeProofs ----------------------------
(***************************************************************************)
(* What holds of Stake for all pools, amounts, rates and durations.        *)
(* StakeInv is inductive: the voting power of a validator is covered by its *)
(* stake only because nobody outside the current set has pending_active    *)
(* coins, which in turn needs each pool to have one standing.  The action  *)
(* properties follow from StakeInv and from the fact that a running        *)
(* reconfiguration started no later than now (StepInv).  The sums come     *)
(* next: the powers the validator set keeps are the sums they stand for,   *)
(* the stake that joins stays within the limit, and every coin is          *)
(* accounted for.  With the same sums, what holds of the proposals of      *)
(* Governance: the power used on one is that of pools whose stake cannot   *)
(* leave before the vote is over (GovernanceInv).                          *)
(***************************************************************************)
EXTENDS Stake, Governance, FiniteSetTheorems, WellFoundedInduction, TLAPS

StakeInv ==
  /\ TypeOK
  /\ OneStanding
  /\ PendingActiveIsPickedUp
  /\ VotingPowerIsStaked
  /\ IndicesNumberTheEpoch

\* Dividing naturals gives a natural.
LEMMA DivNat ==
  ASSUME NEW a \in Nat, NEW b \in Nat, b > 0
  PROVE  a \div b \in Nat
OBVIOUS

\* The smaller of two naturals.
LEMMA LeastNat ==
  ASSUME NEW a \in Nat, NEW b \in Nat
  PROVE  Least(a, b) \in Nat /\ Least(a, b) <= a /\ Least(a, b) <= b
BY DEF Least

\* Rewards of a pool whose index lies in the performance vector.
LEMMA RewardsNat ==
  ASSUME TypeOK, NEW p \in Pools, validator_index[p] \in DOMAIN performance,
         NEW amount \in Nat
  PROVE  RewardsAmount(p, amount) \in Nat
<1> DEFINE perf == performance[validator_index[p]]
           total == RewardsRateDenominator * (perf.successful + perf.failed)
<1>1. perf \in PerformanceType
  BY DEF TypeOK
<1>2. perf.successful \in Nat /\ perf.failed \in Nat
  BY <1>1 DEF PerformanceType
<1>3. total \in Nat
  BY <1>2, AmountAssumption
<1>4. amount * RewardsRate * perf.successful \in Nat
  BY <1>2, AmountAssumption
<1> HIDE DEF total
<1>5. total > 0 => (amount * RewardsRate * perf.successful) \div total \in Nat
  BY <1>3, <1>4, DivNat
<1> QED
  BY <1>5 DEF RewardsAmount, total

\* A share of a natural is a natural no larger than the whole.
LEMMA ShareNat ==
  ASSUME NEW f \in Nat, NEW a \in Nat, NEW b \in Nat, a + b > 0
  PROVE  (f * b) \div (a + b) \in Nat /\ (f * b) \div (a + b) <= f
<1> DEFINE q == (f * b) \div (a + b)
           n == a + b
<1>1. f * b \in Nat /\ n \in Nat /\ n > 0 /\ b <= n
  OBVIOUS
<1>2. q \in Nat
  BY <1>1, DivNat
<1>3. q * n <= f * b
  BY <1>1
<1>4. f * b <= f * n
  BY <1>1
<1>5. q * n <= f * n
  <2>1. q * n \in Nat /\ f * n \in Nat
    BY <1>1, <1>2
  <2> QED
    BY <1>3, <1>4, <1>1, <2>1
<1> HIDE DEF q, n
<1>6. q <= f
  <2> SUFFICES ASSUME q >= f + 1 PROVE FALSE
    BY <1>2
  <2>1. q * n >= (f + 1) * n
    BY <1>1, <1>2
  <2>2. (f + 1) * n = f * n + n
    BY <1>1
  <2> QED
    BY <2>1, <2>2, <1>5, <1>1, <1>2
<1> QED
  BY <1>2, <1>6 DEF q, n

-----------------------------------------------------------------------------
\* A current-epoch pool is never charged at the epoch change: rewards and fees add to it.
LEMMA MintedNat ==
  ASSUME StakeInv, NEW p \in CurrentEpochValidators
  PROVE  MintedActive(p) \in Nat /\ MintedPendingInactive(p) \in Nat
<1> DEFINE s == stake_pool[p]
<1>1. p \in Pools
  BY DEF StakeInv, TypeOK, CurrentEpochValidators
<1>2. s \in StakePoolType
  BY <1>1 DEF StakeInv, TypeOK
<1>3. /\ s.active \in Nat /\ s.pending_active \in Nat /\ s.pending_inactive \in Nat
      /\ s.inactive \in Nat /\ s.locked_until \in Nat
  BY <1>2 DEF StakePoolType
<1>4. validator_index[p] \in DOMAIN performance
  BY DEF StakeInv, IndicesNumberTheEpoch
<1>5. RewardsAmount(p, s.active) \in Nat /\ RewardsAmount(p, s.pending_inactive) \in Nat
  BY <1>1, <1>3, <1>4, RewardsNat DEF StakeInv
<1>6. HasFeeEntry(p) => FeeAmount(p) \in Nat
  <2>1. HasFeeEntry(p) => pending_fee[validator_index[p]] \in Nat
    BY DEF HasFeeEntry, StakeInv, TypeOK
  <2> QED
    BY <2>1, LeastNat, AmountAssumption DEF FeeAmount
<1>7. /\ FeePendingInactive(p) \in Nat
      /\ HasFeeEntry(p) => FeePendingInactive(p) <= FeeAmount(p)
  <2>1. CASE HasFeeEntry(p) /\ s.active + s.pending_inactive > 0
    BY <2>1, <1>3, <1>6, ShareNat DEF FeePendingInactive
  <2>2. CASE ~(HasFeeEntry(p) /\ s.active + s.pending_inactive > 0)
    BY <2>2, <1>6 DEF FeePendingInactive
  <2> QED
    BY <2>1, <2>2
<1>8. FeeActive(p) \in Nat
  BY <1>6, <1>7 DEF FeeActive
<1>9. MintedActive(p) \in Nat
  BY <1>5, <1>8 DEF MintedActive
<1>10. MintedPendingInactive(p) \in Nat
  BY <1>5, <1>7 DEF MintedPendingInactive
<1> QED
  BY <1>9, <1>10

\* What update_stake_pool does to a current-epoch pool, when on_new_epoch does not abort.
LEMMA UpdateStakePoolType ==
  ASSUME StakeInv, NEW p \in CurrentEpochValidators
  PROVE  /\ UpdateStakePool(p) \in StakePoolType
         /\ UpdateStakePool(p).pending_active = 0
<1> DEFINE s == stake_pool[p]
<1>1. s \in StakePoolType
  BY DEF StakeInv, TypeOK, CurrentEpochValidators
<1>2. /\ s.active \in Nat /\ s.pending_active \in Nat /\ s.pending_inactive \in Nat
      /\ s.inactive \in Nat /\ s.locked_until \in Nat
  BY <1>1 DEF StakePoolType
<1>3. s.active + MintedActive(p) + s.pending_active \in Nat
  BY <1>2, MintedNat
<1>4. s.pending_inactive + MintedPendingInactive(p) \in Nat
  BY <1>2, MintedNat
<1>5. s.inactive + (s.pending_inactive + MintedPendingInactive(p)) \in Nat
  BY <1>2, <1>4
<1> QED
  BY <1>2, <1>3, <1>4, <1>5 DEF UpdateStakePool, StakePoolType

\* After the update every pool is well formed, and only pools outside the current
\* epoch's set, which had no pending_active coins, are left as they were.
LEMMA UpdatedPoolsType ==
  ASSUME StakeInv
  PROVE  /\ UpdatedPools \in [Pools -> StakePoolType]
         /\ \A p \in Pools : UpdatedPools[p].pending_active = 0
<1> SUFFICES ASSUME NEW p \in Pools
             PROVE  /\ UpdatedPools[p] \in StakePoolType
                    /\ UpdatedPools[p].pending_active = 0
  BY DEF UpdatedPools
<1>1. CASE p \in CurrentEpochValidators
  BY <1>1, UpdateStakePoolType DEF UpdatedPools, IsCurrentEpochValidator
<1>2. CASE p \notin CurrentEpochValidators
  <2>1. stake_pool[p] \in StakePoolType
    BY DEF StakeInv, TypeOK
  <2>2. stake_pool[p].pending_active \in Nat
    BY <2>1 DEF StakePoolType
  <2>3. ~(stake_pool[p].pending_active > 0)
    BY <1>2 DEF StakeInv, PendingActiveIsPickedUp
  <2> QED
    BY <1>2, <2>1, <2>2, <2>3 DEF UpdatedPools, IsCurrentEpochValidator
<1> QED
  BY <1>1, <1>2

-----------------------------------------------------------------------------
\* A step that changes one pool and not the set keeps StakeInv, if a pool of the current
\* set keeps its voting stake and any other gets no pending_active coins.
LEMMA OnePoolStep ==
  ASSUME StakeInv, NEW p \in Pools, NEW t \in StakePoolType,
         stake_pool' = [stake_pool EXCEPT ![p] = t],
         wallet' \in [Pools -> Nat],
         total_joining_power' \in Nat,
         UNCHANGED <<set_vars, block_vars, minimum_stake, epoch_vars>>,
         t.pending_active > 0 => p \in CurrentEpochValidators,
         p \in CurrentEpochValidators =>
           t.active + t.pending_inactive
             = stake_pool[p].active + stake_pool[p].pending_inactive
  PROVE  StakeInv'
<1>1. /\ active_validators' = active_validators /\ pending_active' = pending_active
      /\ pending_inactive' = pending_inactive /\ voting_power' = voting_power
      /\ validator_index' = validator_index
      /\ performance' = performance /\ pending_fee' = pending_fee
  BY DEF set_vars, block_vars
<1>2. TypeOK'
  BY DEF StakeInv, TypeOK, set_vars, block_vars, epoch_vars
<1>3. stake_pool'[p] = t /\ \A q \in Pools \ {p} : stake_pool'[q] = stake_pool[q]
  BY DEF StakeInv, TypeOK
<1>4. CurrentEpochValidators' = CurrentEpochValidators /\ CurrentEpochValidators \subseteq Pools
  BY <1>1 DEF CurrentEpochValidators, StakeInv, TypeOK
<1>5. PendingActiveIsPickedUp'
  BY <1>3, <1>4 DEF StakeInv, PendingActiveIsPickedUp
<1>6. VotingPowerIsStaked'
  BY <1>1, <1>3, <1>4 DEF StakeInv, VotingPowerIsStaked
<1>7. OneStanding' /\ IndicesNumberTheEpoch'
  BY <1>1, <1>4 DEF StakeInv, OneStanding, IndicesNumberTheEpoch
<1> QED
  BY <1>2, <1>5, <1>6, <1>7 DEF StakeInv

\* The fields of a pool, as naturals.
LEMMA PoolFields ==
  ASSUME TypeOK, NEW p \in Pools
  PROVE  /\ stake_pool[p] \in StakePoolType
         /\ stake_pool[p].active \in Nat /\ stake_pool[p].pending_active \in Nat
         /\ stake_pool[p].pending_inactive \in Nat /\ stake_pool[p].inactive \in Nat
         /\ stake_pool[p].locked_until \in Nat
<1>1. stake_pool[p] \in StakePoolType
  BY DEF TypeOK
<1> QED
  BY <1>1 DEF StakePoolType

LEMMA AddStakeInv ==
  ASSUME StakeInv, NEW p \in Pools, NEW amount \in Amounts, AddStake(p, amount)
  PROVE  StakeInv'
<1> DEFINE s == stake_pool[p]
           t == IF IsCurrentEpochValidator(p)
                THEN [s EXCEPT !.pending_active = s.pending_active + amount]
                ELSE [s EXCEPT !.active = s.active + amount]
<1>1. amount \in Nat /\ s \in StakePoolType /\ s.active \in Nat /\ s.pending_active \in Nat
  BY PoolFields, AmountAssumption DEF StakeInv
<1>2. s.pending_active + amount \in Nat /\ s.active + amount \in Nat
  BY <1>1
<1>3. t \in StakePoolType
  BY <1>1, <1>2 DEF StakePoolType
<1>4. stake_pool' = [stake_pool EXCEPT ![p] = t]
  BY DEF AddStake
<1>5. wallet' \in [Pools -> Nat]
  <2>1. wallet[p] \in Nat /\ amount <= wallet[p]
    BY DEF AddStake, StakeInv, TypeOK
  <2> QED
    BY <1>1, <2>1 DEF AddStake, StakeInv, TypeOK
<1>6. total_joining_power' \in Nat
  BY <1>1 DEF AddStake, StakeInv, TypeOK
<1>7. t.pending_active > 0 => p \in CurrentEpochValidators
  <2>1. CASE ~IsCurrentEpochValidator(p)
    <3>1. t.pending_active = s.pending_active
      BY <2>1, <1>1 DEF StakePoolType
    <3> QED
      BY <3>1 DEF StakeInv, PendingActiveIsPickedUp
  <2> QED
    BY <2>1 DEF IsCurrentEpochValidator
<1>8. p \in CurrentEpochValidators => t.active + t.pending_inactive = s.active + s.pending_inactive
  <2>1. CASE IsCurrentEpochValidator(p)
    BY <2>1, <1>1 DEF StakePoolType
  <2> QED
    BY <2>1 DEF IsCurrentEpochValidator
<1>9. UNCHANGED <<set_vars, block_vars, minimum_stake, epoch_vars>>
  BY DEF AddStake
<1> HIDE DEF t
<1> QED
  BY <1>3, <1>4, <1>5, <1>6, <1>7, <1>8, <1>9, OnePoolStep

LEMMA UnlockInv ==
  ASSUME StakeInv, NEW p \in Pools, NEW amount \in Amounts, Unlock(p, amount)
  PROVE  StakeInv'
<1> DEFINE s == stake_pool[p]
           n == Least(amount, s.active)
           t == [s EXCEPT !.active = s.active - n, !.pending_inactive = s.pending_inactive + n]
<1>1. /\ amount \in Nat /\ s \in StakePoolType
      /\ s.active \in Nat /\ s.pending_inactive \in Nat
  BY PoolFields, AmountAssumption DEF StakeInv
<1>2. n \in Nat /\ n <= s.active
  BY <1>1, LeastNat
<1>3. stake_pool' = [stake_pool EXCEPT ![p] = t]
  BY DEF Unlock
<1> HIDE DEF n
<1>4. s.active - n \in Nat /\ s.pending_inactive + n \in Nat
  BY <1>1, <1>2
<1>5. t \in StakePoolType
  BY <1>1, <1>4 DEF StakePoolType
<1>6. /\ t.pending_active = s.pending_active
      /\ t.active = s.active - n /\ t.pending_inactive = s.pending_inactive + n
  BY <1>1 DEF StakePoolType
<1> HIDE DEF t
<1>7. t.active + t.pending_inactive = s.active + s.pending_inactive
  BY <1>1, <1>2, <1>6
<1>8. t.pending_active > 0 => p \in CurrentEpochValidators
  BY <1>6 DEF StakeInv, PendingActiveIsPickedUp
<1>9. /\ UNCHANGED <<set_vars, block_vars, minimum_stake, epoch_vars>>
      /\ wallet' \in [Pools -> Nat] /\ total_joining_power' \in Nat
  BY DEF Unlock, StakeInv, TypeOK
<1> QED
  BY <1>3, <1>5, <1>7, <1>8, <1>9, OnePoolStep

LEMMA ReactivateInv ==
  ASSUME StakeInv, NEW p \in Pools, NEW amount \in Amounts, Reactivate(p, amount)
  PROVE  StakeInv'
<1> DEFINE s == stake_pool[p]
           n == Least(amount, s.pending_inactive)
           t == [s EXCEPT !.active = s.active + n, !.pending_inactive = s.pending_inactive - n]
<1>1. /\ amount \in Nat /\ s \in StakePoolType
      /\ s.active \in Nat /\ s.pending_inactive \in Nat
  BY PoolFields, AmountAssumption DEF StakeInv
<1>2. n \in Nat /\ n <= s.pending_inactive
  BY <1>1, LeastNat
<1>3. stake_pool' = [stake_pool EXCEPT ![p] = t]
  BY DEF Reactivate
<1> HIDE DEF n
<1>4. s.active + n \in Nat /\ s.pending_inactive - n \in Nat
  BY <1>1, <1>2
<1>5. t \in StakePoolType
  BY <1>1, <1>4 DEF StakePoolType
<1>6. /\ t.pending_active = s.pending_active
      /\ t.active = s.active + n /\ t.pending_inactive = s.pending_inactive - n
  BY <1>1 DEF StakePoolType
<1> HIDE DEF t
<1>7. t.active + t.pending_inactive = s.active + s.pending_inactive
  BY <1>1, <1>2, <1>6
<1>8. t.pending_active > 0 => p \in CurrentEpochValidators
  BY <1>6 DEF StakeInv, PendingActiveIsPickedUp
<1>9. /\ UNCHANGED <<set_vars, block_vars, minimum_stake, epoch_vars>>
      /\ wallet' \in [Pools -> Nat] /\ total_joining_power' \in Nat
  BY DEF Reactivate, StakeInv, TypeOK
<1> QED
  BY <1>3, <1>5, <1>7, <1>8, <1>9, OnePoolStep

\* Only a pool outside the set loses its pending_inactive coins to a withdrawal.
LEMMA WithdrawInv ==
  ASSUME StakeInv, NEW p \in Pools, NEW amount \in Amounts, Withdraw(p, amount)
  PROVE  StakeInv'
<1> DEFINE s == stake_pool[p]
           freed == IF MayFreePending(p)
                    THEN [s EXCEPT !.inactive = s.inactive + s.pending_inactive,
                                   !.pending_inactive = 0]
                    ELSE s
           taken == Least(amount, freed.inactive)
           t == [freed EXCEPT !.inactive = freed.inactive - taken]
<1>1. /\ amount \in Nat /\ s \in StakePoolType
      /\ s.active \in Nat /\ s.pending_inactive \in Nat /\ s.inactive \in Nat
  BY PoolFields, AmountAssumption DEF StakeInv
<1>2. s.inactive + s.pending_inactive \in Nat
  BY <1>1
<1>3. freed \in StakePoolType
  BY <1>1, <1>2 DEF StakePoolType
<1>4. /\ freed.active = s.active /\ freed.pending_active = s.pending_active
      /\ ~MayFreePending(p) => freed.pending_inactive = s.pending_inactive
  BY <1>1 DEF StakePoolType
<1>5. /\ stake_pool' = [stake_pool EXCEPT ![p] = t]
      /\ wallet' = [wallet EXCEPT ![p] = wallet[p] + taken]
  BY DEF Withdraw
<1> HIDE DEF freed
<1>6. freed.inactive \in Nat
  BY <1>3 DEF StakePoolType
<1>7. taken \in Nat /\ taken <= freed.inactive
  BY <1>1, <1>6, LeastNat
<1> HIDE DEF taken
<1>8. freed.inactive - taken \in Nat
  BY <1>6, <1>7
<1>9. /\ t \in StakePoolType
      /\ t.active = freed.active /\ t.pending_active = freed.pending_active
      /\ t.pending_inactive = freed.pending_inactive
  BY <1>3, <1>8 DEF StakePoolType
<1> HIDE DEF t
<1>10. MayFreePending(p) => p \notin CurrentEpochValidators
  BY DEF MayFreePending, Inactive, CurrentEpochValidators
<1>11. p \in CurrentEpochValidators => t.active + t.pending_inactive = s.active + s.pending_inactive
  BY <1>4, <1>9, <1>10
<1>12. t.pending_active > 0 => p \in CurrentEpochValidators
  BY <1>4, <1>9 DEF StakeInv, PendingActiveIsPickedUp
<1>13. /\ UNCHANGED <<set_vars, block_vars, minimum_stake, epoch_vars>>
       /\ total_joining_power' \in Nat
  BY DEF Withdraw, StakeInv, TypeOK
<1>14. wallet' \in [Pools -> Nat]
  BY <1>5, <1>7 DEF StakeInv, TypeOK
<1> QED
  BY <1>5, <1>9, <1>11, <1>12, <1>13, <1>14, OnePoolStep

LEMMA IncreaseLockupInv ==
  ASSUME StakeInv, NEW p \in Pools, IncreaseLockup(p)
  PROVE  StakeInv'
<1> DEFINE s == stake_pool[p]
           t == [s EXCEPT !.locked_until = NowSeconds + LockupDuration]
<1>1. s \in StakePoolType
  BY PoolFields DEF StakeInv
<1>2. NowSeconds + LockupDuration \in Nat
  BY TimeAssumption, DivNat DEF NowSeconds, StakeInv, TypeOK
<1>3. /\ t \in StakePoolType
      /\ t.active = s.active /\ t.pending_active = s.pending_active
      /\ t.pending_inactive = s.pending_inactive
  BY <1>1, <1>2 DEF StakePoolType
<1>4. stake_pool' = [stake_pool EXCEPT ![p] = t]
  BY DEF IncreaseLockup
<1> HIDE DEF t
<1>5. t.pending_active > 0 => p \in CurrentEpochValidators
  BY <1>3 DEF StakeInv, PendingActiveIsPickedUp
<1>6. /\ UNCHANGED <<set_vars, block_vars, minimum_stake, epoch_vars>>
      /\ wallet' \in [Pools -> Nat] /\ total_joining_power' \in Nat
  BY DEF IncreaseLockup, StakeInv, TypeOK
<1> QED
  BY <1>3, <1>4, <1>5, <1>6, OnePoolStep

-----------------------------------------------------------------------------
\* A step that moves pools between the vectors keeps StakeInv, if it keeps who validates
\* in this epoch and with what power.
LEMMA SetStep ==
  ASSUME StakeInv,
         active_validators' \subseteq Pools, pending_active' \subseteq Pools,
         pending_inactive' \subseteq Pools,
         OneStanding',
         CurrentEpochValidators' = CurrentEpochValidators,
         voting_power' \in [Pools -> Nat],
         \A p \in CurrentEpochValidators : voting_power'[p] = voting_power[p],
         total_joining_power' \in Nat,
         UNCHANGED <<stake_pool, wallet, validator_index, block_vars, minimum_stake, epoch_vars>>
  PROVE  StakeInv'
<1>1. TypeOK'
  BY DEF StakeInv, TypeOK, block_vars, epoch_vars
<1>2. PendingActiveIsPickedUp' /\ VotingPowerIsStaked'
  BY DEF StakeInv, PendingActiveIsPickedUp, VotingPowerIsStaked
<1>3. IndicesNumberTheEpoch'
  BY DEF StakeInv, IndicesNumberTheEpoch, block_vars
<1> QED
  BY <1>1, <1>2, <1>3 DEF StakeInv

LEMMA JoinInv ==
  ASSUME StakeInv, NEW p \in Pools, JoinValidatorSet(p)
  PROVE  StakeInv'
<1> DEFINE next == NextEpochPower(stake_pool[p])
<1>1. next \in Nat
  BY PoolFields DEF StakeInv, NextEpochPower
<1>2. /\ p \notin active_validators /\ p \notin pending_active /\ p \notin pending_inactive
      /\ pending_active' = pending_active \cup {p}
      /\ active_validators' = active_validators /\ pending_inactive' = pending_inactive
      /\ voting_power' = [voting_power EXCEPT ![p] = next]
      /\ total_joining_power' = total_joining_power + next
  BY DEF JoinValidatorSet, MayJoin, Inactive
<1>3. UNCHANGED <<stake_pool, wallet, validator_index, block_vars, minimum_stake, epoch_vars>>
  BY DEF JoinValidatorSet
<1> HIDE DEF next
<1>4. OneStanding'
  BY <1>2 DEF StakeInv, OneStanding
<1>5. CurrentEpochValidators' = CurrentEpochValidators /\ p \notin CurrentEpochValidators
  BY <1>2 DEF CurrentEpochValidators
<1>6. voting_power' \in [Pools -> Nat] /\ total_joining_power' \in Nat
  BY <1>1, <1>2 DEF StakeInv, TypeOK
<1>7. \A q \in CurrentEpochValidators : voting_power'[q] = voting_power[q]
  BY <1>2, <1>5 DEF StakeInv, TypeOK, CurrentEpochValidators
<1>8. /\ active_validators' \subseteq Pools /\ pending_active' \subseteq Pools
      /\ pending_inactive' \subseteq Pools
  BY <1>2 DEF StakeInv, TypeOK
<1> QED
  BY <1>3, <1>4, <1>5, <1>6, <1>7, <1>8, SetStep

LEMMA LeavePendingActiveInv ==
  ASSUME StakeInv, NEW p \in Pools, LeavePendingActive(p)
  PROVE  StakeInv'
<1> DEFINE next == NextEpochPower(stake_pool[p])
<1>1. next \in Nat
  BY PoolFields DEF StakeInv, NextEpochPower
<1>2. /\ p \in pending_active /\ pending_active' = pending_active \ {p}
      /\ active_validators' = active_validators /\ pending_inactive' = pending_inactive
      /\ voting_power' = [voting_power EXCEPT ![p] = 0]
      /\ total_joining_power' =
           IF total_joining_power > next THEN total_joining_power - next ELSE 0
  BY DEF LeavePendingActive
<1>3. UNCHANGED <<stake_pool, wallet, validator_index, block_vars, minimum_stake, epoch_vars>>
  BY DEF LeavePendingActive
<1> HIDE DEF next
<1>4. OneStanding'
  BY <1>2 DEF StakeInv, OneStanding
<1>5. CurrentEpochValidators' = CurrentEpochValidators /\ p \notin CurrentEpochValidators
  BY <1>2 DEF CurrentEpochValidators, StakeInv, OneStanding
<1>6. voting_power' \in [Pools -> Nat] /\ total_joining_power' \in Nat
  BY <1>1, <1>2 DEF StakeInv, TypeOK
<1>7. \A q \in CurrentEpochValidators : voting_power'[q] = voting_power[q]
  BY <1>2, <1>5 DEF StakeInv, TypeOK, CurrentEpochValidators
<1>8. /\ active_validators' \subseteq Pools /\ pending_active' \subseteq Pools
      /\ pending_inactive' \subseteq Pools
  BY <1>2 DEF StakeInv, TypeOK
<1> QED
  BY <1>3, <1>4, <1>5, <1>6, <1>7, <1>8, SetStep

LEMMA LeaveActiveInv ==
  ASSUME StakeInv, NEW p \in Pools, LeaveActive(p)
  PROVE  StakeInv'
<1>1. /\ OneStanding' /\ CurrentEpochValidators' = CurrentEpochValidators
      /\ active_validators' \subseteq Pools /\ pending_active' \subseteq Pools
      /\ pending_inactive' \subseteq Pools
  BY DEF LeaveActive, StakeInv, OneStanding, TypeOK, CurrentEpochValidators
<1>2. /\ UNCHANGED <<stake_pool, wallet, validator_index, block_vars, minimum_stake, epoch_vars>>
      /\ voting_power' = voting_power /\ total_joining_power' = total_joining_power
  BY DEF LeaveActive
<1> QED
  BY <1>1, <1>2, SetStep DEF StakeInv, TypeOK

LEMMA RemoveValidatorsInv ==
  ASSUME StakeInv, NEW removed \in SUBSET Pools, RemoveValidators(removed)
  PROVE  StakeInv'
<1>1. /\ OneStanding' /\ CurrentEpochValidators' = CurrentEpochValidators
      /\ active_validators' \subseteq Pools /\ pending_active' \subseteq Pools
      /\ pending_inactive' \subseteq Pools
  BY DEF RemoveValidators, StakeInv, OneStanding, TypeOK, CurrentEpochValidators
<1>2. /\ UNCHANGED <<stake_pool, wallet, validator_index, block_vars, minimum_stake, epoch_vars>>
      /\ voting_power' = voting_power /\ total_joining_power' = total_joining_power
  BY DEF RemoveValidators
<1> QED
  BY <1>1, <1>2, SetStep DEF StakeInv, TypeOK

-----------------------------------------------------------------------------
\* A step that leaves pools and set alone keeps StakeInv if the performance vector and the
\* fee table keep their indices.
LEMMA BlockStep ==
  ASSUME StakeInv, UNCHANGED <<stake_pool, wallet, set_vars, total_joining_power>>,
         DOMAIN performance' = DOMAIN performance, DOMAIN pending_fee' = DOMAIN pending_fee,
         TypeOK'
  PROVE  StakeInv'
<1>1. CurrentEpochValidators' = CurrentEpochValidators
  BY DEF CurrentEpochValidators, set_vars
<1>2. OneStanding' /\ PendingActiveIsPickedUp' /\ VotingPowerIsStaked'
  BY <1>1 DEF StakeInv, OneStanding, PendingActiveIsPickedUp, VotingPowerIsStaked, set_vars
<1>3. IndicesNumberTheEpoch'
  BY <1>1 DEF StakeInv, IndicesNumberTheEpoch, set_vars
<1> QED
  BY <1>2, <1>3 DEF StakeInv

LEMMA UpdateRequiredStakeInv ==
  ASSUME StakeInv, NEW minimum \in MinimumStakes, UpdateRequiredStake(minimum)
  PROVE  StakeInv'
<1>1. TypeOK'
  BY AmountAssumption
     DEF UpdateRequiredStake, StakeInv, TypeOK, set_vars, block_vars, epoch_vars
<1> QED
  BY <1>1, BlockStep DEF UpdateRequiredStake, block_vars

LEMMA BlockPrologueInv ==
  ASSUME StakeInv, NEW proposer, NEW failed, BlockPrologue(proposer, failed)
  PROVE  StakeInv'
<1>1. now' \in Nat
  BY DEF BlockPrologue, StakeInv, TypeOK
<1>2. \A i \in DOMAIN performance :
        performance[i].successful \in Nat /\ performance[i].failed \in Nat
  BY DEF StakeInv, TypeOK, PerformanceType
<1>3. /\ DOMAIN performance' = DOMAIN performance
      /\ performance' \in [DOMAIN performance -> PerformanceType]
  BY <1>2 DEF BlockPrologue, PerformanceType
<1>4. TypeOK'
  BY <1>1, <1>3 DEF BlockPrologue, StakeInv, TypeOK, set_vars, epoch_vars
<1> QED
  BY <1>3, <1>4, BlockStep DEF BlockPrologue

LEMMA RecordFeeInv ==
  ASSUME StakeInv, NEW index, NEW fee \in 1..MaxFee, RecordFee(index, fee)
  PROVE  StakeInv'
<1>1. fee \in Nat /\ index \in DOMAIN pending_fee /\ pending_fee[index] \in Nat
  BY TimeAssumption DEF RecordFee, StakeInv, TypeOK
<1>2. /\ DOMAIN pending_fee' = DOMAIN pending_fee
      /\ pending_fee' \in [DOMAIN pending_fee -> Nat]
  BY <1>1 DEF RecordFee, StakeInv, TypeOK
<1>3. TypeOK'
  BY <1>2 DEF RecordFee, StakeInv, TypeOK, set_vars, epoch_vars
<1> QED
  BY <1>2, <1>3, BlockStep DEF RecordFee

LEMMA TryStartInv ==
  ASSUME StakeInv, TryStart
  PROVE  StakeInv'
<1>1. NowSeconds \in Nat
  BY TimeAssumption, DivNat DEF NowSeconds, StakeInv, TypeOK
<1>2. NextValidatorConsensusInfos \subseteq Pools
  BY DEF NextValidatorConsensusInfos, Candidates, StakeInv, TypeOK
<1>3. TypeOK'
  BY <1>1, <1>2 DEF TryStart, StakeInv, TypeOK, set_vars, block_vars
<1> QED
  BY <1>3, BlockStep DEF TryStart, block_vars

-----------------------------------------------------------------------------
\* The next validators are candidates.
LEMMA NextAreCandidates ==
  ASSUME StakeInv, NEW pools
  PROVE  NextValidators(pools) \subseteq Candidates /\ Candidates \subseteq Pools
BY DEF NextValidators, Candidates, StakeInv, TypeOK

\* The epoch change builds StakeInv afresh: the new voting power is the stake after the
\* rewards, and one numbering serves the indices, the scores and the fee table.
LEMMA ReconfigureInv ==
  ASSUME StakeInv, Reconfigure
  PROVE  StakeInv'
<1> DEFINE pools == UpdatedPools
           next == NextValidators(pools)
           n == Cardinality(next)
<1>1. /\ stake_pool' = [p \in Pools |-> IF p \in next THEN RenewedLockup(pools[p]) ELSE pools[p]]
      /\ active_validators' = next /\ pending_active' = {} /\ pending_inactive' = {}
      /\ voting_power' = [p \in Pools |-> IF p \in next THEN NextEpochPower(pools[p]) ELSE 0]
      /\ total_joining_power' = 0
  BY DEF Reconfigure, OnNewEpoch, JoiningPowerAfterEpoch
<1>2. PICK index \in Indexings(next) :
        /\ validator_index' = AssignIndices(next, index)
        /\ performance' = [i \in 0..(n - 1) |-> NoProposals]
        /\ pending_fee' = [i \in {index[p] : p \in next} |-> 0]
  BY DEF Reconfigure, OnNewEpoch
<1>3. /\ pools \in [Pools -> StakePoolType]
      /\ \A p \in Pools : pools[p].pending_active = 0
  BY UpdatedPoolsType
<1>4. next \subseteq Pools
  BY NextAreCandidates
<1> HIDE DEF next, pools
<1>5. /\ index \in [next -> 0..(n - 1)]
      /\ \A p, q \in next : index[p] = index[q] => p = q
      /\ \A i \in 0..(n - 1) : \E p \in next : index[p] = i
  BY DEF Indexings
<1>6. n \in Nat
  <2>1. IsFiniteSet(next)
    BY <1>4, PoolsAssumption, FS_Subset
  <2> QED
    BY <2>1, FS_CardinalityType
<1> HIDE DEF n
<1>7. {index[p] : p \in next} = 0..(n - 1)
  BY <1>5
<1>8. NowSeconds + LockupDuration \in Nat
  BY TimeAssumption, DivNat DEF NowSeconds, StakeInv, TypeOK
<1>9. ASSUME NEW p \in Pools
      PROVE  /\ stake_pool'[p] \in StakePoolType
             /\ stake_pool'[p].pending_active = 0
             /\ stake_pool'[p].active = pools[p].active
             /\ stake_pool'[p].pending_inactive = pools[p].pending_inactive
  <2> DEFINE s == pools[p]
             r == [s EXCEPT !.locked_until = NowSeconds + LockupDuration]
  <2>1. s \in StakePoolType /\ s.pending_active = 0
    BY <1>3
  <2>2. r \in StakePoolType
    BY <2>1, <1>8 DEF StakePoolType
  <2>3. r.pending_active = 0 /\ r.active = s.active /\ r.pending_inactive = s.pending_inactive
    BY <2>1 DEF StakePoolType
  <2>4. stake_pool'[p] = r \/ stake_pool'[p] = s
    BY <1>1 DEF RenewedLockup
  <2> HIDE DEF s, r
  <2> QED
    BY <2>1, <2>2, <2>3, <2>4 DEF s
<1>10. ASSUME NEW p \in Pools
       PROVE  /\ NextEpochPower(pools[p]) = pools[p].active + pools[p].pending_inactive
              /\ NextEpochPower(pools[p]) \in Nat
  <2>1. /\ pools[p].active \in Nat /\ pools[p].pending_inactive \in Nat
        /\ pools[p].pending_active = 0
    BY <1>3 DEF StakePoolType
  <2> QED
    BY <2>1 DEF NextEpochPower
<1>11. CurrentEpochValidators' = next
  BY <1>1 DEF CurrentEpochValidators
<1>12. VotingPowerIsStaked'
  BY <1>1, <1>4, <1>9, <1>10, <1>11 DEF VotingPowerIsStaked
<1>13. PendingActiveIsPickedUp'
  BY <1>9 DEF PendingActiveIsPickedUp
<1>14. OneStanding'
  BY <1>1 DEF OneStanding
<1>15. /\ \A p \in next : validator_index'[p] = index[p]
       /\ validator_index' \in [Pools -> Nat]
  BY <1>2, <1>4, <1>5 DEF AssignIndices, StakeInv, TypeOK
<1>16. DOMAIN performance' = 0..(n - 1) /\ DOMAIN pending_fee' = 0..(n - 1)
  BY <1>2, <1>7
<1>17. IndicesNumberTheEpoch'
  <2>1. {validator_index'[p] : p \in next} = {index[p] : p \in next}
    BY <1>15
  <2>2. \A p, q \in next : validator_index'[p] = validator_index'[q] => p = q
    BY <1>15, <1>5
  <2> QED
    BY <2>1, <2>2, <1>7, <1>11, <1>16 DEF IndicesNumberTheEpoch
<1>18. TypeOK'
  <2>1. stake_pool' \in [Pools -> StakePoolType]
    BY <1>1, <1>9
  <2>2. voting_power' \in [Pools -> Nat]
    BY <1>1, <1>10
  <2>3. /\ DOMAIN performance' \subseteq Nat /\ DOMAIN pending_fee' \subseteq Nat
        /\ performance' \in [DOMAIN performance' -> PerformanceType]
        /\ pending_fee' \in [DOMAIN pending_fee' -> Nat]
    BY <1>2, <1>6, <1>7, <1>16 DEF PerformanceType, NoProposals
  <2>4. /\ wallet' = wallet /\ now' = now /\ minimum_stake' = minimum_stake
        /\ in_progress' = FALSE /\ start_time' = 0 /\ dkg_target' = {}
        /\ epoch' = epoch + 1 /\ last_reconfiguration_time' = now
    BY DEF Reconfigure
  <2>5. /\ wallet \in [Pools -> Nat] /\ now \in Nat /\ minimum_stake \in Nat
        /\ epoch \in Nat /\ epoch + 1 \in Nat
    BY DEF StakeInv, TypeOK
  <2>6. /\ active_validators' \subseteq Pools /\ pending_active' \subseteq Pools
        /\ pending_inactive' \subseteq Pools /\ total_joining_power' \in Nat
    BY <1>1, <1>4
  <2> QED
    BY <1>15, <2>1, <2>2, <2>3, <2>4, <2>5, <2>6 DEF TypeOK
<1> QED
  BY <1>12, <1>13, <1>14, <1>17, <1>18 DEF StakeInv

LEMMA InitStakeInv == Init => StakeInv
<1> SUFFICES ASSUME Init PROVE StakeInv
  OBVIOUS
<1> DEFINE n == Cardinality(Genesis)
<1>1. PICK index \in Indexings(Genesis) :
        /\ validator_index = [p \in Pools |-> IF p \in Genesis THEN index[p] ELSE 0]
        /\ performance = [i \in 0..(n - 1) |-> NoProposals]
        /\ pending_fee = [i \in {index[p] : p \in Genesis} |-> 0]
  BY DEF Init
<1>2. n \in Nat
  BY PoolsAssumption, FS_Subset, FS_CardinalityType
<1> HIDE DEF n
<1>3. /\ index \in [Genesis -> 0..(n - 1)]
      /\ \A p, q \in Genesis : index[p] = index[q] => p = q
      /\ \A i \in 0..(n - 1) : \E p \in Genesis : index[p] = i
  BY DEF Indexings, n
<1>4. {index[p] : p \in Genesis} = 0..(n - 1)
  BY <1>3
<1>5. CurrentEpochValidators = Genesis
  BY DEF Init, CurrentEpochValidators
<1>6. IndicesNumberTheEpoch
  <2>1. \A p \in Genesis : validator_index[p] = index[p]
    BY <1>1, PoolsAssumption
  <2>2. {validator_index[p] : p \in Genesis} = 0..(n - 1)
    BY <2>1, <1>4
  <2>3. \A p, q \in Genesis : validator_index[p] = validator_index[q] => p = q
    BY <2>1, <1>3
  <2>4. DOMAIN performance = 0..(n - 1) /\ DOMAIN pending_fee = 0..(n - 1)
    BY <1>1, <1>4
  <2> QED
    BY <2>2, <2>3, <2>4, <1>5 DEF IndicesNumberTheEpoch
<1>7. \A p \in Pools :
        /\ stake_pool[p] \in StakePoolType
        /\ stake_pool[p].pending_active = 0
        /\ stake_pool[p].pending_inactive = 0
        /\ stake_pool[p].active = IF p \in Genesis THEN GenesisStake ELSE 0
  <2>1. EmptyPool \in StakePoolType
    BY DEF EmptyPool, StakePoolType
  <2> DEFINE first == [EmptyPool EXCEPT !.active = GenesisStake, !.locked_until = LockupDuration]
  <2>2. /\ first \in StakePoolType /\ first.pending_active = 0
        /\ first.pending_inactive = 0 /\ first.active = GenesisStake
    BY AmountAssumption, TimeAssumption DEF EmptyPool, StakePoolType
  <2>3. /\ EmptyPool.pending_active = 0 /\ EmptyPool.pending_inactive = 0
        /\ EmptyPool.active = 0
    BY DEF EmptyPool
  <2>4. \A p \in Pools : stake_pool[p] = IF p \in Genesis THEN first ELSE EmptyPool
    BY DEF Init
  <2> HIDE DEF first
  <2> QED
    BY <2>1, <2>2, <2>3, <2>4
<1>8. VotingPowerIsStaked /\ PendingActiveIsPickedUp /\ OneStanding
  <2>1. \A p \in Pools : voting_power[p] = IF p \in Genesis THEN GenesisStake ELSE 0
    BY DEF Init
  <2> QED
    BY <1>5, <1>7, <2>1, PoolsAssumption, AmountAssumption
       DEF VotingPowerIsStaked, PendingActiveIsPickedUp, OneStanding, Init
<1>9. TypeOK
  <2>1. /\ DOMAIN performance \subseteq Nat /\ DOMAIN pending_fee \subseteq Nat
        /\ performance \in [DOMAIN performance -> PerformanceType]
        /\ pending_fee \in [DOMAIN pending_fee -> Nat]
    BY <1>1, <1>2, <1>4 DEF PerformanceType, NoProposals
  <2>2. validator_index \in [Pools -> Nat]
    BY <1>1, <1>3
  <2>3. stake_pool \in [Pools -> StakePoolType]
    BY <1>7 DEF Init
  <2> QED
    BY <2>1, <2>2, <2>3, PoolsAssumption, AmountAssumption DEF Init, TypeOK
<1> QED
  BY <1>6, <1>8, <1>9 DEF StakeInv

LEMMA NextStakeInv == StakeInv /\ [Next]_vars => StakeInv'
<1> SUFFICES ASSUME StakeInv, [Next]_vars PROVE StakeInv'
  OBVIOUS
<1>1. ASSUME NEW p \in Pools, OwnerStep(p) PROVE StakeInv'
  BY <1>1, AddStakeInv, UnlockInv, ReactivateInv, WithdrawInv, IncreaseLockupInv DEF OwnerStep
<1>2. ASSUME NEW p \in Pools, OperatorStep(p) PROVE StakeInv'
  BY <1>2, JoinInv, LeavePendingActiveInv, LeaveActiveInv DEF OperatorStep
<1>3. ASSUME NEW removed \in SUBSET Pools, RemoveValidators(removed) PROVE StakeInv'
  BY <1>3, RemoveValidatorsInv
<1>4. ASSUME NEW minimum \in MinimumStakes, UpdateRequiredStake(minimum) PROVE StakeInv'
  BY <1>4, UpdateRequiredStakeInv
<1>5. ASSUME NEW proposer, NEW failed, BlockPrologue(proposer, failed) PROVE StakeInv'
  BY <1>5, BlockPrologueInv
<1>6. ASSUME NEW index, NEW fee \in 1..MaxFee, RecordFee(index, fee) PROVE StakeInv'
  BY <1>6, RecordFeeInv
<1>7. CASE TryStart
  BY <1>7, TryStartInv
<1>8. CASE Reconfigure
  BY <1>8, ReconfigureInv
<1>9. CASE UNCHANGED vars
  <2>1. TypeOK'
    BY <1>9 DEF vars, set_vars, block_vars, epoch_vars, StakeInv, TypeOK
  <2> QED
    BY <1>9, <2>1, BlockStep DEF vars, block_vars
<1> QED
  BY <1>1, <1>2, <1>3, <1>4, <1>5, <1>6, <1>7, <1>8, <1>9 DEF Next

-----------------------------------------------------------------------------
\* All of it, in every reachable state.
THEOREM StakeInvariance == Spec => []StakeInv
<1>1. Init => StakeInv
  BY InitStakeInv
<1>2. StakeInv /\ [Next]_vars => StakeInv'
  BY NextStakeInv
<1> QED
  BY <1>1, <1>2, PTL DEF Spec

\* Type correctness (stake.move's resources and the reconfiguration state).
THEOREM TypeCorrectness == Spec => []TypeOK
<1>1. StakeInv => TypeOK
  BY DEF StakeInv
<1> QED
  BY <1>1, StakeInvariance, PTL

\* A current-epoch validator votes with stake that is still in its pool.
THEOREM VotingPowerCorrectness == Spec => []VotingPowerIsStaked
<1>1. StakeInv => VotingPowerIsStaked
  BY DEF StakeInv
<1> QED
  BY <1>1, StakeInvariance, PTL

\* Scores and fees are found under the index of the validator they belong to.
THEOREM IndexCorrectness == Spec => []IndicesNumberTheEpoch
<1>1. StakeInv => IndicesNumberTheEpoch
  BY DEF StakeInv
<1> QED
  BY <1>1, StakeInvariance, PTL

\* The three vectors of the validator set never share a pool.
THEOREM StandingCorrectness == Spec => []OneStanding
<1>1. StakeInv => OneStanding
  BY DEF StakeInv
<1> QED
  BY <1>1, StakeInvariance, PTL

\* pending_active coins are never stranded.
THEOREM PendingActiveCorrectness == Spec => []PendingActiveIsPickedUp
<1>1. StakeInv => PendingActiveIsPickedUp
  BY DEF StakeInv
<1> QED
  BY <1>1, StakeInvariance, PTL

-----------------------------------------------------------------------------
(* Steps: what none of them may do *)


StartedBefore == in_progress => start_time <= NowSeconds

StepInv == StakeInv /\ StartedBefore

\* Division keeps the order of naturals.
LEMMA DivMonotonic ==
  ASSUME NEW a \in Nat, NEW b \in Nat, NEW n \in Nat \ {0}, a <= b
  PROVE  a \div n <= b \div n
<1> DEFINE q == a \div n
           r == b \div n
<1>1. q \in Nat /\ r \in Nat
  BY DivNat
<1>2. n * q <= a /\ b < n * (r + 1)
  <2>1. n * q <= a
    OBVIOUS
  <2>2. b = n * r + (b % n) /\ b % n < n /\ b % n \in Nat
    OBVIOUS
  <2> HIDE DEF r
  <2>3. n * (r + 1) = n * r + n /\ n * r \in Nat
    BY <1>1
  <2> QED
    BY <2>1, <2>2, <2>3, <1>1
<1> HIDE DEF q, r
<1>3. q <= r
  <2> SUFFICES ASSUME q >= r + 1 PROVE FALSE
    BY <1>1
  <2>1. n * q >= n * (r + 1)
    BY <1>1
  <2>2. n * q \in Nat /\ n * (r + 1) \in Nat
    BY <1>1
  <2> QED
    BY <1>2, <2>1, <2>2
<1> QED
  BY <1>3 DEF q, r

LEMMA NowSecondsNat == ASSUME TypeOK PROVE NowSeconds \in Nat
BY TimeAssumption, DivNat DEF NowSeconds, TypeOK

-----------------------------------------------------------------------------
\* A step that is not the end of an epoch keeps the start time in the past.
LEMMA NextStartedBefore == StepInv /\ [Next]_vars => StartedBefore'
<1> SUFFICES ASSUME StepInv, [Next]_vars PROVE StartedBefore'
  OBVIOUS
<1>1. TypeOK /\ TypeOK'
  BY NextStakeInv DEF StepInv, StakeInv
<1>2. now \in Nat /\ now' \in Nat /\ NowSeconds \in Nat /\ NowSeconds' \in Nat
  <2>1. now \in Nat /\ now' \in Nat
    BY <1>1 DEF TypeOK
  <2>2. TicksPerSecond \in Nat /\ TicksPerSecond > 0
    BY TimeAssumption
  <2>3. now \div TicksPerSecond \in Nat
    BY <2>1, <2>2, DivNat
  <2>4. now' \div TicksPerSecond \in Nat
    BY <2>1, <2>2, DivNat
  <2> QED
    BY <2>1, <2>3, <2>4 DEF NowSeconds
<1>3. ASSUME UNCHANGED <<in_progress, start_time>>, now' >= now
      PROVE  StartedBefore'
  <2>1. NowSeconds <= NowSeconds'
    BY <1>2, <1>3, TimeAssumption, DivMonotonic DEF NowSeconds
  <2>2. in_progress => start_time <= NowSeconds
    BY DEF StepInv, StartedBefore
  <2>3. start_time \in Nat
    BY <1>1 DEF TypeOK
  <2>4. start_time <= NowSeconds => start_time <= NowSeconds'
    BY <1>2, <2>1, <2>3
  <2>5. in_progress' = in_progress /\ start_time' = start_time
    BY <1>3
  <2> QED
    BY <2>2, <2>4, <2>5 DEF StartedBefore
<1>4. ASSUME UNCHANGED <<now, in_progress, start_time>> PROVE StartedBefore'
  BY <1>2, <1>3, <1>4
<1>5. ASSUME NEW p \in Pools, OwnerStep(p) PROVE StartedBefore'
  BY <1>4, <1>5 DEF OwnerStep, AddStake, Unlock, Reactivate, Withdraw, IncreaseLockup,
                    block_vars, epoch_vars
<1>6. ASSUME NEW p \in Pools, OperatorStep(p) PROVE StartedBefore'
  BY <1>4, <1>6 DEF OperatorStep, JoinValidatorSet, LeavePendingActive, LeaveActive,
                    block_vars, epoch_vars
<1>7. ASSUME NEW removed \in SUBSET Pools, RemoveValidators(removed) PROVE StartedBefore'
  BY <1>4, <1>7 DEF RemoveValidators, block_vars, epoch_vars
<1>8. ASSUME NEW minimum \in MinimumStakes, UpdateRequiredStake(minimum) PROVE StartedBefore'
  BY <1>4, <1>8 DEF UpdateRequiredStake, block_vars, epoch_vars
<1>9. ASSUME NEW proposer, NEW failed, BlockPrologue(proposer, failed) PROVE StartedBefore'
  <2>1. now' >= now
    BY <1>2, <1>9 DEF BlockPrologue
  <2> QED
    BY <1>3, <1>9, <2>1 DEF BlockPrologue, epoch_vars
<1>10. ASSUME NEW index, NEW fee \in 1..MaxFee, RecordFee(index, fee) PROVE StartedBefore'
  BY <1>4, <1>10 DEF RecordFee, epoch_vars
<1>11. CASE TryStart
  <2>1. start_time' = NowSeconds /\ NowSeconds' = NowSeconds
    BY <1>11 DEF TryStart, NowSeconds, block_vars
  <2> QED
    BY <1>2, <2>1 DEF StartedBefore
<1>12. CASE Reconfigure
  BY <1>12 DEF Reconfigure, StartedBefore
<1>13. CASE UNCHANGED vars
  BY <1>4, <1>13 DEF vars, block_vars, epoch_vars
<1> QED
  BY <1>5, <1>6, <1>7, <1>8, <1>9, <1>10, <1>11, <1>12, <1>13 DEF Next

LEMMA StepInvariance == Spec => []StepInv
<1>1. Init => StepInv
  BY InitStakeInv DEF Init, StartedBefore, StepInv
<1>2. StepInv /\ [Next]_vars => StepInv'
  BY NextStakeInv, NextStartedBefore DEF StepInv
<1> QED
  BY <1>1, <1>2, PTL DEF Spec

-----------------------------------------------------------------------------
\* Only the epoch change (and IncreaseLockup, for one pool's lockup) is left to a
\* transaction once a reconfiguration runs.
LEMMA StillWhileInProgress ==
  ASSUME StepInv, [Next]_vars, in_progress, epoch' = epoch
  PROVE  /\ UNCHANGED <<set_vars, wallet>>
         /\ \/ stake_pool' = stake_pool
            \/ \E p \in Pools : IncreaseLockup(p)
<1> DEFINE Still == /\ UNCHANGED <<set_vars, wallet>>
                    /\ \/ stake_pool' = stake_pool
                       \/ \E p \in Pools : IncreaseLockup(p)
<1>1. ~ReconfigNotInProgress
  BY DEF ReconfigNotInProgress
<1>2. ASSUME NEW p \in Pools, OwnerStep(p) PROVE Still
  <2>1. IncreaseLockup(p)
    BY <1>1, <1>2 DEF OwnerStep, AddStake, Unlock, Reactivate, Withdraw
  <2> QED
    BY <2>1 DEF IncreaseLockup
<1>3. ASSUME NEW p \in Pools, OperatorStep(p) PROVE Still
  BY <1>1, <1>3 DEF OperatorStep, JoinValidatorSet, LeavePendingActive, LeaveActive
<1>4. ASSUME NEW removed \in SUBSET Pools, RemoveValidators(removed) PROVE Still
  BY <1>1, <1>4 DEF RemoveValidators
<1>5. ASSUME NEW minimum \in MinimumStakes, UpdateRequiredStake(minimum) PROVE Still
  BY <1>5 DEF UpdateRequiredStake
<1>6. ASSUME NEW proposer, NEW failed, BlockPrologue(proposer, failed) PROVE Still
  BY <1>6 DEF BlockPrologue
<1>7. ASSUME NEW index, NEW fee \in 1..MaxFee, RecordFee(index, fee) PROVE Still
  BY <1>7 DEF RecordFee
<1>8. CASE TryStart
  BY <1>8 DEF TryStart
<1>9. CASE Reconfigure
  <2>1. epoch' = epoch + 1 /\ epoch \in Nat
    BY <1>9 DEF Reconfigure, StepInv, StakeInv, TypeOK
  <2> QED
    BY <2>1
<1>10. CASE UNCHANGED vars
  BY <1>10 DEF vars
<1> QED
  BY <1>2, <1>3, <1>4, <1>5, <1>6, <1>7, <1>8, <1>9, <1>10 DEF Next

\* stake.move's assert_reconfig_not_in_progress: between the start of a reconfiguration and
\* the epoch change no transaction moves a coin or touches the validator set the DKG was dealt to.
THEOREM ReconfigurationHoldsStill == Spec => NothingMovesDuringReconfiguration
<1> DEFINE SamePools == \A p \in Pools : [stake_pool'[p] EXCEPT !.locked_until = 0]
                                           = [stake_pool[p] EXCEPT !.locked_until = 0]
           Still == in_progress /\ epoch' = epoch => UNCHANGED <<set_vars, wallet>> /\ SamePools
<1>1. StepInv /\ [Next]_vars => Still
  <2> SUFFICES ASSUME StepInv, [Next]_vars, in_progress, epoch' = epoch
               PROVE  UNCHANGED <<set_vars, wallet>> /\ SamePools
    OBVIOUS
  <2>1. CASE stake_pool' = stake_pool
    BY <2>1, StillWhileInProgress
  <2>2. ASSUME NEW p \in Pools, IncreaseLockup(p) PROVE SamePools
    <3> DEFINE t == [stake_pool[p] EXCEPT !.locked_until = NowSeconds + LockupDuration]
    <3>1. stake_pool' = [stake_pool EXCEPT ![p] = t] /\ stake_pool \in [Pools -> StakePoolType]
      BY <2>2 DEF IncreaseLockup, StepInv, StakeInv, TypeOK
    <3>2. stake_pool[p] \in StakePoolType
      BY <3>1
    <3>3. [t EXCEPT !.locked_until = 0] = [stake_pool[p] EXCEPT !.locked_until = 0]
      BY <3>2 DEF StakePoolType
    <3> HIDE DEF t
    <3>4. \A q \in Pools : /\ q = p => stake_pool'[q] = t
                           /\ q # p => stake_pool'[q] = stake_pool[q]
      BY <3>1
    <3> QED
      BY <3>3, <3>4
  <2> QED
    BY <2>1, <2>2, StillWhileInProgress
<1> QED
  BY <1>1, StepInvariance, PTL DEF Spec, NothingMovesDuringReconfiguration

-----------------------------------------------------------------------------
\* The time an epoch change measures lockups at: a natural, and not in the future.
LEMMA StartTimeIsPast ==
  ASSUME StepInv
  PROVE  /\ ReconfigStartTime \in Nat /\ NowSeconds \in Nat
         /\ ReconfigStartTime <= NowSeconds
<1>1. NowSeconds \in Nat /\ start_time \in Nat
  BY NowSecondsNat DEF StepInv, StakeInv, TypeOK
<1>2. CASE in_progress
  BY <1>1, <1>2 DEF ReconfigStartTime, StepInv, StartedBefore
<1>3. CASE ~in_progress
  BY <1>1, <1>3 DEF ReconfigStartTime
<1> QED
  BY <1>2, <1>3

\* Besides Reconfigure, nothing ends an epoch.
LEMMA EpochEndsByReconfigure ==
  ASSUME StepInv, [Next]_vars, epoch' # epoch
  PROVE  Reconfigure
<1>1. ASSUME NEW p \in Pools, OwnerStep(p) PROVE FALSE
  BY <1>1 DEF OwnerStep, AddStake, Unlock, Reactivate, Withdraw, IncreaseLockup, epoch_vars
<1>2. ASSUME NEW p \in Pools, OperatorStep(p) PROVE FALSE
  BY <1>2 DEF OperatorStep, JoinValidatorSet, LeavePendingActive, LeaveActive, epoch_vars
<1>3. ASSUME NEW removed \in SUBSET Pools, RemoveValidators(removed) PROVE FALSE
  BY <1>3 DEF RemoveValidators, epoch_vars
<1>4. ASSUME NEW minimum \in MinimumStakes, UpdateRequiredStake(minimum) PROVE FALSE
  BY <1>4 DEF UpdateRequiredStake, epoch_vars
<1>5. ASSUME NEW proposer, NEW failed, BlockPrologue(proposer, failed) PROVE FALSE
  BY <1>5 DEF BlockPrologue, epoch_vars
<1>6. ASSUME NEW index, NEW fee \in 1..MaxFee, RecordFee(index, fee) PROVE FALSE
  BY <1>6 DEF RecordFee, epoch_vars
<1>7. ~TryStart
  BY DEF TryStart
<1>8. ~(UNCHANGED vars)
  BY DEF vars, epoch_vars
<1> QED
  BY <1>1, <1>2, <1>3, <1>4, <1>5, <1>6, <1>7, <1>8 DEF Next

\* on_new_epoch admits somebody whenever somebody was active, if only because it falls back
\* to every candidate, and renews the lockup of each it admits.
THEOREM EpochsAdmitTheEligible == Spec => EpochAdmitsTheEligible
<1>1. StepInv /\ [Next]_vars => EpochKeepsValidators
  <2> SUFFICES ASSUME StepInv, [Next]_vars, active_validators # {}, epoch' # epoch
               PROVE  active_validators' # {}
    BY DEF EpochKeepsValidators
  <2>1. active_validators' = NextValidators(UpdatedPools)
    BY EpochEndsByReconfigure DEF Reconfigure, OnNewEpoch
  <2>2. Candidates # {}
    BY DEF Candidates
  <2> QED
    BY <2>1, <2>2 DEF NextValidators
<1>2. StepInv /\ [Next]_vars => ValidatorsEnterLocked
  <2> SUFFICES ASSUME StepInv, [Next]_vars, epoch' # epoch, NEW p \in active_validators'
               PROVE  stake_pool'[p].locked_until > ReconfigStartTime
    BY DEF ValidatorsEnterLocked
  <2> DEFINE next == NextValidators(UpdatedPools)
             s == UpdatedPools[p]
             r == [s EXCEPT !.locked_until = NowSeconds + LockupDuration]
  <2>1. /\ active_validators' = next
        /\ stake_pool' = [q \in Pools |-> IF q \in next THEN RenewedLockup(UpdatedPools[q])
                                                        ELSE UpdatedPools[q]]
    BY EpochEndsByReconfigure DEF Reconfigure, OnNewEpoch
  <2>2. p \in Pools /\ p \in next
    BY <2>1, NextAreCandidates DEF StepInv
  <2>3. stake_pool'[p] = RenewedLockup(s)
    BY <2>1, <2>2
  <2>4. s \in StakePoolType
    BY <2>2, UpdatedPoolsType DEF StepInv
  <2> HIDE DEF s
  <2>5. s.locked_until \in Nat /\ r.locked_until = NowSeconds + LockupDuration
    BY <2>4 DEF StakePoolType
  <2>6. CASE s.locked_until <= ReconfigStartTime
    <3>1. stake_pool'[p].locked_until = NowSeconds + LockupDuration
      BY <2>3, <2>5, <2>6 DEF RenewedLockup
    <3>2. LockupDuration \in Nat /\ LockupDuration > 0
      BY TimeAssumption
    <3> QED
      BY <3>1, <3>2, StartTimeIsPast
  <2>7. CASE ~(s.locked_until <= ReconfigStartTime)
    <3>1. stake_pool'[p] = s
      BY <2>3, <2>7 DEF RenewedLockup
    <3> QED
      BY <2>5, <2>7, <3>1, StartTimeIsPast
  <2> QED
    BY <2>6, <2>7
<1> QED
  BY <1>1, <1>2, StepInvariance, PTL DEF Spec, EpochAdmitsTheEligible

-----------------------------------------------------------------------------
\* The step frees no stake before its lockup ends.
Held ==
  \A p \in Pools :
    NextEpochPower(stake_pool'[p]) < NextEpochPower(stake_pool[p]) =>
      stake_pool[p].locked_until <= ReconfigStartTime

LEMMA PowerNat ==
  ASSUME NEW s \in StakePoolType
  PROVE  /\ s.active \in Nat /\ s.pending_active \in Nat /\ s.pending_inactive \in Nat
         /\ s.inactive \in Nat /\ s.locked_until \in Nat
         /\ NextEpochPower(s) \in Nat
<1>1. /\ s.active \in Nat /\ s.pending_active \in Nat /\ s.pending_inactive \in Nat
      /\ s.inactive \in Nat /\ s.locked_until \in Nat
  BY DEF StakePoolType
<1> QED
  BY <1>1 DEF NextEpochPower

\* One pool changes, and its stake shrinks only after its lockup.
LEMMA OnePoolHeld ==
  ASSUME StepInv, NEW p \in Pools, NEW t \in StakePoolType,
         stake_pool' = [stake_pool EXCEPT ![p] = t],
         \/ NextEpochPower(t) >= NextEpochPower(stake_pool[p])
         \/ stake_pool[p].locked_until <= ReconfigStartTime
  PROVE  Held
<1> SUFFICES ASSUME NEW q \in Pools,
                    NextEpochPower(stake_pool'[q]) < NextEpochPower(stake_pool[q])
             PROVE  stake_pool[q].locked_until <= ReconfigStartTime
  BY DEF Held
<1>1. stake_pool \in [Pools -> StakePoolType]
  BY DEF StepInv, StakeInv, TypeOK
<1>2. NextEpochPower(stake_pool[q]) \in Nat /\ NextEpochPower(t) \in Nat
  BY <1>1, PowerNat
<1>3. CASE q = p
  <2>1. stake_pool'[q] = t
    BY <1>1, <1>3
  <2>2. ~(NextEpochPower(t) >= NextEpochPower(stake_pool[q]))
    BY <2>1, <1>2
  <2> QED
    BY <2>2, <1>3
<1>4. CASE q # p
  <2>1. stake_pool'[q] = stake_pool[q]
    BY <1>1, <1>4
  <2> QED
    BY <2>1, <1>2
<1> QED
  BY <1>3, <1>4

LEMMA AddStakeHeld ==
  ASSUME StepInv, NEW p \in Pools, NEW amount \in Amounts, AddStake(p, amount)
  PROVE  Held
<1> DEFINE s == stake_pool[p]
           u == [s EXCEPT !.pending_active = s.pending_active + amount]
           v == [s EXCEPT !.active = s.active + amount]
           t == IF IsCurrentEpochValidator(p) THEN u ELSE v
<1>1. amount \in Nat /\ s \in StakePoolType
  BY PoolFields, AmountAssumption DEF StepInv, StakeInv
<1>2. /\ s.active \in Nat /\ s.pending_active \in Nat /\ s.pending_inactive \in Nat
  BY <1>1, PowerNat
<1>3. s.pending_active + amount \in Nat /\ s.active + amount \in Nat
  BY <1>1, <1>2
<1>4. /\ u \in StakePoolType
      /\ u.active = s.active /\ u.pending_active = s.pending_active + amount
      /\ u.pending_inactive = s.pending_inactive
  BY <1>1, <1>3 DEF StakePoolType
<1>5. /\ v \in StakePoolType
      /\ v.active = s.active + amount /\ v.pending_active = s.pending_active
      /\ v.pending_inactive = s.pending_inactive
  BY <1>1, <1>3 DEF StakePoolType
<1>6. stake_pool' = [stake_pool EXCEPT ![p] = t]
  BY DEF AddStake
<1> HIDE DEF u, v
<1>7. NextEpochPower(u) >= NextEpochPower(s) /\ NextEpochPower(v) >= NextEpochPower(s)
  BY <1>1, <1>2, <1>4, <1>5 DEF NextEpochPower
<1>8. t \in StakePoolType /\ NextEpochPower(t) >= NextEpochPower(s)
  BY <1>4, <1>5, <1>7
<1> HIDE DEF t
<1> QED
  BY <1>6, <1>8, OnePoolHeld

\* Unlocking and reactivating only move stake between two stores that both count.
LEMMA UnlockHeld ==
  ASSUME StepInv, NEW p \in Pools, NEW amount \in Amounts, Unlock(p, amount)
  PROVE  Held
<1> DEFINE s == stake_pool[p]
           n == Least(amount, s.active)
           t == [s EXCEPT !.active = s.active - n, !.pending_inactive = s.pending_inactive + n]
<1>1. amount \in Nat /\ s \in StakePoolType
  BY PoolFields, AmountAssumption DEF StepInv, StakeInv
<1>2. /\ s.active \in Nat /\ s.pending_active \in Nat /\ s.pending_inactive \in Nat
  BY <1>1, PowerNat
<1>3. n \in Nat /\ n <= s.active
  BY <1>1, <1>2, LeastNat
<1>4. stake_pool' = [stake_pool EXCEPT ![p] = t]
  BY DEF Unlock
<1> HIDE DEF n
<1>5. s.active - n \in Nat /\ s.pending_inactive + n \in Nat
  BY <1>2, <1>3
<1>6. /\ t \in StakePoolType /\ t.pending_active = s.pending_active
      /\ t.active = s.active - n /\ t.pending_inactive = s.pending_inactive + n
  BY <1>1, <1>5 DEF StakePoolType
<1> HIDE DEF t
<1>7. NextEpochPower(t) >= NextEpochPower(s)
  BY <1>2, <1>3, <1>6 DEF NextEpochPower
<1> QED
  BY <1>4, <1>6, <1>7, OnePoolHeld

LEMMA ReactivateHeld ==
  ASSUME StepInv, NEW p \in Pools, NEW amount \in Amounts, Reactivate(p, amount)
  PROVE  Held
<1> DEFINE s == stake_pool[p]
           n == Least(amount, s.pending_inactive)
           t == [s EXCEPT !.active = s.active + n, !.pending_inactive = s.pending_inactive - n]
<1>1. amount \in Nat /\ s \in StakePoolType
  BY PoolFields, AmountAssumption DEF StepInv, StakeInv
<1>2. /\ s.active \in Nat /\ s.pending_active \in Nat /\ s.pending_inactive \in Nat
  BY <1>1, PowerNat
<1>3. n \in Nat /\ n <= s.pending_inactive
  BY <1>1, <1>2, LeastNat
<1>4. stake_pool' = [stake_pool EXCEPT ![p] = t]
  BY DEF Reactivate
<1> HIDE DEF n
<1>5. s.active + n \in Nat /\ s.pending_inactive - n \in Nat
  BY <1>2, <1>3
<1>6. /\ t \in StakePoolType /\ t.pending_active = s.pending_active
      /\ t.active = s.active + n /\ t.pending_inactive = s.pending_inactive - n
  BY <1>1, <1>5 DEF StakePoolType
<1> HIDE DEF t
<1>7. NextEpochPower(t) >= NextEpochPower(s)
  BY <1>2, <1>3, <1>6 DEF NextEpochPower
<1> QED
  BY <1>4, <1>6, <1>7, OnePoolHeld

\* A withdrawal takes inactive coins, and makes pending_inactive ones inactive only when the
\* lockup is over; no reconfiguration runs then, so its time is now.
LEMMA WithdrawHeld ==
  ASSUME StepInv, NEW p \in Pools, NEW amount \in Amounts, Withdraw(p, amount)
  PROVE  Held
<1> DEFINE s == stake_pool[p]
           u == [s EXCEPT !.inactive = s.inactive + s.pending_inactive, !.pending_inactive = 0]
           freed == IF MayFreePending(p) THEN u ELSE s
           taken == Least(amount, freed.inactive)
           t == [freed EXCEPT !.inactive = freed.inactive - taken]
<1>1. amount \in Nat /\ s \in StakePoolType
  BY PoolFields, AmountAssumption DEF StepInv, StakeInv
<1>2. /\ s.active \in Nat /\ s.pending_active \in Nat /\ s.pending_inactive \in Nat
      /\ s.inactive \in Nat /\ s.locked_until \in Nat
  BY <1>1, PowerNat
<1>3. s.inactive + s.pending_inactive \in Nat
  BY <1>2
<1>4. u \in StakePoolType
  BY <1>1, <1>3 DEF StakePoolType
<1>5. stake_pool' = [stake_pool EXCEPT ![p] = t]
  BY DEF Withdraw
<1> HIDE DEF u
<1>6. freed \in StakePoolType
  BY <1>1, <1>4
<1>7. ~MayFreePending(p) => freed = s
  OBVIOUS
<1> HIDE DEF freed
<1>8. freed.inactive \in Nat
  BY <1>6, PowerNat
<1>9. taken \in Nat /\ taken <= freed.inactive
  BY <1>1, <1>8, LeastNat
<1> HIDE DEF taken
<1>10. freed.inactive - taken \in Nat
  BY <1>8, <1>9
<1>11. /\ t \in StakePoolType
       /\ t.active = freed.active /\ t.pending_active = freed.pending_active
       /\ t.pending_inactive = freed.pending_inactive
  BY <1>6, <1>10 DEF StakePoolType
<1> HIDE DEF t
<1>12. CASE MayFreePending(p)
  <2>1. ReconfigStartTime = NowSeconds
    BY DEF Withdraw, ReconfigNotInProgress, ReconfigStartTime
  <2>2. NowSeconds >= s.locked_until
    BY <1>12 DEF MayFreePending
  <2>3. s.locked_until <= ReconfigStartTime
    BY <2>1, <2>2, <1>2, StartTimeIsPast
  <2> QED
    BY <1>5, <1>11, <2>3, OnePoolHeld
<1>13. CASE ~MayFreePending(p)
  <2>1. NextEpochPower(t) = NextEpochPower(s)
    BY <1>7, <1>11, <1>13 DEF NextEpochPower
  <2>2. NextEpochPower(t) >= NextEpochPower(s)
    BY <2>1, <1>1, PowerNat
  <2> QED
    BY <1>5, <1>11, <2>2, OnePoolHeld
<1> QED
  BY <1>12, <1>13

LEMMA IncreaseLockupHeld ==
  ASSUME StepInv, NEW p \in Pools, IncreaseLockup(p)
  PROVE  Held
<1> DEFINE s == stake_pool[p]
           t == [s EXCEPT !.locked_until = NowSeconds + LockupDuration]
<1>1. s \in StakePoolType
  BY PoolFields DEF StepInv, StakeInv
<1>2. NowSeconds + LockupDuration \in Nat
  BY StartTimeIsPast, TimeAssumption
<1>3. /\ t \in StakePoolType
      /\ t.active = s.active /\ t.pending_active = s.pending_active
      /\ t.pending_inactive = s.pending_inactive
  BY <1>1, <1>2 DEF StakePoolType
<1>4. stake_pool' = [stake_pool EXCEPT ![p] = t]
  BY DEF IncreaseLockup
<1> HIDE DEF t
<1>5. NextEpochPower(t) = NextEpochPower(s)
  BY <1>3 DEF NextEpochPower
<1>6. NextEpochPower(t) >= NextEpochPower(s)
  BY <1>5, <1>1, PowerNat
<1> QED
  BY <1>3, <1>4, <1>6, OnePoolHeld

\* The epoch change pays a pool and, at the end of its lockup only, frees what it unlocked.
LEMMA ReconfigureHeld ==
  ASSUME StepInv, Reconfigure
  PROVE  Held
<1> SUFFICES ASSUME NEW p \in Pools, ~(stake_pool[p].locked_until <= ReconfigStartTime)
             PROVE  ~(NextEpochPower(stake_pool'[p]) < NextEpochPower(stake_pool[p]))
  BY DEF Held
<1> DEFINE s == stake_pool[p]
           w == UpdatedPools[p]
           r == [w EXCEPT !.locked_until = NowSeconds + LockupDuration]
<1>1. s \in StakePoolType /\ w \in StakePoolType
  BY PoolFields, UpdatedPoolsType DEF StepInv, StakeInv
<1>2. NextEpochPower(w) >= NextEpochPower(s)
  <2>1. CASE p \in CurrentEpochValidators
    <3>1. MintedActive(p) \in Nat /\ MintedPendingInactive(p) \in Nat
      BY <2>1, MintedNat DEF StepInv
    <3>2. ~(ReconfigStartTime >= s.locked_until)
      BY <1>1, PowerNat, StartTimeIsPast
    <3>3. w = UpdateStakePool(p)
      BY <2>1 DEF UpdatedPools, IsCurrentEpochValidator
    <3>4. /\ w.active = s.active + MintedActive(p) + s.pending_active
          /\ w.pending_active = 0
          /\ w.pending_inactive = s.pending_inactive + MintedPendingInactive(p)
      BY <3>2, <3>3 DEF UpdateStakePool
    <3>5. /\ s.active \in Nat /\ s.pending_active \in Nat /\ s.pending_inactive \in Nat
      BY <1>1, PowerNat
    <3> HIDE DEF w, s
    <3> QED
      BY <3>1, <3>4, <3>5 DEF NextEpochPower
  <2>2. CASE p \notin CurrentEpochValidators
    <3>1. w = s
      BY <2>2 DEF UpdatedPools, IsCurrentEpochValidator
    <3> QED
      BY <3>1, <1>1, PowerNat
  <2> QED
    BY <2>1, <2>2
<1>3. NextEpochPower(r) = NextEpochPower(w)
  <2>1. r.active = w.active /\ r.pending_active = w.pending_active
        /\ r.pending_inactive = w.pending_inactive
    BY <1>1 DEF StakePoolType
  <2> QED
    BY <2>1 DEF NextEpochPower
<1>4. stake_pool'[p] = r \/ stake_pool'[p] = w
  BY DEF Reconfigure, OnNewEpoch, RenewedLockup
<1>5. NextEpochPower(s) \in Nat /\ NextEpochPower(w) \in Nat
  BY <1>1, PowerNat
<1> HIDE DEF s, w, r
<1>6. NextEpochPower(stake_pool'[p]) = NextEpochPower(w)
  BY <1>3, <1>4
<1> QED
  BY <1>2, <1>5, <1>6 DEF s

\* stake.move's lockup: what votes with a pool's stake today still holds it until
\* locked_until, whoever unlocks, leaves, withdraws or ends the epoch.
THEOREM StakeHeldUntilLockupEnds == Spec => StakeIsHeldUntilLockupEnds
<1>1. StepInv /\ [Next]_vars => Held
  <2> SUFFICES ASSUME StepInv, [Next]_vars PROVE Held
    OBVIOUS
  <2>1. ASSUME stake_pool' = stake_pool PROVE Held
    <3>1. \A p \in Pools : NextEpochPower(stake_pool[p]) \in Nat
      BY PoolFields, PowerNat DEF StepInv, StakeInv
    <3> QED
      BY <2>1, <3>1 DEF Held
  <2>2. ASSUME NEW p \in Pools, OwnerStep(p) PROVE Held
    BY <2>2, AddStakeHeld, UnlockHeld, ReactivateHeld, WithdrawHeld, IncreaseLockupHeld
       DEF OwnerStep
  <2>3. ASSUME NEW p \in Pools, OperatorStep(p) PROVE Held
    BY <2>1, <2>3 DEF OperatorStep, JoinValidatorSet, LeavePendingActive, LeaveActive
  <2>4. ASSUME NEW removed \in SUBSET Pools, RemoveValidators(removed) PROVE Held
    BY <2>1, <2>4 DEF RemoveValidators
  <2>5. ASSUME NEW minimum \in MinimumStakes, UpdateRequiredStake(minimum) PROVE Held
    BY <2>1, <2>5 DEF UpdateRequiredStake
  <2>6. ASSUME NEW proposer, NEW failed, BlockPrologue(proposer, failed) PROVE Held
    BY <2>1, <2>6 DEF BlockPrologue
  <2>7. ASSUME NEW index, NEW fee \in 1..MaxFee, RecordFee(index, fee) PROVE Held
    BY <2>1, <2>7 DEF RecordFee
  <2>8. CASE TryStart
    BY <2>1, <2>8 DEF TryStart
  <2>9. CASE Reconfigure
    BY <2>9, ReconfigureHeld
  <2>10. CASE UNCHANGED vars
    BY <2>1, <2>10 DEF vars
  <2> QED
    BY <2>2, <2>3, <2>4, <2>5, <2>6, <2>7, <2>8, <2>9, <2>10 DEF Next
<1> QED
  BY <1>1, StepInvariance, PTL DEF Spec, StakeIsHeldUntilLockupEnds, Held

-----------------------------------------------------------------------------
(* Sums over finite sets.  SumFunctionOnSet(f, S) folds a recursive function *)
(* over the subsets of S, and the induction principles of the library cannot *)
(* be instantiated here, so every induction takes a minimal counterexample   *)
(* (MinimalSubset).                                                          *)

\* The member the fold takes next.
Chosen(s) == CHOOSE x \in s : TRUE

\* g sums f over every subset of S: the recursion inside SumFunctionOnSet.
Sums(g, f, S) ==
  g = [s \in SUBSET S |-> IF s = {} THEN 0 ELSE f[Chosen(s)] + g[s \ {Chosen(s)}]]

Summation(f, S) == CHOOSE g : Sums(g, f, S)

\* A non-empty family of subsets of a finite set has a member that leaves the
\* family whenever an element is taken out of it.
LEMMA MinimalSubset ==
  ASSUME NEW S, IsFiniteSet(S), NEW B, B \subseteq SUBSET S, B # {}
  PROVE  \E T \in B : \A x \in T : T \ {x} \notin B
<1>1. IsWellFoundedOn(StrictSubsetOrdering(S), FiniteSubsetsOf(S))
  BY FS_StrictSubsetOrderingWellFounded
<1>2. B \subseteq FiniteSubsetsOf(S)
  BY FS_Subset DEF FiniteSubsetsOf
<1>3. PICK T \in B : \A U \in B : ~(<<U, T>> \in StrictSubsetOrdering(S))
  BY <1>1, <1>2, WFMin
<1>4. ASSUME NEW x \in T, T \ {x} \in B
      PROVE  FALSE
  BY <1>3, <1>4 DEF StrictSubsetOrdering
<1> QED BY <1>4

\* Two summations of f agree wherever both are defined.
LEMMA SumsAgree ==
  ASSUME NEW f, NEW S, NEW T, NEW g, NEW h, Sums(g, f, S), Sums(h, f, T),
         NEW U, U \subseteq S, U \subseteq T, IsFiniteSet(U)
  PROVE  g[U] = h[U]
<1> DEFINE Bad == {s \in SUBSET U : g[s] # h[s]}
<1>1. SUFFICES ASSUME Bad # {} PROVE FALSE
  OBVIOUS
<1>2. PICK s \in Bad : \A x \in s : s \ {x} \notin Bad
  BY <1>1, MinimalSubset
<1>3. CASE s = {}
  BY <1>2, <1>3 DEF Sums
<1>4. CASE s # {}
  <2>1. Chosen(s) \in s
    BY <1>4 DEF Chosen
  <2>2. g[s \ {Chosen(s)}] = h[s \ {Chosen(s)}]
    BY <1>2, <2>1
  <2>3. g[s] = f[Chosen(s)] + g[s \ {Chosen(s)}]
    BY <1>4 DEF Sums
  <2>4. h[s] = f[Chosen(s)] + h[s \ {Chosen(s)}]
    BY <1>4 DEF Sums
  <2> QED BY <2>2, <2>3, <2>4
<1> QED BY <1>3, <1>4

\* The recursion has a solution over every finite set.
LEMMA SummationExists ==
  ASSUME NEW f, NEW S, IsFiniteSet(S)
  PROVE  Sums(Summation(f, S), f, S)
<1> DEFINE Bad == {T \in SUBSET S : ~\E g : Sums(g, f, T)}
<1>1. SUFFICES Bad = {}
  BY <1>1 DEF Summation
<1>2. SUFFICES ASSUME NEW T \in Bad, \A x \in T : T \ {x} \notin Bad PROVE FALSE
  BY MinimalSubset
<1> DEFINE Part(u) == Summation(f, u)
           Rest(s) == s \ {Chosen(s)}
           h == [s \in SUBSET T |-> IF s = {} THEN 0
                                    ELSE f[Chosen(s)] + Part(T \ {Chosen(s)})[Rest(s)]]
<1>3. IsFiniteSet(T)
  BY FS_Subset
<1>4. \A x \in T : Sums(Part(T \ {x}), f, T \ {x})
  BY <1>2 DEF Summation
<1>5. ASSUME NEW s \in SUBSET T, s # {}
      PROVE  Part(T \ {Chosen(s)})[Rest(s)] = h[Rest(s)]
  <2>1. Chosen(s) \in s
    BY <1>5 DEF Chosen
  <2>2. Sums(Part(T \ {Chosen(s)}), f, T \ {Chosen(s)})
    BY <1>4, <2>1
  <2>3. Rest(s) \subseteq T \ {Chosen(s)}
    OBVIOUS
  <2>4. CASE Rest(s) = {}
    BY <2>2, <2>3, <2>4 DEF Sums
  <2>5. CASE Rest(s) # {}
    <3> DEFINE r == Rest(s)
    <3>1. Chosen(r) \in r
      BY <2>5 DEF Chosen
    <3>2. Sums(Part(T \ {Chosen(r)}), f, T \ {Chosen(r)})
      BY <1>4, <3>1
    <3>3. Part(T \ {Chosen(s)})[r]
            = f[Chosen(r)] + Part(T \ {Chosen(s)})[Rest(r)]
      BY <2>2, <2>3, <2>5 DEF Sums
    <3>4. h[r] = f[Chosen(r)] + Part(T \ {Chosen(r)})[Rest(r)]
      BY <2>5
    <3>5. Rest(r) \subseteq T \ {Chosen(s)} /\ Rest(r) \subseteq T \ {Chosen(r)}
      OBVIOUS
    <3>6. IsFiniteSet(Rest(r))
      BY <1>3, <3>5, FS_Subset
    <3>7. Part(T \ {Chosen(s)})[Rest(r)] = Part(T \ {Chosen(r)})[Rest(r)]
      <4> DEFINE V == Rest(r)
                 A == T \ {Chosen(s)}
                 B == T \ {Chosen(r)}
      <4>1. /\ Sums(Part(A), f, A) /\ Sums(Part(B), f, B)
            /\ V \subseteq A /\ V \subseteq B /\ IsFiniteSet(V)
        BY <2>2, <3>2, <3>5, <3>6
      <4> HIDE DEF V, A, B, Part
      <4>2. Part(A)[V] = Part(B)[V]
        BY <4>1, SumsAgree
      <4> QED BY <4>2 DEF A, B, V
    <3> QED BY <3>3, <3>4, <3>7
  <2> QED BY <2>4, <2>5
<1>6. h = [s \in SUBSET T |-> IF s = {} THEN 0 ELSE f[Chosen(s)] + h[Rest(s)]]
  BY <1>5
<1>7. Sums(h, f, T)
  BY <1>6 DEF Sums
<1> QED BY <1>7

\* The sum over nothing.
LEMMA SumEmpty ==
  ASSUME NEW f
  PROVE  SumFunctionOnSet(f, {}) = 0
<1>1. Sums(Summation(f, {}), f, {})
  BY SummationExists, FS_EmptySet
<1>2. SumFunctionOnSet(f, {}) = Summation(f, {})[{}]
  BY DEF SumFunctionOnSet, FoldFunctionOnSet, MapThenFoldSet, Summation, Sums, Chosen
<1> QED BY <1>1, <1>2 DEF Sums

\* The sum unfolded once, at the member the fold takes.
LEMMA SumUnfold ==
  ASSUME NEW f, NEW S, IsFiniteSet(S), S # {}
  PROVE  SumFunctionOnSet(f, S) = f[Chosen(S)] + SumFunctionOnSet(f, S \ {Chosen(S)})
<1> DEFINE R == S \ {Chosen(S)}
<1>1. IsFiniteSet(R)
  BY FS_Subset
<1>2. Sums(Summation(f, S), f, S) /\ Sums(Summation(f, R), f, R)
  BY <1>1, SummationExists
<1>3. SumFunctionOnSet(f, S) = Summation(f, S)[S]
  BY DEF SumFunctionOnSet, FoldFunctionOnSet, MapThenFoldSet, Summation, Sums, Chosen
<1>4. SumFunctionOnSet(f, R) = Summation(f, R)[R]
  BY DEF SumFunctionOnSet, FoldFunctionOnSet, MapThenFoldSet, Summation, Sums, Chosen
<1>5. Summation(f, S)[S] = f[Chosen(S)] + Summation(f, S)[R]
  BY <1>2 DEF Sums
<1>6. Summation(f, S)[R] = Summation(f, R)[R]
  BY <1>1, <1>2, SumsAgree
<1> QED BY <1>3, <1>4, <1>5, <1>6

-----------------------------------------------------------------------------
\* A sum of integers is an integer.
LEMMA SumInt ==
  ASSUME NEW f, NEW S, IsFiniteSet(S), \A x \in S : f[x] \in Int
  PROVE  SumFunctionOnSet(f, S) \in Int
<1> DEFINE Bad == {T \in SUBSET S : SumFunctionOnSet(f, T) \notin Int}
<1>1. SUFFICES ASSUME NEW T \in Bad, \A x \in T : T \ {x} \notin Bad PROVE FALSE
  BY MinimalSubset
<1>2. IsFiniteSet(T)
  BY FS_Subset
<1>3. T # {}
  BY <1>1, SumEmpty
<1>4. Chosen(T) \in T
  BY <1>3 DEF Chosen
<1>5. SumFunctionOnSet(f, T \ {Chosen(T)}) \in Int
  BY <1>1, <1>4
<1>6. SumFunctionOnSet(f, T) = f[Chosen(T)] + SumFunctionOnSet(f, T \ {Chosen(T)})
  BY <1>2, <1>3, SumUnfold
<1>7. f[Chosen(T)] \in Int
  BY <1>4
<1>8. SumFunctionOnSet(f, T) \in Int
  BY <1>5, <1>6, <1>7
<1> QED BY <1>1, <1>8

\* Any member may be taken out of the sum first: the order of the fold is immaterial.
LEMMA SumRemove ==
  ASSUME NEW f, NEW S, IsFiniteSet(S), \A x \in S : f[x] \in Int, NEW x \in S
  PROVE  SumFunctionOnSet(f, S) = f[x] + SumFunctionOnSet(f, S \ {x})
<1> DEFINE Sum(T) == SumFunctionOnSet(f, T)
           Bad == {T \in SUBSET S : \E y \in T : Sum(T) # f[y] + Sum(T \ {y})}
<1>1. SUFFICES ASSUME NEW T \in Bad, \A y \in T : T \ {y} \notin Bad PROVE FALSE
  BY MinimalSubset
<1>2. PICK y \in T : Sum(T) # f[y] + Sum(T \ {y})
  OBVIOUS
<1> DEFINE z == Chosen(T)
<1>3. IsFiniteSet(T)
  BY FS_Subset
<1>4. z \in T
  BY DEF Chosen
<1>5. Sum(T) = f[z] + Sum(T \ {z})
  BY <1>3, SumUnfold
<1>6. y # z
  BY <1>2, <1>5
<1>7. Sum(T \ {z}) = f[y] + Sum((T \ {z}) \ {y})
  BY <1>1, <1>4, <1>6
<1>8. Sum(T \ {y}) = f[z] + Sum((T \ {y}) \ {z})
  BY <1>1, <1>2, <1>4, <1>6
<1>9. (T \ {y}) \ {z} = (T \ {z}) \ {y}
  OBVIOUS
<1> DEFINE R == (T \ {z}) \ {y}
<1>10. IsFiniteSet(R)
  BY FS_Subset
<1>11. Sum(R) \in Int
  BY <1>10, SumInt
<1>12. f[y] \in Int /\ f[z] \in Int
  BY <1>4
<1> HIDE DEF z, R, Sum
<1>13. Sum(T) = f[y] + (f[z] + Sum(R))
  BY <1>5, <1>7, <1>11, <1>12 DEF R
<1> QED BY <1>2, <1>8, <1>9, <1>13 DEF R

\* One more member.
LEMMA SumAdd ==
  ASSUME NEW f, NEW S, IsFiniteSet(S), NEW x, x \notin S,
         \A y \in S \cup {x} : f[y] \in Int
  PROVE  SumFunctionOnSet(f, S \cup {x}) = f[x] + SumFunctionOnSet(f, S)
<1>1. IsFiniteSet(S \cup {x})
  BY FS_AddElement
<1>2. (S \cup {x}) \ {x} = S
  OBVIOUS
<1> QED BY <1>1, <1>2, SumRemove

\* Only the values on S matter.
LEMMA SumSame ==
  ASSUME NEW f, NEW g, NEW S, IsFiniteSet(S), \A x \in S : f[x] = g[x]
  PROVE  SumFunctionOnSet(f, S) = SumFunctionOnSet(g, S)
<1> DEFINE Bad == {T \in SUBSET S : SumFunctionOnSet(f, T) # SumFunctionOnSet(g, T)}
<1>1. SUFFICES ASSUME NEW T \in Bad, \A x \in T : T \ {x} \notin Bad PROVE FALSE
  BY MinimalSubset
<1>2. IsFiniteSet(T)
  BY FS_Subset
<1>3. T # {}
  BY SumEmpty
<1>4. Chosen(T) \in T
  BY <1>3 DEF Chosen
<1>5. SumFunctionOnSet(f, T \ {Chosen(T)}) = SumFunctionOnSet(g, T \ {Chosen(T)})
  BY <1>1, <1>4
<1>6. SumFunctionOnSet(f, T) = f[Chosen(T)] + SumFunctionOnSet(f, T \ {Chosen(T)})
  BY <1>2, <1>3, SumUnfold
<1>7. SumFunctionOnSet(g, T) = g[Chosen(T)] + SumFunctionOnSet(g, T \ {Chosen(T)})
  BY <1>2, <1>3, SumUnfold
<1> QED BY <1>4, <1>5, <1>6, <1>7

\* Sums add up, function by function.
LEMMA SumPlus ==
  ASSUME NEW f, NEW g, NEW h, NEW S, IsFiniteSet(S),
         \A x \in S : f[x] \in Int /\ g[x] \in Int /\ h[x] = f[x] + g[x]
  PROVE  SumFunctionOnSet(h, S) = SumFunctionOnSet(f, S) + SumFunctionOnSet(g, S)
<1> DEFINE Sum(e, T) == SumFunctionOnSet(e, T)
           Bad == {T \in SUBSET S : Sum(h, T) # Sum(f, T) + Sum(g, T)}
<1>1. SUFFICES ASSUME NEW T \in Bad, \A x \in T : T \ {x} \notin Bad PROVE FALSE
  BY MinimalSubset
<1> DEFINE z == Chosen(T)
           R == T \ {z}
<1>2. IsFiniteSet(T) /\ IsFiniteSet(R)
  BY FS_Subset
<1>3. T # {}
  <2>1. Sum(h, {}) = 0 /\ Sum(f, {}) = 0 /\ Sum(g, {}) = 0
    BY SumEmpty
  <2>2. 0 = 0 + 0
    OBVIOUS
  <2> QED BY <2>1, <2>2
<1>4. z \in T
  BY <1>3 DEF Chosen
<1>5. Sum(h, R) = Sum(f, R) + Sum(g, R)
  BY <1>1, <1>4
<1>6. Sum(f, T) = f[z] + Sum(f, R)
  BY <1>2, <1>3, SumUnfold
<1>7. Sum(g, T) = g[z] + Sum(g, R)
  BY <1>2, <1>3, SumUnfold
<1>8. Sum(h, T) = h[z] + Sum(h, R)
  BY <1>2, <1>3, SumUnfold
<1>9. Sum(f, R) \in Int
  BY <1>2, SumInt
<1>10. Sum(g, R) \in Int
  BY <1>2, SumInt
<1>11. f[z] \in Int /\ g[z] \in Int /\ h[z] = f[z] + g[z]
  BY <1>4
<1>12. Sum(h, T) # Sum(f, T) + Sum(g, T)
  OBVIOUS
<1> HIDE DEF Sum, z, R
<1> QED BY <1>5, <1>6, <1>7, <1>8, <1>9, <1>10, <1>11, <1>12

\* A sum that counts only the members of T is the sum over T.
LEMMA SumOnSubset ==
  ASSUME NEW f, NEW g, NEW S, IsFiniteSet(S), NEW T, T \subseteq S,
         \A x \in S : g[x] = IF x \in T THEN f[x] ELSE 0,
         \A x \in T : f[x] \in Int
  PROVE  SumFunctionOnSet(g, S) = SumFunctionOnSet(f, T)
<1> DEFINE Sum(e, U) == SumFunctionOnSet(e, U)
           Bad == {U \in SUBSET S : Sum(g, U) # Sum(f, U \cap T)}
<1>1. SUFFICES ASSUME NEW U \in Bad, \A x \in U : U \ {x} \notin Bad PROVE FALSE
  <2>1. S \in Bad \/ Sum(g, S) = Sum(f, T)
    BY Zenon
  <2> QED BY <2>1, <1>1, MinimalSubset
<1> DEFINE z == Chosen(U)
           R == U \ {z}
<1>2. IsFiniteSet(U) /\ IsFiniteSet(R) /\ IsFiniteSet(U \cap T) /\ IsFiniteSet(R \cap T)
  BY FS_Subset
<1>3. U # {}
  <2>1. {} \cap T = {}
    OBVIOUS
  <2> QED BY <2>1, SumEmpty
<1>4. z \in U
  BY <1>3 DEF Chosen
<1>5. Sum(g, R) = Sum(f, R \cap T)
  BY <1>1, <1>4
<1>6. Sum(g, U) = g[z] + Sum(g, R)
  BY <1>2, <1>3, SumUnfold
<1>7. Sum(f, R \cap T) \in Int
  BY <1>2, SumInt
<1>8. CASE z \in T
  <2>1. z \in U \cap T /\ (U \cap T) \ {z} = R \cap T
    BY <1>4, <1>8
  <2>2. Sum(f, U \cap T) = f[z] + Sum(f, R \cap T)
    BY <1>2, <2>1, SumRemove
  <2>3. g[z] = f[z]
    BY <1>4, <1>8
  <2> QED BY <1>5, <1>6, <2>2, <2>3
<1>9. CASE z \notin T
  <2>1. U \cap T = R \cap T
    BY <1>9
  <2>2. g[z] = 0
    BY <1>4, <1>9
  <2>3. Sum(g, U) = Sum(f, R \cap T)
    <3> HIDE DEF Sum, z, R
    <3> QED BY <1>5, <1>6, <1>7, <2>2
  <2> QED BY <2>1, <2>3
<1> QED BY <1>8, <1>9

\* A smaller function has a smaller sum.
LEMMA SumLeq ==
  ASSUME NEW f, NEW g, NEW S, IsFiniteSet(S),
         \A x \in S : f[x] \in Int /\ g[x] \in Int /\ f[x] <= g[x]
  PROVE  SumFunctionOnSet(f, S) <= SumFunctionOnSet(g, S)
<1> DEFINE Sum(e, T) == SumFunctionOnSet(e, T)
           Bad == {T \in SUBSET S : ~(Sum(f, T) <= Sum(g, T))}
<1>1. SUFFICES ASSUME NEW T \in Bad, \A x \in T : T \ {x} \notin Bad PROVE FALSE
  BY MinimalSubset
<1> DEFINE z == Chosen(T)
           R == T \ {z}
<1>2. IsFiniteSet(T) /\ IsFiniteSet(R)
  BY FS_Subset
<1>3. T # {}
  BY SumEmpty
<1>4. z \in T
  BY <1>3 DEF Chosen
<1>5. Sum(f, R) <= Sum(g, R)
  BY <1>1, <1>4
<1>6. Sum(f, T) = f[z] + Sum(f, R)
  BY <1>2, <1>3, SumUnfold
<1>7. Sum(g, T) = g[z] + Sum(g, R)
  BY <1>2, <1>3, SumUnfold
<1>9. Sum(f, R) \in Int
  BY <1>2, SumInt
<1>10. Sum(g, R) \in Int
  BY <1>2, SumInt
<1>11. f[z] \in Int /\ g[z] \in Int /\ f[z] <= g[z]
  BY <1>4
<1>12. ~(Sum(f, T) <= Sum(g, T))
  OBVIOUS
<1> HIDE DEF Sum, z, R
<1> QED BY <1>5, <1>6, <1>7, <1>9, <1>10, <1>11, <1>12

\* A constant sums to a multiple of itself.
LEMMA SumConstant ==
  ASSUME NEW f, NEW S, IsFiniteSet(S), NEW c \in Int, \A x \in S : f[x] = c
  PROVE  SumFunctionOnSet(f, S) = c * Cardinality(S)
<1> DEFINE Bad == {T \in SUBSET S : SumFunctionOnSet(f, T) # c * Cardinality(T)}
<1>1. SUFFICES ASSUME NEW T \in Bad, \A x \in T : T \ {x} \notin Bad PROVE FALSE
  BY MinimalSubset
<1> DEFINE z == Chosen(T)
           R == T \ {z}
<1>2. IsFiniteSet(T) /\ IsFiniteSet(R)
  BY FS_Subset
<1>3. T # {}
  BY SumEmpty, FS_EmptySet
<1>4. z \in T
  BY <1>3 DEF Chosen
<1>5. SumFunctionOnSet(f, R) = c * Cardinality(R)
  BY <1>1, <1>4
<1>6. SumFunctionOnSet(f, T) = f[z] + SumFunctionOnSet(f, R)
  BY <1>2, <1>3, SumUnfold
<1>7. Cardinality(R) = Cardinality(T) - 1
  BY <1>2, <1>4, FS_RemoveElement
<1>8. Cardinality(T) \in Nat
  BY <1>2, FS_CardinalityType
<1>9. f[z] = c
  BY <1>4
<1>10. SumFunctionOnSet(f, T) = c + c * (Cardinality(T) - 1)
  BY <1>5, <1>6, <1>7, <1>9
<1>11. \A n \in Nat : c + c * (n - 1) = c * n
  OBVIOUS
<1> QED BY <1>1, <1>8, <1>10, <1>11

-----------------------------------------------------------------------------
(* What the steps of a system do to a sum *)

\* The sum of nothing but zeros.
LEMMA SumZero ==
  ASSUME NEW f, NEW S, IsFiniteSet(S), \A x \in S : f[x] = 0
  PROVE  SumFunctionOnSet(f, S) = 0
<1>1. SumFunctionOnSet(f, S) = 0 * Cardinality(S)
  BY SumConstant
<1> QED BY <1>1, FS_CardinalityType

\* A sum of naturals is a natural.
LEMMA SumNat ==
  ASSUME NEW f, NEW S, IsFiniteSet(S), \A x \in S : f[x] \in Nat
  PROVE  SumFunctionOnSet(f, S) \in Nat
<1> DEFINE zero == [x \in S |-> 0]
<1>1. SumFunctionOnSet(zero, S) = 0
  BY SumZero
<1>2. SumFunctionOnSet(zero, S) <= SumFunctionOnSet(f, S)
  BY SumLeq
<1>3. SumFunctionOnSet(f, S) \in Int
  BY SumInt
<1> QED BY <1>1, <1>2, <1>3

\* A step that changes one value changes the sum by as much.
LEMMA SumChange ==
  ASSUME NEW f, NEW g, NEW S, IsFiniteSet(S), \A x \in S : f[x] \in Int /\ g[x] \in Int,
         NEW x \in S, \A y \in S \ {x} : g[y] = f[y]
  PROVE  SumFunctionOnSet(g, S) = SumFunctionOnSet(f, S) + (g[x] - f[x])
<1> DEFINE R == S \ {x}
<1>1. IsFiniteSet(R)
  BY FS_Subset
<1>2. SumFunctionOnSet(f, S) = f[x] + SumFunctionOnSet(f, R)
  BY SumRemove
<1>3. SumFunctionOnSet(g, S) = g[x] + SumFunctionOnSet(g, R)
  BY SumRemove
<1>4. SumFunctionOnSet(g, R) = SumFunctionOnSet(f, R)
  BY <1>1, SumSame
<1>5. SumFunctionOnSet(f, R) \in Int
  BY <1>1, SumInt
<1> QED BY <1>2, <1>3, <1>4, <1>5

\* The sum over two sets with nothing in common.
LEMMA SumUnion ==
  ASSUME NEW f, NEW S, NEW T, IsFiniteSet(S), IsFiniteSet(T), S \cap T = {},
         \A x \in S \cup T : f[x] \in Int
  PROVE  SumFunctionOnSet(f, S \cup T) = SumFunctionOnSet(f, S) + SumFunctionOnSet(f, T)
<1> DEFINE g == [x \in S \cup T |-> IF x \in S THEN f[x] ELSE 0]
           h == [x \in S \cup T |-> IF x \in T THEN f[x] ELSE 0]
<1>1. IsFiniteSet(S \cup T)
  BY FS_Union
<1>2. SumFunctionOnSet(g, S \cup T) = SumFunctionOnSet(f, S)
  BY <1>1, SumOnSubset
<1>3. SumFunctionOnSet(h, S \cup T) = SumFunctionOnSet(f, T)
  BY <1>1, SumOnSubset
<1>4. \A x \in S \cup T : g[x] \in Int /\ h[x] \in Int /\ f[x] = g[x] + h[x]
  OBVIOUS
<1>5. SumFunctionOnSet(f, S \cup T) = SumFunctionOnSet(g, S \cup T) + SumFunctionOnSet(h, S \cup T)
  BY <1>1, <1>4, SumPlus
<1> QED BY <1>2, <1>3, <1>5

-----------------------------------------------------------------------------
(* The sums of the stake pools *)

\* The new stake of the validators that leave.
LeavingStake == SumFunctionOnSet(PendingStake, pending_inactive)

\* The bound on the stake that joins.
JoiningLimit == (total_voting_power * IncreaseLimit) \div 100

\* What a pool adds to the sums is a natural.
LEMMA SummandsNat ==
  ASSUME TypeOK, NEW p \in Pools
  PROVE  PendingStake[p] \in Nat /\ NextPower[p] \in Nat
<1>1. PendingStake[p] \in Nat
  BY PoolFields DEF PendingStake
<1>2. NextPower[p] \in Nat
  BY PoolFields, PowerNat DEF NextPower
<1> QED BY <1>1, <1>2

\* The sets of pools are finite, and so the sums over them are naturals.
LEMMA SumsNat ==
  ASSUME TypeOK
  PROVE  /\ IsFiniteSet(active_validators) /\ IsFiniteSet(pending_active)
         /\ IsFiniteSet(pending_inactive) /\ IsFiniteSet(CurrentEpochValidators)
         /\ JoiningPower \in Nat /\ LeavingStake \in Nat
         /\ SumFunctionOnSet(NextPower, pending_active) \in Nat
         /\ SumFunctionOnSet(PendingStake, active_validators) \in Nat
         /\ SumFunctionOnSet(voting_power, CurrentEpochValidators) \in Nat
<1>1. /\ active_validators \subseteq Pools /\ pending_active \subseteq Pools
      /\ pending_inactive \subseteq Pools /\ CurrentEpochValidators \subseteq Pools
  BY DEF TypeOK, CurrentEpochValidators
<1>2. /\ IsFiniteSet(active_validators) /\ IsFiniteSet(pending_active)
      /\ IsFiniteSet(pending_inactive) /\ IsFiniteSet(CurrentEpochValidators)
  BY <1>1, PoolsAssumption, FS_Subset
<1>3. SumFunctionOnSet(NextPower, pending_active) \in Nat
  BY <1>1, <1>2, SummandsNat, SumNat
<1>4. SumFunctionOnSet(PendingStake, active_validators) \in Nat
  BY <1>1, <1>2, SummandsNat, SumNat
<1>5. LeavingStake \in Nat
  BY <1>1, <1>2, SummandsNat, SumNat DEF LeavingStake
<1>6. SumFunctionOnSet(voting_power, CurrentEpochValidators) \in Nat
  <2>1. \A p \in CurrentEpochValidators : voting_power[p] \in Nat
    BY <1>1 DEF TypeOK
  <2> QED BY <1>2, <2>1, SumNat
<1> QED BY <1>2, <1>3, <1>4, <1>5, <1>6 DEF JoiningPower

\* The same after a step.
SumsTyped == JoiningPower \in Nat /\ LeavingStake \in Nat

LEMMA SumsStayNat == TypeOK' => SumsTyped'
<1>1. TypeOK => SumsTyped
  BY SumsNat DEF SumsTyped
<1> QED BY <1>1, PTL

-----------------------------------------------------------------------------
(* The powers of the validator set *)

\* A step keeps PowersAreCounted if it keeps the voting power, counts what joins, and lets no
\* more join or compares the count to the limit.
LEMMA CountedStep ==
  ASSUME StakeInv, StakeInv', PowersAreCounted,
         total_voting_power' = total_voting_power,
         SumFunctionOnSet(voting_power', CurrentEpochValidators')
           = SumFunctionOnSet(voting_power, CurrentEpochValidators),
         JoiningPower' <= total_joining_power',
         total_joining_power' <= JoiningPower' + LeavingStake',
         JoiningPower' <= JoiningPower \/ WithinIncreaseLimit(total_joining_power')
  PROVE  PowersAreCounted'
<1>1. /\ JoiningPower \in Nat /\ JoiningPower' \in Nat
      /\ total_joining_power' \in Nat
  <2>1. JoiningPower \in Nat
    BY SumsNat DEF StakeInv
  <2>2. TypeOK'
    BY DEF StakeInv
  <2>3. JoiningPower' \in Nat
    BY <2>2, SumsStayNat DEF SumsTyped
  <2> QED BY <2>1, <2>2, <2>3 DEF TypeOK
<1>2. TotalPowerIsTheirPower'
  BY DEF PowersAreCounted, TotalPowerIsTheirPower
<1>3. JoiningPowerIsCounted'
  BY DEF JoiningPowerIsCounted, LeavingStake
<1>4. JoiningLimit \in Int
  <2>1. total_voting_power \in Nat
    BY SumsNat DEF PowersAreCounted, TotalPowerIsTheirPower, StakeInv
  <2> QED BY <2>1, AmountAssumption, DivNat DEF JoiningLimit
<1>5. JoiningLimit' = JoiningLimit
  BY DEF JoiningLimit
<1>6. total_voting_power > 0 => JoiningPower' <= JoiningLimit
  <2>1. CASE JoiningPower' <= JoiningPower
    <3>1. total_voting_power > 0 => JoiningPower <= JoiningLimit
      BY DEF PowersAreCounted, IncreaseStaysWithinLimit, JoiningLimit
    <3> QED BY <1>1, <1>4, <2>1, <3>1
  <2>2. CASE WithinIncreaseLimit(total_joining_power')
    <3>1. total_voting_power > 0 => total_joining_power' <= JoiningLimit
      BY <2>2 DEF WithinIncreaseLimit, JoiningLimit
    <3> QED BY <1>1, <1>4, <3>1
  <2> QED BY <2>1, <2>2
<1>7. IncreaseStaysWithinLimit'
  BY <1>5, <1>6 DEF IncreaseStaysWithinLimit, JoiningLimit
<1> QED BY <1>2, <1>3, <1>7 DEF PowersAreCounted

\* A step that leaves the set alone, and of the pools' stores only moves what the sums do not
\* tell apart, keeps PowersAreCounted.
LEMMA UncountedStep ==
  ASSUME StakeInv, StakeInv', PowersAreCounted,
         UNCHANGED <<set_vars, total_joining_power>>,
         \A p \in pending_active : NextPower'[p] = NextPower[p],
         \A p \in active_validators : PendingStake'[p] = PendingStake[p],
         \A p \in pending_inactive : PendingStake'[p] = PendingStake[p]
  PROVE  PowersAreCounted'
<1>1. /\ active_validators' = active_validators /\ pending_active' = pending_active
      /\ pending_inactive' = pending_inactive /\ voting_power' = voting_power
      /\ total_voting_power' = total_voting_power
      /\ total_joining_power' = total_joining_power
      /\ CurrentEpochValidators' = CurrentEpochValidators
  BY DEF set_vars, CurrentEpochValidators
<1>2. /\ IsFiniteSet(active_validators) /\ IsFiniteSet(pending_active)
      /\ IsFiniteSet(pending_inactive)
  BY SumsNat DEF StakeInv
<1>3. SumFunctionOnSet(NextPower', pending_active) = SumFunctionOnSet(NextPower, pending_active)
  BY <1>2, SumSame
<1>4. SumFunctionOnSet(PendingStake', active_validators)
        = SumFunctionOnSet(PendingStake, active_validators)
  BY <1>2, SumSame
<1>5. SumFunctionOnSet(PendingStake', pending_inactive)
        = SumFunctionOnSet(PendingStake, pending_inactive)
  BY <1>2, SumSame
<1>6. JoiningPower' = JoiningPower /\ LeavingStake' = LeavingStake
  BY <1>1, <1>3, <1>4, <1>5 DEF JoiningPower, LeavingStake
<1>7. JoiningPower \in Nat
  BY SumsNat DEF StakeInv
<1>8. JoiningPower <= total_joining_power /\ total_joining_power <= JoiningPower + LeavingStake
  BY DEF PowersAreCounted, JoiningPowerIsCounted, LeavingStake
<1> QED BY <1>1, <1>6, <1>7, <1>8, CountedStep

\* What a step that changes one pool does to the summands.
LEMMA OnePoolSummands ==
  ASSUME StakeInv, NEW p \in Pools, NEW t \in StakePoolType,
         stake_pool' = [stake_pool EXCEPT ![p] = t]
  PROVE  /\ NextPower'[p] = NextEpochPower(t) /\ PendingStake'[p] = t.pending_active
         /\ \A q \in Pools : NextPower'[q] \in Nat /\ PendingStake'[q] \in Nat
         /\ \A q \in Pools \ {p} : NextPower'[q] = NextPower[q] /\ PendingStake'[q] = PendingStake[q]
<1>1. stake_pool \in [Pools -> StakePoolType]
  BY DEF StakeInv, TypeOK
<1>2. /\ NextPower'[p] = NextEpochPower(t) /\ PendingStake'[p] = t.pending_active
      /\ NextEpochPower(t) \in Nat /\ t.pending_active \in Nat
  BY <1>1, PowerNat DEF NextPower, PendingStake
<1>3. ASSUME NEW q \in Pools \ {p}
      PROVE  NextPower'[q] = NextPower[q] /\ PendingStake'[q] = PendingStake[q]
  BY <1>1 DEF NextPower, PendingStake
<1>4. \A q \in Pools : NextPower[q] \in Nat /\ PendingStake[q] \in Nat
  BY SummandsNat DEF StakeInv
<1> QED BY <1>2, <1>3, <1>4

\* An owner's move within its pool that takes nothing from the stake that counts, unless the
\* pool is outside the set.
LEMMA OwnPoolStep ==
  ASSUME StakeInv, StakeInv', PowersAreCounted,
         NEW p \in Pools, NEW t \in StakePoolType,
         stake_pool' = [stake_pool EXCEPT ![p] = t],
         UNCHANGED <<set_vars, total_joining_power>>,
         \/ Inactive(p)
         \/ /\ t.pending_active = stake_pool[p].pending_active
            /\ NextEpochPower(t) = NextEpochPower(stake_pool[p])
  PROVE  PowersAreCounted'
<1>1. ASSUME NEW q \in active_validators \cup pending_active \cup pending_inactive
      PROVE  NextPower'[q] = NextPower[q] /\ PendingStake'[q] = PendingStake[q]
  <2>1. q \in Pools
    BY DEF StakeInv, TypeOK
  <2>2. CASE q # p
    BY <2>1, <2>2, OnePoolSummands
  <2>3. CASE q = p
    <3>1. ~Inactive(p)
      BY <2>3 DEF Inactive
    <3>2. NextPower'[p] = NextEpochPower(t) /\ PendingStake'[p] = t.pending_active
      BY OnePoolSummands
    <3> QED BY <2>3, <3>1, <3>2 DEF NextPower, PendingStake
  <2> QED BY <2>2, <2>3
<1> QED BY <1>1, UncountedStep

LEMMA AddStakeCounted ==
  ASSUME StakeInv, StakeInv', PowersAreCounted,
         NEW p \in Pools, NEW amount \in Amounts, AddStake(p, amount)
  PROVE  PowersAreCounted'
<1> DEFINE s == stake_pool[p]
           u == [s EXCEPT !.pending_active = s.pending_active + amount]
           v == [s EXCEPT !.active = s.active + amount]
           t == IF IsCurrentEpochValidator(p) THEN u ELSE v
<1>1. amount \in Nat /\ s \in StakePoolType
  BY PoolFields, AmountAssumption DEF StakeInv
<1>2. /\ s.active \in Nat /\ s.pending_active \in Nat /\ s.pending_inactive \in Nat
  BY <1>1, PowerNat
<1>3. s.pending_active + amount \in Nat /\ s.active + amount \in Nat
  BY <1>1, <1>2
<1>4. /\ u \in StakePoolType
      /\ u.active = s.active /\ u.pending_active = s.pending_active + amount
      /\ u.pending_inactive = s.pending_inactive
  BY <1>1, <1>3 DEF StakePoolType
<1>5. /\ v \in StakePoolType
      /\ v.active = s.active + amount /\ v.pending_active = s.pending_active
      /\ v.pending_inactive = s.pending_inactive
  BY <1>1, <1>3 DEF StakePoolType
<1>6. stake_pool' = [stake_pool EXCEPT ![p] = t]
  BY DEF AddStake
<1>7. /\ UNCHANGED set_vars
      /\ p \in active_validators \cup pending_active =>
           /\ total_joining_power' = total_joining_power + amount
           /\ WithinIncreaseLimit(total_joining_power')
      /\ p \notin active_validators \cup pending_active =>
           total_joining_power' = total_joining_power
  BY DEF AddStake
<1> HIDE DEF u, v
<1>8. /\ NextEpochPower(u) = NextEpochPower(s) + amount
      /\ NextEpochPower(v) = NextEpochPower(s) + amount
  BY <1>1, <1>2, <1>4, <1>5 DEF NextEpochPower
<1>9. /\ t \in StakePoolType /\ NextEpochPower(t) = NextEpochPower(s) + amount
      /\ p \in CurrentEpochValidators => t.pending_active = s.pending_active + amount
      /\ p \notin CurrentEpochValidators => t.pending_active = s.pending_active
  BY <1>4, <1>5, <1>8 DEF IsCurrentEpochValidator
<1> HIDE DEF t
<1>10. /\ NextPower'[p] = NextPower[p] + amount
       /\ p \in CurrentEpochValidators => PendingStake'[p] = PendingStake[p] + amount
       /\ p \notin CurrentEpochValidators => PendingStake'[p] = PendingStake[p]
       /\ \A q \in Pools : /\ NextPower'[q] \in Nat /\ PendingStake'[q] \in Nat
                           /\ NextPower[q] \in Nat /\ PendingStake[q] \in Nat
       /\ \A q \in Pools \ {p} : NextPower'[q] = NextPower[q] /\ PendingStake'[q] = PendingStake[q]
  <2>1. /\ NextPower'[p] = NextEpochPower(t) /\ PendingStake'[p] = t.pending_active
        /\ \A q \in Pools : NextPower'[q] \in Nat /\ PendingStake'[q] \in Nat
        /\ \A q \in Pools \ {p} : NextPower'[q] = NextPower[q] /\ PendingStake'[q] = PendingStake[q]
    BY <1>6, <1>9, OnePoolSummands
  <2>2. NextPower[p] = NextEpochPower(s) /\ PendingStake[p] = s.pending_active
    BY DEF NextPower, PendingStake
  <2>3. \A q \in Pools : NextPower[q] \in Nat /\ PendingStake[q] \in Nat
    BY SummandsNat DEF StakeInv
  <2> QED BY <1>9, <2>1, <2>2, <2>3
<1>11. /\ active_validators' = active_validators /\ pending_active' = pending_active
       /\ pending_inactive' = pending_inactive /\ voting_power' = voting_power
       /\ total_voting_power' = total_voting_power
       /\ CurrentEpochValidators' = CurrentEpochValidators
  BY <1>7 DEF set_vars, CurrentEpochValidators
<1>12. /\ IsFiniteSet(active_validators) /\ IsFiniteSet(pending_active)
       /\ IsFiniteSet(pending_inactive)
       /\ SumFunctionOnSet(NextPower, pending_active) \in Nat
       /\ SumFunctionOnSet(PendingStake, active_validators) \in Nat
       /\ JoiningPower \in Nat /\ LeavingStake \in Nat
  BY SumsNat DEF StakeInv
<1>13. /\ active_validators \subseteq Pools /\ pending_active \subseteq Pools
       /\ pending_inactive \subseteq Pools
  BY DEF StakeInv, TypeOK
<1>14. /\ JoiningPower <= total_joining_power
       /\ total_joining_power <= JoiningPower + LeavingStake
       /\ total_joining_power \in Nat
  BY DEF PowersAreCounted, JoiningPowerIsCounted, LeavingStake, StakeInv, TypeOK
<1>15. CASE p \in active_validators
  <2>1. p \notin pending_active /\ p \notin pending_inactive /\ p \in CurrentEpochValidators
    BY <1>15 DEF StakeInv, OneStanding, CurrentEpochValidators
  <2>2. SumFunctionOnSet(NextPower', pending_active) = SumFunctionOnSet(NextPower, pending_active)
    BY <1>10, <1>12, <1>13, <2>1, SumSame
  <2>3. SumFunctionOnSet(PendingStake', active_validators)
          = SumFunctionOnSet(PendingStake, active_validators) + (PendingStake'[p] - PendingStake[p])
    BY <1>10, <1>12, <1>13, <1>15, SumChange
  <2>4. SumFunctionOnSet(PendingStake', pending_inactive)
          = SumFunctionOnSet(PendingStake, pending_inactive)
    BY <1>10, <1>12, <1>13, <2>1, SumSame
  <2>5. PendingStake'[p] - PendingStake[p] = amount
    BY <1>1, <1>10, <2>1
  <2>6. JoiningPower' = JoiningPower + amount /\ LeavingStake' = LeavingStake
    BY <1>1, <1>11, <1>12, <2>2, <2>3, <2>4, <2>5 DEF JoiningPower, LeavingStake
  <2>7. /\ total_joining_power' = total_joining_power + amount
        /\ WithinIncreaseLimit(total_joining_power')
    BY <1>7, <1>15
  <2>8. /\ JoiningPower' <= total_joining_power'
        /\ total_joining_power' <= JoiningPower' + LeavingStake'
    BY <1>1, <1>12, <1>14, <2>6, <2>7
  <2> QED BY <1>11, <2>7, <2>8, CountedStep
<1>16. CASE p \in pending_active
  <2>1. p \notin active_validators /\ p \notin pending_inactive
    BY <1>16 DEF StakeInv, OneStanding
  <2>2. SumFunctionOnSet(NextPower', pending_active)
          = SumFunctionOnSet(NextPower, pending_active) + (NextPower'[p] - NextPower[p])
    BY <1>10, <1>12, <1>13, <1>16, SumChange
  <2>3. SumFunctionOnSet(PendingStake', active_validators)
          = SumFunctionOnSet(PendingStake, active_validators)
    BY <1>10, <1>12, <1>13, <2>1, SumSame
  <2>4. SumFunctionOnSet(PendingStake', pending_inactive)
          = SumFunctionOnSet(PendingStake, pending_inactive)
    BY <1>10, <1>12, <1>13, <2>1, SumSame
  <2>5. NextPower'[p] - NextPower[p] = amount
    BY <1>1, <1>10
  <2>6. JoiningPower' = JoiningPower + amount /\ LeavingStake' = LeavingStake
    BY <1>1, <1>11, <1>12, <2>2, <2>3, <2>4, <2>5 DEF JoiningPower, LeavingStake
  <2>7. /\ total_joining_power' = total_joining_power + amount
        /\ WithinIncreaseLimit(total_joining_power')
    BY <1>7, <1>16
  <2>8. /\ JoiningPower' <= total_joining_power'
        /\ total_joining_power' <= JoiningPower' + LeavingStake'
    BY <1>1, <1>12, <1>14, <2>6, <2>7
  <2> QED BY <1>11, <2>7, <2>8, CountedStep
<1>17. CASE p \in pending_inactive
  <2>1. p \notin active_validators /\ p \notin pending_active /\ p \in CurrentEpochValidators
    BY <1>17 DEF StakeInv, OneStanding, CurrentEpochValidators
  <2>2. SumFunctionOnSet(NextPower', pending_active) = SumFunctionOnSet(NextPower, pending_active)
    BY <1>10, <1>12, <1>13, <2>1, SumSame
  <2>3. SumFunctionOnSet(PendingStake', active_validators)
          = SumFunctionOnSet(PendingStake, active_validators)
    BY <1>10, <1>12, <1>13, <2>1, SumSame
  <2>4. SumFunctionOnSet(PendingStake', pending_inactive)
          = SumFunctionOnSet(PendingStake, pending_inactive) + (PendingStake'[p] - PendingStake[p])
    BY <1>10, <1>12, <1>13, <1>17, SumChange
  <2>5. PendingStake'[p] - PendingStake[p] = amount
    BY <1>1, <1>10, <2>1
  <2>6. JoiningPower' = JoiningPower /\ LeavingStake' = LeavingStake + amount
    BY <1>1, <1>11, <1>12, <2>2, <2>3, <2>4, <2>5 DEF JoiningPower, LeavingStake
  <2>7. total_joining_power' = total_joining_power
    BY <1>7, <2>1
  <2>8. /\ JoiningPower' <= total_joining_power'
        /\ total_joining_power' <= JoiningPower' + LeavingStake'
        /\ JoiningPower' <= JoiningPower
    BY <1>1, <1>12, <1>14, <2>6, <2>7
  <2> QED BY <1>11, <2>8, CountedStep
<1>18. CASE p \notin active_validators \cup pending_active \cup pending_inactive
  <2>1. Inactive(p)
    BY <1>18 DEF Inactive
  <2>2. UNCHANGED <<set_vars, total_joining_power>>
    BY <1>7, <1>18
  <2> QED BY <1>6, <1>9, <2>1, <2>2, OwnPoolStep
<1> QED BY <1>15, <1>16, <1>17, <1>18

LEMMA UnlockCounted ==
  ASSUME StakeInv, StakeInv', PowersAreCounted,
         NEW p \in Pools, NEW amount \in Amounts, Unlock(p, amount)
  PROVE  PowersAreCounted'
<1> DEFINE s == stake_pool[p]
           n == Least(amount, s.active)
           t == [s EXCEPT !.active = s.active - n, !.pending_inactive = s.pending_inactive + n]
<1>1. amount \in Nat /\ s \in StakePoolType
  BY PoolFields, AmountAssumption DEF StakeInv
<1>2. /\ s.active \in Nat /\ s.pending_active \in Nat /\ s.pending_inactive \in Nat
  BY <1>1, PowerNat
<1>3. n \in Nat /\ n <= s.active
  BY <1>1, <1>2, LeastNat
<1>4. stake_pool' = [stake_pool EXCEPT ![p] = t] /\ UNCHANGED <<set_vars, total_joining_power>>
  BY DEF Unlock
<1> HIDE DEF n
<1>5. s.active - n \in Nat /\ s.pending_inactive + n \in Nat
  BY <1>2, <1>3
<1>6. /\ t \in StakePoolType /\ t.pending_active = s.pending_active
      /\ t.active = s.active - n /\ t.pending_inactive = s.pending_inactive + n
  BY <1>1, <1>5 DEF StakePoolType
<1> HIDE DEF t
<1>7. NextEpochPower(t) = NextEpochPower(s)
  BY <1>2, <1>3, <1>6 DEF NextEpochPower
<1> QED
  BY <1>4, <1>6, <1>7, OwnPoolStep

LEMMA ReactivateCounted ==
  ASSUME StakeInv, StakeInv', PowersAreCounted,
         NEW p \in Pools, NEW amount \in Amounts, Reactivate(p, amount)
  PROVE  PowersAreCounted'
<1> DEFINE s == stake_pool[p]
           n == Least(amount, s.pending_inactive)
           t == [s EXCEPT !.active = s.active + n, !.pending_inactive = s.pending_inactive - n]
<1>1. amount \in Nat /\ s \in StakePoolType
  BY PoolFields, AmountAssumption DEF StakeInv
<1>2. /\ s.active \in Nat /\ s.pending_active \in Nat /\ s.pending_inactive \in Nat
  BY <1>1, PowerNat
<1>3. n \in Nat /\ n <= s.pending_inactive
  BY <1>1, <1>2, LeastNat
<1>4. stake_pool' = [stake_pool EXCEPT ![p] = t] /\ UNCHANGED <<set_vars, total_joining_power>>
  BY DEF Reactivate
<1> HIDE DEF n
<1>5. s.active + n \in Nat /\ s.pending_inactive - n \in Nat
  BY <1>2, <1>3
<1>6. /\ t \in StakePoolType /\ t.pending_active = s.pending_active
      /\ t.active = s.active + n /\ t.pending_inactive = s.pending_inactive - n
  BY <1>1, <1>5 DEF StakePoolType
<1> HIDE DEF t
<1>7. NextEpochPower(t) = NextEpochPower(s)
  BY <1>2, <1>3, <1>6 DEF NextEpochPower
<1> QED
  BY <1>4, <1>6, <1>7, OwnPoolStep

\* A withdrawal takes stake that counts only from a pool outside the set.
LEMMA WithdrawCounted ==
  ASSUME StakeInv, StakeInv', PowersAreCounted,
         NEW p \in Pools, NEW amount \in Amounts, Withdraw(p, amount)
  PROVE  PowersAreCounted'
<1> DEFINE s == stake_pool[p]
           u == [s EXCEPT !.inactive = s.inactive + s.pending_inactive, !.pending_inactive = 0]
           freed == IF MayFreePending(p) THEN u ELSE s
           taken == Least(amount, freed.inactive)
           t == [freed EXCEPT !.inactive = freed.inactive - taken]
<1>1. amount \in Nat /\ s \in StakePoolType
  BY PoolFields, AmountAssumption DEF StakeInv
<1>2. s.inactive + s.pending_inactive \in Nat
  BY <1>1, PowerNat
<1>3. u \in StakePoolType
  BY <1>1, <1>2 DEF StakePoolType
<1>4. stake_pool' = [stake_pool EXCEPT ![p] = t] /\ UNCHANGED <<set_vars, total_joining_power>>
  BY DEF Withdraw
<1> HIDE DEF u
<1>5. freed \in StakePoolType /\ (~MayFreePending(p) => freed = s)
  BY <1>1, <1>3
<1> HIDE DEF freed
<1>6. freed.inactive \in Nat
  BY <1>5, PowerNat
<1>7. taken \in Nat /\ taken <= freed.inactive
  BY <1>1, <1>6, LeastNat
<1> HIDE DEF taken
<1>8. freed.inactive - taken \in Nat
  BY <1>6, <1>7
<1>9. /\ t \in StakePoolType
      /\ t.active = freed.active /\ t.pending_active = freed.pending_active
      /\ t.pending_inactive = freed.pending_inactive
  BY <1>5, <1>8 DEF StakePoolType
<1> HIDE DEF t
<1>10. \/ Inactive(p)
       \/ t.pending_active = s.pending_active /\ NextEpochPower(t) = NextEpochPower(s)
  BY <1>5, <1>9 DEF MayFreePending, NextEpochPower
<1> QED
  BY <1>4, <1>9, <1>10, OwnPoolStep

LEMMA IncreaseLockupCounted ==
  ASSUME StakeInv, StakeInv', PowersAreCounted, NEW p \in Pools, IncreaseLockup(p)
  PROVE  PowersAreCounted'
<1> DEFINE s == stake_pool[p]
           t == [s EXCEPT !.locked_until = NowSeconds + LockupDuration]
<1>1. s \in StakePoolType
  BY PoolFields DEF StakeInv
<1>2. NowSeconds + LockupDuration \in Nat
  BY NowSecondsNat, TimeAssumption DEF StakeInv
<1>3. /\ t \in StakePoolType
      /\ t.active = s.active /\ t.pending_active = s.pending_active
      /\ t.pending_inactive = s.pending_inactive
  BY <1>1, <1>2 DEF StakePoolType
<1>4. stake_pool' = [stake_pool EXCEPT ![p] = t] /\ UNCHANGED <<set_vars, total_joining_power>>
  BY DEF IncreaseLockup
<1> HIDE DEF t
<1>5. NextEpochPower(t) = NextEpochPower(s)
  BY <1>3 DEF NextEpochPower
<1> QED
  BY <1>3, <1>4, <1>5, OwnPoolStep

-----------------------------------------------------------------------------
\* Who joins is counted with the stake it then has, and was not counted before.
LEMMA JoinCounted ==
  ASSUME StakeInv, StakeInv', PowersAreCounted, NEW p \in Pools, JoinValidatorSet(p)
  PROVE  PowersAreCounted'
<1>1. /\ p \notin active_validators /\ p \notin pending_active /\ p \notin pending_inactive
      /\ pending_active' = pending_active \cup {p}
      /\ active_validators' = active_validators /\ pending_inactive' = pending_inactive
      /\ voting_power' = [voting_power EXCEPT ![p] = NextEpochPower(stake_pool[p])]
      /\ total_joining_power' = total_joining_power + NextEpochPower(stake_pool[p])
      /\ WithinIncreaseLimit(total_joining_power')
      /\ stake_pool' = stake_pool /\ total_voting_power' = total_voting_power
  BY DEF JoinValidatorSet, MayJoin, Inactive
<1>2. NextPower' = NextPower /\ PendingStake' = PendingStake
  BY <1>1 DEF NextPower, PendingStake
<1>3. NextPower[p] = NextEpochPower(stake_pool[p])
  BY DEF NextPower
<1>4. /\ IsFiniteSet(pending_active) /\ IsFiniteSet(CurrentEpochValidators)
      /\ SumFunctionOnSet(NextPower, pending_active) \in Nat
      /\ SumFunctionOnSet(PendingStake, active_validators) \in Nat
      /\ JoiningPower \in Nat /\ LeavingStake \in Nat
  BY SumsNat DEF StakeInv
<1>5. NextPower[p] \in Nat /\ \A q \in pending_active \cup {p} : NextPower[q] \in Int
  BY SummandsNat DEF StakeInv, TypeOK
<1>6. SumFunctionOnSet(NextPower, pending_active \cup {p})
        = NextPower[p] + SumFunctionOnSet(NextPower, pending_active)
  BY <1>1, <1>4, <1>5, SumAdd
<1>7. JoiningPower' = JoiningPower + NextPower[p] /\ LeavingStake' = LeavingStake
  BY <1>1, <1>2, <1>4, <1>5, <1>6 DEF JoiningPower, LeavingStake
<1>8. SumFunctionOnSet(voting_power', CurrentEpochValidators')
        = SumFunctionOnSet(voting_power, CurrentEpochValidators)
  <2>1. CurrentEpochValidators' = CurrentEpochValidators /\ p \notin CurrentEpochValidators
    BY <1>1 DEF CurrentEpochValidators
  <2>2. \A q \in CurrentEpochValidators : voting_power'[q] = voting_power[q]
    BY <1>1, <2>1 DEF StakeInv, TypeOK, CurrentEpochValidators
  <2> QED BY <1>4, <2>1, <2>2, SumSame
<1>9. /\ JoiningPower <= total_joining_power
      /\ total_joining_power <= JoiningPower + LeavingStake
      /\ total_joining_power \in Nat
  BY DEF PowersAreCounted, JoiningPowerIsCounted, LeavingStake, StakeInv, TypeOK
<1>10. /\ JoiningPower' <= total_joining_power'
       /\ total_joining_power' <= JoiningPower' + LeavingStake'
  BY <1>1, <1>3, <1>4, <1>5, <1>7, <1>9
<1> QED BY <1>1, <1>8, <1>10, CountedStep

\* Subtracting a summand from a count that may be too high, down to 0 at most.
LEMMA SaturatingDifference ==
  ASSUME NEW n \in Nat, NEW w \in Nat, NEW l \in Nat, NEW t \in Nat,
         n + w <= t, t <= n + w + l
  PROVE  /\ n <= IF t > w THEN t - w ELSE 0
         /\ (IF t > w THEN t - w ELSE 0) <= n + l
OBVIOUS

\* Who takes back its application is discounted with all it was counted with, whatever it added
\* in between: the saturating subtraction never saturates below what others join with.
LEMMA LeavePendingActiveCounted ==
  ASSUME StakeInv, StakeInv', PowersAreCounted, NEW p \in Pools, LeavePendingActive(p)
  PROVE  PowersAreCounted'
<1> DEFINE next == NextEpochPower(stake_pool[p])
<1>1. /\ p \in pending_active /\ pending_active' = pending_active \ {p}
      /\ active_validators' = active_validators /\ pending_inactive' = pending_inactive
      /\ voting_power' = [voting_power EXCEPT ![p] = 0]
      /\ total_joining_power' =
           IF total_joining_power > next THEN total_joining_power - next ELSE 0
      /\ stake_pool' = stake_pool /\ total_voting_power' = total_voting_power
  BY DEF LeavePendingActive
<1>2. NextPower' = NextPower /\ PendingStake' = PendingStake /\ NextPower[p] = next
  BY <1>1 DEF NextPower, PendingStake
<1> HIDE DEF next
<1>3. /\ IsFiniteSet(pending_active) /\ IsFiniteSet(CurrentEpochValidators)
      /\ SumFunctionOnSet(NextPower, pending_active) \in Nat
      /\ SumFunctionOnSet(PendingStake, active_validators) \in Nat
      /\ JoiningPower \in Nat /\ LeavingStake \in Nat
  BY SumsNat DEF StakeInv
<1>4. next \in Nat /\ \A q \in pending_active : NextPower[q] \in Nat
  BY <1>2, SummandsNat DEF StakeInv, TypeOK
<1>5. SumFunctionOnSet(NextPower, pending_active)
        = next + SumFunctionOnSet(NextPower, pending_active \ {p})
  BY <1>1, <1>2, <1>3, <1>4, SumRemove
<1>6. SumFunctionOnSet(NextPower, pending_active \ {p}) \in Nat
  <2>1. IsFiniteSet(pending_active \ {p})
    BY <1>3, FS_RemoveElement
  <2> QED BY <1>4, <2>1, SumNat
<1>7. JoiningPower = JoiningPower' + next /\ LeavingStake' = LeavingStake /\ JoiningPower' \in Nat
  BY <1>1, <1>2, <1>3, <1>4, <1>5, <1>6 DEF JoiningPower, LeavingStake
<1>8. SumFunctionOnSet(voting_power', CurrentEpochValidators')
        = SumFunctionOnSet(voting_power, CurrentEpochValidators)
  <2>1. CurrentEpochValidators' = CurrentEpochValidators /\ p \notin CurrentEpochValidators
    BY <1>1 DEF CurrentEpochValidators, StakeInv, OneStanding
  <2>2. \A q \in CurrentEpochValidators : voting_power'[q] = voting_power[q]
    BY <1>1, <2>1 DEF StakeInv, TypeOK, CurrentEpochValidators
  <2> QED BY <1>3, <2>1, <2>2, SumSame
<1>9. /\ JoiningPower <= total_joining_power
      /\ total_joining_power <= JoiningPower + LeavingStake
      /\ total_joining_power \in Nat
  BY DEF PowersAreCounted, JoiningPowerIsCounted, LeavingStake, StakeInv, TypeOK
<1>10. /\ JoiningPower' <= total_joining_power'
       /\ total_joining_power' <= JoiningPower' + LeavingStake'
       /\ JoiningPower' <= JoiningPower
  <2>1. JoiningPower' + next <= total_joining_power
    BY <1>7, <1>9
  <2>2. total_joining_power <= JoiningPower' + next + LeavingStake
    BY <1>7, <1>9
  <2>3. JoiningPower' <= total_joining_power' /\ total_joining_power' <= JoiningPower' + LeavingStake
    BY <1>1, <1>3, <1>4, <1>7, <1>9, <2>1, <2>2, SaturatingDifference
  <2>4. JoiningPower' <= JoiningPower
    <3>1. \A n, w \in Nat : n <= n + w
      OBVIOUS
    <3> QED BY <1>4, <1>7, <3>1
  <2> QED BY <1>7, <2>3, <2>4
<1> QED BY <1>1, <1>8, <1>10, CountedStep

\* Leavers take their new stake from the sum that joins to the sum that does not.
LEMMA LeaversCounted ==
  ASSUME StakeInv, StakeInv', PowersAreCounted, NEW gone, gone \subseteq active_validators,
         active_validators' = active_validators \ gone,
         pending_inactive' = pending_inactive \cup gone,
         UNCHANGED <<pending_active, stake_pool, voting_power, total_voting_power,
                     total_joining_power>>
  PROVE  PowersAreCounted'
<1> DEFINE Stake(S) == SumFunctionOnSet(PendingStake, S)
<1>1. NextPower' = NextPower /\ PendingStake' = PendingStake
  BY DEF NextPower, PendingStake
<1>2. /\ IsFiniteSet(active_validators) /\ IsFiniteSet(pending_inactive)
      /\ SumFunctionOnSet(NextPower, pending_active) \in Nat
      /\ JoiningPower \in Nat /\ LeavingStake \in Nat
  BY SumsNat DEF StakeInv
<1>3. IsFiniteSet(gone) /\ IsFiniteSet(active_validators \ gone)
  BY <1>2, FS_Subset
<1>4. /\ \A q \in active_validators : PendingStake[q] \in Nat
      /\ \A q \in pending_inactive : PendingStake[q] \in Nat
  BY SummandsNat DEF StakeInv, TypeOK
<1>5. Stake(active_validators) = Stake(active_validators \ gone) + Stake(gone)
  <2>1. active_validators = (active_validators \ gone) \cup gone
    OBVIOUS
  <2>2. (active_validators \ gone) \cap gone = {}
    OBVIOUS
  <2>3. \A q \in (active_validators \ gone) \cup gone : PendingStake[q] \in Int
    BY <1>4
  <2>4. Stake((active_validators \ gone) \cup gone) = Stake(active_validators \ gone) + Stake(gone)
    BY <1>3, <2>2, <2>3, SumUnion
  <2> QED BY <2>1, <2>4
<1>6. Stake(pending_inactive \cup gone) = Stake(pending_inactive) + Stake(gone)
  <2>1. pending_inactive \cap gone = {}
    BY DEF StakeInv, OneStanding
  <2>2. \A q \in pending_inactive \cup gone : PendingStake[q] \in Int
    BY <1>4
  <2> QED BY <1>2, <1>3, <2>1, <2>2, SumUnion
<1>7. Stake(gone) \in Nat
  BY <1>3, <1>4, SumNat
<1>8. Stake(active_validators \ gone) \in Nat
  BY <1>3, <1>4, SumNat
<1>9. Stake(pending_inactive) \in Nat
  BY <1>2 DEF LeavingStake
<1>10. /\ JoiningPower = SumFunctionOnSet(NextPower, pending_active) + Stake(active_validators)
       /\ JoiningPower' = SumFunctionOnSet(NextPower, pending_active)
                            + Stake(active_validators \ gone)
       /\ LeavingStake = Stake(pending_inactive)
       /\ LeavingStake' = Stake(pending_inactive \cup gone)
  BY <1>1 DEF JoiningPower, LeavingStake
<1> HIDE DEF Stake
<1>11. /\ JoiningPower = JoiningPower' + Stake(gone)
       /\ LeavingStake' = LeavingStake + Stake(gone)
       /\ JoiningPower' \in Nat
  BY <1>2, <1>5, <1>6, <1>7, <1>8, <1>9, <1>10
<1>12. CurrentEpochValidators' = CurrentEpochValidators
  BY DEF CurrentEpochValidators
<1>13. /\ JoiningPower <= total_joining_power
       /\ total_joining_power <= JoiningPower + LeavingStake
       /\ total_joining_power \in Nat
  BY DEF PowersAreCounted, JoiningPowerIsCounted, LeavingStake, StakeInv, TypeOK
<1>14. /\ JoiningPower' <= total_joining_power'
       /\ total_joining_power' <= JoiningPower' + LeavingStake'
       /\ JoiningPower' <= JoiningPower
  BY <1>2, <1>7, <1>11, <1>13
<1> QED BY <1>12, <1>14, CountedStep

\* The epoch change counts everything afresh: nothing joins any more.
LEMMA ReconfigureCounted ==
  ASSUME StakeInv, StakeInv', Reconfigure
  PROVE  PowersAreCounted'
<1> DEFINE pools == UpdatedPools
           next == NextValidators(pools)
<1>1. /\ active_validators' = next /\ pending_active' = {} /\ pending_inactive' = {}
      /\ voting_power' = [p \in Pools |-> IF p \in next THEN NextEpochPower(pools[p]) ELSE 0]
      /\ total_voting_power' = TotalPower(pools, next)
      /\ total_joining_power' = 0
      /\ stake_pool' = [p \in Pools |-> IF p \in next THEN RenewedLockup(pools[p]) ELSE pools[p]]
  BY DEF Reconfigure, OnNewEpoch, JoiningPowerAfterEpoch
<1>2. next \subseteq Pools
  BY NextAreCandidates
<1>3. IsFiniteSet(next)
  BY <1>2, PoolsAssumption, FS_Subset
<1>4. \A p \in Pools : pools[p] \in StakePoolType /\ pools[p].pending_active = 0
  BY UpdatedPoolsType
<1> HIDE DEF next, pools
<1>5. CurrentEpochValidators' = next
  BY <1>1 DEF CurrentEpochValidators
<1>6. TotalPowerIsTheirPower'
  <2>1. \A p \in next : voting_power'[p] = [q \in next |-> NextEpochPower(pools[q])][p]
    BY <1>1, <1>2
  <2>2. SumFunctionOnSet(voting_power', next) = TotalPower(pools, next)
    BY <1>3, <2>1, SumSame DEF TotalPower
  <2> QED BY <1>1, <1>5, <2>2 DEF TotalPowerIsTheirPower
<1>7. \A p \in next : PendingStake'[p] = 0
  <2> SUFFICES ASSUME NEW p \in next PROVE stake_pool'[p].pending_active = 0
    BY <1>2 DEF PendingStake
  <2> DEFINE r == [pools[p] EXCEPT !.locked_until = NowSeconds + LockupDuration]
  <2>1. stake_pool'[p] = RenewedLockup(pools[p]) /\ pools[p] \in StakePoolType
    BY <1>1, <1>2, <1>4
  <2>2. r.pending_active = pools[p].pending_active
    BY <2>1 DEF StakePoolType
  <2>3. RenewedLockup(pools[p]) = r \/ RenewedLockup(pools[p]) = pools[p]
    BY DEF RenewedLockup
  <2> HIDE DEF r
  <2> QED BY <1>2, <1>4, <2>1, <2>2, <2>3
<1>8. SumFunctionOnSet(PendingStake', next) = 0
  BY <1>3, <1>7, SumZero
<1>9. SumFunctionOnSet(NextPower', {}) = 0 /\ SumFunctionOnSet(PendingStake', {}) = 0
  BY SumEmpty
<1>10. JoiningPower' = 0 /\ LeavingStake' = 0
  BY <1>1, <1>8, <1>9 DEF JoiningPower, LeavingStake
<1>11. JoiningPowerIsCounted'
  BY <1>1, <1>10 DEF JoiningPowerIsCounted, LeavingStake
<1>12. IncreaseStaysWithinLimit'
  <2>1. total_voting_power' \in Nat
    <3>1. \A p \in next : voting_power'[p] \in Nat
      BY <1>2 DEF StakeInv, TypeOK
    <3>2. SumFunctionOnSet(voting_power', next) \in Nat
      BY <1>3, <3>1, SumNat
    <3> QED BY <1>5, <1>6, <3>2 DEF TotalPowerIsTheirPower
  <2>2. total_voting_power' * IncreaseLimit \in Nat
    <3>1. \A n \in Nat : n * IncreaseLimit \in Nat
      BY AmountAssumption
    <3> QED BY <2>1, <3>1
  <2>3. (total_voting_power' * IncreaseLimit) \div 100 \in Nat
    BY <2>2, DivNat
  <2> QED BY <1>10, <2>3 DEF IncreaseStaysWithinLimit
<1> QED BY <1>6, <1>11, <1>12 DEF PowersAreCounted

LEMMA InitCounted == Init => PowersAreCounted
<1> SUFFICES ASSUME Init PROVE PowersAreCounted
  OBVIOUS
<1>1. StakeInv
  BY InitStakeInv
<1>2. IsFiniteSet(Genesis) /\ Genesis \subseteq Pools
  BY PoolsAssumption, FS_Subset
<1>3. /\ active_validators = Genesis /\ pending_active = {} /\ pending_inactive = {}
      /\ total_joining_power = 0 /\ total_voting_power = GenesisStake * Cardinality(Genesis)
      /\ CurrentEpochValidators = Genesis
      /\ \A p \in Genesis : voting_power[p] = GenesisStake
      /\ \A p \in Genesis : PendingStake[p] = 0
  <2>1. \A p \in Genesis : stake_pool[p].pending_active = 0
    BY <1>2 DEF Init, EmptyPool
  <2> QED BY <1>2, <2>1 DEF Init, CurrentEpochValidators, PendingStake
<1>4. TotalPowerIsTheirPower
  BY <1>2, <1>3, AmountAssumption, SumConstant DEF TotalPowerIsTheirPower
<1>5. SumFunctionOnSet(PendingStake, Genesis) = 0
  BY <1>2, <1>3, SumZero
<1>6. SumFunctionOnSet(NextPower, {}) = 0 /\ SumFunctionOnSet(PendingStake, {}) = 0
  BY SumEmpty
<1>7. JoiningPower = 0
  BY <1>3, <1>5, <1>6 DEF JoiningPower
<1>8. JoiningPowerIsCounted
  BY <1>3, <1>6, <1>7 DEF JoiningPowerIsCounted
<1>9. IncreaseStaysWithinLimit
  <2>1. total_voting_power \in Nat
    BY <1>1, <1>4, SumsNat DEF StakeInv, TotalPowerIsTheirPower
  <2>2. total_voting_power * IncreaseLimit \in Nat
    BY <2>1, AmountAssumption
  <2>3. (total_voting_power * IncreaseLimit) \div 100 \in Nat
    BY <2>2, DivNat
  <2> QED BY <1>7, <2>3 DEF IncreaseStaysWithinLimit
<1> QED BY <1>4, <1>8, <1>9 DEF PowersAreCounted

LEMMA NextCounted ==
  ASSUME StakeInv, StakeInv', PowersAreCounted, [Next]_vars
  PROVE  PowersAreCounted'
<1>1. ASSUME UNCHANGED <<stake_pool, set_vars, total_joining_power>> PROVE PowersAreCounted'
  <2>1. NextPower' = NextPower /\ PendingStake' = PendingStake
    BY <1>1 DEF NextPower, PendingStake
  <2> QED BY <1>1, <2>1, UncountedStep
<1>2. ASSUME NEW p \in Pools, OwnerStep(p) PROVE PowersAreCounted'
  BY <1>2, AddStakeCounted, UnlockCounted, ReactivateCounted, WithdrawCounted,
     IncreaseLockupCounted DEF OwnerStep
<1>3. ASSUME NEW p \in Pools, LeaveActive(p) PROVE PowersAreCounted'
  <2>1. {p} \subseteq active_validators
    BY <1>3 DEF LeaveActive
  <2> QED BY <1>3, <2>1, LeaversCounted DEF LeaveActive
<1>4. ASSUME NEW p \in Pools, OperatorStep(p) PROVE PowersAreCounted'
  BY <1>3, <1>4, JoinCounted, LeavePendingActiveCounted DEF OperatorStep
<1>5. ASSUME NEW removed \in SUBSET Pools, RemoveValidators(removed) PROVE PowersAreCounted'
  <2> DEFINE gone == active_validators \cap removed
  <2>1. gone \subseteq active_validators /\ active_validators' = active_validators \ gone
    BY <1>5 DEF RemoveValidators
  <2>2. /\ pending_inactive' = pending_inactive \cup gone
        /\ UNCHANGED <<pending_active, stake_pool, voting_power, total_voting_power,
                       total_joining_power>>
    BY <1>5 DEF RemoveValidators
  <2> HIDE DEF gone
  <2> QED BY <2>1, <2>2, LeaversCounted
<1>6. ASSUME NEW minimum \in MinimumStakes, UpdateRequiredStake(minimum) PROVE PowersAreCounted'
  BY <1>1, <1>6 DEF UpdateRequiredStake
<1>7. ASSUME NEW proposer, NEW failed, BlockPrologue(proposer, failed) PROVE PowersAreCounted'
  BY <1>1, <1>7 DEF BlockPrologue
<1>8. ASSUME NEW index, NEW fee \in 1..MaxFee, RecordFee(index, fee) PROVE PowersAreCounted'
  BY <1>1, <1>8 DEF RecordFee
<1>9. CASE TryStart
  BY <1>1, <1>9 DEF TryStart
<1>10. CASE Reconfigure
  BY <1>10, ReconfigureCounted
<1>11. CASE UNCHANGED vars
  BY <1>1, <1>11 DEF vars
<1> QED
  BY <1>2, <1>4, <1>5, <1>6, <1>7, <1>8, <1>9, <1>10, <1>11 DEF Next

\* The powers stake.move keeps beside the pools (total_voting_power, total_joining_power) are the
\* sums they stand for, whatever joins, leaves, is added or removed in between, and the stake that
\* joins with the next epoch never exceeds voting_power_increase_limit.
THEOREM PowerCountCorrectness == Spec => []PowersAreCounted
<1>1. Init => StakeInv /\ PowersAreCounted
  BY InitStakeInv, InitCounted
<1>2. StakeInv /\ PowersAreCounted /\ [Next]_vars => (StakeInv /\ PowersAreCounted)'
  BY NextStakeInv, NextCounted
<1> QED
  BY <1>1, <1>2, PTL DEF Spec

-----------------------------------------------------------------------------
(* Coins *)

LEMMA CoinsNat ==
  ASSUME TypeOK, NEW p \in Pools
  PROVE  /\ PoolCoins(stake_pool[p]) \in Nat /\ wallet[p] \in Nat
         /\ CoinsOf[p] = wallet[p] + PoolCoins(stake_pool[p])
<1>1. PoolCoins(stake_pool[p]) \in Nat
  BY PoolFields DEF PoolCoins
<1> QED BY <1>1 DEF CoinsOf, TypeOK

\* Whatever moves, every owner keeps its coins.
SameCoins == \A p \in Pools : CoinsOf'[p] = CoinsOf[p]

\* One owner moves coins between its wallet and the stores of its pool.
LEMMA OnePoolCoins ==
  ASSUME StakeInv, NEW p \in Pools, NEW t \in StakePoolType, NEW w \in Nat,
         stake_pool' = [stake_pool EXCEPT ![p] = t],
         wallet' = [wallet EXCEPT ![p] = w],
         w + PoolCoins(t) = wallet[p] + PoolCoins(stake_pool[p])
  PROVE  SameCoins
<1>1. stake_pool \in [Pools -> StakePoolType] /\ wallet \in [Pools -> Nat]
  BY DEF StakeInv, TypeOK
<1>2. /\ stake_pool'[p] = t /\ wallet'[p] = w
      /\ \A q \in Pools \ {p} : stake_pool'[q] = stake_pool[q] /\ wallet'[q] = wallet[q]
  BY <1>1
<1> QED BY <1>2 DEF SameCoins, CoinsOf

LEMMA AddStakeCoins ==
  ASSUME StakeInv, NEW p \in Pools, NEW amount \in Amounts, AddStake(p, amount)
  PROVE  SameCoins
<1> DEFINE s == stake_pool[p]
           u == [s EXCEPT !.pending_active = s.pending_active + amount]
           v == [s EXCEPT !.active = s.active + amount]
           t == IF IsCurrentEpochValidator(p) THEN u ELSE v
           w == wallet[p] - amount
<1>1. amount \in Nat /\ s \in StakePoolType
  BY PoolFields, AmountAssumption DEF StakeInv
<1>2. /\ s.active \in Nat /\ s.pending_active \in Nat /\ s.pending_inactive \in Nat
      /\ s.inactive \in Nat
  BY <1>1, PowerNat
<1>3. s.pending_active + amount \in Nat /\ s.active + amount \in Nat
  BY <1>1, <1>2
<1>4. /\ u \in StakePoolType
      /\ u.active = s.active /\ u.pending_active = s.pending_active + amount
      /\ u.pending_inactive = s.pending_inactive /\ u.inactive = s.inactive
  BY <1>1, <1>3 DEF StakePoolType
<1>5. /\ v \in StakePoolType
      /\ v.active = s.active + amount /\ v.pending_active = s.pending_active
      /\ v.pending_inactive = s.pending_inactive /\ v.inactive = s.inactive
  BY <1>1, <1>3 DEF StakePoolType
<1>6. /\ stake_pool' = [stake_pool EXCEPT ![p] = t]
      /\ wallet' = [wallet EXCEPT ![p] = w]
      /\ amount <= wallet[p]
  BY DEF AddStake
<1> HIDE DEF u, v
<1>7. /\ PoolCoins(u) = PoolCoins(s) + amount
      /\ PoolCoins(v) = PoolCoins(s) + amount
  BY <1>1, <1>2, <1>4, <1>5 DEF PoolCoins
<1>8. t \in StakePoolType /\ PoolCoins(t) = PoolCoins(s) + amount
  BY <1>4, <1>5, <1>7
<1>9. wallet[p] \in Nat /\ PoolCoins(s) \in Nat
  BY CoinsNat DEF StakeInv
<1> HIDE DEF t
<1>10. w \in Nat /\ w + PoolCoins(t) = wallet[p] + PoolCoins(s)
  BY <1>1, <1>6, <1>8, <1>9
<1> HIDE DEF w
<1> QED BY <1>6, <1>8, <1>10, OnePoolCoins

LEMMA UnlockCoins ==
  ASSUME StakeInv, NEW p \in Pools, NEW amount \in Amounts, Unlock(p, amount)
  PROVE  SameCoins
<1> DEFINE s == stake_pool[p]
           n == Least(amount, s.active)
           t == [s EXCEPT !.active = s.active - n, !.pending_inactive = s.pending_inactive + n]
<1>1. amount \in Nat /\ s \in StakePoolType
  BY PoolFields, AmountAssumption DEF StakeInv
<1>2. /\ s.active \in Nat /\ s.pending_active \in Nat /\ s.pending_inactive \in Nat
      /\ s.inactive \in Nat
  BY <1>1, PowerNat
<1>3. n \in Nat /\ n <= s.active
  BY <1>1, <1>2, LeastNat
<1>4. stake_pool' = [stake_pool EXCEPT ![p] = t] /\ wallet' = [wallet EXCEPT ![p] = wallet[p]]
  BY DEF Unlock, StakeInv, TypeOK
<1> HIDE DEF n
<1>5. s.active - n \in Nat /\ s.pending_inactive + n \in Nat
  BY <1>2, <1>3
<1>6. /\ t \in StakePoolType /\ t.pending_active = s.pending_active /\ t.inactive = s.inactive
      /\ t.active = s.active - n /\ t.pending_inactive = s.pending_inactive + n
  BY <1>1, <1>5 DEF StakePoolType
<1> HIDE DEF t
<1>7. PoolCoins(t) = PoolCoins(s)
  BY <1>2, <1>3, <1>6 DEF PoolCoins
<1> QED BY <1>4, <1>6, <1>7, CoinsNat, OnePoolCoins DEF StakeInv

LEMMA ReactivateCoins ==
  ASSUME StakeInv, NEW p \in Pools, NEW amount \in Amounts, Reactivate(p, amount)
  PROVE  SameCoins
<1> DEFINE s == stake_pool[p]
           n == Least(amount, s.pending_inactive)
           t == [s EXCEPT !.active = s.active + n, !.pending_inactive = s.pending_inactive - n]
<1>1. amount \in Nat /\ s \in StakePoolType
  BY PoolFields, AmountAssumption DEF StakeInv
<1>2. /\ s.active \in Nat /\ s.pending_active \in Nat /\ s.pending_inactive \in Nat
      /\ s.inactive \in Nat
  BY <1>1, PowerNat
<1>3. n \in Nat /\ n <= s.pending_inactive
  BY <1>1, <1>2, LeastNat
<1>4. stake_pool' = [stake_pool EXCEPT ![p] = t] /\ wallet' = [wallet EXCEPT ![p] = wallet[p]]
  BY DEF Reactivate, StakeInv, TypeOK
<1> HIDE DEF n
<1>5. s.active + n \in Nat /\ s.pending_inactive - n \in Nat
  BY <1>2, <1>3
<1>6. /\ t \in StakePoolType /\ t.pending_active = s.pending_active /\ t.inactive = s.inactive
      /\ t.active = s.active + n /\ t.pending_inactive = s.pending_inactive - n
  BY <1>1, <1>5 DEF StakePoolType
<1> HIDE DEF t
<1>7. PoolCoins(t) = PoolCoins(s)
  BY <1>2, <1>3, <1>6 DEF PoolCoins
<1> QED BY <1>4, <1>6, <1>7, CoinsNat, OnePoolCoins DEF StakeInv

LEMMA WithdrawCoins ==
  ASSUME StakeInv, NEW p \in Pools, NEW amount \in Amounts, Withdraw(p, amount)
  PROVE  SameCoins
<1> DEFINE s == stake_pool[p]
           u == [s EXCEPT !.inactive = s.inactive + s.pending_inactive, !.pending_inactive = 0]
           freed == IF MayFreePending(p) THEN u ELSE s
           taken == Least(amount, freed.inactive)
           t == [freed EXCEPT !.inactive = freed.inactive - taken]
           w == wallet[p] + taken
<1>1. amount \in Nat /\ s \in StakePoolType
  BY PoolFields, AmountAssumption DEF StakeInv
<1>2. /\ s.active \in Nat /\ s.pending_active \in Nat /\ s.pending_inactive \in Nat
      /\ s.inactive \in Nat /\ s.inactive + s.pending_inactive \in Nat
  BY <1>1, PowerNat
<1>3. /\ u \in StakePoolType /\ u.active = s.active /\ u.pending_active = s.pending_active
      /\ u.pending_inactive = 0 /\ u.inactive = s.inactive + s.pending_inactive
  BY <1>1, <1>2 DEF StakePoolType
<1>4. stake_pool' = [stake_pool EXCEPT ![p] = t] /\ wallet' = [wallet EXCEPT ![p] = w]
  BY DEF Withdraw
<1> HIDE DEF u
<1>5. PoolCoins(u) = PoolCoins(s)
  BY <1>2, <1>3 DEF PoolCoins
<1>6. freed \in StakePoolType /\ PoolCoins(freed) = PoolCoins(s)
  BY <1>1, <1>3, <1>5
<1> HIDE DEF freed
<1>7. /\ freed.active \in Nat /\ freed.pending_active \in Nat
      /\ freed.pending_inactive \in Nat /\ freed.inactive \in Nat
  BY <1>6, PowerNat
<1>8. taken \in Nat /\ taken <= freed.inactive
  BY <1>1, <1>7, LeastNat
<1> HIDE DEF taken
<1>9. freed.inactive - taken \in Nat
  BY <1>7, <1>8
<1>10. /\ t \in StakePoolType
       /\ t.active = freed.active /\ t.pending_active = freed.pending_active
       /\ t.pending_inactive = freed.pending_inactive /\ t.inactive = freed.inactive - taken
  BY <1>6, <1>9 DEF StakePoolType
<1> HIDE DEF t
<1>11. PoolCoins(t) = PoolCoins(freed) - taken
  BY <1>7, <1>8, <1>10 DEF PoolCoins
<1>12. wallet[p] \in Nat /\ PoolCoins(s) \in Nat
  BY CoinsNat DEF StakeInv
<1>13. w \in Nat /\ w + PoolCoins(t) = wallet[p] + PoolCoins(s)
  BY <1>6, <1>8, <1>11, <1>12
<1> HIDE DEF w
<1> QED BY <1>4, <1>10, <1>13, OnePoolCoins

LEMMA IncreaseLockupCoins ==
  ASSUME StakeInv, NEW p \in Pools, IncreaseLockup(p)
  PROVE  SameCoins
<1> DEFINE s == stake_pool[p]
           t == [s EXCEPT !.locked_until = NowSeconds + LockupDuration]
<1>1. s \in StakePoolType
  BY PoolFields DEF StakeInv
<1>2. NowSeconds + LockupDuration \in Nat
  BY NowSecondsNat, TimeAssumption DEF StakeInv
<1>3. /\ t \in StakePoolType
      /\ t.active = s.active /\ t.pending_active = s.pending_active
      /\ t.pending_inactive = s.pending_inactive /\ t.inactive = s.inactive
  BY <1>1, <1>2 DEF StakePoolType
<1>4. stake_pool' = [stake_pool EXCEPT ![p] = t] /\ wallet' = [wallet EXCEPT ![p] = wallet[p]]
  BY DEF IncreaseLockup, StakeInv, TypeOK
<1> HIDE DEF t
<1>5. PoolCoins(t) = PoolCoins(s)
  BY <1>3 DEF PoolCoins
<1> QED BY <1>3, <1>4, <1>5, CoinsNat, OnePoolCoins DEF StakeInv

-----------------------------------------------------------------------------
\* What the epoch change mints for a pool of the current epoch.
Minted(p) == MintedActive(p) + MintedPendingInactive(p)

\* The two parts of a fee are the fee, capped: a share that is rounded down is not lost.
LEMMA MintedIsOwed ==
  ASSUME StakeInv, NEW p \in CurrentEpochValidators
  PROVE  Minted(p) = RewardsAmount(p, stake_pool[p].active)
                       + RewardsAmount(p, stake_pool[p].pending_inactive)
                       + (IF DistributeFees
                          THEN Least(pending_fee[validator_index[p]], FeeLimit) ELSE 0)
<1> DEFINE s == stake_pool[p]
           all == FeeAmount(p)
           part == FeePendingInactive(p)
<1>1. p \in Pools /\ validator_index[p] \in DOMAIN performance /\ HasFeeEntry(p)
  BY DEF StakeInv, TypeOK, CurrentEpochValidators, IndicesNumberTheEpoch, HasFeeEntry
<1>2. s.active \in Nat /\ s.pending_inactive \in Nat
  BY <1>1, PoolFields DEF StakeInv
<1>3. RewardsAmount(p, s.active) \in Nat /\ RewardsAmount(p, s.pending_inactive) \in Nat
  <2>1. RewardsAmount(p, s.active) \in Nat
    BY <1>1, <1>2, RewardsNat DEF StakeInv
  <2>2. RewardsAmount(p, s.pending_inactive) \in Nat
    BY <1>1, <1>2, RewardsNat DEF StakeInv
  <2> QED BY <2>1, <2>2
<1>4. all \in Nat
  <2>1. pending_fee[validator_index[p]] \in Nat
    BY <1>1 DEF HasFeeEntry, StakeInv, TypeOK
  <2> QED BY <2>1, LeastNat, AmountAssumption DEF FeeAmount
<1>5. part \in Nat
  <2>1. CASE HasFeeEntry(p) /\ s.active + s.pending_inactive > 0
    BY <2>1, <1>2, <1>4, ShareNat DEF FeePendingInactive
  <2>2. CASE ~(HasFeeEntry(p) /\ s.active + s.pending_inactive > 0)
    BY <2>2 DEF FeePendingInactive
  <2> QED BY <2>1, <2>2
<1>6. FeeActive(p) = all - part
  BY <1>1 DEF FeeActive
<1>7. all = Least(pending_fee[validator_index[p]], FeeLimit)
  BY DEF FeeAmount
<1>8. /\ MintedActive(p) = RewardsAmount(p, s.active) + (IF DistributeFees THEN FeeActive(p) ELSE 0)
      /\ MintedPendingInactive(p)
           = RewardsAmount(p, s.pending_inactive) + (IF DistributeFees THEN part ELSE 0)
  BY DEF MintedActive, MintedPendingInactive
<1> HIDE DEF all, part
<1>9. CASE DistributeFees
  BY <1>3, <1>4, <1>5, <1>6, <1>7, <1>8, <1>9 DEF Minted
<1>10. CASE ~DistributeFees
  BY <1>3, <1>8, <1>10 DEF Minted
<1> QED BY <1>9, <1>10

\* The epoch change pays every pool of the current epoch what it mints for it, and no other.
LEMMA ReconfigurePays ==
  ASSUME StakeInv, Reconfigure, NEW p \in Pools
  PROVE  PoolCoins(stake_pool'[p])
           = PoolCoins(stake_pool[p]) + (IF p \in CurrentEpochValidators THEN Minted(p) ELSE 0)
<1> DEFINE s == stake_pool[p]
           v == UpdatedPools[p]
           r == [v EXCEPT !.locked_until = NowSeconds + LockupDuration]
<1>1. /\ s.active \in Nat /\ s.pending_active \in Nat /\ s.pending_inactive \in Nat
      /\ s.inactive \in Nat
  BY PoolFields DEF StakeInv
<1>2. v \in StakePoolType
  BY UpdatedPoolsType
<1>3. stake_pool'[p] = r \/ stake_pool'[p] = v
  BY DEF Reconfigure, OnNewEpoch, RenewedLockup
<1>4. r.active = v.active /\ r.pending_active = v.pending_active
      /\ r.pending_inactive = v.pending_inactive /\ r.inactive = v.inactive
  BY <1>2 DEF StakePoolType
<1>5. PoolCoins(v) = PoolCoins(s) + (IF p \in CurrentEpochValidators THEN Minted(p) ELSE 0)
  <2>1. CASE p \in CurrentEpochValidators
    <3> DEFINE leaving == s.pending_inactive + MintedPendingInactive(p)
               expired == ReconfigStartTime >= s.locked_until
    <3>1. MintedActive(p) \in Nat /\ MintedPendingInactive(p) \in Nat
      BY <2>1, MintedNat
    <3>2. /\ v.active = s.active + MintedActive(p) + s.pending_active
          /\ v.pending_active = 0
          /\ v.pending_inactive = IF expired THEN 0 ELSE leaving
          /\ v.inactive = IF expired THEN s.inactive + leaving ELSE s.inactive
      BY <2>1 DEF UpdatedPools, IsCurrentEpochValidator, UpdateStakePool
    <3>3. leaving \in Nat
      BY <1>1, <3>1
    <3>4. v.pending_inactive + v.inactive = s.inactive + leaving
      <4> HIDE DEF leaving, expired, v
      <4> QED BY <1>1, <3>2, <3>3
    <3>5. v.pending_inactive \in Nat /\ v.inactive \in Nat
      BY <1>2, PowerNat
    <3> HIDE DEF v, expired
    <3>6. PoolCoins(v) = PoolCoins(s) + Minted(p)
      BY <1>1, <3>1, <3>2, <3>4, <3>5 DEF PoolCoins, Minted
    <3> QED BY <2>1, <3>6
  <2>2. CASE p \notin CurrentEpochValidators
    <3>1. v = s
      BY <2>2 DEF UpdatedPools, IsCurrentEpochValidator
    <3>2. PoolCoins(s) \in Nat
      BY CoinsNat DEF StakeInv
    <3> QED BY <2>2, <3>1, <3>2
  <2> QED BY <2>1, <2>2
<1>6. PoolCoins(r) = PoolCoins(v)
  BY <1>4 DEF PoolCoins
<1> HIDE DEF r, v
<1> QED BY <1>3, <1>5, <1>6

CoinsStep == CoinsAreConserved' /\ FeesArePaidOnce /\ OwnersLoseNothing

LEMMA ReconfigureCoins ==
  ASSUME StakeInv, CoinsAreConserved, Reconfigure
  PROVE  CoinsStep
<1> DEFINE pay == [p \in Pools |-> IF p \in CurrentEpochValidators THEN Minted(p) ELSE 0]
           minted == [p \in CurrentEpochValidators |-> Minted(p)]
<1>1. CurrentEpochValidators \subseteq Pools /\ wallet' = wallet /\ supply' = supply + MintedCoins
  BY DEF StakeInv, TypeOK, CurrentEpochValidators, Reconfigure, OnNewEpoch
<1>2. \A p \in CurrentEpochValidators : Minted(p) \in Nat
  BY MintedNat DEF Minted
<1>3. \A p \in Pools : pay[p] \in Nat
  BY <1>2
<1>4. ASSUME NEW p \in Pools
      PROVE  CoinsOf[p] \in Nat /\ CoinsOf'[p] = CoinsOf[p] + pay[p]
  <2>1. PoolCoins(stake_pool'[p]) = PoolCoins(stake_pool[p]) + pay[p]
    BY ReconfigurePays
  <2>2. /\ PoolCoins(stake_pool[p]) \in Nat /\ wallet[p] \in Nat
        /\ CoinsOf[p] = wallet[p] + PoolCoins(stake_pool[p])
    BY CoinsNat DEF StakeInv
  <2>3. CoinsOf'[p] = wallet'[p] + PoolCoins(stake_pool'[p])
    BY DEF CoinsOf
  <2>4. pay[p] \in Nat
    BY <1>3
  <2> HIDE DEF pay
  <2> QED BY <1>1, <2>1, <2>2, <2>3, <2>4
<1>5. CoinsAreConserved'
  <2>1. SumFunctionOnSet(pay, Pools) = SumFunctionOnSet(minted, CurrentEpochValidators)
    <3>1. \A p \in Pools : pay[p] = IF p \in CurrentEpochValidators THEN minted[p] ELSE 0
      OBVIOUS
    <3>2. \A p \in CurrentEpochValidators : minted[p] \in Int
      BY <1>2
    <3>3. IsFiniteSet(Pools) /\ CurrentEpochValidators \subseteq Pools
      BY <1>1, PoolsAssumption
    <3> HIDE DEF pay, minted
    <3> DEFINE C == CurrentEpochValidators
    <3>4. /\ IsFiniteSet(Pools) /\ C \subseteq Pools
          /\ \A p \in Pools : pay[p] = IF p \in C THEN minted[p] ELSE 0
          /\ \A p \in C : minted[p] \in Int
      BY <3>1, <3>2, <3>3
    <3> HIDE DEF C
    <3>5. SumFunctionOnSet(pay, Pools) = SumFunctionOnSet(minted, C)
      BY <3>4, SumOnSubset
    <3> QED BY <3>5 DEF C
  <2>2. SumFunctionOnSet(minted, CurrentEpochValidators) = MintedCoins
    BY DEF MintedCoins, Minted
  <2>3. SumFunctionOnSet(CoinsOf', Pools)
          = SumFunctionOnSet(CoinsOf, Pools) + SumFunctionOnSet(pay, Pools)
    <3> HIDE DEF pay
    <3> QED BY <1>3, <1>4, PoolsAssumption, SumPlus
  <2> QED BY <1>1, <2>1, <2>2, <2>3 DEF CoinsAreConserved
<1>6. FeesArePaidOnce
  <2> SUFFICES ASSUME NEW p \in Pools
               PROVE  PoolCoins(stake_pool'[p]) = PoolCoins(stake_pool[p]) +
                        IF p \in CurrentEpochValidators
                        THEN RewardsAmount(p, stake_pool[p].active)
                               + RewardsAmount(p, stake_pool[p].pending_inactive)
                               + (IF DistributeFees
                                  THEN Least(pending_fee[validator_index[p]], FeeLimit) ELSE 0)
                        ELSE 0
    BY DEF FeesArePaidOnce
  <2>1. CASE p \in CurrentEpochValidators
    BY <2>1, ReconfigurePays, MintedIsOwed
  <2>2. CASE p \notin CurrentEpochValidators
    BY <2>2, ReconfigurePays
  <2> QED BY <2>1, <2>2
<1>7. OwnersLoseNothing
  <2> SUFFICES ASSUME NEW p \in Pools
               PROVE  wallet[p] + PoolCoins(stake_pool[p]) <= wallet'[p] + PoolCoins(stake_pool'[p])
    BY DEF OwnersLoseNothing
  <2>1. CoinsOf[p] <= CoinsOf'[p]
    <3>1. CoinsOf[p] \in Nat /\ CoinsOf'[p] = CoinsOf[p] + pay[p] /\ pay[p] \in Nat
      BY <1>3, <1>4
    <3> HIDE DEF pay
    <3> QED BY <3>1
  <2> QED BY <2>1 DEF CoinsOf
<1> QED BY <1>5, <1>6, <1>7 DEF CoinsStep

\* No other step mints.
LEMMA SameCoinsStep ==
  ASSUME StakeInv, CoinsAreConserved, SameCoins, supply' = supply, epoch' = epoch
  PROVE  CoinsStep
<1>1. SumFunctionOnSet(CoinsOf', Pools) = SumFunctionOnSet(CoinsOf, Pools)
  BY PoolsAssumption, SumSame DEF SameCoins
<1>2. CoinsAreConserved'
  BY <1>1 DEF CoinsAreConserved
<1>3. OwnersLoseNothing
  <2> SUFFICES ASSUME NEW p \in Pools
               PROVE  wallet[p] + PoolCoins(stake_pool[p]) <= wallet'[p] + PoolCoins(stake_pool'[p])
    BY DEF OwnersLoseNothing
  <2>1. CoinsOf[p] \in Nat
    BY CoinsNat DEF StakeInv
  <2>2. CoinsOf'[p] = CoinsOf[p]
    BY DEF SameCoins
  <2> QED BY <2>1, <2>2 DEF CoinsOf
<1> QED BY <1>2, <1>3 DEF CoinsStep, FeesArePaidOnce

LEMMA NextCoins ==
  ASSUME StakeInv, CoinsAreConserved, [Next]_vars
  PROVE  CoinsStep
<1>1. ASSUME UNCHANGED <<stake_pool, wallet, supply, epoch>> PROVE CoinsStep
  <2>1. SameCoins
    BY <1>1 DEF SameCoins, CoinsOf
  <2> QED BY <1>1, <2>1, SameCoinsStep
<1>2. ASSUME NEW p \in Pools, OwnerStep(p) PROVE CoinsStep
  <2>1. SameCoins
    BY <1>2, AddStakeCoins, UnlockCoins, ReactivateCoins, WithdrawCoins, IncreaseLockupCoins
       DEF OwnerStep
  <2>2. UNCHANGED <<supply, epoch_vars>>
    BY <1>2 DEF OwnerStep, AddStake, Unlock, Reactivate, Withdraw, IncreaseLockup
  <2> QED BY <2>1, <2>2, SameCoinsStep DEF epoch_vars
<1>3. ASSUME NEW p \in Pools, OperatorStep(p) PROVE CoinsStep
  BY <1>1, <1>3 DEF OperatorStep, JoinValidatorSet, LeavePendingActive, LeaveActive, epoch_vars
<1>4. ASSUME NEW removed \in SUBSET Pools, RemoveValidators(removed) PROVE CoinsStep
  BY <1>1, <1>4 DEF RemoveValidators, epoch_vars
<1>5. ASSUME NEW minimum \in MinimumStakes, UpdateRequiredStake(minimum) PROVE CoinsStep
  BY <1>1, <1>5 DEF UpdateRequiredStake, epoch_vars
<1>6. ASSUME NEW proposer, NEW failed, BlockPrologue(proposer, failed) PROVE CoinsStep
  BY <1>1, <1>6 DEF BlockPrologue, epoch_vars
<1>7. ASSUME NEW index, NEW fee \in 1..MaxFee, RecordFee(index, fee) PROVE CoinsStep
  BY <1>1, <1>7 DEF RecordFee, epoch_vars
<1>8. CASE TryStart
  BY <1>1, <1>8 DEF TryStart
<1>9. CASE Reconfigure
  BY <1>9, ReconfigureCoins
<1>10. CASE UNCHANGED vars
  BY <1>1, <1>10 DEF vars, epoch_vars
<1> QED
  BY <1>2, <1>3, <1>4, <1>5, <1>6, <1>7, <1>8, <1>9, <1>10 DEF Next

LEMMA InitCoins == Init => CoinsAreConserved
<1> SUFFICES ASSUME Init PROVE CoinsAreConserved
  OBVIOUS
<1> DEFINE first == [p \in Pools |-> IF p \in Genesis THEN GenesisStake ELSE 0]
           stake == [p \in Genesis |-> GenesisStake]
<1>1. IsFiniteSet(Genesis) /\ Genesis \subseteq Pools
  BY PoolsAssumption, FS_Subset
<1>2. \A p \in Pools : CoinsOf[p] = Grant[p] + first[p]
  <2> DEFINE full == [EmptyPool EXCEPT !.active = GenesisStake, !.locked_until = LockupDuration]
  <2>1. PoolCoins(EmptyPool) = 0 /\ PoolCoins(full) = GenesisStake
    BY AmountAssumption DEF PoolCoins, EmptyPool
  <2>2. \A p \in Pools : stake_pool[p] = (IF p \in Genesis THEN full ELSE EmptyPool)
                           /\ wallet[p] = Grant[p]
    BY DEF Init
  <2> HIDE DEF full
  <2> QED BY <2>1, <2>2 DEF CoinsOf
<1>3. SumFunctionOnSet(first, Pools) = SumFunctionOnSet(stake, Genesis)
  <2>1. \A p \in Pools : first[p] = IF p \in Genesis THEN stake[p] ELSE 0
    OBVIOUS
  <2>2. \A p \in Genesis : stake[p] \in Int
    BY AmountAssumption
  <2> HIDE DEF first, stake
  <2> QED BY <1>1, <2>1, <2>2, PoolsAssumption, SumOnSubset
<1>4. SumFunctionOnSet(stake, Genesis) = GenesisStake * Cardinality(Genesis)
  <2>1. \A p \in Genesis : stake[p] = GenesisStake
    OBVIOUS
  <2> HIDE DEF stake
  <2> QED BY <1>1, <2>1, AmountAssumption, SumConstant
<1>5. \A p \in Pools : Grant[p] \in Int /\ first[p] \in Int
  BY AmountAssumption
<1> HIDE DEF first
<1>6. SumFunctionOnSet(CoinsOf, Pools)
        = SumFunctionOnSet(Grant, Pools) + SumFunctionOnSet(first, Pools)
  BY <1>2, <1>5, PoolsAssumption, SumPlus
<1> QED BY <1>3, <1>4, <1>6 DEF Init, CoinsAreConserved

\* Every coin of stake.move's pools and of their owners is accounted for in every step: the supply
\* is what they have, an epoch change mints exactly the rewards and the capped fees that are owed,
\* and no step takes a coin from an owner.
THEOREM CoinCorrectness == Spec => CoinsAreAccountedFor
<1>1. Init => StakeInv /\ CoinsAreConserved
  BY InitStakeInv, InitCoins
<1>2. StakeInv /\ CoinsAreConserved /\ [Next]_vars => StakeInv' /\ CoinsStep
  BY NextStakeInv, NextCoins
<1> QED
  BY <1>1, <1>2, PTL DEF Spec, CoinsAreAccountedFor, CoinsStep

-----------------------------------------------------------------------------
(* Proposals *)

Hashes == Scripts \cup {script.next : script \in Scripts}
Proposal ==
  [created_with : Scripts, execution_hash : Hashes, is_multi_step : BOOLEAN, in_execution : BOOLEAN,
   is_resolved : BOOLEAN, yes_votes : Nat, no_votes : Nat, min_vote_threshold : Nat, early : Nat,
   expiration_secs : Nat, resolvable_time : Int]

GovernanceTypeOK ==
  /\ now_seconds \in Nat /\ moves \in Nat /\ power \in [StakePools -> Nat]
  /\ proposals \in Seq(Proposal) /\ used \in Seq([StakePools -> Nat])
  /\ executed \in Seq(Seq(Scripts)) /\ voted \in Seq(Int)
  /\ Len(used) = Len(proposals) /\ Len(executed) = Len(proposals) /\ Len(voted) = Len(proposals)
  /\ DOMAIN approved \subseteq DOMAIN proposals

HasNext(script) == script.kind = "multi" /\ script.next # NoHash

\* p is about to run what the last script named, unless that was the last one.
RunsInOrder(p, run) ==
  /\ run # <<>> => run[1] = p.created_with
  /\ \A i \in 2 .. Len(run) : HasNext(run[i - 1]) /\ run[i] = run[i - 1].next
  /\ p.is_resolved <=> run # <<>> /\ ~HasNext(run[Len(run)])
  /\ p.in_execution <=> run # <<>> /\ HasNext(run[Len(run)])
  /\ p.in_execution => p.is_multi_step
  /\ ~p.is_resolved => p.execution_hash = IF run = <<>> THEN p.created_with ELSE run[Len(run)].next

\* The votes on p are those that pools used, and a pool that used some has at least as much power
\* until its stake may be moved, which is after the vote.
VotesAreStake(p, votes) ==
  /\ p.yes_votes + p.no_votes = Total(votes)
  /\ Total(votes) <= Total(power)
  /\ \A pool \in StakePools : votes[pool] > 0 => p.expiration_secs < LockedUntil[pool]
  /\ \A pool \in StakePools : now_seconds < LockedUntil[pool] => votes[pool] <= power[pool]

IsSound(id) ==
  /\ RunsInOrder(proposals[id], executed[id])
  /\ executed[id] # <<>> => Succeeded(proposals[id])
  /\ proposals[id].resolvable_time = voted[id]
  /\ VotesAreStake(proposals[id], used[id])
  /\ id \in DOMAIN approved => approved[id] = proposals[id].execution_hash
  /\ proposals[id].in_execution => id \in DOMAIN approved

GovernanceInv == GovernanceTypeOK /\ \A id \in DOMAIN proposals : IsSound(id)

-----------------------------------------------------------------------------
(* Totals *)

LEMMA TotalFacts ==
  ASSUME NEW f \in [StakePools -> Nat]
  PROVE  Total(f) \in Nat /\ Total(f) = SumFunctionOnSet(f, StakePools)
BY GovernanceAssumption, SumNat DEF Total, SumFunction

\* What changes one pool's part changes the total by as much.
LEMMA TotalChanges ==
  ASSUME NEW f \in [StakePools -> Nat], NEW pool \in StakePools, NEW d \in Int, f[pool] + d \in Nat
  PROVE  /\ [f EXCEPT ![pool] = @ + d] \in [StakePools -> Nat]
         /\ Total([f EXCEPT ![pool] = @ + d]) = Total(f) + d
<1> DEFINE g == [f EXCEPT ![pool] = @ + d]
<1>1. g \in [StakePools -> Nat] /\ g[pool] = f[pool] + d /\ \A y \in StakePools \ {pool} : g[y] = f[y]
  OBVIOUS
<1> HIDE DEF g
<1>2. \A x \in StakePools : f[x] \in Int /\ g[x] \in Int
  BY <1>1
<1>3. SumFunctionOnSet(g, StakePools) = SumFunctionOnSet(f, StakePools) + (g[pool] - f[pool])
  BY <1>1, <1>2, GovernanceAssumption, SumChange
<1>4. Total(f) \in Nat /\ f[pool] \in Nat /\ g[pool] - f[pool] = d
  BY <1>1, TotalFacts
<1> QED BY <1>1, <1>3, <1>4, TotalFacts DEF g

LEMMA TotalStays ==
  ASSUME power \in [StakePools -> Nat], power' = power
  PROVE  Total(power) <= Total(power')
<1>1. Total(power) \in Nat
  BY TotalFacts
<1>2. Total(power') = Total(power)
  OBVIOUS
<1> QED BY <1>1, <1>2

\* Nothing about stake and time gets worse in a step that leaves both alone.
LEMMA StakeStays ==
  ASSUME GovernanceTypeOK, power' = power, now_seconds' = now_seconds
  PROVE  /\ Total(power) <= Total(power') /\ now_seconds <= now_seconds'
         /\ \A pool \in StakePools : now_seconds' < LockedUntil[pool] => power[pool] <= power'[pool]
<1>1. power \in [StakePools -> Nat] /\ now_seconds \in Nat
  BY DEF GovernanceTypeOK
<1>2. Total(power) <= Total(power')
  BY <1>1, TotalStays
<1>3. \A pool \in StakePools : power[pool] <= power'[pool]
  <2> TAKE pool \in StakePools
  <2>1. power[pool] \in Nat /\ power'[pool] = power[pool]
    BY <1>1
  <2> QED BY <2>1
<1> QED BY <1>1, <1>2, <1>3

\* Replacing one element of a sequence.
LEMMA OneChanges ==
  ASSUME NEW S, NEW s \in Seq(S), NEW i \in DOMAIN s, NEW e \in S
  PROVE  /\ [s EXCEPT ![i] = e] \in Seq(S) /\ Len([s EXCEPT ![i] = e]) = Len(s)
         /\ DOMAIN [s EXCEPT ![i] = e] = DOMAIN s
         /\ [s EXCEPT ![i] = e][i] = e
         /\ \A j \in DOMAIN s : j # i => [s EXCEPT ![i] = e][j] = s[j]
OBVIOUS

LEMMA TotalLeq ==
  ASSUME NEW f \in [StakePools -> Nat], NEW g \in [StakePools -> Nat], \A pool \in StakePools : f[pool] <= g[pool]
  PROVE  Total(f) <= Total(g)
<1>1. \A x \in StakePools : f[x] \in Int /\ g[x] \in Int /\ f[x] <= g[x]
  OBVIOUS
<1> QED BY <1>1, GovernanceAssumption, SumLeq, TotalFacts

\* A pool that votes has not more votes than power, and the others had none to take away.
LEMMA VoteKeepsStake ==
  ASSUME GovernanceTypeOK, NEW p \in Proposal, NEW votes \in [StakePools -> Nat], VotesAreStake(p, votes),
         NEW pool \in StakePools, NEW n \in Nat \ {0}, votes[pool] + n <= power[pool],
         p.expiration_secs < LockedUntil[pool], now_seconds < p.expiration_secs, NEW should_pass \in BOOLEAN
  PROVE  VotesAreStake(vote(p, n, should_pass), [votes EXCEPT ![pool] = @ + n])
<1> DEFINE after == [votes EXCEPT ![pool] = @ + n]
           q == vote(p, n, should_pass)
<1>1. after \in [StakePools -> Nat] /\ Total(after) = Total(votes) + n
  <2>1. n \in Int /\ votes[pool] + n \in Nat
    OBVIOUS
  <2> QED BY <2>1, TotalChanges
<1>2. q.expiration_secs = p.expiration_secs /\ q.yes_votes + q.no_votes = (p.yes_votes + p.no_votes) + n
  <2>1. p.yes_votes \in Nat /\ p.no_votes \in Nat
    BY DEF Proposal
  <2>2. q.yes_votes = (IF should_pass THEN p.yes_votes + n ELSE p.yes_votes)
        /\ q.no_votes = (IF should_pass THEN p.no_votes ELSE p.no_votes + n)
        /\ q.expiration_secs = p.expiration_secs
    BY DEF vote, Proposal
  <2> QED BY <2>1, <2>2
<1>3. LockedUntil \in [StakePools -> Nat] /\ p.expiration_secs \in Nat /\ now_seconds \in Nat /\ power \in [StakePools -> Nat]
  BY GovernanceAssumption DEF GovernanceTypeOK, Proposal
<1>4. \A x \in StakePools : after[x] = IF x = pool THEN votes[x] + n ELSE votes[x]
  OBVIOUS
<1>5. \A x \in StakePools : after[x] <= power[x]
  <2> TAKE x \in StakePools
  <2>1. votes[x] > 0 => votes[x] <= power[x]
    BY <1>3 DEF VotesAreStake
  <2>2. votes[x] \in Nat /\ power[x] \in Nat
    BY <1>3
  <2> QED BY <1>4, <2>1, <2>2
<1>6. \A x \in StakePools : after[x] > 0 => p.expiration_secs < LockedUntil[x]
  BY <1>4 DEF VotesAreStake
<1>7. Total(after) <= Total(power)
  BY <1>1, <1>3, <1>5, TotalLeq
<1> HIDE DEF after, q
<1> QED BY <1>1, <1>2, <1>5, <1>6, <1>7 DEF VotesAreStake, after, q

\* The list of approved scripts changes for id only, and if it still has one it is hash.
LEMMA ListChanges ==
  ASSUME NEW id, NEW hash, approved' = With(approved, id, hash) \/ approved' = Without(approved, id)
  PROVE  /\ DOMAIN approved' \subseteq DOMAIN approved \cup {id}
         /\ \A x \in DOMAIN approved : x # id => x \in DOMAIN approved' /\ approved'[x] = approved[x]
         /\ id \in DOMAIN approved' => approved'[id] = hash
         /\ approved' = With(approved, id, hash) => id \in DOMAIN approved'
<1>1. CASE approved' = With(approved, id, hash)
  <2>1. DOMAIN approved' = DOMAIN approved \cup {id} /\ approved'[id] = hash
    BY <1>1 DEF With
  <2>2. \A x \in DOMAIN approved : x # id => approved'[x] = approved[x]
    BY <1>1 DEF With
  <2> QED BY <2>1, <2>2
<1>2. CASE approved' = Without(approved, id)
  <2>1. DOMAIN approved' = DOMAIN approved \ {id}
    BY <1>2 DEF Without
  <2>2. \A x \in DOMAIN approved : x # id => approved'[x] = approved[x]
    BY <1>2 DEF Without
  <2>3. approved' # With(approved, id, hash)
    <3>1. id \in DOMAIN With(approved, id, hash)
      BY DEF With
    <3> QED BY <1>2, <2>1, <3>1
  <2> QED BY <2>1, <2>2, <2>3
<1> QED BY <1>1, <1>2

-----------------------------------------------------------------------------
(* Steps *)

\* Nothing becomes wrong with a proposal that is left alone while time passes, total power does not
\* fall and locked stake stays.
LEMMA SoundStays ==
  ASSUME GovernanceInv, GovernanceTypeOK', NEW id \in DOMAIN proposals,
         proposals'[id] = proposals[id], used'[id] = used[id], executed'[id] = executed[id], voted'[id] = voted[id],
         id \in DOMAIN approved' <=> id \in DOMAIN approved, id \in DOMAIN approved => approved'[id] = approved[id],
         now_seconds <= now_seconds', Total(power) <= Total(power'),
         \A pool \in StakePools : now_seconds' < LockedUntil[pool] => power[pool] <= power'[pool]
  PROVE  IsSound(id)'
<1> DEFINE p == proposals[id]
<1>1. /\ IsSound(id) /\ p \in Proposal /\ used[id] \in [StakePools -> Nat] /\ now_seconds \in Nat
      /\ now_seconds' \in Nat /\ power \in [StakePools -> Nat] /\ power' \in [StakePools -> Nat]
      /\ LockedUntil \in [StakePools -> Nat]
  <2>1. IsSound(id) /\ p \in Proposal
    BY DEF GovernanceInv, GovernanceTypeOK
  <2>2. id \in DOMAIN used /\ used \in Seq([StakePools -> Nat])
    BY DEF GovernanceInv, GovernanceTypeOK
  <2>3. /\ now_seconds \in Nat /\ now_seconds' \in Nat
        /\ power \in [StakePools -> Nat] /\ power' \in [StakePools -> Nat]
    BY DEF GovernanceInv, GovernanceTypeOK
  <2> QED BY <2>1, <2>2, <2>3, GovernanceAssumption
<1>2. Total(used[id]) <= Total(power')
  <2>1. Total(used[id]) <= Total(power)
    BY <1>1 DEF IsSound, VotesAreStake
  <2>2. Total(used[id]) \in Nat /\ Total(power) \in Nat /\ Total(power') \in Nat
    BY <1>1, TotalFacts
  <2> QED BY <2>1, <2>2
<1>3. ASSUME NEW pool \in StakePools, now_seconds' < LockedUntil[pool]
      PROVE  used[id][pool] <= power'[pool]
  <2>1. now_seconds < LockedUntil[pool] /\ power[pool] <= power'[pool]
    BY <1>1, <1>3
  <2>2. used[id][pool] <= power[pool]
    BY <1>1, <2>1 DEF IsSound, VotesAreStake
  <2> QED BY <1>1, <2>1, <2>2
<1>4. VotesAreStake(proposals[id], used[id])'
  BY <1>1, <1>2, <1>3 DEF IsSound, VotesAreStake
<1>5. executed[id] # <<>> => Succeeded(proposals[id])'
  <2>1. executed[id] # <<>> => Succeeded(p)
    BY <1>1 DEF IsSound
  <2>2. p.expiration_secs \in Nat
    BY <1>1 DEF Proposal
  <2> QED BY <1>1, <2>1, <2>2 DEF Succeeded, is_voting_closed, can_be_resolved_early, is_voting_period_over
<1> QED BY <1>1, <1>4, <1>5 DEF IsSound

LEMMA TickKeepsInv ==
  ASSUME GovernanceInv, Tick
  PROVE  GovernanceInv'
<1>1. now_seconds' = now_seconds + 1 /\ now_seconds \in Nat /\ now_seconds' \in Nat
  BY DEF Tick, GovernanceInv, GovernanceTypeOK
<1>2. GovernanceTypeOK'
  BY <1>1 DEF Tick, GovernanceInv, GovernanceTypeOK
<1>3. power \in [StakePools -> Nat] /\ Total(power) <= Total(power)
  BY TotalFacts DEF GovernanceInv, GovernanceTypeOK
<1>4. ASSUME NEW id \in DOMAIN proposals PROVE IsSound(id)'
  BY <1>1, <1>2, <1>3, SoundStays DEF Tick
<1> QED BY <1>2, <1>4 DEF GovernanceInv, Tick

\* Only stake whose lockup ended leaves a pool.
LEMMA StakeMoves ==
  ASSUME GovernanceInv,
         \/ \E pool \in StakePools : Reward(pool)
         \/ \E from, to \in StakePools : MoveStake(from, to)
  PROVE  GovernanceInv'
<1>1. /\ power \in [StakePools -> Nat] /\ moves \in Nat /\ now_seconds \in Nat
      /\ LockedUntil \in [StakePools -> Nat]
  BY GovernanceAssumption DEF GovernanceInv, GovernanceTypeOK
<1>2. /\ now_seconds' = now_seconds /\ proposals' = proposals /\ used' = used /\ approved' = approved
      /\ executed' = executed /\ voted' = voted /\ moves' = moves + 1
  BY DEF Reward, MoveStake
<1>3. /\ power' \in [StakePools -> Nat] /\ Total(power) <= Total(power')
      /\ \A pool \in StakePools : now_seconds < LockedUntil[pool] => power[pool] <= power'[pool]
  <2>1. ASSUME NEW pool \in StakePools, Reward(pool)
        PROVE  /\ power' \in [StakePools -> Nat] /\ Total(power) <= Total(power')
               /\ \A x \in StakePools : now_seconds < LockedUntil[x] => power[x] <= power'[x]
    <3>1. power' = [power EXCEPT ![pool] = @ + 1] /\ power[pool] + 1 \in Nat /\ 1 \in Int
      BY <1>1, <2>1 DEF Reward
    <3>2. power' \in [StakePools -> Nat] /\ Total(power') = Total(power) + 1
      BY <1>1, <3>1, TotalChanges
    <3>3. Total(power) \in Nat
      BY <1>1, TotalFacts
    <3>4. \A x \in StakePools : power[x] <= power'[x]
      BY <1>1, <3>1
    <3> QED BY <3>2, <3>3, <3>4
  <2>2. ASSUME NEW from \in StakePools, NEW to \in StakePools, MoveStake(from, to)
        PROVE  /\ power' \in [StakePools -> Nat] /\ Total(power) <= Total(power')
               /\ \A x \in StakePools : now_seconds < LockedUntil[x] => power[x] <= power'[x]
    <3> DEFINE less == [power EXCEPT ![from] = @ + (-1)]
    <3>1. /\ from # to /\ power[from] > 0 /\ now_seconds >= LockedUntil[from]
          /\ power' = [power EXCEPT ![from] = @ - 1, ![to] = @ + 1]
      BY <2>2 DEF MoveStake
    <3>2. power[from] + (-1) \in Nat /\ -1 \in Int
      BY <1>1, <3>1
    <3>3. less \in [StakePools -> Nat] /\ Total(less) = Total(power) + (-1)
      BY <1>1, <3>2, TotalChanges
    <3>4. power' = [less EXCEPT ![to] = @ + 1]
      BY <1>1, <3>1
    <3>5. \A x \in StakePools : x # from => power[x] <= power'[x]
      BY <1>1, <3>1
    <3> HIDE DEF less
    <3>6. less[to] + 1 \in Nat /\ 1 \in Int
      BY <3>3
    <3>7. power' \in [StakePools -> Nat] /\ Total(power') = Total(less) + 1
      <4>1. /\ [less EXCEPT ![to] = @ + 1] \in [StakePools -> Nat]
            /\ Total([less EXCEPT ![to] = @ + 1]) = Total(less) + 1
        <5>1. \A f \in [StakePools -> Nat] : f[to] + 1 \in Nat =>
                /\ [f EXCEPT ![to] = @ + 1] \in [StakePools -> Nat]
                /\ Total([f EXCEPT ![to] = @ + 1]) = Total(f) + 1
          BY <3>6, TotalChanges
        <5> QED BY <3>3, <3>6, <5>1
      <4> QED BY <3>4, <4>1
    <3>8. Total(power) \in Nat
      BY <1>1, TotalFacts
    <3>9. Total(power) <= Total(power')
      BY <3>3, <3>7, <3>8
    <3>10. \A x \in StakePools : now_seconds < LockedUntil[x] => x # from
      BY <1>1, <3>1
    <3> QED BY <3>5, <3>7, <3>9, <3>10
  <2> QED BY <2>1, <2>2
<1>4. GovernanceTypeOK'
  BY <1>1, <1>2, <1>3 DEF GovernanceInv, GovernanceTypeOK
<1>5. ASSUME NEW id \in DOMAIN proposals PROVE IsSound(id)'
  BY <1>1, <1>2, <1>3, <1>4, SoundStays
<1> QED BY <1>2, <1>4, <1>5 DEF GovernanceInv

LEMMA CreateKeepsInv ==
  ASSUME GovernanceInv, Create
  PROVE  GovernanceInv'
<1>0. PICK n : n = Len(proposals)
  OBVIOUS
<1>1. PICK pool \in StakePools, script \in Scripts, is_multi_step \in BOOLEAN :
        create_proposal_v2_impl(pool, script, is_multi_step)
  BY DEF Create
<1>2. /\ proposals \in Seq(Proposal) /\ used \in Seq([StakePools -> Nat]) /\ executed \in Seq(Seq(Scripts))
      /\ voted \in Seq(Int) /\ n \in Nat /\ Len(used) = n /\ Len(executed) = n /\ Len(voted) = n
      /\ now_seconds \in Nat /\ power \in [StakePools -> Nat] /\ DOMAIN approved \subseteq 1 .. n
      /\ DOMAIN proposals = 1 .. n
  BY <1>0 DEF GovernanceInv, GovernanceTypeOK
<1>3. PICK p \in Proposal :
        /\ p.created_with = script /\ p.execution_hash = script /\ ~p.in_execution /\ ~p.is_resolved
        /\ p.yes_votes = 0 /\ p.no_votes = 0 /\ p.resolvable_time = NoVote
        /\ proposals' = Append(proposals, p)
  <2> DEFINE early == Total(power) \div 2 + 1
             p == [created_with |-> script, execution_hash |-> script, is_multi_step |-> is_multi_step,
                   in_execution |-> FALSE, is_resolved |-> FALSE, yes_votes |-> 0, no_votes |-> 0,
                   min_vote_threshold |-> min_voting_threshold, early |-> early,
                   expiration_secs |-> now_seconds + voting_duration_secs, resolvable_time |-> NoVote]
  <2>1. Total(power) \in Nat /\ min_voting_threshold \in Nat /\ voting_duration_secs \in Nat
    BY <1>2, TotalFacts, GovernanceAssumption
  <2>2. early \in Nat
    BY <2>1
  <2>3. p \in Proposal
    <3> HIDE DEF early
    <3> QED BY <1>2, <2>1, <2>2 DEF Proposal, Hashes, NoVote
  <2>4. proposals' = Append(proposals, p)
    BY <1>1 DEF create_proposal_v2_impl
  <2> QED BY <2>3, <2>4
<1>4. /\ used' = Append(used, [x \in StakePools |-> 0]) /\ executed' = Append(executed, <<>>)
      /\ voted' = Append(voted, NoVote) /\ now_seconds' = now_seconds /\ power' = power
      /\ moves' = moves /\ approved' = approved
  BY <1>1 DEF create_proposal_v2_impl
<1>5. /\ proposals' \in Seq(Proposal) /\ used' \in Seq([StakePools -> Nat]) /\ executed' \in Seq(Seq(Scripts))
      /\ voted' \in Seq(Int) /\ Len(proposals') = n + 1 /\ Len(used') = n + 1 /\ Len(executed') = n + 1
      /\ Len(voted') = n + 1
  <2>1. [x \in StakePools |-> 0] \in [StakePools -> Nat] /\ <<>> \in Seq(Scripts) /\ NoVote \in Int
    BY DEF NoVote
  <2> QED BY <1>2, <1>3, <1>4, <2>1
<1>6. GovernanceTypeOK'
  <2>1. DOMAIN approved' \subseteq DOMAIN proposals'
    BY <1>2, <1>4, <1>5
  <2> QED BY <1>2, <1>4, <1>5, <2>1 DEF GovernanceInv, GovernanceTypeOK
<1>7. ASSUME NEW id \in DOMAIN proposals PROVE IsSound(id)'
  <2>1. id \in 1 .. n
    BY <1>2
  <2>2. proposals'[id] = proposals[id] /\ used'[id] = used[id] /\ executed'[id] = executed[id] /\ voted'[id] = voted[id]
    BY <1>2, <1>3, <1>4, <2>1
  <2>3. Total(power) <= Total(power')
    BY <1>2, <1>4, TotalStays
  <2>4. /\ now_seconds <= now_seconds' /\ approved' = approved
        /\ \A x \in StakePools : now_seconds' < LockedUntil[x] => power[x] <= power'[x]
    BY <1>2, <1>4
  <2> QED BY <1>6, <2>2, <2>3, <2>4, SoundStays
<1>8. IsSound(n + 1)'
  <2>1. /\ proposals'[n + 1] = p /\ used'[n + 1] = [x \in StakePools |-> 0] /\ executed'[n + 1] = <<>>
        /\ voted'[n + 1] = NoVote /\ n + 1 \notin DOMAIN approved'
    BY <1>2, <1>3, <1>4
  <2>2. RunsInOrder(p, <<>>)
    BY <1>3 DEF RunsInOrder
  <2>3. VotesAreStake(p, [x \in StakePools |-> 0])
    <3> DEFINE zero == [x \in StakePools |-> 0]
    <3>1. zero \in [StakePools -> Nat] /\ \A x \in StakePools : zero[x] = 0
      OBVIOUS
    <3> HIDE DEF zero
    <3>2. Total(zero) = 0
      BY <3>1, TotalFacts, GovernanceAssumption, SumZero
    <3>3. Total(power) \in Nat
      BY <1>2, TotalFacts
    <3> QED BY <1>2, <1>3, <3>1, <3>2, <3>3 DEF VotesAreStake, zero
  <2>4. VotesAreStake(p, [x \in StakePools |-> 0])'
    BY <1>4, <2>3 DEF VotesAreStake
  <2> QED BY <1>3, <2>1, <2>2, <2>4 DEF IsSound
<1>9. DOMAIN proposals' = DOMAIN proposals \cup {n + 1}
  BY <1>2, <1>5
<1> QED BY <1>6, <1>7, <1>8, <1>9 DEF GovernanceInv

\* A vote changes one proposal, which has run nothing yet.
LEMMA VoteKeepsInv ==
  ASSUME GovernanceInv, Vote
  PROVE  GovernanceInv'
<1>1. PICK pool \in StakePools, id \in Ids, amount \in {1, Total(power)}, should_pass \in BOOLEAN :
        vote_internal(pool, id, amount, should_pass)
  BY DEF Vote
<1> DEFINE left == get_remaining_voting_power(pool, id)
<1>0. PICK p, n, q, votes : /\ p = proposals[id] /\ n = Min({amount, left}) /\ q = vote(p, n, should_pass)
                            /\ votes = [used[id] EXCEPT ![pool] = @ + n]
  OBVIOUS
<1>2. /\ stake_pool_is_eligible_to_vote(pool, p.expiration_secs) /\ ~is_proposal_expired(p.expiration_secs)
      /\ n > 0 /\ accepts_votes(p)
      /\ proposals' = [proposals EXCEPT ![id] = q]
      /\ used' = [used EXCEPT ![id][pool] = @ + n]
      /\ voted' = [voted EXCEPT ![id] = now_seconds]
      /\ approved' = IF Succeeded(q) THEN With(approved, id, q.execution_hash) ELSE approved
      /\ now_seconds' = now_seconds /\ power' = power /\ moves' = moves /\ executed' = executed
  BY <1>0, <1>1 DEF vote_internal
<1>3. /\ proposals \in Seq(Proposal) /\ used \in Seq([StakePools -> Nat]) /\ voted \in Seq(Int)
      /\ id \in DOMAIN proposals /\ id \in DOMAIN used /\ id \in DOMAIN voted
      /\ DOMAIN proposals = 1 .. Len(proposals)
      /\ p \in Proposal /\ used[id] \in [StakePools -> Nat] /\ power \in [StakePools -> Nat] /\ now_seconds \in Nat
      /\ p.expiration_secs \in Nat
  <2>1. id \in DOMAIN proposals
    BY DEF Ids
  <2>2. /\ proposals \in Seq(Proposal) /\ used \in Seq([StakePools -> Nat]) /\ voted \in Seq(Int)
        /\ Len(used) = Len(proposals) /\ Len(voted) = Len(proposals)
        /\ power \in [StakePools -> Nat] /\ now_seconds \in Nat
    BY DEF GovernanceInv, GovernanceTypeOK
  <2>3. id \in DOMAIN used /\ id \in DOMAIN voted /\ DOMAIN proposals = 1 .. Len(proposals)
    BY <2>1, <2>2
  <2>4. p \in Proposal
    BY <1>0, <2>1, <2>2
  <2>5. used[id] \in [StakePools -> Nat]
    BY <2>2, <2>3
  <2>6. p.expiration_secs \in Nat
    BY <2>4 DEF Proposal
  <2> QED BY <2>1, <2>2, <2>3, <2>4, <2>5, <2>6
<1>4. n \in Nat \ {0} /\ used[id][pool] + n <= power[pool]
  <2>1. left \in Int /\ amount \in Int /\ left = power[pool] - used[id][pool]
    <3>1. Total(power) \in Nat
      BY <1>3, TotalFacts
    <3> QED BY <1>3, <3>1 DEF get_remaining_voting_power
  <2> HIDE DEF left
  <2>2. Min({amount, left}) \in {amount, left} /\ Min({amount, left}) <= left
    <3>1. \E x \in {amount, left} : \A y \in {amount, left} : x <= y
      BY <2>1
    <3> QED BY <3>1 DEF Min
  <2>3. n \in {amount, left} /\ n <= left
    BY <1>0, <2>2
  <2>4. power[pool] \in Nat /\ used[id][pool] \in Nat
    BY <1>3
  <2> QED BY <1>2, <2>1, <2>3, <2>4
<1> HIDE DEF left
<1>5. /\ q \in Proposal /\ q.resolvable_time = now_seconds /\ q.expiration_secs = p.expiration_secs
      /\ q.created_with = p.created_with /\ q.execution_hash = p.execution_hash /\ q.in_execution = p.in_execution
      /\ q.is_resolved = p.is_resolved /\ q.is_multi_step = p.is_multi_step
  <2>1. p.yes_votes + n \in Nat /\ p.no_votes + n \in Nat /\ now_seconds \in Int
    <3>1. p.yes_votes \in Nat /\ p.no_votes \in Nat
      BY <1>3 DEF Proposal
    <3>2. n \in Nat
      BY <1>4
    <3>3. now_seconds \in Int
      BY <1>3
    <3> QED BY <3>1, <3>2, <3>3
  <2> QED BY <1>0, <1>3, <2>1 DEF vote, Proposal
<1>6. VotesAreStake(q, votes)
  <2>1. p.expiration_secs < LockedUntil[pool] /\ now_seconds < p.expiration_secs
    BY <1>2, <1>3 DEF stake_pool_is_eligible_to_vote, is_proposal_expired
  <2>2. VotesAreStake(p, used[id]) /\ GovernanceTypeOK
    BY <1>0, <1>3 DEF GovernanceInv, IsSound
  <2> QED BY <1>0, <1>3, <1>4, <2>1, <2>2, VoteKeepsStake
<1>7. votes \in [StakePools -> Nat] /\ used' = [used EXCEPT ![id] = votes]
  <2>1. used[id] \in [StakePools -> Nat] /\ used[id][pool] + n \in Nat
    BY <1>3, <1>4
  <2>2. votes \in [StakePools -> Nat]
    BY <1>0, <2>1
  <2>3. used' = [used EXCEPT ![id] = votes]
    BY <1>0, <1>2
  <2> QED BY <2>2, <2>3
<1>8. /\ proposals' \in Seq(Proposal) /\ Len(proposals') = Len(proposals) /\ DOMAIN proposals' = DOMAIN proposals
      /\ used' \in Seq([StakePools -> Nat]) /\ Len(used') = Len(used)
      /\ voted' \in Seq(Int) /\ Len(voted') = Len(voted)
      /\ proposals'[id] = q /\ used'[id] = votes /\ voted'[id] = now_seconds
  <2>1. /\ proposals' \in Seq(Proposal) /\ Len(proposals') = Len(proposals) /\ DOMAIN proposals' = DOMAIN proposals
        /\ proposals'[id] = q
    BY <1>2, <1>3, <1>5, OneChanges
  <2>2. used' \in Seq([StakePools -> Nat]) /\ Len(used') = Len(used) /\ used'[id] = votes
    BY <1>3, <1>7, OneChanges
  <2>3. now_seconds \in Int
    BY <1>3
  <2>4. voted' \in Seq(Int) /\ Len(voted') = Len(voted) /\ voted'[id] = now_seconds
    BY <1>2, <1>3, <2>3, OneChanges
  <2> QED BY <2>1, <2>2, <2>4
<1>9. /\ DOMAIN approved' \subseteq DOMAIN proposals
      /\ \A x \in DOMAIN proposals \ {id} :
           /\ x \in DOMAIN approved' <=> x \in DOMAIN approved
           /\ x \in DOMAIN approved => approved'[x] = approved[x]
      /\ id \in DOMAIN approved => id \in DOMAIN approved'
      /\ id \in DOMAIN approved' => approved'[id] = p.execution_hash
  <2>1. DOMAIN approved \subseteq DOMAIN proposals /\ (id \in DOMAIN approved => approved[id] = p.execution_hash)
    BY <1>0, <1>3 DEF GovernanceInv, GovernanceTypeOK, IsSound
  <2>2. CASE Succeeded(q)
    <3>1. approved' = With(approved, id, p.execution_hash)
      BY <1>2, <1>5, <2>2
    <3>2. /\ DOMAIN approved' \subseteq DOMAIN approved \cup {id} /\ id \in DOMAIN approved'
          /\ approved'[id] = p.execution_hash
          /\ \A x \in DOMAIN approved : x # id => x \in DOMAIN approved' /\ approved'[x] = approved[x]
      BY <3>1, ListChanges
    <3> QED BY <1>3, <2>1, <3>2
  <2>3. CASE ~Succeeded(q)
    BY <1>2, <2>1, <2>3
  <2> QED BY <2>2, <2>3
<1>10. GovernanceTypeOK'
  BY <1>2, <1>8, <1>9 DEF GovernanceInv, GovernanceTypeOK
<1>11. IsSound(id)'
  <2>1. executed[id] = <<>> /\ ~p.in_execution /\ ~p.is_resolved /\ RunsInOrder(p, executed[id])
    <3>1. ~p.in_execution /\ ~p.is_resolved /\ RunsInOrder(p, executed[id])
      BY <1>0, <1>2, <1>3 DEF accepts_votes, GovernanceInv, IsSound
    <3> QED BY <3>1 DEF RunsInOrder
  <2>2. RunsInOrder(q, executed[id])
    BY <1>5, <2>1 DEF RunsInOrder
  <2>3. VotesAreStake(q, votes)'
    BY <1>2, <1>6 DEF VotesAreStake
  <2> QED BY <1>2, <1>5, <1>8, <1>9, <2>1, <2>2, <2>3 DEF IsSound
<1>12. ASSUME NEW x \in DOMAIN proposals, x # id PROVE IsSound(x)'
  <2>1. /\ Total(power) <= Total(power') /\ now_seconds <= now_seconds'
        /\ \A y \in StakePools : now_seconds' < LockedUntil[y] => power[y] <= power'[y]
    BY <1>2, StakeStays DEF GovernanceInv
  <2>2. proposals'[x] = proposals[x] /\ used'[x] = used[x] /\ voted'[x] = voted[x]
    BY <1>2, <1>3, <1>12 DEF GovernanceInv, GovernanceTypeOK
  <2>3. /\ x \in DOMAIN approved' <=> x \in DOMAIN approved
        /\ x \in DOMAIN approved => approved'[x] = approved[x]
        /\ executed'[x] = executed[x]
    BY <1>2, <1>9, <1>12
  <2> QED BY <1>10, <2>1, <2>2, <2>3, SoundStays
<1> QED BY <1>8, <1>10, <1>11, <1>12 DEF GovernanceInv

\* The list of approved scripts changes for one proposal that is not in execution, or to what it
\* waits for.
LEMMA ApprovalsKeepInv ==
  ASSUME GovernanceInv, AddApproved \/ RemoveApproved
  PROVE  GovernanceInv'
<1>1. PICK id \in Ids : add_approved_script_hash(id) \/ remove_approved_hash(id)
  BY DEF AddApproved, RemoveApproved
<1>2. /\ now_seconds' = now_seconds /\ power' = power /\ moves' = moves /\ proposals' = proposals
      /\ used' = used /\ executed' = executed /\ voted' = voted
      /\ \/ approved' = With(approved, id, proposals[id].execution_hash)
         \/ approved' = Without(approved, id) /\ proposals[id].is_resolved
  BY <1>1 DEF add_approved_script_hash, remove_approved_hash
<1>3. /\ id \in DOMAIN proposals /\ DOMAIN approved \subseteq DOMAIN proposals /\ GovernanceTypeOK /\ IsSound(id)
      /\ power \in [StakePools -> Nat] /\ now_seconds \in Nat
  BY DEF Ids, GovernanceInv, GovernanceTypeOK
<1>4. /\ DOMAIN approved' \subseteq DOMAIN proposals
      /\ \A x \in DOMAIN proposals \ {id} :
           /\ x \in DOMAIN approved' <=> x \in DOMAIN approved
           /\ x \in DOMAIN approved => approved'[x] = approved[x]
      /\ id \in DOMAIN approved' => approved'[id] = proposals[id].execution_hash
      /\ id \notin DOMAIN approved' => proposals[id].is_resolved
  <2>1. PICK hash : hash = proposals[id].execution_hash
    OBVIOUS
  <2>2. /\ DOMAIN approved' \subseteq DOMAIN approved \cup {id}
        /\ \A x \in DOMAIN approved : x # id => x \in DOMAIN approved' /\ approved'[x] = approved[x]
        /\ id \in DOMAIN approved' => approved'[id] = hash
        /\ approved' = With(approved, id, hash) => id \in DOMAIN approved'
    BY <1>2, <2>1, ListChanges
  <2> QED BY <1>2, <1>3, <2>1, <2>2
<1>5. GovernanceTypeOK'
  BY <1>2, <1>3, <1>4 DEF GovernanceTypeOK
<1>6. IsSound(id)'
  <2>1. ~(proposals[id].is_resolved /\ proposals[id].in_execution)
    BY <1>3 DEF IsSound, RunsInOrder
  <2>2. VotesAreStake(proposals[id], used[id])' /\ (executed[id] # <<>> => Succeeded(proposals[id])')
    BY <1>2, <1>3 DEF IsSound, VotesAreStake, Succeeded, is_voting_closed, can_be_resolved_early, is_voting_period_over
  <2> QED BY <1>2, <1>3, <1>4, <2>1, <2>2 DEF IsSound
<1>7. ASSUME NEW x \in DOMAIN proposals, x # id PROVE IsSound(x)'
  <2>1. /\ Total(power) <= Total(power') /\ now_seconds <= now_seconds'
        /\ \A y \in StakePools : now_seconds' < LockedUntil[y] => power[y] <= power'[y]
    BY <1>2, StakeStays DEF GovernanceInv
  <2>2. /\ proposals'[x] = proposals[x] /\ used'[x] = used[x] /\ voted'[x] = voted[x] /\ executed'[x] = executed[x]
        /\ x \in DOMAIN approved' <=> x \in DOMAIN approved
        /\ x \in DOMAIN approved => approved'[x] = approved[x]
    BY <1>2, <1>4, <1>7
  <2> QED BY <1>5, <2>1, <2>2, SoundStays
<1> QED BY <1>2, <1>5, <1>6, <1>7 DEF GovernanceInv

\* What running a script does to a proposal that waits for it: q is the proposal afterwards.
Ran(p, q, script) ==
  /\ q \in Proposal
  /\ q.created_with = p.created_with /\ q.is_multi_step = p.is_multi_step
  /\ q.yes_votes = p.yes_votes /\ q.no_votes = p.no_votes /\ q.min_vote_threshold = p.min_vote_threshold
  /\ q.early = p.early /\ q.expiration_secs = p.expiration_secs /\ q.resolvable_time = p.resolvable_time
  /\ q.is_resolved <=> ~HasNext(script)
  /\ q.in_execution <=> HasNext(script)
  /\ HasNext(script) => q.execution_hash = script.next /\ p.is_multi_step

LEMMA ExecuteIsARun ==
  ASSUME GovernanceInv, NEW id \in DOMAIN proposals, NEW script \in Scripts,
         resolve_and_publish(script, id) \/ resolve_multi_step_and_publish(script, id)
  PROVE  \E q : /\ is_proposal_resolvable(proposals[id], script) /\ Ran(proposals[id], q, script)
                /\ proposals' = [proposals EXCEPT ![id] = q]
                /\ executed' = [executed EXCEPT ![id] = Append(@, script)]
                /\ approved' = approved_after_step(id, q)
                /\ now_seconds' = now_seconds /\ power' = power /\ moves' = moves /\ used' = used /\ voted' = voted
<1>1. PICK p : p = proposals[id]
  OBVIOUS
<1>2. p \in Proposal /\ RunsInOrder(p, executed[id])
  BY <1>1 DEF GovernanceInv, GovernanceTypeOK, IsSound
<1>3. ASSUME resolve_and_publish(script, id)
      PROVE  Ran(p, resolve(p), script) /\ approved' = approved_after_step(id, resolve(p))
  <2>1. script.kind = "single" /\ ~p.is_multi_step /\ approved' = Without(approved, id)
    BY <1>1, <1>3 DEF resolve_and_publish
  <2>2. ~p.in_execution /\ ~HasNext(script)
    BY <1>2, <2>1 DEF RunsInOrder, HasNext
  <2>3. Ran(p, resolve(p), script)
    BY <1>2, <2>2 DEF Ran, resolve, Proposal
  <2> QED BY <2>1, <2>2, <2>3 DEF Ran, approved_after_step
<1>4. ASSUME resolve_multi_step_and_publish(script, id)
      PROVE  Ran(p, resolve_proposal_v2(p, script.next), script)
  <2>1. script.kind = "multi" /\ (p.is_multi_step \/ script.next = NoHash) /\ script.next \in Hashes
    BY <1>1, <1>4 DEF resolve_multi_step_and_publish, Hashes
  <2>2. HasNext(script) <=> script.next # NoHash
    BY <2>1 DEF HasNext
  <2> QED BY <1>2, <2>1, <2>2 DEF Ran, resolve_proposal_v2, Proposal
<1>5. CASE resolve_and_publish(script, id)
  BY <1>1, <1>3, <1>5 DEF resolve_and_publish
<1>6. CASE resolve_multi_step_and_publish(script, id)
  BY <1>1, <1>4, <1>6 DEF resolve_multi_step_and_publish
<1> QED BY <1>5, <1>6

\* Running a script adds one step to a proposal, its next; nobody else is touched.
LEMMA ExecuteKeepsInv ==
  ASSUME GovernanceInv, NEW id \in DOMAIN proposals, Execute(id)
  PROVE  /\ GovernanceInv'
         /\ now_seconds > voted[id]
         /\ \A x \in DOMAIN proposals : x # id => executed'[x] = executed[x]
<1>1. PICK script \in Scripts : resolve_and_publish(script, id) \/ resolve_multi_step_and_publish(script, id)
  BY DEF Execute
<1>2. PICK q : /\ is_proposal_resolvable(proposals[id], script) /\ Ran(proposals[id], q, script)
               /\ proposals' = [proposals EXCEPT ![id] = q]
               /\ executed' = [executed EXCEPT ![id] = Append(@, script)]
               /\ approved' = approved_after_step(id, q)
               /\ now_seconds' = now_seconds /\ power' = power /\ moves' = moves /\ used' = used /\ voted' = voted
  BY <1>1, ExecuteIsARun
<1>3. PICK p, run : p = proposals[id] /\ run = executed[id]
  OBVIOUS
<1>4. /\ GovernanceTypeOK /\ IsSound(id) /\ DOMAIN approved \subseteq DOMAIN proposals
      /\ proposals \in Seq(Proposal) /\ executed \in Seq(Seq(Scripts)) /\ Len(executed) = Len(proposals)
      /\ power \in [StakePools -> Nat] /\ now_seconds \in Nat
  BY DEF GovernanceInv, GovernanceTypeOK
<1>5. p \in Proposal /\ id \in DOMAIN executed /\ run \in Seq(Scripts)
  <2>1. id \in DOMAIN executed
    BY <1>4
  <2> QED BY <1>3, <1>4, <2>1
<1>6. /\ Succeeded(p) /\ ~p.is_resolved /\ now_seconds > p.resolvable_time /\ script = p.execution_hash
      /\ RunsInOrder(p, run) /\ Ran(p, q, script) /\ p.resolvable_time = voted[id]
  BY <1>2, <1>3, <1>4 DEF is_proposal_resolvable, IsSound
<1>7. /\ proposals' \in Seq(Proposal) /\ Len(proposals') = Len(proposals) /\ DOMAIN proposals' = DOMAIN proposals
      /\ executed' \in Seq(Seq(Scripts)) /\ Len(executed') = Len(executed)
      /\ proposals'[id] = q /\ executed'[id] = Append(run, script)
      /\ \A x \in DOMAIN proposals : x # id => proposals'[x] = proposals[x] /\ executed'[x] = executed[x]
  <2>1. q \in Proposal /\ Append(run, script) \in Seq(Scripts)
    BY <1>5, <1>6 DEF Ran
  <2>2. executed' = [executed EXCEPT ![id] = Append(run, script)]
    BY <1>2, <1>3
  <2>3. DOMAIN executed = DOMAIN proposals
    BY <1>4
  <2>4. /\ proposals' \in Seq(Proposal) /\ Len(proposals') = Len(proposals) /\ DOMAIN proposals' = DOMAIN proposals
        /\ proposals'[id] = q /\ \A x \in DOMAIN proposals : x # id => proposals'[x] = proposals[x]
    BY <1>2, <1>4, <2>1, OneChanges
  <2>5. /\ executed' \in Seq(Seq(Scripts)) /\ Len(executed') = Len(executed)
        /\ executed'[id] = Append(run, script) /\ \A x \in DOMAIN executed : x # id => executed'[x] = executed[x]
    BY <1>4, <1>5, <2>1, <2>2, OneChanges
  <2> QED BY <2>3, <2>4, <2>5
<1>8. RunsInOrder(q, Append(run, script))
  <2>1. PICK n : n = Len(run)
    OBVIOUS
  <2>2. PICK after : after = Append(run, script)
    OBVIOUS
  <2>3. /\ n \in Nat /\ Len(after) = n + 1 /\ after[n + 1] = script
        /\ \A i \in 1 .. n : after[i] = run[i]
        /\ after # <<>>
    BY <1>5, <2>1, <2>2
  <2>4. (run = <<>> <=> n = 0) /\ (run = <<>> => script = p.created_with)
    <3>1. run = <<>> <=> n = 0
      BY <1>5, <2>1
    <3> QED BY <1>6, <3>1 DEF RunsInOrder
  <2>5. run # <<>> => HasNext(run[n]) /\ script = run[n].next
    BY <1>6, <2>1 DEF RunsInOrder
  <2>6. after[1] = q.created_with
    <3>1. n # 0 => after[1] = run[1] /\ run[1] = p.created_with
      BY <1>6, <2>3, <2>4 DEF RunsInOrder
    <3> QED BY <1>6, <2>3, <2>4, <3>1 DEF Ran
  <2>7. ASSUME NEW i \in 2 .. n + 1
        PROVE  HasNext(after[i - 1]) /\ after[i] = after[i - 1].next
    <3>1. CASE i = n + 1
      <4>1. i - 1 = n /\ n \in 1 .. n /\ n # 0
        BY <2>3, <2>7, <3>1
      <4> QED BY <2>3, <2>4, <2>5, <3>1, <4>1
    <3>2. CASE i # n + 1
      <4>1. i \in 2 .. n /\ i \in 1 .. n /\ i - 1 \in 1 .. n
        BY <2>3, <2>7, <3>2
      <4> QED BY <1>6, <2>1, <2>3, <4>1 DEF RunsInOrder
    <3> QED BY <3>1, <3>2
  <2> QED BY <1>6, <2>2, <2>3, <2>6, <2>7 DEF RunsInOrder, Ran
<1>9. VotesAreStake(q, used[id])'
  <2>1. VotesAreStake(p, used[id])
    BY <1>3, <1>4 DEF IsSound
  <2> QED BY <1>2, <1>6, <2>1 DEF VotesAreStake, Ran
<1>10. Succeeded(q)'
  BY <1>2, <1>6 DEF Ran, Succeeded, is_voting_closed, can_be_resolved_early, is_voting_period_over
<1>11. /\ DOMAIN approved' \subseteq DOMAIN proposals
       /\ \A x \in DOMAIN proposals : x # id =>
            /\ x \in DOMAIN approved' <=> x \in DOMAIN approved
            /\ x \in DOMAIN approved => approved'[x] = approved[x]
       /\ id \in DOMAIN approved' => approved'[id] = q.execution_hash
       /\ ~q.is_resolved => id \in DOMAIN approved'
  <2>1. PICK hash : hash = q.execution_hash
    OBVIOUS
  <2>2. /\ approved' = With(approved, id, hash) \/ approved' = Without(approved, id)
        /\ ~q.is_resolved => approved' = With(approved, id, hash)
    BY <1>2, <2>1 DEF approved_after_step
  <2>3. /\ DOMAIN approved' \subseteq DOMAIN approved \cup {id}
        /\ \A x \in DOMAIN approved : x # id => x \in DOMAIN approved' /\ approved'[x] = approved[x]
        /\ id \in DOMAIN approved' => approved'[id] = hash
        /\ approved' = With(approved, id, hash) => id \in DOMAIN approved'
    BY <2>2, ListChanges
  <2> QED BY <1>4, <2>1, <2>2, <2>3
<1>12. GovernanceTypeOK'
  BY <1>2, <1>4, <1>7, <1>11 DEF GovernanceTypeOK
<1>13. IsSound(id)'
  <2>1. q.in_execution => ~q.is_resolved
    BY <1>6 DEF Ran
  <2>2. q.resolvable_time = voted'[id]
    BY <1>2, <1>6 DEF Ran
  <2> QED BY <1>7, <1>8, <1>9, <1>10, <1>11, <2>1, <2>2 DEF IsSound
<1>14. ASSUME NEW x \in DOMAIN proposals, x # id PROVE IsSound(x)'
  <2>1. /\ Total(power) <= Total(power') /\ now_seconds <= now_seconds'
        /\ \A y \in StakePools : now_seconds' < LockedUntil[y] => power[y] <= power'[y]
    BY <1>2, <1>4, StakeStays
  <2>2. /\ proposals'[x] = proposals[x] /\ used'[x] = used[x] /\ voted'[x] = voted[x] /\ executed'[x] = executed[x]
        /\ x \in DOMAIN approved' <=> x \in DOMAIN approved
        /\ x \in DOMAIN approved => approved'[x] = approved[x]
    BY <1>2, <1>7, <1>11, <1>14
  <2> QED BY <1>12, <2>1, <2>2, SoundStays
<1> QED BY <1>6, <1>7, <1>12, <1>13, <1>14 DEF GovernanceInv

LEMMA GovernanceInitSound == GovernanceInit => GovernanceInv
<1> SUFFICES ASSUME GovernanceInit PROVE GovernanceInv
  OBVIOUS
<1>1. DOMAIN proposals = {} /\ DOMAIN approved = {} /\ Len(proposals) = 0
  BY DEF GovernanceInit
<1>2. GovernanceTypeOK
  BY <1>1, GovernanceAssumption DEF GovernanceInit, GovernanceTypeOK
<1> QED BY <1>1, <1>2 DEF GovernanceInv

LEMMA GovernanceStutters ==
  ASSUME GovernanceInv, UNCHANGED governance_vars
  PROVE  GovernanceInv'
<1>1. GovernanceTypeOK'
  BY DEF governance_vars, GovernanceInv, GovernanceTypeOK
<1>2. ASSUME NEW id \in DOMAIN proposals PROVE IsSound(id)'
  <2>1. /\ Total(power) <= Total(power') /\ now_seconds <= now_seconds'
        /\ \A y \in StakePools : now_seconds' < LockedUntil[y] => power[y] <= power'[y]
    BY StakeStays DEF GovernanceInv, governance_vars
  <2> QED BY <1>1, <2>1, SoundStays DEF governance_vars
<1> QED BY <1>1, <1>2 DEF GovernanceInv, governance_vars

LEMMA GovernanceStep ==
  ASSUME GovernanceInv, [GovernanceNext]_governance_vars
  PROVE  GovernanceInv' /\ VoteThenResolve
<1>1. CASE \E id \in Ids : Execute(id)
  <2>1. PICK id \in Ids : Execute(id)
    BY <1>1
  <2>2. /\ GovernanceInv' /\ now_seconds > voted[id]
        /\ \A x \in DOMAIN proposals : x # id => executed'[x] = executed[x]
    BY <2>1, ExecuteKeepsInv DEF Ids
  <2> QED BY <2>2 DEF VoteThenResolve, Ids
<1>2. CASE Create
  <2>1. GovernanceInv'
    BY <1>2, CreateKeepsInv
  <2>2. executed' = Append(executed, <<>>) /\ Len(executed) = Len(proposals) /\ executed \in Seq(Seq(Scripts))
    BY <1>2 DEF Create, create_proposal_v2_impl, GovernanceInv, GovernanceTypeOK
  <2>3. proposals \in Seq(Proposal)
    BY DEF GovernanceInv, GovernanceTypeOK
  <2>4. \A id \in DOMAIN proposals : executed'[id] = executed[id]
    BY <2>2, <2>3
  <2> QED BY <2>1, <2>4 DEF VoteThenResolve, Ids
<1>3. ASSUME executed' = executed PROVE VoteThenResolve
  BY <1>3 DEF VoteThenResolve
<1>4. CASE Tick
  BY <1>3, <1>4, TickKeepsInv DEF Tick
<1>5. CASE Vote
  <2>1. executed' = executed
    BY <1>5 DEF Vote, vote_internal
  <2> QED BY <1>3, <1>5, <2>1, VoteKeepsInv
<1>6. CASE AddApproved \/ RemoveApproved
  <2>1. executed' = executed
    BY <1>6 DEF AddApproved, RemoveApproved, add_approved_script_hash, remove_approved_hash
  <2> QED BY <1>3, <1>6, <2>1, ApprovalsKeepInv
<1>7. CASE (\E pool \in StakePools : Reward(pool)) \/ (\E from, to \in StakePools : MoveStake(from, to))
  <2>1. executed' = executed
    BY <1>7 DEF Reward, MoveStake
  <2> QED BY <1>3, <1>7, <2>1, StakeMoves
<1>8. CASE UNCHANGED governance_vars
  BY <1>3, <1>8, GovernanceStutters DEF governance_vars
<1> QED BY <1>1, <1>2, <1>4, <1>5, <1>6, <1>7, <1>8 DEF GovernanceNext

LEMMA SoundProposals ==
  ASSUME GovernanceInv
  PROVE  StepsRunInOrder /\ MajorityPublishes /\ StakeVotesOnce /\ ApprovedIsTheNextStep
<1>1. \A id \in Ids : IsSound(id)
  BY DEF GovernanceInv, Ids
<1>2. StepsRunInOrder
  <2> SUFFICES ASSUME NEW id \in Ids
               PROVE  /\ executed[id] # <<>> => executed[id][1] = proposals[id].created_with
                      /\ \A i \in 2 .. Len(executed[id]) :
                           /\ HasNext(executed[id][i - 1])
                           /\ executed[id][i] = executed[id][i - 1].next
                      /\ proposals[id].is_resolved <=>
                           executed[id] # <<>> /\ ~HasNext(executed[id][Len(executed[id])])
    BY DEF StepsRunInOrder, HasNext
  <2> QED BY <1>1 DEF IsSound, RunsInOrder
<1>3. MajorityPublishes
  BY <1>1 DEF MajorityPublishes, IsSound
<1>4. StakeVotesOnce
  BY <1>1 DEF StakeVotesOnce, IsSound, VotesAreStake
<1>5. ApprovedIsTheNextStep
  BY <1>1 DEF ApprovedIsTheNextStep, IsSound, Ids, GovernanceInv, GovernanceTypeOK
<1> QED BY <1>2, <1>3, <1>4, <1>5

\* For any pools, stake, thresholds and scripts: a proposal runs the script that was voted for and
\* then what each names, with a majority of stake that voted once, its list of approved scripts
\* follows, and no script runs in the second of a vote (voting.move, topo_governance.move).
THEOREM GovernanceCorrectness == GovernanceSpec => ProposalsAreSound
<1>1. GovernanceInit => GovernanceInv
  BY GovernanceInitSound
<1>2. GovernanceInv /\ [GovernanceNext]_governance_vars => GovernanceInv' /\ [VoteThenResolve]_governance_vars
  BY GovernanceStep
<1>3. GovernanceInv => StepsRunInOrder /\ MajorityPublishes /\ StakeVotesOnce /\ ApprovedIsTheNextStep
  BY SoundProposals
<1> QED BY <1>1, <1>2, <1>3, PTL DEF GovernanceSpec, ProposalsAreSound
=============================================================================
