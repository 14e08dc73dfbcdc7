----------------------------- MODULE Governance -----------------------------
(***************************************************************************)
(* Governance proposals: voting.move and the proposal part of               *)
(* topo_governance.move, resolved by the scripts of ReleaseScripts.  Stake  *)
(* pools create proposals and vote with stake locked beyond the vote; once  *)
(* it passes, anyone runs the approved script, and a multi-step proposal    *)
(* names the script of its next step each time.  A script's hash is the     *)
(* script: two scripts with the same hash are the same.                     *)
(***************************************************************************)
EXTENDS Integers, Sequences, FiniteSets, FiniteSetsExt, Functions

CONSTANTS StakePools,                   \* stake pools
          InitialPower,            \* voting power of each at genesis
          LockedUntil,             \* the second until which each pool's stake is locked
          min_voting_threshold, required_proposer_stake, voting_duration_secs,
          Scripts, NoHash,         \* the scripts anybody may submit, [kind, package, next]; x"": no next step
          MaxTime, MaxCreated, MaxMoves  \* bounds

VARIABLES now_seconds, \* timestamp::now_seconds
          power,       \* get_voting_power of each pool
          moves,       \* rewards and movements of stake so far
          proposals,   \* VotingForum.proposals, by id
          used,        \* VotingRecordsV2: the power each pool has used on each proposal
          approved,    \* ApprovedExecutionHashes: id |-> hash
          executed,    \* the scripts that ran for each proposal, in order; each publishes its package
          voted        \* the second of the last vote event of each proposal
governance_vars == <<now_seconds, power, moves, proposals, used, approved, executed, voted>>

ASSUME GovernanceAssumption ==
  /\ IsFiniteSet(StakePools)
  /\ InitialPower \in [StakePools -> Nat] /\ LockedUntil \in [StakePools -> Nat]
  /\ {min_voting_threshold, required_proposer_stake, voting_duration_secs, MaxTime, MaxCreated, MaxMoves} \subseteq Nat
  /\ \A script \in Scripts : script.kind \in {"single", "multi"}

NoVote == -1            \* RESOLVABLE_TIME_METADATA_KEY is not set
Ids == DOMAIN proposals
Total(f) == SumFunction(f)

GovernanceInit ==
  /\ now_seconds = 0 /\ power = InitialPower /\ moves = 0
  /\ proposals = <<>> /\ used = <<>> /\ approved = <<>> /\ executed = <<>> /\ voted = <<>>

---------------------------------------------------------------------------
(* voting.move *)

can_be_resolved_early(p) == p.yes_votes >= p.early \/ p.no_votes >= p.early
is_voting_period_over(p) == now_seconds > p.expiration_secs
is_voting_closed(p) == can_be_resolved_early(p) \/ is_voting_period_over(p)
Succeeded(p) ==
  /\ is_voting_closed(p)
  /\ p.yes_votes > p.no_votes
  /\ p.yes_votes + p.no_votes >= p.min_vote_threshold

\* Mutant: votes are taken while the steps of the proposal are executed.
accepts_votes_in_execution(p) == ~is_voting_period_over(p) /\ ~p.is_resolved
accepts_votes(p) ==
  ~is_voting_period_over(p) /\ ~p.is_resolved /\ ~p.in_execution

vote(p, n, should_pass) ==
  [p EXCEPT !.yes_votes = IF should_pass THEN @ + n ELSE @,
            !.no_votes = IF should_pass THEN @ ELSE @ + n,
            !.resolvable_time = now_seconds]

is_proposal_resolvable(p, script) ==
  /\ Succeeded(p)
  /\ ~p.is_resolved
  /\ now_seconds > p.resolvable_time
  /\ script = p.execution_hash

resolve(p) == [p EXCEPT !.is_resolved = TRUE]

resolve_proposal_v2(p, next_execution_hash) ==
  [p EXCEPT !.in_execution = p.is_multi_step /\ next_execution_hash # NoHash,
            !.is_resolved = next_execution_hash = NoHash,
            !.execution_hash = IF next_execution_hash = NoHash THEN @ ELSE next_execution_hash]

---------------------------------------------------------------------------
(* topo_governance.move *)

stake_pool_is_eligible_to_vote(pool, expiration) == expiration < LockedUntil[pool]
is_proposal_expired(expiration) == now_seconds >= expiration

create_proposal_v2_impl(pool, execution_hash, is_multi_step) ==
  LET early == Total(power) \div 2 + 1
      expiration == now_seconds + voting_duration_secs
  IN /\ Cardinality(Ids) < MaxCreated
     /\ power[pool] >= required_proposer_stake
     /\ stake_pool_is_eligible_to_vote(pool, expiration)
     /\ min_voting_threshold <= early
     /\ proposals' = Append(proposals,
          [created_with |-> execution_hash, execution_hash |-> execution_hash, is_multi_step |-> is_multi_step,
           in_execution |-> FALSE, is_resolved |-> FALSE, yes_votes |-> 0, no_votes |-> 0,
           min_vote_threshold |-> min_voting_threshold, early |-> early, expiration_secs |-> expiration,
           resolvable_time |-> NoVote])
     /\ used' = Append(used, [p \in StakePools |-> 0])
     /\ executed' = Append(executed, <<>>) /\ voted' = Append(voted, NoVote)
     /\ UNCHANGED <<now_seconds, power, moves, approved>>

\* The power left to a pool; a pool whose power fell below what it used aborts.
get_remaining_voting_power(pool, id) == power[pool] - used[id][pool]

With(map, id, hash) == [i \in DOMAIN map \cup {id} |-> IF i = id THEN hash ELSE map[i]]
Without(map, id) == [i \in DOMAIN map \ {id} |-> map[i]]

vote_internal(pool, id, voting_power, should_pass) ==
  LET n == Min({voting_power, get_remaining_voting_power(pool, id)})
      p == vote(proposals[id], n, should_pass)
  IN /\ stake_pool_is_eligible_to_vote(pool, proposals[id].expiration_secs)
     /\ ~is_proposal_expired(proposals[id].expiration_secs)
     /\ n > 0
     /\ accepts_votes(proposals[id])
     /\ proposals' = [proposals EXCEPT ![id] = p]
     /\ used' = [used EXCEPT ![id][pool] = @ + n]
     /\ voted' = [voted EXCEPT ![id] = now_seconds]
     /\ approved' = IF Succeeded(p) THEN With(approved, id, p.execution_hash) ELSE approved
     /\ UNCHANGED <<now_seconds, power, moves, executed>>

add_approved_script_hash(id) ==
  /\ Succeeded(proposals[id])
  /\ approved' = With(approved, id, proposals[id].execution_hash)
  /\ UNCHANGED <<now_seconds, power, moves, proposals, used, executed, voted>>

remove_approved_hash(id) ==
  /\ proposals[id].is_resolved
  /\ approved' = Without(approved, id)
  /\ UNCHANGED <<now_seconds, power, moves, proposals, used, executed, voted>>

\* A script runs with some proposal's id: its first call resolves, then it publishes.
resolve_and_publish(script, id) ==
  /\ script.kind = "single"
  /\ is_proposal_resolvable(proposals[id], script)
  /\ ~proposals[id].is_multi_step
  /\ proposals' = [proposals EXCEPT ![id] = resolve(@)]
  /\ approved' = Without(approved, id)
  /\ executed' = [executed EXCEPT ![id] = Append(@, script)]
  /\ UNCHANGED <<now_seconds, power, moves, used, voted>>

approved_after_step(id, p) ==
  IF p.is_resolved THEN Without(approved, id) ELSE With(approved, id, p.execution_hash)

resolve_multi_step_and_publish(script, id) ==
  LET p == resolve_proposal_v2(proposals[id], script.next)
  IN /\ script.kind = "multi"
     /\ is_proposal_resolvable(proposals[id], script)
     /\ proposals[id].is_multi_step \/ script.next = NoHash
     /\ script.next # NoHash => Succeeded(p)           \* add_approved_script_hash
     /\ proposals' = [proposals EXCEPT ![id] = p]
     /\ approved' = approved_after_step(id, p)
     /\ executed' = [executed EXCEPT ![id] = Append(@, script)]
     /\ UNCHANGED <<now_seconds, power, moves, used, voted>>

---------------------------------------------------------------------------
(* Time passes, pools earn rewards, and stake no longer locked may be put into another pool. *)

Tick == /\ now_seconds < MaxTime /\ now_seconds' = now_seconds + 1
        /\ UNCHANGED <<power, moves, proposals, used, approved, executed, voted>>
MoveStake(from, to) ==
  /\ from # to /\ moves < MaxMoves /\ power[from] > 0
  /\ now_seconds >= LockedUntil[from]
  /\ power' = [power EXCEPT ![from] = @ - 1, ![to] = @ + 1] /\ moves' = moves + 1
  /\ UNCHANGED <<now_seconds, proposals, used, approved, executed, voted>>

Reward(pool) ==
  /\ moves < MaxMoves
  /\ power' = [power EXCEPT ![pool] = @ + 1] /\ moves' = moves + 1
  /\ UNCHANGED <<now_seconds, proposals, used, approved, executed, voted>>

Create == \E pool \in StakePools, script \in Scripts, is_multi_step \in BOOLEAN :
            create_proposal_v2_impl(pool, script, is_multi_step)
Vote == \E pool \in StakePools, id \in Ids, n \in {1, Total(power)}, should_pass \in BOOLEAN :
          vote_internal(pool, id, n, should_pass)
AddApproved == \E id \in Ids : add_approved_script_hash(id)
RemoveApproved == \E id \in Ids : remove_approved_hash(id)
Execute(id) == \E script \in Scripts :
                 resolve_and_publish(script, id) \/ resolve_multi_step_and_publish(script, id)
GovernanceNext ==
  \/ Tick \/ Create \/ Vote \/ AddApproved \/ RemoveApproved
  \/ \E id \in Ids : Execute(id)
  \/ \E from, to \in StakePools : MoveStake(from, to)
  \/ \E pool \in StakePools : Reward(pool)

GovernanceSpec == GovernanceInit /\ [][GovernanceNext]_governance_vars

\* Somebody submits the next step of a proposal whose execution has begun.
GovernanceFairness == \A id \in 1..MaxCreated : WF_governance_vars(id \in Ids /\ Execute(id))

---------------------------------------------------------------------------
(* Properties *)

\* Nothing runs for a proposal but the script voted for and then, one by one, what each names next,
\* whoever submits which script when; it is resolved by the last (voting.move:resolve_proposal_v2).
StepsRunInOrder == \A id \in Ids :
  LET run == executed[id]
      HasNext(script) == script.kind = "multi" /\ script.next # NoHash
  IN  /\ run # <<>> => run[1] = proposals[id].created_with
      /\ \A i \in 2 .. Len(run) : HasNext(run[i - 1]) /\ run[i] = run[i - 1].next
      /\ proposals[id].is_resolved <=> run # <<>> /\ ~HasNext(run[Len(run)])

\* What runs had, and keeps until it is finished, a majority above the threshold:
\* votes stop once execution begins (voting.move:vote).
MajorityPublishes == \A id \in Ids : executed[id] # <<>> => Succeeded(proposals[id])

\* Stake is counted once per proposal, though it may be moved after its lockup
\* (topo_governance.move:assert_proposal_expiration).
StakeVotesOnce == \A id \in Ids :
  proposals[id].yes_votes + proposals[id].no_votes <= Total(power)

\* The list of approved scripts follows the steps: what is listed for a proposal is the script it
\* waits for, and a proposal in execution is listed (topo_governance.move:resolve_multi_step_proposal).
ApprovedIsTheNextStep ==
  /\ \A id \in DOMAIN approved : approved[id] = proposals[id].execution_hash
  /\ \A id \in Ids : proposals[id].in_execution => id \in DOMAIN approved

\* No script runs in the second of a vote on its proposal, were it not the first vote
\* (voting.move:ERESOLUTION_CANNOT_BE_ATOMIC).
VoteThenResolve == \A id \in Ids : executed'[id] # executed[id] => now_seconds > voted[id]

\* A proposal is executed as it was voted for: its steps, in order, with a majority of stake that
\* voted once, in another second than any vote (voting.move, topo_governance.move).
ProposalsAreSound ==
  /\ [](StepsRunInOrder /\ MajorityPublishes /\ StakeVotesOnce /\ ApprovedIsTheNextStep)
  /\ [][VoteThenResolve]_governance_vars

\* A proposal whose execution begins is executed to its last step, if somebody submits each
\* script: no vote, lockup or expiration stops it between two.
ExecutionFinishes == \A id \in 1..MaxCreated :
  (id \in Ids /\ proposals[id].in_execution) ~> (id \in Ids /\ proposals[id].is_resolved)

\* "Ensure the proposal can be resolved." (topo_governance.move:add_approved_script_hash)
ApprovedCanBeResolved == \A id \in DOMAIN approved : ~proposals[id].is_resolved
=============================================================================
