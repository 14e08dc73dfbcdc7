------------------------------ MODULE MCStake ------------------------------
(* Instances of Stake for TLC.  The instance called "clocks" is the one     *)
(* where time matters; the others take every constant from their .cfg.      *)
EXTENDS Stake, TLC

CONSTANT Instances      \* the instances a run is made of

VARIABLE instance

\* The genesis validators hold nothing outside their pools, the others enough to join.
GrantToJoiners == [p \in Pools |-> IF p \in Genesis THEN 0 ELSE 2]

\* Each genesis validator holds one unit; three epochs of the two of them, whose stake and
\* lockups meet the clock in every order.  Other pools stay empty and untouched.
GrantToGenesis == [p \in Pools |-> IF p \in Genesis THEN 1 ELSE 0]

Clocks == INSTANCE Stake WITH Grant <- GrantToGenesis, Amounts <- {1}, MaxSetSize <- 2, MaxEpoch <- 3

ASSUME Clocks!AmountAssumption /\ Clocks!TimeAssumption

-----------------------------------------------------------------------------
MCInit ==
  /\ instance \in Instances
  /\ IF instance = "clocks" THEN Clocks!Init ELSE Init

ClocksNext ==
  /\ Clocks!Next
  /\ \A p \in Pools \ Genesis : UNCHANGED stake_pool[p]

MCNext ==
  /\ UNCHANGED instance
  /\ IF instance = "clocks" THEN ClocksNext ELSE Next

MCSpec == MCInit /\ [][MCNext]_<<instance, vars>>

\* Owners differ only in their part in genesis.
Symmetric == Permutations(Pools \ Genesis) \cup Permutations(Genesis)
=============================================================================
