--------------------------- MODULE PocPowerStore ---------------------------
(***************************************************************************)
(* The POC power store (poc_power_store.move).  A service outside the chain *)
(* computes a batch of powers for every period and the operator writes it   *)
(* back; a batch may be written late, after newer ones, or again, and the   *)
(* operator may be replaced meanwhile.  `seen' is what a reader of the      *)
(* PowerUpdatedEvents knows.                                                *)
(***************************************************************************)
EXTENDS Naturals, Sequences

CONSTANTS Users, Powers, Operators,
          MaxPeriod     \* bound: periods computed

VARIABLES operator,   \* PowerStore.operator
          users,      \* PowerStore.users: user |-> [power, last_updated_period]
          computed,   \* the service's batch of each period: user |-> power
          delivered,  \* the periods of the batches written so far
          seen        \* user |-> what the last event about it says
power_store_vars == <<operator, users, computed, delivered, seen>>

ASSUME MaxPeriodAssumption == MaxPeriod \in Nat
ASSUME OperatorsAssumption == Operators # {}

Periods == DOMAIN computed
Batches == UNION {[S -> Powers] : S \in SUBSET Users}
Info(power, period) == [power |-> power, last_updated_period |-> period]

PowerStoreInit ==
  /\ operator \in Operators
  /\ users = <<>> /\ computed = <<>> /\ delivered = {} /\ seen = <<>>

\* The users of a batch that are written.
\* Mutants: stale batches overwrite; a stale user ends the batch.
written_always(period) == DOMAIN computed[period]
written_all_or_none(period) ==
  IF \E u \in DOMAIN computed[period] \cap DOMAIN users : period < users[u].last_updated_period
  THEN {} ELSE DOMAIN computed[period]
written(period) ==
  {u \in DOMAIN computed[period] : u \in DOMAIN users => ~(period < users[u].last_updated_period)}

\* A map with the batch's entries for the users in S.
Upsert(map, S, period) ==
  [u \in DOMAIN map \cup S |-> IF u \in S THEN Info(computed[period][u], period) ELSE map[u]]

emit_events(period) == Upsert(seen, written(period), period)

batch_update(caller, period) ==
  /\ caller = operator
  /\ users' = Upsert(users, written(period), period)
  /\ seen' = emit_events(period)
  /\ delivered' = delivered \cup {period}
  /\ UNCHANGED <<operator, computed>>

set_operator(new_operator) ==
  /\ new_operator # operator
  /\ operator' = new_operator
  /\ UNCHANGED <<users, computed, delivered, seen>>

Compute ==
  /\ Len(computed) < MaxPeriod
  /\ \E batch \in Batches : computed' = Append(computed, batch)
  /\ UNCHANGED <<operator, users, delivered, seen>>

WriteBack(period) == period \in Periods /\ \E caller \in Operators : batch_update(caller, period)

PowerStoreNext ==
  \/ Compute
  \/ \E new_operator \in Operators : set_operator(new_operator)
  \/ \E period \in Periods : WriteBack(period)

PowerStoreSpec == PowerStoreInit /\ [][PowerStoreNext]_power_store_vars

\* The service looks whether a batch was written, and writes it again until it was.
PowerStoreFairness == \A period \in 1..MaxPeriod : WF_power_store_vars(period \notin delivered /\ WriteBack(period))
PowerStoreFairSpec == PowerStoreSpec /\ PowerStoreFairness

PowerStoreTypeOK ==
  /\ operator \in Operators
  /\ computed \in Seq(Batches)
  /\ delivered \subseteq Periods
  /\ DOMAIN users \subseteq Users

---------------------------------------------------------------------------
(* Properties *)

\* The store holds for each user the power of the newest batch that was written and names it,
\* whatever the order and the number of writes (poc_power_store.move:upsert_user_power_if_not_stale).
NewestWrittenWins ==
  /\ \A p \in delivered : \A u \in DOMAIN computed[p] :
       u \in DOMAIN users /\ users[u].last_updated_period >= p
  /\ \A u \in DOMAIN users : \E p \in delivered :
       u \in DOMAIN computed[p] /\ users[u] = Info(computed[p][u], p)

\* Whoever follows the events knows the store: one event for each write, none for a skipped one.
EventsTellTheStore == seen = users

\* Every user ends with its power of the newest period it occurs in, though its batch be written
\* late or with users already newer.
PowersSettle == <>[](\A p \in Periods : \A u \in DOMAIN computed[p] :
  (\A q \in Periods : u \in DOMAIN computed[q] => q <= p) =>
    u \in DOMAIN users /\ users[u] = Info(computed[p][u], p))
=============================================================================
