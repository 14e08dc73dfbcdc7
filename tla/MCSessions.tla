----------------------------- MODULE MCSessions -----------------------------
(* The extensions of a session, side by side: they share no state, so each *)
(* behaviour is one of the extension `part' and leaves the others alone.   *)
EXTENDS SessionContexts, Tables, AggregatorV1, DelayedFields, EventStore, FunctionDispatch, TLC

CONSTANTS v1, v2, T, U  \* model values

VARIABLE part
mc_vars == <<part, table_vars, aggregator_vars, field_vars, draw_vars, event_vars, dispatch_vars>>

\* Functions that fit one of the dispatchers or none.
Fitting == [params |-> <<"store", "u64", "&ref">>, returns |-> "asset", abilities |-> "key", public |-> TRUE, native |-> FALSE]
Depositing == [Fitting EXCEPT !.params = <<"store", "asset", "&ref">>, !.returns = "nothing"]
Balance == [Fitting EXCEPT !.params = <<"store">>, !.returns = "u64"]
Authenticator == [Fitting EXCEPT !.params = <<"signer", "data">>, !.returns = "signer", !.abilities = "none"]
MCFunctions ==
  {Fitting, Depositing, Balance, Authenticator, [Fitting EXCEPT !.public = FALSE], [Depositing EXCEPT !.native = TRUE],
   [Authenticator EXCEPT !.public = FALSE], [Balance EXCEPT !.abilities = "none"]}

\* The natives jump from these modules.
MCHomes == [d \in Hooks |-> "dispatchable_fungible_asset"] @@ ("authenticate" :> "account_abstraction")

\* The random ranges and permutations of randomness.move are functions: all small arguments are tried here.
ASSUME RangeIsExact /\ PermutationIsUniform

\* An extension with several initial states waits in one of them.
MCInit ==
  /\ part \in {"tables", "aggregators", "fields", "draws", "events", "dispatch"}
  /\ TablesInit /\ AggregatorsInit /\ FieldsInit /\ DrawsInit /\ EventsInit /\ DispatchInit
  /\ part # "fields" => base = 0 /\ shown = 0
  /\ part # "draws" => seed = 1
  /\ part # "dispatch" => abstractions = {}

MCNext ==
  \/ /\ part = "tables" /\ TablesNext
     /\ UNCHANGED <<part, aggregator_vars, field_vars, draw_vars, event_vars, dispatch_vars>>
  \/ /\ part = "aggregators" /\ AggregatorsNext
     /\ UNCHANGED <<part, table_vars, field_vars, draw_vars, event_vars, dispatch_vars>>
  \/ /\ part = "fields" /\ FieldsNext
     /\ UNCHANGED <<part, table_vars, aggregator_vars, draw_vars, event_vars, dispatch_vars>>
  \/ /\ part = "draws" /\ DrawsNext
     /\ UNCHANGED <<part, table_vars, aggregator_vars, field_vars, event_vars, dispatch_vars>>
  \/ /\ part = "events" /\ EventsNext
     /\ UNCHANGED <<part, table_vars, aggregator_vars, field_vars, draw_vars, dispatch_vars>>
  \/ /\ part = "dispatch" /\ DispatchNext
     /\ UNCHANGED <<part, table_vars, aggregator_vars, field_vars, draw_vars, event_vars>>

MCSpec == MCInit /\ [][MCNext]_mc_vars

\* The values of table entries are interchangeable, and so are the types of events.
Symmetry == Permutations({v1, v2}) \cup Permutations({T, U})
=============================================================================
