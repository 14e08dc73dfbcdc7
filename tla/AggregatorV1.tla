---------------------------- MODULE AggregatorV1 ----------------------------
(***************************************************************************)
(* Aggregators of the first kind (natives/src/aggregator_natives:          *)
(* aggregator.rs, aggregator_factory.rs and the first part of context.rs): *)
(* counters with a limit that transactions change without reading them.    *)
(* An aggregator collects a delta, and the history of that delta, until it *)
(* is read; the transaction's change set then merges the delta with        *)
(* whatever value storage has by that time, or writes the value read.      *)
(*                                                                         *)
(* AggregatorData, the map the natives work on, is outside this            *)
(* repository; it is modelled from its use here and from the tests in      *)
(* context.rs.  An abort of a native is an action that is not enabled.     *)
(***************************************************************************)
EXTENDS Integers, FiniteSets

CONSTANTS Limit,        \* what no aggregator may exceed
          Amounts,      \* what is added and subtracted
          MaxSession,   \* bound: sessions, and their hashes
          MaxCreated,   \* bound: aggregators made by one transaction
          MaxAlive,     \* bound: aggregators there are at a time
          MaxMoves      \* bound: additions and subtractions in one transaction

ASSUME AggregatorV1Assumption ==
  /\ Limit \in Nat /\ Amounts \subseteq Nat
  /\ MaxSession \in Nat /\ MaxCreated \in Nat /\ MaxAlive \in Nat /\ MaxMoves \in Nat

VARIABLES
  agg_store,      \* aggregators in storage
  sessions,       \* the hash of the last session
  agg_session_hash,   \* of the running session, 0 when there is none
  aggregators,    \* those the transaction touched
  created,        \* how many it made
  new, destroyed, \* those it made, and stored ones it destroyed
  structs,        \* the Aggregator structs there are: a serial number and an identifier each
  stored_structs, \* those of them outside the transaction
  moves,          \* how many additions and subtractions it made
  outcomes        \* history: what they make of each value an aggregator may have, -1 if one fails

agg_txn == <<agg_session_hash, aggregators, created, new, destroyed, structs, moves, outcomes>>
aggregator_vars == <<agg_store, sessions, stored_structs, agg_txn>>

AggregatorIds == (1 .. MaxSession) \X (0 .. MaxCreated - 1)

-----------------------------------------------------------------------------
(* An aggregator has a value ("Data") or a delta with the largest and the smallest it had. *)

AggregatorStates == [state : {"Data", "Delta"}, value : -Limit .. Limit, top : 0 .. Limit,
                     bottom : -Limit .. 0]

Data(value) == [state |-> "Data", value |-> value, top |-> 0, bottom |-> 0]
NoDelta == [state |-> "Delta", value |-> 0, top |-> 0, bottom |-> 0]

GetAggregator(id) == IF id \in DOMAIN aggregators THEN aggregators[id] ELSE NoDelta

\* The value or the delta stays within the limit, and a delta's history is recorded.
MayMove(agg, n) == IF agg.state = "Data" THEN agg.value + n \in 0 .. Limit
                                         ELSE agg.value + n \in -Limit .. Limit

Move(agg, n) ==
  LET moved == agg.value + n
  IN  IF agg.state = "Data" THEN Data(moved)
      ELSE [state |-> "Delta", value |-> moved,
            top |-> IF moved > agg.top THEN moved ELSE agg.top,
            bottom |-> IF moved < agg.bottom THEN moved ELSE agg.bottom]

\* A delta can be applied to a base if every value it went through is within the limit.
Applies(agg, base) == base + agg.top <= Limit /\ base + agg.bottom >= 0

Materialized(agg, base) == IF agg.state = "Data" THEN agg ELSE Data(base + agg.value)

-----------------------------------------------------------------------------
\* What no calls make of a value.
NoOutcome == [id \in AggregatorIds |-> [value \in 0 .. Limit |-> value]]

AggregatorsInit ==
  /\ agg_store = << >>
  /\ sessions = 0
  /\ agg_session_hash = 0
  /\ aggregators = << >>
  /\ created = 0
  /\ new = {} /\ destroyed = {}
  /\ structs = {} /\ stored_structs = {}
  /\ moves = 0 /\ outcomes = NoOutcome

\* NativeAggregatorContext::new
NewAggregatorContext ==
  /\ agg_session_hash = 0
  /\ sessions < MaxSession
  /\ sessions' = sessions + 1
  /\ agg_session_hash' = sessions + 1
  /\ aggregators' = << >>
  /\ created' = 0
  /\ new' = {} /\ destroyed' = {}
  /\ structs' = stored_structs
  /\ moves' = 0 /\ outcomes' = NoOutcome
  /\ UNCHANGED <<agg_store, stored_structs>>

\* "number of aggregator instances created so far", aggregator_factory.rs:49
NumAggregators == created

Fresh == <<agg_session_hash, NumAggregators>>

Extended(f, id, x) == [i \in DOMAIN f \cup {id} |-> IF i = id THEN x ELSE f[i]]

NativeNewAggregator ==
  /\ agg_session_hash # 0
  /\ created < MaxCreated /\ Cardinality(structs) < MaxAlive
  /\ aggregators' = Extended(aggregators, Fresh, Data(0))
  /\ created' = created + 1
  /\ new' = new \cup {Fresh}
  /\ structs' = structs \cup {<<<<agg_session_hash, created>>, Fresh>>}
  /\ UNCHANGED <<agg_store, sessions, stored_structs, agg_session_hash, destroyed, moves, outcomes>>

\* A checked addition to the value itself, unless an earlier one failed.
Checked(value, n) == IF value = -1 \/ value + n \notin 0 .. Limit THEN -1 ELSE value + n

Moves(id, n) ==
  /\ moves < MaxMoves
  /\ MayMove(GetAggregator(id), n)
  /\ aggregators' = Extended(aggregators, id, Move(GetAggregator(id), n))
  /\ moves' = moves + 1
  /\ outcomes' = [outcomes EXCEPT ![id] = [value \in 0 .. Limit |-> Checked(outcomes[id][value], n)]]
  /\ UNCHANGED <<agg_store, sessions, stored_structs, agg_session_hash, created, new, destroyed, structs>>

NativeAdd(id, input) == Moves(id, input)

NativeSub(id, input) == Moves(id, -input)

\* read_and_materialize: the value is read from storage, and the delta applied to it.
NativeRead(id) ==
  LET agg == GetAggregator(id)
  IN  /\ agg.state = "Delta" => Applies(agg, agg_store[id])
      /\ aggregators' = Extended(aggregators, id, Materialized(agg, agg_store[id]))
      /\ UNCHANGED <<agg_store, sessions, stored_structs, agg_session_hash, created, new, destroyed,
                     structs, moves, outcomes>>

NativeDestroy(s) ==
  LET id == s[2]
  IN  /\ aggregators' = [i \in DOMAIN aggregators \ {id} |-> aggregators[i]]
      /\ new' = new \ {id}
      /\ destroyed' = IF id \in new THEN destroyed ELSE destroyed \cup {id}
      /\ structs' = structs \ {s}
      /\ UNCHANGED <<agg_store, sessions, stored_structs, agg_session_hash, created, moves, outcomes>>

-----------------------------------------------------------------------------
(* The change set. *)

\* Mutant: the history is the delta itself.
ChangesWithoutHistory ==
  [id \in DOMAIN aggregators \cup destroyed |->
     IF id \in destroyed THEN [op |-> "Delete", agg |-> NoDelta]
     ELSE IF aggregators[id].state = "Data" THEN [op |-> "Write", agg |-> aggregators[id]]
     ELSE [op |-> "Merge", agg |-> Move(NoDelta, aggregators[id].value)]]

\* Writes and deltas first; what was destroyed overrides them.
AggregatorChanges ==
  [id \in DOMAIN aggregators \cup destroyed |->
     IF id \in destroyed THEN [op |-> "Delete", agg |-> NoDelta]
     ELSE IF aggregators[id].state = "Data" THEN [op |-> "Write", agg |-> aggregators[id]]
     ELSE [op |-> "Merge", agg |-> aggregators[id]]]

\* What a change makes of a base, -1 when it cannot be applied.
Outcome(change, base) ==
  CASE change.op = "Write" -> change.agg.value
    [] change.op = "Merge" -> IF Applies(change.agg, base) THEN base + change.agg.value ELSE -1

Dropped ==
  /\ agg_session_hash' = 0
  /\ aggregators' = << >>
  /\ created' = 0
  /\ new' = {} /\ destroyed' = {}
  /\ moves' = 0 /\ outcomes' = NoOutcome
  /\ UNCHANGED sessions

\* What is left after the deletions.
Kept == (DOMAIN agg_store \cup DOMAIN AggregatorChanges)
          \ {id \in DOMAIN AggregatorChanges : AggregatorChanges[id].op = "Delete"}

IntoAggregatorChangeSet ==
  /\ agg_session_hash # 0
  /\ \A id \in DOMAIN AggregatorChanges :
       AggregatorChanges[id].op = "Merge" => Outcome(AggregatorChanges[id], agg_store[id]) # -1
  /\ agg_store' = [id \in Kept |->
                    IF id \in DOMAIN AggregatorChanges
                    THEN Outcome(AggregatorChanges[id], IF id \in DOMAIN agg_store THEN agg_store[id] ELSE 0)
                    ELSE agg_store[id]]
  /\ stored_structs' = structs
  /\ UNCHANGED structs
  /\ Dropped

\* Any abort drops the context.
AbortAggregators ==
  /\ agg_session_hash # 0
  /\ structs' = stored_structs
  /\ Dropped
  /\ UNCHANGED <<agg_store, stored_structs>>

Running == agg_session_hash # 0

AggregatorsNext ==
  \/ NewAggregatorContext \/ NativeNewAggregator \/ IntoAggregatorChangeSet \/ AbortAggregators
  \/ Running /\ \E s \in structs : NativeRead(s[2]) \/ NativeDestroy(s)
  \/ Running /\ \E s \in structs, n \in Amounts : NativeAdd(s[2], n) \/ NativeSub(s[2], n)

AggregatorsSpec == AggregatorsInit /\ [][AggregatorsNext]_aggregator_vars

-----------------------------------------------------------------------------
(* Properties *)

AggregatorsTypeOK ==
  /\ DOMAIN agg_store \subseteq AggregatorIds /\ \A id \in DOMAIN agg_store : agg_store[id] \in 0 .. Limit
  /\ sessions \in 0 .. MaxSession /\ agg_session_hash \in 0 .. sessions
  /\ DOMAIN aggregators \subseteq AggregatorIds
  /\ \A id \in DOMAIN aggregators : aggregators[id] \in AggregatorStates
  /\ created \in 0 .. MaxCreated
  /\ new \subseteq AggregatorIds /\ destroyed \subseteq AggregatorIds
  /\ structs \subseteq AggregatorIds \X AggregatorIds /\ stored_structs \subseteq AggregatorIds \X AggregatorIds
  /\ moves \in 0 .. MaxMoves
  /\ outcomes \in [AggregatorIds -> [0 .. Limit -> -1 .. Limit]]

\* Whatever value storage has when the change set is applied, the outcome is that of the calls
\* made one by one on that value, and it fails where one of them would have (context.rs:124).
EffectIsThatOfTheCalls ==
  Running => \A id \in DOMAIN AggregatorChanges :
    AggregatorChanges[id].op = "Merge" =>
      \A base \in 0 .. Limit : Outcome(AggregatorChanges[id], base) = outcomes[id][base]

\* A value that was read and goes on is what the calls make of the stored one.
WritesAreSerial ==
  Running => \A id \in DOMAIN AggregatorChanges :
    AggregatorChanges[id].op = "Write" =>
      AggregatorChanges[id].agg.value = outcomes[id][IF id \in DOMAIN agg_store THEN agg_store[id] ELSE 0]

\* Deltas and deletions concern stored aggregators; what is made and destroyed in one
\* transaction leaves no trace (the table at context.rs:203).
ChangesFitStorage ==
  Running => \A id \in DOMAIN AggregatorChanges :
    AggregatorChanges[id].op \in {"Merge", "Delete"} => id \in DOMAIN agg_store

\* Storage has exactly the aggregators there are structs for.
StoreIsReachable == DOMAIN agg_store = {s[2] : s \in stored_structs}

\* Two aggregators never share an identifier (aggregator_factory.rs:48).
IdsAreUnique == \A s, t \in structs : s[2] = t[2] => s = t

\* The deltas and writes a transaction leaves for its aggregators have the outcome of its calls made
\* one by one on whatever storage has by then; identifiers are unique and nothing is left behind
\* (aggregator_natives/context.rs).
AggregatorsApplyTheirCalls ==
  /\ AggregatorsTypeOK /\ IdsAreUnique /\ StoreIsReachable
  /\ EffectIsThatOfTheCalls /\ WritesAreSerial /\ ChangesFitStorage
=============================================================================
