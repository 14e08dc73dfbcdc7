-------------------------- MODULE ExtensionsProofs --------------------------
(***************************************************************************)
(* Proofs about four extensions of a session that share no state: the      *)
(* aggregators of the first kind, the delayed fields, the events with      *)
(* their handles, and the dispatch to functions found at run time.  Each   *)
(* part names what its operators keep, states an inductive invariant with  *)
(* one lemma for each action, and ends with its theorem.                   *)
(***************************************************************************)
EXTENDS AggregatorV1, DelayedFields, EventStore, FunctionDispatch,
        SequenceTheorems, FiniteSetTheorems, TLAPS

-----------------------------------------------------------------------------
(* Aggregators: deltas *)

\* What a delta makes of a start: -1 if its history does not fit.
Applied(agg, start) == IF Applies(agg, start) THEN start + agg.value ELSE -1

\* A value within the limit, or a delta between the smallest and the largest it had.
SoundValues == {agg \in AggregatorStates : agg.state = "Data" /\ agg = Data(agg.value) /\ agg.value \in 0 .. Limit}
SoundDeltas == {agg \in AggregatorStates : agg.state = "Delta" /\ agg.bottom <= agg.value /\ agg.value <= agg.top}

\* A move keeps an aggregator sound, and is a checked addition to whatever it stands for.
LEMMA ValueMoves ==
  ASSUME NEW agg \in SoundValues, NEW n \in Int, MayMove(agg, n)
  PROVE  /\ Move(agg, n) \in SoundValues
         /\ Move(agg, n).value = Checked(agg.value, n)
<1> USE AggregatorV1Assumption DEF SoundValues, AggregatorStates, MayMove, Data
<1>1. agg.value \in Int /\ agg.value + n \in 0 .. Limit /\ agg.state = "Data" /\ agg.value \in 0 .. Limit
  OBVIOUS
<1>2. Move(agg, n) = [state |-> "Data", value |-> agg.value + n, top |-> 0, bottom |-> 0]
  BY <1>1 DEF Move
<1>3. Checked(agg.value, n) = agg.value + n
  BY <1>1 DEF Checked
<1>4. Move(agg, n).value = agg.value + n
  BY <1>2
<1>5. Move(agg, n) \in SoundValues
  BY <1>1, <1>2, <1>4
<1> QED BY <1>3, <1>4, <1>5

LEMMA DeltaMoves ==
  ASSUME NEW agg \in SoundDeltas, NEW n \in Int, MayMove(agg, n)
  PROVE  /\ Move(agg, n) \in SoundDeltas
         /\ \A start \in 0 .. Limit : Applied(Move(agg, n), start) = Checked(Applied(agg, start), n)
<1> USE AggregatorV1Assumption
<1>1. /\ agg.state = "Delta" /\ agg.value \in Int /\ agg.top \in 0 .. Limit /\ agg.bottom \in -Limit .. 0
      /\ agg.bottom <= agg.value /\ agg.value <= agg.top
      /\ agg.value + n \in -Limit .. Limit
  BY DEF SoundDeltas, AggregatorStates, MayMove
<1> DEFINE moved == agg.value + n
           top == IF moved > agg.top THEN moved ELSE agg.top
           bottom == IF moved < agg.bottom THEN moved ELSE agg.bottom
           result == [state |-> "Delta", value |-> moved, top |-> top, bottom |-> bottom]
<1>2. Move(agg, n) = result
  BY <1>1 DEF Move
<1>3. /\ moved \in -Limit .. Limit /\ top \in 0 .. Limit /\ bottom \in -Limit .. 0
      /\ bottom <= moved /\ moved <= top
  BY <1>1
<1>4. result \in SoundDeltas
  BY <1>3 DEF SoundDeltas, AggregatorStates
<1>5. ASSUME NEW start \in 0 .. Limit
      PROVE  Applied(result, start) = Checked(Applied(agg, start), n)
  <2>1. result.value = moved /\ result.top = top /\ result.bottom = bottom
    OBVIOUS
  <2>2. Applies(result, start) <=> Applies(agg, start) /\ start + moved \in 0 .. Limit
    BY <1>1, <2>1 DEF Applies
  <2>3. Applies(agg, start) => start + agg.value \in 0 .. Limit
    BY <1>1 DEF Applies
  <2> QED BY <1>1, <2>1, <2>2, <2>3 DEF Applied, Checked
<1> QED BY <1>2, <1>4, <1>5

LEMMA NoDeltaIsSound ==
  /\ NoDelta \in SoundDeltas
  /\ \A start \in 0 .. Limit : Applied(NoDelta, start) = start
BY AggregatorV1Assumption DEF NoDelta, SoundDeltas, AggregatorStates, Applied, Applies

LEMMA DataIsSound ==
  ASSUME NEW v \in 0 .. Limit
  PROVE  Data(v) \in SoundValues /\ Data(v).value = v /\ Data(v).state = "Data"
BY AggregatorV1Assumption DEF Data, SoundValues, AggregatorStates

-----------------------------------------------------------------------------
(* Aggregators: the invariant *)

\* The structs for a set of identifiers.
StructsOf(ids) == {<<id, id>> : id \in ids}

\* The aggregators there are in the running transaction.
Alive == (DOMAIN agg_store \ destroyed) \cup new

\* What is made of the value of an aggregator, of which storage may have one, is what the calls made.
Tells(agg, outcome, store, id) ==
  \/ agg \in SoundValues /\ agg.value = outcome[IF id \in DOMAIN store THEN store[id] ELSE 0]
  \/ /\ agg \in SoundDeltas /\ id \in DOMAIN store
     /\ \A value \in 0 .. Limit : outcome[value] = Applied(agg, value)

\* The identifiers given out so far by the running session.
GivenOut(id) == id[1] = agg_session_hash /\ id[2] < created

StoreIsSound ==
  /\ DOMAIN agg_store \subseteq AggregatorIds /\ \A id \in DOMAIN agg_store : agg_store[id] \in 0 .. Limit
  /\ sessions \in 0 .. MaxSession /\ agg_session_hash \in {0, sessions}
  /\ \A id \in DOMAIN agg_store : id[1] <= sessions /\ (Running => id[1] < sessions)
  /\ stored_structs = StructsOf(DOMAIN agg_store)
  /\ moves \in 0 .. MaxMoves /\ created \in 0 .. MaxCreated

TransactionIsSound ==
  /\ structs = StructsOf(Alive)
  /\ DOMAIN aggregators \subseteq Alive
  /\ new \subseteq DOMAIN aggregators \cap AggregatorIds
  /\ \A id \in new : GivenOut(id) /\ aggregators[id] \in SoundValues
  /\ destroyed \subseteq DOMAIN agg_store /\ destroyed \cap DOMAIN aggregators = {}
  /\ ~Running => new = {} /\ destroyed = {} /\ aggregators = << >>

HistoryIsTold ==
  /\ outcomes \in [AggregatorIds -> [0 .. Limit -> -1 .. Limit]]
  /\ \A id \in DOMAIN aggregators : Tells(aggregators[id], outcomes[id], agg_store, id)
  /\ \A id \in AggregatorIds :
       id \notin DOMAIN aggregators \cup destroyed /\ ~GivenOut(id) =>
         \A value \in 0 .. Limit : outcomes[id][value] = value

AggregatorInvariant == StoreIsSound /\ TransactionIsSound /\ HistoryIsTold

-----------------------------------------------------------------------------
(* Aggregators: what a call leaves of the one it is made on *)

LEMMA MovesTell ==
  ASSUME NEW agg, NEW outcome, NEW store, NEW id, NEW n \in Int,
         id \in DOMAIN store => store[id] \in 0 .. Limit,
         Tells(agg, outcome, store, id), MayMove(agg, n)
  PROVE  /\ Tells(Move(agg, n), [value \in 0 .. Limit |-> Checked(outcome[value], n)], store, id)
         /\ agg \in SoundValues => Move(agg, n) \in SoundValues
<1>1. 0 \in 0 .. Limit
  BY AggregatorV1Assumption
<1>2. CASE agg \in SoundValues /\ agg.value = outcome[IF id \in DOMAIN store THEN store[id] ELSE 0]
  BY <1>1, <1>2, ValueMoves DEF Tells
<1>3. CASE /\ agg \in SoundDeltas /\ id \in DOMAIN store
           /\ \A value \in 0 .. Limit : outcome[value] = Applied(agg, value)
  <2>1. agg \notin SoundValues
    BY <1>3 DEF SoundValues, SoundDeltas
  <2> QED BY <1>3, <2>1, DeltaMoves DEF Tells
<1> QED BY <1>2, <1>3 DEF Tells

LEMMA ReadsTell ==
  ASSUME NEW agg, NEW outcome, NEW store, NEW id,
         id \in DOMAIN store => store[id] \in 0 .. Limit,
         Tells(agg, outcome, store, id),
         agg.state = "Delta" => Applies(agg, store[id])
  PROVE  /\ Tells(Materialized(agg, store[id]), outcome, store, id)
         /\ Materialized(agg, store[id]) \in SoundValues
<1>1. CASE agg \in SoundValues /\ agg.value = outcome[IF id \in DOMAIN store THEN store[id] ELSE 0]
  <2>1. Materialized(agg, store[id]) = agg
    BY <1>1 DEF Materialized, SoundValues
  <2> QED BY <1>1, <2>1
<1>2. CASE /\ agg \in SoundDeltas /\ id \in DOMAIN store
           /\ \A value \in 0 .. Limit : outcome[value] = Applied(agg, value)
  <2>1. agg.state = "Delta"
    BY <1>2 DEF SoundDeltas
  <2>2. /\ Materialized(agg, store[id]) = Data(store[id] + agg.value)
        /\ Applied(agg, store[id]) = store[id] + agg.value
    BY <2>1 DEF Materialized, Applied
  <2>3. store[id] + agg.value \in 0 .. Limit
    BY <1>2, <2>1, AggregatorV1Assumption DEF SoundDeltas, AggregatorStates, Applies
  <2>4. /\ Data(store[id] + agg.value) \in SoundValues
        /\ Data(store[id] + agg.value).value = outcome[store[id]]
    BY <1>2, <2>2, <2>3, DataIsSound
  <2> QED BY <1>2, <2>2, <2>4 DEF Tells
<1> QED BY <1>1, <1>2 DEF Tells

\* A struct leads to an aggregator that tells what was made of its value.
LEMMA StructsTell ==
  ASSUME AggregatorInvariant, Running, NEW s \in structs
  PROVE  /\ s[2] \in AggregatorIds /\ s[2] \in Alive /\ s = <<s[2], s[2]>>
         /\ Tells(GetAggregator(s[2]), outcomes[s[2]], agg_store, s[2])
         /\ s[2] \in DOMAIN agg_store => agg_store[s[2]] \in 0 .. Limit
         /\ s[2] \in new => GetAggregator(s[2]) \in SoundValues
<1> USE DEF AggregatorInvariant, StoreIsSound, TransactionIsSound
<1> DEFINE id == s[2]
<1>1. id \in Alive /\ s = <<id, id>>
  BY DEF StructsOf
<1>2. id \in AggregatorIds /\ (id \in DOMAIN agg_store => agg_store[id] \in 0 .. Limit)
  BY <1>1 DEF Alive
<1>3. CASE id \in DOMAIN aggregators
  BY <1>1, <1>2, <1>3 DEF HistoryIsTold, GetAggregator
<1>4. CASE id \notin DOMAIN aggregators
  <2>1. id \in DOMAIN agg_store /\ id \notin destroyed /\ id \notin new
    BY <1>1, <1>4 DEF Alive
  <2>2. id[1] < sessions /\ agg_session_hash = sessions /\ id[1] \in Int /\ sessions \in Int
    BY <1>2, <2>1 DEF Running, AggregatorIds
  <2>3. \A value \in 0 .. Limit : outcomes[id][value] = value
    BY <1>2, <1>4, <2>1, <2>2 DEF HistoryIsTold, GivenOut
  <2>4. GetAggregator(id) = NoDelta
    BY <1>4 DEF GetAggregator
  <2> QED BY <1>1, <1>2, <2>1, <2>3, <2>4, NoDeltaIsSound DEF Tells
<1> QED BY <1>3, <1>4

-----------------------------------------------------------------------------
(* Aggregators: the steps *)

LEMMA AggregatorInitialization == AggregatorsInit => AggregatorInvariant
<1> SUFFICES ASSUME AggregatorsInit PROVE AggregatorInvariant
  OBVIOUS
<1> USE AggregatorV1Assumption DEF AggregatorsInit
<1>1. DOMAIN agg_store = {} /\ DOMAIN aggregators = {} /\ Alive = {}
  BY DEF Alive
<1>2. StoreIsSound
  BY <1>1 DEF StoreIsSound, StructsOf, Running
<1>3. TransactionIsSound
  BY <1>1 DEF TransactionIsSound, StructsOf, Running
<1>4. HistoryIsTold
  BY <1>1 DEF HistoryIsTold, NoOutcome
<1> QED BY <1>2, <1>3, <1>4 DEF AggregatorInvariant

LEMMA NewContextStep == AggregatorInvariant /\ NewAggregatorContext => AggregatorInvariant'
<1> SUFFICES ASSUME AggregatorInvariant, NewAggregatorContext PROVE AggregatorInvariant'
  OBVIOUS
<1> USE AggregatorV1Assumption DEF AggregatorInvariant, NewAggregatorContext
<1>1. /\ DOMAIN aggregators' = {} /\ new' = {} /\ destroyed' = {}
      /\ Alive' = DOMAIN agg_store /\ agg_store' = agg_store
  BY DEF Alive
<1>2. /\ sessions \in Nat /\ sessions' = sessions + 1 /\ agg_session_hash' = sessions'
      /\ sessions' \in 0 .. MaxSession
  BY DEF StoreIsSound
<1>3. \A id \in AggregatorIds : id[1] \in Int
  BY DEF AggregatorIds
<1>4. StoreIsSound'
  BY <1>1, <1>2, <1>3 DEF StoreIsSound, Running
<1>5. TransactionIsSound'
  BY <1>1, <1>2 DEF StoreIsSound, TransactionIsSound, Running
<1>6. HistoryIsTold'
  BY <1>1 DEF HistoryIsTold, NoOutcome
<1> QED BY <1>4, <1>5, <1>6

LEMMA NewAggregatorStep == AggregatorInvariant /\ NativeNewAggregator => AggregatorInvariant'
<1> SUFFICES ASSUME AggregatorInvariant, NativeNewAggregator PROVE AggregatorInvariant'
  OBVIOUS
<1> USE AggregatorV1Assumption DEF AggregatorInvariant, NativeNewAggregator
<1> DEFINE id == <<agg_session_hash, created>>
<1>1. /\ Running /\ agg_session_hash = sessions /\ sessions \in 1 .. MaxSession
      /\ created \in 0 .. MaxCreated - 1 /\ created' = created + 1
  BY DEF Running, StoreIsSound
<1>2. id \in AggregatorIds /\ Fresh = id /\ id[1] = sessions /\ id[2] = created
  BY <1>1 DEF AggregatorIds, Fresh, NumAggregators
<1>3. id \notin DOMAIN agg_store /\ id \notin new /\ id \notin DOMAIN aggregators
  BY <1>1, <1>2 DEF StoreIsSound, TransactionIsSound, GivenOut, Alive
<1>4. id \notin destroyed /\ ~GivenOut(id)
  BY <1>1, <1>2, <1>3 DEF TransactionIsSound, GivenOut
<1>5. /\ DOMAIN aggregators' = DOMAIN aggregators \cup {id} /\ aggregators'[id] = Data(0)
      /\ \A i \in DOMAIN aggregators : aggregators'[i] = aggregators[i]
  BY <1>2, <1>3 DEF Extended
<1>6. Data(0) \in SoundValues /\ Data(0).value = 0
  BY DataIsSound
<1>7. StoreIsSound'
  BY <1>1 DEF StoreIsSound, Running
<1>8. TransactionIsSound'
  <2>1. Alive' = Alive \cup {id}
    BY <1>2, <1>4 DEF Alive
  <2>2. structs' = StructsOf(Alive')
    BY <1>2, <2>1 DEF TransactionIsSound, StructsOf
  <2>3. DOMAIN aggregators' \subseteq Alive'
    BY <1>5, <2>1 DEF TransactionIsSound
  <2>4. new' \subseteq DOMAIN aggregators' \cap AggregatorIds
    BY <1>2, <1>5 DEF TransactionIsSound
  <2>5. ASSUME NEW i \in new' PROVE GivenOut(i)' /\ aggregators'[i] \in SoundValues
    <3>1. CASE i = id
      BY <3>1, <1>1, <1>2, <1>5, <1>6 DEF GivenOut
    <3>2. CASE i \in new
      <4>1. i \in AggregatorIds /\ GivenOut(i) /\ aggregators[i] \in SoundValues /\ i \in DOMAIN aggregators
        BY <3>2 DEF TransactionIsSound
      <4>2. i[2] \in Int
        BY <4>1 DEF AggregatorIds
      <4> QED BY <4>1, <4>2, <1>1, <1>5 DEF GivenOut
    <3> QED BY <3>1, <3>2, <1>2
  <2>6. destroyed' \subseteq DOMAIN agg_store' /\ destroyed' \cap DOMAIN aggregators' = {}
    BY <1>4, <1>5 DEF TransactionIsSound
  <2>7. Running'
    BY <1>1 DEF Running
  <2> QED BY <2>2, <2>3, <2>4, <2>5, <2>6, <2>7 DEF TransactionIsSound
<1>9. HistoryIsTold'
  <2>1. outcomes'[id][0] = 0 /\ outcomes' = outcomes
    BY <1>2, <1>3, <1>4 DEF HistoryIsTold
  <2>2. ASSUME NEW i \in DOMAIN aggregators' PROVE Tells(aggregators'[i], outcomes'[i], agg_store', i)
    <3>1. CASE i = id
      BY <3>1, <1>3, <1>5, <1>6, <2>1 DEF Tells
    <3>2. CASE i \in DOMAIN aggregators
      BY <3>2, <1>5, <2>1 DEF HistoryIsTold
    <3> QED BY <3>1, <3>2, <1>5
  <2>3. ASSUME NEW i \in AggregatorIds, i \notin DOMAIN aggregators' \cup destroyed', ~GivenOut(i)'
        PROVE  \A value \in 0 .. Limit : outcomes'[i][value] = value
    <3>1. i[2] \in Int
      BY DEF AggregatorIds
    <3>2. ~GivenOut(i)
      BY <3>1, <2>3, <1>1 DEF GivenOut
    <3> QED BY <3>2, <2>1, <2>3, <1>5 DEF HistoryIsTold
  <2> QED BY <2>1, <2>2, <2>3 DEF HistoryIsTold
<1> QED BY <1>7, <1>8, <1>9

\* What was destroyed was stored, and what was made is new.
LEMMA DestroyedAreGone ==
  ASSUME AggregatorInvariant, Running
  PROVE  destroyed \cap Alive = {}
<1> USE DEF AggregatorInvariant
<1>1. \A i \in destroyed : i \in DOMAIN agg_store /\ i[1] < sessions /\ i \in AggregatorIds
  BY DEF StoreIsSound, TransactionIsSound
<1>2. \A i \in new : i[1] = sessions
  BY DEF StoreIsSound, TransactionIsSound, GivenOut, Running
<1>3. sessions \in Int
  BY DEF StoreIsSound
<1> QED BY <1>1, <1>2, <1>3 DEF Alive

LEMMA MovesStep ==
  ASSUME AggregatorInvariant, Running, NEW s \in structs, NEW n \in Int, Moves(s[2], n)
  PROVE  AggregatorInvariant'
<1> USE AggregatorV1Assumption DEF AggregatorInvariant, Moves
<1> DEFINE id == s[2]
           agg == GetAggregator(id)
           told == [value \in 0 .. Limit |-> Checked(outcomes[id][value], n)]
<1>1. /\ id \in AggregatorIds /\ id \in Alive /\ Tells(agg, outcomes[id], agg_store, id)
      /\ id \in DOMAIN agg_store => agg_store[id] \in 0 .. Limit
      /\ id \in new => agg \in SoundValues
  BY StructsTell
<1>2. /\ Tells(Move(agg, n), told, agg_store, id)
      /\ agg \in SoundValues => Move(agg, n) \in SoundValues
  BY <1>1, MovesTell
<1>3. /\ DOMAIN aggregators' = DOMAIN aggregators \cup {id} /\ aggregators'[id] = Move(agg, n)
      /\ \A i \in DOMAIN aggregators : i # id => aggregators'[i] = aggregators[i]
  BY DEF Extended
<1>4. /\ outcomes' \in [AggregatorIds -> [0 .. Limit -> -1 .. Limit]]
      /\ outcomes'[id] = told /\ \A i \in AggregatorIds : i # id => outcomes'[i] = outcomes[i]
  <2>1. \A value \in 0 .. Limit : outcomes[id][value] \in -1 .. Limit
    BY <1>1 DEF HistoryIsTold
  <2>2. \A value \in 0 .. Limit : Checked(outcomes[id][value], n) \in -1 .. Limit
    BY <2>1 DEF Checked
  <2>3. told \in [0 .. Limit -> -1 .. Limit]
    BY <2>2
  <2>4. outcomes' = [outcomes EXCEPT ![id] = told]
    OBVIOUS
  <2> QED BY <1>1, <2>3, <2>4 DEF HistoryIsTold
<1>5. StoreIsSound'
  BY DEF StoreIsSound, Running
<1>6. destroyed \cap Alive = {}
  BY DestroyedAreGone
<1>7. TransactionIsSound'
  BY <1>1, <1>2, <1>3, <1>6 DEF TransactionIsSound, Alive, GivenOut, Running
<1>8. HistoryIsTold'
  <2>1. ASSUME NEW i \in DOMAIN aggregators' PROVE Tells(aggregators'[i], outcomes'[i], agg_store', i)
    <3>1. i \in AggregatorIds
      BY <1>1, <1>3 DEF StoreIsSound, TransactionIsSound, Alive
    <3> QED BY <1>2, <1>3, <1>4, <3>1 DEF HistoryIsTold
  <2>2. ASSUME NEW i \in AggregatorIds, i \notin DOMAIN aggregators' \cup destroyed', ~GivenOut(i)'
        PROVE  \A value \in 0 .. Limit : outcomes'[i][value] = value
    BY <2>2, <1>3, <1>4 DEF HistoryIsTold, GivenOut
  <2> QED BY <1>4, <2>1, <2>2 DEF HistoryIsTold
<1> QED BY <1>5, <1>7, <1>8

LEMMA AggregatorReadStep ==
  ASSUME AggregatorInvariant, Running, NEW s \in structs, NativeRead(s[2])
  PROVE  AggregatorInvariant'
<1> USE AggregatorV1Assumption DEF AggregatorInvariant, NativeRead
<1> DEFINE id == s[2]
           agg == GetAggregator(id)
<1>1. /\ id \in AggregatorIds /\ id \in Alive /\ Tells(agg, outcomes[id], agg_store, id)
      /\ id \in DOMAIN agg_store => agg_store[id] \in 0 .. Limit
  BY StructsTell
<1>2. /\ Tells(Materialized(agg, agg_store[id]), outcomes[id], agg_store, id)
      /\ Materialized(agg, agg_store[id]) \in SoundValues
  BY <1>1, ReadsTell
<1>3. /\ DOMAIN aggregators' = DOMAIN aggregators \cup {id}
      /\ aggregators'[id] = Materialized(agg, agg_store[id])
      /\ \A i \in DOMAIN aggregators : i # id => aggregators'[i] = aggregators[i]
  BY DEF Extended
<1>5. StoreIsSound'
  BY DEF StoreIsSound, Running
<1>6. destroyed \cap Alive = {}
  BY DestroyedAreGone
<1>7. TransactionIsSound'
  BY <1>1, <1>2, <1>3, <1>6 DEF TransactionIsSound, Alive, GivenOut, Running
<1>8. HistoryIsTold'
  BY <1>2, <1>3 DEF HistoryIsTold, GivenOut
<1> QED BY <1>5, <1>7, <1>8

LEMMA DestroyStep ==
  ASSUME AggregatorInvariant, Running, NEW s \in structs, NativeDestroy(s)
  PROVE  AggregatorInvariant'
<1> USE AggregatorV1Assumption DEF AggregatorInvariant, NativeDestroy
<1> DEFINE id == s[2]
<1>1. /\ id \in AggregatorIds /\ id \in Alive /\ s = <<id, id>> /\ destroyed \cap Alive = {}
  BY StructsTell, DestroyedAreGone
<1>2. /\ DOMAIN aggregators' = DOMAIN aggregators \ {id}
      /\ \A i \in DOMAIN aggregators' : aggregators'[i] = aggregators[i]
  OBVIOUS
<1>3. id \in new => GivenOut(id) /\ id \notin DOMAIN agg_store
  <2>1. id \in new => GivenOut(id)
    BY DEF TransactionIsSound
  <2>2. id \in DOMAIN agg_store => id[1] < sessions /\ id[1] \in Int /\ sessions \in Int /\ agg_session_hash = sessions
    BY DEF StoreIsSound, Running, AggregatorIds
  <2> QED BY <2>1, <2>2 DEF GivenOut
<1>4. StoreIsSound'
  BY DEF StoreIsSound, Running
<1>5. TransactionIsSound'
  <2>1. Alive' = Alive \ {id}
    BY <1>1, <1>3 DEF Alive
  <2>2. structs' = StructsOf(Alive')
    BY <1>1, <2>1 DEF TransactionIsSound, StructsOf
  <2>3. destroyed' \subseteq DOMAIN agg_store' /\ destroyed' \cap DOMAIN aggregators' = {}
    BY <1>1, <1>2 DEF TransactionIsSound, Alive
  <2>4. new' \subseteq DOMAIN aggregators' \cap AggregatorIds
    BY <1>2 DEF TransactionIsSound
  <2>5. \A i \in new' : GivenOut(i)' /\ aggregators'[i] \in SoundValues
    BY <1>2, <2>4 DEF TransactionIsSound, GivenOut
  <2> QED BY <1>2, <2>1, <2>2, <2>3, <2>4, <2>5 DEF TransactionIsSound, Running
<1>6. HistoryIsTold'
  BY <1>2, <1>3 DEF HistoryIsTold, GivenOut
<1> QED BY <1>4, <1>5, <1>6

\* What the change set makes of the aggregators: those destroyed are deleted, the others get what
\* they tell.
LEMMA ChangesTell ==
  ASSUME AggregatorInvariant, Running
  PROVE  /\ DOMAIN AggregatorChanges = DOMAIN aggregators \cup destroyed
         /\ \A id \in destroyed : AggregatorChanges[id] = [op |-> "Delete", agg |-> NoDelta]
         /\ \A id \in DOMAIN aggregators :
              \/ /\ aggregators[id] \in SoundValues
                 /\ AggregatorChanges[id] = [op |-> "Write", agg |-> aggregators[id]]
              \/ /\ aggregators[id] \in SoundDeltas /\ id \in DOMAIN agg_store
                 /\ AggregatorChanges[id] = [op |-> "Merge", agg |-> aggregators[id]]
         /\ Kept = Alive
<1> USE DEF AggregatorInvariant
<1>1. /\ DOMAIN AggregatorChanges = DOMAIN aggregators \cup destroyed
      /\ \A id \in destroyed : AggregatorChanges[id] = [op |-> "Delete", agg |-> NoDelta]
  BY DEF AggregatorChanges
<1>2. ASSUME NEW id \in DOMAIN aggregators
      PROVE  \/ /\ aggregators[id] \in SoundValues
                /\ AggregatorChanges[id] = [op |-> "Write", agg |-> aggregators[id]]
             \/ /\ aggregators[id] \in SoundDeltas /\ id \in DOMAIN agg_store
                /\ AggregatorChanges[id] = [op |-> "Merge", agg |-> aggregators[id]]
  <2>1. id \notin destroyed /\ id \in DOMAIN AggregatorChanges
    BY <1>1 DEF TransactionIsSound
  <2>2. Tells(aggregators[id], outcomes[id], agg_store, id)
    BY DEF HistoryIsTold
  <2>3. CASE aggregators[id] \in SoundValues
    <3>1. aggregators[id].state = "Data"
      BY <2>3 DEF SoundValues
    <3> QED BY <2>1, <2>3, <3>1 DEF AggregatorChanges
  <2>4. CASE aggregators[id] \in SoundDeltas /\ id \in DOMAIN agg_store
    <3>1. aggregators[id].state # "Data"
      BY <2>4 DEF SoundDeltas
    <3> QED BY <2>1, <2>4, <3>1 DEF AggregatorChanges
  <2> QED BY <2>2, <2>3, <2>4 DEF Tells
<1>3. {id \in DOMAIN AggregatorChanges : AggregatorChanges[id].op = "Delete"} = destroyed
  <2>1. \A id \in destroyed : AggregatorChanges[id].op = "Delete"
    BY <1>1
  <2>2. ASSUME NEW id \in DOMAIN aggregators PROVE AggregatorChanges[id].op # "Delete"
    <3>1. \/ AggregatorChanges[id] = [op |-> "Write", agg |-> aggregators[id]]
          \/ AggregatorChanges[id] = [op |-> "Merge", agg |-> aggregators[id]]
      BY <1>2
    <3> QED BY <3>1
  <2> QED BY <1>1, <2>1, <2>2
<1>4. Kept = Alive
  BY <1>1, <1>3 DEF Kept, TransactionIsSound, Alive
<1> QED BY <1>1, <1>2, <1>4

LEMMA ChangeSetStep == AggregatorInvariant /\ IntoAggregatorChangeSet => AggregatorInvariant'
<1> SUFFICES ASSUME AggregatorInvariant, IntoAggregatorChangeSet PROVE AggregatorInvariant'
  OBVIOUS
<1> USE AggregatorV1Assumption DEF AggregatorInvariant
<1> DEFINE change(id) == AggregatorChanges[id]
           found(id) == IF id \in DOMAIN agg_store THEN agg_store[id] ELSE 0
           result(id) == IF id \in DOMAIN AggregatorChanges THEN Outcome(change(id), found(id)) ELSE agg_store[id]
<1>1. /\ Running /\ agg_store' = [id \in Kept |-> result(id)]
      /\ stored_structs' = structs /\ structs' = structs
      /\ agg_session_hash' = 0 /\ aggregators' = << >> /\ created' = 0 /\ new' = {} /\ destroyed' = {}
      /\ moves' = 0 /\ outcomes' = NoOutcome /\ sessions' = sessions
      /\ \A id \in DOMAIN AggregatorChanges : change(id).op = "Merge" => Outcome(change(id), agg_store[id]) # -1
  BY DEF IntoAggregatorChangeSet, Dropped, Running
<1>2. /\ DOMAIN AggregatorChanges = DOMAIN aggregators \cup destroyed
      /\ \A id \in DOMAIN aggregators :
           \/ /\ aggregators[id] \in SoundValues
              /\ change(id) = [op |-> "Write", agg |-> aggregators[id]]
           \/ /\ aggregators[id] \in SoundDeltas /\ id \in DOMAIN agg_store
              /\ change(id) = [op |-> "Merge", agg |-> aggregators[id]]
      /\ Kept = Alive /\ destroyed \cap Alive = {}
  BY <1>1, ChangesTell, DestroyedAreGone
<1>3. Alive \subseteq AggregatorIds /\ \A id \in Alive : id[1] <= sessions
  <2>1. sessions \in Int /\ agg_session_hash = sessions /\ \A id \in AggregatorIds : id[1] \in Int
    BY <1>1 DEF StoreIsSound, Running, AggregatorIds
  <2> QED BY <2>1 DEF StoreIsSound, TransactionIsSound, Alive, GivenOut
<1>4. ASSUME NEW id \in Alive PROVE result(id) \in 0 .. Limit
  <2>1. CASE id \in DOMAIN aggregators /\ change(id) = [op |-> "Write", agg |-> aggregators[id]] /\ aggregators[id] \in SoundValues
    BY <1>2, <2>1 DEF Outcome, SoundValues
  <2>2. CASE /\ id \in DOMAIN aggregators /\ change(id) = [op |-> "Merge", agg |-> aggregators[id]]
             /\ aggregators[id] \in SoundDeltas /\ id \in DOMAIN agg_store
    <3> DEFINE agg == aggregators[id]
    <3>1. agg_store[id] \in 0 .. Limit
      BY <2>2 DEF StoreIsSound
    <3>2. Outcome(change(id), agg_store[id]) = Applied(agg, agg_store[id])
      BY <2>2 DEF Outcome, Applied
    <3>3. result(id) = Applied(agg, agg_store[id]) /\ Applied(agg, agg_store[id]) # -1
      BY <1>1, <1>2, <2>2, <3>2
    <3>4. Applies(agg, agg_store[id]) /\ Applied(agg, agg_store[id]) = agg_store[id] + agg.value
      BY <3>3 DEF Applied
    <3>5. agg_store[id] + agg.value \in 0 .. Limit
      BY <2>2, <3>1, <3>4 DEF Applies, SoundDeltas, AggregatorStates
    <3> QED BY <3>3, <3>4, <3>5
  <2>3. CASE id \notin DOMAIN aggregators
    <3>1. id \in DOMAIN agg_store /\ id \notin destroyed
      BY <1>2, <2>3 DEF Alive, TransactionIsSound
    <3> QED BY <1>2, <2>3, <3>1 DEF StoreIsSound
  <2> QED BY <1>2, <2>1, <2>2, <2>3
<1>5. DOMAIN agg_store' = Alive /\ \A id \in Alive : agg_store'[id] \in 0 .. Limit
  <2> HIDE DEF result
  <2> QED BY <1>1, <1>2, <1>4
<1>6. DOMAIN aggregators' = {} /\ Alive' = Alive
  BY <1>1, <1>5 DEF Alive
<1>7. StoreIsSound'
  BY <1>1, <1>3, <1>5 DEF StoreIsSound, TransactionIsSound, Running
<1>8. TransactionIsSound'
  BY <1>1, <1>6 DEF TransactionIsSound, Running
<1>9. HistoryIsTold'
  BY <1>1, <1>6 DEF HistoryIsTold, NoOutcome
<1> QED BY <1>7, <1>8, <1>9

LEMMA AbortAggregatorsStep == AggregatorInvariant /\ AbortAggregators => AggregatorInvariant'
<1> SUFFICES ASSUME AggregatorInvariant, AbortAggregators PROVE AggregatorInvariant'
  OBVIOUS
<1> USE AggregatorV1Assumption DEF AggregatorInvariant, AbortAggregators, Dropped
<1>1. DOMAIN aggregators' = {} /\ Alive' = DOMAIN agg_store
  BY DEF Alive
<1>2. StoreIsSound'
  BY DEF StoreIsSound, Running
<1>3. TransactionIsSound'
  BY <1>1 DEF TransactionIsSound, StoreIsSound, Running
<1>4. HistoryIsTold'
  BY <1>1 DEF HistoryIsTold, NoOutcome
<1> QED BY <1>2, <1>3, <1>4

THEOREM AggregatorInvariance == AggregatorsSpec => []AggregatorInvariant
<1>1. AggregatorInvariant /\ [AggregatorsNext]_aggregator_vars => AggregatorInvariant'
  <2> SUFFICES ASSUME AggregatorInvariant, [AggregatorsNext]_aggregator_vars PROVE AggregatorInvariant'
    OBVIOUS
  <2>1. CASE NewAggregatorContext
    BY <2>1, NewContextStep
  <2>2. CASE NativeNewAggregator
    BY <2>2, NewAggregatorStep
  <2>3. CASE IntoAggregatorChangeSet
    BY <2>3, ChangeSetStep
  <2>4. CASE AbortAggregators
    BY <2>4, AbortAggregatorsStep
  <2>5. ASSUME Running, NEW s \in structs, NativeRead(s[2]) PROVE AggregatorInvariant'
    BY <2>5, AggregatorReadStep
  <2>6. ASSUME Running, NEW s \in structs, NativeDestroy(s) PROVE AggregatorInvariant'
    BY <2>6, DestroyStep
  <2>7. ASSUME Running, NEW s \in structs, NEW n \in Amounts, NativeAdd(s[2], n) \/ NativeSub(s[2], n)
        PROVE  AggregatorInvariant'
    <3>1. n \in Int /\ -n \in Int
      BY AggregatorV1Assumption
    <3>2. CASE Moves(s[2], n)
      BY <2>7, <3>1, <3>2, MovesStep
    <3>3. CASE Moves(s[2], -n)
      BY <2>7, <3>1, <3>3, MovesStep
    <3> QED BY <2>7, <3>2, <3>3 DEF NativeAdd, NativeSub
  <2>8. CASE UNCHANGED aggregator_vars
    BY <2>8 DEF aggregator_vars, agg_txn, AggregatorInvariant, StoreIsSound, TransactionIsSound, HistoryIsTold,
                Alive, GivenOut, Running
  <2> QED BY <2>1, <2>2, <2>3, <2>4, <2>5, <2>6, <2>7, <2>8 DEF AggregatorsNext
<1> QED BY <1>1, AggregatorInitialization, PTL DEF AggregatorsSpec

-----------------------------------------------------------------------------
(* Aggregators: what the invariant says *)

LEMMA AggregatorsAreSound == AggregatorInvariant => AggregatorsApplyTheirCalls
<1> SUFFICES ASSUME AggregatorInvariant PROVE AggregatorsApplyTheirCalls
  OBVIOUS
<1> USE AggregatorV1Assumption DEF AggregatorInvariant
<1>1. Alive \subseteq AggregatorIds
  BY DEF StoreIsSound, TransactionIsSound, Alive
<1>2. AggregatorsTypeOK
  <2>1. \A id \in DOMAIN aggregators : aggregators[id] \in AggregatorStates
    BY DEF HistoryIsTold, Tells, SoundValues, SoundDeltas
  <2>2. structs \subseteq AggregatorIds \X AggregatorIds /\ stored_structs \subseteq AggregatorIds \X AggregatorIds
    BY <1>1 DEF StoreIsSound, TransactionIsSound, StructsOf
  <2>3. /\ DOMAIN agg_store \subseteq AggregatorIds /\ \A id \in DOMAIN agg_store : agg_store[id] \in 0 .. Limit
        /\ sessions \in 0 .. MaxSession /\ agg_session_hash \in 0 .. sessions
        /\ created \in 0 .. MaxCreated /\ moves \in 0 .. MaxMoves
    BY DEF StoreIsSound
  <2>4. /\ DOMAIN aggregators \subseteq AggregatorIds
        /\ new \subseteq AggregatorIds /\ destroyed \subseteq AggregatorIds
    BY <1>1, <2>3 DEF TransactionIsSound
  <2>5. outcomes \in [AggregatorIds -> [0 .. Limit -> -1 .. Limit]]
    BY DEF HistoryIsTold
  <2> QED BY <2>1, <2>2, <2>3, <2>4, <2>5 DEF AggregatorsTypeOK
<1>3. IdsAreUnique
  BY DEF TransactionIsSound, StructsOf, IdsAreUnique
<1>4. StoreIsReachable
  <2>1. \A s \in stored_structs : \E id \in DOMAIN agg_store : s = <<id, id>>
    BY DEF StoreIsSound, StructsOf
  <2>2. \A id \in DOMAIN agg_store : <<id, id>> \in stored_structs
    BY DEF StoreIsSound, StructsOf
  <2>3. {s[2] : s \in stored_structs} \subseteq DOMAIN agg_store
    BY <2>1
  <2>4. DOMAIN agg_store \subseteq {s[2] : s \in stored_structs}
    <3>1. SUFFICES ASSUME NEW id \in DOMAIN agg_store PROVE id \in {s[2] : s \in stored_structs}
      OBVIOUS
    <3>2. <<id, id>> \in stored_structs /\ <<id, id>>[2] = id
      BY <2>2
    <3> QED BY <3>2
  <2> QED BY <2>3, <2>4 DEF StoreIsReachable
<1>5. ASSUME Running, NEW id \in DOMAIN AggregatorChanges
      PROVE  /\ AggregatorChanges[id].op = "Merge" =>
                  /\ id \in DOMAIN agg_store
                  /\ \A value \in 0 .. Limit : Outcome(AggregatorChanges[id], value) = outcomes[id][value]
             /\ AggregatorChanges[id].op = "Write" =>
                  AggregatorChanges[id].agg.value = outcomes[id][IF id \in DOMAIN agg_store THEN agg_store[id] ELSE 0]
             /\ AggregatorChanges[id].op = "Delete" => id \in DOMAIN agg_store
  <2>1. CASE id \in destroyed
    <3>1. AggregatorChanges[id] = [op |-> "Delete", agg |-> NoDelta] /\ id \in DOMAIN agg_store
      BY <1>5, <2>1, ChangesTell DEF TransactionIsSound
    <3> QED BY <3>1
  <2>2. CASE id \in DOMAIN aggregators
    <3>1. Tells(aggregators[id], outcomes[id], agg_store, id)
      BY <2>2 DEF HistoryIsTold
    <3>2. CASE aggregators[id] \in SoundValues /\ AggregatorChanges[id] = [op |-> "Write", agg |-> aggregators[id]]
      BY <3>1, <3>2 DEF Tells, SoundValues, SoundDeltas
    <3>3. CASE aggregators[id] \in SoundDeltas /\ AggregatorChanges[id] = [op |-> "Merge", agg |-> aggregators[id]]
      <4>1. aggregators[id] \notin SoundValues
        BY <3>3 DEF SoundValues, SoundDeltas
      <4>2. \A value \in 0 .. Limit : Outcome(AggregatorChanges[id], value) = Applied(aggregators[id], value)
        BY <3>3 DEF Outcome, Applied
      <4> QED BY <3>1, <3>3, <4>1, <4>2 DEF Tells
    <3> QED BY <1>5, <2>2, <3>2, <3>3, ChangesTell
  <2> QED BY <1>5, <2>1, <2>2, ChangesTell
<1>6. EffectIsThatOfTheCalls
  BY <1>5 DEF EffectIsThatOfTheCalls
<1>7. WritesAreSerial
  BY <1>5 DEF WritesAreSerial
<1>8. ChangesFitStorage
  BY <1>5 DEF ChangesFitStorage
<1> QED BY <1>2, <1>3, <1>4, <1>6, <1>7, <1>8 DEF AggregatorsApplyTheirCalls

\* The change set of a transaction makes of every value its aggregators may have in storage by then
\* what the calls made one by one would have: merging a delta by its history loses nothing.
THEOREM AggregatorsCorrectness == AggregatorsSpec => []AggregatorsApplyTheirCalls
BY AggregatorInvariance, AggregatorsAreSound, PTL

-----------------------------------------------------------------------------
(* Delayed fields: the history of the aggregator *)

Histories ==
  [top : 0 .. MaxValue, bottom : -MaxValue .. 0, overflow : Int \cup {NoNumber},
   underflow : Int \cup {NoNumber}, read : BOOLEAN]

\* A history is one of the value that was shown.
HistoryOK(h) == h \in Histories /\ Valid(h, shown)

\* A field that depends on the aggregator has a delta the history allows for.
Covered(f, h) == f.form = "Delta" => f.value \in h.bottom .. h.top

\* What becomes of a value is found out exactly: a committed value for which the new history is valid was
\* valid before, and decides the call as the value shown did; and the other way round.
LEMMA RecordedIsExact ==
  ASSUME base \in 0 .. MaxValue, shown \in 0 .. MaxValue, HistoryOK(history), MaxValue \in Nat,
         NEW f, f.form \in {"Value", "Delta"}, f.value \in Int, Covered(f, history),
         f.form = "Delta" => f.max = MaxValue, NEW n \in Int
  PROVE  LET h == Recorded(f, n)
             bounded == base + f.value + n \in 0 .. MaxValue
         IN  /\ HistoryOK(h) /\ h.top >= history.top /\ h.bottom <= history.bottom
             /\ f.form = "Delta" /\ Fits(f, n) => f.value + n \in h.bottom .. h.top
             /\ h.read = history.read
             /\ Valid(h, base) => Valid(history, base)
             /\ f.form = "Delta" /\ Valid(h, base) => (Fits(f, n) <=> bounded)
             /\ f.form = "Delta" /\ Valid(history, base) /\ (Fits(f, n) <=> bounded) => Valid(h, base)
             /\ f.form = "Value" => h = history
<1> DEFINE h == Recorded(f, n)
           d == f.value + n
<1>1. CASE f.form = "Value"
  BY <1>1 DEF Recorded, HistoryOK, Histories
<1>2. CASE f.form = "Delta"
  <2> DEFINE fits == shown + d \in 0 .. MaxValue
  <2>1. Fits(f, n) <=> fits
    BY <1>2 DEF Fits, Known
  <2>2. /\ f.value \in Int /\ f.value <= history.top /\ f.value >= history.bottom
        /\ history.top \in 0 .. MaxValue /\ history.bottom \in -MaxValue .. 0
        /\ shown + history.top <= MaxValue /\ shown + history.bottom >= 0
        /\ d \in Int
    BY <1>2 DEF Covered, HistoryOK, Histories, Valid
  <2>3. CASE fits
    <3> DEFINE t == Larger(history.top, d)
               b == Smaller(history.bottom, d)
    <3>1. h = [history EXCEPT !.top = t, !.bottom = b]
      BY <1>2, <2>1, <2>3 DEF Recorded
    <3>2. /\ t \in 0 .. MaxValue /\ b \in -MaxValue .. 0
          /\ t >= history.top /\ t >= d /\ (t = history.top \/ t = d)
          /\ b <= history.bottom /\ b <= d /\ (b = history.bottom \/ b = d)
      BY <2>2, <2>3 DEF Larger, Smaller
    <3> HIDE DEF t, b
    <3>3. h \in Histories
      BY <3>1, <3>2 DEF HistoryOK, Histories
    <3>4. /\ h.top = t /\ h.bottom = b /\ h.overflow = history.overflow /\ h.underflow = history.underflow
          /\ h.read = history.read
      BY <3>1 DEF HistoryOK, Histories
    <3> HIDE DEF h
    <3>5. HistoryOK(h)
      BY <2>2, <2>3, <3>2, <3>3, <3>4 DEF HistoryOK, Valid
    <3>6. Valid(h, base) => Valid(history, base) /\ base + d \in 0 .. MaxValue
      BY <2>2, <3>2, <3>4 DEF Valid
    <3>7. Valid(history, base) /\ base + d \in 0 .. MaxValue => Valid(h, base)
      BY <2>2, <3>2, <3>4 DEF Valid
    <3>8. base + f.value + n = base + d
      OBVIOUS
    <3> QED BY <1>2, <2>1, <2>2, <2>3, <3>2, <3>4, <3>5, <3>6, <3>7, <3>8 DEF h
  <2>4. CASE ~fits
    <3>1. n # 0
      BY <2>2, <2>4
    <3>2. CASE n > 0
      <4> DEFINE o == IF history.overflow = NoNumber THEN d ELSE Smaller(history.overflow, d)
      <4>1. h = [history EXCEPT !.overflow = o]
        BY <1>2, <2>1, <2>4, <3>2 DEF Recorded
      <4>2. /\ o \in Int /\ o # NoNumber /\ o <= d
            /\ history.overflow # NoNumber => history.overflow \in Int /\ o <= history.overflow
            /\ o = d \/ (o = history.overflow /\ history.overflow # NoNumber)
        BY <2>2, DelayedFieldsAssumption DEF Smaller, HistoryOK, Histories
      <4> HIDE DEF o
      <4>3. h \in Histories
        BY <4>1, <4>2 DEF HistoryOK, Histories
      <4>4. /\ h.top = history.top /\ h.bottom = history.bottom /\ h.overflow = o
            /\ h.underflow = history.underflow /\ h.read = history.read
        BY <4>1 DEF HistoryOK, Histories
      <4> HIDE DEF h
      <4>5. shown + d > MaxValue
        BY <2>2, <2>4, <3>2
      <4>6. HistoryOK(h)
        BY <2>2, <4>2, <4>3, <4>4, <4>5 DEF HistoryOK, Valid
      <4>7. Valid(h, base) => Valid(history, base) /\ base + d > MaxValue
        BY <2>2, <4>2, <4>4 DEF Valid
      <4>8. Valid(history, base) /\ base + d \notin 0 .. MaxValue => Valid(h, base)
        <5> SUFFICES ASSUME Valid(history, base), base + d \notin 0 .. MaxValue PROVE Valid(h, base)
          OBVIOUS
        <5>1. base + history.bottom >= 0
          BY DEF Valid
        <5>2. base + d > MaxValue
          BY <2>2, <3>2, <5>1
        <5> QED BY <2>2, <4>2, <4>4, <5>2 DEF Valid
      <4>9. base + f.value + n = base + d
        OBVIOUS
      <4> QED BY <1>2, <2>1, <2>2, <2>4, <4>4, <4>6, <4>7, <4>8, <4>9 DEF h
    <3>3. CASE n < 0
      <4> DEFINE o == IF history.underflow = NoNumber THEN d ELSE Larger(history.underflow, d)
      <4>1. h = [history EXCEPT !.underflow = o]
        BY <1>2, <2>1, <2>4, <3>3 DEF Recorded
      <4>2. /\ o \in Int /\ o # NoNumber /\ o >= d
            /\ history.underflow # NoNumber => history.underflow \in Int /\ o >= history.underflow
            /\ o = d \/ (o = history.underflow /\ history.underflow # NoNumber)
        BY <2>2, DelayedFieldsAssumption DEF Larger, HistoryOK, Histories
      <4> HIDE DEF o
      <4>3. h \in Histories
        BY <4>1, <4>2 DEF HistoryOK, Histories
      <4>4. /\ h.top = history.top /\ h.bottom = history.bottom /\ h.underflow = o
            /\ h.overflow = history.overflow /\ h.read = history.read
        BY <4>1 DEF HistoryOK, Histories
      <4> HIDE DEF h
      <4>5. shown + d < 0
        BY <2>2, <2>4, <3>3
      <4>6. HistoryOK(h)
        BY <2>2, <4>2, <4>3, <4>4, <4>5 DEF HistoryOK, Valid
      <4>7. Valid(h, base) => Valid(history, base) /\ base + d < 0
        BY <2>2, <4>2, <4>4 DEF Valid
      <4>8. Valid(history, base) /\ base + d \notin 0 .. MaxValue => Valid(h, base)
        <5> SUFFICES ASSUME Valid(history, base), base + d \notin 0 .. MaxValue PROVE Valid(h, base)
          OBVIOUS
        <5>1. base + history.top <= MaxValue
          BY DEF Valid
        <5>2. base + d < 0
          BY <2>2, <3>3, <5>1
        <5> QED BY <2>2, <4>2, <4>4, <5>2 DEF Valid
      <4>9. base + f.value + n = base + d
        OBVIOUS
      <4> QED BY <1>2, <2>1, <2>2, <2>4, <4>4, <4>6, <4>7, <4>8, <4>9 DEF h
    <3> QED BY <3>1, <3>2, <3>3
  <2> QED BY <2>3, <2>4
<1> QED BY <1>1, <1>2

-----------------------------------------------------------------------------
(* Delayed fields: the two executions *)

\* f is the field, with the history h, and g the same field by value.
Twins(f, g, h) ==
  /\ f \in Field(U128Max) /\ g \in Field(U128Max)
  /\ g.kind = f.kind /\ g.form = "Value"
  /\ Covered(f, h)
  /\ (f.kind = "Derived" /\ f.form = "Value") \/ f.value \in Int
  /\ f.kind = "Aggregator" =>
       /\ g.max = f.max /\ g.value \in 0 .. g.max
       /\ f.form = "Delta" => f.max = MaxValue
       /\ Known(f, shown) \in 0 .. f.max
  /\ f.kind = "Derived" => g.prefix = f.prefix /\ g.suffix = f.suffix

FieldsInv ==
  /\ base \in 0 .. MaxValue /\ shown \in 0 .. MaxValue /\ HistoryOK(history)
  /\ agree \in BOOLEAN /\ count \in 0 .. MaxFieldCalls
  /\ delayed \in Seq(Field(U128Max)) /\ direct \in Seq(Field(U128Max)) /\ Len(direct) = Len(delayed)
  /\ \A i \in 1 .. Len(delayed) : Twins(delayed[i], direct[i], history)
  /\ ValidatedRunsAgree /\ CommittedFieldsAgree /\ NoNeedlessReexecution

LEMMA FieldNumbers ==
  /\ U64Max \in Nat /\ U128Max \in Nat /\ U64Max <= U128Max /\ MaxValue \in Nat /\ MaxValue <= U64Max
  /\ Inputs \subseteq 0 .. U128Max /\ MaxLength \in Nat
  BY DelayedFieldsAssumption

\* More history covers what less did.
LEMMA CoveredStays ==
  ASSUME NEW f, NEW g, NEW h \in Histories, NEW k \in Histories, Twins(f, g, h), k.top >= h.top, k.bottom <= h.bottom
  PROVE  Twins(f, g, k)
<1>1. Covered(f, k)
  <2> SUFFICES ASSUME f.form = "Delta" PROVE f.value \in k.bottom .. k.top
    BY DEF Covered
  <2>1. f.value \in h.bottom .. h.top /\ h.bottom \in Int /\ h.top \in Int /\ k.bottom \in Int /\ k.top \in Int
    BY FieldNumbers DEF Twins, Covered, Histories
  <2> QED BY <2>1
<1> QED BY <1>1 DEF Twins

\* A new field of the two executions.
LEMMA CreateStep ==
  ASSUME FieldsInv, UNCHANGED <<base, shown>>, NEW f, NEW g, Create(f, g), Twins(f, g, history),
         Valid(history, base) => Known(f, base) = g.value
  PROVE  FieldsInv'
<1>1. delayed' = Append(delayed, f) /\ direct' = Append(direct, g) /\ UNCHANGED <<base, shown, history, agree, count>>
  BY DEF Create
<1>2. f \in Field(U128Max) /\ g \in Field(U128Max) /\ g.kind = f.kind
  BY DEF Twins
<1> DEFINE F == Field(U128Max)
<1>3. delayed \in Seq(F) /\ direct \in Seq(F) /\ Len(direct) = Len(delayed) /\ f \in F /\ g \in F
  BY <1>2 DEF FieldsInv
<1> HIDE DEF F
<1>4. delayed' \in Seq(F) /\ direct' \in Seq(F) /\ Len(direct') = Len(delayed') /\ Len(delayed') = Len(delayed) + 1
  BY <1>1, <1>3
<1>5. \A i \in 1 .. Len(delayed') :
        IF i = Len(delayed) + 1 THEN delayed'[i] = f /\ direct'[i] = g
        ELSE i \in 1 .. Len(delayed) /\ delayed'[i] = delayed[i] /\ direct'[i] = direct[i]
  BY <1>1, <1>3
<1>6. \A i \in 1 .. Len(delayed') : Twins(delayed'[i], direct'[i], history)
  BY <1>5 DEF FieldsInv
<1>7. ASSUME NEW i \in 1 .. Len(delayed')
      PROVE  Twins(delayed[i], direct[i], history)'
  <2>1. Twins(delayed'[i], direct'[i], history')
    BY <1>1, <1>6
  <2> QED BY <2>1 DEF Twins, Covered
<1>8. HistoryOK(history)' /\ ValidatedRunsAgree' /\ NoNeedlessReexecution'
  BY <1>1 DEF FieldsInv, HistoryOK, Valid, ValidatedRunsAgree, NoNeedlessReexecution
<1>9. CommittedFieldsAgree'
  <2>1. Valid(history, base)' <=> Valid(history, base)
    BY <1>1 DEF Valid
  <2>2. ASSUME Valid(history, base), NEW i \in 1 .. Len(delayed')
        PROVE  Known(delayed'[i], base) = direct'[i].value /\ delayed'[i].kind = direct'[i].kind
    <3>1. \A j \in 1 .. Len(delayed) : Known(delayed[j], base) = direct[j].value /\ delayed[j].kind = direct[j].kind
      BY <1>3, <2>2 DEF FieldsInv, CommittedFieldsAgree
    <3> QED BY <1>2, <1>5, <2>2, <3>1
  <2>3. DOMAIN delayed' = 1 .. Len(delayed')
    BY <1>4
  <2> QED BY <1>1, <2>1, <2>2, <2>3 DEF CommittedFieldsAgree, Known
<1> QED BY <1>1, <1>4, <1>7, <1>8, <1>9 DEF FieldsInv, F

\* An aggregator with another value.
LEMMA AggregatorWith ==
  ASSUME NEW f \in Field(U128Max), f.kind = "Aggregator"
  PROVE  /\ f.max \in 0 .. U128Max /\ f.form \in {"Value", "Delta"} /\ f.value \in Int
         /\ \A v \in -U128Max .. U128Max :
              LET k == [f EXCEPT !.value = v]
              IN  /\ k \in Field(U128Max) /\ k.kind = "Aggregator" /\ k.max = f.max /\ k.form = f.form
                  /\ k.value = v
<1>1. f \in [kind : {"Aggregator"}, max : {MaxValue, U64Max, U128Max} \cup Inputs,
             form : {"Value", "Delta"}, value : -U128Max .. U128Max]
  BY DEF Field
<1>2. f.max \in {MaxValue, U64Max, U128Max} \cup Inputs /\ f.form \in {"Value", "Delta"}
      /\ f.value \in -U128Max .. U128Max
  BY <1>1
<1>3. f.max \in 0 .. U128Max
  <2>1. MaxValue \in 0 .. U128Max /\ U64Max \in 0 .. U128Max /\ U128Max \in 0 .. U128Max
    BY FieldNumbers
  <2> QED BY <1>2, <2>1, FieldNumbers
<1>4. f.value \in Int
  BY <1>2, FieldNumbers
<1> QED BY <1>1, <1>2, <1>3, <1>4 DEF Field

\* A field whose value is moved, and allowed for, is still the twin of the field by value, moved or not.
LEMMA MovedTwins ==
  ASSUME shown \in 0 .. MaxValue, NEW f, NEW g, NEW h, NEW k, HistoryOK(h), Twins(f, g, h), f.kind = "Aggregator",
         NEW n \in Int,
         k = f \/ (/\ k = [f EXCEPT !.value = f.value + n] /\ Fits(f, n)
                   /\ f.form = "Delta" => f.value + n \in h.bottom .. h.top)
  PROVE  /\ Twins(k, g, h)
         /\ g.value + n \in 0 .. g.max => Twins(k, [g EXCEPT !.value = g.value + n], h)
<1>1. f \in Field(U128Max) /\ g \in Field(U128Max) /\ g.kind = "Aggregator" /\ g.max = f.max /\ g.form = "Value"
  BY DEF Twins
<1>2. f.max \in 0 .. U128Max /\ f.value \in Int /\ f.form \in {"Value", "Delta"} /\ g.value \in Int
  BY <1>1, AggregatorWith
<1>3. Twins(k, g, h)
  <2>1. CASE k = f
    BY <2>1
  <2>2. CASE k # f
    <3>1. /\ k = [f EXCEPT !.value = f.value + n] /\ Fits(f, n)
          /\ f.form = "Delta" => f.value + n \in h.bottom .. h.top
      BY <2>2
    <3>2. f.value + n \in -U128Max .. U128Max
      <4>1. CASE f.form = "Delta"
        BY <1>2, <3>1, <4>1, FieldNumbers DEF HistoryOK, Histories
      <4>2. CASE f.form = "Value"
        BY <1>2, <3>1, <4>2, FieldNumbers DEF Fits, Known
      <4> QED BY <1>2, <4>1, <4>2
    <3>3. /\ k \in Field(U128Max) /\ k.kind = "Aggregator" /\ k.max = f.max /\ k.form = f.form
          /\ k.value = f.value + n
      BY <1>1, <3>1, <3>2, AggregatorWith
    <3>4. Known(k, shown) \in 0 .. k.max
      BY <1>2, <3>1, <3>3, FieldNumbers DEF Fits, Known
    <3> QED BY <1>1, <1>2, <3>1, <3>2, <3>3, <3>4 DEF Twins, Covered
  <2> QED BY <2>1, <2>2
<1>4. ASSUME g.value + n \in 0 .. g.max
      PROVE  Twins(k, [g EXCEPT !.value = g.value + n], h)
  <2>1. g.value + n \in -U128Max .. U128Max
    BY <1>1, <1>2, <1>4, FieldNumbers
  <2> DEFINE m == [g EXCEPT !.value = g.value + n]
  <2>2. /\ m \in Field(U128Max) /\ m.kind = "Aggregator" /\ m.max = g.max /\ m.form = g.form
        /\ m.value = g.value + n
    BY <1>1, <2>1, AggregatorWith
  <2> HIDE DEF m
  <2>3. Twins(k, m, h)
    BY <1>1, <1>3, <1>4, <2>2 DEF Twins
  <2> QED BY <2>3 DEF m
<1> QED BY <1>3, <1>4

\* An addition, a subtraction, or a question about one, in both executions.
LEMMA MathStep ==
  ASSUME FieldsInv, UNCHANGED <<base, shown>>, NEW i \in Ids("Aggregator"), NEW n \in Int, NEW apply \in BOOLEAN,
         Called, TryAddOrCheckDelta(i, n, apply), Returns(Fits(delayed[i], n), BoundedMath(i, n)),
         direct' = IF apply /\ BoundedMath(i, n) THEN [direct EXCEPT ![i].value = direct[i].value + n] ELSE direct
  PROVE  FieldsInv'
<1> DEFINE F == Field(U128Max)
           f == delayed[i]
           g == direct[i]
           h == Recorded(f, n)
           fits == Fits(f, n)
           bounded == BoundedMath(i, n)
           k == IF apply /\ fits THEN [f EXCEPT !.value = f.value + n] ELSE f
           m == IF apply /\ bounded THEN [g EXCEPT !.value = g.value + n] ELSE g
<1>1. /\ delayed \in Seq(F) /\ direct \in Seq(F) /\ Len(direct) = Len(delayed)
      /\ i \in 1 .. Len(delayed) /\ f.kind = "Aggregator"
  BY DEF FieldsInv, Ids
<1>2. Twins(f, g, history) /\ base \in 0 .. MaxValue /\ shown \in 0 .. MaxValue /\ HistoryOK(history)
  BY <1>1 DEF FieldsInv
<1>3. /\ f \in F /\ g \in F /\ g.kind = "Aggregator" /\ g.max = f.max /\ g.form = "Value"
      /\ Covered(f, history)
      /\ f.form = "Delta" => f.max = MaxValue
  BY <1>1, <1>2 DEF Twins
<1>4. f.max \in 0 .. U128Max /\ f.value \in Int /\ f.form \in {"Value", "Delta"} /\ g.value \in Int
  BY <1>1, <1>3, AggregatorWith
<1>5. bounded <=> g.value + n \in 0 .. g.max
  BY DEF BoundedMath
<1>6. history' = h /\ agree' = (agree /\ fits = bounded)
      /\ UNCHANGED <<base, shown>> /\ count' \in 0 .. MaxFieldCalls
  <2> HIDE DEF k, m
  <2>1. history' = h
    BY DEF TryAddOrCheckDelta
  <2> HIDE DEF h, fits, bounded
  <2>2. agree' = (agree /\ fits = bounded)
    BY DEF Returns, fits, bounded
  <2>3. count' \in 0 .. MaxFieldCalls
    BY DelayedFieldsAssumption DEF Called, FieldsInv
  <2> QED BY <2>1, <2>2, <2>3
<1>7. /\ delayed' = IF apply /\ fits THEN [delayed EXCEPT ![i] = k] ELSE delayed
      /\ direct' = IF apply /\ bounded THEN [direct EXCEPT ![i] = m] ELSE direct
  BY <1>1 DEF TryAddOrCheckDelta
<1>8. LET rebounded == base + f.value + n \in 0 .. MaxValue
      IN  /\ HistoryOK(h) /\ h.top >= history.top /\ h.bottom <= history.bottom
          /\ f.form = "Delta" /\ fits => f.value + n \in h.bottom .. h.top
          /\ h.read = history.read
          /\ Valid(h, base) => Valid(history, base)
          /\ f.form = "Delta" /\ Valid(h, base) => (fits <=> rebounded)
          /\ f.form = "Delta" /\ Valid(history, base) /\ (fits <=> rebounded) => Valid(h, base)
          /\ f.form = "Value" => h = history
  BY <1>2, <1>3, <1>4, FieldNumbers, RecordedIsExact
<1>9. Valid(history, base) => Known(f, base) = g.value
  BY <1>1 DEF FieldsInv, CommittedFieldsAgree
<1>10. /\ Valid(h, base) => (fits <=> bounded)
       /\ Valid(history, base) /\ (fits <=> bounded) => Valid(h, base)
  <2>1. CASE f.form = "Delta"
    <3>1. Valid(history, base) => (bounded <=> base + f.value + n \in 0 .. MaxValue)
      BY <1>3, <1>5, <1>9, <2>1 DEF Known
    <3> QED BY <1>8, <2>1, <3>1
  <2>2. CASE f.form = "Value"
    <3>1. Valid(history, base) => (bounded <=> fits)
      BY <1>3, <1>5, <1>9, <2>2 DEF Known, Fits
    <3> QED BY <1>8, <2>2, <3>1
  <2> QED BY <1>4, <2>1, <2>2
<1>11. Twins(k, m, h)
  <2>1. Twins(f, g, h)
    BY <1>2, <1>8, CoveredStays DEF HistoryOK
  <2>2. k = f \/ (/\ k = [f EXCEPT !.value = f.value + n] /\ Fits(f, n)
                  /\ f.form = "Delta" => f.value + n \in h.bottom .. h.top)
    BY <1>8
  <2> HIDE DEF k, h, f, g
  <2>3. /\ Twins(k, g, h)
        /\ g.value + n \in 0 .. g.max => Twins(k, [g EXCEPT !.value = g.value + n], h)
    BY <1>1, <1>2, <1>8, <2>1, <2>2, MovedTwins
  <2> QED BY <1>5, <2>3
<1>12. Valid(h, base) => Known(k, base) = m.value /\ k.kind = m.kind
  <2> SUFFICES ASSUME Valid(h, base) PROVE Known(k, base) = m.value /\ k.kind = m.kind
    OBVIOUS
  <2>1. Known(f, base) = g.value /\ (fits <=> bounded)
    BY <1>8, <1>9, <1>10
  <2>2. CASE apply /\ fits
    <3>1. k = [f EXCEPT !.value = f.value + n] /\ m = [g EXCEPT !.value = g.value + n]
      BY <2>1, <2>2
    <3>2. k.value = f.value + n /\ k.form = f.form /\ k.kind = f.kind /\ m.value = g.value + n /\ m.kind = g.kind
      BY <1>1, <1>3, <3>1 DEF Field
    <3> HIDE DEF k, m
    <3> QED BY <1>1, <1>2, <1>3, <1>4, <2>1, <3>2 DEF Known
  <2>3. CASE ~(apply /\ fits)
    BY <1>1, <1>3, <2>1, <2>3
  <2> QED BY <2>2, <2>3
<1>13. k \in F /\ m \in F /\ (~(apply /\ fits) => k = delayed[i]) /\ (~(apply /\ bounded) => m = direct[i])
  BY <1>11 DEF Twins
<1> HIDE DEF k, m, fits, bounded, h, F
<1>14. /\ delayed' \in Seq(F) /\ direct' \in Seq(F) /\ Len(direct') = Len(delayed') /\ Len(delayed') = Len(delayed)
       /\ \A j \in 1 .. Len(delayed) :
            /\ delayed'[j] = IF j = i THEN k ELSE delayed[j]
            /\ direct'[j] = IF j = i THEN m ELSE direct[j]
  <2>1. /\ delayed' \in Seq(F) /\ Len(delayed') = Len(delayed)
        /\ \A j \in 1 .. Len(delayed) : delayed'[j] = IF j = i THEN k ELSE delayed[j]
    BY <1>1, <1>7, <1>13
  <2>2. /\ direct' \in Seq(F) /\ Len(direct') = Len(direct)
        /\ \A j \in 1 .. Len(direct) : direct'[j] = IF j = i THEN m ELSE direct[j]
    <3>1. CASE apply /\ bounded
      <4>1. direct' = [direct EXCEPT ![i] = m] /\ m \in F
        BY <1>7, <1>13, <3>1
      <4> QED BY <1>1, <4>1
    <3>2. CASE ~(apply /\ bounded)
      <4>1. direct' = direct /\ m = direct[i]
        BY <1>7, <1>13, <3>2
      <4> QED BY <1>1, <4>1
    <3> QED BY <3>1, <3>2
  <2> QED BY <1>1, <2>1, <2>2
<1>15. \A j \in 1 .. Len(delayed') : Twins(delayed[j], direct[j], history)'
  <2>1. \A j \in 1 .. Len(delayed) : Twins(delayed[j], direct[j], h)
    BY <1>8, CoveredStays DEF FieldsInv, HistoryOK
  <2>2. \A j \in 1 .. Len(delayed') : Twins(delayed'[j], direct'[j], h)
    BY <1>11, <1>14, <2>1
  <2> QED BY <1>6, <2>2 DEF Twins, Covered, Known
<1>16. HistoryOK(history)' /\ (Valid(history, base)' <=> Valid(h, base))
  BY <1>6, <1>8 DEF HistoryOK, Valid
<1>17. CommittedFieldsAgree'
  <2>1. ASSUME Valid(h, base), NEW j \in 1 .. Len(delayed)
        PROVE  Known(delayed'[j], base) = direct'[j].value /\ delayed'[j].kind = direct'[j].kind
    <3>1. Known(delayed[j], base) = direct[j].value /\ delayed[j].kind = direct[j].kind
      BY <1>1, <1>8, <2>1 DEF FieldsInv, CommittedFieldsAgree
    <3> QED BY <1>12, <1>14, <2>1, <3>1
  <2>2. DOMAIN delayed' = 1 .. Len(delayed)
    BY <1>14
  <2> QED BY <1>6, <1>16, <2>1, <2>2 DEF CommittedFieldsAgree, Known
<1>18. agree' \in BOOLEAN /\ (agree' <=> agree /\ (fits <=> bounded))
  <2>1. fits \in BOOLEAN /\ bounded \in BOOLEAN
    BY DEF fits, bounded, Fits, BoundedMath
  <2>2. agree \in BOOLEAN
    BY DEF FieldsInv
  <2> QED BY <1>6, <2>1, <2>2, Zenon
<1>19. ValidatedRunsAgree'
  <2>1. Valid(h, base) => agree /\ (fits <=> bounded)
    BY <1>8, <1>10 DEF FieldsInv, ValidatedRunsAgree
  <2> QED BY <1>16, <1>18, <2>1 DEF ValidatedRunsAgree
<1>20. NoNeedlessReexecution'
  <2>1. agree /\ (fits <=> bounded) /\ ~h.read => Valid(h, base)
    BY <1>8, <1>10 DEF FieldsInv, NoNeedlessReexecution
  <2> QED BY <1>6, <1>16, <1>18, <2>1 DEF NoNeedlessReexecution
<1> QED BY <1>2, <1>6, <1>14, <1>15, <1>16, <1>17, <1>18, <1>19, <1>20 DEF FieldsInv, F

\* A value that is used binds the two executions to the same value.
LEMMA ReadStep ==
  ASSUME FieldsInv, UNCHANGED <<base, shown, delayed, direct, count>>, NEW i \in DOMAIN delayed, UseBase(delayed[i]),
         NEW a, NEW b, agree' = (agree /\ a = b),
         Valid(history, base) /\ Known(delayed[i], shown) = direct[i].value => a = b
  PROVE  FieldsInv'
<1> DEFINE f == delayed[i]
           g == direct[i]
<1>1. i \in 1 .. Len(delayed) /\ Twins(f, g, history) /\ HistoryOK(history) /\ f.form \in {"Value", "Delta"}
  BY DEF FieldsInv, Twins, Covered, Field
<1>2. /\ f.form = "Delta" => history' = [history EXCEPT !.read = TRUE]
      /\ f.form # "Delta" => history' = history
  BY DEF UseBase
<1>3. /\ history' \in Histories
      /\ history'.top = history.top /\ history'.bottom = history.bottom
      /\ history'.overflow = history.overflow /\ history'.underflow = history.underflow
      /\ f.form = "Delta" => history'.read
      /\ f.form # "Delta" => history' = history
  BY <1>1, <1>2 DEF HistoryOK, Histories
<1>4. HistoryOK(history)'
  <2>1. HistoryOK(history')
    <3>1. CASE f.form = "Delta"
      BY <1>1, <1>3, <3>1 DEF HistoryOK, Valid
    <3>2. CASE f.form # "Delta"
      BY <1>1, <1>3, <3>2
    <3> QED BY <3>1, <3>2
  <2> QED BY <2>1 DEF HistoryOK, Valid
<1>5. Valid(history', base) => Valid(history, base) /\ Known(f, shown) = g.value
  <2> SUFFICES ASSUME Valid(history', base) PROVE Valid(history, base) /\ Known(f, shown) = g.value
    OBVIOUS
  <2>1. CASE f.form = "Delta"
    <3>1. base = shown
      BY <1>3, <2>1 DEF Valid
    <3>2. Valid(history, base)
      BY <1>1, <3>1 DEF HistoryOK
    <3> QED BY <1>1, <3>1, <3>2 DEF FieldsInv, CommittedFieldsAgree
  <2>2. CASE f.form # "Delta"
    <3>1. Valid(history, base)
      BY <1>3, <2>2
    <3>2. Known(f, base) = g.value
      BY <1>1, <3>1 DEF FieldsInv, CommittedFieldsAgree
    <3> QED BY <2>2, <3>1, <3>2 DEF Known
  <2> QED BY <2>1, <2>2
<1>6. Valid(history', base) <=> Valid(history, base)'
  BY DEF Valid
<1>7. \A j \in 1 .. Len(delayed') : Twins(delayed[j], direct[j], history)'
  <2>1. \A j \in 1 .. Len(delayed) : Twins(delayed[j], direct[j], history')
    <3>1. history \in Histories /\ history' \in Histories
      BY <1>1, <1>3 DEF HistoryOK
    <3>2. history'.top >= history.top /\ history'.bottom <= history.bottom
      BY <1>3, <3>1, FieldNumbers DEF Histories
    <3> QED BY <3>1, <3>2, CoveredStays DEF FieldsInv
  <2> QED BY <2>1 DEF Twins, Covered, Known
<1>8. agree' \in BOOLEAN /\ (agree' <=> agree /\ a = b)
  <2>1. agree \in BOOLEAN
    BY DEF FieldsInv
  <2> QED BY <2>1, Zenon
<1>9. ValidatedRunsAgree'
  BY <1>5, <1>6, <1>8 DEF FieldsInv, ValidatedRunsAgree
<1>10. CommittedFieldsAgree'
  BY <1>5, <1>6 DEF FieldsInv, CommittedFieldsAgree, Known
<1>11. NoNeedlessReexecution'
  <2>1. CASE f.form = "Delta"
    BY <1>3, <2>1 DEF NoNeedlessReexecution
  <2>2. CASE f.form # "Delta"
    BY <1>3, <1>6, <1>8, <2>2 DEF FieldsInv, NoNeedlessReexecution
  <2> QED BY <2>1, <2>2
<1> QED BY <1>4, <1>7, <1>8, <1>9, <1>10, <1>11 DEF FieldsInv

-----------------------------------------------------------------------------
(* Delayed fields: the natives *)

\* What a field and its twin know of each other.
LEMMA TwinsOf ==
  ASSUME FieldsInv, NEW i \in DOMAIN delayed
  PROVE  /\ Twins(delayed[i], direct[i], history)
         /\ Valid(history, base) => Known(delayed[i], base) = direct[i].value
         /\ delayed[i].form \in {"Value", "Delta"}
  BY DEF FieldsInv, Twins, Field, CommittedFieldsAgree

\* A field made from a value or from another field.
LEMMA NewFields ==
  /\ \A max \in Inputs \cup {U64Max, U128Max} : Aggregator(max, 0) \in Field(U128Max)
  /\ \A form \in {"Value", "Delta"} : \A v \in -U128Max .. U128Max : Snapshot(form, v) \in Field(U128Max)
  /\ \A form \in {"Value", "Delta"} : \A v \in (-U128Max .. U128Max) \cup {NoNumber} :
       \A p, s \in 0 .. MaxLength : Derived(form, v, p, s) \in Field(U128Max)
<1>1. 0 \in -U128Max .. U128Max
  BY FieldNumbers
<1>2. \A max \in Inputs \cup {U64Max, U128Max} : Aggregator(max, 0) \in Field(U128Max)
  BY <1>1 DEF Aggregator, Field
<1>3. \A form \in {"Value", "Delta"} : \A v \in -U128Max .. U128Max : Snapshot(form, v) \in Field(U128Max)
  BY DEF Snapshot, Field
<1>4. \A form \in {"Value", "Delta"} : \A v \in (-U128Max .. U128Max) \cup {NoNumber} :
        \A p, s \in 0 .. MaxLength : Derived(form, v, p, s) \in Field(U128Max)
  BY DEF Derived, Field
<1> QED BY <1>2, <1>3, <1>4

LEMMA CreateAggregatorStep ==
  ASSUME FieldsInv, UNCHANGED <<base, shown>>, NEW max \in Inputs \cup {U64Max, U128Max}, CreateAggregator(max)
  PROVE  FieldsInv'
<1> DEFINE f == Aggregator(max, 0)
<1>1. /\ f.kind = "Aggregator" /\ f.form = "Value" /\ f.value = 0 /\ f.max = max
      /\ max \in 0 .. U128Max /\ f \in Field(U128Max)
  BY NewFields, FieldNumbers DEF Aggregator
<1>2. Create(f, f)
  BY DEF CreateAggregator
<1> HIDE DEF f
<1>3. Twins(f, f, history) /\ Known(f, base) = f.value
  BY <1>1, FieldNumbers DEF Twins, Covered, Known
<1> QED BY <1>2, <1>3, CreateStep

LEMMA CreateSnapshotStep ==
  ASSUME FieldsInv, UNCHANGED <<base, shown>>, NEW value \in Inputs, CreateSnapshot(value)
  PROVE  FieldsInv'
<1> DEFINE f == Snapshot("Value", value)
<1>1. value \in -U128Max .. U128Max /\ value \in Int
  BY FieldNumbers
<1>2. f.kind = "Snapshot" /\ f.form = "Value" /\ f.value = value /\ f \in Field(U128Max)
  BY <1>1, NewFields DEF Snapshot
<1>3. Create(f, f)
  BY DEF CreateSnapshot
<1> HIDE DEF f
<1>4. Twins(f, f, history) /\ Known(f, base) = f.value
  BY <1>1, <1>2 DEF Twins, Covered, Known
<1> QED BY <1>3, <1>4, CreateStep

LEMMA CreateDerivedStringStep ==
  ASSUME FieldsInv, UNCHANGED <<base, shown>>, NEW length \in Lengths, CreateDerivedString(length)
  PROVE  FieldsInv'
<1> DEFINE f == Derived("Value", NoNumber, length, 0)
<1>1. length \in 0 .. MaxLength /\ 0 \in 0 .. MaxLength
  BY DelayedFieldsAssumption DEF CreateDerivedString
<1>2. f.kind = "Derived" /\ f.form = "Value" /\ f \in Field(U128Max)
  BY <1>1, NewFields DEF Derived
<1>3. Create(f, f)
  BY DEF CreateDerivedString
<1> HIDE DEF f
<1>4. Twins(f, f, history) /\ Known(f, base) = f.value
  BY <1>2 DEF Twins, Covered, Known
<1> QED BY <1>3, <1>4, CreateStep

LEMMA SnapshotStep ==
  ASSUME FieldsInv, UNCHANGED <<base, shown>>, NEW i \in Ids("Aggregator"), NativeSnapshot(i)
  PROVE  FieldsInv'
<1> DEFINE f == delayed[i]
           g == direct[i]
           k == Snapshot(f.form, f.value)
           m == Snapshot("Value", g.value)
<1>1. i \in DOMAIN delayed /\ f.kind = "Aggregator"
  BY DEF Ids
<1>2. /\ Twins(f, g, history) /\ f.form \in {"Value", "Delta"}
      /\ Valid(history, base) => Known(f, base) = g.value
  BY <1>1, TwinsOf
<1>3. f \in Field(U128Max) /\ g \in Field(U128Max) /\ g.kind = "Aggregator" /\ Covered(f, history)
  BY <1>1, <1>2 DEF Twins
<1>4. f.value \in -U128Max .. U128Max /\ g.value \in -U128Max .. U128Max
  BY <1>1, <1>3 DEF Field
<1>5. Create(k, m)
  BY DEF NativeSnapshot
<1>6. /\ k.kind = "Snapshot" /\ k.form = f.form /\ k.value = f.value /\ k \in Field(U128Max)
      /\ m.kind = "Snapshot" /\ m.form = "Value" /\ m.value = g.value /\ m \in Field(U128Max)
  BY <1>2, <1>4, NewFields DEF Snapshot
<1>7. f.value \in Int
  BY <1>4, FieldNumbers
<1> HIDE DEF f, g, k, m
<1>8. Twins(k, m, history)
  BY <1>3, <1>6, <1>7 DEF Twins, Covered
<1>9. Valid(history, base) => Known(k, base) = m.value
  BY <1>2, <1>6 DEF Known
<1> QED BY <1>5, <1>8, <1>9, CreateStep

LEMMA ConcatStep ==
  ASSUME FieldsInv, UNCHANGED <<base, shown>>, NEW i \in Ids("Snapshot"), NEW p \in Lengths, NEW s \in Lengths,
         DeriveStringConcat(p, i, s)
  PROVE  FieldsInv'
<1> DEFINE f == delayed[i]
           g == direct[i]
           k == Derived(f.form, f.value, p, s)
           m == Derived("Value", g.value, p, s)
<1>1. i \in DOMAIN delayed /\ f.kind = "Snapshot"
  BY DEF Ids
<1>2. /\ Twins(f, g, history) /\ f.form \in {"Value", "Delta"}
      /\ Valid(history, base) => Known(f, base) = g.value
  BY <1>1, TwinsOf
<1>3. f \in Field(U128Max) /\ g \in Field(U128Max) /\ g.kind = "Snapshot" /\ Covered(f, history)
  BY <1>1, <1>2 DEF Twins
<1>4. f.value \in -U128Max .. U128Max /\ g.value \in -U128Max .. U128Max
  BY <1>1, <1>3 DEF Field
<1>5. Create(k, m) /\ p \in 0 .. MaxLength /\ s \in 0 .. MaxLength
  <2>1. Create(k, m)
    <3> HIDE DEF k, m
    <3> QED BY DEF DeriveStringConcat, f, g, k, m
  <2>2. p + s <= MaxLength
    <3> HIDE DEF k, m
    <3> QED BY DEF DeriveStringConcat
  <2>3. p \in 0 .. MaxLength /\ s \in 0 .. MaxLength
    <3>1. p \in Nat /\ s \in Nat /\ MaxLength \in Nat
      BY DelayedFieldsAssumption
    <3> QED BY <2>2, <3>1
  <2> QED BY <2>1, <2>3
<1>6. /\ k.kind = "Derived" /\ k.form = f.form /\ k.value = f.value /\ k.prefix = p /\ k.suffix = s
      /\ m.kind = "Derived" /\ m.form = "Value" /\ m.value = g.value /\ m.prefix = p /\ m.suffix = s
  BY DEF Derived
<1>7. k \in Field(U128Max) /\ m \in Field(U128Max)
  BY <1>2, <1>4, <1>5, NewFields
<1>8. f.value \in Int
  BY <1>4, FieldNumbers
<1> HIDE DEF f, g, k, m
<1>9. Twins(k, m, history)
  BY <1>3, <1>6, <1>7, <1>8 DEF Twins, Covered
<1>10. Valid(history, base) => Known(k, base) = m.value
  BY <1>2, <1>6 DEF Known
<1> QED BY <1>5, <1>9, <1>10, CreateStep

LEMMA CallsAreMath ==
  ASSUME FieldsInv, UNCHANGED <<base, shown>>, NEW i \in Ids("Aggregator"), NEW n \in Inputs,
         TryAdd(i, n) \/ TrySub(i, n) \/ IsAtLeast(i, n)
  PROVE  FieldsInv'
<1>1. n \in Int /\ -n \in Int
  BY FieldNumbers
<1>2. CASE TryAdd(i, n)
  <2>1. /\ Called /\ TryAddOrCheckDelta(i, n, TRUE) /\ Returns(Fits(delayed[i], n), BoundedMath(i, n))
        /\ direct' = IF BoundedMath(i, n) THEN [direct EXCEPT ![i].value = direct[i].value + n] ELSE direct
    BY <1>2 DEF TryAdd
  <2> QED BY <1>1, <2>1, MathStep
<1>3. CASE TrySub(i, n)
  <2>1. /\ Called /\ TryAddOrCheckDelta(i, -n, TRUE) /\ Returns(Fits(delayed[i], -n), BoundedMath(i, -n))
        /\ direct' = IF BoundedMath(i, -n) THEN [direct EXCEPT ![i].value = direct[i].value - n] ELSE direct
    BY <1>3 DEF TrySub
  <2>2. direct[i].value \in Int
    <3>1. i \in DOMAIN delayed /\ delayed[i].kind = "Aggregator"
      BY DEF Ids
    <3> QED BY <3>1, TwinsOf, AggregatorWith DEF Twins
  <2>3. direct[i].value - n = direct[i].value + (-n)
    BY <1>1, <2>2
  <2> QED BY <1>1, <2>1, <2>3, MathStep
<1>4. CASE IsAtLeast(i, n)
  <2>1. /\ Called /\ TryAddOrCheckDelta(i, -n, FALSE) /\ Returns(Fits(delayed[i], -n), BoundedMath(i, -n))
        /\ direct' = direct
    BY <1>4 DEF IsAtLeast
  <2> QED BY <1>1, <2>1, MathStep
<1> QED BY <1>2, <1>3, <1>4

LEMMA ReadsUseTheBase ==
  ASSUME FieldsInv, UNCHANGED <<base, shown>>, NEW i \in DOMAIN delayed, Read(i) \/ ReadSnapshot(i)
  PROVE  FieldsInv'
<1>1. UseBase(delayed[i]) /\ UNCHANGED <<delayed, direct, count>>
      /\ agree' = (agree /\ Known(delayed[i], shown) = direct[i].value)
  BY DEF Read, ReadSnapshot, Returns
<1> QED BY <1>1, ReadStep

LEMMA ReadDerivedUsesTheBase ==
  ASSUME FieldsInv, UNCHANGED <<base, shown>>, NEW i \in Ids("Derived"), ReadDerivedString(i)
  PROVE  FieldsInv'
<1> DEFINE a == Formula(delayed[i], shown)
           b == Formula(direct[i], base)
<1>1. i \in DOMAIN delayed /\ delayed[i].kind = "Derived"
  BY DEF Ids
<1>2. UseBase(delayed[i]) /\ UNCHANGED <<delayed, direct, count>> /\ agree' = (agree /\ a = b)
  BY DEF ReadDerivedString, Returns
<1>3. /\ direct[i].form = "Value" /\ direct[i].prefix = delayed[i].prefix
      /\ direct[i].suffix = delayed[i].suffix
  BY <1>1, TwinsOf DEF Twins
<1>4. Known(delayed[i], shown) = direct[i].value => a = b
  BY <1>3 DEF Formula, Known
<1> HIDE DEF a, b
<1> QED BY <1>1, <1>2, <1>4, ReadStep

LEMMA FieldsInitOK == FieldsInit => FieldsInv
<1> SUFFICES ASSUME FieldsInit PROVE FieldsInv
  OBVIOUS
<1> DEFINE f == [Aggregator(MaxValue, 0) EXCEPT !.form = "Delta"]
           g == Aggregator(MaxValue, base)
<1>1. /\ base \in 0 .. MaxValue /\ shown \in 0 .. MaxValue /\ history = Untouched /\ agree = TRUE /\ count = 0
      /\ delayed = <<f>> /\ direct = <<g>>
  BY DEF FieldsInit
<1>2. 0 \in -U128Max .. U128Max /\ base \in -U128Max .. U128Max /\ 0 \in 0 .. MaxFieldCalls
  BY <1>1, FieldNumbers, DelayedFieldsAssumption
<1>3. f \in Field(U128Max) /\ g \in Field(U128Max)
  BY <1>2 DEF Aggregator, Field
<1>4. /\ f.kind = "Aggregator" /\ f.form = "Delta" /\ f.value = 0 /\ f.max = MaxValue
      /\ g.kind = "Aggregator" /\ g.form = "Value" /\ g.value = base /\ g.max = MaxValue
  BY DEF Aggregator
<1>5. /\ history.top = 0 /\ history.bottom = 0 /\ history.overflow = NoNumber /\ history.underflow = NoNumber
      /\ history.read = FALSE /\ history \in Histories
  BY <1>1, FieldNumbers DEF Untouched, Histories
<1> HIDE DEF f, g
<1>6. HistoryOK(history) /\ Valid(history, base)
  BY <1>1, <1>5, FieldNumbers DEF HistoryOK, Valid
<1>7. Twins(f, g, history)
  BY <1>1, <1>3, <1>4, <1>5, FieldNumbers DEF Twins, Covered, Known
<1>8. Known(f, base) = g.value
  BY <1>1, <1>4, FieldNumbers DEF Known
<1>9. /\ delayed \in Seq(Field(U128Max)) /\ direct \in Seq(Field(U128Max)) /\ Len(direct) = Len(delayed)
      /\ Len(delayed) = 1 /\ delayed[1] = f /\ direct[1] = g /\ DOMAIN delayed = {1}
  <2> DEFINE F == Field(U128Max)
  <2>1. f \in F /\ g \in F
    BY <1>3
  <2> HIDE DEF F
  <2>2. /\ delayed \in Seq(F) /\ direct \in Seq(F) /\ Len(direct) = Len(delayed)
        /\ Len(delayed) = 1 /\ delayed[1] = f /\ direct[1] = g
    BY <1>1, <2>1
  <2>3. DOMAIN delayed = {1}
    BY <2>2
  <2> QED BY <2>2, <2>3 DEF F
<1>10. \A i \in 1 .. Len(delayed) : Twins(delayed[i], direct[i], history)
  BY <1>7, <1>9
<1>11. ValidatedRunsAgree /\ NoNeedlessReexecution
  BY <1>1, <1>6 DEF ValidatedRunsAgree, NoNeedlessReexecution
<1>12. CommittedFieldsAgree
  BY <1>4, <1>8, <1>9 DEF CommittedFieldsAgree
<1> QED BY <1>1, <1>2, <1>6, <1>9, <1>10, <1>11, <1>12 DEF FieldsInv

LEMMA FieldsStep == FieldsInv /\ [FieldsNext]_field_vars => FieldsInv'
<1> SUFFICES ASSUME FieldsInv, [FieldsNext]_field_vars PROVE FieldsInv'
  OBVIOUS
<1>1. CASE FieldsNext
  <2>1. UNCHANGED <<base, shown>>
    BY <1>1 DEF FieldsNext
  <2>2. ASSUME NEW max \in Inputs, CreateAggregator(max) PROVE FieldsInv'
    BY <2>1, <2>2, CreateAggregatorStep
  <2>3. ASSUME NEW type \in {"u64", "u128"}, CreateUnboundedAggregator(type) PROVE FieldsInv'
    BY <2>1, <2>3, CreateAggregatorStep DEF CreateUnboundedAggregator, UnboundedMax
  <2>4. ASSUME NEW value \in Inputs, CreateSnapshot(value) PROVE FieldsInv'
    BY <2>1, <2>4, CreateSnapshotStep
  <2>5. ASSUME NEW l \in Lengths, CreateDerivedString(l) PROVE FieldsInv'
    BY <2>1, <2>5, CreateDerivedStringStep
  <2>6. ASSUME NEW i \in Ids("Aggregator"), NEW n \in Inputs, TryAdd(i, n) \/ TrySub(i, n) \/ IsAtLeast(i, n)
        PROVE  FieldsInv'
    BY <2>1, <2>6, CallsAreMath
  <2>7. ASSUME NEW i \in Ids("Aggregator"), NativeSnapshot(i) PROVE FieldsInv'
    BY <2>1, <2>7, SnapshotStep
  <2>8. ASSUME NEW i \in Ids("Aggregator") \cup Ids("Snapshot"), Read(i) \/ ReadSnapshot(i) PROVE FieldsInv'
    BY <2>1, <2>8, ReadsUseTheBase DEF Ids
  <2>9. ASSUME NEW i \in Ids("Snapshot"), NEW p \in Lengths, NEW s \in Lengths, DeriveStringConcat(p, i, s)
        PROVE  FieldsInv'
    BY <2>1, <2>9, ConcatStep
  <2>10. ASSUME NEW i \in Ids("Derived"), ReadDerivedString(i) PROVE FieldsInv'
    BY <2>1, <2>10, ReadDerivedUsesTheBase
  <2> QED BY <1>1, <2>2, <2>3, <2>4, <2>5, <2>6, <2>7, <2>8, <2>9, <2>10 DEF FieldsNext
<1>2. CASE UNCHANGED field_vars
  <2>1. UNCHANGED <<base, shown, history, delayed, direct, agree, count>>
    BY <1>2 DEF field_vars
  <2>2. \A i \in 1 .. Len(delayed') : Twins(delayed[i], direct[i], history)'
    BY <2>1 DEF FieldsInv, Twins, Covered, Known
  <2>3. ValidatedRunsAgree' /\ CommittedFieldsAgree' /\ NoNeedlessReexecution' /\ HistoryOK(history)'
    BY <2>1 DEF FieldsInv, ValidatedRunsAgree, CommittedFieldsAgree, NoNeedlessReexecution, HistoryOK, Valid, Known
  <2> QED BY <2>1, <2>2, <2>3 DEF FieldsInv
<1> QED BY <1>1, <1>2

LEMMA FieldsInvTypes == FieldsInv => FieldsTypeOK
<1> SUFFICES ASSUME FieldsInv PROVE FieldsTypeOK
  OBVIOUS
<1>1. history.top \in 0 .. MaxValue /\ history.bottom \in -MaxValue .. 0
  BY DEF FieldsInv, HistoryOK, Histories
<1>2. \A i \in Ids("Aggregator") : Known(delayed[i], shown) \in 0 .. delayed[i].max
  BY TwinsOf DEF Ids, Twins
<1> QED BY <1>1, <1>2 DEF FieldsInv, FieldsTypeOK

\* Executing with delayed fields is exact, whatever value the execution was shown and whatever is committed
\* before it: if what it found out holds of the committed value, every call returned, and every field has,
\* what an execution on that value gives; and it holds if the calls agreed and nothing was read.
THEOREM FieldsCorrectness == FieldsSpec => []DelayedFieldsAreExact
<1>1. FieldsInv => DelayedFieldsAreExact
  BY FieldsInvTypes DEF FieldsInv, DelayedFieldsAreExact
<1> QED BY <1>1, FieldsInitOK, FieldsStep, PTL DEF FieldsSpec

-----------------------------------------------------------------------------
(* Events: the streams of a sequence *)

Guids == [addr : Addresses, creation_num : Nat]
EventSet == [version : {1}, guid : Guids, seq : Nat, type : Types] \cup [version : {2}, type : Types \cup {Fee}]

\* The events of each stream are numbered from 0, and have one type.
Earlier(seq, i) == {j \in Stream(seq, seq[i].guid) : j < i}
Numbered(seq) ==
  \A i \in DOMAIN seq : seq[i].version = 1 =>
    /\ seq[i].seq = Cardinality(Earlier(seq, i))
    /\ \A j \in Stream(seq, seq[i].guid) : seq[j].type = seq[i].type

LEMMA StreamsAreFinite ==
  ASSUME NEW seq \in Seq(EventSet), NEW guid
  PROVE  /\ Stream(seq, guid) \subseteq 1 .. Len(seq)
         /\ IsFiniteSet(Stream(seq, guid)) /\ Cardinality(Stream(seq, guid)) \in Nat
<1> HIDE DEF EventSet
<1>1. DOMAIN seq = 1 .. Len(seq) /\ Len(seq) \in Nat
  BY LenProperties
<1>2. Stream(seq, guid) \subseteq 1 .. Len(seq)
  BY <1>1 DEF Stream
<1>3. IsFiniteSet(1 .. Len(seq))
  BY <1>1, FS_Interval
<1> QED BY <1>2, <1>3, FS_Subset, FS_CardinalityType

LEMMA AppendedEvent ==
  ASSUME NEW seq \in Seq(EventSet), NEW event \in EventSet
  PROVE  /\ Append(seq, event) \in Seq(EventSet) /\ Len(seq) \in Nat
         /\ DOMAIN seq = 1 .. Len(seq) /\ DOMAIN Append(seq, event) = 1 .. Len(seq) + 1
         /\ Append(seq, event)[Len(seq) + 1] = event
         /\ \A i \in 1 .. Len(seq) : Append(seq, event)[i] = seq[i]
<1> HIDE DEF EventSet
<1> QED BY LenProperties, AppendProperties

\* An event joins its stream, if it has one, at the end.
LEMMA AppendedStream ==
  ASSUME NEW seq \in Seq(EventSet), NEW event \in EventSet, NEW guid
  PROVE  /\ event.version = 1 /\ event.guid = guid =>
              /\ Stream(Append(seq, event), guid) = Stream(seq, guid) \cup {Len(seq) + 1}
              /\ Cardinality(Stream(Append(seq, event), guid)) = Cardinality(Stream(seq, guid)) + 1
         /\ ~(event.version = 1 /\ event.guid = guid) => Stream(Append(seq, event), guid) = Stream(seq, guid)
<1> DEFINE longer == Append(seq, event)
           n == Len(seq)
<1>1. /\ n \in Nat /\ DOMAIN seq = 1 .. n /\ DOMAIN longer = 1 .. n + 1
      /\ longer[n + 1] = event /\ \A i \in 1 .. n : longer[i] = seq[i]
  BY AppendedEvent
<1> HIDE DEF longer, n
<1>2. CASE event.version = 1 /\ event.guid = guid
  <2>1. Stream(longer, guid) = Stream(seq, guid) \cup {n + 1}
    BY <1>1, <1>2 DEF Stream
  <2>2. n + 1 \notin Stream(seq, guid)
    BY <1>1 DEF Stream
  <2>3. Cardinality(Stream(longer, guid)) = Cardinality(Stream(seq, guid)) + 1
    BY <2>1, <2>2, StreamsAreFinite, FS_AddElement
  <2> QED BY <1>2, <2>1, <2>3 DEF longer, n
<1>3. CASE ~(event.version = 1 /\ event.guid = guid)
  <2>1. Stream(longer, guid) = Stream(seq, guid)
    BY <1>1, <1>3 DEF Stream
  <2> QED BY <1>3, <2>1 DEF longer
<1> QED BY <1>2, <1>3

\* An event with the next number of its stream, and the stream's type, keeps a sequence numbered.
LEMMA AppendedNumber ==
  ASSUME NEW seq \in Seq(EventSet), NEW event \in EventSet, Numbered(seq),
         event.version = 1 =>
           /\ event.seq = Cardinality(Stream(seq, event.guid))
           /\ \A j \in Stream(seq, event.guid) : seq[j].type = event.type
  PROVE  Numbered(Append(seq, event))
<1> DEFINE longer == Append(seq, event)
           n == Len(seq)
<1>1. /\ n \in Nat /\ DOMAIN seq = 1 .. n /\ DOMAIN longer = 1 .. n + 1
      /\ longer[n + 1] = event /\ \A i \in 1 .. n : longer[i] = seq[i]
  BY AppendedEvent
<1>2. \A guid : /\ event.version = 1 /\ event.guid = guid => Stream(longer, guid) = Stream(seq, guid) \cup {n + 1}
                /\ ~(event.version = 1 /\ event.guid = guid) => Stream(longer, guid) = Stream(seq, guid)
                /\ Stream(seq, guid) \subseteq 1 .. n
  <2> TAKE guid
  <2>1. Stream(seq, guid) \subseteq 1 .. n
    BY StreamsAreFinite
  <2> HIDE DEF EventSet
  <2> QED BY <2>1, AppendedStream
<1> HIDE DEF longer, n
<1>3. ASSUME NEW i \in 1 .. n, longer[i].version = 1
      PROVE  /\ longer[i].seq = Cardinality(Earlier(longer, i))
             /\ \A j \in Stream(longer, longer[i].guid) : longer[j].type = longer[i].type
  <2>1. longer[i] = seq[i] /\ i \in DOMAIN seq /\ n + 1 > i
    BY <1>1
  <2>2. Earlier(longer, i) = Earlier(seq, i)
    BY <1>1, <1>2, <2>1 DEF Earlier
  <2>3. ASSUME NEW j \in Stream(longer, longer[i].guid) PROVE longer[j].type = longer[i].type
    <3>1. i \in Stream(seq, seq[i].guid)
      BY <1>3, <2>1 DEF Stream
    <3>2. CASE j \in Stream(seq, seq[i].guid)
      <4>1. longer[j] = seq[j] /\ seq[j].type = seq[i].type
        BY <1>1, <1>2, <1>3, <2>1, <3>2 DEF Numbered
      <4> QED BY <2>1, <4>1
    <3>3. CASE j = n + 1 /\ event.version = 1 /\ event.guid = seq[i].guid
      BY <1>1, <2>1, <3>1, <3>3
    <3> QED BY <1>2, <2>1, <3>2, <3>3
  <2> QED BY <1>3, <2>1, <2>2, <2>3 DEF Numbered
<1>4. ASSUME event.version = 1
      PROVE  /\ event.seq = Cardinality(Earlier(longer, n + 1))
             /\ \A j \in Stream(longer, event.guid) : longer[j].type = event.type
  <2>1. Earlier(longer, n + 1) = Stream(seq, event.guid)
    BY <1>1, <1>2, <1>4 DEF Earlier
  <2>2. ASSUME NEW j \in Stream(longer, event.guid) PROVE longer[j].type = event.type
    BY <1>1, <1>2, <1>4
  <2> QED BY <1>4, <2>1, <2>2
<1>5. ASSUME NEW i \in DOMAIN longer, longer[i].version = 1
      PROVE  /\ longer[i].seq = Cardinality(Earlier(longer, i))
             /\ \A j \in Stream(longer, longer[i].guid) : longer[j].type = longer[i].type
  <2>1. i \in 1 .. n \/ i = n + 1
    BY <1>1
  <2> QED BY <1>1, <1>3, <1>4, <1>5, <2>1
<1>6. Numbered(longer)
  BY <1>5 DEF Numbered
<1> QED BY <1>6 DEF longer

-----------------------------------------------------------------------------
(* Events: the invariant *)

HandleSet == [guid : Guids, type : Types, counter : Nat]
States == [account : [Addresses -> Nat], object : [Addresses -> Nat], handles : SUBSET HandleSet]

\* Accounts number below GuidLimit, objects from there.
WellNumbered(state) ==
  \A addr \in Addresses :
    /\ state.account[addr] = NoResource \/ state.account[addr] \in 2 .. GuidLimit
    /\ state.object[addr] = NoResource \/ state.object[addr] > GuidLimit

Issued(state, guid) ==
  \/ guid.creation_num < state.account[guid.addr]
  \/ guid.creation_num >= GuidLimit /\ guid.creation_num < state.object[guid.addr]

\* The handles of a state count the events of a sequence.
Sound(state, seq) ==
  /\ state \in States /\ seq \in Seq(EventSet) /\ WellNumbered(state) /\ Numbered(seq)
  /\ \A h \in state.handles :
       /\ Issued(state, h.guid) /\ h.counter = Cardinality(Stream(seq, h.guid))
       /\ \A i \in Stream(seq, h.guid) : seq[i].type = h.type
  /\ \A h, k \in state.handles : h.guid = k.guid => h = k
  /\ \A i \in DOMAIN seq : seq[i].version = 1 => Issued(state, seq[i].guid)

\* From one state to a later one, identifiers are given out and never taken back, and a handle
\* keeps its identifier or has a new one.
Grown(old, state) ==
  /\ \A guid \in Guids : Issued(old, guid) => Issued(state, guid)
  /\ \A h \in state.handles : Issued(old, h.guid) => \E k \in old.handles : k.guid = h.guid

EventsInvariant ==
  /\ phase \in {"idle", "payload", "epilogue"}
  /\ log \in Seq(EventSet) /\ events \in Seq(EventSet)
  /\ Sound(stored, log) /\ Sound(event_session, log \o events) /\ Grown(stored, event_session)
  /\ phase = "idle" => event_session = stored

-----------------------------------------------------------------------------
(* Events: what handles are made and used for *)

LEMMA HandlesAdded ==
  ASSUME NEW state, NEW seq, Sound(state, seq),
         NEW next \in States, WellNumbered(next), NEW added, next.handles = state.handles \cup added,
         \A guid \in Guids : Issued(state, guid) => Issued(next, guid),
         \A h \in added : h.counter = 0 /\ ~Issued(state, h.guid) /\ Issued(next, h.guid),
         \A h, k \in added : h.guid = k.guid => h = k
  PROVE  /\ Sound(next, seq)
         /\ \A old : Grown(old, state) => Grown(old, next)
<1>1. \A i \in DOMAIN seq : seq[i].version = 1 => seq[i].guid \in Guids
  <2>1. \A i \in DOMAIN seq : seq[i] \in EventSet
    <3> HIDE DEF EventSet
    <3> QED BY LenProperties, ElementOfSeq DEF Sound
  <2> QED BY <2>1 DEF EventSet
<1>2. next.handles \subseteq HandleSet /\ state.handles \subseteq HandleSet
  BY DEF States, Sound
<1>3. ASSUME NEW h \in added PROVE Stream(seq, h.guid) = {}
  BY <1>3 DEF Stream, Sound
<1>4. Cardinality({}) = 0
  BY FS_EmptySet
<1>5. Sound(next, seq)
  <2>1. ASSUME NEW h \in next.handles
        PROVE  /\ Issued(next, h.guid) /\ h.counter = Cardinality(Stream(seq, h.guid))
               /\ \A i \in Stream(seq, h.guid) : seq[i].type = h.type
    <3>1. h.guid \in Guids
      BY <1>2 DEF HandleSet
    <3>2. CASE h \in state.handles
      BY <3>1, <3>2 DEF Sound
    <3>3. CASE h \in added
      BY <3>1, <3>3, <1>3, <1>4
    <3> QED BY <3>2, <3>3
  <2>2. ASSUME NEW h \in next.handles, NEW k \in next.handles, h.guid = k.guid PROVE h = k
    BY <2>2 DEF Sound
  <2>3. \A i \in DOMAIN seq : seq[i].version = 1 => Issued(next, seq[i].guid)
    BY <1>1 DEF Sound
  <2>4. seq \in Seq(EventSet) /\ Numbered(seq)
    BY DEF Sound
  <2> QED BY <2>1, <2>2, <2>3, <2>4 DEF Sound
<1>6. ASSUME NEW old, Grown(old, state) PROVE Grown(old, next)
  <2>1. ASSUME NEW h \in next.handles, Issued(old, h.guid) PROVE \E k \in old.handles : k.guid = h.guid
    <3>1. h.guid \in Guids
      BY <1>2 DEF HandleSet
    <3>2. Issued(state, h.guid)
      BY <3>1, <2>1, <1>6 DEF Grown
    <3>3. h \in state.handles
      BY <3>2
    <3> QED BY <3>3, <2>1, <1>6 DEF Grown
  <2>2. \A guid \in Guids : Issued(old, guid) => Issued(next, guid)
    BY <1>6 DEF Grown
  <2> QED BY <2>1, <2>2 DEF Grown
<1> QED BY <1>5, <1>6

LEMMA HandlesReplaced ==
  ASSUME NEW state \in States, NEW handles
  PROVE  [state EXCEPT !.handles = handles] =
           [account |-> state.account, object |-> state.object, handles |-> handles]
<1>1. PICK a \in [Addresses -> Nat], o \in [Addresses -> Nat], h \in SUBSET HandleSet :
        state = [account |-> a, object |-> o, handles |-> h]
  BY DEF States
<1> QED BY <1>1

\* An event of a handle: the handle has counted it when it is emitted.
LEMMA HandleEmits ==
  ASSUME NEW state, NEW seq, Sound(state, seq), NEW handle \in state.handles
  PROVE  LET event == V1(handle.guid, handle.counter, handle.type)
             next == [state EXCEPT !.handles = (@ \ {handle}) \cup {[handle EXCEPT !.counter = @ + 1]}]
         IN  /\ event \in EventSet /\ Sound(next, Append(seq, event))
             /\ \A old : Grown(old, state) => Grown(old, next)
<1> DEFINE event == V1(handle.guid, handle.counter, handle.type)
           counted == [guid |-> handle.guid, type |-> handle.type, counter |-> handle.counter + 1]
           next == [account |-> state.account, object |-> state.object,
                    handles |-> (state.handles \ {handle}) \cup {counted}]
           longer == Append(seq, event)
<1>1. /\ handle \in HandleSet /\ handle.guid \in Guids /\ handle.type \in Types /\ handle.counter \in Nat
      /\ state \in States /\ state.handles \subseteq HandleSet /\ seq \in Seq(EventSet)
  BY DEF Sound, States, HandleSet
<1>2. [handle EXCEPT !.counter = @ + 1] = counted
  BY <1>1 DEF HandleSet
<1>3. [state EXCEPT !.handles = (@ \ {handle}) \cup {[handle EXCEPT !.counter = @ + 1]}] = next
  BY <1>1, <1>2, HandlesReplaced
<1>4. /\ event = [version |-> 1, guid |-> handle.guid, seq |-> handle.counter, type |-> handle.type]
      /\ event \in EventSet
  BY <1>1 DEF V1, EventSet
<1>5. event.version = 1 /\ event.guid = handle.guid /\ event.seq = handle.counter /\ event.type = handle.type
  BY <1>4
<1>6. /\ counted \in HandleSet /\ counted.guid = handle.guid /\ counted.type = handle.type
      /\ counted.counter = handle.counter + 1
  BY <1>1 DEF HandleSet
<1>7. /\ next \in States /\ next.account = state.account /\ next.object = state.object
      /\ next.handles = (state.handles \ {handle}) \cup {counted}
  BY <1>1, <1>6 DEF States
<1> HIDE DEF event, counted, next
<1>8. /\ longer \in Seq(EventSet) /\ Len(seq) \in Nat /\ DOMAIN seq = 1 .. Len(seq) /\ DOMAIN longer = 1 .. Len(seq) + 1
      /\ longer[Len(seq) + 1] = event /\ \A i \in 1 .. Len(seq) : longer[i] = seq[i]
  BY <1>1, <1>4, AppendedEvent
<1>9. ASSUME NEW guid
      PROVE  /\ guid = handle.guid =>
                  /\ Stream(longer, guid) = Stream(seq, guid) \cup {Len(seq) + 1}
                  /\ Cardinality(Stream(longer, guid)) = Cardinality(Stream(seq, guid)) + 1
             /\ guid # handle.guid => Stream(longer, guid) = Stream(seq, guid)
             /\ Stream(seq, guid) \subseteq 1 .. Len(seq)
  <2>1. Stream(seq, guid) \subseteq 1 .. Len(seq)
    BY <1>1, StreamsAreFinite
  <2>2. /\ event.guid = guid => /\ Stream(Append(seq, event), guid) = Stream(seq, guid) \cup {Len(seq) + 1}
                                /\ Cardinality(Stream(Append(seq, event), guid)) = Cardinality(Stream(seq, guid)) + 1
        /\ event.guid # guid => Stream(Append(seq, event), guid) = Stream(seq, guid)
    <3>1. seq \in Seq(EventSet) /\ event \in EventSet /\ event.version = 1
      BY <1>1, <1>4, <1>5
    <3> HIDE DEF EventSet, Stream
    <3> QED BY <3>1, AppendedStream
  <2> HIDE DEF longer
  <2>3. longer = Append(seq, event)
    BY DEF longer
  <2> QED BY <1>5, <2>1, <2>2, <2>3
<1>10. /\ handle.counter = Cardinality(Stream(seq, handle.guid)) /\ Issued(state, handle.guid)
       /\ \A i \in Stream(seq, handle.guid) : seq[i].type = handle.type
  BY DEF Sound
<1>11. Numbered(longer)
  BY <1>1, <1>4, <1>5, <1>10, AppendedNumber DEF Sound
<1>12. \A guid : Issued(state, guid) <=> Issued(next, guid)
  BY <1>7 DEF Issued
<1> HIDE DEF longer
<1>13. Sound(next, longer)
  <2>1. ASSUME NEW h \in next.handles
        PROVE  /\ Issued(next, h.guid) /\ h.counter = Cardinality(Stream(longer, h.guid))
               /\ \A i \in Stream(longer, h.guid) : longer[i].type = h.type
    <3>1. CASE h = counted
      BY <3>1, <1>5, <1>6, <1>8, <1>9, <1>10, <1>12
    <3>2. CASE h \in state.handles \ {handle}
      <4>1. h.guid # handle.guid
        BY <3>2 DEF Sound
      <4>2. Stream(longer, h.guid) = Stream(seq, h.guid) /\ Stream(seq, h.guid) \subseteq 1 .. Len(seq)
        BY <4>1, <1>9
      <4>3. /\ Issued(state, h.guid) /\ h.counter = Cardinality(Stream(seq, h.guid))
            /\ \A i \in Stream(seq, h.guid) : seq[i].type = h.type
        BY <3>2 DEF Sound
      <4> QED BY <4>2, <4>3, <1>8, <1>12
    <3> QED BY <3>1, <3>2, <1>7
  <2>2. ASSUME NEW h \in next.handles, NEW k \in next.handles, h.guid = k.guid PROVE h = k
    <3>1. \A g \in state.handles \ {handle} : g.guid # handle.guid
      BY DEF Sound
    <3>2. \A g, f \in state.handles : g.guid = f.guid => g = f
      BY DEF Sound
    <3> QED BY <2>2, <3>1, <3>2, <1>6, <1>7
  <2>3. ASSUME NEW i \in DOMAIN longer, longer[i].version = 1 PROVE Issued(next, longer[i].guid)
    <3>1. CASE i \in 1 .. Len(seq)
      BY <3>1, <2>3, <1>8, <1>12 DEF Sound
    <3>2. CASE i = Len(seq) + 1
      BY <3>2, <1>5, <1>8, <1>10, <1>12
    <3> QED BY <3>1, <3>2, <1>8
  <2>4. WellNumbered(next)
    BY <1>7 DEF Sound, WellNumbered
  <2> QED BY <2>1, <2>2, <2>3, <2>4, <1>7, <1>8, <1>11 DEF Sound
<1>14. ASSUME NEW old, Grown(old, state) PROVE Grown(old, next)
  <2>1. \A h \in next.handles : \E g \in state.handles : g.guid = h.guid
    BY <1>6, <1>7
  <2> QED BY <2>1, <1>12, <1>14 DEF Grown
<1> QED BY <1>3, <1>4, <1>13, <1>14 DEF event, longer

\* An event of a module belongs to no handle.
LEMMA ModuleEmits ==
  ASSUME NEW state, NEW seq, Sound(state, seq), NEW type \in Types \cup {Fee}
  PROVE  V2(type) \in EventSet /\ Sound(state, Append(seq, V2(type)))
<1> DEFINE event == V2(type)
           longer == Append(seq, event)
<1>1. event = [version |-> 2, type |-> type] /\ event \in EventSet /\ event.version = 2 /\ seq \in Seq(EventSet)
  BY DEF V2, EventSet, Sound
<1> HIDE DEF event
<1>2. /\ longer \in Seq(EventSet) /\ Len(seq) \in Nat /\ DOMAIN seq = 1 .. Len(seq) /\ DOMAIN longer = 1 .. Len(seq) + 1
      /\ longer[Len(seq) + 1] = event /\ \A i \in 1 .. Len(seq) : longer[i] = seq[i]
  BY <1>1, AppendedEvent
<1>3. \A guid : Stream(longer, guid) = Stream(seq, guid) /\ Stream(seq, guid) \subseteq 1 .. Len(seq)
  BY <1>1, AppendedStream, StreamsAreFinite
<1>4. Numbered(longer)
  BY <1>1, AppendedNumber DEF Sound
<1> HIDE DEF longer
<1>5. ASSUME NEW h \in state.handles
      PROVE  /\ Issued(state, h.guid) /\ h.counter = Cardinality(Stream(longer, h.guid))
             /\ \A i \in Stream(longer, h.guid) : longer[i].type = h.type
  BY <1>2, <1>3 DEF Sound
<1>6. ASSUME NEW i \in DOMAIN longer, longer[i].version = 1 PROVE Issued(state, longer[i].guid)
  <2>1. i \in 1 .. Len(seq)
    BY <1>1, <1>2, <1>6
  <2> QED BY <2>1, <1>2, <1>6 DEF Sound
<1>7. Sound(state, longer)
  BY <1>2, <1>4, <1>5, <1>6 DEF Sound
<1> QED BY <1>1, <1>7 DEF event, longer

-----------------------------------------------------------------------------
(* Events: the steps *)

LEMMA EventsInitialization ==
  ASSUME EventsInit
  PROVE  EventsInvariant
<1> USE DEF EventsInit
<1>1. /\ stored \in States /\ WellNumbered(stored) /\ stored.handles = {}
  BY EventStoreAssumption DEF States, WellNumbered, NoResource
<1>2. log \in Seq(EventSet) /\ events \in Seq(EventSet) /\ DOMAIN log = {} /\ log \o events = log
  <2> HIDE DEF EventSet
  <2>1. log \in Seq(EventSet) /\ events = log /\ Len(log) = 0
    BY EmptySeq
  <2> QED BY <2>1, ConcatEmptySeq, LenProperties
<1>3. Sound(stored, log)
  BY <1>1, <1>2 DEF Sound, Numbered
<1>4. Grown(stored, event_session)
  BY <1>1 DEF Grown
<1> QED BY <1>2, <1>3, <1>4 DEF EventsInvariant

\* In a payload handles are made while nothing is emitted.
LEMMA PayloadAdds ==
  ASSUME EventsInvariant, phase = "payload", UNCHANGED <<stored, log, phase, events, failed>>,
         event_session' \in States, WellNumbered(event_session'),
         NEW added, event_session'.handles = event_session.handles \cup added,
         \A guid \in Guids : Issued(event_session, guid) => Issued(event_session', guid),
         \A h \in added : h.counter = 0 /\ ~Issued(event_session, h.guid) /\ Issued(event_session', h.guid),
         \A h, k \in added : h.guid = k.guid => h = k
  PROVE  EventsInvariant'
<1>1. Sound(event_session, log \o events) /\ Grown(stored, event_session)
  BY DEF EventsInvariant
<1>2. Sound(event_session', log \o events) /\ Grown(stored, event_session')
  BY <1>1, HandlesAdded
<1> QED BY <1>2 DEF EventsInvariant

LEMMA PayloadAddsOne ==
  ASSUME EventsInvariant, phase = "payload", UNCHANGED <<stored, log, phase, events, failed>>,
         event_session' \in States, WellNumbered(event_session'),
         NEW handle, event_session'.handles = event_session.handles \cup {handle},
         \A guid \in Guids : Issued(event_session, guid) => Issued(event_session', guid),
         handle.counter = 0, ~Issued(event_session, handle.guid), Issued(event_session', handle.guid)
  PROVE  EventsInvariant'
<1> DEFINE added == {handle}
<1>1. \A h \in added : h.counter = 0 /\ ~Issued(event_session, h.guid) /\ Issued(event_session', h.guid)
  OBVIOUS
<1>2. \A h, k \in added : h.guid = k.guid => h = k
  OBVIOUS
<1>3. event_session'.handles = event_session.handles \cup added
  OBVIOUS
<1> HIDE DEF added
<1> QED BY <1>1, <1>2, <1>3, PayloadAdds

LEMMA NewHandleFacts ==
  ASSUME NEW addr \in Addresses, NEW number \in Nat, NEW type \in Types
  PROVE  LET h == NewEventHandle(addr, number, type)
         IN  /\ h \in HandleSet /\ h.counter = 0
             /\ h.guid.addr = addr /\ h.guid.creation_num = number
BY DEF NewEventHandle, Handle, Identifier, HandleSet, Guids

LEMMA CreateAccountStep ==
  ASSUME EventsInvariant, NEW addr \in Addresses, CreateAccount(addr)
  PROVE  EventsInvariant'
<1>1. PICK type \in Types :
        event_session' = [event_session EXCEPT !.account[addr] = 2,
                            !.handles = @ \cup {NewEventHandle(addr, 0, type), NewEventHandle(addr, 1, type)}]
  BY DEF CreateAccount
<1> DEFINE added == {NewEventHandle(addr, 0, type), NewEventHandle(addr, 1, type)}
<1>2. /\ phase = "payload" /\ UNCHANGED <<stored, log, phase, events, failed>>
      /\ event_session.account[addr] = 0
      /\ event_session \in States /\ WellNumbered(event_session)
  BY DEF CreateAccount, EventsInvariant, Sound, NoResource
<1>3. /\ added \subseteq HandleSet
      /\ \A h \in added : h.counter = 0 /\ h.guid.addr = addr /\ h.guid.creation_num \in {0, 1}
      /\ \A h, k \in added : h.guid = k.guid => h = k
  <2> DEFINE zero == NewEventHandle(addr, 0, type)
             one == NewEventHandle(addr, 1, type)
  <2>1. /\ zero \in HandleSet /\ zero.counter = 0 /\ zero.guid.addr = addr /\ zero.guid.creation_num = 0
        /\ one \in HandleSet /\ one.counter = 0 /\ one.guid.addr = addr /\ one.guid.creation_num = 1
    BY NewHandleFacts
  <2> HIDE DEF zero, one
  <2>2. zero.guid # one.guid
    BY <2>1
  <2>3. \A h \in {zero, one} : h.counter = 0 /\ h.guid.addr = addr /\ h.guid.creation_num \in {0, 1}
    BY <2>1
  <2>4. \A h, k \in {zero, one} : h.guid = k.guid => h = k
    BY <2>2
  <2>5. {zero, one} \subseteq HandleSet
    BY <2>1
  <2> QED BY <2>3, <2>4, <2>5 DEF zero, one
<1> HIDE DEF added
<1>4. event_session' = [account |-> [event_session.account EXCEPT ![addr] = 2], object |-> event_session.object,
                        handles |-> event_session.handles \cup added]
  BY <1>1, <1>2 DEF States, added
<1>5. /\ event_session'.account = [event_session.account EXCEPT ![addr] = 2]
      /\ event_session'.object = event_session.object
      /\ event_session'.handles = event_session.handles \cup added
      /\ event_session.account \in [Addresses -> Nat] /\ event_session.object \in [Addresses -> Nat]
      /\ event_session.handles \subseteq HandleSet
  BY <1>2, <1>4 DEF States
<1>6. event_session' \in States
  BY <1>3, <1>4, <1>5 DEF States
<1>7. WellNumbered(event_session')
  BY <1>2, <1>5, EventStoreAssumption DEF WellNumbered, NoResource
<1>8. \A guid \in Guids : Issued(event_session, guid) => Issued(event_session', guid)
  BY <1>2, <1>5 DEF Guids, Issued
<1>9. \A h \in added : ~Issued(event_session, h.guid) /\ Issued(event_session', h.guid)
  BY <1>2, <1>3, <1>5, EventStoreAssumption DEF Issued
<1> QED BY <1>2, <1>3, <1>5, <1>6, <1>7, <1>8, <1>9, PayloadAdds

LEMMA CreateObjectStep ==
  ASSUME EventsInvariant, NEW addr \in Addresses, CreateObject(addr)
  PROVE  EventsInvariant'
<1>1. PICK type \in Types :
        event_session' = [event_session EXCEPT !.object[addr] = GuidLimit + 1,
                            !.handles = @ \cup {NewEventHandle(addr, GuidLimit, type)}]
  BY DEF CreateObject
<1> DEFINE handle == NewEventHandle(addr, GuidLimit, type)
<1>2. /\ phase = "payload" /\ UNCHANGED <<stored, log, phase, events, failed>>
      /\ event_session.object[addr] = 0
      /\ event_session \in States /\ WellNumbered(event_session)
  BY DEF CreateObject, EventsInvariant, Sound, NoResource
<1>3. handle \in HandleSet /\ handle.counter = 0 /\ handle.guid.addr = addr /\ handle.guid.creation_num = GuidLimit
  BY NewHandleFacts, EventStoreAssumption
<1> HIDE DEF handle
<1>4. event_session' = [account |-> event_session.account, object |-> [event_session.object EXCEPT ![addr] = GuidLimit + 1],
                        handles |-> event_session.handles \cup {handle}]
  BY <1>1, <1>2 DEF States, handle
<1>5. /\ event_session'.object = [event_session.object EXCEPT ![addr] = GuidLimit + 1]
      /\ event_session'.account = event_session.account
      /\ event_session'.handles = event_session.handles \cup {handle}
      /\ event_session.account \in [Addresses -> Nat] /\ event_session.object \in [Addresses -> Nat]
      /\ event_session.handles \subseteq HandleSet
  BY <1>2, <1>4 DEF States
<1>6. event_session' \in States
  BY <1>3, <1>4, <1>5, EventStoreAssumption DEF States
<1>7. WellNumbered(event_session')
  BY <1>2, <1>5, EventStoreAssumption DEF WellNumbered, NoResource
<1>8. \A guid \in Guids : Issued(event_session, guid) => Issued(event_session', guid)
  BY <1>2, <1>5, EventStoreAssumption DEF Guids, Issued
<1>9. ~Issued(event_session, handle.guid) /\ Issued(event_session', handle.guid)
  BY <1>2, <1>3, <1>5, EventStoreAssumption DEF Issued, WellNumbered, NoResource
<1> QED BY <1>2, <1>3, <1>5, <1>6, <1>7, <1>8, <1>9, PayloadAddsOne

LEMMA AccountHandleStep ==
  ASSUME EventsInvariant, NEW addr \in Addresses, NEW type \in Types, AccountHandle(addr, type)
  PROVE  EventsInvariant'
<1> DEFINE number == event_session.account[addr]
           handle == NewEventHandle(addr, number, type)
<1>2. /\ phase = "payload" /\ UNCHANGED <<stored, log, phase, events, failed>>
      /\ number # 0 /\ number + 1 < GuidLimit
      /\ event_session \in States /\ WellNumbered(event_session)
      /\ event_session' = [event_session EXCEPT !.account[addr] = @ + 1, !.handles = @ \cup {handle}]
  BY DEF AccountHandle, EventsInvariant, Sound, NoResource
<1>3. number \in Nat /\ number \in 2 .. GuidLimit
  BY <1>2 DEF States, WellNumbered, NoResource
<1>4. handle \in HandleSet /\ handle.counter = 0 /\ handle.guid.addr = addr /\ handle.guid.creation_num = number
  BY <1>3, NewHandleFacts
<1> HIDE DEF handle
<1>5. event_session' = [account |-> [event_session.account EXCEPT ![addr] = number + 1], object |-> event_session.object,
                        handles |-> event_session.handles \cup {handle}]
  BY <1>2 DEF States
<1>6. /\ event_session'.account = [event_session.account EXCEPT ![addr] = number + 1]
      /\ event_session'.object = event_session.object
      /\ event_session'.handles = event_session.handles \cup {handle}
      /\ event_session.account \in [Addresses -> Nat] /\ event_session.object \in [Addresses -> Nat]
      /\ event_session.handles \subseteq HandleSet
  BY <1>2, <1>5 DEF States
<1>7. event_session' \in States
  BY <1>3, <1>4, <1>5, <1>6 DEF States
<1>8. WellNumbered(event_session')
  BY <1>2, <1>3, <1>6, EventStoreAssumption DEF WellNumbered, NoResource
<1>9. \A guid \in Guids : Issued(event_session, guid) => Issued(event_session', guid)
  BY <1>3, <1>6 DEF Guids, Issued
<1>10. ~Issued(event_session, handle.guid) /\ Issued(event_session', handle.guid)
  BY <1>2, <1>3, <1>4, <1>6, EventStoreAssumption DEF Issued
<1> QED BY <1>2, <1>4, <1>6, <1>7, <1>8, <1>9, <1>10, PayloadAddsOne

LEMMA ObjectHandleStep ==
  ASSUME EventsInvariant, NEW addr \in Addresses, NEW type \in Types, ObjectHandle(addr, type)
  PROVE  EventsInvariant'
<1> DEFINE number == event_session.object[addr]
           handle == NewEventHandle(addr, number, type)
<1>2. /\ phase = "payload" /\ UNCHANGED <<stored, log, phase, events, failed>>
      /\ number # 0
      /\ event_session \in States /\ WellNumbered(event_session)
      /\ event_session' = [event_session EXCEPT !.object[addr] = @ + 1, !.handles = @ \cup {handle}]
  BY DEF ObjectHandle, EventsInvariant, Sound, NoResource
<1>3. number \in Nat /\ number > GuidLimit
  BY <1>2 DEF States, WellNumbered, NoResource
<1>4. handle \in HandleSet /\ handle.counter = 0 /\ handle.guid.addr = addr /\ handle.guid.creation_num = number
  BY <1>3, NewHandleFacts
<1> HIDE DEF handle
<1>5. event_session' = [account |-> event_session.account, object |-> [event_session.object EXCEPT ![addr] = number + 1],
                        handles |-> event_session.handles \cup {handle}]
  BY <1>2 DEF States
<1>6. /\ event_session'.object = [event_session.object EXCEPT ![addr] = number + 1]
      /\ event_session'.account = event_session.account
      /\ event_session'.handles = event_session.handles \cup {handle}
      /\ event_session.account \in [Addresses -> Nat] /\ event_session.object \in [Addresses -> Nat]
      /\ event_session.handles \subseteq HandleSet
  BY <1>2, <1>5 DEF States
<1>7. event_session' \in States
  BY <1>3, <1>4, <1>5, <1>6 DEF States
<1>8. WellNumbered(event_session')
  BY <1>2, <1>3, <1>6, EventStoreAssumption DEF WellNumbered, NoResource
<1>9. \A guid \in Guids : Issued(event_session, guid) => Issued(event_session', guid)
  BY <1>3, <1>6 DEF Guids, Issued
<1>10. ~Issued(event_session, handle.guid) /\ Issued(event_session', handle.guid)
  <2>1. event_session.account[addr] \in Nat /\ event_session.account[addr] <= GuidLimit
    BY <1>2, <1>6, EventStoreAssumption DEF WellNumbered, NoResource
  <2> QED BY <2>1, <1>2, <1>3, <1>4, <1>6, EventStoreAssumption DEF Issued
<1> QED BY <1>2, <1>4, <1>6, <1>7, <1>8, <1>9, <1>10, PayloadAddsOne

LEMMA DestroyHandleStep ==
  ASSUME EventsInvariant, NEW handle \in event_session.handles, DestroyHandle(handle)
  PROVE  EventsInvariant'
<1> DEFINE state == event_session
           next == [account |-> state.account, object |-> state.object, handles |-> state.handles \ {handle}]
<1>1. /\ state \in States /\ UNCHANGED <<stored, log, phase, events, failed>> /\ phase = "payload"
      /\ Sound(state, log \o events) /\ Grown(stored, state)
  BY DEF EventsInvariant, DestroyHandle, Sound
<1>2. event_session' = next
  BY <1>1 DEF DestroyHandle, States
<1>3. /\ next \in States /\ next.account = state.account /\ next.object = state.object
      /\ next.handles \subseteq state.handles
  BY <1>1 DEF States
<1> HIDE DEF next, state
<1>4. \A guid : Issued(state, guid) <=> Issued(next, guid)
  BY <1>3 DEF Issued
<1>5. Sound(next, log \o events)
  BY <1>1, <1>3, <1>4 DEF Sound, WellNumbered
<1>6. Grown(stored, next)
  BY <1>1, <1>3, <1>4 DEF Grown
<1> QED BY <1>1, <1>2, <1>5, <1>6 DEF EventsInvariant

\* What is pushed on the context comes last.
LEMMA PushedLast ==
  ASSUME EventsInvariant, NEW event \in EventSet
  PROVE  /\ Append(events, event) \in Seq(EventSet)
         /\ log \o Append(events, event) = Append(log \o events, event)
<1> HIDE DEF EventSet
<1> DEFINE whole == log \o events
           longer == Append(events, event)
<1>1. log \in Seq(EventSet) /\ events \in Seq(EventSet) /\ longer \in Seq(EventSet) /\ whole \in Seq(EventSet)
  BY ConcatProperties, AppendProperties DEF EventsInvariant
<1>2. /\ Len(longer) = Len(events) + 1 /\ Len(whole) = Len(log) + Len(events)
      /\ Len(log) \in Nat /\ Len(events) \in Nat
      /\ \A i \in 1 .. Len(longer) : longer[i] = IF i = Len(events) + 1 THEN event ELSE events[i]
      /\ \A i \in 1 .. Len(whole) : whole[i] = IF i <= Len(log) THEN log[i] ELSE events[i - Len(log)]
  BY <1>1, ConcatProperties, AppendProperties, LenProperties
<1>3. /\ log \o longer \in Seq(EventSet) /\ Len(log \o longer) = Len(log) + Len(longer)
      /\ \A i \in 1 .. Len(log) + Len(longer) : (log \o longer)[i] = IF i <= Len(log) THEN log[i] ELSE longer[i - Len(log)]
  BY <1>1, ConcatProperties
<1>4. /\ Append(whole, event) \in Seq(EventSet) /\ Len(Append(whole, event)) = Len(whole) + 1
      /\ \A i \in 1 .. Len(whole) + 1 : Append(whole, event)[i] = IF i = Len(whole) + 1 THEN event ELSE whole[i]
  BY <1>1, AppendProperties, LenProperties
<1> HIDE DEF whole, longer
<1>5. ASSUME NEW i \in 1 .. Len(log \o longer) PROVE (log \o longer)[i] = Append(whole, event)[i]
  <2>1. /\ i \in 1 .. Len(log) + Len(events) + 1 /\ i \in 1 .. Len(log) + Len(longer)
        /\ i \in 1 .. Len(whole) + 1
    BY <1>2, <1>3
  <2>2. CASE i <= Len(log)
    BY <2>1, <2>2, <1>2, <1>3, <1>4
  <2>3. CASE i > Len(log) /\ i <= Len(log) + Len(events)
    <3>1. i - Len(log) \in 1 .. Len(longer) /\ i - Len(log) # Len(events) + 1 /\ i \in 1 .. Len(whole)
      BY <2>1, <2>3, <1>2
    <3>2. (log \o longer)[i] = events[i - Len(log)]
      BY <2>1, <2>3, <3>1, <1>2, <1>3
    <3>3. Append(whole, event)[i] = events[i - Len(log)]
      BY <2>1, <2>3, <3>1, <1>2, <1>4
    <3> QED BY <3>2, <3>3
  <2>4. CASE i = Len(log) + Len(events) + 1
    <3>1. i - Len(log) = Len(events) + 1 /\ i - Len(log) \in 1 .. Len(longer) /\ ~(i <= Len(log))
      BY <2>4, <1>2
    <3>2. (log \o longer)[i] = event
      BY <2>1, <3>1, <1>2, <1>3
    <3>3. Append(whole, event)[i] = event
      BY <2>1, <2>4, <1>2, <1>4
    <3> QED BY <3>2, <3>3
  <2>5. i <= Len(log) \/ (i > Len(log) /\ i <= Len(log) + Len(events)) \/ i = Len(log) + Len(events) + 1
    <3>1. i \in Int /\ Len(log) \in Int /\ Len(events) \in Int /\ i <= Len(log) + Len(events) + 1
      BY <2>1, <1>2
    <3> QED BY <3>1
  <2> QED BY <2>2, <2>3, <2>4, <2>5
<1>6. Len(log \o longer) = Len(Append(whole, event))
  BY <1>2, <1>3, <1>4
<1>7. log \o longer = Append(whole, event)
  BY <1>3, <1>4, <1>5, <1>6, SeqEqual
<1> QED BY <1>1, <1>7 DEF whole, longer

LEMMA EmitEventStep ==
  ASSUME EventsInvariant, NEW handle \in event_session.handles, EmitEvent(handle)
  PROVE  EventsInvariant'
<1> DEFINE event == V1(handle.guid, handle.counter, handle.type)
           next == [event_session EXCEPT !.handles = (@ \ {handle}) \cup {[handle EXCEPT !.counter = @ + 1]}]
<1>1. /\ phase = "payload" /\ events' = Append(events, event) /\ event_session' = next
      /\ UNCHANGED <<stored, log, phase, failed>>
  BY DEF EmitEvent, Push
<1>2. Sound(event_session, log \o events) /\ Grown(stored, event_session)
  BY DEF EventsInvariant
<1>3. event \in EventSet /\ Sound(next, Append(log \o events, event)) /\ Grown(stored, next)
  BY <1>2, HandleEmits
<1> HIDE DEF event, next
<1>4. events' \in Seq(EventSet) /\ log' \o events' = Append(log \o events, event)
  BY <1>1, <1>3, PushedLast
<1> QED BY <1>1, <1>3, <1>4 DEF EventsInvariant

LEMMA EmitStep ==
  ASSUME EventsInvariant, NEW type \in Types, Emit(type)
  PROVE  EventsInvariant'
<1>1. /\ phase = "payload" /\ events' = Append(events, V2(type))
      /\ UNCHANGED <<stored, log, phase, event_session, failed>>
  BY DEF Emit, Push
<1>2. V2(type) \in EventSet /\ Sound(event_session, Append(log \o events, V2(type)))
  BY ModuleEmits DEF EventsInvariant
<1>3. events' \in Seq(EventSet) /\ log' \o events' = Append(log \o events, V2(type))
  BY <1>1, <1>2, PushedLast
<1> QED BY <1>1, <1>2, <1>3 DEF EventsInvariant

\* A context without events adds nothing to what is stored.
LEMMA NothingEmitted ==
  ASSUME NEW seq \in Seq(EventSet)
  PROVE  << >> \in Seq(EventSet) /\ seq \o << >> = seq
<1> HIDE DEF EventSet
<1> QED BY EmptySeq, ConcatEmptySeq

LEMMA GrownFromItself ==
  ASSUME NEW state
  PROVE  Grown(state, state)
BY DEF Grown

LEMMA StartPayloadStep ==
  ASSUME EventsInvariant, StartPayload
  PROVE  EventsInvariant'
<1>1. /\ event_session = stored /\ phase' = "payload" /\ events' = << >> /\ UNCHANGED <<stored, log, event_session>>
  BY DEF StartPayload, EventsInvariant
<1>2. events' \in Seq(EventSet) /\ log' \o events' = log
  BY <1>1, NothingEmitted DEF EventsInvariant
<1>3. Sound(event_session', log' \o events') /\ Sound(stored', log') /\ Grown(stored', event_session')
  BY <1>1, <1>2, GrownFromItself DEF EventsInvariant
<1> QED BY <1>1, <1>2, <1>3 DEF EventsInvariant

LEMMA FailStep ==
  ASSUME ~Continuous, EventsInvariant, Fail
  PROVE  EventsInvariant'
<1>1. /\ event_session' = stored /\ phase' = "epilogue" /\ events' = << >> /\ UNCHANGED <<stored, log>>
  BY DEF Fail
<1>2. events' \in Seq(EventSet) /\ log' \o events' = log
  BY <1>1, NothingEmitted DEF EventsInvariant
<1>3. Sound(event_session', log' \o events') /\ Sound(stored', log') /\ Grown(stored', event_session')
  BY <1>1, <1>2, GrownFromItself DEF EventsInvariant
<1> QED BY <1>1, <1>2, <1>3 DEF EventsInvariant

LEMMA EpilogueStep ==
  ASSUME EventsInvariant, Epilogue
  PROVE  EventsInvariant'
<1>1. /\ phase' = "idle" /\ log' = log \o Append(events, V2(Fee)) /\ stored' = event_session
      /\ events' = << >> /\ event_session' = event_session
  BY DEF Epilogue
<1>2. V2(Fee) \in EventSet /\ Sound(event_session, Append(log \o events, V2(Fee)))
  BY ModuleEmits DEF EventsInvariant
<1>3. log' = Append(log \o events, V2(Fee))
  BY <1>1, <1>2, PushedLast
<1>4. Sound(stored', log') /\ log' \in Seq(EventSet)
  BY <1>1, <1>2, <1>3 DEF Sound
<1>5. events' \in Seq(EventSet) /\ log' \o events' = log'
  BY <1>1, <1>4, NothingEmitted
<1>6. Sound(event_session', log' \o events') /\ Grown(stored', event_session')
  BY <1>1, <1>4, <1>5, GrownFromItself
<1> QED BY <1>1, <1>4, <1>5, <1>6 DEF EventsInvariant

LEMMA EventsInvariance ==
  ASSUME ~Continuous
  PROVE  EventsSpec => []EventsInvariant
<1>1. EventsInvariant /\ [EventsNext]_event_vars => EventsInvariant'
  <2> SUFFICES ASSUME EventsInvariant, [EventsNext]_event_vars PROVE EventsInvariant'
    OBVIOUS
  <2>1. CASE StartPayload
    BY <2>1, StartPayloadStep
  <2>2. CASE Succeed
    BY <2>2 DEF Succeed, EventsInvariant
  <2>3. CASE Fail
    BY <2>3, FailStep
  <2>4. CASE Epilogue
    BY <2>4, EpilogueStep
  <2>5. ASSUME NEW addr \in Addresses, CreateAccount(addr) PROVE EventsInvariant'
    BY <2>5, CreateAccountStep
  <2>6. ASSUME NEW addr \in Addresses, CreateObject(addr) PROVE EventsInvariant'
    BY <2>6, CreateObjectStep
  <2>7. ASSUME NEW addr \in Addresses, NEW type \in Types, AccountHandle(addr, type) PROVE EventsInvariant'
    BY <2>7, AccountHandleStep
  <2>8. ASSUME NEW addr \in Addresses, NEW type \in Types, ObjectHandle(addr, type) PROVE EventsInvariant'
    BY <2>8, ObjectHandleStep
  <2>9. ASSUME NEW handle \in event_session.handles, DestroyHandle(handle) PROVE EventsInvariant'
    BY <2>9, DestroyHandleStep
  <2>10. ASSUME NEW handle \in event_session.handles, EmitEvent(handle) PROVE EventsInvariant'
    BY <2>10, EmitEventStep
  <2>11. ASSUME NEW type \in Types, Emit(type) PROVE EventsInvariant'
    BY <2>11, EmitStep
  <2>12. CASE UNCHANGED event_vars
    BY <2>12 DEF event_vars, EventsInvariant
  <2> QED BY <2>1, <2>2, <2>3, <2>4, <2>5, <2>6, <2>7, <2>8, <2>9, <2>10, <2>11, <2>12 DEF EventsNext
<1>2. EventsInit => EventsInvariant
  BY EventsInitialization
<1> QED BY <1>1, <1>2, PTL DEF EventsSpec

-----------------------------------------------------------------------------
(* Events: what the invariant says *)

\* The events of a stream in a sequence of two parts are those of the parts.
LEMMA StreamsAdd ==
  ASSUME NEW first \in Seq(EventSet), NEW second \in Seq(EventSet), NEW guid
  PROVE  Cardinality(Stream(first \o second, guid)) =
           Cardinality(Stream(first, guid)) + Cardinality(Stream(second, guid))
<1> DEFINE whole == first \o second
           n == Len(first)
           m == Len(second)
           later == {n + i : i \in Stream(second, guid)}
           shift == [i \in Stream(second, guid) |-> n + i]
<1>1. /\ n \in Nat /\ m \in Nat /\ DOMAIN first = 1 .. n /\ DOMAIN second = 1 .. m /\ DOMAIN whole = 1 .. n + m
      /\ \A i \in 1 .. n + m : whole[i] = IF i <= n THEN first[i] ELSE second[i - n]
  <2> HIDE DEF EventSet
  <2>1. whole \in Seq(EventSet) /\ Len(whole) = n + m
    BY ConcatProperties
  <2> QED BY <2>1, ConcatProperties, LenProperties
<1>2. /\ Stream(first, guid) \subseteq 1 .. n /\ IsFiniteSet(Stream(first, guid)) /\ Cardinality(Stream(first, guid)) \in Nat
      /\ Stream(second, guid) \subseteq 1 .. m /\ IsFiniteSet(Stream(second, guid)) /\ Cardinality(Stream(second, guid)) \in Nat
  BY StreamsAreFinite
<1> HIDE DEF whole, n, m
<1>3. Stream(whole, guid) = Stream(first, guid) \cup later
  <2>1. ASSUME NEW i \in Stream(whole, guid) PROVE i \in Stream(first, guid) \cup later
    <3>1. CASE i <= n
      BY <3>1, <1>1 DEF Stream
    <3>2. CASE ~(i <= n)
      <4>1. i - n \in Stream(second, guid) /\ i = n + (i - n)
        BY <3>2, <1>1 DEF Stream
      <4> QED BY <4>1
    <3> QED BY <3>1, <3>2
  <2>2. Stream(first, guid) \subseteq Stream(whole, guid)
    BY <1>1 DEF Stream
  <2>3. ASSUME NEW i \in Stream(second, guid) PROVE n + i \in Stream(whole, guid)
    <3>1. i \in 1 .. m /\ second[i].version = 1 /\ second[i].guid = guid
      BY <1>1 DEF Stream
    <3>2. n + i \in 1 .. n + m /\ ~(n + i <= n) /\ (n + i) - n = i
      BY <3>1, <1>1
    <3>3. whole[n + i] = second[i]
      BY <3>2, <1>1
    <3> QED BY <3>1, <3>2, <3>3, <1>1 DEF Stream
  <2> QED BY <2>1, <2>2, <2>3
<1>4. IsFiniteSet(later) /\ Cardinality(later) = Cardinality(Stream(second, guid))
  <2>1. shift \in Bijection(Stream(second, guid), later)
    <3>1. shift \in [Stream(second, guid) -> later]
      OBVIOUS
    <3>2. \A i, j \in Stream(second, guid) : shift[i] = shift[j] => i = j
      BY <1>1, <1>2
    <3>3. \A t \in later : \E i \in Stream(second, guid) : shift[i] = t
      OBVIOUS
    <3> HIDE DEF shift, later
    <3> QED BY <3>1, <3>2, <3>3 DEF Bijection, Injection, Surjection, IsInjective
  <2>2. ExistsBijection(Stream(second, guid), later)
    BY <2>1 DEF ExistsBijection
  <2> QED BY <2>2, <1>2, FS_Bijection
<1>5. Stream(first, guid) \cap later = {}
  BY <1>1, <1>2
<1>6. Cardinality(Stream(whole, guid)) = Cardinality(Stream(first, guid)) + Cardinality(later)
  <2> HIDE DEF later
  <2>1. Cardinality(Stream(first, guid) \cup later) =
          Cardinality(Stream(first, guid)) + Cardinality(later) - Cardinality(Stream(first, guid) \cap later)
    BY <1>2, <1>4, FS_Union
  <2>2. Cardinality(Stream(first, guid) \cap later) = 0
    BY <1>5, FS_EmptySet
  <2> QED BY <2>1, <2>2, <1>2, <1>3, <1>4
<1> QED BY <1>4, <1>6 DEF whole

LEMMA EventsAreSound == EventsInvariant => EventStreamsAreComplete
<1> SUFFICES ASSUME EventsInvariant PROVE EventStreamsAreComplete
  OBVIOUS
<1>1. StreamsAreComplete
  BY DEF EventsInvariant, Sound, Numbered, Earlier, StreamsAreComplete
<1>2. GuidsAreUnique
  BY DEF EventsInvariant, Sound, GuidsAreUnique
<1>3. ASSUME NEW h \in event_session.handles
      PROVE  LET before == {k \in stored.handles : k.guid = h.guid}
             IN  h.counter = Cardinality(EmittedEventsByHandle(h)) +
                   (IF before = {} THEN 0 ELSE (CHOOSE k \in before : TRUE).counter)
  <2> DEFINE whole == log \o events
             before == {k \in stored.handles : k.guid = h.guid}
  <2>1. log \in Seq(EventSet) /\ events \in Seq(EventSet) /\ DOMAIN log = 1 .. Len(log) /\ Len(log) \in Nat
    <3> HIDE DEF EventSet
    <3> QED BY LenProperties DEF EventsInvariant
  <2>2. /\ h.counter = Cardinality(Stream(whole, h.guid))
        /\ \A i \in Stream(whole, h.guid) : whole[i].type = h.type
    BY DEF EventsInvariant, Sound
  <2>3. h.counter = Cardinality(Stream(log, h.guid)) + Cardinality(Stream(events, h.guid))
    BY <2>1, <2>2, StreamsAdd
  <2>4. EmittedEventsByHandle(h) = Stream(events, h.guid)
    <3>1. ASSUME NEW i \in Stream(events, h.guid) PROVE events[i].type = h.type
      <4>1. i \in 1 .. Len(events) /\ Len(events) \in Nat /\ events[i].version = 1 /\ events[i].guid = h.guid
        <5> HIDE DEF EventSet
        <5> QED BY <2>1, LenProperties DEF Stream
      <4>2. /\ Len(log) + i \in DOMAIN whole /\ whole[Len(log) + i] = events[i]
        <5> HIDE DEF EventSet
        <5>1. /\ whole \in Seq(EventSet) /\ Len(whole) = Len(log) + Len(events)
              /\ \A j \in 1 .. Len(log) + Len(events) : whole[j] = IF j <= Len(log) THEN log[j] ELSE events[j - Len(log)]
          BY <2>1, ConcatProperties
        <5>2. DOMAIN whole = 1 .. Len(whole)
          BY <5>1, LenProperties
        <5> HIDE DEF whole
        <5>3. Len(log) + i \in 1 .. Len(log) + Len(events) /\ ~(Len(log) + i <= Len(log)) /\ (Len(log) + i) - Len(log) = i
          BY <2>1, <4>1
        <5> QED BY <5>1, <5>2, <5>3
      <4>3. Len(log) + i \in Stream(whole, h.guid)
        BY <4>1, <4>2 DEF Stream
      <4> QED BY <2>2, <4>2, <4>3
    <3> QED BY <3>1 DEF EmittedEventsByHandle, Stream
  <2>5. CASE before = {}
    <3>1. h.guid \in Guids /\ ~Issued(stored, h.guid)
      BY <2>5 DEF EventsInvariant, Grown, Sound, States, HandleSet
    <3>2. Stream(log, h.guid) = {}
      BY <3>1 DEF EventsInvariant, Sound, Stream
    <3>3. Cardinality({}) = 0 /\ Cardinality(Stream(events, h.guid)) \in Nat
      BY <2>1, FS_EmptySet, StreamsAreFinite
    <3> QED BY <2>3, <2>4, <2>5, <3>2, <3>3
  <2>6. CASE before # {}
    <3> DEFINE k == CHOOSE x \in before : TRUE
    <3>1. k \in stored.handles /\ k.guid = h.guid
      BY <2>6
    <3>2. k.counter = Cardinality(Stream(log, h.guid))
      BY <3>1 DEF EventsInvariant, Sound
    <3>3. /\ Cardinality(Stream(log, h.guid)) \in Nat /\ Cardinality(Stream(events, h.guid)) \in Nat
      BY <2>1, StreamsAreFinite
    <3> HIDE DEF before
    <3> QED BY <2>3, <2>4, <2>6, <3>2, <3>3 DEF before
  <2> QED BY <2>5, <2>6
<1>4. CountersMatchContext
  BY <1>3 DEF CountersMatchContext
<1> QED BY <1>1, <1>2, <1>4 DEF EventStreamsAreComplete

\* With a context for each session, the stored events of a handle are numbered without gap by its
\* counter, for every sequence of payloads that succeed or fail.
THEOREM EventsCorrectness ==
  ASSUME ~Continuous
  PROVE  EventsSpec => []EventStreamsAreComplete
BY EventsInvariance, EventsAreSound, PTL

-----------------------------------------------------------------------------
(* Dispatch to named functions *)

\* m, with function f, is a target that dispatcher d was promised.
Suits(d, m, f) == f # NoTarget /\ HasType(d, f) /\ f.public /\ ~f.native /\ HomeModule[d] # m

\* The functions that modules have now suit the hooks h and the authenticators a.
TargetsSuit(functions, h, a) ==
  /\ h # NoTarget => \A d \in Hooks : h[d] # NoTarget => Suits(d, h[d], functions[h[d]])
  /\ \A m \in a : Suits("authenticate", m, functions[m])

DispatchInv ==
  /\ DispatchTypeOK
  /\ TargetsSuit(chain, hooks, authenticators) /\ TargetsSuit(chain, saved.hooks, saved.authenticators)
  /\ running => aborted = "no"
  /\ DispatchedAsChecked /\ RegisteredTargetsDispatch

\* The parts of the type invariant that the steps use.
LEMMA RegistrationTypes ==
  ASSUME DispatchTypeOK
  PROVE  /\ hooks \in [Hooks -> Modules \cup {NoTarget}] \cup {NoTarget}
         /\ authenticators \subseteq Modules /\ derivable \subseteq Modules
         /\ saved.hooks \in [Hooks -> Modules \cup {NoTarget}] \cup {NoTarget}
         /\ saved.authenticators \subseteq Modules /\ saved.derivable \subseteq Modules
  BY DEF DispatchTypeOK, Registrations

\* What an accepted registration found out.
LEMMA AcceptedTarget ==
  ASSUME NEW d, NEW m, NEW seen, MayRegister(d, m, seen)
  PROVE  Suits(d, m, chain[m])
  BY DEF MayRegister, Suits, Published, native_check_dispatch_type_compatibility_impl

LEMMA LoadedModules ==
  ASSUME NEW m \in Modules, NEW seen, seen \subseteq Modules \ Special
  PROVE  native_load_function_impl(m, seen) \subseteq Modules \ Special
  BY DEF native_load_function_impl

LEMMA NothingSuits == TargetsSuit(chain', NothingRegistered.hooks, NothingRegistered.authenticators)
  BY DEF NothingRegistered, TargetsSuit

LEMMA NothingHasItsType == NothingRegistered \in Registrations
  BY DEF NothingRegistered, Registrations

\* An abort goes back to what was registered before the transaction, wherever it happens.
LEMMA AbortTransactionStep ==
  ASSUME DispatchInv, NEW attempt \in [by : Hooks \cup {"authenticate", "derivable"}, target : Modules] \cup {NoTarget},
         NEW why \in {"registration", "not loaded", "not published", "authenticator"},
         why = "not loaded" => abstractions = {} /\ attempt.by \in Hooks /\ attempt.target \in Special,
         why = "not published" => attempt.by = "derivable",
         AbortTransaction(why, attempt)
  PROVE  DispatchInv'
<1>1. /\ running' = FALSE /\ visited' = {} /\ dispatched' = attempt /\ aborted' = why
      /\ hooks' = saved.hooks /\ authenticators' = saved.authenticators /\ derivable' = saved.derivable
      /\ saved' = NothingRegistered /\ UNCHANGED <<chain, abstractions>>
  BY DEF AbortTransaction
<1>2. [hooks |-> hooks', authenticators |-> authenticators', derivable |-> derivable'] \in Registrations
  BY <1>1, RegistrationTypes DEF DispatchInv, Registrations
<1>3. DispatchTypeOK'
  BY <1>1, <1>2, NothingHasItsType DEF DispatchInv, DispatchTypeOK
<1>4. TargetsSuit(chain, hooks, authenticators)' /\ TargetsSuit(chain, saved.hooks, saved.authenticators)'
  BY <1>1, NothingSuits DEF DispatchInv
<1>5. DispatchedAsChecked' /\ RegisteredTargetsDispatch'
  BY <1>1 DEF DispatchedAsChecked, RegisteredTargetsDispatch
<1> QED BY <1>1, <1>3, <1>4, <1>5 DEF DispatchInv

\* A registration or an authentication that is refused.
LEMMA RefusedStep ==
  ASSUME DispatchInv, NEW why \in {"registration", "authenticator"}, AbortTransaction(why, NoTarget)
  PROVE  DispatchInv'
  BY AbortTransactionStep

\* An upgrade keeps what was checked.
LEMMA PublishStep ==
  ASSUME DispatchInv, NEW m \in Modules, NEW f \in TargetFunctions, Publish(m, f)
  PROVE  DispatchInv'
<1>1. /\ ~running /\ chain' = [chain EXCEPT ![m] = f] /\ dispatched' = NoTarget /\ aborted' = "no"
      /\ UNCHANGED <<abstractions, hooks, authenticators, derivable, running, visited, saved>>
  BY DEF Publish, registered
<1>2. chain \in [Modules -> TargetFunctions \cup {NoTarget}]
  BY DEF DispatchInv, DispatchTypeOK
<1>3. DispatchTypeOK'
  BY <1>1, <1>2 DEF DispatchInv, DispatchTypeOK
<1>4. ASSUME NEW d, NEW t \in Modules, Suits(d, t, chain[t]) PROVE Suits(d, t, chain'[t])
  <2>1. chain'[t] = chain[t]
    <3>1. CASE t = m
      <4>1. Published(m) /\ chain[m].public
        BY <1>4, <3>1 DEF Suits, Published
      <4>2. f = chain[m]
        BY <4>1 DEF Publish
      <4> QED BY <1>1, <1>2, <3>1, <4>2
    <3>2. CASE t # m
      BY <1>1, <1>2, <3>2
    <3> QED BY <3>1, <3>2
  <2> QED BY <1>4, <2>1
<1>5. ASSUME NEW h \in [Hooks -> Modules \cup {NoTarget}] \cup {NoTarget}, NEW a \in SUBSET Modules,
             TargetsSuit(chain, h, a)
      PROVE  TargetsSuit(chain', h, a)
  BY <1>4, <1>5 DEF TargetsSuit
<1>6. TargetsSuit(chain, hooks, authenticators)' /\ TargetsSuit(chain, saved.hooks, saved.authenticators)'
  BY <1>1, <1>5, RegistrationTypes DEF DispatchInv
<1>7. DispatchedAsChecked' /\ RegisteredTargetsDispatch'
  BY <1>1 DEF DispatchedAsChecked, RegisteredTargetsDispatch
<1> QED BY <1>1, <1>3, <1>6, <1>7 DEF DispatchInv

LEMMA SetFeaturesStep ==
  ASSUME DispatchInv, NEW flags \in SUBSET {"account", "derived"}, SetFeatures(flags)
  PROVE  DispatchInv'
<1>1. /\ ~running /\ abstractions' = flags /\ dispatched' = NoTarget /\ aborted' = "no"
      /\ UNCHANGED <<chain, hooks, authenticators, derivable, running, visited, saved>>
  BY DEF SetFeatures, registered
<1>2. DispatchTypeOK'
  BY <1>1 DEF DispatchInv, DispatchTypeOK
<1>3. DispatchedAsChecked' /\ RegisteredTargetsDispatch'
  BY <1>1 DEF DispatchedAsChecked, RegisteredTargetsDispatch
<1> QED BY <1>1, <1>2, <1>3 DEF DispatchInv

LEMMA StartTransactionStep ==
  ASSUME DispatchInv, NEW loaded \in SUBSET Modules, StartTransaction(loaded)
  PROVE  DispatchInv'
<1>1. /\ running' = TRUE /\ visited' = loaded \ Special /\ dispatched' = NoTarget /\ aborted' = "no"
      /\ saved' = [hooks |-> hooks, authenticators |-> authenticators, derivable |-> derivable]
      /\ UNCHANGED <<chain, abstractions, hooks, authenticators, derivable>>
  BY DEF StartTransaction, registered
<1>2. saved'.hooks = hooks /\ saved'.authenticators = authenticators
  BY <1>1
<1>3. DispatchTypeOK'
  BY <1>1, <1>2 DEF DispatchInv, DispatchTypeOK
<1>4. DispatchedAsChecked' /\ RegisteredTargetsDispatch'
  BY <1>1 DEF DispatchedAsChecked, RegisteredTargetsDispatch
<1> QED BY <1>1, <1>2, <1>3, <1>4 DEF DispatchInv

LEMMA FinishTransactionStep == ASSUME DispatchInv, FinishTransaction PROVE DispatchInv'
<1>1. /\ running' = FALSE /\ visited' = {} /\ dispatched' = NoTarget /\ saved' = NothingRegistered
      /\ aborted = "no" /\ UNCHANGED <<chain, abstractions, hooks, authenticators, derivable, aborted>>
  BY DEF FinishTransaction, registered, DispatchInv
<1>2. DispatchTypeOK'
  BY <1>1, NothingHasItsType DEF DispatchInv, DispatchTypeOK
<1>3. TargetsSuit(chain, hooks, authenticators)' /\ TargetsSuit(chain, saved.hooks, saved.authenticators)'
  BY <1>1, NothingSuits DEF DispatchInv
<1>4. DispatchedAsChecked' /\ RegisteredTargetsDispatch'
  BY <1>1 DEF DispatchedAsChecked, RegisteredTargetsDispatch
<1> QED BY <1>1, <1>2, <1>3, <1>4 DEF DispatchInv

LEMMA RegisterStep ==
  ASSUME DispatchInv, NEW given \in [Hooks -> Modules \cup {NoTarget}], register_dispatch_functions(given)
  PROVE  DispatchInv'
<1> DEFINE targets == {given[d] : d \in Hooks} \ {NoTarget}
           compatible == \A d \in Hooks : given[d] # NoTarget => MayRegister(d, given[d], visited)
<1>1. CASE ~(compatible /\ hooks = NoTarget)
  BY <1>1, RefusedStep DEF register_dispatch_functions
<1>2. CASE compatible /\ hooks = NoTarget
  <2>1. /\ running /\ hooks' = given /\ visited' = visited \cup (targets \ Special)
        /\ UNCHANGED <<chain, abstractions, authenticators, derivable, running, saved, dispatched, aborted>>
    BY <1>2 DEF register_dispatch_functions
  <2>2. targets \subseteq Modules
    OBVIOUS
  <2>3. [hooks |-> hooks', authenticators |-> authenticators', derivable |-> derivable'] \in Registrations
    BY <2>1, RegistrationTypes DEF DispatchInv, Registrations
  <2>4. DispatchTypeOK'
    BY <2>1, <2>2, <2>3 DEF DispatchInv, DispatchTypeOK
  <2>5. \A d \in Hooks : given[d] # NoTarget => Suits(d, given[d], chain[given[d]])
    BY <1>2, AcceptedTarget
  <2>6. TargetsSuit(chain, hooks, authenticators)' /\ TargetsSuit(chain, saved.hooks, saved.authenticators)'
    BY <2>1, <2>5 DEF DispatchInv, TargetsSuit
  <2>7. DispatchedAsChecked' /\ RegisteredTargetsDispatch'
    BY <2>1 DEF DispatchInv, DispatchedAsChecked, RegisteredTargetsDispatch
  <2> QED BY <2>1, <2>4, <2>6, <2>7 DEF DispatchInv
<1> QED BY <1>1, <1>2

\* A step of a running transaction that only changes authenticators for others that suit, or derivable
\* authenticators, which nothing is known of.
LEMMA AuthenticatorsStep ==
  ASSUME DispatchInv, running, authenticators' \subseteq Modules, derivable' \subseteq Modules,
         visited' \subseteq Modules \ Special,
         \A m \in authenticators' : Suits("authenticate", m, chain[m]),
         UNCHANGED <<chain, abstractions, hooks, running, saved, dispatched, aborted>>
  PROVE  DispatchInv'
<1>1. [hooks |-> hooks', authenticators |-> authenticators', derivable |-> derivable'] \in Registrations
  BY RegistrationTypes DEF DispatchInv, Registrations
<1>2. DispatchTypeOK'
  BY <1>1 DEF DispatchInv, DispatchTypeOK
<1>3. TargetsSuit(chain, hooks, authenticators)' /\ TargetsSuit(chain, saved.hooks, saved.authenticators)'
  BY DEF DispatchInv, TargetsSuit
<1>4. DispatchedAsChecked' /\ RegisteredTargetsDispatch'
  BY DEF DispatchInv, DispatchedAsChecked, RegisteredTargetsDispatch
<1> QED BY <1>2, <1>3, <1>4 DEF DispatchInv

LEMMA UpdateAuthenticatorStep ==
  ASSUME DispatchInv, NEW m \in Modules, NEW is_add \in BOOLEAN,
         update_dispatchable_authenticator_impl(m, is_add)
  PROVE  DispatchInv'
<1> DEFINE accepted == /\ is_add => "account" \in abstractions
                       /\ MayRegister("authenticate", m, visited)
                       /\ is_add <=> m \notin authenticators
<1>1. CASE ~accepted
  BY <1>1, RefusedStep DEF update_dispatchable_authenticator_impl
<1>2. CASE accepted
  <2>1. /\ running /\ authenticators' \subseteq authenticators \cup {m}
        /\ visited' = native_load_function_impl(m, visited)
        /\ UNCHANGED <<chain, abstractions, hooks, derivable, running, saved, dispatched, aborted>>
    BY <1>2 DEF update_dispatchable_authenticator_impl
  <2>2. Suits("authenticate", m, chain[m])
    BY <1>2, AcceptedTarget
  <2>3. visited' \subseteq Modules \ Special
    BY <2>1, LoadedModules DEF DispatchInv, DispatchTypeOK
  <2>4. \A t \in authenticators' : Suits("authenticate", t, chain[t])
    BY <2>1, <2>2 DEF DispatchInv, TargetsSuit
  <2>5. authenticators' \subseteq Modules /\ derivable' \subseteq Modules
    BY <2>1, RegistrationTypes DEF DispatchInv
  <2> QED BY <2>1, <2>3, <2>4, <2>5, AuthenticatorsStep
<1> QED BY <1>1, <1>2

LEMMA RemoveAuthenticatorStep == ASSUME DispatchInv, remove_authenticator PROVE DispatchInv'
<1>1. /\ running /\ authenticators' = {}
      /\ UNCHANGED <<chain, abstractions, hooks, derivable, running, visited, saved, dispatched, aborted>>
  BY DEF remove_authenticator
<1>2. visited' \subseteq Modules \ Special
  BY <1>1 DEF DispatchInv, DispatchTypeOK
<1>3. authenticators' \subseteq Modules /\ derivable' \subseteq Modules
  BY <1>1, RegistrationTypes DEF DispatchInv
<1> QED BY <1>1, <1>2, <1>3, AuthenticatorsStep

LEMMA RegisterDerivableStep ==
  ASSUME DispatchInv, NEW m \in Modules, register_derivable_authentication_function(m)
  PROVE  DispatchInv'
<1>1. CASE "derived" \in abstractions /\ m \notin derivable
  <2>1. /\ running /\ derivable' = derivable \cup {m}
        /\ UNCHANGED <<chain, abstractions, hooks, authenticators, running, visited, saved, dispatched, aborted>>
    BY <1>1 DEF register_derivable_authentication_function
  <2>2. visited' \subseteq Modules \ Special
    BY <2>1 DEF DispatchInv, DispatchTypeOK
  <2>3. authenticators' \subseteq Modules /\ derivable' \subseteq Modules
    BY <2>1, RegistrationTypes DEF DispatchInv
  <2>4. \A t \in authenticators' : Suits("authenticate", t, chain[t])
    BY <2>1 DEF DispatchInv, TargetsSuit
  <2> QED BY <2>1, <2>2, <2>3, <2>4, AuthenticatorsStep
<1>2. CASE ~("derived" \in abstractions /\ m \notin derivable)
  BY <1>2, RefusedStep DEF register_derivable_authentication_function
<1> QED BY <1>1, <1>2

\* A dispatch to a target that suits, or by a derivable authenticator: it finds the function promised,
\* a hook's module at a special address with no flag on, or for a derivable authenticator no module.
LEMMA DispatchedStep ==
  ASSUME DispatchInv, running, NEW d \in Hooks \cup {"authenticate", "derivable"}, NEW m \in Modules,
         d # "derivable" => Suits(d, m, chain[m]), Dispatch(d, m)
  PROVE  DispatchInv'
<1> DEFINE seen == native_load_function_impl(m, visited)
           attempt == [by |-> d, target |-> m]
<1> attempt.by = d /\ attempt.target = m
  OBVIOUS
<1>1. CASE /\ visited' = seen /\ dispatched' = attempt
           /\ UNCHANGED <<chain, abstractions, hooks, authenticators, derivable, running, saved, aborted>>
  <2>1. visited' \subseteq Modules \ Special
    BY <1>1, LoadedModules DEF DispatchInv, DispatchTypeOK
  <2>2. DispatchTypeOK'
    BY <1>1, <2>1 DEF DispatchInv, DispatchTypeOK
  <2>3. DispatchedAsChecked'
    BY <1>1 DEF DispatchedAsChecked, Suits, HasType, Native
  <2>4. RegisteredTargetsDispatch'
    BY <1>1 DEF DispatchInv, RegisteredTargetsDispatch
  <2> QED BY <1>1, <2>2, <2>3, <2>4 DEF DispatchInv
<1>2. CASE ~CountsAsLoaded(d, m, seen) /\ AbortTransaction("not loaded", attempt)
  <2>1. m \in Special /\ d \in Hooks /\ abstractions = {}
    BY <1>2 DEF CountsAsLoaded, native_load_function_impl
  <2> QED BY <1>2, <2>1, AbortTransactionStep
<1>3. CASE ~Published(m) /\ AbortTransaction("not published", attempt)
  <2>1. d = "derivable"
    BY <1>3 DEF Suits, Published
  <2> QED BY <1>3, <2>1, AbortTransactionStep
<1> QED BY <1>1, <1>2, <1>3 DEF Dispatch, registered

LEMMA HookedStep == ASSUME DispatchInv, NEW d \in Hooks, hooked(d) PROVE DispatchInv'
<1>1. running /\ hooks # NoTarget /\ hooks[d] # NoTarget /\ Dispatch(d, hooks[d])
  BY DEF hooked
<1>2. hooks[d] \in Modules
  BY <1>1, RegistrationTypes DEF DispatchInv
<1>3. Suits(d, hooks[d], chain[hooks[d]])
  BY <1>1 DEF DispatchInv, TargetsSuit
<1> QED BY <1>1, <1>2, <1>3, DispatchedStep

LEMMA AuthenticateStep ==
  ASSUME DispatchInv, NEW m \in Modules, NEW is_derivable \in BOOLEAN, authenticate(is_derivable, m)
  PROVE  DispatchInv'
<1>1. CASE ~Authenticates(is_derivable, m)
  BY <1>1, RefusedStep DEF authenticate
<1>2. CASE Authenticates(is_derivable, m) /\ is_derivable
  BY <1>2, DispatchedStep DEF authenticate
<1>3. CASE Authenticates(is_derivable, m) /\ ~is_derivable
  <2>1. running /\ Dispatch("authenticate", m)
    BY <1>3 DEF authenticate
  <2>2. Suits("authenticate", m, chain[m])
    BY <1>3 DEF DispatchInv, TargetsSuit, Authenticates
  <2> QED BY <2>1, <2>2, DispatchedStep
<1> QED BY <1>1, <1>2, <1>3

LEMMA DispatchInitOK == DispatchInit => DispatchInv
<1> SUFFICES ASSUME DispatchInit PROVE DispatchInv
  OBVIOUS
<1>1. saved.hooks = NoTarget /\ saved.authenticators = {} /\ hooks = NoTarget /\ authenticators = {}
  BY DEF DispatchInit, NothingRegistered
<1>2. DispatchTypeOK
  BY <1>1, NothingHasItsType DEF DispatchInit, DispatchTypeOK, Registrations
<1> QED BY <1>1, <1>2 DEF DispatchInit, DispatchInv, TargetsSuit, DispatchedAsChecked, RegisteredTargetsDispatch

LEMMA DispatchStep == DispatchInv /\ [DispatchNext]_dispatch_vars => DispatchInv'
<1> SUFFICES ASSUME DispatchInv, [DispatchNext]_dispatch_vars PROVE DispatchInv'
  OBVIOUS
<1>1. CASE \E m \in Modules, f \in TargetFunctions : Publish(m, f)
  BY <1>1, PublishStep
<1>2. CASE \E flags \in SUBSET {"account", "derived"} : SetFeatures(flags)
  BY <1>2, SetFeaturesStep
<1>3. CASE \E loaded \in SUBSET Modules : StartTransaction(loaded)
  BY <1>3, StartTransactionStep
<1>4. CASE \E given \in [Hooks -> Modules \cup {NoTarget}] : register_dispatch_functions(given)
  BY <1>4, RegisterStep
<1>5. CASE \E m \in Modules, is_add \in BOOLEAN : update_dispatchable_authenticator_impl(m, is_add)
  BY <1>5, UpdateAuthenticatorStep
<1>6. CASE \E m \in Modules : register_derivable_authentication_function(m)
  BY <1>6, RegisterDerivableStep
<1>7. CASE \E d \in Hooks : hooked(d)
  BY <1>7, HookedStep
<1>8. CASE \E m \in Modules, is_derivable \in BOOLEAN : authenticate(is_derivable, m)
  BY <1>8, AuthenticateStep
<1>9. CASE UNCHANGED dispatch_vars
  <2>1. UNCHANGED <<chain, abstractions, hooks, authenticators, derivable, running, visited, saved, dispatched,
                    aborted>>
    BY <1>9 DEF dispatch_vars, registered
  <2>2. DispatchTypeOK'
    BY <2>1 DEF DispatchInv, DispatchTypeOK
  <2>3. DispatchedAsChecked' /\ RegisteredTargetsDispatch'
    BY <2>1 DEF DispatchInv, DispatchedAsChecked, RegisteredTargetsDispatch
  <2> QED BY <2>1, <2>2, <2>3 DEF DispatchInv
<1> QED BY <1>1, <1>2, <1>3, <1>4, <1>5, <1>6, <1>7, <1>8, <1>9, FinishTransactionStep,
           RemoveAuthenticatorStep DEF DispatchNext

\* Removal repeats a check that an authenticator still passes.
LEMMA RemovableTargets == DispatchInv => RemovableWhenAdded
<1> SUFFICES ASSUME DispatchInv, NEW m \in authenticators, abstractions # {} \/ m \notin Special
             PROVE  MayRegister("authenticate", m, visited)
  BY DEF RemovableWhenAdded
<1>1. Suits("authenticate", m, chain[m])
  BY DEF DispatchInv, TargetsSuit
<1>2. check_visited(m, native_load_function_impl(m, visited))
  BY DEF check_visited, native_load_function_impl
<1> QED BY <1>1, <1>2 DEF MayRegister, Suits, Published, native_check_dispatch_type_compatibility_impl

\* A hook or an account's own authenticator has the checked type whenever it is dispatched to, is found
\* loaded unless it is at a special address and both flags are off, and can be removed; a derivable
\* authenticator, registered unchecked, runs only when its module exists: for all modules and functions,
\* and any order of upgrades, registrations, aborts and flag changes.
THEOREM DispatchCorrectness == DispatchSpec => []DispatchIsChecked
<1>1. DispatchInv => DispatchIsChecked
  BY RemovableTargets DEF DispatchInv, DispatchIsChecked
<1> QED BY <1>1, DispatchInitOK, DispatchStep, PTL DEF DispatchSpec
=============================================================================
