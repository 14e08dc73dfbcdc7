-------------------------- MODULE SessionContexts --------------------------
(***************************************************************************)
(* What a transaction's sessions hand to Move code: unique addresses,      *)
(* increasing counters and randomness (natives/src/transaction_context.rs, *)
(* natives/src/randomness.rs, transaction_context.move, randomness.move).  *)
(*                                                                         *)
(* The virtual machine, outside this repository, runs a transaction in     *)
(* sessions (prologue, payload, epilogue), each begun with a hash of its   *)
(* own and the next number, and marks the payload's session as unbiasable  *)
(* if it is an annotated, private entry function.                          *)
(***************************************************************************)
EXTENDS Integers, Sequences, FiniteSets, SequencesExt

CONSTANTS LocalMax,        \* u16::MAX, scaled down
          SessionMax,      \* the last session of a transaction; u8::MAX in the layout
          IndexMax,        \* the last transaction of a block; u32::MAX in the layout
          TimeMax,         \* bound: blocks; u64::MAX in the layout
          ByteMax,         \* 255, scaled down
          StateBytes,      \* the bytes of txn_local_state
          MaxCalls,        \* bound: addresses and blobs drawn altogether
          RangeBits,       \* the width of u256, scaled down
          MaxPermutation   \* bound: lengths of permutations

ASSUME SessionContextsAssumption ==
  /\ {LocalMax, SessionMax, IndexMax, TimeMax, ByteMax, StateBytes, MaxCalls, RangeBits,
      MaxPermutation} \subseteq Nat
  /\ TimeMax > 0

VARIABLES
  now,           \* the block's timestamp
  seed,          \* PerBlockRandomness.seed, NoSeed if the block has none
  txn,           \* the transaction the virtual machine is running
  session,       \* the session it is in
  context,       \* NativeTransactionContext
  randomness,    \* RandomnessContext
  issued,        \* the latest counter that Move code was given; was it larger than the one before?
  auids,         \* the unique addresses it was given
  draws,         \* the inputs of the hash for the random blobs it was given
  marked         \* was each of them drawn by an annotated payload?

draw_vars == <<now, seed, txn, session, context, randomness, issued, auids, draws, marked>>

NoSeed == 0
None == [kind |-> "None"]

-----------------------------------------------------------------------------
(* NativeTransactionContext and RandomnessContext *)

Hash(t, s) == <<t, s>>

\* Mutant: the hash is kept.
StartKeepingHash(hash, number) ==
  /\ context' = [context EXCEPT !.auid_counter = 0, !.local_counter = 0, !.session_counter = number]
  /\ randomness' = [txn_local_state |-> [i \in 1 .. StateBytes |-> 0], unbiasable |-> FALSE]

\* The transaction's user context stays.
Start(hash, number) ==
  /\ context' = [context EXCEPT !.session_hash = hash, !.auid_counter = 0,
                                !.local_counter = 0, !.session_counter = number]
  /\ randomness' = [txn_local_state |-> [i \in 1 .. StateBytes |-> 0], unbiasable |-> FALSE]

NewContext(hash, user) ==
  /\ context' = [session_hash |-> hash, auid_counter |-> 0, local_counter |-> 0,
                 session_counter |-> 0, user |-> user]
  /\ randomness' = [txn_local_state |-> [i \in 1 .. StateBytes |-> 0], unbiasable |-> FALSE]

\* Little endian: full bytes start again until one is not full.
Increment(state) ==
  LET free == {i \in DOMAIN state : state[i] < ByteMax}
      first == IF free = {} THEN Len(state) + 1 ELSE CHOOSE i \in free : \A j \in free : i <= j
  IN  [i \in DOMAIN state |-> IF i < first THEN 0 ELSE IF i = first THEN state[i] + 1 ELSE state[i]]

-----------------------------------------------------------------------------
(* The virtual machine and the block's prologue *)

Idle == [kind |-> "None", index |-> 0, annotated |-> FALSE]

DrawsInit ==
  /\ now = 1
  /\ seed \in {NoSeed, 1}
  /\ txn = Idle
  /\ session = 0
  /\ context = [session_hash |-> <<>>, auid_counter |-> 0, local_counter |-> 0,
                session_counter |-> 0, user |-> None]
  /\ randomness = [txn_local_state |-> [i \in 1 .. StateBytes |-> 0], unbiasable |-> FALSE]
  /\ issued = [last |-> 0, increasing |-> TRUE]
  /\ auids = [given |-> {}, count |-> 0, repeated |-> FALSE]
  /\ draws = [given |-> {}, count |-> 0, repeated |-> FALSE]
  /\ marked = TRUE

\* A block with a proposer: time advances, and the seed is the block's own (on_new_block).
NewBlock == /\ now < TimeMax
            /\ now' = now + 1
            /\ seed' \in {NoSeed, now + 1}
            /\ txn' = Idle /\ session' = 0
            /\ NewContext(<<>>, None)
            /\ UNCHANGED <<issued, auids, draws, marked>>

User(t) == [kind |-> t.kind, sender |-> t.index, index |-> t.index]

\* A transaction of a user, of the validators, or a user's simulated on the state so far.
NewTransaction == \E kind \in {"user", "validators", "simulated"}, annotated \in BOOLEAN :
  LET t == [kind |-> kind, index |-> txn.index + 1, annotated |-> annotated]
  IN  /\ txn.index < IndexMax
      /\ txn' = t
      /\ session' = 0
      /\ NewContext(Hash(<<now, t.index>>, 0), IF kind = "validators" THEN None ELSE User(t))
      /\ UNCHANGED <<now, seed, issued, auids, draws, marked>>

NextSession == /\ txn.kind \in {"user", "simulated"} /\ session < SessionMax
               /\ session' = session + 1
               /\ Start(Hash(<<now, txn.index>>, session'), session')
               /\ UNCHANGED <<now, seed, txn, issued, auids, draws, marked>>

\* The session of the payload is the second one.
MarkUnbiasable == /\ session = 1 /\ txn.annotated /\ ~randomness.unbiasable
                  /\ randomness' = [randomness EXCEPT !.unbiasable = TRUE]
                  /\ UNCHANGED <<now, seed, txn, session, context, issued, auids, draws, marked>>

-----------------------------------------------------------------------------
(* The natives *)

Layout(reserved, time, index, number, local) ==
  (((reserved * (TimeMax + 1) + time) * (IndexMax + 1) + index) * (SessionMax + 1) + number)
    * (LocalMax + 1) + local

\* A simulation is not of the chain; what it is given is not of the chain's history either.
OnChain == txn.kind \in {"user", "validators"}

Issue(value) == issued' = IF OnChain THEN [last |-> value, increasing |-> issued.last < value]
                          ELSE issued

\* Without a user's context the call fails, and has counted.
MonotonicallyIncreasingCounter ==
  /\ txn.kind # "None" /\ context.local_counter < LocalMax
  /\ context' = [context EXCEPT !.local_counter = @ + 1]
  /\ IF context.user = None THEN issued' = issued
     ELSE Issue(Layout(IF context.user.kind = "user" THEN 0 ELSE 1, now, context.user.index,
                       context.session_counter, context.local_counter + 1))
  /\ UNCHANGED <<now, seed, txn, session, randomness, auids, draws, marked>>

\* What the chain's transactions were given, how many calls there were, and whether two got the same.
Give(history, x) ==
  [given |-> IF OnChain THEN history.given \cup {x} ELSE history.given,
   count |-> history.count + 1,
   repeated |-> history.repeated \/ (OnChain /\ x \in history.given)]

GenerateUniqueAddress ==
  /\ auids.count + draws.count < MaxCalls
  /\ txn.kind # "None"
  /\ context' = [context EXCEPT !.auid_counter = @ + 1]
  /\ auids' = Give(auids, <<context.session_hash, context.auid_counter + 1>>)
  /\ UNCHANGED <<now, seed, txn, session, randomness, issued, draws, marked>>

GetTransactionHash == context.session_hash

\* next_32_bytes, which needs the mark and a seed.  Bound: a session ends before its counter, of
\* eight bytes in the code, has run through all its values.
FetchAndIncrementTxnCounter ==
  /\ auids.count + draws.count < MaxCalls
  /\ \E i \in 1 .. StateBytes : randomness.txn_local_state[i] < ByteMax
  /\ randomness.unbiasable /\ seed # NoSeed
  /\ randomness' = [randomness EXCEPT !.txn_local_state = Increment(@)]
  /\ draws' = Give(draws, <<seed, GetTransactionHash, randomness.txn_local_state>>)
  /\ marked' = (marked /\ txn.annotated /\ session = 1)
  /\ UNCHANGED <<now, seed, txn, session, context, issued, auids>>

\* sender, secondary_signers, gas_payer, max_gas_amount, gas_unit_price, chain_id and the payloads
\* are read from the user's context: none if there is none, and the call aborts.
UserTransactionContext == context.user

DrawsNext ==
  \/ NewBlock \/ NewTransaction \/ NextSession \/ MarkUnbiasable
  \/ MonotonicallyIncreasingCounter \/ GenerateUniqueAddress \/ FetchAndIncrementTxnCounter

DrawsSpec == DrawsInit /\ [][DrawsNext]_draw_vars

-----------------------------------------------------------------------------
(* Numbers from random blobs (randomness.move) *)

SafeAddMod(a, b, m) == IF a < m - b THEN a + b ELSE a - (m - b)

\* A number below range from two blobs, without numbers wider than u256.
U256Range(r0, r1, range) ==
  LET sample[i \in 0 .. RangeBits] ==
        IF i = 0 THEN r1 % range ELSE SafeAddMod(sample[i - 1], sample[i - 1], range)
  IN  SafeAddMod(sample[RangeBits], r0 % range, range)

Swap(s, i, j) == [s EXCEPT ![i] = s[j], ![j] = s[i]]

\* The shuffle, given the position that is drawn for every tail from n to 2.
Permutation(n, positions) ==
  LET Step(values, tail) == Swap(values, positions[tail], tail)
  IN  FoldRight(LAMBDA tail, values : Step(values, tail),
                [i \in 1 .. n - 1 |-> i + 1], [i \in 1 .. n |-> i])

\* The positions u64_range_internal may draw.
Positions(n) == {p \in [2 .. n -> 1 .. n] : \A tail \in 2 .. n : p[tail] <= tail}

-----------------------------------------------------------------------------
(* Properties *)

\* The contexts' counters stay within their widths, and what was issued fits below the layout.
DrawsTypeOK ==
  /\ now \in 1 .. TimeMax /\ seed \in {NoSeed, now}
  /\ txn.index \in 0 .. IndexMax /\ session \in 0 .. SessionMax
  /\ context.local_counter \in 0 .. LocalMax /\ context.session_counter = session
  /\ randomness.txn_local_state \in [1 .. StateBytes -> 0 .. ByteMax]
  /\ issued.last < Layout(1, 0, 0, 0, 0)

\* monotonically_increasing_counter is strictly increasing along the chain, over calls, sessions,
\* transactions and blocks, although every part of it but the timestamp starts again.
CounterIncreases == issued.increasing

\* generate_unique_address never returns an address twice, although its counter starts again with
\* every session.
AddressesAreUnique == ~auids.repeated

\* No two random blobs are hashes of the same input.
BlobsAreIndependent == ~draws.repeated

\* Randomness is drawn in the session of an annotated payload only: the mark ends with the session.
OnlyAnnotatedPayloadsDraw == marked

\* A user's transaction can ask who sent it in each of its sessions; other transactions never can.
ContextIsTheTransactions ==
  UserTransactionContext = IF txn.kind \in {"user", "simulated"} THEN User(txn) ELSE None

\* Unique addresses, random blobs and increasing counters never repeat, over calls, sessions,
\* transactions and blocks, although their counters start again (transaction_context.rs, randomness.rs).
DrawsAreUnique ==
  /\ DrawsTypeOK /\ CounterIncreases /\ AddressesAreUnique /\ BlobsAreIndependent
  /\ OnlyAnnotatedPayloadsDraw /\ ContextIsTheTransactions

\* u256_range: the number of twice the width, modulo the range, with nothing wider than u256.
RangeIsExact == \A r0, r1 \in 0 .. 2 ^ RangeBits - 1, range \in 1 .. 2 ^ RangeBits - 1 :
  U256Range(r0, r1, range) = (r0 + r1 * 2 ^ RangeBits) % range

\* permutation: every permutation comes of one series of positions, so none is likelier than another.
PermutationIsUniform == \A n \in 2 .. MaxPermutation :
  LET made == {Permutation(n, p) : p \in Positions(n)}
  IN  /\ made = {s \in [1 .. n -> 1 .. n] : \A i, j \in 1 .. n : s[i] = s[j] => i = j}
      /\ Cardinality(made) = Cardinality(Positions(n))
=============================================================================
