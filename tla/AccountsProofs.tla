--------------------------- MODULE AccountsProofs ---------------------------
(***************************************************************************)
(* What users do with their accounts is safe for any addresses, amounts and *)
(* limits.                                                                  *)
(*                                                                          *)
(* Transactions: what the history remembers of an accepted nonce, or its    *)
(* expiration, keeps every later transaction with that nonce apart; an      *)
(* accepted sequence number lies below its account's.                       *)
(*                                                                          *)
(* Permissioned signers: a storage belongs to one handle ever, so what is   *)
(* created, destroyed or revoked at it concerns that handle alone.          *)
(*                                                                          *)
(* Objects: what is untransferable is locked, what a reference burnt has no *)
(* tombstone, and the chain of owners that a transfer climbs stays inside   *)
(* every set closed under the owners of unlocked objects.                   *)
(***************************************************************************)
EXTENDS TransactionValidation, Objects, PermissionedSigners, FiniteSetTheorems, WellFoundedInduction, TLAPS


-----------------------------------------------------------------------------
(* Transactions                                                            *)

\* An accepted nonce is remembered by its own entry or a later one, or its time has passed.
Remembered ==
  \A t \in Transactions : t.orderless /\ accepted[t] > 0 =>
    \/ t.expiration + Overlap < now
    \/ /\ key(t) \in DOMAIN nonce_to_exp_time
       /\ \/ nonce_to_exp_time[key(t)] = t.expiration
          \/ nonce_to_exp_time[key(t)] > t.expiration + Overlap

\* An accepted sequence number is used, or about to be.
SequenceUsed ==
  /\ sequence_number \in [Addresses -> Nat]
  /\ \A a \in Addresses \ accounts : sequence_number[a] = 0
  /\ \A t \in running : ~t.orderless => t.number = sequence_number[t.sender]
  /\ \A t \in Transactions : ~t.orderless /\ accepted[t] > 0 => t \in running \/ t.number < sequence_number[t.sender]
  /\ \A s, t \in running : s = t

\* What runs was accepted, and its epilogue can be executed.
RunningIsChargeable == \A t \in running : accepted[t] > 0 /\ chargeable(t, balances)

\* The numbers below an account's are those of its finished transactions, one of each.
FinishedInOrder ==
  \A a \in Addresses :
    /\ {t.number : t \in Used(a) \ running} = 0..(sequence_number[a] - 1)
    /\ \A s, t \in Used(a) : s.number = t.number => s = t

ValidationInvariant ==
  /\ ValidationTypeOK /\ MapsAgree /\ Remembered /\ SequenceUsed /\ NoncesAreFarApart /\ RunsAtMostOnce
  /\ RunningIsChargeable /\ FinishedInOrder

LEMMA TransactionFields ==
  ASSUME NEW t \in Transactions
  PROVE  /\ t.sender \in Addresses /\ t.payer \in Addresses /\ t.max_fee \in Nat /\ t.number \in Nat /\ t.expiration \in Nat /\ t.orderless \in BOOLEAN
         /\ key(t) \in Addresses \X Nat
BY TransactionsAssumption DEF Transaction, key

\* What is collected are entries of other pairs whose time has passed.
LEMMA CollectedIsExpired ==
  ASSUME NEW k, NEW S PROVE collected(k, S) \subseteq {e \in S : e.expiration + Overlap < now}
BY DEF collected

\* Inserting a pair keeps every entry that another transaction could still meet.
LEMMA InsertKeeps ==
  ASSUME ValidationTypeOK, MapsAgree, NEW k \in Addresses \X Nat, NEW x \in Nat, check_and_insert_nonce(k, x)
  PROVE  /\ k \in DOMAIN nonce_to_exp_time' /\ nonce_to_exp_time'[k] = x
         /\ DOMAIN nonce_to_exp_time' \subseteq DOMAIN nonce_to_exp_time \cup {k}
         /\ \A j \in DOMAIN nonce_to_exp_time' : j # k => nonce_to_exp_time'[j] = nonce_to_exp_time[j]
         /\ \A j \in DOMAIN nonce_to_exp_time : j # k =>
              j \in DOMAIN nonce_to_exp_time' \/ nonce_to_exp_time[j] + Overlap < now
         /\ MapsAgree'
<1> DEFINE map == nonce_to_exp_time
           others == entries_without(k)
           gone == collected(k, others)
           K == {e.key : e \in gone}
<1>1. /\ nonces_by_exp_time' = (others \ gone) \cup {entry(x, k)}
      /\ nonce_to_exp_time' = [j \in (DOMAIN map \ K) \cup {k} |-> IF j = k THEN x ELSE map[j]]
  BY DEF check_and_insert_nonce
<1>2. others = {entry(map[j], j) : j \in DOMAIN map \ {k}}
  BY DEF MapsAgree, entries_without, entry
<1>3. gone \subseteq others /\ \A e \in gone : e.expiration + Overlap < now BY CollectedIsExpired
<1>4. ASSUME NEW j \in DOMAIN map \ {k} PROVE j \in K <=> entry(map[j], j) \in gone
  <2>1. entry(map[j], j).key = j BY DEF entry
  <2>2. ASSUME j \in K PROVE entry(map[j], j) \in gone
    <3>1. PICK e \in gone : e.key = j BY <2>2
    <3>2. PICK i \in DOMAIN map \ {k} : e = entry(map[i], i) BY <1>2, <1>3
    <3>3. i = j BY <3>1, <3>2 DEF entry
    <3> QED BY <3>2, <3>3
  <2> QED BY <2>1, <2>2
<1>5. \A j \in DOMAIN map : j # k /\ j \in K => map[j] + Overlap < now
  BY <1>3, <1>4 DEF entry
<1>6. MapsAgree'
  <2>1. others \ gone = {entry(map[j], j) : j \in DOMAIN map \ ({k} \cup K)} BY <1>2, <1>4
  <2>2. \A j \in DOMAIN nonce_to_exp_time' : nonce_to_exp_time'[j] = IF j = k THEN x ELSE map[j] BY <1>1
  <2>3. DOMAIN nonce_to_exp_time' = (DOMAIN map \ ({k} \cup K)) \cup {k} BY <1>1
  <2>4. nonces_by_exp_time' = {entry(map[j], j) : j \in DOMAIN map \ ({k} \cup K)} \cup {entry(x, k)}
    BY <1>1, <2>1
  <2> QED BY <2>2, <2>3, <2>4 DEF MapsAgree
<1> QED BY <1>1, <1>5, <1>6

\* A sequence number that passes is the account's.
LEMMA RegularIsNext ==
  ASSUME SequenceUsed, NEW t \in Transactions, check_for_replay_protection_regular_txn(t)
  PROVE  t.number = sequence_number[t.sender]
<1>1. t.sender \in Addresses BY TransactionFields
<1>2. get_sequence_number(t.sender) = sequence_number[t.sender] BY <1>1 DEF get_sequence_number, SequenceUsed
<1>3. ~exists_at(t.sender) => sequence_number[t.sender] = 0 BY <1>1 DEF exists_at, SequenceUsed
<1> QED BY <1>2, <1>3 DEF check_for_replay_protection_regular_txn

\* A transaction with a nonce that passes lies apart from every accepted one, itself included.
LEMMA OrderlessIsApart ==
  ASSUME ValidationTypeOK, Remembered, NEW t \in Transactions, now < t.expiration,
         check_for_replay_protection_orderless_txn(t),
         NEW s \in Transactions, s.orderless, key(s) = key(t), accepted[s] > 0
  PROVE  t.expiration > s.expiration + Overlap
<1>1. may_follow(key(t), t.expiration)
  BY DEF check_for_replay_protection_orderless_txn, check_and_insert_nonce
<1>2. s.expiration \in Nat /\ t.expiration \in Nat /\ now \in Nat BY TransactionFields DEF ValidationTypeOK
<1>3. CASE s.expiration + Overlap < now BY <1>2, <1>3, OverlapAssumption
<1>4. CASE key(t) \in DOMAIN nonce_to_exp_time /\ nonce_to_exp_time[key(t)] = s.expiration
  BY <1>1, <1>4 DEF may_follow
<1>5. CASE key(t) \in DOMAIN nonce_to_exp_time /\ nonce_to_exp_time[key(t)] > s.expiration + Overlap
  <2>1. nonce_to_exp_time[key(t)] \in Nat BY <1>5 DEF ValidationTypeOK
  <2>2. t.expiration > nonce_to_exp_time[key(t)] + Overlap BY <1>1, <1>5 DEF may_follow
  <2> QED BY <2>1, <2>2, <1>2, <1>5, OverlapAssumption
<1> QED BY <1>3, <1>4, <1>5 DEF Remembered

LEMMA PrologueStep == ASSUME ValidationInvariant, NEW t \in Transactions, Prologue(t) PROVE ValidationInvariant'
<1> USE DEF ValidationInvariant
<1>1. /\ running = {} /\ running' = {t} /\ now < t.expiration /\ now' = now
      /\ accepted' = [accepted EXCEPT ![t] = IF @ = 0 THEN 1 ELSE 2]
      /\ accounts' = accounts /\ sequence_number' = sequence_number
      /\ balances' = balances /\ fee' \in 0..t.max_fee /\ default_account' = default_account
  BY DEF Prologue, prologue_common, ledger
<1>a. fee' \in Nat /\ t.max_fee \in Nat /\ t.payer \in Addresses BY <1>1, TransactionFields
<1>b. RunningIsChargeable'
  <2>1. balances[t.payer] >= t.max_fee BY DEF Prologue, prologue_common, is_fungible_balance_at_least
  <2>2. balances[t.payer] \in Nat BY <1>a DEF ValidationTypeOK
  <2>3. balances'[t.payer] >= fee' BY <1>1, <1>a, <2>1, <2>2
  <2>4. t.orderless \/ default_account \/ t.sender \in accounts \cup created_for(t)
    <3> SUFFICES ASSUME ~t.orderless PROVE default_account \/ t.sender \in accounts \cup created_for(t) OBVIOUS
    <3>1. check_for_replay_protection_regular_txn(t) BY DEF Prologue, prologue_common
    <3> QED BY <3>1 DEF check_for_replay_protection_regular_txn, exists_at, created_for
  <2>5. created_for(t)' = created_for(t) BY DEF created_for
  <2>6. chargeable(t, balances)' BY <1>1, <2>3, <2>4, <2>5 DEF chargeable
  <2>7. accepted'[t] > 0 BY <1>1 DEF ValidationTypeOK
  <2> QED BY <1>1, <2>6, <2>7 DEF RunningIsChargeable
<1>2. CASE t.orderless /\ check_for_replay_protection_orderless_txn(t)
  <2>1. check_and_insert_nonce(key(t), t.expiration) BY <1>2 DEF check_for_replay_protection_orderless_txn
  <2>2. key(t) \in Addresses \X Nat /\ t.expiration \in Nat /\ now \in Nat BY TransactionFields DEF ValidationTypeOK
  <2> DEFINE map == nonce_to_exp_time
  <2>3. /\ key(t) \in DOMAIN map' /\ map'[key(t)] = t.expiration
        /\ DOMAIN map' \subseteq DOMAIN map \cup {key(t)}
        /\ \A j \in DOMAIN map' : j # key(t) => map'[j] = map[j]
        /\ \A j \in DOMAIN map : j # key(t) => j \in DOMAIN map' \/ map[j] + Overlap < now
        /\ MapsAgree'
    BY <2>1, <2>2, InsertKeeps
  <2>4. \A s \in Transactions : s.orderless /\ key(s) = key(t) /\ accepted[s] > 0
          => t.expiration > s.expiration + Overlap
    BY <1>1, <1>2, OrderlessIsApart
  <2>5. accepted[t] = 0
    <3>1. accepted[t] \in 0..2 BY DEF ValidationTypeOK
    <3>2. ~(accepted[t] > 0) BY <2>2, <2>4, <1>2, OverlapAssumption
    <3> QED BY <3>1, <3>2
  <2>6. accepted' = [accepted EXCEPT ![t] = 1] BY <1>1, <2>5
  <2>7. ValidationTypeOK' BY <1>1, <1>a, <2>2, <2>3, <2>6 DEF ValidationTypeOK
  <2>8. Remembered'
    <3> SUFFICES ASSUME NEW s \in Transactions, s.orderless, accepted'[s] > 0
                 PROVE  \/ s.expiration + Overlap < now'
                        \/ /\ key(s) \in DOMAIN map'
                           /\ map'[key(s)] = s.expiration \/ map'[key(s)] > s.expiration + Overlap
      BY DEF Remembered
    <3>1. CASE s = t BY <2>3, <3>1
    <3>2. CASE s # t /\ key(s) = key(t)
      <4>1. accepted[s] > 0 BY <2>6, <3>2 DEF ValidationTypeOK
      <4> QED BY <2>3, <2>4, <3>2, <4>1
    <3>3. CASE s # t /\ key(s) # key(t)
      <4>1. accepted[s] > 0 BY <2>6, <3>3 DEF ValidationTypeOK
      <4>2. s.expiration \in Nat BY TransactionFields
      <4>3. CASE s.expiration + Overlap < now BY <4>3, <1>1
      <4>4. CASE /\ key(s) \in DOMAIN map
                 /\ map[key(s)] = s.expiration \/ map[key(s)] > s.expiration + Overlap
        <5>1. CASE key(s) \in DOMAIN map' BY <2>3, <3>3, <4>4, <5>1
        <5>2. CASE map[key(s)] + Overlap < now
          <6>1. map[key(s)] \in Nat BY <4>4 DEF ValidationTypeOK
          <6>2. map[key(s)] >= s.expiration BY <4>4, <6>1, <4>2, OverlapAssumption
          <6> QED BY <5>2, <6>1, <6>2, <4>2, <2>2, <1>1, OverlapAssumption
        <5> QED BY <5>1, <5>2, <2>3, <3>3, <4>4
      <4> QED BY <4>1, <4>3, <4>4 DEF Remembered
    <3> QED BY <3>1, <3>2, <3>3
  <2>9. SequenceUsed'
    <3>1. \A s \in Transactions : ~s.orderless /\ accepted'[s] > 0 => s.number < sequence_number[s.sender]
      BY <1>1, <1>2, <2>6 DEF SequenceUsed, ValidationTypeOK
    <3> QED BY <1>1, <1>2, <3>1 DEF SequenceUsed
  <2>10. NoncesAreFarApart' BY <2>4, <2>6 DEF Orderless, NoncesAreFarApart, ValidationTypeOK
  <2>11. RunsAtMostOnce' BY <2>6 DEF RunsAtMostOnce, ValidationTypeOK
  <2>12. FinishedInOrder'
    <3> SUFFICES ASSUME NEW a \in Addresses
                 PROVE  /\ {s.number : s \in Used(a)' \ running'} = 0..(sequence_number'[a] - 1)
                        /\ \A r, s \in Used(a)' : r.number = s.number => r = s
      BY DEF FinishedInOrder
    <3>1. Used(a)' = Used(a) BY <1>2, <2>6 DEF Used, ValidationTypeOK
    <3>2. t \notin Used(a) BY <1>2 DEF Used
    <3>3. Used(a)' \ running' = Used(a) \ running BY <1>1, <3>1, <3>2
    <3> QED BY <1>1, <3>1, <3>3 DEF FinishedInOrder
  <2> QED BY <1>b, <2>3, <2>7, <2>8, <2>9, <2>10, <2>11, <2>12
<1>3. CASE ~t.orderless /\ check_for_replay_protection_regular_txn(t) /\ UNCHANGED history
  <2>1. t.number = sequence_number[t.sender] BY <1>3, RegularIsNext
  <2>2. t.number \in Nat BY TransactionFields
  <2>3. accepted[t] = 0
    <3>1. ~(accepted[t] > 0) BY <1>1, <1>3, <2>1, <2>2 DEF SequenceUsed
    <3>2. accepted[t] \in 0..2 BY DEF ValidationTypeOK
    <3> QED BY <3>1, <3>2
  <2>4. accepted' = [accepted EXCEPT ![t] = 1] BY <1>1, <2>3
  <2>5. nonce_to_exp_time' = nonce_to_exp_time /\ nonces_by_exp_time' = nonces_by_exp_time BY <1>3 DEF history
  <2>6. ValidationTypeOK' BY <1>1, <1>a, <2>4, <2>5 DEF ValidationTypeOK
  <2>7. Remembered' BY <1>1, <1>3, <2>4, <2>5 DEF Remembered, ValidationTypeOK
  <2>8. SequenceUsed' BY <1>1, <2>1, <2>4 DEF SequenceUsed, ValidationTypeOK
  <2>9. NoncesAreFarApart' BY <1>3, <2>4 DEF Orderless, NoncesAreFarApart, ValidationTypeOK
  <2>10. RunsAtMostOnce' BY <2>4 DEF RunsAtMostOnce, ValidationTypeOK
  <2>11. FinishedInOrder'
    <3> SUFFICES ASSUME NEW a \in Addresses
                 PROVE  /\ {s.number : s \in Used(a)' \ running'} = 0..(sequence_number'[a] - 1)
                        /\ \A r, s \in Used(a)' : r.number = s.number => r = s
      BY DEF FinishedInOrder
    <3>1. Used(a)' = IF t.sender = a THEN Used(a) \cup {t} ELSE Used(a)
      BY <1>3, <2>4 DEF Used, ValidationTypeOK
    <3>2. t \notin Used(a) BY <2>3 DEF Used
    <3>3. Used(a)' \ running' = Used(a) \ running BY <1>1, <3>1, <3>2
    <3>4. {s.number : s \in Used(a)} = 0..(sequence_number[a] - 1) BY <1>1 DEF FinishedInOrder
    <3>5. ASSUME NEW s \in Used(a) PROVE s.number < sequence_number[a]
      <4>1. s.number \in 0..(sequence_number[a] - 1) BY <3>4
      <4>2. sequence_number[a] \in Nat BY DEF SequenceUsed
      <4> QED BY <4>1, <4>2
    <3>6. ASSUME NEW s \in Used(a), t.sender = a PROVE s.number # t.number
      <4>1. s.number < t.number BY <2>1, <3>5, <3>6
      <4>2. s.number \in Nat BY TransactionFields DEF Used
      <4> QED BY <4>1, <4>2, <2>2
    <3>7. \A r, s \in Used(a)' : r.number = s.number => r = s BY <3>1, <3>6 DEF FinishedInOrder
    <3> QED BY <1>1, <3>3, <3>7 DEF FinishedInOrder
  <2> QED BY <1>b, <2>5, <2>6, <2>7, <2>8, <2>9, <2>10, <2>11 DEF MapsAgree
<1> QED BY <1>2, <1>3 DEF Prologue, prologue_common

LEMMA EpilogueStep ==
  ASSUME ValidationInvariant, NEW t \in running, NEW funds \in [Addresses -> Nat], NEW refund \in Nat,
         unified_epilogue_v2(t, funds, refund)
  PROVE  ValidationInvariant'
<1> USE DEF ValidationInvariant
<1>1. /\ running' = {} /\ now' = now /\ accepted' = accepted
      /\ nonce_to_exp_time' = nonce_to_exp_time /\ nonces_by_exp_time' = nonces_by_exp_time
  BY DEF unified_epilogue_v2, history
<1>2. t \in Transactions BY DEF ValidationTypeOK
<1>3. t.sender \in Addresses /\ t.orderless \in BOOLEAN BY <1>2, TransactionFields
<1>4. \A s \in running : s = t BY DEF SequenceUsed
<1>5. SequenceUsed'
  <2>1. CASE t.orderless
    <3>1. accounts' = accounts /\ sequence_number' = sequence_number BY <2>1 DEF unified_epilogue_v2
    <3>2. \A s \in Transactions : ~s.orderless /\ accepted[s] > 0 => s.number < sequence_number[s.sender]
      BY <1>4, <2>1 DEF SequenceUsed
    <3> QED BY <1>1, <3>1, <3>2 DEF SequenceUsed
  <2>2. CASE ~t.orderless
    <3>1. /\ accounts' = accounts \cup created_for(t) \cup {t.sender}
          /\ sequence_number' = [sequence_number EXCEPT ![t.sender] = @ + 1]
      BY <2>2 DEF unified_epilogue_v2, increment_sequence_number
    <3>2. sequence_number' \in [Addresses -> Nat] BY <3>1, <1>3 DEF SequenceUsed
    <3>3. \A a \in Addresses \ accounts' : sequence_number'[a] = 0 BY <3>1, <1>3 DEF SequenceUsed
    <3>4. ASSUME NEW s \in Transactions, ~s.orderless, accepted[s] > 0
          PROVE  s.number < sequence_number'[s.sender]
      <4>1. s.number \in Nat /\ s.sender \in Addresses /\ sequence_number[s.sender] \in Nat
        BY TransactionFields DEF SequenceUsed
      <4>2. CASE s = t
        <5>1. s.number = sequence_number[s.sender] BY <2>2, <4>2 DEF SequenceUsed
        <5>2. sequence_number'[s.sender] = sequence_number[s.sender] + 1 BY <3>1, <4>1, <4>2 DEF SequenceUsed
        <5> QED BY <5>1, <5>2, <4>1
      <4>3. CASE s # t
        <5>1. s.number < sequence_number[s.sender] BY <1>4, <3>4, <4>3 DEF SequenceUsed
        <5>2. sequence_number'[s.sender] \in {sequence_number[s.sender], sequence_number[s.sender] + 1}
          BY <3>1, <4>1 DEF SequenceUsed
        <5> QED BY <5>1, <5>2, <4>1
      <4> QED BY <4>2, <4>3
    <3> QED BY <1>1, <3>2, <3>3, <3>4 DEF SequenceUsed
  <2> QED BY <1>3, <2>1, <2>2
<1>6. ValidationTypeOK'
  <2>1. t.payer \in Addresses BY <1>2, TransactionFields
  <2>2. fee \in Nat /\ funds[t.payer] >= fee BY DEF ValidationTypeOK, unified_epilogue_v2, chargeable
  <2>3. funds[t.payer] \in Nat BY <2>1
  <2>4. funds[t.payer] + refund - fee \in Nat BY <2>2, <2>3
  <2>5. balances' = [funds EXCEPT ![t.payer] = funds[t.payer] + refund - fee] /\ fee' = 0
    BY DEF unified_epilogue_v2
  <2>6. balances' \in [Addresses -> Nat] BY <2>4, <2>5
  <2> QED BY <1>1, <2>5, <2>6 DEF ValidationTypeOK
<1>7. Remembered' BY <1>1 DEF Remembered
<1>8. RunningIsChargeable' BY <1>1 DEF RunningIsChargeable
<1>9. FinishedInOrder'
  <2> SUFFICES ASSUME NEW a \in Addresses
               PROVE  /\ {s.number : s \in Used(a)' \ running'} = 0..(sequence_number'[a] - 1)
                      /\ \A r, s \in Used(a)' : r.number = s.number => r = s
    BY DEF FinishedInOrder
  <2>1. Used(a)' = Used(a) BY <1>1 DEF Used
  <2>2. running = {t} BY <1>4
  <2>3. {s.number : s \in Used(a) \ {t}} = 0..(sequence_number[a] - 1) BY <2>2 DEF FinishedInOrder
  <2>4. sequence_number[a] \in Nat BY DEF SequenceUsed
  <2>5. CASE t \notin Used(a)
    <3>1. t.orderless \/ t.sender # a BY <1>2, <2>5 DEF Used, RunningIsChargeable
    <3>2. sequence_number'[a] = sequence_number[a]
      BY <3>1, <1>3 DEF unified_epilogue_v2, increment_sequence_number, SequenceUsed
    <3>3. Used(a)' \ running' = Used(a) \ {t} BY <1>1, <2>1, <2>5
    <3> QED BY <2>1, <2>3, <3>2, <3>3 DEF FinishedInOrder
  <2>6. CASE t \in Used(a)
    <3>1. ~t.orderless /\ t.sender = a BY <2>6 DEF Used
    <3>2. t.number = sequence_number[a] BY <3>1 DEF SequenceUsed
    <3>3. sequence_number'[a] = sequence_number[a] + 1
      BY <3>1, <1>3 DEF unified_epilogue_v2, increment_sequence_number, SequenceUsed
    <3>4. {s.number : s \in Used(a)} = {s.number : s \in Used(a) \ {t}} \cup {t.number} BY <2>6
    <3>5. 0..(sequence_number'[a] - 1) = 0..(sequence_number[a] - 1) \cup {sequence_number[a]} BY <2>4, <3>3
    <3>6. {s.number : s \in Used(a)} = 0..(sequence_number'[a] - 1) BY <2>3, <3>2, <3>4, <3>5
    <3>7. Used(a)' \ running' = Used(a) BY <1>1, <2>1
    <3> QED BY <2>1, <3>6, <3>7 DEF FinishedInOrder
  <2> QED BY <2>5, <2>6
<1> QED BY <1>1, <1>5, <1>6, <1>7, <1>8, <1>9 DEF MapsAgree, Orderless, NoncesAreFarApart, RunsAtMostOnce

LEMMA TickStep == ValidationInvariant /\ Tick => ValidationInvariant'
<1> SUFFICES ASSUME ValidationInvariant, Tick PROVE ValidationInvariant' OBVIOUS
<1> USE DEF ValidationInvariant
<1>1. /\ now' = now + 1 /\ UNCHANGED <<accounts, sequence_number, running, accepted, balances, fee>>
      /\ running = {}
      /\ nonce_to_exp_time' = nonce_to_exp_time /\ nonces_by_exp_time' = nonces_by_exp_time
  BY DEF Tick, ledger, history
<1>2. now \in Nat /\ now' \in Nat /\ now < now' BY <1>1 DEF ValidationTypeOK
<1>3. ValidationTypeOK' BY <1>1, <1>2 DEF ValidationTypeOK
<1>4. \A t \in Transactions : t.expiration + Overlap < now => t.expiration + Overlap < now'
  BY <1>2, TransactionFields, OverlapAssumption
<1>5. Remembered' BY <1>1, <1>4 DEF Remembered
<1>6. RunningIsChargeable' BY <1>1 DEF RunningIsChargeable
<1>7. FinishedInOrder'
  <2>1. \A a \in Addresses : Used(a)' = Used(a) BY <1>1 DEF Used
  <2> QED BY <1>1, <2>1 DEF FinishedInOrder
<1> QED BY <1>1, <1>3, <1>5, <1>6, <1>7 DEF MapsAgree, SequenceUsed, Orderless, NoncesAreFarApart, RunsAtMostOnce

LEMMA InvInit == ValidationInit => ValidationInvariant
<1> SUFFICES ASSUME ValidationInit PROVE ValidationInvariant OBVIOUS
<1>1. ValidationTypeOK /\ RunsAtMostOnce
  BY LedgerAssumption DEF ValidationInit, ValidationTypeOK, RunsAtMostOnce
<1>2. MapsAgree BY DEF ValidationInit, MapsAgree
<1>3. Remembered /\ SequenceUsed /\ NoncesAreFarApart BY DEF ValidationInit, Remembered, SequenceUsed, Orderless, NoncesAreFarApart
<1>4. RunningIsChargeable BY DEF ValidationInit, RunningIsChargeable
<1>5. FinishedInOrder
  <2> SUFFICES ASSUME NEW a \in Addresses PROVE Used(a) = {} /\ 0..(sequence_number[a] - 1) = {}
    BY DEF FinishedInOrder
  <2> QED BY DEF ValidationInit, Used
<1> QED BY <1>1, <1>2, <1>3, <1>4, <1>5 DEF ValidationInvariant

LEMMA InvStep == ValidationInvariant /\ [ValidationNext]_validation_vars => ValidationInvariant'
<1> SUFFICES ASSUME ValidationInvariant, [ValidationNext]_validation_vars PROVE ValidationInvariant' OBVIOUS
<1>1. CASE Tick BY <1>1, TickStep
<1>2. CASE Finish
  <2>1. PICK t \in running : Succeed(t) \/ Fail(t) BY <1>2 DEF Finish
  <2>2. t \in Transactions /\ balances \in [Addresses -> Nat] BY DEF ValidationInvariant, ValidationTypeOK
  <2>3. Refunds \subseteq Nat BY LedgerAssumption
  <2>4. CASE Succeed(t)
    <3>1. PICK to \in Addresses, amount \in 0..balances[t.sender], refund \in Refunds :
            LET paid == [balances EXCEPT ![t.sender] = @ - amount]
            IN unified_epilogue_v2(t, [paid EXCEPT ![to] = @ + amount], refund)
      BY <2>4 DEF Succeed
    <3> DEFINE paid == [balances EXCEPT ![t.sender] = @ - amount]
               funds == [paid EXCEPT ![to] = @ + amount]
    <3>2. balances[t.sender] \in Nat BY <2>2, TransactionFields
    <3>3. amount \in Nat /\ balances[t.sender] - amount \in Nat BY <3>2
    <3>4. paid \in [Addresses -> Nat] BY <2>2, <3>3
    <3>5. funds \in [Addresses -> Nat] BY <3>3, <3>4
    <3>6. unified_epilogue_v2(t, funds, refund) /\ refund \in Nat BY <2>3, <3>1
    <3> HIDE DEF funds
    <3> QED BY <3>5, <3>6, EpilogueStep
  <2>5. CASE Fail(t)
    <3>1. PICK refund \in Refunds : unified_epilogue_v2(t, balances, refund) BY <2>5 DEF Fail
    <3> QED BY <2>2, <2>3, <3>1, EpilogueStep
  <2> QED BY <2>1, <2>4, <2>5
<1>3. ASSUME NEW t \in Transactions, Prologue(t) PROVE ValidationInvariant' BY <1>3, PrologueStep
<1>4. CASE UNCHANGED validation_vars
  <2>1. UNCHANGED <<now, default_account, accounts, sequence_number, balances, nonce_to_exp_time,
                    nonces_by_exp_time, running, fee, accepted>> BY <1>4 DEF validation_vars
  <2>2. ValidationTypeOK' /\ MapsAgree' /\ Remembered' /\ SequenceUsed' /\ NoncesAreFarApart' /\ RunsAtMostOnce'
    BY <2>1 DEF ValidationInvariant, ValidationTypeOK, MapsAgree, Remembered, SequenceUsed, Orderless, NoncesAreFarApart, RunsAtMostOnce
  <2>3. RunningIsChargeable' BY <2>1 DEF ValidationInvariant, RunningIsChargeable, chargeable, created_for
  <2>4. FinishedInOrder' BY <2>1 DEF ValidationInvariant, FinishedInOrder, Used
  <2> QED BY <2>2, <2>3, <2>4 DEF ValidationInvariant
<1> QED BY <1>1, <1>2, <1>3, <1>4 DEF ValidationNext

LEMMA ValidationInvariance == ValidationSpec => []ValidationInvariant
<1> QED BY InvInit, InvStep, PTL DEF ValidationSpec

\* No signed transaction is executed twice (transaction_validation.move:prologue_common).
THEOREM RunsAtMostOnceAlways == ValidationSpec => []RunsAtMostOnce
<1>1. ValidationInvariant => RunsAtMostOnce BY DEF ValidationInvariant
<1> QED BY ValidationInvariance, <1>1, PTL

\* Two uses of a nonce expire more than the overlap apart (nonce_validation.move:check_and_insert_nonce).
THEOREM NoncesAreFarApartAlways == ValidationSpec => []NoncesAreFarApart
<1>1. ValidationInvariant => NoncesAreFarApart BY DEF ValidationInvariant
<1> QED BY ValidationInvariance, <1>1, PTL

\* The two maps of the history hold the same entries (nonce_validation.move:Bucket).
THEOREM MapsAgreeAlways == ValidationSpec => []MapsAgree
<1>1. ValidationInvariant => MapsAgree BY DEF ValidationInvariant
<1> QED BY ValidationInvariance, <1>1, PTL

\* An account's finished transactions, sponsored or not, have used the numbers below its sequence
\* number once each and in order, and what the prologue accepts the epilogue can charge
\* (transaction_validation.move:prologue_common, unified_epilogue_v2).
THEOREM TransactionsRunInOrderAlways == ValidationSpec => []TransactionsRunInOrder
<1>1. ValidationInvariant => SequenceNumbersInOrder
  <2> SUFFICES ASSUME ValidationInvariant, running = {}, NEW a \in Addresses
               PROVE  /\ {t.number : t \in Used(a)} = 0..(sequence_number[a] - 1)
                      /\ \A s, t \in Used(a) : s.number = t.number => s = t
    BY DEF SequenceNumbersInOrder
  <2>1. Used(a) \ running = Used(a) OBVIOUS
  <2> QED BY <2>1 DEF ValidationInvariant, FinishedInOrder
<1>2. ValidationInvariant => AcceptedIsCharged BY DEF ValidationInvariant, RunningIsChargeable, AcceptedIsCharged
<1>3. ValidationInvariant => TransactionsRunInOrder BY <1>1, <1>2 DEF ValidationInvariant, TransactionsRunInOrder
<1> QED BY ValidationInvariance, <1>3, PTL

-----------------------------------------------------------------------------
(* Permissioned signers                                                    *)

Handle == [storable : BOOLEAN, storage : Storages, expiration : Nat]
PermissionStorage == [spend : Nat, revoke : Nat, exists : BOOLEAN]

SignersTypeOK ==
  /\ enabled \in BOOLEAN /\ perm_now \in Nat
  /\ used \subseteq Storages /\ handles \subseteq Handle
  /\ active \subseteq Storages /\ signers \subseteq Storages
  /\ perms \in [Storages -> PermissionStorage]
  /\ granted \in [Storages -> Nat] /\ consumed \in [Storages -> Nat]

\* A storage belongs to one handle, ever.
StoragesAreUnique ==
  /\ \A h, k \in handles : h.storage = k.storage => h = k
  /\ \A h \in handles : h.storage \in used
  /\ \A s \in Storages \ used : granted[s] = 0 /\ consumed[s] = 0 /\ ~ perms[s].exists

SignersInvariant ==
  SignersTypeOK /\ StoragesAreUnique /\ SpendingIsGranted /\ ActiveHandlesAreLive

\* The listed handles, as a condition on each address.
LEMMA ListedHandles ==
  ASSUME SignersTypeOK
  PROVE  ActiveHandlesAreLive <=>
           /\ \A s \in Storages :
                s \in active <=> perms[s].exists /\ \E h \in handles : h.storable /\ h.storage = s
           /\ \A s \in Storages : perms[s].exists => \E h \in handles : h.storage = s
  BY DEF SignersTypeOK, ActiveHandlesAreLive, Handle

LEMMA ListedHandlesNext ==
  ASSUME SignersTypeOK'
  PROVE  ActiveHandlesAreLive' <=>
           /\ \A s \in Storages :
                s \in active' <=> perms'[s].exists /\ \E h \in handles' : h.storable /\ h.storage = s
           /\ \A s \in Storages : perms'[s].exists => \E h \in handles' : h.storage = s
  BY DEF SignersTypeOK, ActiveHandlesAreLive, Handle

LEMMA SignersInitially == SignersInit => SignersInvariant
<1>1. SUFFICES ASSUME SignersInit PROVE SignersInvariant
  OBVIOUS
<1>2. SignersTypeOK
  BY <1>1 DEF SignersInit, SignersTypeOK, PermissionStorage, NoStorage
<1>3. StoragesAreUnique /\ SpendingIsGranted /\ ActiveHandlesAreLive
  BY <1>1 DEF SignersInit, StoragesAreUnique, SpendingIsGranted, ActiveHandlesAreLive, NoStorage
<1> QED
  BY <1>2, <1>3 DEF SignersInvariant

\* What an action that adds the handle h, or takes it away, must give.
LEMMA HandlesCreated ==
  ASSUME SignersInvariant, NEW h \in Handle, NEW storage \in Storages, h.storage = storage,
         NewStorage(storage), handles' = handles \cup {h},
         active' = IF h.storable THEN active \cup {storage} ELSE active
  PROVE  SignersInvariant' /\ SignersAreFresh
<1> USE DEF SignersInvariant
<1>1. /\ SignersTypeOK' /\ storage \notin used
      /\ perms' = [s \in Storages |-> IF s = storage THEN EmptyStorage ELSE perms[s]]
  BY DEF NewStorage, SignersTypeOK, EmptyStorage, PermissionStorage, Handle
<1>2. StoragesAreUnique'
  BY <1>1 DEF NewStorage, StoragesAreUnique, SignersTypeOK, Handle
<1>3. SpendingIsGranted'
  BY <1>1 DEF NewStorage, SpendingIsGranted, StoragesAreUnique, SignersTypeOK, EmptyStorage
<1>4. ActiveHandlesAreLive'
  BY <1>1, ListedHandles, ListedHandlesNext DEF StoragesAreUnique, EmptyStorage
<1>5. SignersAreFresh
  BY <1>1 DEF NewStorage, SignersAreFresh, SignersTypeOK
<1> QED
  BY <1>1, <1>2, <1>3, <1>4, <1>5

\* Permissions at the addresses S are destroyed, and all handles that keep some stay listed.
LEMMA StorageDestroyed ==
  ASSUME SignersInvariant, NEW S \in SUBSET Storages,
         DestroyPermissionsStorageAddress(S), active' = active \ S,
         handles' \subseteq handles, \A h \in handles \ handles' : h.storage \in S,
         UNCHANGED <<enabled, perm_now, used, signers, granted, consumed>>
  PROVE  SignersInvariant' /\ SignersAreFresh
<1> USE DEF SignersInvariant
<1>1. /\ SignersTypeOK'
      /\ perms' = [s \in Storages |-> IF s \in S THEN NoStorage ELSE perms[s]]
  BY DEF DestroyPermissionsStorageAddress, SignersTypeOK, NoStorage, PermissionStorage
<1>2. StoragesAreUnique'
  BY <1>1 DEF StoragesAreUnique, SignersTypeOK, NoStorage
<1>3. SpendingIsGranted'
  BY <1>1 DEF SpendingIsGranted, SignersTypeOK, NoStorage
<1>4. ActiveHandlesAreLive'
  BY <1>1, ListedHandles, ListedHandlesNext DEF NoStorage
<1>5. SignersAreFresh
  BY <1>1 DEF SignersAreFresh, SignersTypeOK, NoStorage
<1> QED
  BY <1>1, <1>2, <1>3, <1>4, <1>5

\* Permissions at s change, but not whether there are any.
LEMMA StorageUpdated ==
  ASSUME SignersInvariant, NEW s \in Storages, NEW p \in PermissionStorage, perms[s].exists, p.exists,
         perms' = [perms EXCEPT ![s] = p],
         granted' \in [Storages -> Nat], consumed' \in [Storages -> Nat],
         granted'[s] = consumed'[s] + p.spend,
         \A r \in Storages \ {s} : granted'[r] = granted[r] /\ consumed'[r] = consumed[r],
         UNCHANGED <<enabled, perm_now, used, handles, active, signers>>
  PROVE  SignersInvariant' /\ SignersAreFresh
<1> USE DEF SignersInvariant
<1>1. /\ SignersTypeOK'
      /\ perms' = [r \in Storages |-> IF r = s THEN p ELSE perms[r]]
      /\ \A r \in Storages : perms'[r].exists <=> perms[r].exists
  BY DEF SignersTypeOK
<1>2. StoragesAreUnique'
  BY <1>1 DEF StoragesAreUnique, SignersTypeOK
<1>3. SpendingIsGranted'
  BY <1>1 DEF SpendingIsGranted, SignersTypeOK, PermissionStorage
<1>4. ActiveHandlesAreLive'
  BY <1>1, ListedHandles, ListedHandlesNext
<1>5. SignersAreFresh
  BY <1>1 DEF SignersAreFresh, SignersTypeOK
<1> QED
  BY <1>1, <1>2, <1>3, <1>4, <1>5

LEMMA StorageFields ==
  ASSUME NEW p \in PermissionStorage, NEW n \in Nat
  PROVE  /\ [p EXCEPT !.spend = n] = [spend |-> n, revoke |-> p.revoke, exists |-> p.exists]
         /\ [p EXCEPT !.revoke = n] = [spend |-> p.spend, revoke |-> n, exists |-> p.exists]
<1>1. PICK spend \in Nat, revoke \in Nat, exists \in BOOLEAN :
        p = [spend |-> spend, revoke |-> revoke, exists |-> exists]
  BY DEF PermissionStorage
<1> QED
  BY <1>1

LEMMA SignersInvariantStep ==
  SignersInvariant /\ [SignersNext]_signer_vars => SignersInvariant' /\ (SignersAreFresh \/ UNCHANGED signer_vars)
<1> SUFFICES ASSUME SignersInvariant, [SignersNext]_signer_vars
             PROVE  SignersInvariant' /\ (SignersAreFresh \/ UNCHANGED signer_vars)
  OBVIOUS
<1> USE PermissionedSignersAssumption
<1>0. SignersTypeOK
  BY DEF SignersInvariant
<1>1. ASSUME NEW storage \in Storages, CreatePermissionedHandle(storage)
      PROVE  SignersInvariant' /\ SignersAreFresh
  <2> DEFINE h == [storable |-> FALSE, storage |-> storage, expiration |-> MaxSignerTime + 1]
  <2>1. /\ h \in Handle /\ h.storage = storage /\ ~ h.storable
        /\ NewStorage(storage) /\ handles' = handles \cup {h} /\ active' = active
    BY <1>1 DEF CreatePermissionedHandle, Handle
  <2> HIDE DEF h
  <2> QED
    BY <2>1, HandlesCreated
<1>2. ASSUME NEW storage \in Storages, NEW t \in 1 .. MaxSignerTime, CreateStorablePermissionedHandle(storage, t)
      PROVE  SignersInvariant' /\ SignersAreFresh
  <2> DEFINE h == [storable |-> TRUE, storage |-> storage, expiration |-> t]
  <2>1. /\ h \in Handle /\ h.storage = storage /\ h.storable
        /\ NewStorage(storage) /\ handles' = handles \cup {h} /\ active' = active \cup {storage}
    BY <1>2 DEF CreateStorablePermissionedHandle, Handle
  <2> HIDE DEF h
  <2> QED
    BY <2>1, HandlesCreated
<1>3. ASSUME NEW h \in handles, DestroyPermissionedHandle(h)
      PROVE  SignersInvariant' /\ SignersAreFresh
  <2>1. h.storage \notin active
    BY <1>0, <1>3, ListedHandles DEF SignersInvariant, SignersTypeOK, StoragesAreUnique, DestroyPermissionedHandle, Handle
  <2>2. {h.storage} \in SUBSET Storages
    BY <1>0 DEF SignersTypeOK, Handle
  <2>3. /\ DestroyPermissionsStorageAddress({h.storage}) /\ active' = active \ {h.storage}
        /\ handles' \subseteq handles /\ \A k \in handles \ handles' : k.storage \in {h.storage}
        /\ UNCHANGED <<enabled, perm_now, used, signers, granted, consumed>>
    BY <1>3, <2>1 DEF DestroyPermissionedHandle
  <2> QED
    BY <2>2, <2>3, StorageDestroyed
<1>4. ASSUME NEW h \in handles, DestroyStorablePermissionedHandle(h)
      PROVE  SignersInvariant' /\ SignersAreFresh
  <2>1. {h.storage} \in SUBSET Storages
    BY <1>0 DEF SignersTypeOK, Handle
  <2>2. /\ DestroyPermissionsStorageAddress({h.storage}) /\ active' = active \ {h.storage}
        /\ handles' \subseteq handles /\ \A k \in handles \ handles' : k.storage \in {h.storage}
        /\ UNCHANGED <<enabled, perm_now, used, signers, granted, consumed>>
    BY <1>4 DEF DestroyStorablePermissionedHandle
  <2> QED
    BY <2>1, <2>2, StorageDestroyed
<1>5. ASSUME NEW h \in handles, SignerFromHandle(h)
      PROVE  SignersInvariant' /\ SignersAreFresh
  <2>1. /\ h.storage \in Storages /\ signers' = signers \cup {h.storage}
        /\ h.storable => perm_now < h.expiration /\ perms[h.storage].exists
        /\ UNCHANGED <<enabled, perm_now, used, handles, active, perms, granted, consumed>>
    BY <1>0, <1>5 DEF SignerFromHandle, SignersTypeOK, Handle
  <2>2. SignersAreFresh
    BY <2>1 DEF SignersAreFresh, SignersInvariant, StoragesAreUnique
  <2>3. SignersTypeOK'
    BY <1>0, <2>1 DEF SignersTypeOK
  <2> QED
    BY <2>1, <2>2, <2>3 DEF SignersInvariant, StoragesAreUnique, SpendingIsGranted, ActiveHandlesAreLive
<1>6. ASSUME NEW s \in Signers, RevokeAllHandles(s)
      PROVE  SignersInvariant' /\ SignersAreFresh
  <2>1. /\ active \in SUBSET Storages /\ DestroyPermissionsStorageAddress(active) /\ active' = active \ active
        /\ UNCHANGED <<enabled, perm_now, used, handles, signers, granted, consumed>>
    BY <1>0, <1>6 DEF RevokeAllHandles, SignersTypeOK
  <2> QED
    BY <2>1, StorageDestroyed
<1>7. ASSUME NEW s \in Signers, NEW storage \in Storages, RevokePermissionStorageAddress(s, storage)
      PROVE  SignersInvariant' /\ SignersAreFresh
  <2>1. {storage} \in SUBSET Storages
    OBVIOUS
  <2>2. /\ DestroyPermissionsStorageAddress({storage}) /\ active' = active \ {storage}
        /\ UNCHANGED <<enabled, perm_now, used, handles, signers, granted, consumed>>
    BY <1>7 DEF RevokePermissionStorageAddress
  <2> QED
    BY <2>1, <2>2, StorageDestroyed
<1>8. ASSUME NEW s \in signers, GrantRevokePermission(s)
      PROVE  SignersInvariant' /\ SignersAreFresh
  <2> DEFINE p == [spend |-> perms[s].spend, revoke |-> UnlimitedCapacity, exists |-> perms[s].exists]
  <2>1. /\ s \in Storages /\ perms[s] \in PermissionStorage /\ perms[s].exists
        /\ perms' = [perms EXCEPT ![s].revoke = UnlimitedCapacity]
        /\ UNCHANGED <<enabled, perm_now, used, handles, active, signers, granted, consumed>>
    BY <1>0, <1>8 DEF GrantRevokePermission, SignersTypeOK
  <2>2. p \in PermissionStorage /\ p.exists /\ p.spend = perms[s].spend
    BY <2>1 DEF PermissionStorage, UnlimitedCapacity
  <2>3. perms' = [perms EXCEPT ![s] = p]
    <3>1. UnlimitedCapacity \in Nat
      BY <2>1 DEF PermissionStorage, UnlimitedCapacity
    <3>2. p = [perms[s] EXCEPT !.revoke = UnlimitedCapacity]
      BY <2>1, <3>1, StorageFields
    <3> QED
      BY <2>1, <3>2
  <2> HIDE DEF p
  <2>4. granted'[s] = consumed'[s] + p.spend
    BY <2>1, <2>2 DEF SignersInvariant, SpendingIsGranted
  <2>5. granted' \in [Storages -> Nat] /\ consumed' \in [Storages -> Nat]
    BY <1>0, <2>1 DEF SignersTypeOK
  <2> QED
    BY <2>1, <2>2, <2>3, <2>4, <2>5, StorageUpdated
<1>9. ASSUME NEW s \in signers, RevokePermission(s)
      PROVE  SignersInvariant' /\ SignersAreFresh
  <2> DEFINE p == [spend |-> 0, revoke |-> perms[s].revoke, exists |-> perms[s].exists]
  <2>1. /\ s \in Storages /\ perms[s] \in PermissionStorage /\ perms[s].exists
        /\ perms' = [perms EXCEPT ![s].spend = 0]
        /\ granted' = [granted EXCEPT ![s] = @ - perms[s].spend]
        /\ UNCHANGED <<enabled, perm_now, used, handles, active, signers, consumed>>
    BY <1>0, <1>9 DEF RevokePermission, SignersTypeOK
  <2>2. p \in PermissionStorage /\ p.exists /\ p.spend = 0
    BY <2>1 DEF PermissionStorage
  <2>3. perms' = [perms EXCEPT ![s] = p]
    <3>1. 0 \in Nat
      BY <2>1 DEF PermissionStorage
    <3>2. p = [perms[s] EXCEPT !.spend = 0]
      BY <2>1, <3>1, StorageFields
    <3> QED
      BY <2>1, <3>2
  <2> HIDE DEF p
  <2>4. /\ granted[s] = consumed[s] + perms[s].spend /\ consumed[s] \in Nat /\ perms[s].spend \in Nat
    BY <1>0, <2>1 DEF SignersInvariant, SpendingIsGranted, SignersTypeOK, PermissionStorage
  <2>5. /\ granted' \in [Storages -> Nat] /\ consumed' \in [Storages -> Nat]
        /\ granted'[s] = consumed'[s] + p.spend
        /\ \A r \in Storages \ {s} : granted'[r] = granted[r] /\ consumed'[r] = consumed[r]
    BY <1>0, <2>1, <2>2, <2>4 DEF SignersTypeOK
  <2> QED
    BY <2>1, <2>2, <2>3, <2>5, StorageUpdated
<1>10. ASSUME NEW s \in signers, NEW c \in Capacities, Authorize(s, c)
       PROVE  SignersInvariant' /\ SignersAreFresh
  <2> DEFINE p == [spend |-> perms[s].spend + c, revoke |-> perms[s].revoke, exists |-> perms[s].exists]
  <2>1. /\ s \in Storages /\ perms[s] \in PermissionStorage /\ perms[s].exists /\ c \in Nat
        /\ perms' = [perms EXCEPT ![s].spend = @ + c]
        /\ granted' = [granted EXCEPT ![s] = @ + c]
        /\ UNCHANGED <<enabled, perm_now, used, handles, active, signers, consumed>>
    BY <1>0, <1>10 DEF Authorize, SignersTypeOK
  <2>2. p \in PermissionStorage /\ p.exists /\ p.spend = perms[s].spend + c
    BY <2>1 DEF PermissionStorage
  <2>3. perms' = [perms EXCEPT ![s] = p]
    <3>1. perms[s].spend + c \in Nat
      BY <2>1 DEF PermissionStorage
    <3>2. p = [perms[s] EXCEPT !.spend = perms[s].spend + c]
      BY <2>1, <3>1, StorageFields
    <3> QED
      BY <2>1, <3>2
  <2> HIDE DEF p
  <2>4. /\ granted[s] = consumed[s] + perms[s].spend /\ consumed[s] \in Nat /\ perms[s].spend \in Nat
    BY <1>0, <2>1 DEF SignersInvariant, SpendingIsGranted, SignersTypeOK, PermissionStorage
  <2>5. /\ granted' \in [Storages -> Nat] /\ consumed' \in [Storages -> Nat]
        /\ granted'[s] = consumed'[s] + p.spend
        /\ \A r \in Storages \ {s} : granted'[r] = granted[r] /\ consumed'[r] = consumed[r]
    BY <1>0, <2>1, <2>2, <2>4 DEF SignersTypeOK
  <2> QED
    BY <2>1, <2>2, <2>3, <2>5, StorageUpdated
<1>11. ASSUME NEW s \in signers, NEW c \in Capacities, CheckPermissionConsume(s, c)
       PROVE  SignersInvariant' /\ SignersAreFresh
  <2> DEFINE p == [spend |-> perms[s].spend - c, revoke |-> perms[s].revoke, exists |-> perms[s].exists]
  <2>1. /\ s \in Storages /\ perms[s] \in PermissionStorage /\ perms[s].exists /\ c \in Nat
        /\ perms[s].spend >= c
        /\ perms' = [perms EXCEPT ![s].spend = @ - c]
        /\ consumed' = [consumed EXCEPT ![s] = @ + c]
        /\ UNCHANGED <<enabled, perm_now, used, handles, active, signers, granted>>
    BY <1>0, <1>11 DEF CheckPermissionConsume, SignersTypeOK
  <2>2. p \in PermissionStorage /\ p.exists /\ p.spend = perms[s].spend - c
    BY <2>1 DEF PermissionStorage
  <2>3. perms' = [perms EXCEPT ![s] = p]
    <3>1. perms[s].spend - c \in Nat
      BY <2>1 DEF PermissionStorage
    <3>2. p = [perms[s] EXCEPT !.spend = perms[s].spend - c]
      BY <2>1, <3>1, StorageFields
    <3> QED
      BY <2>1, <3>2
  <2> HIDE DEF p
  <2>4. /\ granted[s] = consumed[s] + perms[s].spend /\ consumed[s] \in Nat /\ perms[s].spend \in Nat
    BY <1>0, <2>1 DEF SignersInvariant, SpendingIsGranted, SignersTypeOK, PermissionStorage
  <2>5. /\ granted' \in [Storages -> Nat] /\ consumed' \in [Storages -> Nat]
        /\ granted'[s] = consumed'[s] + p.spend
        /\ \A r \in Storages \ {s} : granted'[r] = granted[r] /\ consumed'[r] = consumed[r]
    BY <1>0, <2>1, <2>2, <2>4 DEF SignersTypeOK
  <2> QED
    BY <2>1, <2>2, <2>3, <2>5, StorageUpdated
<1>12. ASSUME EndTransaction
       PROVE  SignersInvariant' /\ SignersAreFresh
  <2>1. /\ signers' = {} /\ perm_now' \in {perm_now, perm_now + 1} /\ enabled' \in BOOLEAN
        /\ UNCHANGED <<used, handles, active, perms, granted, consumed>>
    BY <1>0, <1>12 DEF EndTransaction, SignersTypeOK
  <2>2. SignersTypeOK'
    BY <1>0, <2>1 DEF SignersTypeOK
  <2> QED
    BY <2>1, <2>2 DEF SignersInvariant, StoragesAreUnique, SpendingIsGranted, ActiveHandlesAreLive, SignersAreFresh
<1>13. CASE UNCHANGED signer_vars
  BY <1>13 DEF signer_vars, SignersInvariant, SignersTypeOK, StoragesAreUnique, SpendingIsGranted, ActiveHandlesAreLive
<1> QED
  BY <1>1, <1>2, <1>3, <1>4, <1>5, <1>6, <1>7, <1>8, <1>9, <1>10, <1>11, <1>12, <1>13 DEF SignersNext

\* What permissioned signers spend was granted to their handles and not taken back, the account lists
\* the handles that have permissions, and a handle whose permissions are gone never gets new ones.
THEOREM PermissionsCorrectness == SignersSpec => PermissionsAreWhatWasGranted
<1>1. SignersInvariant => SpendingIsGranted /\ ActiveHandlesAreLive
  BY DEF SignersInvariant
<1>2. SignersInvariant /\ [SignersNext]_signer_vars => [SignersAreFresh]_signer_vars
  BY SignersInvariantStep
<1>3. SignersInvariant /\ [SignersNext]_signer_vars => SignersInvariant'
  BY SignersInvariantStep
<1> QED
  BY <1>1, <1>2, <1>3, SignersInitially, PTL DEF SignersSpec, PermissionsAreWhatWasGranted

-----------------------------------------------------------------------------
(* Objects                                                                 *)

\* Every object ever made has an owner or a former owner among these.
ObjectOwners == Accounts \cup DOMAIN via \cup {BURN_ADDRESS}
ObjectCore == [owner : ObjectOwners, allow_ungated_transfer : BOOLEAN]

ObjectsTypeOK ==
  /\ DOMAIN core \subseteq DOMAIN via
  /\ core \in [DOMAIN core -> ObjectCore]
  /\ via = [o \in DOMAIN via |-> via[o]]
  /\ \A o \in DOMAIN via : \/ o[1] = "auid"
                           \/ \E a \in Accounts, d \in DOMAIN via : o = Derived(a, d)

\* A cached address is the derived one; an object that was not moved is its creator's.
CacheIsRight ==
  /\ \A a, d : cache_key(a, d) \in DOMAIN cache => cache[cache_key(a, d)] = Derived(a, d)
  /\ \A a, d : Derived(a, d) \in Objects /\ via[Derived(a, d)] = "creation" => core[Derived(a, d)].owner = a

\* What is untransferable is locked, and what a reference moved to the burn address has no tombstone.
LocksHold ==
  /\ untransferable \subseteq Objects
  /\ \A o \in untransferable : ~ core[o].allow_ungated_transfer
  /\ \A o \in Objects : via[o] = "ref" /\ core[o].owner = BURN_ADDRESS => o \notin DOMAIN tombs

ObjectsInvariant == ObjectsTypeOK /\ CacheIsRight /\ LocksHold
ObjectsStep == UntransferableStays /\ OwnersMoveWhatIsUnlocked /\ RefsEndReclaims

LEMMA DerivedFrom ==
  ASSUME NEW a, NEW d
  PROVE  Derived(a, d)[1] = "derived" /\ Derived(a, d)[2] = a /\ Derived(a, d)[1] # "auid"
  BY DEF Derived

LEMMA DerivedIsDerived ==
  ASSUME CacheIsRight, NEW a, NEW d
  PROVE  derived_address(a, d) = Derived(a, d)
  BY DEF CacheIsRight, derived_address

LEMMA CacheTransparent == ObjectsInvariant => CacheIsTransparent
<1> SUFFICES ASSUME ObjectsInvariant PROVE CacheIsTransparent
  OBVIOUS
<1>1. \A a \in Accounts, o \in Objects : derived_address(a, o) = Derived(a, o)
  BY DerivedIsDerived DEF ObjectsInvariant
<1>2. ASSUME NEW o \in Objects, o[1] = "derived", via[o] = "creation" PROVE core[o].owner = o[2]
  <2>1. PICK a \in Accounts, d \in DOMAIN via : o = Derived(a, d)
    BY <1>2 DEF ObjectsInvariant, ObjectsTypeOK, Objects
  <2> QED
    BY <1>2, <2>1, DerivedFrom DEF ObjectsInvariant, CacheIsRight
<1> QED
  BY <1>1, <1>2 DEF CacheIsTransparent

\* A chain that starts in a closed set and follows the owners of what allows it ends in the set.
LEMMA ChainsStayInside ==
  ASSUME NEW count \in Nat, NEW walk, NEW S, walk[0] \in S,
         \A n \in 0..(count - 1) : walk[n] \in S => walk[n + 1] \in S
  PROVE  walk[count] \in S
<1>1. SUFFICES ASSUME walk[count] \notin S PROVE FALSE
  OBVIOUS
<1> DEFINE Outside == {n \in Nat : n <= count /\ walk[n] \notin S}
<1>2. count \in Outside
  BY <1>1
<1>3. PICK n \in Outside : \A m \in Outside : n <= m
  <2> DEFINE B == {0..n : n \in Outside}
  <2>1. IsWellFoundedOn(StrictSubsetOrdering(0..count), FiniteSubsetsOf(0..count))
    BY FS_Interval, FS_StrictSubsetOrderingWellFounded
  <2>2. \A n \in Outside : 0..n \subseteq 0..count /\ IsFiniteSet(0..n)
    BY FS_Interval
  <2>3. B \subseteq FiniteSubsetsOf(0..count) /\ B # {}
    BY <1>2, <2>2 DEF FiniteSubsetsOf
  <2>4. PICK U \in B : \A V \in B : ~(<<V, U>> \in StrictSubsetOrdering(0..count))
    <3> HIDE DEF B
    <3> QED
      BY <2>1, <2>3, WFMin
  <2>5. PICK n \in Outside : U = 0..n
    BY <2>4
  <2>6. ASSUME NEW m \in Outside, m < n PROVE FALSE
    <3>1. 0..m \in B /\ 0..m \subseteq 0..n /\ 0..m # 0..n /\ 0..n \subseteq 0..count
      BY <2>2, <2>5, <2>6
    <3> HIDE DEF B, Outside
    <3> QED
      BY <2>4, <2>5, <3>1 DEF StrictSubsetOrdering
  <2> QED
    BY <2>5, <2>6
<1>4. n \in Nat \ {0} /\ n <= count /\ walk[n] \notin S
  BY <1>3
<1>5. n - 1 \in 0..(count - 1) /\ n - 1 \notin Outside /\ (n - 1) + 1 = n
  BY <1>3, <1>4
<1>6. walk[n - 1] \in S
  BY <1>4, <1>5
<1> QED
  BY <1>4, <1>5, <1>6

\* Whom verify_ungated_and_descendant lets pass owns the object through what is unlocked.
LEMMA OwnersAreReached ==
  ASSUME NEW signer, NEW o, verify_ungated_and_descendant(signer, o)
  PROVE  o \in Objects /\ core[o].allow_ungated_transfer /\ signer \in UnlockedOwners(o)
<1> DEFINE allows(p) == p \in Objects /\ core[p].allow_ungated_transfer
           Closed(S) == \A p \in S \cap Objects : core[p].allow_ungated_transfer => core[p].owner \in S
           All == Objects \cup OwnerAddresses
<1>1. PICK count \in 0..(MAXIMUM_OBJECT_NESTING - 1) : \E walk \in [0..count -> OwnerAddresses] :
        /\ allows(o) /\ walk[0] = core[o].owner /\ walk[count] = signer
        /\ \A n \in 0..(count - 1) : allows(walk[n]) /\ walk[n + 1] = core[walk[n]].owner
  BY DEF verify_ungated_and_descendant
<1>0. PICK walk \in [0..count -> OwnerAddresses] :
        /\ allows(o) /\ walk[0] = core[o].owner /\ walk[count] = signer
        /\ \A n \in 0..(count - 1) : allows(walk[n]) /\ walk[n + 1] = core[walk[n]].owner
  BY <1>1
<1>2. count \in Nat
  BY <1>1, NestingAssumption
<1>3. signer \in All
  BY <1>0, <1>2
<1>4. ASSUME NEW S \in SUBSET All, o \in S, Closed(S) PROVE signer \in S
  <2>1. walk[0] \in S
    BY <1>0, <1>4
  <2>2. \A n \in 0..(count - 1) : walk[n] \in S => walk[n + 1] \in S
    BY <1>0, <1>4
  <2> QED
    BY <1>0, <1>2, <2>1, <2>2, ChainsStayInside
<1> QED
  BY <1>0, <1>3, <1>4 DEF UnlockedOwners

LEMMA CoreFields ==
  ASSUME NEW c \in ObjectCore, NEW x
  PROVE  /\ [c EXCEPT !.owner = x] = [owner |-> x, allow_ungated_transfer |-> c.allow_ungated_transfer]
         /\ [c EXCEPT !.allow_ungated_transfer = x] = [owner |-> c.owner, allow_ungated_transfer |-> x]
<1>1. PICK owner \in ObjectOwners, allow \in BOOLEAN : c = [owner |-> owner, allow_ungated_transfer |-> allow]
  BY DEF ObjectCore
<1> QED
  BY <1>1

LEMMA ObjectsInitially == ObjectsInit => ObjectsInvariant
  BY DEF ObjectsInit, ObjectsInvariant, ObjectsTypeOK, CacheIsRight, LocksHold, Objects

\* Nothing about the objects changes, and what is burnt belongs to an account.
LEMMA ObjectsStay ==
  ASSUME ObjectsInvariant, UNCHANGED <<core, untransferable, cache, via>>,
         \A o \in Objects : o \in DOMAIN tombs' => o \in DOMAIN tombs \/ core[o].owner \in Accounts
  PROVE  ObjectsInvariant' /\ ObjectsStep
<1>1. ObjectsTypeOK'
  BY DEF ObjectsInvariant, ObjectsTypeOK, ObjectCore, ObjectOwners
<1>2. CacheIsRight'
  BY DEF ObjectsInvariant, CacheIsRight, Objects
<1>3. LocksHold'
  BY BurnAssumption DEF ObjectsInvariant, LocksHold, Objects
<1>4. UntransferableStays /\ OwnersMoveWhatIsUnlocked /\ RefsEndReclaims
  BY DEF UntransferableStays, OwnersMoveWhatIsUnlocked, RefsEndReclaims
<1> QED
  BY <1>1, <1>2, <1>3, <1>4 DEF ObjectsInvariant, ObjectsStep

\* The object x is locked or unlocked.
LEMMA ObjectLocked ==
  ASSUME ObjectsInvariant, NEW x \in Objects, NEW allow \in BOOLEAN,
         core' = [core EXCEPT ![x].allow_ungated_transfer = allow],
         untransferable \subseteq untransferable', untransferable' \subseteq untransferable \cup {x},
         x \in untransferable' => ~allow,
         UNCHANGED <<tombs, cache, via>>
  PROVE  ObjectsInvariant' /\ ObjectsStep
<1>1. ObjectsTypeOK /\ CacheIsRight /\ LocksHold
  BY DEF ObjectsInvariant
<1> DEFINE c == [owner |-> core[x].owner, allow_ungated_transfer |-> allow]
<1>2. core[x] \in ObjectCore
  BY <1>1 DEF ObjectsTypeOK, Objects
<1>3. c = [core[x] EXCEPT !.allow_ungated_transfer = allow]
  BY <1>2, CoreFields
<1>4. core' = [o \in DOMAIN core |-> IF o = x THEN c ELSE core[o]]
  BY <1>1, <1>3 DEF ObjectsTypeOK
<1>5. c \in ObjectCore /\ c.owner = core[x].owner /\ c.allow_ungated_transfer = allow
  BY <1>2 DEF ObjectCore
<1> HIDE DEF c
<1>6. /\ DOMAIN core' = DOMAIN core /\ Objects' = Objects
      /\ \A o \in Objects : core'[o].owner = core[o].owner
      /\ \A o \in Objects : o # x => core'[o] = core[o]
  BY <1>4, <1>5 DEF Objects
<1>7. ObjectsTypeOK'
  <2>1. ObjectCore' = ObjectCore
    BY DEF ObjectCore, ObjectOwners
  <2>2. DOMAIN core' \subseteq DOMAIN via' /\ core' \in [DOMAIN core' -> ObjectCore']
    <3>1. DOMAIN core \subseteq DOMAIN via /\ core \in [DOMAIN core -> ObjectCore]
      BY <1>1 DEF ObjectsTypeOK
    <3>2. core' \in [DOMAIN core -> ObjectCore]
      BY <1>4, <1>5, <3>1
    <3> QED BY <1>6, <2>1, <3>1, <3>2
  <2>3. via' = [o \in DOMAIN via' |-> via'[o]]
    BY <1>1 DEF ObjectsTypeOK
  <2>4. \A o \in DOMAIN via' : o[1] = "auid" \/ \E a \in Accounts, d \in DOMAIN via' : o = Derived(a, d)
    BY <1>1 DEF ObjectsTypeOK
  <2> QED
    BY <2>2, <2>3, <2>4 DEF ObjectsTypeOK
<1>8. CacheIsRight'
  BY <1>1, <1>6 DEF CacheIsRight
<1>9. LocksHold'
  <2>1. core'[x].allow_ungated_transfer = allow
    BY <1>4, <1>5 DEF Objects
  <2>2. \A o \in untransferable' : o \in Objects' /\ ~core'[o].allow_ungated_transfer
    BY <1>1, <1>6, <2>1 DEF LocksHold
  <2>3. \A o \in Objects' : via'[o] = "ref" /\ core'[o].owner = BURN_ADDRESS => o \notin DOMAIN tombs'
    BY <1>1, <1>6 DEF LocksHold
  <2> QED
    BY <2>2, <2>3 DEF LocksHold
<1>10. UntransferableStays /\ OwnersMoveWhatIsUnlocked /\ RefsEndReclaims
  BY <1>1, <1>6 DEF LocksHold, UntransferableStays, OwnersMoveWhatIsUnlocked, RefsEndReclaims, Objects
<1> QED
  BY <1>7, <1>8, <1>9, <1>10 DEF ObjectsInvariant, ObjectsStep

\* The object x gets an owner: its lock, its tombstone or its owners allow it.
LEMMA ObjectMoved ==
  ASSUME ObjectsInvariant, NEW x \in Objects, NEW to \in ObjectOwners, NEW how \in {"ref", "owner", "unburn"},
         MoveTo(x, to, how),
         x \in untransferable => how = "unburn",
         how = "owner" => UnlockedOwners(x) \cap Accounts # {},
         how = "unburn" => x \in DOMAIN tombs,
         DOMAIN tombs' \subseteq DOMAIN tombs, how = "ref" => x \notin DOMAIN tombs',
         UNCHANGED <<untransferable, cache>>
  PROVE  ObjectsInvariant' /\ ObjectsStep
<1>1. ObjectsTypeOK /\ CacheIsRight /\ LocksHold
  BY DEF ObjectsInvariant
<1> DEFINE c == [owner |-> to, allow_ungated_transfer |-> core[x].allow_ungated_transfer]
           h == IF core[x].owner = to THEN via[x] ELSE how
<1>2. core[x] \in ObjectCore
  BY <1>1 DEF ObjectsTypeOK, Objects
<1>3. c = [core[x] EXCEPT !.owner = to]
  BY <1>2, CoreFields
<1>4. core' = [o \in DOMAIN core |-> IF o = x THEN c ELSE core[o]]
  BY <1>1, <1>3 DEF ObjectsTypeOK, MoveTo
<1>5. /\ c \in ObjectCore /\ c.owner = to /\ c.allow_ungated_transfer = core[x].allow_ungated_transfer
      /\ core[x].owner = to => h = via[x]
      /\ core[x].owner # to => h = how
  BY <1>2 DEF ObjectCore
<1>6. via' = [o \in DOMAIN via |-> IF o = x THEN h ELSE via[o]]
  BY <1>1 DEF ObjectsTypeOK, MoveTo
<1> HIDE DEF c, h
<1>7. /\ DOMAIN core' = DOMAIN core /\ Objects' = Objects /\ DOMAIN via' = DOMAIN via /\ Objects \subseteq DOMAIN via
      /\ core'[x].owner = to /\ via'[x] = h
      /\ \A o \in Objects : o # x => core'[o].owner = core[o].owner /\ via'[o] = via[o]
      /\ \A o \in Objects : core'[o].allow_ungated_transfer = core[o].allow_ungated_transfer
  BY <1>1, <1>4, <1>5, <1>6 DEF ObjectsTypeOK, Objects
<1>8. ObjectsTypeOK'
  <2>1. ObjectCore' = ObjectCore
    BY <1>7 DEF ObjectCore, ObjectOwners
  <2>2. DOMAIN core' \subseteq DOMAIN via' /\ core' \in [DOMAIN core' -> ObjectCore']
    BY <1>1, <1>4, <1>5, <1>7, <2>1 DEF ObjectsTypeOK
  <2>3. via' = [o \in DOMAIN via' |-> via'[o]]
    BY <1>6
  <2>4. \A o \in DOMAIN via' : o[1] = "auid" \/ \E a \in Accounts, d \in DOMAIN via' : o = Derived(a, d)
    BY <1>1, <1>7 DEF ObjectsTypeOK
  <2> QED
    BY <2>2, <2>3, <2>4 DEF ObjectsTypeOK
<1>9. CacheIsRight'
  <2>1. ASSUME NEW a, NEW d, Derived(a, d) \in Objects, via'[Derived(a, d)] = "creation"
        PROVE  core'[Derived(a, d)].owner = a
    <3>1. CASE Derived(a, d) = x
      <4>1. core[x].owner = to /\ via[x] = "creation"
        BY <1>5, <1>7, <2>1, <3>1
      <4> QED
        BY <1>1, <1>7, <3>1, <4>1 DEF CacheIsRight
    <3>2. CASE Derived(a, d) # x
      BY <1>1, <1>7, <2>1, <3>2 DEF CacheIsRight
    <3> QED
      BY <3>1, <3>2
  <2> QED
    BY <1>1, <1>7, <2>1 DEF CacheIsRight
<1>10. LocksHold'
  <2>1. \A o \in untransferable' : o \in Objects' /\ ~core'[o].allow_ungated_transfer
    BY <1>1, <1>7 DEF LocksHold
  <2>2. ASSUME NEW o \in Objects, via'[o] = "ref", core'[o].owner = BURN_ADDRESS PROVE o \notin DOMAIN tombs'
    BY <1>1, <1>5, <1>7, <2>2 DEF LocksHold
  <2> QED
    BY <1>7, <2>1, <2>2 DEF LocksHold
<1>11. UntransferableStays
  BY <1>1, <1>5, <1>7 DEF LocksHold, UntransferableStays
<1>12. OwnersMoveWhatIsUnlocked
  BY <1>5, <1>7 DEF OwnersMoveWhatIsUnlocked
<1>13. RefsEndReclaims
  BY <1>1, <1>5, <1>7 DEF LocksHold, RefsEndReclaims
<1> QED
  BY <1>8, <1>9, <1>10, <1>11, <1>12, <1>13 DEF ObjectsInvariant, ObjectsStep

\* An object is made at an address that has none, which is the creator's if it is derived.
LEMMA ObjectCreated ==
  ASSUME ObjectsInvariant, NEW creator \in Accounts, NEW x, NEW can_delete,
         create_object_internal(creator, x, can_delete),
         x[1] = "auid" \/ \E d \in DOMAIN via : x = Derived(creator, d),
         \A a, d : cache_key(a, d) \in DOMAIN cache' => cache'[cache_key(a, d)] = Derived(a, d)
  PROVE  ObjectsInvariant' /\ ObjectsStep
<1>1. ObjectsTypeOK /\ CacheIsRight /\ LocksHold
  BY DEF ObjectsInvariant
<1> DEFINE c == [owner |-> creator, allow_ungated_transfer |-> TRUE]
<1>2. /\ x \notin Objects /\ UNCHANGED <<untransferable, tombs>>
      /\ core' = [o \in DOMAIN core \cup {x} |-> IF o = x THEN c ELSE core[o]]
      /\ via' = [o \in DOMAIN via \cup {x} |-> IF o = x THEN "creation" ELSE via[o]]
  BY DEF create_object_internal, With
<1>3. c.owner = creator /\ c.allow_ungated_transfer = TRUE /\ c \in [owner : ObjectOwners, allow_ungated_transfer : BOOLEAN]
  BY DEF ObjectOwners
<1> HIDE DEF c
<1>4. /\ Objects' = Objects \cup {x} /\ DOMAIN via' = DOMAIN via \cup {x} /\ Objects \subseteq DOMAIN via
      /\ core'[x] = c /\ via'[x] = "creation"
      /\ \A o \in Objects : core'[o] = core[o] /\ via'[o] = via[o]
  BY <1>1, <1>2 DEF ObjectsTypeOK, Objects
<1>5. ObjectsTypeOK'
  <2>1. ObjectOwners \subseteq ObjectOwners'
    BY <1>4 DEF ObjectOwners
  <2>2. ObjectCore \subseteq ObjectCore' /\ c \in ObjectCore'
    BY <1>3, <2>1 DEF ObjectCore
  <2>3. DOMAIN core' \subseteq DOMAIN via' /\ core' \in [DOMAIN core' -> ObjectCore']
    BY <1>1, <1>2, <2>2 DEF ObjectsTypeOK
  <2>4. via' = [o \in DOMAIN via' |-> via'[o]]
    BY <1>2
  <2>5. \A o \in DOMAIN via' : o[1] = "auid" \/ \E a \in Accounts, d \in DOMAIN via' : o = Derived(a, d)
    BY <1>1, <1>4 DEF ObjectsTypeOK
  <2> QED
    BY <2>3, <2>4, <2>5 DEF ObjectsTypeOK
<1>6. CacheIsRight'
  <2>1. ASSUME NEW a, NEW d, Derived(a, d) = x PROVE a = creator
    BY <2>1, DerivedFrom
  <2>2. ASSUME NEW a, NEW d, Derived(a, d) \in Objects', via'[Derived(a, d)] = "creation"
        PROVE  core'[Derived(a, d)].owner = a
    BY <1>1, <1>3, <1>4, <2>1, <2>2 DEF CacheIsRight
  <2> QED
    BY <2>2 DEF CacheIsRight
<1>7. LocksHold'
  BY <1>1, <1>2, <1>4 DEF LocksHold
<1>8. UntransferableStays /\ OwnersMoveWhatIsUnlocked /\ RefsEndReclaims
  BY <1>1, <1>2, <1>4 DEF LocksHold, UntransferableStays, OwnersMoveWhatIsUnlocked, RefsEndReclaims
<1> QED
  BY <1>5, <1>6, <1>7, <1>8 DEF ObjectsInvariant, ObjectsStep

LEMMA ObjectDeleted ==
  ASSUME ObjectsInvariant, NEW r, delete(r)
  PROVE  ObjectsInvariant' /\ ObjectsStep
<1>1. ObjectsTypeOK /\ CacheIsRight /\ LocksHold
  BY DEF ObjectsInvariant
<1>2. /\ core' = [o \in DOMAIN core \ {r.self} |-> core[o]] /\ untransferable' = untransferable \ {r.self}
      /\ UNCHANGED <<tombs, cache, via>>
  BY DEF delete, Without
<1>3. Objects' = Objects \ {r.self} /\ \A o \in Objects' : core'[o] = core[o]
  BY <1>2 DEF Objects
<1>4. ObjectsTypeOK'
  <2>1. ObjectCore' = ObjectCore
    BY <1>2 DEF ObjectCore, ObjectOwners
  <2>2. DOMAIN core' \subseteq DOMAIN via' /\ core' \in [DOMAIN core' -> ObjectCore']
    BY <1>1, <1>2, <2>1 DEF ObjectsTypeOK
  <2>3. via' = [o \in DOMAIN via' |-> via'[o]]
    BY <1>1, <1>2 DEF ObjectsTypeOK
  <2>4. \A o \in DOMAIN via' : o[1] = "auid" \/ \E a \in Accounts, d \in DOMAIN via' : o = Derived(a, d)
    BY <1>1, <1>2 DEF ObjectsTypeOK
  <2> QED
    BY <2>2, <2>3, <2>4 DEF ObjectsTypeOK
<1>5. CacheIsRight'
  BY <1>1, <1>2, <1>3 DEF CacheIsRight
<1>6. LocksHold'
  BY <1>1, <1>2, <1>3 DEF LocksHold
<1>7. UntransferableStays /\ OwnersMoveWhatIsUnlocked /\ RefsEndReclaims
  BY <1>1, <1>2, <1>3 DEF LocksHold, UntransferableStays, OwnersMoveWhatIsUnlocked, RefsEndReclaims, Objects
<1> QED
  BY <1>4, <1>5, <1>6, <1>7 DEF ObjectsInvariant, ObjectsStep

LEMMA ObjectsInvariantStep ==
  ObjectsInvariant /\ [ObjectsNext]_object_vars => ObjectsInvariant' /\ (ObjectsStep \/ UNCHANGED object_vars)
<1> SUFFICES ASSUME ObjectsInvariant, [ObjectsNext]_object_vars
             PROVE  ObjectsInvariant' /\ (ObjectsStep \/ UNCHANGED object_vars)
  OBVIOUS
<1>1. ObjectsTypeOK /\ CacheIsRight /\ LocksHold /\ Places \subseteq ObjectOwners /\ Accounts \subseteq ObjectOwners
  BY DEF ObjectsInvariant, ObjectsTypeOK, Places, ObjectOwners, Objects
<1>2. ASSUME NEW a \in Accounts, NEW can_delete \in BOOLEAN, create_object(a, can_delete)
      PROVE  ObjectsInvariant' /\ ObjectsStep
  <2> DEFINE x == Auid(Cardinality({o \in DOMAIN via : o[1] = "auid"}) + 1)
  <2>1. create_object_internal(a, x, can_delete) /\ cache' = cache
    BY <1>2 DEF create_object
  <2>2. x[1] = "auid"
    BY DEF Auid
  <2>3. \A b, d : cache_key(b, d) \in DOMAIN cache' => cache'[cache_key(b, d)] = Derived(b, d)
    BY <1>1, <2>1 DEF CacheIsRight
  <2> HIDE DEF x
  <2> QED
    BY <2>1, <2>2, <2>3, ObjectCreated
<1>3. ASSUME NEW a \in Accounts, NEW o \in Objects, create_user_derived_object(a, o)
      PROVE  ObjectsInvariant' /\ ObjectsStep
  <2> DEFINE x == Derived(a, o)
  <2>1. create_object_internal(a, x, FALSE) /\ cache' = With(cache, cache_key(a, o), x)
    BY <1>1, <1>3, DerivedIsDerived DEF create_user_derived_object
  <2>2. o \in DOMAIN via
    BY <1>1 DEF ObjectsTypeOK, Objects
  <2>3. ASSUME NEW b, NEW d, cache_key(b, d) \in DOMAIN cache'
        PROVE  cache'[cache_key(b, d)] = Derived(b, d)
    <3>1. CASE cache_key(b, d) = cache_key(a, o)
      <4>1. b = a /\ d = o
        BY <3>1 DEF cache_key
      <4> QED
        BY <2>1, <2>3, <4>1 DEF With
    <3>2. CASE cache_key(b, d) # cache_key(a, o)
      <4>1. cache_key(b, d) \in DOMAIN cache /\ cache'[cache_key(b, d)] = cache[cache_key(b, d)]
        BY <2>1, <2>3, <3>2 DEF With
      <4> QED
        BY <1>1, <4>1 DEF CacheIsRight
    <3> QED
      BY <3>1, <3>2
  <2>4. \E d \in DOMAIN via : x = Derived(a, d)
    BY <2>2
  <2> HIDE DEF x
  <2> QED
    BY <2>1, <2>3, <2>4, ObjectCreated
<1>4. ASSUME NEW c \in constructing, generate_delete_ref(c) \/ generate_transfer_ref(c)
      PROVE  ObjectsInvariant' /\ ObjectsStep
  BY <1>4, ObjectsStay DEF generate_delete_ref, generate_transfer_ref
<1>5. ASSUME NEW c \in constructing, set_untransferable(c)
      PROVE  ObjectsInvariant' /\ ObjectsStep
  BY <1>5, ObjectLocked DEF set_untransferable
<1>6. ASSUME EndConstruction
      PROVE  ObjectsInvariant' /\ ObjectsStep
  BY <1>6, ObjectsStay DEF EndConstruction
<1>7. ASSUME NEW r \in refs, delete(r)
      PROVE  ObjectsInvariant' /\ ObjectsStep
  BY <1>7, ObjectDeleted
<1>8. ASSUME NEW r \in refs, generate_linear_transfer_ref(r)
      PROVE  ObjectsInvariant' /\ ObjectsStep
  BY <1>8, ObjectsStay DEF generate_linear_transfer_ref
<1>9. ASSUME NEW r \in refs, NEW allow \in BOOLEAN, set_ungated_transfer(r, allow)
      PROVE  ObjectsInvariant' /\ ObjectsStep
  <2>1. /\ r.self \in Objects /\ core' = [core EXCEPT ![r.self].allow_ungated_transfer = allow]
        /\ untransferable' = untransferable /\ (r.self \in untransferable' => ~allow)
        /\ UNCHANGED <<tombs, cache, via>>
    BY <1>9 DEF set_ungated_transfer
  <2>2. untransferable \subseteq untransferable' /\ untransferable' \subseteq untransferable \cup {r.self}
    BY <2>1
  <2> QED
    BY <2>1, <2>2, ObjectLocked
<1>10. ASSUME NEW l \in linear_refs, NEW to \in Places, transfer_with_ref(l, to)
       PROVE  ObjectsInvariant' /\ ObjectsStep
  <2>1. /\ l.self \in Objects /\ to \in ObjectOwners /\ MoveTo(l.self, to, "ref") /\ l.self \notin untransferable
        /\ UNCHANGED <<untransferable, cache>>
    BY <1>1, <1>10 DEF transfer_with_ref, accepts_linear_ref
  <2>2. DOMAIN tombs' \subseteq DOMAIN tombs /\ l.self \notin DOMAIN tombs'
    BY <1>10 DEF transfer_with_ref, undo_soft_burn, Without
  <2> QED
    BY <2>1, <2>2, ObjectMoved
<1>11. ASSUME NEW a \in Accounts, NEW o \in Objects, burn(a, o)
       PROVE  ObjectsInvariant' /\ ObjectsStep
  <2>1. /\ UNCHANGED <<core, untransferable, cache, via>> /\ core[o].owner = a
        /\ DOMAIN tombs' = DOMAIN tombs \cup {o}
    BY <1>11 DEF burn, With
  <2> QED
    BY <2>1, ObjectsStay
<1>12. ASSUME NEW a \in Accounts, NEW o \in Objects, unburn(a, o)
       PROVE  ObjectsInvariant' /\ ObjectsStep
  <2>1. /\ DOMAIN tombs' \subseteq DOMAIN tombs /\ o \in DOMAIN tombs
        /\ UNCHANGED <<untransferable, cache>>
    BY <1>12 DEF unburn, Without
  <2>2. CASE UNCHANGED <<core, via>>
    BY <2>1, <2>2, ObjectsStay
  <2>3. CASE MoveTo(o, a, "unburn")
    BY <1>1, <2>1, <2>3, ObjectMoved
  <2> QED
    BY <1>12, <2>2, <2>3 DEF unburn
<1>13. ASSUME NEW a \in Accounts, NEW o \in Objects, NEW to \in Places, transfer_raw(a, o, to)
       PROVE  ObjectsInvariant' /\ ObjectsStep
  <2>1. /\ verify_ungated_and_descendant(a, o) /\ MoveTo(o, to, "owner") /\ to \in ObjectOwners
        /\ UNCHANGED <<untransferable, tombs, cache>>
    BY <1>1, <1>13 DEF transfer_raw
  <2>2. core[o].allow_ungated_transfer /\ UnlockedOwners(o) \cap Accounts # {}
    BY <2>1, OwnersAreReached
  <2>3. o \notin untransferable
    BY <1>1, <2>2 DEF LocksHold
  <2> QED
    BY <2>1, <2>2, <2>3, ObjectMoved
<1>14. CASE UNCHANGED object_vars
  <2>1. UNCHANGED <<core, untransferable, tombs, cache, via>>
    BY <1>14 DEF object_vars
  <2> QED
    BY <1>14, <2>1, ObjectsStay
<1> QED
  BY <1>2, <1>3, <1>4, <1>5, <1>6, <1>7, <1>8, <1>9, <1>10, <1>11, <1>12, <1>13, <1>14 DEF ObjectsNext, Construct, UseRef

\* Objects are moved only by owners through what is unlocked or by references, the untransferable
\* stay, a reference ends the claim of who burnt, and cached addresses are the derived ones.
THEOREM ObjectsCorrectness == ObjectsSpec => ObjectsStayWithTheirOwners
<1>1. ObjectsInvariant /\ [ObjectsNext]_object_vars => ObjectsInvariant'
  BY ObjectsInvariantStep
<1>2. ObjectsInvariant /\ [ObjectsNext]_object_vars
        => [UntransferableStays /\ OwnersMoveWhatIsUnlocked /\ RefsEndReclaims]_object_vars
  BY ObjectsInvariantStep DEF ObjectsStep
<1> QED
  BY <1>1, <1>2, ObjectsInitially, CacheTransparent, PTL DEF ObjectsSpec, ObjectsStayWithTheirOwners
=============================================================================
