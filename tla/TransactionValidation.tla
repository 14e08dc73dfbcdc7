----------------------- MODULE TransactionValidation -----------------------
(***************************************************************************)
(* Validation of user transactions (transaction_validation.move,            *)
(* nonce_validation.move, account.move): the prologue that accepts a        *)
(* transaction, by its sequence number or by its nonce, and the epilogue    *)
(* that charges it.  A signed transaction may be submitted any number of    *)
(* times and in any order, and the payload of an accepted one may fail.     *)
(* Authentication keys, secondary signers, simulation and the permission to *)
(* pay gas are left out; the price of gas is one.                           *)
(***************************************************************************)
EXTENDS Naturals, FiniteSets

CONSTANTS Addresses,      \* numbers: the order of addresses orders a bucket
          Transactions,   \* the signed ones
          bucket(_),      \* sip_hash_from_value(nonce_key) % NUM_BUCKETS
          Overlap,        \* NONCE_REPLAY_PROTECTION_OVERLAP_INTERVAL_SECONDS
          MaxExpiration,  \* MAX_EXP_TIME_SECONDS_FOR_ORDERLESS_TXNS
          MaxCollected,   \* MAX_ENTRIES_GARBAGE_COLLECTED_PER_CALL
          Refunds,        \* storage refunds
          Funds,          \* initial balances
          MaxTime         \* bound: seconds

\* A transaction's number is its nonce if it is orderless and its sequence number otherwise.
Transaction == [sender : Addresses, payer : Addresses, orderless : BOOLEAN, number : Nat,
                expiration : Nat, max_fee : Nat]
ASSUME TransactionsAssumption == Transactions \subseteq Transaction
ASSUME OverlapAssumption == Overlap \in Nat
ASSUME LedgerAssumption == Funds \in [Addresses -> Nat] /\ Refunds \subseteq Nat

VARIABLES now,                \* timestamp::now_seconds
          default_account,    \* the feature DEFAULT_ACCOUNT_RESOURCE
          accounts,           \* addresses with an Account resource
          sequence_number, balances,
          nonce_to_exp_time,  \* Bucket.nonce_to_exp_time_map, of all buckets: key |-> expiration
          nonces_by_exp_time, \* Bucket.nonces_ordered_by_exp_time: [expiration, key]
          running,            \* the accepted transaction the virtual machine executes
          fee,                \* what executing it will cost
          accepted            \* transaction |-> how often it was accepted, at most 2
validation_vars == <<now, default_account, accounts, sequence_number, balances,
          nonce_to_exp_time, nonces_by_exp_time, running, fee, accepted>>
history == <<nonce_to_exp_time, nonces_by_exp_time>>
ledger == <<accounts, sequence_number, balances>>

key(t) == <<t.sender, t.number>>
entry(expiration, k) == [expiration |-> expiration, key |-> k]
Before(e, f) ==
  \/ e.expiration < f.expiration
  \/ e.expiration = f.expiration /\ e.key[1] < f.key[1]
  \/ e.expiration = f.expiration /\ e.key[1] = f.key[1] /\ e.key[2] < f.key[2]

exists_at(a) == default_account \/ a \in accounts
get_sequence_number(a) == IF a \in accounts THEN sequence_number[a] ELSE 0

ValidationInit ==
  /\ now = 0 /\ default_account \in BOOLEAN
  /\ accounts \in SUBSET Addresses
  /\ sequence_number = [a \in Addresses |-> 0] /\ balances = Funds
  /\ nonce_to_exp_time = <<>> /\ nonces_by_exp_time = {}
  /\ running = {} /\ fee = 0 /\ accepted = [t \in Transactions |-> 0]

---------------------------------------------------------------------------
(* Replay protection *)

check_for_replay_protection_regular_txn(t) ==
  IF t.sender = t.payer \/ exists_at(t.sender) \/ t.number > 0
  THEN exists_at(t.sender) /\ t.number = get_sequence_number(t.sender)
  ELSE t.number = 0

\* Collected: the first expired entries of the bucket, of those left without the pair's own.
\* Mutant: the overlap is added to the other side.
collected_early(k, entries) ==
  LET of == {e \in entries : bucket(e.key) = bucket(k)}
  IN {e \in of : e.expiration < now + Overlap /\ Cardinality({f \in of : Before(f, e)}) < MaxCollected}
collected(k, entries) ==
  LET of == {e \in entries : bucket(e.key) = bucket(k)}
  IN {e \in of : e.expiration + Overlap < now /\ Cardinality({f \in of : Before(f, e)}) < MaxCollected}

may_follow(k, expiration) ==
  k \in DOMAIN nonce_to_exp_time =>
    /\ nonce_to_exp_time[k] < now
    /\ expiration > nonce_to_exp_time[k] + Overlap
entries_without(k) ==
  IF k \in DOMAIN nonce_to_exp_time THEN nonces_by_exp_time \ {entry(nonce_to_exp_time[k], k)} ELSE nonces_by_exp_time

check_and_insert_nonce(k, expiration) ==
  LET others == entries_without(k)
      left == others \ collected(k, others)
  IN /\ expiration <= now + Overlap
     /\ may_follow(k, expiration)
     /\ nonces_by_exp_time' = left \cup {entry(expiration, k)}
     /\ nonce_to_exp_time' = [j \in (DOMAIN nonce_to_exp_time \ {e.key : e \in collected(k, others)}) \cup {k} |->
                                IF j = k THEN expiration ELSE nonce_to_exp_time[j]]

check_for_replay_protection_orderless_txn(t) ==
  t.expiration <= now + MaxExpiration /\ check_and_insert_nonce(key(t), t.expiration)

---------------------------------------------------------------------------
(* One transaction at a time *)

is_fungible_balance_at_least(t) == balances[t.payer] >= t.max_fee

prologue_common(t) ==
  /\ now < t.expiration
  /\ \/ t.orderless /\ check_for_replay_protection_orderless_txn(t)
     \/ ~t.orderless /\ check_for_replay_protection_regular_txn(t) /\ UNCHANGED history
  /\ is_fungible_balance_at_least(t)

Prologue(t) ==
  /\ running = {} /\ prologue_common(t)
  /\ running' = {t} /\ fee' \in 0..t.max_fee
  /\ accepted' = [accepted EXCEPT ![t] = IF @ = 0 THEN 1 ELSE 2]
  /\ UNCHANGED <<now, default_account, ledger>>

\* Mutant: only a sender who pays counts its sequence number.
increment_own_sequence_number(t, created) ==
  /\ accounts' = accounts \cup created
  /\ sequence_number' = IF t.sender = t.payer THEN [sequence_number EXCEPT ![t.sender] = @ + 1] ELSE sequence_number
increment_sequence_number(t, created) ==
  /\ accounts' = accounts \cup created \cup {t.sender}
  /\ sequence_number' = [sequence_number EXCEPT ![t.sender] = @ + 1]

\* The virtual machine creates the account of a sponsored sender that has none.
created_for(t) == IF t.number = 0 /\ ~t.orderless /\ t.sender # t.payer THEN {t.sender} ELSE {}

\* The assertions of the epilogue: the payer can pay, and the account whose number is counted exists.
chargeable(t, funds) ==
  /\ funds[t.payer] >= fee
  /\ t.orderless \/ default_account \/ t.sender \in accounts \cup created_for(t)

unified_epilogue_v2(t, funds, refund) ==
  /\ chargeable(t, funds)
  /\ balances' = [funds EXCEPT ![t.payer] = @ + refund - fee]
  /\ IF t.orderless THEN UNCHANGED <<accounts, sequence_number>> ELSE increment_sequence_number(t, created_for(t))
  /\ running' = {} /\ fee' = 0
  /\ UNCHANGED <<now, default_account, history, accepted>>

\* The payload moves coins of its sender; its epilogue sees what is left.
Succeed(t) ==
  \E to \in Addresses, amount \in 0..balances[t.sender], refund \in Refunds :
    LET paid == [balances EXCEPT ![t.sender] = @ - amount]
    IN unified_epilogue_v2(t, [paid EXCEPT ![to] = @ + amount], refund)
\* A payload that fails, and one whose epilogue fails, leaves no effect and is charged.
Fail(t) == \E refund \in Refunds : unified_epilogue_v2(t, balances, refund)

Tick ==
  /\ running = {} /\ now < MaxTime /\ now' = now + 1
  /\ UNCHANGED <<default_account, ledger, history, running, fee, accepted>>

Finish == \E t \in running : Succeed(t) \/ Fail(t)
ValidationNext == Tick \/ Finish \/ \E t \in Transactions : Prologue(t)
ValidationSpec == ValidationInit /\ [][ValidationNext]_validation_vars

---------------------------------------------------------------------------
(* Properties *)

ValidationTypeOK ==
  /\ now \in Nat
  /\ running \subseteq Transactions
  /\ accepted \in [Transactions -> 0..2]
  /\ balances \in [Addresses -> Nat] /\ fee \in Nat
  /\ DOMAIN nonce_to_exp_time \subseteq Addresses \X Nat
  /\ \A k \in DOMAIN nonce_to_exp_time : nonce_to_exp_time[k] \in Nat

\* A signed transaction is executed at most once, however often and late it is submitted again
\* (transaction_validation.move:22, "We need to ensure that a transaction can't be replayed").
RunsAtMostOnce == \A t \in Transactions : accepted[t] <= 1

Orderless == {t \in Transactions : t.orderless /\ accepted[t] > 0}

\* Transactions of a sender with one nonce are executed only if their expirations lie further apart
\* than the overlap, also when the history has forgotten the first (nonce_validation.move:14).
NoncesAreFarApart ==
  \A s, t \in Orderless :
    s # t /\ key(s) = key(t)
      => s.expiration > t.expiration + Overlap \/ t.expiration > s.expiration + Overlap

\* An account's sequence numbers are used in order and by one transaction each, sponsored or not, and
\* also while the account does not exist (check_for_replay_protection_regular_txn).
Used(a) == {t \in Transactions : ~t.orderless /\ t.sender = a /\ accepted[t] > 0}
SequenceNumbersInOrder ==
  running = {} => \A a \in Addresses :
    /\ {t.number : t \in Used(a)} = 0..(sequence_number[a] - 1)
    /\ \A s, t \in Used(a) : s.number = t.number => s = t

\* The two maps of the buckets hold the same entries (nonce_validation.move:54).
MapsAgree ==
  nonces_by_exp_time = {entry(nonce_to_exp_time[k], k) : k \in DOMAIN nonce_to_exp_time}

\* An accepted transaction is executed and charged, whatever its payload spends: the epilogue that
\* runs after a failure can always be executed (epilogue_gas_payer_extended).
AcceptedIsCharged == \A t \in running : chargeable(t, balances)

\* Nonces are used far apart, sequence numbers in order, the two maps of a bucket agree, and what was
\* accepted can be charged (transaction_validation.move, nonce_validation.move).
TransactionsRunInOrder ==
  ValidationTypeOK /\ NoncesAreFarApart /\ MapsAgree /\ SequenceNumbersInOrder /\ AcceptedIsCharged
=============================================================================
