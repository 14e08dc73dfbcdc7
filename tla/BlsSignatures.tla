--------------------------- MODULE BlsSignatures ---------------------------
(***************************************************************************)
(* BLS signatures (natives/src/cryptography/bls12381.rs behind             *)
(* aptos_std::bls12381).  A script turns bytes into public keys, with or   *)
(* without a proof of possession, and into signatures; aggregates keys and *)
(* signatures; and verifies.  Which checks a verification leaves out rests *)
(* on what an earlier call established about its arguments.                *)
(*                                                                         *)
(* The curve is symbolic: a point is a bag (what was summed) together with *)
(* its part outside the prime-order subgroup, 0 or 1 and added modulo 2.   *)
(* The aptos-crypto library is external: it verifies the signature's       *)
(* subgroup itself, and a key's only when it verifies a proof of           *)
(* possession.  Gas is the sequence of items charged; per-byte items are   *)
(* left out.                                                               *)
(***************************************************************************)
EXTENDS Integers, SequencesExt

CONSTANTS Signers, Messages, MaxKeys, MaxSignatures, Missing, Malformed

Signed == Signers \X Messages

ASSUME BlsAssumption ==
    /\ MaxKeys \in Nat /\ MaxSignatures \in Nat
    /\ Malformed \notin [of : [Signers -> Int], low : {0, 1}]
    /\ Malformed \notin [of : [Signed -> Int], low : {0, 1}]

VARIABLES key,      \* a PublicKey (bytes), or Missing
          keys,     \* a vector of PublicKeyWithPoP
          sigs,     \* a vector of Signature
          aggkey,   \* an AggrPublicKeysWithPoP [bytes, of], or Missing
          aggsig,   \* an AggrOrMultiSignature [bytes, of], or Missing
          result    \* the last check [fn, value, charges, ...], or Missing

bls_vars == <<key, keys, sigs, aggkey, aggsig, result>>

One(S, y) == [x \in S |-> IF x = y THEN 1 ELSE 0]
Sum(S, ps) ==
    [of |-> [x \in S |-> SumFunction([i \in DOMAIN ps |-> ps[i].of[x]])],
     low |-> SumFunction([i \in DOMAIN ps |-> ps[i].low]) % 2]

KeyOf(s, low) == [of |-> One(Signers, s), low |-> low]
Signature(s, m, low) == [of |-> One(Signed, <<s, m>>), low |-> low]

KeyBytes == {Malformed} \cup {KeyOf(s, low) : s \in Signers, low \in {0, 1}}
SigBytes == {Malformed} \cup
            {Signature(s, m, low) : s \in Signers, m \in Messages, low \in {0, 1}}

(* The library: what a signature of the given keys on these messages is.    *)
Expected(pks, msgs) ==
    [x \in Signed |->
        SumFunction([i \in DOMAIN pks |->
                         IF msgs[i] = x[2] THEN pks[i].of[x[1]] ELSE 0])]
LibraryVerify(sig, pks, msgs) == sig.low = 0 /\ sig.of = Expected(pks, msgs)
LibraryPop(pop, pk) == pop = pk /\ pk.low = 0

-----------------------------------------------------------------------------
(* The natives: a value and what was charged for it.                       *)
Paid(v, items) == [value |-> v, charges |-> items]
Times(item, n) == [i \in 1 .. n |-> item]

(* Deserialization stops at the first that fails, which is charged too.     *)
Viable(bs) == SelectInSeq(bs, LAMBDA b : b = Malformed)
Deserialized(bs) ==
    IF Viable(bs) = 0 THEN bs ELSE SubSeq(bs, 1, Viable(bs) - 1)
deserialize_pks(bs) ==
    Times("pk_deserialize", IF Viable(bs) = 0 THEN Len(bs) ELSE Viable(bs))
deserialize_sigs(bs) ==
    Times("sig_deserialize", IF Viable(bs) = 0 THEN Len(bs) ELSE Viable(bs))

bls12381_pk_subgroub_check(pk) == Paid(pk.low = 0, <<"pk_deserialize">>)
bls12381_sig_subgroub_check(sig) == Paid(sig.low = 0, <<"sig_subgroup">>)

\* Mutant: aggregates those that deserialize.
aggregates_the_prefix(S, bs, paid, item) ==
    IF Deserialized(bs) = <<>> THEN Paid(Missing, <<"base">> \o paid)
    ELSE Paid(Sum(S, Deserialized(bs)), <<"base">> \o paid
                                        \o Times(item, Len(bs)))
aggregate(S, bs, paid, item) ==
    IF bs = <<>> THEN Paid(Missing, <<"base">>)
    ELSE IF Len(Deserialized(bs)) # Len(bs) THEN Paid(Missing, <<"base">> \o paid)
    ELSE Paid(Sum(S, bs), <<"base">> \o paid \o Times(item, Len(bs)))

native_aggregate_pubkeys(bs) ==
    aggregate(Signers, bs, deserialize_pks(bs), "pk_aggregate")
native_aggregate_signatures(bs) ==
    aggregate(Signed, bs, deserialize_sigs(bs), "sig_aggregate")

native_signature_subgroup_check(b) ==
    LET paid == <<"base", "sig_deserialize">> IN
    IF b = Malformed THEN Paid(FALSE, paid)
    ELSE Paid(bls12381_sig_subgroub_check(b).value,
              paid \o bls12381_sig_subgroub_check(b).charges)

native_validate_pubkey(b) ==
    LET paid == <<"base", "pk_deserialize">> IN
    IF b = Malformed THEN Paid(FALSE, paid)
    ELSE Paid(bls12381_pk_subgroub_check(b).value,
              paid \o bls12381_pk_subgroub_check(b).charges)

native_verify_aggregate_signature(b, pks, msgs) ==
    IF Len(pks) # Len(msgs) THEN Paid(FALSE, <<"base">>)
    ELSE LET paid == <<"base">> \o deserialize_pks(pks) IN
         IF Malformed \in ToSet(pks) THEN Paid(FALSE, paid)
         ELSE IF b = Malformed THEN Paid(FALSE, Append(paid, "sig_deserialize"))
         ELSE Paid(LibraryVerify(b, pks, msgs),
                   Append(paid, "sig_deserialize")
                   \o Times("pairing", Len(msgs) + 1)
                   \o Times("msg_hashing", Len(msgs)))

bls12381_verify_signature_helper(b, pk, msg, check_pk_subgroup) ==
    LET paid == <<"base", "pk_deserialize">>
        checked == IF check_pk_subgroup
                   THEN paid \o bls12381_pk_subgroub_check(pk).charges
                   ELSE paid IN
    IF pk = Malformed THEN Paid(FALSE, paid)
    ELSE IF check_pk_subgroup /\ ~bls12381_pk_subgroub_check(pk).value
    THEN Paid(FALSE, checked)
    ELSE IF b = Malformed THEN Paid(FALSE, Append(checked, "sig_deserialize"))
    ELSE Paid(LibraryVerify(b, <<pk>>, <<msg>>),
              checked \o <<"sig_deserialize", "sig_verify", "msg_hashing">>)
native_verify_multisignature(b, pk, msg) ==
    bls12381_verify_signature_helper(b, pk, msg, FALSE)
native_verify_normal_signature(b, pk, msg) ==
    bls12381_verify_signature_helper(b, pk, msg, TRUE)
native_verify_signature_share(b, pk, msg) ==
    bls12381_verify_signature_helper(b, pk, msg, FALSE)

native_verify_proof_of_possession(pk, pop) ==
    LET paid == <<"base", "pk_deserialize">> IN
    IF pk = Malformed THEN Paid(FALSE, paid)
    ELSE IF pop = Malformed THEN Paid(FALSE, Append(paid, "sig_deserialize"))
    ELSE Paid(LibraryPop(pop, pk), paid \o <<"sig_deserialize", "pop_verify">>)

-----------------------------------------------------------------------------
BlsInit == /\ key = Missing /\ keys = <<>> /\ sigs = <<>>
        /\ aggkey = Missing /\ aggsig = Missing /\ result = Missing

Check(fn, r, of, msg) ==
    result' = [fn |-> fn, value |-> r.value, charges |-> r.charges,
               of |-> of, msg |-> msg]

public_key_from_bytes(b) ==
    /\ key' = IF native_validate_pubkey(b).value THEN b ELSE key
    /\ Check("validate", native_validate_pubkey(b), b, Missing)
    /\ UNCHANGED <<keys, sigs, aggkey, aggsig>>

public_key_from_bytes_with_pop(b, pop) ==
    /\ Len(keys) < MaxKeys
    /\ native_verify_proof_of_possession(b, pop).value
    /\ keys' = Append(keys, b) /\ result' = Missing
    /\ UNCHANGED <<key, sigs, aggkey, aggsig>>

public_key_with_pop_to_normal(i) ==
    /\ key' = keys[i] /\ result' = Missing
    /\ UNCHANGED <<keys, sigs, aggkey, aggsig>>

signature_from_bytes(b) ==
    /\ Len(sigs) < MaxSignatures /\ sigs' = Append(sigs, b) /\ result' = Missing
    /\ UNCHANGED <<key, keys, aggkey, aggsig>>

signature_subgroup_check(b) ==
    /\ Check("subgroup", native_signature_subgroup_check(b), b, Missing)
    /\ UNCHANGED <<key, keys, sigs, aggkey, aggsig>>

(* Aborts the script on failure: nothing of it is kept.                    *)
aggregate_pubkeys ==
    LET r == native_aggregate_pubkeys(keys) IN
    /\ r.value # Missing
    /\ aggkey' = [bytes |-> r.value, of |-> keys] /\ result' = Missing
    /\ UNCHANGED <<key, keys, sigs, aggsig>>

aggregate_signatures ==
    LET r == native_aggregate_signatures(sigs) IN
    /\ r.value # Missing
    /\ aggsig' = [bytes |-> r.value, of |-> sigs] /\ result' = Missing
    /\ UNCHANGED <<key, keys, sigs, aggkey>>

verify_normal_signature(b, m) ==
    /\ key # Missing
    /\ Check("normal", native_verify_normal_signature(b, key, m), key, m)
    /\ UNCHANGED <<key, keys, sigs, aggkey, aggsig>>

verify_signature_share(b, i, m) ==
    /\ Check("share", native_verify_signature_share(b, keys[i], m), keys[i], m)
    /\ UNCHANGED <<key, keys, sigs, aggkey, aggsig>>

verify_multisignature(m) ==
    /\ aggkey # Missing /\ aggsig # Missing
    /\ Check("multi", native_verify_multisignature(aggsig.bytes, aggkey.bytes, m),
             aggkey.bytes, m)
    /\ UNCHANGED <<key, keys, sigs, aggkey, aggsig>>

verify_aggregate_signature(msgs) ==
    /\ aggsig # Missing
    /\ Check("aggregate",
             native_verify_aggregate_signature(aggsig.bytes, keys, msgs),
             keys, msgs)
    /\ UNCHANGED <<key, keys, sigs, aggkey, aggsig>>

BlsNext ==
    \/ \E b \in KeyBytes :
           \/ public_key_from_bytes(b)
           \/ \E pop \in KeyBytes : public_key_from_bytes_with_pop(b, pop)
    \/ \E i \in DOMAIN keys : public_key_with_pop_to_normal(i)
    \/ \E b \in SigBytes : signature_from_bytes(b)
    \/ \E b \in ToSet(sigs) : signature_subgroup_check(b)
    \/ aggregate_pubkeys \/ aggregate_signatures
    \/ \E b \in ToSet(sigs), m \in Messages :
           \/ verify_normal_signature(b, m)
           \/ \E i \in DOMAIN keys : verify_signature_share(b, i, m)
    \/ \E m \in Messages : verify_multisignature(m)
    \/ \E msgs \in SeqOf(Messages, MaxKeys) : verify_aggregate_signature(msgs)

BlsSpec == BlsInit /\ [][BlsNext]_bls_vars

-----------------------------------------------------------------------------
BlsTypeOK ==
    /\ key \in KeyBytes \cup {Missing}
    /\ ToSet(keys) \subseteq KeyBytes /\ ToSet(sigs) \subseteq SigBytes

(* A key that passed public_key_from_bytes or a proof of possession is in   *)
(* the prime-order subgroup, whatever it is turned into or summed with; the *)
(* verifications that leave the check out rely on it.                       *)
KeysAreInTheSubgroup ==
    /\ key # Missing => key # Malformed /\ key.low = 0
    /\ \A i \in DOMAIN keys : keys[i] # Malformed /\ keys[i].low = 0
    /\ aggkey # Missing => aggkey.bytes.low = 0

(* A multisignature verifies exactly when it was made of one signature on   *)
(* the message by each of the keys, counted with multiplicity, and of       *)
(* nothing that is not a signature; an aggregate signature likewise, with   *)
(* each key's own message.                                                  *)
MadeOf(ss, pks, msgs) ==
    /\ Malformed \notin ToSet(ss)
    /\ Sum(Signed, ss) = [of |-> Expected(pks, msgs), low |-> 0]
VerifyingMeansEveryoneSigned ==
    /\ (result # Missing /\ aggsig # Missing) =>
         /\ result.fn = "multi" =>
              (result.value <=> MadeOf(aggsig.of, aggkey.of,
                                       [i \in DOMAIN aggkey.of |-> result.msg]))
         /\ result.fn = "aggregate" =>
              (result.value <=> /\ Len(result.of) = Len(result.msg)
                                /\ MadeOf(aggsig.of, result.of, result.msg))

(* An aggregate or multi-signature verifies exactly when each of the keys,  *)
(* all in the subgroup, signed (bls12381.rs).                               *)
AggregatesMeanEveryone ==
    BlsTypeOK /\ KeysAreInTheSubgroup /\ VerifyingMeansEveryoneSigned

(* The gas comment above native_bls12381_validate_pubkey: base,             *)
(* deserialization and then the subgroup check.                             *)
ValidationCostsAsDocumented ==
    (result # Missing /\ result.fn = "validate" /\ result.of # Malformed) =>
        result.charges = <<"base", "pk_deserialize", "pk_subgroup">>
============================================================================
