---------------------------- MODULE EdSignatures ----------------------------
(***************************************************************************)
(* Ed25519 and t-out-of-n MultiEd25519 signatures                          *)
(* (natives/src/cryptography/{ed25519,multi_ed25519}.rs behind             *)
(* aptos_std::{ed25519,multi_ed25519}).  A key may be validated by two     *)
(* natives that differ, or not at all, and is parsed again when a          *)
(* signature is verified; the threshold is read from the bytes by Move     *)
(* code and by the library, each in its own way.                           *)
(*                                                                         *)
(* Bytes are abstracted to their chunks: a sub-key is "ok", of "small"     *)
(* order or "bad" (no point), a sub-signature is the index of the sub-key  *)
(* that made it or 0, and `tail' counts the bytes after the last chunk.    *)
(* MaxSubKeys stands for MAX_NUM_OF_KEYS = 32.                             *)
(***************************************************************************)
EXTENDS Integers, SequencesExt, FiniteSetsExt

CONSTANTS MaxSubKeys, MaxSubSigs, Absent, BitmapBits

ASSUME EdAssumption ==
    /\ MaxSubKeys \in Nat \ {0} /\ MaxSubSigs \in Nat /\ BitmapBits \in Nat
    /\ Absent \notin Nat \cup BOOLEAN

VARIABLES unvalidated,  \* an UnvalidatedPublicKey (bytes), or Absent
          validated,    \* a ValidatedPublicKey [bytes, by], or Absent
          sig,          \* a Signature (bytes), or Absent
          verified,     \* the last verification of the pair, or Absent
          wrong_length  \* ED25519_PUBKEY_VALIDATE_RETURN_FALSE_WRONG_LENGTH

ed_vars == <<unvalidated, validated, sig, verified, wrong_length>>

Kinds == {"ok", "small", "bad"}
MultiKeys == [subs : SeqOf(Kinds, MaxSubKeys + 1), tail : 0 .. 2,
              last : 0 .. (MaxSubKeys + 1)]
MultiSignatures == [subs : SeqOf(0 .. MaxSubKeys, MaxSubSigs), tail : {3, 4},
                     bitmap : SUBSET (1 .. BitmapBits)]

-----------------------------------------------------------------------------
(* The library.  check_and_get_threshold: between 1 and MaxSubKeys sub-keys,*)
(* one byte after them, and that byte between 1 and their number.           *)
Counts(b) == b.tail = 1 /\ Len(b.subs) \in 1 .. MaxSubKeys
ThresholdIsKnown(b) == Counts(b) /\ b.last \in 1 .. Len(b.subs)

ParsesAsKey(b) == ThresholdIsKnown(b) /\ "bad" \notin ToSet(b.subs)
ParsesAsSignature(s) ==
    /\ s.tail = 4 /\ Len(s.subs) >= 1
    /\ Cardinality(s.bitmap) = Len(s.subs)
VerifyStrict(kind, i, by) == kind = "ok" /\ by = i

(* verify_arbitrary_msg: the bitmap names the keys, in order, that signed.  *)
verify_arbitrary_msg(s, b) ==
    /\ s.bitmap \subseteq DOMAIN b.subs
    /\ Len(s.subs) >= b.last
    /\ \A k \in s.bitmap :
           LET i == Cardinality(s.bitmap \cap 1 .. k)
           IN  VerifyStrict(b.subs[k], k, s.subs[i])

-----------------------------------------------------------------------------
(* The natives.  num_valid_subpks stops at the first that is not valid.     *)
num_valid_subpks(b) ==
    LET bad == SelectInSeq(b.subs, LAMBDA k : k # "ok") IN
    IF bad = 0 THEN Len(b.subs) ELSE bad - 1

\* Mutant: the format was checked by the caller.
skips_the_threshold(b) == num_valid_subpks(b) = Len(b.subs)
native_public_key_validate_v2(b) ==
    ThresholdIsKnown(b) /\ num_valid_subpks(b) = Len(b.subs)

native_public_key_validate_with_gas_fix(b) ==
    Len(b.subs) <= MaxSubKeys /\ num_valid_subpks(b) = Len(b.subs)

native_signature_verify_strict(s, b) ==
    ParsesAsKey(b) /\ ParsesAsSignature(s) /\ verify_arbitrary_msg(s, b)

(* ed25519: one key, one signature.  A key of another length is FALSE or an *)
(* abort, by a feature flag.                                               *)
ed25519_public_key_validate(kind, length, flag) ==
    IF length # 32 THEN IF flag THEN "false" ELSE "E_WRONG_PUBKEY_SIZE"
    ELSE IF kind = "ok" THEN "true" ELSE "false"
ed25519_signature_verify_strict(by, i, kind) ==
    kind # "bad" /\ VerifyStrict(kind, i, by)

-----------------------------------------------------------------------------
EdInit == /\ unvalidated = Absent /\ validated = Absent /\ sig = Absent
          /\ verified = Absent /\ wrong_length \in BOOLEAN

new_unvalidated_public_key_from_bytes(b) ==
    /\ Len(b.subs) <= MaxSubKeys /\ b.tail = 1
    /\ unvalidated' = b /\ verified' = Absent
    /\ UNCHANGED <<validated, sig, wrong_length>>

new_validated_public_key_from_bytes(b) ==
    /\ b.tail = 1 /\ native_public_key_validate_with_gas_fix(b)
    /\ validated' = [bytes |-> b, by |-> "v1"]
    /\ UNCHANGED <<unvalidated, sig, verified, wrong_length>>

new_validated_public_key_from_bytes_v2(b) ==
    /\ native_public_key_validate_v2(b)
    /\ validated' = [bytes |-> b, by |-> "v2"]
    /\ UNCHANGED <<unvalidated, sig, verified, wrong_length>>

public_key_validate == /\ unvalidated # Absent
                       /\ new_validated_public_key_from_bytes(unvalidated)
public_key_validate_v2 == /\ unvalidated # Absent
                          /\ new_validated_public_key_from_bytes_v2(unvalidated)

public_key_into_unvalidated ==
    /\ validated # Absent
    /\ unvalidated' = validated.bytes /\ validated' = Absent /\ verified' = Absent
    /\ UNCHANGED <<sig, wrong_length>>

new_signature_from_bytes(s) ==
    /\ sig = Absent /\ s.tail = 4 /\ sig' = s /\ verified' = Absent
    /\ UNCHANGED <<unvalidated, validated, wrong_length>>

signature_verify_strict ==
    /\ unvalidated # Absent /\ sig # Absent
    /\ verified' = native_signature_verify_strict(sig, unvalidated)
    /\ UNCHANGED <<unvalidated, validated, sig, wrong_length>>

(* The script ends.                                                        *)
EndScript == /\ unvalidated' = Absent /\ validated' = Absent /\ sig' = Absent
             /\ verified' = Absent /\ UNCHANGED wrong_length

(* check_and_get_threshold of Move: a threshold, or Absent.                 *)
check_and_get_threshold(b) ==
    IF Len(b.subs) = 0 \/ Len(b.subs) > MaxSubKeys \/ b.tail # 1 THEN Absent
    ELSE IF b.last = 0 \/ b.last > Len(b.subs) THEN Absent
    ELSE b.last
validated_public_key_threshold(b) == b.last

EdNext ==
    \/ \E b \in MultiKeys :
           /\ unvalidated = Absent /\ validated = Absent
           /\ \/ new_unvalidated_public_key_from_bytes(b)
              \/ new_validated_public_key_from_bytes(b)
              \/ new_validated_public_key_from_bytes_v2(b)
    \/ public_key_validate \/ public_key_validate_v2
    \/ public_key_into_unvalidated
    \/ \E s \in MultiSignatures : new_signature_from_bytes(s)
    \/ signature_verify_strict
    \/ EndScript

EdSpec == EdInit /\ [][EdNext]_ed_vars

-----------------------------------------------------------------------------
(* "we will leave it as is and continue assuming UnvalidatedPublicKey       *)
(* objects could be invalid PKs that will safely be rejected during         *)
(* signature verification": a signature verifies only under a key whose     *)
(* format Move's own check accepts, and then with the threshold it reads.   *)
MalformedKeysNeverVerify ==
    verified = TRUE =>
        /\ check_and_get_threshold(unvalidated) # Absent
        /\ Len(sig.subs) >= check_and_get_threshold(unvalidated)
        /\ check_and_get_threshold(unvalidated) =
               validated_public_key_threshold(unvalidated)

(* A 1-out-of-1 multi-key is its sub-key: the two verifications agree.      *)
OneOfOneIsSingle ==
    (/\ verified # Absent
     /\ Len(unvalidated.subs) = 1 /\ unvalidated.last = 1
     /\ Len(sig.subs) = 1 /\ sig.bitmap = {1})
    => verified = ed25519_signature_verify_strict(sig.subs[1], 1,
                                                unvalidated.subs[1])

(* What the second validation accepts, the first does too; a key validated  *)
(* by it has a threshold between 1 and n and only full-order sub-keys, each *)
(* of which single-key validation accepts.                                  *)
ValidatedKeysAreSound ==
    (validated # Absent /\ validated.by = "v2") =>
        LET b == validated.bytes IN
        /\ native_public_key_validate_with_gas_fix(b)
        /\ check_and_get_threshold(b) = b.last
        /\ \A i \in DOMAIN b.subs :
               ed25519_public_key_validate(b.subs[i], 32, wrong_length) = "true"

(* What the native verification of multi-keys accepts, the checks of the    *)
(* Move module accept (ed25519.rs, multi_ed25519.rs).                       *)
EdKeysAreSound ==
    MalformedKeysNeverVerify /\ OneOfOneIsSingle /\ ValidatedKeysAreSound

(* "All ValidatedPublicKey objects are guaranteed to pass this check"        *)
(* (multi_ed25519.move, above check_and_get_threshold).                      *)
ValidatedKeysPassTheCheck ==
    validated # Absent => check_and_get_threshold(validated.bytes) # Absent
============================================================================
