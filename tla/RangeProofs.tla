---------------------------- MODULE RangeProofs ----------------------------
(***************************************************************************)
(* Bulletproof range proofs (natives/src/cryptography/bulletproofs.rs      *)
(* behind aptos_std::ristretto255_bulletproofs): a prover commits to       *)
(* values and proves that each is below 2^num_bits; a verifier is given    *)
(* commitments, bases, the proof, the range and a domain-separation tag.   *)
(*                                                                         *)
(* A value is represented by the number of bits it needs, a commitment by  *)
(* what was committed to, a proof by what it proves.  The library behind   *)
(* RangeProof::{prove,verify}_{single,multiple} is external: a proof       *)
(* verifies against exactly what it was made for, and proves nothing of a  *)
(* value that does not fit.                                                *)
(***************************************************************************)
EXTENDS Integers, SequencesExt

CONSTANTS Widths,    \* bits the values need
          Ranges,    \* num_bits arguments
          Tags,      \* domain-separation tags, each with its length
          Bases,     \* points used as commitment bases
          MaxBatch, None, Garbage

ASSUME RangeProofsAssumption ==
    /\ Widths \subseteq Nat /\ Ranges \subseteq Nat /\ MaxBatch \in Nat
    /\ \A t \in Tags : t.length \in Nat

VARIABLES proof,    \* the bytes of the last proof, None before
          comms,    \* the commitments the prover returned with it
          asked,    \* the arguments of the last verification, or None
          outcome   \* what the last call returned or aborted with

proof_vars == <<proof, comms, asked, outcome>>

Codes == {"E_DST_TOO_LONG", "NFE_DESERIALIZE_RANGE_PROOF",
          "NFE_VALUE_OUTSIDE_RANGE", "NFE_RANGE_NOT_SUPPORTED",
          "NFE_BATCH_SIZE_NOT_SUPPORTED", "NFE_VECTOR_LENGTHS_MISMATCH"}
Verdicts == {"valid", "invalid"}

-----------------------------------------------------------------------------
is_supported_number_of_bits(num_bits) == num_bits \in {8, 16, 32, 64}

is_supported_batch_size(batch_size) == batch_size \in {1, 2, 4, 8, 16}

(* The combinations the gas schedule has an entry for (charge_gas).        *)
VerifyBaseBatchBits == {1, 2, 4, 8, 16} \X {8, 16, 32, 64}

PedersenGens(val_base, rand_base) == [B |-> val_base, B_blinding |-> rand_base]
Commit(pg, v, r) == [gens |-> pg, value |-> v, blinding |-> r]

(* The library.  The low num_bits bits of each value are what is proved;    *)
(* prove_multiple refuses a batch that is no power of two.                  *)
LibraryProves(n) == \E k \in 0 .. 4 : n = 2^k
LibraryProof(pg, vs, rs, num_bits, dst) ==
    [of |-> [i \in DOMAIN vs |-> Commit(pg, vs[i], rs[i])],
     gens |-> pg, bits |-> num_bits, tag |-> dst,
     sound |-> \A i \in DOMAIN vs : vs[i] <= num_bits]
Gens == [B : Bases, B_blinding : Bases]
Proofs == [of : Seq([gens : Gens, value : Widths, blinding : Nat]),
           gens : Gens, bits : Ranges, tag : Tags, sound : BOOLEAN]
ASSUME NoneAssumption == None \notin Codes \cup Proofs
ProofHolds(p, cs, pg, num_bits, dst) ==
    /\ p.sound /\ p.of = cs /\ p.gens = pg
    /\ p.bits = num_bits /\ p.tag = dst

(* The provers' checks, in their order; rs is checked in a batch only.      *)
ProverCode(vs, rs, num_bits) ==
    IF ~is_supported_number_of_bits(num_bits) THEN "NFE_RANGE_NOT_SUPPORTED"
    ELSE IF ~is_supported_batch_size(Len(vs)) THEN "NFE_BATCH_SIZE_NOT_SUPPORTED"
    ELSE IF Len(vs) # Len(rs) THEN "NFE_VECTOR_LENGTHS_MISMATCH"
    ELSE IF \E i \in DOMAIN vs : vs[i] > 64 THEN "NFE_VALUE_OUTSIDE_RANGE"
    ELSE IF ~LibraryProves(Len(vs)) THEN "NFE_PROVER_BATCH_FAILED"
    ELSE None

(* verify_range_proof and verify_batch_range_proof after the bases have    *)
(* been read: charge, parse, verify.  The single verifier charges a base,  *)
(* parses and then charges by the bit; both have charged before verifying. *)
Verdict(p, cs, pg, num_bits, dst) ==
    IF p = Garbage THEN "NFE_DESERIALIZE_RANGE_PROOF"
    ELSE IF ProofHolds(p, cs, pg, num_bits, dst) THEN "valid"
    ELSE "invalid"

\* Mutant: the bases are read in the order they are declared.
PopsTheValueBaseFirst(c, val_base, rand_base, p, num_bits, dst) ==
    IF ~is_supported_number_of_bits(num_bits) THEN "NFE_RANGE_NOT_SUPPORTED"
    ELSE Verdict(p, <<c>>, PedersenGens(rand_base, val_base), num_bits, dst)
native_verify_range_proof(c, val_base, rand_base, p, num_bits, dst) ==
    IF ~is_supported_number_of_bits(num_bits) THEN "NFE_RANGE_NOT_SUPPORTED"
    ELSE Verdict(p, <<c>>, PedersenGens(val_base, rand_base), num_bits, dst)

native_verify_batch_range_proof(cs, val_base, rand_base, p, num_bits, dst) ==
    IF ~is_supported_number_of_bits(num_bits) THEN "NFE_RANGE_NOT_SUPPORTED"
    ELSE IF ~is_supported_batch_size(Len(cs)) THEN "NFE_BATCH_SIZE_NOT_SUPPORTED"
    ELSE IF <<Len(cs), num_bits>> \notin VerifyBaseBatchBits
    THEN "NFE_VERIFY_BATCH_BITS_UNSUPPORTED"
    ELSE Verdict(p, cs, PedersenGens(val_base, rand_base), num_bits, dst)

-----------------------------------------------------------------------------
ProofsInit == /\ proof = None /\ comms = <<>> /\ asked = None
        /\ outcome = None

Proves(vs, rs, num_bits, dst, val_base, rand_base) ==
    LET code == ProverCode(vs, rs, num_bits)
        pg == PedersenGens(val_base, rand_base) IN
    /\ IF code # None THEN outcome' = code /\ UNCHANGED <<proof, comms>>
       ELSE /\ proof' = LibraryProof(pg, vs, rs, num_bits, dst)
            /\ comms' = [i \in DOMAIN vs |-> Commit(pg, vs[i], rs[i])]
            /\ outcome' = None
    /\ asked' = None

(* prove_range and prove_batch_range (natives of the testing build)         *)
prove_range(v, num_bits, dst, val_base, rand_base) ==
    Proves(<<v>>, <<1>>, num_bits, dst, val_base, rand_base)
prove_batch_range(vs, rs, num_bits, dst, val_base, rand_base) ==
    Proves(vs, rs, num_bits, dst, val_base, rand_base)

Asked(cs, val_base, rand_base, p, num_bits, dst) ==
    [cs |-> cs, gens |-> PedersenGens(val_base, rand_base), proof |-> p,
     bits |-> num_bits, tag |-> dst]

verify_range_proof(c, val_base, rand_base, p, num_bits, dst) ==
    /\ asked' = Asked(<<c>>, val_base, rand_base, p, num_bits, dst)
    /\ outcome' = IF dst.length > 256 THEN "E_DST_TOO_LONG"
                  ELSE native_verify_range_proof(c, val_base, rand_base, p,
                                                 num_bits, dst)
    /\ UNCHANGED <<proof, comms>>

verify_batch_range_proof(cs, val_base, rand_base, p, num_bits, dst) ==
    /\ asked' = Asked(cs, val_base, rand_base, p, num_bits, dst)
    /\ outcome' = IF dst.length > 256 THEN "E_DST_TOO_LONG"
                  ELSE native_verify_batch_range_proof(cs, val_base, rand_base,
                                                       p, num_bits, dst)
    /\ UNCHANGED <<proof, comms>>

(* The prover writes down what it made; the verifier is given it in order,  *)
(* in another order, or with a proof that does not parse.                   *)
ProveCalls(num_bits, dst, val_base, rand_base) ==
    /\ proof = None
    /\ \/ \E v \in Widths : prove_range(v, num_bits, dst, val_base, rand_base)
       \/ \E n \in 1 .. MaxBatch : \E vs \in [1 .. n -> Widths] :
          \E m \in {n, n - 1} :
              prove_batch_range(vs, [i \in 1 .. m |-> i], num_bits, dst,
                                val_base, rand_base)

VerifyCalls(num_bits, dst, val_base, rand_base) ==
    /\ proof # None
    /\ \E p \in {proof, Garbage} :
          \/ \E i \in DOMAIN comms :
                 verify_range_proof(comms[i], val_base, rand_base, p, num_bits, dst)
          \/ \E cs \in {comms, Reverse(comms)} :
                 verify_batch_range_proof(cs, val_base, rand_base, p, num_bits, dst)

ProofsNext ==
    \E num_bits \in Ranges, dst \in Tags, val_base, rand_base \in Bases :
        /\ val_base # rand_base
        /\ \/ ProveCalls(num_bits, dst, val_base, rand_base)
           \/ VerifyCalls(num_bits, dst, val_base, rand_base)

ProofsSpec == ProofsInit /\ [][ProofsNext]_proof_vars

-----------------------------------------------------------------------------
(* No internal error is reachable: the checks before a call of the library  *)
(* are the library's own preconditions.                                     *)
NoInternalError == /\ outcome \in Codes \cup Verdicts \cup {None}
          /\ comms # <<>> => proof # None

(* A verification says yes exactly to the question the proof answers: the   *)
(* prover and the verifier natives take the range, the tag and the two      *)
(* bases in different orders, and both must mean the same by them.          *)
VerifiesWhatWasProved ==
    (asked # None /\ outcome \in Verdicts) =>
        (outcome = "valid" <=>
            /\ proof.sound /\ asked.cs = comms /\ asked.gens = proof.gens
            /\ asked.bits = proof.bits /\ asked.tag = proof.tag)

(* Whatever a prover returned, a verifier can be asked about: no range or   *)
(* batch size that proves is refused, or lacks an entry in the gas schedule. *)
ProvedIsVerifiable ==
    ( /\ asked # None
      /\ asked.proof # Garbage /\ asked.tag.length <= 256
      /\ asked.bits = proof.bits )
    => outcome \in Verdicts

(* A range proof verifies exactly for what it proved, and what can be       *)
(* proved can be verified (bulletproofs.rs).                                *)
RangesAreProved ==
    NoInternalError /\ VerifiesWhatWasProved /\ ProvedIsVerifiable
============================================================================
