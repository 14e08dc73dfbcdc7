--------------------------- MODULE MCCryptography ---------------------------
(* The cryptographic natives, side by side: they share no state, so each    *)
(* behaviour is one of the library `part' and leaves the others alone.      *)
EXTENDS Ristretto, RangeProofs, BlsSignatures, EdSignatures, Algebra

CONSTANTS var1, var2, signer1, signer2, m1, B, H     \* model values

VARIABLE part

mc_vars == <<part, algebra_vars, point_vars, scalar_vars, proof_vars, bls_vars, ed_vars>>

\* The encodings of the residues, and some that are of none.
MCByteStrings == {<<>>} \cup {<<v>> : v \in 0 .. 7} \cup {<<v, w>> : v, w \in 0 .. 2}
                 \cup {<<v, v + 1, 0>> : v \in 0 .. 3} \cup {<<v, 0, 0, 0>> : v \in 0 .. 7}

\* Two tags of legal length and one that is too long.
MCTags == {[name |-> "a", length |-> 17], [name |-> "b", length |-> 256], [name |-> "c", length |-> 257]}

MCInit ==
  /\ part \in {"algebra", "points", "scalars", "ranges", "bls", "ed"}
  /\ AlgebraInit /\ PointsInit /\ ScalarsInit /\ ProofsInit /\ BlsInit /\ EdInit
  /\ part # "algebra" => enabled = {}
  /\ part # "ed" => wrong_length

MCNext ==
  \/ /\ part = "algebra" /\ AlgebraNext
     /\ UNCHANGED <<part, point_vars, scalar_vars, proof_vars, bls_vars, ed_vars>>
  \/ /\ part = "points" /\ PointsNext
     /\ UNCHANGED <<part, algebra_vars, scalar_vars, proof_vars, bls_vars, ed_vars>>
  \/ /\ part = "scalars" /\ ScalarsNext
     /\ UNCHANGED <<part, algebra_vars, point_vars, proof_vars, bls_vars, ed_vars>>
  \/ /\ part = "ranges" /\ ProofsNext
     /\ UNCHANGED <<part, algebra_vars, point_vars, scalar_vars, bls_vars, ed_vars>>
  \/ /\ part = "bls" /\ BlsNext
     /\ UNCHANGED <<part, algebra_vars, point_vars, scalar_vars, proof_vars, ed_vars>>
  \/ /\ part = "ed" /\ EdNext
     /\ UNCHANGED <<part, algebra_vars, point_vars, scalar_vars, proof_vars, bls_vars>>

MCSpec == MCInit /\ [][MCNext]_mc_vars
=============================================================================
