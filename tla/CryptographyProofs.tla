------------------------- MODULE CryptographyProofs -------------------------
(***************************************************************************)
(* Proofs about the cryptographic natives: sums and residues first, then   *)
(* keys of multi_ed25519.rs, range proofs, points and scalars of           *)
(* Ristretto, BLS signatures and the generic algebra, each with its        *)
(* inductive invariant (EdInv, ProofInv, ScalarInv and PointInv, BlsInv,   *)
(* AlgebraInv).                                                            *)
(***************************************************************************)
EXTENDS Ristretto, RangeProofs, BlsSignatures, EdSignatures, Algebra,
        FiniteSetTheorems, WellFoundedInduction, NaturalsInduction, TLAPS

\* A non-empty set of naturals has a least element, which Min finds.
LEMMA LeastNatural ==
  ASSUME NEW S, S \subseteq Nat, S # {}
  PROVE  \E x \in S : \A y \in S : x <= y
<1>1. PICK x \in S : \A y \in S : ~(<<y, x>> \in OpToRel(<, Nat))
  BY NatLessThanWellFounded, WFMin
<1>2. \A y \in S : ~(y < x)
  BY <1>1 DEF OpToRel
<1> QED BY <1>2

-----------------------------------------------------------------------------
(* Sums over finite sets.  SumFunctionOnSet(f, S) folds a recursive function *)
(* over the subsets of S, and the induction principles of the library cannot *)
(* be instantiated here, so every induction takes a minimal counterexample   *)
(* (MinimalSubset).                                                          *)

\* The member the fold takes next.
Chosen(s) == CHOOSE x \in s : TRUE

\* g sums f over every subset of S: the recursion inside SumFunctionOnSet.
Sums(g, f, S) ==
  g = [s \in SUBSET S |-> IF s = {} THEN 0 ELSE f[Chosen(s)] + g[s \ {Chosen(s)}]]

Summation(f, S) == CHOOSE g : Sums(g, f, S)

\* A non-empty family of subsets of a finite set has a member that leaves the
\* family whenever an element is taken out of it.
LEMMA MinimalSubset ==
  ASSUME NEW S, IsFiniteSet(S), NEW B, B \subseteq SUBSET S, B # {}
  PROVE  \E T \in B : \A x \in T : T \ {x} \notin B
<1>1. IsWellFoundedOn(StrictSubsetOrdering(S), FiniteSubsetsOf(S))
  BY FS_StrictSubsetOrderingWellFounded
<1>2. B \subseteq FiniteSubsetsOf(S)
  BY FS_Subset DEF FiniteSubsetsOf
<1>3. PICK T \in B : \A U \in B : ~(<<U, T>> \in StrictSubsetOrdering(S))
  BY <1>1, <1>2, WFMin
<1>4. ASSUME NEW x \in T, T \ {x} \in B
      PROVE  FALSE
  BY <1>3, <1>4 DEF StrictSubsetOrdering
<1> QED BY <1>4

\* Two summations of f agree wherever both are defined.
LEMMA SumsAgree ==
  ASSUME NEW f, NEW S, NEW T, NEW g, NEW h, Sums(g, f, S), Sums(h, f, T),
         NEW U, U \subseteq S, U \subseteq T, IsFiniteSet(U)
  PROVE  g[U] = h[U]
<1> DEFINE Bad == {s \in SUBSET U : g[s] # h[s]}
<1>1. SUFFICES ASSUME Bad # {} PROVE FALSE
  OBVIOUS
<1>2. PICK s \in Bad : \A x \in s : s \ {x} \notin Bad
  BY <1>1, MinimalSubset
<1>3. CASE s = {}
  BY <1>2, <1>3 DEF Sums
<1>4. CASE s # {}
  <2>1. Chosen(s) \in s
    BY <1>4 DEF Chosen
  <2>2. g[s \ {Chosen(s)}] = h[s \ {Chosen(s)}]
    BY <1>2, <2>1
  <2>3. g[s] = f[Chosen(s)] + g[s \ {Chosen(s)}]
    BY <1>4 DEF Sums
  <2>4. h[s] = f[Chosen(s)] + h[s \ {Chosen(s)}]
    BY <1>4 DEF Sums
  <2> QED BY <2>2, <2>3, <2>4
<1> QED BY <1>3, <1>4

\* The recursion has a solution over every finite set.
LEMMA SummationExists ==
  ASSUME NEW f, NEW S, IsFiniteSet(S)
  PROVE  Sums(Summation(f, S), f, S)
<1> DEFINE Bad == {T \in SUBSET S : ~\E g : Sums(g, f, T)}
<1>1. SUFFICES Bad = {}
  BY <1>1 DEF Summation
<1>2. SUFFICES ASSUME NEW T \in Bad, \A x \in T : T \ {x} \notin Bad PROVE FALSE
  BY MinimalSubset
<1> DEFINE Part(u) == Summation(f, u)
           Rest(s) == s \ {Chosen(s)}
           h == [s \in SUBSET T |-> IF s = {} THEN 0
                                    ELSE f[Chosen(s)] + Part(T \ {Chosen(s)})[Rest(s)]]
<1>3. IsFiniteSet(T)
  BY FS_Subset
<1>4. \A x \in T : Sums(Part(T \ {x}), f, T \ {x})
  BY <1>2 DEF Summation
<1>5. ASSUME NEW s \in SUBSET T, s # {}
      PROVE  Part(T \ {Chosen(s)})[Rest(s)] = h[Rest(s)]
  <2>1. Chosen(s) \in s
    BY <1>5 DEF Chosen
  <2>2. Sums(Part(T \ {Chosen(s)}), f, T \ {Chosen(s)})
    BY <1>4, <2>1
  <2>3. Rest(s) \subseteq T \ {Chosen(s)}
    OBVIOUS
  <2>4. CASE Rest(s) = {}
    BY <2>2, <2>3, <2>4 DEF Sums
  <2>5. CASE Rest(s) # {}
    <3> DEFINE r == Rest(s)
    <3>1. Chosen(r) \in r
      BY <2>5 DEF Chosen
    <3>2. Sums(Part(T \ {Chosen(r)}), f, T \ {Chosen(r)})
      BY <1>4, <3>1
    <3>3. Part(T \ {Chosen(s)})[r]
            = f[Chosen(r)] + Part(T \ {Chosen(s)})[Rest(r)]
      BY <2>2, <2>3, <2>5 DEF Sums
    <3>4. h[r] = f[Chosen(r)] + Part(T \ {Chosen(r)})[Rest(r)]
      BY <2>5
    <3>5. Rest(r) \subseteq T \ {Chosen(s)} /\ Rest(r) \subseteq T \ {Chosen(r)}
      OBVIOUS
    <3>6. IsFiniteSet(Rest(r))
      BY <1>3, <3>5, FS_Subset
    <3>7. Part(T \ {Chosen(s)})[Rest(r)] = Part(T \ {Chosen(r)})[Rest(r)]
      <4> DEFINE V == Rest(r)
                 A == T \ {Chosen(s)}
                 B == T \ {Chosen(r)}
      <4>1. /\ Sums(Part(A), f, A) /\ Sums(Part(B), f, B)
            /\ V \subseteq A /\ V \subseteq B /\ IsFiniteSet(V)
        BY <2>2, <3>2, <3>5, <3>6
      <4> HIDE DEF V, A, B, Part
      <4>2. Part(A)[V] = Part(B)[V]
        BY <4>1, SumsAgree
      <4> QED BY <4>2 DEF A, B, V
    <3> QED BY <3>3, <3>4, <3>7
  <2> QED BY <2>4, <2>5
<1>6. h = [s \in SUBSET T |-> IF s = {} THEN 0 ELSE f[Chosen(s)] + h[Rest(s)]]
  BY <1>5
<1>7. Sums(h, f, T)
  BY <1>6 DEF Sums
<1> QED BY <1>7

\* The sum over nothing.
LEMMA SumEmpty ==
  ASSUME NEW f
  PROVE  SumFunctionOnSet(f, {}) = 0
<1>1. Sums(Summation(f, {}), f, {})
  BY SummationExists, FS_EmptySet
<1>2. SumFunctionOnSet(f, {}) = Summation(f, {})[{}]
  BY DEF SumFunctionOnSet, FoldFunctionOnSet, MapThenFoldSet, Summation, Sums, Chosen
<1> QED BY <1>1, <1>2 DEF Sums

\* The sum unfolded once, at the member the fold takes.
LEMMA SumUnfold ==
  ASSUME NEW f, NEW S, IsFiniteSet(S), S # {}
  PROVE  SumFunctionOnSet(f, S) = f[Chosen(S)] + SumFunctionOnSet(f, S \ {Chosen(S)})
<1> DEFINE R == S \ {Chosen(S)}
<1>1. IsFiniteSet(R)
  BY FS_Subset
<1>2. Sums(Summation(f, S), f, S) /\ Sums(Summation(f, R), f, R)
  BY <1>1, SummationExists
<1>3. SumFunctionOnSet(f, S) = Summation(f, S)[S]
  BY DEF SumFunctionOnSet, FoldFunctionOnSet, MapThenFoldSet, Summation, Sums, Chosen
<1>4. SumFunctionOnSet(f, R) = Summation(f, R)[R]
  BY DEF SumFunctionOnSet, FoldFunctionOnSet, MapThenFoldSet, Summation, Sums, Chosen
<1>5. Summation(f, S)[S] = f[Chosen(S)] + Summation(f, S)[R]
  BY <1>2 DEF Sums
<1>6. Summation(f, S)[R] = Summation(f, R)[R]
  BY <1>1, <1>2, SumsAgree
<1> QED BY <1>3, <1>4, <1>5, <1>6

-----------------------------------------------------------------------------
\* A sum of integers is an integer.
LEMMA SumInt ==
  ASSUME NEW f, NEW S, IsFiniteSet(S), \A x \in S : f[x] \in Int
  PROVE  SumFunctionOnSet(f, S) \in Int
<1> DEFINE Bad == {T \in SUBSET S : SumFunctionOnSet(f, T) \notin Int}
<1>1. SUFFICES ASSUME NEW T \in Bad, \A x \in T : T \ {x} \notin Bad PROVE FALSE
  BY MinimalSubset
<1>2. IsFiniteSet(T)
  BY FS_Subset
<1>3. T # {}
  BY <1>1, SumEmpty
<1>4. Chosen(T) \in T
  BY <1>3 DEF Chosen
<1>5. SumFunctionOnSet(f, T \ {Chosen(T)}) \in Int
  BY <1>1, <1>4
<1>6. SumFunctionOnSet(f, T) = f[Chosen(T)] + SumFunctionOnSet(f, T \ {Chosen(T)})
  BY <1>2, <1>3, SumUnfold
<1>7. f[Chosen(T)] \in Int
  BY <1>4
<1>8. SumFunctionOnSet(f, T) \in Int
  BY <1>5, <1>6, <1>7
<1> QED BY <1>1, <1>8

\* Any member may be taken out of the sum first: the order of the fold is immaterial.
LEMMA SumRemove ==
  ASSUME NEW f, NEW S, IsFiniteSet(S), \A x \in S : f[x] \in Int, NEW x \in S
  PROVE  SumFunctionOnSet(f, S) = f[x] + SumFunctionOnSet(f, S \ {x})
<1> DEFINE Total(T) == SumFunctionOnSet(f, T)
           Bad == {T \in SUBSET S : \E y \in T : Total(T) # f[y] + Total(T \ {y})}
<1>1. SUFFICES ASSUME NEW T \in Bad, \A y \in T : T \ {y} \notin Bad PROVE FALSE
  BY MinimalSubset
<1>2. PICK y \in T : Total(T) # f[y] + Total(T \ {y})
  OBVIOUS
<1> DEFINE z == Chosen(T)
<1>3. IsFiniteSet(T)
  BY FS_Subset
<1>4. z \in T
  BY DEF Chosen
<1>5. Total(T) = f[z] + Total(T \ {z})
  BY <1>3, SumUnfold
<1>6. y # z
  BY <1>2, <1>5
<1>7. Total(T \ {z}) = f[y] + Total((T \ {z}) \ {y})
  BY <1>1, <1>4, <1>6
<1>8. Total(T \ {y}) = f[z] + Total((T \ {y}) \ {z})
  BY <1>1, <1>2, <1>4, <1>6
<1>9. (T \ {y}) \ {z} = (T \ {z}) \ {y}
  OBVIOUS
<1> DEFINE R == (T \ {z}) \ {y}
<1>10. IsFiniteSet(R)
  BY FS_Subset
<1>11. Total(R) \in Int
  BY <1>10, SumInt
<1>12. f[y] \in Int /\ f[z] \in Int
  BY <1>4
<1> HIDE DEF z, R, Total
<1>13. Total(T) = f[y] + (f[z] + Total(R))
  BY <1>5, <1>7, <1>11, <1>12 DEF R
<1> QED BY <1>2, <1>8, <1>9, <1>13 DEF R

\* One more member.
LEMMA SumAdd ==
  ASSUME NEW f, NEW S, IsFiniteSet(S), NEW x, x \notin S,
         \A y \in S \cup {x} : f[y] \in Int
  PROVE  SumFunctionOnSet(f, S \cup {x}) = f[x] + SumFunctionOnSet(f, S)
<1>1. IsFiniteSet(S \cup {x})
  BY FS_AddElement
<1>2. (S \cup {x}) \ {x} = S
  OBVIOUS
<1> QED BY <1>1, <1>2, SumRemove

\* Only the values on S matter.
LEMMA SumSame ==
  ASSUME NEW f, NEW g, NEW S, IsFiniteSet(S), \A x \in S : f[x] = g[x]
  PROVE  SumFunctionOnSet(f, S) = SumFunctionOnSet(g, S)
<1> DEFINE Bad == {T \in SUBSET S : SumFunctionOnSet(f, T) # SumFunctionOnSet(g, T)}
<1>1. SUFFICES ASSUME NEW T \in Bad, \A x \in T : T \ {x} \notin Bad PROVE FALSE
  BY MinimalSubset
<1>2. IsFiniteSet(T)
  BY FS_Subset
<1>3. T # {}
  BY SumEmpty
<1>4. Chosen(T) \in T
  BY <1>3 DEF Chosen
<1>5. SumFunctionOnSet(f, T \ {Chosen(T)}) = SumFunctionOnSet(g, T \ {Chosen(T)})
  BY <1>1, <1>4
<1>6. SumFunctionOnSet(f, T) = f[Chosen(T)] + SumFunctionOnSet(f, T \ {Chosen(T)})
  BY <1>2, <1>3, SumUnfold
<1>7. SumFunctionOnSet(g, T) = g[Chosen(T)] + SumFunctionOnSet(g, T \ {Chosen(T)})
  BY <1>2, <1>3, SumUnfold
<1> QED BY <1>4, <1>5, <1>6, <1>7

\* A sum of one term.
LEMMA SumOne ==
  ASSUME NEW f, DOMAIN f = {1}, f[1] \in Int
  PROVE  SumFunction(f) = f[1]
<1>1. SumFunctionOnSet(f, {} \cup {1}) = f[1] + SumFunctionOnSet(f, {})
  BY FS_EmptySet, SumAdd
<1>2. SumFunctionOnSet(f, {}) = 0
  BY SumEmpty
<1>3. {} \cup {1} = {1}
  OBVIOUS
<1> QED BY <1>1, <1>2, <1>3 DEF SumFunction

\* A sum of two terms.
LEMMA SumTwo ==
  ASSUME NEW f, DOMAIN f = {1, 2}, f[1] \in Int, f[2] \in Int
  PROVE  SumFunction(f) = f[1] + f[2]
<1>1. SumFunctionOnSet(f, {} \cup {1}) = f[1] + SumFunctionOnSet(f, {})
  BY FS_EmptySet, SumAdd
<1>2. SumFunctionOnSet(f, {}) = 0
  BY SumEmpty
<1>3. {} \cup {1} = {1} /\ {1} \cup {2} = {1, 2} /\ 2 \notin {1}
  OBVIOUS
<1>4. SumFunctionOnSet(f, {1} \cup {2}) = f[2] + SumFunctionOnSet(f, {1})
  <2>1. IsFiniteSet({1})
    BY FS_Singleton
  <2>2. \A y \in {1} \cup {2} : f[y] \in Int
    OBVIOUS
  <2> QED BY <1>3, <2>1, <2>2, SumAdd
<1>5. SumFunctionOnSet(f, {1}) = f[1]
  BY <1>1, <1>2, <1>3
<1>6. SumFunctionOnSet(f, {1, 2}) = f[2] + f[1]
  BY <1>3, <1>4, <1>5
<1>7. SumFunctionOnSet(f, {1, 2}) = f[1] + f[2]
  BY <1>6
<1> QED BY <1>7 DEF SumFunction

\* A sum of zeros.
LEMMA SumZeros ==
  ASSUME NEW f, IsFiniteSet(DOMAIN f), \A i \in DOMAIN f : f[i] = 0
  PROVE  SumFunction(f) = 0
<1> DEFINE S == DOMAIN f
           Bad == {T \in SUBSET S : SumFunctionOnSet(f, T) # 0}
<1>1. SUFFICES ASSUME NEW T \in Bad, \A x \in T : T \ {x} \notin Bad PROVE FALSE
  BY MinimalSubset DEF SumFunction
<1>2. IsFiniteSet(T) /\ T # {}
  BY FS_Subset, SumEmpty
<1>3. Chosen(T) \in T /\ SumFunctionOnSet(f, T) = f[Chosen(T)] + SumFunctionOnSet(f, T \ {Chosen(T)})
  BY <1>2, SumUnfold DEF Chosen
<1>4. SumFunctionOnSet(f, T \ {Chosen(T)}) = 0
  BY <1>1, <1>3
<1> QED BY <1>1, <1>3, <1>4

-----------------------------------------------------------------------------
(* Ed25519 and multi-Ed25519 *)

\* What was read: keys and signatures with the lengths that Move code checks, a validated key as one
\* of the two natives accepted it, and a verdict that is the native's on what is held now.
Read(b) == b \in MultiKeys /\ b.tail = 1
EdInv ==
  /\ unvalidated # Absent => Read(unvalidated)
  /\ validated # Absent =>
       /\ Read(validated.bytes)
       /\ validated.by = "v2" => native_public_key_validate_v2(validated.bytes)
  /\ sig # Absent => sig \in MultiSignatures /\ sig.tail = 4
  /\ verified # Absent =>
       /\ unvalidated # Absent /\ sig # Absent
       /\ verified = native_signature_verify_strict(sig, unvalidated)
  /\ wrong_length \in BOOLEAN

\* Every call keeps the invariant,
LEMMA EdStep == ASSUME EdInv, [EdNext]_ed_vars PROVE EdInv'
<1> USE DEF EdInv, Read
<1>1. ASSUME NEW b \in MultiKeys, unvalidated = Absent, validated = Absent,
             new_unvalidated_public_key_from_bytes(b)
      PROVE  EdInv'
  BY <1>1 DEF new_unvalidated_public_key_from_bytes
<1>2. ASSUME NEW b \in MultiKeys, new_validated_public_key_from_bytes(b)
      PROVE  EdInv'
  BY <1>2 DEF new_validated_public_key_from_bytes
<1>3. ASSUME NEW b \in MultiKeys, new_validated_public_key_from_bytes_v2(b)
      PROVE  EdInv'
  <2>1. b.tail = 1
    BY <1>3 DEF new_validated_public_key_from_bytes_v2, native_public_key_validate_v2, ThresholdIsKnown, Counts
  <2> QED BY <1>3, <2>1 DEF new_validated_public_key_from_bytes_v2
<1>4. CASE public_key_validate
  BY <1>2, <1>4 DEF public_key_validate
<1>5. CASE public_key_validate_v2
  BY <1>3, <1>5 DEF public_key_validate_v2
<1>6. CASE public_key_into_unvalidated
  BY <1>6 DEF public_key_into_unvalidated
<1>7. ASSUME NEW s \in MultiSignatures, new_signature_from_bytes(s)
      PROVE  EdInv'
  BY <1>7 DEF new_signature_from_bytes
<1>8. CASE signature_verify_strict
  BY <1>8 DEF signature_verify_strict
<1>9. CASE EndScript
  BY <1>9 DEF EndScript
<1>10. CASE UNCHANGED ed_vars
  BY <1>10 DEF ed_vars
<1> QED
  BY <1>1, <1>2, <1>3, <1>4, <1>5, <1>6, <1>7, <1>8, <1>9, <1>10 DEF EdNext

\* which therefore always holds,
LEMMA EdInvariance == EdSpec => []EdInv
<1>1. EdInit => EdInv
  BY DEF EdInit, EdInv
<1>2. EdInv /\ [EdNext]_ed_vars => EdInv'
  BY EdStep
<1> QED BY <1>1, <1>2, PTL DEF EdSpec

\* A sub-key that is not valid is found, whichever is the first.
LEMMA AllSubKeysAreValid ==
  ASSUME NEW b \in MultiKeys, num_valid_subpks(b) = Len(b.subs)
  PROVE  \A i \in DOMAIN b.subs : b.subs[i] = "ok"
<1> DEFINE I == {i \in 1 .. Len(b.subs) : b.subs[i] # "ok"}
<1>1. b.subs \in Seq(Kinds)
  BY DEF MultiKeys, SeqOf
<1>2. SUFFICES ASSUME I # {} PROVE FALSE
  BY <1>1
<1>3. Min(I) \in I
  <2>1. I \subseteq Nat /\ I # {}
    BY <1>1, <1>2
  <2> HIDE DEF I
  <2> QED BY <2>1, LeastNatural DEF Min
<1>4. SelectInSeq(b.subs, LAMBDA k : k # "ok") = Min(I)
  BY <1>2 DEF SelectInSeq
<1>5. num_valid_subpks(b) = Min(I) - 1
  BY <1>1, <1>3, <1>4 DEF num_valid_subpks
<1> QED BY <1>1, <1>3, <1>5

\* The checks of Move and of the library agree on what a threshold is.
LEMMA ThresholdsAgree ==
  ASSUME NEW b \in MultiKeys, ThresholdIsKnown(b)
  PROVE  /\ check_and_get_threshold(b) = b.last
         /\ check_and_get_threshold(b) # Absent
         /\ b.last \in Nat /\ b.last <= Len(b.subs) /\ Len(b.subs) <= MaxSubKeys
<1>1. b.subs \in Seq(Kinds) /\ Len(b.subs) \in Nat /\ b.last \in Nat
  BY EdAssumption DEF MultiKeys, SeqOf
<1> QED BY <1>1, EdAssumption DEF check_and_get_threshold, ThresholdIsKnown, Counts

\* and it says what EdKeysAreSound does.
LEMMA EdInvSuffices == EdInv => EdKeysAreSound
<1> SUFFICES ASSUME EdInv PROVE EdKeysAreSound
  OBVIOUS
<1>1. MalformedKeysNeverVerify
  <2> SUFFICES ASSUME verified = TRUE
      PROVE  /\ check_and_get_threshold(unvalidated) # Absent
             /\ Len(sig.subs) >= check_and_get_threshold(unvalidated)
             /\ check_and_get_threshold(unvalidated) = validated_public_key_threshold(unvalidated)
    BY DEF MalformedKeysNeverVerify
  <2>1. unvalidated \in MultiKeys /\ native_signature_verify_strict(sig, unvalidated)
    BY EdAssumption DEF EdInv, Read
  <2>2. ThresholdIsKnown(unvalidated) /\ Len(sig.subs) >= unvalidated.last
    BY <2>1 DEF native_signature_verify_strict, ParsesAsKey, verify_arbitrary_msg
  <2> QED BY <2>1, <2>2, ThresholdsAgree DEF validated_public_key_threshold
<1>2. OneOfOneIsSingle
  <2> SUFFICES ASSUME verified # Absent, Len(unvalidated.subs) = 1, unvalidated.last = 1,
                      Len(sig.subs) = 1, sig.bitmap = {1}
      PROVE  verified = ed25519_signature_verify_strict(sig.subs[1], 1, unvalidated.subs[1])
    BY DEF OneOfOneIsSingle
  <2> DEFINE kind == unvalidated.subs[1]
  <2>1. /\ unvalidated \in MultiKeys /\ unvalidated.tail = 1 /\ sig.tail = 4
        /\ verified = native_signature_verify_strict(sig, unvalidated)
    BY DEF EdInv, Read
  <2>2. unvalidated.subs \in Seq(Kinds) /\ DOMAIN unvalidated.subs = {1} /\ ToSet(unvalidated.subs) = {kind}
    BY <2>1 DEF MultiKeys, SeqOf, ToSet
  <2>3. Cardinality({1}) = 1 /\ {1} \cap 1 .. 1 = {1}
    BY FS_Singleton
  <2>4. ParsesAsKey(unvalidated) <=> kind # "bad"
    BY <2>1, <2>2, EdAssumption DEF ParsesAsKey, ThresholdIsKnown, Counts
  <2>5. ParsesAsSignature(sig)
    BY <2>1, <2>3 DEF ParsesAsSignature
  <2>6. verify_arbitrary_msg(sig, unvalidated) <=> VerifyStrict(kind, 1, sig.subs[1])
    BY <2>2, <2>3 DEF verify_arbitrary_msg
  <2> QED BY <2>1, <2>4, <2>5, <2>6 DEF native_signature_verify_strict, ed25519_signature_verify_strict
<1>3. ValidatedKeysAreSound
  <2> SUFFICES ASSUME validated # Absent, validated.by = "v2", NEW b, b = validated.bytes
      PROVE  /\ native_public_key_validate_with_gas_fix(b)
             /\ check_and_get_threshold(b) = b.last
             /\ \A i \in DOMAIN b.subs : ed25519_public_key_validate(b.subs[i], 32, wrong_length) = "true"
    BY DEF ValidatedKeysAreSound
  <2>1. b \in MultiKeys /\ ThresholdIsKnown(b) /\ num_valid_subpks(b) = Len(b.subs)
    BY DEF EdInv, Read, native_public_key_validate_v2
  <2> QED
    BY <2>1, ThresholdsAgree, AllSubKeysAreValid
    DEF native_public_key_validate_with_gas_fix, ed25519_public_key_validate
<1> QED BY <1>1, <1>2, <1>3 DEF EdKeysAreSound

\* A validated multi-key has valid sub-keys and a threshold they can reach, no malformed key ever
\* verifies, and a multi-key of one key is that key (multi_ed25519.rs, ed25519.rs).
THEOREM EdKeysCorrectness == EdSpec => []EdKeysAreSound
BY EdInvariance, EdInvSuffices, PTL

-----------------------------------------------------------------------------
(* Range proofs *)

\* A proof is of what its prover committed to, in a range and for a batch that both sides support; and
\* the last verdict is the library's on the proof, or the proof was not there to judge.
Provable(p) == is_supported_number_of_bits(p.bits) /\ is_supported_batch_size(Len(p.of))
Judged(a, answer) ==
  /\ a.proof = Garbage => answer \notin Verdicts
  /\ a.proof # Garbage => a.proof = proof
  /\ answer \in Verdicts => (answer = "valid" <=> ProofHolds(proof, a.cs, a.gens, a.bits, a.tag))
  /\ a.proof # Garbage /\ a.tag.length <= 256 /\ is_supported_number_of_bits(a.bits) => answer \in Verdicts
ProofInv ==
  /\ proof # None => proof \in Proofs /\ Provable(proof) /\ comms = proof.of
  /\ comms # <<>> => proof # None
  /\ outcome \in Codes \cup Verdicts \cup {None}
  /\ asked # None => proof # None /\ Judged(asked, outcome)

\* The provers.
LEMMA ProvesStep ==
  ASSUME ProofInv, proof = None, NEW n \in Nat, NEW vs \in [1 .. n -> Widths], NEW rs \in Seq(Nat),
         NEW num_bits \in Ranges, NEW dst \in Tags, NEW val_base \in Bases, NEW rand_base \in Bases,
         Proves(vs, rs, num_bits, dst, val_base, rand_base)
  PROVE  ProofInv'
<1> DEFINE code == ProverCode(vs, rs, num_bits)
           made == LibraryProof(PedersenGens(val_base, rand_base), vs, rs, num_bits, dst)
<1>1. vs \in Seq(Widths) /\ Len(vs) = n /\ DOMAIN vs = 1 .. n
  OBVIOUS
<1>2. CASE code # None
  <2>1. is_supported_batch_size(Len(vs)) => LibraryProves(Len(vs))
    <3>1. 1 = 2^0 /\ 2 = 2^1 /\ 4 = 2^2 /\ 8 = 2^3 /\ 16 = 2^4
      OBVIOUS
    <3>2. 0 \in 0 .. 4 /\ 1 \in 0 .. 4 /\ 2 \in 0 .. 4 /\ 3 \in 0 .. 4 /\ 4 \in 0 .. 4
      OBVIOUS
    <3>3. ASSUME NEW k \in 0 .. 4, Len(vs) = 2^k PROVE LibraryProves(Len(vs))
      BY <3>3, Zenon DEF LibraryProves
    <3> QED BY <3>1, <3>2, <3>3, Zenon DEF is_supported_batch_size
  <2>2. code \in Codes
    BY <1>2, <2>1 DEF ProverCode, Codes
  <2>3. outcome' = code /\ UNCHANGED <<proof, comms>> /\ asked' = None
    BY <1>2 DEF Proves
  <2> QED BY <2>2, <2>3 DEF ProofInv
<1>3. CASE code = None
  <2>1. /\ is_supported_number_of_bits(num_bits) /\ is_supported_batch_size(Len(vs))
        /\ Len(vs) = Len(rs)
    <3>1. /\ ~is_supported_number_of_bits(num_bits) => code = "NFE_RANGE_NOT_SUPPORTED"
          /\ (is_supported_number_of_bits(num_bits) /\ ~is_supported_batch_size(Len(vs)))
               => code = "NFE_BATCH_SIZE_NOT_SUPPORTED"
          /\ (is_supported_number_of_bits(num_bits) /\ is_supported_batch_size(Len(vs)) /\ Len(vs) # Len(rs))
               => code = "NFE_VECTOR_LENGTHS_MISMATCH"
      BY DEF ProverCode
    <3>2. /\ None # "NFE_RANGE_NOT_SUPPORTED" /\ None # "NFE_BATCH_SIZE_NOT_SUPPORTED"
          /\ None # "NFE_VECTOR_LENGTHS_MISMATCH"
      BY NoneAssumption DEF Codes
    <3> HIDE DEF code
    <3> QED BY <1>3, <3>1, <3>2
  <2>2. made \in Proofs
    <3>1. \A i \in 1 .. n : rs[i] \in Nat /\ vs[i] \in Widths
      BY <1>1, <2>1
    <3>2. made.of \in Seq([gens : Gens, value : Widths, blinding : Nat])
      BY <1>1, <3>1 DEF LibraryProof, Commit, PedersenGens, Gens
    <3> QED BY <1>1, <3>2 DEF LibraryProof, PedersenGens, Gens, Proofs
  <2>3. made.bits = num_bits /\ Len(made.of) = Len(vs)
    BY <1>1 DEF LibraryProof
  <2>4. Provable(made)
    BY <2>1, <2>3 DEF Provable
  <2>5. proof' = made /\ comms' = made.of /\ outcome' = None /\ asked' = None
    BY <1>3 DEF Proves, LibraryProof
  <2>6. made # None
    BY <2>2, NoneAssumption
  <2> QED BY <2>2, <2>4, <2>5, <2>6 DEF ProofInv, Provable
<1> QED BY <1>2, <1>3

\* The verifiers: what either answers about a batch of a supported size.
Answers(cs, val_base, rand_base, p, num_bits, dst) ==
  IF dst.length > 256 THEN "E_DST_TOO_LONG"
  ELSE IF ~is_supported_number_of_bits(num_bits) THEN "NFE_RANGE_NOT_SUPPORTED"
  ELSE Verdict(p, cs, PedersenGens(val_base, rand_base), num_bits, dst)

\* A verification records the library's verdict on the proof that is there.
LEMMA VerifiesStep ==
  ASSUME ProofInv, proof # None, NEW cs, NEW val_base, NEW rand_base, NEW p \in {proof, Garbage},
         NEW num_bits, NEW dst, dst.length \in Nat,
         asked' = Asked(cs, val_base, rand_base, p, num_bits, dst),
         outcome' = Answers(cs, val_base, rand_base, p, num_bits, dst),
         UNCHANGED <<proof, comms>>
  PROVE  ProofInv'
<1> DEFINE a == Asked(cs, val_base, rand_base, p, num_bits, dst)
<1>1. /\ a.proof = p /\ a.cs = cs /\ a.bits = num_bits /\ a.tag = dst
      /\ a.gens = PedersenGens(val_base, rand_base)
  BY DEF Asked
<1>2. outcome' \in Codes \cup Verdicts
  BY DEF Answers, Verdict, Codes, Verdicts
<1>3. p = Garbage => outcome' \notin Verdicts
  BY DEF Answers, Verdict, Verdicts
<1>4. outcome' \in Verdicts => (outcome' = "valid" <=> ProofHolds(p, cs, a.gens, num_bits, dst))
  BY <1>1 DEF Answers, Verdict, Verdicts
<1>5. p # Garbage /\ dst.length <= 256 /\ is_supported_number_of_bits(num_bits) => outcome' \in Verdicts
  BY DEF Answers, Verdict, Verdicts
<1> HIDE DEF a
<1>6. Judged(asked, outcome)'
  BY <1>1, <1>3, <1>4, <1>5 DEF Judged, ProofHolds, a
<1> QED BY <1>2, <1>6 DEF ProofInv, Provable

\* Every call keeps the invariant.
LEMMA ProofsStep == ASSUME ProofInv, [ProofsNext]_proof_vars PROVE ProofInv'
<1>1. CASE UNCHANGED proof_vars
  BY <1>1 DEF proof_vars, ProofInv, Judged, Provable, ProofHolds
<1>2. CASE ProofsNext
  <2>1. PICK num_bits \in Ranges, dst \in Tags, val_base \in Bases, rand_base \in Bases :
             ProveCalls(num_bits, dst, val_base, rand_base) \/ VerifyCalls(num_bits, dst, val_base, rand_base)
    BY <1>2 DEF ProofsNext
  <2>2. dst.length \in Nat
    BY RangeProofsAssumption
  <2>3. ASSUME proof = None, NEW v \in Widths, prove_range(v, num_bits, dst, val_base, rand_base)
        PROVE  ProofInv'
    <3>1. <<v>> \in [1 .. 1 -> Widths] /\ <<1>> \in Seq(Nat)
      OBVIOUS
    <3> QED BY <2>3, <3>1, ProvesStep DEF prove_range
  <2>4. ASSUME proof = None, NEW n \in 1 .. MaxBatch, NEW vs \in [1 .. n -> Widths], NEW m \in {n, n - 1},
               prove_batch_range(vs, [i \in 1 .. m |-> i], num_bits, dst, val_base, rand_base)
        PROVE  ProofInv'
    <3>1. n \in Nat /\ m \in Nat
      BY RangeProofsAssumption
    <3>2. [i \in 1 .. m |-> i] \in Seq(Nat)
      BY <3>1
    <3> QED BY <2>4, <3>1, <3>2, ProvesStep DEF prove_batch_range
  <2>5. ASSUME proof # None, NEW p \in {proof, Garbage}, NEW i \in DOMAIN comms,
               verify_range_proof(comms[i], val_base, rand_base, p, num_bits, dst)
        PROVE  ProofInv'
    <3>1. outcome' = Answers(<<comms[i]>>, val_base, rand_base, p, num_bits, dst)
      BY <2>5 DEF verify_range_proof, native_verify_range_proof, Answers
    <3> QED BY <2>2, <2>5, <3>1, VerifiesStep DEF verify_range_proof
  <2>6. ASSUME proof # None, NEW p \in {proof, Garbage}, NEW cs \in {comms, Reverse(comms)},
               verify_batch_range_proof(cs, val_base, rand_base, p, num_bits, dst)
        PROVE  ProofInv'
    <3>1. is_supported_batch_size(Len(cs))
      <4>1. comms \in Seq([gens : Gens, value : Widths, blinding : Nat])
        BY <2>6 DEF ProofInv, Proofs
      <4>2. Len(Reverse(comms)) = Len(comms)
        BY <4>1 DEF Reverse
      <4> QED BY <2>6, <4>2 DEF ProofInv, Provable
    <3>2. is_supported_number_of_bits(num_bits) => <<Len(cs), num_bits>> \in VerifyBaseBatchBits
      BY <3>1 DEF is_supported_number_of_bits, is_supported_batch_size, VerifyBaseBatchBits
    <3>3. outcome' = Answers(cs, val_base, rand_base, p, num_bits, dst)
      BY <2>6, <3>1, <3>2 DEF verify_batch_range_proof, native_verify_batch_range_proof, Answers
    <3> QED BY <2>2, <2>6, <3>3, VerifiesStep DEF verify_batch_range_proof
  <2>7. CASE ProveCalls(num_bits, dst, val_base, rand_base)
    BY <2>3, <2>4, <2>7 DEF ProveCalls
  <2>8. CASE VerifyCalls(num_bits, dst, val_base, rand_base)
    BY <2>5, <2>6, <2>8 DEF VerifyCalls
  <2> QED BY <2>1, <2>7, <2>8
<1> QED BY <1>1, <1>2

\* A proof that a prover returns is for a range that both sides support, a verification answers
\* what the proof proves, and no input takes a native to an internal error (bulletproofs.rs).
THEOREM RangeProofsCorrectness == ProofsSpec => []RangesAreProved
<1>1. ProofsInit => ProofInv
  BY DEF ProofsInit, ProofInv
<1>2. ProofInv /\ [ProofsNext]_proof_vars => ProofInv'
  BY ProofsStep
<1>3. ProofInv => RangesAreProved
  <2>1. ASSUME ProofInv PROVE NoInternalError
    BY <2>1 DEF ProofInv, NoInternalError
  <2>2. ASSUME ProofInv PROVE VerifiesWhatWasProved
    BY <2>2 DEF ProofInv, VerifiesWhatWasProved, Judged, ProofHolds
  <2>3. ASSUME ProofInv PROVE ProvedIsVerifiable
    BY <2>3 DEF ProofInv, ProvedIsVerifiable, Judged, Provable
  <2> QED BY <2>1, <2>2, <2>3 DEF RangesAreProved
<1> QED BY <1>1, <1>2, <1>3, PTL DEF ProofsSpec

-----------------------------------------------------------------------------
(* Residues *)

\* Division with a remainder, and what has the form of one is one.
LEMMA ModDivides ==
  ASSUME NEW n \in Nat \ {0}, NEW a \in Int
  PROVE  /\ a % n \in 0 .. (n - 1)
         /\ a \div n \in Int
         /\ a = (n * (a \div n)) + (a % n)
OBVIOUS

\* A product with a successor.
LEMMA Successive ==
  ASSUME NEW y \in Int, NEW e \in Int
  PROVE  y * (e + 1) = (y * e) + y
OBVIOUS

\* The remainder is the only one.
LEMMA ModUnique ==
  ASSUME NEW n \in Nat \ {0}, NEW q \in Int, NEW r \in 0 .. (n - 1)
  PROVE  ((n * q) + r) % n = r
<1> DEFINE a == (n * q) + r
<1>1. a \in Int /\ n * q \in Int
  OBVIOUS
<1>2. PICK p \in Int, s \in 0 .. (n - 1) : a = (n * p) + s /\ s = a % n
  BY <1>1, ModDivides
<1> HIDE DEF a
<1>3. (n * q) + r = (n * p) + s
  BY <1>2 DEF a
<1>4. n * (q - p) = s - r
  <2>1. n * (q - p) = (n * q) - (n * p)
    BY <1>2
  <2>2. n * p \in Int /\ s \in Int /\ r \in Int
    BY <1>2
  <2> QED BY <1>1, <1>3, <2>1, <2>2
<1>5. q - p = 0
  <2>1. q - p >= 1 => n * (q - p) >= n
    BY <1>2
  <2>2. q - p <= -1 => n * (q - p) <= -n
    BY <1>2
  <2> QED BY <1>2, <1>4, <2>1, <2>2
<1> QED BY <1>2, <1>3, <1>5 DEF a

\* A residue is its own remainder.
LEMMA ModSame ==
  ASSUME NEW n \in Nat \ {0}, NEW a \in 0 .. (n - 1)
  PROVE  a % n = a
OBVIOUS

\* Multiples of n make no difference,
LEMMA ModShift ==
  ASSUME NEW n \in Nat \ {0}, NEW a \in Int, NEW k \in Int
  PROVE  (a + (n * k)) % n = a % n
<1> DEFINE q == a \div n
           r == a % n
<1>1. q \in Int /\ r \in 0 .. (n - 1) /\ a = (n * q) + r
  BY ModDivides
<1> HIDE DEF q, r
<1>2. a + (n * k) = (n * (q + k)) + r
  BY <1>1
<1>3. ((n * (q + k)) + r) % n = r
  <2>1. q + k \in Int
    BY <1>1
  <2> QED BY <1>1, <2>1, ModUnique
<1> QED BY <1>2, <1>3 DEF r

\* nor does reducing a summand first,
LEMMA ModPlus ==
  ASSUME NEW n \in Nat \ {0}, NEW a \in Int, NEW b \in Int
  PROVE  ((a % n) + b) % n = (a + b) % n
<1> DEFINE q == a \div n
           r == a % n
<1>1. q \in Int /\ r \in 0 .. (n - 1) /\ a = (n * q) + r
  BY ModDivides
<1> HIDE DEF q, r
<1>2. a + b = (r + b) + (n * q)
  BY <1>1
<1>3. ((r + b) + (n * q)) % n = (r + b) % n
  <2>1. r + b \in Int
    BY <1>1
  <2> QED BY <1>1, <2>1, ModShift
<1> QED BY <1>2, <1>3 DEF r

\* nor a factor.
LEMMA ModTimes ==
  ASSUME NEW n \in Nat \ {0}, NEW a \in Int, NEW b \in Int
  PROVE  ((a % n) * b) % n = (a * b) % n
<1> DEFINE q == a \div n
           r == a % n
<1>1. q \in Int /\ r \in 0 .. (n - 1) /\ a = (n * q) + r
  BY ModDivides
<1> HIDE DEF q, r
<1>2. a * b = (r * b) + (n * (q * b))
  BY <1>1
<1>3. r * b \in Int /\ q * b \in Int
  BY <1>1
<1>4. ((r * b) + (n * (q * b))) % n = (r * b) % n
  BY <1>3, ModShift
<1> QED BY <1>2, <1>4 DEF r

-----------------------------------------------------------------------------
(* Scalars *)

Residues == 0 .. (Order - 1)
ScalarInv == scalar \in [Names -> Residues \cup {Unset}] /\ scalar_status = "running"

\* Of canonical arguments, no native fails and each returns a canonical scalar.
LEMMA CanonicalScalars ==
  ASSUME NEW x \in Residues, NEW y \in Residues
  PROVE  /\ from_bits(x) = x
         /\ \A r : WithOne(x, r) = r /\ WithBoth(x, y, r) = r
<1>1. \A z \in Residues : from_bits(z) = z /\ scalar_from_valid_bytes(z) # Violation
  BY ScalarsAssumption, ModSame DEF Residues, from_bits, scalar_from_valid_bytes, Violation
<1> QED BY <1>1 DEF WithOne, WithBoth

\* What CHOOSE takes for the inverse is one: the order is a prime.
LEMMA InverseExists ==
  ASSUME NEW s \in 1 .. (Order - 1)
  PROVE  inverse(s) \in Residues /\ (inverse(s) * s) % Order = 1
<1>1. 1 % Order = 1
  BY ScalarsAssumption, ModSame
<1> QED BY <1>1, OrderAssumption DEF inverse, Residues

\* What the natives return of canonical scalars.
LEMMA ScalarResults ==
  ASSUME NEW x \in Residues, NEW y \in Residues
  PROVE  /\ native_scalar_invert(x) = (IF x = 0 THEN 0 ELSE inverse(x))
         /\ native_scalar_invert(x) \in Residues
         /\ native_scalar_neg(x) = (-x) % Order /\ native_scalar_neg(x) \in Residues
         /\ native_scalar_mul(x, y) = (x * y) % Order /\ native_scalar_mul(x, y) \in Residues
         /\ native_scalar_add(x, y) = (x + y) % Order /\ native_scalar_add(x, y) \in Residues
         /\ native_scalar_sub(x, y) = (x - y) % Order /\ native_scalar_sub(x, y) \in Residues
<1>1. Order \in Nat \ {0, 1} /\ x \in Int /\ y \in Int
  BY ScalarsAssumption DEF Residues
<1>2. \A a \in Int : a % Order \in Residues
  BY <1>1, ModDivides DEF Residues
<1>3. x * y \in Int /\ x + y \in Int /\ x - y \in Int /\ -x \in Int
  BY <1>1
<1>4. /\ native_scalar_invert(x) = (IF x = 0 THEN 0 ELSE inverse(x))
      /\ native_scalar_neg(x) = (-x) % Order
      /\ native_scalar_mul(x, y) = (x * y) % Order
      /\ native_scalar_add(x, y) = (x + y) % Order
      /\ native_scalar_sub(x, y) = (x - y) % Order
  BY CanonicalScalars
  DEF native_scalar_invert, native_scalar_neg, native_scalar_mul, native_scalar_add, native_scalar_sub
<1>5. (IF x = 0 THEN 0 ELSE inverse(x)) \in Residues
  <2>1. 0 \in Residues /\ (x # 0 => x \in 1 .. (Order - 1))
    BY <1>1 DEF Residues
  <2> QED BY <2>1, InverseExists
<1> QED BY <1>2, <1>3, <1>4, <1>5

\* A variable set to a canonical scalar keeps the invariant,
LEMMA SetStep ==
  ASSUME ScalarInv, NEW n \in Names, NEW bytes \in Residues, Set(n, bytes)
  PROVE  ScalarInv'
<1>1. bytes # Violation
  BY ScalarsAssumption DEF Residues, Violation
<1> QED BY <1>1 DEF Set, ScalarInv

\* and every call sets its variable to one.
LEMMA ScalarsStep == ASSUME ScalarInv, [ScalarsNext]_scalar_vars PROVE ScalarInv'
<1>1. CASE UNCHANGED scalar_vars
  BY <1>1 DEF scalar_vars, ScalarInv
<1>2. ASSUME ScalarsNext, NEW n \in Names,
             \/ \E bytes \in Inputs : \/ new_scalar_from_bytes(n, bytes)
                                      \/ new_scalar_reduced_from_32_bytes(n, bytes)
             \/ \E bytes \in Wide : \/ new_scalar_uniform_from_64_bytes(n, bytes)
                                    \/ new_scalar_from_sha2_512(n, bytes)
             \/ \E num \in 0 .. (U128 - 1) :
                    \/ num < U8 /\ new_scalar_from_u8(n, num)
                    \/ num < U64 /\ new_scalar_from_u64(n, num)
                    \/ new_scalar_from_u128(n, num)
             \/ scalar_zero(n) \/ scalar_one(n)
             \/ \E a \in HeldScalars : \/ scalar_invert(n, a) \/ scalar_neg(n, a)
                                       \/ \E b \in HeldScalars : \/ scalar_mul(n, a, b)
                                                                 \/ scalar_add(n, a, b)
                                                                 \/ scalar_sub(n, a, b)
      PROVE  ScalarInv'
  <2>1. Order \in Nat \ {0, 1}
    BY ScalarsAssumption
  <2>2. \A a \in Int : a % Order \in Residues
    BY <2>1, ModDivides DEF Residues
  <2>3. \A a \in HeldScalars : scalar[a] \in Residues
    BY DEF ScalarInv, HeldScalars
  <2>4. SUFFICES \E bytes \in Residues : Set(n, bytes)
    BY SetStep
  <2>5. ASSUME NEW bytes \in Inputs, new_scalar_from_bytes(n, bytes)
        PROVE  \E b \in Residues : Set(n, b)
    BY <2>1, <2>5, ScalarsAssumption DEF new_scalar_from_bytes, native_scalar_is_canonical, Inputs, Bytes, Residues
  <2>6. ASSUME NEW bytes \in Inputs, new_scalar_reduced_from_32_bytes(n, bytes)
        PROVE  \E b \in Residues : Set(n, b)
    BY <2>2, <2>6, ScalarsAssumption
    DEF new_scalar_reduced_from_32_bytes, native_scalar_reduced_from_32_bytes, Inputs, Bytes
  <2>7. ASSUME NEW bytes \in Wide,
               new_scalar_uniform_from_64_bytes(n, bytes) \/ new_scalar_from_sha2_512(n, bytes)
        PROVE  \E b \in Residues : Set(n, b)
    BY <2>2, <2>7
    DEF new_scalar_uniform_from_64_bytes, new_scalar_from_sha2_512, native_scalar_uniform_from_64_bytes,
        native_scalar_from_sha512, Wide
  <2>8. ASSUME NEW num \in 0 .. (U128 - 1), num < U8, new_scalar_from_u8(n, num)
        PROVE  \E b \in Residues : Set(n, b)
    BY <2>8, ScalarsAssumption DEF new_scalar_from_u8, Residues
  <2>9. ASSUME NEW num \in 0 .. (U128 - 1), new_scalar_from_u64(n, num) \/ new_scalar_from_u128(n, num)
        PROVE  \E b \in Residues : Set(n, b)
    BY <2>2, <2>9
    DEF new_scalar_from_u64, new_scalar_from_u128, native_scalar_from_u64, native_scalar_from_u128
  <2>10. ASSUME scalar_zero(n) \/ scalar_one(n)
         PROVE  \E b \in Residues : Set(n, b)
    BY <2>1, <2>10 DEF scalar_zero, scalar_one, Residues
  <2>11. ASSUME NEW a \in HeldScalars, scalar_invert(n, a) \/ scalar_neg(n, a)
         PROVE  \E b \in Residues : Set(n, b)
    BY <2>3, <2>11, ScalarResults DEF scalar_invert, scalar_neg
  <2>12. ASSUME NEW a \in HeldScalars, NEW b \in HeldScalars,
                scalar_mul(n, a, b) \/ scalar_add(n, a, b) \/ scalar_sub(n, a, b)
         PROVE  \E c \in Residues : Set(n, c)
    BY <2>3, <2>12, ScalarResults DEF scalar_mul, scalar_add, scalar_sub
  <2> QED BY <1>2, <2>5, <2>6, <2>7, <2>8, <2>9, <2>10, <2>11, <2>12
<1> QED BY <1>1, <1>2 DEF ScalarsNext

\* Subtraction, negation and inversion undo addition and multiplication.
LEMMA ScalarsAreAField == ScalarInv => ScalarsFormAField
<1> SUFFICES ASSUME ScalarInv, NEW a \in HeldScalars, NEW b \in HeldScalars,
                    NEW x, x = scalar[a], NEW y, y = scalar[b]
    PROVE  /\ native_scalar_add(native_scalar_sub(x, y), y) = x
           /\ native_scalar_add(x, native_scalar_neg(x)) = 0
           /\ x # 0 => native_scalar_mul(native_scalar_mul(y, x), native_scalar_invert(x)) = y
  BY DEF ScalarsFormAField
<1>1. x \in Residues /\ y \in Residues
  BY DEF ScalarInv, HeldScalars
<1>2. Order \in Nat \ {0} /\ x \in Int /\ y \in Int
  BY <1>1, ScalarsAssumption DEF Residues
<1>3. native_scalar_add(native_scalar_sub(x, y), y) = x
  <2>1. native_scalar_sub(x, y) \in Residues /\ native_scalar_sub(x, y) = (x - y) % Order
    BY <1>1, ScalarResults
  <2>2. native_scalar_add(native_scalar_sub(x, y), y) = (native_scalar_sub(x, y) + y) % Order
    BY <1>1, <2>1, ScalarResults
  <2>3. (((x - y) % Order) + y) % Order = ((x - y) + y) % Order
    <3>1. x - y \in Int
      BY <1>2
    <3> QED BY <1>2, <3>1, ModPlus
  <2>4. (x - y) + y = x
    BY <1>2
  <2>5. x % Order = x
    BY <1>1, <1>2, ModSame DEF Residues
  <2> QED BY <2>1, <2>2, <2>3, <2>4, <2>5
<1>4. native_scalar_add(x, native_scalar_neg(x)) = 0
  <2>1. native_scalar_neg(x) \in Residues /\ native_scalar_neg(x) = (-x) % Order
    BY <1>1, ScalarResults
  <2>2. native_scalar_add(x, native_scalar_neg(x)) = (x + ((-x) % Order)) % Order
    BY <1>1, <2>1, ScalarResults
  <2>3. x + ((-x) % Order) = ((-x) % Order) + x
    BY <1>2, <2>1 DEF Residues
  <2>4. (((-x) % Order) + x) % Order = ((-x) + x) % Order
    <3>1. -x \in Int
      BY <1>2
    <3> QED BY <1>2, <3>1, ModPlus
  <2>5. (-x) + x = 0 /\ 0 % Order = 0
    BY <1>2, ModSame
  <2> QED BY <2>2, <2>3, <2>4, <2>5
<1>5. ASSUME x # 0
      PROVE  native_scalar_mul(native_scalar_mul(y, x), native_scalar_invert(x)) = y
  <2> DEFINE i == inverse(x)
             q == (i * x) \div Order
  <2>1. x \in 1 .. (Order - 1)
    BY <1>1, <1>5 DEF Residues
  <2>2. i \in Residues /\ i \in Int /\ (i * x) % Order = 1
    BY <2>1, InverseExists DEF Residues
  <2>3. native_scalar_invert(x) = i
    BY <1>1, <1>5, ScalarResults
  <2> HIDE DEF i
  <2>4. native_scalar_mul(native_scalar_mul(y, x), i) = (((y * x) % Order) * i) % Order
    <3>1. native_scalar_mul(y, x) \in Residues /\ native_scalar_mul(y, x) = (y * x) % Order
      BY <1>1, ScalarResults
    <3>2. native_scalar_mul(native_scalar_mul(y, x), i) = (native_scalar_mul(y, x) * i) % Order
      BY <2>2, <3>1, ScalarResults
    <3> QED BY <3>1, <3>2
  <2>5. (((y * x) % Order) * i) % Order = ((y * x) * i) % Order
    <3>1. y * x \in Int
      BY <1>2
    <3> QED BY <1>2, <2>2, <3>1, ModTimes
  <2>6. q \in Int /\ i * x = (Order * q) + 1
    <3> DEFINE e == i * x
    <3>1. e \in Int /\ e % Order = 1
      BY <1>2, <2>2
    <3> HIDE DEF e
    <3>2. e \div Order \in Int /\ e = (Order * (e \div Order)) + (e % Order)
      BY <1>2, <3>1, ModDivides
    <3> QED BY <3>1, <3>2 DEF e
  <2> HIDE DEF q
  <2>7. (y * x) * i = y + (Order * (q * y))
    <3>1. (y * x) * i = y * (i * x)
      BY <1>2, <2>2
    <3>2. y * ((Order * q) + 1) = y + (Order * (q * y))
      <4> DEFINE e == Order * q
      <4>1. e \in Int /\ y * e = Order * (q * y)
        BY <1>2, <2>6
      <4> HIDE DEF e
      <4>2. y * (e + 1) = (y * e) + y
        BY <1>2, <4>1, Successive
      <4>3. y * e \in Int
        BY <1>2, <4>1
      <4>4. y * (e + 1) = y + (Order * (q * y))
        BY <1>2, <4>1, <4>2, <4>3
      <4> QED BY <4>4 DEF e
    <3> QED BY <2>6, <3>1, <3>2
  <2>8. (y + (Order * (q * y))) % Order = y % Order
    <3>1. q * y \in Int
      BY <1>2, <2>6
    <3> QED BY <1>2, <3>1, ModShift
  <2>9. y % Order = y
    BY <1>1, <1>2, ModSame DEF Residues
  <2> QED BY <2>3, <2>4, <2>5, <2>7, <2>8, <2>9
<1> QED BY <1>3, <1>4, <1>5

\* The three invariants of the scalars.
LEMMA ScalarsInvariance == ScalarsSpec => [](ScalarsTypeOK /\ ScalarsAreCanonical /\ ScalarsFormAField)
<1>1. ScalarsInit => ScalarInv
  BY DEF ScalarsInit, ScalarInv
<1>2. ScalarInv /\ [ScalarsNext]_scalar_vars => ScalarInv'
  BY ScalarsStep
<1>3. ScalarInv => ScalarsTypeOK /\ ScalarsAreCanonical
  BY ScalarsAssumption DEF ScalarInv, ScalarsTypeOK, ScalarsAreCanonical, HeldScalars, Residues, Bytes
<1> QED BY <1>1, <1>2, <1>3, ScalarsAreAField, PTL DEF ScalarsSpec

-----------------------------------------------------------------------------
(* Recursions on numbers, whose solutions have to be shown to exist: step is  *)
(* applied to the number and the value at an earlier one.                     *)

Recurs(f, S, base, prev, step) ==
  f \in [S -> Nat] /\ \A n \in S : f[n] = IF n = 0 THEN base ELSE step[<<n, f[prev[n]]>>]

Descends(prev) == \A n \in Nat \ {0} : prev[n] \in Nat /\ prev[n] < n

\* A recursion on Nat has a solution up to every number, and any two agree.
LEMMA RecursionUpTo ==
  ASSUME NEW base \in Nat, NEW step \in [Nat \X Nat -> Nat],
         NEW prev, Descends(prev),
         NEW n \in Nat
  PROVE  \E g : Recurs(g, 0 .. n, base, prev, step)
<1> DEFINE Bad == {k \in Nat : ~\E g : Recurs(g, 0 .. k, base, prev, step)}
<1>1. SUFFICES ASSUME Bad # {} PROVE FALSE
  OBVIOUS
<1>2. PICK k \in Bad : \A l \in Bad : k <= l
  BY <1>1, LeastNatural
<1>3. CASE k = 0
  <2>1. Recurs([j \in 0 .. 0 |-> base], 0 .. 0, base, prev, step)
    BY DEF Recurs
  <2> QED BY <1>2, <1>3, <2>1
<1>4. CASE k # 0
  <2>1. k - 1 \in Nat /\ k - 1 \notin Bad
    BY <1>2, <1>4
  <2>2. PICK g : Recurs(g, 0 .. (k - 1), base, prev, step)
    BY <2>1
  <2> DEFINE h == [j \in 0 .. k |-> IF j < k THEN g[j] ELSE step[<<k, g[prev[k]]>>]]
  <2>3. k \in Nat \ {0} /\ k - 1 \in Nat /\ prev[k] \in 0 .. (k - 1)
    BY <1>4 DEF Descends
  <2> HIDE DEF Bad
  <2>4. h \in [0 .. k -> Nat]
    <3>1. g[prev[k]] \in Nat
      BY <2>2, <2>3 DEF Recurs
    <3>2. step[<<k, g[prev[k]]>>] \in Nat
      <4>1. <<k, g[prev[k]]>> \in Nat \X Nat
        BY <2>3, <3>1
      <4> QED BY <4>1
    <3>3. \A j \in 0 .. k : j < k => g[j] \in Nat
      <4>1. \A j \in 0 .. k : j < k => j \in 0 .. (k - 1)
        BY <2>3
      <4> QED BY <2>2, <4>1 DEF Recurs
    <3> QED BY <3>2, <3>3
  <2>5. ASSUME NEW j \in 0 .. k
        PROVE  h[j] = IF j = 0 THEN base ELSE step[<<j, h[prev[j]]>>]
    <3>1. j # 0 => prev[j] \in 0 .. (k - 1)
      <4>1. j \in Nat /\ j <= k
        BY <2>3
      <4>2. j # 0 => prev[j] \in Nat /\ prev[j] < j
        BY <4>1 DEF Descends
      <4> QED BY <2>3, <4>1, <4>2
    <3>2. CASE j < k
      <4>1. j \in 0 .. (k - 1)
        BY <2>3, <3>2
      <4>2. h[j] = g[j]
        BY <3>2
      <4>3. j # 0 => h[prev[j]] = g[prev[j]]
        <5>1. \A i \in 0 .. (k - 1) : i \in 0 .. k /\ i < k
          BY <2>3
        <5> QED BY <3>1, <5>1
      <4>4. g[j] = IF j = 0 THEN base ELSE step[<<j, g[prev[j]]>>]
        BY <2>2, <4>1 DEF Recurs
      <4> HIDE DEF h
      <4> QED BY <4>2, <4>3, <4>4
    <3>3. CASE j = k
      <4>1. k \in 0 .. k /\ prev[k] \in 0 .. k /\ prev[k] < k /\ k # 0
        BY <2>3
      <4>2. h[k] = step[<<k, g[prev[k]]>>] /\ h[prev[k]] = g[prev[k]]
        BY <4>1
      <4> HIDE DEF h
      <4> QED BY <3>3, <4>1, <4>2
    <3> QED BY <2>3, <3>2, <3>3
  <2>6. Recurs(h, 0 .. k, base, prev, step)
    BY <2>4, <2>5 DEF Recurs
  <2> QED BY <1>2, <2>6 DEF Bad
<1> QED BY <1>3, <1>4

\* A recursion on Nat has a solution on all of Nat.
LEMMA RecursionExists ==
  ASSUME NEW base \in Nat, NEW step \in [Nat \X Nat -> Nat],
         NEW prev, Descends(prev)
  PROVE  \E f : Recurs(f, Nat, base, prev, step)
<1> DEFINE up[n \in Nat] == CHOOSE g : Recurs(g, 0 .. n, base, prev, step)
           f == [n \in Nat |-> up[n][n]]
<1>1. \A n \in Nat : Recurs(up[n], 0 .. n, base, prev, step)
  BY RecursionUpTo
<1> HIDE DEF up
<1>2. f \in [Nat -> Nat]
  BY <1>1 DEF Recurs
\* Two of them agree wherever both are defined.
<1>3. ASSUME NEW m \in Nat, NEW n \in Nat, m <= n
      PROVE  up[m][m] = up[n][m]
  <2> DEFINE g == up[m]
             h == up[n]
             Bad == {i \in 0 .. m : g[i] # h[i]}
  <2>1. Recurs(g, 0 .. m, base, prev, step) /\ Recurs(h, 0 .. n, base, prev, step)
    BY <1>1
  <2> HIDE DEF g, h
  <2>2. ASSUME Bad # {} PROVE FALSE
    <3>1. PICK i \in Bad : \A l \in Bad : i <= l
      <4>1. Bad \subseteq Nat
        OBVIOUS
      <4> HIDE DEF Bad
      <4> QED BY <2>2, <4>1, LeastNatural
    <3>2. i # 0 => prev[i] \in 0 .. m /\ prev[i] < i
      BY DEF Descends
    <3>3. i # 0 => g[prev[i]] = h[prev[i]]
      BY <3>1, <3>2
    <3>4. i \in 0 .. m /\ i \in 0 .. n
      BY <1>3
    <3>5. g[i] = h[i]
      BY <2>1, <3>3, <3>4 DEF Recurs
    <3> QED BY <3>5
  <2>3. m \in 0 .. m
    OBVIOUS
  <2> QED BY <2>2, <2>3 DEF g, h
<1>4. ASSUME NEW n \in Nat
      PROVE  f[n] = IF n = 0 THEN base ELSE step[<<n, f[prev[n]]>>]
  <2>1. f[n] = IF n = 0 THEN base ELSE step[<<n, up[n][prev[n]]>>]
    <3>1. f[n] = up[n][n] /\ n \in 0 .. n
      OBVIOUS
    <3> DEFINE w == up[n]
    <3>2. Recurs(w, 0 .. n, base, prev, step)
      BY <1>1
    <3> HIDE DEF w, f
    <3>3. w[n] = IF n = 0 THEN base ELSE step[<<n, w[prev[n]]>>]
      BY <3>1, <3>2 DEF Recurs
    <3> QED BY <3>1, <3>3 DEF w
  <2>2. ASSUME n # 0
        PROVE  up[n][prev[n]] = f[prev[n]]
    <3>1. prev[n] \in Nat /\ prev[n] <= n
      BY <2>2 DEF Descends
    <3> QED BY <1>3, <3>1
  <2> QED BY <2>1, <2>2
<1> QED BY <1>2, <1>4 DEF Recurs

\* The recursion of bit_length,
LEMMA BitLengths ==
  /\ bit_length \in [Nat -> Nat] /\ bit_length[0] = 0
  /\ \A n \in Nat \ {0} : bit_length[n] = bit_length[n \div 2] + 1
<1> DEFINE prev == [n \in Nat |-> n \div 2]
           step == [p \in Nat \X Nat |-> p[2] + 1]
<1>1. step \in [Nat \X Nat -> Nat] /\ \A n \in Nat \ {0} : prev[n] \in Nat /\ prev[n] < n
  OBVIOUS
<1>2. PICK f : Recurs(f, Nat, 0, prev, step)
  BY <1>1, RecursionExists DEF Descends
<1>3. f = [n \in Nat |-> IF n = 0 THEN 0 ELSE f[n \div 2] + 1]
  <2>1. f \in [Nat -> Nat]
    BY <1>2 DEF Recurs
  <2>2. \A n \in Nat : n \div 2 \in Nat
    OBVIOUS
  <2>3. \A n \in Nat : f[n] = IF n = 0 THEN 0 ELSE f[n \div 2] + 1
    BY <1>2, <2>1, <2>2 DEF Recurs
  <2> QED BY <2>1, <2>3
<1>4. bit_length = [n \in Nat |-> IF n = 0 THEN 0 ELSE bit_length[n \div 2] + 1]
  BY <1>3 DEF bit_length
<1>5. ASSUME NEW g, g = [n \in Nat |-> IF n = 0 THEN 0 ELSE g[n \div 2] + 1]
      PROVE  g \in [Nat -> Nat]
  <2> DEFINE Bad == {n \in Nat : g[n] \notin Nat}
  <2>1. SUFFICES ASSUME Bad # {} PROVE FALSE
    <3>1. Bad = {} => \A n \in Nat : g[n] \in Nat
      OBVIOUS
    <3>2. g = [n \in Nat |-> g[n]]
      BY <1>5
    <3> QED BY <2>1, <3>1, <3>2
  <2>2. PICK n \in Bad : \A m \in Bad : n <= m
    BY <2>1, LeastNatural
  <2>3. g[n] = IF n = 0 THEN 0 ELSE g[n \div 2] + 1
    BY <1>5
  <2>4. n # 0 => n \div 2 \in Nat /\ n \div 2 < n
    BY <1>1
  <2>5. n # 0 => g[n \div 2] \in Nat
    BY <2>2, <2>4
  <2> HIDE DEF Bad
  <2>6. g[n] \in Nat
    BY <2>3, <2>5
  <2> QED BY <2>6 DEF Bad
<1> QED
  <2>1. bit_length \in [Nat -> Nat]
    BY <1>4, <1>5
  <2> HIDE DEF prev, step
  <2>2. \A n \in Nat : bit_length[n] = IF n = 0 THEN 0 ELSE bit_length[n \div 2] + 1
    BY <1>4
  <2> QED BY <2>1, <2>2

\* and that of the powers of two.
LEMMA PowersOfTwo ==
  /\ two_to \in [Nat -> Nat] /\ two_to[0] = 1
  /\ \A k \in Nat : two_to[k + 1] = 2 * two_to[k]
<1> DEFINE prev == [n \in Nat |-> n - 1]
           step == [p \in Nat \X Nat |-> 2 * p[2]]
<1>1. step \in [Nat \X Nat -> Nat] /\ \A n \in Nat \ {0} : prev[n] \in Nat /\ prev[n] < n
  OBVIOUS
<1>2. PICK f : Recurs(f, Nat, 1, prev, step)
  BY <1>1, RecursionExists DEF Descends
<1>3. f = [k \in Nat |-> IF k = 0 THEN 1 ELSE 2 * f[k - 1]]
  <2>1. f \in [Nat -> Nat]
    BY <1>2 DEF Recurs
  <2>2. \A n \in Nat : n # 0 => n - 1 \in Nat
    OBVIOUS
  <2>3. \A n \in Nat : f[n] = IF n = 0 THEN 1 ELSE 2 * f[n - 1]
    BY <1>2, <2>1, <2>2 DEF Recurs
  <2> QED BY <2>1, <2>3
<1>4. two_to = [k \in Nat |-> IF k = 0 THEN 1 ELSE 2 * two_to[k - 1]]
  BY <1>3 DEF two_to
<1>5. ASSUME NEW g, g = [k \in Nat |-> IF k = 0 THEN 1 ELSE 2 * g[k - 1]]
      PROVE  g \in [Nat -> Nat]
  <2> DEFINE Bad == {n \in Nat : g[n] \notin Nat}
  <2>1. SUFFICES ASSUME Bad # {} PROVE FALSE
    <3>1. Bad = {} => \A n \in Nat : g[n] \in Nat
      OBVIOUS
    <3>2. g = [n \in Nat |-> g[n]]
      BY <1>5
    <3> QED BY <2>1, <3>1, <3>2
  <2>2. PICK n \in Bad : \A m \in Bad : n <= m
    BY <2>1, LeastNatural
  <2>3. g[n] = IF n = 0 THEN 1 ELSE 2 * g[n - 1]
    BY <1>5
  <2>4. n # 0 => n - 1 \in Nat /\ n - 1 < n
    OBVIOUS
  <2>5. n # 0 => g[n - 1] \in Nat
    BY <2>2, <2>4
  <2> HIDE DEF Bad
  <2>6. g[n] \in Nat
    BY <2>3, <2>5
  <2> QED BY <2>6 DEF Bad
<1> QED
  <2>1. two_to \in [Nat -> Nat]
    BY <1>4, <1>5
  <2>2. \A n \in Nat : two_to[n] = IF n = 0 THEN 1 ELSE 2 * two_to[n - 1]
    BY <1>4
  <2>3. ASSUME NEW k \in Nat PROVE two_to[k + 1] = 2 * two_to[k]
    <3>1. k + 1 \in Nat /\ k + 1 # 0 /\ (k + 1) - 1 = k
      OBVIOUS
    <3>2. two_to[k + 1] = 2 * two_to[(k + 1) - 1]
      BY <2>2, <3>1
    <3> QED BY <3>1, <3>2
  <2> QED BY <2>1, <2>2, <2>3

\* A number of bit length l is at least 2^(l - 1) and less than 2^l.
LEMMA BitLengthBrackets ==
  ASSUME NEW n \in Nat \ {0}
  PROVE  \E p \in Nat : /\ bit_length[n] = p + 1
                        /\ two_to[p] <= n /\ n < two_to[p + 1]
<1> DEFINE P(k) == \E p \in Nat : /\ bit_length[k] = p + 1
                                  /\ two_to[p] <= k /\ k < two_to[p + 1]
           Bad == {k \in Nat \ {0} : ~P(k)}
<1>1. SUFFICES ASSUME Bad # {} PROVE FALSE
  OBVIOUS
<1>2. PICK k \in Bad : \A m \in Bad : k <= m
  <2>1. Bad \subseteq Nat
    OBVIOUS
  <2> HIDE DEF Bad
  <2> QED BY <1>1, <2>1, LeastNatural
<1>3. k \in Nat /\ k # 0 /\ ~P(k)
  OBVIOUS
<1>4. CASE k = 1
  <2>1. 1 \div 2 = 0
    OBVIOUS
  <2>2. bit_length[1] = 0 + 1
    BY <2>1, BitLengths
  <2>3. two_to[0] = 1 /\ two_to[0 + 1] = 2
    BY PowersOfTwo
  <2>4. P(1)
    BY <2>2, <2>3
  <2> QED BY <1>3, <1>4, <2>4
<1>5. CASE k # 1
  <2> DEFINE h == k \div 2
  <2>1. h \in Nat /\ h # 0 /\ h < k /\ 2 * h <= k /\ k <= 2 * h + 1
    BY <1>3, <1>5
  <2>2. bit_length[k] = bit_length[h] + 1
    BY <1>3, BitLengths
  <2> HIDE DEF h
  <2>3. P(h)
    <3>1. h \notin Bad
      BY <1>2, <2>1
    <3> QED BY <2>1, <3>1
  <2>4. PICK p \in Nat : bit_length[h] = p + 1 /\ two_to[p] <= h /\ h < two_to[p + 1]
    BY <2>3
  <2>5. /\ two_to[p] \in Nat /\ two_to[p + 1] \in Nat
        /\ two_to[p + 1] = 2 * two_to[p]
        /\ two_to[(p + 1) + 1] = 2 * two_to[p + 1]
    <3>1. p + 1 \in Nat
      OBVIOUS
    <3> QED BY <3>1, PowersOfTwo
  <2>6. two_to[p + 1] <= k /\ k < two_to[(p + 1) + 1]
    BY <1>3, <2>1, <2>4, <2>5
  <2>7. p + 1 \in Nat /\ bit_length[k] = (p + 1) + 1
    BY <2>2, <2>4
  <2>8. P(k)
    BY <2>6, <2>7
  <2> QED BY <1>3, <2>8
<1> QED BY <1>4, <1>5

\* The powers of two grow,
LEMMA PowersGrow ==
  ASSUME NEW a \in Nat, NEW b \in Nat, a <= b
  PROVE  two_to[a] <= two_to[b] /\ two_to[a] >= 1
<1>1. \A k \in Nat : two_to[k] \in Nat /\ two_to[k + 1] = 2 * two_to[k]
  BY PowersOfTwo
<1>2. \A k \in Nat : two_to[k] >= 1
  <2> DEFINE Bad == {k \in Nat : ~(two_to[k] >= 1)}
  <2>1. SUFFICES ASSUME Bad # {} PROVE FALSE
    OBVIOUS
  <2>2. PICK k \in Bad : \A m \in Bad : k <= m
    BY <2>1, LeastNatural
  <2>3. k # 0
    BY PowersOfTwo
  <2>4. k - 1 \in Nat /\ k - 1 \notin Bad /\ (k - 1) + 1 = k
    BY <2>2, <2>3
  <2>5. two_to[k - 1] >= 1 /\ two_to[k - 1] \in Nat /\ two_to[k] = 2 * two_to[k - 1]
    BY <1>1, <2>4
  <2> QED BY <2>5
<1>3. two_to[a] <= two_to[b]
  <2> DEFINE Bad == {k \in Nat : a <= k /\ ~(two_to[a] <= two_to[k])}
  <2>1. SUFFICES ASSUME Bad # {} PROVE FALSE
    OBVIOUS
  <2>2. PICK k \in Bad : \A m \in Bad : k <= m
    BY <2>1, LeastNatural
  <2>3. k # a
    BY <1>1
  <2>4. k - 1 \in Nat /\ k - 1 \notin Bad /\ a <= k - 1 /\ (k - 1) + 1 = k
    BY <2>2, <2>3
  <2>5. two_to[a] <= two_to[k - 1] /\ two_to[k - 1] \in Nat /\ two_to[k] = 2 * two_to[k - 1]
    BY <1>1, <2>4
  <2> QED BY <1>1, <2>5
<1> QED BY <1>2, <1>3

\* so that a number lies between two successive ones in one place only.
LEMMA BracketsAreUnique ==
  ASSUME NEW m \in Nat, NEW a \in Nat, NEW b \in Nat,
         two_to[a] <= m, m < two_to[a + 1], two_to[b] <= m, m < two_to[b + 1]
  PROVE  a = b
<1>1. a + 1 \in Nat /\ b + 1 \in Nat
  OBVIOUS
<1>2. \A k \in Nat : two_to[k] \in Nat
  BY PowersOfTwo
<1>3. a + 1 <= b => two_to[a + 1] <= two_to[b]
  BY <1>1, PowersGrow
<1>4. b + 1 <= a => two_to[b + 1] <= two_to[a]
  BY <1>1, PowersGrow
<1> QED BY <1>1, <1>2, <1>3, <1>4

\* The divisor of the gas is defined and the logarithms bracket their argument.
LEMMA LogarithmsBracket ==
  ASSUME NEW n \in Nat \ {0}
  PROVE  /\ two_to[log2_floor(n)] <= n /\ n <= two_to[log2_ceil(n)]
         /\ log2_ceil(n) - log2_floor(n) = (IF two_to[log2_floor(n)] = n THEN 0 ELSE 1)
         /\ log2_floor(n) \in Nat
         /\ n > 1 => log2_floor(n) # 0
<1>1. PICK p \in Nat : bit_length[n] = p + 1 /\ two_to[p] <= n /\ n < two_to[p + 1]
  BY BitLengthBrackets
<1>2. log2_floor(n) = p
  BY <1>1 DEF log2_floor
<1>3. CASE n = 1
  <2>1. log2_ceil(n) = 0
    BY <1>3 DEF log2_ceil
  <2>2. p = 0
    <3>1. two_to[0] = 1 /\ two_to[0 + 1] = 2
      BY PowersOfTwo
    <3> QED BY <1>1, <1>3, <3>1, BracketsAreUnique
  <2> QED BY <1>2, <1>3, <2>1, <2>2, PowersOfTwo
<1>4. CASE n # 1
  <2>1. n - 1 \in Nat \ {0}
    BY <1>4
  <2>2. PICK q \in Nat : bit_length[n - 1] = q + 1 /\ two_to[q] <= n - 1 /\ n - 1 < two_to[q + 1]
    BY <2>1, BitLengthBrackets
  <2>3. log2_ceil(n) = q + 1
    BY <1>4, <2>1, <2>2 DEF log2_ceil, log2_floor
  <2>4. /\ p + 1 \in Nat /\ q + 1 \in Nat /\ two_to[p] \in Nat /\ two_to[p + 1] \in Nat
        /\ two_to[q] \in Nat /\ two_to[q + 1] \in Nat /\ two_to[p + 1] = 2 * two_to[p]
    <3>1. p + 1 \in Nat /\ q + 1 \in Nat
      OBVIOUS
    <3> QED BY <3>1, PowersOfTwo
  <2>5. p # 0
    BY <1>1, <1>4, <2>4, PowersOfTwo
  <2>6. CASE two_to[p] = n
    <3>1. p - 1 \in Nat /\ (p - 1) + 1 = p
      BY <2>5
    <3>2. two_to[p - 1] \in Nat /\ two_to[p] = 2 * two_to[p - 1] /\ two_to[p - 1] >= 1
      <4>1. two_to[p - 1] \in Nat /\ two_to[(p - 1) + 1] = 2 * two_to[p - 1]
        BY <3>1, PowersOfTwo
      <4>2. two_to[p - 1] >= 1
        BY <3>1, PowersGrow
      <4> QED BY <3>1, <4>1, <4>2
    <3>3. two_to[p - 1] <= n - 1 /\ n - 1 < two_to[(p - 1) + 1] /\ n - 1 \in Nat
      BY <2>1, <2>6, <3>1, <3>2
    <3>4. q = p - 1
      BY <2>2, <3>1, <3>3, BracketsAreUnique
    <3> QED BY <1>1, <1>2, <2>3, <2>4, <2>5, <2>6, <3>4
  <2>7. CASE two_to[p] # n
    <3>1. two_to[p] <= n - 1 /\ n - 1 < two_to[p + 1] /\ n - 1 \in Nat
      BY <1>1, <2>1, <2>4, <2>7
    <3>2. q = p
      BY <2>2, <3>1, BracketsAreUnique
    <3> QED BY <1>1, <1>2, <2>2, <2>3, <2>4, <2>5, <2>7, <3>2
  <2> QED BY <2>6, <2>7
<1> QED BY <1>3, <1>4

-----------------------------------------------------------------------------
(* Points *)

IsHandle(h) == h \in Nat /\ h < Len(points)
PointInv ==
  /\ points \in Seq(Group) /\ Len(points) <= NumPointsLimit
  /\ handle \in [Names -> Nat \cup {Unset}]
  /\ \A n \in Names : handle[n] # Unset => IsHandle(handle[n])
  /\ \A n, m \in Names : n # m /\ handle[n] # Unset => handle[n] # handle[m]
  /\ stored \in Group \cup {Unset}
  /\ status \in {"running", "done", "aborted"}

\* The points as the program sees them.
Seen == [n \in Names |-> ValueOf(n)]

\* The elements of the group are numbers, and none is a marker of something else.
LEMMA GroupFacts ==
  /\ Order \in Nat \ {0, 1} /\ Unset \notin Nat
  /\ \A k \in Int : k % Order \in Group
  /\ \A k \in Group : k \in Int /\ k # Unset /\ k # NotAPoint /\ k % Order = k
<1>1. Order \in Nat \ {0, 1} /\ Unset \notin Int /\ NotAPoint \notin Int
  BY ScalarsAssumption, PointsAssumption
<1>2. \A k \in Int : k % Order \in Group
  BY <1>1, ModDivides DEF Group
<1>3. \A k \in Group : k \in Int /\ k % Order = k
  BY <1>1, ModSame DEF Group
<1> QED BY <1>1, <1>2, <1>3

\* A variable in use names a slot of the store, whose point is what the program sees.
LEMMA HeldPoints ==
  ASSUME PointInv, NEW m \in Held
  PROVE  /\ m \in Names /\ handle[m] \in Nat /\ handle[m] < Len(points)
         /\ handle[m] + 1 \in DOMAIN points
         /\ Has(points, handle[m])
         /\ get_point(points, handle[m]) \in Group
         /\ Seen[m] = get_point(points, handle[m])
<1>1. m \in Names /\ handle[m] # Unset /\ handle[m] \in Nat /\ handle[m] < Len(points)
  BY DEF PointInv, Held, IsHandle
<1>2. handle[m] + 1 \in DOMAIN points /\ points[handle[m] + 1] \in Group
  BY <1>1 DEF PointInv
<1>3. Has(points, handle[m])
  BY <1>1 DEF Has
<1> QED BY <1>1, <1>2, <1>3 DEF get_point, Seen, ValueOf

\* The store grows by a point, or the session has made as many as it may.
LEMMA Grows ==
  ASSUME PointInv, NEW p \in Int, safe_add_point(points, p) # Aborted
  PROVE  /\ safe_add_point(points, p).points = Append(points, p % Order)
         /\ safe_add_point(points, p).handle = Len(points)
         /\ Len(points) < NumPointsLimit
<1>1. Len(points) \in Nat /\ NumPointsLimit \in Nat
  BY PointsAssumption DEF PointInv
<1> QED BY <1>1 DEF safe_add_point, Result

\* The other way round: a store that does not take a point is full.
LEMMA Overflows ==
  ASSUME PointInv, NEW p \in Int, safe_add_point(points, p) = Aborted
  PROVE  Len(points) = NumPointsLimit
<1>1. Len(points) \in Nat /\ NumPointsLimit \in Nat
  BY PointsAssumption DEF PointInv
<1>2. CASE Len(points) >= NumPointsLimit
  BY <1>1, <1>2 DEF PointInv
<1>3. CASE ~(Len(points) >= NumPointsLimit)
  <2>1. points \in Seq(Int) /\ p % Order \in Int
    BY GroupFacts DEF PointInv
  <2>2. Append(points, p % Order) \in Seq(Int) /\ Len(points) \in Int
    BY <2>1
  <2>3. Result(Append(points, p % Order), Len(points)) \in [points : Seq(Int), handle : Int]
    BY <2>2 DEF Result
  <2>4. safe_add_point(points, p) = Result(Append(points, p % Order), Len(points))
    BY <1>3 DEF safe_add_point
  <2> QED BY <2>3, <2>4, PointsAssumption
<1> QED BY <1>2, <1>3

-----------------------------------------------------------------------------
(* The three ways a call ends *)

\* A script ends, by itself or because the store is full.
LEMMA EndStep ==
  ASSUME PointInv, NEW how \in {"done", "aborted"}, status = "running", Ends(how),
         how = "aborted" => Len(points) = NumPointsLimit
  PROVE  PointInv' /\ AsValues!Finish
<1>1. PointInv'
  BY DEF Ends, PointInv, Nobody, IsHandle
<1>2. Seen' = AsValues!Nothing
  BY DEF Ends, Seen, ValueOf, Nobody, AsValues!Nothing
<1>3. AsValues!Finish
  BY <1>2 DEF AsValues!Finish, Ends, Seen
<1> QED BY <1>1, <1>3

\* A fresh variable: the store after the step, what is seen of it and that nothing else moved.
LEMMA AppendStep ==
  ASSUME PointInv, NEW n \in Names, NEW p \in Group, Len(points) < NumPointsLimit,
         points' = Append(points, p), handle' = [handle EXCEPT ![n] = Len(points)],
         UNCHANGED <<stored, status>>
  PROVE  /\ PointInv'
         /\ Seen' = [Seen EXCEPT ![n] = p]
         /\ Len(points)' = Len(points) + 1 /\ Len(points)' <= NumPointsLimit
<1>1. /\ Len(points) \in Nat /\ NumPointsLimit \in Nat /\ Len(points') = Len(points) + 1
      /\ points' \in Seq(Group) /\ points'[Len(points) + 1] = p
      /\ \A i \in 1 .. Len(points) : points'[i] = points[i]
  BY PointsAssumption DEF PointInv
<1>2. /\ handle' \in [Names -> Nat \cup {Unset}] /\ handle'[n] = Len(points)
      /\ \A m \in Names : m # n => handle'[m] = handle[m]
  BY <1>1 DEF PointInv
<1>3. /\ \A m \in Names : handle[m] # Unset => handle[m] \in Nat /\ handle[m] < Len(points)
      /\ \A k, m \in Names : k # m /\ handle[k] # Unset => handle[k] # handle[m]
      /\ Unset \notin Nat
  BY GroupFacts DEF PointInv, IsHandle
<1>4. PointInv'
  <2>1. \A m \in Names : handle'[m] # Unset => handle'[m] \in Nat /\ handle'[m] < Len(points')
    BY <1>1, <1>2, <1>3
  <2>2. \A k, m \in Names : k # m /\ handle'[k] # Unset => handle'[k] # handle'[m]
    BY <1>1, <1>2, <1>3
  <2>3. stored' \in Group \cup {Unset} /\ status' \in {"running", "done", "aborted"}
    BY DEF PointInv
  <2>4. Len(points') <= NumPointsLimit
    BY <1>1
  <2> QED BY <1>1, <1>2, <2>1, <2>2, <2>3, <2>4 DEF PointInv, IsHandle
<1>5. Seen' = [Seen EXCEPT ![n] = p]
  <2>1. Seen'[n] = p
    BY <1>1, <1>2, <1>3 DEF Seen, ValueOf, Has, get_point
  <2>2. ASSUME NEW m \in Names, m # n PROVE Seen'[m] = Seen[m]
    <3>1. handle'[m] = handle[m]
      BY <1>2, <2>2
    <3>2. CASE handle[m] = Unset
      BY <3>1, <3>2 DEF Seen, ValueOf
    <3>3. CASE handle[m] # Unset
      <4>1. handle[m] \in Nat /\ handle[m] < Len(points) /\ handle[m] + 1 \in 1 .. Len(points)
        BY <1>1, <1>3, <3>3
      <4>2. handle[m] < Len(points') /\ points'[handle[m] + 1] = points[handle[m] + 1]
        BY <1>1, <4>1
      <4> QED BY <3>1, <3>3, <4>1, <4>2 DEF Seen, ValueOf, Has, get_point
    <3> QED BY <3>2, <3>3
  <2> QED BY <2>1, <2>2 DEF Seen
<1> QED BY <1>1, <1>4, <1>5

\* An assignment: the slot is the variable's own, so nothing else is seen to move.
LEMMA OverwriteStep ==
  ASSUME PointInv, NEW n \in Held, NEW p \in Group,
         points' = [points EXCEPT ![handle[n] + 1] = p],
         UNCHANGED <<handle, stored, status>>
  PROVE  /\ PointInv'
         /\ Seen' = [Seen EXCEPT ![n] = p]
         /\ Len(points)' = Len(points) /\ Len(points)' <= NumPointsLimit
<1>1. n \in Names /\ handle[n] \in Nat /\ handle[n] < Len(points) /\ handle[n] + 1 \in DOMAIN points
  BY HeldPoints
<1>2. /\ Len(points') = Len(points) /\ points' \in Seq(Group) /\ points'[handle[n] + 1] = p
      /\ \A i \in 1 .. Len(points) : i # handle[n] + 1 => points'[i] = points[i]
  BY <1>1 DEF PointInv
<1>3. PointInv'
  BY <1>2 DEF PointInv, IsHandle
<1>4. Seen' = [Seen EXCEPT ![n] = p]
  <2>1. Seen'[n] = p
    <3>1. handle[n] # Unset
      BY DEF Held
    <3> QED BY <1>1, <1>2, <3>1 DEF Seen, ValueOf, Has, get_point
  <2>2. ASSUME NEW m \in Names, m # n PROVE Seen'[m] = Seen[m]
    <3>1. CASE handle[m] = Unset
      BY <3>1 DEF Seen, ValueOf
    <3>2. CASE handle[m] # Unset
      <4>1. handle[m] \in Nat /\ handle[m] < Len(points) /\ handle[m] # handle[n]
        BY <1>1, <2>2, <3>2 DEF PointInv, IsHandle
      <4>2. handle[m] + 1 \in 1 .. Len(points) /\ handle[m] + 1 # handle[n] + 1
        BY <1>1, <4>1 DEF PointInv
      <4>3. points'[handle[m] + 1] = points[handle[m] + 1]
        BY <1>2, <4>2
      <4> QED BY <1>2, <4>1, <4>3 DEF Seen, ValueOf, Has, get_point
    <3> QED BY <3>1, <3>2
  <2> QED BY <1>1, <2>1, <2>2 DEF Seen
<1>5. Len(points') <= NumPointsLimit
  BY <1>2 DEF PointInv
<1> QED BY <1>2, <1>3, <1>4, <1>5

-----------------------------------------------------------------------------
(* The documented combinations *)

\* The terms of a call, each coefficient times the point of its variable.
Weighed(terms) == [i \in DOMAIN terms |-> terms[i][1] * Seen[terms[i][2]]]
Terms == Seq(Int \X Names)

\* The sum of no terms.
LEMMA WeighedNone == <<>> \in Terms /\ SumFunction(Weighed(<<>>)) = 0
<1>1. DOMAIN Weighed(<<>>) = {}
  BY DEF Weighed
<1> QED BY <1>1, SumEmpty DEF SumFunction, Terms

\* The sum of one term,
LEMMA WeighedOne ==
  ASSUME PointInv, NEW a \in Int, NEW m \in Held
  PROVE  /\ <<<<a, m>>>> \in Terms
         /\ SumFunction(Weighed(<<<<a, m>>>>)) = a * Seen[m]
         /\ a * Seen[m] \in Int
<1>1. m \in Names /\ Seen[m] \in Int
  BY HeldPoints, GroupFacts
<1>2. a * Seen[m] \in Int
  BY <1>1
<1> DEFINE f == Weighed(<<<<a, m>>>>)
<1>3. DOMAIN f = {1} /\ f[1] = a * Seen[m]
  BY DEF Weighed
<1> HIDE DEF f
<1>4. SumFunction(f) = f[1]
  BY <1>2, <1>3, SumOne
<1> QED BY <1>1, <1>2, <1>3, <1>4 DEF f, Terms

\* and of two.
LEMMA WeighedTwo ==
  ASSUME PointInv, NEW a \in Int, NEW l \in Held, NEW b \in Int, NEW m \in Held
  PROVE  /\ <<<<a, l>>, <<b, m>>>> \in Terms
         /\ SumFunction(Weighed(<<<<a, l>>, <<b, m>>>>)) = a * Seen[l] + b * Seen[m]
         /\ a * Seen[l] \in Int /\ b * Seen[m] \in Int
<1>1. l \in Names /\ Seen[l] \in Int /\ m \in Names /\ Seen[m] \in Int
  BY HeldPoints, GroupFacts
<1>2. a * Seen[l] \in Int /\ b * Seen[m] \in Int
  BY <1>1
<1> DEFINE f == Weighed(<<<<a, l>>, <<b, m>>>>)
<1>3. DOMAIN f = {1, 2} /\ f[1] = a * Seen[l] /\ f[2] = b * Seen[m]
  BY DEF Weighed
<1> HIDE DEF f
<1>4. SumFunction(f) = f[1] + f[2]
  <2>1. f[1] \in Int /\ f[2] \in Int
    BY <1>2, <1>3
  <2> QED BY <1>3, <2>1, SumTwo
<1> QED BY <1>1, <1>2, <1>3, <1>4 DEF f, Terms

\* The two modules sum alike.
LEMMA SameSum == \A f : AsValues!SumFunction(f) = SumFunction(f)
BY DEF AsValues!SumFunction, AsValues!SumFunctionOnSet, AsValues!FoldFunctionOnSet, AsValues!MapThenFoldSet,
       SumFunction, SumFunctionOnSet, FoldFunctionOnSet, MapThenFoldSet

\* A step that sets one variable to the combination its call documents.
LEMMA CombineStep ==
  ASSUME NEW n \in Names, NEW base \in Int, NEW terms \in Terms, NEW fresh \in BOOLEAN,
         status = "running", status' = "running", call' = Doc(n, base, terms, fresh),
         Seen' = [Seen EXCEPT ![n] = (base + SumFunction(Weighed(terms))) % Order],
         Len(points)' = Len(points) + (IF fresh THEN 1 ELSE 0),
         Len(points)' <= NumPointsLimit, stored' = stored
  PROVE  AsValues!Combine
<1>1. call' \in Documented
  BY DEF Doc, Documented, Terms
<1>2. call' # Unset
  BY <1>1, PointsAssumption
<1>3. call'.op = "combine" /\ call'.to = n /\ call'.fresh = fresh /\ call'.base = base /\ call'.terms = terms
  BY DEF Doc
<1>4. AsValues!Combination(call', Seen) = (base + SumFunction(Weighed(terms))) % Order
  <2>1. \A c, v : AsValues!Combination(c, v)
            = (c.base + SumFunction([i \in DOMAIN c.terms |-> c.terms[i][1] * v[c.terms[i][2]]])) % Order
    BY SameSum DEF AsValues!Combination
  <2>2. AsValues!Combination(call', Seen)
            = (base + SumFunction([i \in DOMAIN terms |-> terms[i][1] * Seen[terms[i][2]]])) % Order
    BY <1>3, <2>1
  <2> QED BY <2>2 DEF Weighed
<1>5. Seen' = [Seen EXCEPT ![call'.to] = AsValues!Combination(call', Seen)]
  BY <1>3, <1>4
<1> HIDE DEF Seen
<1> QED BY <1>2, <1>3, <1>5 DEF AsValues!Combine, AsValues!Running, Seen

\* A call that makes a fresh point of the combination it documents.
LEMMA FreshStep ==
  ASSUME PointInv, status = "running",
         NEW n \in Names, NEW base \in Int, NEW terms \in Terms, NEW p \in Int,
         p = base + SumFunction(Weighed(terms)),
         Fresh(n, safe_add_point(points, p), Doc(n, base, terms, TRUE))
  PROVE  PointInv' /\ (AsValues!Combine \/ AsValues!Finish)
<1>1. CASE safe_add_point(points, p) = Aborted
  <2>1. Ends("aborted")
    BY <1>1 DEF Fresh
  <2>2. Len(points) = NumPointsLimit
    BY <1>1, Overflows
  <2> QED BY <2>1, <2>2, EndStep
<1>2. CASE safe_add_point(points, p) # Aborted
  <2>1. /\ points' = Append(points, p % Order) /\ handle' = [handle EXCEPT ![n] = Len(points)]
        /\ Len(points) < NumPointsLimit
        /\ call' = Doc(n, base, terms, TRUE) /\ UNCHANGED <<stored, status>>
    BY <1>2, Grows DEF Fresh
  <2>2. p % Order \in Group
    BY GroupFacts
  <2>3. /\ PointInv' /\ Seen' = [Seen EXCEPT ![n] = p % Order]
        /\ Len(points)' = Len(points) + 1 /\ Len(points)' <= NumPointsLimit
    BY <2>1, <2>2, AppendStep
  <2>4. AsValues!Combine
    BY <2>1, <2>3, CombineStep
  <2> QED BY <2>3, <2>4
<1> QED BY <1>1, <1>2

\* A call that overwrites the point of its first argument.
LEMMA AssignStep ==
  ASSUME PointInv, status = "running",
         NEW m \in Held, NEW base \in Int, NEW terms \in Terms, NEW p \in Int,
         p = base + SumFunction(Weighed(terms)),
         Assign(Result(set_point(points, handle[m], p), handle[m]), Doc(m, base, terms, FALSE))
  PROVE  PointInv' /\ (AsValues!Combine \/ AsValues!Finish)
<1> DEFINE r == Result(set_point(points, handle[m], p), handle[m])
<1>1. p % Order \in Group /\ m \in Names
  BY GroupFacts, HeldPoints
<1>2. r # Aborted
  <2>1. handle[m] \in Int /\ handle[m] + 1 \in DOMAIN points /\ p % Order \in Int
    <3>1. handle[m] \in Nat /\ handle[m] + 1 \in DOMAIN points
      BY HeldPoints
    <3>2. p % Order \in Int
      BY <1>1, GroupFacts
    <3> QED BY <3>1, <3>2
  <2>2. points \in Seq(Int)
    BY GroupFacts DEF PointInv
  <2>3. set_point(points, handle[m], p) \in Seq(Int)
    BY <2>1, <2>2 DEF set_point
  <2>4. r \in [points : Seq(Int), handle : Int]
    BY <2>1, <2>3 DEF Result
  <2> QED BY <2>4, PointsAssumption
<1>3. /\ points' = [points EXCEPT ![handle[m] + 1] = p % Order]
      /\ call' = Doc(m, base, terms, FALSE) /\ UNCHANGED <<handle, stored, status>>
  BY <1>2 DEF Assign, Result, set_point
<1>4. /\ PointInv' /\ Seen' = [Seen EXCEPT ![m] = p % Order]
      /\ Len(points)' = Len(points) /\ Len(points)' <= NumPointsLimit
  BY <1>1, <1>3, OverwriteStep
<1>5. Len(points)' = Len(points) + (IF FALSE THEN 1 ELSE 0)
  BY <1>4 DEF PointInv
<1>6. AsValues!Combine
  BY <1>1, <1>3, <1>4, <1>5, CombineStep
<1> QED BY <1>4, <1>6

-----------------------------------------------------------------------------
(* Every call *)

Simulated == PointInv' /\ AsValues!Next

\* The handles of variables in use pass the store's checks.
LEMMA Checked ==
  ASSUME PointInv, NEW l \in Held, NEW m \in Held
  PROVE  \A r : With(points, {handle[m]}, r) = r /\ With(points, {handle[l], handle[m]}, r) = r
<1>1. Has(points, handle[l]) /\ Has(points, handle[m])
  BY HeldPoints
<1> QED BY <1>1 DEF With

\* A fresh point out of no other,
LEMMA FromNothing ==
  ASSUME PointInv, status = "running", NEW n \in Names, NEW p \in Int,
         Fresh(n, safe_add_point(points, p), Doc(n, p, <<>>, TRUE))
  PROVE  Simulated
<1>1. <<>> \in Terms /\ p = p + SumFunction(Weighed(<<>>))
  BY WeighedNone
<1>2. PointInv' /\ (AsValues!Combine \/ AsValues!Finish)
  BY <1>1, FreshStep
<1> QED BY <1>2 DEF Simulated, AsValues!Next

\* out of one,
LEMMA FromOne ==
  ASSUME PointInv, status = "running", NEW n \in Names, NEW a \in Int, NEW m \in Held,
         NEW base \in Int, NEW p, p = base + a * get_point(points, handle[m]),
         Fresh(n, safe_add_point(points, p), Doc(n, base, <<<<a, m>>>>, TRUE))
  PROVE  Simulated
<1>1. Seen[m] = get_point(points, handle[m])
  BY HeldPoints
<1>2. <<<<a, m>>>> \in Terms /\ p = base + SumFunction(Weighed(<<<<a, m>>>>)) /\ p \in Int
  <2>1. /\ <<<<a, m>>>> \in Terms /\ a * Seen[m] \in Int
        /\ SumFunction(Weighed(<<<<a, m>>>>)) = a * Seen[m]
    BY WeighedOne
  <2> QED BY <1>1, <2>1
<1>3. PointInv' /\ (AsValues!Combine \/ AsValues!Finish)
  <2> DEFINE terms == <<<<a, m>>>>
  <2>1. terms \in Terms /\ p = base + SumFunction(Weighed(terms)) /\ p \in Int
    BY <1>2
  <2>2. Fresh(n, safe_add_point(points, p), Doc(n, base, terms, TRUE))
    OBVIOUS
  <2> HIDE DEF terms
  <2> QED BY <2>1, <2>2, FreshStep
<1> QED BY <1>3 DEF Simulated, AsValues!Next

\* and out of two.
LEMMA FromTwo ==
  ASSUME PointInv, status = "running", NEW n \in Names,
         NEW a \in Int, NEW l \in Held, NEW b \in Int, NEW m \in Held,
         NEW p, p = a * get_point(points, handle[l]) + b * get_point(points, handle[m]),
         Fresh(n, safe_add_point(points, p), Doc(n, 0, <<<<a, l>>, <<b, m>>>>, TRUE))
  PROVE  Simulated
<1>1. Seen[m] = get_point(points, handle[m]) /\ Seen[l] = get_point(points, handle[l])
  BY HeldPoints
<1> DEFINE base == 0
           terms == <<<<a, l>>, <<b, m>>>>
<1>2. terms \in Terms /\ p = base + SumFunction(Weighed(terms)) /\ p \in Int
  <2>1. /\ terms \in Terms /\ a * Seen[l] \in Int /\ b * Seen[m] \in Int
        /\ SumFunction(Weighed(terms)) = a * Seen[l] + b * Seen[m]
    BY WeighedTwo
  <2> QED BY <1>1, <2>1
<1>3. Fresh(n, safe_add_point(points, p), Doc(n, base, terms, TRUE))
  OBVIOUS
<1>a. base \in Int
  OBVIOUS
<1> HIDE DEF terms, base
<1>4. PointInv' /\ (AsValues!Combine \/ AsValues!Finish)
  BY <1>2, <1>3, <1>a, FreshStep
<1> QED BY <1>4 DEF Simulated, AsValues!Next

\* An assignment of one term,
LEMMA OntoOne ==
  ASSUME PointInv, status = "running", NEW a \in Int, NEW m \in Held,
         NEW p, p = a * get_point(points, handle[m]),
         Assign(Result(set_point(points, handle[m], p), handle[m]), Doc(m, 0, <<<<a, m>>>>, FALSE))
  PROVE  Simulated
<1>1. Seen[m] = get_point(points, handle[m])
  BY HeldPoints
<1> DEFINE base == 0
           terms == <<<<a, m>>>>
<1>2. terms \in Terms /\ p = base + SumFunction(Weighed(terms)) /\ p \in Int
  <2>1. terms \in Terms /\ a * Seen[m] \in Int /\ SumFunction(Weighed(terms)) = a * Seen[m]
    BY WeighedOne
  <2> QED BY <1>1, <2>1
<1>3. Assign(Result(set_point(points, handle[m], p), handle[m]), Doc(m, base, terms, FALSE))
  OBVIOUS
<1>a. base \in Int
  OBVIOUS
<1> HIDE DEF terms, base
<1>4. PointInv' /\ (AsValues!Combine \/ AsValues!Finish)
  BY <1>2, <1>3, <1>a, AssignStep
<1> QED BY <1>4 DEF Simulated, AsValues!Next

\* and of two, the first the variable itself.
LEMMA OntoTwo ==
  ASSUME PointInv, status = "running", NEW a \in Int, NEW l \in Held,
         NEW b \in Int, NEW m \in Held,
         NEW p, p = a * get_point(points, handle[l]) + b * get_point(points, handle[m]),
         Assign(Result(set_point(points, handle[l], p), handle[l]),
                Doc(l, 0, <<<<a, l>>, <<b, m>>>>, FALSE))
  PROVE  Simulated
<1>1. Seen[m] = get_point(points, handle[m]) /\ Seen[l] = get_point(points, handle[l])
  BY HeldPoints
<1> DEFINE base == 0
           terms == <<<<a, l>>, <<b, m>>>>
<1>2. terms \in Terms /\ p = base + SumFunction(Weighed(terms)) /\ p \in Int
  <2>1. /\ terms \in Terms /\ a * Seen[l] \in Int /\ b * Seen[m] \in Int
        /\ SumFunction(Weighed(terms)) = a * Seen[l] + b * Seen[m]
    BY WeighedTwo
  <2> QED BY <1>1, <2>1
<1>3. Assign(Result(set_point(points, handle[l], p), handle[l]), Doc(l, base, terms, FALSE))
  OBVIOUS
<1>a. base \in Int
  OBVIOUS
<1> HIDE DEF terms, base
<1>4. PointInv' /\ (AsValues!Combine \/ AsValues!Finish)
  BY <1>2, <1>3, <1>a, AssignStep
<1> QED BY <1>4 DEF Simulated, AsValues!Next

\* The bytes of a point decompress to it.
LEMMA DecompressOf ==
  ASSUME NEW bytes \in Group
  PROVE  native_point_decompress(points, bytes) = safe_add_point(points, bytes)
BY GroupFacts DEF native_point_decompress, encodes_a_point

\* point_decompress: the stored point comes back.
LEMMA LoadStep ==
  ASSUME PointInv, status = "running", NEW n \in Names, point_decompress(n)
  PROVE  Simulated
<1> DEFINE c == [op |-> "load", to |-> n]
<1>1. stored \in Group /\ stored # Unset /\ stored % Order = stored /\ stored \in Int
  BY GroupFacts DEF PointInv, point_decompress
<1>2. Fresh(n, safe_add_point(points, stored), c)
  BY <1>1, DecompressOf DEF point_decompress
<1>3. c # Unset
  <2>1. c \in Documented
    BY DEF Documented
  <2> QED BY <2>1, PointsAssumption
<1> HIDE DEF c
<1>4. CASE safe_add_point(points, stored) = Aborted
  <2>1. Ends("aborted") /\ Len(points) = NumPointsLimit
    BY <1>1, <1>2, <1>4, Overflows DEF Fresh
  <2>2. PointInv' /\ AsValues!Finish
    BY <2>1, EndStep
  <2> QED BY <2>2 DEF Simulated, AsValues!Next
<1>5. CASE safe_add_point(points, stored) # Aborted
  <2>1. /\ points' = Append(points, stored) /\ handle' = [handle EXCEPT ![n] = Len(points)]
        /\ Len(points) < NumPointsLimit /\ call' = c /\ UNCHANGED <<stored, status>>
    BY <1>1, <1>2, <1>5, Grows DEF Fresh
  <2>2. /\ PointInv' /\ Seen' = [Seen EXCEPT ![n] = stored]
        /\ Len(points)' = Len(points) + 1 /\ Len(points)' <= NumPointsLimit
    BY <1>1, <2>1, AppendStep
  <2>3. call'.op = "load" /\ call'.to = n /\ call' # Unset
    BY <1>3, <2>1 DEF c
  <2> HIDE DEF Seen
  <2>4. AsValues!Load
    BY <1>1, <2>1, <2>2, <2>3 DEF AsValues!Load, AsValues!Running, Seen
  <2> QED BY <2>2, <2>4 DEF Simulated, AsValues!Next
<1> QED BY <1>4, <1>5

\* Storing and comparing leave the store as it is.
LEMMA SaveStep ==
  ASSUME PointInv, status = "running", NEW m \in Held,
         stored' = get_point(points, handle[m]), call' = [op |-> "save", from |-> m],
         UNCHANGED <<points, handle, status>>
  PROVE  Simulated
<1>1. m \in Names /\ get_point(points, handle[m]) \in Group /\ Seen[m] = get_point(points, handle[m])
  BY HeldPoints
<1>2. call' # Unset /\ call'.op = "save" /\ call'.from = m
  <2>1. call' \in Documented
    BY <1>1 DEF Documented
  <2> QED BY <2>1, PointsAssumption
<1>3. Seen' = Seen
  BY DEF Seen, ValueOf, Has, get_point
<1>4. PointInv'
  BY <1>1 DEF PointInv, IsHandle
<1>5. stored' \in Group /\ stored' = Seen[call'.from]
  BY <1>1, <1>2
<1>6. AsValues!Group = Group
  BY DEF Group, AsValues!Group
<1> HIDE DEF Seen
<1>7. AsValues!Save
  BY <1>2, <1>3, <1>5, <1>6 DEF AsValues!Save, AsValues!Running, Seen
<1> QED BY <1>4, <1>7 DEF Simulated, AsValues!Next

\* Comparing the slots is comparing the points.
LEMMA CompareStep ==
  ASSUME PointInv, status = "running", NEW l \in Held, NEW m \in Held, point_equals(l, m)
  PROVE  Simulated
<1> DEFINE same == get_point(points, handle[l]) = get_point(points, handle[m])
<1>1. l \in Names /\ m \in Names /\ same = (Seen[l] = Seen[m])
  BY HeldPoints
<1>2. /\ call' = [op |-> "equals", left |-> l, right |-> m, result |-> same]
      /\ UNCHANGED <<points, handle, stored, status>>
  BY DEF point_equals, native_point_equals
<1>a. same \in BOOLEAN
  OBVIOUS
<1> HIDE DEF same
<1>3. call' # Unset /\ call'.op = "equals"
  <2>1. call' \in Documented
    BY <1>1, <1>2, <1>a DEF Documented
  <2> QED BY <1>2, <2>1, PointsAssumption
<1>4. call'.result = (Seen[call'.left] = Seen[call'.right])
  BY <1>1, <1>2
<1>5. Seen' = Seen
  BY <1>2 DEF Seen, ValueOf, Has, get_point
<1>6. PointInv'
  BY <1>2 DEF PointInv, IsHandle
<1> HIDE DEF Seen
<1>7. AsValues!Compare
  BY <1>2, <1>3, <1>4, <1>5 DEF AsValues!Compare, AsValues!Running, Seen
<1> QED BY <1>6, <1>7 DEF Simulated, AsValues!Next

\* The elements of a bounded sequence.
LEMMA HeldElements ==
  ASSUME NEW S, NEW k \in Nat, NEW s \in SeqOf(S, k)
  PROVE  /\ Len(s) \in Nat /\ DOMAIN s = 1 .. Len(s)
         /\ \A i \in DOMAIN s : s[i] \in S
<1>1. PICK j \in 0 .. k : s \in [1 .. j -> S]
  BY DEF SeqOf
<1>2. s \in Seq(S) /\ Len(s) = j
  BY <1>1
<1> QED BY <1>1, <1>2

\* multi_scalar_mul: the logarithm it divides by is not zero, and the sum is the documented one.
LEMMA MultiStep ==
  ASSUME PointInv, status = "running", NEW n \in Names,
         NEW ms \in SeqOf(Held, MaxTerms), NEW as \in SeqOf(Scalars, MaxTerms),
         multi_scalar_mul(n, ms, as)
  PROVE  Simulated
<1>1. /\ Len(ms) \in Nat /\ DOMAIN ms = 1 .. Len(ms) /\ \A i \in DOMAIN ms : ms[i] \in Held
      /\ DOMAIN as = 1 .. Len(as) /\ \A i \in DOMAIN as : as[i] \in Scalars
  BY PointsAssumption, HeldElements
<1>2. Len(ms) = Len(as) /\ Len(ms) > 0 /\ DOMAIN as = DOMAIN ms
  BY <1>1 DEF multi_scalar_mul
<1>3. msm_divisor(Len(as)) # 0
  <2> DEFINE k == Len(as)
  <2>1. k \in Nat /\ k > 0
    BY <1>1, <1>2
  <2> HIDE DEF k
  <2>2. k + 1 \in Nat \ {0} /\ k + 1 > 1
    BY <2>1
  <2>3. log2_floor(k + 1) # 0
    BY <2>2, LogarithmsBracket
  <2> QED BY <2>3 DEF k, msm_divisor
<1> DEFINE hs == [i \in DOMAIN ms |-> handle[ms[i]]]
           terms == [i \in DOMAIN ms |-> <<as[i], ms[i]>>]
           f == [i \in DOMAIN as |-> as[i] * get_point(points, hs[i])]
           p == SumFunction(f)
           base == 0
<1>4. Fresh(n, native_multi_scalar_mul(points, hs, as), Doc(n, base, terms, TRUE))
  BY <1>3 DEF multi_scalar_mul
<1>5. native_multi_scalar_mul(points, hs, as) = safe_add_point(points, p)
  <2>1. \A h \in ToSet(hs) : Has(points, h)
    BY <1>1, HeldPoints DEF ToSet
  <2> QED BY <2>1 DEF With, native_multi_scalar_mul
<1>6. terms \in Terms
  <2>1. \A i \in DOMAIN ms : as[i] \in Int /\ ms[i] \in Names
    BY <1>1, <1>2, GroupFacts DEF Scalars, Held
  <2>2. terms \in [1 .. Len(ms) -> Int \X Names]
    BY <1>1, <2>1
  <2> HIDE DEF terms
  <2> QED BY <1>1, <2>2 DEF Terms
<1>7. Weighed(terms) = f
  <2>1. \A i \in DOMAIN ms : Seen[ms[i]] = get_point(points, handle[ms[i]])
    BY <1>1, HeldPoints
  <2>2. \A i \in DOMAIN ms : terms[i][1] = as[i] /\ terms[i][2] = ms[i]
    OBVIOUS
  <2>3. DOMAIN terms = DOMAIN ms
    OBVIOUS
  <2>4. \A i \in DOMAIN ms : hs[i] = handle[ms[i]]
    OBVIOUS
  <2> HIDE DEF terms, hs
  <2>5. ASSUME NEW i \in DOMAIN ms
        PROVE  terms[i][1] * Seen[terms[i][2]] = as[i] * get_point(points, hs[i])
    <3>1. terms[i][1] = as[i]
      BY <2>2
    <3>2. Seen[terms[i][2]] = get_point(points, hs[i])
      <4>1. terms[i][2] = ms[i] /\ hs[i] = handle[ms[i]]
        BY <2>2, <2>4
      <4>2. Seen[ms[i]] = get_point(points, handle[ms[i]])
        BY <2>1
      <4> HIDE DEF Seen
      <4> QED BY <4>1, <4>2
    <3> QED BY <3>1, <3>2
  <2> QED BY <1>2, <2>3, <2>5 DEF Weighed
<1>8. p \in Int
  <2>1. \A i \in DOMAIN as : f[i] \in Int
    <3>0. \A v, w \in Int : w * v \in Int
      OBVIOUS
    <3> SUFFICES ASSUME NEW i \in DOMAIN as PROVE as[i] * get_point(points, hs[i]) \in Int
      OBVIOUS
    <3>1. as[i] \in Int
      BY <1>1, GroupFacts DEF Scalars
    <3>2. ms[i] \in Held /\ hs[i] = handle[ms[i]]
      BY <1>1, <1>2
    <3>3. get_point(points, handle[ms[i]]) \in Int
      BY <3>2, HeldPoints, GroupFacts
    <3> HIDE DEF hs
    <3>4. get_point(points, hs[i]) \in Int
      BY <3>2, <3>3
    <3> QED BY <3>0, <3>1, <3>4
  <2>2. IsFiniteSet(DOMAIN as)
    <3>1. IsFiniteSet(1 .. Len(ms))
      BY <1>1, FS_Interval
    <3> QED BY <1>1, <1>2, <3>1
  <2>3. DOMAIN f = DOMAIN as
    OBVIOUS
  <2> HIDE DEF f
  <2> QED BY <2>1, <2>2, <2>3, SumInt DEF SumFunction
<1>9. base \in Int /\ p = base + SumFunction(Weighed(terms))
  BY <1>7, <1>8
<1> HIDE DEF terms, p, base, f, hs
<1>10. PointInv' /\ (AsValues!Combine \/ AsValues!Finish)
  BY <1>4, <1>5, <1>6, <1>8, <1>9, FreshStep
<1> QED BY <1>10 DEF Simulated, AsValues!Next

\* The calls that take no point,
LEMMA ConstructorsStep ==
  ASSUME PointInv, status = "running", NEW n \in Names, Constructors(n)
  PROVE  Simulated
<1> DEFINE zero == 0
           unit == 1
<1>1. \A p \in Group : p \in Int
  BY GroupFacts
<1>2. CASE point_identity(n)
  <2>1. Fresh(n, safe_add_point(points, zero), Doc(n, zero, <<>>, TRUE))
    BY <1>2 DEF point_identity, native_point_identity
  <2>2. zero \in Int
    OBVIOUS
  <2> HIDE DEF zero
  <2> QED BY <2>1, <2>2, FromNothing
<1>3. CASE basepoint(n)
  <2>1. unit \in Group
    BY GroupFacts DEF Group
  <2>2. unit \in Int
    OBVIOUS
  <2>3. Fresh(n, native_point_decompress(points, unit), Doc(n, unit, <<>>, TRUE))
    BY <1>3 DEF basepoint
  <2> HIDE DEF unit
  <2> QED BY <2>1, <2>2, <2>3, DecompressOf, FromNothing
<1>4. CASE point_decompress(n)
  BY <1>4, LoadStep
<1>5. ASSUME NEW a \in Scalars, basepoint_mul(n, a) PROVE Simulated
  BY <1>1, <1>5, FromNothing DEF basepoint_mul, native_basepoint_mul, Scalars
<1>6. ASSUME NEW p \in Group, new_point_from_sha2_512(n, p) PROVE Simulated
  BY <1>1, <1>6, FromNothing DEF new_point_from_sha2_512, native_new_point_from_sha512
<1>7. ASSUME NEW p \in Group, NEW length, new_point_from_64_uniform_bytes(n, p, length) PROVE Simulated
  BY <1>1, <1>7, FromNothing
  DEF new_point_from_64_uniform_bytes, native_new_point_from_64_uniform_bytes
<1>8. ASSUME NEW bytes \in Encodings, new_point_from_bytes(n, bytes) PROVE Simulated
  <2>1. bytes # NotAPoint
    BY <1>8 DEF new_point_from_bytes, native_point_decompress, encodes_a_point
  <2>2. bytes \in Group /\ bytes \in Int
    BY <1>1, <2>1 DEF Encodings
  <2>3. Fresh(n, native_point_decompress(points, bytes), Doc(n, bytes, <<>>, TRUE))
    BY <1>8 DEF new_point_from_bytes
  <2> QED BY <2>2, <2>3, DecompressOf, FromNothing
<1> QED BY <1>2, <1>3, <1>4, <1>5, <1>6, <1>7, <1>8 DEF Constructors

\* those that take one,
LEMMA UnaryStep ==
  ASSUME PointInv, status = "running", NEW n \in Names, NEW m \in Held, Unary(n, m)
  PROVE  Simulated
<1> DEFINE x == get_point(points, handle[m])
           h == handle[m]
           zero == 0
<1>1. /\ x \in Int /\ x \in Group /\ zero \in Int /\ -1 \in Int /\ 1 \in Int
      /\ \A a \in Scalars : a \in Int
      /\ \A r : With(points, {h}, r) = r
  <2>1. \A r : With(points, {h}, r) = r
    BY Checked
  <2>2. x \in Int /\ x \in Group
    BY HeldPoints, GroupFacts
  <2>3. \A a \in Scalars : a \in Int
    BY GroupFacts DEF Scalars
  <2> HIDE DEF x, h
  <2> QED BY <2>1, <2>2, <2>3
<1>2. CASE point_clone(n, m)
  <2>1. Fresh(n, safe_add_point(points, x), Doc(n, zero, <<<<1, m>>>>, TRUE))
    BY <1>1, <1>2 DEF point_clone, native_point_clone
  <2>2. x = zero + 1 * x
    BY <1>1
  <2> HIDE DEF zero
  <2> QED BY <1>1, <2>1, <2>2, FromOne
<1>3. CASE point_neg(n, m)
  <2>1. Fresh(n, safe_add_point(points, -x), Doc(n, zero, <<<<-1, m>>>>, TRUE))
    BY <1>1, <1>3 DEF point_neg, native_point_neg
  <2>2. -x = zero + (-1) * x
    BY <1>1
  <2> HIDE DEF zero
  <2> QED BY <1>1, <2>1, <2>2, FromOne
<1>4. CASE point_neg_assign(m)
  <2>1. Assign(Result(set_point(points, h, -x), h), Doc(m, 0, <<<<-1, m>>>>, FALSE))
    BY <1>1, <1>4 DEF point_neg_assign, native_point_neg
  <2>2. -x = (-1) * x
    BY <1>1
  <2> QED BY <1>1, <2>1, <2>2, OntoOne
<1>5. CASE point_compress(m)
  BY <1>5, SaveStep DEF point_compress, native_point_compress
<1>6. ASSUME NEW bytes \in Encodings, new_compressed_point_from_bytes(m, bytes) PROVE Simulated
  BY <1>6, SaveStep DEF new_compressed_point_from_bytes, native_point_is_canonical, encodes_a_point
<1>7. ASSUME NEW a \in Scalars, point_mul(n, m, a) PROVE Simulated
  <2>1. Fresh(n, safe_add_point(points, x * a), Doc(n, zero, <<<<a, m>>>>, TRUE))
    BY <1>1, <1>7 DEF point_mul, native_point_mul
  <2>2. x * a = zero + a * x /\ a \in Int
    BY <1>1
  <2> HIDE DEF zero
  <2> QED BY <1>1, <2>1, <2>2, FromOne
<1>8. ASSUME NEW a \in Scalars, point_mul_assign(m, a) PROVE Simulated
  <2>1. Assign(Result(set_point(points, h, x * a), h), Doc(m, 0, <<<<a, m>>>>, FALSE))
    BY <1>1, <1>8 DEF point_mul_assign, native_point_mul
  <2>2. x * a = a * x /\ a \in Int
    BY <1>1
  <2> QED BY <1>1, <2>1, <2>2, OntoOne
<1>9. ASSUME NEW a \in Scalars, NEW b \in Scalars, basepoint_double_mul(n, a, m, b) PROVE Simulated
  <2>1. Fresh(n, safe_add_point(points, a * x + b), Doc(n, b, <<<<a, m>>>>, TRUE))
    BY <1>1, <1>9 DEF basepoint_double_mul, native_basepoint_double_mul
  <2>2. a \in Int /\ b \in Int /\ a * x + b = b + a * x
    BY <1>1
  <2> QED BY <1>1, <2>1, <2>2, FromOne
<1> QED BY <1>2, <1>3, <1>4, <1>5, <1>6, <1>7, <1>8, <1>9 DEF Unary

\* and those that take two.
LEMMA BinaryStep ==
  ASSUME PointInv, status = "running", NEW n \in Names, NEW l \in Held, NEW m \in Held,
         Binary(n, l, m)
  PROVE  Simulated
<1> DEFINE x == get_point(points, handle[l])
           y == get_point(points, handle[m])
           g == handle[l]
           h == handle[m]
<1>1. /\ x \in Int /\ y \in Int /\ -1 \in Int /\ 1 \in Int
      /\ \A a \in Scalars : a \in Int
      /\ \A r : With(points, {g, h}, r) = r
      /\ x + y = 1 * x + 1 * y /\ x - y = 1 * x + (-1) * y
  <2>1. x \in Int /\ y \in Int
    BY HeldPoints, GroupFacts
  <2>2. \A r : With(points, {g, h}, r) = r
    <3>1. Has(points, g) /\ Has(points, h)
      BY HeldPoints
    <3> HIDE DEF g, h
    <3> QED BY <3>1 DEF With
  <2>3. \A a \in Scalars : a \in Int
    BY GroupFacts DEF Scalars
  <2> HIDE DEF x, y, g, h
  <2>4. x + y = 1 * x + 1 * y /\ x - y = 1 * x + (-1) * y
    BY <2>1
  <2> QED BY <2>1, <2>2, <2>3, <2>4
<1>2. \A r : l # m => get_two_muts(points, g, h, r) = r
  BY <1>1 DEF get_two_muts, PointInv, Held
<1>3. CASE point_add(n, l, m)
  <2>1. Fresh(n, safe_add_point(points, x + y), Doc(n, 0, <<<<1, l>>, <<1, m>>>>, TRUE))
    BY <1>1, <1>3 DEF point_add, native_point_add
  <2> QED BY <1>1, <2>1, FromTwo
<1>4. CASE point_sub(n, l, m)
  <2>1. Fresh(n, safe_add_point(points, x - y), Doc(n, 0, <<<<1, l>>, <<-1, m>>>>, TRUE))
    BY <1>1, <1>4 DEF point_sub, native_point_sub
  <2> QED BY <1>1, <2>1, FromTwo
<1>5. CASE point_add_assign(l, m)
  <2>1. Assign(Result(set_point(points, g, x + y), g), Doc(l, 0, <<<<1, l>>, <<1, m>>>>, FALSE))
    BY <1>2, <1>5 DEF point_add_assign, native_point_add
  <2> QED BY <1>1, <2>1, OntoTwo
<1>6. CASE point_sub_assign(l, m)
  <2>1. Assign(Result(set_point(points, g, x - y), g), Doc(l, 0, <<<<1, l>>, <<-1, m>>>>, FALSE))
    BY <1>2, <1>6 DEF point_sub_assign, native_point_sub
  <2> QED BY <1>1, <2>1, OntoTwo
<1>7. CASE point_equals(l, m)
  BY <1>7, CompareStep
<1>8. ASSUME NEW a \in Scalars, NEW b \in Scalars, double_scalar_mul(n, a, l, b, m) PROVE Simulated
  <2>1. Fresh(n, safe_add_point(points, a * x + b * y), Doc(n, 0, <<<<a, l>>, <<b, m>>>>, TRUE))
    BY <1>1, <1>8 DEF double_scalar_mul, native_double_scalar_mul
  <2> QED BY <1>1, <2>1, FromTwo
<1> QED BY <1>3, <1>4, <1>5, <1>6, <1>7, <1>8 DEF Binary

\* Every step keeps the invariant and is a step of the value semantics, or none.
LEMMA PointsStep ==
  ASSUME PointInv, [PointsNext]_point_vars
  PROVE  PointInv' /\ [AsValues!Next]_(AsValues!valueVars)
<1>1. CASE UNCHANGED point_vars
  BY <1>1 DEF point_vars, PointInv, IsHandle, AsValues!valueVars, ValueOf, Has, get_point
<1>2. CASE StartSession
  <2>1. PointInv'
    BY <1>2, PointsAssumption DEF StartSession, Clear, PointInv, Nobody, IsHandle
  <2>2. Seen' = AsValues!Nothing
    BY <1>2 DEF StartSession, Seen, ValueOf, Nobody, AsValues!Nothing
  <2>3. AsValues!Start
    BY <1>2, <2>2 DEF StartSession, Clear, AsValues!Start, Seen
  <2> QED BY <2>1, <2>3 DEF AsValues!Next
<1>3. CASE EndSession
  <2>1. PointInv' /\ AsValues!Finish
    BY <1>3, EndStep DEF EndSession
  <2> QED BY <2>1 DEF AsValues!Next
<1>4. ASSUME status = "running", NEW n \in Names,
             \/ Constructors(n) \/ Many(n)
             \/ \E m \in Held : Unary(n, m)
             \/ \E l, m \in Held : Binary(n, l, m)
      PROVE  Simulated
  BY <1>4, ConstructorsStep, UnaryStep, BinaryStep, MultiStep DEF Many
<1> QED BY <1>1, <1>2, <1>3, <1>4 DEF PointsNext, Simulated

\* The refinement, and the invariants of the points.
LEMMA PointsInvariance ==
  PointsSpec => ValueSemantics /\ [](PointsTypeOK /\ HandlesAreLiveAndUnique /\ GasIsDefined)
<1>1. PointsInit => PointInv
  BY PointsAssumption DEF PointsInit, PointInv, Nobody, IsHandle
<1>2. PointsInit => AsValues!Init
  <2>1. ASSUME PointsInit PROVE Seen = AsValues!Nothing
    BY <2>1 DEF PointsInit, Seen, ValueOf, Nobody, AsValues!Nothing
  <2> QED BY <2>1 DEF PointsInit, AsValues!Init, Seen
<1>3. PointInv /\ [PointsNext]_point_vars => PointInv' /\ [AsValues!Next]_(AsValues!valueVars)
  BY PointsStep
<1>4. PointInv => PointsTypeOK
  <2> SUFFICES ASSUME PointInv PROVE PointsTypeOK
    OBVIOUS
  <2>1. points \in SeqOf(Group, NumPointsLimit)
    <3>1. Len(points) \in 0 .. NumPointsLimit /\ points \in [1 .. Len(points) -> Group]
      BY PointsAssumption DEF PointInv
    <3> QED BY <3>1 DEF SeqOf
  <2>2. handle \in [Names -> 0 .. InvalidHandle \cup {Unset}]
    <3>1. \A n \in Names : handle[n] \in 0 .. InvalidHandle \cup {Unset}
      <4>1. Len(points) \in Nat /\ Len(points) <= NumPointsLimit /\ NumPointsLimit \in Nat
        BY PointsAssumption DEF PointInv
      <4>2. \A n \in Names : handle[n] = Unset \/ (handle[n] \in Nat /\ handle[n] < Len(points))
        BY DEF PointInv, IsHandle
      <4>3. \A h \in Nat : h < Len(points) => h \in 0 .. InvalidHandle
        BY <4>1 DEF InvalidHandle
      <4> QED BY <4>2, <4>3
    <3>2. handle = [n \in Names |-> handle[n]]
      BY DEF PointInv
    <3> QED BY <3>1, <3>2
  <2> QED BY <2>1, <2>2 DEF PointInv, PointsTypeOK, Encodings
<1>5. PointInv => HandlesAreLiveAndUnique
  BY DEF PointInv, HandlesAreLiveAndUnique, Held, Has, IsHandle
<1>6. PointInv => GasIsDefined
  <2>1. \A n \in 1 .. 40 : n \in Nat \ {0}
    OBVIOUS
  <2>2. PointInv => status # "panicked"
    BY DEF PointInv
  <2> QED BY <2>1, <2>2, LogarithmsBracket DEF GasIsDefined
<1>7. PointsSpec => []PointInv
  BY <1>1, <1>3, PTL DEF PointsSpec
<1>8. PointsSpec => AsValues!Values
  BY <1>1, <1>2, <1>3, PTL DEF PointsSpec, AsValues!Values
<1> QED BY <1>4, <1>5, <1>6, <1>7, <1>8, PTL DEF ValueSemantics

\* A script's points behave as values although they are handles into the store of the session, every
\* handle is live and no two variables share one, the gas of a multi-scalar product is defined, and
\* the scalars stay canonical and form a field (ristretto255_point.rs, ristretto255_scalar.rs).
THEOREM RistrettoCorrectness == PointsSpec /\ ScalarsSpec => PointsAndScalarsAreValues
BY PointsInvariance, ScalarsInvariance, PTL DEF PointsAndScalarsAreValues

-----------------------------------------------------------------------------
(* BLS signatures *)

GoodKeys == {KeyOf(s, 0) : s \in Signers}
KeyPoints == [of : [Signers -> Int], low : {0, 1}]
SignaturePoints == [of : [Signed -> Int], low : {0, 1}]
GoodSigs == SigBytes \ {Malformed}

\* Bytes that deserialize are points, and a key in the subgroup is a good one.
LEMMA Points ==
  /\ \A b \in KeyBytes : b # Malformed => b \in KeyPoints
  /\ \A b \in KeyBytes : b # Malformed /\ b.low = 0 => b \in GoodKeys
  /\ \A b \in GoodKeys : b \in KeyBytes /\ b \in KeyPoints /\ b # Malformed /\ b.low = 0
  /\ \A b \in GoodSigs : b \in SignaturePoints
<1>1. \A S : \A y : One(S, y) \in [S -> Int]
  BY DEF One
<1>2. \A s \in Signers : \A low \in {0, 1} : KeyOf(s, low) \in KeyPoints /\ KeyOf(s, low).low = low
  BY <1>1 DEF KeyOf, KeyPoints
<1>3. \A s \in Signers, m \in Messages, low \in {0, 1} : Signature(s, m, low) \in SignaturePoints
  BY <1>1 DEF Signature, SignaturePoints
<1>4. \A p \in KeyPoints : p # Malformed
  BY BlsAssumption DEF KeyPoints
<1> QED BY <1>2, <1>3, <1>4 DEF KeyBytes, SigBytes, GoodKeys, GoodSigs

\* The sum of a sequence of points is a point.
LEMMA SumIsAPoint ==
  ASSUME NEW S, NEW ps \in Seq([of : [S -> Int], low : {0, 1}])
  PROVE  /\ Sum(S, ps) \in [of : [S -> Int], low : {0, 1}]
         /\ IsFiniteSet(DOMAIN ps)
<1>1. /\ Len(ps) \in Nat /\ DOMAIN ps = 1 .. Len(ps)
      /\ \A i \in DOMAIN ps : ps[i].of \in [S -> Int] /\ ps[i].low \in {0, 1}
  <2> DEFINE R == [of : [S -> Int], low : {0, 1}]
  <2>1. \A r \in R : r.of \in [S -> Int] /\ r.low \in {0, 1}
    OBVIOUS
  <2>2. ps \in Seq(R)
    OBVIOUS
  <2> HIDE DEF R
  <2>3. Len(ps) \in Nat /\ DOMAIN ps = 1 .. Len(ps)
    BY <2>2
  <2>4. \A i \in 1 .. Len(ps) : ps[i] \in R
    BY <2>2
  <2> QED BY <2>1, <2>3, <2>4
<1>2. IsFiniteSet(DOMAIN ps)
  <2>1. IsFiniteSet(1 .. Len(ps))
    BY <1>1, FS_Interval
  <2> QED BY <1>1, <2>1
<1>3. ASSUME NEW f, DOMAIN f = DOMAIN ps, \A i \in DOMAIN ps : f[i] \in Int
      PROVE  SumFunction(f) \in Int
  BY <1>2, <1>3, SumInt DEF SumFunction
<1>4. \A x \in S : SumFunction([i \in DOMAIN ps |-> ps[i].of[x]]) \in Int
  BY <1>1, <1>3
<1>5. SumFunction([i \in DOMAIN ps |-> ps[i].low]) % 2 \in {0, 1}
  <2>1. SumFunction([i \in DOMAIN ps |-> ps[i].low]) \in Int
    <3>1. \A i \in DOMAIN ps : ps[i].low \in Int
      BY <1>1
    <3> DEFINE f == [i \in DOMAIN ps |-> ps[i].low]
    <3>2. DOMAIN f = DOMAIN ps /\ \A i \in DOMAIN ps : f[i] \in Int
      BY <3>1
    <3> HIDE DEF f
    <3>3. SumFunction(f) \in Int
      BY <1>3, <3>2
    <3> QED BY <3>3 DEF f
  <2> QED BY <2>1
<1> QED BY <1>2, <1>4, <1>5 DEF Sum

\* What is aggregated deserialized, every element of it.
LEMMA AggregatesAll ==
  ASSUME NEW S, NEW T, NEW bs \in Seq(T), NEW paid, NEW item,
         aggregate(S, bs, paid, item).value # Missing
  PROVE  /\ aggregate(S, bs, paid, item).value = Sum(S, bs)
         /\ \A i \in DOMAIN bs : bs[i] # Malformed
<1>1. Len(bs) \in Nat /\ DOMAIN bs = 1 .. Len(bs)
  OBVIOUS
<1>2. /\ Len(Deserialized(bs)) = Len(bs)
      /\ aggregate(S, bs, paid, item).value = Sum(S, bs)
  BY DEF aggregate, Paid
<1>3. \A i \in DOMAIN bs : bs[i] # Malformed
  <2> DEFINE I == {i \in 1 .. Len(bs) : bs[i] = Malformed}
  <2>1. SUFFICES ASSUME I # {} PROVE FALSE
    BY <1>1
  <2>2. Viable(bs) = Min(I)
    BY <2>1 DEF Viable, SelectInSeq
  <2>3. Min(I) \in I
    <3>1. I \subseteq Nat
      BY <1>1
    <3> HIDE DEF I
    <3> QED BY <2>1, <3>1, LeastNatural DEF Min
  <2>4. Viable(bs) \in 1 .. Len(bs)
    BY <2>2, <2>3
  <2>5. Len(Deserialized(bs)) = Viable(bs) - 1
    BY <1>1, <2>4 DEF Deserialized
  <2> QED BY <1>1, <1>2, <2>4, <2>5
<1> QED BY <1>2, <1>3

\* The aggregate of good keys is in the subgroup.
LEMMA SumOfGoodKeys ==
  ASSUME NEW ps \in Seq(GoodKeys)
  PROVE  /\ Sum(Signers, ps) \in KeyPoints
         /\ Sum(Signers, ps).low = 0
         /\ Sum(Signers, ps) # Malformed
<1>1. ps \in Seq(KeyPoints) /\ \A i \in DOMAIN ps : ps[i].low = 0
  BY Points
<1>2. Sum(Signers, ps) \in KeyPoints /\ IsFiniteSet(DOMAIN ps)
  BY <1>1, SumIsAPoint DEF KeyPoints
<1>3. SumFunction([i \in DOMAIN ps |-> ps[i].low]) = 0
  BY <1>1, <1>2, SumZeros
<1>4. Sum(Signers, ps).low = 0
  BY <1>3 DEF Sum
<1>5. Malformed \notin KeyPoints
  BY BlsAssumption DEF KeyPoints
<1> QED BY <1>2, <1>4, <1>5

\* One key that is the sum of the keys expects of a signature what the keys do together.
LEMMA ExpectedOfTheSum ==
  ASSUME NEW ps \in Seq(GoodKeys), NEW m
  PROVE  Expected(<<Sum(Signers, ps)>>, <<m>>) = Expected(ps, [i \in DOMAIN ps |-> m])
<1>1. ps \in Seq(KeyPoints) /\ IsFiniteSet(DOMAIN ps)
  <2>1. ps \in Seq(KeyPoints)
    BY Points
  <2> QED BY <2>1, SumIsAPoint DEF KeyPoints
<1> DEFINE K == Sum(Signers, ps)
           ms == [i \in DOMAIN ps |-> m]
<1>2. K \in KeyPoints
  BY SumOfGoodKeys
<1>3. ASSUME NEW x \in Signed
      PROVE  Expected(<<K>>, <<m>>)[x] = Expected(ps, ms)[x]
  <2> DEFINE one == [i \in DOMAIN <<K>> |-> IF <<m>>[i] = x[2] THEN <<K>>[i].of[x[1]] ELSE 0]
             all == [i \in DOMAIN ps |-> IF ms[i] = x[2] THEN ps[i].of[x[1]] ELSE 0]
  <2>1. Expected(<<K>>, <<m>>)[x] = SumFunction(one) /\ Expected(ps, ms)[x] = SumFunction(all)
    BY DEF Expected
  <2>2. x[1] \in Signers
    BY DEF Signed
  <2>3. CASE m = x[2]
    <3>1. all = [i \in DOMAIN ps |-> ps[i].of[x[1]]]
      BY <2>3
    <3>2. SumFunction(all) = K.of[x[1]]
      BY <2>2, <3>1 DEF Sum
    <3>3. DOMAIN one = {1} /\ one[1] = K.of[x[1]] /\ one[1] \in Int
      BY <1>2, <2>2, <2>3 DEF KeyPoints
    <3> HIDE DEF one
    <3>4. SumFunction(one) = one[1]
      BY <3>3, SumOne
    <3> QED BY <2>1, <3>2, <3>3, <3>4
  <2>4. CASE m # x[2]
    <3>1. DOMAIN one = {1} /\ one[1] = 0
      BY <2>4
    <3>2. DOMAIN all = DOMAIN ps /\ \A i \in DOMAIN ps : all[i] = 0
      BY <2>4
    <3> HIDE DEF one, all
    <3>3. SumFunction(one) = 0
      BY <3>1, SumOne
    <3>4. SumFunction(all) = 0
      BY <1>1, <3>2, SumZeros
    <3> QED BY <2>1, <3>3, <3>4
  <2> QED BY <2>3, <2>4
<1>4. Expected(<<K>>, <<m>>) = Expected(ps, ms)
  <2>1. \A pks, msgs : Expected(pks, msgs) = [x \in Signed |-> Expected(pks, msgs)[x]]
    BY DEF Expected
  <2> HIDE DEF K, ms
  <2> QED BY <1>3, <2>1
<1> QED BY <1>4

-----------------------------------------------------------------------------
(* What the Move types stand for: a PublicKey or a PublicKeyWithPoP is a good key, and an aggregate *)
(* is the sum of what it was made of.  A check, until what it was made on changes, says what the    *)
(* library does of the aggregates.                                                                  *)
AggregatesInv ==
  /\ aggkey # Missing => aggkey.of \in Seq(GoodKeys) /\ aggkey.bytes = Sum(Signers, aggkey.of)
  /\ aggsig # Missing => aggsig.of \in Seq(GoodSigs) /\ aggsig.bytes = Sum(Signed, aggsig.of)
MultiInv ==
  (result # Missing /\ result.fn = "multi") =>
     /\ aggkey # Missing /\ aggsig # Missing
     /\ result.value = native_verify_multisignature(aggsig.bytes, aggkey.bytes, result.msg).value
AggregateInv ==
  (result # Missing /\ result.fn = "aggregate") =>
     /\ aggsig # Missing /\ result.of \in Seq(GoodKeys)
     /\ result.value = native_verify_aggregate_signature(aggsig.bytes, result.of, result.msg).value
BlsInv ==
  /\ key \in GoodKeys \cup {Missing} /\ keys \in Seq(GoodKeys) /\ sigs \in Seq(SigBytes)
  /\ AggregatesInv /\ MultiInv /\ AggregateInv

\* Every call keeps the invariant.
LEMMA BlsStep == ASSUME BlsInv, [BlsNext]_bls_vars PROVE BlsInv'
<1> USE DEF BlsInv
<1>1. CASE UNCHANGED bls_vars
  BY <1>1 DEF bls_vars, AggregatesInv, MultiInv, AggregateInv
<1>2. ASSUME NEW b \in KeyBytes, public_key_from_bytes(b) PROVE BlsInv'
  <2>1. native_validate_pubkey(b).value => b \in GoodKeys
    BY Points DEF native_validate_pubkey, Paid, bls12381_pk_subgroub_check
  <2>2. key' \in GoodKeys \cup {Missing} /\ keys' \in Seq(GoodKeys) /\ sigs' \in Seq(SigBytes)
    BY <1>2, <2>1 DEF public_key_from_bytes
  <2>3. AggregatesInv'
    BY <1>2 DEF public_key_from_bytes, AggregatesInv
  <2>4. result'.fn = "validate"
    BY <1>2 DEF public_key_from_bytes, Check
  <2> QED BY <2>2, <2>3, <2>4 DEF MultiInv, AggregateInv
<1>3. ASSUME NEW b \in KeyBytes, NEW pop \in KeyBytes, public_key_from_bytes_with_pop(b, pop) PROVE BlsInv'
  <2>1. b \in GoodKeys
    BY <1>3, Points
    DEF public_key_from_bytes_with_pop, native_verify_proof_of_possession, Paid, LibraryPop
  <2>2. keys' \in Seq(GoodKeys)
    BY <1>3, <2>1 DEF public_key_from_bytes_with_pop
  <2> QED BY <1>3, <2>2 DEF public_key_from_bytes_with_pop, AggregatesInv, MultiInv, AggregateInv
<1>4. ASSUME NEW i \in DOMAIN keys, public_key_with_pop_to_normal(i) PROVE BlsInv'
  <2>1. keys[i] \in GoodKeys
    OBVIOUS
  <2> QED BY <1>4, <2>1 DEF public_key_with_pop_to_normal, AggregatesInv, MultiInv, AggregateInv
<1>5. ASSUME NEW b \in SigBytes, signature_from_bytes(b) PROVE BlsInv'
  <2>1. sigs' \in Seq(SigBytes)
    BY <1>5 DEF signature_from_bytes
  <2> QED BY <1>5, <2>1 DEF signature_from_bytes, AggregatesInv, MultiInv, AggregateInv
<1>6. ASSUME NEW b, signature_subgroup_check(b) PROVE BlsInv'
  <2>1. result'.fn = "subgroup"
    BY <1>6 DEF signature_subgroup_check, Check
  <2> QED BY <1>6, <2>1 DEF signature_subgroup_check, AggregatesInv, MultiInv, AggregateInv
<1>7. CASE aggregate_pubkeys
  <2> DEFINE r == native_aggregate_pubkeys(keys)
  <2>1. r.value = Sum(Signers, keys)
    BY <1>7, AggregatesAll DEF aggregate_pubkeys, native_aggregate_pubkeys
  <2>2. /\ aggkey' = [bytes |-> r.value, of |-> keys] /\ result' = Missing
        /\ UNCHANGED <<key, keys, sigs, aggsig>>
    BY <1>7 DEF aggregate_pubkeys
  <2> HIDE DEF r
  <2>3. AggregatesInv'
    BY <2>1, <2>2 DEF AggregatesInv
  <2> QED BY <2>2, <2>3 DEF MultiInv, AggregateInv
<1>8. CASE aggregate_signatures
  <2> DEFINE r == native_aggregate_signatures(sigs)
  <2>1. r.value = Sum(Signed, sigs) /\ \A i \in DOMAIN sigs : sigs[i] # Malformed
    BY <1>8, AggregatesAll DEF aggregate_signatures, native_aggregate_signatures
  <2>2. /\ aggsig' = [bytes |-> r.value, of |-> sigs] /\ result' = Missing
        /\ UNCHANGED <<key, keys, sigs, aggkey>>
    BY <1>8 DEF aggregate_signatures
  <2> HIDE DEF r
  <2>3. sigs \in Seq(GoodSigs)
    BY <2>1 DEF GoodSigs
  <2>4. AggregatesInv'
    BY <2>1, <2>2, <2>3 DEF AggregatesInv
  <2> QED BY <2>2, <2>4 DEF MultiInv, AggregateInv
<1>9. ASSUME NEW b, NEW m, verify_normal_signature(b, m) PROVE BlsInv'
  <2>1. result'.fn = "normal"
    BY <1>9 DEF verify_normal_signature, Check
  <2> QED BY <1>9, <2>1 DEF verify_normal_signature, AggregatesInv, MultiInv, AggregateInv
<1>10. ASSUME NEW b, NEW m, NEW i, verify_signature_share(b, i, m) PROVE BlsInv'
  <2>1. result'.fn = "share"
    BY <1>10 DEF verify_signature_share, Check
  <2> QED BY <1>10, <2>1 DEF verify_signature_share, AggregatesInv, MultiInv, AggregateInv
<1>11. ASSUME NEW m, verify_multisignature(m) PROVE BlsInv'
  <2>1. /\ result'.fn = "multi" /\ result'.msg = m /\ aggkey # Missing /\ aggsig # Missing
        /\ result'.value = native_verify_multisignature(aggsig.bytes, aggkey.bytes, m).value
        /\ UNCHANGED <<key, keys, sigs, aggkey, aggsig>>
    BY <1>11 DEF verify_multisignature, Check
  <2>2. MultiInv'
    BY <2>1 DEF MultiInv
  <2> QED BY <2>1, <2>2 DEF AggregatesInv, AggregateInv
<1>12. ASSUME NEW msgs, verify_aggregate_signature(msgs) PROVE BlsInv'
  <2>1. /\ result'.fn = "aggregate" /\ result'.msg = msgs /\ result'.of = keys /\ aggsig # Missing
        /\ result'.value = native_verify_aggregate_signature(aggsig.bytes, keys, msgs).value
        /\ UNCHANGED <<key, keys, sigs, aggkey, aggsig>>
    BY <1>12 DEF verify_aggregate_signature, Check
  <2>2. AggregateInv'
    BY <2>1 DEF AggregateInv
  <2> QED BY <2>1, <2>2 DEF AggregatesInv, MultiInv
<1> QED
  <2> HIDE DEF BlsInv
  <2> QED BY <1>1, <1>2, <1>3, <1>4, <1>5, <1>6, <1>7, <1>8, <1>9, <1>10, <1>11, <1>12 DEF BlsNext

\* A signature that is the sum of ss verifies under the keys ps when ss is what they make of the messages.
LEMMA VerifiesWhenMadeOf ==
  ASSUME NEW ss \in Seq(GoodSigs), NEW ps, NEW ms, NEW b, b = Sum(Signed, ss)
  PROVE  /\ b # Malformed
         /\ LibraryVerify(b, ps, ms) <=> MadeOf(ss, ps, ms)
<1>1. ss \in Seq(SignaturePoints) /\ Malformed \notin ToSet(ss)
  BY Points DEF GoodSigs, ToSet
<1>2. b \in SignaturePoints
  BY <1>1, SumIsAPoint DEF SignaturePoints
<1>3. b # Malformed
  BY <1>2, BlsAssumption DEF SignaturePoints
<1>4. LibraryVerify(b, ps, ms) <=> b = [of |-> Expected(ps, ms), low |-> 0]
  BY <1>2 DEF LibraryVerify, SignaturePoints
<1> QED BY <1>1, <1>3, <1>4 DEF MadeOf

\* The invariant says what AggregatesMeanEveryone does.
LEMMA BlsInvImplies == BlsInv => AggregatesMeanEveryone
<1> SUFFICES ASSUME BlsInv PROVE AggregatesMeanEveryone
  OBVIOUS
<1> USE DEF BlsInv
<1>1. \A i \in DOMAIN keys : keys[i] \in GoodKeys
  OBVIOUS
<1>2. BlsTypeOK
  <2>1. ToSet(sigs) \subseteq SigBytes
    BY DEF ToSet
  <2> QED BY <1>1, <2>1, Points DEF BlsTypeOK, ToSet
<1>3. KeysAreInTheSubgroup
  <2>1. aggkey # Missing => aggkey.bytes.low = 0
    BY SumOfGoodKeys DEF AggregatesInv
  <2> QED BY <1>1, <2>1, Points DEF KeysAreInTheSubgroup
<1>4. ASSUME result # Missing, result.fn = "multi"
      PROVE  result.value <=> MadeOf(aggsig.of, aggkey.of, [i \in DOMAIN aggkey.of |-> result.msg])
  <2> DEFINE ss == aggsig.of
             ps == aggkey.of
             b == aggsig.bytes
             K == aggkey.bytes
             m == result.msg
             ms == [i \in DOMAIN ps |-> m]
  <2>1. /\ result.value = native_verify_multisignature(b, K, m).value
        /\ ss \in Seq(GoodSigs) /\ b = Sum(Signed, ss)
        /\ ps \in Seq(GoodKeys) /\ K = Sum(Signers, ps)
    BY <1>4 DEF MultiInv, AggregatesInv
  <2> HIDE DEF ss, ps, b, K, m
  <2>2. K # Malformed /\ b # Malformed
    BY <2>1, SumOfGoodKeys, VerifiesWhenMadeOf
  <2>3. result.value = LibraryVerify(b, <<K>>, <<m>>)
    BY <2>1, <2>2 DEF native_verify_multisignature, bls12381_verify_signature_helper, Paid
  <2>4. Expected(<<K>>, <<m>>) = Expected(ps, ms)
    BY <2>1, ExpectedOfTheSum
  <2>5. LibraryVerify(b, <<K>>, <<m>>) <=> LibraryVerify(b, ps, ms)
    BY <2>4 DEF LibraryVerify
  <2> HIDE DEF ms
  <2>6. LibraryVerify(b, ps, ms) <=> MadeOf(ss, ps, ms)
    BY <2>1, VerifiesWhenMadeOf
  <2> QED BY <2>3, <2>5, <2>6 DEF ss, ps, m, ms
<1>5. ASSUME result # Missing, result.fn = "aggregate"
      PROVE  result.value <=> Len(result.of) = Len(result.msg) /\ MadeOf(aggsig.of, result.of, result.msg)
  <2> DEFINE ss == aggsig.of
             b == aggsig.bytes
             ps == result.of
             ms == result.msg
  <2>1. /\ result.value = native_verify_aggregate_signature(b, ps, ms).value
        /\ ss \in Seq(GoodSigs) /\ b = Sum(Signed, ss) /\ ps \in Seq(GoodKeys)
    BY <1>5 DEF AggregateInv, AggregatesInv
  <2> HIDE DEF ss, b, ps, ms
  <2>2. Malformed \notin ToSet(ps)
    BY <2>1, Points DEF ToSet
  <2>3. b # Malformed /\ (LibraryVerify(b, ps, ms) <=> MadeOf(ss, ps, ms))
    BY <2>1, VerifiesWhenMadeOf
  <2>4. result.value = IF Len(ps) # Len(ms) THEN FALSE ELSE LibraryVerify(b, ps, ms)
    BY <2>1, <2>2, <2>3 DEF native_verify_aggregate_signature, Paid
  <2> QED BY <2>3, <2>4 DEF ss, ps, ms
<1>6. VerifyingMeansEveryoneSigned
  BY <1>4, <1>5 DEF VerifyingMeansEveryoneSigned
<1> QED BY <1>2, <1>3, <1>6 DEF AggregatesMeanEveryone

\* A multi- or aggregate signature verifies exactly when each key signed, with multiplicity, although
\* two of the verifications leave the subgroup check of the key out (bls12381.rs).
THEOREM BlsCorrectness == BlsSpec => []AggregatesMeanEveryone
<1>1. BlsInit => BlsInv
  BY DEF BlsInit, BlsInv, AggregatesInv, MultiInv, AggregateInv
<1>2. BlsInv /\ [BlsNext]_bls_vars => BlsInv'
  BY BlsStep
<1> QED BY <1>1, <1>2, BlsInvImplies, PTL DEF BlsSpec

-----------------------------------------------------------------------------
(* The generic algebra.  Powers are recursive functions on Nat; the laws of  *)
(* exponents follow by InductiveSet.                                         *)

Moduli == {BlsR, BlsQ12, BnR, BnQ, BnQ12}
Below(m) == 0 .. (m - 1)

LEMMA ModuliFacts ==
  ASSUME NEW m \in Moduli
  PROVE  /\ m \in Nat \ {0} /\ m > 1 /\ 0 \in Below(m) /\ 1 \in Below(m) /\ 1 % m = 1
         /\ \A x \in 1 .. m - 1 : \E y \in 1 .. m - 1 : (x * y) % m = 1
<1>1. /\ m \in Nat /\ m > 1
      /\ \A x \in 1 .. m - 1 : \E y \in 1 .. m - 1 : (x * y) % m = 1
  BY AlgebraAssumption DEF Moduli
<1> QED BY <1>1, ModSame DEF Below

\* The recursion of Pow.
PowersOf(x, m) == CHOOSE p : p = [k \in Nat |-> IF k = 0 THEN 1 ELSE (p[k - 1] * x) % m]

LEMMA PowUnfolds ==
  ASSUME NEW m \in Moduli, NEW x \in Nat
  PROVE  /\ Pow(x, 0, m) = 1
         /\ \A n \in Nat : /\ Pow(x, n, m) \in Below(m)
                           /\ Pow(x, n + 1, m) = (Pow(x, n, m) * x) % m
<1> DEFINE prev == [n \in Nat |-> n - 1]
           step == [p \in Nat \X Nat |-> (p[2] * x) % m]
<1>1. step \in [Nat \X Nat -> Nat]
  <2>1. \A y \in Nat : y * x \in Nat /\ (y * x) % m \in Nat
    BY ModuliFacts, ModDivides
  <2> QED BY <2>1
<1>2. \A n \in Nat \ {0} : prev[n] \in Nat /\ prev[n] < n
  OBVIOUS
<1>3. PICK f : Recurs(f, Nat, 1, prev, step)
  BY <1>1, <1>2, RecursionExists DEF Descends
<1>4. f = [k \in Nat |-> IF k = 0 THEN 1 ELSE (f[k - 1] * x) % m]
  <2>1. f \in [Nat -> Nat]
    BY <1>3 DEF Recurs
  <2>2. \A k \in Nat : k # 0 => k - 1 \in Nat /\ step[<<k, f[k - 1]>>] = (f[k - 1] * x) % m
    BY <2>1
  <2>3. \A k \in Nat : f[k] = IF k = 0 THEN 1 ELSE (f[k - 1] * x) % m
    BY <1>3, <2>2 DEF Recurs
  <2> QED BY <2>1, <2>3
<1>5. PowersOf(x, m) = [k \in Nat |-> IF k = 0 THEN 1 ELSE (PowersOf(x, m)[k - 1] * x) % m]
  BY <1>4 DEF PowersOf
<1>6. \A n : Pow(x, n, m) = PowersOf(x, m)[n]
  BY DEF Pow, PowersOf
<1> HIDE DEF prev, step
<1>7. Pow(x, 0, m) = 1
  BY <1>5, <1>6
<1>8. \A n \in Nat : Pow(x, n + 1, m) = (Pow(x, n, m) * x) % m
  <2> TAKE n \in Nat
  <2>1. n + 1 \in Nat /\ n + 1 # 0 /\ (n + 1) - 1 = n
    OBVIOUS
  <2>2. PowersOf(x, m)[n + 1] = (PowersOf(x, m)[(n + 1) - 1] * x) % m
    BY <1>5, <2>1
  <2> QED BY <1>6, <2>1, <2>2
<1>9. \A n \in Nat : Pow(x, n, m) \in Below(m)
  <2> DEFINE Bad == {n \in Nat : Pow(x, n, m) \notin Below(m)}
  <2>1. SUFFICES ASSUME Bad # {} PROVE FALSE
    OBVIOUS
  <2>2. PICK n \in Bad : \A l \in Bad : n <= l
    BY <2>1, LeastNatural
  <2>3. n \in Nat \ {0}
    BY <1>7, <2>2, ModuliFacts
  <2>4. n - 1 \in Nat /\ n - 1 \notin Bad /\ (n - 1) + 1 = n
    BY <2>2, <2>3
  <2>5. Pow(x, n - 1, m) \in Below(m)
    BY <2>4
  <2>6. Pow(x, n, m) = (Pow(x, n - 1, m) * x) % m
    BY <1>8, <2>4
  <2>7. Pow(x, n - 1, m) * x \in Int
    BY <2>5, ModuliFacts DEF Below
  <2>8. (Pow(x, n - 1, m) * x) % m \in Below(m)
    BY <2>7, ModuliFacts, ModDivides DEF Below
  <2> QED BY <2>2, <2>6, <2>8
<1> QED BY <1>7, <1>8, <1>9

\* Induction, for a set of numbers.
LEMMA InductiveSet ==
  ASSUME NEW S, S \subseteq Nat, 0 \in S, \A n \in S : n + 1 \in S
  PROVE  \A n \in Nat : n \in S
<1> DEFINE Bad == Nat \ S
<1>1. SUFFICES ASSUME Bad # {} PROVE FALSE
  OBVIOUS
<1>2. PICK n \in Bad : \A l \in Bad : n <= l
  <2>1. Bad \subseteq Nat
    OBVIOUS
  <2> HIDE DEF Bad
  <2> QED BY <1>1, <2>1, LeastNatural
<1>3. n \in Nat \ {0}
  BY <1>2
<1>4. n - 1 \in Nat /\ n - 1 \notin Bad /\ (n - 1) + 1 = n
  BY <1>2, <1>3
<1> QED BY <1>2, <1>4

\* Both factors may be reduced first.
LEMMA ModTimesBoth ==
  ASSUME NEW n \in Nat \ {0}, NEW a \in Int, NEW b \in Int
  PROVE  /\ (a * (b % n)) % n = (a * b) % n
         /\ ((a % n) * (b % n)) % n = (a * b) % n
<1>1. a % n \in Int /\ b % n \in Int
  BY ModDivides
<1>2. a * (b % n) = (b % n) * a /\ b * a = a * b
  BY <1>1
<1>3. ((b % n) * a) % n = (b * a) % n
  BY ModTimes
<1>4. ((a % n) * (b % n)) % n = (a * (b % n)) % n
  BY <1>1, ModTimes
<1> QED BY <1>2, <1>3, <1>4

LEMMA PowInt ==
  ASSUME NEW m \in Moduli, NEW x \in Nat, NEW n \in Nat
  PROVE  Pow(x, n, m) \in Nat /\ Pow(x, n, m) \in Int /\ Pow(x, n, m) \in Below(m)
<1>1. Pow(x, n, m) \in Below(m)
  BY PowUnfolds
<1>2. \A y \in Below(m) : y \in Nat /\ y \in Int
  BY DEF Below
<1> QED BY <1>1, <1>2

LEMMA PowOfOne ==
  ASSUME NEW m \in Moduli, NEW n \in Nat
  PROVE  Pow(1, n, m) = 1
<1> DEFINE S == {k \in Nat : Pow(1, k, m) = 1}
<1>1. 0 \in S
  BY PowUnfolds
<1>2. \A k \in S : k + 1 \in S
  BY PowUnfolds, ModuliFacts
<1> HIDE DEF S
<1>3. S \subseteq Nat
  BY DEF S
<1>4. n \in S
  BY <1>1, <1>2, <1>3, InductiveSet
<1> QED BY <1>4 DEF S

LEMMA PowFirst ==
  ASSUME NEW m \in Moduli, NEW x \in Below(m)
  PROVE  Pow(x, 1, m) = x
<1>1. x \in Nat /\ m \in Nat \ {0}
  BY ModuliFacts DEF Below
<1>2. Pow(x, 0 + 1, m) = (1 * x) % m
  BY <1>1, PowUnfolds
<1>3. 1 * x = x /\ x % m = x
  BY <1>1, ModSame DEF Below
<1> QED BY <1>2, <1>3

\* Four factors, reduced in pairs, in another order.
LEMMA ModSwap ==
  ASSUME NEW n \in Nat \ {0}, NEW a \in Int, NEW b \in Int, NEW x \in Int, NEW y \in Int
  PROVE  (((a * b) % n) * ((x * y) % n)) % n = (((a * x) % n) * ((b * y) % n)) % n
<1>1. a * b \in Int /\ x * y \in Int /\ a * x \in Int /\ b * y \in Int
  OBVIOUS
<1>2. (((a * b) % n) * ((x * y) % n)) % n = ((a * b) * (x * y)) % n
  BY <1>1, ModTimesBoth
<1>3. (((a * x) % n) * ((b * y) % n)) % n = ((a * x) * (b * y)) % n
  BY <1>1, ModTimesBoth
<1>4. (a * b) * (x * y) = (a * x) * (b * y)
  OBVIOUS
<1> QED BY <1>2, <1>3, <1>4

\* The power of a product.
LEMMA PowOfProduct ==
  ASSUME NEW m \in Moduli, NEW x \in Nat, NEW y \in Nat, NEW n \in Nat
  PROVE  Pow((x * y) % m, n, m) = (Pow(x, n, m) * Pow(y, n, m)) % m
<1> DEFINE z == (x * y) % m
           S == {k \in Nat : Pow(z, k, m) = (Pow(x, k, m) * Pow(y, k, m)) % m}
<1>1. z \in Nat /\ m \in Nat \ {0}
  <2>1. x * y \in Nat
    OBVIOUS
  <2> QED BY <2>1, ModuliFacts, ModDivides
<1>2. 0 \in S
  <2>1. Pow(z, 0, m) = 1 /\ Pow(x, 0, m) = 1 /\ Pow(y, 0, m) = 1
    BY <1>1, PowUnfolds
  <2>2. (1 * 1) % m = 1
    BY ModuliFacts
  <2> QED BY <2>1, <2>2
<1>3. ASSUME NEW k \in S PROVE k + 1 \in S
  <2>1. k \in Nat /\ k + 1 \in Nat /\ Pow(z, k, m) = (Pow(x, k, m) * Pow(y, k, m)) % m
    OBVIOUS
  <2>2. Pow(x, k, m) \in Int /\ Pow(y, k, m) \in Int
    BY <2>1, PowInt
  <2>3. /\ Pow(z, k + 1, m) = (Pow(z, k, m) * z) % m
        /\ Pow(x, k + 1, m) = (Pow(x, k, m) * x) % m
        /\ Pow(y, k + 1, m) = (Pow(y, k, m) * y) % m
    BY <1>1, <2>1, PowUnfolds
  <2>4. (((Pow(x, k, m) * Pow(y, k, m)) % m) * ((x * y) % m)) % m
          = (((Pow(x, k, m) * x) % m) * ((Pow(y, k, m) * y) % m)) % m
    BY <1>1, <2>2, ModSwap
  <2> QED BY <2>1, <2>3, <2>4
<1> HIDE DEF S
<1>4. S \subseteq Nat
  BY DEF S
<1>5. n \in S
  BY <1>2, <1>3, <1>4, InductiveSet
<1> QED BY <1>5 DEF S

\* Exponents are added
LEMMA PowOfSum ==
  ASSUME NEW m \in Moduli, NEW x \in Nat, NEW k \in Nat, NEW n \in Nat
  PROVE  Pow(x, k + n, m) = (Pow(x, k, m) * Pow(x, n, m)) % m
<1> DEFINE S == {l \in Nat : Pow(x, k + l, m) = (Pow(x, k, m) * Pow(x, l, m)) % m}
<1>1. m \in Nat \ {0} /\ Pow(x, k, m) \in Below(m) /\ Pow(x, k, m) \in Int
  BY ModuliFacts, PowInt
<1>2. 0 \in S
  <2>1. Pow(x, 0, m) = 1 /\ k + 0 = k /\ Pow(x, k, m) * 1 = Pow(x, k, m)
    BY <1>1, PowUnfolds
  <2>2. Pow(x, k, m) % m = Pow(x, k, m)
    BY <1>1, ModSame DEF Below
  <2> QED BY <2>1, <2>2
<1>3. ASSUME NEW l \in S PROVE l + 1 \in S
  <2>1. l \in Nat /\ l + 1 \in Nat /\ k + (l + 1) = (k + l) + 1 /\ k + l \in Nat
        /\ Pow(x, k + l, m) = (Pow(x, k, m) * Pow(x, l, m)) % m
    OBVIOUS
  <2>2. Pow(x, l, m) \in Int
    BY <2>1, PowInt
  <2>3. /\ Pow(x, (k + l) + 1, m) = (Pow(x, k + l, m) * x) % m
        /\ Pow(x, l + 1, m) = (Pow(x, l, m) * x) % m
    BY <2>1, PowUnfolds
  <2> DEFINE a == Pow(x, k, m)
             b == Pow(x, l, m)
  <2> HIDE DEF a, b
  <2>4. a \in Int /\ b \in Int /\ x \in Int /\ a * b \in Int /\ b * x \in Int /\ (a * b) * x = a * (b * x)
    BY <1>1, <2>2 DEF a, b
  <2>5. (((a * b) % m) * x) % m = ((a * b) * x) % m
    BY <1>1, <2>4, ModTimes
  <2>6. (a * ((b * x) % m)) % m = (a * (b * x)) % m
    BY <1>1, <2>4, ModTimesBoth
  <2>7. (((a * b) % m) * x) % m = (a * ((b * x) % m)) % m
    BY <2>4, <2>5, <2>6
  <2>8. Pow(x, k + (l + 1), m) = (Pow(x, k, m) * Pow(x, l + 1, m)) % m
    BY <2>1, <2>3, <2>7 DEF a, b
  <2> QED BY <2>1, <2>8
<1> HIDE DEF S
<1>4. S \subseteq Nat
  BY DEF S
<1>5. n \in S
  BY <1>2, <1>3, <1>4, InductiveSet
<1> QED BY <1>5 DEF S

\* and multiplied,
LEMMA PowOfPow ==
  ASSUME NEW m \in Moduli, NEW x \in Nat, NEW k \in Nat, NEW n \in Nat
  PROVE  Pow(Pow(x, k, m), n, m) = Pow(x, k * n, m)
<1> DEFINE S == {l \in Nat : Pow(Pow(x, k, m), l, m) = Pow(x, k * l, m)}
<1>1. Pow(x, k, m) \in Nat
  BY PowInt
<1>2. 0 \in S
  <2>1. k * 0 = 0
    OBVIOUS
  <2> QED BY <1>1, <2>1, PowUnfolds
<1>3. ASSUME NEW l \in S PROVE l + 1 \in S
  <2>1. l \in Nat /\ Pow(Pow(x, k, m), l, m) = Pow(x, k * l, m)
    OBVIOUS
  <2>2. k * (l + 1) = (k * l) + k /\ k * l \in Nat
    BY <2>1
  <2>3. Pow(Pow(x, k, m), l + 1, m) = (Pow(Pow(x, k, m), l, m) * Pow(x, k, m)) % m
    BY <1>1, <2>1, PowUnfolds
  <2>4. Pow(x, (k * l) + k, m) = (Pow(x, k * l, m) * Pow(x, k, m)) % m
    BY <2>2, PowOfSum
  <2> QED BY <2>1, <2>2, <2>3, <2>4
<1> HIDE DEF S
<1>4. S \subseteq Nat
  BY DEF S
<1>5. n \in S
  BY <1>2, <1>3, <1>4, InductiveSet
<1> QED BY <1>5 DEF S

\* and reduced by the order of an element.
LEMMA PowPeriod ==
  ASSUME NEW m \in Moduli, NEW x \in Nat, NEW r \in Nat \ {0}, Pow(x, r, m) = 1, NEW n \in Nat
  PROVE  Pow(x, n % r, m) = Pow(x, n, m)
<1> DEFINE q == n \div r
           t == n % r
<1>1. q \in Nat /\ t \in Nat /\ n = (r * q) + t
  <2>1. q \in Int /\ t \in 0 .. (r - 1) /\ n = (r * q) + t
    BY ModDivides
  <2>2. q >= 0
    OBVIOUS
  <2> QED BY <2>1, <2>2
<1> HIDE DEF q, t
<1>2. r * q \in Nat
  BY <1>1
<1>3. Pow(x, r * q, m) = 1
  <2>1. Pow(x, r * q, m) = Pow(Pow(x, r, m), q, m)
    BY <1>1, PowOfPow
  <2> QED BY <1>1, <2>1, PowOfOne
<1>4. Pow(x, n, m) = (Pow(x, r * q, m) * Pow(x, t, m)) % m
  BY <1>1, <1>2, PowOfSum
<1>5. Pow(x, t, m) \in Below(m) /\ Pow(x, t, m) \in Int /\ m \in Nat \ {0}
  BY <1>1, PowInt, ModuliFacts
<1>6. 1 * Pow(x, t, m) = Pow(x, t, m) /\ Pow(x, t, m) % m = Pow(x, t, m)
  BY <1>5, ModSame DEF Below
<1>7. Pow(x, n, m) = Pow(x, t, m)
  BY <1>3, <1>4, <1>6
<1> QED BY <1>7 DEF t

-----------------------------------------------------------------------------
(* The structures: what the natives compute of elements is an element.       *)

\* The values an element of a structure may have.
Carrier(s) == {v \in Below(Modulus(RustType(s))) : Name(s) = "Gt" => InSubgroup(Curve(s), v)}

LEMMA CurveFacts ==
  ASSUME NEW c \in Curves
  PROVE  /\ GroupOrder(c) \in Moduli /\ Q12(c) \in Moduli
         /\ GroupOrder(c) \in Nat \ {0} /\ GroupOrder(c) > 1 /\ Q12(c) \in Nat \ {0} /\ Q12(c) > 1
<1>1. GroupOrder(c) \in Moduli /\ Q12(c) \in Moduli
  BY DEF Curves, GroupOrder, Q12, Moduli
<1> QED BY <1>1, ModuliFacts

LEMMA StructureFacts ==
  ASSUME NEW s \in Structure
  PROVE  /\ Curve(s) \in Curves /\ Modulus(RustType(s)) \in Moduli
         /\ Name(s) = "Gt" => RustType(s) = <<Curve(s), "Fq12">> /\ Modulus(RustType(s)) = Q12(Curve(s))
         /\ Name(s) \in {"G1", "G2"} => Modulus(RustType(s)) = GroupOrder(Curve(s))
         /\ Name(s) # "Gt" => RustType(s) = s
         /\ IsField(s) => Name(s) # "Gt" /\ ~IsGroup(s)
         /\ IsGroup(s) => Name(s) \in {"G1", "G2", "Gt"}
         /\ RustType(s) \in Curves \X {"Fr", "Fq", "Fq12", "G1", "G2"}
         /\ s \in Curves \X {"Fr", "Fq", "Fq12", "G1", "G2", "Gt"}
BY DEF Structure, Curve, Name, Curves, Modulus, RustType, GroupOrder, Q12, Moduli, IsField, IsGroup

LEMMA ReciprocalWorks ==
  ASSUME NEW m \in Moduli, NEW x \in 1 .. m - 1
  PROVE  Reciprocal(x, m) \in 1 .. m - 1 /\ (x * Reciprocal(x, m)) % m = 1
<1>1. \E y \in 1 .. m - 1 : (x * y) % m = 1
  BY ModuliFacts
<1> QED BY <1>1 DEF Reciprocal

LEMMA GeneratorFacts ==
  ASSUME NEW c \in Curves
  PROVE  GtGenerator(c) \in 2 .. Q12(c) - 1 /\ InSubgroup(c, GtGenerator(c))
<1>1. \E g \in 2 .. Q12(c) - 1 : InSubgroup(c, g)
  BY AlgebraAssumption
<1> QED BY <1>1 DEF GtGenerator

\* The elements of order r are a group,
LEMMA SubgroupIsAGroup ==
  ASSUME NEW c \in Curves
  PROVE  /\ 1 \in Below(Q12(c)) /\ InSubgroup(c, 1)
         /\ \A v, w \in Below(Q12(c)) : InSubgroup(c, v) /\ InSubgroup(c, w) =>
              (v * w) % Q12(c) \in Below(Q12(c)) /\ InSubgroup(c, (v * w) % Q12(c))
         /\ \A v \in Below(Q12(c)), n \in Nat : InSubgroup(c, v) =>
              Pow(v, n, Q12(c)) \in Below(Q12(c)) /\ InSubgroup(c, Pow(v, n, Q12(c)))
<1> DEFINE q == Q12(c)
           r == GroupOrder(c)
<1>1. q \in Moduli /\ q \in Nat \ {0} /\ r \in Nat
  BY CurveFacts
<1>2. InSubgroup(c, 1) /\ 1 \in Below(q)
  BY <1>1, PowOfOne, ModuliFacts DEF InSubgroup
<1>3. ASSUME NEW v \in Below(q), NEW w \in Below(q), InSubgroup(c, v), InSubgroup(c, w)
      PROVE  (v * w) % q \in Below(q) /\ InSubgroup(c, (v * w) % q)
  <2>1. v \in Nat /\ w \in Nat /\ v * w \in Int
    BY DEF Below
  <2>2. Pow((v * w) % q, r, q) = (Pow(v, r, q) * Pow(w, r, q)) % q
    BY <1>1, <2>1, PowOfProduct
  <2>3. (1 * 1) % q = 1
    BY <1>1, ModuliFacts
  <2>4. (v * w) % q \in Below(q)
    BY <1>1, <2>1, ModDivides DEF Below
  <2> QED BY <1>3, <2>2, <2>3, <2>4 DEF InSubgroup
<1>4. ASSUME NEW v \in Below(q), NEW n \in Nat, InSubgroup(c, v)
      PROVE  Pow(v, n, q) \in Below(q) /\ InSubgroup(c, Pow(v, n, q))
  <2>1. v \in Nat
    BY DEF Below
  <2>2. Pow(Pow(v, n, q), r, q) = Pow(v, n * r, q)
    BY <1>1, <2>1, PowOfPow
  <2>3. Pow(Pow(v, r, q), n, q) = Pow(v, r * n, q)
    BY <1>1, <2>1, PowOfPow
  <2>4. n * r = r * n
    BY <1>1
  <2>5. Pow(Pow(v, r, q), n, q) = 1
    BY <1>1, <1>4, PowOfOne DEF InSubgroup
  <2>6. Pow(v, n, q) \in Below(q)
    BY <1>1, <2>1, PowInt
  <2> QED BY <2>2, <2>3, <2>4, <2>5, <2>6 DEF InSubgroup
<1> QED BY <1>2, <1>3, <1>4

\* whose inverses exist and are in it.
LEMMA SubgroupInverses ==
  ASSUME NEW c \in Curves, NEW v \in Below(Q12(c)), InSubgroup(c, v)
  PROVE  /\ v \in 1 .. Q12(c) - 1
         /\ Reciprocal(v, Q12(c)) \in Below(Q12(c)) /\ InSubgroup(c, Reciprocal(v, Q12(c)))
         /\ (v * Reciprocal(v, Q12(c))) % Q12(c) = 1
<1> DEFINE q == Q12(c)
           r == GroupOrder(c)
           y == Reciprocal(v, q)
<1>1. q \in Moduli /\ q \in Nat \ {0} /\ r \in Nat \ {0} /\ v \in Nat
  BY CurveFacts DEF Below
<1>2. v # 0
  <2>1. SUFFICES ASSUME v = 0 PROVE FALSE
    OBVIOUS
  <2>2. r - 1 \in Nat /\ (r - 1) + 1 = r
    BY <1>1
  <2>3. Pow(v, r, q) = (Pow(v, r - 1, q) * v) % q
    BY <1>1, <2>2, PowUnfolds
  <2>4. Pow(v, r - 1, q) \in Int
    BY <1>1, <2>2, PowInt
  <2>5. Pow(v, r - 1, q) * v = 0
    BY <2>1, <2>4
  <2>6. 0 % q = 0
    BY <1>1
  <2> QED BY <2>3, <2>5, <2>6 DEF InSubgroup
<1>3. v \in 1 .. q - 1
  BY <1>1, <1>2 DEF Below
<1>4. y \in 1 .. q - 1 /\ (v * y) % q = 1
  BY <1>1, <1>3, ReciprocalWorks
<1> HIDE DEF y
<1>5. y \in Below(q) /\ y \in Nat
  BY <1>1, <1>4 DEF Below
<1>6. Pow((v * y) % q, r, q) = (Pow(v, r, q) * Pow(y, r, q)) % q
  BY <1>1, <1>5, PowOfProduct
<1>7. Pow((v * y) % q, r, q) = 1
  BY <1>1, <1>4, PowOfOne
<1>8. Pow(y, r, q) \in Below(q) /\ Pow(y, r, q) \in Int
  BY <1>1, <1>5, PowInt
<1>9. 1 * Pow(y, r, q) = Pow(y, r, q) /\ Pow(y, r, q) % q = Pow(y, r, q)
  BY <1>1, <1>8, ModSame DEF Below
<1>10. Pow(y, r, q) = 1
  BY <1>6, <1>7, <1>9 DEF InSubgroup
<1> QED BY <1>3, <1>4, <1>5, <1>10 DEF InSubgroup, y

LEMMA CarrierFacts ==
  ASSUME NEW s \in Structure
  PROVE  /\ Modulus(RustType(s)) \in Nat \ {0} /\ Modulus(RustType(s)) > 1
         /\ Carrier(s) \subseteq Below(Modulus(RustType(s))) /\ Carrier(s) \subseteq Nat
         /\ Name(s) # "Gt" => Carrier(s) = Below(Modulus(RustType(s)))
         /\ Name(s) = "Gt" => /\ Modulus(RustType(s)) = Q12(Curve(s))
                              /\ \A v : v \in Carrier(s) <=> v \in Below(Q12(Curve(s))) /\ InSubgroup(Curve(s), v)
<1>1. Modulus(RustType(s)) \in Nat \ {0} /\ Modulus(RustType(s)) > 1
  BY StructureFacts, ModuliFacts
<1> QED BY <1>1, StructureFacts DEF Carrier, Below

\* Reduced by the modulus, a number is an element of whatever is not Gt.
LEMMA Reduced ==
  ASSUME NEW s \in Structure, Name(s) # "Gt", NEW n \in Int
  PROVE  n % Modulus(RustType(s)) \in Carrier(s)
<1>1. Modulus(RustType(s)) \in Nat \ {0}
  BY CarrierFacts
<1>2. n % Modulus(RustType(s)) \in Below(Modulus(RustType(s)))
  BY <1>1, ModDivides DEF Below
<1> QED BY <1>2, CarrierFacts

\* The sums of elements are elements.
LEMMA SumsAreElements ==
  ASSUME NEW s \in Structure, NEW v \in Carrier(s), NEW w \in Carrier(s)
  PROVE  /\ AddValues(s, v, w) \in Carrier(s) /\ SubValues(s, v, w) \in Carrier(s)
         /\ NegValue(s, v) \in Carrier(s) /\ DoubleValue(s, v) \in Carrier(s)
<1> DEFINE m == Modulus(RustType(s))
<1>1. v \in Int /\ w \in Int
  BY CarrierFacts
<1>2. CASE Name(s) # "Gt"
  <2>1. v + w \in Int /\ v - w \in Int /\ -v \in Int /\ v + v \in Int
    BY <1>1
  <2>2. /\ (v + w) % m \in Carrier(s) /\ (v - w) % m \in Carrier(s)
        /\ (-v) % m \in Carrier(s) /\ (v + v) % m \in Carrier(s)
    BY <1>2, <2>1, Reduced
  <2> QED BY <1>2, <2>2 DEF AddValues, SubValues, NegValue, DoubleValue
<1>3. CASE Name(s) = "Gt"
  <2> DEFINE c == Curve(s)
  <2>1. c \in Curves /\ m = Q12(c) /\ \A x : x \in Carrier(s) <=> x \in Below(Q12(c)) /\ InSubgroup(c, x)
    BY <1>3, StructureFacts, CarrierFacts
  <2>2. \A x, y \in Carrier(s) : (x * y) % m \in Carrier(s)
    BY <2>1, SubgroupIsAGroup
  <2>3. \A x \in Carrier(s) : Reciprocal(x, m) \in Carrier(s)
    BY <2>1, SubgroupInverses
  <2>4. AddValues(s, v, w) \in Carrier(s) /\ DoubleValue(s, v) \in Carrier(s)
    BY <1>3, <2>2 DEF AddValues, DoubleValue
  <2>5. NegValue(s, v) \in Carrier(s)
    BY <1>3, <2>3 DEF NegValue
  <2>6. SubValues(s, v, w) \in Carrier(s)
    BY <1>3, <2>2, <2>3 DEF SubValues, DivValues
  <2> QED BY <2>4, <2>5, <2>6
<1> QED BY <1>2, <1>3

\* So are the products and the quotients of a field's.
LEMMA ProductsAreElements ==
  ASSUME NEW s \in Structure, IsField(s), NEW v \in Carrier(s), NEW w \in Carrier(s)
  PROVE  /\ MulValues(s, v, w) \in Carrier(s) /\ SqrValue(s, v) \in Carrier(s)
         /\ w # 0 => DivValues(s, v, w) \in Carrier(s) /\ InvValue(s, w) \in Carrier(s)
<1> DEFINE m == Modulus(RustType(s))
<1>1. /\ v \in Int /\ w \in Int /\ w \in Below(m) /\ Name(s) # "Gt" /\ m \in Nat \ {0} /\ m \in Moduli
      /\ Carrier(s) = Below(m)
  BY CarrierFacts, StructureFacts
<1>2. MulValues(s, v, w) \in Carrier(s) /\ SqrValue(s, v) \in Carrier(s)
  <2>1. v * w \in Int /\ v * v \in Int
    BY <1>1
  <2> QED BY <1>1, <2>1, Reduced DEF MulValues, SqrValue
<1>3. ASSUME w # 0 PROVE DivValues(s, v, w) \in Carrier(s) /\ InvValue(s, w) \in Carrier(s)
  <2>1. w \in 1 .. m - 1
    BY <1>1, <1>3 DEF Below
  <2>2. Reciprocal(w, m) \in 1 .. m - 1
    BY <1>1, <2>1, ReciprocalWorks
  <2>3. Reciprocal(w, m) \in Below(m) /\ Reciprocal(w, m) \in Int
    BY <1>1, <2>2 DEF Below
  <2>4. v * Reciprocal(w, m) \in Int
    BY <1>1, <2>3
  <2> QED BY <1>1, <2>3, <2>4, Reduced DEF DivValues, InvValue
<1> QED BY <1>2, <1>3

\* The neutral element, the generator and the scalar multiples are elements.
LEMMA ConstantsAreElements ==
  ASSUME NEW s \in Structure
  PROVE  ZeroValue(s) \in Carrier(s) /\ OneValue(s) \in Carrier(s)
<1>1. CASE Name(s) # "Gt"
  <2>1. 0 \in Carrier(s) /\ 1 \in Carrier(s)
    BY <1>1, CarrierFacts DEF Below
  <2> QED BY <1>1, <2>1 DEF ZeroValue, OneValue
<1>2. CASE Name(s) = "Gt"
  <2> DEFINE c == Curve(s)
  <2>1. c \in Curves /\ \A x : x \in Carrier(s) <=> x \in Below(Q12(c)) /\ InSubgroup(c, x)
    BY <1>2, StructureFacts, CarrierFacts
  <2>2. 1 \in Carrier(s)
    BY <2>1, SubgroupIsAGroup
  <2>3. GtGenerator(c) \in Carrier(s)
    <3>1. GtGenerator(c) \in Below(Q12(c))
      BY <2>1, GeneratorFacts, CurveFacts DEF Below
    <3> QED BY <2>1, <3>1, GeneratorFacts
  <2> QED BY <1>2, <2>2, <2>3 DEF ZeroValue, OneValue
<1> QED BY <1>1, <1>2

LEMMA MultiplesAreElements ==
  ASSUME NEW s \in Structure, NEW v \in Carrier(s), NEW k \in Nat
  PROVE  ScalarMulValue(s, v, k) \in Carrier(s)
<1>1. v \in Int
  BY CarrierFacts
<1>2. CASE Name(s) # "Gt"
  <2>1. v * k \in Int
    BY <1>1
  <2> QED BY <1>2, <2>1, Reduced DEF ScalarMulValue
<1>3. CASE Name(s) = "Gt"
  BY <1>3, StructureFacts, CarrierFacts, SubgroupIsAGroup DEF ScalarMulValue
<1> QED BY <1>2, <1>3

LEMMA MultiMultiplesAreElements ==
  ASSUME NEW s \in Structure, Name(s) # "Gt", NEW n \in Nat,
         NEW values \in [1 .. n -> Nat], NEW scalars \in [1 .. n -> Nat]
  PROVE  MultiScalarMulValue(s, values, scalars) \in Carrier(s)
<1> DEFINE f == [i \in DOMAIN values |-> values[i] * scalars[i]]
<1>1. DOMAIN f = 1 .. n /\ \A i \in 1 .. n : f[i] \in Int
  OBVIOUS
<1>2. IsFiniteSet(1 .. n)
  BY FS_Interval
<1> HIDE DEF f
<1>3. SumFunction(f) \in Int
  BY <1>1, <1>2, SumInt DEF SumFunction
<1> QED BY <1>3, Reduced DEF MultiScalarMulValue, f

-----------------------------------------------------------------------------
\* A pairing is an element of Gt,
LEMMA PairingsAreElements ==
  ASSUME NEW c \in Curves, NEW v \in Nat, NEW w \in Nat
  PROVE  PairingValue(c, v, w) \in Below(Q12(c)) /\ InSubgroup(c, PairingValue(c, v, w))
<1>1. GtGenerator(c) \in Below(Q12(c)) /\ InSubgroup(c, GtGenerator(c))
  BY GeneratorFacts, CurveFacts DEF Below
<1>2. v * w \in Nat
  OBVIOUS
<1> QED BY <1>1, <1>2, SubgroupIsAGroup DEF PairingValue

\* and so is the product of several, which the recursion builds up from the first.
Products(c, values, others) ==
  CHOOSE p : p = [n \in 0 .. Len(values) |->
                    IF n = 0 THEN 1 ELSE (p[n - 1] * PairingValue(c, values[n], others[n])) % Q12(c)]

LEMMA ProductsUnfold ==
  ASSUME NEW c \in Curves, NEW n \in Nat, NEW values \in [1 .. n -> Nat], NEW others \in [1 .. n -> Nat]
  PROVE  /\ MultiPairingValue(c, values, others) = Products(c, values, others)[n]
         /\ Products(c, values, others)[0] = 1
         /\ \A k \in 1 .. n : Products(c, values, others)[k]
              = (Products(c, values, others)[k - 1] * PairingValue(c, values[k], others[k])) % Q12(c)
<1> DEFINE q == Q12(c)
           factor(k) == PairingValue(c, values[k], others[k])
           prev == [k \in Nat |-> k - 1]
           step == [p \in Nat \X Nat |-> IF p[1] \in 1 .. n THEN (p[2] * factor(p[1])) % q ELSE 0]
<1>1. ASSUME NEW k \in 1 .. n PROVE factor(k) \in Nat
  <2>1. values[k] \in Nat /\ others[k] \in Nat
    OBVIOUS
  <2>2. factor(k) \in Below(Q12(c))
    BY <2>1, PairingsAreElements
  <2> QED BY <2>2 DEF Below
<1> HIDE DEF factor
<1>2. step \in [Nat \X Nat -> Nat]
  <2>1. \A k \in 1 .. n, y \in Nat : (y * factor(k)) % q \in Nat
    <3> TAKE k \in 1 .. n, y \in Nat
    <3>1. y * factor(k) \in Int /\ q \in Nat \ {0}
      <4>1. factor(k) \in Nat
        BY <1>1
      <4> QED BY <4>1, CurveFacts
    <3>2. (y * factor(k)) % q \in 0 .. (q - 1)
      BY <3>1, ModDivides
    <3> QED BY <3>2
  <2> QED BY <2>1
<1>3. \A k \in Nat \ {0} : prev[k] \in Nat /\ prev[k] < k
  OBVIOUS
<1>4. PICK f : Recurs(f, 0 .. n, 1, prev, step)
  BY <1>2, <1>3, RecursionUpTo DEF Descends
<1>5. Len(values) = n
  OBVIOUS
<1>6. f = [k \in 0 .. n |-> IF k = 0 THEN 1 ELSE (f[k - 1] * factor(k)) % q]
  <2>1. f \in [0 .. n -> Nat]
    BY <1>4 DEF Recurs
  <2>2. ASSUME NEW k \in 0 .. n, k # 0
        PROVE  step[<<k, f[prev[k]]>>] = (f[k - 1] * factor(k)) % q
    <3>1. k - 1 \in 0 .. n /\ k \in Nat /\ k \in 1 .. n /\ prev[k] = k - 1
      BY <2>2
    <3>2. f[k - 1] \in Nat
      BY <2>1, <3>1
    <3> QED BY <3>1, <3>2
  <2>3. \A k \in 0 .. n : f[k] = IF k = 0 THEN 1 ELSE (f[k - 1] * factor(k)) % q
    BY <1>4, <2>2 DEF Recurs
  <2> QED BY <2>1, <2>3
<1> DEFINE P == Products(c, values, others)
<1>7. P = [k \in 0 .. n |-> IF k = 0 THEN 1 ELSE (P[k - 1] * factor(k)) % q]
  BY <1>5, <1>6 DEF Products, factor
<1>8. MultiPairingValue(c, values, others) = P[n]
  BY <1>5 DEF MultiPairingValue, Products
<1> HIDE DEF P, prev, step
<1>9. P[0] = 1 /\ \A k \in 1 .. n : P[k] = (P[k - 1] * factor(k)) % q
  BY <1>7
<1> QED BY <1>8, <1>9 DEF P, factor

LEMMA MultiPairingsAreElements ==
  ASSUME NEW c \in Curves, NEW n \in Nat, NEW values \in [1 .. n -> Nat], NEW others \in [1 .. n -> Nat]
  PROVE  /\ MultiPairingValue(c, values, others) \in Below(Q12(c))
         /\ InSubgroup(c, MultiPairingValue(c, values, others))
<1> DEFINE P == Products(c, values, others)
           Gt == {v \in Below(Q12(c)) : InSubgroup(c, v)}
           S == {k \in Nat : k <= n => P[k] \in Gt}
<1>1. 0 \in S
  <2>1. P[0] = 1
    BY ProductsUnfold
  <2>2. 1 \in Gt
    BY SubgroupIsAGroup
  <2> HIDE DEF P, Gt
  <2> QED BY <2>1, <2>2
<1>2. ASSUME NEW k \in S PROVE k + 1 \in S
  <2>1. SUFFICES ASSUME k + 1 <= n PROVE P[k + 1] \in Gt
    OBVIOUS
  <2>2. k + 1 \in 1 .. n /\ (k + 1) - 1 = k /\ P[k] \in Gt
    BY <2>1
  <2>3. P[k + 1] = (P[k] * PairingValue(c, values[k + 1], others[k + 1])) % Q12(c)
    <3>1. P[k + 1] = (P[(k + 1) - 1] * PairingValue(c, values[k + 1], others[k + 1])) % Q12(c)
      BY <2>2, ProductsUnfold
    <3> QED BY <2>2, <3>1
  <2>4. PairingValue(c, values[k + 1], others[k + 1]) \in Gt
    BY <2>2, PairingsAreElements
  <2> HIDE DEF P
  <2> QED BY <2>2, <2>3, <2>4, SubgroupIsAGroup
<1> HIDE DEF S
<1>3. S \subseteq Nat
  BY DEF S
<1>4. n \in S
  BY <1>1, <1>2, <1>3, InductiveSet
<1>5. P[n] \in Gt
  BY <1>4 DEF S
<1> QED BY <1>5, ProductsUnfold

-----------------------------------------------------------------------------
(* Addition *)

\* Zero is neutral, and what sub and neg give undoes add.
LEMMA AdditionHasInverses ==
  ASSUME NEW s \in Structure, NEW v \in Carrier(s), NEW w \in Carrier(s)
  PROVE  /\ AddValues(s, v, ZeroValue(s)) = v
         /\ AddValues(s, SubValues(s, v, w), w) = v
         /\ AddValues(s, NegValue(s, v), v) = ZeroValue(s)
<1> DEFINE m == Modulus(RustType(s))
<1>1. m \in Nat \ {0} /\ v \in Below(m) /\ w \in Below(m) /\ v \in Int /\ w \in Int /\ v % m = v
  BY CarrierFacts, ModSame DEF Below
<1>2. CASE Name(s) # "Gt"
  <2>1. (v + 0) % m = v
    BY <1>1
  <2>2. (((v - w) % m) + w) % m = v
    <3>1. v - w \in Int /\ (v - w) + w = v
      BY <1>1
    <3>2. (((v - w) % m) + w) % m = ((v - w) + w) % m
      BY <1>1, <3>1, ModPlus
    <3> QED BY <1>1, <3>1, <3>2
  <2>3. (((-v) % m) + v) % m = 0
    <3>1. -v \in Int /\ (-v) + v = 0 /\ 0 % m = 0
      BY <1>1
    <3>2. (((-v) % m) + v) % m = ((-v) + v) % m
      BY <1>1, <3>1, ModPlus
    <3> QED BY <3>1, <3>2
  <2> QED BY <1>2, <2>1, <2>2, <2>3 DEF AddValues, SubValues, NegValue, ZeroValue
<1>3. CASE Name(s) = "Gt"
  <2> DEFINE c == Curve(s)
             iv == Reciprocal(v, m)
             iw == Reciprocal(w, m)
  <2>1. c \in Curves /\ m = Q12(c) /\ InSubgroup(c, v) /\ InSubgroup(c, w)
    BY <1>3, StructureFacts, CarrierFacts
  <2>2. iv \in Below(m) /\ iw \in Below(m) /\ (v * iv) % m = 1 /\ (w * iw) % m = 1
    BY <1>1, <2>1, SubgroupInverses
  <2> HIDE DEF iv, iw
  <2>3. iv \in Int /\ iw \in Int
    BY <2>2 DEF Below
  <2>4. (v * 1) % m = v
    BY <1>1
  <2>5. (((v * iw) % m) * w) % m = v
    <3>1. v * iw \in Int /\ w * iw \in Int /\ (v * iw) * w = v * (w * iw)
      BY <1>1, <2>3
    <3>2. (((v * iw) % m) * w) % m = ((v * iw) * w) % m
      BY <1>1, <3>1, ModTimes
    <3>3. (v * ((w * iw) % m)) % m = (v * (w * iw)) % m
      BY <1>1, <3>1, ModTimesBoth
    <3>4. (v * ((w * iw) % m)) % m = v
      BY <2>2, <2>4
    <3> QED BY <3>1, <3>2, <3>3, <3>4
  <2>6. (iv * v) % m = 1
    <3>1. iv * v = v * iv
      BY <1>1, <2>3
    <3> QED BY <2>2, <3>1
  <2>7. AddValues(s, v, ZeroValue(s)) = v
    BY <1>3, <2>4 DEF AddValues, ZeroValue
  <2>8. AddValues(s, SubValues(s, v, w), w) = v
    BY <1>3, <2>5 DEF AddValues, SubValues, DivValues, iw
  <2>9. AddValues(s, NegValue(s, v), v) = ZeroValue(s)
    BY <1>3, <2>6 DEF AddValues, NegValue, ZeroValue, iv
  <2> QED BY <2>7, <2>8, <2>9
<1> QED BY <1>2, <1>3

\* Adding an element once more is the next scalar multiple.
LEMMA MultiplesStep ==
  ASSUME NEW s \in Structure, NEW v \in Carrier(s)
  PROVE  /\ ScalarMulValue(s, v, 0) = ZeroValue(s)
         /\ \A n \in Nat : ScalarMulValue(s, v, n + 1) = AddValues(s, ScalarMulValue(s, v, n), v)
<1> DEFINE m == Modulus(RustType(s))
<1>1. m \in Nat \ {0} /\ v \in Nat /\ m \in Moduli
  BY CarrierFacts, StructureFacts
<1>2. CASE Name(s) # "Gt"
  <2>1. (v * 0) % m = 0
    BY <1>1
  <2>2. ASSUME NEW n \in Nat PROVE (v * (n + 1)) % m = (((v * n) % m) + v) % m
    <3>1. v * (n + 1) = (v * n) + v /\ v * n \in Int /\ v \in Int
      BY <1>1
    <3>2. (((v * n) % m) + v) % m = ((v * n) + v) % m
      BY <1>1, <3>1, ModPlus
    <3> QED BY <3>1, <3>2
  <2> QED BY <1>2, <2>1, <2>2 DEF ScalarMulValue, ZeroValue, AddValues
<1>3. CASE Name(s) = "Gt"
  BY <1>1, <1>3, PowUnfolds DEF ScalarMulValue, ZeroValue, AddValues
<1> QED BY <1>2, <1>3

\* The sums v + ... + v are the scalar multiples of v.
Multiples(s, v) == CHOOSE f : f = [n \in Nat |-> IF n = 0 THEN ZeroValue(s) ELSE AddValues(s, f[n - 1], v)]

LEMMA MultiplesAreScalarMultiples ==
  ASSUME NEW s \in Structure, NEW v \in Carrier(s), NEW n \in Nat
  PROVE  Multiples(s, v)[n] = ScalarMulValue(s, v, n)
<1> DEFINE f == Multiples(s, v)
           g == [k \in Nat |-> ScalarMulValue(s, v, k)]
<1>1. ASSUME NEW k \in Nat
      PROVE  ScalarMulValue(s, v, k) = IF k = 0 THEN ZeroValue(s) ELSE AddValues(s, g[k - 1], v)
  <2>1. CASE k = 0
    BY <2>1, MultiplesStep
  <2>2. CASE k # 0
    <3>1. k - 1 \in Nat /\ (k - 1) + 1 = k
      BY <2>2
    <3>2. ScalarMulValue(s, v, (k - 1) + 1) = AddValues(s, ScalarMulValue(s, v, k - 1), v)
      BY <3>1, MultiplesStep
    <3> QED BY <2>2, <3>1, <3>2
  <2> QED BY <2>1, <2>2
<1>2. g = [k \in Nat |-> IF k = 0 THEN ZeroValue(s) ELSE AddValues(s, g[k - 1], v)]
  BY <1>1
<1>3. f = [k \in Nat |-> IF k = 0 THEN ZeroValue(s) ELSE AddValues(s, f[k - 1], v)]
  BY <1>2 DEF Multiples
<1> HIDE DEF f, g
<1> DEFINE S == {k \in Nat : f[k] = ScalarMulValue(s, v, k)}
<1>4. 0 \in S
  BY <1>3, MultiplesStep
<1>5. ASSUME NEW k \in S PROVE k + 1 \in S
  <2>1. k \in Nat /\ k + 1 \in Nat /\ k + 1 # 0 /\ (k + 1) - 1 = k /\ f[k] = ScalarMulValue(s, v, k)
    OBVIOUS
  <2>2. f[k + 1] = AddValues(s, f[(k + 1) - 1], v)
    BY <1>3, <2>1
  <2>3. ScalarMulValue(s, v, k + 1) = AddValues(s, ScalarMulValue(s, v, k), v)
    BY <2>1, MultiplesStep
  <2> QED BY <2>1, <2>2, <2>3
<1> HIDE DEF S
<1>6. S \subseteq Nat
  BY DEF S
<1>7. n \in S
  BY <1>4, <1>5, <1>6, InductiveSet
<1> QED BY <1>7 DEF S, f

\* The generator of Gt has the order r: r is a prime, so a smaller power that is 1 would make the
\* generator a power of 1.
LEMMA GeneratorOrder ==
  ASSUME NEW c \in Curves, NEW n \in 1 .. GroupOrder(c) - 1
  PROVE  Pow(GtGenerator(c), n, Q12(c)) # 1
<1> DEFINE q == Q12(c)
           r == GroupOrder(c)
           g == GtGenerator(c)
<1>1. /\ q \in Moduli /\ r \in Moduli /\ q \in Nat \ {0} /\ r \in Nat \ {0} /\ g \in Nat /\ g # 1 /\ g \in Below(q)
      /\ Pow(g, r, q) = 1
  BY CurveFacts, GeneratorFacts DEF InSubgroup, Below
<1> HIDE DEF q, r, g
<1>2. SUFFICES ASSUME Pow(g, n, q) = 1 PROVE FALSE
  BY DEF q, g
<1>3. PICK i \in 1 .. r - 1 : (n * i) % r = 1
  BY <1>1, ModuliFacts DEF r
<1>4. n \in Nat /\ i \in Nat /\ n * i \in Nat
  BY <1>1 DEF r
<1>5. Pow(Pow(g, n, q), i, q) = Pow(g, n * i, q)
  BY <1>1, <1>4, PowOfPow
<1>6. Pow(g, (n * i) % r, q) = Pow(g, n * i, q)
  BY <1>1, <1>4, PowPeriod
<1>7. Pow(g, 1, q) = g
  BY <1>1, PowFirst
<1>8. Pow(1, i, q) = 1
  BY <1>1, <1>4, PowOfOne
<1> QED BY <1>1, <1>2, <1>3, <1>5, <1>6, <1>7, <1>8

\* An element added to itself as often as its structure has elements is zero, a generator no
\* less often.
LEMMA OrderIsTheOrder ==
  ASSUME NEW s \in Structure, NEW v \in Carrier(s)
  PROVE  /\ OrderOf(s) \in Nat \ {0}
         /\ ScalarMulValue(s, v, OrderOf(s)) = ZeroValue(s)
         /\ \A n \in 1 .. OrderOf(s) - 1 :
              IsGroup(s) /\ v = OneValue(s) => ScalarMulValue(s, v, n) # ZeroValue(s)
<1> DEFINE m == Modulus(RustType(s))
<1>1. m \in Nat \ {0} /\ v \in Nat
  BY CarrierFacts
<1>2. CASE Name(s) # "Gt"
  <2>1. (v * m) % m = 0
    <3>1. v * m = 0 + (m * v) /\ 0 % m = 0
      BY <1>1
    <3>2. (0 + (m * v)) % m = 0 % m
      BY <1>1, ModShift
    <3> QED BY <3>1, <3>2
  <2>2. \A n \in 1 .. m - 1 : (1 * n) % m # 0
    <3> TAKE n \in 1 .. m - 1
    <3>1. n \in 0 .. (m - 1) /\ 1 * n = n /\ n # 0
      BY <1>1
    <3> QED BY <1>1, <3>1, ModSame
  <2> QED BY <1>1, <1>2, <2>1, <2>2 DEF OrderOf, ScalarMulValue, ZeroValue, OneValue
<1>3. CASE Name(s) = "Gt"
  <2>1. Curve(s) \in Curves /\ m = Q12(Curve(s)) /\ InSubgroup(Curve(s), v) /\ OrderOf(s) = GroupOrder(Curve(s))
    BY <1>3, StructureFacts, CarrierFacts DEF OrderOf
  <2> QED BY <1>3, <2>1, CurveFacts, GeneratorOrder DEF ScalarMulValue, ZeroValue, OneValue, InSubgroup
<1> QED BY <1>2, <1>3

-----------------------------------------------------------------------------
(* The pairing *)

\* It takes the generators to the generator and is linear in the first argument, also as the
\* product of two.
LEMMA PairingsAreBilinear ==
  ASSUME NEW c \in Curves, NEW x \in Below(GroupOrder(c)), NEW v \in Below(GroupOrder(c)),
         NEW y \in Below(GroupOrder(c)), NEW k \in Nat
  PROVE  LET r == GroupOrder(c)
         IN  /\ PairingValue(c, 1, 1) = GtGenerator(c)
             /\ MultiPairingValue(c, <<x, v>>, <<y, y>>) = PairingValue(c, (x + v) % r, y)
             /\ PairingValue(c, (x * k) % r, y) = Pow(PairingValue(c, x, y), k, Q12(c))
<1> DEFINE q == Q12(c)
           r == GroupOrder(c)
           g == GtGenerator(c)
<1>1. /\ q \in Moduli /\ q \in Nat \ {0} /\ r \in Nat \ {0}
      /\ g \in Nat /\ g \in Below(q) /\ Pow(g, r, q) = 1
      /\ x \in Nat /\ v \in Nat /\ y \in Nat
  BY CurveFacts, GeneratorFacts DEF InSubgroup, Below
<1>2. \A a, b : PairingValue(c, a, b) = Pow(g, a * b, q)
  BY DEF PairingValue
<1> HIDE DEF q, r, g
<1>3. \A n \in Nat : Pow(g, n % r, q) = Pow(g, n, q)
  BY <1>1, PowPeriod
\* An exponent may be reduced before it is multiplied.
<1>4. ASSUME NEW a \in Nat, NEW b \in Nat
      PROVE  Pow(g, (a % r) * b, q) = Pow(g, a * b, q)
  <2>1. a % r \in Nat /\ a * b \in Nat
    BY <1>1, ModDivides
  <2>2. (a % r) * b \in Nat
    BY <2>1
  <2>3. ((a % r) * b) % r = (a * b) % r
    <3>1. a \in Int /\ b \in Int
      OBVIOUS
    <3> QED BY <1>1, <3>1, ModTimes
  <2> QED BY <1>3, <2>1, <2>2, <2>3
<1>5. PairingValue(c, 1, 1) = g
  <2>1. 1 * 1 = 1
    OBVIOUS
  <2> QED BY <1>1, <1>2, <2>1, PowFirst
<1>6. MultiPairingValue(c, <<x, v>>, <<y, y>>) = PairingValue(c, (x + v) % r, y)
  <2> DEFINE xs == <<x, v>>
             ys == <<y, y>>
             P == Products(c, xs, ys)
  <2>1. xs \in [1 .. 2 -> Nat] /\ ys \in [1 .. 2 -> Nat] /\ 2 \in Nat
    BY <1>1
  <2> HIDE DEF xs, ys
  <2>2. /\ MultiPairingValue(c, xs, ys) = P[2] /\ P[0] = 1
        /\ \A n \in 1 .. 2 : P[n] = (P[n - 1] * PairingValue(c, xs[n], ys[n])) % q
    BY <2>1, ProductsUnfold DEF q
  <2> HIDE DEF P
  <2>3. P[1] = (P[0] * PairingValue(c, x, y)) % q /\ P[2] = (P[1] * PairingValue(c, v, y)) % q
    <3>1. 1 \in 1 .. 2 /\ 2 \in 1 .. 2 /\ 1 - 1 = 0 /\ 2 - 1 = 1
      OBVIOUS
    <3>2. /\ P[1] = (P[1 - 1] * PairingValue(c, xs[1], ys[1])) % q
          /\ P[2] = (P[2 - 1] * PairingValue(c, xs[2], ys[2])) % q
      BY <2>2, <3>1
    <3>3. xs[1] = x /\ xs[2] = v /\ ys[1] = y /\ ys[2] = y
      BY DEF xs, ys
    <3> QED BY <3>1, <3>2, <3>3
  <2>4. x * y \in Nat /\ v * y \in Nat /\ (x + v) * y = (x * y) + (v * y) /\ x + v \in Nat
    BY <1>1
  <2>5. Pow(g, x * y, q) \in Below(q) /\ Pow(g, x * y, q) \in Int
    BY <1>1, <2>4, PowInt
  <2>6. P[1] = Pow(g, x * y, q)
    <3>1. 1 * Pow(g, x * y, q) = Pow(g, x * y, q)
      BY <2>5
    <3>2. Pow(g, x * y, q) % q = Pow(g, x * y, q)
      BY <1>1, <2>5, ModSame DEF Below
    <3> QED BY <1>2, <2>2, <2>3, <3>1, <3>2
  <2>7. P[2] = Pow(g, (x * y) + (v * y), q)
    BY <1>1, <1>2, <2>3, <2>4, <2>6, PowOfSum
  <2>8. PairingValue(c, (x + v) % r, y) = Pow(g, (x + v) * y, q)
    <3>1. Pow(g, ((x + v) % r) * y, q) = Pow(g, (x + v) * y, q)
      BY <1>1, <1>4, <2>4
    <3> QED BY <1>2, <3>1
  <2> QED BY <2>2, <2>4, <2>7, <2>8 DEF xs, ys
<1>7. PairingValue(c, (x * k) % r, y) = Pow(PairingValue(c, x, y), k, q)
  <2>1. x * k \in Nat /\ x * y \in Nat /\ (x * k) * y = (x * y) * k
    BY <1>1
  <2>2. PairingValue(c, (x * k) % r, y) = Pow(g, (x * k) * y, q)
    <3>1. Pow(g, ((x * k) % r) * y, q) = Pow(g, (x * k) * y, q)
      BY <1>1, <1>4, <2>1
    <3> QED BY <1>2, <3>1
  <2>3. Pow(Pow(g, x * y, q), k, q) = Pow(g, (x * y) * k, q)
    BY <1>1, <2>1, PowOfPow
  <2> QED BY <1>2, <2>1, <2>2, <2>3
<1> QED BY <1>5, <1>6, <1>7 DEF q, r, g

-----------------------------------------------------------------------------
(* Encodings *)

\* What serialize writes in a format has its length and is read as the one element.
LEMMA EncodingsAreRead ==
  ASSUME NEW s \in Structure, NEW format \in Formats(s), NEW v \in Carrier(s)
  PROVE  /\ Len(SerializeValue(s, format, v)) = EncodedLength(s, format)
         /\ DeserializeValues(s, format, SerializeValue(s, format, v)) = {v}
<1> DEFINE m == Modulus(RustType(s))
           buf(w) == Encode(format, w)
           bytes == SerializeValue(s, format, v)
<1>1. format \in {"Lsb", "Msb", "Uncompr", "Compr", "LscLsb"}
  BY DEF Formats
<1>2. \A w : Len(buf(w)) = Len(buf(0))
  BY <1>1 DEF Encode
<1>3. \A w \in 0 .. (m - 1) : buf(w) = buf(v) => w = v
  BY <1>1 DEF Encode
<1>4. \A a, b : Reverse(<<a, b>>) = <<b, a>>
  BY DEF Reverse
<1>5. format = "Msb" => Reverse(Reverse(buf(v))) = buf(v) /\ Len(Reverse(buf(v))) = Len(buf(v))
  <2>1. format = "Msb" => buf(v) = <<v, 0>>
    BY DEF Encode
  <2> QED BY <1>4, <2>1
<1> HIDE DEF buf
<1>6. (IF format = "Msb" THEN Reverse(bytes) ELSE bytes) = buf(v)
  BY <1>5 DEF SerializeValue, buf
<1>7. Len(bytes) = EncodedLength(s, format)
  <2>1. Len(bytes) = Len(buf(v))
    BY <1>5 DEF SerializeValue, buf
  <2>2. EncodedLength(s, format) = Len(buf(0))
    BY DEF EncodedLength, buf
  <2> QED BY <1>2, <2>1, <2>2
<1>8. v \in 0 .. (m - 1) /\ (Name(s) = "Gt" => InSubgroup(Curve(s), v))
  BY DEF Carrier, Below
<1> HIDE DEF bytes
<1>9. DeserializeValues(s, format, bytes)
        = {w \in 0 .. (m - 1) : buf(w) = buf(v) /\ (Name(s) = "Gt" => InSubgroup(Curve(s), w))}
  BY <1>6, <1>7 DEF DeserializeValues, buf
<1>10. DeserializeValues(s, format, bytes) = {v}
  BY <1>3, <1>8, <1>9
<1> QED BY <1>7, <1>10 DEF bytes

-----------------------------------------------------------------------------
(* Sessions.  The invariant says of every element that its value is one of   *)
(* its structure's, not only of the Rust type the session knows; downcast    *)
(* and upcast need it, for they give one handle two structures.              *)

RustTypes == Curves \X {"Fr", "Fq", "Fq12", "G1", "G2"}
Objects == [type : RustTypes, value : Nat]
Taken(seq) == SumFunction([i \in DOMAIN seq |-> SizeOfVal(seq[i].type)])

IsElement(e) == /\ e \in [structure : Structure, handle : Nat]
                /\ e.handle < Len(objs)
                /\ objs[e.handle + 1].type = RustType(e.structure)
                /\ Value(e) \in Carrier(e.structure)

AlgebraInv ==
  /\ enabled \subseteq Curves /\ running \in BOOLEAN
  /\ objs \in Seq(Objects)
  /\ \A i \in DOMAIN objs : objs[i].value \in 0 .. Modulus(objs[i].type) - 1
  /\ \A e \in elements : IsElement(e)
  /\ bytes_used \in Nat /\ bytes_used = Taken(objs) /\ bytes_used <= MemoryLimit

\* Memory grows by the size of the object that is stored.
LEMMA TakenGrows ==
  ASSUME NEW seq \in Seq(Objects), NEW obj \in Objects
  PROVE  Taken(Append(seq, obj)) = SizeOfVal(obj.type) + Taken(seq) /\ Taken(<<>>) = 0
<1> DEFINE n == Len(seq)
           f == [i \in DOMAIN seq |-> SizeOfVal(seq[i].type)]
           more == Append(seq, obj)
           g == [i \in DOMAIN more |-> SizeOfVal(more[i].type)]
<1>1. /\ n \in Nat /\ DOMAIN f = 1 .. n /\ DOMAIN g = 1 .. (n + 1)
      /\ \A i \in 1 .. n : g[i] = f[i]
      /\ g[n + 1] = SizeOfVal(obj.type)
  OBVIOUS
<1>2. \A i \in 1 .. (n + 1) : g[i] \in Int
  BY DEF SizeOfVal
<1> HIDE DEF n, f, g
<1>3. IsFiniteSet(1 .. n) /\ n + 1 \notin 1 .. n /\ (1 .. n) \cup {n + 1} = 1 .. (n + 1)
  <2>1. n \in Nat
    BY <1>1
  <2>2. IsFiniteSet(1 .. n)
    BY <2>1, FS_Interval
  <2>3. n + 1 \notin 1 .. n /\ (1 .. n) \cup {n + 1} = 1 .. (n + 1)
    BY <2>1
  <2> QED BY <2>2, <2>3
<1>4. SumFunctionOnSet(g, (1 .. n) \cup {n + 1}) = g[n + 1] + SumFunctionOnSet(g, 1 .. n)
  BY <1>2, <1>3, SumAdd
<1>5. SumFunctionOnSet(g, 1 .. n) = SumFunctionOnSet(f, 1 .. n)
  BY <1>1, <1>3, SumSame
<1>6. Taken(more) = SumFunctionOnSet(g, 1 .. (n + 1)) /\ Taken(seq) = SumFunctionOnSet(f, 1 .. n)
  BY <1>1 DEF Taken, SumFunction, f, g
<1>7. Taken(<<>>) = 0
  <2> DEFINE none == [i \in DOMAIN <<>> |-> SizeOfVal(<<>>[i].type)]
  <2>1. DOMAIN none = {}
    OBVIOUS
  <2> QED BY <2>1, SumEmpty DEF Taken, SumFunction
<1> QED BY <1>1, <1>3, <1>4, <1>5, <1>6, <1>7

\* A stored element has the next handle and its structure's Rust type.
LEMMA StoreKeepsInv ==
  ASSUME AlgebraInv, NEW s \in Structure, NEW v \in Carrier(s), StoreElement(s, v)
  PROVE  AlgebraInv'
<1> DEFINE new_size == bytes_used + SizeOfVal(RustType(s))
           obj == [type |-> RustType(s), value |-> v]
<1>1. CASE new_size > MemoryLimit
  BY <1>1 DEF StoreElement, Abort, AlgebraInv, Taken
<1>2. CASE ~(new_size > MemoryLimit)
  <2>1. /\ objs' = Append(objs, obj) /\ bytes_used' = new_size
        /\ elements' = elements \cup {[structure |-> s, handle |-> Len(objs)]}
        /\ enabled' = enabled /\ running' = running
    BY <1>2 DEF StoreElement
  <2>2. obj \in Objects /\ v \in 0 .. Modulus(RustType(s)) - 1
    BY StructureFacts, CarrierFacts DEF Objects, RustTypes, Below
  <2>3. /\ objs \in Seq(Objects) /\ Len(objs) \in Nat /\ objs' \in Seq(Objects) /\ Len(objs') = Len(objs) + 1
        /\ \A i \in 1 .. Len(objs) : objs'[i] = objs[i]
        /\ objs'[Len(objs) + 1] = obj
    BY <2>1, <2>2 DEF AlgebraInv
  <2>4. \A i \in DOMAIN objs' : objs'[i].value \in 0 .. Modulus(objs'[i].type) - 1
    <3> TAKE i \in DOMAIN objs'
    <3>1. i \in 1 .. Len(objs) \/ i = Len(objs) + 1
      BY <2>3
    <3> QED BY <2>2, <2>3, <3>1 DEF AlgebraInv
  <2>5. ASSUME NEW e \in elements PROVE IsElement(e)'
    <3>1. IsElement(e) /\ e.handle + 1 \in 1 .. Len(objs)
      BY <2>3 DEF AlgebraInv, IsElement
    <3> QED BY <2>3, <3>1 DEF IsElement, Value
  <2>6. ASSUME NEW e, e = [structure |-> s, handle |-> Len(objs)] PROVE IsElement(e)'
    <3>1. /\ e \in [structure : Structure, handle : Nat] /\ e.structure = s
          /\ e.handle = Len(objs) /\ e.handle < Len(objs') /\ objs'[e.handle + 1] = obj
      BY <2>3, <2>6
    <3> HIDE DEF obj
    <3>2. obj.type = RustType(s) /\ obj.value = v
      BY DEF obj
    <3> QED BY <3>1, <3>2 DEF IsElement, Value
  <2>7. \A e \in elements' : IsElement(e)'
    <3> TAKE e \in elements'
    <3>1. e \in elements \/ e = [structure |-> s, handle |-> Len(objs)]
      BY <2>1
    <3> QED BY <2>5, <2>6, <3>1
  <2>8. SizeOfVal(RustType(s)) \in Nat /\ new_size \in Nat /\ new_size <= MemoryLimit
    BY <1>2, AlgebraAssumption DEF AlgebraInv, SizeOfVal
  <2>9. bytes_used' = Taken(objs')
    BY <2>1, <2>2, <2>3, <2>8, TakenGrows DEF AlgebraInv
  <2> QED BY <2>1, <2>3, <2>4, <2>7, <2>8, <2>9 DEF AlgebraInv
<1> QED BY <1>1, <1>2

\* What a native for s may do: abort, return without a new element, or store an element of s.
Outcome(s) == Abort \/ Return \/ \E v \in Carrier(s) : StoreElement(s, v)

LEMMA OutcomeKeepsInv ==
  ASSUME AlgebraInv, NEW s \in Structure, Outcome(s)
  PROVE  AlgebraInv'
<1>1. ASSUME Abort PROVE AlgebraInv'
  BY <1>1 DEF Abort, AlgebraInv, Taken
<1>2. ASSUME Return PROVE AlgebraInv'
  BY <1>2 DEF Return, algebra_vars, AlgebraInv, Taken, IsElement, Value
<1> QED BY <1>1, <1>2, StoreKeepsInv DEF Outcome

LEMMA ElementsOf ==
  ASSUME AlgebraInv, NEW s \in Structure, NEW e \in Elements(s)
  PROVE  Value(e) \in Carrier(s) /\ Value(e) \in Nat
BY CarrierFacts DEF AlgebraInv, Elements, IsElement

\* Each native stores an element of the structure it was called for, if it stores any.
LEMMA ArithmeticOutcomes ==
  ASSUME AlgebraInv, NEW s \in Structure,
         Add(s) \/ Sub(s) \/ Neg(s) \/ Mul(s) \/ Sqr(s) \/ Double(s) \/ Div(s) \/ Inv(s)
  PROVE  Outcome(s)
<1>1. ASSUME Add(s) PROVE Outcome(s)
  BY <1>1, ElementsOf, SumsAreElements DEF Add, IfArithmetic, IfEnabled, BinaryOp, Outcome
<1>2. ASSUME Sub(s) PROVE Outcome(s)
  BY <1>2, ElementsOf, SumsAreElements DEF Sub, IfArithmetic, IfEnabled, BinaryOp, Outcome
<1>3. ASSUME Neg(s) PROVE Outcome(s)
  BY <1>3, ElementsOf, SumsAreElements DEF Neg, IfArithmetic, IfEnabled, UnaryOp, Outcome
<1>4. ASSUME Mul(s) PROVE Outcome(s)
  BY <1>4, ElementsOf, ProductsAreElements DEF Mul, IfArithmetic, IfEnabled, BinaryOp, Outcome
<1>5. ASSUME Sqr(s) PROVE Outcome(s)
  BY <1>5, ElementsOf, ProductsAreElements DEF Sqr, IfArithmetic, IfEnabled, UnaryOp, Outcome
<1>6. ASSUME Double(s) PROVE Outcome(s)
  BY <1>6, ElementsOf, SumsAreElements DEF Double, IfArithmetic, IfEnabled, UnaryOp, Outcome
<1>7. ASSUME Div(s) PROVE Outcome(s)
  BY <1>7, ElementsOf, ProductsAreElements DEF Div, DivInternal, IfArithmetic, IfEnabled, Outcome
<1>8. ASSUME Inv(s) PROVE Outcome(s)
  BY <1>8, ElementsOf, ProductsAreElements DEF Inv, InverseInternal, IfArithmetic, IfEnabled, Outcome
<1> QED BY <1>1, <1>2, <1>3, <1>4, <1>5, <1>6, <1>7, <1>8

LEMMA ConstantOutcomes ==
  ASSUME AlgebraInv, NEW s \in Structure,
         \/ ZeroOf(s) \/ OneOf(s) \/ FromU64(s) \/ HashTo(s)
         \/ \E format \in Formats(s) : Deserialize(s, format)
  PROVE  Outcome(s)
<1>1. ASSUME ZeroOf(s) PROVE Outcome(s)
  BY <1>1, ConstantsAreElements DEF ZeroOf, IfArithmetic, IfEnabled, Outcome
<1>2. ASSUME OneOf(s) PROVE Outcome(s)
  BY <1>2, ConstantsAreElements DEF OneOf, IfArithmetic, IfEnabled, Outcome
<1>3. ASSUME FromU64(s) PROVE Outcome(s)
  <2>1. PICK n \in U64s : IfArithmetic(s, IF IsField(s) THEN StoreElement(s, n % Modulus(s)) ELSE Abort)
    BY <1>3 DEF FromU64
  <2>2. IsField(s) => n % Modulus(s) \in Carrier(s)
    <3>1. n \in Int
      BY AlgebraAssumption
    <3> QED BY <3>1, StructureFacts, Reduced
  <2> QED BY <2>1, <2>2 DEF IfArithmetic, IfEnabled, Outcome
<1>4. ASSUME HashTo(s) PROVE Outcome(s)
  <2>1. CASE s \notin HashToStructureSuite
    BY <1>4, <2>1 DEF HashTo, IfEnabled, FeatureFlagOfHashToStructure, Outcome
  <2>2. CASE s \in HashToStructureSuite
    <3>1. RustType(s) = s /\ Name(s) # "Gt"
      BY <2>2 DEF HashToStructureSuite, RustType, Name, Curve
    <3>2. \A v \in 0 .. Modulus(s) - 1 : v \in Carrier(s)
      BY <3>1 DEF Carrier, Below
    <3> QED BY <1>4, <3>2 DEF HashTo, IfEnabled, Outcome
  <2> QED BY <2>1, <2>2
<1>5. ASSUME NEW format \in Formats(s), Deserialize(s, format) PROVE Outcome(s)
  <2>1. \A bytes : DeserializeValues(s, format, bytes) \subseteq Carrier(s)
    BY DEF DeserializeValues, Carrier, Below
  <2> QED BY <1>5, <2>1 DEF Deserialize, IfEnabled, Outcome
<1> QED BY <1>1, <1>2, <1>3, <1>4, <1>5

\* A batch of elements, and their values.
LEMMA BatchFacts ==
  ASSUME AlgebraInv, NEW s \in Structure, NEW es \in Batches(s)
  PROVE  \E n \in Nat : /\ DOMAIN es = 1 .. n /\ Len(es) = n
                        /\ ValuesOf(es) \in [1 .. n -> Nat]
<1>1. PICK n \in 0 .. MaxElements : es \in [1 .. n -> Elements(s)]
  BY DEF Batches
<1>2. n \in Nat
  BY AlgebraAssumption
<1>3. DOMAIN es = 1 .. n /\ Len(es) = n
  BY <1>1, <1>2
<1>4. \A i \in 1 .. n : Value(es[i]) \in Nat
  BY <1>1, ElementsOf
<1> QED BY <1>2, <1>3, <1>4 DEF ValuesOf

LEMMA ScalarOutcomes ==
  ASSUME AlgebraInv, NEW s \in Structure, NEW t \in Structure, ScalarMul(s, t) \/ MultiScalarMul(s, t)
  PROVE  Outcome(s)
<1>1. ASSUME ScalarMul(s, t) PROVE Outcome(s)
  BY <1>1, ElementsOf, MultiplesAreElements DEF ScalarMul, IfEnabled, Outcome
<1>2. ASSUME MultiScalarMul(s, t) PROVE Outcome(s)
  <2>1. CASE FeatureFlagOfGroupScalarMul(s, t) \cap enabled = {}
    BY <1>2, <2>1 DEF MultiScalarMul, IfEnabled, Outcome
  <2>2. CASE FeatureFlagOfGroupScalarMul(s, t) \cap enabled # {}
    <3>1. PICK es \in Batches(s), ks \in Batches(t) :
            IF Name(s) = "Gt" \/ Len(es) # Len(ks) THEN Abort
            ELSE StoreElement(s, MultiScalarMulValue(s, ValuesOf(es), ValuesOf(ks)))
      BY <1>2, <2>2 DEF MultiScalarMul, IfEnabled
    <3>2. CASE Name(s) = "Gt" \/ Len(es) # Len(ks)
      BY <3>1, <3>2 DEF Outcome
    <3>3. CASE ~(Name(s) = "Gt" \/ Len(es) # Len(ks))
      <4>1. PICK n \in Nat : Len(es) = n /\ ValuesOf(es) \in [1 .. n -> Nat]
        BY BatchFacts
      <4>2. PICK l \in Nat : Len(ks) = l /\ ValuesOf(ks) \in [1 .. l -> Nat]
        BY BatchFacts
      <4>3. MultiScalarMulValue(s, ValuesOf(es), ValuesOf(ks)) \in Carrier(s)
        BY <3>3, <4>1, <4>2, MultiMultiplesAreElements
      <4> QED BY <3>1, <3>3, <4>3 DEF Outcome
    <3> QED BY <3>2, <3>3
  <2> QED BY <2>1, <2>2
<1> QED BY <1>1, <1>2

\* The structures of a pairing.
LEMMA PairingStructures ==
  ASSUME NEW c \in Curves
  PROVE  /\ <<c, "G1">> \in Structure /\ <<c, "G2">> \in Structure /\ <<c, "Gt">> \in Structure
         /\ Curve(<<c, "Gt">>) = c
         /\ \A v : v \in Carrier(<<c, "Gt">>) <=> v \in Below(Q12(c)) /\ InSubgroup(c, v)
         /\ Carrier(<<c, "G1">>) = Below(GroupOrder(c)) /\ Carrier(<<c, "G2">>) = Below(GroupOrder(c))
<1>1. <<c, "G1">> \in Structure /\ <<c, "G2">> \in Structure /\ <<c, "Gt">> \in Structure
  BY DEF Curves, Structure
<1>2. /\ Curve(<<c, "G1">>) = c /\ Curve(<<c, "G2">>) = c /\ Curve(<<c, "Gt">>) = c
      /\ Name(<<c, "G1">>) = "G1" /\ Name(<<c, "G2">>) = "G2" /\ Name(<<c, "Gt">>) = "Gt"
  BY DEF Curve, Name
<1>3. \A v : v \in Carrier(<<c, "Gt">>) <=> v \in Below(Q12(c)) /\ InSubgroup(c, v)
  BY <1>1, <1>2, CarrierFacts
<1>4. Carrier(<<c, "G1">>) = Below(GroupOrder(c)) /\ Carrier(<<c, "G2">>) = Below(GroupOrder(c))
  BY <1>1, <1>2, CarrierFacts, StructureFacts
<1> QED BY <1>1, <1>2, <1>3, <1>4

LEMMA PairingOutcomes ==
  ASSUME AlgebraInv, NEW c \in Curves, NEW d \in Curves,
         \/ Pairing(<<c, "G1">>, <<c, "G2">>, <<d, "Gt">>)
         \/ MultiPairing(<<c, "G1">>, <<c, "G2">>, <<d, "Gt">>)
  PROVE  Outcome(<<d, "Gt">>)
<1> DEFINE g1 == <<c, "G1">>
           g2 == <<c, "G2">>
           gt == <<d, "Gt">>
<1>1. g1 \in Structure /\ g2 \in Structure /\ gt \in Structure /\ Curve(gt) = d
  BY PairingStructures
<1>2. \A v : v \in Carrier(gt) <=> v \in Below(Q12(d)) /\ InSubgroup(d, v)
  BY PairingStructures
<1> HIDE DEF g1, g2, gt
<1>3. ASSUME Pairing(g1, g2, gt) PROVE Outcome(gt)
  <2>1. \A e \in Elements(g1), f \in Elements(g2) : PairingValue(d, Value(e), Value(f)) \in Carrier(gt)
    <3> TAKE e \in Elements(g1), f \in Elements(g2)
    <3>1. Value(e) \in Nat /\ Value(f) \in Nat
      BY <1>1, ElementsOf
    <3> QED BY <1>2, <3>1, PairingsAreElements
  <2> QED BY <1>1, <1>3, <2>1 DEF Pairing, IfEnabled, Outcome
<1>4. ASSUME MultiPairing(g1, g2, gt) PROVE Outcome(gt)
  <2>1. CASE FeatureFlagOfPairing(g1, g2, gt) \cap enabled = {}
    BY <1>4, <2>1 DEF MultiPairing, IfEnabled, Outcome
  <2>2. CASE FeatureFlagOfPairing(g1, g2, gt) \cap enabled # {}
    <3>1. PICK es \in Batches(g1), fs \in Batches(g2) :
            IF Len(es) # Len(fs) THEN Abort
            ELSE StoreElement(gt, MultiPairingValue(d, ValuesOf(es), ValuesOf(fs)))
      BY <1>1, <1>4, <2>2 DEF MultiPairing, IfEnabled
    <3>2. CASE Len(es) # Len(fs)
      BY <3>1, <3>2 DEF Outcome
    <3>3. CASE Len(es) = Len(fs)
      <4>1. PICK n \in Nat : Len(es) = n /\ ValuesOf(es) \in [1 .. n -> Nat]
        BY <1>1, BatchFacts
      <4>2. PICK l \in Nat : Len(fs) = l /\ ValuesOf(fs) \in [1 .. l -> Nat]
        BY <1>1, BatchFacts
      <4>3. MultiPairingValue(d, ValuesOf(es), ValuesOf(fs)) \in Carrier(gt)
        BY <1>2, <3>3, <4>1, <4>2, MultiPairingsAreElements
      <4> QED BY <3>1, <3>3, <4>3 DEF Outcome
    <3> QED BY <3>2, <3>3
  <2> QED BY <2>1, <2>2
<1> QED BY <1>3, <1>4 DEF g1, g2, gt

\* A cast gives an element's handle the other structure; both have the Rust type Fq12.
LEMMA CastsKeepInv ==
  ASSUME AlgebraInv, NEW s \in Structure, NEW t \in Structure, Downcast(s, t) \/ Upcast(s, t)
  PROVE  AlgebraInv'
<1>1. ASSUME Abort \/ Return PROVE AlgebraInv'
  BY <1>1, OutcomeKeepsInv DEF Outcome
<1>2. ASSUME NEW c \in Curves, NEW e \in elements, NEW to \in {<<c, "Gt">>, <<c, "Fq12">>},
             e.structure \in {<<c, "Gt">>, <<c, "Fq12">>},
             to = <<c, "Gt">> => InSubgroup(c, Value(e)),
             elements' = elements \cup {[e EXCEPT !.structure = to]},
             UNCHANGED <<enabled, running, objs, bytes_used>>
      PROVE  AlgebraInv'
  <2>1. IsElement(e) /\ to \in Structure /\ e \in [structure : Structure, handle : Nat]
    BY <1>2 DEF AlgebraInv, IsElement, Curves, Structure
  <2>2. /\ RustType(<<c, "Gt">>) = <<c, "Fq12">> /\ RustType(<<c, "Fq12">>) = <<c, "Fq12">>
        /\ Name(<<c, "Gt">>) = "Gt" /\ Name(<<c, "Fq12">>) = "Fq12"
        /\ Curve(<<c, "Gt">>) = c
    BY DEF RustType, Name, Curve
  <2>3. Value(e) \in Carrier(to)
    BY <1>2, <2>1, <2>2 DEF IsElement, Carrier
  <2>4. ASSUME NEW f, f = [e EXCEPT !.structure = to] PROVE IsElement(f)
    <3>1. f \in [structure : Structure, handle : Nat] /\ f.structure = to /\ f.handle = e.handle
      BY <2>1, <2>4
    <3> QED BY <1>2, <2>1, <2>2, <2>3, <3>1 DEF IsElement, Value
  <2>5. \A f \in elements' : IsElement(f)
    BY <1>2, <2>4 DEF AlgebraInv
  <2>6. \A f \in elements' : IsElement(f)'
    BY <1>2, <2>5 DEF IsElement, Value
  <2> QED BY <1>2, <2>6 DEF AlgebraInv, Taken
<1>3. ASSUME Downcast(s, t) PROVE AlgebraInv'
  <2>1. CASE FeatureFlagOfCasting(s, t) \cap enabled = {}
    BY <1>1, <1>3, <2>1 DEF Downcast, IfEnabled
  <2>2. CASE FeatureFlagOfCasting(s, t) \cap enabled # {}
    <3>1. PICK c \in Curves : s = <<c, "Fq12">> /\ t = <<c, "Gt">>
      BY <2>2 DEF FeatureFlagOfCasting
    <3>2. Curve(s) = c
      BY <3>1 DEF Curve
    <3>3. PICK e \in Elements(s) :
            IF InSubgroup(c, Value(e))
            THEN /\ elements' = elements \cup {[e EXCEPT !.structure = t]}
                 /\ UNCHANGED <<enabled, running, objs, bytes_used>>
            ELSE Return
      BY <1>3, <2>2, <3>2 DEF Downcast, IfEnabled
    <3>4. e \in elements /\ e.structure = s
      BY DEF Elements
    <3> QED BY <1>1, <1>2, <3>1, <3>3, <3>4
  <2> QED BY <2>1, <2>2
<1>4. ASSUME Upcast(s, t) PROVE AlgebraInv'
  <2>1. CASE FeatureFlagOfCasting(t, s) \cap enabled = {}
    BY <1>1, <1>4, <2>1 DEF Upcast, IfEnabled
  <2>2. CASE FeatureFlagOfCasting(t, s) \cap enabled # {}
    <3>1. PICK c \in Curves : t = <<c, "Fq12">> /\ s = <<c, "Gt">>
      BY <2>2 DEF FeatureFlagOfCasting
    <3>2. PICK e \in Elements(s) :
            /\ elements' = elements \cup {[e EXCEPT !.structure = t]}
            /\ UNCHANGED <<enabled, running, objs, bytes_used>>
      BY <1>4, <2>2 DEF Upcast, IfEnabled
    <3>3. e \in elements /\ e.structure = s /\ t # <<c, "Gt">>
      BY <3>1 DEF Elements
    <3> QED BY <1>2, <3>1, <3>2, <3>3
  <2> QED BY <2>1, <2>2
<1> QED BY <1>3, <1>4

\* An empty store takes no memory.
LEMMA NothingTaken == Taken(<<>>) = 0
<1>1. <<>> \in Seq(Objects) /\ [type |-> <<"bls", "Fr">>, value |-> 0] \in Objects
  BY DEF Objects, RustTypes, Curves
<1> QED BY <1>1, TakenGrows

LEMMA AlgebraStart == ASSUME AlgebraInit PROVE AlgebraInv
BY NothingTaken, AlgebraAssumption DEF AlgebraInit, AlgebraInv

LEMMA AlgebraStep == ASSUME AlgebraInv, [AlgebraNext]_algebra_vars PROVE AlgebraInv'
<1>1. ASSUME StartAlgebra PROVE AlgebraInv'
  BY <1>1, NothingTaken, AlgebraAssumption DEF StartAlgebra, AlgebraInv
<1>2. ASSUME Call PROVE AlgebraInv'
  <2>1. ASSUME NEW c \in Curves, NEW d \in Curves,
               \/ Pairing(<<c, "G1">>, <<c, "G2">>, <<d, "Gt">>)
               \/ MultiPairing(<<c, "G1">>, <<c, "G2">>, <<d, "Gt">>)
        PROVE  AlgebraInv'
    BY <2>1, PairingOutcomes, PairingStructures, OutcomeKeepsInv
  <2>2. ASSUME NEW s \in Structure,
               Add(s) \/ Sub(s) \/ Neg(s) \/ Mul(s) \/ Sqr(s) \/ Double(s) \/ Div(s) \/ Inv(s)
        PROVE  AlgebraInv'
    BY <2>2, ArithmeticOutcomes, OutcomeKeepsInv
  <2>3. ASSUME NEW s \in Structure,
               \/ ZeroOf(s) \/ OneOf(s) \/ FromU64(s) \/ HashTo(s)
               \/ \E format \in Formats(s) : Deserialize(s, format)
        PROVE  AlgebraInv'
    BY <2>3, ConstantOutcomes, OutcomeKeepsInv
  <2>4. ASSUME NEW s \in Structure, NEW t \in Structure, ScalarMul(s, t) \/ MultiScalarMul(s, t)
        PROVE  AlgebraInv'
    BY <2>4, ScalarOutcomes, OutcomeKeepsInv
  <2>5. ASSUME NEW s \in Structure, NEW t \in Structure, Downcast(s, t) \/ Upcast(s, t)
        PROVE  AlgebraInv'
    BY <2>5, CastsKeepInv
  <2> QED BY <1>2, <2>1, <2>2, <2>3, <2>4, <2>5 DEF Call
<1>3. ASSUME UNCHANGED algebra_vars PROVE AlgebraInv'
  BY <1>3, OutcomeKeepsInv, ConstantsAreElements DEF algebra_vars, AlgebraInv, Taken, IsElement, Value
<1> QED BY <1>1, <1>2, <1>3 DEF AlgebraNext

\* The values an element may have are those of its Rust type; of Gt, those of the subgroup.
LEMMA ElementsAreValid ==
  ASSUME AlgebraInv
  PROVE  AlgebraTypeOK /\ GtStaysInSubgroup /\ MemoryIsAccounted
<1>1. \A e \in elements : /\ e.structure \in Structure /\ e.handle \in 0 .. Len(objs) - 1
                         /\ objs[e.handle + 1].type = RustType(e.structure)
                         /\ Value(e) \in Carrier(e.structure)
  BY DEF AlgebraInv, IsElement
<1>2. AlgebraTypeOK
  BY <1>1 DEF AlgebraTypeOK, AlgebraInv
<1>3. GtStaysInSubgroup
  BY <1>1 DEF GtStaysInSubgroup, Carrier
<1>4. MemoryIsAccounted
  BY DEF MemoryIsAccounted, AlgebraInv, Taken
<1> QED BY <1>2, <1>3, <1>4

LEMMA AdditionLaws == ASSUME AlgebraInv PROVE AdditionIsLawful
<1>1. SUFFICES ASSUME NEW s \in Structure, NEW e \in Elements(s), NEW f \in Elements(s)
      PROVE  LET v == Value(e)
                 w == Value(f)
                 multiple == Multiples(s, v)
             IN  /\ AddValues(s, v, ZeroValue(s)) = v
                 /\ EqValues(s, AddValues(s, SubValues(s, v, w), w), v)
                 /\ EqValues(s, AddValues(s, NegValue(s, v), v), ZeroValue(s))
                 /\ multiple[OrderOf(s)] = ZeroValue(s)
                 /\ \A n \in 1 .. OrderOf(s) - 1 :
                      IsGroup(s) /\ EqValues(s, v, OneValue(s)) => multiple[n] # ZeroValue(s)
                 /\ IsGroup(s) => \A n \in 0 .. OrderOf(s) - 1 : multiple[n] = ScalarMulValue(s, v, n)
  BY DEF AdditionIsLawful, Multiples
<1> DEFINE v == Value(e)
           w == Value(f)
<1>2. v \in Carrier(s) /\ w \in Carrier(s)
  BY ElementsOf
<1> HIDE DEF v, w
<1>3. \A n \in Nat : Multiples(s, v)[n] = ScalarMulValue(s, v, n)
  BY <1>2, MultiplesAreScalarMultiples
<1>4. /\ AddValues(s, v, ZeroValue(s)) = v
      /\ AddValues(s, SubValues(s, v, w), w) = v
      /\ AddValues(s, NegValue(s, v), v) = ZeroValue(s)
  BY <1>2, AdditionHasInverses
<1>5. /\ OrderOf(s) \in Nat \ {0}
      /\ ScalarMulValue(s, v, OrderOf(s)) = ZeroValue(s)
      /\ \A n \in 1 .. OrderOf(s) - 1 :
           IsGroup(s) /\ v = OneValue(s) => ScalarMulValue(s, v, n) # ZeroValue(s)
  BY <1>2, OrderIsTheOrder
<1> QED BY <1>3, <1>4, <1>5 DEF EqValues, v, w

LEMMA PairingLaws == ASSUME AlgebraInv PROVE PairingIsBilinear
<1>1. SUFFICES ASSUME NEW c \in Curves
      PROVE  LET g1 == <<c, "G1">>
                 g2 == <<c, "G2">>
                 gt == <<c, "Gt">>
             IN  /\ PairingValue(c, OneValue(g1), OneValue(g2)) = OneValue(gt)
                 /\ \A e, f \in Elements(g1), g \in Elements(g2) :
                      LET x == Value(e)
                          v == Value(f)
                          y == Value(g)
                      IN  /\ MultiPairingValue(c, <<x, v>>, <<y, y>>)
                               = PairingValue(c, AddValues(g1, x, v), y)
                          /\ \A k \in 0 .. GroupOrder(c) - 1 :
                               PairingValue(c, ScalarMulValue(g1, x, k), y)
                                 = ScalarMulValue(gt, PairingValue(c, x, y), k)
  BY DEF PairingIsBilinear
<1> DEFINE g1 == <<c, "G1">>
           g2 == <<c, "G2">>
           gt == <<c, "Gt">>
<1>2. /\ OneValue(g1) = 1 /\ OneValue(g2) = 1 /\ OneValue(gt) = GtGenerator(c)
      /\ \A x, v : AddValues(g1, x, v) = (x + v) % GroupOrder(c)
      /\ \A x, k : ScalarMulValue(g1, x, k) = (x * k) % GroupOrder(c)
      /\ \A x, k : ScalarMulValue(gt, x, k) = Pow(x, k, Q12(c))
  <2>1. /\ Name(g1) = "G1" /\ Name(g2) = "G2" /\ Name(gt) = "Gt" /\ Curve(gt) = c
        /\ Modulus(RustType(g1)) = GroupOrder(c) /\ Modulus(RustType(gt)) = Q12(c)
    BY DEF Name, Curve, RustType, Modulus
  <2> HIDE DEF g1, g2, gt
  <2> QED BY <2>1 DEF OneValue, AddValues, ScalarMulValue
<1>3. g1 \in Structure /\ g2 \in Structure
      /\ Carrier(g1) = Below(GroupOrder(c)) /\ Carrier(g2) = Below(GroupOrder(c))
  BY PairingStructures
<1> HIDE DEF g1, g2, gt
<1>4. \A x, v, y \in Below(GroupOrder(c)), k \in Nat :
        /\ MultiPairingValue(c, <<x, v>>, <<y, y>>) = PairingValue(c, (x + v) % GroupOrder(c), y)
        /\ PairingValue(c, (x * k) % GroupOrder(c), y) = Pow(PairingValue(c, x, y), k, Q12(c))
  BY PairingsAreBilinear
<1>5. PairingValue(c, 1, 1) = GtGenerator(c)
  <2>1. 0 \in Below(GroupOrder(c)) /\ 0 \in Nat
    BY CurveFacts DEF Below
  <2> QED BY <2>1, PairingsAreBilinear
<1>6. ASSUME NEW e \in Elements(g1), NEW f \in Elements(g1), NEW g \in Elements(g2)
      PROVE  LET x == Value(e)
                 v == Value(f)
                 y == Value(g)
             IN  /\ MultiPairingValue(c, <<x, v>>, <<y, y>>) = PairingValue(c, AddValues(g1, x, v), y)
                 /\ \A k \in 0 .. GroupOrder(c) - 1 :
                      PairingValue(c, ScalarMulValue(g1, x, k), y)
                        = ScalarMulValue(gt, PairingValue(c, x, y), k)
  <2>1. Value(e) \in Below(GroupOrder(c)) /\ Value(f) \in Below(GroupOrder(c)) /\ Value(g) \in Below(GroupOrder(c))
    BY <1>3, ElementsOf
  <2>2. \A k \in 0 .. GroupOrder(c) - 1 : k \in Nat
    BY CurveFacts
  <2> QED BY <1>2, <1>4, <2>1, <2>2
<1> QED BY <1>2, <1>5, <1>6 DEF g1, g2, gt

LEMMA FormatsRoundTrip == ASSUME AlgebraInv PROVE RoundTrip
BY EncodingsAreRead DEF RoundTrip, AlgebraInv, IsElement

\* In every session, whatever natives of algebra/ the program calls in whatever order and whichever
\* features are on: the elements of each structure form a group or a field under them, those of Gt
\* stay in its subgroup, the pairing is bilinear, each format reads back what it wrote and nothing
\* else, and the session's memory is accounted.  It holds for every prime order and field.
THEOREM AlgebraCorrectness == AlgebraSpec => []AlgebraIsLawful
<1>1. AlgebraInit => AlgebraInv
  BY AlgebraStart
<1>2. AlgebraInv /\ [AlgebraNext]_algebra_vars => AlgebraInv'
  BY AlgebraStep
<1>3. AlgebraInv => AlgebraIsLawful
  BY ElementsAreValid, AdditionLaws, PairingLaws, FormatsRoundTrip DEF AlgebraIsLawful
<1> QED BY <1>1, <1>2, <1>3, PTL DEF AlgebraSpec
=============================================================================
