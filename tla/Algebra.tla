------------------------------ MODULE Algebra ------------------------------
(***************************************************************************)
(* The natives of crypto_algebra.move (natives/src/cryptography/algebra/): *)
(* elements of fields and groups of two pairing-friendly curves.  A        *)
(* program holds a handle, tagged by Move's type system with a structure;  *)
(* the session holds the element, tagged with its Rust type.  Gt has no    *)
(* Rust type of its own: its elements are kept as elements of Fq12.        *)
(*                                                                         *)
(* The libraries' fields and groups are outside the repository.  Fr, Fq    *)
(* and Fq12 are modelled by residues of small primes and G1 and G2 by the  *)
(* discrete logarithms of their elements; Gt is then a proper subgroup of  *)
(* the units of Fq12, as in the code.                                      *)
(***************************************************************************)
EXTENDS Integers, Sequences, FiniteSets, SequencesExt

CONSTANTS BlsR, BlsQ12,        \* the orders of BLS12-381's groups and of its Fq12
          BnR, BnQ, BnQ12,     \* the same of BN254, and of its Fq
          MemoryLimit,         \* MEMORY_LIMIT_IN_BYTES, in the units of SizeOfVal
          U64s, ByteStrings,   \* arguments of from_u64 and of deserialize
          MaxElements          \* bound: elements in a multi scalar multiplication or pairing

VARIABLES
  enabled,      \* the curves whose feature flag is on
  running,      \* is a session running?
  objs,         \* AlgebraContext
  bytes_used,
  elements      \* the Element values the program has

algebra_vars == <<enabled, running, objs, bytes_used, elements>>

-----------------------------------------------------------------------------
(* Structures, formats and suites *)

Curves == {"bls", "bn"}
Structure == {<<"bls", n>> : n \in {"Fr", "Fq12", "G1", "G2", "Gt"}}
             \cup {<<"bn", n>> : n \in {"Fr", "Fq", "Fq12", "G1", "G2", "Gt"}}
Curve(s) == s[1]
Name(s) == s[2]
IsField(s) == Name(s) \in {"Fr", "Fq", "Fq12"}
IsGroup(s) == Name(s) \in {"G1", "G2", "Gt"}

RustType(s) == <<Curve(s), IF Name(s) = "Gt" THEN "Fq12" ELSE Name(s)>>

GroupOrder(c) == IF c = "bls" THEN BlsR ELSE BnR
Q12(c) == IF c = "bls" THEN BlsQ12 ELSE BnQ12
Modulus(type) == CASE Name(type) = "Fq12" -> Q12(Curve(type))
                   [] Name(type) = "Fq" -> BnQ
                   [] OTHER -> GroupOrder(Curve(type))
SizeOfVal(type) == IF Name(type) = "Fq12" THEN 3 ELSE 2

Formats(s) == CASE Name(s) \in {"Fr", "Fq"} -> {"Lsb", "Msb"}
                [] Name(s) \in {"G1", "G2"} -> {"Uncompr", "Compr"}
                [] OTHER -> {"LscLsb"}

\* The suites are for the two groups of BLS12-381.
HashToStructureSuite == {<<"bls", "G1">>, <<"bls", "G2">>}

FeatureFlagFromStructure(s) == Curve(s)
FeatureFlagOfGroupScalarMul(group, scalars) ==
  IF IsGroup(group) /\ scalars = <<Curve(group), "Fr">> THEN {Curve(group)} ELSE {}
FeatureFlagOfPairing(g1, g2, gt) ==
  {c \in Curves : g1 = <<c, "G1">> /\ g2 = <<c, "G2">> /\ gt = <<c, "Gt">>}
FeatureFlagOfCasting(super, sub) == {c \in Curves : super = <<c, "Fq12">> /\ sub = <<c, "Gt">>}
FeatureFlagOfSerializationFormat(s, format) == IF format \in Formats(s) THEN {Curve(s)} ELSE {}
FeatureFlagOfHashToStructure(s) == IF s \in HashToStructureSuite THEN {"bls"} ELSE {}

-----------------------------------------------------------------------------
(* The libraries *)

Pow(x, n, m) == LET p[k \in Nat] == IF k = 0 THEN 1 ELSE (p[k - 1] * x) % m IN p[n]
Reciprocal(x, m) == CHOOSE y \in 1 .. m - 1 : (x * y) % m = 1
InSubgroup(c, v) == Pow(v, GroupOrder(c), Q12(c)) = 1
GtGenerator(c) == CHOOSE g \in 2 .. Q12(c) - 1 : InSubgroup(c, g)

\* Division is possible in the fields, so their orders and those of the groups are primes, and
\* the units of Fq12 have a subgroup of the order of Gt.
ASSUME AlgebraAssumption ==
  /\ \A m \in {BlsR, BlsQ12, BnR, BnQ, BnQ12} :
        m \in Nat /\ m > 1 /\ \A x \in 1 .. m - 1 : \E y \in 1 .. m - 1 : (x * y) % m = 1
  /\ \A c \in Curves : \E g \in 2 .. Q12(c) - 1 : InSubgroup(c, g)
  /\ MemoryLimit \in Nat /\ U64s \subseteq Nat /\ ByteStrings \subseteq Seq(Nat) /\ MaxElements \in Nat

\* An encoding is a sequence of digits; the least significant comes first.
Encode(format, v) == CASE format \in {"Lsb", "Msb"} -> <<v, 0>>
                       [] format = "Uncompr" -> <<v, v + 1, 0>>
                       [] format = "Compr" -> <<v>>
                       [] OTHER -> <<v, 0, 0, 0>>

-----------------------------------------------------------------------------
(* The operations on values, by structure *)

AddValues(s, v, w) == LET m == Modulus(RustType(s))
                      IN  IF Name(s) = "Gt" THEN (v * w) % m ELSE (v + w) % m
DivValues(s, v, w) == LET m == Modulus(RustType(s)) IN (v * Reciprocal(w, m)) % m
SubValues(s, v, w) == IF Name(s) = "Gt" THEN DivValues(s, v, w)
                      ELSE (v - w) % Modulus(RustType(s))
MulValues(s, v, w) == (v * w) % Modulus(RustType(s))
NegValue(s, v) == IF Name(s) = "Gt" THEN Reciprocal(v, Modulus(RustType(s)))
                  ELSE (- v) % Modulus(RustType(s))
DoubleValue(s, v) == AddValues(s, v, v)
SqrValue(s, v) == MulValues(s, v, v)
InvValue(s, v) == Reciprocal(v, Modulus(RustType(s)))
EqValues(s, v, w) == v = w

ZeroValue(s) == IF Name(s) = "Gt" THEN 1 ELSE 0
OneValue(s) == IF Name(s) = "Gt" THEN GtGenerator(Curve(s)) ELSE 1
OrderOf(s) == IF Name(s) = "Gt" THEN GroupOrder(Curve(s)) ELSE Modulus(RustType(s))

ScalarMulValue(s, v, k) == IF Name(s) = "Gt" THEN Pow(v, k, Modulus(RustType(s)))
                           ELSE (v * k) % Modulus(RustType(s))

\* Only G1 and G2 have this.
MultiScalarMulValue(s, values, scalars) ==
  SumFunction([i \in DOMAIN values |-> values[i] * scalars[i]]) % Modulus(RustType(s))

PairingValue(c, v, w) == Pow(GtGenerator(c), v * w, Q12(c))

MultiPairingValue(c, values, others) ==
  LET product[n \in 0 .. Len(values)] ==
        IF n = 0 THEN 1 ELSE (product[n - 1] * PairingValue(c, values[n], others[n])) % Q12(c)
  IN  product[Len(values)]

SerializeValue(s, format, v) ==
  LET buf == Encode(format, v)
  IN  IF format = "Msb" THEN Reverse(buf) ELSE buf

EncodedLength(s, format) == Len(Encode(format, 0))

\* Mutant: elements of Gt are read like those of Fq12.
DeserializeUnchecked(s, format, bytes) ==
  LET read == IF format = "Msb" THEN Reverse(bytes) ELSE bytes
  IN  IF Len(bytes) # EncodedLength(s, format) THEN {}
      ELSE {v \in 0 .. Modulus(RustType(s)) - 1 : Encode(format, v) = read}

\* The value, or none: of a wrong length, not in canonical form, outside the subgroup.
DeserializeValues(s, format, bytes) ==
  LET read == IF format = "Msb" THEN Reverse(bytes) ELSE bytes
  IN  IF Len(bytes) # EncodedLength(s, format) THEN {}
      ELSE {v \in 0 .. Modulus(RustType(s)) - 1 :
              /\ Encode(format, v) = read
              /\ Name(s) = "Gt" => InSubgroup(Curve(s), v)}

-----------------------------------------------------------------------------
(* Sessions *)

AlgebraInit == /\ enabled \in SUBSET Curves
               /\ running = TRUE
               /\ objs = <<>> /\ bytes_used = 0
               /\ elements = {}

\* A session starts; the program's elements, which cannot be stored, are those of this session.
StartAlgebra == /\ enabled' \in SUBSET Curves
                /\ running' = TRUE
                /\ objs' = <<>> /\ bytes_used' = 0
                /\ elements' = {}

\* The call ends the transaction, and the program with it.
Abort == /\ running' = FALSE
         /\ elements' = {}
         /\ UNCHANGED <<enabled, objs, bytes_used>>

\* The call returns nothing that is kept.
Return == UNCHANGED algebra_vars

Value(e) == objs[e.handle + 1].value
Elements(s) == {e \in elements : e.structure = s}

StoreElement(s, value) ==
  LET new_size == bytes_used + SizeOfVal(RustType(s))
  IN  IF new_size > MemoryLimit THEN Abort
      ELSE /\ objs' = Append(objs, [type |-> RustType(s), value |-> value])
           /\ bytes_used' = new_size
           /\ elements' = elements \cup {[structure |-> s, handle |-> Len(objs)]}
           /\ UNCHANGED <<enabled, running>>

\* flags: the feature flags one of which the call needs; the empty set if it is not implemented.
IfEnabled(flags, call) == IF flags \cap enabled = {} THEN Abort ELSE call
IfArithmetic(s, call) == IfEnabled({FeatureFlagFromStructure(s)}, call)

-----------------------------------------------------------------------------
(* The natives *)

BinaryOp(s, op(_, _, _)) == \E e, f \in Elements(s) : StoreElement(s, op(s, Value(e), Value(f)))
UnaryOp(s, op(_, _)) == \E e \in Elements(s) : StoreElement(s, op(s, Value(e)))

Add(s) == IfArithmetic(s, BinaryOp(s, AddValues))
Sub(s) == IfArithmetic(s, BinaryOp(s, SubValues))
Neg(s) == IfArithmetic(s, UnaryOp(s, NegValue))
Mul(s) == IfArithmetic(s, IF IsField(s) THEN BinaryOp(s, MulValues) ELSE Abort)
Sqr(s) == IfArithmetic(s, IF IsField(s) THEN UnaryOp(s, SqrValue) ELSE Abort)
Double(s) == IfArithmetic(s, IF IsGroup(s) THEN UnaryOp(s, DoubleValue) ELSE Abort)

DivInternal(s) == \E e, f \in Elements(s) :
  IF Value(f) = 0 THEN Return ELSE StoreElement(s, DivValues(s, Value(e), Value(f)))
Div(s) == IfArithmetic(s, IF IsField(s) THEN DivInternal(s) ELSE Abort)

InverseInternal(s) == \E e \in Elements(s) :
  IF Value(e) = 0 THEN Return ELSE StoreElement(s, InvValue(s, Value(e)))
Inv(s) == IfArithmetic(s, IF IsField(s) THEN InverseInternal(s) ELSE Abort)

ZeroOf(s) == IfArithmetic(s, StoreElement(s, ZeroValue(s)))
OneOf(s) == IfArithmetic(s, StoreElement(s, OneValue(s)))
FromU64(s) == \E n \in U64s :
  IfArithmetic(s, IF IsField(s) THEN StoreElement(s, n % Modulus(s)) ELSE Abort)

ScalarMul(s, scalars) ==
  IfEnabled(FeatureFlagOfGroupScalarMul(s, scalars),
    \E e \in Elements(s), k \in Elements(scalars) :
      StoreElement(s, ScalarMulValue(s, Value(e), Value(k))))

Batches(s) == UNION {[1 .. n -> Elements(s)] : n \in 0 .. MaxElements}
ValuesOf(batch) == [i \in DOMAIN batch |-> Value(batch[i])]

MultiScalarMul(s, scalars) ==
  IfEnabled(FeatureFlagOfGroupScalarMul(s, scalars),
    \E es \in Batches(s), ks \in Batches(scalars) :
      IF Name(s) = "Gt" \/ Len(es) # Len(ks) THEN Abort
      ELSE StoreElement(s, MultiScalarMulValue(s, ValuesOf(es), ValuesOf(ks))))

Pairing(g1, g2, gt) ==
  IfEnabled(FeatureFlagOfPairing(g1, g2, gt),
    \E e \in Elements(g1), f \in Elements(g2) :
      StoreElement(gt, PairingValue(Curve(gt), Value(e), Value(f))))

MultiPairing(g1, g2, gt) ==
  IfEnabled(FeatureFlagOfPairing(g1, g2, gt),
    \E es \in Batches(g1), fs \in Batches(g2) :
      IF Len(es) # Len(fs) THEN Abort
      ELSE StoreElement(gt, MultiPairingValue(Curve(gt), ValuesOf(es), ValuesOf(fs))))

HashTo(s) == IfEnabled(FeatureFlagOfHashToStructure(s),
                       \E v \in 0 .. Modulus(s) - 1 : StoreElement(s, v))

Deserialize(s, format) ==
  IfEnabled(FeatureFlagOfSerializationFormat(s, format),
    \E bytes \in ByteStrings :
      LET read == DeserializeValues(s, format, bytes)
      IN  IF read = {} THEN Return ELSE \E v \in read : StoreElement(s, v))

\* The same handle, if the element is one of the subgroup's.
Downcast(super, sub) ==
  IfEnabled(FeatureFlagOfCasting(super, sub),
    \E e \in Elements(super) :
      IF InSubgroup(Curve(super), Value(e))
      THEN /\ elements' = elements \cup {[e EXCEPT !.structure = sub]}
           /\ UNCHANGED <<enabled, running, objs, bytes_used>>
      ELSE Return)

Upcast(sub, super) ==
  IfEnabled(FeatureFlagOfCasting(super, sub),
    \E e \in Elements(sub) :
      /\ elements' = elements \cup {[e EXCEPT !.structure = super]}
      /\ UNCHANGED <<enabled, running, objs, bytes_used>>)

Call == \/ \E s \in Structure :
             \/ Add(s) \/ Sub(s) \/ Neg(s) \/ Mul(s) \/ Sqr(s) \/ Double(s) \/ Div(s) \/ Inv(s)
             \/ ZeroOf(s) \/ OneOf(s) \/ FromU64(s) \/ HashTo(s)
             \/ \E format \in Formats(s) : Deserialize(s, format)
             \/ \E t \in Structure : \/ ScalarMul(s, t) \/ MultiScalarMul(s, t)
                                     \/ Downcast(s, t) \/ Upcast(s, t)
        \/ \E c, d \in Curves : \/ Pairing(<<c, "G1">>, <<c, "G2">>, <<d, "Gt">>)
                                \/ MultiPairing(<<c, "G1">>, <<c, "G2">>, <<d, "Gt">>)

AlgebraNext == \/ running /\ Call
               \/ StartAlgebra

AlgebraSpec == AlgebraInit /\ [][AlgebraNext]_algebra_vars

-----------------------------------------------------------------------------
(* Properties *)

\* Every handle a program has is one of this session's, and of an element with the Rust type that
\* the natives for its structure ask for, so safe_borrow_element never fails (mod.rs).
AlgebraTypeOK ==
  /\ enabled \subseteq Curves /\ running \in BOOLEAN
  /\ \A i \in DOMAIN objs : objs[i].value \in 0 .. Modulus(objs[i].type) - 1
  /\ \A e \in elements : /\ e.structure \in Structure
                         /\ e.handle \in 0 .. Len(objs) - 1
                         /\ objs[e.handle + 1].type = RustType(e.structure)

\* Elements of Gt are elements of the subgroup, whichever native made them, although the session
\* cannot tell them from other elements of Fq12; so neg and sub, which invert them, never fail
\* (casting.rs, serialization.rs, neg.rs).
GtStaysInSubgroup == \A e \in elements :
  Name(e.structure) = "Gt" => InSubgroup(Curve(e.structure), Value(e))

\* bytes_used is what the session's elements take, and within the limit (store_element).
MemoryIsAccounted ==
  /\ bytes_used = SumFunction([i \in DOMAIN objs |-> SizeOfVal(objs[i].type)])
  /\ bytes_used <= MemoryLimit

\* Additive notation is meant for every structure, and Gt's elements are kept multiplicatively: zero is
\* neutral, neg and sub invert add, double adds, and order() additions of an element give zero.
AdditionIsLawful == \A s \in Structure : \A e, f \in Elements(s) :
  LET v == Value(e)
      w == Value(f)
      Multiple[n \in Nat] == IF n = 0 THEN ZeroValue(s) ELSE AddValues(s, Multiple[n - 1], v)
  IN  /\ AddValues(s, v, ZeroValue(s)) = v
      /\ EqValues(s, AddValues(s, SubValues(s, v, w), w), v)
      /\ EqValues(s, AddValues(s, NegValue(s, v), v), ZeroValue(s))
      /\ Multiple[OrderOf(s)] = ZeroValue(s)
      /\ \A n \in 1 .. OrderOf(s) - 1 :
           IsGroup(s) /\ EqValues(s, v, OneValue(s)) => Multiple[n] # ZeroValue(s)
      /\ IsGroup(s) => \A n \in 0 .. OrderOf(s) - 1 : Multiple[n] = ScalarMulValue(s, v, n)

\* The pairing is bilinear, maps the generators to the generator, and a multi pairing of
\* (x, y) and (v, y) is the pairing of x + v and y (pairing.rs).
PairingIsBilinear == \A c \in Curves :
  LET g1 == <<c, "G1">>
      g2 == <<c, "G2">>
      gt == <<c, "Gt">>
  IN  /\ PairingValue(c, OneValue(g1), OneValue(g2)) = OneValue(gt)
      /\ \A e, f \in Elements(g1), g \in Elements(g2) :
           LET x == Value(e)
               v == Value(f)
               y == Value(g)
           IN  /\ MultiPairingValue(c, <<x, v>>, <<y, y>>)
                    = PairingValue(c, AddValues(g1, x, v), y)
               /\ \A k \in 0 .. GroupOrder(c) - 1 :
                    PairingValue(c, ScalarMulValue(g1, x, k), y)
                      = ScalarMulValue(gt, PairingValue(c, x, y), k)

\* Reading what serialize wrote in a format gives an equal element; no other element of the
\* structure is written that way (serialization.rs).
RoundTrip == \A e \in elements : \A format \in Formats(e.structure) :
  LET s == e.structure
      bytes == SerializeValue(s, format, Value(e))
  IN  /\ Len(bytes) = EncodedLength(s, format)
      /\ DeserializeValues(s, format, bytes) = {Value(e)}

\* The structures of the generic algebra are groups and fields whose elements round-trip through
\* their formats, Gt stays in its subgroup, the pairing is bilinear and the session's memory is
\* accounted (algebra/*.rs).
AlgebraIsLawful == /\ AlgebraTypeOK /\ GtStaysInSubgroup /\ MemoryIsAccounted
                   /\ AdditionIsLawful /\ PairingIsBilinear /\ RoundTrip
=============================================================================
