-------------------------- MODULE RistrettoScalars --------------------------
(***************************************************************************)
(* Ristretto scalars (natives/src/cryptography/ristretto255_scalar.rs      *)
(* behind aptos_std::ristretto255).  A Move Scalar is the 32 BYTES of a    *)
(* residue modulo the group order; every native that takes one re-reads    *)
(* the bytes and treats a non-canonical encoding as an invariant violation *)
(* of the VM, so each constructor must have made them canonical.           *)
(*                                                                         *)
(* Bytes are the integers 0 .. 2 * HighBit - 1 they encode, HighBit being  *)
(* the bit `from_bits' clears; U8, U64 and U128 are the scaled widths.     *)
(***************************************************************************)
EXTENDS Integers

CONSTANTS Names,             \* the Move variables of a script
          Order,             \* of the group
          HighBit, U8, U64, U128,
          Unset,             \* a variable that holds nothing, "none"
          WrongLength

ASSUME ScalarsAssumption ==
    /\ Order \in Nat \ {0, 1} /\ HighBit \in Nat /\ Order < HighBit
    /\ U8 \in 1 .. U64 /\ U64 \in 1 .. U128 /\ U128 \in 1 .. Order
    /\ Unset \notin Int /\ WrongLength \notin Int

(* The order is a prime: what is not zero has an inverse.                  *)
ASSUME OrderAssumption ==
    \A s \in 1 .. (Order - 1) : \E i \in 0 .. (Order - 1) : (i * s) % Order = 1

VARIABLES scalar,    \* the bytes each Move variable holds, or Unset
          scalar_status     \* "running" or "violated" (an invariant violation)

scalar_vars == <<scalar, scalar_status>>

Bytes == 0 .. (2 * HighBit - 1)      \* 32 bytes
Wide == 0 .. (Order * Order)         \* 64 bytes
Inputs == Bytes \cup {WrongLength}

-----------------------------------------------------------------------------
(* scalar_from_valid_bytes: Violation when the bytes are not canonical.     *)
Violation == -1
from_bits(bytes) == bytes % HighBit
scalar_from_valid_bytes(bytes) ==
    IF from_bits(bytes) < Order THEN from_bits(bytes) ELSE Violation

native_scalar_is_canonical(bytes) == bytes # WrongLength /\ bytes < Order

(* The natives on one and on two scalars.                                  *)
WithOne(x, r) ==
    IF scalar_from_valid_bytes(x) = Violation THEN Violation ELSE r
WithBoth(x, y, r) == WithOne(x, WithOne(y, r))

inverse(s) == CHOOSE i \in 0 .. (Order - 1) : (i * s) % Order = 1 % Order
native_scalar_invert(x) ==
    WithOne(x, LET s == from_bits(x) IN IF s = 0 THEN 0 ELSE inverse(s))
native_scalar_neg(x) == WithOne(x, (-from_bits(x)) % Order)
native_scalar_mul(x, y) == WithBoth(x, y, (from_bits(x) * from_bits(y)) % Order)
native_scalar_add(x, y) == WithBoth(x, y, (from_bits(x) + from_bits(y)) % Order)

native_scalar_sub(x, y) == WithBoth(x, y, (from_bits(x) - from_bits(y)) % Order)

native_scalar_from_u64(num) == num % Order
native_scalar_from_u128(num) == num % Order

native_scalar_reduced_from_32_bytes(bytes) == bytes % Order
native_scalar_uniform_from_64_bytes(bytes) == bytes % Order
(* Any residue, as far as the caller can tell.                             *)
native_scalar_from_sha512(hash) == hash % Order

-----------------------------------------------------------------------------
HeldScalars == {n \in Names : scalar[n] # Unset}

ScalarsInit == scalar = [n \in Names |-> Unset] /\ scalar_status = "running"

(* `Scalar { data }': n holds the bytes the native returned.                *)
Set(n, bytes) ==
    IF bytes = Violation THEN scalar_status' = "violated" /\ UNCHANGED scalar
    ELSE scalar' = [scalar EXCEPT ![n] = bytes] /\ UNCHANGED scalar_status

new_scalar_from_bytes(n, bytes) ==
    native_scalar_is_canonical(bytes) /\ Set(n, bytes)
new_scalar_from_sha2_512(n, hash) == Set(n, native_scalar_from_sha512(hash))
(* The byte is written over the first byte of zero.                        *)
new_scalar_from_u8(n, byte) == Set(n, byte)
new_scalar_from_u64(n, num) == Set(n, native_scalar_from_u64(num))
new_scalar_from_u128(n, num) == Set(n, native_scalar_from_u128(num))
new_scalar_reduced_from_32_bytes(n, bytes) ==
    /\ bytes # WrongLength
    /\ Set(n, native_scalar_reduced_from_32_bytes(bytes))
new_scalar_uniform_from_64_bytes(n, bytes) ==
    Set(n, native_scalar_uniform_from_64_bytes(bytes))
scalar_zero(n) == Set(n, 0)
scalar_one(n) == Set(n, 1)
scalar_invert(n, a) ==
    scalar[a] # 0 /\ Set(n, native_scalar_invert(scalar[a]))
scalar_neg(n, a) == Set(n, native_scalar_neg(scalar[a]))
scalar_mul(n, a, b) == Set(n, native_scalar_mul(scalar[a], scalar[b]))
scalar_add(n, a, b) == Set(n, native_scalar_add(scalar[a], scalar[b]))
scalar_sub(n, a, b) == Set(n, native_scalar_sub(scalar[a], scalar[b]))

(* The ..._assign functions are the same calls with n = a.                  *)
ScalarsNext ==
    /\ scalar_status = "running"
    /\ \E n \in Names :
        \/ \E bytes \in Inputs : \/ new_scalar_from_bytes(n, bytes)
                                 \/ new_scalar_reduced_from_32_bytes(n, bytes)
        \/ \E bytes \in Wide : \/ new_scalar_uniform_from_64_bytes(n, bytes)
                               \/ new_scalar_from_sha2_512(n, bytes)
        \/ \E num \in 0 .. (U128 - 1) :
               \/ num < U8 /\ new_scalar_from_u8(n, num)
               \/ num < U64 /\ new_scalar_from_u64(n, num)
               \/ new_scalar_from_u128(n, num)
        \/ scalar_zero(n) \/ scalar_one(n)
        \/ \E a \in HeldScalars : \/ scalar_invert(n, a) \/ scalar_neg(n, a)
                           \/ \E b \in HeldScalars : \/ scalar_mul(n, a, b)
                                              \/ scalar_add(n, a, b)
                                              \/ scalar_sub(n, a, b)

ScalarsSpec == ScalarsInit /\ [][ScalarsNext]_scalar_vars

-----------------------------------------------------------------------------
ScalarsTypeOK == /\ scalar \in [Names -> Bytes \cup {Unset}]
          /\ scalar_status \in {"running", "violated"}

(* Every Move Scalar holds a canonical encoding, whichever constructors and *)
(* operations made it, so equality of bytes (scalar_equals) is equality of  *)
(* scalars and no native ever fails on its own arguments.                   *)
ScalarsAreCanonical ==
    /\ scalar_status = "running"
    /\ \A n \in HeldScalars : scalar[n] < Order

(* The scalars a program holds form a field: what a sequence of calls adds, *)
(* multiplies or negates, the inverse calls take away again.                *)
ScalarsFormAField ==
    \A a, b \in HeldScalars :
        LET x == scalar[a]  y == scalar[b] IN
        /\ native_scalar_add(native_scalar_sub(x, y), y) = x
        /\ native_scalar_add(x, native_scalar_neg(x)) = 0
        /\ x # 0 => native_scalar_mul(native_scalar_mul(y, x),
                                      native_scalar_invert(x)) = y
============================================================================
