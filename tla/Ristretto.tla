----------------------------- MODULE Ristretto -----------------------------
(***************************************************************************)
(* Ristretto points (natives/src/cryptography/ristretto255_point.rs behind *)
(* aptos_std::ristretto255).  A Move RistrettoPoint is a u64 HANDLE into a *)
(* vector of points the native context keeps for one session: a call       *)
(* appends its result and returns the index, or overwrites the slot of its *)
(* first argument ("in place").  Two Move variables must therefore never   *)
(* share a handle, and a handle must not outlive its session; what goes to *)
(* storage is the compressed point.                                        *)
(*                                                                         *)
(* The group is the integers modulo Order (k stands for k * basepoint), a  *)
(* scalar is a residue (module RistrettoScalars keeps them canonical), and *)
(* an encoding is the residue it encodes or NotAPoint.  NumPointsLimit     *)
(* stands for NUM_POINTS_LIMIT = 10000.                                    *)
(***************************************************************************)
EXTENDS RistrettoScalars, SequencesExt

CONSTANTS NumPointsLimit, NotAPoint, Aborted,
          MaxTerms      \* bound: points of a multi-scalar product

(* The calls of a script, as documented.                                   *)
Documented ==
    [op : {"combine"}, to : Names, base : Int, terms : Seq(Int \X Names), fresh : BOOLEAN]
    \cup [op : {"load"}, to : Names] \cup [op : {"save"}, from : Names]
    \cup [op : {"equals"}, left : Names, right : Names, result : BOOLEAN]

ASSUME PointsAssumption ==
    /\ NumPointsLimit \in Nat /\ MaxTerms \in Nat
    /\ NotAPoint \notin Int \cup {Unset}
    /\ Aborted \notin [points : Seq(Int), handle : Int]
    /\ Unset \notin Documented

VARIABLES points,     \* PointStore.points
          handle,     \* the handle each Move variable wraps, or Unset
          stored,     \* the CompressedRistretto in global storage, or Unset
          status,     \* "running", "done", "aborted" or "panicked"
          call        \* history: the last call, as documented

point_vars == <<points, handle, stored, status, call>>

Group == 0 .. (Order - 1)
Scalars == Group
Encodings == Group \cup {NotAPoint}
InvalidHandle == NumPointsLimit + 1     \* u64::MAX

-----------------------------------------------------------------------------
(* PointStore.  A native returns the store and a handle, or Aborted.       *)
Result(pts, h) == [points |-> pts, handle |-> h]
Has(pts, h) == h < Len(pts)
get_point(pts, h) == pts[h + 1]
set_point(pts, h, p) == [pts EXCEPT ![h + 1] = p % Order]

safe_add_point(pts, p) ==
    IF Len(pts) >= NumPointsLimit THEN Aborted
    ELSE Result(Append(pts, p % Order), Len(pts))

(* An index the store does not hold aborts, whatever is done with it.      *)
With(pts, hs, r) == IF \A h \in hs : Has(pts, h) THEN r ELSE Aborted

(* get_two_muts: both slots, which must be different ones.                 *)
get_two_muts(pts, a, b, r) == IF a = b THEN Aborted ELSE With(pts, {a, b}, r)

native_point_identity(pts) == safe_add_point(pts, 0)

(* decompress_maybe_non_canonical_point_bytes: 32 bytes that encode a point *)
encodes_a_point(bytes) == bytes # NotAPoint

native_point_is_canonical(bytes) == encodes_a_point(bytes)

native_point_decompress(pts, bytes) ==
    IF encodes_a_point(bytes) THEN safe_add_point(pts, bytes)
    ELSE Result(pts, InvalidHandle)

\* Mutant: the clone is the same handle.
SharesTheSlot(pts, h) == With(pts, {h}, Result(pts, h))
native_point_clone(pts, h) ==
    With(pts, {h}, safe_add_point(pts, get_point(pts, h)))

native_point_compress(pts, h) == get_point(pts, h)

native_point_mul(pts, h, a, in_place) ==
    With(pts, {h},
         IF in_place THEN Result(set_point(pts, h, get_point(pts, h) * a), h)
         ELSE safe_add_point(pts, get_point(pts, h) * a))

native_point_equals(pts, g, h) == get_point(pts, g) = get_point(pts, h)

native_point_neg(pts, h, in_place) ==
    With(pts, {h},
         IF in_place THEN Result(set_point(pts, h, -get_point(pts, h)), h)
         ELSE safe_add_point(pts, -get_point(pts, h)))

native_point_add(pts, a, b, in_place) ==
    LET sum == get_point(pts, a) + get_point(pts, b) IN
    IF in_place THEN get_two_muts(pts, a, b, Result(set_point(pts, a, sum), a))
    ELSE With(pts, {a, b}, safe_add_point(pts, sum))

native_point_sub(pts, a, b, in_place) ==
    LET difference == get_point(pts, a) - get_point(pts, b) IN
    IF in_place
    THEN get_two_muts(pts, a, b, Result(set_point(pts, a, difference), a))
    ELSE With(pts, {a, b}, safe_add_point(pts, difference))

native_basepoint_mul(pts, a) == safe_add_point(pts, a)

native_basepoint_double_mul(pts, a, h, b) ==
    With(pts, {h}, safe_add_point(pts, a * get_point(pts, h) + b))

(* Hashing to the group: any point, as far as the caller can tell.         *)
native_new_point_from_sha512(pts, p) == safe_add_point(pts, p)
native_new_point_from_64_uniform_bytes(pts, p) == safe_add_point(pts, p)

(* The handles come before the scalars, unlike the Move wrapper's pairs.   *)
native_double_scalar_mul(pts, h1, h2, a1, a2) ==
    With(pts, {h1, h2}, safe_add_point(pts, a1 * get_point(pts, h1)
                                            + a2 * get_point(pts, h2)))

(* The rounded-down logarithm the gas of a multi-scalar product divides by. *)
bit_length[n \in Nat] == IF n = 0 THEN 0 ELSE bit_length[n \div 2] + 1
log2_floor(n) == IF n = 0 THEN Unset ELSE bit_length[n] - 1
log2_ceil(n) == CASE n = 0 -> Unset
                  [] n = 1 -> 0
                  [] OTHER -> log2_floor(n - 1) + 1

msm_divisor(num) == log2_floor(num + 1)

native_multi_scalar_mul(pts, hs, as) ==
    With(pts, ToSet(hs),
         safe_add_point(pts, SumFunction(
             [i \in DOMAIN as |-> as[i] * get_point(pts, hs[i])])))

-----------------------------------------------------------------------------
Nobody == [n \in Names |-> Unset]
Held == {n \in Names : handle[n] # Unset}

PointsInit ==
    /\ points = <<>> /\ handle = Nobody /\ stored = Unset
    /\ status = "done" /\ call = Unset

(* NativeRistrettoPointContext::start                                      *)
Clear == points' = <<>>
StartSession ==
    /\ status \in {"done", "aborted"} /\ Clear
    /\ handle' = Nobody /\ status' = "running" /\ call' = Unset
    /\ UNCHANGED stored

(* The script ends, by itself or by an abort: its variables are gone, the  *)
(* points stay until the next start.                                       *)
Ends(how) == /\ status' = how /\ handle' = Nobody /\ call' = Unset
             /\ UNCHANGED <<points, stored>>
EndSession == status = "running" /\ Ends("done")

Doc(to, base, terms, fresh) ==
    [op |-> "combine", to |-> to, base |-> base, terms |-> terms,
     fresh |-> fresh]

(* `RistrettoPoint { handle: ... }': n becomes the point the native made.  *)
Fresh(n, r, c) ==
    IF r = Aborted THEN Ends("aborted")
    ELSE /\ points' = r.points /\ handle' = [handle EXCEPT ![n] = r.handle]
         /\ call' = c /\ UNCHANGED <<stored, status>>

(* `..._internal(.., true); a': the returned handle is ignored.            *)
Assign(r, c) ==
    IF r = Aborted THEN Ends("aborted")
    ELSE /\ points' = r.points /\ call' = c
         /\ UNCHANGED <<handle, stored, status>>

point_identity(n) ==
    Fresh(n, native_point_identity(points), Doc(n, 0, <<>>, TRUE))

basepoint_mul(n, a) ==
    Fresh(n, native_basepoint_mul(points, a), Doc(n, a, <<>>, TRUE))

(* basepoint(): decompresses the encoding of the base point.               *)
basepoint(n) ==
    Fresh(n, native_point_decompress(points, 1), Doc(n, 1, <<>>, TRUE))

basepoint_double_mul(n, a, m, b) ==
    Fresh(n, native_basepoint_double_mul(points, a, handle[m], b),
          Doc(n, b, <<<<a, m>>>>, TRUE))

new_point_from_sha2_512(n, p) ==
    Fresh(n, native_new_point_from_sha512(points, p), Doc(n, p, <<>>, TRUE))

(* Only 64 bytes make a point: other lengths are `none'.                   *)
new_point_from_64_uniform_bytes(n, p, length) ==
    /\ length = 64
    /\ Fresh(n, native_new_point_from_64_uniform_bytes(points, p),
             Doc(n, p, <<>>, TRUE))

(* `none' when the bytes encode no point: the handle is dropped.           *)
new_point_from_bytes(n, bytes) ==
    LET r == native_point_decompress(points, bytes) IN
    /\ r # Result(points, InvalidHandle)
    /\ Fresh(n, r, Doc(n, bytes, <<>>, TRUE))

point_clone(n, m) ==
    Fresh(n, native_point_clone(points, handle[m]),
          Doc(n, 0, <<<<1, m>>>>, TRUE))

point_mul(n, m, a) ==
    Fresh(n, native_point_mul(points, handle[m], a, FALSE),
          Doc(n, 0, <<<<a, m>>>>, TRUE))
point_mul_assign(m, a) ==
    Assign(native_point_mul(points, handle[m], a, TRUE),
           Doc(m, 0, <<<<a, m>>>>, FALSE))

point_neg(n, m) ==
    Fresh(n, native_point_neg(points, handle[m], FALSE),
          Doc(n, 0, <<<<-1, m>>>>, TRUE))
point_neg_assign(m) ==
    Assign(native_point_neg(points, handle[m], TRUE),
           Doc(m, 0, <<<<-1, m>>>>, FALSE))

point_add(n, a, b) ==
    Fresh(n, native_point_add(points, handle[a], handle[b], FALSE),
          Doc(n, 0, <<<<1, a>>, <<1, b>>>>, TRUE))
point_sub(n, a, b) ==
    Fresh(n, native_point_sub(points, handle[a], handle[b], FALSE),
          Doc(n, 0, <<<<1, a>>, <<-1, b>>>>, TRUE))

(* `&mut a' and `&b' cannot be the same variable.                          *)
point_add_assign(a, b) ==
    /\ a # b
    /\ Assign(native_point_add(points, handle[a], handle[b], TRUE),
              Doc(a, 0, <<<<1, a>>, <<1, b>>>>, FALSE))
point_sub_assign(a, b) ==
    /\ a # b
    /\ Assign(native_point_sub(points, handle[a], handle[b], TRUE),
              Doc(a, 0, <<<<1, a>>, <<-1, b>>>>, FALSE))

double_scalar_mul(n, a1, m1, a2, m2) ==
    Fresh(n, native_double_scalar_mul(points, handle[m1], handle[m2], a1, a2),
          Doc(n, 0, <<<<a1, m1>>, <<a2, m2>>>>, TRUE))

(* The vector owns its points, so its elements are different variables.    *)
multi_scalar_mul(n, ms, as) ==
    /\ Len(ms) = Len(as) /\ Len(ms) > 0
    /\ IF msm_divisor(Len(as)) = 0 THEN Ends("panicked")
       ELSE Fresh(n, native_multi_scalar_mul(points,
                         [i \in DOMAIN ms |-> handle[ms[i]]], as),
                  Doc(n, 0, [i \in DOMAIN ms |-> <<as[i], ms[i]>>], TRUE))

point_equals(g, h) ==
    /\ call' = [op |-> "equals", left |-> g, right |-> h,
                result |-> native_point_equals(points, handle[g], handle[h])]
    /\ UNCHANGED <<points, handle, stored, status>>

(* point_compress, and the compressed point is moved to storage.           *)
point_compress(m) ==
    /\ stored' = native_point_compress(points, handle[m])
    /\ call' = [op |-> "save", from |-> m]
    /\ UNCHANGED <<points, handle, status>>

(* new_compressed_point_from_bytes: what storage holds was checked once,   *)
(* when the bytes came in; here the bytes name the point that m holds.     *)
new_compressed_point_from_bytes(m, bytes) ==
    /\ native_point_is_canonical(bytes)
    /\ bytes = NotAPoint \/ bytes = get_point(points, handle[m])
    /\ stored' = bytes
    /\ call' = [op |-> "save", from |-> m]
    /\ UNCHANGED <<points, handle, status>>

(* point_decompress of the stored point takes its handle unchecked.        *)
point_decompress(n) ==
    /\ stored # Unset
    /\ Fresh(n, native_point_decompress(points, stored),
             [op |-> "load", to |-> n])

-----------------------------------------------------------------------------
Constructors(n) ==
    \/ point_identity(n) \/ basepoint(n) \/ point_decompress(n)
    \/ \E a \in Scalars : basepoint_mul(n, a)
    \/ \E p \in Group : new_point_from_sha2_512(n, p)
    \/ \E p \in Group, length \in {63, 64} :
           new_point_from_64_uniform_bytes(n, p, length)
    \/ \E bytes \in Encodings : new_point_from_bytes(n, bytes)

Unary(n, m) ==
    \/ point_clone(n, m) \/ point_neg(n, m)
    \/ n = m /\ (point_neg_assign(m) \/ point_compress(m))
    \/ n = m /\ \E bytes \in Encodings :
                    new_compressed_point_from_bytes(m, bytes)
    \/ \E a \in Scalars : \/ point_mul(n, m, a)
                          \/ n = m /\ point_mul_assign(m, a)
    \/ \E a, b \in Scalars : basepoint_double_mul(n, a, m, b)

Binary(n, l, m) ==
    \/ point_add(n, l, m) \/ point_sub(n, l, m)
    \/ n = l /\ ( \/ point_add_assign(l, m)
                  \/ point_sub_assign(l, m)
                  \/ point_equals(l, m) )
    \/ \E a, b \in Scalars : double_scalar_mul(n, a, l, b, m)

Many(n) == \E ms \in SeqOf(Held, MaxTerms) : \E as \in SeqOf(Scalars, MaxTerms) :
               IsInjective(ms) /\ multi_scalar_mul(n, ms, as)

PointsNext ==
    \/ StartSession \/ EndSession
    \/ /\ status = "running"
       /\ \E n \in Names :
              \/ Constructors(n) \/ Many(n)
              \/ \E m \in Held : Unary(n, m)
              \/ \E l, m \in Held : Binary(n, l, m)

PointsSpec == PointsInit /\ [][PointsNext]_point_vars

-----------------------------------------------------------------------------
PointsTypeOK ==
    /\ points \in SeqOf(Group, NumPointsLimit)
    /\ handle \in [Names -> 0 .. InvalidHandle \cup {Unset}]
    /\ stored \in Encodings \cup {Unset}
    /\ status \in {"running", "done", "aborted", "panicked"}

(* "our own invariants ensure we never have two different Move              *)
(* RistrettoPoint structs constructed with the same handles"               *)
(* (ristretto255_point.rs, native_point_add): every variable has a slot of  *)
(* its own, of THIS session's store.                                       *)
HandlesAreLiveAndUnique ==
    /\ \A n \in Held : Has(points, handle[n])
    /\ \A n, m \in Held : n # m => handle[n] # handle[m]

two_to[k \in Nat] == IF k = 0 THEN 1 ELSE 2 * two_to[k - 1]

(* The gas of a multi-scalar product never divides by zero, and the two    *)
(* logarithms bracket their argument.                                      *)
GasIsDefined ==
    /\ status # "panicked"
    /\ \A n \in 1 .. 40 :
           /\ two_to[log2_floor(n)] <= n /\ n <= two_to[log2_ceil(n)]
           /\ log2_ceil(n) - log2_floor(n) = (IF two_to[log2_floor(n)] = n THEN 0 ELSE 1)

(* The handle machinery is invisible: a Move program sees variables that    *)
(* hold points, changed one at a time and only by the documented           *)
(* combination (module RistrettoValues).                                   *)
ValueOf(n) == IF handle[n] = Unset THEN Unset
              ELSE IF Has(points, handle[n]) THEN get_point(points, handle[n])
              ELSE NotAPoint
AsValues == INSTANCE RistrettoValues WITH
                value <- [n \in Names |-> ValueOf(n)],
                created <- Len(points),
                Limit <- NumPointsLimit
ValueSemantics == AsValues!Values

(* A script holds points and scalars in its variables.  Points behave as    *)
(* values although they are handles into a store that is cleared when a     *)
(* session starts, and scalars stay canonical and form a field              *)
(* (ristretto255_point.rs, ristretto255_scalar.rs).                         *)
PointsAndScalarsAreValues ==
    /\ ValueSemantics
    /\ [](PointsTypeOK /\ HandlesAreLiveAndUnique /\ GasIsDefined)
    /\ [](ScalarsTypeOK /\ ScalarsAreCanonical /\ ScalarsFormAField)
============================================================================
