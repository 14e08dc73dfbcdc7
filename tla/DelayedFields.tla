--------------------------- MODULE DelayedFields ---------------------------
(***************************************************************************)
(* Aggregators of the second kind, snapshots and derived strings           *)
(* (natives/src/aggregator_natives/aggregator_v2.rs, helpers_v2.rs).       *)
(* Each native has two bodies: with the optimization a field holds an      *)
(* identifier, and the session collects what happens to it; without, the   *)
(* field holds the value.  Here both run side by side, the one with the    *)
(* value a speculative execution was shown, the other with the value that  *)
(* is committed before the transaction.                                    *)
(*                                                                         *)
(* The session's DelayedFieldData and the validation of a speculative      *)
(* execution are outside this repository; they are modelled from their use *)
(* here and from the tests in context.rs.                                  *)
(***************************************************************************)
EXTENDS Integers, Sequences

CONSTANTS U64Max, U128Max,     \* the largest values of the two types, scaled down
          MaxValue,            \* the limit of the aggregator in storage
          Inputs,              \* what is added, subtracted and compared with
          Lengths,             \* lengths of strings
          MaxLength,           \* DERIVED_STRING_INPUT_MAX_LENGTH
          MaxFields,           \* bound: fields made by the transaction
          MaxFieldCalls,       \* bound: calls that change an aggregator or its history
          NoNumber             \* no delta, or the value of a string that is not derived from one

ASSUME DelayedFieldsAssumption ==
  /\ U64Max \in Nat /\ U128Max \in Nat /\ U64Max <= U128Max
  /\ MaxValue \in 0 .. U64Max
  /\ Inputs \subseteq 0 .. U128Max /\ Lengths \subseteq Nat
  /\ MaxLength \in Nat /\ MaxFields \in Nat /\ MaxFieldCalls \in Nat
  /\ NoNumber \notin Int

VARIABLES
  base,       \* the aggregator's value when the transaction is committed
  shown,      \* its value as the speculative execution was shown it
  history,    \* what the execution found out about its value
  delayed,    \* the fields in DelayedFieldData; the first is the aggregator in storage
  direct,     \* the same fields, by value
  agree,      \* has every call returned the same in both?
  count       \* calls so far

field_vars == <<base, shown, history, delayed, direct, agree, count>>

Larger(a, b) == IF a > b THEN a ELSE b
Smaller(a, b) == IF a < b THEN a ELSE b

-----------------------------------------------------------------------------
(* DelayedFieldData *)

\* The largest and the smallest delta that were possible, the smallest and the largest that were
\* not, and whether the value itself was used.
Untouched == [top |-> 0, bottom |-> 0, overflow |-> NoNumber, underflow |-> NoNumber, read |-> FALSE]

Valid(h, value) ==
  /\ value + h.top <= MaxValue /\ value + h.bottom >= 0
  /\ h.overflow # NoNumber => value + h.overflow > MaxValue
  /\ h.underflow # NoNumber => value + h.underflow < 0
  /\ h.read => value = shown

\* A field depends on the aggregator in storage ("Delta") or has its value ("Value").
Aggregator(max, value) == [kind |-> "Aggregator", max |-> max, form |-> "Value", value |-> value]
Snapshot(form, value) == [kind |-> "Snapshot", form |-> form, value |-> value]
Derived(form, value, prefix, suffix) ==
  [kind |-> "Derived", form |-> form, value |-> value, prefix |-> prefix, suffix |-> suffix]

Known(field, value) == IF field.form = "Delta" THEN value + field.value ELSE field.value

Fits(field, n) == Known(field, shown) + n \in 0 .. field.max

Recorded(field, n) ==
  LET d == field.value + n
  IN  IF field.form = "Value" THEN history
      ELSE IF Fits(field, n) THEN [history EXCEPT !.top = Larger(history.top, d),
                                                  !.bottom = Smaller(history.bottom, d)]
      ELSE IF n > 0 THEN [history EXCEPT !.overflow = IF history.overflow = NoNumber THEN d
                                                      ELSE Smaller(history.overflow, d)]
      ELSE [history EXCEPT !.underflow = IF history.underflow = NoNumber THEN d
                                         ELSE Larger(history.underflow, d)]

TryAddOrCheckDelta(i, n, apply) ==
  LET field == delayed[i]
  IN  /\ history' = Recorded(field, n)
      /\ delayed' = IF apply /\ Fits(field, n) THEN [delayed EXCEPT ![i].value = field.value + n]
                                               ELSE delayed

\* Reading needs the value the delta is applied to.
UseBase(field) == history' = IF field.form = "Delta" THEN [history EXCEPT !.read = TRUE]
                                                     ELSE history

-----------------------------------------------------------------------------
FieldsInit ==
  /\ base \in 0 .. MaxValue
  /\ shown \in 0 .. MaxValue
  /\ history = Untouched
  /\ delayed = <<[Aggregator(MaxValue, 0) EXCEPT !.form = "Delta"]>>
  /\ direct = <<Aggregator(MaxValue, base)>>
  /\ agree = TRUE
  /\ count = 0

Ids(kind) == {i \in DOMAIN delayed : delayed[i].kind = kind}

Returns(in_delayed, in_direct) == agree' = (agree /\ in_delayed = in_direct)

Called == count < MaxFieldCalls /\ count' = count + 1

Create(in_delayed, in_direct) ==
  /\ Len(delayed) <= MaxFields
  /\ delayed' = Append(delayed, in_delayed)
  /\ direct' = Append(direct, in_direct)
  /\ UNCHANGED <<history, agree, count>>

UnboundedMax(type) == IF type = "u64" THEN U64Max ELSE U128Max

CreateAggregator(max) == Create(Aggregator(max, 0), Aggregator(max, 0))

CreateUnboundedAggregator(type) == CreateAggregator(UnboundedMax(type))

BoundedMath(i, n) == direct[i].value + n \in 0 .. direct[i].max

TryAdd(i, n) ==
  /\ Called
  /\ TryAddOrCheckDelta(i, n, TRUE)
  /\ direct' = IF BoundedMath(i, n) THEN [direct EXCEPT ![i].value = direct[i].value + n]
                                    ELSE direct
  /\ Returns(Fits(delayed[i], n), BoundedMath(i, n))

\* Mutant: the value is not set.
TrySubUnset(i, n) ==
  /\ Called
  /\ TryAddOrCheckDelta(i, -n, TRUE)
  /\ UNCHANGED direct
  /\ Returns(Fits(delayed[i], -n), BoundedMath(i, -n))

TrySub(i, n) ==
  /\ Called
  /\ TryAddOrCheckDelta(i, -n, TRUE)
  /\ direct' = IF BoundedMath(i, -n) THEN [direct EXCEPT ![i].value = direct[i].value - n]
                                     ELSE direct
  /\ Returns(Fits(delayed[i], -n), BoundedMath(i, -n))

IsAtLeast(i, n) ==
  /\ Called
  /\ TryAddOrCheckDelta(i, -n, FALSE)
  /\ UNCHANGED direct
  /\ Returns(Fits(delayed[i], -n), BoundedMath(i, -n))

Read(i) ==
  /\ UseBase(delayed[i])
  /\ Returns(Known(delayed[i], shown), direct[i].value)
  /\ UNCHANGED <<delayed, direct, count>>

NativeSnapshot(i) == Create(Snapshot(delayed[i].form, delayed[i].value),
                            Snapshot("Value", direct[i].value))

CreateSnapshot(value) == Create(Snapshot("Value", value), Snapshot("Value", value))

ReadSnapshot(i) == Read(i)

CreateDerivedString(length) ==
  /\ length <= MaxLength
  /\ Create(Derived("Value", NoNumber, length, 0), Derived("Value", NoNumber, length, 0))

DeriveStringConcat(prefix, i, suffix) ==
  /\ prefix + suffix <= MaxLength
  /\ Create(Derived(delayed[i].form, delayed[i].value, prefix, suffix),
            Derived("Value", direct[i].value, prefix, suffix))

\* The string as a function of the snapshot's value.
Formula(field, value) == <<field.prefix, Known(field, value), field.suffix>>

ReadDerivedString(i) ==
  /\ UseBase(delayed[i])
  /\ Returns(Formula(delayed[i], shown), Formula(direct[i], base))
  /\ UNCHANGED <<delayed, direct, count>>

FieldsNext ==
  /\ UNCHANGED <<base, shown>>
  /\ \/ \E max \in Inputs : CreateAggregator(max)
     \/ \E type \in {"u64", "u128"} : CreateUnboundedAggregator(type)
     \/ \E value \in Inputs : CreateSnapshot(value)
     \/ \E l \in Lengths : CreateDerivedString(l)
     \/ \E i \in Ids("Aggregator"), n \in Inputs : TryAdd(i, n) \/ TrySub(i, n) \/ IsAtLeast(i, n)
     \/ \E i \in Ids("Aggregator") : Read(i) \/ NativeSnapshot(i)
     \/ \E i \in Ids("Snapshot") : ReadSnapshot(i)
     \/ \E i \in Ids("Snapshot"), p, s \in Lengths : DeriveStringConcat(p, i, s)
     \/ \E i \in Ids("Derived") : ReadDerivedString(i)

FieldsSpec == FieldsInit /\ [][FieldsNext]_field_vars

-----------------------------------------------------------------------------
(* Properties *)

Field(max) == [kind : {"Aggregator"}, max : {MaxValue, U64Max, U128Max} \cup Inputs,
               form : {"Value", "Delta"}, value : -max .. max]
          \cup [kind : {"Snapshot"}, form : {"Value", "Delta"}, value : -max .. max]
          \cup [kind : {"Derived"}, form : {"Value", "Delta"}, value : -max .. max \cup {NoNumber},
                prefix : 0 .. MaxLength, suffix : 0 .. MaxLength]

FieldsTypeOK ==
  /\ base \in 0 .. MaxValue /\ shown \in 0 .. MaxValue
  /\ history.top \in 0 .. MaxValue /\ history.bottom \in -MaxValue .. 0
  /\ delayed \in Seq(Field(U128Max)) /\ direct \in Seq(Field(U128Max))
  /\ \A i \in Ids("Aggregator") : Known(delayed[i], shown) \in 0 .. delayed[i].max
  /\ agree \in BOOLEAN /\ count \in 0 .. MaxFieldCalls

\* When what the speculative execution found out is true of the committed value, every call
\* returned what it returns without the optimization.
ValidatedRunsAgree == Valid(history, base) => agree

\* Then the fields, exchanged for their values, are those of an execution without it.
CommittedFieldsAgree ==
  Valid(history, base) =>
    \A i \in DOMAIN delayed : /\ Known(delayed[i], base) = direct[i].value
                              /\ delayed[i].kind = direct[i].kind

\* The optimization pays: only a value that was read, or a call that returns something else,
\* makes an execution be repeated.
NoNeedlessReexecution == agree /\ ~history.read => Valid(history, base)

\* A speculative execution with delayed fields that is found valid returned, and leaves, what an
\* execution with the values does; one that read nothing is not repeated without need
\* (aggregator_natives/aggregator_v2.rs, context.rs).
DelayedFieldsAreExact ==
  FieldsTypeOK /\ ValidatedRunsAgree /\ CommittedFieldsAgree /\ NoNeedlessReexecution
=============================================================================
