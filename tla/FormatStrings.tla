--------------------------- MODULE FormatStrings ---------------------------
(***************************************************************************)
(* Texts of values as a module gets them from string_utils.move over        *)
(* natives/src/string_utils.rs.  format1 to format4: native_format_list     *)
(* reads the format character by character and replaces each {} by the next *)
(* value; these functions pass a list that ends with NIL.  to_string and    *)
(* its kin: a module formats values of one type, as code that keys or       *)
(* compares by the text does.                                               *)
(***************************************************************************)
EXTENDS StringUtils

CONSTANTS Characters,   \* of a format string: braces and others
          MaxFormat     \* bound: its length

VARIABLES fmt,          \* the format string
          given,        \* the values of the call: [layout, value]
          list,         \* those not yet used
          pos, in_braces, out,
          status        \* "running", "done" or the error

VARIABLES call,         \* the function of string_utils.move
          type,         \* [layout, values]: the type and the values it is used with
          shown         \* <<value, text>> for the values formatted so far

Flags == [type_tag |-> TRUE, canonicalize |-> FALSE, single_line |-> TRUE, include_int_type |-> FALSE]

Formats == UNION {[1..n -> Characters] : n \in 0..MaxFormat}
Init(formats, arguments) ==
  /\ fmt \in formats
  /\ given \in arguments /\ list = given
  /\ pos = 1 /\ in_braces = 0 /\ out = <<>> /\ status = "running"

Stop(error) == status' = error /\ UNCHANGED <<list, pos, in_braces, out>>
Push(c) == out' = Append(out, c) /\ in_braces' = 0 /\ pos' = pos + 1 /\ UNCHANGED <<list, status>>
Brace(n) == in_braces' = n /\ pos' = pos + 1 /\ UNCHANGED <<list, out, status>>

format_next ==
  IF list = <<>> THEN Stop(EARGS_MISMATCH)
  ELSE IF Head(list).layout = Delayed THEN Stop(EUNABLE_TO_FORMAT_DELAYED_FIELD)
  ELSE /\ out' = out \o native_format_impl(Flags, Head(list).layout, Head(list).value, 0)
       /\ list' = Tail(list) /\ in_braces' = 0 /\ pos' = pos + 1
       /\ UNCHANGED status

read_character(c) ==
  CASE in_braces = 1 /\ c = "}" -> format_next
    [] in_braces = 1 /\ c = "{" -> Push(c)
    [] in_braces = 1 /\ c \notin {"{", "}"} -> Stop(EINVALID_FORMAT)
    [] in_braces = -1 /\ c # "}" -> Stop(EINVALID_FORMAT)
    [] in_braces = 0 /\ c = "{" -> Brace(1)
    [] in_braces = 0 /\ c = "}" -> Brace(-1)
    [] OTHER -> Push(c)

Read == status = "running" /\ pos <= Len(fmt) /\ read_character(fmt[pos]) /\ UNCHANGED <<fmt, given>>
Finish ==
  /\ status = "running" /\ pos > Len(fmt)
  /\ status' = IF in_braces # 0 THEN EINVALID_FORMAT ELSE IF list # <<>> THEN EARGS_MISMATCH ELSE "done"
  /\ UNCHANGED <<fmt, given, list, pos, in_braces, out>>
Next == Read \/ Finish

---------------------------------------------------------------------------
Calls == {"to_string", "to_string_with_canonical_addresses", "to_string_with_integer_types", "debug_string"}
Formatted(value) ==
  CASE call = "to_string" -> to_string(type.layout, value)
    [] call = "to_string_with_canonical_addresses" -> to_string_with_canonical_addresses(type.layout, value)
    [] call = "to_string_with_integer_types" -> to_string_with_integer_types(type.layout, value)
    [] call = "debug_string" -> debug_string(type.layout, value)

ValuesInit(types) == call \in Calls /\ type \in types /\ shown = {}
Show ==
  /\ Cardinality(shown) < 2
  /\ \E value \in type.values : shown' = shown \cup {<<value, Text(Formatted(value))>>}
  /\ UNCHANGED <<call, type>>

---------------------------------------------------------------------------
\* What a format string may be made of: {} for a value, two braces for one, and other characters.
Pieces == {<<"{", "}">>, <<"{", "{">>, <<"}", "}">>} \cup {<<c>> : c \in Characters \ {"{", "}"}}
Readings == {p \in UNION {[1..n -> Pieces] : n \in 0..Len(fmt)} : FlattenSeq(p) = fmt}
Holes(p) == {i \in DOMAIN p : p[i] = <<"{", "}">>}
Filled(p) ==
  LET value(i) == given[Cardinality(Holes(p) \cap (1..i))]
  IN FlattenSeq([i \in DOMAIN p |->
       IF i \in Holes(p) THEN native_format_impl(Flags, value(i).layout, value(i).value, 0) ELSE <<p[i][1]>>])

\* A call succeeds exactly if its format can be read as pieces with one {} for each of its values,
\* none with a delayed field, and then yields their texts in order (string_utils.rs:native_format_list).
FormatFollowsTheGrammar ==
  status # "running" =>
    (status = "done" <=>
       /\ \A i \in DOMAIN given : given[i].layout # Delayed
       /\ \E p \in Readings : Cardinality(Holes(p)) = Len(given) /\ out = Filled(p))

\* Two values of a type have the same text only if they are equal: quoting, the marks of a closure's
\* open arguments and the names of variants leave no ambiguity (string_utils.rs:native_format_impl).
TextTellsValuesApart ==
  \A s, t \in shown : s[2] = t[2] => s[1] = t[1]

\* An integer formatted with integer types carries its type (string_utils.move:28, "Format emitting
\* integers with types").
IntegersCarryTheirType ==
  call = "to_string_with_integer_types" /\ type.layout.k = "int" =>
    \A s \in shown : s[2] = ToString(s[1]) \o type.layout.type
=============================================================================
