---------------------------- MODULE StringUtils ----------------------------
(***************************************************************************)
(* The text of a Move value (natives/src/string_utils.rs, with              *)
(* string_utils.move): a sequence of pieces, written by the value's layout. *)
(* Bytes are numbers, addresses sequences of hexadecimal digits, and a type *)
(* that holds a delayed field has the layout Delayed; closures capture      *)
(* none.  The limits on depth and length, which no caller sets, and gas are *)
(* left out, and a signer has the format of the fixed native.               *)
(***************************************************************************)
EXTENDS Integers, TLC, FiniteSets, SequencesExt

EARGS_MISMATCH == "EARGS_MISMATCH"
EINVALID_FORMAT == "EINVALID_FORMAT"
EUNABLE_TO_FORMAT_DELAYED_FIELD == "EUNABLE_TO_FORMAT_DELAYED_FIELD"

\* Layouts.  Fields are [name, layout], variants [name, fields].
BoolLayout == [k |-> "bool"]
IntLayout(type) == [k |-> "int", type |-> type]
AddressLayout == [k |-> "address"]
SignerLayout == [k |-> "signer"]
StringLayout == [k |-> "string"]
VectorOf(l) == [k |-> "vector", of |-> l]
OptionOf(l) == [k |-> "option", of |-> l]
StructOf(name, fields) == [k |-> "struct", name |-> name, fields |-> fields]
EnumOf(variants) == [k |-> "enum", variants |-> variants]
FunctionLayout == [k |-> "function"]   \* of values [fun, layouts, mask, args]
Delayed == [k |-> "delayed"]

primitive_type(layout) == layout.k \notin {"vector", "struct", "string", "option", "enum"}
print_space_or_newline(newline, depth) ==
  IF newline THEN <<"\n">> \o [i \in 1..depth |-> "  "] ELSE <<" ">>

\* Mutant: quotes and backslashes are not escaped.
as_is(s) == s
bytes_as_escaped_string(s) ==
  FlattenSeq([i \in DOMAIN s |-> IF s[i] \in {"\\", "\""} THEN <<"\\", s[i]>> ELSE <<s[i]>>])

RECURSIVE native_format_impl(_, _, _, _)

\* Elements with their names between the brackets of a vector or a struct.
format_vector(flags, names, layouts, values, depth, newline) ==
  LET element(i) == (IF i > 1 THEN <<",">> ELSE <<>>) \o print_space_or_newline(newline, depth + 1)
                    \o names[i] \o native_format_impl(flags, layouts[i], values[i], depth + 1)
  IN IF values = <<>> THEN <<>>
     ELSE FlattenSeq([i \in DOMAIN values |-> element(i)]) \o print_space_or_newline(newline, depth)
format_fields(flags, fields, values, depth) ==
  format_vector(flags, [i \in DOMAIN fields |-> <<fields[i].name, ": ">>],
                [i \in DOMAIN fields |-> fields[i].layout], values, depth, ~flags.single_line)

\* A closure shows `_' for an argument it leaves open, up to its last captured one, then `..'.
format_closure_captured_arguments(flags, value, depth) ==
  LET nth(i) == Cardinality({j \in 1..i : value.mask[j]})
      argument(i) == IF value.mask[i] THEN native_format_impl(flags, value.layouts[nth(i)], value.args[nth(i)], depth + 1)
                     ELSE <<"_">>
  IN FlattenSeq([i \in DOMAIN value.mask |->
       argument(i) \o <<",">> \o print_space_or_newline(~flags.single_line, depth + 1)]) \o <<"..">>

format_address(flags, digits) ==
  LET first == CHOOSE i \in DOMAIN digits :
                 /\ digits[i] # "0" \/ i = Len(digits)
                 /\ \A j \in 1..(i - 1) : digits[j] = "0"
  IN IF flags.canonicalize THEN digits ELSE <<"0x">> \o SubSeq(digits, first, Len(digits))
format_integer(flags, layout, value) ==
  <<ToString(value)>> \o (IF flags.include_int_type THEN <<layout.type>> ELSE <<>>)
format_bytes(value) ==
  LET hex == <<"0", "1", "2", "3", "4", "5", "6", "7", "8", "9", "a", "b", "c", "d", "e", "f">>
  IN <<"0x">> \o FlattenSeq([i \in DOMAIN value |-> <<hex[(value[i] \div 16) + 1], hex[(value[i] % 16) + 1]>>])
format_values(flags, of, values, depth) ==
  <<"[">> \o format_vector(flags, [i \in DOMAIN values |-> <<>>], [i \in DOMAIN values |-> of], values, depth,
                           ~flags.single_line /\ ~primitive_type(of)) \o <<"]">>
format_enum_option(flags, layout, value, depth) ==
  IF value = <<>> THEN <<"None">> ELSE <<"Some(">> \o native_format_impl(flags, layout.of, value[1], depth) \o <<")">>
format_struct(flags, layout, value, depth) ==
  (IF flags.type_tag THEN <<"0x1::m::">> ELSE <<>>) \o <<layout.name, " {">>
  \o format_fields(flags, layout.fields, value, depth) \o <<"}">>
format_variant(flags, layout, value, depth) ==
  LET variant == layout.variants[value.tag + 1]
  IN <<variant.name, "{">> \o format_fields(flags, variant.fields, value.elems, depth) \o <<"}">>
format_closure(flags, value, depth) ==
  <<value.fun, "(">>
  \o (IF value.layouts = <<>> THEN <<>> ELSE format_closure_captured_arguments(flags, value, depth)) \o <<")">>

native_format_impl(flags, layout, value, depth) ==
  CASE layout.k = "bool" -> <<ToString(value)>>
    [] layout.k = "int" -> format_integer(flags, layout, value)
    [] layout.k = "address" -> <<"@">> \o format_address(flags, value)
    [] layout.k = "signer" -> <<"signer(@">> \o format_address(flags, value) \o <<")">>
    [] layout.k = "vector" -> IF layout.of = IntLayout("u8") THEN format_bytes(value)
                              ELSE format_values(flags, layout.of, value, depth)
    [] layout.k = "string" -> <<"\"">> \o bytes_as_escaped_string(value) \o <<"\"">>
    [] layout.k = "option" -> format_enum_option(flags, layout, value, depth)
    [] layout.k = "struct" -> format_struct(flags, layout, value, depth)
    [] layout.k = "enum" -> format_variant(flags, layout, value, depth)
    [] layout.k = "function" -> format_closure(flags, value, depth)

native_format(layout, value, type_tag, canonicalize, single_line, include_int_type) ==
  IF layout = Delayed THEN <<EUNABLE_TO_FORMAT_DELAYED_FIELD>>
  ELSE native_format_impl([type_tag |-> type_tag, canonicalize |-> canonicalize, single_line |-> single_line,
                           include_int_type |-> include_int_type], layout, value, 0)

to_string(layout, value) == native_format(layout, value, FALSE, FALSE, TRUE, FALSE)
to_string_with_canonical_addresses(layout, value) == native_format(layout, value, FALSE, TRUE, TRUE, FALSE)
to_string_with_integer_types(layout, value) == native_format(layout, value, FALSE, TRUE, TRUE, FALSE)
debug_string(layout, value) == native_format(layout, value, TRUE, FALSE, FALSE, FALSE)

\* The characters of a text.
Text(pieces) == FoldLeft(LAMBDA a, b : a \o b, "", pieces)
=============================================================================
