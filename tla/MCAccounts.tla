----------------------------- MODULE MCAccounts -----------------------------
(* What users do with their accounts, side by side: applications and their  *)
(* grants (POC), transactions numbered by nonces and by sequence numbers,   *)
(* objects, permissioned signers, and the texts the string natives make of  *)
(* values.  They share no state here, so each behaviour is one `part' and   *)
(* leaves the others alone.                                                 *)
EXTENDS Poc, TransactionValidation, Objects, PermissionedSigners, TLC

CONSTANTS c1, c2, t1, t2, u, v    \* model values

VARIABLES
  part,
  fmt, given, list, pos, in_braces, out, status,
  call, type, shown

Format == INSTANCE FormatStrings WITH Characters <- {"{", "}", "x"}, MaxFormat <- 5
format_vars == <<fmt, given, list, pos, in_braces, out, status>>
value_vars == <<call, type, shown>>
mc_vars == <<part, vars, validation_vars, object_vars, signer_vars, format_vars, value_vars>>

-----------------------------------------------------------------------------
(* Applications: the hooks of the second token keep one unit of every       *)
(* transfer; each custody can pay for one grant, and c1 may pass on what c2 *)
(* grants it.                                                               *)
SecondTokenHasFee == t1 :> 0 @@ t2 :> 1
BothAreFunded == c1 :> 1 @@ c2 :> 1

(* Transactions: two nonces of one sender and one of another, all in one    *)
(* bucket; then two sequence numbers, paid by the sender or by the other.   *)
txn(sender, payer, orderless, number, expiration, max_fee) ==
  [sender |-> sender, payer |-> payer, orderless |-> orderless, number |-> number, expiration |-> expiration,
   max_fee |-> max_fee]
NonceTransactions ==
  {txn(1, 1, TRUE, n, e, 0) : n \in {7, 8}, e \in 1..6} \cup {txn(2, 1, TRUE, 7, e, 0) : e \in {1, 6}}
SequenceTransactions ==
  {txn(1, 1, FALSE, n, 3, 1) : n \in {0, 1}} \cup {txn(1, 2, FALSE, n, 2, 1) : n \in {0, 1}}
  \cup {txn(2, 1, FALSE, 0, e, 2) : e \in {2, 3}} \cup {txn(1, 1, TRUE, 0, 2, 1)}
SignedTransactions == NonceTransactions \cup SequenceTransactions
OneBucket(k) == 0
Nothing == [a \in Addresses |-> 0]
Sequences == INSTANCE TransactionValidation
  WITH MaxCollected <- 5, Refunds <- {0, 1}, Funds <- [a \in Addresses |-> 2], MaxTime <- 2


\* An integer, a struct with braces in a string, and a delayed field.
Arguments ==
  LET field(name, layout) == [name |-> name, layout |-> layout]
      Pair == Format!StructOf("Pair", <<field("left", Format!StringLayout), field("right", Format!VectorOf(Format!BoolLayout))>>)
      one == [layout |-> Format!IntLayout("u64"), value |-> 7]
      pair == [layout |-> Pair, value |-> <<<<"{", "}">>, <<TRUE, FALSE>>>>]
      aggregator == [layout |-> Format!Delayed, value |-> 0]
  IN {<<one>>, <<pair>>, <<one, pair>>, <<pair, one>>, <<one, aggregator>>}

\* A type of each kind, with values whose texts might be confused.
Strings == {<<>>, <<"a">>, <<"\"">>, <<"\\">>, <<"\\", "\"">>, <<"\"", ",", " ", "\"">>}
UpTo(n, S) == UNION {[1..m -> S] : m \in 0..n}
Types ==
  LET u64 == Format!IntLayout("u64")
      field(name, layout) == [name |-> name, layout |-> layout]
      captured(mask) == Cardinality({j \in DOMAIN mask : mask[j]})
      closure(mask) == [fun : {"0x1::m::f"}, layouts : {[i \in 1..captured(mask) |-> u64]}, mask : {mask},
                        args : [1..captured(mask) -> {1, 2}]]
  IN {[layout |-> Format!BoolLayout, values |-> BOOLEAN],
      [layout |-> Format!IntLayout("i8"), values |-> {-1, 0, 1}],
      [layout |-> Format!AddressLayout, values |-> [1..3 -> {"0", "1"}]],
      [layout |-> Format!SignerLayout, values |-> [1..3 -> {"0", "1"}]],
      [layout |-> Format!StringLayout, values |-> UpTo(3, {"a", "\"", "\\"})],
      [layout |-> Format!VectorOf(Format!IntLayout("u8")), values |-> UpTo(2, {0, 1, 16, 17})],
      [layout |-> Format!VectorOf(Format!StringLayout), values |-> UpTo(2, Strings)],
      [layout |-> Format!VectorOf(Format!VectorOf(u64)), values |-> UpTo(2, UpTo(2, {1, 11}))],
      [layout |-> Format!OptionOf(Format!OptionOf(Format!BoolLayout)), values |-> {<<>>, <<<<>>>>, <<<<TRUE>>>>, <<<<FALSE>>>>}],
      [layout |-> Format!StructOf("Pair", <<field("car", Format!StringLayout), field("cdr", Format!StringLayout)>>),
       values |-> Strings \X Strings],
      [layout |-> Format!EnumOf(<<[name |-> "A", fields |-> <<field("x", u64)>>],
                                [name |-> "B", fields |-> <<field("x", u64), field("y", u64)>>]>>),
       values |-> [tag : {0}, elems : [1..1 -> {1, 2}]] \cup [tag : {1}, elems : [1..2 -> {1, 2}]]],
      [layout |-> Format!FunctionLayout,
       values |-> UNION {closure(m) : m \in {<<>>, <<TRUE>>, <<FALSE, TRUE>>, <<TRUE, TRUE>>, <<TRUE, FALSE, TRUE>>, <<FALSE, TRUE, TRUE>>}}]}
OneType == {[layout |-> Format!BoolLayout, values |-> {}]}

-----------------------------------------------------------------------------
MCInit ==
  /\ part \in {"applications", "nonces", "sequences", "objects", "signers", "format", "values"}
  /\ Init /\ ObjectsInit /\ SignersInit
  /\ part # "signers" => enabled
  /\ IF part = "sequences" THEN Sequences!ValidationInit ELSE ValidationInit
  /\ part \notin {"nonces", "sequences"} => default_account /\ accounts = {}
  /\ IF part = "format" THEN Format!Init(Format!Formats, Arguments) ELSE Format!Init({<<>>}, {<<>>})
  /\ IF part = "values" THEN Format!ValuesInit(Types) ELSE Format!ValuesInit(OneType) /\ call = "to_string"

Applications == part = "applications" /\ Next
  /\ UNCHANGED <<part, validation_vars, object_vars, signer_vars, format_vars, value_vars>>
Nonces == part = "nonces" /\ (Tick \/ Finish \/ \E t \in NonceTransactions : Prologue(t))
  /\ UNCHANGED <<part, vars, object_vars, signer_vars, format_vars, value_vars>>
SequenceNumbers ==
  /\ part = "sequences"
  /\ Sequences!Tick \/ Sequences!Finish \/ \E t \in SequenceTransactions : Sequences!Prologue(t)
  /\ UNCHANGED <<part, vars, object_vars, signer_vars, format_vars, value_vars>>
MCNext ==
  \/ Applications \/ Nonces \/ SequenceNumbers
  \/ part = "objects" /\ ObjectsNext /\ UNCHANGED <<part, vars, validation_vars, signer_vars, format_vars, value_vars>>
  \/ part = "signers" /\ SignersNext /\ UNCHANGED <<part, vars, validation_vars, object_vars, format_vars, value_vars>>
  \/ part = "format" /\ Format!Next /\ UNCHANGED <<part, vars, validation_vars, object_vars, signer_vars, value_vars>>
  \/ part = "values" /\ Format!Show /\ UNCHANGED <<part, vars, validation_vars, object_vars, signer_vars, format_vars>>

MCSpec == MCInit /\ [][MCNext]_mc_vars

\* The users of objects are interchangeable.
Symmetry == Permutations({u, v})

-----------------------------------------------------------------------------
(* What the texts promise; the other properties are those of the modules.   *)

\* A format string is filled as its grammar says, and different values of a type have different
\* texts (string_utils.rs).
TextIsFaithful ==
  /\ part = "format" => Format!FormatFollowsTheGrammar
  /\ part = "values" => Format!TextTellsValuesApart
=============================================================================
