--------------------------- MODULE ReleaseScripts ---------------------------
(***************************************************************************)
(* Release packages and the governance scripts generated from them          *)
(* (release-bundle/src/lib.rs).  A package is its serialised metadata, a    *)
(* sequence of bytes, and its modules [id, deps] in the order the compiler  *)
(* left them.  A script is the line that obtains the framework's signer,    *)
(* followed by the statements that rebuild code and metadata; running it    *)
(* publishes what they rebuilt.                                             *)
(***************************************************************************)
EXTENDS Naturals, FiniteSets, SequencesExt

CONSTANT ChunkSize      \* bytes of metadata in one Move constant

ChunkSizeAssumption == ChunkSize \in Nat \ {0}

---------------------------------------------------------------------------
(* Statements over the variables chunk<i>: Move lets a name be bound again. *)

Let(i, blob) == [op |-> "let", name |-> i, blob |-> blob]
PushBack(i) == [op |-> "push_back", name |-> i, blob |-> <<>>]
Append2(i) == [op |-> "append", name |-> i, blob |-> <<>>]

\* The chunks of code, numbered from 0.
code_statements(package) ==
  FlattenSeq([i \in DOMAIN package.code |-> <<Let(i - 1, <<package.code[i]>>), PushBack(i - 1)>>])

num_of_chunks(metadata) == Len(metadata) \div ChunkSize + 1

\* The chunks of metadata, numbered from 1: the last is what is left.
metadata_chunk(metadata, i) ==
  SubSeq(metadata, (i - 1) * ChunkSize + 1,
         IF i = num_of_chunks(metadata) THEN Len(metadata) ELSE i * ChunkSize)

metadata_statements(package) ==
  LET n == num_of_chunks(package.metadata)
  IN [i \in 1..n |-> Let(i, metadata_chunk(package.metadata, i))] \o [i \in 1..(n - 1) |-> Append2(i + 1)]

script_body(package) == code_statements(package) \o metadata_statements(package)

\* kind is "testnet", "single" or "multi"; only a multi-step script names the next step's hash.
generate_script_proposal_impl(package, kind, next) == [kind |-> kind, package |-> package, next |-> next]

\* One statement of a running script: what each name is bound to, and the vector `code'.
execute_statement(run, s) ==
  CASE s.op = "let" -> [run EXCEPT !.chunk = [n \in DOMAIN @ \cup {s.name} |-> IF n = s.name THEN s.blob ELSE @[n]]]
    [] s.op = "push_back" -> [run EXCEPT !.code = Append(@, run.chunk[s.name])]
    [] s.op = "append" -> [run EXCEPT !.chunk[1] = @ \o run.chunk[s.name]]

\* What code::publish_package_txn(&framework_signer, chunk1, code) is called with; a script in
\* which chunk1 is not bound does not compile.
NotCompiled == [metadata |-> <<>>, code |-> <<>>, compiled |-> FALSE]
Published(package) ==
  LET run == FoldLeft(execute_statement, [chunk |-> <<>>, code |-> <<>>], script_body(package))
  IN IF 1 \in DOMAIN run.chunk
     THEN [metadata |-> run.chunk[1], code |-> FlattenSeq(run.code), compiled |-> TRUE]
     ELSE NotCompiled

---------------------------------------------------------------------------
(* The order in which the modules of a package are published at genesis. *)

\* BTreeMap of the modules by their ids.
ids(package) == {m.id : m \in ToSet(package.code)}
module_of(package, id) == CHOOSE m \in ToSet(package.code) : m.id = id

RECURSIVE sort_by_deps(_, _, _)
sort_by_deps(package, order, id) ==
  IF id \in ToSet(order) THEN order
  ELSE Append(FoldLeft(LAMBDA o, dep : IF dep \in ids(package) THEN sort_by_deps(package, o, dep) ELSE o,
                       order, module_of(package, id).deps), id)

sorted_code_and_modules(package) ==
  FoldLeft(LAMBDA order, id : sort_by_deps(package, order, id), <<>>,
           SetToSortSeq(ids(package), LAMBDA a, b : a < b))
---------------------------------------------------------------------------
(* Properties of every small package: its metadata has at most max_metadata *)
(* bytes, and its modules depend without cycles on each other and on        *)
(* `Outside', and come in any order.                                        *)

Outside == 0
Acyclic(deps) == \E rank \in [DOMAIN deps -> DOMAIN deps] :
                   \A m \in DOMAIN deps : \A d \in deps[m] \ {Outside} : rank[d] < rank[m]

SmallPackages(max_modules, max_metadata) ==
  UNION {{[metadata |-> [i \in 1..size |-> i],
           code |-> [i \in 1..n |-> [id |-> place[i], deps |-> SetToSeq(deps[place[i]])]]] :
             size \in 0..max_metadata,
             deps \in {graph \in [1..n -> SUBSET (0..n)] : Acyclic(graph)}, place \in Permutations(1..n)} :
         n \in 0..max_modules}

\* The script rebuilds the package from constants of bounded size: chunks of code and of metadata
\* share names, and the metadata may fill its last chunk exactly (generate_script_proposal_impl).
ScriptPublishesThePackage(package) ==
  LET published == Published(package)
  IN /\ published.compiled
     /\ published.metadata = package.metadata /\ published.code = package.code
     /\ \A i \in 1..num_of_chunks(package.metadata) : Len(metadata_chunk(package.metadata, i)) <= ChunkSize

\* Sorting neither loses nor repeats a module and puts each after those of the package it depends on
\* (sorted_code_and_modules).
DependenciesComeFirst(package) ==
  LET order == sorted_code_and_modules(package)
  IN /\ IsInjective(order) /\ ToSet(order) = ids(package)
     /\ \A i \in DOMAIN order : \A d \in ToSet(module_of(package, order[i]).deps) \cap ids(package) :
          d \in ToSet(SubSeq(order, 1, i - 1))
=============================================================================
