------------------------------- MODULE Release ------------------------------
(***************************************************************************)
(* Releasing packages (src/src/release_builder.rs, aptos.rs, main.rs): the *)
(* packages are built one after the other; each may get Rust bindings,     *)
(* which are written at once; the bundle of all of them is written last.   *)
(* A standard release is of the framework's packages; a custom one names   *)
(* packages, bindings and language versions in three lists.  Developers    *)
(* edit sources meanwhile, and any build or write may fail and end the     *)
(* release where it is.                                                    *)
(*                                                                         *)
(* The sources of a package are a version number.  PackageBuild models a   *)
(* single build.                                                           *)
(***************************************************************************)
EXTENDS Naturals, Sequences, FiniteSets

CONSTANTS CustomOptions,    \* the options custom releases are made with
          EditedPackages, MaxEdits, \* bounds: what is edited, how often
          Truncated, NoFile

\* The packages of every target: directory, whether bindings are generated for it, and whether
\* it is built with the latest language.
Target(path, binding, latest) == [path |-> path, binding |-> binding, latest |-> latest]
framework_packages ==
    <<Target("move-stdlib", FALSE, FALSE), Target("aptos-stdlib", FALSE, FALSE),
      Target("aptos-framework", TRUE, FALSE), Target("topo-token", TRUE, FALSE),
      Target("topo-token-objects", TRUE, FALSE), Target("aptos-trading", FALSE, FALSE),
      Target("aptos-experimental", FALSE, TRUE)>>

Paths == {framework_packages[k].path : k \in DOMAIN framework_packages}

\* The dependencies each Move.toml declares.
Dependencies(path) ==
    CASE path = "move-stdlib" -> {}
      [] path = "aptos-stdlib" -> {"move-stdlib"}
      [] path = "aptos-framework" -> {"aptos-stdlib", "move-stdlib"}
      [] path \in {"topo-token", "topo-token-objects"} -> {"move-stdlib", "aptos-framework"}
      [] path = "aptos-trading" -> {"move-stdlib", "aptos-stdlib", "aptos-framework"}
      [] path = "aptos-experimental" -> {"aptos-framework", "aptos-trading"}

\* A custom release names each package once; the lists may be of any lengths.
ASSUME ReleaseAssumption ==
    \A o \in CustomOptions :
        /\ o.packages \in Seq(Paths)
        /\ o.rust_bindings \in Seq(BOOLEAN) /\ o.package_use_latest_language \in Seq(BOOLEAN)
        /\ \A k, l \in DOMAIN o.packages : o.packages[k] = o.packages[l] => k = l

VARIABLES release_source, \* the version of each package's sources
          release_options, \* of the current or last release
          release_phase, position, \* where the release is
          built,        \* the package built last
          released,     \* released_packages
          bindings,     \* the bindings file of each package
          bundle,       \* the output file
          failed        \* the last release failed

release_vars == <<release_source, release_options, release_phase, position, built, released, bindings, bundle, failed>>

create_release_options ==
    [packages |-> [k \in DOMAIN framework_packages |-> framework_packages[k].path],
     rust_bindings |-> [k \in DOMAIN framework_packages |-> framework_packages[k].binding],
     package_use_latest_language |-> [k \in DOMAIN framework_packages |-> framework_packages[k].latest],
     with_abis |-> TRUE]

ReleaseInit ==
    /\ release_source = [p \in Paths |-> 0]
    /\ release_options = NoFile /\ release_phase = "idle" /\ position = 0
    /\ built = NoFile /\ released = <<>>
    /\ bindings = [p \in Paths |-> NoFile] /\ bundle = NoFile /\ failed = FALSE

EditSource(p) ==
    /\ release_source[p] < MaxEdits
    /\ release_source' = [release_source EXCEPT ![p] = @ + 1]
    /\ UNCHANGED <<release_options, release_phase, position, built, released, bindings, bundle, failed>>

StartRelease(o) ==
    /\ release_phase = "idle"
    /\ release_options' = o /\ release_phase' = "building" /\ position' = 1
    /\ built' = NoFile /\ released' = <<>> /\ failed' = FALSE
    /\ UNCHANGED <<release_source, bindings, bundle>>

FailRelease ==
    /\ release_phase # "idle" /\ release_phase' = "idle"
    /\ failed' = TRUE /\ built' = NoFile /\ released' = <<>> /\ position' = 0
    /\ UNCHANGED <<release_source, release_options, bindings, bundle>>

\* The three lists are zipped: the release ends with the shortest.
Entries == {k \in DOMAIN release_options.packages :
               k <= Len(release_options.rust_bindings) /\ k <= Len(release_options.package_use_latest_language)}
CurrentPackage == release_options.packages[position]

build_package ==
    /\ release_phase = "building" /\ position \in Entries
    /\ built' = [version |-> release_source[CurrentPackage],
                 latest |-> release_options.package_use_latest_language[position]]
    /\ release_phase' = IF release_options.rust_bindings[position] THEN "binding" ELSE "packing"
    /\ UNCHANGED <<release_source, release_options, position, released, bindings, bundle, failed>>

\* generate_rust_bindings creates the file, writes it and has it formatted; without ABIs the
\* release fails before.
create_bindings ==
    /\ release_phase = "binding" /\ release_options.with_abis
    /\ bindings' = [bindings EXCEPT ![CurrentPackage] = Truncated]
    /\ release_phase' = "writing bindings"
    /\ UNCHANGED <<release_source, release_options, position, built, released, bundle, failed>>

\* Mutant: the bindings are generated from the directory.
bindings_of_the_directory ==
    /\ release_phase = "writing bindings"
    /\ bindings' = [bindings EXCEPT ![CurrentPackage] = release_source[CurrentPackage]]
    /\ release_phase' = "packing"
    /\ UNCHANGED <<release_source, release_options, position, built, released, bundle, failed>>

generate_rust_bindings ==
    /\ release_phase = "writing bindings"
    /\ bindings' = [bindings EXCEPT ![CurrentPackage] = built.version]
    /\ release_phase' = "packing"
    /\ UNCHANGED <<release_source, release_options, position, built, released, bundle, failed>>

new_release_package ==
    /\ release_phase = "packing"
    /\ released' = Append(released, [path |-> CurrentPackage, version |-> built.version, latest |-> built.latest])
    /\ position' = position + 1 /\ release_phase' = "building" /\ built' = NoFile
    /\ UNCHANGED <<release_source, release_options, bindings, bundle, failed>>

\* The output file is created, then written.
create_output ==
    /\ release_phase = "building" /\ position \notin Entries
    /\ bundle' = Truncated /\ release_phase' = "writing"
    /\ UNCHANGED <<release_source, release_options, position, built, released, bindings, failed>>

write_output ==
    /\ release_phase = "writing"
    /\ bundle' = released /\ released' = <<>> /\ release_phase' = "idle" /\ position' = 0
    /\ UNCHANGED <<release_source, release_options, built, bindings, failed>>

create_release ==
    \/ build_package \/ create_bindings \/ generate_rust_bindings \/ new_release_package
    \/ create_output \/ write_output

ReleaseNext ==
    \/ \E p \in EditedPackages : EditSource(p)
    \/ StartRelease(create_release_options)
    \/ \E o \in CustomOptions : StartRelease(o)
    \/ FailRelease
    \/ create_release

ReleaseSpec == ReleaseInit /\ [][ReleaseNext]_release_vars

-----------------------------------------------------------------------------
(* Properties.                                                             *)

Finished == release_phase = "idle" /\ release_options # NoFile /\ ~failed
Standard == release_options # NoFile /\ release_options = create_release_options

\* The bindings of a package are those of the code in the bundle, once a release has succeeded,
\* even if sources were edited while it ran or an earlier one left half-written files (bindings
\* are written package by package, the bundle at the end).
BindingsMatchTheBundle ==
    Finished => \A k \in DOMAIN bundle :
        release_options.rust_bindings[k] => bindings[bundle[k].path] = bundle[k].version

\* A package is built with the latest language only where its own entry asks for it.
LatestOnlyWhereAsked ==
    Finished => \A k \in DOMAIN bundle : bundle[k].latest = release_options.package_use_latest_language[k]

\* A standard release holds all packages, each after those it depends on, so that it can be
\* published in order ("in the order they need to be published").
PublishableInOrder ==
    Finished /\ Standard =>
        /\ {bundle[k].path : k \in DOMAIN bundle} = Paths
        /\ \A k \in DOMAIN bundle : Dependencies(bundle[k].path) \subseteq {bundle[l].path : l \in 1 .. k - 1}

\* "The path to the Move packages for which to create a release": a release is of all packages
\* it was given.  It is not when another of the lists is shorter.
EveryPackageIsReleased ==
    Finished => [k \in DOMAIN bundle |-> bundle[k].path] = release_options.packages

\* A release that succeeds holds the packages in the order they are published, with the bindings of
\* the code it holds (release_builder.rs).
ReleasesAreComplete == BindingsMatchTheBundle /\ LatestOnlyWhereAsked /\ PublishableInOrder
=============================================================================
