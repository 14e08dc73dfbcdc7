--------------------------- MODULE PackagesProofs ---------------------------
(***************************************************************************)
(* What is built and released, for all packages, edits, options and        *)
(* failures: builds are what they claim, releases hold what they were      *)
(* built from, the packages on chain keep their promises to those that     *)
(* depend on them, and an upload in chunks publishes what was cut up.      *)
(***************************************************************************)
EXTENDS PackageBuild, CodePublishing, Release, ExtendedChecks, ChunkedPublish,
        FiniteSetTheorems, SequenceTheorems, WellFoundedInduction, TLAPS

-----------------------------------------------------------------------------
(* A build *)

Key == MetadataKey(options.bytecode_version)
Stopped == On("STOP_BEFORE_EXTENDED_CHECKS") \/ On("STOP_AFTER_EXTENDED_CHECKS")

\* The package is the code of the sources the compiler read, with the metadata of the given modules.
IsCompiled(with_metadata) ==
  package = [m \in Modules |-> [version |-> model.version,
                                key |-> IF m \in with_metadata THEN Key ELSE "none",
                                accepted |-> MayHaveMetadata(model, options)]]

\* Nothing stands in the way of metadata.
Passed == MayHaveMetadata(model, options)

\* A module file, written by this build or an earlier one.
GoodFile(file) == file # None /\ file.key # "none" => file.accepted /\ file.key = MetadataKey(file.bytecode)

\* What the sources were when they were resolved, compiled and published.
DigestInv ==
  /\ phase = "resolved" /\ "resolved" \notin edited => source.version = resolved
  /\ phase \in {"compiled", "injecting", "built"} /\ "resolved" \notin edited => model.version = resolved
  /\ phase \in {"resolved", "compiled", "injecting", "built"} /\ edited = {} => source.version = resolved
  /\ extracted # None =>
       /\ phase = "built" /\ extracted.source_digest = resolved
       /\ edited = {} => extracted.sources \in {None, resolved}

BuildInv ==
  /\ phase \in {"idle", "configured", "resolved", "compiled", "injecting", "built"}
  /\ package # None => phase \in {"compiled", "injecting", "built"}
  /\ phase = "compiled" => IsCompiled({})
  /\ phase = "injecting" => Passed /\ IsCompiled(injected \cap model.metadata)
  /\ phase = "built" => IF Stopped THEN IsCompiled({}) ELSE Passed /\ IsCompiled(model.metadata)
  /\ phase \in {"compiled", "injecting", "built"} =>
       \A m \in Modules : disk[m] \in {None, Serialized(package[m])}
  /\ extracted # None => phase = "built" /\ extracted.code = [m \in Modules |-> Serialized(package[m])]
  /\ disk = [m \in Modules |-> disk[m]] /\ \A m \in Modules : GoodFile(disk[m])
  /\ injected \subseteq Modules /\ (phase \in {"configured", "resolved", "compiled"} => injected = {})
  /\ phase \in {"configured", "resolved", "compiled", "injecting"} => extracted = None

LEMMA BuildInvClaims == BuildInv /\ DigestInv => BuildsAreWhatTheyClaim
<1> SUFFICES ASSUME BuildInv, DigestInv PROVE BuildsAreWhatTheyClaim
  OBVIOUS
<1>1. ASSUME package # None, NEW m \in Modules, package[m].key # "none"
      PROVE  package[m].accepted
  BY <1>1 DEF BuildInv, IsCompiled, Passed
<1>2. MetadataMeansChecked
  BY <1>1 DEF MetadataMeansChecked, BuildInv, GoodFile
<1>3. DiskIsThePackage
  BY DEF BuildInv, DiskIsThePackage
<1>4. ASSUME extracted # None
      PROVE  IsCompiled(IF Stopped THEN {} ELSE model.metadata)
  BY <1>4 DEF BuildInv
<1>5. DigestIdentifiesTheCode
  <2>1. ASSUME extracted # None, NEW m \in Modules PROVE extracted.code[m].version = model.version
    BY <1>4, <2>1 DEF BuildInv, IsCompiled, Serialized
  <2> QED BY <2>1 DEF DigestInv, DigestIdentifiesTheCode
<1>6. MetadataIsComplete
  BY <1>4 DEF BuildInv, MetadataIsComplete, IsCompiled, Serialized, Key, Stopped
<1> QED BY <1>2, <1>3, <1>5, <1>6 DEF BuildsAreWhatTheyClaim

LEMMA BuildInvInit == BuildInit => BuildInv /\ DigestInv
BY DEF BuildInit, BuildInv, DigestInv, GoodFile

\* The digest stays that of the sources the build has read, unless they are edited.
LEMMA DigestInvStep == DigestInv /\ BuildInv /\ [BuildNext]_build_vars => DigestInv'
<1> SUFFICES ASSUME DigestInv, BuildInv, [BuildNext]_build_vars PROVE DigestInv'
  OBVIOUS
<1> USE DEF DigestInv
<1>1. ASSUME NEW diags, NEW meta, NEW policy, EditPackage(diags, meta, policy) PROVE DigestInv'
  BY <1>1 DEF EditPackage
<1>2. ASSUME NEW o \in BuildOptions, create_build_config(o) PROVE DigestInv'
  BY <1>2 DEF create_build_config
<1>3. CASE BuildError
  BY <1>3 DEF BuildError, FailBuild, Running
<1>4. CASE prepare_resolution_graph
  BY <1>4 DEF prepare_resolution_graph, BuildInv
<1>5. CASE compile_package
  BY <1>5 DEF compile_package, BuildInv
<1>6. CASE stop_before_extended_checks \/ extended_checks \/ finish_build
  BY <1>6 DEF stop_before_extended_checks, extended_checks, finish_build, FailBuild, BuildInv
<1>7. ASSUME NEW m \in Modules, inject_runtime_metadata(m) PROVE DigestInv'
  BY <1>7 DEF inject_runtime_metadata
<1>8. CASE CleanPackage
  BY <1>8 DEF CleanPackage
<1>9. CASE extract
  BY <1>9 DEF extract
<1>10. CASE UNCHANGED build_vars
  BY <1>10 DEF build_vars
<1> QED BY <1>1, <1>2, <1>3, <1>4, <1>5, <1>6, <1>7, <1>8, <1>9, <1>10 DEF BuildNext

LEMMA BuildInvStep == BuildInv /\ [BuildNext]_build_vars => BuildInv'
<1> SUFFICES ASSUME BuildInv, [BuildNext]_build_vars PROVE BuildInv'
  OBVIOUS
<1> USE DEF BuildInv
<1>1. ASSUME NEW diags, NEW meta, NEW policy, EditPackage(diags, meta, policy) PROVE BuildInv'
  BY <1>1 DEF EditPackage, IsCompiled, Passed, Stopped, Key, On, Serialized
<1>2. ASSUME NEW o \in BuildOptions, create_build_config(o) PROVE BuildInv'
  BY <1>2 DEF create_build_config
<1>3. CASE BuildError
  BY <1>3 DEF BuildError, FailBuild, Running
<1>12. CASE prepare_resolution_graph
  BY <1>12 DEF prepare_resolution_graph
<1>4. CASE compile_package
  <2> DEFINE unit == [version |-> source.version, key |-> "none", accepted |-> MayHaveMetadata(source, options)]
  <2>1. /\ phase = "resolved" /\ phase' = "compiled" /\ model' = source
        /\ package' = [m \in Modules |-> unit]
        /\ disk' = [m \in Modules |-> Serialized(unit)]
        /\ UNCHANGED <<options, injected, extracted>>
    BY <1>4 DEF compile_package, Compiled
  <2>2. IsCompiled({})' /\ extracted = None
    BY <2>1 DEF IsCompiled
  <2>3. \A m \in Modules : disk'[m] = Serialized(package[m])' /\ GoodFile(disk'[m])
    BY <2>1 DEF Serialized, GoodFile
  <2> QED BY <2>1, <2>2, <2>3
<1>5. CASE stop_before_extended_checks
  BY <1>5 DEF stop_before_extended_checks, IsCompiled, Stopped, On, Serialized
<1>6. CASE extended_checks
  <2>1. CASE FailBuild
    BY <1>6, <2>1 DEF extended_checks, FailBuild
  <2>2. CASE ~FailBuild
    <3>1. /\ phase = "compiled"
          /\ UNCHANGED <<source, disk, options, package, model, injected, extracted>>
          /\ phase' = IF On("STOP_AFTER_EXTENDED_CHECKS") THEN "built" ELSE "injecting"
          /\ ~On("STOP_BEFORE_EXTENDED_CHECKS")
          /\ model.diags = "error" => On("SKIP_BAILOUT_ON_EXTENDED_CHECKS")
          /\ model.diags # "none" => ~On("FAIL_ON_WARNING")
      BY <1>6, <2>2 DEF extended_checks
    <3>2. IsCompiled({})' /\ extracted = None
      BY <3>1 DEF IsCompiled
    <3>3. CASE On("STOP_AFTER_EXTENDED_CHECKS")
      <4>1. phase' = "built" /\ Stopped'
        BY <3>1, <3>3 DEF Stopped, On
      <4> QED BY <3>1, <3>2, <4>1 DEF Serialized
    <3>4. CASE ~On("STOP_AFTER_EXTENDED_CHECKS")
      <4>1. phase' = "injecting" /\ Passed' /\ injected = {} /\ injected \cap model.metadata = {}
        BY <3>1, <3>4 DEF Passed, MayHaveMetadata, On
      <4> QED BY <3>1, <3>2, <4>1 DEF Serialized
    <3> QED BY <3>3, <3>4
  <2> QED BY <2>1, <2>2
<1>7. ASSUME NEW m \in Modules, inject_runtime_metadata(m) PROVE BuildInv'
  <2> DEFINE unit == [package[m] EXCEPT !.key = Key]
  <2>1. /\ phase = "injecting" /\ phase' = "injecting" /\ injected' = injected \cup {m}
        /\ UNCHANGED <<source, options, model, extracted>>
        /\ m \in model.metadata => /\ package' = [package EXCEPT ![m] = unit]
                                   /\ disk' = IF disk[m] = None THEN disk ELSE [disk EXCEPT ![m] = Serialized(unit)]
        /\ m \notin model.metadata => package' = package /\ disk' = disk
    BY <1>7 DEF inject_runtime_metadata, Key
  <2>2. Passed /\ IsCompiled(injected \cap model.metadata) /\ extracted = None
    BY <2>1
  <2>3. unit = [version |-> model.version, key |-> Key, accepted |-> MayHaveMetadata(model, options)]
    BY <2>2 DEF IsCompiled
  <2>7. GoodFile(Serialized(unit))
    BY <2>2, <2>3 DEF Serialized, GoodFile, Passed, Key
  <2> HIDE DEF unit
  <2>4. IsCompiled(injected \cap model.metadata)' /\ Passed'
    BY <2>1, <2>2, <2>3 DEF IsCompiled, Key, Passed, MayHaveMetadata
  <2>5. ASSUME NEW n \in Modules
        PROVE  disk'[n] \in {None, Serialized(package'[n])} /\ GoodFile(disk'[n])
    <3>1. disk[n] \in {None, Serialized(package[n])} /\ GoodFile(disk[n])
      BY <2>1
    <3>2. package'[n] = IF m \in model.metadata /\ n = m THEN unit ELSE package[n]
      BY <2>1, <2>2 DEF IsCompiled
    <3>3. disk'[n] = IF m \in model.metadata /\ n = m /\ disk[m] # None THEN Serialized(unit) ELSE disk[n]
      BY <2>1
    <3> QED BY <2>7, <3>1, <3>2, <3>3
  <2>6. \A n \in Modules : disk'[n] \in {None, Serialized(package[n])'}
    BY <2>1, <2>5 DEF Serialized
  <2> QED BY <2>1, <2>2, <2>4, <2>5, <2>6
<1>8. CASE finish_build
  BY <1>8 DEF finish_build, IsCompiled, Passed, MayHaveMetadata, Stopped, On, Serialized, Key
<1>9. CASE CleanPackage
  BY <1>9 DEF CleanPackage, IsCompiled, Passed, MayHaveMetadata, Stopped, On, Serialized, Key, GoodFile
<1>10. CASE extract
  BY <1>10 DEF extract, IsCompiled, Passed, MayHaveMetadata, Stopped, On, Serialized, Key
<1>11. CASE UNCHANGED build_vars
  BY <1>11 DEF build_vars, IsCompiled, Passed, MayHaveMetadata, Stopped, On, Serialized, Key
<1> QED
  BY <1>1, <1>2, <1>3, <1>4, <1>5, <1>6, <1>7, <1>8, <1>9, <1>10, <1>11, <1>12 DEF BuildNext

\* What is built, written to disk and extracted for publishing is the checked code of the sources the
\* compiler read, under the digest of the sources that were resolved, whatever was edited, failed or
\* stopped in between.
THEOREM BuildCorrectness == BuildSpec => []BuildsAreWhatTheyClaim
<1>1. BuildSpec => [](BuildInv /\ DigestInv)
  BY BuildInvInit, BuildInvStep, DigestInvStep, PTL DEF BuildSpec
<1> QED BY <1>1, BuildInvClaims, PTL

-----------------------------------------------------------------------------
(* A release *)

ReleaseChoices == CustomOptions \cup {create_release_options}

\* Three lists, the first of which names each package once.
WellFormed(o) ==
  /\ o.packages \in Seq(Paths)
  /\ o.rust_bindings \in Seq(BOOLEAN) /\ o.package_use_latest_language \in Seq(BOOLEAN)
  /\ \A k, l \in DOMAIN o.packages : o.packages[k] = o.packages[l] => k = l

Released == [path : Paths, version : Nat, latest : BOOLEAN]

\* The first n packages, as the options want them and with the bindings that belong to them.
Holds(seq, n) ==
  /\ seq \in Seq(Released) /\ Len(seq) = n
  /\ \A k \in 1 .. n :
       /\ seq[k].path = release_options.packages[k]
       /\ seq[k].latest = release_options.package_use_latest_language[k]
       /\ release_options.rust_bindings[k] => bindings[seq[k].path] = seq[k].version

InProgress ==
  /\ release_options \in ReleaseChoices /\ ~failed
  /\ position \in Nat \ {0} /\ 1 .. position - 1 \subseteq Entries /\ Holds(released, position - 1)
  /\ release_phase = "writing" => position \notin Entries
  /\ release_phase \in {"binding", "writing bindings", "packing"} =>
       /\ position \in Entries
       /\ built.version \in Nat /\ built.latest = release_options.package_use_latest_language[position]
       /\ release_phase # "packing" => release_options.rust_bindings[position]
       /\ release_phase = "packing" /\ release_options.rust_bindings[position] =>
            bindings[CurrentPackage] = built.version

ReleaseInv ==
  /\ release_phase \in {"idle", "building", "binding", "writing bindings", "packing", "writing"}
  /\ release_source \in [Paths -> Nat] /\ bindings = [p \in Paths |-> bindings[p]]
  /\ release_phase # "idle" => InProgress
  /\ Finished => release_options \in ReleaseChoices /\ \E n \in Nat : Entries = 1 .. n /\ Holds(bundle, n)

LEMMA StandardLists ==
  /\ create_release_options.packages = [k \in 1 .. 7 |-> framework_packages[k].path]
  /\ create_release_options.rust_bindings = [k \in 1 .. 7 |-> framework_packages[k].binding]
  /\ create_release_options.package_use_latest_language = [k \in 1 .. 7 |-> framework_packages[k].latest]
<1>1. DOMAIN framework_packages = 1 .. 7
  BY DEF framework_packages
<1> QED BY <1>1 DEF create_release_options

LEMMA OptionsAreWellFormed == \A o \in ReleaseChoices : WellFormed(o)
<1>1. WellFormed(create_release_options)
  <2>1. \A k \in 1 .. 7 : /\ framework_packages[k].path \in Paths
                          /\ framework_packages[k].binding \in BOOLEAN /\ framework_packages[k].latest \in BOOLEAN
    <3>1. DOMAIN framework_packages = 1 .. 7
      BY DEF framework_packages
    <3>2. \A k \in 1 .. 7 : framework_packages[k].binding \in BOOLEAN /\ framework_packages[k].latest \in BOOLEAN
      <4> TAKE k \in 1 .. 7
      <4>1. k = 1 \/ k = 2 \/ k = 3 \/ k = 4 \/ k = 5 \/ k = 6 \/ k = 7
        OBVIOUS
      <4>2. /\ framework_packages[1] = Target("move-stdlib", FALSE, FALSE)
            /\ framework_packages[2] = Target("aptos-stdlib", FALSE, FALSE)
            /\ framework_packages[3] = Target("aptos-framework", TRUE, FALSE)
            /\ framework_packages[4] = Target("topo-token", TRUE, FALSE)
            /\ framework_packages[5] = Target("topo-token-objects", TRUE, FALSE)
            /\ framework_packages[6] = Target("aptos-trading", FALSE, FALSE)
            /\ framework_packages[7] = Target("aptos-experimental", FALSE, TRUE)
        BY DEF framework_packages
      <4>3. \E path : \E binding, latest \in BOOLEAN : framework_packages[k] = Target(path, binding, latest)
        BY <4>1, <4>2, Zenon
      <4>4. ASSUME NEW path, NEW binding \in BOOLEAN, NEW latest \in BOOLEAN, NEW t, t = Target(path, binding, latest)
            PROVE  t.binding \in BOOLEAN /\ t.latest \in BOOLEAN
        BY <4>4 DEF Target
      <4> QED BY <4>3, <4>4
    <3> QED BY <3>1, <3>2 DEF Paths
  <2>2. \A k, l \in 1 .. 7 : framework_packages[k].path = framework_packages[l].path => k = l
    BY DEF framework_packages, Target
  <2> QED BY <2>1, <2>2, StandardLists DEF WellFormed
<1> QED BY <1>1, ReleaseAssumption DEF ReleaseChoices, WellFormed

\* The entries are those the shortest list has.
LEMMA EntriesAreAPrefix ==
  ASSUME release_options \in ReleaseChoices
  PROVE  /\ \E n \in Nat : Entries = 1 .. n
         /\ \A k \in Entries : /\ k \in DOMAIN release_options.packages
                              /\ release_options.packages[k] \in Paths
                              /\ release_options.rust_bindings[k] \in BOOLEAN
                              /\ release_options.package_use_latest_language[k] \in BOOLEAN
<1> DEFINE ps == release_options.packages
           rs == release_options.rust_bindings
           ls == release_options.package_use_latest_language
<1>1. ps \in Seq(Paths) /\ rs \in Seq(BOOLEAN) /\ ls \in Seq(BOOLEAN)
  BY OptionsAreWellFormed DEF WellFormed
<1>2. Entries = {k \in 1 .. Len(ps) : k <= Len(rs) /\ k <= Len(ls)}
  BY <1>1 DEF Entries
<1> HIDE DEF ps, rs, ls
<1>3. Len(ps) \in Nat /\ Len(rs) \in Nat /\ Len(ls) \in Nat
  BY <1>1
<1>4. PICK n \in {Len(ps), Len(rs), Len(ls)} : n <= Len(ps) /\ n <= Len(rs) /\ n <= Len(ls)
  BY <1>3
<1>5. Entries = 1 .. n
  BY <1>2, <1>3, <1>4
<1>6. \A k \in Entries : k \in DOMAIN ps /\ ps[k] \in Paths /\ rs[k] \in BOOLEAN /\ ls[k] \in BOOLEAN
  BY <1>1, <1>2
<1> QED BY <1>3, <1>4, <1>5, <1>6 DEF ps, rs, ls

LEMMA ReleaseInvCompletes == ReleaseInv => ReleasesAreComplete
<1> SUFFICES ASSUME ReleaseInv, Finished PROVE ReleasesAreComplete
  BY DEF ReleasesAreComplete, BindingsMatchTheBundle, LatestOnlyWhereAsked, PublishableInOrder
<1>1. PICK n \in Nat : Entries = 1 .. n /\ Holds(bundle, n)
  BY DEF ReleaseInv
<1>2. /\ DOMAIN bundle = 1 .. n
      /\ \A k \in 1 .. n :
           /\ bundle[k].path = release_options.packages[k]
           /\ bundle[k].latest = release_options.package_use_latest_language[k]
           /\ release_options.rust_bindings[k] => bindings[bundle[k].path] = bundle[k].version
  BY <1>1 DEF Holds
<1>3. BindingsMatchTheBundle /\ LatestOnlyWhereAsked
  BY <1>2 DEF BindingsMatchTheBundle, LatestOnlyWhereAsked
<1>4. ASSUME release_options = create_release_options
      PROVE  /\ {bundle[k].path : k \in DOMAIN bundle} = Paths
             /\ \A k \in DOMAIN bundle :
                  Dependencies(bundle[k].path) \subseteq {bundle[l].path : l \in 1 .. k - 1}
  <2>1. Entries = 1 .. 7
    BY <1>4, StandardLists DEF Entries
  <2>2. n = 7
    <3>1. 7 \in Entries /\ 8 \notin Entries
      BY <2>1
    <3>2. 7 \in 1 .. n /\ 8 \notin 1 .. n
      BY <1>1, <3>1, Zenon
    <3> QED BY <3>2
  <2>3. DOMAIN bundle = 1 .. 7 /\ \A k \in 1 .. 7 : bundle[k].path = framework_packages[k].path
    BY <1>2, <1>4, <2>2, StandardLists
  <2>4. {bundle[k].path : k \in DOMAIN bundle} = Paths
    <3>1. DOMAIN framework_packages = 1 .. 7
      BY DEF framework_packages
    <3> QED BY <2>3, <3>1 DEF Paths
  <2>5. /\ bundle[1].path = "move-stdlib" /\ bundle[2].path = "aptos-stdlib"
        /\ bundle[3].path = "aptos-framework" /\ bundle[4].path = "topo-token"
        /\ bundle[5].path = "topo-token-objects" /\ bundle[6].path = "aptos-trading"
        /\ bundle[7].path = "aptos-experimental"
    BY <2>3 DEF framework_packages, Target
  <2>6. ASSUME NEW k \in 1 .. 7, NEW dep \in Dependencies(bundle[k].path)
        PROVE  \E l \in 1 .. k - 1 : bundle[l].path = dep
    BY <2>5 DEF Dependencies
  <2> QED BY <2>3, <2>4, <2>6
<1>5. PublishableInOrder
  BY <1>4 DEF PublishableInOrder, Standard
<1> QED BY <1>3, <1>5 DEF ReleasesAreComplete

LEMMA ReleaseInvInit == ReleaseInit => ReleaseInv
BY DEF ReleaseInit, ReleaseInv, Finished

\* Writing the bindings of the package at hand leaves those of the packages before it.
LEMMA BindingsOfOthersStay ==
  ASSUME release_options \in ReleaseChoices, position \in Entries, position \in Nat, 1 .. position - 1 \subseteq Entries,
         bindings = [p \in Paths |-> bindings[p]], NEW value, bindings' = [bindings EXCEPT ![CurrentPackage] = value]
  PROVE  /\ bindings' = [p \in Paths |-> bindings'[p]]
         /\ bindings'[CurrentPackage] = value
         /\ \A k \in 1 .. position - 1 :
              bindings'[release_options.packages[k]] = bindings[release_options.packages[k]]
<1>1. CurrentPackage \in Paths /\ position \in DOMAIN release_options.packages
  BY EntriesAreAPrefix DEF CurrentPackage
<1>2. ASSUME NEW k \in 1 .. position - 1
      PROVE  release_options.packages[k] \in Paths /\ release_options.packages[k] # CurrentPackage
  <2>1. k \in Entries /\ k # position
    OBVIOUS
  <2>2. k \in DOMAIN release_options.packages /\ release_options.packages[k] \in Paths
    BY <2>1, EntriesAreAPrefix
  <2> QED BY <1>1, <2>1, <2>2, OptionsAreWellFormed DEF WellFormed, CurrentPackage
<1> QED BY <1>1, <1>2

LEMMA ReleaseInvStep == ReleaseInv /\ [ReleaseNext]_release_vars => ReleaseInv'
<1> SUFFICES ASSUME ReleaseInv, [ReleaseNext]_release_vars PROVE ReleaseInv'
  OBVIOUS
<1> USE DEF ReleaseInv
<1>1. ASSUME NEW p \in EditedPackages, EditSource(p) PROVE ReleaseInv'
  <2>1. release_source' \in [Paths -> Nat]
    <3>1. CASE p \in Paths
      <4>1. release_source' = [release_source EXCEPT ![p] = release_source[p] + 1]
        BY <1>1 DEF EditSource
      <4> HIDE DEF ReleaseInv
      <4>2. release_source \in [Paths -> Nat]
        BY DEF ReleaseInv
      <4>3. release_source[p] + 1 \in Nat
        BY <3>1, <4>2
      <4> QED BY <4>1, <4>2, <4>3
    <3>2. CASE p \notin Paths
      BY <1>1, <3>2 DEF EditSource
    <3> QED BY <3>1, <3>2
  <2>2. InProgress => InProgress'
    BY <1>1 DEF EditSource, InProgress, Holds, Entries, CurrentPackage
  <2>3. Finished' = Finished /\ Entries' = Entries /\ \A n : Holds(bundle, n) => Holds(bundle, n)'
    BY <1>1 DEF EditSource, Finished, Holds, Entries
  <2> QED BY <1>1, <2>1, <2>2, <2>3 DEF EditSource
<1>2. ASSUME NEW o \in ReleaseChoices, StartRelease(o) PROVE ReleaseInv'
  <2>1. released' \in Seq(Released) /\ Len(released') = 0
    BY <1>2 DEF StartRelease
  <2>2. InProgress'
    BY <1>2, <2>1 DEF StartRelease, InProgress, Holds
  <2> QED BY <1>2, <2>2 DEF StartRelease, Finished
<1>3. CASE FailRelease
  BY <1>3 DEF FailRelease, Finished
<1>4. CASE build_package
  <2>1. /\ release_phase = "building" /\ position \in Entries /\ InProgress
        /\ built' = [version |-> release_source[CurrentPackage],
                     latest |-> release_options.package_use_latest_language[position]]
        /\ release_phase' = IF release_options.rust_bindings[position] THEN "binding" ELSE "packing"
        /\ UNCHANGED <<release_source, release_options, position, released, bindings, bundle, failed>>
    BY <1>4 DEF build_package
  <2>2. CurrentPackage \in Paths /\ release_options.rust_bindings[position] \in BOOLEAN
    BY <2>1, EntriesAreAPrefix DEF InProgress, CurrentPackage
  <2>3. built'.version \in Nat /\ built'.latest = release_options.package_use_latest_language[position]
    BY <2>1, <2>2
  <2>4. Entries' = Entries /\ CurrentPackage' = CurrentPackage /\ Holds(released, position - 1)'
    BY <2>1 DEF Entries, CurrentPackage, Holds, InProgress
  <2>5. InProgress'
    BY <2>1, <2>2, <2>3, <2>4 DEF InProgress
  <2> QED BY <2>1, <2>5 DEF Finished
<1>5. CASE create_bindings
  <2>1. /\ release_phase = "binding" /\ release_phase' = "writing bindings" /\ InProgress
        /\ bindings' = [bindings EXCEPT ![CurrentPackage] = Truncated]
        /\ UNCHANGED <<release_source, release_options, position, built, released, bundle, failed>>
    BY <1>5 DEF create_bindings
  <2>2. Holds(released, position - 1)' /\ bindings' = [p \in Paths |-> bindings'[p]]
    <3>1. /\ bindings' = [p \in Paths |-> bindings'[p]]
          /\ \A k \in 1 .. position - 1 :
               bindings'[release_options.packages[k]] = bindings[release_options.packages[k]]
      BY <2>1, BindingsOfOthersStay DEF InProgress
    <3>2. Holds(released, position - 1)'
      <4>1. Holds(released, position - 1)
        BY <2>1 DEF InProgress
      <4> HIDE DEF ReleaseInv
      <4>2. ASSUME NEW k \in 1 .. position - 1
            PROVE  bindings'[released[k].path] = bindings[released[k].path]
        <5>1. released[k].path = release_options.packages[k]
          BY <4>1 DEF Holds
        <5>2. bindings'[release_options.packages[k]] = bindings[release_options.packages[k]]
          BY <3>1
        <5> QED BY <5>1, <5>2, Zenon
      <4> QED BY <2>1, <4>1, <4>2 DEF Holds
    <3> QED BY <3>1, <3>2
  <2>3. Entries' = Entries
    BY <2>1 DEF Entries
  <2>4. InProgress'
    BY <2>1, <2>2, <2>3 DEF InProgress
  <2> QED BY <2>1, <2>2, <2>4 DEF Finished
<1>6. CASE generate_rust_bindings
  <2>1. /\ release_phase = "writing bindings" /\ release_phase' = "packing" /\ InProgress
        /\ bindings' = [bindings EXCEPT ![CurrentPackage] = built.version]
        /\ UNCHANGED <<release_source, release_options, position, built, released, bundle, failed>>
    BY <1>6 DEF generate_rust_bindings
  <2>2. /\ Holds(released, position - 1)' /\ bindings' = [p \in Paths |-> bindings'[p]]
        /\ bindings'[CurrentPackage] = built.version
    <3>1. /\ bindings' = [p \in Paths |-> bindings'[p]] /\ bindings'[CurrentPackage] = built.version
          /\ \A k \in 1 .. position - 1 :
               bindings'[release_options.packages[k]] = bindings[release_options.packages[k]]
      BY <2>1, BindingsOfOthersStay DEF InProgress
    <3>2. Holds(released, position - 1)'
      <4>1. Holds(released, position - 1)
        BY <2>1 DEF InProgress
      <4> HIDE DEF ReleaseInv
      <4>2. ASSUME NEW k \in 1 .. position - 1
            PROVE  bindings'[released[k].path] = bindings[released[k].path]
        <5>1. released[k].path = release_options.packages[k]
          BY <4>1 DEF Holds
        <5>2. bindings'[release_options.packages[k]] = bindings[release_options.packages[k]]
          BY <3>1
        <5> QED BY <5>1, <5>2, Zenon
      <4> QED BY <2>1, <4>1, <4>2 DEF Holds
    <3> QED BY <3>1, <3>2
  <2>3. Entries' = Entries /\ CurrentPackage' = CurrentPackage
    BY <2>1 DEF Entries, CurrentPackage
  <2>4. InProgress'
    BY <2>1, <2>2, <2>3 DEF InProgress
  <2> QED BY <2>1, <2>2, <2>4 DEF Finished
<1>7. CASE new_release_package
  <2> DEFINE entry == [path |-> CurrentPackage, version |-> built.version, latest |-> built.latest]
  <2>1. /\ release_phase = "packing" /\ release_phase' = "building" /\ InProgress
        /\ released' = Append(released, entry) /\ position' = position + 1
        /\ UNCHANGED <<release_source, release_options, bindings, bundle, failed>>
    BY <1>7 DEF new_release_package
  <2>2. /\ entry \in Released
        /\ entry.path = release_options.packages[position]
        /\ entry.latest = release_options.package_use_latest_language[position]
        /\ release_options.rust_bindings[position] => bindings[entry.path] = entry.version
    BY <2>1, EntriesAreAPrefix DEF InProgress, CurrentPackage, Released
  <2> HIDE DEF entry
  <2>3. released \in Seq(Released) /\ Len(released) = position - 1 /\ position \in Nat \ {0}
    BY <2>1 DEF InProgress, Holds
  <2>4. /\ released' \in Seq(Released) /\ Len(released') = position
        /\ released'[position] = entry /\ \A k \in 1 .. position - 1 : released'[k] = released[k]
    BY <2>1, <2>2, <2>3
  <2>5. Holds(released, position - 1)'
    BY <2>1, <2>2, <2>3, <2>4 DEF InProgress, Holds
  <2>6. Entries' = Entries
    BY <2>1 DEF Entries
  <2>7. InProgress'
    BY <2>1, <2>3, <2>5, <2>6 DEF InProgress
  <2> QED BY <2>1, <2>7 DEF Finished
<1>8. CASE create_output
  <2>1. /\ release_phase = "building" /\ release_phase' = "writing" /\ InProgress /\ position \notin Entries
        /\ UNCHANGED <<release_source, release_options, position, built, released, bindings, failed>>
    BY <1>8 DEF create_output
  <2>2. InProgress'
    BY <2>1 DEF InProgress, Holds, Entries
  <2> QED BY <2>1, <2>2 DEF Finished
<1>9. CASE write_output
  <2>1. /\ release_phase = "writing" /\ release_phase' = "idle" /\ InProgress /\ bundle' = released
        /\ UNCHANGED <<release_source, release_options, built, bindings, failed>>
    BY <1>9 DEF write_output
  <2>2. PICK n \in Nat : Entries = 1 .. n
    BY <2>1, EntriesAreAPrefix DEF InProgress
  <2>3. n = position - 1
    BY <2>1, <2>2 DEF InProgress
  <2>4. Entries' = 1 .. n /\ Holds(bundle, n)'
    BY <2>1, <2>2, <2>3 DEF InProgress, Entries, Holds
  <2> QED BY <2>1, <2>4 DEF InProgress
<1>10. CASE UNCHANGED release_vars
  <2>1. UNCHANGED <<release_source, release_options, release_phase, position, built, released, bindings, bundle, failed>>
    BY <1>10 DEF release_vars
  <2>2. Entries' = Entries /\ Finished' = Finished /\ CurrentPackage' = CurrentPackage
    BY <2>1 DEF Entries, Finished, CurrentPackage
  <2>3. Holds(released, position - 1) => Holds(released, position - 1)'
    BY <2>1, <2>2 DEF Holds
  <2>4. InProgress => InProgress'
    BY <2>1, <2>2, <2>3 DEF InProgress
  <2>5. ASSUME Finished'
        PROVE  release_options' \in ReleaseChoices /\ \E n \in Nat : Entries' = 1 .. n /\ Holds(bundle, n)'
    <3>1. release_options \in ReleaseChoices /\ \E n \in Nat : Entries = 1 .. n /\ Holds(bundle, n)
      BY <2>2, <2>5
    <3>2. PICK n \in Nat : Entries = 1 .. n /\ Holds(bundle, n)
      BY <3>1
    <3> HIDE DEF ReleaseInv
    <3>3. Entries' = 1 .. n
      BY <2>2, <3>2
    <3>4. Holds(bundle, n)'
      BY <2>1, <2>2, <3>2 DEF Holds
    <3> QED BY <2>1, <3>1, <3>3, <3>4
  <2>6. bindings' = [p \in Paths |-> bindings'[p]] /\ release_source' \in [Paths -> Nat]
    BY <2>1
  <2> HIDE DEF Finished
  <2>7. release_phase' # "idle" => InProgress'
    BY <2>1, <2>4
  <2>8. release_phase' \in {"idle", "building", "binding", "writing bindings", "packing", "writing"}
    BY <2>1
  <2> QED BY <2>5, <2>6, <2>7, <2>8
<1> HIDE DEF ReleaseInv
<1>11. CASE create_release
  BY <1>4, <1>5, <1>6, <1>7, <1>8, <1>9, <1>11 DEF create_release
<1>12. ASSUME NEW o, o = create_release_options \/ o \in CustomOptions, StartRelease(o)
       PROVE  ReleaseInv'
  BY <1>2, <1>12 DEF ReleaseChoices
<1> QED
  BY <1>1, <1>3, <1>10, <1>11, <1>12 DEF ReleaseNext

\* A release that succeeds holds the packages in the order they are published, with the bindings of
\* the code it holds, whatever was edited and whichever release failed before.
THEOREM ReleaseCorrectness == ReleaseSpec => []ReleasesAreComplete
<1>1. ReleaseSpec => []ReleaseInv
  BY ReleaseInvInit, ReleaseInvStep, PTL DEF ReleaseSpec
<1> QED BY <1>1, ReleaseInvCompletes, PTL

-----------------------------------------------------------------------------
(* Packages on chain *)

PackageSet == [addr : Addresses, name : Names, policy : {Compat, Immutable}, upgrade_number : Nat,
               modules : SUBSET ModuleNames, deps : SUBSET (Addresses \X Names)]
ModuleSet == [addr : Addresses, name : ModuleNames, version : Nat, uses : SUBSET (Addresses \X ModuleNames)]

\* Every package has its name and its modules to itself.
Separate(R) ==
  \A p, q \in R : p # q /\ p.addr = q.addr => p.name # q.name /\ p.modules \cap q.modules = {}

Strong(R) ==
  \A p \in R : \A dep \in p.deps :
    dep[1] \notin Exempted => \E q \in R : q.addr = dep[1] /\ q.name = dep[2] /\ q.policy >= p.policy

\* What the package p may use, by what it declares.
Declared(R, p, use) ==
  \/ use[1] = p.addr /\ use[2] \in p.modules
  \/ use[1] \in Exempted
  \/ \E q \in R : <<q.addr, q.name>> \in p.deps /\ use[1] = q.addr /\ use[2] \in q.modules

Lists(R, addr, m) == \E p \in R : p.addr = addr /\ m \in p.modules
Exists(M, addr, m) == \E x \in M : x.addr = addr /\ x.name = m

\* The packages R and the modules M agree, but for the modules W that are to be written.
Agree(R, M, W) ==
  /\ R \subseteq PackageSet /\ M \subseteq ModuleSet
  /\ Separate(R) /\ Strong(R)
  /\ \A addr, m : Lists(R, addr, m) <=> Exists(M, addr, m) \/ <<addr, m>> \in W
  /\ \A p \in R, x \in M : x.addr = p.addr /\ x.name \in p.modules =>
       /\ x.version <= p.upgrade_number
       /\ <<x.addr, x.name>> \in W => x.version < p.upgrade_number
  /\ \A x \in M : \A use \in x.uses :
       /\ Exists(M, use[1], use[2])
       /\ <<x.addr, x.name>> \notin W =>
            \E p \in R : p.addr = x.addr /\ x.name \in p.modules /\ Declared(R, p, use)

\* What a request stands for: a package of the registry, with the uses it may have.
Stands(R, r) ==
  /\ r.destination \in Addresses /\ r.expected \subseteq ModuleNames
  /\ r.bundle \in [r.expected -> SUBSET (Addresses \X ModuleNames)]
  /\ \E p \in R : /\ p.addr = r.destination /\ p.modules = r.expected
                 /\ \A m \in r.expected : \A use \in r.bundle[m] :
                      use \in r.allowed => Declared(R, p, use)

ToWrite(r) == {r.destination} \X r.expected
Awaited(requested) == UNION {ToWrite(r) : r \in requested}

LEMMA PackageFields ==
  ASSUME NEW p \in PackageSet
  PROVE  /\ p.addr \in Addresses /\ p.name \in Names /\ p.policy \in {1, 2} /\ p.upgrade_number \in Nat
         /\ p.modules \subseteq ModuleNames /\ p.deps \subseteq Addresses \X Names
         /\ p = [addr |-> p.addr, name |-> p.name, policy |-> p.policy, upgrade_number |-> p.upgrade_number,
                 modules |-> p.modules, deps |-> p.deps]
BY DEF PackageSet, Compat, Immutable

LEMMA ModuleFields ==
  ASSUME NEW x \in ModuleSet
  PROVE  /\ x.addr \in Addresses /\ x.name \in ModuleNames /\ x.version \in Nat
         /\ x.uses \subseteq Addresses \X ModuleNames
BY DEF ModuleSet

\* What is allowed is declared.
LEMMA AllowedIsDeclared ==
  ASSUME NEW deps \in SUBSET (Addresses \X Names), NEW known, NEW use \in AllowedDeps(deps, known)
  PROVE  \/ use[1] \in Exempted
         \/ \E q \in known : <<q.addr, q.name>> \in deps /\ use[1] = q.addr /\ use[2] \in q.modules
<1>1. PICK dep \in deps :
        use \in (IF dep[1] \in Exempted THEN {dep[1]} \X ModuleNames
                ELSE UNION {{p.addr} \X p.modules : p \in {q \in known : q.addr = dep[1] /\ q.name = dep[2]}})
  BY DEF AllowedDeps
<1>2. dep = <<dep[1], dep[2]>>
  OBVIOUS
<1> QED BY <1>1, <1>2

-----------------------------------------------------------------------------
(* Freezing *)

Frozen(p, addr) == IF p.addr = addr THEN [p EXCEPT !.policy = Immutable] ELSE p
FrozenAll(R, addr) == {Frozen(p, addr) : p \in R}

LEMMA FrozenFields ==
  ASSUME NEW p \in PackageSet, NEW addr
  PROVE  /\ Frozen(p, addr) \in PackageSet
         /\ Frozen(p, addr).addr = p.addr /\ Frozen(p, addr).name = p.name
         /\ Frozen(p, addr).modules = p.modules /\ Frozen(p, addr).deps = p.deps
         /\ Frozen(p, addr).upgrade_number = p.upgrade_number
         /\ Frozen(p, addr).policy >= p.policy
         /\ p.addr # addr => Frozen(p, addr) = p
         /\ p.policy = Immutable => Frozen(p, addr) = p
<1>1. PICK a \in Addresses, n \in Names, c \in {Compat, Immutable}, u \in Nat, ms \in SUBSET ModuleNames,
           ds \in SUBSET (Addresses \X Names) :
        p = [addr |-> a, name |-> n, policy |-> c, upgrade_number |-> u, modules |-> ms, deps |-> ds]
  BY DEF PackageSet
<1>2. [p EXCEPT !.policy = Immutable] =
        [addr |-> a, name |-> n, policy |-> Immutable, upgrade_number |-> u, modules |-> ms, deps |-> ds]
  BY <1>1
<1> QED BY <1>1, <1>2 DEF Frozen, PackageSet, Compat, Immutable

LEMMA FreezingKeepsDeclarations ==
  ASSUME NEW R \in SUBSET PackageSet, NEW addr, NEW p \in R, NEW use, Declared(R, p, use)
  PROVE  Declared(FrozenAll(R, addr), Frozen(p, addr), use)
<1>1. ASSUME NEW q \in R, <<q.addr, q.name>> \in p.deps, use[1] = q.addr, use[2] \in q.modules
      PROVE  Declared(FrozenAll(R, addr), Frozen(p, addr), use)
  <2> DEFINE t == Frozen(q, addr)
  <2>1. t \in FrozenAll(R, addr)
    BY DEF FrozenAll
  <2>2. q \in PackageSet /\ p \in PackageSet
    OBVIOUS
  <2>3. t.addr = q.addr /\ t.name = q.name /\ t.modules = q.modules
    BY <2>2, FrozenFields
  <2>4. Frozen(p, addr).deps = p.deps
    BY <2>2, FrozenFields
  <2> HIDE DEF t
  <2> QED BY <1>1, <2>1, <2>3, <2>4 DEF Declared
<1>2. p \in PackageSet
  OBVIOUS
<1>3. Frozen(p, addr).addr = p.addr /\ Frozen(p, addr).modules = p.modules
  BY <1>2, FrozenFields
<1> QED BY <1>1, <1>3 DEF Declared

LEMMA FreezingKeepsAgreement ==
  ASSUME NEW R, NEW M, NEW W, Agree(R, M, W), NEW addr,
         \A p \in FrozenAll(R, addr) : p.addr = addr => CheckDependencies(addr, p.policy, p.deps, FrozenAll(R, addr))
  PROVE  Agree(FrozenAll(R, addr), M, W)
<1> DEFINE S == FrozenAll(R, addr)
<1>1. \A p \in R : /\ Frozen(p, addr) \in S /\ Frozen(p, addr) \in PackageSet
                   /\ Frozen(p, addr).addr = p.addr /\ Frozen(p, addr).name = p.name
                   /\ Frozen(p, addr).modules = p.modules /\ Frozen(p, addr).deps = p.deps
                   /\ Frozen(p, addr).upgrade_number = p.upgrade_number
                   /\ Frozen(p, addr).policy >= p.policy /\ p.policy \in Int
                   /\ p.addr # addr => Frozen(p, addr) = p
  BY FrozenFields, PackageFields DEF Agree, FrozenAll
<1>2. \A s \in S : \E p \in R : s = Frozen(p, addr)
  BY DEF FrozenAll
<1>3. S \subseteq PackageSet /\ M \subseteq ModuleSet
  BY <1>1, <1>2 DEF Agree
<1>4. \A p \in R : \A use : Declared(R, p, use) => Declared(S, Frozen(p, addr), use)
  BY FreezingKeepsDeclarations DEF Agree
<1> HIDE DEF S
<1>5. Separate(S)
  BY <1>1, <1>2 DEF Agree, Separate
<1>6. Strong(S)
  <2> SUFFICES ASSUME NEW s \in S, NEW dep \in s.deps, dep[1] \notin Exempted
               PROVE  \E t \in S : t.addr = dep[1] /\ t.name = dep[2] /\ t.policy >= s.policy
    BY DEF Strong
  <2>1. CASE s.addr = addr
    BY <2>1 DEF CheckDependencies, S
  <2>2. CASE s.addr # addr
    <3>1. s \in R
      BY <1>1, <1>2, <2>2
    <3>2. PICK q \in R : q.addr = dep[1] /\ q.name = dep[2] /\ q.policy >= s.policy
      BY <3>1 DEF Agree, Strong
    <3>3. Frozen(q, addr).policy >= s.policy
      <4>1. /\ q.policy \in Int /\ s.policy \in Int /\ Frozen(q, addr).policy \in Int
            /\ Frozen(q, addr).policy >= q.policy
        BY <1>1, <1>3, <3>1, PackageFields
      <4> QED BY <3>2, <4>1
    <3> QED BY <1>1, <3>2, <3>3
  <2> QED BY <2>1, <2>2
<1>7. \A a, m : Lists(S, a, m) <=> Lists(R, a, m)
  BY <1>1, <1>2 DEF Lists
<1>8. \A s \in S, x \in M : x.addr = s.addr /\ x.name \in s.modules =>
        /\ x.version <= s.upgrade_number
        /\ <<x.addr, x.name>> \in W => x.version < s.upgrade_number
  BY <1>1, <1>2 DEF Agree
<1>9. ASSUME NEW x \in M, NEW use \in x.uses
      PROVE  /\ Exists(M, use[1], use[2])
             /\ <<x.addr, x.name>> \notin W =>
                  \E s \in S : s.addr = x.addr /\ x.name \in s.modules /\ Declared(S, s, use)
  BY <1>1, <1>4 DEF Agree
<1> QED BY <1>3, <1>5, <1>6, <1>7, <1>8, <1>9 DEF Agree, S

LEMMA FreezingKeepsRequests ==
  ASSUME NEW R \in SUBSET PackageSet, NEW r, Stands(R, r), NEW addr
  PROVE  Stands(FrozenAll(R, addr), r)
<1>1. PICK p \in R : /\ p.addr = r.destination /\ p.modules = r.expected
                    /\ \A m \in r.expected : \A use \in r.bundle[m] : use \in r.allowed => Declared(R, p, use)
  BY DEF Stands
<1>2. Frozen(p, addr) \in FrozenAll(R, addr) /\ Frozen(p, addr).addr = p.addr /\ Frozen(p, addr).modules = p.modules
  BY FrozenFields DEF FrozenAll
<1>3. \A m \in r.expected : \A use \in r.bundle[m] :
        use \in r.allowed => Declared(FrozenAll(R, addr), Frozen(p, addr), use)
  BY <1>1, FreezingKeepsDeclarations
<1> QED BY <1>1, <1>2, <1>3 DEF Stands

-----------------------------------------------------------------------------
(* Publishing *)

\* A package is published over the old one with its name, if there is any.
Old(R, addr, name) == {p \in R : p.addr = addr /\ p.name = name}
Replaced(R, new) == (R \ Old(R, new.addr, new.name)) \cup {new}

\* What publish_package checks, and what it keeps of the old package.
Publishable(R, new) ==
  /\ CheckDependencies(new.addr, new.policy, new.deps, R)
  /\ \A p \in R : p.addr = new.addr =>
       IF p.name = new.name THEN CheckUpgradability(p, new.policy, new.modules) ELSE CheckCoexistence(p, new.modules)
  /\ \A p \in Old(R, new.addr, new.name) : new.upgrade_number = p.upgrade_number + 1

\* The new package takes the place of p.
Succeeds(new, p) ==
  /\ p.addr = new.addr /\ p.name = new.name /\ p.modules \subseteq new.modules
  /\ p.policy <= new.policy /\ p.policy < Immutable /\ new.upgrade_number = p.upgrade_number + 1

LEMMA ReplacedPackages ==
  ASSUME NEW R \in SUBSET PackageSet, NEW new \in PackageSet, Publishable(R, new)
  PROVE  /\ new \in Replaced(R, new) /\ Replaced(R, new) \subseteq PackageSet
         /\ \A p \in Replaced(R, new) :
              p = new \/ (p \in R /\ (p.addr = new.addr => p.name # new.name /\ p.modules \cap new.modules = {}))
         /\ \A p \in R : p \in Replaced(R, new) \/ Succeeds(new, p)
BY DEF Succeeds, Replaced, Old, Publishable, CheckUpgradability, CheckCoexistence

\* What was declared stays declared: nobody takes a module away.
LEMMA PublishingKeepsDeclarations ==
  ASSUME NEW R \in SUBSET PackageSet, NEW new \in PackageSet, Publishable(R, new), NEW p, NEW use
  PROVE  /\ Declared(R, p, use) => Declared(Replaced(R, new), p, use)
         /\ /\ \/ use[1] \in Exempted
               \/ \E q \in R : <<q.addr, q.name>> \in p.deps /\ use[1] = q.addr /\ use[2] \in q.modules
            => Declared(Replaced(R, new), p, use)
<1>1. ASSUME NEW q \in R, <<q.addr, q.name>> \in p.deps, use[1] = q.addr, use[2] \in q.modules
      PROVE  \E t \in Replaced(R, new) : <<t.addr, t.name>> \in p.deps /\ use[1] = t.addr /\ use[2] \in t.modules
  <2>1. new \in Replaced(R, new)
    BY ReplacedPackages
  <2>2. q \in Replaced(R, new) \/ Succeeds(new, q)
    BY ReplacedPackages
  <2> QED BY <1>1, <2>1, <2>2 DEF Succeeds
<1> QED BY <1>1 DEF Declared

LEMMA PublishingKeepsStrength ==
  ASSUME NEW R \in SUBSET PackageSet, NEW new \in PackageSet, Publishable(R, new), Strong(R)
  PROVE  Strong(Replaced(R, new))
<1> DEFINE S == Replaced(R, new)
<1> SUFFICES ASSUME NEW p \in S, NEW dep \in p.deps, dep[1] \notin Exempted
             PROVE  \E t \in S : t.addr = dep[1] /\ t.name = dep[2] /\ t.policy >= p.policy
  BY DEF Strong
<1>1. PICK q \in R : q.addr = dep[1] /\ q.name = dep[2] /\ q.policy >= p.policy
  <2>1. CASE p = new
    BY <2>1 DEF Publishable, CheckDependencies
  <2>2. CASE p # new
    BY <2>2, ReplacedPackages DEF Strong
  <2> QED BY <2>1, <2>2
<1>2. q.policy \in Int /\ p.policy \in Int /\ new.policy \in Int
  <2>1. p \in PackageSet /\ q \in PackageSet
    BY ReplacedPackages
  <2> QED BY <2>1, PackageFields
<1>3. new \in S
  BY ReplacedPackages
<1>4. q \in S \/ Succeeds(new, q)
  BY ReplacedPackages
<1> HIDE DEF S
<1> QED BY <1>1, <1>2, <1>3, <1>4 DEF Succeeds

LEMMA PublishingKeepsAgreement ==
  ASSUME NEW R, NEW M, Agree(R, M, {}), NEW new \in PackageSet, Publishable(R, new)
  PROVE  Agree(Replaced(R, new), M, {new.addr} \X new.modules)
<1> DEFINE S == Replaced(R, new)
           W == {new.addr} \X new.modules
<1>1. /\ R \in SUBSET PackageSet /\ M \subseteq ModuleSet /\ Separate(R) /\ Strong(R)
  BY DEF Agree
<1>2. /\ new \in S /\ S \subseteq PackageSet
      /\ \A p \in S : p = new \/ (p \in R /\ (p.addr = new.addr => p.name # new.name /\ p.modules \cap new.modules = {}))
      /\ \A p \in R : p \in S \/ Succeeds(new, p)
  <2>1. new \in S /\ S \subseteq PackageSet
    BY <1>1, ReplacedPackages
  <2>2. ASSUME NEW p \in S
        PROVE  p = new \/ (p \in R /\ (p.addr = new.addr => p.name # new.name /\ p.modules \cap new.modules = {}))
    BY <1>1, ReplacedPackages
  <2>3. ASSUME NEW p \in R
        PROVE  p \in S \/ Succeeds(new, p)
    BY <1>1, ReplacedPackages
  <2> HIDE DEF S
  <2> QED BY <2>1, <2>2, <2>3
<1>3. Strong(S)
  BY <1>1, PublishingKeepsStrength
<1> HIDE DEF S
<1>4. Separate(S)
  BY <1>1, <1>2 DEF Separate
<1>5. \A a, m : <<a, m>> \in W <=> a = new.addr /\ m \in new.modules
  OBVIOUS
<1> HIDE DEF W
<1>6. \A a, m : Lists(S, a, m) <=> Lists(R, a, m) \/ <<a, m>> \in W
  BY <1>2, <1>5 DEF Lists, Succeeds
<1>7. \A a, m : Lists(S, a, m) <=> Exists(M, a, m) \/ <<a, m>> \in W
  BY <1>6 DEF Agree
<1>8. ASSUME NEW p \in S, NEW x \in M, x.addr = p.addr, x.name \in p.modules
      PROVE  x.version <= p.upgrade_number /\ (<<x.addr, x.name>> \in W => x.version < p.upgrade_number)
  <2>1. PICK q \in R : q.addr = x.addr /\ x.name \in q.modules
    BY DEF Agree, Lists, Exists
  <2>2. x.version <= q.upgrade_number
    BY <2>1 DEF Agree
  <2>3. x.version \in Int /\ q.upgrade_number \in Int
    BY <1>1, ModuleFields, PackageFields
  <2>4. CASE p = new
    <3>1. q.addr = new.addr /\ q.modules \cap new.modules # {}
      BY <1>8, <2>1, <2>4
    <3>2. new.upgrade_number = q.upgrade_number + 1
      BY <3>1 DEF Publishable, CheckCoexistence, Old
    <3> QED BY <2>2, <2>3, <2>4, <3>2
  <2>5. CASE p # new
    <3>1. p \in R /\ (p.addr = new.addr => p.modules \cap new.modules = {})
      BY <1>2, <2>5
    <3>2. p.addr = q.addr /\ p.modules \cap q.modules # {}
      BY <1>8, <2>1
    <3>3. p = q
      BY <1>1, <3>1, <3>2 DEF Separate
    <3>4. <<x.addr, x.name>> \notin W
      BY <1>5, <1>8, <3>1
    <3> QED BY <2>2, <3>3, <3>4
  <2> QED BY <2>4, <2>5
<1>9. ASSUME NEW x \in M, NEW use \in x.uses
      PROVE  /\ Exists(M, use[1], use[2])
             /\ <<x.addr, x.name>> \notin W =>
                  \E p \in S : p.addr = x.addr /\ x.name \in p.modules /\ Declared(S, p, use)
  <2>1. PICK p \in R : p.addr = x.addr /\ x.name \in p.modules /\ Declared(R, p, use)
    BY DEF Agree
  <2>2. Declared(S, p, use)
    BY <1>1, <2>1, PublishingKeepsDeclarations DEF S
  <2>3. <<x.addr, x.name>> \notin W => p \in S
    BY <1>2, <1>5, <2>1 DEF Succeeds
  <2>4. Exists(M, use[1], use[2])
    BY DEF Agree
  <2> QED BY <2>1, <2>2, <2>3, <2>4
<1> QED BY <1>1, <1>2, <1>3, <1>4, <1>7, <1>8, <1>9 DEF Agree, S, W

LEMMA PublishingStands ==
  ASSUME NEW R \in SUBSET PackageSet, NEW new \in PackageSet, Publishable(R, new),
         NEW r, r.destination = new.addr, r.expected = new.modules,
         r.bundle \in [new.modules -> SUBSET (Addresses \X ModuleNames)],
         r.allowed = AllowedDeps(new.deps, R) \cup ({new.addr} \X new.modules)
  PROVE  Stands(Replaced(R, new), r)
<1>1. new \in Replaced(R, new) /\ new.addr \in Addresses /\ new.modules \subseteq ModuleNames
      /\ new.deps \in SUBSET (Addresses \X Names)
  BY ReplacedPackages, PackageFields
<1>2. ASSUME NEW use \in r.allowed
      PROVE  Declared(Replaced(R, new), new, use)
  <2>1. CASE use \in {new.addr} \X new.modules
    BY <2>1 DEF Declared
  <2>2. CASE use \in AllowedDeps(new.deps, R)
    BY <1>1, <2>2, AllowedIsDeclared, PublishingKeepsDeclarations
  <2> QED BY <2>1, <2>2
<1> QED BY <1>1, <1>2 DEF Stands

-----------------------------------------------------------------------------
(* Serving a request *)

\* The modules of a request take the place of those with their names.
Overwritten(M, N, r) ==
  /\ N \subseteq ModuleSet
  /\ \A x \in M : <<x.addr, x.name>> \notin ToWrite(r) => x \in N
  /\ \A x \in N : x \in M \/ <<x.addr, x.name>> \in ToWrite(r)
  /\ \A x \in N : <<x.addr, x.name>> \in ToWrite(r) =>
       /\ x.uses = r.bundle[x.name]
       /\ x.version = 0 \/ \E y \in M : y.addr = x.addr /\ y.name = x.name /\ x.version = y.version + 1
  /\ \A addr, m : <<addr, m>> \in ToWrite(r) => Exists(N, addr, m)

\* What the virtual machine checks of the modules to write.
Admissible(M, r) ==
  \A m \in r.expected : \A use \in r.bundle[m] :
    use \in r.allowed /\ (Exists(M, use[1], use[2]) \/ <<use[1], use[2]>> \in ToWrite(r))

LEMMA ServingKeepsAgreement ==
  ASSUME NEW R, NEW M, NEW N, NEW r, Agree(R, M, ToWrite(r)), Stands(R, r), Overwritten(M, N, r), Admissible(M, r)
  PROVE  Agree(R, N, {})
<1> DEFINE W == ToWrite(r)
<1>1. /\ R \subseteq PackageSet /\ M \subseteq ModuleSet /\ N \subseteq ModuleSet /\ Separate(R) /\ Strong(R)
  BY DEF Agree, Overwritten
<1>2. PICK new \in R : /\ new.addr = r.destination /\ new.modules = r.expected
                      /\ \A m \in r.expected : \A use \in r.bundle[m] : use \in r.allowed => Declared(R, new, use)
  BY DEF Stands
<1>3. \A addr, m : <<addr, m>> \in W <=> addr = new.addr /\ m \in new.modules
  BY <1>2 DEF ToWrite
<1> HIDE DEF W
<1>4. \A addr, m : Exists(N, addr, m) <=> Exists(M, addr, m) \/ <<addr, m>> \in W
  <2> TAKE addr, m
  <2>1. ASSUME NEW x \in M, x.addr = addr, x.name = m, <<addr, m>> \notin W
        PROVE  x \in N
    BY <2>1 DEF Overwritten, W
  <2>2. \A x \in N : x \in M \/ <<x.addr, x.name>> \in W
    BY DEF Overwritten, W
  <2>3. <<addr, m>> \in W => Exists(N, addr, m)
    BY DEF Overwritten, W
  <2> QED BY <2>1, <2>2, <2>3 DEF Exists
<1>5. \A addr, m : Lists(R, addr, m) <=> Exists(N, addr, m)
  BY <1>4 DEF Agree, W
<1>6. ASSUME NEW p \in R, NEW x \in N, x.addr = p.addr, x.name \in p.modules
      PROVE  x.version <= p.upgrade_number
  <2>1. p.upgrade_number \in Nat
    BY <1>1, PackageFields
  <2>2. CASE <<x.addr, x.name>> \notin W
    <3>1. x \in M
      BY <2>2 DEF Overwritten, W
    <3> QED BY <1>6, <3>1 DEF Agree
  <2>3. CASE <<x.addr, x.name>> \in W
    <3>1. CASE x.version = 0
      BY <2>1, <3>1
    <3>2. ASSUME NEW y \in M, y.addr = x.addr, y.name = x.name, x.version = y.version + 1
          PROVE  x.version <= p.upgrade_number
      <4>1. y.version < p.upgrade_number
        BY <1>6, <2>3, <3>2 DEF Agree, W
      <4>2. y.version \in Nat
        BY <1>1, ModuleFields
      <4> QED BY <2>1, <3>2, <4>1, <4>2
    <3> QED BY <2>3, <3>1, <3>2 DEF Overwritten, W
  <2> QED BY <2>2, <2>3
<1>7. ASSUME NEW x \in N, NEW use \in x.uses
      PROVE  /\ Exists(N, use[1], use[2])
             /\ \E p \in R : p.addr = x.addr /\ x.name \in p.modules /\ Declared(R, p, use)
  <2>1. CASE <<x.addr, x.name>> \notin W
    <3>1. x \in M
      BY <2>1 DEF Overwritten, W
    <3>2. Exists(M, use[1], use[2]) /\ \E p \in R : p.addr = x.addr /\ x.name \in p.modules /\ Declared(R, p, use)
      BY <2>1, <3>1 DEF Agree, W
    <3> QED BY <1>4, <3>2
  <2>2. CASE <<x.addr, x.name>> \in W
    <3>1. x.uses = r.bundle[x.name] /\ x.addr = new.addr /\ x.name \in new.modules /\ x.name \in r.expected
      BY <1>2, <1>3, <2>2 DEF Overwritten, W
    <3>2. use \in r.allowed /\ (Exists(M, use[1], use[2]) \/ <<use[1], use[2]>> \in W)
      BY <3>1 DEF Admissible, W
    <3> QED BY <1>2, <1>4, <3>1, <3>2
  <2> QED BY <2>1, <2>2
<1> QED BY <1>1, <1>5, <1>6, <1>7 DEF Agree

\* Published writes the modules of the request.
LEMMA PublishedOverwrites ==
  ASSUME NEW r, loaded \subseteq ModuleSet, r.destination \in Addresses, r.expected \subseteq ModuleNames,
         r.bundle \in [r.expected -> SUBSET (Addresses \X ModuleNames)]
  PROVE  Overwritten(loaded, Published(r), r)
<1> DEFINE before(m) == Named(loaded, r.destination, m)
           version(m) == IF before(m) = {} THEN 0 ELSE 1 + (CHOOSE x \in before(m) : TRUE).version
           entry(m) == ModuleEntry(r.destination, m, version(m), r.bundle[m])
<1>1. Published(r) = (loaded \ UNION {before(m) : m \in r.expected}) \cup {entry(m) : m \in r.expected}
  BY DEF Published
<1>2. ASSUME NEW m \in r.expected
      PROVE  version(m) = 0 \/ \E y \in loaded : y.addr = r.destination /\ y.name = m /\ version(m) = y.version + 1
  <2>1. CASE before(m) = {}
    BY <2>1
  <2>2. CASE before(m) # {}
    <3>1. (CHOOSE x \in before(m) : TRUE) \in before(m)
      BY <2>2
    <3>2. \A x \in before(m) : x \in loaded /\ x.addr = r.destination /\ x.name = m /\ x.version \in Nat
      BY ModuleFields DEF Named
    <3> DEFINE old == CHOOSE x \in before(m) : TRUE
    <3>3. version(m) = 1 + old.version
      BY <2>2
    <3>4. old \in loaded /\ old.addr = r.destination /\ old.name = m /\ old.version \in Nat
      BY <3>1, <3>2
    <3> HIDE DEF old, version, before
    <3> QED BY <3>3, <3>4
  <2> QED BY <2>1, <2>2
<1>3. ASSUME NEW m \in r.expected
      PROVE  version(m) \in Nat
  <2>1. \A y \in loaded : y.version + 1 \in Nat
    BY ModuleFields
  <2> HIDE DEF version
  <2> QED BY <1>2, <2>1
<1> HIDE DEF version
<1>4. \A m \in r.expected :
        /\ entry(m) \in ModuleSet /\ entry(m).addr = r.destination /\ entry(m).name = m
        /\ entry(m).version = version(m) /\ entry(m).uses = r.bundle[m]
  BY <1>3 DEF ModuleEntry, ModuleSet
<1> HIDE DEF entry
<1>5. \A addr, m : <<addr, m>> \in ToWrite(r) <=> addr = r.destination /\ m \in r.expected
  BY DEF ToWrite
<1>6. Published(r) \subseteq ModuleSet
  BY <1>1, <1>4
<1>7. \A x \in loaded : <<x.addr, x.name>> \notin ToWrite(r) => x \in Published(r)
  BY <1>1, <1>5 DEF Named
<1>8. \A x \in Published(r) :
        \/ x \in loaded /\ <<x.addr, x.name>> \notin ToWrite(r)
        \/ \E m \in r.expected : x = entry(m)
  BY <1>1, <1>5 DEF Named
<1>9. ASSUME NEW x \in Published(r), <<x.addr, x.name>> \in ToWrite(r)
      PROVE  /\ x.uses = r.bundle[x.name]
             /\ x.version = 0 \/ \E y \in loaded : y.addr = x.addr /\ y.name = x.name /\ x.version = y.version + 1
  <2>1. PICK m \in r.expected : x = entry(m)
    BY <1>8, <1>9
  <2> QED BY <1>2, <1>4, <2>1
<1>10. \A x \in Published(r) : x \in loaded \/ <<x.addr, x.name>> \in ToWrite(r)
  <2> TAKE x \in Published(r)
  <2>1. ASSUME NEW m \in r.expected, x = entry(m)
        PROVE  x.addr = r.destination /\ x.name \in r.expected
    BY <1>4, <2>1
  <2> QED BY <1>5, <1>8, <2>1
<1>11. \A addr, m : <<addr, m>> \in ToWrite(r) => Exists(Published(r), addr, m)
  BY <1>1, <1>4, <1>5 DEF Exists
<1> QED BY <1>6, <1>7, <1>9, <1>10, <1>11 DEF Overwritten

LEMMA AcceptedIsAdmissible ==
  ASSUME NEW r, Accepts(r)
  PROVE  Admissible(loaded, r)
BY DEF Accepts, Admissible, Exists, Named, ToWrite

-----------------------------------------------------------------------------
(* Sessions *)

\* What the running session makes of the committed packages and modules.
Continues ==
  \A p \in packages : \E q \in registry :
    /\ q.addr = p.addr /\ q.name = p.name /\ q.policy >= p.policy
    /\ p.policy = Immutable =>
         /\ q = p
         /\ \A m \in p.modules : /\ Named(modules, p.addr, m) = Named(loaded, p.addr, m)
                                /\ <<p.addr, m>> \notin Awaited(context.requested)

CodeInv ==
  /\ code_phase \in {"idle", "payload", "init"}
  /\ context = [enabled |-> context.enabled, requested |-> context.requested]
  /\ context.requested = {} \/ \E r : context.requested = {r} /\ code_phase = "payload" /\ Stands(registry, r)
  /\ Agree(packages, modules, {}) /\ Agree(registry, loaded, Awaited(context.requested))
  /\ code_phase = "idle" => registry = packages /\ loaded = modules
  /\ code_phase = "init" => ~context.enabled
  /\ Continues

LEMMA NothingContinues ==
  ASSUME Agree(packages, modules, {}), registry = packages, loaded = modules, context.requested = {}
  PROVE  Continues
<1>1. \A p \in packages : p.policy \in Int
  BY PackageFields DEF Agree
<1> QED BY <1>1 DEF Continues, Awaited

LEMMA CodeInvHolds ==
  CodeInv => CodeTypeOK /\ RegistryMatchesModules /\ DependenciesAreAsStrong /\ UsesAreDeclared
<1> SUFFICES ASSUME CodeInv
             PROVE  CodeTypeOK /\ RegistryMatchesModules /\ DependenciesAreAsStrong /\ UsesAreDeclared
  OBVIOUS
<1>1. /\ packages \subseteq PackageSet /\ registry \subseteq PackageSet /\ modules \subseteq ModuleSet
      /\ Separate(packages) /\ Strong(packages)
      /\ \A addr, m : Lists(packages, addr, m) <=> Exists(modules, addr, m)
      /\ \A p \in packages, x \in modules : x.addr = p.addr /\ x.name \in p.modules => x.version <= p.upgrade_number
      /\ \A x \in modules : \A use \in x.uses :
           /\ Exists(modules, use[1], use[2])
           /\ \E p \in packages : p.addr = x.addr /\ x.name \in p.modules /\ Declared(packages, p, use)
  BY DEF CodeInv, Agree
<1>2. CodeTypeOK
  <2>1. \A p \in packages \cup registry :
          /\ p.addr \in Addresses /\ p.name \in Names /\ p.policy \in {Compat, Immutable}
          /\ p.modules \subseteq ModuleNames /\ p.upgrade_number \in Nat
    BY <1>1, PackageFields DEF Compat, Immutable
  <2>2. /\ Cardinality(context.requested) <= 1
        /\ context.requested # NoRequest => code_phase = "payload"
    <3>1. CASE context.requested = {}
      BY <3>1, FS_EmptySet DEF NoRequest
    <3>2. ASSUME NEW r, context.requested = {r}, code_phase = "payload"
          PROVE  Cardinality(context.requested) <= 1
      <4>1. Cardinality({r}) = 1
        BY FS_Singleton
      <4> QED BY <3>2, <4>1
    <3> QED BY <3>1, <3>2 DEF CodeInv, NoRequest
  <2> QED BY <2>1, <2>2 DEF CodeTypeOK
<1>3. RegistryMatchesModules
  <2>1. {<<x.addr, x.name>> : x \in modules} = UNION {{p.addr} \X p.modules : p \in packages}
    <3>1. ASSUME NEW x \in modules
          PROVE  <<x.addr, x.name>> \in UNION {{p.addr} \X p.modules : p \in packages}
      <4>1. Exists(modules, x.addr, x.name)
        BY DEF Exists
      <4>2. PICK p \in packages : p.addr = x.addr /\ x.name \in p.modules
        BY <1>1, <4>1 DEF Lists
      <4>3. <<x.addr, x.name>> \in {p.addr} \X p.modules
        BY <4>2
      <4> QED BY <4>3
    <3>2. ASSUME NEW p \in packages, NEW pair \in {p.addr} \X p.modules
          PROVE  pair \in {<<x.addr, x.name>> : x \in modules}
      <4>1. pair = <<p.addr, pair[2]>> /\ pair[2] \in p.modules
        OBVIOUS
      <4>2. Exists(modules, p.addr, pair[2])
        BY <1>1, <4>1 DEF Lists
      <4> QED BY <4>1, <4>2 DEF Exists
    <3> QED BY <3>1, <3>2
  <2>2. \A p \in packages : \A m \in p.modules : \A x \in Named(modules, p.addr, m) : x.version <= p.upgrade_number
    BY <1>1 DEF Named
  <2> QED BY <1>1, <2>1, <2>2 DEF RegistryMatchesModules, Separate
<1>4. DependenciesAreAsStrong
  BY <1>1 DEF DependenciesAreAsStrong, Strong
<1>5. UsesAreDeclared
  BY <1>1 DEF UsesAreDeclared, Declared, Named, Exists
<1> QED BY <1>2, <1>3, <1>4, <1>5

LEMMA CodeInvInit == CodeInit => CodeInv
<1> SUFFICES ASSUME CodeInit PROVE CodeInv
  OBVIOUS
<1>1. PICK name \in Names, m \in ModuleNames :
        /\ packages = {PackageEntry(addr, name, Compat, 0, {m}, {}) : addr \in Exempted}
        /\ modules = {ModuleEntry(addr, m, 0, {}) : addr \in Exempted}
  BY DEF CodeInit
<1>2. \A p \in packages : /\ p \in PackageSet /\ p.addr \in Exempted
                          /\ p = PackageEntry(p.addr, name, Compat, 0, {m}, {})
                          /\ p.modules = {m} /\ p.deps = {} /\ p.upgrade_number = 0
  BY <1>1, CodePublishingAssumption DEF PackageEntry, PackageSet
<1>3. \A x \in modules : x \in ModuleSet /\ x.addr \in Exempted /\ x.name = m /\ x.version = 0 /\ x.uses = {}
  BY <1>1, CodePublishingAssumption DEF ModuleEntry, ModuleSet
<1>4. Separate(packages) /\ Strong(packages)
  BY <1>2 DEF Separate, Strong
<1>5. ASSUME NEW addr, NEW n
      PROVE  Lists(packages, addr, n) <=> Exists(modules, addr, n)
  <2>1. addr \in Exempted => /\ PackageEntry(addr, name, Compat, 0, {m}, {}) \in packages
                             /\ ModuleEntry(addr, m, 0, {}) \in modules
    BY <1>1
  <2>2. /\ PackageEntry(addr, name, Compat, 0, {m}, {}).addr = addr
        /\ PackageEntry(addr, name, Compat, 0, {m}, {}).modules = {m}
        /\ ModuleEntry(addr, m, 0, {}).addr = addr /\ ModuleEntry(addr, m, 0, {}).name = m
    BY DEF PackageEntry, ModuleEntry
  <2> QED BY <1>2, <1>3, <2>1, <2>2 DEF Lists, Exists
<1>6. Agree(packages, modules, {})
  <2>1. packages \subseteq PackageSet /\ modules \subseteq ModuleSet
    BY <1>2, <1>3
  <2>2. ASSUME NEW p \in packages, NEW x \in modules
        PROVE  x.version <= p.upgrade_number
    BY <1>2, <1>3
  <2>3. \A addr, n : Lists(packages, addr, n) <=> Exists(modules, addr, n)
    BY <1>5, Zenon
  <2>4. \A x \in modules : x.uses = {}
    BY <1>3
  <2> QED BY <1>4, <2>1, <2>2, <2>3, <2>4 DEF Agree
<1>7. context = [enabled |-> TRUE, requested |-> {}] /\ registry = packages /\ loaded = modules /\ code_phase = "idle"
  BY DEF CodeInit, NewContext, NoRequest
<1>8. Awaited(context.requested) = {} /\ Continues
  BY <1>6, <1>7, NothingContinues DEF Awaited
<1> QED BY <1>6, <1>7, <1>8 DEF CodeInv

\* A step in which the registries and the modules stay as they are.
LEMMA QuietSession ==
  ASSUME CodeInv, UNCHANGED <<packages, modules, registry, loaded>>, context' = NewContext, context.requested = {},
         code_phase' \in {"idle", "payload"}, code_phase' = "idle" => code_phase = "idle"
  PROVE  CodeInv'
<1>1. context' = [enabled |-> TRUE, requested |-> {}] /\ context'.requested = {} /\ context'.enabled = TRUE
  BY DEF NewContext, NoRequest
<1>2. Agree(packages, modules, {})' /\ Agree(registry, loaded, Awaited(context.requested))'
  BY <1>1 DEF CodeInv, Agree, Awaited
<1>3. Continues'
  BY <1>1 DEF CodeInv, Continues, Named, Awaited
<1> QED BY <1>1, <1>2, <1>3 DEF CodeInv

LEMMA PublishKeeps ==
  ASSUME CodeInv, NEW addr \in Addresses, NEW name \in Names, NEW policy \in Arbitrary .. Immutable,
         NEW names \in SUBSET ModuleNames, NEW deps \in Deps, PublishPackage(addr, name, policy, names, deps)
  PROVE  CodeInv' /\ UNCHANGED <<packages, modules>>
<1> DEFINE old == Old(registry, addr, name)
           number == IF old = {} THEN 0 ELSE 1 + (CHOOSE p \in old : TRUE).upgrade_number
           new == PackageEntry(addr, name, policy, number, names, deps)
<1>1. PICK writes \in Bundles(names) : RequestPublish(addr, writes, names, AllowedDeps(deps, registry), policy)
  BY DEF PublishPackage
<1> DEFINE r == [destination |-> addr, bundle |-> writes, expected |-> names,
                 allowed |-> AllowedDeps(deps, registry) \cup ({addr} \X names), check_compat |-> policy # Arbitrary]
<1>2. /\ context.enabled /\ context.requested = {} /\ context' = [context EXCEPT !.requested = {r}]
      /\ code_phase \in {"payload", "init"} /\ policy > Arbitrary
      /\ CheckDependencies(addr, policy, deps, registry)
      /\ \A p \in registry : p.addr = addr =>
           IF p.name = name THEN CheckUpgradability(p, policy, names) ELSE CheckCoexistence(p, names)
      /\ registry' = (registry \ old) \cup {new}
      /\ UNCHANGED <<packages, modules, code_phase, loaded>>
  BY <1>1 DEF PublishPackage, RequestPublish, NoRequest, Old
<1>3. code_phase = "payload" /\ code_phase' = "payload"
  BY <1>2 DEF CodeInv
<1>4. /\ context'.requested = {r} /\ context'.enabled = context.enabled
      /\ context' = [enabled |-> context'.enabled, requested |-> context'.requested]
  BY <1>2 DEF CodeInv
<1>5. Agree(registry, loaded, {}) /\ registry \in SUBSET PackageSet
  BY <1>2 DEF CodeInv, Awaited, Agree
<1>6. \A p \in old : number = p.upgrade_number + 1
  <2>1. \A p, q \in old : p = q
    BY <1>5 DEF Old, Agree, Separate
  <2>2. \A p \in old : p.upgrade_number \in Nat
    BY <1>5, PackageFields DEF Old
  <2> HIDE DEF old
  <2> TAKE p \in old
  <2>3. p = CHOOSE q \in old : TRUE
    BY <2>1
  <2>4. number = 1 + (CHOOSE q \in old : TRUE).upgrade_number
    OBVIOUS
  <2>5. number = 1 + p.upgrade_number
    BY <2>3, <2>4
  <2> HIDE DEF number
  <2> QED BY <2>2, <2>5
<1>7. number \in Nat
  <2>1. \A p \in old : p.upgrade_number + 1 \in Nat
    BY <1>5, PackageFields DEF Old
  <2> HIDE DEF old
  <2>2. CASE old = {}
    BY <2>2
  <2>3. CASE old # {}
    BY <1>6, <2>1, <2>3
  <2> QED BY <2>2, <2>3
<1> HIDE DEF number
<1>8. /\ new \in PackageSet /\ new.addr = addr /\ new.name = name /\ new.policy = policy
      /\ new.modules = names /\ new.deps = deps /\ new.upgrade_number = number
  <2>1. deps \in SUBSET (Addresses \X Names)
    BY DEF Deps, SmallSubsets
  <2>2. policy \in {Compat, Immutable}
    BY <1>2 DEF Compat, Immutable, Arbitrary
  <2> QED BY <1>7, <2>1, <2>2 DEF PackageEntry, PackageSet
<1> HIDE DEF new
<1>9. Publishable(registry, new) /\ registry' = Replaced(registry, new)
  BY <1>2, <1>6, <1>8 DEF Publishable, Replaced
<1>10. Agree(registry', loaded, {addr} \X names)
  BY <1>5, <1>8, <1>9, PublishingKeepsAgreement
<1>11. /\ r.destination = addr /\ r.expected = names /\ r.bundle = writes
       /\ r.allowed = AllowedDeps(deps, registry) \cup ({addr} \X names)
  OBVIOUS
<1>12. writes \in [names -> SUBSET (Addresses \X ModuleNames)]
  BY DEF Bundles, SmallSubsets
<1> HIDE DEF r
<1>13. Stands(registry', r)
  BY <1>5, <1>8, <1>9, <1>11, <1>12, PublishingStands
<1>14. Awaited({r}) = {addr} \X names
  BY <1>11 DEF Awaited, ToWrite
<1>15. Continues'
  <2> SUFFICES ASSUME NEW p \in packages
               PROVE  \E q \in registry' :
                        /\ q.addr = p.addr /\ q.name = p.name /\ q.policy >= p.policy
                        /\ p.policy = Immutable =>
                             /\ q = p
                             /\ \A m \in p.modules : /\ Named(modules, p.addr, m) = Named(loaded, p.addr, m)
                                                    /\ <<p.addr, m>> \notin Awaited({r})
    BY <1>2, <1>4 DEF Continues, Named
  <2>1. PICK q \in registry :
          /\ q.addr = p.addr /\ q.name = p.name /\ q.policy >= p.policy
          /\ p.policy = Immutable =>
               q = p /\ \A m \in p.modules : Named(modules, p.addr, m) = Named(loaded, p.addr, m)
    BY DEF CodeInv, Continues
  <2>2. new \in registry' /\ (q \in registry' \/ Succeeds(new, q))
    BY <1>5, <1>8, <1>9, ReplacedPackages
  <2>3. p.policy \in {1, 2} /\ q.policy \in {1, 2} /\ new.policy \in {1, 2}
    BY <1>5, <1>8, PackageFields DEF CodeInv, Agree
  <2>4. CASE Succeeds(new, q)
    <3>1. new.addr = p.addr /\ new.name = p.name /\ new.policy >= p.policy /\ p.policy # Immutable
      BY <2>1, <2>3, <2>4 DEF Succeeds, Immutable
    <3> QED BY <2>2, <3>1
  <2>5. CASE ~Succeeds(new, q)
    <3>1. q \in registry'
      BY <2>2, <2>5
    <3>2. ASSUME p.policy = Immutable, NEW m \in p.modules
          PROVE  <<p.addr, m>> \notin Awaited({r})
      <4>1. q = p
        BY <2>1, <3>2
      <4>2. q.addr = addr => q.modules \cap names = {}
        BY <1>2, <3>2, <4>1 DEF CheckUpgradability, CheckCoexistence, Immutable
      <4> QED BY <1>14, <3>2, <4>1, <4>2
    <3> QED BY <2>1, <3>1, <3>2
  <2> QED BY <2>4, <2>5
<1>16. Agree(packages, modules, {})' /\ Agree(registry, loaded, Awaited(context.requested))'
  <2>1. Agree(packages, modules, {})'
    BY <1>2 DEF CodeInv, Agree
  <2>2. Agree(registry', loaded', Awaited(context'.requested))
    BY <1>2, <1>4, <1>10, <1>14
  <2> QED BY <2>1, <2>2 DEF Agree
<1> PICK request : request = r
  OBVIOUS
<1>17. (\E z : context.requested = {z} /\ code_phase = "payload" /\ Stands(registry, z))'
  <2>1. context'.requested = {request} /\ code_phase' = "payload" /\ Stands(registry', request)
    BY <1>3, <1>4, <1>13
  <2> QED BY <2>1 DEF Stands
<1> QED BY <1>2, <1>3, <1>4, <1>15, <1>16, <1>17 DEF CodeInv

LEMMA FreezeKeeps ==
  ASSUME CodeInv, NEW addr \in Addresses, FreezeCodeObject(addr)
  PROVE  CodeInv' /\ UNCHANGED <<packages, modules>>
<1>1. /\ registry' = FrozenAll(registry, addr)
      /\ \A p \in registry' : p.addr = addr => CheckDependencies(addr, p.policy, p.deps, registry')
      /\ UNCHANGED <<packages, modules, code_phase, loaded, context>> /\ code_phase \in {"payload", "init"}
  BY DEF FreezeCodeObject, FrozenAll, Frozen
<1>2. registry \in SUBSET PackageSet /\ packages \in SUBSET PackageSet
  BY DEF CodeInv, Agree
<1>3. Agree(packages, modules, {})'
  BY <1>1 DEF CodeInv, Agree
<1>4. Agree(registry, loaded, Awaited(context.requested))'
  <2>1. Agree(registry', loaded, Awaited(context.requested))
    BY <1>1, FreezingKeepsAgreement DEF CodeInv
  <2> QED BY <1>1, <2>1 DEF Agree, Awaited
<1>5. (context.requested = {} \/ \E z : context.requested = {z} /\ code_phase = "payload" /\ Stands(registry, z))'
  <2>1. ASSUME NEW z, context.requested = {z}, code_phase = "payload", Stands(registry, z)
        PROVE  Stands(registry', z)
    BY <1>1, <1>2, <2>1, FreezingKeepsRequests
  <2>2. context.requested = {} \/ \E z : context.requested = {z} /\ code_phase = "payload" /\ Stands(registry', z)
    BY <2>1 DEF CodeInv
  <2> QED BY <1>1, <2>2 DEF Stands
<1>6. Continues'
  <2> SUFFICES ASSUME NEW p \in packages
               PROVE  \E q \in registry' :
                        /\ q.addr = p.addr /\ q.name = p.name /\ q.policy >= p.policy
                        /\ p.policy = Immutable =>
                             /\ q = p
                             /\ \A m \in p.modules : /\ Named(modules, p.addr, m) = Named(loaded, p.addr, m)
                                                    /\ <<p.addr, m>> \notin Awaited(context.requested)
    BY <1>1 DEF Continues, Named, Awaited
  <2>1. PICK q \in registry :
          /\ q.addr = p.addr /\ q.name = p.name /\ q.policy >= p.policy
          /\ p.policy = Immutable =>
               /\ q = p
               /\ \A m \in p.modules : /\ Named(modules, p.addr, m) = Named(loaded, p.addr, m)
                                      /\ <<p.addr, m>> \notin Awaited(context.requested)
    BY DEF CodeInv, Continues
  <2> DEFINE t == Frozen(q, addr)
  <2>2. /\ t \in registry' /\ t.addr = q.addr /\ t.name = q.name /\ t.policy >= q.policy
        /\ q.policy = Immutable => t = q
        /\ p.policy \in Int /\ q.policy \in Int /\ t.policy \in Int
    BY <1>1, <1>2, FrozenFields, PackageFields DEF FrozenAll
  <2> HIDE DEF t
  <2>3. t.policy >= p.policy
    BY <2>1, <2>2
  <2> QED BY <2>1, <2>2, <2>3
<1> QED BY <1>1, <1>3, <1>4, <1>5, <1>6 DEF CodeInv

LEMMA EndPayloadKeeps ==
  ASSUME CodeInv, EndPayload
  PROVE  CodeInv' /\ UNCHANGED <<packages, modules>>
<1>1. /\ code_phase = "payload" /\ code_phase' = "init" /\ UNCHANGED <<packages, modules, registry>>
      /\ context' = [enabled |-> FALSE, requested |-> {}] /\ context'.requested = {} /\ context'.enabled = FALSE
      /\ \A request \in context.requested : Accepts(request)
      /\ context.requested = {} => loaded' = loaded
      /\ context.requested # {} => loaded' = Published(CHOOSE request \in context.requested : TRUE)
  BY DEF EndPayload, ExtractPublishRequest, NoRequest
<1>2. Agree(packages, modules, {})'
  BY <1>1 DEF CodeInv, Agree
<1>3. /\ Agree(registry, loaded', {})
      /\ \A addr, m : <<addr, m>> \notin Awaited(context.requested) => Named(loaded', addr, m) = Named(loaded, addr, m)
  <2>1. CASE context.requested = {}
    BY <1>1, <2>1 DEF CodeInv, Awaited
  <2>2. ASSUME NEW z, context.requested = {z}, Stands(registry, z)
        PROVE  /\ Agree(registry, loaded', {})
               /\ \A addr, m : <<addr, m>> \notin Awaited(context.requested) =>
                                 Named(loaded', addr, m) = Named(loaded, addr, m)
    <3>1. (CHOOSE request \in {z} : TRUE) = z
      OBVIOUS
    <3>2. loaded' = Published(z) /\ Accepts(z)
      BY <1>1, <2>2, <3>1
    <3>3. Awaited(context.requested) = ToWrite(z)
      BY <2>2 DEF Awaited
    <3>4. Agree(registry, loaded, ToWrite(z)) /\ loaded \subseteq ModuleSet
      BY <3>3 DEF CodeInv, Agree
    <3>5. Overwritten(loaded, loaded', z)
      BY <2>2, <3>2, <3>4, PublishedOverwrites DEF Stands
    <3>6. Admissible(loaded, z)
      BY <3>2, AcceptedIsAdmissible
    <3>7. Agree(registry, loaded', {})
      BY <2>2, <3>4, <3>5, <3>6, ServingKeepsAgreement
    <3>8. ASSUME NEW addr, NEW m, <<addr, m>> \notin ToWrite(z)
          PROVE  Named(loaded', addr, m) = Named(loaded, addr, m)
      <4>1. /\ \A x \in loaded : <<x.addr, x.name>> \notin ToWrite(z) => x \in loaded'
            /\ \A x \in loaded' : x \in loaded \/ <<x.addr, x.name>> \in ToWrite(z)
        BY <3>5 DEF Overwritten
      <4> QED BY <3>8, <4>1 DEF Named
    <3> QED BY <3>3, <3>7, <3>8
  <2> QED BY <2>1, <2>2 DEF CodeInv
<1>4. Agree(registry, loaded, Awaited(context.requested))'
  BY <1>1, <1>3 DEF Agree, Awaited
<1>5. Continues'
  <2>1. Awaited(context.requested)' = {}
    BY <1>1 DEF Awaited
  <2> QED BY <1>1, <1>3, <2>1 DEF CodeInv, Continues, Named
<1> QED BY <1>1, <1>2, <1>4, <1>5 DEF CodeInv

LEMMA CommitKeeps ==
  ASSUME CodeInv, CommitSession
  PROVE  CodeInv' /\ ImmutableStep
<1>1. /\ code_phase = "init" /\ packages' = registry /\ modules' = loaded /\ code_phase' = "idle"
      /\ context' = [enabled |-> TRUE, requested |-> {}] /\ context'.requested = {} /\ context'.enabled = TRUE
      /\ UNCHANGED <<registry, loaded>>
  BY DEF CommitSession, NewContext, NoRequest
<1>2. context.requested = {} /\ Agree(registry, loaded, {})
  BY <1>1 DEF CodeInv, Awaited
<1>3. Agree(packages, modules, {})' /\ Agree(registry, loaded, Awaited(context.requested))'
  BY <1>1, <1>2 DEF Agree, Awaited
<1>4. \A p \in registry : p.policy \in Int
  BY <1>2, PackageFields DEF Agree
<1>5. Continues'
  BY <1>1, <1>4 DEF Continues, Named, Awaited
<1>6. ImmutableStep
  BY <1>1 DEF CodeInv, Continues, ImmutableStep, Named
<1> QED BY <1>1, <1>3, <1>5, <1>6 DEF CodeInv

LEMMA AbortKeeps ==
  ASSUME CodeInv, AbortSession
  PROVE  CodeInv' /\ UNCHANGED <<packages, modules>>
<1>1. /\ code_phase' = "idle" /\ registry' = packages /\ loaded' = modules /\ UNCHANGED <<packages, modules>>
      /\ context' = [enabled |-> TRUE, requested |-> {}] /\ context'.requested = {} /\ context'.enabled = TRUE
  BY DEF AbortSession, NewContext, NoRequest
<1>2. Agree(packages, modules, {})' /\ Agree(registry, loaded, Awaited(context.requested))'
  BY <1>1 DEF CodeInv, Agree, Awaited
<1>3. \A p \in packages : p.policy \in Int
  BY PackageFields DEF CodeInv, Agree
<1>4. Continues'
  BY <1>1, <1>3 DEF Continues, Named, Awaited
<1> QED BY <1>1, <1>2, <1>4 DEF CodeInv

LEMMA CodeInvStep == CodeInv /\ [CodeNext]_code_vars => CodeInv' /\ ImmutableStep
<1> SUFFICES ASSUME CodeInv, [CodeNext]_code_vars
             PROVE  CodeInv' /\ ImmutableStep
  OBVIOUS
<1>1. ASSUME UNCHANGED <<packages, modules>>
      PROVE  ImmutableStep
  <2>1. \A p \in packages : p.policy \in Int
    BY PackageFields DEF CodeInv, Agree
  <2> QED BY <1>1, <2>1 DEF ImmutableStep, Named
<1>2. CASE StartSession
  <2>1. /\ UNCHANGED <<packages, modules, registry, loaded>> /\ context' = NewContext
        /\ code_phase = "idle" /\ code_phase' = "payload"
    BY <1>2 DEF StartSession
  <2>2. context.requested = {}
    BY <2>1 DEF CodeInv
  <2>3. CodeInv'
    BY <2>1, <2>2, QuietSession
  <2> QED BY <1>1, <2>1, <2>3
<1>3. CASE EndPayload
  BY <1>1, <1>3, EndPayloadKeeps
<1>4. CASE CommitSession
  BY <1>4, CommitKeeps
<1>5. CASE AbortSession
  BY <1>1, <1>5, AbortKeeps
<1>6. ASSUME NEW addr \in Addresses, FreezeCodeObject(addr)
      PROVE  CodeInv' /\ ImmutableStep
  BY <1>1, <1>6, FreezeKeeps
<1>7. ASSUME NEW addr \in Addresses, NEW name \in Names, NEW policy \in Arbitrary .. Immutable,
             NEW names \in SUBSET ModuleNames \ {{}}, NEW deps \in Deps,
             PublishPackage(addr, name, policy, names, deps)
      PROVE  CodeInv' /\ ImmutableStep
  <2>1. names \in SUBSET ModuleNames
    OBVIOUS
  <2> QED BY <1>1, <1>7, <2>1, PublishKeeps
<1>8. CASE UNCHANGED code_vars
  <2>1. UNCHANGED <<packages, modules>>
    BY <1>8 DEF code_vars
  <2>2. CodeInv'
    BY <1>8 DEF code_vars, CodeInv, Agree, Continues, Stands, Awaited, Named
  <2> QED BY <1>1, <2>1, <2>2
<1> QED BY <1>2, <1>3, <1>4, <1>5, <1>6, <1>7, <1>8 DEF CodeNext

\* However sessions publish, freeze, fail and are run: the registry tells the truth about the modules,
\* no package depends on a weaker one or uses what it does not declare, and the immutable stays.
THEOREM DependenciesCorrectness == CodeSpec => DependenciesHold
<1>1. CodeInv /\ [CodeNext]_code_vars => [ImmutableStep]_code_vars
  BY CodeInvStep
<1>2. CodeInv /\ [CodeNext]_code_vars => CodeInv'
  BY CodeInvStep
<1> QED BY <1>1, <1>2, CodeInvInit, CodeInvHolds, PTL DEF CodeSpec, DependenciesHold

-----------------------------------------------------------------------------
(* The extended checks.  A run leaves behind, for each module and each check *)
(* that has passed on it, what that check has seen and reported; the cache   *)
(* of randomness callers is sound as long as nothing was reported.  The      *)
(* lemmas first show that the walk over the call graph is a function and     *)
(* leaves no function open it has looked at, cycles and the shared cache     *)
(* notwithstanding.                                                          *)

\* A non-empty set of naturals has a least element.
LEMMA LeastNatural ==
  ASSUME NEW S, S \subseteq Nat, S # {}
  PROVE  \E x \in S : \A y \in S : x <= y
<1>1. PICK x \in S : \A y \in S : ~(<<y, x>> \in OpToRel(<, Nat))
  BY NatLessThanWellFounded, WFMin
<1>2. \A y \in S : ~(y < x)
  BY <1>1 DEF OpToRel
<1> QED BY <1>2

-----------------------------------------------------------------------------
(* The walk over the call graph: that the recursion of `visit' defines a     *)
(* function.  A visit calls visits of a lower rank, with fewer unknown       *)
(* functions or later in the same loop.                                      *)

NumFuns == Len(FunIds)

LEMMA FunIdsFinite ==
  /\ NumFuns \in Nat /\ DOMAIN FunIds = 1 .. NumFuns
  /\ \A i \in 1 .. NumFuns : FunIds[i] \in Elements(FunIds)
  /\ \A f \in Elements(FunIds) : \E i \in 1 .. NumFuns : FunIds[i] = f
  /\ IsFiniteSet(Elements(FunIds))
<1>1. NumFuns \in Nat /\ DOMAIN FunIds = 1 .. NumFuns
  BY ChecksAssumption DEF NumFuns
<1>2. /\ \A i \in 1 .. NumFuns : FunIds[i] \in Elements(FunIds)
      /\ \A f \in Elements(FunIds) : \E i \in 1 .. NumFuns : FunIds[i] = f
  BY <1>1 DEF Elements
<1>3. IsFiniteSet(1 .. NumFuns)
  BY <1>1, FS_Interval
<1>4. [i \in 1 .. NumFuns |-> FunIds[i]] \in Surjection(1 .. NumFuns, Elements(FunIds))
  BY <1>2 DEF Surjection
<1>5. IsFiniteSet(Elements(FunIds))
  BY <1>3, <1>4, FS_Surjection
<1> QED BY <1>1, <1>2, <1>5

Unknown(cache) == {f \in Elements(FunIds) : cache[f] = "unknown"}

Rank(v) == Cardinality(Unknown(v.cache)) * (NumFuns + 2) + (NumFuns + 1 - v.from)

Below(w, v) ==
  IF v.cache[FunIds[v.from]] # "unknown" THEN v.cache
  ELSE w[[fun |-> FunIds[v.from], from |-> 1, cache |-> [v.cache EXCEPT ![FunIds[v.from]] = "no_caller"]]]

\* One visit, with w for the visits it makes.
Visited(w, v) ==
  IF v.from > Len(FunIds) THEN v.cache
  ELSE IF FunIds[v.from] \notin get_called_functions(v.fun) THEN w[[v EXCEPT !.from = @ + 1]]
  ELSE IF FunIds[v.from] \in RandomnessFuns THEN [v.cache EXCEPT ![v.fun] = "caller"]
  ELSE IF Below(w, v)[FunIds[v.from]] = "caller" THEN [Below(w, v) EXCEPT ![v.fun] = "caller"]
  ELSE w[[v EXCEPT !.from = @ + 1, !.cache = Below(w, v)]]

LEMMA MultiplesGrow ==
  ASSUME NEW c \in Nat, NEW d \in Nat, c < d, NEW n \in Nat
  PROVE  c * n + n <= d * n
<1>1. PICK e \in Nat : d = c + 1 + e
  <2>1. d - c - 1 \in Nat /\ d = c + 1 + (d - c - 1)
    OBVIOUS
  <2> QED BY <2>1
<1>2. d * n = c * n + n + e * n
  BY <1>1
<1>3. e * n \in Nat /\ c * n \in Nat
  OBVIOUS
<1> QED BY <1>2, <1>3

LEMMA RankIsNatural ==
  ASSUME NEW v \in Visits
  PROVE  /\ Cardinality(Unknown(v.cache)) \in Nat
         /\ Rank(v) \in Nat
         /\ Rank(v) <= Cardinality(Elements(FunIds)) * (NumFuns + 2) + (NumFuns + 1)
<1>1. /\ IsFiniteSet(Unknown(v.cache)) /\ IsFiniteSet(Elements(FunIds))
      /\ Cardinality(Unknown(v.cache)) <= Cardinality(Elements(FunIds))
  BY FunIdsFinite, FS_Subset DEF Unknown
<1> DEFINE c == Cardinality(Unknown(v.cache))
           d == Cardinality(Elements(FunIds))
           n == NumFuns + 2
<1>2. c \in Nat /\ d \in Nat /\ c <= d
  BY <1>1, FS_CardinalityType
<1>3. n \in Nat /\ v.from \in 1 .. NumFuns + 1
  BY FunIdsFinite DEF Visits, NumFuns
<1>4. c * n \in Nat /\ d * n \in Nat
  BY <1>2, <1>3
<1>5. c * n <= d * n
  BY <1>2, <1>3, <1>4, MultiplesGrow
<1>6. Rank(v) = c * n + (NumFuns + 1 - v.from)
  BY DEF Rank
<1> HIDE DEF c, d, n
<1>7. /\ Rank(v) \in Nat
      /\ Rank(v) <= d * n + (NumFuns + 1)
  BY <1>3, <1>4, <1>5, <1>6, FunIdsFinite
<1> QED BY <1>2, <1>7 DEF c, d, n

\* Later in the same loop, with no more unknown functions.
LEMMA LaterIsLower ==
  ASSUME NEW v \in Visits, v.from <= NumFuns,
         NEW u \in Visits, u.from = v.from + 1, Unknown(u.cache) \subseteq Unknown(v.cache)
  PROVE  Rank(u) < Rank(v)
<1> DEFINE c == Cardinality(Unknown(u.cache))
           d == Cardinality(Unknown(v.cache))
           n == NumFuns + 2
<1>1. IsFiniteSet(Unknown(v.cache))
  BY FunIdsFinite, FS_Subset DEF Unknown
<1>2. c \in Nat /\ d \in Nat /\ c <= d
  BY <1>1, FS_Subset, FS_CardinalityType
<1>3. n \in Nat /\ v.from \in 1 .. NumFuns + 1 /\ NumFuns \in Nat
  BY FunIdsFinite DEF Visits, NumFuns
<1>4. c * n \in Nat /\ d * n \in Nat
  BY <1>2, <1>3
<1>5. c * n <= d * n
  BY <1>2, <1>3, <1>4, MultiplesGrow
<1>6. Rank(u) = c * n + (NumFuns + 1 - u.from) /\ Rank(v) = d * n + (NumFuns + 1 - v.from)
  BY DEF Rank
<1> HIDE DEF c, d, n
<1> QED BY <1>3, <1>4, <1>5, <1>6

\* A visit of a function that was unknown.
LEMMA DeeperIsLower ==
  ASSUME NEW v \in Visits, v.from <= NumFuns, v.cache[FunIds[v.from]] = "unknown",
         NEW u \in Visits, u.from = 1, u.cache = [v.cache EXCEPT ![FunIds[v.from]] = "no_caller"]
  PROVE  Rank(u) < Rank(v)
<1> DEFINE c == Cardinality(Unknown(u.cache))
           d == Cardinality(Unknown(v.cache))
           n == NumFuns + 2
           g == FunIds[v.from]
<1>0. n \in Nat /\ v.from \in 1 .. NumFuns /\ NumFuns \in Nat /\ v.cache \in Caches
  BY FunIdsFinite DEF Visits, NumFuns
<1>1. IsFiniteSet(Unknown(v.cache))
  BY FunIdsFinite, FS_Subset DEF Unknown
<1>2. g \in Unknown(v.cache) /\ Unknown(u.cache) = Unknown(v.cache) \ {g}
  BY <1>0, FunIdsFinite DEF Unknown, Caches
<1>3. c \in Nat /\ d \in Nat /\ c < d
  <2>1. c = Cardinality(Unknown(v.cache) \ {g})
    BY <1>2
  <2>2. d \in Nat /\ IsFiniteSet(Unknown(v.cache) \ {g}) /\ c = d - 1
    BY <1>1, <1>2, <2>1, FS_RemoveElement, FS_CardinalityType
  <2>3. c \in Nat
    BY <2>1, <2>2, FS_CardinalityType
  <2> HIDE DEF c, d
  <2> QED BY <2>2, <2>3
<1>4. c * n \in Nat /\ d * n \in Nat
  BY <1>0, <1>3
<1>5. c * n + n <= d * n
  BY <1>0, <1>3, MultiplesGrow
<1>6. Rank(u) = c * n + (NumFuns + 1 - u.from) /\ Rank(v) = d * n + (NumFuns + 1 - v.from)
  BY DEF Rank
<1>7. n = NumFuns + 2
  OBVIOUS
<1> HIDE DEF c, d, n
<1> QED BY <1>0, <1>4, <1>5, <1>6, <1>7

LEMMA VisitsMade ==
  ASSUME NEW v \in Visits, v.from <= NumFuns
  PROVE  /\ FunIds[v.from] \in Elements(FunIds) /\ v.fun \in Elements(FunIds) /\ v.cache \in Caches
         /\ [v EXCEPT !.from = @ + 1] \in Visits
         /\ \A cache \in Caches : [v EXCEPT !.from = @ + 1, !.cache = cache] \in Visits
         /\ [fun |-> FunIds[v.from], from |-> 1, cache |-> [v.cache EXCEPT ![FunIds[v.from]] = "no_caller"]] \in Visits
<1>1. v.fun \in Elements(FunIds) /\ v.cache \in Caches /\ v.from \in 1 .. NumFuns /\ NumFuns \in Nat
  BY FunIdsFinite DEF Visits, NumFuns
<1>2. FunIds[v.from] \in Elements(FunIds)
  BY <1>1, FunIdsFinite
<1>3. v.from + 1 \in 1 .. Len(FunIds) + 1 /\ 1 \in 1 .. Len(FunIds) + 1
  BY <1>1 DEF NumFuns
<1>4. [v.cache EXCEPT ![FunIds[v.from]] = "no_caller"] \in Caches
  BY <1>1 DEF Caches
<1>5. v = [fun |-> v.fun, from |-> v.from, cache |-> v.cache]
  BY DEF Visits
<1>6. [v EXCEPT !.from = @ + 1] \in Visits
  BY <1>1, <1>3, <1>5 DEF Visits
<1>7. ASSUME NEW cache \in Caches PROVE [v EXCEPT !.from = @ + 1, !.cache = cache] \in Visits
  BY <1>1, <1>3, <1>5 DEF Visits
<1>8. [fun |-> FunIds[v.from], from |-> 1, cache |-> [v.cache EXCEPT ![FunIds[v.from]] = "no_caller"]] \in Visits
  BY <1>2, <1>3, <1>4 DEF Visits
<1> QED BY <1>1, <1>2, <1>6, <1>7, <1>8

LEMMA VisitedType ==
  ASSUME NEW w \in [Visits -> Caches], NEW v \in Visits
  PROVE  /\ v.from <= NumFuns => Below(w, v) \in Caches
         /\ Visited(w, v) \in Caches
<1>1. v.cache \in Caches /\ v.fun \in Elements(FunIds) /\ v.from \in 1 .. NumFuns + 1 /\ NumFuns \in Nat
  BY FunIdsFinite DEF Visits, NumFuns
<1>2. CASE v.from > NumFuns
  BY <1>1, <1>2 DEF Visited, NumFuns
<1>3. CASE v.from <= NumFuns
  <2>1. Below(w, v) \in Caches
    BY <1>1, <1>3, VisitsMade DEF Below
  <2>2. \A c \in Caches : [c EXCEPT ![v.fun] = "caller"] \in Caches
    BY <1>1 DEF Caches
  <2>3. Visited(w, v) \in Caches
    BY <1>1, <1>3, <2>1, <2>2, VisitsMade DEF Visited
  <2> QED BY <2>1, <2>3
<1> QED BY <1>1, <1>2, <1>3

\* A visit depends on visits of a lower rank only, if none of these makes a function unknown.
LEMMA VisitedIsLocal ==
  ASSUME NEW w \in [Visits -> Caches], NEW x, NEW v \in Visits,
         \A u \in Visits : Rank(u) < Rank(v) => x[u] = w[u] /\ Unknown(w[u]) \subseteq Unknown(u.cache)
  PROVE  /\ Visited(x, v) = Visited(w, v)
         /\ Unknown(Visited(w, v)) \subseteq Unknown(v.cache)
<1>1. v.cache \in Caches /\ v.fun \in Elements(FunIds) /\ v.from \in 1 .. NumFuns + 1 /\ NumFuns \in Nat
  BY FunIdsFinite DEF Visits, NumFuns
<1>2. CASE v.from > NumFuns
  BY <1>1, <1>2 DEF Visited, NumFuns
<1>3. CASE v.from <= NumFuns
  <2> DEFINE g == FunIds[v.from]
             deep == [fun |-> g, from |-> 1, cache |-> [v.cache EXCEPT ![g] = "no_caller"]]
             next == [v EXCEPT !.from = @ + 1]
             last == [v EXCEPT !.from = @ + 1, !.cache = Below(w, v)]
  <2>1. g \in Elements(FunIds) /\ deep \in Visits /\ next \in Visits /\ Below(w, v) \in Caches /\ last \in Visits
    BY <1>3, VisitsMade, VisitedType
  <2>2. v.cache[g] = "unknown" => x[deep] = w[deep] /\ Unknown(w[deep]) \subseteq Unknown(v.cache)
    <3>1. Unknown(deep.cache) \subseteq Unknown(v.cache)
      BY <1>1 DEF Unknown, Caches
    <3>2. v.cache[g] = "unknown" => Rank(deep) < Rank(v)
      BY <1>3, <2>1, DeeperIsLower
    <3> QED BY <2>1, <3>1, <3>2
  <2>3. Below(x, v) = Below(w, v) /\ Unknown(Below(w, v)) \subseteq Unknown(v.cache)
    BY <2>2 DEF Below
  <2>4. next.from = v.from + 1 /\ next.cache = v.cache /\ last.from = v.from + 1 /\ last.cache = Below(w, v)
    BY DEF Visits
  <2>5. x[next] = w[next] /\ Unknown(w[next]) \subseteq Unknown(v.cache)
    BY <1>3, <2>1, <2>4, LaterIsLower
  <2>6. x[last] = w[last] /\ Unknown(w[last]) \subseteq Unknown(v.cache)
    <3>1. Rank(last) < Rank(v)
      BY <1>3, <2>1, <2>3, <2>4, LaterIsLower
    <3> QED BY <2>1, <2>3, <2>4, <3>1
  <2>7. \A c \in Caches : Unknown([c EXCEPT ![v.fun] = "caller"]) \subseteq Unknown(c)
    BY <1>1 DEF Unknown, Caches
  <2>8. \A y : Visited(y, v) =
          IF g \notin get_called_functions(v.fun) THEN y[next]
          ELSE IF g \in RandomnessFuns THEN [v.cache EXCEPT ![v.fun] = "caller"]
          ELSE IF Below(y, v)[g] = "caller" THEN [Below(y, v) EXCEPT ![v.fun] = "caller"]
          ELSE y[[v EXCEPT !.from = @ + 1, !.cache = Below(y, v)]]
    BY <1>1, <1>3 DEF Visited, NumFuns
  <2> HIDE DEF g, deep, next
  <2>9. Visited(x, v) = Visited(w, v)
    BY <2>3, <2>5, <2>6, <2>8
  <2>10. Unknown(Visited(w, v)) \subseteq Unknown(v.cache)
    BY <1>1, <2>1, <2>3, <2>5, <2>6, <2>7, <2>8
  <2> QED BY <2>9, <2>10
<1> QED BY <1>1, <1>2, <1>3

\* w is right for visits of a rank below k.
Computes(w, k) ==
  /\ w \in [Visits -> Caches]
  /\ \A v \in Visits : Rank(v) < k => w[v] = Visited(w, v) /\ Unknown(w[v]) \subseteq Unknown(v.cache)

LEMMA ComputesMore ==
  ASSUME NEW k \in Nat, NEW w, Computes(w, k)
  PROVE  \E x : Computes(x, k + 1)
<1> DEFINE x == [v \in Visits |-> Visited(w, v)]
<1>1. w \in [Visits -> Caches] /\ x \in [Visits -> Caches]
  BY VisitedType DEF Computes
<1>2. \A v \in Visits : Rank(v) < k => x[v] = w[v] /\ Unknown(w[v]) \subseteq Unknown(v.cache)
  BY DEF Computes
<1>3. ASSUME NEW v \in Visits, Rank(v) < k + 1
      PROVE  x[v] = Visited(x, v) /\ Unknown(x[v]) \subseteq Unknown(v.cache)
  <2>1. \A u \in Visits : Rank(u) < Rank(v) => Rank(u) < k
    BY <1>3, RankIsNatural
  <2>2. \A u \in Visits : Rank(u) < Rank(v) => x[u] = w[u] /\ Unknown(w[u]) \subseteq Unknown(u.cache)
    BY <1>2, <2>1
  <2>3. x[v] = Visited(w, v)
    OBVIOUS
  <2> HIDE DEF x
  <2>4. Visited(x, v) = Visited(w, v) /\ Unknown(Visited(w, v)) \subseteq Unknown(v.cache)
    BY <1>1, <2>2, VisitedIsLocal
  <2> QED BY <2>3, <2>4
<1> HIDE DEF x
<1>4. Computes(x, k + 1)
  BY <1>1, <1>3 DEF Computes
<1> QED BY <1>4

LEMMA ComputesAll ==
  ASSUME NEW k \in Nat
  PROVE  \E w : Computes(w, k)
<1> DEFINE Bad == {n \in Nat : ~\E w : Computes(w, n)}
<1>1. CASE Bad = {}
  BY <1>1
<1>2. CASE Bad # {}
  <2>1. PICK n \in Bad : \A l \in Bad : n <= l
    BY <1>2, LeastNatural
  <2>2. n # 0
    <3> DEFINE w == [v \in Visits |-> v.cache]
    <3>1. w \in [Visits -> Caches]
      BY DEF Visits
    <3>2. \A v \in Visits : ~(Rank(v) < 0)
      BY RankIsNatural
    <3>3. Computes(w, 0)
      BY <3>1, <3>2 DEF Computes
    <3> QED BY <2>1, <3>3
  <2>3. n - 1 \in Nat /\ n - 1 \notin Bad
    BY <2>1, <2>2
  <2>4. \E w : Computes(w, n - 1)
    BY <2>3
  <2>5. \E w : Computes(w, (n - 1) + 1)
    BY <2>3, <2>4, ComputesMore
  <2>6. (n - 1) + 1 = n
    BY <2>1
  <2> QED BY <2>1, <2>5, <2>6
<1> QED BY <1>1, <1>2

LEMMA VisitIsDefined ==
  /\ visit \in [Visits -> Caches]
  /\ \A v \in Visits : visit[v] = Visited(visit, v)
<1> DEFINE k == Cardinality(Elements(FunIds)) * (NumFuns + 2) + (NumFuns + 1) + 1
<1>1. k \in Nat /\ \A v \in Visits : Rank(v) < k
  <2> DEFINE c == Cardinality(Elements(FunIds)) * (NumFuns + 2) + (NumFuns + 1)
  <2>1. c \in Nat
    <3>1. Cardinality(Elements(FunIds)) \in Nat /\ NumFuns \in Nat
      BY FunIdsFinite, FS_CardinalityType
    <3> QED BY <3>1
  <2>2. \A v \in Visits : Rank(v) \in Nat /\ Rank(v) <= c
    BY RankIsNatural
  <2>3. k = c + 1
    OBVIOUS
  <2> HIDE DEF c, k
  <2> QED BY <2>1, <2>2, <2>3
<1> HIDE DEF k
<1>2. PICK w : Computes(w, k)
  BY <1>1, ComputesAll
<1>3. w \in [Visits -> Caches] /\ \A v \in Visits : w[v] = Visited(w, v)
  BY <1>1, <1>2 DEF Computes
<1>4. w = [v \in Visits |-> Visited(w, v)]
  BY <1>3
<1>5. visit = CHOOSE y : y = [v \in Visits |-> Visited(y, v)]
  BY DEF visit, Visited, Below
<1>6. visit = [v \in Visits |-> Visited(visit, v)]
  BY <1>4, <1>5
<1>7. \A v \in Visits : visit[v] = w[v]
  <2> DEFINE y == visit
             Bad == {Rank(v) : v \in {u \in Visits : y[u] # w[u]}}
  <2>1. \A v \in Visits : y[v] = Visited(y, v)
    <3>1. y = [v \in Visits |-> Visited(y, v)]
      BY <1>6
    <3> HIDE DEF y
    <3> QED BY <3>1
  <2> HIDE DEF y
  <2>2. ASSUME Bad # {} PROVE FALSE
    <3>1. Bad \subseteq Nat
      BY RankIsNatural
    <3>2. PICK r \in Bad : \A s \in Bad : r <= s
      BY <2>2, <3>1, LeastNatural
    <3>3. PICK v \in Visits : y[v] # w[v] /\ Rank(v) = r
      BY <3>2
    <3>4. ASSUME NEW u \in Visits, Rank(u) < Rank(v) PROVE y[u] = w[u]
      <4>1. y[u] # w[u] => Rank(u) \in Bad
        OBVIOUS
      <4>2. Rank(u) \in Nat /\ Rank(v) \in Nat
        BY RankIsNatural
      <4> HIDE DEF Bad
      <4> QED BY <3>2, <3>3, <3>4, <4>1, <4>2
    <3>5. \A u \in Visits : Unknown(w[u]) \subseteq Unknown(u.cache)
      BY <1>1, <1>2 DEF Computes
    <3>6. Visited(y, v) = Visited(w, v)
      BY <1>3, <3>4, <3>5, VisitedIsLocal
    <3> QED BY <1>3, <2>1, <3>3, <3>6
  <2>3. \A v \in Visits : y[v] = w[v]
    BY <2>2
  <2> QED BY <2>3 DEF y
<1>8. visit = w
  BY <1>3, <1>4, <1>6, <1>7
<1> QED BY <1>3, <1>8

-----------------------------------------------------------------------------
(* What a walk finds out.  While no caller was found, a visit looks at all   *)
(* the callees, and the functions that it adds to the cache are settled.     *)

NoCallers(cache) == \A f \in Elements(FunIds) : cache[f] # "caller"

\* The callees of f are no callers either.
Settled(f, cache) ==
  \A g \in get_called_functions(f) : g \in Elements(FunIds) \ RandomnessFuns /\ cache[g] = "no_caller"

\* The functions that became known on the way from one cache to another are settled in that.
AddsSettled(c, d) ==
  \A f \in Elements(FunIds) : c[f] = "unknown" /\ d[f] = "no_caller" => Settled(f, d)

\* What a visit returns.
Reliable(v) ==
  /\ Unknown(visit[v]) \subseteq Unknown(v.cache)
  /\ v.cache[v.fun] = "no_caller" /\ NoCallers(v.cache) =>
       \/ visit[v][v.fun] = "caller"
       \/ /\ NoCallers(visit[v])
          /\ AddsSettled(v.cache, visit[v])
          /\ \A i \in v.from .. NumFuns : FunIds[i] \in get_called_functions(v.fun) =>
               FunIds[i] \notin RandomnessFuns /\ visit[v][FunIds[i]] = "no_caller"

\* What is no caller stays one while no callers are found.
LEMMA NoCallerStays ==
  ASSUME NEW c \in Caches, NEW d \in Caches, NoCallers(d), Unknown(d) \subseteq Unknown(c)
  PROVE  /\ \A f \in Elements(FunIds) : c[f] = "no_caller" => d[f] = "no_caller"
         /\ \A f : Settled(f, c) => Settled(f, d)
<1>1. \A f \in Elements(FunIds) : c[f] = "no_caller" => d[f] = "no_caller"
  BY DEF Caches, NoCallers, Unknown
<1> QED BY <1>1 DEF Settled

LEMMA VisitEnds ==
  ASSUME NEW v \in Visits, v.from > NumFuns
  PROVE  Reliable(v)
<1>1. visit[v] = v.cache
  BY VisitIsDefined DEF Visited, NumFuns
<1>2. v.from \in Nat /\ NumFuns \in Nat
  BY FunIdsFinite DEF Visits, NumFuns
<1>3. \A i \in v.from .. NumFuns : FALSE
  BY <1>2
<1> QED BY <1>1, <1>3 DEF Reliable, AddsSettled

\* The callee is passed over: it is not called, or known not to be a caller.
LEMMA VisitPasses ==
  ASSUME NEW v \in Visits, v.from <= NumFuns,
         NEW d \in Caches, NEW u \in Visits, u.fun = v.fun, u.from = v.from + 1, u.cache = d,
         visit[v] = visit[u], Reliable(u), Unknown(d) \subseteq Unknown(v.cache),
         v.cache[v.fun] = "no_caller" /\ NoCallers(v.cache) =>
           /\ NoCallers(d) /\ AddsSettled(v.cache, d)
           /\ FunIds[v.from] \in get_called_functions(v.fun) =>
                FunIds[v.from] \notin RandomnessFuns /\ d[FunIds[v.from]] = "no_caller"
  PROVE  Reliable(v)
<1> DEFINE c == v.cache
           r == visit[v]
           g == FunIds[v.from]
<1>1. c \in Caches /\ r \in Caches /\ v.fun \in Elements(FunIds) /\ g \in Elements(FunIds)
  BY VisitIsDefined, VisitsMade
<1>2. Unknown(r) \subseteq Unknown(d) /\ Unknown(r) \subseteq Unknown(c)
  BY DEF Reliable
<1>3. ASSUME c[v.fun] = "no_caller", NoCallers(c), r[v.fun] # "caller"
      PROVE  /\ NoCallers(r) /\ AddsSettled(c, r)
             /\ \A i \in v.from .. NumFuns : FunIds[i] \in get_called_functions(v.fun) =>
                  FunIds[i] \notin RandomnessFuns /\ r[FunIds[i]] = "no_caller"
  <2>1. NoCallers(d) /\ AddsSettled(c, d)
    BY <1>3
  <2>2. d[v.fun] = "no_caller"
    BY <1>1, <1>3, <2>1, NoCallerStays
  <2>3. /\ NoCallers(r) /\ AddsSettled(d, r)
        /\ \A i \in v.from + 1 .. NumFuns : FunIds[i] \in get_called_functions(v.fun) =>
             FunIds[i] \notin RandomnessFuns /\ r[FunIds[i]] = "no_caller"
    BY <1>3, <2>1, <2>2 DEF Reliable
  <2>4. /\ \A f \in Elements(FunIds) : d[f] = "no_caller" => r[f] = "no_caller"
        /\ \A f : Settled(f, d) => Settled(f, r)
    BY <1>1, <1>2, <2>3, NoCallerStays
  <2>5. AddsSettled(c, r)
    <3> SUFFICES ASSUME NEW f \in Elements(FunIds), c[f] = "unknown", r[f] = "no_caller"
                 PROVE  Settled(f, r)
      BY DEF AddsSettled
    <3>1. CASE d[f] = "unknown"
      BY <2>3, <3>1 DEF AddsSettled
    <3>2. CASE d[f] = "no_caller"
      BY <2>1, <2>4, <3>2 DEF AddsSettled
    <3> QED BY <2>1, <3>1, <3>2 DEF Caches, NoCallers
  <2>6. g \in get_called_functions(v.fun) => g \notin RandomnessFuns /\ r[g] = "no_caller"
    BY <1>1, <1>3, <2>4
  <2>7. \A i \in v.from .. NumFuns : i = v.from \/ i \in v.from + 1 .. NumFuns
    BY FunIdsFinite DEF Visits, NumFuns
  <2> QED BY <2>3, <2>5, <2>6, <2>7
<1> QED BY <1>2, <1>3 DEF Reliable

\* What the assumption says of the package that is checked.
EnvIsPackage == \A f \in Elements(FunIds) : env.fun[f].calls \subseteq Elements(FunIds) /\ env.fun[f].returns \in Nat

\* A visit that is looked at from the start settles its function.
LEMMA VisitSettles ==
  ASSUME EnvIsPackage, NEW u \in Visits, Reliable(u), u.from = 1,
         u.cache[u.fun] = "no_caller", NoCallers(u.cache), visit[u][u.fun] # "caller"
  PROVE  NoCallers(visit[u]) /\ AddsSettled(u.cache, visit[u]) /\ Settled(u.fun, visit[u])
<1>1. u.fun \in Elements(FunIds)
  BY DEF Visits
<1>2. /\ NoCallers(visit[u]) /\ AddsSettled(u.cache, visit[u])
      /\ \A i \in 1 .. NumFuns : FunIds[i] \in get_called_functions(u.fun) =>
           FunIds[i] \notin RandomnessFuns /\ visit[u][FunIds[i]] = "no_caller"
  BY DEF Reliable
<1>3. \A g \in get_called_functions(u.fun) : \E i \in 1 .. NumFuns : FunIds[i] = g
  BY <1>1, FunIdsFinite DEF EnvIsPackage, get_called_functions
<1>4. \A g \in get_called_functions(u.fun) : g \in Elements(FunIds)
  BY <1>1 DEF EnvIsPackage, get_called_functions
<1> QED BY <1>2, <1>3, <1>4 DEF Settled

LEMMA VisitStep ==
  ASSUME EnvIsPackage, NEW v \in Visits,
         \A u \in Visits : Rank(u) < Rank(v) => Reliable(u)
  PROVE  Reliable(v)
<1> DEFINE c == v.cache
           r == visit[v]
           g == FunIds[v.from]
           deep == [fun |-> g, from |-> 1, cache |-> [c EXCEPT ![g] = "no_caller"]]
           next == [v EXCEPT !.from = @ + 1]
           last == [v EXCEPT !.from = @ + 1, !.cache = Below(visit, v)]
<1>1. CASE v.from > NumFuns
  BY <1>1, VisitEnds
<1>2. CASE v.from <= NumFuns
  <2>1. /\ c \in Caches /\ r \in Caches /\ v.fun \in Elements(FunIds) /\ g \in Elements(FunIds)
        /\ next \in Visits /\ deep \in Visits
    BY <1>2, VisitIsDefined, VisitsMade
  <2>2. Below(visit, v) \in Caches /\ last \in Visits
    BY <1>2, VisitIsDefined, VisitedType, VisitsMade
  <2>3. /\ next.fun = v.fun /\ next.from = v.from + 1 /\ next.cache = c
        /\ last.fun = v.fun /\ last.from = v.from + 1 /\ last.cache = Below(visit, v)
        /\ deep.fun = g /\ deep.from = 1 /\ deep.cache = [c EXCEPT ![g] = "no_caller"]
    BY DEF Visits
  <2>4. r = IF g \notin get_called_functions(v.fun) THEN visit[next]
            ELSE IF g \in RandomnessFuns THEN [c EXCEPT ![v.fun] = "caller"]
            ELSE IF Below(visit, v)[g] = "caller" THEN [Below(visit, v) EXCEPT ![v.fun] = "caller"]
            ELSE visit[last]
    <3>1. ~(v.from > Len(FunIds))
      BY <1>2, FunIdsFinite DEF NumFuns, Visits
    <3> QED BY <3>1, VisitIsDefined DEF Visited
  <2>5. Below(visit, v) = IF c[g] # "unknown" THEN c ELSE visit[deep]
    BY DEF Below
  <2> DEFINE b == Below(visit, v)
  <2>6. Unknown(deep.cache) \subseteq Unknown(c) /\ c[g] = "unknown" => Reliable(deep)
    BY <1>2, <2>1, DeeperIsLower
  <2>7. Unknown(deep.cache) \subseteq Unknown(c)
    BY <2>1 DEF Unknown, Caches
  <2> HIDE DEF c, r, g, deep, next, last, b
  <2>8. Unknown(b) \subseteq Unknown(c)
    BY <2>5, <2>6, <2>7 DEF Reliable, b
  <2>9. CASE g \notin get_called_functions(v.fun)
    <3>1. Reliable(next)
      BY <1>2, <2>1, <2>3, LaterIsLower DEF c
    <3>2. AddsSettled(c, c)
      BY DEF AddsSettled
    <3> QED BY <1>2, <2>1, <2>3, <2>4, <2>9, <3>1, <3>2, VisitPasses DEF c, r, g
  <2>10. CASE g \in get_called_functions(v.fun) /\ g \in RandomnessFuns
    <3>1. r = [c EXCEPT ![v.fun] = "caller"]
      BY <2>4, <2>10
    <3>2. r[v.fun] = "caller" /\ Unknown(r) \subseteq Unknown(c)
      BY <2>1, <3>1 DEF Caches, Unknown
    <3> QED BY <3>2 DEF Reliable, r, c
  <2>11. CASE g \in get_called_functions(v.fun) /\ g \notin RandomnessFuns /\ b[g] = "caller"
    <3>1. r = [b EXCEPT ![v.fun] = "caller"]
      BY <2>4, <2>11 DEF b
    <3>2. r[v.fun] = "caller" /\ Unknown(r) \subseteq Unknown(b)
      BY <2>1, <2>2, <3>1 DEF Caches, Unknown, b
    <3> QED BY <2>8, <3>2 DEF Reliable, r, c
  <2>12. CASE g \in get_called_functions(v.fun) /\ g \notin RandomnessFuns /\ b[g] # "caller"
    <3>1. r = visit[last]
      BY <2>4, <2>12 DEF b
    <3>2. Reliable(last)
      BY <1>2, <2>2, <2>3, <2>8, LaterIsLower DEF b, c
    <3>3. ASSUME c[v.fun] = "no_caller", NoCallers(c)
          PROVE  NoCallers(b) /\ AddsSettled(c, b) /\ b[g] = "no_caller"
      <4>1. CASE c[g] # "unknown"
        <5>1. b = c
          BY <2>5, <4>1 DEF b
        <5> QED BY <2>1, <2>12, <3>3, <4>1, <5>1 DEF AddsSettled, Caches
      <4>2. CASE c[g] = "unknown"
        <5>1. b = visit[deep] /\ Reliable(deep)
          BY <2>5, <2>6, <2>7, <4>2 DEF b
        <5>2. deep.cache[deep.fun] = "no_caller" /\ NoCallers(deep.cache)
          BY <2>1, <2>3, <3>3 DEF NoCallers, Caches
        <5>3. NoCallers(b) /\ AddsSettled(deep.cache, b) /\ Settled(g, b)
          BY <2>1, <2>3, <2>12, <5>1, <5>2, VisitSettles
        <5>4. AddsSettled(c, b)
          BY <2>1, <2>3, <5>3 DEF AddsSettled, Caches
        <5>5. b[g] = "no_caller"
          <6>1. g \notin Unknown(deep.cache)
            BY <2>1, <2>3 DEF Unknown, Caches
          <6>2. g \notin Unknown(b)
            BY <5>1, <6>1 DEF Reliable
          <6> QED BY <2>1, <2>2, <2>12, <6>2 DEF Unknown, Caches, b
        <5> QED BY <5>3, <5>4, <5>5
      <4> QED BY <4>1, <4>2
    <3> QED BY <1>2, <2>2, <2>3, <2>8, <2>12, <3>1, <3>2, <3>3, VisitPasses DEF c, r, g, b
  <2> QED BY <2>9, <2>10, <2>11, <2>12
<1>3. v.from > NumFuns \/ v.from <= NumFuns
  BY FunIdsFinite DEF Visits, NumFuns
<1> QED BY <1>1, <1>2, <1>3

LEMMA VisitIsReliable ==
  ASSUME EnvIsPackage, NEW v \in Visits
  PROVE  Reliable(v)
<1> DEFINE Bad == {Rank(u) : u \in {x \in Visits : ~Reliable(x)}}
<1>1. ASSUME Bad # {} PROVE FALSE
  <2>1. Bad \subseteq Nat
    BY RankIsNatural
  <2>2. PICK r \in Bad : \A s \in Bad : r <= s
    BY <1>1, <2>1, LeastNatural
  <2>3. PICK x \in Visits : ~Reliable(x) /\ Rank(x) = r
    BY <2>2
  <2>4. ASSUME NEW u \in Visits, Rank(u) < Rank(x) PROVE Reliable(u)
    <3>1. ~Reliable(u) => Rank(u) \in Bad
      OBVIOUS
    <3>2. Rank(u) \in Nat /\ Rank(x) \in Nat
      BY RankIsNatural
    <3> HIDE DEF Bad
    <3> QED BY <2>2, <2>3, <2>4, <3>1, <3>2
  <2> QED BY <2>3, <2>4, VisitStep
<1> QED BY <1>1

\* What the cache says of the functions that are no callers is right, as long as there are no callers.
Sound(cache) == NoCallers(cache) /\ \A f \in Elements(FunIds) : cache[f] = "no_caller" => Settled(f, cache)

LEMMA QueryIsReliable ==
  ASSUME EnvIsPackage, NEW f \in Elements(FunIds), NEW cache \in Caches
  PROVE  /\ calls_randomness(f, cache) \in Caches
         /\ Sound(cache) /\ calls_randomness(f, cache)[f] # "caller" =>
              /\ Sound(calls_randomness(f, cache))
              /\ calls_randomness(f, cache)[f] = "no_caller"
              /\ Unknown(calls_randomness(f, cache)) \subseteq Unknown(cache)
<1> DEFINE r == calls_randomness(f, cache)
           start == [fun |-> f, from |-> 1, cache |-> [cache EXCEPT ![f] = "no_caller"]]
<1>1. CASE cache[f] # "unknown"
  BY <1>1 DEF calls_randomness, Caches
<1>2. CASE cache[f] = "unknown"
  <2>1. start \in Visits
    <3>1. 1 \in 1 .. Len(FunIds) + 1
      BY FunIdsFinite DEF NumFuns
    <3>2. [cache EXCEPT ![f] = "no_caller"] \in Caches
      BY DEF Caches
    <3> QED BY <3>1, <3>2 DEF Visits
  <2>2. r = visit[start] /\ r \in Caches
    BY <1>2, <2>1, VisitIsDefined DEF calls_randomness
  <2>3. Reliable(start)
    BY <2>1, VisitIsReliable
  <2>4. start.fun = f /\ start.from = 1 /\ start.cache = [cache EXCEPT ![f] = "no_caller"]
    OBVIOUS
  <2> HIDE DEF start, r
  <2>5. ASSUME Sound(cache), r[f] # "caller"
        PROVE  Sound(r) /\ r[f] = "no_caller" /\ Unknown(r) \subseteq Unknown(cache)
    <3>1. start.cache[f] = "no_caller" /\ NoCallers(start.cache)
      BY <2>4, <2>5 DEF Sound, NoCallers, Caches
    <3>2. NoCallers(r) /\ AddsSettled(start.cache, r) /\ Settled(f, r)
      BY <2>1, <2>2, <2>3, <2>4, <2>5, <3>1, VisitSettles
    <3>3. Unknown(r) \subseteq Unknown(start.cache)
      BY <2>2, <2>3 DEF Reliable
    <3>4. Unknown(start.cache) \subseteq Unknown(cache) /\ f \notin Unknown(start.cache)
      BY <2>4 DEF Unknown, Caches
    <3>5. r[f] = "no_caller"
      BY <2>2, <2>5, <3>3, <3>4 DEF Unknown, Caches
    <3>6. \A h : Settled(h, cache) => Settled(h, r)
      BY <2>2, <3>2, <3>3, <3>4, NoCallerStays
    <3>7. ASSUME NEW h \in Elements(FunIds), r[h] = "no_caller" PROVE Settled(h, r)
      <4>1. CASE h = f
        BY <3>2, <4>1
      <4>2. CASE h # f /\ cache[h] = "unknown"
        BY <2>4, <3>2, <3>7, <4>2 DEF AddsSettled, Caches
      <4>3. CASE cache[h] = "no_caller"
        BY <2>5, <3>6, <4>3 DEF Sound
      <4> QED BY <2>5, <4>1, <4>2, <4>3 DEF Sound, NoCallers, Caches
    <3> QED BY <3>2, <3>3, <3>4, <3>5, <3>7 DEF Sound
  <2> QED BY <2>2, <2>5 DEF r
<1> QED BY <1>1, <1>2

-----------------------------------------------------------------------------
(* The loop over the functions of a module.                                  *)

Used(w, i) == IF i = 0 THEN [cache |-> randomness_caller_cache, errors |-> errors]
              ELSE unsafe_usage(w[i - 1], FunIds[i])

LEMMA UsagesSoFar ==
  ASSUME NEW k \in Nat
  PROVE  \E w : \A i \in 0 .. NumFuns : i < k => w[i] = Used(w, i)
<1> DEFINE Bad == {n \in Nat : ~\E w : \A i \in 0 .. NumFuns : i < n => w[i] = Used(w, i)}
<1>1. NumFuns \in Nat
  BY FunIdsFinite
<1>2. ASSUME Bad # {} PROVE FALSE
  <2>1. PICK n \in Bad : \A l \in Bad : n <= l
    BY <1>2, LeastNatural
  <2>2. n # 0
    <3>1. \A i \in 0 .. NumFuns : ~(i < 0)
      OBVIOUS
    <3> QED BY <2>1, <3>1
  <2>3. n - 1 \in Nat /\ n - 1 \notin Bad
    BY <2>1, <2>2
  <2>4. PICK w : \A i \in 0 .. NumFuns : i < n - 1 => w[i] = Used(w, i)
    BY <2>3
  <2> DEFINE x == [i \in 0 .. NumFuns |-> Used(w, i)]
  <2>5. ASSUME NEW i \in 0 .. NumFuns, i < n PROVE x[i] = Used(x, i)
    <3>1. x[i] = Used(w, i)
      OBVIOUS
    <3>2. CASE i = 0
      BY <3>1, <3>2 DEF Used
    <3>3. CASE i # 0
      <4>1. i - 1 \in 0 .. NumFuns /\ i - 1 < n - 1
        BY <1>1, <2>1, <2>5, <3>3
      <4>2. x[i - 1] = Used(w, i - 1) /\ w[i - 1] = Used(w, i - 1)
        BY <2>4, <4>1
      <4> HIDE DEF x
      <4> QED BY <3>1, <3>3, <4>2 DEF Used
    <3> QED BY <3>2, <3>3
  <2> HIDE DEF x
  <2>6. \A i \in 0 .. NumFuns : i < n => x[i] = Used(x, i)
    BY <2>5
  <2> QED BY <2>1, <2>6
<1> QED BY <1>2

LEMMA UsagesSeenIsDefined ==
  \A i \in 0 .. NumFuns : UsagesSeen[i] = Used(UsagesSeen, i)
<1>1. NumFuns \in Nat /\ NumFuns + 1 \in Nat
  BY FunIdsFinite
<1>2. PICK w : \A i \in 0 .. NumFuns : i < NumFuns + 1 => w[i] = Used(w, i)
  BY <1>1, UsagesSoFar
<1> DEFINE x == [i \in 0 .. NumFuns |-> w[i]]
<1>3. ASSUME NEW i \in 0 .. NumFuns PROVE x[i] = Used(x, i)
  <2>1. x[i] = Used(w, i)
    BY <1>1, <1>2
  <2>2. i # 0 => i - 1 \in 0 .. NumFuns
    BY <1>1
  <2>3. i # 0 => x[i - 1] = w[i - 1]
    BY <2>2
  <2> HIDE DEF x
  <2> QED BY <2>1, <2>3 DEF Used
<1>4. x = [i \in 0 .. NumFuns |-> Used(x, i)]
  BY <1>3
<1> HIDE DEF x
<1>5. UsagesSeen = CHOOSE y : y = [i \in 0 .. NumFuns |-> Used(y, i)]
  BY DEF UsagesSeen, Used, NumFuns
<1> DEFINE y == UsagesSeen
<1>6. y = [i \in 0 .. NumFuns |-> Used(y, i)]
  BY <1>4, <1>5
<1> HIDE DEF y
<1>7. \A i \in 0 .. NumFuns : y[i] = Used(y, i)
  BY <1>6
<1> QED BY <1>7 DEF y

\* The functions of the module that were looked at and are not marked are no callers, unless one was
\* reported.
SeenSoFar(i) ==
  LET seen == UsagesSeen[i]
  IN  /\ seen.cache \in Caches /\ errors \subseteq seen.errors
      /\ Sound(randomness_caller_cache) /\ seen.errors = {} =>
           /\ Sound(seen.cache) /\ Unknown(seen.cache) \subseteq Unknown(randomness_caller_cache)
           /\ \A j \in 1 .. i : FunIds[j] \in FunsOf(Module) /\ ~Guarded(FunIds[j]) => seen.cache[FunIds[j]] = "no_caller"

LEMMA SeenStep ==
  ASSUME EnvIsPackage, NEW i \in 1 .. NumFuns, SeenSoFar(i - 1)
  PROVE  SeenSoFar(i)
<1> DEFINE seen == UsagesSeen[i - 1]
           now == UsagesSeen[i]
           f == FunIds[i]
           r == calls_randomness(f, seen.cache)
<1>1. i \in 0 .. NumFuns /\ i # 0 /\ f \in Elements(FunIds) /\ NumFuns \in Nat
  BY FunIdsFinite
<1>2. now = unsafe_usage(seen, f)
  BY <1>1, UsagesSeenIsDefined DEF Used
<1>3. now = IF f \notin FunsOf(Module) \/ Guarded(f) THEN seen
            ELSE [cache |-> r, errors |-> seen.errors \cup (IF r[f] = "caller" THEN {f} ELSE {})]
  BY <1>2 DEF unsafe_usage
<1>4. /\ seen.cache \in Caches /\ errors \subseteq seen.errors
      /\ Sound(randomness_caller_cache) /\ seen.errors = {} =>
           /\ Sound(seen.cache) /\ Unknown(seen.cache) \subseteq Unknown(randomness_caller_cache)
           /\ \A j \in 1 .. i - 1 : FunIds[j] \in FunsOf(Module) /\ ~Guarded(FunIds[j]) => seen.cache[FunIds[j]] = "no_caller"
  BY DEF SeenSoFar
<1>5. /\ r \in Caches
      /\ Sound(seen.cache) /\ r[f] # "caller" =>
           Sound(r) /\ r[f] = "no_caller" /\ Unknown(r) \subseteq Unknown(seen.cache)
  BY <1>1, <1>4, QueryIsReliable
<1>6. \A j \in 1 .. i : j = i \/ j \in 1 .. i - 1
  BY <1>1
<1>7. \A j \in 1 .. i : FunIds[j] \in Elements(FunIds)
  BY <1>1, FunIdsFinite
<1> HIDE DEF seen, now, r
<1>8. CASE f \notin FunsOf(Module) \/ Guarded(f)
  <2>1. now = seen
    BY <1>3, <1>8
  <2> QED BY <1>4, <1>6, <1>8, <2>1 DEF SeenSoFar, now
<1>9. CASE ~(f \notin FunsOf(Module) \/ Guarded(f))
  <2>1. now.cache = r /\ now.errors = seen.errors \cup (IF r[f] = "caller" THEN {f} ELSE {})
    BY <1>3, <1>9
  <2>2. now.cache \in Caches /\ errors \subseteq now.errors
    BY <1>4, <1>5, <2>1
  <2>3. ASSUME Sound(randomness_caller_cache), now.errors = {}
        PROVE  /\ Sound(now.cache) /\ Unknown(now.cache) \subseteq Unknown(randomness_caller_cache)
               /\ \A j \in 1 .. i : FunIds[j] \in FunsOf(Module) /\ ~Guarded(FunIds[j]) => now.cache[FunIds[j]] = "no_caller"
    <3>1. seen.errors = {} /\ r[f] # "caller"
      BY <2>1, <2>3
    <3>2. Sound(r) /\ r[f] = "no_caller" /\ Unknown(r) \subseteq Unknown(seen.cache)
      BY <1>4, <1>5, <2>3, <3>1
    <3>3. \A h \in Elements(FunIds) : seen.cache[h] = "no_caller" => r[h] = "no_caller"
      BY <1>4, <1>5, <3>2, NoCallerStays DEF Sound
    <3>4. \A j \in 1 .. i : FunIds[j] \in FunsOf(Module) /\ ~Guarded(FunIds[j]) => r[FunIds[j]] = "no_caller"
      BY <1>4, <1>6, <1>7, <2>3, <3>1, <3>2, <3>3
    <3> QED BY <1>4, <2>1, <2>3, <3>1, <3>2, <3>4
  <2> QED BY <2>2, <2>3 DEF SeenSoFar, now
<1> QED BY <1>8, <1>9

LEMMA SeenAll ==
  ASSUME EnvIsPackage, randomness_caller_cache \in Caches
  PROVE  SeenSoFar(NumFuns)
<1> DEFINE Bad == {i \in 0 .. NumFuns : ~SeenSoFar(i)}
<1>1. NumFuns \in Nat
  BY FunIdsFinite
<1>2. ASSUME Bad # {} PROVE FALSE
  <2>0. Bad \subseteq Nat
    BY <1>1
  <2>1. PICK i \in Bad : \A j \in Bad : i <= j
    BY <1>2, <2>0, LeastNatural
  <2>2. SeenSoFar(0)
    <3>1. UsagesSeen[0] = [cache |-> randomness_caller_cache, errors |-> errors]
      BY <1>1, UsagesSeenIsDefined DEF Used
    <3>2. \A j \in 1 .. 0 : FALSE
      OBVIOUS
    <3> QED BY <3>1, <3>2 DEF SeenSoFar
  <2>3. i \in 1 .. NumFuns /\ i - 1 \in 0 .. NumFuns /\ ~(i <= i - 1)
    BY <1>1, <2>1, <2>2
  <2>4. SeenSoFar(i - 1)
    BY <2>1, <2>3
  <2> QED BY <2>1, <2>3, <2>4, SeenStep
<1> QED BY <1>1, <1>2

-----------------------------------------------------------------------------
(* The run.  What a check that was passed has left for its module.           *)

CheckNames == {"resource_groups", "members", "view_functions", "entry_functions", "unbiasable", "randomness",
               "events", "init_module", "error_map"}

Position == [resource_groups |-> 1, members |-> 2, view_functions |-> 3, entry_functions |-> 4, unbiasable |-> 5,
             randomness |-> 6, events |-> 7, init_module |-> 8, error_map |-> 9, panicked |-> 0]

PassedCheck(c, m) ==
  /\ m \in env.primary
  /\ \E i \in DOMAIN ModuleIds :
       ModuleIds[i] = m /\ (i < at \/ (i = at /\ Position[c] < Position[check]))

GroupsAreChecked(m) == \A s \in StructsOf(m) :
  /\ get_resource_group(s).error => s \in errors
  /\ get_resource_group(s).scope # "none" => <<s, "group", get_resource_group(s).scope>> \in output[m].structs

MembersAreChecked(m) == \A s \in StructsOf(m) : IsMember(s) =>
  /\ member_of(s).errors \subseteq errors
  /\ \A c \in member_of(s).groups : <<s, "member", c>> \in output[m].structs

ViewsAreChecked(m) == \A f \in FunsOf(m) : has_attribute(f, "view") /\ env.fun[f].returns = 0 => f \in errors

EntriesAreChecked(m) == \A f \in FunsOf(m) :
  env.fun[f].entry /\ ~has_attribute(f, "legacy_entry_fun") /\ env.fun[f].returns > 0 => f \in errors

RandomnessIsChecked(m) == errors = {} =>
  \A f \in FunsOf(m) : Guarded(f) \/ randomness_caller_cache[f] = "no_caller"

EventsAreChecked(m) == \A f \in FunsOf(m) :
  env.fun[f].inline \/ f \in errors \/ \A t \in env.fun[f].emits : <<t, "event", "">> \in output[m].structs

InitIsChecked(m) == \A f \in FunsOf(m) : env.fun[f].init /\ env.fun[f].returns # 0 => f \in errors

Checked(m) ==
  /\ PassedCheck("resource_groups", m) => GroupsAreChecked(m)
  /\ PassedCheck("members", m) => MembersAreChecked(m)
  /\ PassedCheck("view_functions", m) => ViewsAreChecked(m)
  /\ PassedCheck("entry_functions", m) => EntriesAreChecked(m)
  /\ PassedCheck("randomness", m) => RandomnessIsChecked(m)
  /\ PassedCheck("events", m) => EventsAreChecked(m)
  /\ PassedCheck("init_module", m) => InitIsChecked(m)

\* Metadata for each module.
IsOutput(out) == \E U : out \in [Elements(ModuleIds) -> [structs : SUBSET U, funs : SUBSET U, error_map : SUBSET U]]

ChecksTypeOK ==
  /\ \E family \in Families : env \in family
  /\ at \in Nat \ {0} /\ check \in CheckNames \cup {"panicked"}
  /\ IsOutput(output)
  /\ randomness_caller_cache \in Caches

\* What is recorded as a view has the attribute.
ViewsAreMarked == \A m \in Elements(ModuleIds) : \A f : <<f, "view", <<>> >> \in output[m].funs => has_attribute(f, "view")

ChecksInv ==
  /\ ChecksTypeOK
  /\ errors = {} => Sound(randomness_caller_cache)
  /\ ViewsAreMarked
  /\ \A m \in Elements(ModuleIds) : Checked(m)

LEMMA InvIsPackage ==
  ASSUME ChecksTypeOK
  PROVE  /\ EnvIsPackage /\ env.primary \subseteq Elements(ModuleIds)
         /\ Len(ModuleIds) \in Nat /\ DOMAIN ModuleIds = 1 .. Len(ModuleIds)
         /\ at <= Len(ModuleIds) => Module \in Elements(ModuleIds)
<1>1. EnvIsPackage /\ env.primary \subseteq Elements(ModuleIds)
  BY ChecksAssumption DEF ChecksTypeOK, EnvIsPackage
<1>2. Len(ModuleIds) \in Nat /\ DOMAIN ModuleIds = 1 .. Len(ModuleIds)
  BY ChecksAssumption
<1>3. at <= Len(ModuleIds) => Module \in Elements(ModuleIds)
  <2>1. at <= Len(ModuleIds) => at \in DOMAIN ModuleIds
    BY <1>2 DEF ChecksTypeOK
  <2> QED BY <2>1 DEF Module, Elements
<1> QED BY <1>1, <1>2, <1>3

\* member_of by what it reads of the package.
Membership(s, args, keyed, group, covers) ==
  LET found == keyed /\ args # <<>> /\ args[1].key # "not_assign" /\ args[1].value \in Elements(StructIds)
      joined == found /\ group.scope # "none" /\ covers
  IN  [panics |-> keyed /\ args = <<>>,
       groups |-> IF joined THEN {args[1].value} ELSE {},
       errors |-> (IF ~joined \/ Len(args) # 1 \/ args[1].key # "group" THEN {s} ELSE {})
                  \cup (IF found /\ group.error THEN {args[1].value} ELSE {})]

\* Operators that read only the package do not change.
LEMMA PackageStays ==
  ASSUME env' = env
  PROVE  /\ \A m : FunsOf(m)' = FunsOf(m) /\ StructsOf(m)' = StructsOf(m)
         /\ \A s : get_resource_group(s)' = get_resource_group(s) /\ IsMember(s)' = IsMember(s)
         /\ \A s : member_of(s)' = member_of(s)
         /\ \A f, a : has_attribute(f, a)' = has_attribute(f, a)
         /\ \A f : Guarded(f)' = Guarded(f)
         /\ \A cache : Sound(cache)' = Sound(cache)
<1>1. \A m : FunsOf(m)' = FunsOf(m) /\ StructsOf(m)' = StructsOf(m)
  BY DEF FunsOf, StructsOf
<1>2. \A s : get_resource_group(s)' = get_resource_group(s) /\ IsMember(s)' = IsMember(s)
  BY DEF get_resource_group, IsMember
<1>3. \A s : member_of(s)' = member_of(s)
  <2>1. \A scope, s, c : are_equal_envs(scope, s, c)' = are_equal_envs(scope, s, c)
    BY DEF are_equal_envs
  <2> SUFFICES ASSUME NEW s PROVE member_of(s)' = member_of(s)
    OBVIOUS
  <2> DEFINE args == env.struct[s].member
             group == get_resource_group(args[1].value)
             keyed == "key" \in env.struct[s].abilities
             covers == are_equal_envs(group.scope, s, args[1].value)
  <2>2. args' = args /\ keyed' = keyed
    OBVIOUS
  <2>3. group' = group
    <3> DEFINE c == args[1].value
    <3>1. c' = c
      OBVIOUS
    <3> HIDE DEF c
    <3> QED BY <1>2, <3>1
  <2>4. covers' = covers
    <3> DEFINE c == args[1].value
    <3>1. c' = c
      OBVIOUS
    <3> HIDE DEF c, group
    <3> QED BY <2>1, <2>3, <3>1
  <2>5. member_of(s) = Membership(s, args, keyed, group, covers)
    BY DEF member_of, Membership
  <2>6. member_of(s)' = Membership(s, args', keyed', group', covers')
    BY DEF member_of, Membership
  <2> HIDE DEF args, group, keyed, covers
  <2> QED BY <2>2, <2>3, <2>4, <2>5, <2>6
<1>4. \A f, a : has_attribute(f, a)' = has_attribute(f, a)
  BY DEF has_attribute
<1>5. \A f : Guarded(f)' = Guarded(f)
  BY <1>4 DEF Guarded, IsPublic, IsRandom, is_framework_function
<1>6. \A cache : Sound(cache)' = Sound(cache)
  BY DEF Sound, NoCallers, Settled, get_called_functions
<1> QED BY <1>1, <1>2, <1>3, <1>4, <1>5, <1>6

\* What a check found stays, as nothing is taken back.
Monotone ==
  /\ env' = env /\ errors \subseteq errors'
  /\ \A m \in Elements(ModuleIds) : output[m].structs \subseteq output'[m].structs
  /\ errors' = {} => \A f \in Elements(FunIds) :
       randomness_caller_cache[f] = "no_caller" => randomness_caller_cache'[f] = "no_caller"

LEMMA FindingsStay ==
  ASSUME Monotone, NEW m \in Elements(ModuleIds)
  PROVE  /\ GroupsAreChecked(m) => GroupsAreChecked(m)'
         /\ MembersAreChecked(m) => MembersAreChecked(m)'
         /\ ViewsAreChecked(m) => ViewsAreChecked(m)'
         /\ EntriesAreChecked(m) => EntriesAreChecked(m)'
         /\ RandomnessIsChecked(m) => RandomnessIsChecked(m)'
         /\ EventsAreChecked(m) => EventsAreChecked(m)'
         /\ InitIsChecked(m) => InitIsChecked(m)'
<1>0. env' = env
  BY DEF Monotone
<1>1. GroupsAreChecked(m) => GroupsAreChecked(m)'
  BY <1>0, PackageStays DEF GroupsAreChecked, Monotone
<1>2. MembersAreChecked(m) => MembersAreChecked(m)'
  BY <1>0, PackageStays DEF MembersAreChecked, Monotone
<1>3. ViewsAreChecked(m) => ViewsAreChecked(m)'
  BY <1>0, PackageStays DEF ViewsAreChecked, Monotone
<1>4. EntriesAreChecked(m) => EntriesAreChecked(m)'
  BY <1>0, PackageStays DEF EntriesAreChecked, Monotone
<1>5. RandomnessIsChecked(m) => RandomnessIsChecked(m)'
  <2>1. FunsOf(m) \subseteq Elements(FunIds)
    BY DEF FunsOf
  <2> QED BY <1>0, <2>1, PackageStays DEF RandomnessIsChecked, Monotone
<1>6. EventsAreChecked(m) => EventsAreChecked(m)'
  BY <1>0, PackageStays DEF EventsAreChecked, Monotone
<1>7. InitIsChecked(m) => InitIsChecked(m)'
  BY <1>0, PackageStays DEF InitIsChecked, Monotone
<1> QED BY <1>1, <1>2, <1>3, <1>4, <1>5, <1>6, <1>7

\* The check that comes after c, or none.
Follows(c, next) ==
  \/ Position[next] = Position[c] + 1
  \/ c = "error_map" /\ next = "resource_groups"
  \/ next = "panicked"

LEMMA OneMorePassed ==
  ASSUME ChecksTypeOK, NEW c \in CheckNames, NEW next \in CheckNames \cup {"panicked"},
         Step(c, next), Follows(c, next), next = "resource_groups" => c = "error_map",
         NEW d \in CheckNames, NEW m, PassedCheck(d, m)'
  PROVE  PassedCheck(d, m) \/ (d = c /\ m = Module /\ next # "panicked")
<1>1. env' = env /\ check = c /\ check' = next /\ at' = IF next = "resource_groups" THEN at + 1 ELSE at
  BY DEF Step
<1>2. m \in env.primary
  BY <1>1 DEF PassedCheck
<1>3. PICK i \in DOMAIN ModuleIds :
        ModuleIds[i] = m /\ (i < at' \/ (i = at' /\ Position[d] < Position[next]))
  BY <1>1 DEF PassedCheck
<1>4. i \in Nat /\ at \in Nat
  BY InvIsPackage DEF ChecksTypeOK
<1>5. i = at => m = Module
  BY <1>3 DEF Module
<1>6. CASE i < at
  BY <1>2, <1>3, <1>6 DEF PassedCheck
<1>7. CASE i = at /\ Position[d] < Position[c]
  BY <1>1, <1>2, <1>3, <1>7 DEF PassedCheck
<1>8. i < at \/ (i = at /\ ((d = c /\ next # "panicked") \/ Position[d] < Position[c]))
  BY <1>1, <1>3, <1>4 DEF Follows, Position, CheckNames
<1> QED BY <1>5, <1>6, <1>7, <1>8

LEMMA StructsGrow ==
  ASSUME IsOutput(output), Module \in Elements(ModuleIds), NEW X
  PROVE  /\ IsOutput(RecordStructs(X))
         /\ \A m \in Elements(ModuleIds) :
              output[m].structs \subseteq RecordStructs(X)[m].structs /\ RecordStructs(X)[m].funs = output[m].funs
         /\ X \subseteq RecordStructs(X)[Module].structs
<1> DEFINE M == Module
           r == RecordStructs(X)
<1>1. PICK U : output \in [Elements(ModuleIds) -> [structs : SUBSET U, funs : SUBSET U, error_map : SUBSET U]]
  BY DEF IsOutput
<1> DEFINE V == U \cup X
<1>2. output \in [Elements(ModuleIds) -> [structs : SUBSET V, funs : SUBSET V, error_map : SUBSET V]]
  BY <1>1
<1>3. r = [output EXCEPT ![M].structs = @ \cup X] /\ X \subseteq V
  BY DEF RecordStructs
<1> HIDE DEF M, r, V
<1>4. r \in [Elements(ModuleIds) -> [structs : SUBSET V, funs : SUBSET V, error_map : SUBSET V]]
  BY <1>2, <1>3
<1>5. \A m \in Elements(ModuleIds) : output[m].structs \subseteq r[m].structs /\ r[m].funs = output[m].funs
  BY <1>2, <1>3
<1>6. M \in Elements(ModuleIds) => X \subseteq r[M].structs
  BY <1>2, <1>3
<1> QED BY <1>4, <1>5, <1>6 DEF IsOutput, M, r

LEMMA FunsGrow ==
  ASSUME IsOutput(output), Module \in Elements(ModuleIds), NEW X
  PROVE  /\ IsOutput(RecordFuns(X))
         /\ \A m \in Elements(ModuleIds) :
              RecordFuns(X)[m].structs = output[m].structs /\ RecordFuns(X)[m].funs \subseteq output[m].funs \cup X
<1> DEFINE M == Module
           r == RecordFuns(X)
<1>1. PICK U : output \in [Elements(ModuleIds) -> [structs : SUBSET U, funs : SUBSET U, error_map : SUBSET U]]
  BY DEF IsOutput
<1> DEFINE V == U \cup X
<1>2. output \in [Elements(ModuleIds) -> [structs : SUBSET V, funs : SUBSET V, error_map : SUBSET V]]
  BY <1>1
<1>3. r = [output EXCEPT ![M].funs = @ \cup X] /\ X \subseteq V
  BY DEF RecordFuns
<1> HIDE DEF M, r, V
<1>4. r \in [Elements(ModuleIds) -> [structs : SUBSET V, funs : SUBSET V, error_map : SUBSET V]]
  BY <1>2, <1>3
<1>5. \A m \in Elements(ModuleIds) : r[m].structs = output[m].structs /\ r[m].funs \subseteq output[m].funs \cup X
  BY <1>2, <1>3
<1> QED BY <1>4, <1>5 DEF IsOutput, r

LEMMA ErrorMapSet ==
  ASSUME IsOutput(output), Module \in Elements(ModuleIds), NEW X
  PROVE  /\ IsOutput(RecordErrors(X))
         /\ \A m \in Elements(ModuleIds) :
              RecordErrors(X)[m].structs = output[m].structs /\ RecordErrors(X)[m].funs = output[m].funs
<1> DEFINE M == Module
           r == RecordErrors(X)
<1>1. PICK U : output \in [Elements(ModuleIds) -> [structs : SUBSET U, funs : SUBSET U, error_map : SUBSET U]]
  BY DEF IsOutput
<1> DEFINE V == U \cup X
<1>2. output \in [Elements(ModuleIds) -> [structs : SUBSET V, funs : SUBSET V, error_map : SUBSET V]]
  BY <1>1
<1>3. r = [output EXCEPT ![M].error_map = X] /\ X \subseteq V
  BY DEF RecordErrors
<1> HIDE DEF M, r, V
<1>4. r \in [Elements(ModuleIds) -> [structs : SUBSET V, funs : SUBSET V, error_map : SUBSET V]]
  BY <1>2, <1>3
<1>5. \A m \in Elements(ModuleIds) : r[m].structs = output[m].structs /\ r[m].funs = output[m].funs
  BY <1>2, <1>3
<1> QED BY <1>4, <1>5 DEF IsOutput, r

\* A check that leaves what it promises keeps the invariant.
LEMMA CheckKeepsInv ==
  ASSUME ChecksInv, NEW c \in CheckNames, NEW next \in CheckNames \cup {"panicked"},
         Step(c, next), Follows(c, next), next = "resource_groups" => c = "error_map",
         Monotone, IsOutput(output'), randomness_caller_cache' \in Caches,
         errors' = {} => Sound(randomness_caller_cache'), ViewsAreMarked',
         next # "panicked" => \A m \in Elements(ModuleIds) : m = Module =>
           /\ c = "resource_groups" => GroupsAreChecked(m)'
           /\ c = "members" => MembersAreChecked(m)'
           /\ c = "view_functions" => ViewsAreChecked(m)'
           /\ c = "entry_functions" => EntriesAreChecked(m)'
           /\ c = "randomness" => RandomnessIsChecked(m)'
           /\ c = "events" => EventsAreChecked(m)'
           /\ c = "init_module" => InitIsChecked(m)'
  PROVE  ChecksInv'
<1>1. /\ env' = env /\ check' = next /\ at' = IF next = "resource_groups" THEN at + 1 ELSE at
      /\ at <= Len(ModuleIds)
  BY DEF Step
<1>2. ChecksTypeOK'
  <2>1. at' \in Nat \ {0}
    BY <1>1 DEF ChecksInv, ChecksTypeOK
  <2>2. (\E family \in Families : env \in family)' /\ IsOutput(output)'
    BY <1>1 DEF ChecksInv, ChecksTypeOK
  <2> QED BY <1>1, <2>1, <2>2 DEF ChecksTypeOK
<1>3. \A cache : Sound(cache)' = Sound(cache)
  BY <1>1, PackageStays
<1>4. (errors = {} => Sound(randomness_caller_cache))'
  BY <1>3, <1>1 DEF Sound, NoCallers, Settled, get_called_functions
<1>5. ASSUME NEW m \in Elements(ModuleIds) PROVE Checked(m)'
  <2>1. \A d \in CheckNames : PassedCheck(d, m)' => PassedCheck(d, m) \/ (d = c /\ m = Module /\ next # "panicked")
    BY OneMorePassed DEF ChecksInv
  <2>2. Checked(m)
    BY DEF ChecksInv
  <2>3. /\ GroupsAreChecked(m) => GroupsAreChecked(m)'
        /\ MembersAreChecked(m) => MembersAreChecked(m)'
        /\ ViewsAreChecked(m) => ViewsAreChecked(m)'
        /\ EntriesAreChecked(m) => EntriesAreChecked(m)'
        /\ RandomnessIsChecked(m) => RandomnessIsChecked(m)'
        /\ EventsAreChecked(m) => EventsAreChecked(m)'
        /\ InitIsChecked(m) => InitIsChecked(m)'
    BY FindingsStay
  <2>4. (PassedCheck("resource_groups", m) => GroupsAreChecked(m))'
    BY <2>1, <2>2, <2>3 DEF Checked, CheckNames
  <2>5. (PassedCheck("members", m) => MembersAreChecked(m))'
    BY <2>1, <2>2, <2>3 DEF Checked, CheckNames
  <2>6. (PassedCheck("view_functions", m) => ViewsAreChecked(m))'
    BY <2>1, <2>2, <2>3 DEF Checked, CheckNames
  <2>7. (PassedCheck("entry_functions", m) => EntriesAreChecked(m))'
    BY <2>1, <2>2, <2>3 DEF Checked, CheckNames
  <2>8. (PassedCheck("randomness", m) => RandomnessIsChecked(m))'
    BY <2>1, <2>2, <2>3 DEF Checked, CheckNames
  <2>9. (PassedCheck("events", m) => EventsAreChecked(m))'
    BY <2>1, <2>2, <2>3 DEF Checked, CheckNames
  <2>10. (PassedCheck("init_module", m) => InitIsChecked(m))'
    BY <2>1, <2>2, <2>3 DEF Checked, CheckNames
  <2> QED BY <2>4, <2>5, <2>6, <2>7, <2>8, <2>9, <2>10 DEF Checked
<1> QED BY <1>2, <1>4, <1>5 DEF ChecksInv

\* A check that leaves the cache and the recorded functions alone.
LEMMA QuietCheckKeepsInv ==
  ASSUME ChecksInv, NEW c \in CheckNames \ {"randomness"}, NEW next \in CheckNames \cup {"panicked"},
         Step(c, next), Follows(c, next), next = "resource_groups" => c = "error_map",
         errors \subseteq errors', randomness_caller_cache' = randomness_caller_cache, IsOutput(output'),
         \A m \in Elements(ModuleIds) : output[m].structs \subseteq output'[m].structs /\ output'[m].funs = output[m].funs,
         next # "panicked" => \A m \in Elements(ModuleIds) : m = Module =>
           /\ c = "resource_groups" => GroupsAreChecked(m)'
           /\ c = "members" => MembersAreChecked(m)'
           /\ c = "view_functions" => ViewsAreChecked(m)'
           /\ c = "entry_functions" => EntriesAreChecked(m)'
           /\ c = "events" => EventsAreChecked(m)'
           /\ c = "init_module" => InitIsChecked(m)'
  PROVE  ChecksInv'
<1>1. env' = env
  BY DEF Step
<1>2. Monotone
  BY <1>1 DEF Monotone
<1>3. randomness_caller_cache' \in Caches /\ (errors' = {} => Sound(randomness_caller_cache'))
  BY DEF ChecksInv, ChecksTypeOK
<1>4. ViewsAreMarked'
  BY <1>1, PackageStays DEF ChecksInv, ViewsAreMarked
<1> QED BY <1>2, <1>3, <1>4, CheckKeepsInv

LEMMA InvTypes ==
  ASSUME ChecksInv
  PROVE  /\ IsOutput(output) /\ EnvIsPackage /\ randomness_caller_cache \in Caches
         /\ \A c, next : Step(c, next) => Module \in Elements(ModuleIds) /\ env' = env
BY InvIsPackage DEF ChecksInv, ChecksTypeOK, Step

LEMMA GroupsKeepInv ==
  ASSUME ChecksInv, check_and_record_resource_groups
  PROVE  ChecksInv'
<1> DEFINE M == Module
           scopes == {s \in StructsOf(M) : get_resource_group(s).scope # "none"}
           X == {<<s, "group", get_resource_group(s).scope>> : s \in scopes}
<1>1. /\ Step("resource_groups", "members")
      /\ output' = RecordStructs(X)
      /\ errors' = errors \cup {s \in StructsOf(M) : get_resource_group(s).error}
      /\ randomness_caller_cache' = randomness_caller_cache
  BY DEF check_and_record_resource_groups
<1>2. IsOutput(output) /\ M \in Elements(ModuleIds) /\ env' = env
  BY <1>1, InvTypes
<1> HIDE DEF M
<1>3. \A s \in StructsOf(M) : get_resource_group(s).scope # "none" => <<s, "group", get_resource_group(s).scope>> \in X
  OBVIOUS
<1> HIDE DEF X
<1>4. /\ IsOutput(output')
      /\ \A m \in Elements(ModuleIds) : output[m].structs \subseteq output'[m].structs /\ output'[m].funs = output[m].funs
      /\ X \subseteq output'[M].structs
  BY <1>1, <1>2, StructsGrow DEF M
<1>5. \A m \in Elements(ModuleIds) : m = Module => GroupsAreChecked(m)'
  BY <1>1, <1>2, <1>3, <1>4, PackageStays DEF GroupsAreChecked, M
<1>6. Follows("resource_groups", "members") /\ errors \subseteq errors'
  BY <1>1 DEF Follows, Position
<1> QED BY <1>1, <1>4, <1>5, <1>6, QuietCheckKeepsInv DEF CheckNames

LEMMA MembersKeepInv ==
  ASSUME ChecksInv, check_and_record_resource_group_members
  PROVE  ChecksInv'
<1> DEFINE M == Module
           members == {s \in StructsOf(M) : IsMember(s)}
           panics == \E s \in members : member_of(s).panics
           next == IF panics THEN "panicked" ELSE "view_functions"
           X == UNION {{<<s, "member", c>> : c \in member_of(s).groups} : s \in members}
<1>1. /\ Step("members", next)
      /\ output' = IF panics THEN output ELSE RecordStructs(X)
      /\ errors' = errors \cup UNION {member_of(s).errors : s \in members}
      /\ randomness_caller_cache' = randomness_caller_cache
  BY DEF check_and_record_resource_group_members
<1>2. IsOutput(output) /\ M \in Elements(ModuleIds) /\ env' = env
  BY <1>1, InvTypes
<1>3. next # "panicked" => ~panics
  OBVIOUS
<1>4. next \in {"panicked", "view_functions"}
  OBVIOUS
<1> HIDE DEF M, panics, next
<1>5. \A s \in StructsOf(M) : IsMember(s) =>
        member_of(s).errors \subseteq errors' /\ \A c \in member_of(s).groups : <<s, "member", c>> \in X
  BY <1>1
<1> HIDE DEF X
<1>6. /\ IsOutput(output')
      /\ \A m \in Elements(ModuleIds) : output[m].structs \subseteq output'[m].structs /\ output'[m].funs = output[m].funs
      /\ ~panics => X \subseteq output'[M].structs
  BY <1>1, <1>2, StructsGrow DEF M
<1>7. ~panics => \A m \in Elements(ModuleIds) : m = Module => MembersAreChecked(m)'
  BY <1>2, <1>5, <1>6, PackageStays DEF MembersAreChecked, M
<1>8. Follows("members", next) /\ (next # "resource_groups") /\ next \in CheckNames \cup {"panicked"}
      /\ "members" \in CheckNames \ {"randomness"}
  BY <1>4 DEF CheckNames, Follows, Position
<1>9. errors \subseteq errors'
  BY <1>1
<1> HIDE DEF members
<1> QED BY <1>1, <1>3, <1>6, <1>7, <1>8, <1>9, QuietCheckKeepsInv

LEMMA ViewsKeepInv ==
  ASSUME ChecksInv, check_and_record_view_functions
  PROVE  ChecksInv'
<1> DEFINE M == Module
           views == {f \in FunsOf(M) : has_attribute(f, "view")}
           X == {<<f, "view", <<>> >> : f \in views}
<1>1. /\ Step("view_functions", "entry_functions")
      /\ output' = RecordFuns(X)
      /\ errors \subseteq errors'
      /\ \A f \in views : env.fun[f].returns = 0 => f \in errors'
      /\ randomness_caller_cache' = randomness_caller_cache
  BY DEF check_and_record_view_functions
<1>2. IsOutput(output) /\ M \in Elements(ModuleIds) /\ env' = env /\ randomness_caller_cache \in Caches
  BY <1>1, InvTypes
<1>3. \A f : <<f, "view", <<>> >> \in X => has_attribute(f, "view")
  OBVIOUS
<1> HIDE DEF M, X
<1>4. /\ IsOutput(output')
      /\ \A m \in Elements(ModuleIds) : output'[m].structs = output[m].structs
      /\ \A m \in Elements(ModuleIds) : output'[m].funs \subseteq output[m].funs \cup X
  BY <1>1, <1>2, FunsGrow DEF M
<1>5. ViewsAreMarked'
  BY <1>2, <1>3, <1>4, PackageStays DEF ChecksInv, ViewsAreMarked
<1>6. Monotone
  BY <1>1, <1>2, <1>4 DEF Monotone
<1>7. errors' = {} => Sound(randomness_caller_cache')
  BY <1>1 DEF ChecksInv
<1>8. \A m \in Elements(ModuleIds) : m = Module => ViewsAreChecked(m)'
  BY <1>1, <1>2, PackageStays DEF ViewsAreChecked, M
<1> QED BY <1>1, <1>2, <1>4, <1>5, <1>6, <1>7, <1>8, CheckKeepsInv DEF CheckNames, Follows, Position

LEMMA EntriesKeepInv ==
  ASSUME ChecksInv, check_entry_functions
  PROVE  ChecksInv'
<1>1. /\ Step("entry_functions", "unbiasable")
      /\ errors \subseteq errors' /\ output' = output
      /\ \A f \in FunsOf(Module) :
           env.fun[f].entry /\ ~has_attribute(f, "legacy_entry_fun") /\ env.fun[f].returns > 0 => f \in errors'
      /\ randomness_caller_cache' = randomness_caller_cache
  BY DEF check_entry_functions
<1>2. IsOutput(output) /\ env' = env
  BY <1>1, InvTypes
<1>3. \A m \in Elements(ModuleIds) : m = Module => EntriesAreChecked(m)'
  BY <1>1, <1>2, PackageStays DEF EntriesAreChecked
<1> QED BY <1>1, <1>2, <1>3, QuietCheckKeepsInv DEF CheckNames, Follows, Position

LEMMA UnbiasableKeepInv ==
  ASSUME ChecksInv, check_and_record_unbiasabale_entry_functions
  PROVE  ChecksInv'
<1> DEFINE M == Module
           annotated == {f \in FunsOf(M) : get_randomness_max_gas_declaration(f).annotation # {}}
           X == UNION {{<<f, "randomness", gas>> : gas \in get_randomness_max_gas_declaration(f).annotation} : f \in annotated}
<1>1. /\ Step("unbiasable", "randomness")
      /\ output' = RecordFuns(X)
      /\ errors \subseteq errors'
      /\ randomness_caller_cache' = randomness_caller_cache
  BY DEF check_and_record_unbiasabale_entry_functions
<1>2. IsOutput(output) /\ M \in Elements(ModuleIds) /\ env' = env /\ randomness_caller_cache \in Caches
  BY <1>1, InvTypes
<1>3. \A f : <<f, "view", <<>> >> \notin X
  OBVIOUS
<1> HIDE DEF X
<1>4. /\ IsOutput(output')
      /\ \A m \in Elements(ModuleIds) : output'[m].structs = output[m].structs
      /\ \A m \in Elements(ModuleIds) : output'[m].funs \subseteq output[m].funs \cup X
  BY <1>1, <1>2, FunsGrow DEF M
<1>5. ViewsAreMarked'
  BY <1>2, <1>3, <1>4, PackageStays DEF ChecksInv, ViewsAreMarked
<1>6. Monotone
  BY <1>1, <1>2, <1>4 DEF Monotone
<1>7. errors' = {} => Sound(randomness_caller_cache')
  BY <1>1 DEF ChecksInv
<1> QED BY <1>1, <1>2, <1>4, <1>5, <1>6, <1>7, CheckKeepsInv DEF CheckNames, Follows, Position

LEMMA RandomnessKeepsInv ==
  ASSUME ChecksInv, check_unsafe_randomness_usage
  PROVE  ChecksInv'
<1> DEFINE n == NumFuns
<1>1. /\ Step("randomness", "events") /\ output' = output
      /\ errors' = UsagesSeen[n].errors /\ randomness_caller_cache' = UsagesSeen[n].cache
  BY DEF check_unsafe_randomness_usage, NumFuns
<1>2. IsOutput(output) /\ EnvIsPackage /\ env' = env /\ randomness_caller_cache \in Caches
  BY <1>1, InvTypes
<1>3. SeenSoFar(n)
  BY <1>2, SeenAll
<1>4. /\ randomness_caller_cache' \in Caches /\ errors \subseteq errors'
      /\ errors' = {} =>
           /\ Sound(randomness_caller_cache')
           /\ Unknown(randomness_caller_cache') \subseteq Unknown(randomness_caller_cache)
           /\ \A j \in 1 .. n : FunIds[j] \in FunsOf(Module) /\ ~Guarded(FunIds[j]) =>
                randomness_caller_cache'[FunIds[j]] = "no_caller"
  <2>1. errors \subseteq errors'
    BY <1>1, <1>3 DEF SeenSoFar
  <2>2. errors' = {} => Sound(randomness_caller_cache)
    BY <2>1 DEF ChecksInv
  <2> HIDE DEF n
  <2> QED BY <1>1, <1>3, <2>1, <2>2 DEF SeenSoFar
<1>5. errors' = {} => \A f \in Elements(FunIds) :
        randomness_caller_cache[f] = "no_caller" => randomness_caller_cache'[f] = "no_caller"
  BY <1>2, <1>4, NoCallerStays DEF Sound
<1>6. Monotone
  BY <1>1, <1>2, <1>4, <1>5 DEF Monotone
<1>7. ViewsAreMarked'
  BY <1>1, <1>2, PackageStays DEF ChecksInv, ViewsAreMarked
<1>8. ASSUME errors' = {}, NEW f \in FunsOf(Module), ~Guarded(f)
      PROVE  randomness_caller_cache'[f] = "no_caller"
  <2>1. f \in Elements(FunIds)
    BY DEF FunsOf
  <2>2. PICK j \in 1 .. n : FunIds[j] = f
    BY <2>1, FunIdsFinite
  <2> QED BY <1>4, <1>8, <2>2
<1>9. \A m \in Elements(ModuleIds) : m = Module => RandomnessIsChecked(m)'
  BY <1>2, <1>8, PackageStays DEF RandomnessIsChecked
<1>10. Follows("randomness", "events")
  BY DEF Follows, Position
<1> HIDE DEF n
<1> QED BY <1>1, <1>2, <1>4, <1>6, <1>7, <1>9, <1>10, CheckKeepsInv DEF CheckNames

LEMMA EventsKeepInv ==
  ASSUME ChecksInv, check_and_record_events
  PROVE  ChecksInv'
<1> DEFINE M == Module
           events == {s \in StructsOf(M) : env.struct[s].event}
           X == {<<s, "event", "">> : s \in events}
           funs == {f \in FunsOf(M) : ~env.fun[f].inline}
<1>1. /\ Step("events", "init_module")
      /\ output' = RecordStructs(X)
      /\ errors' = errors \cup {f \in funs : ~(env.fun[f].emits \subseteq events)}
      /\ randomness_caller_cache' = randomness_caller_cache
  BY DEF check_and_record_events
<1>2. IsOutput(output) /\ M \in Elements(ModuleIds) /\ env' = env
  BY <1>1, InvTypes
<1>3. \A t \in events : <<t, "event", "">> \in X
  OBVIOUS
<1>4. \A f \in FunsOf(M) : env.fun[f].inline \/ f \in errors' \/ env.fun[f].emits \subseteq events
  BY <1>1
<1> HIDE DEF X, M, events
<1>5. /\ IsOutput(output')
      /\ \A m \in Elements(ModuleIds) : output[m].structs \subseteq output'[m].structs /\ output'[m].funs = output[m].funs
      /\ X \subseteq output'[M].structs
  BY <1>1, <1>2, StructsGrow DEF M
<1>6. \A m \in Elements(ModuleIds) : m = M => EventsAreChecked(m)'
  BY <1>2, <1>3, <1>4, <1>5, PackageStays DEF EventsAreChecked
<1>7. Follows("events", "init_module") /\ errors \subseteq errors'
  BY <1>1 DEF Follows, Position
<1> QED BY <1>1, <1>5, <1>6, <1>7, QuietCheckKeepsInv DEF CheckNames, M

LEMMA InitKeepsInv ==
  ASSUME ChecksInv, check_init_module
  PROVE  ChecksInv'
<1>1. /\ Step("init_module", "error_map")
      /\ errors \subseteq errors' /\ output' = output
      /\ \A f \in FunsOf(Module) : env.fun[f].init /\ env.fun[f].returns # 0 => f \in errors'
      /\ randomness_caller_cache' = randomness_caller_cache
  BY DEF check_init_module
<1>2. IsOutput(output) /\ env' = env
  BY <1>1, InvTypes
<1>3. \A m \in Elements(ModuleIds) : m = Module => InitIsChecked(m)'
  BY <1>1, <1>2, PackageStays DEF InitIsChecked
<1> QED BY <1>1, <1>2, <1>3, QuietCheckKeepsInv DEF CheckNames, Follows, Position

LEMMA ErrorMapKeepsInv ==
  ASSUME ChecksInv, build_error_map
  PROVE  ChecksInv'
<1>1. /\ Step("error_map", "resource_groups")
      /\ output' = output \/ \E X : output' = RecordErrors(X)
      /\ errors' = errors /\ randomness_caller_cache' = randomness_caller_cache
  BY DEF build_error_map
<1>2. IsOutput(output) /\ Module \in Elements(ModuleIds)
  BY <1>1, InvTypes
<1>3. /\ IsOutput(output')
      /\ \A m \in Elements(ModuleIds) : output'[m].structs = output[m].structs /\ output'[m].funs = output[m].funs
  BY <1>1, <1>2, ErrorMapSet
<1> QED BY <1>1, <1>3, QuietCheckKeepsInv DEF CheckNames, Follows, Position

LEMMA SkipKeepsInv ==
  ASSUME ChecksInv, Skip
  PROVE  ChecksInv'
<1>1. /\ env' = env /\ errors' = errors /\ output' = output /\ randomness_caller_cache' = randomness_caller_cache
      /\ check = "resource_groups" /\ check' = check /\ at' = at + 1 /\ at <= Len(ModuleIds) /\ Module \notin env.primary
  BY DEF Skip
<1>2. ChecksTypeOK'
  BY <1>1 DEF ChecksInv, ChecksTypeOK
<1>3. (errors = {} => Sound(randomness_caller_cache))'
  BY <1>1 DEF ChecksInv, Sound, NoCallers, Settled, get_called_functions
<1>4. ViewsAreMarked'
  BY <1>1, PackageStays DEF ChecksInv, ViewsAreMarked
<1>5. Monotone
  BY <1>1 DEF Monotone
<1>6. ASSUME NEW d \in CheckNames, NEW m, PassedCheck(d, m)' PROVE PassedCheck(d, m)
  <2>1. PICK i \in DOMAIN ModuleIds :
          ModuleIds[i] = m /\ (i < at + 1 \/ (i = at + 1 /\ Position[d] < Position["resource_groups"]))
    BY <1>1, <1>6 DEF PassedCheck
  <2>2. ~(Position[d] < Position["resource_groups"])
    BY DEF Position, CheckNames
  <2>3. m \in env.primary /\ i # at
    BY <1>1, <1>6, <2>1 DEF PassedCheck, Module
  <2>4. i \in Nat /\ at \in Nat
    BY InvIsPackage DEF ChecksInv, ChecksTypeOK
  <2>5. i < at
    BY <2>1, <2>2, <2>3, <2>4
  <2> QED BY <2>1, <2>3, <2>5 DEF PassedCheck
<1>7. ASSUME NEW m \in Elements(ModuleIds) PROVE Checked(m)'
  <2>1. Checked(m)
    BY DEF ChecksInv
  <2>2. /\ GroupsAreChecked(m) => GroupsAreChecked(m)'
        /\ MembersAreChecked(m) => MembersAreChecked(m)'
        /\ ViewsAreChecked(m) => ViewsAreChecked(m)'
        /\ EntriesAreChecked(m) => EntriesAreChecked(m)'
        /\ RandomnessIsChecked(m) => RandomnessIsChecked(m)'
        /\ EventsAreChecked(m) => EventsAreChecked(m)'
        /\ InitIsChecked(m) => InitIsChecked(m)'
    BY <1>5, FindingsStay
  <2> QED BY <1>6, <2>1, <2>2 DEF Checked, CheckNames
<1> QED BY <1>2, <1>3, <1>4, <1>7 DEF ChecksInv

LEMMA StutterKeepsInv ==
  ASSUME ChecksInv, UNCHANGED vars
  PROVE  ChecksInv'
<1>1. /\ env' = env /\ errors' = errors /\ output' = output /\ randomness_caller_cache' = randomness_caller_cache
      /\ check' = check /\ at' = at
  BY DEF vars
<1>2. ChecksTypeOK'
  BY <1>1 DEF ChecksInv, ChecksTypeOK
<1>3. (errors = {} => Sound(randomness_caller_cache))'
  BY <1>1 DEF ChecksInv, Sound, NoCallers, Settled, get_called_functions
<1>4. ViewsAreMarked'
  BY <1>1, PackageStays DEF ChecksInv, ViewsAreMarked
<1>5. Monotone
  BY <1>1 DEF Monotone
<1>6. \A d, m : PassedCheck(d, m)' => PassedCheck(d, m)
  BY <1>1 DEF PassedCheck
<1>7. ASSUME NEW m \in Elements(ModuleIds) PROVE Checked(m)'
  <2>1. Checked(m)
    BY DEF ChecksInv
  <2> QED BY <1>5, <1>6, <2>1, FindingsStay DEF Checked
<1> QED BY <1>2, <1>3, <1>4, <1>7 DEF ChecksInv

LEMMA InitMeetsInv ==
  ASSUME Init
  PROVE  ChecksInv
<1>1. ChecksTypeOK
  <2>1. \A m \in Elements(ModuleIds) : output[m] = [structs |-> {}, funs |-> {}, error_map |-> {}]
    BY DEF Init, NoOutput
  <2>2. output \in [Elements(ModuleIds) -> [structs : SUBSET {}, funs : SUBSET {}, error_map : SUBSET {}]]
    BY DEF Init, NoOutput
  <2>3. IsOutput(output)
    BY <2>2 DEF IsOutput
  <2>4. randomness_caller_cache \in Caches
    BY DEF Init, Caches
  <2> QED BY <2>3, <2>4 DEF Init, ChecksTypeOK, CheckNames
<1>2. Sound(randomness_caller_cache)
  BY DEF Init, Sound, NoCallers
<1>3. ViewsAreMarked
  BY DEF Init, NoOutput, ViewsAreMarked
<1>4. \A d \in CheckNames : \A m : ~PassedCheck(d, m)
  <2>1. \A d \in CheckNames : ~(Position[d] < Position["resource_groups"])
    BY DEF Position, CheckNames
  <2>2. \A i \in DOMAIN ModuleIds : ~(i < 1)
    BY <1>1, InvIsPackage
  <2> QED BY <2>1, <2>2 DEF Init, PassedCheck
<1> QED BY <1>1, <1>2, <1>3, <1>4 DEF ChecksInv, Checked, CheckNames

\* After the run every target has passed every check.
LEMMA AllPassed ==
  ASSUME ChecksInv, Done, NEW m \in env.primary
  PROVE  m \in Elements(ModuleIds) /\ \A d : PassedCheck(d, m)
<1>1. m \in Elements(ModuleIds)
  BY InvIsPackage DEF ChecksInv
<1>2. PICK i \in DOMAIN ModuleIds : ModuleIds[i] = m
  BY <1>1 DEF Elements
<1>3. i < at
  BY InvIsPackage DEF ChecksInv, ChecksTypeOK, Done
<1> QED BY <1>1, <1>2, <1>3 DEF PassedCheck

LEMMA InvGuardsRandomness ==
  ASSUME ChecksInv
  PROVE  RandomnessIsGuarded
<1> SUFFICES ASSUME Clean, NEW f \in RandomnessCallers \ RandomnessFuns, IsTarget(f), ~Guarded(f)
             PROVE  FALSE
  BY DEF RandomnessIsGuarded
<1> DEFINE N == {g \in Elements(FunIds) : randomness_caller_cache[g] = "no_caller"}
           S == (Elements(FunIds) \ N) \cup RandomnessFuns
<1>1. f \in Elements(FunIds) /\ EnvIsPackage /\ Sound(randomness_caller_cache)
  BY InvIsPackage DEF RandomnessCallers, ChecksInv, Clean
<1>2. f \in N
  <2>1. f \in FunsOf(env.fun[f].module) /\ env.fun[f].module \in env.primary
    BY <1>1 DEF FunsOf, IsTarget
  <2>2. RandomnessIsChecked(env.fun[f].module)
    <3> DEFINE m == env.fun[f].module
    <3>1. m \in Elements(ModuleIds) /\ PassedCheck("randomness", m)
      BY <2>1, AllPassed DEF Clean
    <3>2. Checked(m)
      BY <3>1 DEF ChecksInv
    <3> QED BY <3>1, <3>2 DEF Checked
  <2> QED BY <1>1, <2>1, <2>2 DEF RandomnessIsChecked, Clean
<1>3. S \in SUBSET Elements(FunIds) /\ RandomnessFuns \subseteq S
  BY ChecksAssumption
<1>4. ASSUME NEW g \in Elements(FunIds), env.fun[g].calls \cap S # {} PROVE g \in S
  <2>1. CASE g \in N
    <3>1. \A h \in env.fun[g].calls : h \in N /\ h \notin RandomnessFuns
      BY <1>1, <2>1 DEF Sound, Settled, get_called_functions
    <3> QED BY <1>4, <3>1
  <2> QED BY <2>1
<1> HIDE DEF S
<1>5. f \in S
  BY <1>3, <1>4 DEF RandomnessCallers
<1> QED BY <1>2, <1>5 DEF S

LEMMA InvRecordsMembers ==
  ASSUME ChecksInv
  PROVE  MembersFollowTheirGroup
<1> SUFFICES ASSUME Clean, NEW m \in env.primary, NEW s \in StructsOf(m), IsMember(s)
             PROVE  \E c \in Elements(StructIds), scope \in {"global", "address", "module_"} :
                      /\ <<s, "member", c>> \in output[m].structs
                      /\ scope = "address" => Address[env.struct[c].module] = Address[m]
                      /\ scope = "module_" => env.struct[c].module = m
                      /\ env.struct[c].module \in env.primary => <<c, "group", scope>> \in output[env.struct[c].module].structs
                      /\ env.struct[c].resource_group[1].value = scope
  BY DEF MembersFollowTheirGroup
<1> DEFINE args == env.struct[s].member
           c == args[1].value
           group == get_resource_group(c)
           covers == are_equal_envs(group.scope, s, c)
<1>1. MembersAreChecked(m) /\ env.struct[s].module = m /\ errors = {}
  BY AllPassed DEF ChecksInv, Checked, Clean, StructsOf
<1>2. member_of(s).errors = {} /\ \A x \in member_of(s).groups : <<s, "member", x>> \in output[m].structs
  BY <1>1 DEF MembersAreChecked
<1>3. member_of(s) = Membership(s, args, "key" \in env.struct[s].abilities, group, covers)
  BY DEF member_of, Membership
<1>4. /\ c \in Elements(StructIds) /\ group.scope # "none" /\ covers /\ ~group.error
      /\ member_of(s).groups = {c}
  <2> HIDE DEF args, c, group, covers
  <2> QED BY <1>2, <1>3 DEF Membership, c
<1>5. group.scope \in {"global", "address", "module_"} /\ env.struct[c].resource_group[1].value = group.scope
  <2> HIDE DEF c
  <2> QED BY <1>4 DEF get_resource_group
<1>6. /\ group.scope = "address" => Address[env.struct[c].module] = Address[m]
      /\ group.scope = "module_" => env.struct[c].module = m
  <2> HIDE DEF c, group
  <2> QED BY <1>1, <1>4 DEF are_equal_envs, covers
<1>7. env.struct[c].module \in env.primary => <<c, "group", group.scope>> \in output[env.struct[c].module].structs
  <2> DEFINE k == env.struct[c].module
  <2> SUFFICES ASSUME k \in env.primary PROVE <<c, "group", group.scope>> \in output[k].structs
    OBVIOUS
  <2>1. GroupsAreChecked(k)
    <3>1. k \in Elements(ModuleIds) /\ PassedCheck("resource_groups", k)
      BY AllPassed DEF Clean
    <3>2. Checked(k)
      BY <3>1 DEF ChecksInv
    <3> QED BY <3>1, <3>2 DEF Checked
  <2>2. c \in StructsOf(k)
    BY <1>4 DEF StructsOf
  <2> HIDE DEF c, k
  <2> QED BY <1>4, <2>1, <2>2 DEF GroupsAreChecked, group
<1>8. <<s, "member", c>> \in output[m].structs
  BY <1>2, <1>4
<1> HIDE DEF c, group
<1> QED BY <1>4, <1>5, <1>6, <1>7, <1>8

LEMMA InvSeparatesRoles ==
  ASSUME ChecksInv
  PROVE  RolesDoNotMix
<1> SUFFICES ASSUME Clean, NEW m \in env.primary, NEW f \in FunsOf(m), <<f, "view", <<>> >> \in output[m].funs
             PROVE  (env.fun[f].entry => has_attribute(f, "legacy_entry_fun")) /\ ~env.fun[f].init
  BY DEF RolesDoNotMix
<1>1. m \in Elements(ModuleIds) /\ Done /\ errors = {}
  BY AllPassed DEF Clean
<1>2. ViewsAreChecked(m) /\ EntriesAreChecked(m) /\ InitIsChecked(m)
  BY <1>1, AllPassed DEF ChecksInv, Checked
<1>3. has_attribute(f, "view")
  BY <1>1 DEF ChecksInv, ViewsAreMarked
<1>4. env.fun[f].returns \in Nat /\ env.fun[f].returns # 0
  <2>1. EnvIsPackage /\ f \in Elements(FunIds)
    BY InvIsPackage DEF ChecksInv, FunsOf
  <2> QED BY <1>1, <1>2, <1>3, <2>1 DEF EnvIsPackage, ViewsAreChecked
<1>5. env.fun[f].returns > 0
  BY <1>4
<1> QED BY <1>1, <1>2, <1>4, <1>5 DEF EntriesAreChecked, InitIsChecked

LEMMA InvRecordsEvents ==
  ASSUME ChecksInv
  PROVE  EmittedEventsAreRecorded
BY AllPassed DEF EmittedEventsAreRecorded, ChecksInv, Checked, EventsAreChecked, Clean

LEMMA ChecksInvariance == ChecksSpec => []ChecksInv
<1>1. Init => ChecksInv
  BY InitMeetsInv
<1>2. ChecksInv /\ [Next]_vars => ChecksInv'
  <2> SUFFICES ASSUME ChecksInv, [Next]_vars PROVE ChecksInv'
    OBVIOUS
  <2>1. CASE Skip
    BY <2>1, SkipKeepsInv
  <2>2. CASE check_and_record_resource_groups
    BY <2>2, GroupsKeepInv
  <2>3. CASE check_and_record_resource_group_members
    BY <2>3, MembersKeepInv
  <2>4. CASE check_and_record_view_functions
    BY <2>4, ViewsKeepInv
  <2>5. CASE check_entry_functions
    BY <2>5, EntriesKeepInv
  <2>6. CASE check_and_record_unbiasabale_entry_functions
    BY <2>6, UnbiasableKeepInv
  <2>7. CASE check_unsafe_randomness_usage
    BY <2>7, RandomnessKeepsInv
  <2>8. CASE check_and_record_events
    BY <2>8, EventsKeepInv
  <2>9. CASE check_init_module
    BY <2>9, InitKeepsInv
  <2>10. CASE build_error_map
    BY <2>10, ErrorMapKeepsInv
  <2>11. CASE UNCHANGED vars
    BY <2>11, StutterKeepsInv
  <2> QED BY <2>1, <2>2, <2>3, <2>4, <2>5, <2>6, <2>7, <2>8, <2>9, <2>10, <2>11 DEF Next, Checks
<1> QED BY <1>1, <1>2, PTL DEF ChecksSpec

\* However functions call each other, cycles and the cache shared by all queries included: after a
\* clean run no target that reaches randomness is unmarked; members are recorded with their group,
\* views are no entries or initializers, and events that are emitted are recorded (extended_checks.rs).
THEOREM ChecksCorrectness == ChecksSpec => []ChecksCatchTheUnsafe
<1>1. ChecksInv => ChecksCatchTheUnsafe
  BY InvGuardsRandomness, InvRecordsMembers, InvSeparatesRoles, InvRecordsEvents DEF ChecksCatchTheUnsafe
<1> QED BY <1>1, ChecksInvariance, PTL

-----------------------------------------------------------------------------
(* Uploads in chunks.  What is cut, filled and staged is computed by         *)
(* recursive functions: a run is such a function, from 0 to the length of    *)
(* what it consumes, and an induction over it takes a least counterexample.  *)

\* A set of numbers up to n that has no least member is empty.
LEMMA NoLeast ==
  ASSUME NEW n \in Nat, NEW B, B \subseteq 0 .. n, 0 \notin B, \A k \in 1 .. n : k \in B => k - 1 \in B
  PROVE  B = {}
<1>1. SUFFICES ASSUME B # {} PROVE FALSE
  OBVIOUS
<1>2. IsWellFoundedOn(OpToRel(<, Nat), Nat)
  BY NatLessThanWellFounded
<1>3. B \subseteq Nat
  OBVIOUS
<1>4. PICK x \in B : \A y \in B : ~(<<y, x>> \in OpToRel(<, Nat))
  BY <1>1, <1>2, <1>3, WFMin
<1>5. x \in 1 .. n /\ x - 1 \in B /\ x \in Nat /\ x - 1 \in Nat /\ x - 1 < x
  BY <1>3
<1>6. <<x - 1, x>> \in OpToRel(<, Nat)
  BY <1>5 DEF OpToRel
<1> QED BY <1>4, <1>5, <1>6

\* f is the run of n steps from base within S.
IsRun(f, n, S, base, step) ==
  f \in [0 .. n -> S] /\ f[0] = base /\ \A k \in 1 .. n : f[k] = step[k][f[k - 1]]
StepsWithin(step, n, S) == \A k \in 1 .. n : step[k] \in [S -> S]
AgreeStepwise(f, g, n) == f[0] = g[0] /\ \A k \in 1 .. n : f[k - 1] = g[k - 1] => f[k] = g[k]
AgreeUpto(f, g, n) == \A k \in 0 .. n : f[k] = g[k]

\* There is a run of n steps within S.
LEMMA RunExists ==
  ASSUME NEW n \in Nat, NEW S, NEW base \in S, NEW step, StepsWithin(step, n, S)
  PROVE  \E f : IsRun(f, n, S, base, step)
<1> USE DEF IsRun, StepsWithin
<1> DEFINE Run(f, m) == IsRun(f, m, S, base, step)
           B == {m \in 0 .. n : ~\E f : Run(f, m)}
<1>1. 0 \notin B
  <2>1. Run([x \in 0 .. 0 |-> base], 0)
    OBVIOUS
  <2> QED BY <2>1
<1>2. ASSUME NEW m \in 1 .. n, m - 1 \notin B
      PROVE  m \notin B
  <2>1. m - 1 \in 0 .. n /\ m \in Nat
    OBVIOUS
  <2>2. PICK f : Run(f, m - 1)
    BY <1>2, <2>1
  <2> DEFINE g == [x \in 0 .. m |-> IF x = m THEN step[m][f[m - 1]] ELSE f[x]]
  <2>3. f[m - 1] \in S /\ step[m] \in [S -> S]
    BY <2>1, <2>2
  <2>4. g \in [0 .. m -> S]
    <3>1. \A x \in 0 .. m : x # m => x \in 0 .. m - 1
      BY <2>1
    <3> QED BY <2>2, <2>3, <3>1
  <2>5. g[0] = base
    BY <2>1, <2>2
  <2>6. ASSUME NEW k \in 1 .. m PROVE g[k] = step[k][g[k - 1]]
    <3>1. k \in 0 .. m /\ k - 1 \in 0 .. m /\ k - 1 # m
      BY <2>1
    <3>2. g[k - 1] = f[k - 1]
      BY <3>1
    <3>3. CASE k = m
      BY <3>1, <3>2, <3>3
    <3>4. CASE k # m
      <4>1. k \in 1 .. m - 1
        BY <2>1, <3>4
      <4> QED BY <2>2, <3>1, <3>2, <3>4, <4>1
    <3> QED BY <3>3, <3>4
  <2>7. Run(g, m)
    <3> HIDE DEF g
    <3> QED BY <2>4, <2>5, <2>6
  <2> QED BY <2>7
<1>3. B \subseteq 0 .. n /\ \A k \in 1 .. n : k \in B => k - 1 \in B
  BY <1>2
<1>4. B = {}
  <2> HIDE DEF B
  <2> QED BY <1>1, <1>3, NoLeast
<1> QED BY <1>4

\* Two runs that take the same steps from the same base agree.
LEMMA RunsAgree ==
  ASSUME NEW n \in Nat, NEW f, NEW g, AgreeStepwise(f, g, n)
  PROVE  AgreeUpto(f, g, n)
<1> USE DEF AgreeStepwise, AgreeUpto
<1> DEFINE B == {k \in 0 .. n : f[k] # g[k]}
<1>1. B \subseteq 0 .. n /\ 0 \notin B /\ \A k \in 1 .. n : k \in B => k - 1 \in B
  OBVIOUS
<1>2. B = {}
  <2> HIDE DEF B
  <2> QED BY <1>1, NoLeast
<1> QED BY <1>2

-----------------------------------------------------------------------------
(* Payloads and areas *)

Byte == Nat \X Nat
Data == Seq(Byte)
Payload == [metadata : Data, indices : Seq(Nat), chunks : Seq(Data)]
Area == [metadata : Data, code : UNION {[D -> Data] : D \in SUBSET Nat}, last_module_idx : Nat]
Extended(p, idx, chunk) == StageCodeChunk(p.metadata, Append(p.indices, idx), Append(p.chunks, chunk))

LEMMA SizeRun ==
  ASSUME NEW p \in Payload
  PROVE  \E f \in [0 .. Len(p.chunks) -> Nat] :
           /\ f[0] = Len(p.metadata) /\ \A k \in 1 .. Len(p.chunks) : f[k] = f[k - 1] + Len(p.chunks[k])
           /\ Size(p) = f[Len(p.chunks)]
<1> DEFINE n == Len(p.chunks)
           step == [k \in 1 .. n |-> [x \in Nat |-> x + Len(p.chunks[k])]]
           Is(f) == f = [k \in 0 .. n |-> IF k = 0 THEN Len(p.metadata) ELSE f[k - 1] + Len(p.chunks[k])]
<1>1. n \in Nat /\ Len(p.metadata) \in Nat /\ \A k \in 1 .. n : Len(p.chunks[k]) \in Nat
  BY DEF Payload, Data
<1>2. \A k \in 1 .. n : step[k] \in [Nat -> Nat]
  BY <1>1
<1>3. \A k \in 1 .. n : \A x \in Nat : step[k][x] = x + Len(p.chunks[k])
  OBVIOUS
<1> HIDE DEF step, n
<1>4. PICK f \in [0 .. n -> Nat] : f[0] = Len(p.metadata) /\ \A k \in 1 .. n : f[k] = step[k][f[k - 1]]
  <2>1. \E f : IsRun(f, n, Nat, Len(p.metadata), step)
    <3>1. StepsWithin(step, n, Nat)
      BY <1>2 DEF StepsWithin
    <3> QED BY <1>1, <3>1, RunExists
  <2> QED BY <2>1 DEF IsRun
<1>5. \A k \in 1 .. n : f[k] = f[k - 1] + Len(p.chunks[k])
  <2>1. \A k \in 1 .. n : k - 1 \in 0 .. n
    BY <1>1
  <2> QED BY <1>3, <1>4, <2>1
<1>6. Is(f)
  BY <1>1, <1>4, <1>5
<1>7. PICK g : g = CHOOSE h : Is(h)
  OBVIOUS
<1>8. Is(g)
  <2> HIDE DEF Is
  <2> QED BY <1>6, <1>7
<1>9. Size(p) = g[n]
  BY <1>7 DEF Size, n
<1>10. g[0] = f[0] /\ \A k \in 1 .. n : g[k] = g[k - 1] + Len(p.chunks[k])
  BY <1>1, <1>4, <1>8
<1>11. \A k \in 0 .. n : f[k] = g[k]
  <2>1. \A k \in 1 .. n : f[k - 1] = g[k - 1] => f[k] = g[k]
    BY <1>5, <1>10
  <2>2. AgreeStepwise(f, g, n)
    BY <1>10, <2>1 DEF AgreeStepwise
  <2>3. AgreeUpto(f, g, n)
    BY <1>1, <2>2, RunsAgree
  <2> QED BY <2>3 DEF AgreeUpto
<1>12. Size(p) = f[n]
  BY <1>1, <1>9, <1>11
<1> HIDE DEF Is
<1> QED BY <1>4, <1>5, <1>12 DEF n

LEMMA SizeOfPayload ==
  ASSUME NEW p \in Payload
  PROVE  /\ Size(p) \in Nat
         /\ p.chunks = <<>> => Size(p) = Len(p.metadata)
         /\ \A idx \in Nat, chunk \in Data :
              /\ Extended(p, idx, chunk) \in Payload
              /\ Size(Extended(p, idx, chunk)) = Size(p) + Len(chunk)
<1>1. PICK f \in [0 .. Len(p.chunks) -> Nat] :
        /\ f[0] = Len(p.metadata) /\ \A k \in 1 .. Len(p.chunks) : f[k] = f[k - 1] + Len(p.chunks[k])
        /\ Size(p) = f[Len(p.chunks)]
  BY SizeRun
<1>2. Len(p.chunks) \in Nat /\ p.chunks \in Seq(Data) /\ p.indices \in Seq(Nat) /\ p.metadata \in Data
  BY DEF Payload
<1>3. ASSUME NEW idx \in Nat, NEW chunk \in Data
      PROVE  /\ Extended(p, idx, chunk) \in Payload
             /\ Size(Extended(p, idx, chunk)) = Size(p) + Len(chunk)
  <2>1. PICK q : q = Extended(p, idx, chunk)
    OBVIOUS
  <2>2. /\ q \in Payload /\ q.metadata = p.metadata /\ Len(q.chunks) = Len(p.chunks) + 1
        /\ q.chunks[Len(p.chunks) + 1] = chunk /\ \A k \in 1 .. Len(p.chunks) : q.chunks[k] = p.chunks[k]
    <3>1. q = [metadata |-> p.metadata, indices |-> Append(p.indices, idx), chunks |-> Append(p.chunks, chunk)]
      BY <2>1 DEF Extended, StageCodeChunk
    <3>2. Append(p.indices, idx) \in Seq(Nat) /\ Append(p.chunks, chunk) \in Seq(Data)
      BY <1>2
    <3>3. /\ Len(Append(p.chunks, chunk)) = Len(p.chunks) + 1 /\ Append(p.chunks, chunk)[Len(p.chunks) + 1] = chunk
          /\ \A k \in 1 .. Len(p.chunks) : Append(p.chunks, chunk)[k] = p.chunks[k]
      BY <1>2
    <3>4. q \in Payload
      BY <1>2, <3>1, <3>2 DEF Payload
    <3> QED BY <3>1, <3>3, <3>4
  <2>3. PICK g \in [0 .. Len(q.chunks) -> Nat] :
          /\ g[0] = Len(q.metadata) /\ \A k \in 1 .. Len(q.chunks) : g[k] = g[k - 1] + Len(q.chunks[k])
          /\ Size(q) = g[Len(q.chunks)]
    BY <2>2, SizeRun
  <2>4. \A k \in 1 .. Len(p.chunks) : g[k] = g[k - 1] + Len(p.chunks[k])
    <3>1. \A k \in 1 .. Len(p.chunks) : k \in 1 .. Len(q.chunks)
      BY <1>2, <2>2
    <3> QED BY <2>2, <2>3, <3>1, Zenon
  <2>5. \A k \in 0 .. Len(p.chunks) : f[k] = g[k]
    <3>1. f[0] = g[0] /\ \A k \in 1 .. Len(p.chunks) : f[k - 1] = g[k - 1] => f[k] = g[k]
      BY <1>1, <2>2, <2>3, <2>4
    <3>2. AgreeStepwise(f, g, Len(p.chunks))
      BY <3>1 DEF AgreeStepwise
    <3>3. AgreeUpto(f, g, Len(p.chunks))
      BY <1>2, <3>2, RunsAgree
    <3> QED BY <3>3 DEF AgreeUpto
  <2>6. g[Len(p.chunks)] = f[Len(p.chunks)]
    BY <1>2, <2>5
  <2>7. Size(q) = g[Len(p.chunks)] + Len(chunk)
    <3>1. PICK n : n = Len(p.chunks)
      OBVIOUS
    <3>2. Len(q.chunks) = n + 1 /\ n + 1 \in 1 .. n + 1 /\ (n + 1) - 1 = n /\ q.chunks[n + 1] = chunk
      BY <1>2, <2>2, <3>1
    <3>3. g[n + 1] = g[(n + 1) - 1] + Len(q.chunks[n + 1])
      BY <2>3, <3>2
    <3> QED BY <2>3, <3>1, <3>2, <3>3
  <2> QED BY <1>1, <2>1, <2>2, <2>6, <2>7
<1>4. p.chunks = <<>> => Size(p) = Len(p.metadata)
  BY <1>1
<1>5. Size(p) \in Nat
  BY <1>1, <1>2
<1> QED BY <1>3, <1>4, <1>5
LEMMA StageChunkArea ==
  ASSUME NEW area \in Area, NEW idx \in Nat, NEW chunk \in Data
  PROVE  StageChunk(area, idx, chunk) \in Area
<1>1. PICK D \in SUBSET Nat : area.code \in [D -> Data]
  BY DEF Area
<1>2. area.metadata \in Data /\ area.last_module_idx \in Nat
        /\ area = [metadata |-> area.metadata, code |-> area.code, last_module_idx |-> area.last_module_idx]
  BY DEF Area
<1>3. CASE idx \in D
  <2>1. area.code[idx] \o chunk \in Data
    BY <1>1, <1>3 DEF Data
  <2>2. [area.code EXCEPT ![idx] = @ \o chunk] \in [D -> Data]
    BY <1>1, <1>3, <2>1
  <2>3. StageChunk(area, idx, chunk) = [metadata |-> area.metadata, code |-> [area.code EXCEPT ![idx] = @ \o chunk],
                                        last_module_idx |-> area.last_module_idx]
    BY <1>1, <1>2, <1>3 DEF StageChunk
  <2> QED BY <1>2, <2>2, <2>3 DEF Area
<1>4. CASE idx \notin D
  <2> DEFINE code == [i \in D \cup {idx} |-> IF i = idx THEN chunk ELSE area.code[i]]
             last == IF idx > area.last_module_idx THEN idx ELSE area.last_module_idx
  <2>1. code \in [D \cup {idx} -> Data] /\ D \cup {idx} \in SUBSET Nat /\ last \in Nat
    BY <1>1, <1>2
  <2>2. StageChunk(area, idx, chunk) = [metadata |-> area.metadata, code |-> code, last_module_idx |-> last]
    BY <1>1, <1>2, <1>4 DEF StageChunk
  <2> HIDE DEF code, last
  <2> QED BY <1>2, <2>1, <2>2 DEF Area
<1> QED BY <1>3, <1>4

\* Staging a payload is a run over its chunks.
LEMMA StagedRun ==
  ASSUME NEW area \in Area, NEW p \in Payload, Accepted(p)
  PROVE  \E f \in [0 .. Len(p.chunks) -> Area] :
           /\ f[0] = [area EXCEPT !.metadata = @ \o p.metadata]
           /\ \A k \in 1 .. Len(p.chunks) : f[k] = StageChunk(f[k - 1], p.indices[k], p.chunks[k])
           /\ StagedOn(area, p) = f[Len(p.chunks)]
<1> DEFINE n == Len(p.chunks)
           base == [area EXCEPT !.metadata = @ \o p.metadata]
           step == [k \in 1 .. n |-> [a \in Area |-> StageChunk(a, p.indices[k], p.chunks[k])]]
           Is(f) == f = [k \in 0 .. n |-> IF k = 0 THEN base ELSE StageChunk(f[k - 1], p.indices[k], p.chunks[k])]
<1>1. n \in Nat /\ base \in Area /\ \A k \in 1 .. n : p.indices[k] \in Nat /\ p.chunks[k] \in Data
  <2>1. p.metadata \in Data /\ p.indices \in Seq(Nat) /\ p.chunks \in Seq(Data) /\ Len(p.indices) = Len(p.chunks)
    BY DEF Payload, Accepted
  <2>2. area.metadata \o p.metadata \in Data
    BY <2>1 DEF Area, Data
  <2>3. base \in Area
    BY <2>2 DEF Area
  <2> QED BY <2>1, <2>3
<1>2. \A k \in 1 .. n : \A a \in Area : StageChunk(a, p.indices[k], p.chunks[k]) \in Area
  BY <1>1, StageChunkArea
<1>3. \A k \in 1 .. n : \A a \in Area : step[k][a] = StageChunk(a, p.indices[k], p.chunks[k])
  OBVIOUS
<1>4. StepsWithin(step, n, Area)
  BY <1>2 DEF StepsWithin
<1> HIDE DEF step, n, base
<1>5. PICK f : IsRun(f, n, Area, base, step)
  BY <1>1, <1>4, RunExists
<1>6. f \in [0 .. n -> Area] /\ f[0] = base /\ \A k \in 1 .. n : f[k] = StageChunk(f[k - 1], p.indices[k], p.chunks[k])
  <2>1. f \in [0 .. n -> Area] /\ f[0] = base /\ \A k \in 1 .. n : f[k] = step[k][f[k - 1]]
    BY <1>5 DEF IsRun
  <2>2. \A k \in 1 .. n : f[k - 1] \in Area
    BY <1>1, <2>1
  <2> QED BY <1>3, <2>1, <2>2
<1>7. Is(f)
  <2>1. \A k \in 0 .. n : k # 0 => k \in 1 .. n
    BY <1>1
  <2> QED BY <1>6, <2>1
<1>8. PICK g : g = CHOOSE h : Is(h)
  OBVIOUS
<1>9. Is(g)
  <2> HIDE DEF Is
  <2> QED BY <1>7, <1>8
<1>10. StagedOn(area, p) = g[n]
  BY <1>8 DEF StagedOn, n, base
<1>11. g[0] = base /\ \A k \in 1 .. n : g[k] = StageChunk(g[k - 1], p.indices[k], p.chunks[k])
  <2>1. \A k \in 0 .. n : g[k] = IF k = 0 THEN base ELSE StageChunk(g[k - 1], p.indices[k], p.chunks[k])
    BY <1>9
  <2>2. \A k \in 1 .. n : k \in 0 .. n /\ k # 0
    BY <1>1
  <2>3. 0 \in 0 .. n
    BY <1>1
  <2> HIDE DEF Is
  <2> QED BY <2>1, <2>2, <2>3
<1>12. AgreeUpto(f, g, n)
  <2>1. AgreeStepwise(f, g, n)
    BY <1>6, <1>11 DEF AgreeStepwise
  <2> HIDE DEF Is
  <2> QED BY <1>1, <2>1, RunsAgree
<1>13. StagedOn(area, p) = f[n]
  BY <1>1, <1>10, <1>12 DEF AgreeUpto
<1> HIDE DEF Is
<1> QED BY <1>6, <1>13 DEF n, base

\* One more chunk is staged after the others.
LEMMA StagedPayload ==
  ASSUME NEW area \in Area, NEW p \in Payload, Accepted(p)
  PROVE  /\ StagedOn(area, p) \in Area
         /\ p.chunks = <<>> => StagedOn(area, p) = [area EXCEPT !.metadata = @ \o p.metadata]
         /\ \A idx \in Nat, chunk \in Data :
              /\ Accepted(Extended(p, idx, chunk))
              /\ StagedOn(area, Extended(p, idx, chunk)) = StageChunk(StagedOn(area, p), idx, chunk)
<1>1. PICK f \in [0 .. Len(p.chunks) -> Area] :
        /\ f[0] = [area EXCEPT !.metadata = @ \o p.metadata]
        /\ \A k \in 1 .. Len(p.chunks) : f[k] = StageChunk(f[k - 1], p.indices[k], p.chunks[k])
        /\ StagedOn(area, p) = f[Len(p.chunks)]
  BY StagedRun
<1>2. Len(p.chunks) \in Nat /\ p.chunks \in Seq(Data) /\ p.indices \in Seq(Nat) /\ Len(p.indices) = Len(p.chunks)
  BY DEF Payload, Accepted
<1>3. ASSUME NEW idx \in Nat, NEW chunk \in Data
      PROVE  /\ Accepted(Extended(p, idx, chunk))
             /\ StagedOn(area, Extended(p, idx, chunk)) = StageChunk(StagedOn(area, p), idx, chunk)
  <2>1. PICK q, n : q = Extended(p, idx, chunk) /\ n = Len(p.chunks)
    OBVIOUS
  <2>2. q \in Payload
    BY <2>1, SizeOfPayload
  <2>3. /\ q.metadata = p.metadata /\ q.indices = Append(p.indices, idx) /\ q.chunks = Append(p.chunks, chunk)
    BY <2>1 DEF Extended, StageCodeChunk
  <2>4. /\ Len(q.chunks) = n + 1 /\ Len(q.indices) = n + 1 /\ q.chunks[n + 1] = chunk /\ q.indices[n + 1] = idx
        /\ \A k \in 1 .. n : q.chunks[k] = p.chunks[k] /\ q.indices[k] = p.indices[k]
    BY <1>2, <2>1, <2>3
  <2>5. Accepted(q)
    BY <2>4 DEF Accepted
  <2>6. PICK g \in [0 .. Len(q.chunks) -> Area] :
          /\ g[0] = [area EXCEPT !.metadata = @ \o q.metadata]
          /\ \A k \in 1 .. Len(q.chunks) : g[k] = StageChunk(g[k - 1], q.indices[k], q.chunks[k])
          /\ StagedOn(area, q) = g[Len(q.chunks)]
    BY <2>2, <2>5, StagedRun
  <2>7. \A k \in 1 .. n : f[k] = StageChunk(f[k - 1], p.indices[k], p.chunks[k])
                          /\ g[k] = StageChunk(g[k - 1], p.indices[k], p.chunks[k])
    <3>1. \A k \in 1 .. n : k \in 1 .. Len(q.chunks)
      BY <1>2, <2>1, <2>4
    <3> QED BY <1>1, <2>1, <2>4, <2>6, <3>1
  <2>8. AgreeStepwise(f, g, n)
    BY <1>1, <2>3, <2>6, <2>7 DEF AgreeStepwise
  <2>9. n \in Nat /\ AgreeUpto(f, g, n)
    BY <1>2, <2>1, <2>8, RunsAgree
  <2>10. g[n] = f[n]
    BY <2>9 DEF AgreeUpto
  <2>11. g[n + 1] = StageChunk(g[n], idx, chunk)
    <3>1. n + 1 \in 1 .. Len(q.chunks) /\ (n + 1) - 1 = n
      BY <2>4, <2>9
    <3> QED BY <2>4, <2>6, <3>1
  <2> QED BY <1>1, <2>1, <2>4, <2>5, <2>6, <2>10, <2>11
<1>4. p.chunks = <<>> => StagedOn(area, p) = [area EXCEPT !.metadata = @ \o p.metadata]
  BY <1>1
<1>5. StagedOn(area, p) \in Area
  BY <1>1, <1>2
<1> QED BY <1>3, <1>4, <1>5

\* What is cut off up to the k-th chunk.
Upto(data, k) == SubSeq(data, 1, ChunkEnd(data, k))

LEMMA CeilingDivision ==
  ASSUME NEW a \in Nat \ {0}, NEW b \in Nat \ {0}
  PROVE  LET n == (a + b - 1) \div b
         IN  n \in Nat \ {0} /\ (n - 1) * b < a /\ a <= n * b
<1> DEFINE n == (a + b - 1) \div b
<1>1. a + b - 1 \in Nat /\ b > 0
  OBVIOUS
<1>2. n \in Int /\ n * b <= a + b - 1 /\ a + b - 1 < n * b + b
  BY <1>1
<1>3. (n - 1) * b = n * b - b
  BY <1>2
<1>4. n > 0
  <2> SUFFICES ASSUME n <= 0 PROVE FALSE
    BY <1>2
  <2>1. n * b <= 0
    BY <1>2
  <2> QED BY <1>2, <2>1
<1> QED BY <1>2, <1>3, <1>4

LEMMA Multiples ==
  ASSUME NEW b \in Nat, NEW j \in Nat, NEW k \in Nat, j <= k
  PROVE  j * b \in Nat /\ j * b <= k * b
<1>1. PICK d \in Nat : k = j + d
  <2>1. k - j \in Nat /\ k = j + (k - j)
    OBVIOUS
  <2> QED BY <2>1
<1>2. k * b = j * b + d * b
  BY <1>1
<1>3. j * b \in Nat /\ d * b \in Nat
  BY <1>1
<1> QED BY <1>2, <1>3

LEMMA ChunkBounds ==
  ASSUME NEW data \in Data, data # <<>>
  PROVE  /\ Chunks(data) \in Nat \ {0} /\ ChunkEnd(data, 0) = 0 /\ ChunkEnd(data, Chunks(data)) = Len(data)
         /\ \A k \in 1 .. Chunks(data) :
              /\ ChunkEnd(data, k - 1) = (k - 1) * ChunkSize /\ (k - 1) * ChunkSize \in Nat
              /\ ChunkEnd(data, k) \in Nat /\ ChunkEnd(data, k) <= Len(data)
              /\ ChunkEnd(data, k) - ChunkEnd(data, k - 1) \in 1 .. ChunkSize
              /\ k < Chunks(data) => ChunkEnd(data, k) - ChunkEnd(data, k - 1) = ChunkSize
<1>1. PICK L, C, n : L = Len(data) /\ C = ChunkSize /\ n = Chunks(data)
  OBVIOUS
<1>2. L \in Nat \ {0} /\ C \in Nat \ {0}
  BY <1>1, ChunkedPublishAssumption DEF Data
<1>3. n \in Nat \ {0} /\ (n - 1) * C < L /\ L <= n * C
  BY <1>1, <1>2, CeilingDivision DEF Chunks
<1>4. \A k : ChunkEnd(data, k) = IF k * C < L THEN k * C ELSE L
  BY <1>1 DEF ChunkEnd
<1>5. ChunkEnd(data, 0) = 0 /\ ChunkEnd(data, n) = L
  <2>1. 0 * C = 0 /\ ~(n * C < L)
    BY <1>2, <1>3
  <2> QED BY <1>2, <1>4, <2>1
<1>6. ASSUME NEW k \in 1 .. n
      PROVE  /\ ChunkEnd(data, k - 1) = (k - 1) * C /\ (k - 1) * C \in Nat
             /\ ChunkEnd(data, k) \in Nat /\ ChunkEnd(data, k) <= L
             /\ ChunkEnd(data, k) - ChunkEnd(data, k - 1) \in 1 .. C
             /\ k < n => ChunkEnd(data, k) - ChunkEnd(data, k - 1) = C
  <2>1. k - 1 \in Nat /\ n - 1 \in Nat /\ k - 1 <= n - 1 /\ k \in Nat
    BY <1>3
  <2>2. (k - 1) * C \in Nat /\ (k - 1) * C < L
    <3>1. (k - 1) * C <= (n - 1) * C /\ (k - 1) * C \in Nat
      BY <1>2, <2>1, Multiples
    <3>2. (n - 1) * C \in Nat
      BY <1>2, <2>1, Multiples
    <3> QED BY <1>2, <1>3, <3>1, <3>2
  <2>3. k * C = (k - 1) * C + C
    BY <1>2, <2>1
  <2>4. k < n => k * C < L
    <3> HAVE k < n
    <3>1. k <= n - 1
      BY <1>3, <2>1
    <3>2. k * C <= (n - 1) * C /\ k * C \in Nat /\ (n - 1) * C \in Nat
      BY <1>2, <2>1, <3>1, Multiples
    <3> QED BY <1>2, <1>3, <3>2
  <2>5. ChunkEnd(data, k - 1) = (k - 1) * C
    BY <1>4, <2>2
  <2>6. ChunkEnd(data, k) = IF k * C < L THEN (k - 1) * C + C ELSE L
    BY <1>4, <2>3
  <2>7. PICK m : m = (k - 1) * C
    OBVIOUS
  <2>8. m \in Nat /\ m < L /\ (k < n => m + C < L) /\ ChunkEnd(data, k) = IF m + C < L THEN m + C ELSE L
    BY <2>2, <2>3, <2>4, <2>6, <2>7
  <2>9. /\ ChunkEnd(data, k) \in Nat /\ ChunkEnd(data, k) <= L /\ ChunkEnd(data, k) - m \in 1 .. C
        /\ k < n => ChunkEnd(data, k) - m = C
    BY <1>2, <2>8
  <2> QED BY <2>5, <2>7, <2>8, <2>9
<1> QED BY <1>1, <1>3, <1>5, <1>6

LEMMA ChunksOfData ==
  ASSUME NEW data \in Data, data # <<>>
  PROVE  /\ Chunks(data) \in Nat \ {0} /\ Upto(data, 0) = <<>> /\ Upto(data, Chunks(data)) = data
         /\ \A k \in 1 .. Chunks(data) :
              /\ CreateChunks(data)[k] \in Data /\ Len(CreateChunks(data)[k]) \in 1 .. ChunkSize
              /\ Upto(data, k - 1) \o CreateChunks(data)[k] = Upto(data, k)
              /\ k < Chunks(data) => Len(CreateChunks(data)[k]) = ChunkSize
              /\ Upto(data, k) \in Data /\ IsPrefix(Upto(data, k), data)
<1>1. PICK n : n = Chunks(data)
  OBVIOUS
<1>2. /\ n \in Nat \ {0} /\ ChunkEnd(data, 0) = 0 /\ ChunkEnd(data, n) = Len(data)
      /\ \A k \in 1 .. n :
              /\ ChunkEnd(data, k - 1) = (k - 1) * ChunkSize /\ (k - 1) * ChunkSize \in Nat
              /\ ChunkEnd(data, k) \in Nat /\ ChunkEnd(data, k) <= Len(data)
              /\ ChunkEnd(data, k) - ChunkEnd(data, k - 1) \in 1 .. ChunkSize
              /\ k < n => ChunkEnd(data, k) - ChunkEnd(data, k - 1) = ChunkSize
  BY <1>1, ChunkBounds
<1>3. data \in Seq(Byte) /\ ChunkSize \in Nat \ {0}
  BY ChunkedPublishAssumption DEF Data
<1>4. Upto(data, 0) = <<>> /\ Upto(data, n) = data
  <2>1. SubSeq(data, 1, 0) = <<>> /\ SubSeq(data, 1, Len(data)) = data
    BY <1>3
  <2> QED BY <1>2, <2>1 DEF Upto
<1>5. ASSUME NEW k \in 1 .. n
      PROVE  /\ CreateChunks(data)[k] \in Data /\ Len(CreateChunks(data)[k]) \in 1 .. ChunkSize
             /\ Upto(data, k - 1) \o CreateChunks(data)[k] = Upto(data, k)
             /\ k < n => Len(CreateChunks(data)[k]) = ChunkSize
             /\ Upto(data, k) \in Data /\ IsPrefix(Upto(data, k), data)
  <2>1. PICK i, j : i = ChunkEnd(data, k - 1) /\ j = ChunkEnd(data, k)
    OBVIOUS
  <2>2. i \in Nat /\ j \in Nat /\ j <= Len(data) /\ j - i \in 1 .. ChunkSize /\ (k < n => j - i = ChunkSize)
    BY <1>2, <2>1
  <2>3. CreateChunks(data)[k] = SubSeq(data, i + 1, j)
    BY <1>1, <1>2, <2>1 DEF CreateChunks
  <2>4. i < j /\ i + 1 \in 1 .. Len(data) /\ j \in 1 .. Len(data) /\ Len(data) \in Nat
    BY <1>3, <2>2
  <2>5. SubSeq(data, i + 1, j) \in Seq(Byte) /\ Len(SubSeq(data, i + 1, j)) = j - i
    BY <1>3, <2>2, <2>4
  <2>6. SubSeq(data, 1, i) \o SubSeq(data, i + 1, j) = SubSeq(data, 1, j)
    <3>1. 1 \in 1 .. Len(data) + 1 /\ i \in 1 - 1 .. Len(data) /\ j \in i .. Len(data)
      BY <2>2, <2>4
    <3> QED BY <1>3, <3>1, ConcatAdjacentSubSeq
  <2>7. SubSeq(data, 1, j) \in Seq(Byte) /\ Len(SubSeq(data, 1, j)) = j
    BY <1>3, <2>2, <2>4
  <2>8. IsPrefix(SubSeq(data, 1, j), data)
    <3>1. SubSeq(SubSeq(data, 1, j), 1, j) = SubSeq(data, 1, j)
      BY <2>7
    <3> QED BY <2>2, <2>7, <3>1 DEF IsPrefix
  <2> QED BY <2>1, <2>2, <2>3, <2>5, <2>6, <2>7, <2>8 DEF Upto, Data
<1> QED BY <1>1, <1>2, <1>4, <1>5

\* A package to upload.
Pack == [metadata : Data \ {<<>>}, code : Seq(Data \ {<<>>})]

\* The area that holds the metadata, m modules whole, but for the last, of which it holds data.
HoldsUpto(pack, m, data) ==
  [metadata |-> pack.metadata, code |-> [i \in 0 .. m - 1 |-> IF i = m - 1 THEN data ELSE pack.code[i + 1]],
   last_module_idx |-> IF m = 0 THEN 0 ELSE m - 1]

\* The area when the first k chunks of module m have been staged.
Progress(pack, m, k) ==
  IF k = 0 THEN HoldsUpto(pack, m - 1, pack.code[m - 1]) ELSE HoldsUpto(pack, m, Upto(pack.code[m], k))

LEMMA U16IsANumber == U16 \in Nat \ {0}
  BY DEF U16

LEMMA UploadableIsPack ==
  ASSUME NEW pack \in Uploadable
  PROVE  pack \in Pack /\ Len(pack.code) \in 1 .. U16
<1>1. PICK length \in 1 .. MaxLength, lengths \in UNION {[1 .. n -> 1 .. MaxLength] : n \in 1 .. MaxModules} :
        pack = [metadata |-> Bytes(0, length), code |-> [i \in DOMAIN lengths |-> Bytes(i, lengths[i])]]
  BY DEF Uploadable
<1>2. PICK n \in 1 .. MaxModules : lengths \in [1 .. n -> 1 .. MaxLength]
  BY <1>1
<1>3. MaxLength \in Nat /\ MaxModules \in Nat /\ MaxModules <= U16 /\ U16 \in Nat
  <2>1. U16 \in Nat
    BY U16IsANumber
  <2> QED BY <2>1, ChunkedPublishAssumption
<1>4. ASSUME NEW i \in Nat, NEW l \in 1 .. MaxLength
      PROVE  Bytes(i, l) \in Data \ {<<>>}
  <2>1. l \in Nat \ {0}
    BY <1>3
  <2>2. \A j \in 1 .. l : <<i, j>> \in Byte
    BY DEF Byte
  <2>3. Bytes(i, l) \in [1 .. l -> Byte]
    BY <2>2 DEF Bytes
  <2>4. Bytes(i, l) \in Seq(Byte) /\ Len(Bytes(i, l)) = l
    BY <2>1, <2>3
  <2> QED BY <2>1, <2>4 DEF Data
<1>5. PICK code : code = [i \in DOMAIN lengths |-> Bytes(i, lengths[i])]
  OBVIOUS
<1>6. code \in [1 .. n -> Data \ {<<>>}]
  <2>1. \A i \in 1 .. n : i \in Nat /\ lengths[i] \in 1 .. MaxLength
    BY <1>2, <1>3
  <2> QED BY <1>2, <1>4, <1>5, <2>1
<1>7. code \in Seq(Data \ {<<>>}) /\ Len(code) = n
  <2>1. n \in Nat
    BY <1>3
  <2> QED BY <1>6, <2>1
<1>8. Bytes(0, length) \in Data \ {<<>>}
  BY <1>4
<1>9. pack = [metadata |-> Bytes(0, length), code |-> code]
  BY <1>1, <1>5
<1> QED BY <1>3, <1>7, <1>8, <1>9 DEF Pack

LEMMA ProgressStep ==
  ASSUME NEW pack \in Pack, NEW m \in 1 .. Len(pack.code), NEW k \in 1 .. Chunks(pack.code[m])
  PROVE  StageChunk(Progress(pack, m, k - 1), m - 1, CreateChunks(pack.code[m])[k]) = Progress(pack, m, k)
<1>1. PICK data, chunk, n : data = pack.code[m] /\ chunk = CreateChunks(data)[k] /\ n = Chunks(data)
  OBVIOUS
<1>2. pack.code \in Seq(Data \ {<<>>}) /\ Len(pack.code) \in Nat /\ m \in Nat \ {0} /\ data \in Data /\ data # <<>>
  BY <1>1 DEF Pack
<1>3. n \in Nat \ {0} /\ Upto(data, 0) = <<>> /\ k \in 1 .. n
  BY <1>1, <1>2, ChunksOfData
<1>4. chunk \in Data /\ Upto(data, k - 1) \o chunk = Upto(data, k)
  <2>1. \A j \in 1 .. Chunks(data) : /\ CreateChunks(data)[j] \in Data
                                    /\ Upto(data, j - 1) \o CreateChunks(data)[j] = Upto(data, j)
    BY <1>2, ChunksOfData
  <2> QED BY <1>1, <1>3, <2>1
<1>5. CASE k = 1
  <2>1. Upto(data, k) = chunk
    <3>1. <<>> \o chunk = chunk
      BY <1>4 DEF Data
    <3>2. k - 1 = 0
      BY <1>5
    <3>3. Upto(data, k - 1) = <<>>
      BY <1>3, <3>2
    <3> QED BY <1>4, <3>1, <3>3
  <2>2. PICK area : area = HoldsUpto(pack, m - 1, pack.code[m - 1])
    OBVIOUS
  <2>3. /\ area.metadata = pack.metadata
        /\ area.code = [i \in 0 .. m - 2 |-> IF i = m - 2 THEN pack.code[m - 1] ELSE pack.code[i + 1]]
        /\ area.last_module_idx = IF m - 1 = 0 THEN 0 ELSE m - 2
    BY <1>2, <2>2 DEF HoldsUpto
  <2>4. DOMAIN area.code = 0 .. m - 2 /\ m - 1 \notin 0 .. m - 2 /\ (0 .. m - 2) \cup {m - 1} = 0 .. m - 1
    BY <1>2, <2>3
  <2>5. StageChunk(area, m - 1, chunk)
          = [metadata |-> pack.metadata, code |-> [i \in 0 .. m - 1 |-> IF i = m - 1 THEN chunk ELSE area.code[i]],
             last_module_idx |-> m - 1]
    <3>1. (IF m - 1 > area.last_module_idx THEN m - 1 ELSE area.last_module_idx) = m - 1
      BY <1>2, <2>3
    <3>2. area = [metadata |-> area.metadata, code |-> area.code, last_module_idx |-> area.last_module_idx]
      BY <2>2 DEF HoldsUpto
    <3>3. StageChunk(area, m - 1, chunk)
            = [area EXCEPT !.code = [i \in DOMAIN area.code \cup {m - 1} |-> IF i = m - 1 THEN chunk ELSE area.code[i]],
                           !.last_module_idx = IF m - 1 > @ THEN m - 1 ELSE @]
      BY <2>4 DEF StageChunk
    <3>4. StageChunk(area, m - 1, chunk)
            = [metadata |-> area.metadata,
               code |-> [i \in DOMAIN area.code \cup {m - 1} |-> IF i = m - 1 THEN chunk ELSE area.code[i]],
               last_module_idx |-> IF m - 1 > area.last_module_idx THEN m - 1 ELSE area.last_module_idx]
      BY <3>2, <3>3
    <3> QED BY <2>3, <2>4, <3>1, <3>4
  <2>6. \A i \in 0 .. m - 1 : i # m - 1 => area.code[i] = pack.code[i + 1]
    <3> SUFFICES ASSUME NEW i \in 0 .. m - 1, i # m - 1 PROVE area.code[i] = pack.code[i + 1]
      OBVIOUS
    <3>1. i \in 0 .. m - 2 /\ (i = m - 2 => i + 1 = m - 1)
      BY <1>2
    <3> QED BY <2>3, <3>1
  <2>7. Progress(pack, m, k) = [metadata |-> pack.metadata,
                                code |-> [i \in 0 .. m - 1 |-> IF i = m - 1 THEN chunk ELSE pack.code[i + 1]],
                                last_module_idx |-> m - 1]
    <3>1. Progress(pack, m, k) = HoldsUpto(pack, m, chunk)
      BY <1>1, <1>5, <2>1 DEF Progress
    <3>2. m # 0
      BY <1>2
    <3> QED BY <3>1, <3>2 DEF HoldsUpto
  <2>8. StageChunk(area, m - 1, chunk) = Progress(pack, m, k)
    BY <2>5, <2>6, <2>7
  <2>9. Progress(pack, m, k - 1) = area
    BY <1>5, <2>2 DEF Progress
  <2> QED BY <1>1, <2>8, <2>9
<1>6. CASE k # 1
  <2>1. PICK before, after : before = Upto(data, k - 1) /\ after = Upto(data, k)
    OBVIOUS
  <2>2. Progress(pack, m, k - 1) = HoldsUpto(pack, m, before) /\ Progress(pack, m, k) = HoldsUpto(pack, m, after)
    BY <1>1, <1>3, <1>6, <2>1 DEF Progress
  <2>3. after = before \o chunk
    BY <1>4, <2>1
  <2>4. PICK area : area = HoldsUpto(pack, m, before)
    OBVIOUS
  <2>5. /\ area = [metadata |-> pack.metadata, code |-> area.code, last_module_idx |-> m - 1]
        /\ area.code = [i \in 0 .. m - 1 |-> IF i = m - 1 THEN before ELSE pack.code[i + 1]]
    BY <1>2, <2>4 DEF HoldsUpto
  <2>6. m - 1 \in DOMAIN area.code /\ area.code[m - 1] = before
    BY <1>2, <2>5
  <2>7. [area.code EXCEPT ![m - 1] = @ \o chunk]
          = [i \in 0 .. m - 1 |-> IF i = m - 1 THEN after ELSE pack.code[i + 1]]
    BY <2>3, <2>5, <2>6
  <2>8. StageChunk(area, m - 1, chunk)
          = [metadata |-> pack.metadata, code |-> [area.code EXCEPT ![m - 1] = @ \o chunk], last_module_idx |-> m - 1]
    <3>1. StageChunk(area, m - 1, chunk) = [area EXCEPT !.code[m - 1] = @ \o chunk]
      BY <2>6 DEF StageChunk
    <3>2. area = [metadata |-> area.metadata, code |-> area.code, last_module_idx |-> area.last_module_idx]
          /\ area.metadata = pack.metadata /\ area.last_module_idx = m - 1
      <4>1. area.metadata = pack.metadata /\ area.last_module_idx = m - 1
        BY <2>5
      <4> QED BY <2>5, <4>1
    <3>3. StageChunk(area, m - 1, chunk)
            = [metadata |-> area.metadata, code |-> [area.code EXCEPT ![m - 1] = @ \o chunk],
               last_module_idx |-> area.last_module_idx]
      BY <2>6, <3>1, <3>2
    <3> QED BY <3>2, <3>3
  <2>9. HoldsUpto(pack, m, after)
          = [metadata |-> pack.metadata, code |-> [i \in 0 .. m - 1 |-> IF i = m - 1 THEN after ELSE pack.code[i + 1]],
             last_module_idx |-> m - 1]
    BY <1>2 DEF HoldsUpto
  <2> QED BY <1>1, <2>2, <2>4, <2>7, <2>8, <2>9
<1> QED BY <1>5, <1>6

\* It holds a beginning at any time; the end of a module is the start of the next.
LEMMA ProgressFacts ==
  ASSUME NEW pack \in Pack, NEW m \in 1 .. Len(pack.code)
  PROVE  /\ \A k \in 0 .. Chunks(pack.code[m]) : Progress(pack, m, k) \in Area /\ IsBeginning(Progress(pack, m, k), pack)
         /\ Progress(pack, m, Chunks(pack.code[m])) = Progress(pack, m + 1, 0)
<1>1. /\ pack.code \in Seq(Data \ {<<>>}) /\ Len(pack.code) \in Nat /\ DOMAIN pack.code = 1 .. Len(pack.code)
      /\ pack.metadata \in Data /\ m \in Nat \ {0} /\ m <= Len(pack.code)
      /\ \A i \in 1 .. Len(pack.code) : pack.code[i] \in Data /\ pack.code[i] # <<>>
  BY DEF Pack
<1>2. \A data \in Data : IsPrefix(data, data)
  BY DEF Data, IsPrefix
<1>3. ASSUME NEW j \in 0 .. Len(pack.code), NEW data, j # 0 => data \in Data /\ IsPrefix(data, pack.code[j])
      PROVE  HoldsUpto(pack, j, data) \in Area /\ IsBeginning(HoldsUpto(pack, j, data), pack)
  <2>1. PICK area : area = HoldsUpto(pack, j, data)
    OBVIOUS
  <2>2. /\ area = [metadata |-> pack.metadata, code |-> area.code, last_module_idx |-> area.last_module_idx]
        /\ area.metadata = pack.metadata
        /\ area.code = [i \in 0 .. j - 1 |-> IF i = j - 1 THEN data ELSE pack.code[i + 1]]
        /\ area.last_module_idx = IF j = 0 THEN 0 ELSE j - 1
    BY <2>1 DEF HoldsUpto
  <2>3. j \in Nat /\ j <= Len(pack.code)
    BY <1>1
  <2>4. ASSUME NEW i \in 0 .. j - 1
        PROVE  /\ i \in Nat /\ i + 1 \in DOMAIN pack.code /\ area.code[i] \in Data
               /\ IF i < area.last_module_idx THEN area.code[i] = pack.code[i + 1]
                  ELSE IsPrefix(area.code[i], pack.code[i + 1])
    <3>1. i \in Nat /\ i + 1 \in 1 .. Len(pack.code) /\ j # 0 /\ area.last_module_idx = j - 1
      BY <2>2, <2>3
    <3>2. CASE i = j - 1
      <4>1. area.code[i] = data /\ i + 1 = j
        BY <2>2, <2>3, <3>2
      <4>2. ~(i < area.last_module_idx)
        BY <2>3, <3>1, <3>2
      <4> QED BY <1>1, <1>3, <3>1, <4>1, <4>2
    <3>3. CASE i # j - 1
      <4>1. area.code[i] = pack.code[i + 1]
        BY <2>2, <3>3
      <4> QED BY <1>1, <1>2, <3>1, <4>1
    <3> QED BY <3>2, <3>3
  <2>5. DOMAIN area.code = 0 .. j - 1 /\ 0 .. j - 1 \in SUBSET Nat
    BY <2>2, <2>3
  <2>6. area.code \in [0 .. j - 1 -> Data]
    BY <2>2, <2>4
  <2>7. area.last_module_idx \in Nat /\ (0 .. j - 1 = {} \/ 0 .. j - 1 = 0 .. area.last_module_idx)
    BY <2>2, <2>3
  <2>8. area \in Area
    <3>1. area.code \in UNION {[D -> Data] : D \in SUBSET Nat}
      BY <2>5, <2>6
    <3> QED BY <1>1, <2>2, <2>7, <3>1 DEF Area
  <2>9. IsBeginning(area, pack)
    BY <1>1, <1>2, <2>2, <2>4, <2>5, <2>7 DEF IsBeginning
  <2> QED BY <2>1, <2>8, <2>9
<1>4. PICK data, n : data = pack.code[m] /\ n = Chunks(data)
  OBVIOUS
<1>5. /\ n \in Nat \ {0} /\ Upto(data, n) = data /\ data \in Data
      /\ \A k \in 1 .. n : Upto(data, k) \in Data /\ IsPrefix(Upto(data, k), data)
  <2>1. data \in Data /\ data # <<>>
    BY <1>1, <1>4
  <2> QED BY <1>4, <2>1, ChunksOfData
<1>6. ASSUME NEW k \in 0 .. n
      PROVE  Progress(pack, m, k) \in Area /\ IsBeginning(Progress(pack, m, k), pack)
  <2>1. CASE k = 0
    <3>1. m - 1 \in 0 .. Len(pack.code) /\ (m - 1 # 0 => m - 1 \in 1 .. Len(pack.code))
      BY <1>1
    <3>2. m - 1 # 0 => pack.code[m - 1] \in Data /\ IsPrefix(pack.code[m - 1], pack.code[m - 1])
      BY <1>1, <1>2, <3>1
    <3>3. Progress(pack, m, k) = HoldsUpto(pack, m - 1, pack.code[m - 1])
      BY <2>1 DEF Progress
    <3> QED BY <1>3, <3>1, <3>2, <3>3
  <2>2. CASE k # 0
    <3>1. k \in 1 .. n /\ m \in 0 .. Len(pack.code)
      BY <1>1, <1>5, <2>2
    <3>2. Progress(pack, m, k) = HoldsUpto(pack, m, Upto(data, k))
      BY <1>4, <2>2 DEF Progress
    <3> QED BY <1>3, <1>4, <1>5, <3>1, <3>2
  <2> QED BY <2>1, <2>2
<1>7. Progress(pack, m, n) = Progress(pack, m + 1, 0)
  <2>1. Progress(pack, m, n) = HoldsUpto(pack, m, data)
    BY <1>4, <1>5 DEF Progress
  <2>2. Progress(pack, m + 1, 0) = HoldsUpto(pack, m, data)
    <3>1. (m + 1) - 1 = m
      BY <1>1
    <3> QED BY <1>4, <3>1 DEF Progress
  <2> QED BY <2>1, <2>2
<1> QED BY <1>4, <1>6, <1>7

\* When the last module is whole, the area is the package.
LEMMA AllHeld ==
  ASSUME NEW pack \in Pack, pack.code # <<>>
  PROVE  LET area == Progress(pack, Len(pack.code) + 1, 0)
         IN  CanAssemble(area) /\ area.metadata = pack.metadata /\ AssembleModuleCode(area) = pack.code
<1>1. PICK n, code, area : n = Len(pack.code) /\ code = pack.code /\ area = Progress(pack, n + 1, 0)
  OBVIOUS
<1>2. code \in Seq(Data \ {<<>>}) /\ n \in Nat \ {0} /\ n = Len(code)
  BY <1>1 DEF Pack
<1>3. area = HoldsUpto(pack, n, code[n])
  <2>1. (n + 1) - 1 = n
    BY <1>2
  <2> QED BY <1>1, <2>1 DEF Progress
<1>4. /\ area.metadata = pack.metadata /\ area.last_module_idx = n - 1
      /\ area.code = [i \in 0 .. n - 1 |-> IF i = n - 1 THEN code[n] ELSE code[i + 1]]
  <2>1. n # 0
    BY <1>2
  <2>2. area = [metadata |-> pack.metadata,
                code |-> [i \in 0 .. n - 1 |-> IF i = n - 1 THEN code[n] ELSE code[i + 1]], last_module_idx |-> n - 1]
    BY <1>1, <1>3, <2>1 DEF HoldsUpto
  <2> QED BY <2>2
<1>5. CanAssemble(area)
  BY <1>4 DEF CanAssemble
<1>6. \A i \in 1 .. n : area.code[i - 1] = code[i]
  <2> SUFFICES ASSUME NEW i \in 1 .. n PROVE area.code[i - 1] = code[i]
    OBVIOUS
  <2>1. i - 1 \in 0 .. n - 1 /\ (i - 1) + 1 = i /\ (i - 1 = n - 1 => i = n)
    BY <1>2
  <2> QED BY <1>4, <2>1
<1>7. AssembleModuleCode(area) = [i \in 1 .. n |-> code[i]]
  <2>1. (n - 1) + 1 = n
    BY <1>2
  <2> QED BY <1>4, <1>6, <2>1 DEF AssembleModuleCode
<1>8. [i \in 1 .. n |-> code[i]] = code
  BY <1>2
<1> QED BY <1>1, <1>4, <1>5, <1>7, <1>8

Made == [payloads : Seq(Payload), open : Payload, taken_size : Nat]

\* The payloads, and what is open after them, are full and in order.
InOrder(ps, size) ==
  /\ \A i \in 1 .. Len(ps) : Fits(ps[i]) /\ Accepted(ps[i])
  /\ \A i \in 1 .. Len(ps) - 1 : Size(ps[i]) + Size(ps[i + 1]) > ChunkSize
  /\ ps # <<>> => Size(ps[Len(ps)]) + size > ChunkSize

\* The areas that staging the payloads leaves, one after the other.
Replays(ps, areas, pack) ==
  /\ areas \in [0 .. Len(ps) -> Area] /\ areas[0] = EmptyStagingArea
  /\ \A i \in 1 .. Len(ps) : areas[i] = StagedOn(areas[i - 1], ps[i]) /\ IsBeginning(areas[i], pack)

\* What has been made stages the first k chunks of module m, and what is before.
MadeUpto(made, pack, m, k) ==
  /\ made \in Made
  /\ Accepted(made.open) /\ Size(made.open) = made.taken_size /\ made.taken_size \in 1 .. ChunkSize
  /\ InOrder(made.payloads, made.taken_size)
  /\ \E areas : /\ Replays(made.payloads, areas, pack)
                /\ StagedOn(areas[Len(made.payloads)], made.open) = Progress(pack, m, k)

EmptyPayload == StageCodeChunk(<<>>, <<>>, <<>>)

LEMMA EmptyPayloadFacts ==
  EmptyPayload \in Payload /\ Accepted(EmptyPayload) /\ Size(EmptyPayload) = 0
  /\ \A area \in Area : StagedOn(area, EmptyPayload) = area
<1>1. /\ EmptyPayload = [metadata |-> <<>>, indices |-> <<>>, chunks |-> <<>>]
      /\ EmptyPayload.metadata = <<>> /\ EmptyPayload.chunks = <<>> /\ EmptyPayload.indices = <<>>
  BY DEF EmptyPayload, StageCodeChunk
<1>2. <<>> \in Data /\ <<>> \in Seq(Nat) /\ <<>> \in Seq(Data)
  BY DEF Data
<1>3. EmptyPayload \in Payload /\ Accepted(EmptyPayload)
  BY <1>1, <1>2 DEF Payload, Accepted
<1>4. Size(EmptyPayload) = Len(EmptyPayload.metadata)
  BY <1>1, <1>3, SizeOfPayload
<1>5. ASSUME NEW area \in Area PROVE StagedOn(area, EmptyPayload) = area
  <2>1. StagedOn(area, EmptyPayload) = [area EXCEPT !.metadata = @ \o EmptyPayload.metadata]
    BY <1>1, <1>3, StagedPayload
  <2>2. area.metadata \in Seq(Byte)
    BY DEF Area, Data
  <2>3. area.metadata \o <<>> = area.metadata
    BY <2>2
  <2>4. [area EXCEPT !.metadata = area.metadata] = area
    BY DEF Area
  <2> QED BY <1>1, <2>1, <2>3, <2>4
<1> QED BY <1>1, <1>3, <1>4, <1>5

\* StagedPayload, one chunk at a time.
LEMMA StagedExtended ==
  ASSUME NEW area \in Area, NEW p \in Payload, Accepted(p), NEW idx \in Nat, NEW chunk \in Data
  PROVE  /\ Accepted(Extended(p, idx, chunk))
         /\ StagedOn(area, Extended(p, idx, chunk)) = StageChunk(StagedOn(area, p), idx, chunk)
<1>1. \A i \in Nat, c \in Data : /\ Accepted(Extended(p, i, c))
                               /\ StagedOn(area, Extended(p, i, c)) = StageChunk(StagedOn(area, p), i, c)
  BY StagedPayload
<1> QED BY <1>1

\* Closing a payload: the next one is open.
LEMMA AppendInOrder ==
  ASSUME NEW ps \in Seq(Payload), NEW open \in Payload, NEW size \in Nat, InOrder(ps, Size(open)),
         Fits(open), Accepted(open), Size(open) + size > ChunkSize
  PROVE  InOrder(Append(ps, open), size)
<1>1. PICK qs, n : qs = Append(ps, open) /\ n = Len(ps)
  OBVIOUS
<1>2. /\ n \in Nat /\ Len(qs) = n + 1 /\ qs[n + 1] = open /\ \A i \in 1 .. n : qs[i] = ps[i]
      /\ (ps # <<>> <=> n # 0)
  BY <1>1
<1>3. \A i \in 1 .. n + 1 : Fits(qs[i]) /\ Accepted(qs[i])
  <2> TAKE i \in 1 .. n + 1
  <2>1. i = n + 1 \/ i \in 1 .. n
    BY <1>2
  <2> QED BY <1>1, <1>2, <2>1 DEF InOrder
<1>4. \A i \in 1 .. n : Size(qs[i]) + Size(qs[i + 1]) > ChunkSize
  <2> TAKE i \in 1 .. n
  <2>1. CASE i = n
    <3>1. Size(ps[n]) + Size(open) > ChunkSize
      BY <1>1, <1>2, <2>1 DEF InOrder
    <3> QED BY <1>2, <2>1, <3>1
  <2>2. CASE i # n
    <3>1. i \in 1 .. n - 1 /\ i + 1 \in 1 .. n
      BY <1>2, <2>2
    <3> QED BY <1>1, <1>2, <3>1 DEF InOrder
  <2> QED BY <2>1, <2>2
<1>5. (n + 1) - 1 = n
  BY <1>2
<1> QED BY <1>1, <1>2, <1>3, <1>4, <1>5 DEF InOrder

\* Staging one more payload, which leaves a beginning of the package.
LEMMA AppendReplays ==
  ASSUME NEW ps \in Seq(Payload), NEW open, NEW areas, NEW pack, NEW area \in Area,
         Replays(ps, areas, pack), area = StagedOn(areas[Len(ps)], open), IsBeginning(area, pack)
  PROVE  \E more : Replays(Append(ps, open), more, pack) /\ more[Len(ps) + 1] = area
<1>1. PICK qs, n : qs = Append(ps, open) /\ n = Len(ps)
  OBVIOUS
<1>2. n \in Nat /\ Len(qs) = n + 1 /\ qs[n + 1] = open /\ \A i \in 1 .. n : qs[i] = ps[i]
  BY <1>1
<1>3. PICK more : more = [i \in 0 .. n + 1 |-> IF i = n + 1 THEN area ELSE areas[i]]
  OBVIOUS
<1>4. areas \in [0 .. n -> Area] /\ areas[0] = EmptyStagingArea
      /\ \A i \in 1 .. n : areas[i] = StagedOn(areas[i - 1], ps[i]) /\ IsBeginning(areas[i], pack)
  BY <1>1 DEF Replays
<1>5. more[n + 1] = area /\ \A i \in 0 .. n : more[i] = areas[i]
  BY <1>2, <1>3
<1>6. more \in [0 .. n + 1 -> Area]
  <2>1. \A i \in 0 .. n + 1 : i # n + 1 => i \in 0 .. n
    BY <1>2
  <2> QED BY <1>3, <1>4, <2>1
<1>7. ASSUME NEW i \in 1 .. n + 1 PROVE more[i] = StagedOn(more[i - 1], qs[i]) /\ IsBeginning(more[i], pack)
  <2>1. CASE i = n + 1
    <3>1. i - 1 = n /\ n \in 0 .. n
      BY <1>2, <2>1
    <3> QED BY <1>1, <1>2, <1>5, <2>1, <3>1
  <2>2. CASE i # n + 1
    <3>1. i \in 1 .. n /\ i \in 0 .. n /\ i - 1 \in 0 .. n
      BY <1>2, <2>2
    <3> QED BY <1>2, <1>4, <1>5, <3>1
  <2> QED BY <2>1, <2>2
<1>8. more[0] = EmptyStagingArea
  BY <1>2, <1>4, <1>5
<1>9. Replays(qs, more, pack)
  BY <1>2, <1>6, <1>7, <1>8 DEF Replays
<1> QED BY <1>1, <1>5, <1>9

LEMMA AddChunkMade ==
  ASSUME NEW made \in Made, NEW idx \in Nat, NEW chunk \in Data
  PROVE  AddChunk(made, idx, chunk) \in Made
<1>1. made.payloads \in Seq(Payload) /\ made.open \in Payload /\ made.taken_size \in Nat /\ Len(chunk) \in Nat
  BY DEF Made, Data
<1>2. PICK full, open : /\ full = (made.taken_size + Len(chunk) > ChunkSize)
                        /\ open = IF full THEN StageCodeChunk(<<>>, <<>>, <<>>) ELSE made.open
  OBVIOUS
<1>3. open \in Payload
  BY <1>1, <1>2, EmptyPayloadFacts DEF EmptyPayload
<1>4. Extended(open, idx, chunk) \in Payload
  BY <1>3, SizeOfPayload
<1>5. AddChunk(made, idx, chunk)
        = [payloads |-> IF full THEN Append(made.payloads, made.open) ELSE made.payloads,
           open |-> Extended(open, idx, chunk), taken_size |-> (IF full THEN 0 ELSE made.taken_size) + Len(chunk)]
  BY <1>2 DEF AddChunk, Extended
<1>6. (IF full THEN Append(made.payloads, made.open) ELSE made.payloads) \in Seq(Payload)
  BY <1>1
<1>7. (IF full THEN 0 ELSE made.taken_size) + Len(chunk) \in Nat
  BY <1>1
<1> QED BY <1>4, <1>5, <1>6, <1>7 DEF Made

LEMMA AddChunkSound ==
  ASSUME NEW pack \in Pack, NEW m \in 1 .. Len(pack.code), NEW k \in 1 .. Chunks(pack.code[m]),
         NEW made, MadeUpto(made, pack, m, k - 1)
  PROVE  MadeUpto(AddChunk(made, m - 1, CreateChunks(pack.code[m])[k]), pack, m, k)
<1>1. PICK chunk, idx, next : /\ chunk = CreateChunks(pack.code[m])[k] /\ idx = m - 1
                              /\ next = AddChunk(made, idx, chunk)
  OBVIOUS
<1>2. /\ made \in Made /\ made.payloads \in Seq(Payload) /\ made.open \in Payload /\ made.taken_size \in Nat
      /\ Accepted(made.open) /\ Size(made.open) = made.taken_size /\ made.taken_size \in 1 .. ChunkSize
      /\ InOrder(made.payloads, made.taken_size) /\ Fits(made.open)
  BY DEF MadeUpto, Made, Fits
<1>3. PICK areas : /\ Replays(made.payloads, areas, pack)
                   /\ StagedOn(areas[Len(made.payloads)], made.open) = Progress(pack, m, k - 1)
  BY DEF MadeUpto
<1>4. idx \in Nat /\ pack.code[m] \in Data /\ pack.code[m] # <<>>
  <2>1. pack.code \in Seq(Data \ {<<>>})
    BY DEF Pack
  <2> QED BY <1>1, <2>1
<1>5. chunk \in Data /\ Len(chunk) \in 1 .. ChunkSize /\ k - 1 \in 0 .. Chunks(pack.code[m])
      /\ k \in 0 .. Chunks(pack.code[m]) /\ ChunkSize \in Nat
  <2>1. /\ Chunks(pack.code[m]) \in Nat
        /\ \A j \in 1 .. Chunks(pack.code[m]) : /\ CreateChunks(pack.code[m])[j] \in Data
                                                /\ Len(CreateChunks(pack.code[m])[j]) \in 1 .. ChunkSize
    BY <1>4, ChunksOfData
  <2> QED BY <1>1, <2>1, ChunkedPublishAssumption
<1>6. StageChunk(Progress(pack, m, k - 1), idx, chunk) = Progress(pack, m, k)
  BY <1>1, ProgressStep
<1>7. Progress(pack, m, k - 1) \in Area /\ IsBeginning(Progress(pack, m, k - 1), pack)
  BY <1>5, ProgressFacts
<1>8. next \in Made
  BY <1>1, <1>2, <1>4, <1>5, AddChunkMade
<1>9. PICK n : n = Len(made.payloads)
  OBVIOUS
<1>10. n \in Nat /\ areas[n] \in Area
  BY <1>2, <1>3, <1>9 DEF Replays
<1>11. CASE made.taken_size + Len(chunk) > ChunkSize
  <2>1. next = [payloads |-> Append(made.payloads, made.open), open |-> Extended(EmptyPayload, idx, chunk),
                taken_size |-> Len(chunk)]
    <3>1. 0 + Len(chunk) = Len(chunk)
      BY <1>5
    <3> QED BY <1>1, <1>11, <3>1 DEF AddChunk, Extended, EmptyPayload
  <2>2. InOrder(next.payloads, next.taken_size)
    <3>1. Len(chunk) \in Nat /\ Size(made.open) + Len(chunk) > ChunkSize /\ InOrder(made.payloads, Size(made.open))
      BY <1>2, <1>5, <1>11
    <3> QED BY <1>2, <2>1, <3>1, AppendInOrder
  <2>3. /\ Accepted(next.open) /\ Size(next.open) = next.taken_size
        /\ \A area \in Area : StagedOn(area, next.open) = StageChunk(area, idx, chunk)
    <3>1. /\ EmptyPayload \in Payload /\ Accepted(EmptyPayload) /\ Size(EmptyPayload) = 0
          /\ \A area \in Area : StagedOn(area, EmptyPayload) = area
      BY EmptyPayloadFacts
    <3>2. \A area \in Area :
            /\ Accepted(Extended(EmptyPayload, idx, chunk))
            /\ StagedOn(area, Extended(EmptyPayload, idx, chunk)) = StageChunk(StagedOn(area, EmptyPayload), idx, chunk)
      BY <1>4, <1>5, <3>1, StagedExtended
    <3>3. Size(Extended(EmptyPayload, idx, chunk)) = 0 + Len(chunk)
      BY <1>4, <1>5, <3>1, SizeOfPayload
    <3>4. 0 + Len(chunk) = Len(chunk)
      BY <1>5
    <3> QED BY <1>7, <2>1, <3>1, <3>2, <3>3, <3>4
  <2>4. PICK more : /\ Replays(Append(made.payloads, made.open), more, pack)
                    /\ more[n + 1] = Progress(pack, m, k - 1)
    <3>1. PICK closed, open, area : closed = made.payloads /\ open = made.open /\ area = Progress(pack, m, k - 1)
      OBVIOUS
    <3>2. /\ closed \in Seq(Payload) /\ Replays(closed, areas, pack) /\ area \in Area
          /\ area = StagedOn(areas[Len(closed)], open) /\ IsBeginning(area, pack)
      BY <1>2, <1>3, <1>7, <3>1
    <3>3. \E more : Replays(Append(closed, open), more, pack) /\ more[Len(closed) + 1] = area
      BY <3>2, AppendReplays
    <3> QED BY <1>9, <3>1, <3>3
  <2>5. Len(next.payloads) = n + 1
    BY <1>2, <1>9, <2>1
  <2>6. StagedOn(more[Len(next.payloads)], next.open) = Progress(pack, m, k)
    BY <1>6, <1>7, <2>3, <2>4, <2>5
  <2>7. next.taken_size \in 1 .. ChunkSize /\ next.payloads = Append(made.payloads, made.open)
    BY <1>5, <2>1
  <2> QED BY <1>1, <1>8, <2>2, <2>3, <2>4, <2>6, <2>7 DEF MadeUpto
<1>12. CASE ~(made.taken_size + Len(chunk) > ChunkSize)
  <2>1. next = [payloads |-> made.payloads, open |-> Extended(made.open, idx, chunk),
                taken_size |-> made.taken_size + Len(chunk)]
    BY <1>1, <1>12 DEF AddChunk, Extended
  <2>2. next.taken_size \in 1 .. ChunkSize /\ next.taken_size >= made.taken_size /\ next.payloads = made.payloads
    BY <1>2, <1>5, <1>12, <2>1
  <2>3. InOrder(next.payloads, next.taken_size)
    <3>1. ASSUME made.payloads # <<>>
          PROVE  Size(made.payloads[n]) + next.taken_size > ChunkSize
      <4>1. Size(made.payloads[n]) + made.taken_size > ChunkSize
        BY <1>2, <1>9, <3>1 DEF InOrder
      <4>2. n \in 1 .. n /\ made.payloads[n] \in Payload
        BY <1>2, <1>9, <3>1
      <4>3. Size(made.payloads[n]) \in Nat
        BY <4>2, SizeOfPayload
      <4> QED BY <1>2, <1>5, <2>2, <4>1, <4>3
    <3> QED BY <1>2, <1>9, <2>2, <3>1 DEF InOrder
  <2>4. Accepted(next.open) /\ Size(next.open) = next.taken_size
    <3>1. Size(Extended(made.open, idx, chunk)) = Size(made.open) + Len(chunk)
      BY <1>2, <1>4, <1>5, SizeOfPayload
    <3>2. Accepted(Extended(made.open, idx, chunk))
      BY <1>2, <1>4, <1>5, <1>10, StagedExtended
    <3> QED BY <1>2, <2>1, <3>1, <3>2
  <2>5. StagedOn(areas[n], next.open) = Progress(pack, m, k)
    <3>1. StagedOn(areas[n], Extended(made.open, idx, chunk)) = StageChunk(StagedOn(areas[n], made.open), idx, chunk)
      BY <1>2, <1>4, <1>5, <1>10, StagedExtended
    <3> QED BY <1>3, <1>6, <1>9, <2>1, <3>1
  <2> QED BY <1>1, <1>3, <1>8, <1>9, <2>2, <2>3, <2>4, <2>5 DEF MadeUpto
<1> QED BY <1>11, <1>12

LEMMA CodeIndexes == ASSUME NEW m \in 1 .. U16 PROVE CodeIndex(m) = m - 1 /\ CodeIndex(m) \in Nat
<1>1. PICK n : n = U16
  OBVIOUS
<1>2. n \in Nat \ {0}
  BY <1>1, U16IsANumber
<1>3. m - 1 \in 0 .. (n - 1)
  BY <1>1, <1>2
<1>4. \A a \in 0 .. (n - 1) : a % n = a
  BY <1>2
<1> QED BY <1>1, <1>3, <1>4 DEF CodeIndex

\* Adding a module is a run over its chunks.
LEMMA AddModuleRun ==
  ASSUME NEW made \in Made, NEW i, CodeIndex(i) \in Nat, NEW code \in Data, code # <<>>
  PROVE  \E f \in [0 .. Chunks(code) -> Made] :
           /\ f[0] = made
           /\ \A k \in 1 .. Chunks(code) : f[k] = AddChunk(f[k - 1], CodeIndex(i), CreateChunks(code)[k])
           /\ AddModule(made, i, code) = f[Chunks(code)]
<1> DEFINE n == Chunks(code)
           step == [k \in 1 .. n |-> [a \in Made |-> AddChunk(a, CodeIndex(i), CreateChunks(code)[k])]]
           Is(f) == f = [k \in 0 .. n |-> IF k = 0 THEN made ELSE AddChunk(f[k - 1], CodeIndex(i), CreateChunks(code)[k])]
<1>1. n \in Nat /\ \A k \in 1 .. n : CreateChunks(code)[k] \in Data
  BY ChunksOfData
<1>2. \A k \in 1 .. n : \A a \in Made : AddChunk(a, CodeIndex(i), CreateChunks(code)[k]) \in Made
  BY <1>1, AddChunkMade
<1>3. \A k \in 1 .. n : \A a \in Made : step[k][a] = AddChunk(a, CodeIndex(i), CreateChunks(code)[k])
  OBVIOUS
<1>4. StepsWithin(step, n, Made)
  BY <1>2 DEF StepsWithin
<1> HIDE DEF step, n
<1>5. PICK f : IsRun(f, n, Made, made, step)
  BY <1>1, <1>4, RunExists
<1>6. /\ f \in [0 .. n -> Made] /\ f[0] = made
      /\ \A k \in 1 .. n : f[k] = AddChunk(f[k - 1], CodeIndex(i), CreateChunks(code)[k])
  <2>1. f \in [0 .. n -> Made] /\ f[0] = made /\ \A k \in 1 .. n : f[k] = step[k][f[k - 1]]
    BY <1>5 DEF IsRun
  <2>2. \A k \in 1 .. n : f[k - 1] \in Made
    BY <1>1, <2>1
  <2> QED BY <1>3, <2>1, <2>2
<1>7. Is(f)
  <2>1. \A k \in 0 .. n : k # 0 => k \in 1 .. n
    BY <1>1
  <2> QED BY <1>6, <2>1
<1>8. PICK g : g = CHOOSE h : Is(h)
  OBVIOUS
<1>9. Is(g)
  <2> HIDE DEF Is
  <2> QED BY <1>7, <1>8
<1>10. AddModule(made, i, code) = g[n]
  BY <1>8 DEF AddModule, n
<1>11. g[0] = made /\ \A k \in 1 .. n : g[k] = AddChunk(g[k - 1], CodeIndex(i), CreateChunks(code)[k])
  <2>1. \A k \in 0 .. n : g[k] = IF k = 0 THEN made ELSE AddChunk(g[k - 1], CodeIndex(i), CreateChunks(code)[k])
    BY <1>9
  <2>2. \A k \in 1 .. n : k \in 0 .. n /\ k # 0
    BY <1>1
  <2>3. 0 \in 0 .. n
    BY <1>1
  <2> HIDE DEF Is
  <2> QED BY <2>1, <2>2, <2>3
<1>12. AgreeUpto(f, g, n)
  <2>1. AgreeStepwise(f, g, n)
    BY <1>6, <1>11 DEF AgreeStepwise
  <2> HIDE DEF Is
  <2> QED BY <1>1, <2>1, RunsAgree
<1>13. AddModule(made, i, code) = f[n]
  BY <1>1, <1>10, <1>12 DEF AgreeUpto
<1> HIDE DEF Is
<1> QED BY <1>6, <1>13 DEF n

\* A module added after the ones before it.
LEMMA AddModuleSound ==
  ASSUME NEW pack \in Pack, NEW m \in 1 .. Len(pack.code), m \in 1 .. U16, NEW made, MadeUpto(made, pack, m, 0)
  PROVE  MadeUpto(AddModule(made, m, pack.code[m]), pack, m + 1, 0)
<1>1. pack.code[m] \in Data /\ pack.code[m] # <<>>
  BY DEF Pack
<1>2. CodeIndex(m) = m - 1 /\ CodeIndex(m) \in Nat /\ made \in Made
  BY CodeIndexes DEF MadeUpto
<1>3. PICK n : n = Chunks(pack.code[m])
  OBVIOUS
<1>4. PICK f : /\ f \in [0 .. n -> Made] /\ f[0] = made
               /\ \A k \in 1 .. n : f[k] = AddChunk(f[k - 1], m - 1, CreateChunks(pack.code[m])[k])
               /\ AddModule(made, m, pack.code[m]) = f[n]
  <2>1. \E f \in [0 .. Chunks(pack.code[m]) -> Made] :
           /\ f[0] = made
           /\ \A k \in 1 .. Chunks(pack.code[m]) : f[k] = AddChunk(f[k - 1], CodeIndex(m), CreateChunks(pack.code[m])[k])
           /\ AddModule(made, m, pack.code[m]) = f[Chunks(pack.code[m])]
    BY <1>1, <1>2, AddModuleRun
  <2> QED BY <1>2, <1>3, <2>1
<1>5. n \in Nat \ {0}
  BY <1>1, <1>3, ChunksOfData
<1> DEFINE B == {k \in 0 .. n : ~MadeUpto(f[k], pack, m, k)}
<1>6. 0 \notin B
  BY <1>4
<1>7. ASSUME NEW k \in 1 .. n, k - 1 \notin B
      PROVE  k \notin B
  <2>1. k - 1 \in 0 .. n
    BY <1>5
  <2>2. MadeUpto(f[k - 1], pack, m, k - 1)
    BY <1>7, <2>1
  <2>3. MadeUpto(AddChunk(f[k - 1], m - 1, CreateChunks(pack.code[m])[k]), pack, m, k)
    BY <1>3, <2>2, AddChunkSound
  <2> QED BY <1>4, <2>3
<1>8. B \subseteq 0 .. n /\ \A k \in 1 .. n : k \in B => k - 1 \in B
  BY <1>7
<1>9. B = {}
  <2> HIDE DEF B
  <2> QED BY <1>5, <1>6, <1>8, NoLeast
<1>10. MadeUpto(f[n], pack, m, n)
  BY <1>5, <1>9
<1>11. Progress(pack, m, n) = Progress(pack, m + 1, 0)
  BY <1>3, ProgressFacts
<1> QED BY <1>4, <1>10, <1>11 DEF MadeUpto

\* The area that holds a beginning of the metadata.
OnlyMetadata(data) == [metadata |-> data, code |-> [i \in {} |-> <<>>], last_module_idx |-> 0]

LEMMA MetadataAreas ==
  ASSUME NEW pack \in Pack, NEW data \in Data, IsPrefix(data, pack.metadata)
  PROVE  /\ OnlyMetadata(data) \in Area /\ IsBeginning(OnlyMetadata(data), pack)
         /\ OnlyMetadata(pack.metadata) = Progress(pack, 1, 0)
         /\ \A c \in Data : /\ StageCodeChunk(c, <<>>, <<>>) \in Payload /\ Accepted(StageCodeChunk(c, <<>>, <<>>))
                            /\ Size(StageCodeChunk(c, <<>>, <<>>)) = Len(c)
                            /\ StagedOn(OnlyMetadata(data), StageCodeChunk(c, <<>>, <<>>)) = OnlyMetadata(data \o c)
<1>1. PICK area, code : area = OnlyMetadata(data) /\ code = [i \in {} |-> <<>>]
  OBVIOUS
<1>2. /\ area = [metadata |-> data, code |-> code, last_module_idx |-> 0]
      /\ area.metadata = data /\ area.code = code /\ area.last_module_idx = 0
  BY <1>1 DEF OnlyMetadata
<1>3. DOMAIN code = {} /\ code \in [{} -> Data]
  BY <1>1
<1>4. area \in Area
  <2>1. code \in UNION {[D -> Data] : D \in SUBSET Nat}
    <3>1. {} \in SUBSET Nat
      OBVIOUS
    <3> QED BY <1>3, <3>1
  <2> QED BY <1>2, <2>1 DEF Area
<1>5. IsBeginning(area, pack)
  BY <1>2, <1>3 DEF IsBeginning
<1>6. OnlyMetadata(pack.metadata) = Progress(pack, 1, 0)
  <2>1. Progress(pack, 1, 0) = HoldsUpto(pack, 0, pack.code[0])
    BY DEF Progress
  <2>2. 0 .. 0 - 1 = {}
    OBVIOUS
  <2>3. [i \in 0 .. 0 - 1 |-> IF i = 0 - 1 THEN pack.code[0] ELSE pack.code[i + 1]] = [i \in {} |-> <<>>]
    BY <2>2
  <2> QED BY <2>1, <2>3 DEF HoldsUpto, OnlyMetadata
<1>7. ASSUME NEW c \in Data
      PROVE  /\ StageCodeChunk(c, <<>>, <<>>) \in Payload /\ Accepted(StageCodeChunk(c, <<>>, <<>>))
             /\ Size(StageCodeChunk(c, <<>>, <<>>)) = Len(c)
             /\ StagedOn(area, StageCodeChunk(c, <<>>, <<>>)) = OnlyMetadata(data \o c)
  <2>1. PICK p : p = StageCodeChunk(c, <<>>, <<>>)
    OBVIOUS
  <2>2. p = [metadata |-> c, indices |-> <<>>, chunks |-> <<>>] /\ p.metadata = c /\ p.chunks = <<>> /\ p.indices = <<>>
    BY <2>1 DEF StageCodeChunk
  <2>3. <<>> \in Seq(Nat) /\ <<>> \in Seq(Data)
    OBVIOUS
  <2>4. p \in Payload /\ Accepted(p)
    BY <2>2, <2>3 DEF Payload, Accepted
  <2>5. Size(p) = Len(c)
    BY <2>2, <2>4, SizeOfPayload
  <2>6. StagedOn(area, p) = [area EXCEPT !.metadata = @ \o p.metadata]
    BY <1>4, <2>2, <2>4, StagedPayload
  <2>7. area.metadata \o p.metadata = data \o c
    BY <1>2, <2>2
  <2>8. \A d : [area EXCEPT !.metadata = d] = [metadata |-> d, code |-> code, last_module_idx |-> 0]
    BY <1>2
  <2>9. StagedOn(area, p) = OnlyMetadata(data \o c)
    BY <1>1, <2>6, <2>7, <2>8 DEF OnlyMetadata
  <2> QED BY <2>1, <2>4, <2>5, <2>9
<1> QED BY <1>1, <1>4, <1>5, <1>6, <1>7

LEMMA AddMetadataSound ==
  ASSUME NEW pack \in Pack
  PROVE  MadeUpto(AddMetadata(pack.metadata), pack, 1, 0)
<1>1. PICK data, n, chunks : data = pack.metadata /\ n = Chunks(data) /\ chunks = CreateChunks(data)
  OBVIOUS
<1>2. data \in Data /\ data # <<>>
  BY <1>1 DEF Pack
<1>3. /\ n \in Nat \ {0} /\ Upto(data, 0) = <<>> /\ Upto(data, n) = data
      /\ \A k \in 1 .. n : /\ chunks[k] \in Data /\ Len(chunks[k]) \in 1 .. ChunkSize
                           /\ Upto(data, k - 1) \o chunks[k] = Upto(data, k)
                           /\ k < n => Len(chunks[k]) = ChunkSize
                           /\ Upto(data, k) \in Data /\ IsPrefix(Upto(data, k), data)
  <2>1. /\ Chunks(data) \in Nat \ {0} /\ Upto(data, 0) = <<>> /\ Upto(data, Chunks(data)) = data
        /\ \A k \in 1 .. Chunks(data) :
              /\ CreateChunks(data)[k] \in Data /\ Len(CreateChunks(data)[k]) \in 1 .. ChunkSize
              /\ Upto(data, k - 1) \o CreateChunks(data)[k] = Upto(data, k)
              /\ k < Chunks(data) => Len(CreateChunks(data)[k]) = ChunkSize
              /\ Upto(data, k) \in Data /\ IsPrefix(Upto(data, k), data)
    BY <1>2, ChunksOfData
  <2> QED BY <1>1, <2>1, Zenon
<1>4. \A k \in 0 .. n : Upto(data, k) \in Data /\ IsPrefix(Upto(data, k), data)
  <2>1. <<>> \in Data /\ IsPrefix(<<>>, data)
    BY <1>2 DEF Data, IsPrefix
  <2>2. \A k \in 0 .. n : k = 0 \/ k \in 1 .. n
    BY <1>3
  <2> QED BY <1>3, <2>1, <2>2
<1>5. PICK made, ps, open : /\ made = AddMetadata(data)
                            /\ ps = [k \in 1 .. n - 1 |-> StageCodeChunk(chunks[k], <<>>, <<>>)]
                            /\ open = StageCodeChunk(chunks[n], <<>>, <<>>)
  OBVIOUS
<1>6. made = [payloads |-> ps, open |-> open, taken_size |-> Len(chunks[n])]
  BY <1>1, <1>5 DEF AddMetadata
<1>7. \A k \in 1 .. n : /\ StageCodeChunk(chunks[k], <<>>, <<>>) \in Payload
                        /\ Accepted(StageCodeChunk(chunks[k], <<>>, <<>>))
                        /\ Size(StageCodeChunk(chunks[k], <<>>, <<>>)) = Len(chunks[k])
                        /\ StagedOn(OnlyMetadata(Upto(data, k - 1)), StageCodeChunk(chunks[k], <<>>, <<>>))
                             = OnlyMetadata(Upto(data, k))
  <2> TAKE k \in 1 .. n
  <2>1. PICK before, c : before = Upto(data, k - 1) /\ c = chunks[k]
    OBVIOUS
  <2>2. before \in Data /\ IsPrefix(before, pack.metadata) /\ c \in Data /\ before \o c = Upto(data, k)
    <3>1. k - 1 \in 0 .. n
      BY <1>3
    <3> QED BY <1>1, <1>3, <1>4, <2>1, <3>1
  <2>3. \A d \in Data : /\ StageCodeChunk(d, <<>>, <<>>) \in Payload /\ Accepted(StageCodeChunk(d, <<>>, <<>>))
                        /\ Size(StageCodeChunk(d, <<>>, <<>>)) = Len(d)
                        /\ StagedOn(OnlyMetadata(before), StageCodeChunk(d, <<>>, <<>>)) = OnlyMetadata(before \o d)
    BY <2>2, MetadataAreas
  <2> QED BY <2>1, <2>2, <2>3
<1>8. \A k \in 0 .. n : OnlyMetadata(Upto(data, k)) \in Area /\ IsBeginning(OnlyMetadata(Upto(data, k)), pack)
  BY <1>1, <1>4, MetadataAreas
<1>9. ps \in Seq(Payload) /\ Len(ps) = n - 1 /\ \A k \in 1 .. n - 1 : ps[k] = StageCodeChunk(chunks[k], <<>>, <<>>)
  <2>1. n - 1 \in Nat /\ \A k \in 1 .. n - 1 : k \in 1 .. n
    BY <1>3
  <2>2. ps \in [1 .. n - 1 -> Payload]
    BY <1>5, <1>7, <2>1
  <2> QED BY <1>5, <2>1, <2>2
<1>10. n \in 1 .. n /\ Len(chunks[n]) \in 1 .. ChunkSize /\ ChunkSize \in Nat \ {0}
  <2>1. n \in 1 .. n
    BY <1>3
  <2> QED BY <1>3, <2>1, ChunkedPublishAssumption
<1>11. made \in Made /\ Accepted(open) /\ Size(open) = Len(chunks[n])
  <2>1. open \in Payload /\ Len(chunks[n]) \in Nat
    BY <1>5, <1>7, <1>10
  <2> QED BY <1>5, <1>6, <1>7, <1>9, <1>10, <2>1 DEF Made
<1>12. InOrder(ps, Len(chunks[n]))
  <2>1. \A k \in 1 .. n - 1 : Size(ps[k]) = ChunkSize /\ Accepted(ps[k])
    <3> TAKE k \in 1 .. n - 1
    <3>1. k \in 1 .. n /\ k < n
      BY <1>3
    <3> QED BY <1>3, <1>7, <1>9, <3>1
  <2>2. \A k \in 1 .. n - 1 : Fits(ps[k])
    BY <1>10, <2>1 DEF Fits
  <2>3. \A k \in 1 .. (n - 1) - 1 : Size(ps[k]) + Size(ps[k + 1]) > ChunkSize
    <3> TAKE k \in 1 .. (n - 1) - 1
    <3>1. k \in 1 .. n - 1 /\ k + 1 \in 1 .. n - 1
      BY <1>3
    <3> QED BY <1>10, <2>1, <3>1
  <2>4. ps # <<>> => Size(ps[Len(ps)]) + Len(chunks[n]) > ChunkSize
    <3> SUFFICES ASSUME ps # <<>> PROVE Size(ps[Len(ps)]) + Len(chunks[n]) > ChunkSize
      OBVIOUS
    <3>1. n - 1 \in 1 .. n - 1
      BY <1>3, <1>9
    <3> QED BY <1>9, <1>10, <2>1, <3>1
  <2> QED BY <1>9, <2>1, <2>2, <2>3, <2>4 DEF InOrder
<1>13. PICK areas : areas = [k \in 0 .. n - 1 |-> OnlyMetadata(Upto(data, k))]
  OBVIOUS
<1>14. Replays(ps, areas, pack)
  <2>1. \A k \in 0 .. n - 1 : k \in 0 .. n
    BY <1>3
  <2>2. areas \in [0 .. n - 1 -> Area]
    BY <1>8, <1>13, <2>1
  <2>3. areas[0] = EmptyStagingArea
    BY <1>3, <1>13 DEF OnlyMetadata, EmptyStagingArea
  <2>4. ASSUME NEW k \in 1 .. n - 1 PROVE areas[k] = StagedOn(areas[k - 1], ps[k]) /\ IsBeginning(areas[k], pack)
    <3>1. k \in 1 .. n /\ k \in 0 .. n /\ k \in 0 .. n - 1 /\ k - 1 \in 0 .. n - 1
      BY <1>3
    <3> QED BY <1>7, <1>8, <1>9, <1>13, <3>1
  <2> QED BY <1>9, <2>2, <2>3, <2>4 DEF Replays
<1>15. StagedOn(areas[Len(ps)], open) = Progress(pack, 1, 0)
  <2>1. areas[n - 1] = OnlyMetadata(Upto(data, n - 1))
    BY <1>3, <1>13
  <2>2. StagedOn(areas[n - 1], open) = OnlyMetadata(Upto(data, n))
    BY <1>5, <1>7, <1>10, <2>1
  <2>3. Upto(data, n) = pack.metadata /\ IsPrefix(data, pack.metadata)
    BY <1>1, <1>3, <1>4
  <2>4. OnlyMetadata(pack.metadata) = Progress(pack, 1, 0)
    BY <1>1, <1>2, <2>3, MetadataAreas
  <2> QED BY <1>9, <2>2, <2>3, <2>4
<1>16. made.payloads = ps /\ made.open = open /\ made.taken_size = Len(chunks[n])
  BY <1>6
<1>17. MadeUpto(made, pack, 1, 0)
  BY <1>10, <1>11, <1>12, <1>14, <1>15, <1>16 DEF MadeUpto
<1> QED BY <1>1, <1>5, <1>17

LEMMA AddModuleMade ==
  ASSUME NEW made \in Made, NEW i, CodeIndex(i) \in Nat, NEW code \in Data, code # <<>>
  PROVE  AddModule(made, i, code) \in Made
<1>1. PICK f \in [0 .. Chunks(code) -> Made] : AddModule(made, i, code) = f[Chunks(code)]
  BY AddModuleRun
<1>2. Chunks(code) \in Nat
  BY ChunksOfData
<1> QED BY <1>1, <1>2

\* Making the payloads is a run over the modules.
LEMMA PackageRun ==
  ASSUME NEW pack \in Pack, Len(pack.code) \in 1 .. U16
  PROVE  \E f \in [0 .. Len(pack.code) -> Made] :
           /\ f[0] = AddMetadata(pack.metadata)
           /\ \A i \in 1 .. Len(pack.code) : f[i] = AddModule(f[i - 1], i, pack.code[i])
           /\ ChunkPackageAndCreatePayloads(pack) = Append(f[Len(pack.code)].payloads, f[Len(pack.code)].open)
<1> DEFINE n == Len(pack.code)
           base == AddMetadata(pack.metadata)
           step == [i \in 1 .. n |-> [a \in Made |-> AddModule(a, i, pack.code[i])]]
           Is(f) == f = [i \in 0 .. n |-> IF i = 0 THEN base ELSE AddModule(f[i - 1], i, pack.code[i])]
<1>1. n \in Nat /\ base \in Made
  <2>1. MadeUpto(base, pack, 1, 0)
    BY AddMetadataSound
  <2>2. pack.code \in Seq(Data \ {<<>>})
    BY DEF Pack
  <2> QED BY <2>1, <2>2 DEF MadeUpto
<1>2. ASSUME NEW i \in 1 .. n, NEW a \in Made PROVE AddModule(a, i, pack.code[i]) \in Made
  <2>1. pack.code[i] \in Data /\ pack.code[i] # <<>>
    BY DEF Pack
  <2>2. U16 \in Nat
    BY U16IsANumber
  <2>3. i \in 1 .. U16
    BY <1>1, <2>2
  <2> QED BY <2>1, <2>3, CodeIndexes, AddModuleMade
<1>3. \A i \in 1 .. n : \A a \in Made : step[i][a] = AddModule(a, i, pack.code[i])
  OBVIOUS
<1>4. StepsWithin(step, n, Made)
  BY <1>2 DEF StepsWithin
<1> HIDE DEF step, n, base
<1>5. PICK f : IsRun(f, n, Made, base, step)
  BY <1>1, <1>4, RunExists
<1>6. f \in [0 .. n -> Made] /\ f[0] = base /\ \A i \in 1 .. n : f[i] = AddModule(f[i - 1], i, pack.code[i])
  <2>1. f \in [0 .. n -> Made] /\ f[0] = base /\ \A i \in 1 .. n : f[i] = step[i][f[i - 1]]
    BY <1>5 DEF IsRun
  <2>2. \A i \in 1 .. n : f[i - 1] \in Made
    BY <1>1, <2>1
  <2> QED BY <1>3, <2>1, <2>2
<1>7. Is(f)
  <2>1. \A i \in 0 .. n : i # 0 => i \in 1 .. n
    BY <1>1
  <2> QED BY <1>6, <2>1
<1>8. PICK g : g = CHOOSE h : Is(h)
  OBVIOUS
<1>9. Is(g)
  <2> HIDE DEF Is
  <2> QED BY <1>7, <1>8
<1>10. ChunkPackageAndCreatePayloads(pack) = Append(g[n].payloads, g[n].open)
  BY <1>8 DEF ChunkPackageAndCreatePayloads, n, base
<1>11. g[0] = base /\ \A i \in 1 .. n : g[i] = AddModule(g[i - 1], i, pack.code[i])
  <2>1. \A i \in 0 .. n : g[i] = IF i = 0 THEN base ELSE AddModule(g[i - 1], i, pack.code[i])
    BY <1>9
  <2>2. \A i \in 1 .. n : i \in 0 .. n /\ i # 0
    BY <1>1
  <2>3. 0 \in 0 .. n
    BY <1>1
  <2> HIDE DEF Is
  <2> QED BY <2>1, <2>2, <2>3
<1>12. AgreeUpto(f, g, n)
  <2>1. AgreeStepwise(f, g, n)
    BY <1>6, <1>11 DEF AgreeStepwise
  <2> HIDE DEF Is
  <2> QED BY <1>1, <2>1, RunsAgree
<1>13. f[n] = g[n]
  BY <1>1, <1>12 DEF AgreeUpto
<1>14. ChunkPackageAndCreatePayloads(pack) = Append(f[n].payloads, f[n].open)
  BY <1>10, <1>13
<1> HIDE DEF Is
<1> QED BY <1>6, <1>14 DEF n, base

\* The payloads fit, are accepted, and leave beginnings of the package, the last one the package.
UploadsAs(ps, areas, pack) ==
  /\ ps \in Seq(Payload) /\ ps # <<>> /\ InOrder(ps, ChunkSize)
  /\ Replays(ps, areas, pack) /\ areas[Len(ps)] = Progress(pack, Len(pack.code) + 1, 0)

LEMMA PayloadsOfPackage ==
  ASSUME NEW pack \in Pack, Len(pack.code) \in 1 .. U16
  PROVE  \E areas : UploadsAs(ChunkPackageAndCreatePayloads(pack), areas, pack)
<1>1. PICK n : n = Len(pack.code)
  OBVIOUS
<1>2. n \in Nat \ {0} /\ n \in 1 .. U16 /\ U16 \in Nat
  <2>1. U16 \in Nat
    BY U16IsANumber
  <2>2. n \in 1 .. U16
    BY <1>1
  <2> QED BY <2>1, <2>2
<1>3. PICK f \in [0 .. n -> Made] :
        /\ f[0] = AddMetadata(pack.metadata)
        /\ \A i \in 1 .. n : f[i] = AddModule(f[i - 1], i, pack.code[i])
        /\ ChunkPackageAndCreatePayloads(pack) = Append(f[n].payloads, f[n].open)
  BY <1>1, PackageRun
<1> DEFINE B == {i \in 0 .. n : ~MadeUpto(f[i], pack, i + 1, 0)}
<1>4. 0 \notin B
  <2>1. MadeUpto(f[0], pack, 0 + 1, 0)
    BY <1>3, AddMetadataSound
  <2> QED BY <2>1
<1>5. ASSUME NEW i \in 1 .. n, i - 1 \notin B
      PROVE  i \notin B
  <2>1. i - 1 \in 0 .. n /\ (i - 1) + 1 = i /\ i \in 1 .. U16
    BY <1>2
  <2>2. MadeUpto(f[i - 1], pack, i, 0)
    BY <1>5, <2>1
  <2>3. MadeUpto(AddModule(f[i - 1], i, pack.code[i]), pack, i + 1, 0)
    BY <1>1, <2>1, <2>2, AddModuleSound
  <2> QED BY <1>3, <2>3
<1>6. B \subseteq 0 .. n /\ \A i \in 1 .. n : i \in B => i - 1 \in B
  BY <1>5
<1>7. B = {}
  <2> HIDE DEF B
  <2> QED BY <1>2, <1>4, <1>6, NoLeast
<1>8. PICK made : made = f[n]
  OBVIOUS
<1>9. MadeUpto(made, pack, n + 1, 0)
  BY <1>2, <1>7, <1>8
<1>10. PICK area : area = Progress(pack, n + 1, 0)
  OBVIOUS
<1>11. /\ made.payloads \in Seq(Payload) /\ made.open \in Payload
       /\ Accepted(made.open) /\ Size(made.open) = made.taken_size /\ made.taken_size \in 1 .. ChunkSize
       /\ InOrder(made.payloads, made.taken_size)
  BY <1>9 DEF MadeUpto, Made
<1>12. PICK areas : Replays(made.payloads, areas, pack) /\ StagedOn(areas[Len(made.payloads)], made.open) = area
  BY <1>9, <1>10 DEF MadeUpto
<1>13. area \in Area /\ IsBeginning(area, pack)
  <2>1. pack.code[n] \in Data /\ pack.code[n] # <<>> /\ n \in 1 .. Len(pack.code)
    BY <1>1, <1>2 DEF Pack
  <2>2. Chunks(pack.code[n]) \in 0 .. Chunks(pack.code[n])
    BY <2>1, ChunksOfData
  <2> QED BY <1>10, <2>1, <2>2, ProgressFacts
<1>14. PICK ps : ps = Append(made.payloads, made.open)
  OBVIOUS
<1>15. ps \in Seq(Payload) /\ Len(ps) = Len(made.payloads) + 1 /\ ps # <<>>
  BY <1>11, <1>14
<1>16. InOrder(ps, ChunkSize)
  <2>1. ChunkSize \in Nat /\ Fits(made.open) /\ Size(made.open) + ChunkSize > ChunkSize
        /\ InOrder(made.payloads, Size(made.open))
    BY <1>11, ChunkedPublishAssumption DEF Fits
  <2> QED BY <1>11, <1>14, <2>1, AppendInOrder
<1>17. PICK more : Replays(ps, more, pack) /\ more[Len(made.payloads) + 1] = area
  <2>1. PICK closed, open : closed = made.payloads /\ open = made.open
    OBVIOUS
  <2>2. closed \in Seq(Payload) /\ Replays(closed, areas, pack) /\ area = StagedOn(areas[Len(closed)], open)
    BY <1>11, <1>12, <2>1
  <2>3. \E more : Replays(Append(closed, open), more, pack) /\ more[Len(closed) + 1] = area
    BY <1>13, <2>2, AppendReplays
  <2> QED BY <1>14, <2>1, <2>3
<1>18. UploadsAs(ps, more, pack)
  BY <1>1, <1>10, <1>15, <1>16, <1>17 DEF UploadsAs
<1> QED BY <1>3, <1>8, <1>14, <1>18

-----------------------------------------------------------------------------
(* What holds in the middle of an upload *)

\* So many payloads have gone through, and the staging area holds what they left.
Halfway(areas) ==
  /\ published = Nothing /\ sent \in 0 .. Len(payloads) - 1
  /\ staging = IF sent = 0 THEN Nothing ELSE areas[sent]

UploadIsOver ==
  /\ published = [type |-> publish_type, metadata |-> uploading.metadata, code |-> uploading.code]
  /\ staging = Nothing /\ sent = Len(payloads)

UploadInv ==
  \/ uploading = Nothing /\ published = Nothing
  \/ /\ uploading # Nothing /\ uploading \in Pack /\ uploading.code # <<>>
     /\ \E areas : UploadsAs(payloads, areas, uploading) /\ (Halfway(areas) \/ UploadIsOver)

LEMMA AreaIsSomething == ASSUME NEW area \in Area PROVE area # Nothing
<1>1. area = [metadata |-> area.metadata, code |-> area.code, last_module_idx |-> area.last_module_idx]
  BY DEF Area
<1>2. "code" \in DOMAIN area
  BY <1>1
<1>3. DOMAIN Nothing = {}
  BY DEF Nothing
<1> QED BY <1>2, <1>3

LEMMA PackIsSomething == ASSUME NEW pack \in Pack PROVE pack # Nothing
<1>1. pack = [metadata |-> pack.metadata, code |-> pack.code]
  BY DEF Pack
<1>2. "code" \in DOMAIN pack
  BY <1>1
<1>3. DOMAIN Nothing = {}
  BY DEF Nothing
<1> QED BY <1>2, <1>3

\* The next payload is accepted, and what it leaves follows.
LEMMA NextPayload ==
  ASSUME uploading \in Pack, NEW areas, UploadsAs(payloads, areas, uploading), Halfway(areas)
  PROVE  /\ sent + 1 \in 1 .. Len(payloads) /\ Accepted(payloads[sent + 1])
         /\ StagedOn(Found, payloads[sent + 1]) = areas[sent + 1]
         /\ staging # Nothing => IsBeginning(staging, uploading)
<1>1. payloads \in Seq(Payload) /\ Len(payloads) \in Nat /\ sent \in 0 .. Len(payloads) - 1
  BY DEF UploadsAs, Halfway
<1>2. /\ areas \in [0 .. Len(payloads) -> Area] /\ areas[0] = EmptyStagingArea
      /\ \A i \in 1 .. Len(payloads) : areas[i] = StagedOn(areas[i - 1], payloads[i]) /\ IsBeginning(areas[i], uploading)
  BY DEF UploadsAs, Replays
<1>3. sent + 1 \in 1 .. Len(payloads) /\ (sent + 1) - 1 = sent
  BY <1>1
<1>4. Accepted(payloads[sent + 1])
  BY <1>3 DEF UploadsAs, InOrder
<1>5. Found = areas[sent]
  <2>1. CASE sent = 0
    BY <1>2, <2>1 DEF Found, Halfway
  <2>2. CASE sent # 0
    <3>1. areas[sent] \in Area
      BY <1>1, <1>2
    <3>2. areas[sent] # Nothing
      BY <3>1, AreaIsSomething
    <3> QED BY <2>2, <3>2 DEF Found, Halfway
  <2> QED BY <2>1, <2>2
<1>6. StagedOn(Found, payloads[sent + 1]) = areas[sent + 1]
  BY <1>2, <1>3, <1>5
<1>7. staging # Nothing => IsBeginning(staging, uploading)
  <2>1. sent # 0 => sent \in 1 .. Len(payloads)
    BY <1>1
  <2> QED BY <1>2, <2>1 DEF Halfway
<1> QED BY <1>3, <1>4, <1>6, <1>7

LEMMA UploadInitially == UploadInit => UploadInv
  BY DEF UploadInit, UploadInv

LEMMA StartUploadKeeps ==
  ASSUME UploadInv, NEW pack \in Uploadable, NEW t \in PublishTypes, StartUpload(pack, t)
  PROVE  UploadInv'
<1>1. pack \in Pack /\ Len(pack.code) \in 1 .. U16 /\ pack # Nothing
  BY UploadableIsPack, PackIsSomething
<1>2. pack.code # <<>>
  <2>1. U16 \in Nat /\ Len(<<>>) = 0
    BY U16IsANumber
  <2> QED BY <1>1, <2>1
<1>3. /\ uploading' = pack /\ payloads' = ChunkPackageAndCreatePayloads(pack) /\ sent' = 0
      /\ published' = Nothing /\ staging' = Nothing
  BY DEF StartUpload
<1>4. PICK areas : UploadsAs(payloads', areas, uploading')
  BY <1>1, <1>3, PayloadsOfPackage
<1>5. Len(payloads') \in Nat \ {0}
  <2>1. payloads' \in Seq(Payload) /\ payloads' # <<>>
    BY <1>4 DEF UploadsAs
  <2> QED BY <2>1
<1>6. Halfway(areas)'
  BY <1>3, <1>5 DEF Halfway
<1> QED BY <1>1, <1>2, <1>3, <1>4, <1>6 DEF UploadInv

LEMMA SendStageKeeps ==
  ASSUME UploadInv, SendStage
  PROVE  UploadInv'
<1>1. PICK areas : /\ uploading # Nothing /\ uploading \in Pack /\ uploading.code # <<>>
                   /\ UploadsAs(payloads, areas, uploading) /\ (Halfway(areas) \/ UploadIsOver)
  BY DEF UploadInv, SendStage
<1>2. Len(payloads) \in Nat
  BY <1>1 DEF UploadsAs
<1>3. Halfway(areas)
  BY <1>1, <1>2 DEF UploadIsOver, SendStage
<1>4. StagedOn(Found, payloads[sent + 1]) = areas[sent + 1]
  BY <1>1, <1>3, NextPayload
<1>5. Halfway(areas)'
  BY <1>2, <1>3, <1>4 DEF Halfway, SendStage
<1>6. UploadsAs(payloads', areas, uploading') /\ uploading' = uploading
  BY <1>1 DEF SendStage
<1> QED BY <1>1, <1>5, <1>6 DEF UploadInv

LEMMA SendLastKeeps ==
  ASSUME UploadInv, SendLast
  PROVE  UploadInv'
<1>1. PICK areas : /\ uploading # Nothing /\ uploading \in Pack /\ uploading.code # <<>>
                   /\ UploadsAs(payloads, areas, uploading) /\ (Halfway(areas) \/ UploadIsOver)
  BY DEF UploadInv, SendLast
<1>2. payloads \in Seq(Payload) /\ Len(payloads) \in Nat /\ sent + 1 = Len(payloads)
  BY <1>1 DEF UploadsAs, SendLast
<1>3. Halfway(areas)
  BY <1>1, <1>2 DEF UploadIsOver, SendLast
<1>4. PICK area : area = StagedOn(Found, payloads[sent + 1])
  OBVIOUS
<1>5. area = Progress(uploading, Len(uploading.code) + 1, 0)
  BY <1>1, <1>2, <1>3, <1>4, NextPayload DEF UploadsAs
<1>6. area.metadata = uploading.metadata /\ AssembleModuleCode(area) = uploading.code
  BY <1>1, <1>5, AllHeld
<1>7. published' = [type |-> publish_type, metadata |-> area.metadata, code |-> AssembleModuleCode(area)]
  <2>1. Last(payloads) = payloads[sent + 1]
    BY <1>2 DEF Last
  <2> QED BY <1>4, <2>1 DEF SendLast
<1>8. UploadIsOver'
  BY <1>2, <1>6, <1>7 DEF UploadIsOver, SendLast
<1>9. UploadsAs(payloads', areas, uploading') /\ uploading' = uploading
  BY <1>1 DEF SendLast
<1> QED BY <1>1, <1>8, <1>9 DEF UploadInv

LEMMA UploadStep == UploadInv /\ [UploadNext]_upload_vars => UploadInv'
<1> SUFFICES ASSUME UploadInv, [UploadNext]_upload_vars PROVE UploadInv'
  OBVIOUS
<1>1. CASE UploadNext
  <2>1. ASSUME NEW pack \in Uploadable, NEW t \in PublishTypes, StartUpload(pack, t)
        PROVE  UploadInv'
    BY <2>1, StartUploadKeeps
  <2>2. CASE SendStage
    BY <2>2, SendStageKeeps
  <2>3. CASE SendLast
    BY <2>3, SendLastKeeps
  <2>4. CASE GiveUp
    BY <2>4 DEF GiveUp, UploadInv
  <2>5. CASE CleanupStagingArea
    BY <2>5 DEF CleanupStagingArea, UploadInv
  <2> QED BY <1>1, <2>1, <2>2, <2>3, <2>4, <2>5 DEF UploadNext
<1>2. CASE UNCHANGED upload_vars
  BY <1>2 DEF upload_vars, UploadInv, UploadsAs, Halfway, UploadIsOver
<1> QED BY <1>1, <1>2

LEMMA UploadInvSuffices == UploadInv => UploadsPublishTheirPackage
<1> SUFFICES ASSUME UploadInv PROVE UploadsPublishTheirPackage
  OBVIOUS
<1>1. CASE uploading = Nothing /\ published = Nothing
  BY <1>1 DEF UploadsPublishTheirPackage, PublishesThePackage, PayloadsFit, StagingIsAPrefix, PayloadsAreAccepted
<1>2. CASE /\ uploading # Nothing /\ uploading \in Pack /\ uploading.code # <<>>
           /\ \E areas : UploadsAs(payloads, areas, uploading) /\ (Halfway(areas) \/ UploadIsOver)
  <2>1. PICK areas : UploadsAs(payloads, areas, uploading) /\ (Halfway(areas) \/ UploadIsOver)
    BY <1>2
  <2>2. payloads \in Seq(Payload) /\ Len(payloads) \in Nat /\ DOMAIN payloads = 1 .. Len(payloads)
    BY <2>1 DEF UploadsAs
  <2>3. PublishesThePackage
    BY <2>1 DEF PublishesThePackage, Halfway, UploadIsOver
  <2>4. PayloadsFit
    BY <2>1, <2>2 DEF PayloadsFit, UploadsAs, InOrder
  <2>5. StagingIsAPrefix
    BY <1>2, <2>1, NextPayload DEF StagingIsAPrefix, UploadIsOver
  <2>6. PayloadsAreAccepted
    <3> SUFFICES ASSUME sent < Len(payloads)
                 PROVE  /\ Accepted(payloads[sent + 1])
                        /\ sent + 1 = Len(payloads) => CanAssemble(StagedOn(Found, payloads[sent + 1]))
      BY DEF PayloadsAreAccepted
    <3>1. Halfway(areas)
      BY <2>1, <2>2 DEF UploadIsOver
    <3>2. Accepted(payloads[sent + 1]) /\ StagedOn(Found, payloads[sent + 1]) = areas[sent + 1]
      BY <1>2, <2>1, <3>1, NextPayload
    <3>3. areas[Len(payloads)] = Progress(uploading, Len(uploading.code) + 1, 0)
      BY <2>1 DEF UploadsAs
    <3>4. CanAssemble(Progress(uploading, Len(uploading.code) + 1, 0))
      BY <1>2, AllHeld
    <3> QED BY <3>2, <3>3, <3>4
  <2> QED BY <2>3, <2>4, <2>5, <2>6 DEF UploadsPublishTheirPackage
<1> QED BY <1>1, <1>2 DEF UploadInv

\* Whatever the sizes of the chunks, of the metadata and of the modules, however many modules there
\* are, and wherever uploads are given up: payloads fit, are accepted and leave beginnings of the
\* package, and what the last one publishes is the package (chunked_publish.rs, large_packages.move).
THEOREM UploadCorrectness == UploadSpec => []UploadsPublishTheirPackage
<1>1. UploadInit => UploadInv
  BY UploadInitially
<1>2. UploadInv /\ [UploadNext]_upload_vars => UploadInv'
  BY UploadStep
<1>3. UploadInv => UploadsPublishTheirPackage
  BY UploadInvSuffices
<1> QED BY <1>1, <1>2, <1>3, PTL DEF UploadSpec

=============================================================================
