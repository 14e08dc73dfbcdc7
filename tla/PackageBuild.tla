---------------------------- MODULE PackageBuild ----------------------------
(***************************************************************************)
(* Building a Move package and extracting what is published of it          *)
(* (src/src/built_package.rs).  A build configures, resolves (which takes  *)
(* the digest of the sources), compiles (which reads them once more and    *)
(* writes the compiled modules to disk), runs the extended checks,         *)
(* gives up or stops as the experiments say, injects the runtime metadata  *)
(* into the modules, in memory and on disk, one by one, and makes docs.    *)
(* Its owner may edit the package at any time and build again; any write   *)
(* may fail.                                                               *)
(*                                                                         *)
(* The sources are a version, the diagnostics the extended checks find in  *)
(* it, the modules they derive metadata for and the declared policy.       *)
(***************************************************************************)
EXTENDS Naturals, FiniteSets

CONSTANTS Modules,      \* the root modules of the package
          MaxVersion,   \* bound: edits
          V1MinVersion, \* the bytecode version from which metadata is of version 1
          BytecodeVersions,
          None

Experiments == {"STOP_BEFORE_EXTENDED_CHECKS", "SKIP_BAILOUT_ON_EXTENDED_CHECKS", "FAIL_ON_WARNING", "STOP_AFTER_EXTENDED_CHECKS"}
Severities == {"none", "warning", "error"}
Policies == {"none", "immutable", "unknown"}

BuildOptions == [bytecode_version : BytecodeVersions, with_srcs : BOOLEAN,
                 experiments : {e \in SUBSET Experiments : Cardinality(e) <= 2}]

VARIABLES source,       \* the package directory's sources and manifest
          disk,         \* the compiled modules in it
          options, phase,
          resolved,     \* the ResolvedGraph: the sources whose digest it holds
          package,      \* the CompiledPackage in memory
          model,        \* the sources the compiler read
          injected,     \* the modules injection has passed
          extracted,    \* what was last extracted, for publishing, from the built package
          edited        \* history: the phases with edits since the package was resolved

build_vars == <<source, disk, options, phase, resolved, package, model, injected, extracted, edited>>

BuildInit ==
    /\ \E meta \in SUBSET Modules : source = [version |-> 0, diags |-> "none", metadata |-> meta, policy |-> "none"]
    /\ disk = [m \in Modules |-> None]
    /\ options = None /\ phase = "idle"
    /\ resolved = None /\ package = None /\ model = None /\ injected = {} /\ extracted = None
    /\ edited = {}

\* The owner edits a source or the manifest.
EditPackage(diags, meta, policy) ==
    /\ source.version < MaxVersion
    /\ source' = [version |-> source.version + 1, diags |-> diags, metadata |-> meta, policy |-> policy]
    /\ edited' = edited \cup {phase}
    /\ UNCHANGED <<disk, options, phase, resolved, package, model, injected, extracted>>

\* What the experiments say of code from these sources: errors and warnings of the extended checks
\* end a build unless, or if, they say so, and a build that is asked to stop gets no metadata.
MayHaveMetadata(src, o) ==
    /\ src.diags = "error" => "SKIP_BAILOUT_ON_EXTENDED_CHECKS" \in o.experiments
    /\ src.diags # "none" => "FAIL_ON_WARNING" \notin o.experiments
    /\ {"STOP_BEFORE_EXTENDED_CHECKS", "STOP_AFTER_EXTENDED_CHECKS"} \cap o.experiments = {}

Running == phase \notin {"idle", "built"}

\* Nothing is left of a failed build but the files it wrote.
FailBuild ==
    /\ phase' = "idle"
    /\ options' = None /\ resolved' = None /\ package' = None /\ injected' = {} /\ extracted' = None /\ model' = None
    /\ edited' = {}
    /\ UNCHANGED <<source, disk>>

\* An error at any step of a build: a compiler that does not support the language version
\* (check_versions), I/O, compilation, or a compiler's warning where an experiment makes it one.
BuildError == Running /\ FailBuild

\* build and create_build_config, before the versions are checked.
create_build_config(o) ==
    /\ ~Running
    /\ options' = o /\ resolved' = None /\ package' = None /\ injected' = {} /\ extracted' = None /\ model' = None
    /\ phase' = "configured" /\ edited' = {}
    /\ UNCHANGED <<source, disk>>

\* The digest is taken here, of the sources as they are now.
prepare_resolution_graph ==
    /\ phase = "configured" /\ phase' = "resolved"
    /\ resolved' = source.version /\ edited' = {}
    /\ UNCHANGED <<source, disk, options, package, model, injected, extracted>>

\* The compiler reads the sources, possibly other ones than were resolved, and writes the modules.
\* The code remembers whether its sources and the options let it have metadata (MayHaveMetadata).
Compiled(src, key, o) ==
    [m \in Modules |-> [version |-> src.version, key |-> key, accepted |-> MayHaveMetadata(src, o)]]
Serialized(unit) ==
    [version |-> unit.version, key |-> unit.key, accepted |-> unit.accepted, bytecode |-> options.bytecode_version]
compile_package ==
    /\ phase = "resolved" /\ phase' = "compiled"
    /\ model' = source
    /\ package' = Compiled(source, "none", options)
    /\ disk' = [m \in Modules |-> Serialized(Compiled(source, "none", options)[m])]
    /\ UNCHANGED <<source, options, resolved, injected, extracted, edited>>

On(experiment) == experiment \in options.experiments

stop_before_extended_checks ==
    /\ phase = "compiled" /\ On("STOP_BEFORE_EXTENDED_CHECKS")
    /\ phase' = "built"
    /\ UNCHANGED <<source, disk, options, resolved, package, model, injected, extracted, edited>>

\* run_extended_checks and what follows: errors end the build unless told not to, warnings if
\* told to, and a build may be asked to stop here.
extended_checks ==
    /\ phase = "compiled" /\ ~On("STOP_BEFORE_EXTENDED_CHECKS")
    /\ IF \/ model.diags = "error" /\ ~On("SKIP_BAILOUT_ON_EXTENDED_CHECKS")
          \/ (On("FAIL_ON_WARNING") \/ On("STOP_AFTER_EXTENDED_CHECKS")) /\ model.diags # "none"
       THEN FailBuild
       ELSE /\ phase' = IF On("STOP_AFTER_EXTENDED_CHECKS") THEN "built" ELSE "injecting"
            /\ UNCHANGED <<source, disk, options, resolved, package, model, injected, extracted, edited>>

\* The metadata format.
MetadataKey(bytecode) == IF bytecode >= V1MinVersion THEN "v1" ELSE "v0"

\* inject_runtime_metadata for one module: what has metadata gets it in the format of its
\* bytecode version, and its file, if there is one, is written again.
inject_runtime_metadata(m) ==
    LET unit == [package[m] EXCEPT !.key = MetadataKey(options.bytecode_version)]
    IN /\ phase = "injecting" /\ m \notin injected
       /\ injected' = injected \cup {m}
       /\ IF m \in model.metadata
          THEN /\ package' = [package EXCEPT ![m] = unit]
               /\ disk' = IF disk[m] = None THEN disk ELSE [disk EXCEPT ![m] = Serialized(unit)]
          ELSE UNCHANGED <<package, disk>>
       /\ UNCHANGED <<source, options, phase, resolved, model, extracted, edited>>

\* All modules are done, and the docs are generated.
finish_build ==
    /\ phase = "injecting" /\ injected = Modules
    /\ phase' = "built"
    /\ UNCHANGED <<source, disk, options, resolved, package, model, injected, extracted, edited>>

\* The compiled modules are removed from the directory.
CleanPackage ==
    /\ disk' = [m \in Modules |-> None]
    /\ \E m \in Modules : disk[m] # None
    /\ UNCHANGED <<source, options, phase, resolved, package, model, injected, extracted, edited>>

\* Mutant: the digest is of the sources that are read.
digest_of_the_directory ==
    /\ phase = "built" /\ source.policy # "unknown"
    /\ extracted' = [code |-> [m \in Modules |-> Serialized(package[m])],
                     source_digest |-> source.version,
                     sources |-> IF options.with_srcs THEN source.version ELSE None,
                     upgrade_policy |-> "compatible"]
    /\ UNCHANGED <<source, disk, options, phase, resolved, package, model, injected, edited>>

\* extract_code and extract_metadata: the digest is of the resolved sources, the manifest and
\* the sources are read from the directory again.
extract ==
    /\ phase = "built" /\ source.policy # "unknown"
    /\ extracted' = [code |-> [m \in Modules |-> Serialized(package[m])],
                     source_digest |-> resolved,
                     sources |-> IF options.with_srcs THEN source.version ELSE None,
                     upgrade_policy |-> IF source.policy = "none" THEN "compatible" ELSE source.policy]
    /\ UNCHANGED <<source, disk, options, phase, resolved, package, model, injected, edited>>

BuildNext ==
    \/ \E diags \in Severities, meta \in SUBSET Modules, policy \in Policies : EditPackage(diags, meta, policy)
    \/ \E o \in BuildOptions : create_build_config(o)
    \/ BuildError \/ prepare_resolution_graph \/ compile_package \/ stop_before_extended_checks \/ extended_checks
    \/ \E m \in Modules : inject_runtime_metadata(m)
    \/ finish_build \/ CleanPackage \/ extract

BuildSpec == BuildInit /\ [][BuildNext]_build_vars

-----------------------------------------------------------------------------
(* Properties.                                                             *)

\* Metadata is only in code that passed the extended checks, or was built with their errors
\* explicitly ignored, and in the format of its bytecode version: in memory, and in every module file
\* on disk after any sequence of builds, edits and failures, also one in the middle of injection (the
\* bail-outs of build_with_external_checks_to, inject_runtime_metadata).
MetadataMeansChecked ==
    \A m \in Modules :
        /\ package # None /\ package[m].key # "none" => package[m].accepted
        /\ disk[m] # None /\ disk[m].key # "none" =>
              disk[m].accepted /\ disk[m].key = MetadataKey(disk[m].bytecode)

\* After a successful build the compiled modules on disk are what extract_code returns, byte
\* for byte, whatever earlier builds left there (compilation, then inject_runtime_metadata).
DiskIsThePackage ==
    phase = "built" => \A m \in Modules : disk[m] \in {None, Serialized(package[m])}

\* The digest published with the code is that of the sources the code was compiled from, unless they
\* were edited between resolution and compilation, and of the sources published with it, unless they
\* were edited at any time since: whatever was built, failed or edited before and after
\* (prepare_resolution_graph, compile_package_no_exit_with_driver and extract_metadata each read them).
DigestIdentifiesTheCode ==
    extracted # None =>
        /\ "resolved" \notin edited => \A m \in Modules : extracted.code[m].version = extracted.source_digest
        /\ edited = {} => extracted.sources \in {None, extracted.source_digest}

\* All modules of a package are published alike: with the metadata they have, in one format,
\* or, if a build was stopped, without (the early returns, and injection module by module).
MetadataIsComplete ==
    extracted # None =>
        LET key == MetadataKey(options.bytecode_version)
            stopped == On("STOP_BEFORE_EXTENDED_CHECKS") \/ On("STOP_AFTER_EXTENDED_CHECKS")
        IN \A m \in Modules :
              extracted.code[m].key = IF ~stopped /\ m \in model.metadata THEN key ELSE "none"

\* What is built, written to disk and extracted for publishing is the checked code of the sources the
\* compiler read, under the digest of the sources that were resolved, whatever was edited, failed or
\* stopped in between (built_package.rs).
BuildsAreWhatTheyClaim ==
    MetadataMeansChecked /\ DiskIsThePackage /\ DigestIdentifiesTheCode /\ MetadataIsComplete
=============================================================================
