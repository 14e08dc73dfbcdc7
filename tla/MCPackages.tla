----------------------------- MODULE MCPackages -----------------------------
(* From sources to a release: the extended checks on the packages of        *)
(* MCExtendedChecks, the build of a package, its publication on chain and   *)
(* the release of the framework's packages, side by side.  They share no    *)
(* state, so each behaviour is one of the tools `part' and leaves the       *)
(* others alone.                                                            *)
EXTENDS MCExtendedChecks, PackageBuild, CodePublishing, Release

CONSTANTS a, o, p, q, m     \* model values

VARIABLE part

mc_vars == <<part, vars, build_vars, code_vars, release_vars>>

\* Custom releases of two packages, besides the standard one.
Custom(ps, rs, ls, abis) == [packages |-> ps, rust_bindings |-> rs, package_use_latest_language |-> ls, with_abis |-> abis]
CompleteCustom ==
    {Custom(ps, rs, ls, abis) :
        ps \in {<<"move-stdlib", "aptos-framework">>, <<"aptos-framework", "move-stdlib">>},
        rs \in {<<FALSE, TRUE>>, <<TRUE, TRUE>>}, ls \in {<<TRUE, FALSE>>, <<FALSE, TRUE>>}, abis \in BOOLEAN}

Scripts == INSTANCE ReleaseScripts WITH ChunkSize <- 2

ASSUME Scripts!ChunkSizeAssumption

\* The scripts and the order of a release's modules are functions: all small packages are tried here.
ASSUME \A pack \in Scripts!SmallPackages(3, 1) \cup Scripts!SmallPackages(1, 5) :
         Scripts!ScriptPublishesThePackage(pack) /\ Scripts!DependenciesComeFirst(pack)

MCInit ==
  /\ part \in {"checks", "build", "code", "release"}
  /\ Init /\ (part # "checks" => env = Base)
  /\ BuildInit /\ CodeInit /\ ReleaseInit
  /\ part # "build" => source.metadata = {}

MCNext ==
  \/ part = "checks" /\ Next /\ UNCHANGED <<part, build_vars, code_vars, release_vars>>
  \/ part = "build" /\ BuildNext /\ UNCHANGED <<part, vars, code_vars, release_vars>>
  \/ part = "code" /\ CodeNext /\ UNCHANGED <<part, vars, build_vars, release_vars>>
  \/ part = "release" /\ ReleaseNext /\ UNCHANGED <<part, vars, build_vars, code_vars>>

MCSpec == MCInit /\ [][MCNext]_mc_vars

=============================================================================
