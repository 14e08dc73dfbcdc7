--------------------------- MODULE CodePublishing ---------------------------
(***************************************************************************)
(* Publishing packages: the registry of packages at each address           *)
(* (code.move), the request a session makes of the virtual machine         *)
(* (natives/src/code.rs), and the modules that are published for it.       *)
(*                                                                         *)
(* A session first runs its payload, which may publish one package; then   *)
(* the virtual machine takes the request, checks and publishes the bundle  *)
(* and runs the modules' initializers; then everything is committed, or    *)
(* nothing.  The virtual machine's part is outside this repository and     *)
(* modelled from the request's fields.                                     *)
(***************************************************************************)
EXTENDS Naturals, FiniteSets, FiniteSetsExt

CONSTANTS Addresses,        \* addresses with packages
          Objects,          \* those of them that are code objects
          Exempted,         \* the addresses of the framework
          Names,            \* names of packages
          ModuleNames,
          MaxPublished,     \* bound: publications in all
          MaxDeps           \* bound: dependencies of a package, and uses of the one module that has any

ASSUME CodePublishingAssumption ==
  /\ Objects \subseteq Addresses /\ Exempted \subseteq Addresses
  /\ MaxPublished \in Nat /\ MaxDeps \in Nat

VARIABLES
  packages,     \* the committed registries: every package, with its address
  modules,      \* the committed modules, each with the modules its code uses
  code_phase,   \* "idle", "payload" or "init"
  registry,     \* the registries as the running session sees them
  loaded,       \* the modules as it sees them
  context       \* NativeCodeContext

code_vars == <<packages, modules, code_phase, registry, loaded, context>>

Arbitrary == 0
Compat == 1
Immutable == 2

NoRequest == {}

PackageEntry(addr, name, policy, number, names, deps) ==
  [addr |-> addr, name |-> name, policy |-> policy, upgrade_number |-> number,
   modules |-> names, deps |-> deps]
ModuleEntry(addr, name, version, uses) == [addr |-> addr, name |-> name, version |-> version, uses |-> uses]

SmallSubsets(S) == {D \in SUBSET S : Cardinality(D) <= MaxDeps}
Deps == SmallSubsets(Addresses \X Names)
Bundles(names) == {bundle \in [names -> SmallSubsets(Addresses \X ModuleNames)] :
                     Cardinality({m \in names : bundle[m] # {}}) <= 1}

-----------------------------------------------------------------------------
(* Helpers of code.move *)

CheckDependencies(addr, policy, deps, known) == \A dep \in deps :
  \/ dep[1] \in Exempted
  \/ \E p \in known : /\ p.addr = dep[1] /\ p.name = dep[2]
                      /\ p.policy >= policy
                      /\ p.policy = Arbitrary => dep[1] = addr

\* The modules the dependencies allow; every module of an exempted address is allowed.
AllowedDeps(deps, known) ==
  UNION {IF dep[1] \in Exempted THEN {dep[1]} \X ModuleNames
         ELSE UNION {{p.addr} \X p.modules : p \in {q \in known : q.addr = dep[1] /\ q.name = dep[2]}}
         : dep \in deps}

CheckUpgradability(old, policy, names) ==
  old.policy < Immutable /\ old.policy <= policy /\ old.modules \subseteq names

CheckCoexistence(old, names) == old.modules \cap names = {}

-----------------------------------------------------------------------------
(* NativeCodeContext *)

NewContext == [enabled |-> TRUE, requested |-> NoRequest]

RequestPublish(destination, bundle, expected, allowed, policy) ==
  /\ context.enabled /\ context.requested = NoRequest
  /\ context' = [context EXCEPT !.requested =
       {[destination |-> destination, bundle |-> bundle, expected |-> expected,
         allowed |-> allowed \cup ({destination} \X expected), check_compat |-> policy # Arbitrary]}]

ExtractPublishRequest == context' = [enabled |-> FALSE, requested |-> NoRequest]

-----------------------------------------------------------------------------
(* A session *)

\* Genesis has published one package at every exempted address.
CodeInit ==
  /\ \E name \in Names, m \in ModuleNames :
       /\ packages = {PackageEntry(addr, name, Compat, 0, {m}, {}) : addr \in Exempted}
       /\ modules = {ModuleEntry(addr, m, 0, {}) : addr \in Exempted}
  /\ code_phase = "idle"
  /\ registry = packages /\ loaded = modules
  /\ context = NewContext

StartSession ==
  /\ code_phase = "idle"
  /\ code_phase' = "payload"
  /\ context' = NewContext
  /\ UNCHANGED <<packages, modules, registry, loaded>>

\* The payload or an initializer fails.
AbortSession ==
  /\ code_phase # "idle"
  /\ code_phase' = "idle"
  /\ registry' = packages /\ loaded' = modules
  /\ context' = NewContext
  /\ UNCHANGED <<packages, modules>>

\* By the payload, or by an initializer; for an account or, with its signer, for an object.
PublishPackage(addr, name, policy, names, deps) ==
  LET old == {p \in registry : p.addr = addr /\ p.name = name}
      number == IF old = {} THEN 0 ELSE 1 + (CHOOSE p \in old : TRUE).upgrade_number
  IN  /\ code_phase \in {"payload", "init"}
      /\ policy > Arbitrary
      /\ CheckDependencies(addr, policy, deps, registry)
      /\ \A p \in registry : p.addr = addr =>
           IF p.name = name THEN CheckUpgradability(p, policy, names) ELSE CheckCoexistence(p, names)
      /\ MapThenSumSet(LAMBDA p : p.upgrade_number + 1, registry) < MaxPublished
      /\ registry' = (registry \ old) \cup {PackageEntry(addr, name, policy, number, names, deps)}
      /\ \E bundle \in Bundles(names) :
           RequestPublish(addr, bundle, names, AllowedDeps(deps, registry), policy)
      /\ UNCHANGED <<packages, modules, code_phase, loaded>>

\* Mutant: the dependencies are not checked again.
FreezeUnchecked(addr) ==
  /\ code_phase \in {"payload", "init"} /\ addr \in Objects
  /\ \E p \in registry : p.addr = addr
  /\ registry' = {IF p.addr = addr THEN [p EXCEPT !.policy = Immutable] ELSE p : p \in registry}
  /\ UNCHANGED <<packages, modules, code_phase, loaded, context>>

FreezeCodeObject(addr) ==
  /\ code_phase \in {"payload", "init"} /\ addr \in Objects
  /\ \E p \in registry : p.addr = addr
  /\ registry' = {IF p.addr = addr THEN [p EXCEPT !.policy = Immutable] ELSE p : p \in registry}
  /\ \A p \in registry' : p.addr = addr => CheckDependencies(addr, p.policy, p.deps, registry')
  /\ UNCHANGED <<packages, modules, code_phase, loaded, context>>

Named(S, addr, name) == {m \in S : m.addr = addr /\ m.name = name}

\* The virtual machine: the bundle has the expected modules, what they use exists and is allowed.
Accepts(request) ==
  /\ DOMAIN request.bundle = request.expected
  /\ \A m \in request.expected : \A use \in request.bundle[m] :
       /\ use \in request.allowed
       /\ \/ Named(loaded, use[1], use[2]) # {}
          \/ use[1] = request.destination /\ use[2] \in request.expected

Published(request) ==
  LET Old(m) == Named(loaded, request.destination, m)
      Version(m) == IF Old(m) = {} THEN 0 ELSE 1 + (CHOOSE x \in Old(m) : TRUE).version
  IN  (loaded \ UNION {Old(m) : m \in request.expected}) \cup
      {ModuleEntry(request.destination, m, Version(m), request.bundle[m]) : m \in request.expected}

\* The payload is through: the request, if there is one, is served before the initializers run.
EndPayload ==
  /\ code_phase = "payload"
  /\ \A request \in context.requested : Accepts(request)
  /\ loaded' = IF context.requested = NoRequest THEN loaded
               ELSE Published(CHOOSE request \in context.requested : TRUE)
  /\ ExtractPublishRequest
  /\ code_phase' = "init"
  /\ UNCHANGED <<packages, modules, registry>>

CommitSession ==
  /\ code_phase = "init"
  /\ packages' = registry /\ modules' = loaded
  /\ code_phase' = "idle"
  /\ context' = NewContext
  /\ UNCHANGED <<registry, loaded>>

CodeNext ==
  \/ StartSession \/ EndPayload \/ CommitSession \/ AbortSession
  \/ \E addr \in Addresses : FreezeCodeObject(addr)
  \/ \E addr \in Addresses, name \in Names, policy \in Arbitrary .. Immutable,
        names \in SUBSET ModuleNames \ {{}}, deps \in Deps :
       PublishPackage(addr, name, policy, names, deps)

CodeSpec == CodeInit /\ [][CodeNext]_code_vars

-----------------------------------------------------------------------------
(* Properties *)

CodeTypeOK ==
  /\ \A p \in packages \cup registry :
       /\ p.addr \in Addresses /\ p.name \in Names /\ p.policy \in {Compat, Immutable}
       /\ p.modules \subseteq ModuleNames /\ p.upgrade_number \in Nat
  /\ Cardinality(context.requested) <= 1 /\ (context.requested # NoRequest => code_phase = "payload")

\* The registry tells the truth: the modules at an address are those its packages list, each in
\* one package, and each as often published as its package was since it has it.
RegistryMatchesModules ==
  /\ {<<m.addr, m.name>> : m \in modules} = UNION {{p.addr} \X p.modules : p \in packages}
  /\ \A p, q \in packages : p # q /\ p.addr = q.addr => p.name # q.name /\ p.modules \cap q.modules = {}
  /\ \A p \in packages : \A m \in p.modules :
       \A x \in Named(modules, p.addr, m) : x.version <= p.upgrade_number

\* Outside the framework, a package never depends on one with a weaker policy, however both were
\* upgraded or frozen since (check_dependencies, freeze_code_object).
DependenciesAreAsStrong ==
  \A p \in packages : \A dep \in p.deps :
    dep[1] \notin Exempted =>
      \E q \in packages : q.addr = dep[1] /\ q.name = dep[2] /\ q.policy >= p.policy

\* A module uses only modules of its own package and of packages that package declares, and these
\* still exist: nobody can take a module away (request_publish_with_allowed_deps).
UsesAreDeclared ==
  \A x \in modules : \A use \in x.uses :
    /\ Named(modules, use[1], use[2]) # {}
    /\ \E p \in packages : /\ p.addr = x.addr /\ x.name \in p.modules
                           /\ \/ use[1] = p.addr /\ use[2] \in p.modules
                              \/ use[1] \in Exempted
                              \/ \E q \in packages : /\ <<q.addr, q.name>> \in p.deps
                                                     /\ use[1] = q.addr /\ use[2] \in q.modules

\* A package's policy is never weakened, and what is immutable stays, with the code of its modules.
ImmutableStep ==
  \A p \in packages : \E q \in packages' :
    /\ q.addr = p.addr /\ q.name = p.name /\ q.policy >= p.policy
    /\ p.policy = Immutable => /\ q = p
                               /\ \A m \in p.modules :
                                    Named(modules, p.addr, m) = Named(modules', p.addr, m)

\* The registry of packages tells the truth about the modules at an address, dependencies have at
\* least the policy of what depends on them and are declared, and the immutable stays (code.rs, code.move).
DependenciesHold ==
  /\ [](CodeTypeOK /\ RegistryMatchesModules /\ DependenciesAreAsStrong /\ UsesAreDeclared)
  /\ [][ImmutableStep]_code_vars
=============================================================================
