--------------------------- MODULE ExtendedChecks ---------------------------
(***************************************************************************)
(* The checks run on the model of a compiled package and the runtime       *)
(* metadata they derive (src/src/extended_checks.rs).  A run walks over    *)
(* the primary target modules and makes nine checks on each, one action    *)
(* per check; diagnostics, metadata and the cache of randomness callers    *)
(* accumulate over all of them.                                            *)
(*                                                                         *)
(* A diagnostic is the name of the function or struct it is reported for.  *)
(* A type is `vectors' times vector of a base.  Programs are those the     *)
(* Move compiler accepts; the call graph is the one after inlining.        *)
(***************************************************************************)
EXTENDS Integers, Sequences, FiniteSets

CONSTANTS Families,     \* sets of packages that may be checked
          ModuleIds,    \* the modules of the model, in their order
          Address,      \* Address[m]
          FunIds,       \* all functions, in the order of their qualified ids
          RandomnessFuns,   \* those of 0x1::randomness
          StructIds,    \* all structs, in order
          AllowedStructs,   \* String, Object, Option, FixedPoint32 and FixedPoint64
          Primitives,   \* the primitive types, "signer" among them, and type parameters
          ConstantIds,  \* the named constants, in order
          ErrorModule,  \* 0x1::error
          MaxU64,       \* 2^64 - 1 of the code
          NoAttribute   \* the attribute is not there

VARIABLES env,          \* the package
          at, check,    \* the module and the check of the run that come next
          errors, warnings,
          output,       \* the runtime metadata of each module
          randomness_caller_cache

vars == <<env, at, check, errors, warnings, output, randomness_caller_cache>>

Elements(seq) == {seq[i] : i \in DOMAIN seq}

\* Only what the model defines is called, functions return a number of values, and targets are
\* modules of the model.
ASSUME ChecksAssumption ==
    /\ ModuleIds \in Seq(Elements(ModuleIds))
    /\ FunIds \in Seq(Elements(FunIds))
    /\ RandomnessFuns \subseteq Elements(FunIds)
    /\ \A family \in Families : \A package \in family :
          /\ package.primary \subseteq Elements(ModuleIds)
          /\ \A f \in Elements(FunIds) :
                package.fun[f].calls \subseteq Elements(FunIds) /\ package.fun[f].returns \in Nat

Module == ModuleIds[at]
FunsOf(m) == {f \in Elements(FunIds) : env.fun[f].module = m}
StructsOf(m) == {s \in Elements(StructIds) : env.struct[s].module = m}
has_attribute(f, attribute) == attribute \in env.fun[f].attributes
IsPublic(f) == env.fun[f].visibility = "public"
is_framework_function(f) == Address[env.fun[f].module] = "0x1"

-----------------------------------------------------------------------------
(* Parameters.                                                             *)

IsSigner(ty) == ty.vectors = 0 /\ ty.base \in {"signer", "&signer", "&mut signer"}

is_externally_constructable(s) ==
    /\ env.public_structs
    /\ s \in Elements(StructIds)
    /\ env.struct[s].visibility = "public"
    /\ "key" \notin env.struct[s].abilities
    /\ "copy" \in env.struct[s].abilities

is_valid_txn_arg_type(ty) ==
    \/ ty.base \in Primitives \cup AllowedStructs \cup {"&signer"}
    \/ is_externally_constructable(ty.base)

check_transaction_args(f) == \E i \in DOMAIN env.fun[f].params : ~is_valid_txn_arg_type(env.fun[f].params[i])

\* A signer after another parameter is only a warning.
check_signer_args(f) ==
    \E i, j \in DOMAIN env.fun[f].params : i < j /\ ~IsSigner(env.fun[f].params[i]) /\ IsSigner(env.fun[f].params[j])

-----------------------------------------------------------------------------
(* Resource groups.                                                        *)

\* The scope a struct declares as a group, "none" if it is none, and whether it is ill-formed.
get_resource_group(s) ==
    LET struct == env.struct[s]
        unit == struct.fields = 0 /\ struct.abilities = {} /\ struct.type_params = 0
        scoped == /\ unit
                  /\ Len(struct.resource_group) = 1
                  /\ struct.resource_group[1].key # "not_assign"
        known == scoped /\ struct.resource_group[1].value \in {"global", "address", "module_"}
    IN IF struct.resource_group = NoAttribute THEN [scope |-> "none", error |-> FALSE]
       ELSE [scope |-> IF known THEN struct.resource_group[1].value ELSE "none",
             error |-> ~known \/ struct.resource_group[1].key # "scope"]

are_equal_envs(scope, s, container) ==
    CASE scope = "global" -> TRUE
      [] scope = "address" -> Address[env.struct[s].module] = Address[env.struct[container].module]
      [] scope = "module_" -> env.struct[s].module = env.struct[container].module

IsMember(s) == env.struct[s].member # NoAttribute

\* A member with its attribute's arguments: how the check ends, the group recorded (none or
\* one) and the diagnostics.  The number of arguments is reported, and the first still read.
member_of(s) ==
    LET args == env.struct[s].member
        keyed == "key" \in env.struct[s].abilities
        found == keyed /\ args # <<>> /\ args[1].key # "not_assign" /\ args[1].value \in Elements(StructIds)
        container == args[1].value
        group == get_resource_group(container)
        joined == found /\ group.scope # "none" /\ are_equal_envs(group.scope, s, container)
    IN [panics |-> keyed /\ args = <<>>,
        groups |-> IF joined THEN {container} ELSE {},
        errors |-> (IF ~joined \/ Len(args) # 1 \/ args[1].key # "group" THEN {s} ELSE {})
                   \cup (IF found /\ group.error THEN {container} ELSE {})]

-----------------------------------------------------------------------------
(* Randomness.                                                             *)

\* The declared gas of #[randomness(max_gas = n)], as a sequence of at most one number.
get_randomness_max_gas_declaration(f) ==
    LET args == env.fun[f].randomness
        bad == Len(args) >= 2
               \/ (Len(args) = 1 /\ (args[1].key # "max_gas" \/ args[1].value \notin 0 .. MaxU64))
    IN IF args = NoAttribute THEN [error |-> FALSE, annotation |-> {}]
       ELSE IF bad THEN [error |-> TRUE, annotation |-> {}]
       ELSE [error |-> FALSE, annotation |-> {IF args = <<>> THEN <<>> ELSE <<args[1].value>>}]

\* Mutant: functions of the framework are taken not to call randomness.
called_outside_framework(f) == {g \in env.fun[f].calls : ~is_framework_function(g) \/ g \in RandomnessFuns}

get_called_functions(f) == env.fun[f].calls

\* The cache of all functions: "unknown" is no entry.
Caches == [Elements(FunIds) -> {"unknown", "no_caller", "caller"}]

\* A function whose callees are being looked at, and the first that was not yet.
Visits == [fun : Elements(FunIds), from : 1 .. Len(FunIds) + 1, cache : Caches]

\* The loop of calls_randomness: the cache after it.  It stops at the first call found; an entry is
\* made before the callees are looked at, which ends the walk on cycles.
visit[v \in Visits] ==
    LET callee == FunIds[v.from]
        below == IF v.cache[callee] # "unknown" THEN v.cache
                 ELSE visit[[fun |-> callee, from |-> 1, cache |-> [v.cache EXCEPT ![callee] = "no_caller"]]]
    IN IF v.from > Len(FunIds) THEN v.cache
       ELSE IF callee \notin get_called_functions(v.fun) THEN visit[[v EXCEPT !.from = @ + 1]]
       ELSE IF callee \in RandomnessFuns THEN [v.cache EXCEPT ![v.fun] = "caller"]
       ELSE IF below[callee] = "caller" THEN [below EXCEPT ![v.fun] = "caller"]
       ELSE visit[[v EXCEPT !.from = @ + 1, !.cache = below]]

\* The cache after a query, which also holds the answer.
calls_randomness(f, cache) ==
    IF cache[f] # "unknown" THEN cache
    ELSE visit[[fun |-> f, from |-> 1, cache |-> [cache EXCEPT ![f] = "no_caller"]]]

IsRandom(f) == env.fun[f].randomness # NoAttribute

\* An entry function needs #[randomness], a public one outside the framework the attribute that
\* allows it; others are not looked at.
Guarded(f) ==
    IF ~IsPublic(f) /\ env.fun[f].entry THEN IsRandom(f)
    ELSE is_framework_function(f) \/ ~IsPublic(f) \/ has_attribute(f, "lint::allow_unsafe_randomness")

\* One function of check_unsafe_randomness_usage.
unsafe_usage(seen, f) ==
    LET cache == calls_randomness(f, seen.cache)
    IN IF f \notin FunsOf(Module) \/ Guarded(f) THEN seen
       ELSE [cache |-> cache, errors |-> seen.errors \cup (IF cache[f] = "caller" THEN {f} ELSE {})]

\* The cache and the errors after the first functions of the package.
UsagesSeen[i \in 0 .. Len(FunIds)] ==
    IF i = 0 THEN [cache |-> randomness_caller_cache, errors |-> errors]
    ELSE unsafe_usage(UsagesSeen[i - 1], FunIds[i])

-----------------------------------------------------------------------------
(* The run.                                                                *)

NoOutput == [structs |-> {}, funs |-> {}, error_map |-> {}]
RecordStructs(entries) == [output EXCEPT ![Module].structs = @ \cup entries]
RecordFuns(entries) == [output EXCEPT ![Module].funs = @ \cup entries]
RecordErrors(entries) == [output EXCEPT ![Module].error_map = entries]

\* The run starts on one of the packages.
Init ==
    /\ \E family \in Families : env \in family
    /\ at = 1 /\ check = "resource_groups"
    /\ errors = {} /\ warnings = {}
    /\ output = [m \in Elements(ModuleIds) |-> NoOutput]
    /\ randomness_caller_cache = [f \in Elements(FunIds) |-> "unknown"]

\* Only primary targets are checked.
Skip ==
    /\ check = "resource_groups" /\ at <= Len(ModuleIds) /\ Module \notin env.primary
    /\ at' = at + 1
    /\ UNCHANGED <<env, check, errors, warnings, output, randomness_caller_cache>>

Step(this, next) ==
    /\ check = this /\ at <= Len(ModuleIds) /\ Module \in env.primary
    /\ check' = next
    /\ at' = IF next = "resource_groups" THEN at + 1 ELSE at
    /\ UNCHANGED env

check_and_record_resource_groups ==
    /\ Step("resource_groups", "members")
    /\ LET scopes == {s \in StructsOf(Module) : get_resource_group(s).scope # "none"}
       IN /\ output' = RecordStructs({<<s, "group", get_resource_group(s).scope>> : s \in scopes})
          /\ errors' = errors \cup {s \in StructsOf(Module) : get_resource_group(s).error}
    /\ UNCHANGED <<warnings, randomness_caller_cache>>

\* Reading the first of no arguments is out of bounds: the run panics and reports nothing.
check_and_record_resource_group_members ==
    LET members == {s \in StructsOf(Module) : IsMember(s)}
        panics == \E s \in members : member_of(s).panics
    IN /\ Step("members", IF panics THEN "panicked" ELSE "view_functions")
       /\ output' = IF panics THEN output
                    ELSE RecordStructs(UNION {{<<s, "member", c>> : c \in member_of(s).groups} : s \in members})
       /\ errors' = errors \cup UNION {member_of(s).errors : s \in members}
       /\ UNCHANGED <<warnings, randomness_caller_cache>>

check_and_record_view_functions ==
    /\ Step("view_functions", "entry_functions")
    /\ LET views == {f \in FunsOf(Module) : has_attribute(f, "view")}
           takes_signer(f) == \E i \in DOMAIN env.fun[f].params :
                                  env.fun[f].params[i] \in {[vectors |-> 0, base |-> b] : b \in {"signer", "&signer"}}
       IN /\ output' = RecordFuns({<<f, "view", <<>> >> : f \in views})
          /\ errors' = errors \cup {f \in views : \/ check_transaction_args(f)
                                                  \/ env.fun[f].returns = 0
                                                  \/ takes_signer(f)}
    /\ UNCHANGED <<warnings, randomness_caller_cache>>

check_entry_functions ==
    /\ Step("entry_functions", "unbiasable")
    /\ LET entries == {f \in FunsOf(Module) : env.fun[f].entry /\ ~has_attribute(f, "legacy_entry_fun")}
       IN /\ errors' = errors \cup {f \in entries : check_transaction_args(f) \/ env.fun[f].returns > 0}
          /\ warnings' = warnings \cup {f \in entries : check_signer_args(f)}
    /\ UNCHANGED <<output, randomness_caller_cache>>

check_and_record_unbiasabale_entry_functions ==
    /\ Step("unbiasable", "randomness")
    /\ LET funs == FunsOf(Module)
           annotated == {f \in funs : get_randomness_max_gas_declaration(f).annotation # {}}
       IN /\ errors' = errors \cup {f \in funs : get_randomness_max_gas_declaration(f).error}
                              \cup {f \in annotated : ~env.fun[f].entry \/ IsPublic(f)}
          /\ output' = RecordFuns(
                UNION {{<<f, "randomness", gas>> : gas \in get_randomness_max_gas_declaration(f).annotation} : f \in annotated})
    /\ UNCHANGED <<warnings, randomness_caller_cache>>

check_unsafe_randomness_usage ==
    /\ Step("randomness", "events")
    /\ errors' = UsagesSeen[Len(FunIds)].errors
    /\ randomness_caller_cache' = UsagesSeen[Len(FunIds)].cache
    /\ UNCHANGED <<warnings, output>>

\* Inline functions are checked where they are expanded.
check_and_record_events ==
    /\ Step("events", "init_module")
    /\ LET funs == {f \in FunsOf(Module) : ~env.fun[f].inline}
           events == {s \in StructsOf(Module) : env.struct[s].event}
       IN /\ output' = RecordStructs({<<s, "event", "">> : s \in events})
          /\ errors' = errors \cup {f \in funs : ~(env.fun[f].emits \subseteq events)}
    /\ UNCHANGED <<warnings, randomness_caller_cache>>

check_init_module ==
    /\ Step("init_module", "error_map")
    /\ LET well_formed(f) == /\ env.fun[f].visibility = "private"
                             /\ Len(env.fun[f].params) = 1 /\ IsSigner(env.fun[f].params[1])
                             /\ env.fun[f].returns = 0 /\ env.fun[f].type_params = 0
       IN errors' = errors \cup {f \in FunsOf(Module) : env.fun[f].init /\ ~well_formed(f)}
    /\ UNCHANGED <<warnings, output, randomness_caller_cache>>

\* Of the constants with the same abort code, one explains it.
build_error_map ==
    /\ Step("error_map", "resource_groups")
    /\ LET named == {c \in Elements(ConstantIds) : /\ env.constant[c].module = Module
                                                   /\ env.constant[c].e_prefix
                                                   /\ env.constant[c].value \in 0 .. MaxU64}
           codes == {env.constant[c].value : c \in named}
       IN IF Module = ErrorModule THEN UNCHANGED output
          ELSE \E explained \in [codes -> named] :
                  /\ \A code \in codes : env.constant[explained[code]].value = code
                  /\ output' = RecordErrors({<<code, explained[code]>> : code \in codes})
    /\ UNCHANGED <<errors, warnings, randomness_caller_cache>>

Checks == \/ check_and_record_resource_groups \/ check_and_record_resource_group_members
          \/ check_and_record_view_functions \/ check_entry_functions
          \/ check_and_record_unbiasabale_entry_functions \/ check_unsafe_randomness_usage
          \/ check_and_record_events \/ check_init_module \/ build_error_map

Next == Skip \/ Checks

ChecksSpec == Init /\ [][Next]_vars

-----------------------------------------------------------------------------
(* Properties.                                                             *)

Done == at > Len(ModuleIds)
Clean == Done /\ errors = {}
IsTarget(f) == env.fun[f].module \in env.primary

\* The functions from which the call graph reaches one of 0x1::randomness: the least set with
\* those that is closed under callers.
RandomnessCallers ==
    LET closed == {S \in SUBSET Elements(FunIds) :
                     /\ RandomnessFuns \subseteq S
                     /\ \A f \in Elements(FunIds) : env.fun[f].calls \cap S # {} => f \in S}
    IN {f \in Elements(FunIds) : \A S \in closed : f \in S}

\* After a clean run every target function that transitively calls randomness is marked, on
\* call graphs with cycles too: an answer cached wrongly below a cycle never hides them all
\* (calls_randomness and its cache, which is shared by all queries of the run).
RandomnessIsGuarded ==
    Clean => \A f \in RandomnessCallers \ RandomnessFuns : IsTarget(f) => Guarded(f)

\* "Any errors during context checking are reported to `env`": a run reports each unmarked
\* caller of randomness.  It does not: one below a cycle stays in the cache as a non-caller.
EveryCallerIsReported ==
    Done => \A f \in RandomnessCallers \ RandomnessFuns : IsTarget(f) /\ ~Guarded(f) => f \in errors

\* "Any errors during context checking are reported to `env`": the run does not panic.  It
\* does, for a member attribute without arguments.
ErrorsAreReported == check # "panicked"

\* After a clean run every struct with the member attribute is recorded with a group of a
\* scope that covers it, and that group is recorded too when its module is a target (two
\* loops over two modules, joined by get_resource_group).
MembersFollowTheirGroup ==
    Clean => \A m \in env.primary : \A s \in StructsOf(m) : IsMember(s) =>
        \E c \in Elements(StructIds), scope \in {"global", "address", "module_"} :
            /\ <<s, "member", c>> \in output[m].structs
            /\ scope = "address" => Address[env.struct[c].module] = Address[m]
            /\ scope = "module_" => env.struct[c].module = m
            /\ env.struct[c].module \in env.primary => <<c, "group", scope>> \in output[env.struct[c].module].structs
            /\ env.struct[c].resource_group[1].value = scope

\* After a clean run no recorded view is also an entry function (but a legacy one) or an
\* initializer: three checks that do not know of each other
\* (check_and_record_view_functions, check_entry_functions, check_init_module).
RolesDoNotMix ==
    Clean => \A m \in env.primary : \A f \in FunsOf(m) : <<f, "view", <<>> >> \in output[m].funs =>
        /\ env.fun[f].entry => has_attribute(f, "legacy_entry_fun")
        /\ ~env.fun[f].init

\* After a clean run everything a target module emits is recorded as an event of that module
\* (the loop over structs that records and the one over bytecode that checks).
EmittedEventsAreRecorded ==
    Clean => \A m \in env.primary : \A f \in FunsOf(m) : ~env.fun[f].inline =>
        \A t \in env.fun[f].emits : <<t, "event", "">> \in output[m].structs

\* After a clean run the functions that reach randomness are guarded, members are recorded with a
\* group that covers them, no view is an entry function or an initializer, and what is emitted is
\* recorded as an event (extended_checks.rs).
ChecksCatchTheUnsafe == RandomnessIsGuarded /\ MembersFollowTheirGroup /\ RolesDoNotMix /\ EmittedEventsAreRecorded

=============================================================================
