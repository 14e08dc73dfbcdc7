-------------------------- MODULE FunctionDispatch --------------------------
(***************************************************************************)
(* Dispatch to functions named by data: a fungible asset registers its     *)
(* withdraw, deposit and derived-balance hooks, an account its             *)
(* authenticators, governance the derivable authenticators, and natives of *)
(* the framework jump to them (natives/src/function_info.rs,               *)
(* dispatchable_fungible_asset.rs and account_abstraction.rs with their    *)
(* Move modules).  Types are checked once, at registration, and those of   *)
(* derivable authenticators never; modules are upgraded afterwards, and a  *)
(* module must have been charged for in the transaction that runs it.      *)
(*                                                                         *)
(* Each module has one function that matters; a function is what the check *)
(* compares of it.  Transactions run one after the other and keep nothing  *)
(* when they abort.  What the virtual machine checks when it jumps is      *)
(* external and nothing is assumed of it.                                  *)
(***************************************************************************)
EXTENDS Naturals, Sequences, FiniteSets

CONSTANTS Modules,      \* the modules a function may be named in
          Special,      \* those at special addresses
          HomeModule,   \* the module of each dispatching native
          TargetFunctions,   \* the functions a module may have
          NoTarget

Hooks == {"withdraw", "deposit", "balance"}

ASSUME FunctionDispatchAssumption ==
    /\ TargetFunctions \subseteq [params : Seq(STRING), returns : STRING, abilities : STRING,
                                  public : BOOLEAN, native : BOOLEAN]
    /\ NoTarget \notin TargetFunctions

VARIABLES chain,        \* the function of each published module, NoTarget before
          abstractions, \* the feature flags that are on: accounts abstracted by themselves, or derived
          hooks,        \* DispatchFunctionStore of the asset: NoTarget or a target for each hook
          authenticators,   \* DispatchableAuthenticator of the account
          derivable,    \* DerivableDispatchableAuthenticator of the framework
          running,      \* a transaction runs
          visited,      \* its traversal context
          saved,        \* what was registered at its start, nothing outside of one
          dispatched,   \* the last dispatch the transaction tried, NoTarget before
          aborted       \* why the last transaction aborted, "no" if it did not

registered == <<hooks, authenticators, derivable>>
dispatch_vars == <<chain, abstractions, registered, running, visited, saved, dispatched, aborted>>

\* The native of each dispatcher, without the &FunctionInfo that ends its parameters.
Native(d) ==
    CASE d = "withdraw" -> [params |-> <<"store", "u64", "&ref", "&info">>, returns |-> "asset", abilities |-> "key"]
      [] d = "deposit" -> [params |-> <<"store", "asset", "&ref", "&info">>, returns |-> "nothing", abilities |-> "key"]
      [] d = "balance" -> [params |-> <<"store", "&info">>, returns |-> "u64", abilities |-> "key"]
      [] d = "authenticate" -> [params |-> <<"signer", "data", "&info">>, returns |-> "signer", abilities |-> "none"]

Published(m) == chain[m] # NoTarget

\* The type of a dispatcher's target.
HasType(d, f) ==
    /\ f.abilities = Native(d).abilities
    /\ f.returns = Native(d).returns
    /\ f.params = SubSeq(Native(d).params, 1, Len(Native(d).params) - 1)

-----------------------------------------------------------------------------
(* The natives.                                                            *)

\* Whether a module counts as loaded and charged when its function's type is checked.
check_visited(m, seen) == m \in seen \/ (abstractions # {} /\ m \in Special)

\* The same question, asked again by the dispatching natives.
CountsAsLoaded(d, m, seen) ==
    m \in seen \/ ((d \notin Hooks \/ abstractions # {}) /\ m \in Special)

\* Loading charges for the module; special addresses are not recorded.
native_load_function_impl(m, seen) == seen \cup ({m} \ Special)

\* Mutant: the target need not be public.
private_targets_fit(d, m) == HasType(d, chain[m]) /\ ~chain[m].native /\ HomeModule[d] # m

native_check_dispatch_type_compatibility_impl(d, m) ==
    HasType(d, chain[m]) /\ chain[m].public /\ ~chain[m].native /\ HomeModule[d] # m

\* check_dispatch_type_compatibility of a target, with the modules visited by then.
MayRegister(d, m, seen) ==
    /\ Published(m)
    /\ check_visited(m, native_load_function_impl(m, seen))
    /\ native_check_dispatch_type_compatibility_impl(d, m)

-----------------------------------------------------------------------------
(* Transactions.                                                           *)

NothingRegistered == [hooks |-> NoTarget, authenticators |-> {}, derivable |-> {}]

DispatchInit ==
    /\ chain = [m \in Modules |-> NoTarget]
    /\ abstractions \in SUBSET {"account", "derived"}
    /\ hooks = NoTarget /\ authenticators = {} /\ derivable = {}
    /\ running = FALSE /\ visited = {}
    /\ saved = NothingRegistered
    /\ dispatched = NoTarget /\ aborted = "no"

\* Modules are published and upgraded by transactions of their own; a public function keeps
\* its type and stays public.
Publish(m, f) ==
    /\ ~running /\ (f.native => m \in Special)
    /\ Published(m) /\ chain[m].public => f = chain[m]
    /\ chain' = [chain EXCEPT ![m] = f]
    /\ dispatched' = NoTarget /\ aborted' = "no"
    /\ UNCHANGED <<abstractions, registered, running, visited, saved>>

SetFeatures(flags) ==
    /\ ~running
    /\ abstractions' = flags
    /\ dispatched' = NoTarget /\ aborted' = "no"
    /\ UNCHANGED <<chain, registered, running, visited, saved>>

\* The modules of the called function and its dependencies have been visited.
StartTransaction(loaded) ==
    /\ ~running /\ running' = TRUE
    /\ \A m \in loaded : Published(m)
    /\ visited' = loaded \ Special
    /\ saved' = [hooks |-> hooks, authenticators |-> authenticators, derivable |-> derivable]
    /\ dispatched' = NoTarget /\ aborted' = "no"
    /\ UNCHANGED <<chain, abstractions, registered>>

FinishTransaction ==
    /\ running /\ running' = FALSE
    /\ visited' = {} /\ saved' = NothingRegistered /\ dispatched' = NoTarget
    /\ UNCHANGED <<chain, abstractions, registered, aborted>>

\* An abort, at a dispatch if there is an attempt.
AbortTransaction(why, attempt) ==
    /\ running' = FALSE /\ visited' = {}
    /\ hooks' = saved.hooks /\ authenticators' = saved.authenticators /\ derivable' = saved.derivable
    /\ saved' = NothingRegistered /\ dispatched' = attempt /\ aborted' = why
    /\ UNCHANGED <<chain, abstractions>>

\* register_dispatch_functions: each hook that is given is checked, and an asset registers once.
register_dispatch_functions(given) ==
    LET targets == {given[d] : d \in Hooks} \ {NoTarget}
        compatible == \A d \in Hooks : given[d] # NoTarget => MayRegister(d, given[d], visited)
    IN /\ running
       /\ IF compatible /\ hooks = NoTarget
          THEN /\ hooks' = given
               /\ visited' = visited \cup (targets \ Special)
               /\ UNCHANGED <<chain, abstractions, authenticators, derivable, running, saved, dispatched, aborted>>
          ELSE AbortTransaction("registration", NoTarget)

\* Adding and removing an authenticator both check its type; only adding asks for the feature
\* (add_authentication_function).
update_dispatchable_authenticator_impl(m, is_add) ==
    /\ running
    /\ IF /\ is_add => "account" \in abstractions
          /\ MayRegister("authenticate", m, visited)
          /\ is_add <=> m \notin authenticators
       THEN /\ authenticators' = IF is_add THEN authenticators \cup {m} ELSE authenticators \ {m}
            /\ visited' = native_load_function_impl(m, visited)
            /\ UNCHANGED <<chain, abstractions, hooks, derivable, running, saved, dispatched, aborted>>
       ELSE AbortTransaction("registration", NoTarget)

\* All authenticators of the account go, unchecked.
remove_authenticator ==
    /\ running /\ authenticators' = {}
    /\ UNCHANGED <<chain, abstractions, hooks, derivable, running, visited, saved, dispatched, aborted>>

\* Governance registers any name, once: nothing is loaded or checked.
register_derivable_authentication_function(m) ==
    /\ running
    /\ IF "derived" \in abstractions /\ m \notin derivable
       THEN /\ derivable' = derivable \cup {m}
            /\ UNCHANGED <<chain, abstractions, hooks, authenticators, running, visited, saved, dispatched, aborted>>
       ELSE AbortTransaction("registration", NoTarget)

\* Loading the target, which must exist, and native_dispatch, which jumps to it if it counts as loaded.
Dispatch(d, m) ==
    LET seen == native_load_function_impl(m, visited)
        attempt == [by |-> d, target |-> m]
    IN \/ /\ Published(m) /\ CountsAsLoaded(d, m, seen)
          /\ visited' = seen /\ dispatched' = attempt
          /\ UNCHANGED <<chain, abstractions, registered, running, saved, aborted>>
       \/ Published(m) /\ ~CountsAsLoaded(d, m, seen) /\ AbortTransaction("not loaded", attempt)
       \/ ~Published(m) /\ AbortTransaction("not published", attempt)

\* withdraw, deposit and derived_balance: load the module, then call the native; without a hook
\* the framework's own function runs.
hooked(d) ==
    /\ running /\ hooks # NoTarget /\ hooks[d] # NoTarget
    /\ Dispatch(d, hooks[d])

\* Whether the account authenticates through m: one that added m, or one whose address is
\* derived from m and a key (is_derivable).
Authenticates(is_derivable, m) ==
    IF is_derivable THEN "derived" \in abstractions /\ m \in derivable
                    ELSE "account" \in abstractions /\ m \in authenticators

authenticate(is_derivable, m) ==
    /\ running
    /\ IF Authenticates(is_derivable, m)
       THEN Dispatch(IF is_derivable THEN "derivable" ELSE "authenticate", m)
       ELSE AbortTransaction("authenticator", NoTarget)

DispatchNext ==
    \/ \E m \in Modules, f \in TargetFunctions : Publish(m, f)
    \/ \E flags \in SUBSET {"account", "derived"} : SetFeatures(flags)
    \/ \E loaded \in SUBSET Modules : StartTransaction(loaded)
    \/ FinishTransaction
    \/ \E given \in [Hooks -> Modules \cup {NoTarget}] : register_dispatch_functions(given)
    \/ \E m \in Modules, is_add \in BOOLEAN : update_dispatchable_authenticator_impl(m, is_add)
    \/ remove_authenticator
    \/ \E m \in Modules : register_derivable_authentication_function(m)
    \/ \E d \in Hooks : hooked(d)
    \/ \E m \in Modules, is_derivable \in BOOLEAN : authenticate(is_derivable, m)

DispatchSpec == DispatchInit /\ [][DispatchNext]_dispatch_vars

-----------------------------------------------------------------------------
(* Properties.                                                             *)

Registrations ==
    [hooks : [Hooks -> Modules \cup {NoTarget}] \cup {NoTarget}, authenticators : SUBSET Modules,
     derivable : SUBSET Modules]

DispatchTypeOK ==
    /\ chain \in [Modules -> TargetFunctions \cup {NoTarget}]
    /\ abstractions \subseteq {"account", "derived"} /\ running \in BOOLEAN
    /\ [hooks |-> hooks, authenticators |-> authenticators, derivable |-> derivable] \in Registrations
    /\ saved \in Registrations
    /\ visited \subseteq Modules \ Special
    /\ dispatched \in [by : Hooks \cup {"authenticate", "derivable"}, target : Modules] \cup {NoTarget}
    /\ aborted \in {"no", "registration", "not loaded", "not published", "authenticator"}

\* A dispatch through a hook or an account's own authenticator finds the type its native promises
\* the caller and a public Move function of another module, although the type was only checked at
\* registration and the module may have been upgraded since
\* (native_check_dispatch_type_compatibility_impl).  A derivable authenticator was never checked.
DispatchedAsChecked ==
    running /\ dispatched # NoTarget /\ dispatched.by # "derivable" =>
        LET f == chain[dispatched.target]
        IN HasType(dispatched.by, f) /\ f.public /\ ~f.native /\ HomeModule[dispatched.by] # dispatched.target

\* What was registered stays usable: a dispatch never finds its module missing from the traversal
\* context, but for a hook at a special address with both account abstraction flags off, and never
\* finds it unpublished, but for a derivable authenticator (native_dispatch, after
\* load_module_from_function).
RegisteredTargetsDispatch ==
    /\ aborted = "not loaded" =>
          abstractions = {} /\ dispatched.by \in Hooks /\ dispatched.target \in Special
    /\ aborted = "not published" => dispatched.by = "derivable"

\* What was added can be removed: the check that removal repeats does not fail for a registered
\* authenticator, whatever was upgraded or called since, unless it is at a special address and the
\* flags were turned off (update_dispatchable_authenticator_impl).
RemovableWhenAdded ==
    running => \A m \in authenticators :
        abstractions # {} \/ m \notin Special => MayRegister("authenticate", m, visited)

\* A hook or authenticator that is called has the type it was checked for although its module may have
\* been upgraded since, and stays callable and removable; what was registered unchecked is only
\* called when its module exists (dispatchable_fungible_asset.rs, function_info.rs).
DispatchIsChecked == DispatchTypeOK /\ DispatchedAsChecked /\ RegisteredTargetsDispatch /\ RemovableWhenAdded
=============================================================================
