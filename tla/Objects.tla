------------------------------ MODULE Objects ------------------------------
(***************************************************************************)
(* Objects, their owners and the references that move them (object.move),   *)
(* over the natives of natives/src/object.rs.  An object may own another,   *)
(* may be locked against its owner's transfers, burnt and reclaimed,        *)
(* deleted, or made untransferable while it is constructed.                 *)
(***************************************************************************)
EXTENDS Naturals, FiniteSets, Sequences

CONSTANTS Accounts, BURN_ADDRESS,
          MAXIMUM_OBJECT_NESTING,   \* 8 in the code
          MaxObjects,               \* bound: objects created
          MaxRefs, MaxLinear        \* bounds: DeleteRefs and TransferRefs, LinearTransferRefs kept at a time

VARIABLES core,            \* ObjectCore by address: [owner, allow_ungated_transfer]
          untransferable,  \* the addresses with Untransferable
          tombs,           \* TombStone by address: the original owner
          constructing,    \* the object whose ConstructorRef is alive: a set of one or none
          refs,            \* the TransferRefs and DeleteRefs kept: [kind, self]
          linear_refs,     \* the LinearTransferRefs kept: [self, owner]
          cache,           \* NativeObjectContext.derived_from_object_addresses
          via              \* how each object came to its owner
object_vars == <<core, untransferable, tombs, constructing, refs, linear_refs, cache, via>>

ASSUME NestingAssumption == MAXIMUM_OBJECT_NESTING \in Nat \ {0}
ASSUME BurnAssumption == BURN_ADDRESS \notin Accounts      \* nobody has its key

Objects == DOMAIN core
Auid(n) == <<"auid", n>>
Derived(source, derive_from) == <<"derived", source, derive_from>>
With(f, x, v) == [y \in DOMAIN f \cup {x} |-> IF y = x THEN v ELSE f[y]]
Without(f, x) == [y \in DOMAIN f \ {x} |-> f[y]]

ObjectsInit ==
  /\ core = <<>> /\ untransferable = {} /\ tombs = <<>> /\ constructing = {}
  /\ refs = {} /\ linear_refs = {} /\ cache = <<>> /\ via = <<>>

---------------------------------------------------------------------------
(* object.rs: the context outlives sessions, and nothing empties the cache. *)

object_exists(object) == object \in Objects

cache_key(source, derive_from) == <<derive_from, source>>

derived_address(source, derive_from) ==
  LET key == cache_key(source, derive_from)
  IN IF key \in DOMAIN cache THEN cache[key] ELSE Derived(source, derive_from)

---------------------------------------------------------------------------
(* Creation.  A ConstructorRef lives for the transaction that creates the object. *)

create_object_internal(owner, object, can_delete) ==
  /\ constructing = {} /\ Cardinality(DOMAIN via) < MaxObjects
  /\ object \notin Objects
  /\ core' = With(core, object, [owner |-> owner, allow_ungated_transfer |-> TRUE])
  /\ constructing' = {[self |-> object, can_delete |-> can_delete]}
  /\ via' = With(via, object, "creation")
  /\ UNCHANGED <<untransferable, tombs, refs, linear_refs>>

create_object(owner, can_delete) ==
  LET used == {o \in DOMAIN via : o[1] = "auid"}      \* an AUID is never generated again
  IN create_object_internal(owner, Auid(Cardinality(used) + 1), can_delete) /\ UNCHANGED cache

create_user_derived_object(creator, derive_from) ==
  LET object == derived_address(creator, derive_from)
  IN /\ create_object_internal(creator, object, FALSE)
     /\ cache' = With(cache, cache_key(creator, derive_from), object)

generate_delete_ref(c) ==
  /\ c.can_delete /\ Cardinality(refs) < MaxRefs
  /\ refs' = refs \cup {[kind |-> "delete", self |-> c.self]}
  /\ UNCHANGED <<core, untransferable, tombs, constructing, linear_refs, cache, via>>
generate_transfer_ref(c) ==
  /\ c.self \notin untransferable /\ Cardinality(refs) < MaxRefs
  /\ refs' = refs \cup {[kind |-> "transfer", self |-> c.self]}
  /\ UNCHANGED <<core, untransferable, tombs, constructing, linear_refs, cache, via>>
set_untransferable(c) ==
  /\ c.self \in Objects /\ c.self \notin untransferable
  /\ core' = [core EXCEPT ![c.self].allow_ungated_transfer = FALSE]
  /\ untransferable' = untransferable \cup {c.self}
  /\ UNCHANGED <<tombs, constructing, refs, linear_refs, cache, via>>
EndConstruction == constructing # {} /\ constructing' = {}
  /\ UNCHANGED <<core, untransferable, tombs, refs, linear_refs, cache, via>>

---------------------------------------------------------------------------
(* Transfers *)

MoveTo(object, to, how) ==
  /\ core' = [core EXCEPT ![object].owner = to]
  /\ via' = [via EXCEPT ![object] = IF core[object].owner = to THEN @ ELSE how]

set_ungated_transfer(r, allow) ==
  /\ r.kind = "transfer" /\ r.self \in Objects
  /\ allow => r.self \notin untransferable
  /\ core' = [core EXCEPT ![r.self].allow_ungated_transfer = allow]
  /\ UNCHANGED <<untransferable, tombs, constructing, refs, linear_refs, cache, via>>
generate_linear_transfer_ref(r) ==
  /\ r.kind = "transfer" /\ r.self \in Objects /\ r.self \notin untransferable
  /\ Cardinality(linear_refs) < MaxLinear
  /\ linear_refs' = linear_refs \cup {[self |-> r.self, owner |-> core[r.self].owner]}
  /\ UNCHANGED <<core, untransferable, tombs, constructing, refs, cache, via>>

\* Mutant: an untransferable object is moved.
accepts_untransferable(l) == l.self \in Objects /\ core[l.self].owner = l.owner
accepts_linear_ref(l) ==
  l.self \in Objects /\ l.self \notin untransferable /\ core[l.self].owner = l.owner
undo_soft_burn(object) == Without(tombs, object)

transfer_with_ref(l, to) ==
  /\ accepts_linear_ref(l)
  /\ tombs' = undo_soft_burn(l.self)
  /\ MoveTo(l.self, to, "ref")
  /\ linear_refs' = linear_refs \ {l}
  /\ UNCHANGED <<untransferable, constructing, refs, cache>>

OwnerAddresses == {core[o].owner : o \in Objects}

\* Every object from the destination up to one the signer owns allows it; the walk is bounded.
verify_ungated_and_descendant(signer, destination) ==
  LET allows(o) == o \in Objects /\ core[o].allow_ungated_transfer
  IN /\ allows(destination)
     /\ \E count \in 0..(MAXIMUM_OBJECT_NESTING - 1) : \E walk \in [0..count -> OwnerAddresses] :
          /\ walk[0] = core[destination].owner /\ walk[count] = signer
          /\ \A n \in 0..(count - 1) : allows(walk[n]) /\ walk[n + 1] = core[walk[n]].owner

transfer_raw(signer, object, to) ==
  /\ verify_ungated_and_descendant(signer, object)
  /\ MoveTo(object, to, "owner")
  /\ UNCHANGED <<untransferable, tombs, constructing, refs, linear_refs, cache>>

---------------------------------------------------------------------------
(* Burning and deletion *)

burn(signer, object) ==
  /\ object_exists(object) /\ core[object].owner = signer
  /\ object \notin DOMAIN tombs
  /\ tombs' = With(tombs, object, signer)
  /\ UNCHANGED <<core, untransferable, constructing, refs, linear_refs, cache, via>>
unburn(signer, object) ==
  /\ object_exists(object) /\ object \in DOMAIN tombs
  /\ \/ core[object].owner = signer /\ UNCHANGED <<core, via>>
     \/ core[object].owner = BURN_ADDRESS /\ tombs[object] = signer /\ MoveTo(object, signer, "unburn")
  /\ tombs' = Without(tombs, object)
  /\ UNCHANGED <<untransferable, constructing, refs, linear_refs, cache>>

delete(r) ==
  /\ r.kind = "delete" /\ r.self \in Objects
  /\ core' = Without(core, r.self) /\ untransferable' = untransferable \ {r.self}
  /\ refs' = refs \ {r}
  /\ UNCHANGED <<tombs, constructing, linear_refs, cache, via>>

Places == Accounts \cup Objects \cup {BURN_ADDRESS}
Construct == \E c \in constructing : generate_delete_ref(c) \/ generate_transfer_ref(c) \/ set_untransferable(c)
UseRef == \E r \in refs :
  delete(r) \/ generate_linear_transfer_ref(r) \/ \E allow \in BOOLEAN : set_ungated_transfer(r, allow)
ObjectsNext ==
  \/ \E a \in Accounts, can_delete \in BOOLEAN : create_object(a, can_delete)
  \/ \E a \in Accounts, o \in Objects : create_user_derived_object(a, o)
  \/ Construct \/ EndConstruction \/ UseRef
  \/ \E l \in linear_refs, to \in Places : transfer_with_ref(l, to)
  \/ \E a \in Accounts, o \in Objects : burn(a, o) \/ unburn(a, o) \/ \E to \in Places : transfer_raw(a, o, to)
ObjectsSpec == ObjectsInit /\ [][ObjectsNext]_object_vars

---------------------------------------------------------------------------
(* Properties *)

\* Once an object is untransferable neither its owners nor references made before move it, until it
\* is deleted (object.move:set_untransferable).
UntransferableStays == \A o \in untransferable :
  o \in DOMAIN core' =>
    /\ o \in untransferable'
    /\ core'[o].owner # core[o].owner => via'[o] = "unburn"

\* "The existence of this renders all `TransferRef`s irrelevant. The object cannot be moved."
\* (object.move:Untransferable)
UntransferableIsNotMoved == \A o \in untransferable :
  o \in DOMAIN core' => core'[o].owner = core[o].owner

\* What owns an object, itself or through others that may be transferred, whatever the depth: the
\* least set with the object and the owner of each of its objects that allow it.
UnlockedOwners(o) ==
  LET Closed(S) == \A p \in S \cap Objects : core[p].allow_ungated_transfer => core[p].owner \in S
      All == Objects \cup OwnerAddresses
  IN {a \in All : \A S \in SUBSET All : o \in S /\ Closed(S) => a \in S}

\* An owner moves an object only through objects that are not locked: one locked on the way, a cycle
\* of owners or a deleted owner keeps what is below from every account
\* (object.move:verify_ungated_and_descendant).
OwnersMoveWhatIsUnlocked == \A o \in Objects \cap DOMAIN core' :
  (core'[o].owner # core[o].owner /\ via'[o] = "owner") => UnlockedOwners(o) \cap Accounts # {}

\* An object that a reference moved to the burn address is not reclaimed by the owner who once burnt
\* it: "we don't want the original owner to be able to reclaim" (object.move:transfer_with_ref).
RefsEndReclaims == \A o \in Objects \cap DOMAIN core' :
  (via[o] = "ref" /\ core[o].owner = BURN_ADDRESS) => via'[o] # "unburn"

\* Caching derived addresses over sessions changes nothing: two users who derive from an object get
\* an object each, and the same one always (object.rs:NativeObjectContext).
CacheIsTransparent ==
  /\ \A a \in Accounts, o \in Objects : derived_address(a, o) = Derived(a, o)
  /\ \A o \in Objects : o[1] = "derived" /\ via[o] = "creation" => core[o].owner = o[2]

\* Objects are moved only by owners through what is unlocked or by references, the untransferable
\* stay, a reference ends the claim of who burnt, and cached addresses are the derived ones
\* (object.move, object.rs).
ObjectsStayWithTheirOwners ==
  []CacheIsTransparent /\ [][UntransferableStays /\ OwnersMoveWhatIsUnlocked /\ RefsEndReclaims]_object_vars
=============================================================================
