------------------------ MODULE PermissionedSigners ------------------------
(***************************************************************************)
(* Permissioned signers (permissioned_signer.move and                      *)
(* natives/src/permissioned_signer.rs) of one account: handles, what was   *)
(* granted to them, the signers made from them and what these are allowed. *)
(*                                                                         *)
(* Signers and plain handles do not outlive a transaction.  A transaction  *)
(* that aborts changes nothing and is not modelled.  Other packages of the *)
(* framework call authorize_increase and consume; they stand for one       *)
(* permission, the permission to revoke for another.                       *)
(***************************************************************************)
EXTENDS Naturals, FiniteSets

CONSTANTS Storages,      \* the unique addresses (generate_auid_address), one per handle
          Capacities,    \* amounts granted and consumed at once
          MaxSignerTime,       \* bound: time
          MaxGranted     \* bound: granted to a handle in all

ASSUME PermissionedSignersAssumption ==
  Capacities \subseteq Nat \ {0} /\ MaxSignerTime \in Nat /\ MaxGranted \in Nat

VARIABLES
  enabled,    \* the feature PERMISSIONED_SIGNER
  perm_now,
  used,       \* addresses given out
  handles,    \* handles that exist
  active,     \* GrantedPermissionHandles of the account
  perms,      \* PermissionStorage at its addresses, or NoStorage
  signers,    \* addresses of the permissioned signers of this transaction
  granted,    \* auxiliary: capacity granted at an address
  consumed    \* auxiliary: capacity consumed at an address

signer_vars == <<enabled, perm_now, used, handles, active, perms, signers, granted, consumed>>

NoStorage == [spend |-> 0, revoke |-> 0, exists |-> FALSE]
EmptyStorage == [spend |-> 0, revoke |-> 0, exists |-> TRUE]
UnlimitedCapacity == MaxGranted + 1

Master == "master"
IsPermissionedSigner(s) == enabled /\ s # Master
Signers == signers \cup {Master}

SignersInit ==
  /\ enabled \in BOOLEAN /\ perm_now = 0
  /\ used = {} /\ handles = {} /\ active = {} /\ signers = {}
  /\ perms = [s \in Storages |-> NoStorage]
  /\ granted = [s \in Storages |-> 0] /\ consumed = [s \in Storages |-> 0]

-----------------------------------------------------------------------------
(* Handles *)

NewStorage(storage) ==
  /\ enabled /\ storage \notin used
  /\ used' = used \cup {storage}
  /\ perms' = [perms EXCEPT ![storage] = EmptyStorage]
  /\ UNCHANGED <<enabled, perm_now, signers, granted, consumed>>

CreatePermissionedHandle(storage) ==
  /\ NewStorage(storage)
  /\ handles' = handles \cup {[storable |-> FALSE, storage |-> storage, expiration |-> MaxSignerTime + 1]}
  /\ UNCHANGED active

CreateStorablePermissionedHandle(storage, expiration) ==
  /\ perm_now < expiration
  /\ NewStorage(storage)
  /\ handles' = handles \cup {[storable |-> TRUE, storage |-> storage, expiration |-> expiration]}
  /\ active' = active \cup {storage}

DestroyPermissionsStorageAddress(S) ==
  perms' = [s \in Storages |-> IF s \in S THEN NoStorage ELSE perms[s]]

DestroyPermissionedHandle(handle) ==
  /\ enabled /\ ~ handle.storable
  /\ handles' = handles \ {handle}
  /\ DestroyPermissionsStorageAddress({handle.storage})
  /\ UNCHANGED <<enabled, perm_now, used, active, signers, granted, consumed>>

DestroyStorablePermissionedHandle(handle) ==
  /\ handle.storable
  /\ handles' = handles \ {handle}
  /\ active' = active \ {handle.storage}
  /\ DestroyPermissionsStorageAddress({handle.storage})
  /\ UNCHANGED <<enabled, perm_now, used, signers, granted, consumed>>

\* check_permission_exists: a capacity of at least one, or unlimited; a signer without storage aborts
MayRevoke(s) == IsPermissionedSigner(s) => perms[s].exists /\ perms[s].revoke >= 1

RevokePermissionStorageAddress(s, storage) ==
  /\ enabled /\ MayRevoke(s) /\ storage \in active
  /\ active' = active \ {storage}
  /\ DestroyPermissionsStorageAddress({storage})
  /\ UNCHANGED <<enabled, perm_now, used, handles, signers, granted, consumed>>

RevokeAllHandles(s) ==
  /\ enabled /\ MayRevoke(s)
  /\ active' = {}
  /\ DestroyPermissionsStorageAddress(active)
  /\ UNCHANGED <<enabled, perm_now, used, handles, signers, granted, consumed>>

-----------------------------------------------------------------------------
(* Signers *)

SignerFromHandle(handle) ==
  /\ enabled
  /\ handle.storable => perm_now < handle.expiration /\ perms[handle.storage].exists
  /\ signers' = signers \cup {handle.storage}
  /\ UNCHANGED <<enabled, perm_now, used, handles, active, perms, granted, consumed>>

\* authorize_increase by the master signer
Authorize(s, capacity) ==
  /\ IsPermissionedSigner(s) /\ perms[s].exists
  /\ granted[s] + capacity <= MaxGranted
  /\ perms' = [perms EXCEPT ![s].spend = @ + capacity]
  /\ granted' = [granted EXCEPT ![s] = @ + capacity]
  /\ UNCHANGED <<enabled, perm_now, used, handles, active, signers, consumed>>

\* authorize_unlimited, which grant_revoke_permission calls
GrantRevokePermission(s) ==
  /\ IsPermissionedSigner(s) /\ perms[s].exists
  /\ perms' = [perms EXCEPT ![s].revoke = UnlimitedCapacity]
  /\ UNCHANGED <<enabled, perm_now, used, handles, active, signers, granted, consumed>>

\* revoke_permission: what is left is taken back
RevokePermission(s) ==
  /\ IsPermissionedSigner(s) /\ perms[s].exists
  /\ granted' = [granted EXCEPT ![s] = @ - perms[s].spend]
  /\ perms' = [perms EXCEPT ![s].spend = 0]
  /\ UNCHANGED <<enabled, perm_now, used, handles, active, signers, consumed>>

\* Mutant: the capacity is compared and not reduced.
CheckCapacityAbove(s, capacity) ==
  /\ IsPermissionedSigner(s) /\ perms[s].exists /\ perms[s].spend >= capacity
  /\ consumed' = [consumed EXCEPT ![s] = IF @ > MaxGranted THEN @ ELSE @ + capacity]
  /\ UNCHANGED <<enabled, perm_now, used, handles, active, perms, signers, granted>>

\* check_permission_consume that answers yes; the master signer may always
CheckPermissionConsume(s, capacity) ==
  /\ IsPermissionedSigner(s) /\ perms[s].exists /\ perms[s].spend >= capacity
  /\ perms' = [perms EXCEPT ![s].spend = @ - capacity]
  /\ consumed' = [consumed EXCEPT ![s] = @ + capacity]
  /\ UNCHANGED <<enabled, perm_now, used, handles, active, signers, granted>>

\* A transaction ends, time passes and governance may have switched the feature.
EndTransaction ==
  /\ \A h \in handles : h.storable
  /\ signers' = {}
  /\ perm_now' \in {perm_now} \cup (IF perm_now < MaxSignerTime THEN {perm_now + 1} ELSE {})
  /\ enabled' \in BOOLEAN
  /\ UNCHANGED <<used, handles, active, perms, granted, consumed>>

SignersNext ==
  \/ \E storage \in Storages : CreatePermissionedHandle(storage)
  \/ \E storage \in Storages, t \in 1 .. MaxSignerTime : CreateStorablePermissionedHandle(storage, t)
  \/ \E h \in handles :
       DestroyPermissionedHandle(h) \/ DestroyStorablePermissionedHandle(h) \/ SignerFromHandle(h)
  \/ \E s \in Signers :
       RevokeAllHandles(s) \/ \E storage \in Storages : RevokePermissionStorageAddress(s, storage)
  \/ \E s \in signers : \/ GrantRevokePermission(s) \/ RevokePermission(s)
                        \/ \E c \in Capacities : Authorize(s, c) \/ CheckPermissionConsume(s, c)
  \/ EndTransaction

SignersSpec == SignersInit /\ [][SignersNext]_signer_vars

-----------------------------------------------------------------------------
(* Properties *)

\* A permissioned signer spends what was granted to its handle and not taken back, over all the
\* signers ever made from it: nothing is spent twice or after a revocation (consume_capacity).
SpendingIsGranted ==
  \A s \in Storages : /\ consumed[s] <= granted[s]
                      /\ perms[s].exists => granted[s] = consumed[s] + perms[s].spend

\* The account's list of active handles is that of its storable handles that still have permissions,
\* and no permissions outlive their handle (revoke_..., destroy_...).
ActiveHandlesAreLive ==
  /\ active = {h.storage : h \in {k \in handles : k.storable /\ perms[k.storage].exists}}
  /\ \A s \in Storages : perms[s].exists => \E h \in handles : h.storage = s

\* Every permissioned signer of the running transaction was made from a handle that had not expired,
\* and a handle whose permissions are gone never gets new ones.
SignersAreFresh ==
  /\ \A s \in signers' \ signers : \A h \in handles :
       h.storage = s /\ h.storable => perm_now < h.expiration /\ perms[s].exists
  /\ \A s \in used : ~ perms[s].exists => ~ perms'[s].exists

\* What permissioned signers spend was granted to their handles, which are listed while they have
\* permissions and never get them again (permissioned_signer.move, permissioned_signer.rs).
PermissionsAreWhatWasGranted ==
  [](SpendingIsGranted /\ ActiveHandlesAreLive) /\ [][SignersAreFresh]_signer_vars
=============================================================================
