-------------------------- MODULE Reconfiguration --------------------------
(***************************************************************************)
(* aptos-framework/sources: reconfiguration_with_dkg.move and the modules  *)
(* it drives (reconfiguration.move, reconfiguration_state.move, dkg.move,  *)
(* chunky_dkg.move, decryption.move, configs/config_buffer.move), entered  *)
(* from the block prologues of block.move, from topo_governance.move and   *)
(* from the results the validators publish.                                *)
(*                                                                         *)
(* One action is one call.  Abstractions.                                  *)
(*  - The timestamp and last_reconfiguration_time enter the code only by   *)
(*    their difference, which is `elapsed`, up to EpochInterval.           *)
(*  - A DKG session is the epoch of its dealers, 0 for none.  The validator*)
(*    sets it names are in module Stake (dkg_target).                      *)
(*  - config.randomness is validator_txn_enabled() && randomness_config    *)
(*    enabled(), which the code only reads together; the configs without   *)
(*    a part in the protocol are left out.  config.key is the epoch of     *)
(*    PerEpochEncryptionKey, 0 for none.                                   *)
(*  - External: validators call the block prologue that fits the config,   *)
(*    publish a result only for a session of their own epoch, and end a    *)
(*    block after the transaction that changed the epoch                   *)
(*    (reconfiguration.move:124).                                          *)
(*  - The calls abort nowhere else: stake::on_new_epoch is module Stake.   *)
(* MaxEpoch is a bound.                                                    *)
(***************************************************************************)
EXTENDS Integers

CONSTANTS
  EpochInterval,  \* epoch_interval
  Emergency,      \* validators may override randomness locally, and governance
                  \* may end the epoch at once
  MaxEpoch

ASSUME ReconfigurationAssumption ==
  /\ EpochInterval \in Nat \ {0}
  /\ Emergency \in BOOLEAN
  /\ MaxEpoch \in Nat

VARIABLES
  epoch, elapsed,   \* Configuration: epoch; now - last_reconfiguration_time
  in_progress,      \* reconfiguration_state is StateActive
  dkg, chunky_dkg,  \* DKGState and ChunkyDKGState
  config,           \* the on-chain configs
  pending           \* PendingConfigs: a function on the names of buffered configs

vars == <<epoch, elapsed, in_progress, dkg, chunky_dkg, config, pending>>

NoConfigs == [name \in {} |-> 0]

\* config_buffer::upsert
Upserted(buffer, name, value) ==
  [n \in DOMAIN buffer \cup {name} |-> IF n = name THEN value ELSE buffer[n]]

\* X::on_new_epoch of every config X: does_exist and extract_v2
Applied(buffer) ==
  [randomness |-> IF "randomness" \in DOMAIN buffer THEN buffer["randomness"]
                                                    ELSE config.randomness,
   chunky |-> IF "chunky" \in DOMAIN buffer THEN buffer["chunky"] ELSE config.chunky,
   key |-> IF "key" \in DOMAIN buffer THEN buffer["key"] ELSE config.key]

\* Transactions run in a block whose time is not the last reconfiguration's.
BlockRuns == elapsed > 0

\* The script that changed the epoch may go on with further calls.
ScriptRuns == BlockRuns \/ epoch > 1

Started(session) == [session EXCEPT !.in_progress = epoch]

Completed(session) == [in_progress |-> 0, last_completed |-> session.in_progress]

Cleared(session) == [session EXCEPT !.in_progress = 0]

-----------------------------------------------------------------------------
(* The calls the handlers are made of *)

\* Mutant: without on_reconfig_finish.
ReconfigureUnfinished(age) ==
  IF age = 0
  THEN UNCHANGED <<epoch, in_progress>> /\ elapsed' = age
  ELSE /\ epoch < MaxEpoch
       /\ epoch' = epoch + 1
       /\ elapsed' = 0
       /\ UNCHANGED in_progress

\* reconfiguration::reconfigure, `age` after the last one; the caller decides about
\* sessions and configs.
Reconfigure(age) ==
  IF age = 0
  THEN UNCHANGED <<epoch, in_progress>> /\ elapsed' = age
  ELSE /\ epoch < MaxEpoch
       /\ epoch' = epoch + 1
       /\ elapsed' = 0
       /\ in_progress' = FALSE

\* try_start
TryStart(age) ==
  /\ IF dkg.in_progress = epoch
     THEN UNCHANGED <<in_progress, dkg>>
     ELSE in_progress' = TRUE /\ dkg' = Started(dkg)
  /\ elapsed' = age
  /\ UNCHANGED <<epoch, chunky_dkg, config, pending>>

TryStartWithChunkyDkg(age) ==
  /\ IF in_progress
     THEN UNCHANGED <<in_progress, dkg, chunky_dkg>>
     ELSE /\ in_progress' = TRUE
          /\ dkg' = Started(dkg)
          /\ chunky_dkg' = Started(chunky_dkg)
  /\ elapsed' = age
  /\ UNCHANGED <<epoch, config, pending>>

\* What finish does beside clearing the sessions.
ApplyAndReconfigure(buffer) ==
  /\ config' = Applied(buffer)
  /\ pending' = NoConfigs
  /\ Reconfigure(elapsed)

Finish ==
  /\ dkg' = Cleared(dkg)
  /\ chunky_dkg' = Cleared(chunky_dkg)
  /\ ApplyAndReconfigure(pending)

-----------------------------------------------------------------------------
(* The block prologues; a NIL block has the time of its parent *)

Ages == {elapsed, IF elapsed < EpochInterval THEN elapsed + 1 ELSE elapsed}

\* The epoch has not timed out: the prologue only sets the time.
JustABlock(age) ==
  /\ age < EpochInterval
  /\ elapsed' = age
  /\ UNCHANGED <<epoch, in_progress, dkg, chunky_dkg, config, pending>>

\* block_prologue, of validators that have no randomness or override it
BlockPrologue(age) ==
  /\ ~config.randomness \/ Emergency
  /\ \/ JustABlock(age)
     \/ /\ age >= EpochInterval
        /\ Reconfigure(age)
        /\ UNCHANGED <<dkg, chunky_dkg, config, pending>>

BlockPrologueExt(age) ==
  /\ config.randomness /\ ~config.chunky
  /\ \/ JustABlock(age)
     \/ age >= EpochInterval /\ TryStart(age)

BlockPrologueExtV2(age) ==
  /\ config.randomness /\ config.chunky
  /\ \/ JustABlock(age)
     \/ age >= EpochInterval /\ TryStartWithChunkyDkg(age)

-----------------------------------------------------------------------------
(* The results of the validators *)

\* Mutant: maybe_finish_reconfig_with_chunky_dkg that forgets the other session.
NothingElseAwaitedEver(other) == in_progress

\* maybe_finish_reconfig_with_chunky_dkg, once this session is complete
NothingElseAwaited(other) == in_progress /\ other.in_progress = 0

FinishWithDkgResult ==
  /\ BlockRuns
  /\ dkg.in_progress = epoch
  /\ dkg' = Completed(dkg)
  /\ IF config.chunky => NothingElseAwaited(chunky_dkg)
     THEN chunky_dkg' = Cleared(chunky_dkg) /\ ApplyAndReconfigure(pending)
     ELSE UNCHANGED <<epoch, elapsed, in_progress, chunky_dkg, config, pending>>

KeyEpoch == epoch + 1

\* A no-op unless Chunky DKG is enabled.
FinishWithChunkyDkgResult ==
  LET buffer == Upserted(pending, "key", KeyEpoch)
  IN /\ BlockRuns
     /\ config.chunky
     /\ chunky_dkg.in_progress = epoch
     /\ chunky_dkg' = Completed(chunky_dkg)
     /\ IF NothingElseAwaited(dkg)
        THEN dkg' = Cleared(dkg) /\ ApplyAndReconfigure(buffer)
        ELSE /\ pending' = buffer
             /\ UNCHANGED <<epoch, elapsed, in_progress, dkg, config>>

-----------------------------------------------------------------------------
(* Governance *)

\* Mutant: a setter that writes the config itself.
SetForNextEpochAtOnce(name, value) ==
  /\ ScriptRuns
  /\ config' = [config EXCEPT ![name] = value]
  /\ UNCHANGED <<epoch, elapsed, in_progress, dkg, chunky_dkg, pending>>

\* set_for_next_epoch of randomness_config and chunky_dkg_config
SetForNextEpoch(name, value) ==
  /\ ScriptRuns
  /\ pending' = Upserted(pending, name, value)
  /\ UNCHANGED <<epoch, elapsed, in_progress, dkg, chunky_dkg, config>>

\* topo_governance::reconfigure
GovernanceReconfigure ==
  /\ ScriptRuns
  /\ \/ config.randomness /\ config.chunky /\ TryStartWithChunkyDkg(elapsed)
     \/ config.randomness /\ ~config.chunky /\ TryStart(elapsed)
     \/ ~config.randomness /\ Finish

\* topo_governance::force_end_epoch, not in a script that changed the epoch before
ForceEndEpoch ==
  /\ Emergency
  /\ BlockRuns
  /\ Finish

\* gas_schedule::set_storage_gas_config reconfigures at once, without a DKG.
SetStorageGasConfig ==
  /\ Emergency
  /\ BlockRuns
  /\ Reconfigure(elapsed)
  /\ UNCHANGED <<dkg, chunky_dkg, config, pending>>

-----------------------------------------------------------------------------
NoSession == [in_progress |-> 0, last_completed |-> 0]

Init ==
  /\ epoch = 1
  /\ elapsed = 0
  /\ in_progress = FALSE
  /\ dkg = NoSession
  /\ chunky_dkg = NoSession
  /\ config \in [randomness : BOOLEAN, chunky : BOOLEAN, key : {0}]
  /\ pending = NoConfigs

Block ==
  \E age \in Ages : BlockPrologue(age) \/ BlockPrologueExt(age) \/ BlockPrologueExtV2(age)

Next ==
  \/ Block
  \/ FinishWithDkgResult
  \/ FinishWithChunkyDkgResult
  \/ \E name \in {"randomness", "chunky"}, value \in BOOLEAN : SetForNextEpoch(name, value)
  \/ GovernanceReconfigure
  \/ ForceEndEpoch
  \/ SetStorageGasConfig

Spec == Init /\ [][Next]_vars

\* Blocks keep coming and their time passes, and the validators of an epoch finish
\* the sessions they deal.
NewBlock == Block /\ (elapsed' # elapsed \/ in_progress' # in_progress)

FairSpec ==
  /\ Spec
  /\ WF_vars(NewBlock)
  /\ WF_vars(FinishWithDkgResult)
  /\ WF_vars(FinishWithChunkyDkgResult)

-----------------------------------------------------------------------------
(* Properties *)

SessionType == [in_progress : 0..epoch, last_completed : 0..epoch]

ConfigType == [randomness : BOOLEAN, chunky : BOOLEAN, key : Nat]

BufferOK(buffer) ==
  /\ DOMAIN buffer \subseteq {"randomness", "chunky", "key"}
  /\ "randomness" \in DOMAIN buffer => buffer["randomness"] \in BOOLEAN
  /\ "chunky" \in DOMAIN buffer => buffer["chunky"] \in BOOLEAN
  /\ "key" \in DOMAIN buffer => buffer["key"] \in Nat

\* Every variable keeps its type; no session is dealt or completed ahead of its epoch.
TypeOK ==
  /\ epoch \in Nat \ {0}
  /\ elapsed \in 0..EpochInterval
  /\ in_progress \in BOOLEAN
  /\ dkg \in SessionType
  /\ chunky_dkg \in SessionType
  /\ config \in ConfigType
  /\ BufferOK(pending)

DkgOutstanding == dkg.in_progress = epoch
ChunkyDkgOutstanding == config.chunky /\ chunky_dkg.in_progress = epoch

\* A started reconfiguration can finish, whatever emergencies came before: it waits for a
\* result of this epoch's own validators, never for nobody (try_start_with_chunky_dkg
\* would not start again).  Both results published in either order leave no such state.
ReconfigurationCanFinish == in_progress => DkgOutstanding \/ ChunkyDkgOutstanding

\* The buffered encryption key is the one the epoch under way has derived for the next.
BufferedKeyIsForNextEpoch ==
  "key" \in DOMAIN pending =>
    /\ pending["key"] = epoch + 1
    /\ chunky_dkg.last_completed = epoch

\* An epoch with randomness is left only when its DKG is complete and, with Chunky DKG, when
\* that is complete too and the key it derived is the one installed.
EpochEndsWithItsResults ==
  epoch' # epoch /\ config.randomness =>
    /\ dkg'.last_completed = epoch
    /\ config.chunky => chunky_dkg'.last_completed = epoch /\ config'.key = epoch'

\* No session is dealt twice in an epoch: what block prologues and governance start again
\* and again never restarts a DKG that is under way or complete.
EpochDealsOnce ==
  epoch' = epoch =>
    /\ dkg.last_completed = epoch => dkg'.in_progress # epoch
    /\ chunky_dkg.last_completed = epoch => chunky_dkg'.in_progress # epoch

\* On-chain configs change only with the epoch, or in the rest of the script that changed it:
\* the flags that decide which protocol runs and who finishes it hold still in every block
\* and while a reconfiguration is in progress.
ConfigChangesWithEpoch ==
  [][config' # config => epoch' # epoch \/ (elapsed = 0 /\ ~in_progress)]_vars

\* Buffered configs "are applied whenever we enter an new epoch" (topo_governance.move:662).
BufferIsAppliedWithEveryEpoch == [][epoch' # epoch => pending' = NoConfigs]_vars

\* With blocks coming and the validators dealing, epoch follows epoch, in whatever order
\* the two results and governance's calls come.
EpochsFollow == <>(epoch = MaxEpoch)

Awaited ==
  {protocol \in {"dkg", "chunky_dkg"} :
     \/ protocol = "dkg" /\ DkgOutstanding
     \/ protocol = "chunky_dkg" /\ ChunkyDkgOutstanding}

Enabled ==
  {protocol \in {"dkg", "chunky_dkg"} :
     config.randomness /\ (protocol = "chunky_dkg" => config.chunky)}

EC == INSTANCE EpochChange
        WITH Protocols <- {"dkg", "chunky_dkg"}, enabled <- Enabled, awaited <- Awaited

\* Reconfiguration implements the epoch change its callers rely on.
EpochChangeSpec == EC!Spec
EpochChangeStep == [EC!Next]_(EC!vars)
=============================================================================
