----------------------- MODULE ReconfigurationProofs -----------------------
(***************************************************************************)
(* A started reconfiguration can always finish, and Reconfiguration        *)
(* implements EpochChange, for every epoch interval, with and without      *)
(* emergencies; without them an epoch ends with its own results.           *)
(***************************************************************************)
EXTENDS Reconfiguration, TLAPS

\* A session of this epoch means a reconfiguration in progress.
SessionsAreInProgress ==
  (dkg.in_progress = epoch \/ chunky_dkg.in_progress = epoch) => in_progress

\* While one is in progress, randomness is on and the sessions that count are of this
\* epoch: what an emergency left of an older one has been overwritten.
SessionsAreCurrent ==
  in_progress =>
    /\ config.randomness
    /\ dkg.in_progress \in {0, epoch}
    /\ config.chunky => chunky_dkg.in_progress \in {0, epoch}

IInv ==
  /\ TypeOK
  /\ SessionsAreInProgress
  /\ SessionsAreCurrent
  /\ ReconfigurationCanFinish

-----------------------------------------------------------------------------
LEMMA InitIInv == Init => IInv
<1> SUFFICES ASSUME Init
             PROVE  IInv
  OBVIOUS
<1>1. epoch \in Nat \ {0} /\ elapsed \in 0..EpochInterval
  BY ReconfigurationAssumption DEF ReconfigurationAssumption, Init
<1>6. in_progress \in BOOLEAN
  BY DEF Init
<1>2. dkg \in SessionType /\ chunky_dkg \in SessionType
  BY DEF Init, NoSession, SessionType
<1>3. config \in ConfigType /\ BufferOK(pending)
  BY DEF Init, ConfigType, BufferOK, NoConfigs
<1>4. SessionsAreInProgress /\ SessionsAreCurrent /\ ReconfigurationCanFinish
  BY DEF Init, NoSession, SessionsAreInProgress, SessionsAreCurrent, ReconfigurationCanFinish
<1>5. QED
  BY <1>1, <1>2, <1>3, <1>4, <1>6 DEF IInv, TypeOK

\* The configs a buffer leads to, and the buffers the setters make.
LEMMA BufferType ==
  ASSUME TypeOK
  PROVE  /\ BufferOK(NoConfigs)
         /\ \A buffer : BufferOK(buffer) => Applied(buffer) \in ConfigType
         /\ BufferOK(Upserted(pending, "key", KeyEpoch))
         /\ \A name \in {"randomness", "chunky"}, value \in BOOLEAN :
              BufferOK(Upserted(pending, name, value))
<1>1. BufferOK(NoConfigs)
  BY DEF BufferOK, NoConfigs
<1>2. ASSUME NEW buffer, BufferOK(buffer)
      PROVE  Applied(buffer) \in ConfigType
  BY <1>2, TypeOK DEF BufferOK, Applied, TypeOK, ConfigType
<1>3. BufferOK(Upserted(pending, "key", KeyEpoch))
  BY DEF BufferOK, Upserted, KeyEpoch, TypeOK
<1>4. ASSUME NEW name \in {"randomness", "chunky"}, NEW value \in BOOLEAN
      PROVE  BufferOK(Upserted(pending, name, value))
  BY <1>4 DEF BufferOK, Upserted, TypeOK
<1>5. QED
  BY <1>1, <1>2, <1>3, <1>4

\* A step that enters the next epoch leaves no reconfiguration and no current session,
\* whatever sessions it leaves from this one.
LEMMA EnteringKeepsIInv ==
  ASSUME IInv,
         epoch' = epoch + 1, elapsed' = 0, in_progress' = FALSE,
         dkg' \in SessionType, chunky_dkg' \in SessionType,
         config' \in ConfigType, BufferOK(pending')
  PROVE  IInv'
<1>1. epoch' \in Nat \ {0} /\ elapsed' \in 0..EpochInterval
  BY ReconfigurationAssumption DEF ReconfigurationAssumption, IInv, TypeOK
<1>6. in_progress' \in BOOLEAN
  OBVIOUS
<1>2. dkg' \in SessionType' /\ chunky_dkg' \in SessionType'
  BY DEF IInv, TypeOK, SessionType
<1>3. config' \in ConfigType' /\ BufferOK(pending)'
  BY DEF ConfigType, BufferOK
<1>4. SessionsAreInProgress' /\ SessionsAreCurrent' /\ ReconfigurationCanFinish'
  BY DEF IInv, TypeOK, SessionType, SessionsAreInProgress, SessionsAreCurrent,
         ReconfigurationCanFinish
<1>5. QED
  BY <1>1, <1>2, <1>3, <1>4, <1>6 DEF IInv, TypeOK

\* Starting the sessions of this epoch, when none is under way.
LEMMA StartKeepsIInv ==
  ASSUME IInv, NEW age \in 0..EpochInterval, config.randomness,
         \/ ~config.chunky /\ TryStart(age)
         \/ config.chunky /\ TryStartWithChunkyDkg(age)
  PROVE  IInv'
<1>1. UNCHANGED <<epoch, config, pending>> /\ elapsed' = age
  BY DEF TryStart, TryStartWithChunkyDkg
<1>2. CASE UNCHANGED <<in_progress, dkg, chunky_dkg>>
  <2>1. TypeOK'
    BY <1>1, <1>2 DEF IInv, TypeOK, SessionType, ConfigType, BufferOK
  <2>2. QED
    BY <1>1, <1>2, <2>1
       DEF IInv, SessionsAreInProgress, SessionsAreCurrent, ReconfigurationCanFinish,
           DkgOutstanding, ChunkyDkgOutstanding
<1>3. CASE /\ in_progress' = TRUE /\ dkg' = Started(dkg)
           /\ chunky_dkg' = IF config.chunky THEN Started(chunky_dkg) ELSE chunky_dkg
  <2>1. /\ dkg' \in SessionType /\ dkg'.in_progress = epoch
        /\ chunky_dkg' \in SessionType
        /\ config.chunky => chunky_dkg'.in_progress = epoch
    BY <1>3 DEF IInv, TypeOK, SessionType, Started
  <2>2. TypeOK'
    BY <1>1, <1>3, <2>1 DEF IInv, TypeOK, SessionType, ConfigType, BufferOK
  <2>3. SessionsAreInProgress' /\ SessionsAreCurrent' /\ ReconfigurationCanFinish'
    BY <1>1, <1>3, <2>1 DEF SessionsAreInProgress, SessionsAreCurrent,
                            ReconfigurationCanFinish, DkgOutstanding
  <2>4. QED
    BY <2>2, <2>3 DEF IInv
<1>4. QED
  BY <1>2, <1>3 DEF TryStart, TryStartWithChunkyDkg

\* finish at the epoch's very beginning only applies the buffer.
LEMMA FinishKeepsIInv ==
  ASSUME IInv, Finish, ~config.randomness \/ BlockRuns
  PROVE  IInv'
<1>1. dkg' \in SessionType /\ chunky_dkg' \in SessionType
  BY DEF IInv, TypeOK, SessionType, Finish, Cleared, ApplyAndReconfigure, Reconfigure
<1>2. config' \in ConfigType /\ BufferOK(pending')
  BY BufferType DEF IInv, TypeOK, Finish, ApplyAndReconfigure
<1>3. CASE elapsed = 0
  <2>1. ~in_progress /\ in_progress' = in_progress /\ epoch' = epoch /\ elapsed' = elapsed
    BY <1>3 DEF IInv, TypeOK, SessionsAreCurrent, BlockRuns, Finish, ApplyAndReconfigure,
                Reconfigure
  <2>2. dkg'.in_progress = 0 /\ chunky_dkg'.in_progress = 0
    BY DEF IInv, TypeOK, SessionType, Finish, Cleared
  <2>3. TypeOK'
    <3>1. epoch' \in Nat \ {0} /\ elapsed' \in 0..EpochInterval
      BY <2>1 DEF IInv, TypeOK
    <3>2. in_progress' \in BOOLEAN
      BY <2>1 DEF IInv, TypeOK
    <3>3. dkg' \in SessionType' /\ chunky_dkg' \in SessionType'
      BY <1>1, <2>1 DEF SessionType
    <3>4. config' \in ConfigType' /\ BufferOK(pending)'
      BY <1>2 DEF ConfigType, BufferOK
    <3>5. QED
      BY <3>1, <3>2, <3>3, <3>4 DEF TypeOK
  <2>4. QED
    BY <2>1, <2>2, <2>3
       DEF IInv, TypeOK, SessionsAreInProgress, SessionsAreCurrent, ReconfigurationCanFinish
<1>4. CASE elapsed # 0
  BY <1>1, <1>2, <1>4, EnteringKeepsIInv DEF Finish, ApplyAndReconfigure, Reconfigure
<1>5. QED
  BY <1>3, <1>4

LEMMA DkgResultKeepsIInv ==
  ASSUME IInv, FinishWithDkgResult
  PROVE  IInv'
<1>1. dkg' \in [in_progress : {0}, last_completed : {epoch}]
  BY DEF IInv, TypeOK, SessionType, FinishWithDkgResult, Completed
<1>2. CASE config.chunky => NothingElseAwaited(chunky_dkg)
  <2>1. chunky_dkg' = Cleared(chunky_dkg) /\ ApplyAndReconfigure(pending) /\ elapsed # 0
    BY <1>2 DEF FinishWithDkgResult, BlockRuns, IInv, TypeOK
  <2>2. epoch' = epoch + 1 /\ elapsed' = 0 /\ in_progress' = FALSE
    BY <2>1 DEF ApplyAndReconfigure, Reconfigure
  <2>3. dkg' \in SessionType /\ chunky_dkg' \in SessionType
    BY <1>1, <2>1, <2>2 DEF IInv, TypeOK, SessionType, Cleared
  <2>4. config' \in ConfigType /\ BufferOK(pending')
    BY <2>1, BufferType DEF IInv, TypeOK, ApplyAndReconfigure
  <2>5. dkg' \in SessionType' /\ chunky_dkg' \in SessionType'
    BY <2>2, <2>3 DEF SessionType, IInv, TypeOK
  <2>6. QED
    BY <2>2, <2>3, <2>4, EnteringKeepsIInv
<1>3. CASE ~(config.chunky => NothingElseAwaited(chunky_dkg))
  <2>1. UNCHANGED <<epoch, elapsed, in_progress, chunky_dkg, config, pending>> /\ config.chunky
    BY <1>3 DEF FinishWithDkgResult
  <2>2. in_progress /\ chunky_dkg.in_progress = epoch
    BY <1>3, <2>1 DEF FinishWithDkgResult, NothingElseAwaited, IInv, SessionsAreInProgress,
                      SessionsAreCurrent, TypeOK
  <2>3. QED
    BY <1>1, <2>1, <2>2
       DEF IInv, TypeOK, SessionType, BufferOK, ConfigType, SessionsAreInProgress,
           SessionsAreCurrent, ReconfigurationCanFinish, ChunkyDkgOutstanding, DkgOutstanding
<1>4. QED
  BY <1>2, <1>3

LEMMA ChunkyDkgResultKeepsIInv ==
  ASSUME IInv, FinishWithChunkyDkgResult
  PROVE  IInv'
<1> DEFINE buffer == Upserted(pending, "key", KeyEpoch)
<1>1. chunky_dkg' \in [in_progress : {0}, last_completed : {epoch}]
  BY DEF IInv, TypeOK, SessionType, FinishWithChunkyDkgResult, Completed
<1>2. BufferOK(buffer)
  BY BufferType DEF IInv
<1>3. CASE NothingElseAwaited(dkg)
  <2>1. dkg' = Cleared(dkg) /\ ApplyAndReconfigure(buffer) /\ elapsed # 0
    BY <1>3 DEF FinishWithChunkyDkgResult, BlockRuns, IInv, TypeOK
  <2> HIDE DEF buffer
  <2>2. epoch' = epoch + 1 /\ elapsed' = 0 /\ in_progress' = FALSE
    BY <2>1 DEF ApplyAndReconfigure, Reconfigure
  <2>3. dkg' \in SessionType /\ chunky_dkg' \in SessionType
    BY <1>1, <2>1, <2>2 DEF IInv, TypeOK, SessionType, Cleared
  <2>4. config' \in ConfigType /\ BufferOK(pending')
    BY <2>1, <1>2, BufferType DEF IInv, TypeOK, ApplyAndReconfigure
  <2>5. QED
    BY <2>2, <2>3, <2>4, EnteringKeepsIInv
<1>4. CASE ~NothingElseAwaited(dkg)
  <2>1. pending' = buffer /\ UNCHANGED <<epoch, elapsed, in_progress, dkg, config>>
    BY <1>4 DEF FinishWithChunkyDkgResult
  <2> HIDE DEF buffer
  <2>2. in_progress /\ dkg.in_progress = epoch
    BY <1>4 DEF FinishWithChunkyDkgResult, NothingElseAwaited, IInv, SessionsAreInProgress,
                SessionsAreCurrent, TypeOK
  <2>3. QED
    BY <1>1, <1>2, <2>1, <2>2
       DEF IInv, TypeOK, SessionType, BufferOK, ConfigType, SessionsAreInProgress,
           SessionsAreCurrent, ReconfigurationCanFinish, ChunkyDkgOutstanding, DkgOutstanding
<1>5. QED
  BY <1>3, <1>4

\* A prologue that changes the epoch without a DKG, and set_storage_gas_config.
LEMMA ReconfigureKeepsIInv ==
  ASSUME IInv, NEW age \in Nat \ {0}, Reconfigure(age),
         UNCHANGED <<dkg, chunky_dkg, config, pending>>
  PROVE  IInv'
<1>1. epoch' = epoch + 1 /\ elapsed' = 0 /\ in_progress' = FALSE
  BY DEF Reconfigure
<1>2. dkg' \in SessionType /\ chunky_dkg' \in SessionType
      /\ config' \in ConfigType /\ BufferOK(pending')
  BY DEF IInv, TypeOK
<1>3. QED
  BY <1>1, <1>2, EnteringKeepsIInv

\* A step that only sets the time or the buffer.
LEMMA IdleKeepsIInv ==
  ASSUME IInv, UNCHANGED <<epoch, in_progress, dkg, chunky_dkg, config>>,
         elapsed' \in 0..EpochInterval, BufferOK(pending')
  PROVE  IInv'
<1>1. TypeOK'
  BY DEF IInv, TypeOK, SessionType, ConfigType, BufferOK
<1>2. QED
  BY <1>1 DEF IInv, SessionsAreInProgress, SessionsAreCurrent, ReconfigurationCanFinish,
              DkgOutstanding, ChunkyDkgOutstanding

LEMMA AgesType ==
  ASSUME TypeOK
  PROVE  Ages \subseteq 0..EpochInterval
  BY ReconfigurationAssumption DEF ReconfigurationAssumption, TypeOK, Ages

LEMMA BlockKeepsIInv ==
  ASSUME IInv, Block
  PROVE  IInv'
<1>1. PICK age \in Ages :
        BlockPrologue(age) \/ BlockPrologueExt(age) \/ BlockPrologueExtV2(age)
  BY DEF Block
<1>2. age \in 0..EpochInterval
  BY <1>1, AgesType DEF IInv
<1>3. CASE JustABlock(age)
  BY <1>2, <1>3, IdleKeepsIInv DEF JustABlock, IInv, TypeOK
<1>4. CASE age >= EpochInterval /\ Reconfigure(age)
           /\ UNCHANGED <<dkg, chunky_dkg, config, pending>>
  <2>1. age \in Nat \ {0}
    BY <1>2, <1>4, ReconfigurationAssumption DEF ReconfigurationAssumption
  <2>2. QED
    BY <1>4, <2>1, ReconfigureKeepsIInv
<1>5. CASE config.randomness /\ ~config.chunky /\ TryStart(age)
  BY <1>2, <1>5, StartKeepsIInv
<1>6. CASE config.randomness /\ config.chunky /\ TryStartWithChunkyDkg(age)
  BY <1>2, <1>6, StartKeepsIInv
<1>7. QED
  BY <1>1, <1>3, <1>4, <1>5, <1>6 DEF BlockPrologue, BlockPrologueExt, BlockPrologueExtV2

LEMMA GovernanceKeepsIInv ==
  ASSUME IInv,
         \/ \E name \in {"randomness", "chunky"}, value \in BOOLEAN : SetForNextEpoch(name, value)
         \/ GovernanceReconfigure
         \/ ForceEndEpoch
         \/ SetStorageGasConfig
  PROVE  IInv'
<1>1. elapsed \in 0..EpochInterval /\ TypeOK
  BY DEF IInv, TypeOK
<1>2. ASSUME NEW name \in {"randomness", "chunky"}, NEW value \in BOOLEAN,
             SetForNextEpoch(name, value)
      PROVE  IInv'
  <2>1. BufferOK(pending')
    BY <1>1, <1>2, BufferType DEF SetForNextEpoch
  <2>2. QED
    BY <1>1, <1>2, <2>1, IdleKeepsIInv DEF SetForNextEpoch
<1>3. CASE GovernanceReconfigure
  BY <1>1, <1>3, StartKeepsIInv, FinishKeepsIInv DEF GovernanceReconfigure
<1>4. CASE ForceEndEpoch
  BY <1>4, FinishKeepsIInv DEF ForceEndEpoch
<1>5. CASE SetStorageGasConfig
  <2>1. elapsed \in Nat \ {0}
    BY <1>1, <1>5 DEF SetStorageGasConfig, BlockRuns
  <2>2. QED
    BY <1>5, <2>1, ReconfigureKeepsIInv DEF SetStorageGasConfig
<1>6. QED
  BY <1>2, <1>3, <1>4, <1>5

LEMMA StepKeepsIInv == IInv /\ [Next]_vars => IInv'
<1> SUFFICES ASSUME IInv, [Next]_vars
             PROVE  IInv'
  OBVIOUS
<1>1. CASE Block
  BY <1>1, BlockKeepsIInv
<1>2. CASE FinishWithDkgResult
  BY <1>2, DkgResultKeepsIInv
<1>3. CASE FinishWithChunkyDkgResult
  BY <1>3, ChunkyDkgResultKeepsIInv
<1>4. CASE \/ \E name \in {"randomness", "chunky"}, value \in BOOLEAN :
                SetForNextEpoch(name, value)
           \/ GovernanceReconfigure
           \/ ForceEndEpoch
           \/ SetStorageGasConfig
  BY <1>4, GovernanceKeepsIInv
<1>5. CASE UNCHANGED vars
  BY <1>5, IdleKeepsIInv DEF vars, IInv, TypeOK
<1>6. QED
  BY <1>1, <1>2, <1>3, <1>4, <1>5 DEF Next

THEOREM ReconfigurationInvariance == Spec => []IInv
  BY InitIInv, StepKeepsIInv, PTL DEF Spec

\* A reconfiguration in progress always awaits a result that its own epoch's validators
\* can still publish (reconfiguration_with_dkg.move:95-103).
THEOREM ReconfigurationNeverStuck == Spec => []ReconfigurationCanFinish
  BY ReconfigurationInvariance, PTL DEF IInv

\* Types, and no session ahead of its epoch.
THEOREM ReconfigurationTypeCorrectness == Spec => []TypeOK
  BY ReconfigurationInvariance, PTL DEF IInv

-----------------------------------------------------------------------------
LEMMA ConfigStep ==
  ASSUME IInv, [Next]_vars
  PROVE  config' # config => epoch' # epoch \/ (elapsed = 0 /\ ~in_progress)
<1> SUFFICES ASSUME config' # config
             PROVE  epoch' # epoch \/ (elapsed = 0 /\ ~in_progress)
  OBVIOUS
<1>1. PICK buffer : ApplyAndReconfigure(buffer)
  BY DEF Next, vars, Block, BlockPrologue, BlockPrologueExt, BlockPrologueExtV2, JustABlock,
         TryStart, TryStartWithChunkyDkg, FinishWithDkgResult, FinishWithChunkyDkgResult,
         SetForNextEpoch, GovernanceReconfigure, ForceEndEpoch, SetStorageGasConfig, Finish
<1>2. elapsed # 0 => epoch' = epoch + 1
  BY <1>1 DEF ApplyAndReconfigure, Reconfigure
<1>3. epoch + 1 # epoch
  BY DEF IInv, TypeOK
<1>4. CASE elapsed = 0
  <2>1. ~config.randomness
    BY <1>4 DEF Next, vars, Block, BlockPrologue, BlockPrologueExt, BlockPrologueExtV2,
                JustABlock, TryStart, TryStartWithChunkyDkg, FinishWithDkgResult,
                FinishWithChunkyDkgResult, SetForNextEpoch, GovernanceReconfigure,
                ForceEndEpoch, SetStorageGasConfig, BlockRuns
  <2>2. QED
    BY <1>4, <2>1 DEF IInv, SessionsAreCurrent
<1>5. QED
  BY <1>2, <1>3, <1>4

\* The configs hold still in every block and while a reconfiguration is in progress
\* (randomness_config.move:58 and its like are only reached from finish).
THEOREM ConfigStability == Spec => ConfigChangesWithEpoch
<1>1. IInv /\ [Next]_vars
        => [config' # config => epoch' # epoch \/ (elapsed = 0 /\ ~in_progress)]_vars
  BY ConfigStep
<1>2. QED
  BY <1>1, ReconfigurationInvariance, PTL DEF Spec, ConfigChangesWithEpoch

-----------------------------------------------------------------------------
(* The refinement *)

LEMMA InitImplements == Init => EC!Init
<1> SUFFICES ASSUME Init
             PROVE  EC!Init
  OBVIOUS
<1>1. Awaited = {}
  BY DEF Init, NoSession, Awaited, DkgOutstanding, ChunkyDkgOutstanding
<1>2. Enabled \in SUBSET {"dkg", "chunky_dkg"}
  BY DEF Enabled
<1>3. QED
  BY <1>1, <1>2 DEF Init, EC!Init

\* Entering the next epoch leaves nothing awaited.
LEMMA EnterImplements ==
  ASSUME IInv, IInv', epoch' = epoch + 1, in_progress' = FALSE,
         \/ \E protocol \in Awaited : Awaited = {protocol}
         \/ Enabled = {}
         \/ Emergency
  PROVE  EC!Enter
<1>1. Awaited' = {}
  BY DEF IInv, SessionsAreInProgress, Awaited, DkgOutstanding, ChunkyDkgOutstanding
<1>2. Enabled' \in SUBSET {"dkg", "chunky_dkg"}
  BY DEF Enabled
<1>3. QED
  BY <1>1, <1>2 DEF EC!Enter

LEMMA StartImplements ==
  ASSUME IInv, NEW age, config.randomness,
         \/ ~config.chunky /\ TryStart(age)
         \/ config.chunky /\ TryStartWithChunkyDkg(age)
  PROVE  EC!Deal \/ UNCHANGED EC!vars
<1>1. UNCHANGED <<epoch, config>>
  BY DEF TryStart, TryStartWithChunkyDkg
<1>2. UNCHANGED Enabled
  BY <1>1 DEF Enabled
<1>3. CASE UNCHANGED <<in_progress, dkg, chunky_dkg>>
  BY <1>1, <1>2, <1>3 DEF EC!vars, Awaited, DkgOutstanding, ChunkyDkgOutstanding
<1>4. CASE /\ in_progress' = TRUE /\ dkg' = Started(dkg)
           /\ chunky_dkg' = IF config.chunky THEN Started(chunky_dkg) ELSE chunky_dkg
           /\ \/ ~config.chunky /\ dkg.in_progress # epoch
              \/ config.chunky /\ ~in_progress
  <2>1. Awaited = {}
    <3>1. ~DkgOutstanding /\ ~ChunkyDkgOutstanding
      BY <1>4 DEF IInv, SessionsAreInProgress, DkgOutstanding, ChunkyDkgOutstanding
    <3>2. QED
      BY <3>1 DEF Awaited
  <2>2. /\ dkg'.in_progress = epoch
        /\ config.chunky => chunky_dkg'.in_progress = epoch
    BY <1>4 DEF IInv, TypeOK, SessionType, Started
  <2>3. DkgOutstanding' /\ (ChunkyDkgOutstanding' <=> config.chunky)
    BY <1>1, <2>2 DEF DkgOutstanding, ChunkyDkgOutstanding
  <2>4. Awaited' = Enabled /\ Enabled # {}
    BY <2>3 DEF Awaited, Enabled
  <2>5. QED
    BY <1>1, <1>2, <1>4, <2>1, <2>4 DEF EC!Deal
<1>5. QED
  BY <1>3, <1>4 DEF TryStart, TryStartWithChunkyDkg

LEMMA BlockImplements ==
  ASSUME IInv, IInv', Block
  PROVE  EC!Next \/ UNCHANGED EC!vars
<1>1. PICK age \in Ages :
        BlockPrologue(age) \/ BlockPrologueExt(age) \/ BlockPrologueExtV2(age)
  BY DEF Block
<1>2. CASE JustABlock(age)
  BY <1>2 DEF JustABlock, EC!vars, Awaited, Enabled, DkgOutstanding, ChunkyDkgOutstanding
<1>3. CASE /\ ~config.randomness \/ Emergency
           /\ age >= EpochInterval /\ Reconfigure(age)
  <2>1. age # 0
    BY <1>1, <1>3, AgesType, ReconfigurationAssumption DEF ReconfigurationAssumption, IInv
  <2>2. epoch' = epoch + 1 /\ in_progress' = FALSE
    BY <1>3, <2>1 DEF Reconfigure
  <2>3. ~config.randomness => Enabled = {}
    BY DEF Enabled
  <2>4. QED
    BY <1>3, <2>2, <2>3, EnterImplements DEF EC!Next
<1>4. CASE config.randomness /\ ~config.chunky /\ TryStart(age)
  BY <1>4, StartImplements DEF EC!Next
<1>5. CASE config.randomness /\ config.chunky /\ TryStartWithChunkyDkg(age)
  BY <1>5, StartImplements DEF EC!Next
<1>6. QED
  BY <1>1, <1>2, <1>3, <1>4, <1>5 DEF BlockPrologue, BlockPrologueExt, BlockPrologueExtV2

LEMMA DkgResultImplements ==
  ASSUME IInv, IInv', FinishWithDkgResult
  PROVE  EC!Next
<1>1. DkgOutstanding /\ in_progress
  BY DEF FinishWithDkgResult, DkgOutstanding, IInv, SessionsAreInProgress
<1>2. CASE config.chunky => NothingElseAwaited(chunky_dkg)
  <2>1. epoch' = epoch + 1 /\ in_progress' = FALSE
    BY <1>2 DEF FinishWithDkgResult, ApplyAndReconfigure, Reconfigure, BlockRuns
  <2>2. ~ChunkyDkgOutstanding
    BY <1>2 DEF NothingElseAwaited, ChunkyDkgOutstanding, IInv, TypeOK
  <2>3. Awaited = {"dkg"}
    BY <1>1, <2>2 DEF Awaited
  <2>4. QED
    BY <2>1, <2>3, EnterImplements DEF EC!Next
<1>3. CASE ~(config.chunky => NothingElseAwaited(chunky_dkg))
  <2>1. UNCHANGED <<epoch, in_progress, chunky_dkg, config>> /\ config.chunky
    BY <1>3 DEF FinishWithDkgResult
  <2>2. dkg'.in_progress = 0
    BY DEF FinishWithDkgResult, Completed
  <2>3. ChunkyDkgOutstanding
    BY <1>1, <1>3, <2>1 DEF NothingElseAwaited, ChunkyDkgOutstanding, IInv, SessionsAreCurrent
  <2>4. ~DkgOutstanding' /\ ChunkyDkgOutstanding'
    BY <2>1, <2>2, <2>3 DEF DkgOutstanding, ChunkyDkgOutstanding, IInv, TypeOK
  <2>5. Awaited = {"dkg", "chunky_dkg"} /\ Awaited' = {"chunky_dkg"}
    BY <1>1, <2>3, <2>4 DEF Awaited
  <2>6. UNCHANGED Enabled
    BY <2>1 DEF Enabled
  <2>7. EC!Output("dkg")
    BY <2>1, <2>5, <2>6 DEF EC!Output
  <2>8. QED
    BY <2>7 DEF EC!Next
<1>4. QED
  BY <1>2, <1>3

LEMMA ChunkyDkgResultImplements ==
  ASSUME IInv, IInv', FinishWithChunkyDkgResult
  PROVE  EC!Next
<1>1. ChunkyDkgOutstanding /\ in_progress /\ config.chunky
  BY DEF FinishWithChunkyDkgResult, ChunkyDkgOutstanding, IInv, SessionsAreInProgress
<1>2. CASE NothingElseAwaited(dkg)
  <2>1. epoch' = epoch + 1 /\ in_progress' = FALSE
    BY <1>2 DEF FinishWithChunkyDkgResult, ApplyAndReconfigure, Reconfigure, BlockRuns
  <2>2. ~DkgOutstanding
    BY <1>2 DEF NothingElseAwaited, DkgOutstanding, IInv, TypeOK
  <2>3. Awaited = {"chunky_dkg"}
    BY <1>1, <2>2 DEF Awaited
  <2>4. QED
    BY <2>1, <2>3, EnterImplements DEF EC!Next
<1>3. CASE ~NothingElseAwaited(dkg)
  <2>1. UNCHANGED <<epoch, in_progress, dkg, config>>
    BY <1>3 DEF FinishWithChunkyDkgResult
  <2>2. chunky_dkg'.in_progress = 0
    BY DEF FinishWithChunkyDkgResult, Completed
  <2>3. DkgOutstanding
    BY <1>1, <1>3 DEF NothingElseAwaited, DkgOutstanding, IInv, SessionsAreCurrent
  <2>4. DkgOutstanding' /\ ~ChunkyDkgOutstanding'
    BY <2>1, <2>2, <2>3 DEF DkgOutstanding, ChunkyDkgOutstanding, IInv, TypeOK
  <2>5. Awaited = {"dkg", "chunky_dkg"} /\ Awaited' = {"dkg"}
    BY <1>1, <2>3, <2>4 DEF Awaited
  <2>6. UNCHANGED Enabled
    BY <2>1 DEF Enabled
  <2>7. EC!Output("chunky_dkg")
    BY <2>1, <2>5, <2>6 DEF EC!Output
  <2>8. QED
    BY <2>7 DEF EC!Next
<1>4. QED
  BY <1>2, <1>3

LEMMA FinishImplements ==
  ASSUME IInv, IInv', ApplyAndReconfigure(pending),
         \/ ~config.randomness
         \/ Emergency /\ elapsed # 0
  PROVE  EC!Next
<1>1. ~config.randomness => Enabled = {}
  BY DEF Enabled
<1>2. CASE elapsed # 0
  <2>1. epoch' = epoch + 1 /\ in_progress' = FALSE
    BY <1>2 DEF ApplyAndReconfigure, Reconfigure
  <2>2. QED
    BY <1>1, <2>1, EnterImplements DEF EC!Next
<1>3. CASE elapsed = 0
  <2>1. UNCHANGED <<epoch, in_progress>> /\ ~in_progress
    BY <1>3 DEF ApplyAndReconfigure, Reconfigure, IInv, SessionsAreCurrent
  <2>2. Awaited = {} /\ Awaited' = {}
    BY <2>1 DEF IInv, SessionsAreInProgress, Awaited, DkgOutstanding, ChunkyDkgOutstanding
  <2>3. Enabled' \in SUBSET {"dkg", "chunky_dkg"}
    BY DEF Enabled
  <2>4. EC!Amend
    BY <1>1, <1>3, <2>1, <2>2, <2>3 DEF EC!Amend
  <2>5. QED
    BY <2>4 DEF EC!Next
<1>4. QED
  BY <1>2, <1>3

LEMMA GovernanceImplements ==
  ASSUME IInv, IInv',
         \/ \E name \in {"randomness", "chunky"}, value \in BOOLEAN : SetForNextEpoch(name, value)
         \/ GovernanceReconfigure
         \/ ForceEndEpoch
         \/ SetStorageGasConfig
  PROVE  EC!Next \/ UNCHANGED EC!vars
<1>1. ASSUME NEW name, NEW value, SetForNextEpoch(name, value)
      PROVE  UNCHANGED EC!vars
  BY <1>1 DEF SetForNextEpoch, EC!vars, Awaited, Enabled, DkgOutstanding, ChunkyDkgOutstanding
<1>2. CASE GovernanceReconfigure
  BY <1>2, StartImplements, FinishImplements DEF GovernanceReconfigure, Finish, EC!Next
<1>3. CASE ForceEndEpoch
  BY <1>3, FinishImplements DEF ForceEndEpoch, Finish, BlockRuns, IInv, TypeOK
<1>4. CASE SetStorageGasConfig
  <2>1. epoch' = epoch + 1 /\ in_progress' = FALSE /\ Emergency
    BY <1>4 DEF SetStorageGasConfig, Reconfigure, BlockRuns
  <2>2. QED
    BY <2>1, EnterImplements DEF EC!Next
<1>5. QED
  BY <1>1, <1>2, <1>3, <1>4

LEMMA StepImplements == IInv /\ IInv' /\ [Next]_vars => [EC!Next]_(EC!vars)
<1> SUFFICES ASSUME IInv, IInv', [Next]_vars
             PROVE  EC!Next \/ UNCHANGED EC!vars
  OBVIOUS
<1>1. CASE Block
  BY <1>1, BlockImplements
<1>2. CASE FinishWithDkgResult
  BY <1>2, DkgResultImplements
<1>3. CASE FinishWithChunkyDkgResult
  BY <1>3, ChunkyDkgResultImplements
<1>4. CASE \/ \E name \in {"randomness", "chunky"}, value \in BOOLEAN :
                SetForNextEpoch(name, value)
           \/ GovernanceReconfigure
           \/ ForceEndEpoch
           \/ SetStorageGasConfig
  BY <1>4, GovernanceImplements
<1>5. CASE UNCHANGED vars
  BY <1>5 DEF vars, EC!vars, Awaited, Enabled, DkgOutstanding, ChunkyDkgOutstanding
<1>6. QED
  BY <1>1, <1>2, <1>3, <1>4, <1>5 DEF Next

\* Whatever the order of results, blocks and governance's calls, epochs end as
\* EpochChange says: at once, with the last awaited output, or in an emergency.
THEOREM ReconfigurationImplementsEpochChange == Spec => EpochChangeSpec
  BY InitImplements, StepImplements, ReconfigurationInvariance, PTL
     DEF Spec, EpochChangeSpec, EC!Spec

-----------------------------------------------------------------------------
(* Epochs without emergencies *)

\* What a reconfiguration in progress has or awaits: each enabled protocol either has its
\* session dealt or has completed it, and completing Chunky DKG buffered the next key.
DealtOrCompleted ==
  in_progress =>
    /\ DkgOutstanding \/ dkg.last_completed = epoch
    /\ config.chunky => ChunkyDkgOutstanding \/ "key" \in DOMAIN pending

\* A session completes in its epoch only while the other one is awaited.
CompletedWhileAwaiting ==
  /\ dkg.last_completed = epoch => in_progress /\ config.chunky /\ dkg.in_progress = 0
  /\ chunky_dkg.last_completed = epoch =>
       in_progress /\ config.chunky /\ chunky_dkg.in_progress = 0

QuietInv ==
  /\ IInv
  /\ BufferedKeyIsForNextEpoch
  /\ DealtOrCompleted
  /\ CompletedWhileAwaiting

LEMMA InitQuietInv == Init => QuietInv
<1> SUFFICES ASSUME Init PROVE QuietInv
  OBVIOUS
<1>1. BufferedKeyIsForNextEpoch /\ DealtOrCompleted /\ CompletedWhileAwaiting
  BY DEF Init, NoConfigs, NoSession, BufferedKeyIsForNextEpoch, DealtOrCompleted,
         CompletedWhileAwaiting
<1> QED
  BY <1>1, InitIInv DEF QuietInv

\* Between reconfigurations no key is buffered.
LEMMA IdleHasNoKey ==
  ASSUME QuietInv, ~in_progress
  PROVE  /\ "key" \notin DOMAIN pending
         /\ dkg.last_completed # epoch /\ chunky_dkg.last_completed # epoch
BY DEF QuietInv, BufferedKeyIsForNextEpoch, CompletedWhileAwaiting

\* A new epoch has no key buffered and has completed nothing.
LEMMA EnteringQuiet ==
  ASSUME QuietInv, IInv', epoch' = epoch + 1, in_progress' = FALSE,
         "key" \notin DOMAIN pending',
         dkg'.last_completed \in 0..epoch, chunky_dkg'.last_completed \in 0..epoch
  PROVE  QuietInv'
<1>1. dkg'.last_completed # epoch' /\ chunky_dkg'.last_completed # epoch'
  BY DEF QuietInv, IInv, TypeOK
<1> QED
  BY <1>1 DEF QuietInv, BufferedKeyIsForNextEpoch, DealtOrCompleted, CompletedWhileAwaiting

\* The last results, in the sessions' own types.
LEMMA LastCompleted ==
  ASSUME IInv
  PROVE  /\ dkg.last_completed \in 0..epoch /\ chunky_dkg.last_completed \in 0..epoch
         /\ Cleared(dkg).last_completed = dkg.last_completed
         /\ Cleared(chunky_dkg).last_completed = chunky_dkg.last_completed
         /\ Cleared(dkg).in_progress = 0 /\ Cleared(chunky_dkg).in_progress = 0
         /\ Started(dkg).last_completed = dkg.last_completed
         /\ Started(chunky_dkg).last_completed = chunky_dkg.last_completed
         /\ Started(dkg).in_progress = epoch /\ Started(chunky_dkg).in_progress = epoch
BY DEF IInv, TypeOK, SessionType, Cleared, Started

\* What the two results leave when they end the epoch: both complete, the key installed.
Ended ==
  /\ epoch' = epoch + 1 /\ in_progress' = FALSE /\ pending' = NoConfigs
  /\ dkg'.last_completed = epoch
  /\ chunky_dkg'.last_completed \in 0..epoch
  /\ config.chunky => chunky_dkg'.last_completed = epoch /\ config'.key = epoch'

\* What the first of two results leaves: the other one awaited.
Halfway ==
  /\ in_progress /\ config.chunky
  /\ UNCHANGED <<epoch, in_progress, config>>

LEMMA DkgResultQuiet ==
  ASSUME QuietInv, FinishWithDkgResult
  PROVE  \/ Ended
         \/ /\ Halfway /\ UNCHANGED <<chunky_dkg, pending>>
            /\ dkg' = [in_progress |-> 0, last_completed |-> epoch]
<1>1. dkg' = [in_progress |-> 0, last_completed |-> epoch] /\ DkgOutstanding /\ in_progress
  BY DEF FinishWithDkgResult, Completed, DkgOutstanding, QuietInv, IInv, SessionsAreInProgress
<1>2. CASE config.chunky => NothingElseAwaited(chunky_dkg)
  <2>1. /\ chunky_dkg' = Cleared(chunky_dkg) /\ elapsed # 0
        /\ config' = Applied(pending) /\ pending' = NoConfigs /\ Reconfigure(elapsed)
    BY <1>2 DEF FinishWithDkgResult, ApplyAndReconfigure, BlockRuns, QuietInv, IInv, TypeOK
  <2>2. epoch' = epoch + 1 /\ in_progress' = FALSE
    BY <2>1 DEF Reconfigure
  <2>3. chunky_dkg'.last_completed = chunky_dkg.last_completed
    BY <2>1, LastCompleted DEF QuietInv
  <2>4. ASSUME config.chunky
        PROVE  chunky_dkg.last_completed = epoch /\ config'.key = epoch + 1
    <3>1. ~ChunkyDkgOutstanding
      BY <1>2, <2>4 DEF NothingElseAwaited, ChunkyDkgOutstanding, QuietInv, IInv, TypeOK
    <3>2. "key" \in DOMAIN pending
      BY <1>1, <2>4, <3>1 DEF QuietInv, DealtOrCompleted
    <3>3. pending["key"] = epoch + 1 /\ chunky_dkg.last_completed = epoch
      BY <3>2 DEF QuietInv, BufferedKeyIsForNextEpoch
    <3> QED
      BY <2>1, <3>2, <3>3 DEF Applied
  <2> QED
    BY <1>1, <2>1, <2>2, <2>3, <2>4, LastCompleted DEF Ended, QuietInv
<1>3. CASE ~(config.chunky => NothingElseAwaited(chunky_dkg))
  <2>1. UNCHANGED <<epoch, in_progress, chunky_dkg, config, pending>> /\ config.chunky
    BY <1>3 DEF FinishWithDkgResult
  <2> QED
    BY <1>1, <2>1 DEF Halfway
<1> QED
  BY <1>2, <1>3

LEMMA ChunkyDkgResultQuiet ==
  ASSUME QuietInv, FinishWithChunkyDkgResult
  PROVE  \/ Ended
         \/ /\ Halfway /\ UNCHANGED dkg /\ pending' = Upserted(pending, "key", epoch + 1)
            /\ chunky_dkg' = [in_progress |-> 0, last_completed |-> epoch]
<1> DEFINE buffer == Upserted(pending, "key", epoch + 1)
<1>1. /\ chunky_dkg' = [in_progress |-> 0, last_completed |-> epoch]
      /\ in_progress /\ config.chunky
  BY DEF FinishWithChunkyDkgResult, Completed, QuietInv, IInv, SessionsAreInProgress
<1>2. CASE NothingElseAwaited(dkg)
  <2>1. /\ dkg' = Cleared(dkg) /\ elapsed # 0
        /\ config' = Applied(buffer) /\ pending' = NoConfigs /\ Reconfigure(elapsed)
    BY <1>2 DEF FinishWithChunkyDkgResult, KeyEpoch, ApplyAndReconfigure, BlockRuns, QuietInv,
                IInv, TypeOK
  <2>2. epoch' = epoch + 1 /\ in_progress' = FALSE
    BY <2>1 DEF Reconfigure
  <2>3. ~DkgOutstanding
    BY <1>2 DEF NothingElseAwaited, DkgOutstanding, QuietInv, IInv, TypeOK
  <2>4. dkg'.last_completed = epoch
    BY <1>1, <2>1, <2>3, LastCompleted DEF QuietInv, DealtOrCompleted
  <2>5. "key" \in DOMAIN buffer /\ buffer["key"] = epoch + 1
    BY DEF Upserted
  <2>6. config'.key = epoch + 1
    BY <2>1, <2>5 DEF Applied
  <2> QED
    BY <1>1, <2>1, <2>2, <2>4, <2>6, LastCompleted DEF Ended, QuietInv, IInv, TypeOK
<1>3. CASE ~NothingElseAwaited(dkg)
  <2>1. UNCHANGED <<epoch, in_progress, dkg, config>> /\ pending' = buffer
    BY <1>3 DEF FinishWithChunkyDkgResult, KeyEpoch
  <2> QED
    BY <1>1, <2>1 DEF Halfway
<1> QED
  BY <1>2, <1>3

\* Without emergencies only an epoch without randomness ends otherwise, when nothing is
\* dealt or buffered for it.
LEMMA OtherStepsQuiet ==
  ASSUME ~Emergency, QuietInv, [Next]_vars,
         ~FinishWithDkgResult, ~FinishWithChunkyDkgResult
  PROVE  \/ /\ config.randomness
            /\ UNCHANGED <<epoch, config, pending>>
            /\ \/ UNCHANGED <<in_progress, dkg, chunky_dkg>>
               \/ \E age : ~config.chunky /\ TryStart(age)
               \/ \E age : config.chunky /\ TryStartWithChunkyDkg(age)
         \/ \E name \in {"randomness", "chunky"} : \E value :
              /\ pending' = Upserted(pending, name, value)
              /\ UNCHANGED <<epoch, in_progress, dkg, chunky_dkg, config>>
         \/ UNCHANGED <<epoch, in_progress, dkg, chunky_dkg, config, pending>>
         \/ \E age : /\ ~config.randomness /\ Reconfigure(age)
                     /\ UNCHANGED <<dkg, chunky_dkg, config, pending>>
         \/ ~config.randomness /\ Finish
<1>1. CASE Block
  BY <1>1 DEF Block, BlockPrologue, BlockPrologueExt, BlockPrologueExtV2, JustABlock, TryStart,
              TryStartWithChunkyDkg
<1>2. ASSUME NEW name \in {"randomness", "chunky"}, NEW value \in BOOLEAN,
             SetForNextEpoch(name, value)
      PROVE  /\ pending' = Upserted(pending, name, value)
             /\ UNCHANGED <<epoch, in_progress, dkg, chunky_dkg, config>>
  BY <1>2 DEF SetForNextEpoch
<1>3. CASE GovernanceReconfigure
  BY <1>3 DEF GovernanceReconfigure, TryStart, TryStartWithChunkyDkg
<1>4. CASE UNCHANGED vars
  BY <1>4 DEF vars
<1>5. ~ForceEndEpoch /\ ~SetStorageGasConfig
  BY DEF ForceEndEpoch, SetStorageGasConfig
<1> QED
  BY <1>1, <1>2, <1>3, <1>4, <1>5 DEF Next

\* Reconfiguring without randomness, at once or, at the epoch's very beginning, not at all.
LEMMA PlainEpochQuiet ==
  ASSUME QuietInv, IInv', ~config.randomness,
         \/ \E age : Reconfigure(age) /\ UNCHANGED <<dkg, chunky_dkg, config, pending>>
         \/ Finish
  PROVE  QuietInv' /\ EpochDealsOnce
<1>1. ~in_progress
  BY DEF QuietInv, IInv, SessionsAreCurrent
<1>2. \/ epoch' = epoch + 1 /\ in_progress' = FALSE
      \/ epoch' = epoch /\ in_progress' = in_progress
  <2>1. PICK age : Reconfigure(age)
    BY DEF Finish, ApplyAndReconfigure
  <2> QED
    BY <2>1 DEF Reconfigure
<1>3. /\ "key" \notin DOMAIN pending'
      /\ dkg'.last_completed = dkg.last_completed
      /\ chunky_dkg'.last_completed = chunky_dkg.last_completed
  BY <1>1, IdleHasNoKey, LastCompleted DEF Finish, ApplyAndReconfigure, NoConfigs, QuietInv
<1>4. CASE epoch' = epoch + 1 /\ in_progress' = FALSE
  <2>1. QuietInv'
    BY <1>3, <1>4, LastCompleted, EnteringQuiet DEF QuietInv
  <2>2. epoch' # epoch
    BY <1>4 DEF QuietInv, IInv, TypeOK
  <2> QED
    BY <2>1, <2>2 DEF EpochDealsOnce
<1>5. CASE epoch' = epoch /\ in_progress' = in_progress
  <2>1. dkg'.last_completed # epoch' /\ chunky_dkg'.last_completed # epoch'
    BY <1>1, <1>3, <1>5, IdleHasNoKey
  <2> QED
    BY <1>1, <1>3, <1>5, <2>1, IdleHasNoKey
       DEF QuietInv, BufferedKeyIsForNextEpoch, DealtOrCompleted, CompletedWhileAwaiting,
           EpochDealsOnce
<1> QED
  BY <1>2, <1>4, <1>5

\* Starting, when no session of this epoch is under way or complete.
LEMMA StartQuiet ==
  ASSUME QuietInv, IInv', config.randomness,
         \/ \E age : ~config.chunky /\ TryStart(age)
         \/ \E age : config.chunky /\ TryStartWithChunkyDkg(age)
  PROVE  QuietInv' /\ EpochDealsOnce
<1>1. UNCHANGED <<epoch, config, pending>>
  BY DEF TryStart, TryStartWithChunkyDkg
<1>2. CASE UNCHANGED <<in_progress, dkg, chunky_dkg>>
  <2>1. epoch # 0
    BY DEF QuietInv, IInv, TypeOK
  <2> QED
    BY <1>1, <1>2, <2>1
       DEF QuietInv, BufferedKeyIsForNextEpoch, DealtOrCompleted, CompletedWhileAwaiting,
           DkgOutstanding, ChunkyDkgOutstanding, EpochDealsOnce
<1>3. CASE /\ in_progress' = TRUE /\ dkg' = Started(dkg)
           /\ chunky_dkg' = IF config.chunky THEN Started(chunky_dkg) ELSE chunky_dkg
           /\ ~config.chunky \/ ~in_progress
  <2>1. dkg.last_completed # epoch /\ chunky_dkg.last_completed # epoch
    BY <1>3, IdleHasNoKey DEF QuietInv, CompletedWhileAwaiting
  <2>2. "key" \notin DOMAIN pending
    BY <2>1 DEF QuietInv, BufferedKeyIsForNextEpoch
  <2>3. /\ dkg'.last_completed = dkg.last_completed /\ dkg'.in_progress = epoch
        /\ chunky_dkg'.last_completed = chunky_dkg.last_completed
        /\ config.chunky => chunky_dkg'.in_progress = epoch
    BY <1>3, LastCompleted DEF QuietInv
  <2> QED
    BY <1>1, <1>3, <2>1, <2>2, <2>3
       DEF QuietInv, BufferedKeyIsForNextEpoch, DealtOrCompleted, CompletedWhileAwaiting,
           DkgOutstanding, ChunkyDkgOutstanding, EpochDealsOnce
<1> QED
  BY <1>2, <1>3 DEF TryStart, TryStartWithChunkyDkg

LEMMA StillQuiet ==
  ASSUME QuietInv, IInv', UNCHANGED <<epoch, in_progress, dkg, chunky_dkg, config>>,
         \/ pending' = pending
         \/ \E name \in {"randomness", "chunky"} : \E value :
              pending' = Upserted(pending, name, value)
  PROVE  QuietInv' /\ EpochDealsOnce
<1>1. /\ "key" \in DOMAIN pending' <=> "key" \in DOMAIN pending
      /\ "key" \in DOMAIN pending => pending'["key"] = pending["key"]
  BY DEF Upserted
<1>2. epoch # 0
  BY DEF QuietInv, IInv, TypeOK
<1> QED
  BY <1>1, <1>2
     DEF QuietInv, BufferedKeyIsForNextEpoch, DealtOrCompleted, CompletedWhileAwaiting,
         DkgOutstanding, ChunkyDkgOutstanding, EpochDealsOnce

\* The first of two results leaves the other awaited, the second ends the epoch.
LEMMA ResultQuiet ==
  ASSUME QuietInv, IInv', FinishWithDkgResult \/ FinishWithChunkyDkgResult
  PROVE  QuietInv' /\ EpochDealsOnce
<1>1. epoch \in Nat \ {0}
  BY DEF QuietInv, IInv, TypeOK
<1>2. CASE Ended
  <2>1. "key" \notin DOMAIN pending'
    BY <1>2 DEF Ended, NoConfigs
  <2>2. epoch' = epoch + 1 /\ in_progress' = FALSE
    BY <1>2 DEF Ended
  <2>3. dkg'.last_completed \in 0..epoch /\ chunky_dkg'.last_completed \in 0..epoch
    <3>1. epoch \in 0..epoch
      BY <1>1
    <3> QED
      BY <1>2, <3>1 DEF Ended
  <2>4. QuietInv'
    BY <2>1, <2>2, <2>3, EnteringQuiet
  <2>5. epoch' # epoch
    BY <1>1, <2>2
  <2> QED
    BY <2>4, <2>5 DEF EpochDealsOnce
<1>3. CASE /\ Halfway /\ UNCHANGED <<chunky_dkg, pending>>
           /\ dkg' = [in_progress |-> 0, last_completed |-> epoch]
  <2>1. dkg'.in_progress = 0 /\ dkg'.last_completed = epoch
    BY <1>3
  <2> QED
    BY <1>1, <1>3, <2>1
       DEF Halfway, QuietInv, BufferedKeyIsForNextEpoch, DealtOrCompleted,
           CompletedWhileAwaiting, DkgOutstanding, ChunkyDkgOutstanding, EpochDealsOnce
<1>4. CASE /\ Halfway /\ UNCHANGED dkg /\ pending' = Upserted(pending, "key", epoch + 1)
           /\ chunky_dkg' = [in_progress |-> 0, last_completed |-> epoch]
  <2>1. chunky_dkg'.in_progress = 0 /\ chunky_dkg'.last_completed = epoch
    BY <1>4
  <2>2. "key" \in DOMAIN pending' /\ pending'["key"] = epoch + 1
    BY <1>4 DEF Upserted
  <2> QED
    BY <1>1, <1>4, <2>1, <2>2
       DEF Halfway, QuietInv, BufferedKeyIsForNextEpoch, DealtOrCompleted,
           CompletedWhileAwaiting, DkgOutstanding, ChunkyDkgOutstanding, EpochDealsOnce
<1> QED
  BY <1>2, <1>3, <1>4, DkgResultQuiet, ChunkyDkgResultQuiet

LEMMA StepQuiet ==
  ASSUME ~Emergency
  PROVE  QuietInv /\ [Next]_vars => QuietInv' /\ EpochDealsOnce /\ EpochEndsWithItsResults
<1> SUFFICES ASSUME QuietInv, [Next]_vars
             PROVE  QuietInv' /\ EpochDealsOnce /\ EpochEndsWithItsResults
  OBVIOUS
<1>1. IInv'
  BY StepKeepsIInv DEF QuietInv
<1>2. CASE FinishWithDkgResult \/ FinishWithChunkyDkgResult
  <2>1. Ended \/ Halfway
    BY <1>2, DkgResultQuiet, ChunkyDkgResultQuiet
  <2>2. EpochEndsWithItsResults
    BY <2>1 DEF Ended, Halfway, EpochEndsWithItsResults
  <2> QED
    BY <1>1, <1>2, <2>2, ResultQuiet
<1>3. CASE ~FinishWithDkgResult /\ ~FinishWithChunkyDkgResult
  <2>1. config.randomness => epoch' = epoch
    BY <1>3, OtherStepsQuiet
  <2>2. EpochEndsWithItsResults
    BY <2>1 DEF EpochEndsWithItsResults
  <2> QED
    BY <1>1, <1>3, <2>2, OtherStepsQuiet, PlainEpochQuiet, StartQuiet, StillQuiet
<1> QED
  BY <1>2, <1>3

\* Without emergencies the encryption key in the buffer is always the one this epoch's
\* validators derived for the next (decryption.move:71, chunky_dkg.move).
THEOREM QuietBuffer ==
  ASSUME ~Emergency
  PROVE  Spec => []BufferedKeyIsForNextEpoch
<1>1. QuietInv /\ [Next]_vars => QuietInv'
  BY StepQuiet
<1>2. QuietInv => BufferedKeyIsForNextEpoch
  BY DEF QuietInv
<1> QED
  BY InitQuietInv, <1>1, <1>2, PTL DEF Spec

\* Without emergencies an epoch with randomness ends with the results of its own sessions, each
\* dealt once, whatever order the results come in (reconfiguration_with_dkg.move:95-103).
THEOREM QuietEpochs ==
  ASSUME ~Emergency
  PROVE  Spec => [][EpochEndsWithItsResults /\ EpochDealsOnce]_vars
<1>1. QuietInv /\ [Next]_vars => QuietInv'
  BY StepQuiet
<1>2. QuietInv /\ [Next]_vars => EpochEndsWithItsResults /\ EpochDealsOnce
  BY StepQuiet
<1> QED
  BY InitQuietInv, <1>1, <1>2, PTL DEF Spec
=============================================================================
