----------------------------- MODULE MCProtocols ----------------------------
(* The protocols that take many transactions, side by side: the change of   *)
(* the epoch, with emergencies and without; the power store's periods; a    *)
(* proposal from its votes to its last script; and the upload of a large    *)
(* package.  They share no state here, so each behaviour is one of the      *)
(* protocols `part' and leaves the others alone.                            *)
EXTENDS Reconfiguration, PocPowerStore, Governance, ChunkedPublish, TLC

CONSTANTS p1, p2, a, b    \* model values

VARIABLE part

mc_vars == <<part, vars, power_store_vars, governance_vars, upload_vars>>

\* Epochs in which no validator overrides randomness and governance does not force the end.
Quiet == INSTANCE Reconfiguration WITH Emergency <- FALSE

\* Scripts that upgrade one package, and that upgrade one after the other.
Release == INSTANCE ReleaseScripts WITH ChunkSize <- 2
Single == Release!generate_script_proposal_impl(a, "single", NoHash)
LastStep == Release!generate_script_proposal_impl(b, "multi", NoHash)
FirstStep == Release!generate_script_proposal_impl(a, "multi", LastStep)
MCScripts == {Single, LastStep, FirstStep}

MCPower == p1 :> 2 @@ p2 :> 1
MCLockedUntil == p1 :> 3 @@ p2 :> 5

MCInit ==
  /\ part \in {"epochs", "quiet epochs", "power store", "governance", "upload"}
  /\ Init /\ PowerStoreInit /\ GovernanceInit /\ UploadInit
  /\ part \notin {"epochs", "quiet epochs"} => ~config.randomness /\ ~config.chunky
  /\ part # "power store" => operator = CHOOSE o \in Operators : TRUE

MCNext ==
  \/ part = "epochs" /\ Next /\ UNCHANGED <<part, power_store_vars, governance_vars, upload_vars>>
  \/ part = "quiet epochs" /\ Quiet!Next /\ UNCHANGED <<part, power_store_vars, governance_vars, upload_vars>>
  \/ part = "power store" /\ PowerStoreNext /\ UNCHANGED <<part, vars, governance_vars, upload_vars>>
  \/ part = "governance" /\ GovernanceNext /\ UNCHANGED <<part, vars, power_store_vars, upload_vars>>
  \/ part = "upload" /\ UploadNext /\ UNCHANGED <<part, vars, power_store_vars, governance_vars>>

\* Each protocol keeps its own fairness; that of the others is idle.
MCSpec ==
  /\ MCInit /\ [][MCNext]_mc_vars
  /\ WF_vars(part = "quiet epochs" /\ Quiet!NewBlock)
  /\ WF_vars(part = "quiet epochs" /\ Quiet!FinishWithDkgResult)
  /\ WF_vars(part = "quiet epochs" /\ Quiet!FinishWithChunkyDkgResult)
  /\ PowerStoreFairness /\ GovernanceFairness /\ UploadFairness

-----------------------------------------------------------------------------
(* What each protocol promises, besides the properties of Reconfiguration   *)
(* and PocPowerStore                                                        *)

\* Without an emergency an epoch with randomness ends only with the results of its own sessions, none
\* is dealt twice, a buffered key is for the next epoch, and, with blocks coming and the validators
\* dealing, epoch follows epoch (reconfiguration_with_dkg.move, dkg.move, chunky_dkg.move).
QuietEpochsGoOn ==
  /\ [](part = "quiet epochs" => Quiet!TypeOK /\ Quiet!BufferedKeyIsForNextEpoch)
  /\ [][part = "quiet epochs" =>
          Quiet!EpochEndsWithItsResults /\ Quiet!EpochDealsOnce /\ Quiet!EpochChangeStep]_vars
  /\ part = "quiet epochs" => Quiet!EpochsFollow

\* What is begun is finished by those who do their part: the operator's powers settle, a proposal in
\* execution is executed to its last step, an upload is published or given up
\* (poc_power_store.move, voting.move, chunked_publish.rs).
WhatBeginsEnds == PowersSettle /\ ExecutionFinishes /\ UploadsEnd
=============================================================================
