---------------------------- MODULE EpochChange ----------------------------
(***************************************************************************)
(* What reconfiguration_with_dkg.move promises its callers: an epoch ends  *)
(* at once, or when every protocol that deals for the next epoch has given *)
(* its output; a reconfiguration is in progress exactly as long as such an *)
(* output is awaited; which protocols deal changes only with the epoch, or *)
(* later where none does.                                                  *)
(***************************************************************************)
EXTENDS Integers

CONSTANTS
  Protocols,  \* the protocols that may deal for the next epoch
  Emergency   \* whether an epoch may be ended without waiting for them

VARIABLES
  epoch, in_progress,
  enabled,    \* the protocols an epoch waits for, by its on-chain config
  awaited     \* those that deal and have not given their output

vars == <<epoch, in_progress, enabled, awaited>>

Init ==
  /\ epoch = 1
  /\ in_progress = FALSE
  /\ enabled \in SUBSET Protocols
  /\ awaited = {}

\* The validators of the epoch begin to deal.
Deal ==
  /\ awaited = {}
  /\ enabled # {}
  /\ awaited' = enabled
  /\ in_progress' = TRUE
  /\ UNCHANGED <<epoch, enabled>>

\* One protocol gives its output and another one is still awaited.
Output(protocol) ==
  /\ protocol \in awaited
  /\ awaited' = awaited \ {protocol}
  /\ awaited' # {}
  /\ UNCHANGED <<epoch, in_progress, enabled>>

\* The next epoch begins: with the last output, at once where nothing is dealt,
\* or in an emergency.
Enter ==
  /\ \/ \E protocol \in awaited : awaited = {protocol}
     \/ enabled = {}
     \/ Emergency
  /\ epoch' = epoch + 1
  /\ in_progress' = FALSE
  /\ enabled' \in SUBSET Protocols
  /\ awaited' = {}

\* Where no protocol deals, the configuration may be amended after the epoch began.
Amend ==
  /\ enabled = {}
  /\ enabled' \in SUBSET Protocols
  /\ UNCHANGED <<epoch, in_progress, awaited>>

Next == Deal \/ (\E protocol \in Protocols : Output(protocol)) \/ Enter \/ Amend

Spec == Init /\ [][Next]_vars
=============================================================================
