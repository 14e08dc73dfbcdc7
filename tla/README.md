# A verification development for the Topo framework

The repository holds the Move framework of the Topo chain (`src/aptos-framework` and its neighbours),
the Rust natives below it (`src/natives`, `src/table-natives`) and the tools that check, build and
release it (`src/src`, `src/release-bundle`).  Move code runs in transactions that commit as a whole
or not at all, so nothing races *inside* a call.  What is hard to get right, and hard to test, lies

* *between the calls*: validators, stake owners, governance, block prologues and the results of
  distributed key generations come in any order, while state taken at an epoch's start has to stay
  valid until its end;
* *between a session and its storage*: natives keep caches, handles, deltas and counters that must
  mean the same as the Move program over committed state, across sessions, aborts and speculative
  executions;
* *between a check and its use*: keys, hooks, dependencies, packages and proposals are checked once
  and used later, after upgrades, edits or moves.

That is what is modelled here.  One action of a module is one transaction, one native call or one step
of a tool; an abort is an action that is not enabled, or an action of its own where it leaves
something behind.

## The system

| Component (source) | State | Operations | Talks to |
|---|---|---|---|
| Stake pools and validator set (`stake.move`) | four coin stores and a lockup per pool; active, pending active and pending inactive validators; voting powers; joining power; performance scores and fees by validator index | add, unlock, reactivate, withdraw, increase lockup; join, leave, remove; block performance, fees; `on_new_epoch`; simulation of the next set | owners, operators, governance, `block.move`, `reconfiguration.move` |
| Epoch change (`reconfiguration_with_dkg.move`, `reconfiguration.move`, `reconfiguration_state.move`, `dkg.move`, `chunky_dkg.move`, `decryption.move`, `configs/config_buffer.move`, `block.move`) | epoch, time of the last change, reconfiguration flag, two DKG sessions, config buffer, encryption key | block prologues, start, results of either protocol, finish, immediate reconfiguration, buffered config changes | started by blocks and governance, finished by validators' results, calls `stake::on_new_epoch` |
| Governance (`topo_governance.move`, `voting.move`) and its scripts (`release-bundle/src/lib.rs`) | proposals, votes, execution hashes; the scripts of a release | propose, vote, resolve, multi-step execution; `reconfigure`, `force_end_epoch` | stake, epoch change, code |
| POC (`poc/poc_registry.move`, `poc_contribution.move`, `poc_power_store.move`) | applications, three reverse tables, listing, balances; power and last period per user | register, update, pause, resume, stop; list, delist; grant; batches of powers | fungible assets, an off-chain operator |
| Transaction validation (`transaction_validation.move`, `nonce_validation.move`, `account.move`) | sequence numbers, nonce buckets, fees | prologue, epilogue | the virtual machine |
| Objects and permissioned signers (`object.move`, `permissioned_signer.move` and their natives) | owners, references, locks, tombstones; handles, capacities | create, transfer, burn; grant, revoke, spend | accounts |
| Session extensions (`table-natives`, `aggregator_natives`, `transaction_context.rs`, `randomness.rs`, `event.rs`, dispatch natives) | caches, deltas, histories, counters, marks, registered hooks | the natives; change sets; session start, finish, abort | the virtual machine and storage |
| Cryptography (`natives/src/cryptography`) | elements and points of a session | arithmetic, formats, proofs, signatures | Move wrappers in `aptos-stdlib` |
| Packages (`extended_checks.rs`, `built_package.rs`, `code.rs`, `code.move`, `chunked_publish.rs`, `large_packages.move`, `release_builder.rs`) | diagnostics and metadata, artifacts, registries, staged chunks, bindings and bundles | check, build, extract, publish, freeze, upload, release | compiler, developers, the virtual machine |
| Strings (`string_utils.rs`) | - | texts of values, format strings | any module |
| Delegation pools, staking contracts, vesting; JWKs, other configs; coins and assets; standard libraries; trading and tokens | not modelled, see below | | |

`PROJECT.json` lists forty hazards at their lines, each with the properties that cover it.

## Modules

A component's module stands alone; the `MC` modules put several of them side by side for TLC.

| Module | Models |
|---|---|
| `Stake`, `StakeProofs` | `stake.move` with the calls that drive it; its inductive invariant and what no step may do; sums over pools: powers and coins; and, with these sums, the proof of `Governance` |
| `EpochChange`, `Reconfiguration`, `ReconfigurationProofs` | what an epoch change promises; the change in detail, implementing it; both proved |
| `Governance` | `voting.move` with the proposals of `topo_governance.move`: partial votes, early and late resolution, approved hashes, multi-step execution |
| `ReleaseScripts` | the scripts `release-bundle` generates, what running one publishes, and the order of modules |
| `Poc`, `PocProofs` | the POC registry, contributions and the platform's review; proofs of these and of `PocPowerStore` |
| `PocPowerStore` | the operator's batches, written late, again and out of order |
| `TransactionValidation` | sequence numbers and nonces, garbage collection of nonces, charging |
| `Objects` | owners, references, locks, burning, the cache of derived addresses |
| `PermissionedSigners` | handles, grants, expiration, revocation, spending |
| `AccountsProofs` | proofs of transactions, permissioned signers and objects |
| `StringUtils`, `FormatStrings` | the text of a value by its layout; format strings and values with confusable texts |
| `TableStore`, `Tables` | a transactional store of tables; the session's cache of entries, implementing it |
| `AggregatorV1`, `DelayedFields` | counters that are changed without being read, of both kinds |
| `SessionContexts` | unique addresses, increasing counters, randomness |
| `EventStore` | event handles, their identifiers, the context that keeps events |
| `FunctionDispatch` | hooks and authenticators, checked at registration and called after upgrades |
| `SessionsProofs`, `ExtensionsProofs` | proofs of draws and tables; of aggregators, delayed fields, events and dispatch |
| `Algebra` | fields, groups and pairings with their handles, formats and memory limit |
| `RistrettoValues`, `Ristretto`, `RistrettoScalars` | points as values; points as handles into a session's store, implementing them; canonical scalars |
| `RangeProofs`, `BlsSignatures`, `EdSignatures` | provers and verifiers; aggregates; threshold keys and their validations |
| `CryptographyProofs` | proofs of the three rows above |
| `ExtendedChecks`, `PackageBuild`, `Release` | checks of a package, its build and extraction, releases of several |
| `CodePublishing`, `ChunkedPublish` | the registry of packages on chain; uploads in chunks |
| `PackagesProofs` | proofs of the checks, of builds, releases, uploads and packages on chain |
| `MCStake`, `MCProtocols`, `MCAccounts`, `MCSessions`, `MCCryptography`, `MCExtendedChecks`, `MCPackages` | instances for TLC and the properties they check |

**Stake.** `stake_pool[p]` is the `StakePool` resource, `wallet[p]` the owner's coins outside it,
`active_validators`, `pending_active`, `pending_inactive` the vectors of `ValidatorSet` as sets,
`voting_power[p]` the copy in `ValidatorInfo`, `validator_index[p]` the one in `ValidatorConfig`,
`performance` and `pending_fee` functions on validator indices.  Actions carry the names of the
entry functions; `Reconfigure` contains the whole of `on_new_epoch` (update of every current pool,
the choice of the next validators with the emergency fallback, new indices, scores, fees and
lockups).  The order of the vectors only decides the indices, so the model assigns them in an
arbitrary order: more than the code does, never less.  `TryStart` stands for either start of a
DKG and records the set it is dealt to.  Time is a count of block timestamps, several to a second:
seconds drive lockups, timestamps drive `reconfigure`.

**Reconfiguration.** A session is the epoch of its dealers, 0 for none.  `elapsed` is the difference
of the timestamp and the last reconfiguration, the only way time enters.  `config.randomness` stands
for `validator_txn_enabled() && randomness_config::enabled()`.  `pending` is the config buffer, a
function on the names in it; the encryption key is in it as the epoch it was derived for.  The
validators call the prologue that fits the config.  With `Emergency` they may also override
randomness locally and call `block_prologue`, and governance may end an epoch at once
(`force_end_epoch`, or `gas_schedule::set_storage_gas_config`, which reconfigures without a DKG).
`BlockRuns` and `ScriptRuns` say what the comment at `reconfiguration.move:117` relies on: a block
ends after the transaction that changed the epoch, whose own script may go on.

`EpochChange` knows only the enabled and the awaited protocols.  The refinement mapping takes a
protocol as awaited while its session of the current epoch is incomplete (and, for Chunky DKG, the
protocol is enabled), and as enabled by the on-chain config.

**Poc.** Tables are functions on their keys.  `balance` holds what custodies and contributors have
of each token, of which a token's hooks keep `Fee[token]` in a transfer.  `contributed` sums the
contribution events by token and receiver.  The platform's review is external: it looks at an application
(`Review`) and later lists it, in a transaction that names the application only.  `reviewed` and `listed`
remember, for the properties, the token it saw then and the token the listing found; no guard reads them
but that it lists nothing it has never looked at (`MayBeListed`).

**PocPowerStore.** A batch is a function from users to powers, computed once for a period; `delivered`
and `seen` remember what was written and which events readers saw.  Any computed batch may be written
at any time, any number of times, by the operator of the moment.

**Governance.** Pools vote with the stake of the moment, whole or in parts; stake whose lockup ended may
move to another pool.  The scripts are the ones `ReleaseScripts` generates: one upgrade, or a first
step that names the hash of the last.  Resolution is separated from execution only as the code does;
`executed[id]` is the history of the scripts that ran for a proposal, each of which publishes its package.

**TransactionValidation.** A transaction is signed once and may be submitted any number of times.
`Prologue` accepts it, by its sequence number or by inserting its nonce, which also collects some
expired entries of the bucket; the payload succeeds or fails, and `unified_epilogue_v2` charges it.

**Session extensions.**  `Tables`, `AggregatorV1` and `DelayedFields` run a transaction against storage it
may not have read: a table entry is a `GlobalValue` with its operation, an aggregator a delta with its
history, a delayed field an identifier next to the value a speculative execution was shown.  `outcomes`
remembers, for every value an aggregator might turn out to have, what the calls made so far give one by
one.  An event's stream is a set of positions in the log: its events in the order they were emitted.  The
virtual machine decides when a session begins, aborts or finishes; it is external and free to do so
anywhere.  `Tables` implements `TableStore` under the mapping of its cache onto a copy of the store.

**Cryptography.**  The libraries are external.  Fields are residues of small primes, groups of the pairing
curves are given by discrete logarithms, BLS points are bags of what was summed with a part outside the
subgroup, range proofs are what they prove, keys and signatures are sequences of chunks.  That keeps
what the natives are responsible for: which check is made where, in which order arguments are taken,
which handle a result goes to, what is reversed, counted or left out.

**Packages.**  A program is what `ExtendedChecks` reads of it: call graph, attributes, fields, events,
constants.  A source tree is a version number that a build reads three times, to resolve, to compile and to
extract, with edits in between (each reading is one step); a build, a release and an upload may fail at any step
and leave what they have written, also half of the modules with metadata and half without.  The compiler, the
package system and the file system are external.

## Runs

| Run | Question | States | Time |
|---|---|---|---|
| `stake` | Does the validator set stay consistent under joins, exits, removals, stake changes, lockups and fallbacks, at every relation of the clocks? | 684 thousand | 115 s |
| `stake_fees` | Are rewards and fees paid once, to the right store, with rates and caps that round? | 575 thousand | 135 s |
| `protocols` | Do epoch changes, the power store, a proposal and an upload keep their promises, and finish? | 91 thousand | 95 s |
| `accounts` | Grants, replays of transactions, transfers of objects, permissions, texts | see below | 150 s |
| `sessions` | Do the natives with caches, deltas and counters mean what the program says? | see below | 150 s |
| `cryptography` | Laws, formats, subgroups, handles, proofs and signatures | 98 thousand | 165 s |
| `packages` | Are packages checked, built, published and released as claimed? | 649 thousand | 70 s |
| `stake_abort` | "This function shouldn't abort" (`stake.move:1328`) | **violated** | |
| `stake_dkg_target` | The DKG is dealt to the set `on_new_epoch` installs (`stake.move:1634`) | **violated** | |
| `reconfiguration_buffer` | Buffered configs apply with every epoch (`topo_governance.move:662`) | **violated** | |
| `extended_callers` | Every public caller of randomness is reported (`extended_checks.rs:671`) | **violated** | |
| `poc_review` | A replaced token is reviewed again before it counts (`poc_registry.move:110`, `:315`) | **violated** | |

**Instances of Stake.**  `stake` is two instances of one module, chosen by `instance`: *set* has two validators
of genesis and a pool with enough to join them, over two epochs; *clocks* the two with a coin each to add, and an epoch
more, so that each clock meets each lockup.  Every property of the run is checked on both.  The other runs of
`MCStake` are one instance each.

**Parts side by side.**  The parts of `protocols`, `accounts`, `sessions`, `cryptography` and `packages`
share no state in the code that a model of them has.  Such a run chooses one `part` initially and never
changes it; the variables of the others rest in one of their initial states.  The reachable states of
a part are therefore those it has alone, no product is built, and a property of the form `part = "x" =>
...` says of the part what it would say alone.  `MCSessions`, `MCAccounts`, `MCCryptography` and `MCProtocols`
extend the modules of their parts (strings are instances), so that what they check is the very property
the proofs are about.  A property named for a component (`TablesAreTransactional`, `EdKeysAreSound`) is the
conjunction of that component's properties, each stated and explained in its own module.

What each part asks:

* `protocols`: *epochs* - a reconfiguration in progress can always be finished and implements
  `EpochChange`, with forced ends and local overrides; *quiet epochs* - without them an epoch ends with
  exactly its own results, none is dealt twice and epoch follows epoch; *power store* - the newest
  power written stays, and powers settle; *governance* - steps run in order, with a majority, with
  stake that votes once, and none in the second of a vote; *what begins ends* - powers settle,
  proposals are executed to their last step and uploads are over; *upload* - what is published is the package.
* `accounts`: *applications* - the tables are inverse to each other, a listing does not outlive its token, a
  contribution event is a receipt from a listed application; *nonces* and *sequences* - no
  transaction runs twice, nonces are used far apart, sequence numbers in order, and what was accepted
  is charged; *objects* - only owners, through what is unlocked, and references move objects;
  *signers* - spending was granted; *format* and *values* - formats follow their grammar and texts tell
  values apart.
* `sessions`: *tables*, *aggregators*, *fields*, *draws*, *events*, *dispatch*, as in the table of modules.
* `cryptography`: *algebra*, *points*, *scalars*, *ranges*, *bls*, *ed*.
* `packages`: *checks* over 19 thousand small packages; *build*, *code*, *release*; and, as an
  assumption TLC evaluates, that the scripts of every small package publish it and that its modules come
  after their dependencies.

**Disagreements found.**  The five violated runs are disagreements of the code with its own comments,
told as findings in `PROJECT.json`: the fee split divides by the stake of a validator that may have
none; the simulation for the DKG applies an ended lockup to joiners whose pools the epoch change does
not update; `block_prologue` changes the epoch without the config buffer; and the randomness check
misses a caller below a cycle of the call graph until another is marked; a listing sent after the review of one
token whitelists the one the administrator has put in its place.

Nine more were met while modelling.  Each has its property in a module, which fails on the model, and no
run of its own:

| Property | The code | The comment |
|---|---|---|
| `Poc!StopIsFinal` | `pause_app` takes a stopped application out of its state (`poc_registry.move:397`) | a stop is irreversible (`:411`) |
| `EventStore!AbortDropsEvents` with `Continuous = TRUE` | `abort()` keeps the events of an aborted session (`event.rs:49`) | `TODO(sessions)`, "legacy" (`:57`) |
| `BlsSignatures!ValidationCostsAsDocumented` | the subgroup check is charged as a deserialization (`bls12381.rs:167`) | `bls12381.rs:396` |
| `EdSignatures!ValidatedKeysPassTheCheck` | the first validation ignores threshold and number of keys (`multi_ed25519.rs:71`) | "guaranteed to pass this check" (`multi_ed25519.move:280`) |
| `ExtendedChecks!ErrorsAreReported` | a member attribute without arguments stops the run (`extended_checks.rs:382`) | errors are reported (`:85`) |
| `Release!EveryPackageIsReleased` | three lists are zipped to the shortest (`release_builder.rs:59`) | `release_builder.rs:24` |
| `Governance!ApprovedCanBeResolved` | a resolved proposal's hash can be approved again (`topo_governance.move:596`) | "Ensure the proposal can be resolved" (`:594`) |
| `Objects!UntransferableIsNotMoved` | `unburn` moves an untransferable object (`object.move:630`) | "cannot be moved" (`:118`) |
| `FormatStrings!IntegersCarryTheirType` | `to_string_with_integer_types` passes the arguments of another function (`string_utils.move:30`) | `:28` |

**Bounds.**  A bound is a constant that a guard or an initial state uses, named where it is declared.

* *Stake:* `MaxTick`, `MaxEpoch`, `MaxProposals`, `MaxFailures`, `MaxFee` cap counters.  Two pools
  suffice for every property that relates a joiner, a leaver and a remaining validator's index; two
  epoch changes suffice to see what one leaves behind for the next.  Stakes of one to four coins with
  an increase limit in percent make the limit, the minimum and the maximum each bite.
* *Reconfiguration:* the state depends on the epoch only through comparisons with the current one; four
  epochs let a session, a key and a buffered config of one outlive it by two.
* *Power store:* three periods of two users: a stale, a current and a newer batch that overlap.
* *Governance:* one proposal, two pools, two moves of stake, five seconds: a vote, its end, an execution
  in two steps and a lockup that ends in between.
* *Upload:* chunks of 3, up to three modules and parts of up to 4 bytes: a part below, at and past the
  limit; two uploads, so that one is given up before another.
* *Poc:* two of everything is what an address given up by one application and taken by another needs.
* *Transactions:* an overlap of 2 in 6 seconds with one entry collected per call, so that collection lags;
  sequence numbers 0 and 1 of two senders, sponsored or not, with and without an account.
* *Objects:* two objects that may own each other, two accounts, one kept reference (`MaxRefs`) and one
  linear one: enough for a chain at the nesting limit of 2, and for a reference that outlives a lock.
* *Signers:* two storages, capacities up to 2 and three grants: two signers of a handle that share one
  capacity, and a grant between their uses.
* *Sessions:* two sessions and two created tables, aggregators or fields at least; limits of 2 to 5 so that
  additions overflow; two calls before and after a read; a module that is upgraded and one at a special address
  for dispatch (of which `account_abstraction` may be named as a hook, and not as an authenticator); two types of
  events.  The counter of random draws is not drawn past its last value
  (`ByteMax` in every byte), as 2^64 draws are not reached.
* *Cryptography:* the smallest primes for which Gt is a proper subgroup (of order 3 in the units of 7, and of
  order 2 in those of 5), so that a number that is no element of it can be read or cast; a group of order 5
  for Ristretto; two variables, products of two terms, limits on memory (5: one element of Fq12 and another)
  and points (2) that bite; two signers; keys of one more sub-key than is allowed (`MaxSubKeys` = 2); batches
  of up to 3, since a proof is for 1, 2, 4, ... values.
* *Packages:* two packages of one module, three publications, one dependency; two to five functions, two
  structs, two constants; one edit and a failure at any step.

Symmetry is used for pools of equal grants, objects' users and table values, and only in runs without
liveness.  Deadlock is not checked where a part may stop: a finished upload, script or build.

**Fairness.**  Liveness is checked for the parts of `protocols`, each under its own weak fairness.
`EpochsFollow`: consensus keeps producing blocks and their time passes (`NewBlock`), and while a session
of the epoch is open the validators, with an honest quorum, publish its result.  Governance may act for
ever or never.  `WhatBeginsEnds` has three parts.  `PowersSettle`: the operator repeats a batch until it sees it written.
`ExecutionFinishes`: somebody submits the next script of a proposal whose execution has begun.
`UploadsEnd`: a publisher goes on or gives up.  Nothing else is assumed fair.

## Proofs

The theorems hold for every value of the constants that satisfies the named assumptions, each declared
beside its constants and evaluated by TLC in the runs that extend the module.  Some have a
hypothesis of their own (`~Emergency`, `~Continuous`), said below.

*Stake.*  `StakeInv` joins the type invariant, `OneStanding`, `IndicesNumberTheEpoch`,
`VotingPowerIsStaked` and `PendingActiveIsPickedUp`.  They need each other: that a pool's power is
staked depends on add_stake putting the coins of a current validator into `pending_active`, which is
empty after an epoch change only because no other pool has any; that indices number the epoch
depends on the vectors being disjoint.  The step is proved action by action; the epoch change, the
long one, goes through lemmas on what `UpdateStakePool` returns and on what a numbering is.

What no step may do follows from `StakeInv` and one more fact, that a running
reconfiguration started no later than now (`StartedBefore`): without it a renewed lockup could end before the
time the epoch change measures lockups at.  `ReconfigurationHoldsStill` follows from the gate of each action.
For `StakeHeldUntilLockupEnds` every action but `Withdraw` and `Reconfigure` keeps or raises a pool's power;
`Withdraw` frees stake only after the lockup, with no reconfiguration running, and `Reconfigure` adds a natural
(`MintedNat`) unless the lockup has expired.

The last part of `StakeProofs` is about sums over pools.  The sum of the community modules is a fold, a recursive function
under a `CHOOSE`; it is first shown to exist and to be unique, then additive, by taking a minimal set for which
this fails.  What changes one pool changes a sum by the difference at that pool, which is all that most
actions need: `PowerCountCorrectness` follows them action by action, `CoinCorrectness` adds owners' wallets and
what is minted, and both end with the epoch change, which redistributes every pool at once.

*Governance.*  `GovernanceInv` says of each proposal what its history, its votes and the list of approved
scripts have to do with each other (`IsSound`).  The script a proposal waits for is what the last one named
(`RunsInOrder`), and one whose execution began is closed, so neither votes nor time can take its majority
away.  That stake votes once is not inductive by itself, as stake moves: `VotesAreStake` adds that the power a
pool used is covered by the power it has until its lockup ends, and that this lockup ends after the vote does.
Whoever still may vote therefore finds all used power in its place, and the total, which moving
stake and rewards do not lower, bounds the votes also afterwards.

*Reconfiguration.*  `IInv` adds to the type invariant that a reconfiguration in progress awaits a
result of its epoch, that no session is awaited outside one, and that Chunky DKG is enabled while it
is awaited.  `ConfigStability` follows step by step, and `ReconfigurationImplementsEpochChange` maps
each action to a step of `EpochChange` or a stutter.

`QuietBuffer` and `QuietEpochs` assume `~Emergency`, which they need: an emergency ends an epoch without its
results and may leave a key in the buffer.  `QuietInv` adds to `IInv` what a reconfiguration in progress has of
each enabled protocol, a session dealt or a result (`DealtOrCompleted`), and that a result is there only while the
other one is awaited (`CompletedWhileAwaiting`); so the last result finds the other one complete and its key in
the buffer, and a session that completed is not dealt again.

*Poc.*  `PocInv` joins the type invariant, `TablesAgree` and `WhitelistedTokenIsListed`.  Two lemmas on `Added` and
`Moved` carry the tables: adding a fresh key, or moving a key to a fresh one, keeps a table the
inverse of the field it indexes.  A listing is of the token the application has at that moment, and every change
of the token resets it; that the token was reviewed is no theorem, as run `poc_review` shows.

`EventStep` says what a step that emits an event looks like; `ReceiptCorrectness` is then the assertion on the
deposit, and `EventOrigin` leads from the application's address through the
tables, which are inverse, to its token and to the only account that can have paid.  `ContributionEventsCorrectness`
is both, as the run checks them.

*Power store.*  `NewestWrittenWins` and `EventsTellTheStore` are inductive together with the type
invariant.  A write splits on the users it writes and the ones it skips: `WrittenOrNewer` says what either
has afterwards, `BatchesStay` that computing another batch does not change those there are.

*Transactions.*  `RunsAtMostOnce` is not inductive: what keeps an accepted transaction out
afterwards is its nonce in the history, or its expiration once the nonce was collected, or its sequence
number.  `Remembered` and `SequenceUsed` say so; `NoncesAreFarApart` and `MapsAgree` complete that part.
The lemma `InsertKeeps` says that inserting a nonce loses no entry another transaction could
still meet, however many are collected at a time and however nonces fall into buckets.
`TransactionsRunInOrderAlways` adds `FinishedInOrder`, on the transactions that are not running any more, and
`RunningIsChargeable`: the prologue's balance covers the fee, and a sender without an account has one by the
time its number is counted because it is sponsored or the feature for default accounts is on.

*Permissioned signers.*  `StoragesAreUnique`: an address is given to one handle ever, and before that
nothing was granted or consumed there.  Then creating, destroying, revoking and updating are four lemmas,
whichever of the entry points does it.

*Objects.*  `LocksHold`: what is untransferable exists and is locked, which closes the transfers by owners; and
what a reference moved to the burn address has no tombstone, since only accounts burn and `transfer_with_ref`
removes the tombstone (`BurnAssumption`: nobody signs for the burn address).  `CacheIsRight` needs that the
cache's key holds both arguments.  `OwnersAreReached` shows that whom `verify_ungated_and_descendant` lets pass
is in every set closed under the owners of unlocked objects, by the first step of the walk that leaves such a set;
no bound on objects or depth enters.

*Draws.*  The random counter is a little-endian byte string.  `Smaller` orders its states, `IncrementGrows` says
that a carry through any number of bytes still goes up, and a draw's place is its session and then its state;
the place grows with every draw, hence none repeats.  Unique addresses and hashes follow by their own counters.

*Tables.*  `TablesImplementTheirStore` is the refinement: the invariant says that an entry's operation fits what
storage has under its key, that what was only read is as stored and that no entry outlives its table; each native
then maps to one step of `TableStore` on the tables as the session sees them, and each cache fill to a stutter.

*Aggregators.*  `outcomes` replaces the list of calls by what they give for every base.  The invariant says of each
running aggregator which bases its delta and its history admit; adding or subtracting moves the extremes of the
history exactly by what excludes the bases for which a call would have failed.  *Delayed fields* are alike,
with the bounds that a read or a failed call leaves behind.

*Events.*  The log of committed events followed by those of the session is one sequence, and a stream a set of
its positions.  `Sound` says that the events of a handle are numbered as its counter counts; a step that emits
extends one stream by one, and a failed payload falls back to the sound prefix.  The theorem assumes
`~Continuous`, that a failed payload's events are dropped; with `TRUE` it is false, as the table above says.

*Dispatch.*  Upgrades are compatible, so that a type that was checked stays the type, for the hooks and the
accounts' own authenticators (`TargetsSuit`, of what is registered and of what an abort would go back to).
Loading a target records it, so it is found loaded unless it is at a special address and no flag is on.
Derivable authenticators are registered by name, unchecked: nothing is said of their type, and a call may find no
module; the theorem says that no other call does.

*Builds and releases.*  `BuildInv` says for each stage of a build what has been checked and injected, that a
module on disk is one of the package it was written for, and that every file, whichever build left it, has metadata
only if that build's checks let it (`GoodFile`); nothing is injected before the compiler has run.  `DigestInv`
follows the sources through their three readings.  The digest is that of the first: an edit between resolution
and compilation gives code that the digest does not identify, and the theorem excludes exactly that edit.
`ReleaseInv` says that what a release has packed so far is a prefix of the entries all three lists have,
with each package's bindings of the version that was packed, and that a finished one has them all.
`ReleaseAssumption` is that a custom release names a package once: with two entries of one package and an edit in
between, the bindings written last would not be those of the first.

*Packages on chain.*  `Agree(R, M, W)` relates packages `R` to modules `M` but for the modules `W` a request is to
write: between `publish_package` and the end of the payload the registry is ahead of the modules, by one package,
whose request `Stands` for.  Publishing keeps it because `check_upgradability` lets no module go and no policy
weaken, so that what was declared stays declared; freezing because the dependencies are checked again; serving the
request because the virtual machine checks what the modules use against what was allowed at the request, and
that is still declared.  One request a session, and none while initializers run, keeps `W` to one package.
`Continues` carries the immutable packages and the policies from what is committed to what the session sees.

*Uploads in chunks.*  What is cut, filled and staged is computed by loops, here recursive functions.  A run
(`IsRun`) is shown to exist and to be unique by a least counterexample (`NoLeast`), and what a loop keeps is
shown the same way.  `MadeUpto` is the invariant of the loops that make payloads: what has been made so far
is within the limit and in order, and staging it on an empty area gives exactly the chunks taken so far
(`Progress`), through areas that are each a beginning of the package (`Replays`).  `UploadInv` then says that the
payloads of an upload are such and that the staging area is the one of the payloads sent; the
last payload finds the whole package.  `ChunkedPublishAssumption` is that a package has at most 2^16 modules, as
beyond that an index wraps (`idx as u16`, `chunked_publish.rs:79`) and two modules would be joined.

*Extended checks.*  `ChecksInv` says of every check that has been over a module, by its place in the order of
the calls, what it has left (`PassedCheck`, `Checked`): an error, or the metadata that other nodes rely on.  The
hard part is the walk that looks for callers of randomness, with a cache that all the functions of a package
share.  `visit` is a recursive function on the calls still to look at; it is shown to be one by a rank, the
functions unknown to the cache and then the place in the loop, and what it leaves by a minimal counterexample
over this rank.  The cache is right (`Sound`) only while nothing has been marked as an error, which is exactly as
much as the property says and as the violated run `extended_callers` leaves over.  `ChecksAssumption` says
that names mentioned in a package are names of the package; `Families` is arbitrary.

*Cryptography.*  The facts about sums, remainders and powers come first; each is a recursion whose existence has
to be shown before anything can be said of its values (`RecursionUpTo`, `InductiveSet`).

* *Keys of several keys.*  `EdInv`: what the program holds was parsed, and what was validated by the second
  validation satisfies it still; the property is then one of the validations and of the verification.
* *Range proofs.*  `ProofInv`: the commitments kept are those of the proof kept, and what a verification said
  of them is judged against what the proof is a proof of, not against what was asked when it was made.
* *Points and scalars.*  `PointInv`: handles are live, no two variables share one, the store is within its
  limit.  Under the mapping of each variable to the value its handle finds, every native is a step of
  `RistrettoValues` or a stutter; in-place operations need that handles are not shared.  The logarithm that
  the gas of a multi-scalar product divides by is bounded by a minimal counterexample.  Scalars stay residues,
  so no native meets an encoding it rejects; that they form a field needs a prime order (`OrderAssumption`).
* *BLS.*  `BlsInv` keeps with each aggregate the keys and signatures it was made of, and that all keys are in
  the subgroup.  Without the latter the verifications that leave the subgroup check out would accept keys
  that differ by an element of low order; with it the bags of signers decide.
* *Algebra.*  `AlgebraInv` says that the value of an element is one of its *structure* (`Carrier`), where the
  session knows its Rust type only.  Casts need this: they give one handle two structures, of one type, and
  only the subgroup check of `downcast` and of `deserialize` tells them apart.  That arithmetic stays in a
  structure and is invertible, and that the pairing is bilinear, are laws of exponents; that the
  generator of Gt has exactly the order of the group follows from that order being a prime.  Fields are
  residues of primes and Fq12 is one of them (`AlgebraAssumption`): the theorem is about what the natives
  do with handles, formats, notations and subgroups, not about the curves.

*Only model-checked.*  Liveness (the last conjunct of `QuietEpochsGoOn`, and `WhatBeginsEnds`), which the
provers do not reach; and what is computed by recursive operators over data, as the code does: the
scripts of `ReleaseScripts` and the string modules (`TextIsFaithful`).  Every other property of the passing runs has
its theorem.  That `U256Range` is
exact and a permutation uniform are assumptions TLC evaluates for small widths.

## Not modelled

Of the Rust sources: the registration tables of natives, hashing, BCS, type information and reflection,
which are pure functions; gas parameters; generated transaction builders (half of the lines of code);
command lines, documentation and the prover's driver.  Of the natives that are modelled: gas, except where
a property is about it, and layouts of values.

Of the framework: signatures and capabilities, arithmetic overflow of coins (bounded by the supply), the
contents of configs, key rotation and network addresses, the decreasing reward rate, delegated voters,
multisig accounts, and the components marked `not_modelled` in `PROJECT.json` with their reasons.
Delegation pools, staking contracts and vesting are share accounting over `Stake`; coins and fungible
assets are sequential ledgers that `Stake` and `Poc` use as balances; the order book and confidential
assets are experimental; the storage usage is one register whose agreement is decided in another
repository.  A script that ends an epoch, starts the next reconfiguration and then forces its end would
leave it in progress with nobody to finish it (`reconfiguration.move:131`); nothing in the repository does
that, and the guard of `ForceEndEpoch` excludes it.

## Plan

Done, in this order: `Stake`; `EpochChange`, `Reconfiguration` and the refinement; `Poc`; the session
extensions with the refinements of tables and points; cryptography; packages; `Governance` over the
scripts of `ReleaseScripts`; `PocPowerStore` and `TransactionValidation` with their proofs; objects,
permissioned signers and strings; the composition of all runs into the ones above; the proofs of sums over
pools, of the session extensions, of permissioned signers, of objects and of packages; the proofs of the
cryptographic natives, of the extended checks, of governance proposals and of uploads in chunks.

What would come next:

1. `Stake` under `Reconfiguration`, so that the gate of `stake.move` is the flag of
   `reconfiguration_state` and the simulated set is the one of the sessions.
2. `DelegationPool`: shares, observed lockup cycles and the rounding of `pool_u64_unbound`, over one pool
   of `Stake`.
3. Strings by recursive functions instead of recursive operators, for `TextIsFaithful` to be proved as
   well; delegated voters and batches of votes in `Governance`.
