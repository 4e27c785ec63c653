# A TLA+ model of DOM Wallet V3

DOM Wallet V3 is a desktop wallet (Rust, Tauri) for an interactive-transaction
chain. This directory models the parts where an unlucky order of events loses
money, data or progress: the encrypted storage, the life of a send, scanning a
chain that reorganizes, the exchange between two wallets, the reservations and
sessions of swaps, how wallets are created and restored, the threads of the
desktop application, its updates, its node and its miner. TLC checks the models
on small instances; TLAPS proves the central properties for every value of the
constants.

## The system

| Part | Source | Model | Run |
|---|---|---|---|
| Generation storage, commit, conflict recovery | `dom-wallet-storage`, `-core`, `-core-sync` | `GenerationStore`, `AtomicStore` | `store` |
| Transaction record (lifecycle, exposure) | `dom-wallet-domain` | `TransactionLifecycle` | `sends`, `reorgs`, `exchange` |
| Sends, submission, cancellation | `-core`, `-core-submit` | `WalletTransactions` | `sends` |
| Outputs, reservations, scan commits | `-domain`, `-core-restore`, `-core` | `WalletTransactions` | `reorgs` |
| Balance, summaries, submission results | `-domain`, `-core`, `src-tauri` | `WalletViews` | (see below) |
| Requests of a scan, follow loop, remote source | `-core-sync`, `-remote-source`, `-core-restore`, `src-tauri` | `ChainScan` | `chain_scan` |
| Slate exchange, QR frames | `-core`, `-core-protocol`, `src-tauri` | `SlateExchange` | `exchange` |
| Scriptless funding and payout | `-core`, `-domain`, `-core-restore` | `ScriptlessReservations` | `scriptless` |
| Swap sessions and negotiation | `-core`, `-domain`, `-swap-client`, `src-tauri` | `SwapSessions`, `SwapNegotiation`, `SwapDesk` | `swap` |
| Creation, restore, backup import | `-storage`, `-core`, `-core-restore` | `WalletProvisioning` | `provisioning` |
| Activities, workers, shutdown | `src-tauri` | `DesktopShell` | `shell` |
| Update of the application | `-updater`, `src-tauri` | `WalletUpdate` | `updates` |
| Managed node process | `-node-manager`, `-updater` | `ManagedNode` | `managed_node` |
| Embedded node, miner, status | `-embedded-core`, `src-tauri` | `EmbeddedNode`, `WalletMiner`, `NodeStatus`, `MiningNode` | `mining_node` |
| DOM node (external) | used through `-core-sync`, `-core-submit` | `Node` | `sends`, `reorgs` |

How the parts interact: one mutex guards the wallet service. A command clones
the decrypted state, changes the clone and commits it as a new generation. A
scan takes the state out of the service, commits page after page, and puts the
result back. A submission commits, calls the node, and commits again; a crash
may fall anywhere between. The node mines, forgets and reorganizes on its own.
Commands of the application run one at a time on its main thread; workers for
synchronization, mining and the start of the node, and the update task, run
beside it and share the mutex and a set of activity leases.

Each composite is checked at the level its neighbours promise: `GenerationStore`
implements `AtomicStore` (run `store`, theorem `Refinement`), which is why a
commit is one step, that takes effect or not, everywhere else. `ChainScan` takes
apart the requests that `WalletTransactions` makes in one step.
`MiningNode` composes the embedded node, the miner and the commands, `SwapDesk`
the sessions and the negotiation, and `DesktopShell` the workers in which they run.

## Modules

**`GenerationStore`**: the wallet directory. `active`, `metadata`,
`generations` and `marker` are files; `view` is the decrypted state in memory;
`op` is the storage call in progress and its last completed write. A commit is
`Begin`, `CheckExpected` or `Conflict`, `RemoveUnpublished` (`RemoveDirectory`),
`WriteGeneration`, `RecordPreMigrationSnapshot`, `PublishPointer`,
`PublishMetadata`, `CommitReturns`: one step per durable write. `CallFails` and
`Crash` may follow any of them. `LoadRepairs` completes an interrupted
publication. `CleanupSuperseded` and `ReleasePreMigrationSnapshot` are public
operations of the storage crate that only its tests call today. Encrypted
content is abstracted to the set of updates it contains. Writes through
`atomic_write_private` are atomic (temporary file, sync, rename);
`remove_dir_all` is two steps, since it unlinks the envelope first.

**`AtomicStore`**: what the directory promises: one durable value, replaced as
a whole, and acknowledgements only of what it contains.

**`TransactionLifecycle`**: operators on one record: the edges of `transition`
with their evidence, the exposure they raise, the floor `validate` demands.

**`Node`**: canonical chain, block contents, and the transactions the network
may still mine. Height 1 funds the wallet and is never reorganized away.

**`WalletTransactions`**: the sends of one wallet, its outputs, its scan. `txs`,
`outputs` and `scanned` are durable, so one commit is one step; `AtomicCommits`
is what justifies that. `SendReserve`/`SendBuild` and
`SubmitBegin`/`NodeAnswers`/`SubmitEnd` are the commands with two commits, and
`CommandCut` ends them early. `CommitPage` is the whole of the scan sink's
commit: outputs, spends, maturity refresh, kernel evidence, expiry, cursor.
`SyncReorg` puts the rewind and the restored reservations in front of it, in
the same commit. `bound` is the subset of a send's inputs whose record still
has the id in `reserved_output_ids`; a record that is dropped and found again
has a new id.

**`WalletViews`**: functions of those records that the commands show: balance,
transaction summary, submission result. An amount is the set of outputs that
make it up.

Abstractions in `WalletTransactions`: amounts (selection takes a prefix of the
spendable outputs in value order, as the code does for some amount); coinbase
immaturity (funds are ordinary outputs); scriptless reservations (the subject of `ScriptlessReservations`);
the reorganization depth limit and the pruned block window (larger than any
fork here; they are in `ChainScan`); readiness and identity checks (refusals that change nothing). The
`confirm_exported` flag of a cancellation is taken as given by the user.

**`ChainScan`**: one worker scanning from a remote node. `Bootstrap`,
`CheckCursor`, `FetchPage`, `ConfirmTip`, `CommitBatch`, `FindSafeAnchor`,
`BindAnchor`, `ConfirmPrevious`, `CommitReorg` are the requests and commits of a
pass, and `ChainMoves` may fall between any two. A hash is the path of branch
choices to its block, so equal hashes have equal histories. A wrong page differs
from the node's in its bodies, links, range, tip or identity. `FollowLoop` maps
the error of a pass as the code does and decides whether the worker ends.

**`SlateExchange`**: a sender and a recipient. `texts` is every text shown to a
user, so a text can be delivered never, late, or again. A response is named by
the coordinate it was built with. `slate_response_create` and `ResponsePrepare`
are its two commits. `qr` is the frame assembler of `src-tauri`.

**`ScriptlessReservations`**: reservations with their own state machine, the
output records they own, and a scan that rewinds and rescans. A command is one
action per reservation; `Page` is the whole of a scan commit, restoration of
reservations included; a rewind to the node's tip is committed without blocks. `handed` is what has left the wallet.

**`SwapSessions`**, **`SwapNegotiation`**, **`SwapDesk`**: the durable sessions
and their leg indices; the RFQ client with one signed chain per solver and an
unordered mailbox that repeats; both together for one session. A request carries
its route and deadline, so one that is made again after a failure may differ from
the first. A flow whose sequence is used up refuses the message after it was signed. The channel that
will drive the client does not exist in the code. `SwapDesk` puts in its place
the order the client's documentation asks for.

**`WalletProvisioning`**: what is at each place of a name (`root` and the hidden
siblings of creation, import and staged restore). One action per durable step;
`CommandFails`, `SeedFails` and `AppCrash` may follow any. During a staged restore
or a synchronization the tip may move up and down: a commit is the next page, or a
rewind with the page that follows it. A rescan forgets the cursor of an open wallet.

**`DesktopShell`**: `main` is the command in progress, a sequence of steps of
which some wait for a worker. `sync`, `mining`, `node` are the runtimes with
their worker threads, `updater` the update task. The commands in
`Unguarded` are not refused while recovery is required, and a refused start of the
miner may retire a dead node as the status command does. The mutex is held across steps
only by a synchronization pass.

**`WalletUpdate`**: cycles as tasks that stop at every await, the shared
`control`, and the one staging file. What the feed serves is an input. A
download whose file was unlinked goes on writing to a file without a name.

**`ManagedNode`**: a promotion is taken apart at each touch of the disk or of a
process. `proven` records the releases that came up. A stop whose kill or wait
reports an error drops the handle, and the process may live on. `promote_signed_release` is
public, and no command of the application calls it yet.

**`EmbeddedNode`**, **`WalletMiner`**, **`MiningNode`**: owner, runtime thread and
node task with the atomic word and channels between them, one step per load or
store that the other can observe; the mining loop, its rounds and worker threads
over a chain and metrics that change separately; both under the commands. The
runtime thread may panic, and a stop may cancel a start that is still under way.

**`NodeStatus`**: the status functions of the application as operators:
readiness, synchronization flag, mining gates, peers, hash rate, thread count,
mesh ports. Named `ASSUME`s, evaluated by the run `mining_node`, say where
functions written apart must agree, over small sets of observations;
`ChainSourceProofs` proves three of them in general. The status command's side
effect (retiring a dead backend) is an action of `DesktopShell`.

**`MCGenerationStore`**, **`MCWallet`**, **`MCScriptless`**, **`MCSwapDesk`**: values
and symmetry for TLC; `MCWallet` also states what the documents say where the code
does something else. The other runs use their module as it is.

## Runs that pass

| Run | Instance | Distinct states | Shows |
|---|---|---|---|
| `store` | 2 updates, generations 0..3, 2 attempts, 2 faults | 66,560 | `AlwaysLoadable`, `AckedIsDurable`: after a fault behind any durable write the directory loads and holds every acknowledged update; `PublishedImmutable`; `AtomicCommits`: it implements `AtomicStore`; `StaleSyncCommits`: the conflict retry of a stale scan succeeds |
| `sends` | 2 sends, 2 funds, height 2, 2 blocks, pages of 1; reconcile and export | 139,914 | `HandedIsExposed`, `CancelledNeverHanded`, `ExposureMonotone`: what went to the node stays known and is never cancelled; `InputsHeld`: its inputs stay reserved |
| `reorgs` | 1 send, 1 fund, height 3, 4 blocks over all forks, pages of 2; reorg and rescan | 18,144 | `ProjectionFaithful`: the outputs equal a scan from scratch; `OnChainIsSettled`, `ConfirmedInScannedBlock`; `SyncCatchesUp` |
| `chain_scan` | 2 branches, height 3, 3 moves of the node, 1 wrong answer, 1 rescan, page 2, depth 2, window 2 | 220,742 | `ScannedIsAChain`, `ScannedIsReal`: what is committed is linked and was real although the node moved between requests; `ReachesTip` |
| `exchange` | 2 slates, 2 coordinates, 2 frames; one slate expires, one is scanned | 489,095 | `OneTransaction`: one finalized transaction per slate under repeated and reordered texts; `ResponsesBacked`: a shown response has its durable coordinate; `OnlyWholeTexts` |
| `scriptless` | 1 ordinary input, a payer and a claimer of 1 session, 2 offsets, shares and templates, height 3, 1 rewind | 44,852 | `RetainedInputsHeld`, `OneComposition`, `BatchesCommit`: a scan batch is never refused because of a reservation |
| `swap` | 2 sessions, 1 route, 2 solvers, 4 quotes (one forged, one answering another request), gap 1, 2 quote deadlines, 1 failed commit, 1 restoration | 568,816 | `OneLegPerSession`, `NoEquivocation` (no two messages signed at one sequence number), `FinalStaysFinal` |
| `provisioning` | 1 name, 2 seeds, 3 blocks | 125,568 | `AtomicActivation`: a wallet appears whole; `StagedIsComplete`; `WalletKept`: it is never replaced by another |
| `shell` | 1 wallet, both sources, 17 commands | 445,219 | `LeasesOwned`, `SafePointHolds`, `ShutdownComplete`: nothing runs after shutdown; `CommandsReturn` |
| `updates` | 2 cycles, 3 versions | 96,048 | `OnlyValidatedIsInstalled`: the installed file passed validation in its own cycle; `FlagIsReleased` |
| `managed_node` | 3 releases, 3 state sequences | 42,894 | `AcceptedIsProven`, `RunsThePointer`, `AcceptedAdvances` |
| `mining_node` | 2 mining threads, 1 block above the start | 652,418 | `NodeGone`: a stopped node has no task or thread; `WinnerOfRound`; `StopsReturn` |

Bounds. `store`: two faults are needed for a fault during recovery from a fault;
two updates for one to overtake the other; four generations for a superseded,
an active and a staged one, and the overflow at the last. `sends`: two sends and
two funds let selections compete. `reorgs`: four blocks allow two forks and a
page boundary inside one; it has one send because two did not finish in 25
minutes, so reorganizations that involve two sends are not covered.
`chain_scan`: three moves of the node let it change its chain during the repair
of an earlier change; depth and window of 2 at height 3 make both limits bite.
`exchange`: two slates and two coordinates let one slate's coordinate be given
to the other; one slate expires and one is shown as frames, and giving both to both
only multiplies states. `scriptless`: one funding and one payout of the same
session, one other input, three blocks and one rewind of each kind. Fundings that
spend each other's change are left out (`Chained = FALSE`): with them a batch
fails, as `ChainedFunding.cfg` shows. `swap`: two sessions, one negotiated with
two solvers, one failing commit, one restoration; two quote deadlines make a repeated
request differ from the first, and a sequence bound of 3 lets a flow run out. `provisioning`: two seeds compete for one name;
three blocks let the tip move both ways during a restore. `updates`:
two cycles and three releases let a newer release appear between them.
`managed_node`: three releases, so one can be rolled back and another promoted.
`mining_node`: two threads; one height above the start is enough for a stale
round. `shell`: one wallet, all commands; the wallet's identity matters only to
the latch, which a second wallet loses (below).

`CONSTANT Features` of `WalletTransactions` chooses the operations of an
instance. Some passing runs leave out an operation under which the property is
known to fail:

- `InputsHeld` passes in `sends`, which has no reorganization, no rescan and no
  repeated cancellation. Each of those breaks a reservation property (below).
- `ConfirmedInScannedBlock` passes in `reorgs`, which has no reconcile query.
  With one, a confirmation can precede the scan (`StaleConfirmation.cfg`).
- `HandedIsExposed` and `CancelledNeverHanded` speak of bytes handed to the
  node by `submit_transaction`, not of bytes that were exported.
- `BatchesCommit` passes in `scriptless` without chained fundings.
- `ReachesTip` allows a fork deeper than the bound, and a worker ended by a refused commit
  (`StoppedWorker.cfg` shows one that need not have ended).

Also stated in the modules, and holding on the same instances when put into the
configuration: `TypeOK` of every module; `SnapshotRecoverable` and
`LegacyRecordedBeforeReplaced` (`store`); `OfferedCancelIsSafe` of `WalletViews`
(`sends`); `WorkerOwned` and `LatchRespected` (`shell`); `CheckpointOfPhrase` and
`CeremonyOnce` (`provisioning`); `AcceptedTermsCovered` (`swap`); and
`BoundInputsHeld` (`reorgs`: it excepts sends in `ReconciliationRequired`). All but
the last are proved.

Deadlock is checked except in `sends`, `reorgs`, `exchange` and `scriptless`:
there the model may stop when its bounds are reached and everything is settled.

Fairness.
- `store`: a call that has started keeps running; nobody has to start one.
- `reorgs`: `Sync` is strongly fair: the follow loop asks for the mutex on every
  poll and commands release it in between. This assumes that the loop is running
  and is not passed over for ever, which the mutex itself does not promise. A
  started command is assumed to end. `SyncCatchesUp` also assumes that rescans
  stop being requested.
- `chain_scan`: weak fairness of the pass; the loop retries with bounded backoff.
  Moves, faults and rescans are finite.
- `shell`: strong fairness of the main thread and of the node-start worker, which
  wait for a mutex or join that is free again and again (every holder sleeps
  between acquisitions); weak fairness of the synchronization worker, and of the
  miner's end once it was told to stop. Commands, failures and blocks happen or not.
- `updates`: every await of a cycle has a deadline, so a started cycle goes on.
- `mining_node`: threads that can go on do, a template expires after its 30
  seconds, and a node that was asked to stop ends. No worker need find a block,
  and the network need not become ready.

## Disagreements between the code and its documents

Each row is a sentence of the repository that the model violates. The quotation
and the lines are in `PROJECT.json` under `findings`. To reproduce a row, run TLC
with the configuration named. Where a property is given as well, put it in place of
the configuration's own properties (`ConfirmedOnlyToReorged` as a PROPERTY, the
others as INVARIANT).

| Configuration (module) | Trace |
|---|---|
| `TornStaging` (`MCGenerationStore`) | a commit fails after staging; the removal of the staged directory is interrupted after the envelope is unlinked; every later commit refuses that directory. The shortest trace uses cleanup; commits alone reach it in one step more |
| `RepeatedCancel` (`MCWallet`) | cancel, new send on the same input, cancel the first again: the new send's reservation is released |
| `ReorgDropsReservation` (`MCWallet`) | a send moved to `ReconciliationRequired` by a refused cancel is mined, scanned and reorganized out: the reservation is not restored |
| `RescanDropsReservation` (`MCWallet`) | a rescan from genesis while a send holds inputs: a second send selects them |
| `StaleConfirmation` (`MCWallet`) | a query confirms a send ahead of the scan, the block is reorganized away, the cursor was never in it, so no rewind happens |
| `Sends` with `AcceptedNotRelayedIsRetryable` (`MCWallet`) | the retry refuses a send in `AcceptedNotRelayed`; `RetryableIsRetried`: the submission result calls it retryable |
| `Sends` with `ConfirmedOnlyToReorged` | a refused cancel moves a confirmed send to `ReconciliationRequired` |
| `Sends` with `ReservationHasContext` | a crash between the two commits of a send leaves a reservation without context |
| `Sends` with `CancelledNeverMined` | export of the finalized bytes, cancel, and the counterparty's broadcast is mined |
| `Sends` with `SpendableIsSelectable` | a page sets a reserved output back to Confirmed; the balance counts it as spendable |
| `RemoteSource` (`DesktopShell`) | opening a wallet starts and attaches the embedded node although the remote source is selected |
| `Shell` with `LatchRespected` and two wallets | a wallet fails for good, another is opened and synchronized, and the first is scanned again without a retry |
| `UpdateOrder` (`DesktopShell`) | a node still under construction is attached after the preparation for the installer |
| `StuckCreation` (`WalletProvisioning`) | an error right after the staging directory is made: create, resume and abort all refuse it |
| `Updates` with `SingleFlight` (`WalletUpdate`) | an unconfirmed apply clears the flag of a running cycle, and a second one starts |
| `ManagedNode` with `PointerIsProven` | an error or crash after the pointer moved and before the candidate ran |
| `ManagedNode` with `RollbackKeepsState` | the state file is replaced, its writer reports an error, the candidate is rolled back |
| `Exchange` with `RecipientCanVerify` (`SlateExchange`) | a second response replaces the one the sender finalizes |
| `Exchange` with `FramesChecked` | a misread frame is kept and the intact one refused |
| `ChainedFunding` (`MCScriptless`) | a funding spends another's change; after a rescan every batch fails with a conflicting output |
| `StoppedWorker` (`ChainScan`) | the node reorganizes below the safe anchor before the replacement page: the refused commit ends the worker |
| `RetriedForever` (`ChainScan`) | a source of another chain is asked again for ever |
| `FrozenTerms` (`MCSwapDesk`) | the client accepts the same quote twice with different deadlines |
| `SeedOnlyScan` (`MCSwapDesk`) | a wallet with more legs than the gap limit is restored from its phrase |
| `Swap` with `FreshLegs` (`MCSwapDesk`) | the first swap after a restoration takes index 0 again |
| `TokenRoutes` (`MCSwapDesk`) | a token with a network qualifier can be drafted but never quoted |
| `MiningNode` with `DipsNeverStopMining` | the network is gone for a moment and back before the round is examined: mining ends with an error |
| `MiningNode` with `StoppedMeansClean` | the node fails between the load and the store of `request_shutdown`: it is reported as stopped |
| `MiningNode` with `MiningHasNode` | switching the source retires the node under a running miner |

These are statements about the model, which was translated from the code by
reading it. None of the traces has been replayed against the built program.

## Proofs

Assumptions: the named `ASSUME`s of the modules on their constants: bounds are
naturals, some of them positive; names of different kinds are different
(`NamesAssumption`); a command is one of those the application has
(`CommandsAssumption`); a route is a pair of assets (`RoutesAssumption`); the amount
of a quote is a natural number (`QuotesAssumption`). The `ASSUME`s at the end of `NodeStatus` are not used by
any proof. Four theorems have hypotheses on `Features` or `Chained`, and one on
`Wallets`, given with them, and the configurations named there show what happens
without. All the others
hold of every instance.

Every safety property that a run checks has its theorem: what TLC shows of a
small instance holds for every value of the constants.

A leaf that names no prover is for Zenon (`USE ZenonT(30)` at the head of each
module); those that need arithmetic or sequences name SMT. What is needed of
sequences are the lemmas at the head of a section.

`StorageProofs`: what is kept on disk: the wallet directory (`GenerationStore`), how
wallets come to be (`WalletProvisioning`), the releases of the managed node
(`ManagedNode`).

- *Generations.* The invariants are not inductive by themselves: that the
  pointer moves to a complete generation depends on what the call in progress has
  already done. `IInv` adds, per phase of `op`, what is on disk: `PointerInv`
  relates pointer and metadata, `ViewInv` says what a state in memory may hold
  when it is not stale, `CallInv` and `PhaseInv` say what has been staged and
  recorded, `SweepInv` that victims never include the active generation or the
  snapshot. From it follow `TypeCorrect`, `Loadability`, `Durability`,
  `SnapshotKept`, the action properties `LegacyRecorded` and `Immutability`, and
  `Refinement` (the store implements `AtomicStore`).
- *Provisioning.* That a rename publishes a whole wallet depends on what the stage
  holds when it is reached: `CommandInv` says so per step of an installation, and
  that its destination is free until then; `SessionInv` that the stage of a
  restore is a wallet, scanned at least once when it is ready; `DirInv` that
  outside the restore's own stage a staged directory is complete; `ServiceInv`
  that an installation, a restore and an open wallet exclude one another. Each
  lemma shows that a group of actions preserves `ProvisioningInv` and leaves
  installed wallets alone (`Keeps`). From it follow `CatalogIsWhole`,
  `PublishedRestoresAreComplete` and the action property
  `InstalledWalletsAreKept`. `CheckpointsMatchTheirPhrase` needs only that the
  phrase is compared before a stage is taken up and that nothing else writes the
  stage of an open session; `CeremonyEndsOnce` that memory is never ahead of the
  disk in the confirmation (`CeremonyInv`).
- *Managed node.* `AcceptedIsProven` depends on where a promotion stands: `ReleaseInv`
  adds, per stage, that the running node is gone from the backup on
  (`NodeGoneFromBackup`), what the pointer names (`PointerOfStage`), that the
  candidate has answered before its acceptance is written (`CandidateProven`), and
  that it is newer than what is accepted (`CandidateIsNewer`). From it follow
  `AcceptedReleaseIsProven`, `NodeRunsThePointer` and the action property
  `AcceptedOnlyAdvances`.

`WalletTransactionsProofs` and `WalletChainProofs`: sends and scans, for any number
of sends, outputs, blocks, forks and page sizes.

- *Exposure.* `HandedIsExposed` needs that a command calling the node has already
  committed its exposure (`CallInv`) and that an unused record is unexposed
  (`DraftInv`). Every change to a record is shown to be an instance of
  `Evolves(a, b)`: the exposure does not decrease, only a record without exposure
  becomes cancelled, and none becomes a draft again. The relation is reflexive and
  transitive, so a page, which composes rewind, kernel evidence and expiry, is
  covered by one lemma per operator. From it follow `SubmittedBytesAreExposed`,
  `SubmittedIsNotCancelled` and `ExposureNeverDecreases`.
- *Projection.* `ProjectionIsFaithful`: `ChainInv` says of the node that a block
  has one parent, so that equal blocks have equal ancestors (`Ancestry`), and that
  a chain spends an output once and after it was made (`Sound`); of each record
  that its heights are those of the committed blocks (`Projected`). Commands change
  records only beside those heights (`Aside`). A rewind cuts the heights at the
  anchor, which by `Ancestry` is where the two chains part; a page adds those of
  its blocks. No hypothesis on `Features`.
- *Settlement.* `CommittedBlocksSettle` and `ConfirmationsAreCommitted`, when the
  node is not queried and nothing is exported (`SettledInv`): a transaction in a
  block was submitted, hence in a lifecycle that a page settles, and nothing but
  a rewind unsettles it. With a query the second fails (`StaleConfirmation.cfg`).
- *Reservations.* `InputsStayHeld`, on one chain and with one cancellation per
  transaction (`HeldInv`): the cursor is a prefix of the chain, so no record that
  a transaction selected is dropped. `ReorgDropsReservation.cfg`,
  `RescanDropsReservation.cfg` and `RepeatedCancel.cfg` show that each of the three
  hypotheses is needed.
- *Views.* `OfferedCancelsAreSafe`: the summary offers a cancellation by lifecycle
  and exposure, `transaction_cancel` decides by another rule; where the first says
  yes so does the second, and by the exposure invariant the bytes are unsubmitted.

`ScriptlessReservationsProofs` and `ScriptlessCommitsProofs`: for any set of
sessions and outputs and chains of any height.

- `IInv`: what a reservation has handed out is its own offset, share and template
  (`Composed`); only a signed session is in a block; the output of an unsigned one
  is fresh, so a scan cannot meet it. A new selection takes coins that are
  `Confirmed` and owned by nobody, hence retained by nobody. From it follow
  `RetainedInputsStayHeld` and `HandoutsAreOneComposition`, with chained fundings
  or without. The safe anchor, the greatest common height, exists by `NatMin`.
- `CommitsAreAccepted`, when no funding selects the output of another
  (`Chained = FALSE`; `ChainedFunding.cfg` shows the need). `CInv` says that the
  record of every output is determined by the committed blocks and the
  reservations (`Faithful`). A rewind and a page lead to a record that is so up to
  the reservations (`Rough`), the restoration makes it `Faithful` again, and such
  records pass `validate` (`FaithfulIsValid`). So the commit at hand, the next page
  of any length and a rescan from genesis all succeed.

`ChainSourceProofs`: the scan of a remote node (`ChainScan`) and the node embedded in
the application (`EmbeddedNode`, `WalletMiner`, `MiningNode`, `NodeStatus`).

- *Scan.* `ScanInv`: the window is a set of true blocks of which each but the
  oldest has its parent there, and it ends at the cursor (`Ends`); the anchor of an
  ordinary pass is the cursor, the safe anchor of a reorganization is a block of
  the window (`PassInv`). Nothing is assumed of the page, which the node may have
  changed or faked: `Validates` and `BodyCommitted` decide. That a validated page
  is linked down to its anchor (`LinkedBegins`) is an induction over its length;
  it is done by a least counterexample (`LeastOf`), since the induction theorems
  of the library cannot be instantiated. From it follow `WindowIsAChain` and
  `WindowIsReal`.
- *Embedded node and miner.* `NothingOutlivesTheNode` needs what the runtime
  thread leaves behind at each of its places (`NodeInv`); `BlocksAreOfTheirRound`
  that a worker has something in hand only while the loop collects, and then the
  template of this round (`RoundInv`).
- *Status.* Facts about operators, for all heights, hashes and peer counts:
  `SynchronizedMayMine` (the synchronized flag and the gates of `mining_start`
  agree on one observation of a working node), `ReadyMeansAtPeers`,
  `ThreadsAreKept`. `LiveReadiness` says what the readiness of a live, answering
  node can be.

`CounterpartyProofs`: swap sessions, the swap client (`SwapDesk`) and slates
(`SlateExchange`).

- *Swaps.* `SwapInv`: the state in memory is an earlier state of the same file
  (`Keeps`); each index is below the counter and taken once (`Whole`); a command
  between its two commits sees the newest state; what a command returned is on
  disk (`Recorded`). A commit that fails without being published leaves memory
  behind the file, and the generation check of the next one refuses it. From it
  follow `LegsAreNotShared` and the action property `EndedSessionsStay`.
- *Envelopes.* `NoSequenceTwice`: an envelope of a flow is not past the last one the
  client remembers for it (`Sound`), so the next sequence is unused. A call signs a
  list of messages in a loop (`Signing`, a recursive function); that the function
  exists and that every prefix of the loop leaves the client sound are inductions,
  done by a least counterexample as well (`SigningIs`, `SignsSoundly`).
- *Terms.* `AcceptedTermsAreCovered`: `TermsInv` follows a quote from the client,
  which accepts it only when it is genuine and answers the request, into the
  session in memory and on disk, where the fee is computed once from its amount.
- *Slates.* `SignInv` adds to `OneTransaction` that the sender's finalized bytes are
  fixed from the lifecycle `Finalized` on, so that no response imported later can
  replace them, and that every finalized text in circulation is those bytes.
  `BackInv` adds to `ResponsesBacked` that the coordinate burned by the first commit
  of `slate_response_create` has no output until the second, and that coordinates
  are below the floor: the next one is new. `FrameInv` says what an assembly holds.
  From them follow `OneNonceSignsOnce`, `ShownResponsesAreBacked` and
  `AssembledTextsAreWhole`.

`DesktopProofs`: the application (`DesktopShell`) and its updates.

- *Threads.* `ShellInv`: the steps a command still has to take fit the lease it
  holds (`Plan`), so a step that takes the wallet away happens only under a lease
  that keeps the updater out; which leases exclude which (`Held`); what the update
  task found and still holds (`Safe`); and how far a shutdown has come: what is
  left of it is an end of its seven steps, and what the earlier ones ended stays
  ended (`Down`). From it follow `LeasesNeverLeak`, `SafePointLasts` and
  `ShutdownLeavesNothing`, for any set of commands, wallets and sources.
  `WorkersAreOwned` needs where a command stands between taking a handle and
  joining it (`OwnedInv`). `FailureStaysLatched`, with one wallet: the latch is set
  as long as the failure stands (`LatchInv`).
- *Updates.* `InstallsAreValidated`: the action property needs, of every cycle, that
  its manifest is newer than the application from the check on, and that the bytes
  it holds in memory are none or those of its manifest (`Sound`). Nothing is
  assumed of the staging file, which other cycles rewrite at any time. The theorem
  does not depend on the single-flight flag.

Only model-checked: liveness (`StaleSyncCommits`, `SyncCatchesUp`,
`CommandsReturn`, `FlagIsReleased`, `ReachesTip`, `StopsReturn`), which rests on
fairness and is out of the prover's reach.

## Not modelled

- Cryptography (`dom-wallet-crypto`), multichain key derivation, slate and cursor
  encodings, proofs: data, not control. Where control depends on the result, the
  result is an input or a field of the data (a page's `body`, a quote's `genuine`).
- Amounts and fees: selection is any prefix in value order. Coinbase immaturity.
- The rescan-plan file and the restore of a pre-migration snapshot.
- What the bootstrap discovery asks of DNS (its task's life is in `EmbeddedNode`);
  HTTP, JSON and TLS of the remote source and of the feeds.
- `dom-wallet-chain` and `dom-wallet-protocol`: compiled only for a test feature.
  The peer-manifest cache, the generic `apply_node_update` and the domain's
  `activate_scan` family: called by tests only.
- The frontend: rendering and polling; what it passes to a command is an input of
  the command's action.
- The DOM node and the `dom-sidecar` store are external and modelled from their use.

## Open

1. A reduced instance with two sends across a reorganization, for the conflict in
   `restore_reorged_reservations`.
2. A proof of `BoundInputsHeld`: it is what remains of `InputsHeld` under
   reorganizations.
