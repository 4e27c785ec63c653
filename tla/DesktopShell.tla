---------------------------- MODULE DesktopShell ----------------------------
(***************************************************************************)
(* The desktop application (src-tauri): the thread that runs the commands, *)
(* the synchronization, mining and node-start workers, the update task,    *)
(* and the activity leases and the service mutex they share.               *)
(*                                                                         *)
(* Commands are synchronous, so the main thread runs one at a time; a      *)
(* command is a sequence of steps, some of which wait for a worker to end. *)
(* The service mutex is held across steps only by a synchronization pass   *)
(* (sync.pc = "pass"); every other critical section is one step.           *)
(***************************************************************************)
EXTENDS Naturals, Sequences, FiniteSets

CONSTANTS
    Wallets,            \* managed wallets on disk
    NoWallet,
    Commands,           \* the commands this instance issues
    Sources             \* the chain sources this instance selects

ASSUME WalletsAssumption == NoWallet \notin Wallets
ASSUME SourcesAssumption == Sources \subseteq {"EMBEDDED", "REMOTE"}
ASSUME CommandsAssumption ==
    Commands \subseteq {"unlock", "open", "restore", "lock", "close", "recover",
        "source", "node_stop", "node_status", "pause", "resume", "retry",
        "rescan", "transact", "mining_start", "mining_stop", "start_node",
        "shutdown"}

VARIABLES
    service,            \* WalletService behind its mutex
    leases,             \* ActivityCoordinator.active
    sync,               \* SynchronizationRuntime and its worker
    mining,             \* MiningRuntime and its worker
    node,               \* NodeStartRuntime and its worker
    source,             \* the persisted chain source
    flags,              \* paused, shutdown, recovery_required
    main,               \* the command in progress
    updater,            \* the update task
    critical,           \* wallets with a transaction in a critical state
    failed              \* wallets whose last pass failed deterministically
                        \* and that no explicit retry was made for

vars == <<service, leases, sync, mining, node, source, flags, main, updater,
          critical, failed>>

Exclusive == {"Updater", "Shutdown"}
ActivityKind ==
    Exclusive \union {"WalletLifecycle", "NodeLifecycle", "Mining",
        "Synchronization", "CriticalTransaction", "Backup", "Restore"}
NoLease == "none"

\* ActivityCoordinator::try_begin
CanBeginIn(active, kind) ==
    IF kind \in Exclusive THEN active = {}
    ELSE active \intersect Exclusive = {} /\ kind \notin active

\* Mutant: an exclusive activity only excludes the other exclusive one.
CanBeginAnyway(kind) == leases \intersect Exclusive = {} /\ kind \notin leases

CanBegin(kind) == CanBeginIn(leases, kind)

-----------------------------------------------------------------------------
NoService == [phase |-> "closed", wallet |-> NoWallet, backend |-> "none",
              poisoned |-> FALSE]
NoSync == [state |-> "IDLE", stop |-> FALSE, worker |-> FALSE, pc |-> "none",
           lease |-> FALSE, latched |-> FALSE, latch |-> NoWallet]
NoMining == [state |-> "READY", stop |-> FALSE, worker |-> FALSE, pc |-> "none"]
NoNode == [started |-> FALSE, starting |-> FALSE, cancelled |-> FALSE,
           worker |-> FALSE, pc |-> "none"]
Idle == [cmd |-> "none", todo |-> <<>>, lease |-> NoLease]

\* application_builder: a launch has nothing open; the embedded node is
\* started at once when it is the selected source.
Launched(s) ==
    IF s = "EMBEDDED"
    THEN [NoNode EXCEPT !.starting = TRUE, !.worker = TRUE, !.pc = "building"]
    ELSE NoNode

Init ==
    /\ service = NoService /\ leases = {} /\ sync = NoSync
    /\ mining = NoMining /\ main = Idle /\ updater = "idle"
    /\ flags = [paused |-> FALSE, shutdown |-> FALSE, recovery |-> FALSE]
    /\ source \in Sources /\ node = Launched(source)
    /\ critical = {} /\ failed = {}

Running == ~flags.shutdown /\ ~flags.recovery
MutexFree == sync.pc # "pass"
Unlocked == service.phase = "unlocked"

-----------------------------------------------------------------------------
\* The main thread.
StopMining == <<"signal_mining", "join_mining">>
StopSync == <<"signal_sync", "join_sync">>

\* The lease a command holds while its steps run.
LeaseOf(c) ==
    CASE c \in {"unlock", "lock", "close", "recover"} -> "WalletLifecycle"
      [] c = "rescan" -> "Synchronization"
      [] c = "transact" -> "CriticalTransaction"
      [] c \in {"node_stop", "node_status"} -> "NodeLifecycle"
      [] c = "shutdown" -> "Shutdown"
      [] OTHER -> NoLease

StepsOf(c) ==
    CASE c = "unlock" -> <<"unlock", "release", "start_live">>
      [] c = "open" -> <<"start_node", "open">>
      [] c = "restore" -> <<"nudge_node", "restore", "start_live">>
      [] c = "lock" -> StopMining \o StopSync \o <<"lock">>
      [] c = "close" -> StopMining \o StopSync \o <<"close">>
      [] c = "recover" -> StopMining \o StopSync \o <<"recover">>
      [] c = "source" ->
            <<"select">> \o StopSync \o <<"stop_core", "start_if_unlocked">>
      [] c = "node_stop" ->
            <<"cancel_node", "join_node">> \o StopMining \o StopSync
            \o <<"stop_core">>
      [] c = "pause" -> <<"set_paused">> \o StopSync
      [] c = "resume" -> <<"clear_paused", "clear_latch", "start_live">>
      [] c = "retry" -> <<"clear_latch", "start_live">>
      [] c = "mining_stop" -> StopMining
      [] c = "shutdown" ->
            <<"cancel_node", "join_node">> \o StopMining \o StopSync
            \o <<"close">>
      [] OTHER -> <<c>>

\* These do not consult ensure_running, or only after their first steps; the
\* run loop has ended after a successful shutdown, so no command is issued then.
Unguarded == {"recover", "pause", "resume", "retry", "mining_stop", "mining_start",
              "node_status"}

\* A command that is refused at its start changes nothing and is not a step.
Begin(c) ==
    /\ c \in Commands /\ main = Idle /\ ~flags.shutdown
    /\ c \notin Unguarded \union {"shutdown"} => ~flags.recovery
    /\ LeaseOf(c) # NoLease => CanBegin(LeaseOf(c))
    /\ leases' = leases \union ({LeaseOf(c)} \ {NoLease})
    /\ main' = [cmd |-> c, todo |-> StepsOf(c), lease |-> LeaseOf(c)]
    /\ flags' = [flags EXCEPT !.shutdown = c = "shutdown"]
    /\ UNCHANGED <<service, sync, mining, node, source, updater, critical, failed>>

At(step) == main.todo # <<>> /\ Head(main.todo) = step

\* The step succeeded; the lease is dropped when the command returns.
Advance ==
    IF Tail(main.todo) = <<>>
    THEN main' = Idle /\ leases' = leases \ {main.lease}
    ELSE main' = [main EXCEPT !.todo = Tail(@)] /\ UNCHANGED leases

\* The command returns an error; application_shutdown withdraws its flag.
Fail(f) ==
    /\ main' = Idle /\ leases' = leases \ {main.lease}
    /\ flags' = [f EXCEPT !.shutdown = @ /\ main.cmd # "shutdown"]

Release ==
    /\ At("release")
    /\ main' = [main EXCEPT !.todo = Tail(@), !.lease = NoLease]
    /\ leases' = leases \ {main.lease}
    /\ UNCHANGED <<service, sync, mining, node, source, flags, updater, critical,
                   failed>>

\* stop_mining_worker, stop_synchronization_worker and cancel_node_start_worker
\* signal and take the handle, then join the worker without holding a lock.
\* A stop flag is read only by its worker and cleared at the next start: it is
\* dropped here with the worker.
\* Mutant: the handle is taken but the stop flag is not set.
SignalMiningLost ==
    /\ At("signal_mining")
    /\ mining' = IF mining.worker
                 THEN [mining EXCEPT !.state = "STOPPING", !.worker = FALSE]
                 ELSE mining
    /\ Advance
    /\ UNCHANGED <<service, sync, node, source, flags, updater, critical, failed>>

SignalMining ==
    /\ At("signal_mining")
    /\ mining' = IF mining.worker
                 THEN [mining EXCEPT !.state = "STOPPING", !.stop = TRUE,
                                     !.worker = FALSE]
                 ELSE mining
    /\ Advance
    /\ UNCHANGED <<service, sync, node, source, flags, updater, critical, failed>>

JoinMining ==
    /\ At("join_mining") /\ mining.pc \in {"none", "done"}
    /\ mining' = [mining EXCEPT !.state = "READY", !.pc = "none", !.stop = FALSE]
    /\ Advance
    /\ UNCHANGED <<service, sync, node, source, flags, updater, critical, failed>>

SignalSync ==
    /\ At("signal_sync")
    /\ sync' = [sync EXCEPT !.stop = TRUE, !.worker = FALSE,
                            !.state = IF sync.worker THEN "STOPPING" ELSE @]
    /\ Advance
    /\ UNCHANGED <<service, mining, node, source, flags, updater, critical, failed>>

JoinSync ==
    /\ At("join_sync") /\ sync.pc \in {"none", "done"}
    /\ sync' = [sync EXCEPT !.state = "IDLE", !.pc = "none", !.stop = FALSE]
    /\ Advance
    /\ UNCHANGED <<service, mining, node, source, flags, updater, critical, failed>>

CancelNode ==
    /\ At("cancel_node")
    /\ node' = [node EXCEPT !.cancelled = TRUE, !.worker = FALSE]
    /\ Advance
    /\ UNCHANGED <<service, sync, mining, source, flags, updater, critical, failed>>

\* Mutant: the start worker is cancelled and not waited for.
JoinNodeAbandoned ==
    /\ At("join_node") /\ Advance
    /\ UNCHANGED <<service, sync, mining, node, source, flags, updater, critical,
                   failed>>

JoinNode ==
    /\ At("join_node") /\ node.pc \in {"none", "done"}
    /\ node' = [node EXCEPT !.pc = "none", !.cancelled = FALSE]
    /\ Advance
    /\ UNCHANGED <<service, sync, mining, source, flags, updater, critical, failed>>

\* Steps that lock the service: with a poisoned mutex they set
\* recovery_required and the command fails.
ServiceSteps == {"unlock", "open", "restore", "lock", "close", "stop_core",
                 "start_if_unlocked", "rescan", "transact"}

Poisoned ==
    /\ \E step \in ServiceSteps : At(step)
    /\ MutexFree /\ service.poisoned
    /\ Fail([flags EXCEPT !.recovery = TRUE])
    /\ UNCHANGED <<service, sync, mining, node, source, updater, critical, failed>>

Usable(step) == At(step) /\ MutexFree /\ ~service.poisoned

\* WalletService::unlock; a wrong password leaves the wallet locked.
Unlock ==
    /\ Usable("unlock")
    /\ \/ /\ service.phase = "locked"
          /\ service' = [service EXCEPT !.phase = "unlocked"]
          /\ Advance /\ UNCHANGED flags
       \/ Fail(flags) /\ UNCHANGED service
    /\ UNCHANGED <<sync, mining, node, source, updater, critical, failed>>

\* open, create_recoverable and backup_import, restore_from_mnemonic_offline:
\* only from Closed, and under a lease that this one step takes and drops.
OpenLease(step) == IF step = "open" THEN "WalletLifecycle" ELSE "Restore"

Open(step) ==
    /\ Usable(step)
    /\ \/ /\ service.phase = "closed" /\ CanBegin(OpenLease(step))
          /\ \E w \in Wallets :
                service' = [service EXCEPT !.phase = "locked", !.wallet = w]
          /\ Advance /\ UNCHANGED flags
       \/ Fail(flags) /\ UNCHANGED service
    /\ UNCHANGED <<sync, mining, node, source, updater, critical, failed>>

Lock ==
    /\ Usable("lock")
    /\ IF service.phase = "closed" THEN Fail(flags) /\ UNCHANGED service
       ELSE /\ service' = [service EXCEPT !.phase = "locked"]
            /\ Advance /\ UNCHANGED flags
    /\ UNCHANGED <<sync, mining, node, source, updater, critical, failed>>

\* WalletService::close; when the node does not shut down cleanly the wallet
\* is left locked, its backend already taken.
\* Mutant: the wallet counts as closed although it was not let go.
CloseHalfway == [service EXCEPT !.backend = "none", !.phase = "closed"]

CloseFailed == [service EXCEPT !.backend = "none",
                               !.phase = IF @ = "closed" THEN @ ELSE "locked"]

Close ==
    /\ Usable("close")
    /\ \/ /\ service' = NoService /\ node' = [node EXCEPT !.started = FALSE]
          /\ Advance /\ UNCHANGED flags
       \/ /\ service.backend \in {"embedded", "dead"} /\ service' = CloseFailed
          /\ Fail(flags) /\ UNCHANGED node
    /\ UNCHANGED <<sync, mining, source, updater, critical, failed>>

\* stop_embedded_core takes whichever backend is attached.  A node that does
\* not shut down cleanly is an error to embedded_node_stop, which then leaves
\* node_started as it is, and none to chain_source_set.
StopCore ==
    /\ Usable("stop_core")
    /\ service' = [service EXCEPT !.backend = "none"]
    /\ \/ /\ node' = [node EXCEPT !.started = FALSE]
          /\ Advance /\ UNCHANGED flags
       \/ /\ main.cmd = "node_stop" /\ service.backend \in {"embedded", "dead"}
          /\ Fail(flags) /\ UNCHANGED node
    /\ UNCHANGED <<sync, mining, source, updater, critical, failed>>

\* recover_managed_wallet_from_disk replaces the service, poisoned or not; when
\* the wallet then cannot be opened, the new service stays and so does the
\* poison of its mutex.
Recover ==
    /\ At("recover") /\ MutexFree
    /\ \/ /\ \E w \in Wallets :
                service' = [NoService EXCEPT !.phase = "locked", !.wallet = w]
          /\ node' = [node EXCEPT !.started = FALSE]
          /\ flags' = [flags EXCEPT !.paused = FALSE, !.recovery = FALSE]
          /\ Advance
       \/ /\ service' \in {service, [NoService EXCEPT !.poisoned = service.poisoned]}
          /\ Fail(flags) /\ UNCHANGED node
    /\ UNCHANGED <<sync, mining, source, updater, critical, failed>>

\* A transaction command may put a transaction into a state the updater must
\* not interrupt, or take the last one out of it.
Transact ==
    /\ Usable("transact")
    /\ \/ /\ Unlocked /\ Advance /\ UNCHANGED flags
          /\ critical' \in {critical \union {service.wallet},
                            critical \ {service.wallet}}
       \/ Fail(flags) /\ UNCHANGED critical
    /\ UNCHANGED <<service, sync, mining, node, source, updater, failed>>

Rescan ==
    /\ Usable("rescan")
    /\ flags' = [flags EXCEPT !.paused = FALSE]
    /\ Advance
    /\ UNCHANGED <<service, sync, mining, node, source, updater, critical, failed>>

Select ==
    /\ At("select") /\ source' \in Sources
    /\ Advance
    /\ UNCHANGED <<service, sync, mining, node, flags, updater, critical, failed>>

SetPaused(step, paused) ==
    /\ At(step)
    /\ flags' = [flags EXCEPT !.paused = paused]
    /\ Advance
    /\ UNCHANGED <<service, sync, mining, node, source, updater, critical, failed>>

\* synchronization_start_explicit
ClearLatch ==
    /\ At("clear_latch")
    /\ sync' = [sync EXCEPT !.latched = FALSE, !.latch = NoWallet]
    /\ failed' = {}
    /\ Advance
    /\ UNCHANGED <<service, mining, node, source, flags, updater, critical>>

-----------------------------------------------------------------------------
\* synchronization_start_live.  The current wallet is known only when the
\* service can be locked at once and the wallet is unlocked.
LatchHolds ==
    sync.latched /\ (~Unlocked \/ sync.latch \in {NoWallet, service.wallet})

Reaped == IF sync.pc = "done" THEN [sync EXCEPT !.worker = FALSE, !.pc = "none"]
          ELSE sync

\* Mutant: the latch is not consulted.
SpawnsDespiteLatch ==
    /\ Running /\ ~flags.paused /\ ~service.poisoned
    /\ ~Reaped.worker /\ Reaped.state # "RUNNING"
    /\ CanBegin("Synchronization")

Spawns ==
    /\ Running /\ ~flags.paused /\ ~service.poisoned
    /\ ~LatchHolds
    /\ ~Reaped.worker /\ Reaped.state # "RUNNING"
    /\ CanBegin("Synchronization")

StartLive ==
    /\ \/ At("start_live")
       \/ Usable("start_if_unlocked")
    /\ sync' = CASE At("start_if_unlocked") /\ ~Unlocked -> sync
                 [] ~Running \/ flags.paused -> sync
                 [] Spawns ->
                      [Reaped EXCEPT !.state = "RUNNING", !.stop = FALSE,
                          !.worker = TRUE, !.pc = "top", !.lease = TRUE,
                          !.latched = FALSE, !.latch = NoWallet]
                 [] service.poisoned \/ LatchHolds -> Reaped
                 [] OTHER -> [Reaped EXCEPT !.latched = FALSE, !.latch = NoWallet]
    /\ leases' = leases \union (IF sync'.lease /\ ~sync.lease
                                THEN {"Synchronization"} ELSE {})
    /\ main' = Idle
    /\ flags' = [flags EXCEPT !.recovery = @ \/ (service.poisoned /\ MutexFree)]
    /\ UNCHANGED <<service, mining, node, source, updater, critical, failed>>

\* The worker: one pass per turn of run_synchronization_follow_loop.  The
\* first pass uses the lease start_live took, the others take their own; a
\* refused lease is a retryable error, after which the loop sleeps and is back
\* at its top.
SyncStopped ==
    /\ sync.pc = "top" /\ sync.stop
    /\ sync' = [sync EXCEPT !.pc = "done", !.lease = FALSE,
                            !.state = IF @ = "ERROR" THEN @ ELSE "IDLE"]
    /\ leases' = IF sync.lease THEN leases \ {"Synchronization"} ELSE leases
    /\ UNCHANGED <<service, mining, node, source, flags, main, updater, critical,
                   failed>>

SyncBegin ==
    /\ sync.pc = "top" /\ ~sync.stop
    /\ sync.lease \/ CanBegin("Synchronization")
    /\ sync' = [sync EXCEPT !.pc = "pass", !.lease = TRUE]
    /\ leases' = leases \union {"Synchronization"}
    /\ UNCHANGED <<service, mining, node, source, flags, main, updater, critical,
                   failed>>

\* ensure_scan_backend: only an absent backend is acquired, a remote one here.
Scanned == IF service.backend = "none" /\ source = "REMOTE" THEN "remote"
           ELSE service.backend

EndPass(pc) ==
    /\ sync' = [sync EXCEPT !.pc = pc, !.lease = FALSE]
    /\ leases' = leases \ {"Synchronization"}

\* The pass ran: it committed a page, or a transient failure left it undone.
SyncScanned ==
    /\ sync.pc = "pass" /\ ~service.poisoned
    /\ Unlocked /\ Scanned \in {"embedded", "remote"}
    /\ service' = [service EXCEPT !.backend = Scanned]
    /\ critical' \in {critical, critical \ {service.wallet}}
    /\ EndPass("top")
    /\ UNCHANGED <<mining, node, source, flags, main, updater, failed>>

\* No source yet, a node that is not ready, a remote one that does not answer.
SyncDeferred ==
    /\ sync.pc = "pass" /\ ~service.poisoned
    /\ service' \in {service, [service EXCEPT !.backend = Scanned]}
    /\ EndPass("top")
    /\ UNCHANGED <<mining, node, source, flags, main, updater, critical, failed>>

\* A terminal failure: the wallet is locked, the service poisoned, the chain
\* not ours; or, deterministically, the page could not be stored.
SyncTerminal ==
    /\ sync.pc = "pass"
    /\ \/ service.poisoned /\ EndPass("stopping") /\ UNCHANGED <<service, failed>>
       \/ /\ ~service.poisoned /\ Scanned \in {"embedded", "remote"}
          /\ service' = [service EXCEPT !.backend = Scanned]
          /\ EndPass("stopping") /\ UNCHANGED failed
       \/ /\ ~service.poisoned /\ Unlocked /\ Scanned \in {"embedded", "remote"}
          /\ service' = [service EXCEPT !.backend = Scanned]
          /\ EndPass("latching") /\ failed' = failed \union {service.wallet}
    /\ UNCHANGED <<mining, node, source, flags, main, updater, critical>>

\* A panic inside the pass poisons the service, whose state and backend had
\* been moved out of it.
SyncPanic ==
    /\ sync.pc = "pass" /\ Unlocked /\ ~service.poisoned
    /\ service' = [service EXCEPT !.poisoned = TRUE, !.backend = "none"]
    /\ EndPass("stopping")
    /\ UNCHANGED <<mining, node, source, flags, main, updater, critical, failed>>

SyncLatch ==
    /\ sync.pc \in {"stopping", "latching"}
    /\ sync' = IF sync.pc = "stopping"
               THEN [sync EXCEPT !.pc = "done", !.state = "ERROR"]
               ELSE [sync EXCEPT !.pc = "done", !.state = "ERROR", !.latched = TRUE,
                        !.latch = IF Unlocked /\ ~service.poisoned
                                  THEN service.wallet ELSE NoWallet]
    /\ UNCHANGED <<service, leases, mining, node, source, flags, main, updater,
                   critical, failed>>

-----------------------------------------------------------------------------
\* embedded_node_status retires a backend that is not a running embedded node.
Stale == node.started /\ service.backend # "embedded"

Retires ==
    /\ service' = [service EXCEPT !.backend = "none"]
    /\ node' = [node EXCEPT !.started = FALSE]

\* mining_start: the wallet is unlocked and synchronized with a running
\* embedded node.  The worker keeps the Mining lease until it ends.  When it is
\* refused because the node is gone, the node has been retired.
MiningStart ==
    /\ At("mining_start") /\ MutexFree
    /\ \/ /\ Unlocked /\ ~service.poisoned
          /\ node.started /\ service.backend = "embedded"
          /\ mining.pc \in {"none", "done"}
          /\ CanBegin("NodeLifecycle") /\ CanBegin("Mining")
          /\ mining' = [state |-> "RUNNING", stop |-> FALSE, worker |-> TRUE,
                        pc |-> "round"]
          /\ leases' = leases \union {"Mining"} /\ UNCHANGED <<service, node, flags>>
       \/ /\ UNCHANGED <<leases, mining>>
          /\ \/ UNCHANGED <<service, node>>
             \/ Stale /\ ~service.poisoned /\ CanBegin("NodeLifecycle") /\ Retires
          /\ flags' = [flags EXCEPT !.recovery = @ \/ service.poisoned]
    /\ main' = Idle
    /\ UNCHANGED <<sync, source, updater, critical, failed>>

\* One round: a coinbase from the wallet, then mine_block.  The round that
\* finds the node catching up waits and starts over.
MiningRound ==
    /\ mining.pc \in {"round", "waiting"} /\ ~mining.stop /\ MutexFree
    /\ Unlocked /\ ~service.poisoned /\ service.backend # "none"
    /\ mining' \in {[mining EXCEPT !.pc = "round", !.state = "RUNNING"],
                    [mining EXCEPT !.pc = "waiting", !.state = "WAITING"]}
    /\ UNCHANGED <<service, leases, sync, node, source, flags, main, updater,
                   critical, failed>>

\* Mutant: the lease is not dropped with the worker.
MiningEndKeepsLease ==
    /\ mining.pc \in {"round", "waiting"} /\ mining.stop
    /\ mining' = [mining EXCEPT !.pc = "done", !.state = "READY"]
    /\ UNCHANGED <<service, leases, sync, node, source, flags, main, updater,
                   critical, failed>>

MiningEnd ==
    /\ mining.pc \in {"round", "waiting"}
    /\ \/ /\ mining.stop
          /\ mining' = [mining EXCEPT !.pc = "done", !.state = "READY"]
       \/ /\ ~mining.stop /\ MutexFree
          /\ mining' = [mining EXCEPT !.pc = "done", !.state = "ERROR"]
    /\ leases' = leases \ {"Mining"}
    /\ UNCHANGED <<service, sync, node, source, flags, main, updater, critical,
                   failed>>

-----------------------------------------------------------------------------
NodeStatus ==
    /\ At("node_status")
    /\ node.started => MutexFree /\ ~service.poisoned
    /\ IF Stale THEN Retires ELSE UNCHANGED <<service, node>>
    /\ Advance
    /\ UNCHANGED <<sync, mining, source, flags, updater, critical, failed>>

NodeStatusPoisoned ==
    /\ At("node_status") \/ At("start_node")
    /\ node.started /\ MutexFree /\ service.poisoned
    /\ Fail([flags EXCEPT !.recovery = TRUE])
    /\ UNCHANGED <<service, sync, mining, node, source, updater, critical, failed>>

\* ensure_mainnet_node and embedded_node_start_mainnet.  wallet_restore only
\* nudges a node that is the selected source, and ignores the result.
StartNode ==
    /\ \/ At("start_node")
       \/ At("nudge_node") /\ source = "EMBEDDED"
    /\ node.started => MutexFree /\ ~service.poisoned
    /\ CanBegin("NodeLifecycle")
    /\ service' = IF Stale THEN [service EXCEPT !.backend = "none"] ELSE service
    /\ node' = IF node.starting \/ (node.started /\ ~Stale) THEN node
               ELSE [started |-> FALSE, starting |-> TRUE, cancelled |-> FALSE,
                     worker |-> TRUE, pc |-> "building"]
    /\ Advance
    /\ UNCHANGED <<sync, mining, source, flags, updater, critical, failed>>

StartNodeRefused ==
    /\ At("start_node") /\ ~CanBegin("NodeLifecycle")
    /\ Fail(flags)
    /\ UNCHANGED <<service, sync, mining, node, source, updater, critical, failed>>

SkipNudge ==
    /\ At("nudge_node")
    /\ \/ source # "EMBEDDED" \/ ~CanBegin("NodeLifecycle")
       \/ node.started /\ MutexFree /\ service.poisoned
    /\ Advance
    /\ UNCHANGED <<service, sync, mining, node, source, flags, updater, critical,
                   failed>>

\* The start worker builds the node without the service lock, retrying with a
\* larger map or another port, and attaches it under the lock.
NodeBuild ==
    /\ node.pc = "building"
    /\ node' \in
        IF node.cancelled
        THEN {[node EXCEPT !.pc = "done", !.starting = FALSE]}
        ELSE {[node EXCEPT !.pc = "built"],
              [node EXCEPT !.pc = "done", !.starting = FALSE]}
    /\ UNCHANGED <<service, leases, sync, mining, source, flags, main, updater,
                   critical, failed>>

\* attach_backend refuses when a backend is attached or the identity differs.
NodeAttach ==
    /\ node.pc = "built" /\ MutexFree
    /\ \/ /\ ~node.cancelled /\ ~service.poisoned /\ service.backend = "none"
          /\ service' = [service EXCEPT !.backend = "embedded"]
          /\ node' = [node EXCEPT !.pc = "attached"]
       \/ node' = [node EXCEPT !.pc = "rejected"] /\ UNCHANGED service
    /\ UNCHANGED <<leases, sync, mining, source, flags, main, updater, critical,
                   failed>>

NodeAttached ==
    /\ node.pc = "attached"
    /\ node' = [node EXCEPT !.started = TRUE, !.starting = FALSE, !.pc = "done"]
    /\ UNCHANGED <<service, leases, sync, mining, source, flags, main, updater,
                   critical, failed>>

\* The rejected node is dropped; the attached backend is stopped as well.
NodeRejected ==
    /\ node.pc = "rejected" /\ MutexFree
    /\ node' = [node EXCEPT !.starting = FALSE, !.pc = "done"]
    /\ service' = IF service.poisoned THEN service
                  ELSE [service EXCEPT !.backend = "none"]
    /\ UNCHANGED <<leases, sync, mining, source, flags, main, updater, critical,
                   failed>>

\* The attached node fails on its own (not part of this code).
NodeDies ==
    /\ service.backend = "embedded" /\ MutexFree
    /\ service' = [service EXCEPT !.backend = "dead"]
    /\ UNCHANGED <<leases, sync, mining, node, source, flags, main, updater,
                   critical, failed>>

-----------------------------------------------------------------------------
\* acquire_update_apply_lease, prepare_for_update and the installation that
\* check_wallet_update goes on to.
UpdateLease ==
    /\ updater = "idle" /\ CanBegin("Updater")
    /\ updater' = "leased" /\ leases' = leases \union {"Updater"}
    /\ UNCHANGED <<service, sync, mining, node, source, flags, main, critical, failed>>

\* Mutant: the transactions are not consulted.
AnyPointIsSafe == Unlocked /\ ~service.poisoned

SafePoint == Unlocked /\ ~service.poisoned /\ service.wallet \notin critical

UpdateCheck ==
    /\ updater = "leased" /\ MutexFree
    /\ IF SafePoint
       THEN updater' = "checked" /\ UNCHANGED <<leases, flags>>
       ELSE /\ updater' = "idle" /\ leases' = leases \ {"Updater"}
            /\ flags' = [flags EXCEPT !.recovery = @ \/ service.poisoned]
    /\ UNCHANGED <<service, sync, mining, node, source, main, critical, failed>>

UpdatePrepare ==
    /\ updater = "checked" /\ MutexFree
    /\ \/ /\ ~service.poisoned /\ service' = NoService
          /\ node' = [node EXCEPT !.started = FALSE]
          /\ updater' = "installing" /\ UNCHANGED leases
       \/ /\ service' \in {service} \union
                (IF service.backend \in {"embedded", "dead"} THEN {CloseFailed}
                 ELSE {})
          /\ updater' = "idle" /\ leases' = leases \ {"Updater"}
          /\ UNCHANGED node
    /\ UNCHANGED <<sync, mining, source, flags, main, critical, failed>>

\* The process ends, by the installer or by exit, and is launched again.
Relaunch ==
    /\ updater = "installing" \/ (flags.shutdown /\ main = Idle)
    /\ service' = NoService /\ leases' = {} /\ sync' = NoSync
    /\ mining' = NoMining /\ main' = Idle /\ updater' = "idle"
    /\ flags' = [paused |-> FALSE, shutdown |-> FALSE, recovery |-> FALSE]
    /\ node' = Launched(source) /\ failed' = {}
    /\ UNCHANGED <<source, critical>>

-----------------------------------------------------------------------------
MainStep ==
    \/ Release \/ SignalMining \/ JoinMining \/ SignalSync \/ JoinSync
    \/ CancelNode \/ JoinNode \/ Poisoned \/ Unlock \/ Open("open")
    \/ Open("restore") \/ Lock \/ Close \/ StopCore \/ Recover \/ Transact
    \/ Rescan \/ Select \/ SetPaused("set_paused", TRUE)
    \/ SetPaused("clear_paused", FALSE) \/ ClearLatch \/ StartLive
    \/ MiningStart \/ NodeStatus \/ NodeStatusPoisoned \/ StartNode
    \/ StartNodeRefused \/ SkipNudge

SyncStep ==
    \/ SyncStopped \/ SyncBegin \/ SyncScanned \/ SyncDeferred \/ SyncTerminal
    \/ SyncPanic \/ SyncLatch

NodeStep == NodeBuild \/ NodeAttach \/ NodeAttached \/ NodeRejected

Next ==
    \/ \E c \in Commands : Begin(c)
    \/ MainStep \/ SyncStep \/ MiningRound \/ MiningEnd \/ NodeStep
    \/ NodeDies \/ UpdateLease \/ UpdateCheck \/ UpdatePrepare \/ Relaunch

\* A thread that can run does; a join or a lock that is free again and again
\* is taken, since every holder sleeps between two acquisitions.  Commands and
\* failures happen or not.
Fairness ==
    /\ SF_vars(MainStep) /\ WF_vars(SyncStep) /\ SF_vars(NodeStep)
    /\ WF_vars(MiningEnd /\ mining.stop)

Spec == Init /\ [][Next]_vars
FairSpec == Spec /\ Fairness
-----------------------------------------------------------------------------
TypeOK ==
    /\ service \in [phase : {"closed", "locked", "unlocked"},
                    wallet : Wallets \union {NoWallet},
                    backend : {"none", "embedded", "remote", "dead"},
                    poisoned : BOOLEAN]
    /\ leases \subseteq ActivityKind
    /\ sync \in [state : {"IDLE", "RUNNING", "STOPPING", "ERROR"},
                 stop : BOOLEAN, worker : BOOLEAN, lease : BOOLEAN,
                 pc : {"none", "top", "pass", "stopping", "latching", "done"},
                 latched : BOOLEAN, latch : Wallets \union {NoWallet}]
    /\ mining \in [state : {"READY", "RUNNING", "WAITING", "STOPPING", "ERROR"},
                   stop : BOOLEAN, worker : BOOLEAN,
                   pc : {"none", "round", "waiting", "done"}]
    /\ node \in [started : BOOLEAN, starting : BOOLEAN, cancelled : BOOLEAN,
                 worker : BOOLEAN,
                 pc : {"none", "building", "built", "attached", "rejected", "done"}]
    /\ source \in Sources
    /\ flags \in [paused : BOOLEAN, shutdown : BOOLEAN, recovery : BOOLEAN]
    /\ main.lease \in ActivityKind \union {NoLease}
    /\ updater \in {"idle", "leased", "checked", "installing"}
    /\ critical \subseteq Wallets /\ failed \subseteq Wallets
    /\ service.phase = "closed" <=> service.wallet = NoWallet

\* A lease is active exactly while the command, worker or task that began it
\* runs (ActivityLease::drop): none leaks on an error path, a panic or a
\* worker's end, so nothing is refused with ACTIVITY_BUSY for ever.
LeasesOwned ==
    leases = ({main.lease} \ {NoLease})
        \union (IF sync.lease THEN {"Synchronization"} ELSE {})
        \union (IF mining.pc \in {"round", "waiting"} THEN {"Mining"} ELSE {})
        \union (IF updater # "idle" THEN {"Updater"} ELSE {})

\* From the moment the update task has found the safe point until the process
\* is replaced, no protected activity holds a lease, no pass or miner runs,
\* the wallet that was found free of critical transactions still is, and it
\* is closed before the installer is invoked (lib.rs:2023, main.rs:531).
SafePointHolds ==
    updater \in {"checked", "installing"} =>
        /\ leases = {"Updater"}
        /\ sync.pc # "pass" /\ mining.pc \notin {"round", "waiting"}
        /\ updater = "checked" => Unlocked /\ service.wallet \notin critical
        /\ updater = "installing" => service.phase = "closed"

\* application_shutdown that reported success leaves nothing behind: no
\* wallet, no backend, and no worker that could still touch either.
ShutdownComplete ==
    flags.shutdown /\ main = Idle =>
        /\ service = NoService
        /\ sync.pc = "none" /\ mining.pc = "none" /\ node.pc = "none"

\* A synchronization worker that runs has its handle in the runtime, or a
\* command is about to join it (stop_synchronization_worker): none is started
\* beside it, and none outlives the command that stops it.
WorkerOwned == sync.pc \notin {"none", "done"} => sync.worker \/ At("join_sync")

\* After a deterministic persistence failure no pass scans that wallet again
\* before an explicit retry (SynchronizationRuntime.terminal_latch), whatever
\* locks, closes, updates and source changes come in between.  It holds with
\* one wallet: the start of another one drops the latch of the first.
LatchRespected == sync.pc = "pass" => service.wallet \notin failed

\* The saved remote source is authoritative (main.rs:1433): while it is
\* selected, no pass scans an embedded node.
RemoteAuthoritative ==
    source = "REMOTE" /\ sync.pc = "pass" =>
        service.backend \notin {"embedded", "dead"}

\* docs/AUTOMATIC_UPDATES.md:117: the node is stopped before the installer is
\* invoked.
NodeStoppedAtInstall == updater = "installing" => service.backend = "none"

\* Every command returns: no join waits for a worker that waits for the
\* command, and no worker keeps the service for ever.
CommandsReturn == main # Idle ~> main = Idle
=============================================================================
