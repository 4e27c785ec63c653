------------------------------ MODULE MiningNode ------------------------------
(***************************************************************************)
(* The embedded node and the wallet's miner together, under the commands   *)
(* of the application that start and stop them. Commands run one at a time *)
(* on the main thread, also while a thread of its own starts a node; the   *)
(* service mutex is held while a backend is retired, and the mining loop   *)
(* takes it to build a coinbase.                                           *)
(***************************************************************************)
EXTENDS EmbeddedNode, WalletMiner, NodeStatus

VARIABLE caller     \* the command that waits for the mining loop or a start to end

vars == <<nodeVars, minerVars, caller>>

Init == NodeInit /\ MinerInit /\ caller = "none"

ServiceFree == owner.pc \notin {"storing", "joining"}
MainIdle == caller = "none" /\ ServiceFree
Starting == owner.pc \in {"starting", "abandoning"}

-----------------------------------------------------------------------------
\* Commands. mining_start needs the handle of a running node.
StartMining ==
    /\ MainIdle /\ node_handle /\ mining_start
    /\ UNCHANGED <<nodeVars, caller>>

StopMining ==
    /\ MainIdle /\ SignalStop /\ caller' = "mining_stop"
    /\ UNCHANGED <<nodeVars, tip, metrics, miner, work>>

MiningStopped ==
    /\ caller # "none" /\ StopJoined
    /\ caller' = IF caller = "mining_stop" THEN "none" ELSE "stop_core"
    /\ UNCHANGED nodeVars

\* embedded_node_stop: a start in flight, then the miner, then the backend.
StopsMiner ==
    IF miner.pc = "off"
    THEN caller' = "stop_core" /\ UNCHANGED stopping
    ELSE caller' = "node_stop" /\ SignalStop

embedded_node_stop ==
    /\ MainIdle
    /\ IF Starting THEN caller' = "join_start" /\ UNCHANGED stopping ELSE StopsMiner
    /\ UNCHANGED <<nodeVars, tip, metrics, miner, work>>

\* cancel_node_start_worker: a start that sees the flag in time drops what it
\* has built; the command goes on when the start has ended.
StartCancelled ==
    /\ caller = "join_start" /\ request_shutdown /\ UNCHANGED <<minerVars, caller>>

StartJoined ==
    /\ caller = "join_start" /\ owner.pc \in {"none", "running"} /\ StopsMiner
    /\ UNCHANGED <<nodeVars, tip, metrics, miner, work>>

StopCore ==
    /\ caller = "stop_core" /\ caller' = "none" /\ UNCHANGED minerVars
    /\ \/ request_shutdown
       \/ owner.pc = "none" /\ UNCHANGED nodeVars

\* chain_source_set retires the backend and does not touch the miner; a
\* backend that cannot be used after its start is dropped the same way.
chain_source_set ==
    /\ MainIdle /\ request_shutdown /\ UNCHANGED <<minerVars, caller>>

StatusPolled ==
    /\ MainIdle /\ reap_finished_mining_worker /\ UNCHANGED <<nodeVars, caller>>

-----------------------------------------------------------------------------
\* The node's own steps; only an idle main thread starts a node. When its task
\* ends, the loop's handle is dead.
NodeStep ==
    /\ \/ MainIdle /\ (InitFails \/ start)
       \/ OwnerNext \/ ThreadNext
    /\ UNCHANGED <<minerVars, caller>>

NodeEnds ==
    /\ metrics' = [metrics EXCEPT !.live = miner.pc = "off"]
    /\ UNCHANGED <<tip, miner, stopping, work, caller>>

TaskStep == (TaskDies \/ TaskEnds) /\ NodeEnds
Panic == ThreadPanics /\ NodeEnds

\* The mining loop waits for the service mutex only to build a coinbase,
\* which needs the backend.
LoopStep ==
    /\ \/ /\ ServiceFree \/ miner.candidate = metrics.height + 1 \/ stopping
          /\ LoopTop(owner.pc = "running")
       \/ RoundStep \/ WaitOver \/ LoopEnds
    /\ UNCHANGED <<nodeVars, caller>>

WorkersStep(t) == WorkerStep(t) /\ UNCHANGED <<nodeVars, caller>>
Environment ==
    /\ TipMoves \/ MetricsMove
    /\ UNCHANGED <<nodeVars, caller>>
Expiry == TemplateExpires /\ UNCHANGED <<nodeVars, caller>>

Next ==
    \/ StartMining \/ StopMining \/ MiningStopped \/ embedded_node_stop
    \/ StartCancelled \/ StartJoined \/ StopCore \/ chain_source_set \/ StatusPolled
    \/ NodeStep \/ TaskStep \/ Panic \/ LoopStep \/ Environment \/ Expiry
    \/ \E t \in Threads : WorkersStep(t)

Spec == Init /\ [][Next]_vars

\* Threads that can go on do, a template expires after 30 seconds, recv_timeout
\* returns, and a node that was asked to stop ends. No worker need find a block.
Fairness ==
    /\ WF_vars(MiningStopped) /\ WF_vars(StartJoined) /\ WF_vars(StopCore)
    /\ WF_vars((StartupReceived \/ StartTimesOut \/ AbandonedStart \/ SendShutdown
                \/ wait_for_shutdown) /\ UNCHANGED <<minerVars, caller>>)
    /\ WF_vars(ThreadNext /\ UNCHANGED <<minerVars, caller>>)
    /\ WF_vars(closing /\ TaskStep)
    /\ WF_vars(LoopStep) /\ WF_vars(Expiry)
    /\ \A t \in Threads :
          WF_vars(WorkerGivesUp(t) /\ UNCHANGED <<nodeVars, caller>>)

FairSpec == Spec /\ Fairness

-----------------------------------------------------------------------------
TypeOK ==
    /\ lifecycle \in States
    /\ task \in {"none", "running", "ok", "failed"}
    /\ tip \in 0..MaxHeight /\ metrics.height \in 0..MaxHeight
    /\ miner.state \in {"READY", "RUNNING", "WAITING", "ERROR"}

(* wait_for_shutdown, an abandoned start and Drop all leave nothing behind:  *)
(* when no backend is held, the runtime thread, the node task and the        *)
(* discovery have ended. (A mining loop under which chain_source_set retired *)
(* the backend still holds its Arc of the node that has ended.)              *)
NodeGone ==
    owner.pc = "none" =>
        /\ thread \in {"none", "ended", "panicked"} /\ task # "running"
        /\ ~discovery

(* The block that is connected was found for the template of its own round:  *)
(* no answer of an earlier round is left in the channel when a round begins. *)
WinnerOfRound ==
    miner.round.winner \in {NoBlock, miner.round.template}

(* A stop is always answered: whatever the workers, the round, the backoff,  *)
(* the service mutex and the node are doing, mining_stop and                 *)
(* embedded_node_stop return.                                                *)
StopsReturn ==
    /\ caller # "none" ~> caller = "none"
    /\ owner.pc = "joining" ~> owner.pc = "none"

(* mining_start says a node that is not synchronized right now must never    *)
(* stop mining: a round that ends without a block and without a stop ends    *)
(* the loop only if a worker failed; otherwise the network is not ready, the *)
(* tip has moved or the template has expired, and the loop goes on.          *)
DipsNeverStopMining ==
    NoWinner /\ ~stopping =>
        \/ miner.round.failed \/ ~authoritative_network_ready
        \/ metrics.height # miner.round.template.parent
        \/ miner.round.expired

(* EmbeddedCoreLifecycleState::Stopped is documented as a clean shutdown: a  *)
(* node that died is never reported as stopped.                              *)
StoppedMeansClean == owner.answer = "stopped" => task = "ok"

(* Mining needs the embedded node: no round is worked on after the backend   *)
(* was retired and the caller that retired it has returned.                    *)
MiningHasNode == miner.pc = "collect" => owner.pc # "none"
=============================================================================
