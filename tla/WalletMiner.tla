----------------------------- MODULE WalletMiner -----------------------------
(***************************************************************************)
(* The wallet's CPU miner: the mining loop of the application              *)
(* (mining_start), one round of proof of work (mine_wallet_block) and its  *)
(* worker threads, over the chain and the metrics of the node.             *)
(*                                                                         *)
(* The node's chain is behind a lock and its metrics are separate atomics; *)
(* the node (external), like the miner, updates the height metric after it *)
(* has released the chain. Heights are relative to the tip at which the    *)
(* loop began. Nonces and hashes are left out: a worker that is hashing    *)
(* may find a block at any moment.                                         *)
(***************************************************************************)
EXTENDS Naturals, FiniteSets

CONSTANTS
    Threads,        \* the miner's worker threads
    MaxHeight       \* bound on the chain

ASSUME ThreadsAssumption == IsFiniteSet(Threads) /\ Threads # {}
ASSUME HeightAssumption == MaxHeight \in Nat \ {0}

VARIABLES
    tip,            \* chain.tip_height of the node the loop holds
    metrics,        \* its chain_height metric; ready: it has a peer, and the best
                    \* peer height is the metric; live: the node still runs
    miner,          \* the mining loop and the round it is in
    stopping,       \* the stop flag that stop_mining_worker sets
    work            \* what each worker thread has in hand

minerVars == <<tip, metrics, miner, stopping, work>>

\* A block, found or to be found: its parent's height and the height its
\* coinbase was built for.
NoBlock == [parent |-> 0, coinbase |-> 0]
NoCandidate == 0
NoRound == [template |-> NoBlock, winner |-> NoBlock, failed |-> FALSE,
            expired |-> FALSE]
Off == [pc |-> "off", state |-> "READY", candidate |-> NoCandidate,
        round |-> NoRound]
Synchronized == [height |-> 0, ready |-> TRUE, live |-> TRUE]

MinerInit ==
    /\ tip = 0 /\ metrics = Synchronized
    /\ miner = Off /\ stopping = FALSE
    /\ work = [t \in Threads |-> NoBlock]

authoritative_network_ready == metrics.ready

template_is_current(b) ==
    /\ b.parent = metrics.height /\ ~miner.round.expired
    /\ authoritative_network_ready

-----------------------------------------------------------------------------
\* The node: another tip, higher or after a reorganization lower, then its
\* metric; peers that come and go, and the height they announce.
NodeMoves == miner.pc # "off" /\ metrics.live

TipMoves ==
    /\ NodeMoves /\ tip' \in {tip + 1, tip - 1} \intersect 0..MaxHeight
    /\ UNCHANGED <<metrics, miner, stopping, work>>

MetricsMove ==
    /\ NodeMoves
    /\ \/ /\ metrics.height # tip
          /\ \E r \in BOOLEAN :
                metrics' = [metrics EXCEPT !.height = tip, !.ready = r]
       \/ metrics' = [metrics EXCEPT !.ready = ~@]
    /\ UNCHANGED <<tip, miner, stopping, work>>

-----------------------------------------------------------------------------
\* mining_start: its gates ask for a ready node, a cursor on the tip and a
\* peer. The loop starts with an idle worker set and no candidate.
mining_start ==
    /\ miner.pc = "off"
    /\ tip' = 0 /\ metrics' = Synchronized
    /\ miner' = [Off EXCEPT !.pc = "top", !.state = "RUNNING"]
    /\ UNCHANGED <<stopping, work>>

\* The loop ends: WalletMiner is dropped, which joins the workers; an error
\* stays visible, any other end leaves READY.
EndsWith(state) ==
    miner' = [miner EXCEPT !.pc = "leave", !.state = state, !.round = NoRound]

\* The candidate is kept while its height is the next one by the metric;
\* otherwise the wallet reserves a new coordinate and builds another coinbase,
\* which also a locked wallet or a refused commit can prevent.
LoopTop(CanBuild) ==
    /\ miner.pc = "top"
    /\ LET height == metrics.height + 1 IN
        \/ stopping /\ EndsWith(miner.state)
        \/ /\ ~stopping /\ miner.candidate = height
           /\ miner' = [miner EXCEPT !.pc = "template"]
        \/ /\ ~stopping /\ miner.candidate # height /\ CanBuild
           /\ miner' = [miner EXCEPT !.pc = "template", !.candidate = height]
        \/ ~stopping /\ miner.candidate # height /\ EndsWith("ERROR")
    /\ UNCHANGED <<tip, metrics, stopping, work>>

Busy(t) == work[t] # NoBlock

\* mine_block: the template extends the chain's tip, read under its lock, and
\* every worker gets a copy (after the one it may still have in hand).
Template ==
    /\ miner.pc = "template"
    /\ \/ stopping /\ EndsWith(miner.state) /\ UNCHANGED work
       \/ ~stopping /\ EndsWith("ERROR") /\ UNCHANGED work
       \/ /\ ~stopping
          /\ LET b == [parent |-> tip, coinbase |-> miner.candidate] IN
              /\ miner' = [miner EXCEPT !.pc = "collect",
                                        !.round = [NoRound EXCEPT !.template = b]]
              /\ work' = [t \in Threads |-> IF Busy(t) THEN work[t] ELSE b]
    /\ UNCHANGED <<tip, metrics, stopping>>

TemplateExpires ==
    /\ miner.pc = "collect" /\ ~miner.round.expired
    /\ miner' = [miner EXCEPT !.round.expired = TRUE]
    /\ UNCHANGED <<tip, metrics, stopping, work>>

-----------------------------------------------------------------------------
\* The workers. An answer is counted when it is sent: the loop does nothing
\* else meanwhile, and the round is stopped by the worker itself. The flags
\* are read before each hash, so a worker may still find a block after
\* another one has stopped the round.
RoundStop == miner.round.winner # NoBlock \/ miner.round.failed

Answered(t) == work' = [work EXCEPT ![t] = NoBlock]

WorkerFinds(t) ==
    /\ Busy(t) /\ work[t].parent < MaxHeight /\ Answered(t)
    /\ miner' = [miner EXCEPT
            !.round.winner = IF @ = NoBlock THEN work[t] ELSE @]
    /\ UNCHANGED <<tip, metrics, stopping>>

\* Mutant: a worker looks only at the flag of its round.
WorkerGivesUpLate(t) ==
    /\ Busy(t) /\ RoundStop /\ Answered(t)
    /\ UNCHANGED <<tip, metrics, miner, stopping>>

WorkerGivesUp(t) ==
    /\ Busy(t) /\ (RoundStop \/ stopping \/ ~template_is_current(work[t]))
    /\ Answered(t)
    /\ UNCHANGED <<tip, metrics, miner, stopping>>

\* The RandomX VM cannot be built, or a hash fails.
WorkerFails(t) ==
    /\ Busy(t) /\ Answered(t)
    /\ miner' = [miner EXCEPT !.round.failed = TRUE]
    /\ UNCHANGED <<tip, metrics, stopping>>

-----------------------------------------------------------------------------
AllAnswered == \A t \in Threads : ~Busy(t)

\* Mutant: the round is over with the first block.
FirstAnswered == AllAnswered \/ miner.round.winner # NoBlock

RoundOver == AllAnswered

\* The outcomes that go back to the top of the loop. TemplateExpired keeps
\* the coinbase; only a round with work in it ends a wait.
Again(candidate, state) ==
    miner' = [pc |-> "top", candidate |-> candidate, state |-> state,
              round |-> NoRound]

Resumed == IF miner.state = "WAITING" THEN "RUNNING" ELSE miner.state

NoWinner ==
    miner.pc = "collect" /\ RoundOver /\ miner.round.winner = NoBlock

RoundFailed == NoWinner /\ miner.round.failed /\ EndsWith("ERROR")

RoundStopped ==
    NoWinner /\ ~miner.round.failed /\ stopping /\ EndsWith(miner.state)

RoundNotReady ==
    /\ NoWinner /\ ~miner.round.failed /\ ~stopping
    /\ ~authoritative_network_ready
    /\ miner' = [pc |-> "wait", candidate |-> NoCandidate, state |-> "WAITING",
                 round |-> NoRound]

\* Stale, TemplateExpired, or neither: then the round counts as failed.
RoundReady ==
    /\ NoWinner /\ ~miner.round.failed /\ ~stopping
    /\ authoritative_network_ready
    /\ IF metrics.height # miner.round.template.parent
       THEN Again(NoCandidate, miner.state)
       ELSE IF miner.round.expired THEN Again(miner.candidate, Resumed)
       ELSE EndsWith("ERROR")

RoundWithoutBlock ==
    /\ RoundFailed \/ RoundStopped \/ RoundNotReady \/ RoundReady
    /\ UNCHANGED <<tip, metrics, stopping, work>>

\* connect_block: the block that makes the longest chain is the new tip;
\* another one is stored beside the best chain. Validation may refuse either.
ConnectBlock ==
    /\ miner.pc = "collect" /\ RoundOver /\ miner.round.winner # NoBlock
    /\ \/ /\ miner.round.winner.parent >= tip
          /\ tip' = miner.round.winner.parent + 1
          /\ miner' = [miner EXCEPT !.pc = "report"]
       \/ /\ miner.round.winner.parent < tip
          /\ Again(NoCandidate, miner.state) /\ UNCHANGED tip
       \/ EndsWith("ERROR") /\ UNCHANGED tip
    /\ UNCHANGED <<metrics, stopping, work>>

\* The metric is stored after the chain was released, whatever the tip is now;
\* the peers may have announced that height or not.
ReportBlock ==
    /\ miner.pc = "report"
    /\ \E r \in BOOLEAN : metrics' = [metrics EXCEPT
            !.height = miner.round.winner.parent + 1, !.ready = r]
    /\ Again(NoCandidate, Resumed)
    /\ UNCHANGED <<tip, stopping, work>>

\* wait_for_mining_retry
WaitOver ==
    /\ miner.pc = "wait"
    /\ IF stopping THEN EndsWith(miner.state)
       ELSE miner' = [miner EXCEPT !.pc = "top"]
    /\ UNCHANGED <<tip, metrics, stopping, work>>

LoopEnds ==
    /\ miner.pc = "leave" /\ \A t \in Threads : ~Busy(t)
    /\ miner' = [miner EXCEPT !.pc = "ended",
            !.state = IF @ = "ERROR" THEN @ ELSE "READY"]
    /\ UNCHANGED <<tip, metrics, stopping, work>>

\* stop_mining_worker: flag, join, READY. reap_finished_mining_worker takes
\* a loop that ended by itself and leaves its state.
SignalStop == miner.pc # "off" /\ stopping' = TRUE

LoopGone(state) ==
    /\ miner.pc = "ended" /\ miner' = [Off EXCEPT !.state = state]
    /\ tip' = 0 /\ metrics' = Synchronized /\ stopping' = FALSE
    /\ UNCHANGED work

StopJoined == stopping /\ LoopGone("READY")

reap_finished_mining_worker == ~stopping /\ LoopGone(miner.state)

RoundStep == Template \/ RoundWithoutBlock \/ ConnectBlock \/ ReportBlock
WorkerStep(t) == WorkerFinds(t) \/ WorkerGivesUp(t) \/ WorkerFails(t)
=============================================================================
