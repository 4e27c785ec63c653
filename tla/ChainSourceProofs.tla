------------------------- MODULE ChainSourceProofs --------------------------
(***************************************************************************)
(* Where the blocks come from: the embedded node with its miner, and the   *)
(* scan of its chain.                                                      *)
(***************************************************************************)
EXTENDS MiningNode, ChainScan, TLAPS

\* Leaves that name no prover are for Zenon.
USE ZenonT(30)

-----------------------------------------------------------------------------
(***************************************************************************)
(* The embedded node and the miner for any number of worker threads and    *)
(* any bound on the chain: nothing of a node outlives the caller that      *)
(* retires it, and a block comes from the round that connects it.          *)
(***************************************************************************)
OwnerPlaces == {"none", "starting", "abandoning", "running", "storing", "joining"}
Answers == {"none", "error", "stopped"}

\* What the runtime thread leaves behind at each of its places: only a thread
\* past the runtime's construction has a node task and a discovery, and it has
\* seen the task's end before it leaves.
NodeInv ==
    /\ owner \in [pc : OwnerPlaces, answer : Answers]
    /\ owner.pc = "none" => thread \in {"none", "ended", "panicked"}
    /\ thread \in {"none", "spawned", "ended", "leaving", "panicked"} => task # "running"
    /\ thread \in {"none", "spawned", "ended", "panicked"} => discovery = FALSE

LoopPlaces == {"off", "top", "template", "collect", "report", "wait", "leave", "ended"}
LoopStates == {"READY", "RUNNING", "WAITING", "ERROR"}
Blocks == [parent : Nat, coinbase : Nat]
Rounds == [template : Blocks, winner : Blocks, failed : BOOLEAN, expired : BOOLEAN]
Miners == [pc : LoopPlaces, state : LoopStates, candidate : Nat, round : Rounds]

\* Workers have something in hand only while the loop collects, and then it is
\* the template of this round.
RoundInv ==
    /\ tip \in Nat /\ metrics \in [height : Nat, ready : BOOLEAN, live : BOOLEAN]
    /\ miner \in Miners
    /\ work \in [Threads -> Blocks]
    /\ \A t \in Threads :
          work[t] \in {NoBlock, miner.round.template} /\ (Busy(t) => miner.pc = "collect")
    /\ WinnerOfRound

-----------------------------------------------------------------------------
\* Initially no node exists.
LEMMA NodeInvInit == Init => NodeInv
BY SMT DEF Init, NodeInit, NodeInv, OwnerPlaces, Answers

\* Neither the miner nor the chain touches the node.
LEMMA NodeInvOwner ==
    ASSUME NodeInv, InitFails \/ start \/ OwnerNext \/ request_shutdown
    PROVE  NodeInv'
<1> USE DEF NodeInv, OwnerPlaces, Answers
<1>1. CASE InitFails
  BY <1>1 DEF InitFails
<1>2. CASE start
  BY <1>2 DEF start
<1>3. CASE StartupReceived
  BY SMT, <1>3 DEF StartupReceived
<1>4. CASE StartTimesOut
  BY <1>4 DEF StartTimesOut
<1>5. CASE AbandonedStart
  BY <1>5 DEF AbandonedStart
<1>6. CASE request_shutdown
  BY <1>6 DEF request_shutdown
<1>7. CASE SendShutdown
  BY SMT, <1>7 DEF SendShutdown
<1>8. CASE wait_for_shutdown
  BY SMT, <1>8 DEF wait_for_shutdown, Joined
<1> QED
  BY <1>1, <1>2, <1>3, <1>4, <1>5, <1>6, <1>7, <1>8 DEF OwnerNext

\* The steps of the runtime thread and the node task preserve the invariant.
LEMMA NodeInvThread ==
    ASSUME NodeInv, ThreadNext \/ TaskDies \/ TaskEnds \/ ThreadPanics
    PROVE  NodeInv'
<1> USE DEF NodeInv
<1>1. CASE RuntimeFails
  BY <1>1 DEF RuntimeFails
<1>2. CASE RuntimeBuilt
  BY <1>2 DEF RuntimeBuilt
<1>3. CASE StartupFails
  BY <1>3 DEF StartupFails
<1>4. CASE StartupFailed
  BY <1>4 DEF StartupFailed
<1>5. CASE ListenerBound
  BY <1>5 DEF ListenerBound
<1>6. CASE CommandReceived
  BY <1>6 DEF CommandReceived
<1>7. CASE NodeClosed
  BY <1>7 DEF NodeClosed
<1>8. CASE NodeDied
  BY <1>8 DEF NodeDied
<1>9. CASE ThreadEnds
  BY <1>9 DEF ThreadEnds
<1>10. CASE TaskDies \/ TaskEnds
  BY <1>10 DEF TaskDies, TaskEnds
<1>11. CASE ThreadPanics
  BY <1>11 DEF ThreadPanics
<1> QED
  BY <1>1, <1>2, <1>3, <1>4, <1>5, <1>6, <1>7, <1>8, <1>9, <1>10, <1>11 DEF ThreadNext

\* Every step preserves the invariant.
LEMMA NodeInvStep == NodeInv /\ [Next]_vars => NodeInv'
<1> SUFFICES ASSUME NodeInv, [Next]_vars PROVE NodeInv'
  OBVIOUS
<1>1. CASE InitFails \/ start \/ OwnerNext \/ request_shutdown
  BY <1>1, NodeInvOwner
<1>2. CASE ThreadNext \/ TaskDies \/ TaskEnds \/ ThreadPanics
  BY <1>2, NodeInvThread
<1>3. CASE UNCHANGED nodeVars
  BY <1>3 DEF NodeInv, nodeVars
<1> QED
  BY <1>1, <1>2, <1>3 DEF Next, vars, StartMining, StopMining, MiningStopped, embedded_node_stop,
     StartCancelled, StartJoined, StopCore, chain_source_set, StatusPolled, NodeStep, TaskStep,
     Panic, LoopStep, Environment, Expiry, WorkersStep

\* When the owner holds no backend, the runtime thread, the node task and the
\* discovery have ended (wait_for_shutdown, start, Drop), whatever died first
\* and however a start, a stop and a timeout were interleaved.
THEOREM NothingOutlivesTheNode == Spec => []NodeGone
<1>1. NodeInv => NodeGone
  BY DEF NodeInv, NodeGone
<1> QED
  BY <1>1, NodeInvInit, NodeInvStep, PTL DEF Spec

-----------------------------------------------------------------------------
\* Initially no round runs.
LEMMA RoundInvInit == Init => RoundInv
<1>1. NoBlock \in Blocks /\ NoRound \in Rounds
  BY DEF NoBlock, NoRound, Rounds, Blocks
<1>2. Off \in Miners /\ Off.round.template = NoBlock /\ Off.round.winner = NoBlock
  BY <1>1 DEF Off, Miners, NoRound, LoopPlaces, LoopStates, NoCandidate
<1> QED
  BY SMT, <1>1, <1>2 DEF Init, MinerInit, RoundInv, Synchronized, WinnerOfRound, Busy

\* The places of the loop in which nobody works and no round is recorded.
Resting(m) == m \in Miners /\ m.round = NoRound

\* Between rounds, when no worker has anything in hand, the loop may move.
LEMMA RestPreserves ==
    ASSUME RoundInv, \A t \in Threads : ~Busy(t), Resting(miner'), UNCHANGED work,
           tip' \in Nat, metrics' \in [height : Nat, ready : BOOLEAN, live : BOOLEAN]
    PROVE  RoundInv'
BY SMT DEF RoundInv, Resting, WinnerOfRound, Busy, NoRound

\* The end of the mining loop is between rounds.
LEMMA EndsResting ==
    ASSUME miner \in Miners, NEW s \in LoopStates, EndsWith(s)
    PROVE  Resting(miner')
<1>1. NoRound \in Rounds
  BY DEF NoBlock, NoRound, Rounds, Blocks
<1> QED
  BY <1>1 DEF EndsWith, Resting, Miners, LoopPlaces, LoopStates

\* A new attempt is between rounds.
LEMMA AgainResting ==
    ASSUME NEW candidate \in Nat, NEW s \in LoopStates, Again(candidate, s)
    PROVE  Resting(miner')
<1>1. NoRound \in Rounds
  BY DEF NoBlock, NoRound, Rounds, Blocks
<1> QED
  BY <1>1 DEF Again, Resting, Miners, LoopPlaces

\* The loop resumes in one of its states.
LEMMA ResumedState == ASSUME miner \in Miners PROVE Resumed \in LoopStates /\ miner.state \in LoopStates
BY DEF Resumed, Miners, LoopStates

\* mining_start and the loop's end begin and leave with idle workers.
LEMMA StartPreserves ==
    ASSUME RoundInv, mining_start \/ \E s \in LoopStates : LoopGone(s)
    PROVE  RoundInv'
<1>1. \A t \in Threads : ~Busy(t)
  BY DEF RoundInv, mining_start, LoopGone
<1>2. NoRound \in Rounds /\ Synchronized \in [height : Nat, ready : BOOLEAN, live : BOOLEAN]
  BY DEF NoBlock, NoRound, Rounds, Blocks, Synchronized
<1>3. Resting(miner')
  <2>1. Off \in Miners /\ Off.round = NoRound
    BY <1>2 DEF Off, Miners, LoopPlaces, LoopStates, NoCandidate
  <2>2. CASE mining_start
    BY <2>1, <2>2 DEF mining_start, Resting, Miners, LoopPlaces, LoopStates
  <2>3. CASE \E s \in LoopStates : LoopGone(s)
    BY <2>1, <2>3 DEF LoopGone, Resting, Miners
  <2> QED
    BY <2>2, <2>3
<1> QED
  BY SMT, <1>1, <1>2, <1>3, RestPreserves DEF mining_start, LoopGone

\* The top of the loop, the wait and its end: no round, nobody at work.
LEMMA LoopPreserves ==
    ASSUME RoundInv, NEW CanBuild \in BOOLEAN, LoopTop(CanBuild) \/ WaitOver \/ LoopEnds
    PROVE  RoundInv'
<1> USE DEF RoundInv
<1>1. UNCHANGED <<tip, metrics, stopping, work>> /\ miner.pc \in {"top", "wait", "leave"}
  BY DEF LoopTop, WaitOver, LoopEnds
<1>2. \A t \in Threads : ~Busy(t)
  BY <1>1
<1>3. miner' \in Miners
  <2>1. CASE \E s \in LoopStates : EndsWith(s)
    BY <2>1, EndsResting DEF Resting
  <2>2. CASE miner' = [miner EXCEPT !.pc = "template"] \/ miner' = [miner EXCEPT !.pc = "top"]
    BY <2>2 DEF Miners, LoopPlaces
  <2>3. CASE miner' = [miner EXCEPT !.pc = "template", !.candidate = metrics.height + 1]
    <3>1. metrics.height + 1 \in Nat
      BY SMT
    <3>2. \A c \in Nat : [miner EXCEPT !.pc = "template", !.candidate = c] \in Miners
      BY DEF Miners, LoopPlaces
    <3> QED
      BY <2>3, <3>1, <3>2
  <2>4. CASE LoopEnds
    <3>1. miner' = [miner EXCEPT !.pc = "ended"]
          \/ miner' = [miner EXCEPT !.pc = "ended", !.state = "READY"]
      BY <2>4 DEF LoopEnds
    <3> QED
      BY <3>1 DEF Miners, LoopPlaces, LoopStates
  <2> QED
    BY <2>1, <2>2, <2>3, <2>4, ResumedState DEF LoopTop, WaitOver, LoopStates
<1>4. miner'.round \in {miner.round, NoRound}
  BY DEF LoopTop, WaitOver, LoopEnds, EndsWith, Miners
<1>5. \A t \in Threads : work'[t] = NoBlock
  BY <1>1, <1>2 DEF Busy
<1>6. NoRound.winner = NoBlock
  BY DEF NoRound
<1> QED
  BY <1>1, <1>3, <1>4, <1>5, <1>6 DEF Busy, WinnerOfRound

\* A new template goes to idle workers.
LEMMA TemplatePreserves ==
    ASSUME RoundInv, Template
    PROVE  RoundInv'
<1>1. \A t \in Threads : ~Busy(t)
  BY DEF RoundInv, Template
<1>2. CASE UNCHANGED work /\ \E s \in LoopStates : EndsWith(s)
  BY <1>1, <1>2, RestPreserves, EndsResting DEF RoundInv, Template
<1>3. CASE \E b \in {[parent |-> tip, coinbase |-> miner.candidate]} :
              /\ miner' = [miner EXCEPT !.pc = "collect",
                                        !.round = [NoRound EXCEPT !.template = b]]
              /\ work' = [t \in Threads |-> IF Busy(t) THEN work[t] ELSE b]
  <2> DEFINE b == [parent |-> tip, coinbase |-> miner.candidate]
  <2>1. b \in Blocks
    BY DEF RoundInv, Miners, Blocks
  <2>2. miner' = [miner EXCEPT !.pc = "collect", !.round = [NoRound EXCEPT !.template = b]]
        /\ work' = [t \in Threads |-> IF Busy(t) THEN work[t] ELSE b]
    BY <1>3
  <2> HIDE DEF b
  <2>3. [NoRound EXCEPT !.template = b] \in Rounds
        /\ [NoRound EXCEPT !.template = b].template = b
        /\ [NoRound EXCEPT !.template = b].winner = NoBlock
    BY <2>1 DEF NoRound, Rounds, NoBlock, Blocks
  <2>4. miner' \in Miners /\ miner'.pc = "collect" /\ miner'.round.template = b
        /\ miner'.round.winner = NoBlock
    BY <2>2, <2>3 DEF RoundInv, Miners, LoopPlaces
  <2>5. work' = [t \in Threads |-> b]
    BY <1>1, <2>2
  <2> QED
    BY <2>1, <2>4, <2>5 DEF RoundInv, Template, WinnerOfRound
<1> QED
  BY <1>2, <1>3, ResumedState DEF Template, LoopStates, RoundInv

\* The end of a round: every worker has answered.
LEMMA RoundPreserves ==
    ASSUME RoundInv, RoundWithoutBlock \/ ConnectBlock \/ ReportBlock
    PROVE  RoundInv'
<1> USE DEF RoundInv
<1>1. \A t \in Threads : ~Busy(t)
  BY DEF RoundWithoutBlock, RoundFailed, RoundStopped, RoundNotReady, RoundReady, NoWinner,
         ConnectBlock, ReportBlock, RoundOver, AllAnswered
<1>2. miner.round.winner.parent + 1 \in Nat /\ miner.round.winner \in Blocks
  BY SMT DEF Miners, Rounds, Blocks
<1>3. NoCandidate \in Nat /\ miner.candidate \in Nat
  BY DEF NoCandidate, Miners
<1>4. CASE RoundWithoutBlock
  <2>1. Resting(miner')
    <3>1. CASE RoundNotReady
      BY <3>1, <1>3 DEF RoundNotReady, Resting, Miners, LoopPlaces, LoopStates, NoRound, Rounds,
                        NoBlock, Blocks
    <3>2. CASE RoundFailed \/ RoundStopped
      BY <3>2, EndsResting, ResumedState DEF RoundFailed, RoundStopped, LoopStates
    <3>3. CASE RoundReady
      BY <3>3, <1>3, EndsResting, AgainResting, ResumedState DEF RoundReady, LoopStates
    <3> QED
      BY <1>4, <3>1, <3>2, <3>3 DEF RoundWithoutBlock
  <2> QED
    BY <1>1, <1>4, <2>1, RestPreserves DEF RoundWithoutBlock
<1>5. CASE ConnectBlock
  <2>1. CASE miner' = [miner EXCEPT !.pc = "report"] /\ tip' = miner.round.winner.parent + 1
    <3>1. miner' \in Miners /\ miner'.round = miner.round
      BY <2>1 DEF Miners, LoopPlaces
    <3> QED
      BY <1>1, <1>2, <1>5, <2>1, <3>1 DEF ConnectBlock, Busy, WinnerOfRound
  <2>2. CASE UNCHANGED tip /\ (Again(NoCandidate, miner.state) \/ EndsWith("ERROR"))
    <3>1. Resting(miner')
      BY <1>3, <2>2, EndsResting, AgainResting, ResumedState DEF LoopStates
    <3> QED
      BY <1>1, <1>5, <2>2, <3>1, RestPreserves DEF ConnectBlock
  <2> QED
    BY <1>5, <2>1, <2>2 DEF ConnectBlock
<1>6. CASE ReportBlock
  <2>1. Resting(miner')
    BY <1>3, <1>6, AgainResting, ResumedState DEF ReportBlock
  <2>2. metrics' \in [height : Nat, ready : BOOLEAN, live : BOOLEAN]
    BY <1>2, <1>6 DEF ReportBlock
  <2> QED
    BY <1>1, <1>6, <2>1, <2>2, RestPreserves DEF ReportBlock
<1> QED
  BY <1>4, <1>5, <1>6

\* A worker that answers has the template of this round in hand.
LEMMA WorkerPreserves ==
    ASSUME RoundInv, NEW t \in Threads, WorkerStep(t)
    PROVE  RoundInv'
<1> USE DEF RoundInv
<1>1. Busy(t) /\ work' = [work EXCEPT ![t] = NoBlock] /\ UNCHANGED <<tip, metrics>>
  BY DEF WorkerStep, WorkerFinds, WorkerGivesUp, WorkerFails, Answered
<1>2. miner.pc = "collect" /\ work[t] = miner.round.template
  BY <1>1 DEF Busy
<1>3. work' \in [Threads -> Blocks]
      /\ \A u \in Threads : work'[u] \in {NoBlock, miner.round.template}
  BY <1>1 DEF Blocks, NoBlock
<1>4. /\ miner' \in Miners /\ miner'.pc = "collect"
      /\ miner'.round.template = miner.round.template
      /\ miner'.round.winner \in {miner.round.winner, work[t]}
  <2>1. CASE WorkerFinds(t)
    BY <1>2, <2>1 DEF WorkerFinds, Miners, Rounds
  <2>2. CASE WorkerGivesUp(t)
    BY <1>2, <2>2 DEF WorkerGivesUp
  <2>3. CASE WorkerFails(t)
    BY <1>2, <2>3 DEF WorkerFails, Miners, Rounds
  <2> QED
    BY <2>1, <2>2, <2>3 DEF WorkerStep
<1> QED
  BY <1>1, <1>2, <1>3, <1>4 DEF WinnerOfRound

\* Blocks, metrics and the age of a template preserve the invariant.
LEMMA EnvironmentPreserves ==
    ASSUME RoundInv, TipMoves \/ MetricsMove \/ TemplateExpires
    PROVE  RoundInv'
<1> USE DEF RoundInv
<1>1. CASE TipMoves
  BY SMT, <1>1, HeightAssumption DEF TipMoves, WinnerOfRound, Busy
<1>2. CASE MetricsMove
  BY <1>2 DEF MetricsMove, WinnerOfRound, Busy
<1>3. CASE TemplateExpires
  <2>1. miner' \in Miners /\ miner'.pc = miner.pc /\ miner'.round.template = miner.round.template
        /\ miner'.round.winner = miner.round.winner
    BY <1>3 DEF TemplateExpires, Miners, Rounds
  <2> QED
    BY <1>3, <2>1 DEF TemplateExpires, WinnerOfRound, Busy
<1> QED
  BY <1>1, <1>2, <1>3

\* The loop's steps and those of the commands and workers around it.
LEMMA RoundInvStep == RoundInv /\ [Next]_vars => RoundInv'
<1> SUFFICES ASSUME RoundInv, [Next]_vars PROVE RoundInv'
  BY SMT
<1>1. CASE StartMining \/ MiningStopped \/ StatusPolled
  <2>1. miner.state \in LoopStates /\ "READY" \in LoopStates
    BY ResumedState DEF RoundInv, LoopStates
  <2> QED
    BY <1>1, <2>1, StartPreserves DEF StartMining, MiningStopped, StatusPolled, StopJoined,
                                      reap_finished_mining_worker
<1>2. CASE UNCHANGED <<tip, metrics, miner, work>>
  BY <1>2 DEF RoundInv, WinnerOfRound, Busy
<1>3. CASE TaskStep \/ Panic
  <2>1. metrics' \in [height : Nat, ready : BOOLEAN, live : BOOLEAN]
    <3>1. (miner.pc = "off") \in BOOLEAN
      OBVIOUS
    <3>2. \A b \in BOOLEAN : [metrics EXCEPT !.live = b]
                                 \in [height : Nat, ready : BOOLEAN, live : BOOLEAN]
      BY DEF RoundInv
    <3> QED
      BY <1>3, <3>1, <3>2 DEF TaskStep, Panic, NodeEnds
  <2> QED
    BY <1>3, <2>1 DEF TaskStep, Panic, NodeEnds, RoundInv, WinnerOfRound, Busy
<1>4. CASE LoopStep
  <2>1. (owner.pc = "running") \in BOOLEAN
    OBVIOUS
  <2> QED
    BY <1>4, <2>1, LoopPreserves, TemplatePreserves, RoundPreserves DEF LoopStep, RoundStep
<1>5. CASE Environment \/ Expiry
  BY <1>5, EnvironmentPreserves DEF Environment, Expiry
<1>6. CASE \E t \in Threads : WorkersStep(t)
  BY <1>6, WorkerPreserves DEF WorkersStep
<1>7. CASE \/ StopMining \/ embedded_node_stop \/ StartCancelled \/ StartJoined
           \/ StopCore \/ chain_source_set \/ NodeStep
  BY <1>2, <1>7 DEF StopMining, embedded_node_stop, StartCancelled, StartJoined, StopCore,
                    chain_source_set, NodeStep, minerVars
<1>8. CASE UNCHANGED vars
  BY <1>2, <1>8 DEF vars, minerVars
<1> QED
  BY <1>1, <1>3, <1>4, <1>5, <1>6, <1>7, <1>8 DEF Next

\* The block a round connects was found for the template of that round
\* (mine_wallet_block counts one answer per worker before it returns), for any
\* number of threads, stale rounds and stops.
THEOREM BlocksAreOfTheirRound == Spec => []WinnerOfRound
<1>1. RoundInv => WinnerOfRound
  BY DEF RoundInv
<1> QED
  BY <1>1, RoundInvInit, RoundInvStep, PTL DEF Spec

-----------------------------------------------------------------------------
(***************************************************************************)
(* The facts of NodeStatus for every height, hash, peer count and thread   *)
(* count: TLC evaluates them on the small observations listed there.       *)
(***************************************************************************)
Options == Nat \cup {None}

AnyPeers == [connected : Nat, highest : Nat, canonical : Nat]

AnyNode ==
    [started : BOOLEAN, starting : BOOLEAN, startFailed : BOOLEAN, running : BOOLEAN,
     answers : BOOLEAN, api : BOOLEAN, live : BOOLEAN, verified : BOOLEAN,
     last : BOOLEAN, peers : AnyPeers, tip : Nat, hash : Nat, cached : Nat]

AnyWallet ==
    [remote : BOOLEAN, cursor : Options, cursorHash : Options, error : BOOLEAN,
     canonical : Options, canonicalHash : Options, unlocked : BOOLEAN, tip : Options,
     peers : AnyPeers, restoring : BOOLEAN, latch : BOOLEAN]

\* What the readiness of a live node says: it may mine exactly when it is
\* verified, has a peer, and its peers' best height is its own.
LEMMA LiveReadiness ==
    ASSUME NEW o \in AnyNode, NEW h \in Nat
    PROVE  readiness_allows_mining(derive_node_readiness(Snapshot(o, h))) <=>
             /\ o.verified /\ o.peers.connected > 0 /\ o.peers.highest = h
<1> DEFINE s == Snapshot(o, h)
<1>1. /\ s.running = TRUE /\ s.failed = FALSE /\ s.age = 0 /\ s.verified = o.verified
      /\ s.hash = o.hash /\ s.local = h /\ s.peers = o.peers.connected
      /\ s.peer = KnownPeerHeight(o.peers, h)
  BY DEF Snapshot
<1>2. o.peers.connected \in Nat /\ o.peers.highest \in Nat /\ o.hash \in Nat /\ o.verified \in BOOLEAN
  BY DEF AnyNode, AnyPeers
<1> HIDE DEF s
<1>3. s.hash # None
  BY SMT, <1>1, <1>2 DEF None
<1>4. derive_node_readiness(s) =
        IF ~o.verified THEN "Starting"
        ELSE IF o.peers.connected = 0 THEN "WaitingForPeers"
        ELSE IF s.peer = None \/ s.peer < h THEN "UnknownPeerHeight"
        ELSE IF s.peer > h THEN "Synchronizing"
        ELSE IF h = 0 THEN "ConnectedAtGenesis" ELSE "Ready"
  BY SMT, <1>1, <1>3 DEF derive_node_readiness, StaleAfter
<1>5. s.peer = IF o.peers.connected = 0 \/ (o.peers.highest = 0 /\ h > 0)
               THEN None ELSE o.peers.highest
  BY <1>1 DEF KnownPeerHeight
<1>6. readiness_allows_mining(derive_node_readiness(s)) <=>
        /\ o.verified /\ o.peers.connected > 0 /\ o.peers.highest = h
  BY SMT, <1>2, <1>4, <1>5 DEF readiness_allows_mining, None
<1> QED
  BY <1>6 DEF s

\* The wallet calls itself synchronized with its embedded node exactly when the
\* gates of mining_start let the miner begin (sync_status_from_service,
\* embedded_node_status_inner, require_mining_cursor_gate), for every
\* observation of a working node.
THEOREM SynchronizedMayMine ==
    ASSUME NEW o \in AnyNode, NEW w \in AnyWallet
    PROVE  SynchronizedIsMineable(w, o)
<1> SUFFICES ASSUME SameMoment(w, o), ~w.remote
             PROVE  sync_status_from_service(w).synchronized <=>
                        MiningGates(sync_status_from_service(w), o)
  BY DEF SynchronizedIsMineable
<1> DEFINE y == sync_status_from_service(w)
<1>1. /\ y.synchronized = cursor_is_authoritatively_synchronized(w)
      /\ y.cursor = w.cursor /\ y.cursorHash = w.cursorHash /\ y.error = w.error
      /\ y.canonical = w.canonical /\ y.canonicalHash = w.canonicalHash
  BY DEF sync_status_from_service
<1> HIDE DEF y
<1>2. embedded_node_status_inner(o) = LiveStatus(o, o.tip)
  BY DEF SameMoment, embedded_node_status_inner
<1>3. /\ LiveStatus(o, o.tip).lifecycle = derive_node_readiness(Snapshot(o, o.tip))
      /\ LiveStatus(o, o.tip).ready =
            (o.api /\ readiness_allows_mining(derive_node_readiness(Snapshot(o, o.tip))))
  BY DEF LiveStatus, node_synchronization_status
<1>4. o.tip \in Nat
  BY DEF AnyNode
<1>5. readiness_allows_mining(derive_node_readiness(Snapshot(o, o.tip))) <=>
        o.verified /\ o.peers.connected > 0 /\ o.peers.highest = o.tip
  BY <1>4, LiveReadiness
<1>6. MiningGates(y, o) <=>
        require_mining_cursor_gate(y, o.peers.connected) /\ o.peers.highest = o.tip
  BY <1>2, <1>3, <1>5 DEF MiningGates, SameMoment, require_mining_cursor_gate
<1> QED
  BY SMT, <1>1, <1>6 DEF SameMoment, y, require_mining_cursor_gate,
                    cursor_is_authoritatively_synchronized

\* A node the application shows as ready runs, has its API and a peer, and is
\* at the height of its peers, whichever way the status was made
\* (embedded_node_status_inner).
THEOREM ReadyMeansAtPeers ==
    ASSUME NEW o \in AnyNode
    PROVE  ReadyIsAtPeers(o)
<1> DEFINE seen == embedded_node_status_inner(o)
<1> SUFFICES ASSUME seen.ready
             PROVE  /\ readiness_allows_mining(seen.lifecycle) /\ seen.progress = 100
                    /\ o.started /\ o.running /\ o.api /\ o.peers.connected > 0
                    /\ seen.peer = seen.tip
  BY DEF ReadyIsAtPeers
<1>1. o.started /\ o.running /\ \E h \in Nat : seen = LiveStatus(o, h)
  <2>1. \A l : Status(l).ready = FALSE
    BY DEF Status
  <2>2. synchronizing_node_status_without_tip(o.peers).ready = FALSE
    BY DEF synchronizing_node_status_without_tip, Status
  <2>3. o.tip \in Nat
    BY DEF AnyNode
  <2> QED
    BY <2>1, <2>2, <2>3 DEF embedded_node_status_inner, starting_node_status,
        failed_node_start_status, stopped_node_status, unavailable_node_status
<1>2. PICK h \in Nat : seen = LiveStatus(o, h)
  BY <1>1
<1> HIDE DEF seen
<1> DEFINE r == derive_node_readiness(Snapshot(o, h))
<1>3. /\ seen.lifecycle = r /\ seen.tip = h
      /\ seen.peer = KnownPeerHeight(o.peers, h)
      /\ seen.progress = node_synchronization_status(Snapshot(o, h)).progress
      /\ seen.ready = (o.api /\ readiness_allows_mining(r))
  BY <1>2 DEF LiveStatus, node_synchronization_status, Snapshot
<1>4. o.api /\ readiness_allows_mining(r)
  BY <1>3
<1>5. o.peers.connected > 0 /\ o.peers.highest = h
  BY <1>4, LiveReadiness
<1>6. o.peers.connected \in Nat
  BY DEF AnyNode, AnyPeers
<1>7. KnownPeerHeight(o.peers, h) = h
  BY SMT, <1>5, <1>6 DEF KnownPeerHeight
<1>8. node_synchronization_status(Snapshot(o, h)).progress = 100
  BY <1>4 DEF node_synchronization_status
<1> QED
  BY SMT, <1>1, <1>3, <1>4, <1>5, <1>7, <1>8

\* Whatever was stored, the miner uses at least one and at most every logical
\* CPU, and a count that mining_config_set accepts is the one it uses.
THEOREM ThreadsAreKept ==
    ASSUME NEW threads \in Nat, NEW cpus \in Nat \ {0}
    PROVE  ThreadsKept(threads, cpus)
<1>1. cpus \div 2 \in Nat /\ cpus \div 2 <= cpus
  BY SMT
<1>2. ConfiguredThreads(threads, cpus) \in 1 .. cpus
  BY SMT, <1>1 DEF ConfiguredThreads
<1>3. threads > 0 /\ threads <= cpus => ConfiguredThreads(threads, cpus) = threads
  BY SMT DEF ConfiguredThreads
<1> QED
  BY <1>2, <1>3 DEF ThreadsKept, mining_config_set_accepts

-----------------------------------------------------------------------------
(***************************************************************************)
(* What the synchronization worker has scanned, for chains of any height,  *)
(* any number of branches, page sizes, depths, window sizes and moves of   *)
(* the node between the requests of a pass.                                *)
(***************************************************************************)
\* What a sequence holds comes from its range.
LEMMA SeqElement ==
    ASSUME NEW S, NEW s \in Seq(S), NEW i \in 1 .. Len(s)
    PROVE  s[i] \in S
BY SMT

\* Only the empty sequence has no elements.
LEMMA NoElements ==
    ASSUME NEW S
    PROVE  /\ <<>> \in Seq(S) /\ Len(<<>>) = 0
           /\ \A s \in Seq(S) : s # <<>> => Len(s) \in Nat \ {0}
BY SMT

\* Replacing an element leaves the others.
LEMMA Replaced ==
    ASSUME NEW S, NEW s \in Seq(S), NEW i \in 1 .. Len(s), NEW e \in S
    PROVE  LET t == [s EXCEPT ![i] = e]
           IN  /\ t \in Seq(S) /\ Len(t) = Len(s)
               /\ \A j \in 1 .. Len(s) : t[j] = IF j = i THEN e ELSE s[j]
BY SMT

\* The first element of a sequence and the others.
LEMMA HeadAndTail ==
    ASSUME NEW S, NEW s \in Seq(S), s # <<>>
    PROVE  /\ Head(s) \in S /\ Tail(s) \in Seq(S) /\ Len(Tail(s)) = Len(s) - 1
           /\ \A i \in 1 .. Len(Tail(s)) : Tail(s)[i] = s[i + 1]
BY SMT

\* A sequence is a function on its positions.
LEMMA SeqIsFunction ==
    ASSUME NEW S, NEW s \in Seq(S)
    PROVE  Len(s) \in Nat /\ s \in [1 .. Len(s) -> S] /\ DOMAIN s = 1 .. Len(s)
BY SMT

\* Sequences with the same elements are the same.
LEMMA SameElements ==
    ASSUME NEW S, NEW s \in Seq(S), NEW t \in Seq(S), Len(s) = Len(t),
           \A i \in 1 .. Len(s) : s[i] = t[i]
    PROVE  s = t
BY SMT

\* A sequence over a set is one over every larger set.
LEMMA WiderRange ==
    ASSUME NEW S, NEW T, NEW s \in Seq(S), S \subseteq T
    PROVE  s \in Seq(T)
BY SMT

\* A part of a sequence.
LEMMA Cut ==
    ASSUME NEW S, NEW s, NEW m \in Int, NEW n \in Int, \A i \in m .. n : s[i] \in S
    PROVE  /\ SubSeq(s, m, n) \in Seq(S)
           /\ Len(SubSeq(s, m, n)) = IF m <= n THEN n - m + 1 ELSE 0
           /\ \A i \in 1 .. n - m + 1 : SubSeq(s, m, n)[i] = s[m + i - 1]
BY SMT

\* Hashes of blocks, and the blocks a page may hold.
Paths == Seq(1 .. Branches)

Begins(g, h) == Len(g) <= Len(h) /\ \A k \in 1 .. Len(g) : g[k] = h[k]

BlocksOf(bodies) == {Block(h, body) : h \in Paths \ {<<>>}, body \in bodies}

Bodies == {"true", "header", "rows", "roots"}

\* A path that names no block is none.
LEMMA NoHashIsNoPath == NoHash \notin Paths /\ Genesis \in Paths
<1>1. ASSUME NoHash \in Paths PROVE FALSE
  <2>1. <<0>> \in Seq(1 .. Branches) /\ Len(<<0>>) = 1
    BY <1>1 DEF NoHash, Paths
  <2>2. <<0>>[1] \in 1 .. Branches
    BY SMT, <2>1
  <2> QED BY SMT, <2>2, ScanBounds
<1> QED BY SMT, <1>1 DEF Genesis, Paths

\* What a path is.
LEMMA PathFacts ==
    ASSUME NEW h \in Paths
    PROVE  /\ Len(h) \in Nat /\ DOMAIN h = 1 .. Len(h) /\ h # NoHash
           /\ \A k \in 1 .. Len(h) : h[k] \in 1 .. Branches
           /\ h # <<>> => Len(h) >= 1
<1>1. h \in Seq(1 .. Branches)
  BY DEF Paths
<1>2. Len(h) \in Nat /\ DOMAIN h = 1 .. Len(h) /\ \A k \in 1 .. Len(h) : h[k] \in 1 .. Branches
  BY <1>1, SeqIsFunction, SeqElement
<1>3. h # <<>> => Len(h) >= 1
  BY SMT, <1>1, NoElements
<1>4. h # NoHash
  BY NoHashIsNoPath
<1> QED BY <1>2, <1>3, <1>4

\* The fields of a block.
LEMMA BlockFields ==
    ASSUME NEW bodies, NEW b \in BlocksOf(bodies)
    PROVE  /\ b.hash \in Paths \ {<<>>} /\ b.body \in bodies
           /\ b.height = Len(b.hash) /\ b.height \in Nat \ {0}
           /\ b.prev = Parent(b.hash) /\ b = Block(b.hash, b.body)
<1>1. PICK h \in Paths \ {<<>>}, body \in bodies : b = Block(h, body)
  BY SMT DEF BlocksOf
<1>2. Len(h) \in Nat \ {0}
  BY SMT, PathFacts
<1> QED BY <1>1, <1>2 DEF Block

\* A prefix of a path is a path.
LEMMA Shortened ==
    ASSUME NEW h \in Paths, NEW n \in 0 .. Len(h)
    PROVE  /\ SubSeq(h, 1, n) \in Paths /\ Len(SubSeq(h, 1, n)) = n
           /\ \A k \in 1 .. n : SubSeq(h, 1, n)[k] = h[k]
           /\ Begins(SubSeq(h, 1, n), h)
<1>1. Len(h) \in Nat /\ n \in Nat /\ n <= Len(h) /\ \A k \in 1 .. n : h[k] \in 1 .. Branches
  BY SMT, PathFacts
<1>2. /\ SubSeq(h, 1, n) \in Seq(1 .. Branches)
      /\ Len(SubSeq(h, 1, n)) = n
      /\ \A k \in 1 .. n : SubSeq(h, 1, n)[k] = h[k]
  BY SMT, <1>1, Cut
<1> QED BY <1>1, <1>2 DEF Paths, Begins

\* The prefix of a length is the one that begins the path.
LEMMA BeginsIsPrefix ==
    ASSUME NEW g \in Paths, NEW h \in Paths, Begins(g, h)
    PROVE  g = SubSeq(h, 1, Len(g))
<1>1. Len(g) \in 0 .. Len(h)
  BY SMT, PathFacts DEF Begins
<1>2. /\ SubSeq(h, 1, Len(g)) \in Paths /\ Len(SubSeq(h, 1, Len(g))) = Len(g)
      /\ \A k \in 1 .. Len(g) : SubSeq(h, 1, Len(g))[k] = h[k]
  BY <1>1, Shortened
<1>3. \A k \in 1 .. Len(g) : g[k] = SubSeq(h, 1, Len(g))[k]
  BY <1>2 DEF Begins
<1> QED BY <1>2, <1>3, SameElements DEF Paths

\* Beginnings of one path are comparable, and beginning is transitive.
LEMMA BeginsOrder ==
    ASSUME NEW f \in Paths, NEW g \in Paths, NEW h \in Paths
    PROVE  /\ Begins(g, g)
           /\ Begins(f, g) /\ Begins(g, h) => Begins(f, h)
           /\ Begins(f, h) /\ Begins(g, h) /\ Len(f) <= Len(g) => Begins(f, g)
           /\ Begins(f, g) /\ Len(f) = Len(g) => f = g
<1>1. Len(f) \in Nat /\ Len(g) \in Nat /\ Len(h) \in Nat
  BY PathFacts
<1>2. Begins(f, g) /\ Begins(g, h) => Begins(f, h)
  BY SMT, <1>1 DEF Begins
<1>3. Begins(f, h) /\ Begins(g, h) /\ Len(f) <= Len(g) => Begins(f, g)
  BY SMT, <1>1 DEF Begins
<1>4. Begins(f, g) /\ Len(f) = Len(g) => f = g
  BY SameElements DEF Begins, Paths
<1>5. Begins(g, g)
  BY SMT, <1>1 DEF Begins
<1> QED BY <1>2, <1>3, <1>4, <1>5

LOCAL INSTANCE WellFoundedInduction

\* A set of naturals has a least element.
LEMMA LeastOf ==
    ASSUME NEW S \in SUBSET Nat, S # {}
    PROVE  \E m \in S : \A n \in S : m <= n
<1> DEFINE R == OpToRel(<, Nat)
<1>1. IsWellFoundedOn(R, Nat)
  BY NatLessThanWellFounded DEF OpToRel
<1> HIDE DEF R
<1>2. PICK m \in S : \A n \in S : ~ (<<n, m>> \in R)
  BY <1>1, WFMin
<1>3. \A n \in S : ~ (n < m)
  <2> SUFFICES ASSUME NEW n \in S, n < m PROVE FALSE
    OBVIOUS
  <2>1. <<n, m>> \in Nat \X Nat
    OBVIOUS
  <2>2. <<n, m>> \in R
    BY <2>1 DEF R, OpToRel
  <2> QED BY <1>2, <2>2
<1> QED BY SMT, <1>3

\* Linked blocks (validate_and_map): every hash begins with the anchor and with
\* the hashes of the blocks below.
LEMMA LinkedBegins ==
    ASSUME NEW bodies, NEW anchor \in Paths, NEW blocks \in Seq(BlocksOf(bodies)),
           Linked(anchor, blocks)
    PROVE  \A i \in 1 .. Len(blocks) :
              /\ blocks[i].height = Len(anchor) + i
              /\ Begins(anchor, blocks[i].hash)
              /\ \A j \in 1 .. i : Begins(blocks[j].hash, blocks[i].hash)
<1> DEFINE Good(i) == /\ Begins(anchor, blocks[i].hash)
                      /\ \A j \in 1 .. i : Begins(blocks[j].hash, blocks[i].hash)
           Bad == {i \in 1 .. Len(blocks) : ~Good(i)}
<1>0. Len(blocks) \in Nat /\ Len(anchor) \in Nat
  BY SMT, PathFacts
<1>1. ASSUME NEW i \in 1 .. Len(blocks)
      PROVE  /\ blocks[i] \in BlocksOf(bodies) /\ blocks[i].hash \in Paths
             /\ blocks[i].height = Len(anchor) + i /\ Len(blocks[i].hash) = Len(anchor) + i
             /\ blocks[i].prev = Parent(blocks[i].hash)
             /\ blocks[i].prev = IF i = 1 THEN anchor ELSE blocks[i - 1].hash
  <2>1. blocks[i] \in BlocksOf(bodies)
    BY SeqElement
  <2> QED BY <2>1, BlockFields DEF Linked
<1>2. ASSUME NEW i \in 1 .. Len(blocks)
      PROVE  /\ blocks[i].prev \in Paths /\ Begins(blocks[i].prev, blocks[i].hash)
             /\ Begins(blocks[i].hash, blocks[i].hash)
  <2>1. Len(blocks[i].hash) - 1 \in 0 .. Len(blocks[i].hash)
    BY SMT, <1>0, <1>1
  <2>2. blocks[i].prev = SubSeq(blocks[i].hash, 1, Len(blocks[i].hash) - 1)
    BY <1>1 DEF Parent
  <2>3. blocks[i].hash \in Paths
    BY <1>1
  <2>4. blocks[i].prev \in Paths /\ Begins(blocks[i].prev, blocks[i].hash)
    BY <2>1, <2>2, <2>3, Shortened
  <2> QED BY <2>3, <2>4, BeginsOrder
<1>3. Bad = {}
  <2> SUFFICES ASSUME Bad # {} PROVE FALSE
    OBVIOUS
  <2>1. PICK i \in Bad : \A n \in Bad : i <= n
    <3>1. Bad \in SUBSET Nat
      BY SMT, <1>0
    <3> HIDE DEF Bad
    <3> QED BY <3>1, LeastOf
  <2>2. i \in 1 .. Len(blocks) /\ ~Good(i)
    OBVIOUS
  <2>3. CASE i = 1
    <3>1. \A j \in 1 .. i : j = i
      BY SMT, <2>3
    <3>2. blocks[i].prev = anchor
      BY <1>1, <2>2, <2>3
    <3> QED BY <1>2, <2>2, <3>1, <3>2
  <2>4. CASE i # 1
    <3>1. i - 1 \in 1 .. Len(blocks) /\ ~(i <= i - 1) /\ \A j \in 1 .. i : j = i \/ j \in 1 .. i - 1
      BY SMT, <1>0, <2>2, <2>4
    <3>2. Good(i - 1)
      BY <2>1, <3>1
    <3>3. Begins(blocks[i - 1].hash, blocks[i].hash)
      BY <1>1, <1>2, <2>2, <2>4
    <3>4. Begins(anchor, blocks[i].hash)
      <4>1. blocks[i - 1].hash \in Paths /\ blocks[i].hash \in Paths
        BY <1>1, <2>2, <3>1
      <4>2. Begins(anchor, blocks[i - 1].hash)
        BY <3>2
      <4> QED BY SMT, <3>3, <4>1, <4>2, BeginsOrder
    <3>5. ASSUME NEW j \in 1 .. i PROVE Begins(blocks[j].hash, blocks[i].hash)
      <4>1. CASE j = i
        BY <1>2, <2>2, <4>1
      <4>2. CASE j \in 1 .. i - 1
        <5>1. j \in 1 .. Len(blocks) /\ Begins(blocks[j].hash, blocks[i - 1].hash)
          BY SMT, <1>0, <2>2, <3>2, <4>2
        <5>2. /\ blocks[j].hash \in Paths /\ blocks[i - 1].hash \in Paths
              /\ blocks[i].hash \in Paths
          BY <1>1, <2>2, <3>1, <5>1
        <5> QED BY SMT, <3>3, <5>1, <5>2, BeginsOrder
      <4> QED BY <3>1, <4>1, <4>2
    <3> QED BY <2>2, <3>4, <3>5
  <2> QED BY <2>3, <2>4
<1> QED
  BY <1>1, <1>3

-----------------------------------------------------------------------------
(***************************************************************************)
(* Windows.                                                                *)
(***************************************************************************)
Real == BlocksOf({"true"})

\* Up to the height, every block of the window has its successor there.
Consecutive(w, height) ==
    \A b \in w : b.height < height => \E a \in w : a.height = b.height + 1

\* A window of real blocks that ends at the cursor.
Ends(w, c) ==
    /\ w \subseteq Real
    /\ c \in Paths
    /\ \A b \in w : Begins(b.hash, c)
    /\ Consecutive(w, Len(c))

\* Pruning keeps what is above a block that it keeps.
LEMMA PrunedKeeps ==
    ASSUME NEW w \in SUBSET Real, NEW height \in Nat
    PROVE  /\ Pruned(w) \subseteq w
           /\ \A b \in Pruned(w) : \A a \in w : b.height < a.height => a \in Pruned(w)
           /\ Consecutive(w, height) => Consecutive(Pruned(w), height)
<1>1. \A b \in w : b.height \in Nat
  BY BlockFields DEF Real
<1>2. WindowSize \in Nat
  BY ScanBounds
<1>3. ASSUME NEW b \in Pruned(w), NEW a \in w, b.height < a.height
      PROVE  a \in Pruned(w)
  BY SMT, <1>1, <1>2, <1>3 DEF Pruned
<1>4. Pruned(w) \subseteq w
  BY DEF Pruned
<1>5. ASSUME Consecutive(w, height), NEW b \in Pruned(w), b.height < height
      PROVE  \E a \in Pruned(w) : a.height = b.height + 1
  <2>1. PICK a \in w : a.height = b.height + 1
    BY <1>4, <1>5 DEF Consecutive
  <2>2. b.height < a.height
    BY SMT, <1>1, <1>4, <2>1
  <2> QED BY <1>3, <2>1, <2>2
<1> QED BY <1>3, <1>4, <1>5 DEF Consecutive

\* A linked page on top of a window.
LEMMA JoinedIsReal ==
    ASSUME NEW anchor \in Paths, NEW blocks \in Seq(Real), blocks # <<>>, Linked(anchor, blocks),
           NEW w \in SUBSET Real, \A b \in w : b.height <= Len(anchor),
           Consecutive(w, Len(anchor))
    PROVE  LET c == Newest(blocks).hash
           IN  /\ w \cup Range(blocks) \subseteq Real
               /\ c \in Paths /\ Begins(anchor, c)
               /\ \A b \in Range(blocks) : Begins(b.hash, c) /\ b.height > Len(anchor)
               /\ Consecutive(w \cup Range(blocks), Len(c))
               /\ blocks[1] \in Range(blocks)
               /\ blocks[1].height = Len(anchor) + 1 /\ blocks[1].prev = anchor
<1> DEFINE n == Len(blocks)
           c == Newest(blocks).hash
<1>0. n \in Nat \ {0} /\ DOMAIN blocks = 1 .. n /\ Len(anchor) \in Nat
  BY NoElements, SeqIsFunction, PathFacts
<1>1. \A i \in 1 .. n :
        /\ blocks[i].height = Len(anchor) + i
        /\ Begins(anchor, blocks[i].hash)
        /\ \A j \in 1 .. i : Begins(blocks[j].hash, blocks[i].hash)
  BY LinkedBegins DEF Real
<1>2. \A i \in 1 .. n : blocks[i] \in Real /\ blocks[i].hash \in Paths
                        /\ blocks[i].height = Len(blocks[i].hash)
  <2> TAKE i \in 1 .. n
  <2>1. blocks[i] \in Real
    BY SeqElement
  <2> QED BY <2>1, BlockFields DEF Real
<1>3. n \in 1 .. n /\ 1 \in 1 .. n /\ c = blocks[n].hash
  BY SMT, <1>0 DEF Newest
<1> HIDE DEF n, c
<1>4. c \in Paths /\ Begins(anchor, c) /\ Len(c) = Len(anchor) + n
  BY <1>1, <1>2, <1>3
<1>5. ASSUME NEW b \in Range(blocks)
      PROVE  \E i \in 1 .. n : b = blocks[i]
  BY <1>0 DEF Range
<1>6. ASSUME NEW i \in 1 .. n PROVE blocks[i] \in Range(blocks)
  BY <1>0 DEF Range
<1>7. ASSUME NEW b \in Range(blocks)
      PROVE  Begins(b.hash, c) /\ b.height > Len(anchor) /\ b \in Real
  BY SMT, <1>0, <1>1, <1>2, <1>3, <1>5
<1>8. ASSUME NEW b \in w \cup Range(blocks), b.height < Len(c)
      PROVE  \E a \in w \cup Range(blocks) : a.height = b.height + 1
  <2>0. \A x \in w : x.height \in Nat
    BY BlockFields DEF Real
  <2>1. CASE b \in w /\ b.height < Len(anchor)
    BY <2>1 DEF Consecutive
  <2>2. CASE b \in w /\ b.height = Len(anchor)
    BY <1>1, <1>3, <1>6, <2>2
  <2>3. CASE b \in Range(blocks)
    <3>1. PICK i \in 1 .. n : b = blocks[i]
      BY <1>5, <2>3
    <3>2. i + 1 \in 1 .. n /\ b.height = Len(anchor) + i
      BY SMT, <1>0, <1>1, <1>4, <1>8, <3>1
    <3>3. blocks[i + 1].height = b.height + 1
      BY SMT, <1>0, <1>1, <3>2
    <3> QED BY <1>6, <3>2, <3>3
  <2>4. b \in w => b.height < Len(anchor) \/ b.height = Len(anchor)
    BY SMT, <1>0, <2>0
  <2> QED BY <2>1, <2>2, <2>3, <2>4
<1>9. blocks[1].prev = anchor
  BY <1>0, <1>3 DEF Linked, n
<1> QED
  BY <1>1, <1>3, <1>4, <1>6, <1>7, <1>8, <1>9 DEF Consecutive, c

\* What passes the checks of a block is real (map_block,
\* validate_full_fidelity_projection).
LEMMA MappedIsReal ==
    ASSUME NEW blocks \in Seq(BlocksOf(Bodies)),
           \A i \in 1 .. Len(blocks) : Maps(blocks[i])
    PROVE  blocks \in Seq(Real)
<1>1. ASSUME NEW i \in 1 .. Len(blocks) PROVE blocks[i] \in Real
  <2>1. blocks[i] \in BlocksOf(Bodies)
    BY SeqElement
  <2>2. blocks[i].body = "true"
    BY SMT, <2>1, BlockFields
       DEF Maps, validate_full_fidelity_projection, HeaderProjected, TransactionsProjected,
           BodyCommitted, Bodies
  <2>3. blocks[i].hash \in Paths \ {<<>>} /\ blocks[i] = Block(blocks[i].hash, blocks[i].body)
    BY <2>1, BlockFields
  <2> QED BY SMT, <2>2, <2>3 DEF Real, BlocksOf
<1> QED BY SMT, <1>1, SeqIsFunction

-----------------------------------------------------------------------------
(***************************************************************************)
(* The invariant: the durable window, and what a pass has read.            *)
(***************************************************************************)
PassFields == {"reorg", "height", "safe", "anchor", "page", "error"}

\* The steps of a pass, from the bind of its anchor on.
Bound == {"bind", "page", "tip", "previous", "commit"}

\* The anchor of a pass that is no reorganization is the cursor.  Of one that
\* is, the safe anchor is a block of the window, and the anchor of the page,
\* which was asked for again, is a path of its height.
PassInv ==
    /\ pass = [f \in PassFields |-> pass[f]]
    /\ pc \in {"page", "tip", "commit"} /\ ~pass.reorg =>
          pass.anchor = IF cursor = NoHash THEN Genesis ELSE cursor
    /\ pc \in {"search", "bind", "previous"} => pass.reorg = TRUE
    /\ pass.reorg \in BOOLEAN
    /\ pc \in Bound \cup {"search"} /\ pass.reorg => cursor # NoHash
    /\ pc = "search" => pass.height \in Int
    /\ pc \in Bound /\ pass.reorg =>
          \E b \in window : pass.safe = b.hash /\ pass.height = b.height
    /\ pc \in Bound \ {"bind"} /\ pass.reorg =>
          pass.anchor \in Paths /\ Len(pass.anchor) = pass.height
    /\ pc \in {"tip", "previous", "commit"} => pass.page.blocks \in Seq(BlocksOf(Bodies))

ScanInv ==
    /\ chain \in Paths
    /\ \/ cursor = NoHash /\ window = {}
       \/ Ends(window, cursor)
    /\ PassInv

\* The invariant implies the two properties of the durable window.
LEMMA ScanInvImplies == ScanInv => ScannedIsAChain /\ ScannedIsReal
<1> SUFFICES ASSUME ScanInv PROVE ScannedIsAChain /\ ScannedIsReal
  OBVIOUS
<1>1. CASE cursor = NoHash /\ window = {}
  BY <1>1 DEF ScannedIsAChain, ScannedIsReal
<1>2. CASE Ends(window, cursor)
  <2>1. cursor # NoHash /\ cursor \in Paths /\ window \subseteq Real
    BY <1>2, NoHashIsNoPath DEF Ends
  <2>2. ASSUME NEW b \in window
        PROVE  /\ b.height <= Len(cursor) /\ b.hash = SubSeq(cursor, 1, b.height)
               /\ b = Block(b.hash, "true")
    <3>1. /\ b.hash \in Paths /\ b.height = Len(b.hash) /\ b.body = "true"
          /\ b = Block(b.hash, b.body)
      BY SMT, <2>1, BlockFields DEF Real
    <3>2. Begins(b.hash, cursor)
      BY <1>2 DEF Ends
    <3> QED BY SMT, <2>1, <3>1, <3>2, BeginsIsPrefix DEF Begins
  <2> QED
    BY <1>2, <2>1, <2>2 DEF ScannedIsAChain, ScannedIsReal, Ends, Consecutive
<1> QED BY <1>1, <1>2 DEF ScanInv

\* A pass that fails or starts over keeps nothing.
LEMMA NoPassFields ==
    /\ NoPass = [f \in PassFields |-> NoPass[f]] /\ NoPass.reorg = FALSE
    /\ \A e : [NoPass EXCEPT !.error = e] = [f \in PassFields |-> [NoPass EXCEPT !.error = e][f]]
    /\ \A e : [NoPass EXCEPT !.error = e].reorg = FALSE
BY DEF NoPass, PassFields

\* The paths of the node.
LEMMA HashesArePaths == Hashes \subseteq Paths
<1> SUFFICES ASSUME NEW h \in Hashes PROVE h \in Paths
  OBVIOUS
<1>1. PICK n \in 0 .. MaxChain : h \in [1 .. n -> 1 .. Branches]
  BY DEF Hashes
<1>2. n \in Nat
  BY SMT, ScanBounds
<1> DEFINE S == 1 .. Branches
<1> HIDE DEF S
<1>3. \A f \in [1 .. n -> S] : f \in Seq(S)
  BY SMT, <1>2
<1> QED BY <1>1, <1>3 DEF Paths, S

\* The hash of a height, as the node answers it.
LEMMA HashAtFacts ==
    ASSUME chain \in Paths, NEW n \in Nat
    PROVE  /\ n <= Len(chain) => HashAt(n) \in Paths /\ Len(HashAt(n)) = n
           /\ n > Len(chain) => HashAt(n) = NoHash
           /\ HashAt(n) # NoHash => HashAt(n) \in Paths /\ Len(HashAt(n)) = n
<1>1. Len(chain) \in Nat
  BY PathFacts
<1>2. n <= Len(chain) => HashAt(n) \in Paths /\ Len(HashAt(n)) = n
  BY SMT, <1>1, Shortened DEF HashAt
<1>3. n > Len(chain) => HashAt(n) = NoHash
  BY SMT, <1>1 DEF HashAt
<1> QED BY SMT, <1>1, <1>2, <1>3

\* The hash the window has for a height.
LEMMA LocalHashFacts ==
    ASSUME NEW n, LocalHash(n) # NoHash
    PROVE  \E b \in window : b.height = n /\ b.hash = LocalHash(n)
BY DEF LocalHash

\* Initially nothing is scanned.
LEMMA ScanInvInit == ScanInit => ScanInv
<1> SUFFICES ASSUME ScanInit PROVE ScanInv
  OBVIOUS
<1>1. chain \in Paths
  BY HashesArePaths DEF ScanInit
<1> QED
  BY <1>1, NoPassFields DEF ScanInit, ScanInv, PassInv, Bound

\* A pass that ends without a commit.
LEMMA Ended ==
    ASSUME ScanInv, chain' \in Paths, UNCHANGED <<window, cursor>>,
           pc' \in {"idle", "failed", "stopped"},
           pass' = NoPass \/ (\E e : pass' = [NoPass EXCEPT !.error = e]) \/ pass' = pass
    PROVE  ScanInv'
<1>1. pass' = [f \in PassFields |-> pass'[f]] /\ pass'.reorg \in BOOLEAN
  BY NoPassFields DEF ScanInv, PassInv
<1> QED
  BY <1>1 DEF ScanInv, PassInv, Bound

\* The commit of a batch (commit_normal, commit_core_reorg).
LEMMA Committed ==
    ASSUME ScanInv, NEW w, NEW c, CommitAt(w, c), Canonical(c) /\ Validates(w) => Ends(w, c),
           UNCHANGED chain
    PROVE  ScanInv'
<1>0. chain' \in Paths
  BY DEF ScanInv
<1>1. CASE UNCHANGED Durable /\ \E e : Fails(e)
  BY <1>0, <1>1, Ended DEF Durable, Fails
<1>2. CASE /\ Canonical(c) /\ Validates(w) /\ window' = w /\ cursor' = c
           /\ pc' = "idle" /\ pass' = NoPass
  BY <1>0, <1>2, NoPassFields DEF ScanInv, PassInv, Bound
<1> QED BY <1>1, <1>2 DEF CommitAt

\* A batch on top of the cursor.
LEMMA BatchPreserves ==
    ASSUME ScanInv, CommitBatch
    PROVE  ScanInv'
<1> DEFINE blocks == pass.page.blocks
           anchor == pass.anchor
           w == Pruned(window \union Range(blocks))
           c == Newest(blocks).hash
<1>0. /\ pc = "commit" /\ ~pass.reorg /\ chain' = chain /\ chain' \in Paths
      /\ blocks \in Seq(BlocksOf(Bodies))
      /\ anchor = IF cursor = NoHash THEN Genesis ELSE cursor
  BY DEF CommitBatch, ScanInv, PassInv
<1>1. CASE ~ValidBatch /\ Fails("InvalidScan") /\ UNCHANGED Durable
  BY <1>0, <1>1, Ended DEF Durable, Fails
<1>2. CASE blocks = <<>> /\ pc' = "idle" /\ pass' = NoPass /\ UNCHANGED Durable
  BY <1>0, <1>2, Ended DEF Durable
<1>3. CASE ValidBatch /\ blocks # <<>> /\ CommitAt(w, c)
  <2>1. /\ anchor \in Paths /\ window \in SUBSET Real /\ Consecutive(window, Len(anchor))
        /\ \A b \in window : Begins(b.hash, anchor) /\ b.height <= Len(anchor)
    <3>1. CASE cursor = NoHash /\ window = {}
      BY <1>0, <3>1, NoHashIsNoPath DEF Consecutive
    <3>2. CASE Ends(window, cursor)
      <4>1. anchor = cursor
        BY <1>0, <3>2, NoHashIsNoPath DEF Ends
      <4> QED BY SMT, <3>2, <4>1, BlockFields DEF Ends, Begins, Real
    <3> QED BY <3>1, <3>2 DEF ScanInv
  <2>2. Linked(anchor, blocks) /\ blocks \in Seq(Real)
    BY <1>0, <1>3, MappedIsReal DEF ValidBatch
  <2> HIDE DEF blocks, anchor
  <2>3. /\ window \cup Range(blocks) \subseteq Real
        /\ c \in Paths /\ Begins(anchor, c)
        /\ \A b \in Range(blocks) : Begins(b.hash, c)
        /\ Consecutive(window \cup Range(blocks), Len(c))
    BY <1>3, <2>1, <2>2, JoinedIsReal
  <2> HIDE DEF c
  <2>4. Len(c) \in Nat
    BY <2>3, PathFacts
  <2>5. w \subseteq window \cup Range(blocks) /\ Consecutive(w, Len(c))
    BY <2>3, <2>4, PrunedKeeps
  <2>6. ASSUME NEW b \in window PROVE Begins(b.hash, c)
    <3>1. b.hash \in Paths
      BY <2>1, BlockFields DEF Real
    <3> QED BY <2>1, <2>3, <3>1, BeginsOrder
  <2> HIDE DEF w
  <2>7. Ends(w, c)
    BY <2>3, <2>5, <2>6 DEF Ends
  <2> QED BY <1>0, <1>3, <2>7, Committed
<1> QED
  BY <1>1, <1>2, <1>3 DEF CommitBatch

\* A replacement above the safe anchor: a retained block below it stays only if
\* WalletState::validate has linked the first new block to the window.
LEMMA ReorgPreserves ==
    ASSUME ScanInv, CommitReorg
    PROVE  ScanInv'
<1> DEFINE blocks == pass.page.blocks
           anchor == pass.anchor
           safe == pass.safe
           old == Rewound(window, safe)
           all == old \union Range(blocks)
           w == Pruned(all)
           c == IF blocks = <<>> THEN safe ELSE Newest(blocks).hash
<1>0. /\ pc = "commit" /\ pass.reorg = TRUE /\ chain' = chain /\ chain' \in Paths
      /\ blocks \in Seq(BlocksOf(Bodies))
      /\ anchor \in Paths /\ Len(anchor) = pass.height
      /\ Ends(window, cursor)
  BY DEF CommitReorg, ScanInv, PassInv, Bound
<1>s. PICK s \in window : safe = s.hash /\ pass.height = s.height
  BY <1>0 DEF ScanInv, PassInv, Bound
<1>1. CASE ~(ValidBatch /\ Replaces(blocks)) /\ Fails("InvalidScan") /\ UNCHANGED Durable
  BY <1>0, <1>1, Ended DEF Durable, Fails
<1>2. CASE ValidBatch /\ CommitAt(w, c)
  <2>1. /\ cursor \in Paths /\ window \subseteq Real /\ Consecutive(window, Len(cursor))
        /\ \A b \in window : /\ b.hash \in Paths /\ b.height = Len(b.hash) /\ b.height \in Nat
                             /\ Begins(b.hash, cursor) /\ b.height <= Len(cursor)
    BY SMT, <1>0, BlockFields DEF Ends, Begins, Real
  <2>2. /\ safe \in Paths /\ Len(safe) = Len(anchor) /\ Len(safe) \in Nat
        /\ Begins(safe, cursor) /\ Len(safe) <= Len(cursor)
    BY <1>0, <1>s, <2>1
  <2>3. Linked(anchor, blocks) /\ blocks \in Seq(Real)
    BY <1>0, <1>2, MappedIsReal DEF ValidBatch
  <2> HIDE DEF blocks, anchor, safe
  <2>4. old \subseteq window /\ \A b \in window : b \in old <=> b.height <= Len(safe)
    BY DEF Rewound
  <2> HIDE DEF old
  <2>5. Consecutive(old, Len(safe))
    <3> SUFFICES ASSUME NEW b \in old, b.height < Len(safe)
                 PROVE  \E a \in old : a.height = b.height + 1
      BY DEF Consecutive
    <3>1. b.height \in Nat /\ b.height < Len(cursor) /\ Len(cursor) \in Nat
      BY SMT, <2>1, <2>2, <2>4, PathFacts
    <3>2. PICK a \in window : a.height = b.height + 1
      BY <2>1, <2>4, <3>1 DEF Consecutive
    <3>3. a \in old
      BY SMT, <2>2, <2>4, <3>1, <3>2
    <3> QED BY <3>2, <3>3
  <2>6. ASSUME NEW b \in old PROVE Begins(b.hash, safe) /\ b \in Real
    <3>1. b.hash \in Paths /\ Len(b.hash) <= Len(safe) /\ Begins(b.hash, cursor)
      BY <2>1, <2>4
    <3> QED BY <2>1, <2>2, <2>4, <3>1, BeginsOrder
  <2>7. CASE blocks = <<>>
    <3>1. c = safe /\ all = old
      BY SMT, <2>7 DEF Range
    <3>2. w \subseteq old /\ Consecutive(w, Len(safe))
      BY <2>2, <2>5, <2>6, <3>1, PrunedKeeps
    <3>3. Ends(w, c)
      BY <2>2, <2>6, <3>1, <3>2 DEF Ends
    <3> HIDE DEF w, c
    <3> QED BY <1>0, <1>2, <3>3, Committed
  <2>8. CASE blocks # <<>>
    <3>1. c = Newest(blocks).hash
      BY <2>8
    <3>2. /\ all \subseteq Real
          /\ c \in Paths /\ Begins(anchor, c)
          /\ \A b \in Range(blocks) : Begins(b.hash, c) /\ b.height > Len(anchor)
          /\ Consecutive(all, Len(c))
          /\ blocks[1] \in Range(blocks)
          /\ blocks[1].height = Len(anchor) + 1 /\ blocks[1].prev = anchor
      <4>1. \A b \in old : b.height <= Len(anchor)
        BY <2>2, <2>4
      <4>2. old \in SUBSET Real /\ Consecutive(old, Len(anchor))
        BY <2>2, <2>5, <2>6
      <4> HIDE DEF c
      <4> QED BY <1>0, <2>3, <2>8, <3>1, <4>1, <4>2, JoinedIsReal DEF anchor
    <3> HIDE DEF c
    <3>3. Len(c) \in Nat
      BY <3>2, PathFacts
    <3>4. /\ w \subseteq all /\ Consecutive(w, Len(c))
          /\ \A b \in w : \A a \in all : b.height < a.height => a \in w
      BY <3>2, <3>3, PrunedKeeps
    <3> HIDE DEF w
    <3>5. ASSUME Validates(w), NEW b \in w, b \in old
          PROVE  Begins(b.hash, c)
      <4>1. b.height \in Nat /\ b.height < blocks[1].height
        BY SMT, <2>1, <2>2, <2>4, <3>2, <3>5
      <4>2. blocks[1] \in w
        BY <3>2, <3>4, <4>1
      <4>3. ~(blocks[1].height <= b.height)
        BY SMT, <2>2, <3>2, <4>1
      <4>4. PICK a \in w : a.height + 1 = blocks[1].height /\ a.hash = blocks[1].prev
        BY <3>5, <4>2, <4>3 DEF Validates
      <4>5. a \in old
        <5>1. a.height \in Nat
          BY <3>2, <3>4, <4>4, BlockFields DEF Real
        <5>2. ~(a.height > Len(anchor))
          BY SMT, <2>2, <3>2, <4>4, <5>1
        <5> QED BY <3>2, <3>4, <5>2
      <4>6. Begins(a.hash, c) /\ a.hash \in Paths /\ a.height = Len(a.hash) /\ Begins(a.hash, cursor)
        BY <2>1, <2>4, <3>2, <4>4, <4>5
      <4>7. Len(b.hash) <= Len(a.hash) /\ b.hash \in Paths /\ Begins(b.hash, cursor)
        BY <2>1, <2>2, <2>4, <3>2, <3>5, <4>1, <4>4, <4>5
      <4>8. Begins(b.hash, a.hash)
        BY <2>1, <4>6, <4>7, BeginsOrder
      <4> QED BY <3>2, <4>6, <4>7, <4>8, BeginsOrder
    <3>6. Validates(w) => Ends(w, c)
      BY <3>2, <3>4, <3>5 DEF Ends
    <3> QED BY <1>0, <1>2, <3>6, Committed
  <2> QED BY <2>7, <2>8
<1> QED
  BY <1>1, <1>2 DEF CommitReorg

-----------------------------------------------------------------------------
(***************************************************************************)
(* Pages.                                                                  *)
(***************************************************************************)

\* The page of a node holds blocks of its chain.
LEMMA PageBlocks ==
    ASSUME chain \in Paths, NEW anchor \in Paths,
           NEW n \in Nat, Len(anchor) + n <= Len(chain)
    PROVE  Page(anchor, n).blocks \in Seq(BlocksOf({"true"}))
<1>0. Len(anchor) \in Nat /\ Len(chain) \in Nat
  BY PathFacts
<1> DEFINE f == [i \in 1 .. n |-> Block(HashAt(Len(anchor) + 1 + i - 1), "true")]
           S == BlocksOf({"true"})
<1>1. ASSUME NEW i \in 1 .. n PROVE f[i] \in S
  <2>1. Len(anchor) + 1 + i - 1 \in Nat /\ Len(anchor) + 1 + i - 1 <= Len(chain)
        /\ Len(anchor) + 1 + i - 1 # 0
    BY SMT, <1>0
  <2>2. HashAt(Len(anchor) + 1 + i - 1) \in Paths /\ Len(HashAt(Len(anchor) + 1 + i - 1)) # 0
    BY <2>1, HashAtFacts
  <2>3. HashAt(Len(anchor) + 1 + i - 1) # <<>>
    BY SMT, <2>2
  <2> QED BY SMT, <2>2, <2>3 DEF BlocksOf
<1>2. Page(anchor, n).blocks = f
  BY DEF Page
<1> HIDE DEF f, S
<1>3. f \in [1 .. n -> S]
  BY <1>1 DEF f
<1>4. \A g \in [1 .. n -> S] : g \in Seq(S)
  BY SMT
<1> QED BY <1>2, <1>3, <1>4 DEF S

\* A page that is wrong in one respect still holds blocks.
LEMMA WrongBlocks ==
    ASSUME chain \in Paths, NEW anchor \in Paths,
           NEW n \in Nat, Len(anchor) + n <= Len(chain),
           NEW p \in {Page(anchor, n)} \union Wrong(Page(anchor, n))
    PROVE  p.blocks \in Seq(BlocksOf(Bodies))
<1> DEFINE q == Page(anchor, n)
           S == BlocksOf(Bodies)
<1>1. /\ q = [ours |-> q.ours, from |-> q.from, anchor |-> q.anchor, blocks |-> q.blocks,
              tip |-> q.tip, next |-> q.next]
  BY DEF Page
<1>2. q.blocks \in Seq(S)
  <2>1. BlocksOf({"true"}) \subseteq S
    BY SMT DEF BlocksOf, Bodies
  <2> QED BY <2>1, PageBlocks, WiderRange
<1>3. ASSUME NEW h \in Hashes, h # <<>>, NEW b \in Bodies PROVE Block(h, b) \in S
  BY SMT, <1>3, HashesArePaths DEF BlocksOf
<1>4. p \in {q} \union Wrong(q)
  OBVIOUS
<1> HIDE DEF q
<1> DEFINE Others == {g \in Hashes : g # <<>> /\ ~Canonical(g)}
           N == 1 .. Len(q.blocks)
           Framed == {[q EXCEPT !.ours = FALSE], [q EXCEPT !.from = @ + 1], [q EXCEPT !.anchor = NoHash]}
           Missing == {[q EXCEPT !.blocks = Tail(@)] : i \in 1 .. (IF Len(q.blocks) > 0 THEN 1 ELSE 0)}
           Foreign == {[q EXCEPT !.blocks[i] = Block(h, "true")] : i \in N, h \in Others}
           Altered == {[q EXCEPT !.blocks[i].body = b] : i \in N, b \in {"header", "rows", "roots"}}
           Tipped == {[q EXCEPT !.tip = h] : h \in Hashes \ {chain}}
           Continued == {[q EXCEPT !.next = h] : h \in {Genesis, NoHash} \ {q.next}}
<1>5. CASE p = q \/ p \in Framed \/ p \in Tipped \/ p \in Continued
  <2>1. p.blocks = q.blocks
    BY <1>1, <1>5
  <2> QED BY <1>2, <2>1
<1>6. CASE p \in Missing
  <2>1. q.blocks # <<>> /\ p = [q EXCEPT !.blocks = Tail(@)]
    BY SMT, <1>6
  <2>2. p.blocks = Tail(q.blocks)
    BY <1>1, <2>1
  <2> QED BY <1>2, <2>1, <2>2, HeadAndTail
<1>7. CASE p \in Foreign
  <2>1. PICK i \in N, h \in Others : p = [q EXCEPT !.blocks[i] = Block(h, "true")]
    BY SMT, <1>7
  <2>2. p.blocks = [q.blocks EXCEPT ![i] = Block(h, "true")]
    BY <1>1, <2>1
  <2>3. Block(h, "true") \in S
    BY <1>3 DEF Bodies
  <2> HIDE DEF S
  <2> QED BY SMT, <1>2, <2>2, <2>3, Replaced DEF S
<1>8. CASE p \in Altered
  <2>1. PICK i \in N, b \in {"header", "rows", "roots"} : p = [q EXCEPT !.blocks[i].body = b]
    BY SMT, <1>8
  <2>2. p.blocks = [q.blocks EXCEPT ![i] = [q.blocks[i] EXCEPT !.body = b]]
    BY <1>1, <2>1
  <2>3. q.blocks[i] \in S
    BY <1>2, SeqElement
  <2>4. PICK h \in Paths \ {<<>>}, body \in Bodies : q.blocks[i] = Block(h, body)
    BY SMT, <2>3 DEF BlocksOf
  <2>5. [q.blocks[i] EXCEPT !.body = b] = Block(h, b)
    BY SMT, <2>4 DEF Block
  <2>6. Block(h, b) \in S
    BY SMT DEF BlocksOf, Bodies
  <2> HIDE DEF S
  <2> QED BY SMTT(30), <1>2, <2>2, <2>5, <2>6, Replaced DEF S
<1>9. Wrong(q) = Framed \union Missing \union Foreign \union Altered \union Tipped \union Continued
  BY SMT DEF Wrong
<1> HIDE DEF Framed, Missing, Foreign, Altered, Tipped, Continued
<1> QED BY <1>4, <1>5, <1>6, <1>7, <1>8, <1>9 DEF S

-----------------------------------------------------------------------------
(***************************************************************************)
(* The steps of a pass.                                                    *)
(***************************************************************************)

\* The start of a pass: from genesis, from the cursor, or with the search of a
\* safe anchor.
LEMMA PassStartPreserves ==
    ASSUME ScanInv, Bootstrap \/ CheckCursor
    PROVE  ScanInv'
<1>0. UNCHANGED <<chain, window>>
  BY DEF Bootstrap, CheckCursor
<1>1. CASE cursor = NoHash /\ cursor' = Genesis /\ UNCHANGED <<pc, pass>> /\ pc = "idle"
  <2>1. window = {} /\ Ends({}, Genesis)
    BY <1>1, NoHashIsNoPath DEF ScanInv, Ends, Consecutive
  <2> QED BY <1>0, <1>1, <2>1 DEF ScanInv, PassInv, Bound
<1>2. CASE /\ pc' = "page" /\ UNCHANGED cursor
           /\ \/ cursor = NoHash /\ pass' = [NoPass EXCEPT !.anchor = Genesis]
              \/ cursor # NoHash /\ pass' = [NoPass EXCEPT !.anchor = cursor]
  <2>1. /\ pass' = [f \in PassFields |-> pass'[f]] /\ pass'.reorg = FALSE
        /\ pass'.anchor = IF cursor' = NoHash THEN Genesis ELSE cursor'
    BY <1>2 DEF NoPass, PassFields
  <2> QED BY <1>0, <1>2, <2>1 DEF ScanInv, PassInv, Bound
<1>3. CASE /\ pc' = "search" /\ UNCHANGED cursor /\ cursor # NoHash
           /\ pass' = [NoPass EXCEPT !.reorg = TRUE, !.height = Len(cursor) - 1]
  <2>1. cursor \in Paths /\ Len(cursor) \in Nat
    BY <1>3, PathFacts DEF ScanInv, Ends
  <2>2. /\ pass' = [f \in PassFields |-> pass'[f]] /\ pass'.reorg = TRUE
        /\ pass'.height = Len(cursor) - 1
    BY <1>3 DEF NoPass, PassFields
  <2>3. pass'.height \in Int
    BY SMT, <2>1, <2>2
  <2> QED BY <1>0, <1>3, <2>2, <2>3 DEF ScanInv, PassInv, Bound
<1> QED
  BY <1>1, <1>2, <1>3 DEF Bootstrap, CheckCursor

\* The search of the safe anchor.
LEMMA SearchPreserves ==
    ASSUME ScanInv, FindSafeAnchor
    PROVE  ScanInv'
<1>0. /\ UNCHANGED <<chain, window, cursor>> /\ pc = "search" /\ chain' \in Paths
      /\ pass = [f \in PassFields |-> pass[f]] /\ pass.reorg = TRUE /\ pass.height \in Int
      /\ cursor # NoHash /\ cursor \in Paths /\ Len(cursor) \in Nat
  BY PathFacts DEF FindSafeAnchor, ScanInv, PassInv, Ends, Bound
<1>1. CASE Fails("ReorgBeyondBound")
  BY <1>0, <1>1, Ended DEF Fails
<1>2. CASE /\ LocalHash(pass.height) # NoHash
           /\ LocalHash(pass.height) = HashAt(pass.height)
           /\ pc' = "bind" /\ pass' = [pass EXCEPT !.safe = HashAt(pass.height)]
  <2>1. PICK b \in window : b.height = pass.height /\ b.hash = HashAt(pass.height)
    BY <1>2, LocalHashFacts
  <2>2. /\ pass' = [f \in PassFields |-> pass'[f]] /\ pass'.reorg = TRUE
        /\ pass'.safe = b.hash /\ pass'.height = b.height
    BY <1>0, <1>2, <2>1 DEF PassFields
  <2> QED BY <1>0, <1>2, <2>1, <2>2 DEF ScanInv, PassInv, Bound
<1>3. CASE pc' = "search" /\ pass' = [pass EXCEPT !.height = @ - 1]
  <2>1. /\ pass' = [f \in PassFields |-> pass'[f]] /\ pass'.reorg = TRUE
        /\ pass'.height = pass.height - 1
    BY <1>0, <1>3 DEF PassFields
  <2>2. pass'.height \in Int
    BY SMT, <1>0, <2>1
  <2> QED BY <1>0, <1>3, <2>1, <2>2 DEF ScanInv, PassInv, Bound
<1> QED
  BY <1>1, <1>2, <1>3 DEF FindSafeAnchor

\* The hash of the safe height is asked for again, before the page and after it;
\* the answer may be another hash.
LEMMA BindPreserves ==
    ASSUME ScanInv, BindAnchor \/ ConfirmPrevious
    PROVE  ScanInv'
<1>0. /\ UNCHANGED <<chain, window, cursor>> /\ pc \in {"bind", "previous"} /\ chain' \in Paths
      /\ pass = [f \in PassFields |-> pass[f]] /\ pass.reorg = TRUE /\ cursor # NoHash
      /\ Ends(window, cursor)
  BY DEF BindAnchor, ConfirmPrevious, ScanInv, PassInv, Bound
<1>1. PICK b \in window : pass.safe = b.hash /\ pass.height = b.height
  BY <1>0 DEF ScanInv, PassInv, Bound
<1>2. pass.height \in Nat
  BY <1>0, <1>1, BlockFields DEF Ends, Real
<1>3. CASE \E e : Fails(e)
  BY <1>0, <1>3, Ended DEF Fails
<1>4. CASE /\ HashAt(pass.height) # NoHash /\ pass' = [pass EXCEPT !.anchor = HashAt(pass.height)]
           /\ pc' = "page" \/ (pc = "previous" /\ pc' = "commit")
  <2>1. HashAt(pass.height) \in Paths /\ Len(HashAt(pass.height)) = pass.height
    BY <1>0, <1>2, <1>4, HashAtFacts DEF ScanInv
  <2>2. /\ pass' = [f \in PassFields |-> pass'[f]] /\ pass'.reorg = TRUE
        /\ pass'.anchor = HashAt(pass.height) /\ pass'.height = pass.height
        /\ pass'.safe = pass.safe /\ pass'.page = pass.page
    BY <1>0, <1>4 DEF PassFields
  <2> QED BY SMT, <1>0, <1>1, <1>4, <2>1, <2>2 DEF ScanInv, PassInv, Bound
<1> QED
  BY <1>3, <1>4 DEF BindAnchor, ConfirmPrevious, FailsFromCore

\* A page is asked for, and its tip confirmed.
LEMMA FetchPreserves ==
    ASSUME ScanInv, FetchPage \/ ConfirmTip
    PROVE  ScanInv'
<1>0. /\ UNCHANGED <<chain, window, cursor>> /\ pc \in {"page", "tip"} /\ chain' \in Paths
      /\ pass = [f \in PassFields |-> pass[f]]
  BY DEF FetchPage, ConfirmTip, ScanInv, PassInv
<1>1. CASE \E e : Fails(e)
  BY <1>0, <1>1, Ended DEF Fails
<1>2. CASE /\ pc = "tip" /\ pc' = (IF pass.reorg THEN "previous" ELSE "commit")
           /\ UNCHANGED pass
  BY <1>0, <1>2 DEF ScanInv, PassInv, Bound
<1>3. CASE \E p : /\ p.blocks \in Seq(BlocksOf(Bodies)) /\ pc = "page"
                  /\ pc' = "tip" /\ pass' = [pass EXCEPT !.page = p]
  <2>1. PICK p : /\ p.blocks \in Seq(BlocksOf(Bodies)) /\ pc = "page"
                 /\ pc' = "tip" /\ pass' = [pass EXCEPT !.page = p]
    BY <1>3
  <2>2. /\ pass' = [f \in PassFields |-> pass'[f]] /\ pass'.page = p
        /\ pass'.reorg = pass.reorg /\ pass'.safe = pass.safe /\ pass'.anchor = pass.anchor
        /\ pass'.height = pass.height
    BY <1>0, <2>1 DEF PassFields
  <2> QED BY SMT, <1>0, <2>1, <2>2 DEF ScanInv, PassInv, Bound
<1>4. ASSUME FetchPage, Canonical(pass.anchor)
      PROVE  (\E e : Fails(e)) \/ <1>3!1
  <2>1. /\ pc = "page" /\ chain \in Paths
        /\ pass.anchor \in Paths
    BY <1>0, <1>4, NoHashIsNoPath DEF FetchPage, ScanInv, PassInv, Ends, Bound
  <2>2. Len(pass.anchor) \in Nat /\ Len(chain) \in Nat /\ Len(pass.anchor) <= Len(chain)
    BY SMT, <1>4, <2>1, PathFacts, HashAtFacts DEF Canonical
  <2> DEFINE more == Len(chain) - Len(pass.anchor)
             full == IF more < PageSize THEN more ELSE PageSize
  <2>3. PICK n \in (IF full = 0 THEN {0} ELSE 1 .. full) :
          \E p \in {Page(pass.anchor, n)} \union
                   (IF budget.faults < MaxBadAnswers THEN Wrong(Page(pass.anchor, n)) ELSE {}) :
             IF ~Parses(p, pass.anchor)
             THEN FailsFromCore("InternalFailure")
             ELSE IF ~observe_identity(p)
             THEN FailsFromCore("CursorChainMismatch")
             ELSE pc' = "tip" /\ pass' = [pass EXCEPT !.page = p]
    BY <1>4 DEF FetchPage
  <2>4. n \in Nat /\ Len(pass.anchor) + n <= Len(chain)
    BY SMTT(30), <2>2, ScanBounds
  <2>5. PICK p \in {Page(pass.anchor, n)} \union Wrong(Page(pass.anchor, n)) :
             \/ \E e : Fails(e)
             \/ pc' = "tip" /\ pass' = [pass EXCEPT !.page = p]
    BY <2>3 DEF FailsFromCore
  <2>6. p.blocks \in Seq(BlocksOf(Bodies))
    BY <2>1, <2>4, WrongBlocks
  <2> QED BY <2>1, <2>5, <2>6
<1>5. CASE FetchPage /\ ~Canonical(pass.anchor)
  BY <1>1, <1>5 DEF FetchPage, FailsFromCore
<1>6. CASE FetchPage /\ Canonical(pass.anchor)
  BY <1>1, <1>3, <1>4, <1>6
<1>7. CASE ConfirmTip
  BY <1>1, <1>2, <1>7 DEF ConfirmTip
<1> QED
  BY <1>5, <1>6, <1>7

\* Every step keeps the invariant.
LEMMA ScanStep ==
    ASSUME ScanInv, [ScanNext]_scanVars
    PROVE  ScanInv'
<1>1. CASE PassStep
  <2>1. CASE FollowLoop
    <3>1. chain' \in Paths /\ pc' \in {"idle", "stopped"} /\ pass' = NoPass
          /\ UNCHANGED <<window, cursor>>
      BY <2>1 DEF FollowLoop, ScanInv
    <3> QED BY <3>1, Ended
  <2> QED
    BY <1>1, <2>1, PassStartPreserves, SearchPreserves, BindPreserves, FetchPreserves,
       BatchPreserves, ReorgPreserves DEF PassStep
<1>2. CASE \E c \in Hashes : ChainMoves(c)
  <2>1. chain' \in Paths /\ UNCHANGED <<window, cursor, pc, pass>>
    BY <1>2, HashesArePaths DEF ChainMoves
  <2> QED BY <2>1 DEF ScanInv, PassInv
<1>3. CASE \/ \E answer \in DOMAIN map_full_scan_status : RequestFails(answer)
           \/ \E error \in {"CoreNotReady", "CursorIdentityMismatch"} : ProbeFails(error)
           \/ \E error \in DOMAIN StorageFailure : StorageFails(error)
  <2>1. UNCHANGED <<chain, window, cursor>> /\ \E e : Fails(e)
    BY <1>3 DEF RequestFails, ProbeFails, StorageFails, FailsFromCore
  <2>2. chain' \in Paths
    BY <2>1 DEF ScanInv
  <2> QED BY <2>1, <2>2, Ended DEF Fails
<1>4. CASE Rescan
  <2>1. /\ pc = "idle" /\ window' = {} /\ cursor' = NoHash /\ UNCHANGED <<chain, pc, pass>>
    BY <1>4 DEF Rescan
  <2> QED BY <2>1 DEF ScanInv, PassInv, Bound
<1>5. CASE StartAgain
  <2>1. pc' = "idle" /\ UNCHANGED <<chain, window, cursor, pass>> /\ chain' \in Paths
    BY <1>5 DEF StartAgain, ScanInv
  <2> QED BY <2>1, Ended
<1>6. CASE UNCHANGED scanVars
  BY <1>6 DEF scanVars, ScanInv, PassInv
<1> QED
  BY <1>1, <1>2, <1>3, <1>4, <1>5, <1>6 DEF ScanNext

-----------------------------------------------------------------------------
\* The durable window is one chain that ends at the cursor, however often the
\* node changes its chain between the requests of a pass, for every height,
\* page size, depth and window size (CoreChainAdapter, WalletState::validate).
THEOREM WindowIsAChain == ScanSpec => []ScannedIsAChain
<1> QED
  BY ScanInvInit, ScanStep, ScanInvImplies, PTL DEF ScanSpec

\* What the wallet has scanned is what the blocks contain, whichever page a
\* node answers with (parse_full_scan, validate_full_fidelity_projection).
THEOREM WindowIsReal == ScanSpec => []ScannedIsReal
<1> QED
  BY ScanInvInit, ScanStep, ScanInvImplies, PTL DEF ScanSpec
=============================================================================
