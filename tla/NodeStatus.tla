------------------------------ MODULE NodeStatus ------------------------------
(***************************************************************************)
(* What the application tells about the embedded node and the scan: the    *)
(* node's readiness, the wallet's synchronization, the gates of the miner, *)
(* the network figures, and the mesh port. Each is a function of what one  *)
(* status poll observes, written independently of the others; the facts at *)
(* the end say where they must agree. Messages and names are left out.     *)
(*                                                                         *)
(* An absent height or hash (None) is -1; a block hash is a number.        *)
(***************************************************************************)
EXTENDS Integers, Sequences, FiniteSets

None == -1

-----------------------------------------------------------------------------
\* A NodeReadinessSnapshot: running, failed, verified (the identity is the
\* canonical one), hash (of the tip), local and peer heights, peers, age (of
\* the last successful status, None before any).
StaleAfter == 30

derive_node_readiness(s) ==
    IF ~s.running THEN "Stopped"
    ELSE IF s.failed THEN "Failed"
    ELSE IF s.age > StaleAfter THEN "Stale"
    ELSE IF ~s.verified \/ s.hash = None THEN "Starting"
    ELSE IF s.peers = 0 THEN "WaitingForPeers"
    ELSE IF s.peer = None \/ s.peer < s.local THEN "UnknownPeerHeight"
    ELSE IF s.peer > s.local THEN "Synchronizing"
    ELSE IF s.local = 0 THEN "ConnectedAtGenesis" ELSE "Ready"

readiness_allows_mining(r) == r \in {"Ready", "ConnectedAtGenesis"}

Percent(part, whole) == (part * 100) \div whole

node_synchronization_status(s) ==
    LET r == derive_node_readiness(s)
    IN  [lifecycle |-> r, peer |-> s.peer,
         progress |-> IF readiness_allows_mining(r) THEN 100
                      ELSE IF r = "Synchronizing" THEN Percent(s.local, s.peer)
                      ELSE None]

-----------------------------------------------------------------------------
\* embedded_node_status_inner observes: started, starting and startFailed (the
\* application's flags); running; peers, absent if they cannot be asked; api
\* (the wallet API is ready); live (the identity can be read, else the cached
\* one of height `cached' is there); tip and hash; verified; last (a status
\* has succeeded before).
Status(lifecycle) == [lifecycle |-> lifecycle, ready |-> FALSE, tip |-> None,
                      peer |-> None, progress |-> None]

starting_node_status == Status("Starting")
failed_node_start_status == Status("Failed")
stopped_node_status == Status("Stopped")
unavailable_node_status(last) == Status(IF last THEN "Stale" ELSE "Failed")

synchronizing_node_status_without_tip(p) ==
    LET peer == IF p.connected > 0 /\ p.highest > 0 THEN p.highest ELSE None
    IN  [lifecycle |-> "Synchronizing", ready |-> FALSE, tip |-> p.canonical, peer |-> peer,
         progress |-> IF peer = None THEN None ELSE Percent(p.canonical, peer)]

\* A height of 0 from the peers is not believed above genesis.
KnownPeerHeight(p, tip) ==
    IF p.connected = 0 \/ (p.highest = 0 /\ tip > 0) THEN None ELSE p.highest

Snapshot(o, tip) ==
    [running |-> TRUE, failed |-> FALSE, verified |-> o.verified, hash |-> o.hash,
     local |-> tip, peers |-> o.peers.connected,
     peer |-> KnownPeerHeight(o.peers, tip), age |-> 0]

LiveStatus(o, tip) ==
    LET s == Snapshot(o, tip)
        y == node_synchronization_status(s)
    IN  [lifecycle |-> y.lifecycle, tip |-> tip, peer |-> y.peer, progress |-> y.progress,
         ready |-> o.api /\ readiness_allows_mining(derive_node_readiness(s))]

embedded_node_status_inner(o) ==
    IF ~o.started
    THEN IF o.starting THEN starting_node_status
         ELSE IF o.startFailed THEN failed_node_start_status ELSE stopped_node_status
    ELSE IF ~o.running \/ ~o.answers THEN unavailable_node_status(o.last)
    ELSE IF o.live THEN LiveStatus(o, o.tip)
    ELSE IF o.cached = 0 /\ o.peers.canonical = 0 THEN LiveStatus(o, 0)
    ELSE synchronizing_node_status_without_tip(o.peers)

-----------------------------------------------------------------------------
\* sync_status_from_service observes: remote (the chain source); cursor,
\* cursorHash and error of the scan; canonical height and hash of the node
\* (the cached identity for a remote source), tip, the height the summary
\* knows (None while locked); peers; restoring and latch of a seed restore.
cursor_is_authoritatively_synchronized(w) ==
    /\ w.peers.connected > 0
    /\ w.cursor # None /\ w.cursor = w.canonical /\ w.cursor = w.peers.highest
    /\ w.cursorHash # None /\ w.cursorHash = w.canonicalHash
    /\ ~w.error

TipHeight(w) == IF w.unlocked /\ w.tip # None THEN w.tip ELSE w.canonical

ScanProgress(cursor, tip) ==
    IF cursor = None \/ tip = None THEN None
    ELSE IF tip = 0 \/ cursor >= tip THEN 100 ELSE Percent(cursor, tip)

SynchronizedRemotely(w) ==
    w.cursor # None /\ w.cursor = TipHeight(w) /\ w.cursorHash # None /\ ~w.error

sync_status_from_service(w) ==
    [synchronized |-> IF w.remote THEN SynchronizedRemotely(w)
                                  ELSE cursor_is_authoritatively_synchronized(w),
     cursor |-> w.cursor, cursorHash |-> w.cursorHash,
     canonical |-> w.canonical, canonicalHash |-> w.canonicalHash,
     tip |-> TipHeight(w), progress |-> ScanProgress(w.cursor, TipHeight(w)),
     restoring |-> IF w.unlocked THEN w.restoring ELSE w.latch,
     error |-> w.error, state |-> "Observed"]

\* wallet_sync_status_from_service: while the scan holds the service the last
\* status is told again, marked as synchronizing.
wallet_sync_status(w, busy, cached) ==
    IF busy THEN [cached EXCEPT !.state = "SYNCHRONIZING"]
            ELSE sync_status_from_service(w)

\* The gates of mining_start.
require_mining_cursor_gate(y, connected) ==
    /\ y.cursor # None /\ y.cursor = y.canonical
    /\ y.cursorHash # None /\ y.cursorHash = y.canonicalHash /\ ~y.error
    /\ connected > 0

MiningGates(y, o) ==
    LET status == embedded_node_status_inner(o)
    IN  /\ require_mining_cursor_gate(y, o.peers.connected)
        /\ readiness_allows_mining(status.lifecycle) /\ status.ready

-----------------------------------------------------------------------------
\* The network figures. A header has a height, the work its target stands for
\* and a timestamp; `headers' is what the node's store returns by height.
WorkOf(headers, from, to) ==
    LET sum[h \in from - 1 .. to] ==
            IF h < from THEN 0 ELSE sum[h - 1] + headers[h].work
    IN  sum[to]

Stored(headers, from, to) ==
    \A h \in from .. to : h \in DOMAIN headers /\ headers[h].height = h

\* `window' intervals need window + 1 headers; the first one only gives the
\* time. Rational results are <<work, span>>.
observed_network_hashrate_hps(headers, tip, window) ==
    LET first == tip - window
        span == headers[tip].time - headers[first].time
        total == WorkOf(headers, first + 1, tip)
    IN  IF window = 0 \/ tip < window \/ ~Stored(headers, first, tip) THEN <<>>
        ELSE IF span <= 0 \/ total = 0 THEN <<>> ELSE <<total, span>>

observed_network_difficulty(headers, tip, window) ==
    LET first == tip - window + 1
    IN  IF tip < window \/ ~Stored(headers, first, tip) THEN None
        ELSE WorkOf(headers, first, tip) \div window

\* mining_economics reads both windows under one lock of the chain.
mining_economics(headers, height, window, locked) ==
    [next |-> height + 1,
     difficulty |-> IF locked THEN None
                    ELSE observed_network_difficulty(headers, height, window),
     hashrate |-> IF locked THEN <<>>
                  ELSE observed_network_hashrate_hps(headers, height, window)]

\* network_mining_presentation: nothing is told before the scan is on the tip
\* or the window complete.
network_mining_presentation(e, synchronized) ==
    IF synchronized /\ e.difficulty # None THEN e.hashrate ELSE <<>>

\* mining_status: a busy service tells no network figure.
NetworkFigure(w, busy, e) ==
    IF busy THEN <<>>
    ELSE network_mining_presentation(
            e, sync_status_from_service([w EXCEPT !.remote = FALSE]).synchronized)

-----------------------------------------------------------------------------
\* peer_status of a running node: the counters as they are. The address book
\* and the peer table are read only if nobody holds their locks.
bootstrap_phase(connected) == IF connected > 0 THEN "CONNECTED" ELSE "DISCOVERING_PEERS"

peer_status(n) ==
    [connected |-> n.connected, phase |-> bootstrap_phase(n.connected),
     known |-> IF n.bookBusy THEN n.connected ELSE n.known,
     addresses |-> IF n.tableBusy THEN {} ELSE n.addresses,
     canonical |-> n.canonical, highest |-> n.highest]

\* node_peer_status: `seen' is the time peers were first observed since the
\* node was started, 0 before; peers' heights are told while one is connected.
FirstSeen(seen, connected, now) == IF connected > 0 /\ seen = 0 THEN now ELSE seen

node_peer_status(n, seen, now) ==
    LET p == peer_status(n)
    IN  [phase |-> p.phase, connected |-> p.connected, known |-> p.known,
         since |-> IF p.connected > 0 THEN FirstSeen(seen, p.connected, now) ELSE None,
         highest |-> IF p.connected > 0 THEN p.highest ELSE None]

-----------------------------------------------------------------------------
\* The miner's threads: what is stored, 0 for the default, and what is used.
ConfiguredThreads(stored, cpus) ==
    LET least(n) == IF n < 1 THEN 1 ELSE n
    IN  IF stored = 0 THEN least(cpus \div 2)
        ELSE least(IF stored < cpus THEN stored ELSE cpus)

mining_config_set_accepts(threads, cpus, state) ==
    /\ state \notin {"STARTING", "RUNNING", "STOPPING"}
    /\ threads > 0 /\ threads <= cpus

\* mining_config_get: while the scan holds the service the last answer is told
\* again, or an error if there is none.
mining_config_get(stored, cpus, busy, cached) ==
    IF busy THEN cached ELSE << ConfiguredThreads(stored, cpus) >>

\* mining_status: a worker that waits for the node counts as mining.
MiningStates == {"DISABLED", "READY", "STARTING", "RUNNING", "STOPPING", "WAITING", "ERROR"}
SessionIsOn(state) == state \in {"STARTING", "RUNNING", "STOPPING", "WAITING"}

mining_state_name(state, enabled) ==
    IF state = "READY" /\ ~enabled THEN "DISABLED" ELSE state

mining_status(state, enabled, started, now, p, cached, busy, w, e) ==
    [status |-> mining_state_name(state, enabled), running |-> state = "RUNNING",
     uptime |-> IF SessionIsOn(state) /\ started > 0 /\ now > started THEN now - started ELSE 0,
     rated |-> SessionIsOn(state),
     height |-> IF busy THEN cached ELSE p.canonical,
     network |-> NetworkFigure(w, busy, e)]

-----------------------------------------------------------------------------
\* The mesh port: the persisted one, then the canonical one, then the range.
Without(ports, seen) == SelectSeq(ports, LAMBDA p : p \notin seen)

p2p_port_candidates(persisted, canonical, fallback) ==
    LET first == IF persisted = None THEN <<>> ELSE << persisted >>
        second == Without(<< canonical >>, {persisted})
    IN  first \o second \o Without(fallback, {persisted, canonical})

\* Every candidate taken: the system's port, or the canonical one.
choose_mesh_listen_address(candidates, free, system, canonical) ==
    LET usable == {i \in DOMAIN candidates : candidates[i] \in free}
    IN  IF usable # {}
        THEN candidates[CHOOSE i \in usable : \A j \in usable : i <= j]
        ELSE IF system = None THEN canonical ELSE system

remaining_mesh_listen_addresses(candidates, failed) == Without(candidates, {failed})
-----------------------------------------------------------------------------
(***************************************************************************)
(* Where the functions must agree.                                         *)
(***************************************************************************)
\* A node shown as ready has its API, a peer, and the height of its peers.
ReadyIsAtPeers(o) ==
    LET status == embedded_node_status_inner(o)
    IN  status.ready =>
            /\ readiness_allows_mining(status.lifecycle) /\ status.progress = 100
            /\ o.started /\ o.running /\ o.api /\ o.peers.connected > 0
            /\ status.peer = status.tip

\* The wallet and the node observed at one moment.
SameMoment(w, o) ==
    /\ o.started /\ o.running /\ o.answers /\ o.live /\ o.verified /\ o.api
    /\ w.canonical = o.tip /\ w.canonicalHash = o.hash /\ w.peers = o.peers

\* Whoever sees `synchronized' can start mining, and the other way round: the
\* wallet's flag and the gates of mining_start, three functions apart, agree
\* on one observation of a working node.
SynchronizedIsMineable(w, o) ==
    (SameMoment(w, o) /\ ~w.remote) =>
        (sync_status_from_service(w).synchronized <=>
            MiningGates(sync_status_from_service(w), o))

\* A thread count that mining_config_set accepts is the one that is used.
ThreadsKept(threads, cpus) ==
    /\ ConfiguredThreads(threads, cpus) \in 1 .. cpus
    /\ mining_config_set_accepts(threads, cpus, "READY") =>
            ConfiguredThreads(threads, cpus) = threads

\* Evenly spaced blocks of equal work give work per spacing, whatever the
\* window: as many blocks are counted as intervals are measured.
RateIsUnbiased(window, work, spacing) ==
    LET headers == [h \in 0 .. window + 1 |->
                        [height |-> h, work |-> work, time |-> h * spacing]]
        rate == observed_network_hashrate_hps(headers, window + 1, window)
    IN  rate[1] * spacing = rate[2] * work

\* The walk over the mesh ports tries every port once, a persisted one first,
\* and after a failure never the port that failed.
PortWalk(persisted, canonical, fallback) ==
    LET ports == p2p_port_candidates(persisted, canonical, fallback)
        tried == {ports[i] : i \in DOMAIN ports}
    IN  /\ Cardinality(tried) = Len(ports)
        /\ tried = ({persisted, canonical} \ {None}) \cup {fallback[i] : i \in DOMAIN fallback}
        /\ persisted # None => ports[1] = persisted
        /\ \A p \in tried : LET rest == remaining_mesh_listen_addresses(ports, p)
                            IN  p \notin {rest[i] : i \in DOMAIN rest} /\ Len(rest) = Len(ports) - 1
        /\ \A free \in SUBSET tried : free # {} =>
                choose_mesh_listen_address(ports, free, None, canonical) \in free

Heights == 0 .. 2
PeerCounts == [connected : 0 .. 1, highest : Heights, canonical : {0, 2}]
NodeObservations ==
    [started : {TRUE}, starting : BOOLEAN, startFailed : {FALSE}, running : BOOLEAN,
     answers : {TRUE}, api : BOOLEAN, live : BOOLEAN, verified : BOOLEAN,
     last : BOOLEAN, peers : PeerCounts, tip : Heights, hash : {7}, cached : {0, 2}]
WalletObservations(o) ==
    [remote : BOOLEAN, cursor : Heights \cup {None}, cursorHash : {7, 8, None},
     error : BOOLEAN, canonical : {o.tip}, canonicalHash : {o.hash}, unlocked : {TRUE},
     tip : {o.tip}, peers : {o.peers}, restoring : {FALSE}, latch : {FALSE}]
WorkingNodes ==
    {o \in NodeObservations : o.running /\ o.api /\ o.live /\ o.verified /\ ~o.starting
                              /\ ~o.last /\ o.cached = 0}

ASSUME ReadyIsAtPeersHolds == \A o \in NodeObservations : ReadyIsAtPeers(o)
ASSUME SynchronizedIsMineableHolds ==
    \A o \in WorkingNodes : \A w \in WalletObservations(o) : SynchronizedIsMineable(w, o)
ASSUME ThreadsKeptHolds == \A cpus \in 1 .. 4, t \in 0 .. 6 : ThreadsKept(t, cpus)
ASSUME RateIsUnbiasedHolds ==
    \A window \in 1 .. 4, work \in 1 .. 3, spacing \in 1 .. 3 :
        RateIsUnbiased(window, work, spacing)
ASSUME PortWalkHolds == \A persisted \in {None} \cup 1 .. 5 : PortWalk(persisted, 1, <<2, 3, 4>>)
=============================================================================
