------------------------------ MODULE ChainScan ------------------------------
(***************************************************************************)
(* One synchronization worker (src-tauri) that scans the canonical chain    *)
(* through CoreChainAdapter (dom-wallet-core-sync) from a remote node       *)
(* (dom-wallet-remote-source) into the durable window of recent blocks      *)
(* (dom-wallet-core, dom-wallet-core-restore).  WalletTransactions commits  *)
(* a page in one step; here every request to the node is a step of its own, *)
(* and the node may change its chain between any two requests of a pass.    *)
(*                                                                          *)
(* A hash binds the whole history of its block, so a hash is the path of    *)
(* branch choices that leads to the block; its length is the height and <<>>*)
(* the genesis block, which every chain shares.                             *)
(***************************************************************************)
EXTENDS Integers, Sequences, Functions

CONSTANTS
    Branches,       \* how many different blocks may follow a block
    MaxChain,       \* bound: height of a chain
    MaxMoves,       \* bound: changes of the node's canonical chain
    MaxBadAnswers,  \* bound: failed requests and wrong answers
    MaxRescans,     \* bound: rescans from genesis
    PageSize,       \* maximum_batch_blocks and REMOTE_MAX_FULL_SCAN_RANGE
    ReorgDepth,     \* maximum_reorg_depth
    WindowSize      \* blocks kept by prune_recovery_canonical_window

ASSUME ScanBounds ==
    /\ {Branches, MaxChain, PageSize, ReorgDepth, WindowSize} \subseteq Nat \ {0}
    /\ {MaxMoves, MaxBadAnswers, MaxRescans} \subseteq Nat
    /\ ReorgDepth <= WindowSize

VARIABLES
    chain,     \* the hash of the node's canonical tip
    window,    \* durable: recovery_canonical_blocks
    cursor,    \* durable: the anchor of core_scan_cursor
    pc,        \* where the worker's pass stands between two requests
    pass,      \* what the pass has read so far
    budget     \* how often the environment has moved, failed or asked again

scanVars == <<chain, window, cursor, pc, pass, budget>>

Hashes == UNION {[1 .. n -> 1 .. Branches] : n \in 0 .. MaxChain}
Genesis == <<>>
NoHash == <<0>>                    \* no hash: an Option that is empty

\* The hash a block names as the previous one, and the last block of a page.
Parent(h) == SubSeq(h, 1, Len(h) - 1)
Newest(blocks) == blocks[Len(blocks)]

Block(h, body) == [height |-> Len(h), hash |-> h, prev |-> Parent(h), body |-> body]

\* canonical_hash_at_height: GET /block/{height} of the current chain.
HashAt(height) == IF height <= Len(chain) THEN SubSeq(chain, 1, height) ELSE NoHash

\* validate_cursor: the block at the cursor's height is still the cursor's.
Canonical(h) == HashAt(Len(h)) = h

\* committed_canonical_hash: the hash the window holds for the height.
LocalHash(height) ==
    IF \E b \in window : b.height = height
    THEN (CHOOSE b \in window : b.height = height).hash
    ELSE NoHash

NoPage == [ours |-> TRUE, from |-> 0, anchor |-> NoHash, blocks |-> <<>>,
           tip |-> NoHash, next |-> NoHash]
NoPass == [reorg |-> FALSE, height |-> 0, safe |-> NoHash, anchor |-> NoHash,
           page |-> NoPage, error |-> "none"]

\* Which branch is called 1 is arbitrary: the first chain takes it everywhere.
ScanInit ==
    /\ chain \in {h \in Hashes : \A i \in 1 .. Len(h) : h[i] = 1}
    /\ window = {}
    /\ cursor = NoHash
    /\ pc = "idle"
    /\ pass = NoPass
    /\ budget = [moves |-> 0, faults |-> 0, rescans |-> 0]

Durable == <<window, cursor>>
-----------------------------------------------------------------------------
(* What becomes of an error on its way from the node to the worker's loop.  *)

\* map_full_scan_status and map_transport_error: the status of a scan request.
map_full_scan_status ==
    [transport |-> "TemporaryFailure", busy |-> "NodeNotReady",
     limited |-> "TemporaryFailure", unauthorized |-> "InternalFailure",
     missing |-> "InternalFailure", conflict |-> "CursorReorg",
     malformed |-> "InvalidScanRequest", gap |-> "CanonicalGap",
     server |-> "TemporaryFailure", other |-> "InternalFailure"]

\* map_block_status: the status of a block request, which needs no token and
\* answers "missing" for a height above the tip.
map_block_status(status) ==
    IF status \in {"transport", "busy", "limited", "server"}
    THEN map_full_scan_status[status]
    ELSE "InternalFailure"

\* CoreScanError::from_core.
from_core ==
    [TemporaryFailure |-> "CoreNotReady", NodeNotReady |-> "CoreNotReady",
     CursorReorg |-> "ReorgDetected", CursorChainMismatch |-> "CursorIdentityMismatch",
     CanonicalGap |-> "InvalidScan", InvalidScanRequest |-> "InvalidScan",
     InternalFailure |-> "CoreContract"]

\* StorageFailure::classify, and what terminal_error makes of it.
StorageFailure ==
    [WriterActive |-> "Transient", LimitExceeded |-> "Terminal",
     Io |-> "Terminal", Domain |-> "Terminal"]

\* From<CoreError> for CommandError: a scan error is retryable whatever it is, a
\* storage error that is not transient never.
command_error(error) ==
    CASE error = "CoreNotReady" -> "NodeNotReady"
      [] error \in DOMAIN StorageFailure /\ StorageFailure[error] = "Terminal" -> "NotRetryable"
      [] OTHER -> "Retryable"

terminal_synchronization_error(error) == command_error(error) = "NotRetryable"

\* The pass fails.
Fails(error) == pc' = "failed" /\ pass' = [NoPass EXCEPT !.error = error]
FailsFromCore(error) == Fails(from_core[error])

\* run_synchronization_follow_loop: back off and start over, or stop for good.
FollowLoop ==
    /\ pc = "failed"
    /\ pc' = IF terminal_synchronization_error(pass.error) THEN "stopped" ELSE "idle"
    /\ pass' = NoPass
    /\ UNCHANGED <<chain, window, cursor, budget>>
-----------------------------------------------------------------------------
(* The node and the network.                                                *)

\* The node connects, disconnects or replaces blocks; a remote address may also
\* be answered by a node that lags behind.
ChainMoves(c) ==
    /\ budget.moves < MaxMoves
    /\ c # chain
    /\ chain' = c
    /\ budget' = [budget EXCEPT !.moves = @ + 1]
    /\ UNCHANGED <<window, cursor, pc, pass>>

\* http_get: a request of a pass fails in transport or is answered with an error
\* status.  Nothing of a pass is durable before its commit.
RequestFails(status) ==
    /\ pc \in {"search", "bind", "page", "tip", "previous", "commit"}
    /\ budget.faults < MaxBadAnswers
    /\ FailsFromCore(IF pc = "page" THEN map_full_scan_status[status]
                                    ELSE map_block_status(status))
    /\ budget' = [budget EXCEPT !.faults = @ + 1]
    /\ UNCHANGED <<chain, window, cursor>>

\* run_sync_pass before the scan: is_ready takes any failure of its probe for a
\* node that is not ready; current_identity compares the answer with the identity
\* the session was started with (validate_same_chain).
ProbeFails(error) ==
    /\ pc = "idle" /\ budget.faults < MaxBadAnswers
    /\ error \in {"CoreNotReady", "CursorIdentityMismatch"}
    /\ Fails(error)
    /\ budget' = [budget EXCEPT !.faults = @ + 1]
    /\ UNCHANGED <<chain, window, cursor>>

\* The commit of the sink fails in storage.
StorageFails(error) ==
    /\ pc = "commit" /\ budget.faults < MaxBadAnswers
    /\ error \in DOMAIN StorageFailure \ {"Domain"}
    /\ Fails(error)
    /\ budget' = [budget EXCEPT !.faults = @ + 1]
    /\ UNCHANGED <<chain, window, cursor>>

\* The page a node serves from one locked snapshot of its chain: up to PageSize
\* blocks, fewer when the response would grow too large.
Page(anchor, n) ==
    LET first == Len(anchor) + 1
        last == Len(anchor) + n
    IN  [ours |-> TRUE, from |-> first, anchor |-> anchor,
         blocks |-> [i \in 1 .. n |-> Block(HashAt(first + i - 1), "true")],
         tip |-> chain,
         next |-> IF n > 0 /\ last < Len(chain) THEN HashAt(last) ELSE NoHash]

\* A page that is wrong in one respect: it is of another network or answers
\* another request, a block is missing or of another branch, a body is not the
\* one of its block (its fields contradict its header, its rows its bytes, or its
\* bytes the roots of the header), the tip or the continuation names another block.
Wrong(p) ==
    LET n == Len(p.blocks)
    IN  {[p EXCEPT !.ours = FALSE], [p EXCEPT !.from = @ + 1], [p EXCEPT !.anchor = NoHash]}
        \union {[p EXCEPT !.blocks = Tail(@)] : i \in 1 .. (IF n > 0 THEN 1 ELSE 0)}
        \union {[p EXCEPT !.blocks[i] = Block(h, "true")] :
                  i \in 1 .. n, h \in {g \in Hashes : g # <<>> /\ ~Canonical(g)}}
        \union {[p EXCEPT !.blocks[i].body = b] :
                  i \in 1 .. n, b \in {"header", "rows", "roots"}}
        \union {[p EXCEPT !.tip = h] : h \in Hashes \ {chain}}
        \union {[p EXCEPT !.next = h] : h \in {Genesis, NoHash} \ {p.next}}
-----------------------------------------------------------------------------
(* The checks.                                                              *)

Linked(anchor, blocks) ==
    \A i \in 1 .. Len(blocks) :
        /\ blocks[i].height = Len(anchor) + i
        /\ blocks[i].prev = IF i = 1 THEN anchor ELSE blocks[i - 1].hash

\* validate_continuation.
ContinuationFits(p) ==
    p.next # NoHash => p.blocks # <<>> /\ p.next = Newest(p.blocks).hash

\* parse_full_scan, the fields of a block: they are those of its header bytes,
\* which hash to the block hash.
HeaderAgrees(b) == b.body # "header"

\* parse_full_scan, the rows of a block: positions, identifiers and totals agree
\* with the canonical bytes of its transactions.
RowsAgree(b) == b.body # "rows"

\* parse_full_scan: the page answers the request, stays below its tip, is
\* linked from the anchor, and its rows agree with its bytes.
Parses(p, anchor) ==
    /\ p.from = Len(anchor) + 1
    /\ p.anchor = anchor
    /\ Len(p.blocks) <= PageSize
    /\ p.blocks # <<>> => Newest(p.blocks).height <= Len(p.tip)
    /\ Linked(anchor, p.blocks)
    /\ \A i \in 1 .. Len(p.blocks) :
          HeaderAgrees(p.blocks[i]) /\ RowsAgree(p.blocks[i])
    /\ ContinuationFits(p)

\* observe_identity: every answer of a session is of the network it was pinned to.
observe_identity(p) == p.ours

\* validate_full_fidelity_projection checks header and rows again, whatever the
\* source, and that the bytes are those of the roots in the header.
HeaderProjected(b) == b.body # "header"
TransactionsProjected(b) == b.body # "rows"
BodyUnchecked(b) == TRUE
BodyCommitted(b) == b.body # "roots"
validate_full_fidelity_projection(b) ==
    HeaderProjected(b) /\ TransactionsProjected(b) /\ BodyCommitted(b)

\* map_block.
Maps(b) == b.hash # NoHash /\ validate_full_fidelity_projection(b)

\* WalletState::validate, run by every commit: retained blocks are consecutive
\* and linked.
ValidatesAnything(w) == TRUE
Validates(w) ==
    \A b \in w :
        \/ \A a \in w : b.height <= a.height
        \/ \E a \in w : a.height + 1 = b.height /\ a.hash = b.prev

\* prune_recovery_canonical_window.
Pruned(w) == {b \in w : \A a \in w : b.height > a.height - WindowSize}

\* rewind_recovery_state: what is left at or below the safe anchor.
Rewound(w, h) == {b \in w : b.height <= Len(h)}

\* The lowest height find_safe_anchor compares.
LowestCompared == IF Len(cursor) > ReorgDepth THEN Len(cursor) - ReorgDepth ELSE 0
-----------------------------------------------------------------------------
(* A pass: reconcile_wallet_once, one step per request to the node.         *)

\* No cursor: start above genesis.  A node at genesis gives a cursor without
\* blocks.
Bootstrap ==
    /\ pc = "idle" /\ cursor = NoHash
    /\ IF chain = Genesis
       THEN cursor' = Genesis /\ UNCHANGED <<pc, pass>>
       ELSE /\ pc' = "page"
            /\ pass' = [NoPass EXCEPT !.anchor = Genesis]
            /\ UNCHANGED cursor
    /\ UNCHANGED <<chain, window, budget>>

\* reconcile_once: a cursor that is no longer canonical starts a reorganization.
CheckCursor ==
    /\ pc = "idle" /\ cursor # NoHash
    /\ IF Canonical(cursor)
       THEN pc' = "page" /\ pass' = [NoPass EXCEPT !.anchor = cursor]
       ELSE pc' = "search" /\ pass' = [NoPass EXCEPT !.reorg = TRUE, !.height = Len(cursor) - 1]
    /\ UNCHANGED <<chain, window, cursor, budget>>

\* find_safe_anchor, one height per step, downwards; below the lowest height the
\* pass fails with ReorgBeyondBound.  Genesis is never in the window.
FindSafeAnchor ==
    /\ pc = "search"
    /\ IF pass.height < LowestCompared
       THEN Fails("ReorgBeyondBound")
       ELSE IF LocalHash(pass.height) # NoHash /\ LocalHash(pass.height) = HashAt(pass.height)
       THEN pc' = "bind" /\ pass' = [pass EXCEPT !.safe = HashAt(pass.height)]
       ELSE pc' = "search" /\ pass' = [pass EXCEPT !.height = @ - 1]
    /\ UNCHANGED <<chain, window, cursor, budget>>

\* scan_range from a height: the hash of the predecessor is asked for again and
\* becomes the anchor of the page.
BindAnchor ==
    /\ pc = "bind"
    /\ IF HashAt(pass.height) = NoHash
       THEN FailsFromCore("CanonicalGap")
       ELSE pc' = "page" /\ pass' = [pass EXCEPT !.anchor = HashAt(pass.height)]
    /\ UNCHANGED <<chain, window, cursor, budget>>

\* scan_range and scan_next: an anchor that has left the chain is answered with
\* a conflict; a page that does not parse ends the pass.
FetchPage ==
    /\ pc = "page"
    /\ IF ~Canonical(pass.anchor)
       THEN FailsFromCore(map_full_scan_status["conflict"]) /\ UNCHANGED budget
       ELSE LET more == Len(chain) - Len(pass.anchor)
                full == IF more < PageSize THEN more ELSE PageSize
            IN  \E n \in (IF full = 0 THEN {0} ELSE 1 .. full) :
                \E p \in {Page(pass.anchor, n)} \union
                         (IF budget.faults < MaxBadAnswers THEN Wrong(Page(pass.anchor, n)) ELSE {}) :
                   /\ IF ~Parses(p, pass.anchor)
                      THEN FailsFromCore("InternalFailure")
                      ELSE IF ~observe_identity(p)
                      THEN FailsFromCore("CursorChainMismatch")
                      ELSE pc' = "tip" /\ pass' = [pass EXCEPT !.page = p]
                   /\ budget' = IF p = Page(pass.anchor, n) THEN budget
                                ELSE [budget EXCEPT !.faults = @ + 1]
    /\ UNCHANGED <<chain, window, cursor>>

\* validate_and_map: the tip of the page must be the block at its height now.
ConfirmTip ==
    /\ pc = "tip"
    /\ IF ~Canonical(pass.page.tip)
       THEN Fails("InvalidScan")
       ELSE pc' = (IF pass.reorg THEN "previous" ELSE "commit") /\ UNCHANGED pass
    /\ UNCHANGED <<chain, window, cursor, budget>>

\* validate_and_map without an anchor asks for the predecessor once more.
ConfirmPrevious ==
    /\ pc = "previous"
    /\ IF HashAt(pass.height) = NoHash
       THEN Fails("InvalidScan")
       ELSE pc' = "commit" /\ pass' = [pass EXCEPT !.anchor = HashAt(pass.height)]
    /\ UNCHANGED <<chain, window, cursor, budget>>

\* The rest of validate_and_map, on the blocks of the page: a continuation is
\* there exactly when the page ends below its tip.
ValidBatch ==
    /\ Linked(pass.anchor, pass.page.blocks)
    /\ \A i \in 1 .. Len(pass.page.blocks) : Maps(pass.page.blocks[i])
    /\ pass.page.blocks # <<>> =>
          (pass.page.next # NoHash <=> Newest(pass.page.blocks).height < Len(pass.page.tip))

\* The cursor of the batch is checked with the node, and the sink commits.
CommitAt(w, c) ==
    \/ ~Canonical(c) /\ Fails("ReorgDetected") /\ UNCHANGED Durable
    \/ Canonical(c) /\ ~Validates(w) /\ Fails("Domain") /\ UNCHANGED Durable
    \/ /\ Canonical(c) /\ Validates(w)
       /\ window' = w /\ cursor' = c
       /\ pc' = "idle" /\ pass' = NoPass

\* commit_normal and WalletRecoverySink::commit; an empty page changes nothing.
CommitBatch ==
    /\ pc = "commit" /\ ~pass.reorg
    /\ LET blocks == pass.page.blocks IN
       \/ ~ValidBatch /\ Fails("InvalidScan") /\ UNCHANGED Durable
       \/ blocks = <<>> /\ pc' = "idle" /\ pass' = NoPass /\ UNCHANGED Durable
       \/ /\ ValidBatch /\ blocks # <<>>
          /\ CommitAt(Pruned(window \union Range(blocks)), Newest(blocks).hash)
    /\ UNCHANGED <<chain, budget>>

\* reconcile_reorg and commit_core_reorg: an empty replacement is accepted only
\* when the safe anchor is the tip.
ReplacesWithBlocks(blocks) == blocks # <<>>
Replaces(blocks) == blocks # <<>> \/ pass.page.tip = pass.safe

CommitReorg ==
    /\ pc = "commit" /\ pass.reorg
    /\ LET blocks == pass.page.blocks IN
       \/ ~(ValidBatch /\ Replaces(blocks)) /\ Fails("InvalidScan") /\ UNCHANGED Durable
       \/ /\ ValidBatch /\ Replaces(blocks)
          /\ CommitAt(Pruned(Rewound(window, pass.safe) \union Range(blocks)),
                      IF blocks = <<>> THEN pass.safe ELSE Newest(blocks).hash)
    /\ UNCHANGED <<chain, budget>>

\* rescan_from_genesis between two passes.
Rescan ==
    /\ pc = "idle" /\ cursor # NoHash
    /\ budget.rescans < MaxRescans
    /\ window' = {} /\ cursor' = NoHash
    /\ budget' = [budget EXCEPT !.rescans = @ + 1]
    /\ UNCHANGED <<chain, pc, pass>>

\* The user starts a stopped worker again.
StartAgain ==
    /\ pc = "stopped"
    /\ pc' = "idle"
    /\ UNCHANGED <<chain, window, cursor, pass, budget>>

PassStep ==
    \/ Bootstrap \/ CheckCursor \/ FindSafeAnchor \/ BindAnchor \/ FetchPage
    \/ ConfirmTip \/ ConfirmPrevious \/ CommitBatch \/ CommitReorg \/ FollowLoop

ScanNext ==
    \/ PassStep
    \/ \E c \in Hashes : ChainMoves(c)
    \/ \E status \in DOMAIN map_full_scan_status : RequestFails(status)
    \/ \E error \in {"CoreNotReady", "CursorIdentityMismatch"} : ProbeFails(error)
    \/ \E error \in DOMAIN StorageFailure : StorageFails(error)
    \/ Rescan
    \/ StartAgain

ScanSpec == ScanInit /\ [][ScanNext]_scanVars

\* The follow loop retries a pass for ever with bounded backoff.
ScanFairSpec == ScanSpec /\ WF_scanVars(PassStep)
-----------------------------------------------------------------------------
\* The durable window is one chain that ends at the cursor, however often the
\* node changes its chain between the requests of a pass (CoreChainAdapter,
\* WalletState::validate).
ScannedIsAChain ==
    /\ \A b \in window : b.height <= Len(cursor) /\ b.hash = SubSeq(cursor, 1, b.height)
    /\ cursor = NoHash => window = {}
    /\ \A b \in window : b.height < Len(cursor) => \E a \in window : a.height = b.height + 1

\* What the wallet has scanned is what the node's blocks contain: no wrong page
\* gets past parse_full_scan and validate_full_fidelity_projection.
ScannedIsReal == \A b \in window : b = Block(b.hash, "true")

\* The chain has forked below what find_safe_anchor compares.
BeyondBound ==
    /\ cursor # NoHash /\ ~Canonical(cursor)
    /\ \A h \in 0 .. Len(cursor) - 1 :
          h >= Len(cursor) - ReorgDepth => LocalHash(h) = NoHash \/ LocalHash(h) # HashAt(h)

\* Once the node and the network are quiet the worker ends at the tip, unless the
\* fork is deeper than the bound or a commit was refused for good
\* (run_synchronization_follow_loop).
ReachesTip == <>[](cursor = chain \/ BeyondBound \/ pc = "stopped")

\* The comment of terminal_synchronization_error: the worker stops only for what
\* no retry can repair.  A cursor that is canonical, or a fork within the bound,
\* is repaired by the next pass.
StopsOnlyForGood == pc = "stopped" => BeyondBound

\* The contract of the remote scan: a page that violates the schema, or is of
\* another network, ends the worker instead of being asked for again.
WrongSourceStops ==
    [][pc = "failed" /\ pass.error \in {"CoreContract", "CursorIdentityMismatch"}
         => pc' # "idle"]_scanVars
=============================================================================
