---------------------------- MODULE SwapSessions ----------------------------
(***************************************************************************)
(* The durable swap sessions of a wallet (dom-wallet-core, WalletService;  *)
(* dom-wallet-domain, SwapSessionRecord) and the commands of the swap tab  *)
(* that change them (src-tauri, DesktopApp).                               *)
(*                                                                         *)
(* A session and the derivation index of its external legs are allocated   *)
(* in one commit of the encrypted state.  A commit works on a copy of the  *)
(* state in memory; it succeeds, fails before the new generation is        *)
(* published, or fails after it, and then the state in memory is one       *)
(* generation behind and every further commit is refused until the wallet  *)
(* is loaded again.  The store itself is the subject of GenerationStore.   *)
(***************************************************************************)
EXTENDS Integers, FiniteSets, Functions

CONSTANTS
    Sessions,        \* the ids a new session may get (Uuid::new_v4)
    Routes,          \* the pairs of asset codes the user asks for
    MaxSwapSessions, \* MAX_SWAP_SESSIONS
    MaxLegIndex,     \* MAX_SWAP_LEG_INDEX
    GapLimit,        \* SWAP_LEG_GAP_LIMIT
    MaxFaults,       \* bound: failing commits and crashes
    MaxRestores      \* bound: restorations from the recovery phrase

ASSUME SwapBoundsAssumption ==
    /\ IsFiniteSet(Sessions)
    /\ {MaxSwapSessions, MaxLegIndex, GapLimit, MaxFaults, MaxRestores} \subseteq Nat

ASSUME RoutesAssumption == \A route \in Routes : route = <<route[1], route[2]>>

VARIABLES
    disk,      \* the wallet state of the published generation
    memory,    \* WalletService.unlocked, or Locked
    drafting,  \* the session swap_intent_create is between its two commits of
    drafted,   \* ghost: the ids that were drawn
    handed,    \* ghost: every leg a command returned with a session, by wallet file
    file,      \* ghost: the number of the wallet file
    faults     \* ghost: faults that happened

svars == <<disk, memory, drafting, drafted, handed, file, faults>>

None == "none"
Locked == [next |-> -1]
NoQuote == [dom |-> 0]

(***************************************************************************)
(* Assets, routes and fees.                                                *)
(***************************************************************************)
\* The code of an asset, and the seed-derived leg that receives it.
ASSET_REGISTRY ==
    [ code \in {"DOM", "BTC", "XMR", "SOL", "USDT.ETH", "USDT.SOL"} |->
        CASE code = "DOM" -> "dom" [] code = "BTC" -> "bitcoin" [] code = "XMR" -> "monero"
          [] code = "USDT.ETH" -> "evm" [] OTHER -> "solana" ]

\* A route between two external assets crosses the DOM and settles two legs.
external_legs(from, to) == Cardinality({i \in 1..2 : <<from, to>>[i] # "DOM"})

fee_bps_for_route(from, to) == IF external_legs(from, to) <= 1 THEN 50 ELSE 100

BPS_DENOMINATOR == 10000

\* Mutant: truncated.
SwapFeeTruncated(amount, bps) == (amount * bps) \div BPS_DENOMINATOR

\* Rounded up; 0 stands for the refusals (an empty leg).
swap_fee_noms(amount, bps) == (amount * bps + BPS_DENOMINATOR - 1) \div BPS_DENOMINATOR

(***************************************************************************)
(* The lifecycle of a session.                                             *)
(***************************************************************************)
Terminal == {"Settled", "Refunded", "SafelyAborted"}

free_cancellation == {"IntentDraft", "IntentPublished", "QuoteAccepted", "RefundsArmed"}

Locking == {"UserFunding", "UserFunded", "SolverFunded", "Claiming"}

ForwardEdges ==
    { <<"IntentDraft", "IntentPublished">>, <<"IntentPublished", "QuoteAccepted">>,
      <<"QuoteAccepted", "RefundsArmed">>, <<"RefundsArmed", "UserFunding">>,
      <<"UserFunding", "UserFunded">>, <<"UserFunded", "SolverFunded">>,
      <<"SolverFunded", "Claiming">>, <<"Claiming", "Settled">>,
      <<"CancelTimelockExpired", "CancelPublished">>, <<"CancelPublished", "Refunded">> }

may_transition_to ==
    ForwardEdges \cup (Locking \X {"CancelTimelockExpired"})
                 \cup (free_cancellation \X {"SafelyAborted"})

States == {edge[1] : edge \in may_transition_to} \cup Terminal

(***************************************************************************)
(* The wallet state, as far as swaps are concerned.                        *)
(***************************************************************************)
NewWallet == [sessions |-> << >>, next |-> 0]

Draft(route, leg) ==
    [ state |-> "IntentDraft", route |-> route, leg |-> leg,
      quote |-> NoQuote, fee |-> 0, noted |-> FALSE ]

Validates(wallet) ==
    /\ Cardinality(DOMAIN wallet.sessions) <= MaxSwapSessions
    /\ wallet.next <= MaxLegIndex
    /\ \A id \in DOMAIN wallet.sessions : wallet.sessions[id].leg <= MaxLegIndex

WithSession(wallet, id, session) ==
    [wallet EXCEPT !.sessions =
        [i \in DOMAIN wallet.sessions \cup {id} |->
            IF i = id THEN session ELSE wallet.sessions[i]]]

Init ==
    /\ disk = NewWallet
    /\ memory = NewWallet
    /\ drafting = None
    /\ drafted = {}
    /\ handed = {}
    /\ file = 0
    /\ faults = 0

\* Mutant: a commit from an overtaken state is published.
AnyGeneration == memory # Locked

\* A commit is refused when a half-reported one left the memory behind.
ExpectedGeneration == memory = disk

Leg(id, wallet) ==
    [id |-> id, leg |-> wallet.sessions[id].leg, route |-> wallet.sessions[id].route, file |-> file]

\* What the caller of a successful commit is told of the session.
Returned(id, wallet) == handed' = handed \cup {Leg(id, wallet)}

CommitSucceeds(wallet) ==
    /\ Validates(wallet)
    /\ ExpectedGeneration
    /\ disk' = wallet
    /\ memory' = wallet
    /\ UNCHANGED faults

\* The generation is published, and writing or reading the metadata fails.
CommitHalfReported(wallet) ==
    /\ Validates(wallet)
    /\ ExpectedGeneration
    /\ faults < MaxFaults
    /\ faults' = faults + 1
    /\ disk' = wallet
    /\ UNCHANGED <<memory, handed>>

\* Nothing is published: an input or output error, or a stale generation.
CommitFails ==
    /\ \/ ExpectedGeneration /\ faults < MaxFaults /\ faults' = faults + 1
       \/ ~ExpectedGeneration /\ UNCHANGED faults
    /\ UNCHANGED <<disk, memory, handed>>

Commit(wallet, id) ==
    \/ CommitSucceeds(wallet) /\ Returned(id, wallet)
    \/ CommitHalfReported(wallet)
    \/ CommitFails

Idle == memory # Locked /\ drafting = None

(***************************************************************************)
(* Commands.                                                               *)
(***************************************************************************)
\* Mutant: the index of a session that ended is recycled.
RecyclesLeg(wallet) ==
    [wallet EXCEPT !.next =
        Cardinality({id \in DOMAIN wallet.sessions : wallet.sessions[id].state \notin Terminal})]

AllocatesLeg(wallet) == [wallet EXCEPT !.next = @ + 1]

swap_session_create_draft(id, route) ==
    WithSession(AllocatesLeg(memory), id, Draft(route, memory.next))

\* The draft is committed; publishing it is impossible without a daemon, and
\* the second commit of the command records that.
IntentCreate(id, route) ==
    /\ Idle
    /\ id \notin drafted
    /\ drafted' = drafted \cup {id}
    /\ {route[1], route[2]} \subseteq DOMAIN ASSET_REGISTRY
    /\ memory.next + 1 <= MaxLegIndex
    /\ LET wallet == swap_session_create_draft(id, route)
       IN  \/ CommitSucceeds(wallet) /\ drafting' = id /\ UNCHANGED handed
           \/ (CommitHalfReported(wallet) \/ CommitFails) /\ UNCHANGED drafting
    /\ UNCHANGED file

IntentNoted ==
    /\ drafting # None
    /\ drafting' = None
    /\ Commit(WithSession(memory, drafting, [memory.sessions[drafting] EXCEPT !.noted = TRUE]),
              drafting)
    /\ UNCHANGED <<drafted, file>>

SessionTransition(id, next) ==
    /\ Idle
    /\ id \in DOMAIN memory.sessions
    /\ <<memory.sessions[id].state, next>> \in may_transition_to
    /\ next = "QuoteAccepted" => memory.sessions[id].quote # NoQuote /\ memory.sessions[id].fee # 0
    /\ Commit(WithSession(memory, id, [memory.sessions[id] EXCEPT !.state = next]), id)
    /\ UNCHANGED <<drafting, drafted, file>>

swap_session_cancel(id) == SessionTransition(id, "SafelyAborted")

\* The remaining transitions are the daemon channel's.
DaemonAdvances(id) == \E next \in States \ {"SafelyAborted"} : SessionTransition(id, next)

AcceptsQuote(session, quote, fee) ==
    [session EXCEPT !.quote = quote, !.fee = fee, !.state = "QuoteAccepted"]

swap_session_accept_quote(id, quote, fee) ==
    /\ quote.dom # 0
    /\ <<memory.sessions[id].state, "QuoteAccepted">> \in may_transition_to
    /\ Commit(WithSession(memory, id, AcceptsQuote(memory.sessions[id], quote, fee)), id)

\* The fee is taken from the quote's DOM leg at the tier of the durable intent.
swap_authenticated_quote_commit(id, quote) ==
    /\ Idle
    /\ id \in DOMAIN memory.sessions
    /\ LET route == memory.sessions[id].route
       IN  swap_session_accept_quote(id, quote,
               swap_fee_noms(quote.dom, fee_bps_for_route(route[1], route[2])))
    /\ UNCHANGED <<drafting, drafted, file>>

(***************************************************************************)
(* The wallet around the commands.                                         *)
(***************************************************************************)
\* wallet_lock, or the end of the process, with the command it was running.
LockOrCrash ==
    /\ memory # Locked
    /\ \/ drafting = None /\ UNCHANGED faults
       \/ drafting # None /\ faults < MaxFaults /\ faults' = faults + 1
    /\ memory' = Locked
    /\ drafting' = None
    /\ UNCHANGED <<disk, drafted, handed, file>>

\* Unlocking, or a scan batch that found its generation overtaken.
Load ==
    /\ memory # disk
    /\ memory' = disk
    /\ UNCHANGED <<disk, drafting, drafted, handed, file, faults>>

\* A wallet restored from the recovery phrase starts without sessions.
RestoreFromPhrase ==
    /\ memory = Locked
    /\ file < MaxRestores
    /\ file' = file + 1
    /\ disk' = NewWallet
    /\ UNCHANGED <<memory, drafting, drafted, handed, faults>>

SessionStep ==
    \/ \E id \in Sessions, route \in Routes : IntentCreate(id, route)
    \/ IntentNoted
    \/ \E id \in Sessions : swap_session_cancel(id) \/ DaemonAdvances(id)
    \/ LockOrCrash
    \/ Load
    \/ RestoreFromPhrase

(***************************************************************************)
(* What the read-only commands answer.                                     *)
(***************************************************************************)
swap_used_leg_indices(wallet) == {0} \cup {session.leg : session \in Range(wallet.sessions)}

\* The index a new session would receive is wallet.next.
swap_leg_scan_bounds(wallet) ==
    LET through == wallet.next + GapLimit
    IN  IF through < MaxLegIndex THEN through ELSE MaxLegIndex

\* The addresses of a derivation index; Monero has one account.
Addresses(indices) == ({"bitcoin", "evm", "solana"} \X indices) \cup {<<"monero", 0>>}

swap_leg_keys_export(wallet) == Addresses(swap_used_leg_indices(wallet))

swap_leg_scan_plan(wallet) == Addresses(0..swap_leg_scan_bounds(wallet))

\* Where a session receives its output; the DOM leg is the wallet's own.
ReceivingAddresses(route, leg) ==
    LET chain == ASSET_REGISTRY[route[2]]
    IN  IF chain = "dom" THEN {} ELSE {<<chain, IF chain = "monero" THEN 0 ELSE leg>>}

\* The fee told for an amount before any quote: exact for a DOM input, open
\* (0) for an external one, refused (-1) for what is not curated.
swap_fee_quote(amount, route, payment) ==
    IF {route[1], route[2], payment} \subseteq DOMAIN ASSET_REGISTRY /\ amount # 0
    THEN IF route[1] = "DOM"
         THEN swap_fee_noms(amount, fee_bps_for_route(route[1], route[2]))
         ELSE 0
    ELSE -1

\* Whether a refund could be broadcast; an unlock time below 0 was never
\* recorded, and no operation of the wallet records one.
swap_manual_refund_gate(session, unlock, now) ==
    CASE session.state \in Terminal -> "AlreadyTerminal"
      [] session.state \in free_cancellation -> "NothingLocked"
      [] OTHER -> IF unlock < 0 THEN "RefundUnknown"
                  ELSE IF now < unlock THEN "NotYetUnlocked" ELSE "Broadcastable"

\* The command always refuses, for the gate's reason; with an open gate and the
\* daemon's channel it still has nothing to broadcast with.
swap_manual_refund(session, unlock, now, connected) ==
    LET gate == swap_manual_refund_gate(session, unlock, now)
    IN  IF gate = "Broadcastable" /\ connected THEN "Unavailable" ELSE gate
=============================================================================
