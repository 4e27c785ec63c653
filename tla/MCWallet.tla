------------------------------ MODULE MCWallet ------------------------------
(***************************************************************************)
(* The instances of WalletTransactions that TLC checks, and what the       *)
(* repository's documents say of transactions where the code does          *)
(* something else.                                                         *)
(***************************************************************************)
EXTENDS WalletViews

\* specs/0003: each active output has one reservation.  Two live transactions
\* never spend the same output, unless the chain has settled it.
NoSharedInput ==
    \A t, u \in Txs : t # u /\ Live(t) /\ Live(u) =>
        \A c \in txs[t].inputs \intersect txs[u].inputs : outputs[c].state = "Spent"

\* docs/TRANSACTION_ENGINE.md: scan evidence is authoritative for confirmation
\* and reorganization.  Once the scan is at the tip, what the wallet calls
\* Confirmed is in the chain.
ConfirmedAtTipIsOnChain ==
    scanned = chain => \A t \in Txs : txs[t].lifecycle = "Confirmed" => Mined(t)

\* docs/TRANSACTION_ENGINE.md: an accepted but unrelayed result is retained
\* for explicit retry.
AcceptedNotRelayedIsRetryable ==
    \A t \in Txs : txs[t].lifecycle = "AcceptedNotRelayed" => MaySubmit(t, TRUE)

\* reports/WALLET_STATE_MACHINE.md: Confirmed can only move to Reorged.
ConfirmedOnlyToReorged ==
    [][ \A t \in Txs : txs[t].lifecycle = "Confirmed" =>
            txs'[t].lifecycle \in {"Confirmed", "Reorged"} ]_vars

\* specs/0004: a send's reservation and its private context are never split.
\* A send that holds inputs while no command runs can be continued.
ReservationHasContext ==
    Idle => \A t \in Txs : Live(t) => txs[t].context

\* reports/WALLET_STATE_MACHINE.md: cancellation releases reservations only of
\* what was never broadcast.  A cancelled transaction is never mined.
CancelledNeverMined ==
    \A t \in Txs : txs[t].lifecycle = "Cancelled" => ~Mined(t)
=============================================================================
