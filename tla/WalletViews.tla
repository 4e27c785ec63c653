----------------------------- MODULE WalletViews -----------------------------
(***************************************************************************)
(* What the commands tell the user about the wallet: the balance, the      *)
(* summary of a transaction, the result of a submission. They are          *)
(* functions of the stored records, written apart from the commands they   *)
(* announce.                                                               *)
(* An amount is the set of outputs that add up to it.                      *)
(***************************************************************************)
EXTENDS WalletTransactions

InState(state) == {c \in Commitments : outputs[c].state = state}

\* BalanceProjection::from_outputs
Balance ==
    [confirmed |-> InState("Confirmed"), spendable |-> InState("Confirmed"),
     pending_incoming |-> InState("PendingIncoming"),
     pending_outgoing |-> InState("PendingOutgoing"),
     total |-> Commitments \ (InState("Absent") \union InState("Spent"))]

\* transaction_summary_from
ManualCancelAllowed(tx) ==
    /\ tx.exposure = NeverBroadcast
    /\ tx.lifecycle \notin Settling \union {"Cancelled", "Confirmed", "ReconciliationRequired"}

transaction_summary_from(tx) ==
    LET open == tx.bytes /\ tx.lifecycle \notin {"Cancelled", "Confirmed"}
    IN  [state |-> tx.lifecycle, finalized |-> tx.bytes,
         manual_cancel_allowed |-> ManualCancelAllowed(tx),
         manual_cancel_warning |-> open /\ tx.exposure = NeverBroadcast,
         awaiting_confirmation |-> open]

\* submission_result
submission_result(tx) ==
    [retryable |-> tx.lifecycle \in {"AcceptedNotRelayed", "RetransmitRequired",
                                     "ReconciliationRequired", "Reorged"},
     accepted |-> tx.lifecycle \in {"Submitted", "AcceptedNotRelayed", "InMempool", "Confirmed"}]
-----------------------------------------------------------------------------
\* A cancellation the summary offers is one that transaction_cancel carries out
\* (it neither refuses nor asks for reconciliation), and the node has never been
\* given the bytes; the summary and the cancellation decide by different rules.
OfferedCancelIsSafe ==
    \A t \in Txs : Created(t) /\ transaction_summary_from(txs[t]).manual_cancel_allowed =>
        /\ ReleaseNeverBroadcast(txs[t])
        /\ Allowed(txs[t], "Cancelled", NoBlock, "Cancellation")
        /\ t \notin handed

\* A submission that is reported as retryable can be retried.
RetryableIsRetried ==
    \A t \in Txs : txs[t].bytes /\ submission_result(txs[t]).retryable => MaySubmit(t, TRUE)

\* specs/0001: derived balances never include non-spendable output. What the
\* balance calls spendable can be selected for a send.
SpendableIsSelectable == Balance.spendable \subseteq Spendable
=============================================================================
