------------------------ MODULE TransactionLifecycle ------------------------
(***************************************************************************)
(* The transaction record of dom-wallet-domain: its lifecycle graph, the   *)
(* evidence each edge needs, and the broadcast exposure that evidence      *)
(* raises.  No state: operators on one record, used by the wallet modules. *)
(***************************************************************************)
EXTENDS Naturals

Lifecycles ==
    {"Draft", "InputsReserved", "RequestExported", "RequestImported",
     "ResponsePrepared", "ResponseExported", "ResponseImported", "Finalized",
     "Submitting", "Submitted", "AcceptedNotRelayed", "InMempool", "Confirmed",
     "Reorged", "RetransmitRequired", "Cancelled", "Failed",
     "ReconciliationRequired"}

\* BroadcastExposure, in its derived order.
NeverBroadcast == 0
SubmissionStarted == 1
PossiblyRelayed == 2
ObservedInMempool == 3
ConfirmedOnChain == 4
Exposures == NeverBroadcast .. ConfirmedOnChain

\* The evidence a transition is made with, and the exposure it proves.
Evidence ==
    {"LocalConstruction", "RecipientResponse", "Finalization",
     "SubmissionStarted", "SubmissionOutcome", "MempoolObservation",
     "ConfirmationEvidence", "ReorgEvidence", "ReconciliationEvidence",
     "Cancellation"}

Observed(evidence) ==
    CASE evidence = "SubmissionStarted" -> SubmissionStarted
      [] evidence \in {"SubmissionOutcome", "ReconciliationEvidence",
                       "ReorgEvidence"} -> PossiblyRelayed
      [] evidence = "MempoolObservation" -> ObservedInMempool
      [] evidence = "ConfirmationEvidence" -> ConfirmedOnChain
      [] OTHER -> NeverBroadcast

\* The edges between different lifecycles, with the evidence they require.
Edges ==
    ({"Draft"} \X {"InputsReserved"} \X {"LocalConstruction"})
    \union ({"RequestImported"} \X {"ResponsePrepared"} \X {"RecipientResponse"})
    \union ({"InputsReserved", "RequestExported"}
            \X {"ResponseImported"} \X {"RecipientResponse"})
    \union ({"ResponseImported"} \X {"Finalized"} \X {"Finalization"})
    \union ({"Finalized", "RetransmitRequired"}
            \X {"Submitting"} \X {"SubmissionStarted"})
    \union ({"Submitting"}
            \X {"Submitted", "AcceptedNotRelayed", "InMempool",
                "RetransmitRequired", "Failed", "ReconciliationRequired"}
            \X {"SubmissionOutcome"})
    \union ({"Submitting", "Submitted", "AcceptedNotRelayed",
             "RetransmitRequired", "ReconciliationRequired", "Reorged"}
            \X {"InMempool"} \X {"MempoolObservation"})
    \union ({"ResponsePrepared", "ResponseExported", "Submitting", "Submitted",
             "AcceptedNotRelayed", "InMempool", "RetransmitRequired",
             "ReconciliationRequired", "Reorged"}
            \X {"Confirmed"} \X {"ConfirmationEvidence"})
    \union ({"Confirmed"} \X {"Reorged"} \X {"ReorgEvidence"})
    \union ({"Submitting", "Submitted", "AcceptedNotRelayed", "InMempool",
             "Confirmed", "Reorged", "RetransmitRequired", "Failed"}
            \X {"ReconciliationRequired"} \X {"ReconciliationEvidence"})
    \union ({"Draft", "InputsReserved", "RequestExported", "RequestImported",
             "ResponsePrepared", "ResponseExported", "ResponseImported",
             "Finalized", "Failed"}
            \X {"Cancelled"} \X {"Cancellation"})

\* A lifecycle value is a name and, for Confirmed only, the block; staying at
\* the same value is always allowed, whatever the evidence.
NoBlock == [height |-> 0, hash |-> 0]

Allowed(tx, lifecycle, block, evidence) ==
    \/ tx.lifecycle = lifecycle /\ tx.block = block
    \/ tx.lifecycle # lifecycle /\ <<tx.lifecycle, lifecycle, evidence>> \in Edges

\* Mutant: the exposure follows the latest evidence instead of the strongest.
TransitionToLatest(tx, lifecycle, block, evidence) ==
    [tx EXCEPT !.lifecycle = lifecycle, !.block = block,
               !.exposure = Observed(evidence)]

\* The record after an allowed transition.
Transition(tx, lifecycle, block, evidence) ==
    [tx EXCEPT !.lifecycle = lifecycle, !.block = block,
               !.exposure = IF Observed(evidence) > @ THEN Observed(evidence)
                            ELSE @]

\* minimum_current_exposure: what validate demands of every stored record.
MinimumExposure(tx) ==
    IF tx.submitted THEN PossiblyRelayed
    ELSE CASE tx.lifecycle = "Submitting" -> SubmissionStarted
           [] tx.lifecycle \in
                {"Submitted", "AcceptedNotRelayed", "InMempool", "Confirmed",
                 "Reorged", "RetransmitRequired", "Failed",
                 "ReconciliationRequired"} -> PossiblyRelayed
           [] OTHER -> NeverBroadcast

\* cancellation_decision
ReleaseNeverBroadcast(tx) == tx.exposure = NeverBroadcast
=============================================================================
