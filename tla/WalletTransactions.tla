------------------------- MODULE WalletTransactions -------------------------
(***************************************************************************)
(* The sender's transactions of one wallet (dom-wallet-core), the outputs  *)
(* they reserve (dom-wallet-domain), and synchronization with the chain    *)
(* (dom-wallet-core-sync, dom-wallet-core-restore).                        *)
(*                                                                         *)
(* The variables txs, outputs and scanned are the durable wallet state.    *)
(* A command clones it, changes the clone and commits it, so each commit   *)
(* is one step here (GenerationStore shows why that is sound); a command   *)
(* that commits twice or calls the node in between is several steps and    *)
(* may be cut short by a crash.  The service mutex admits one at a time.   *)
(***************************************************************************)
EXTENDS Node, TransactionLifecycle, FiniteSets

CONSTANTS
    Funds,              \* number of outputs the funding block paid to us
    PageSize,           \* DEFAULT_SCAN_BATCH_BLOCKS
    Features            \* which optional operations this instance includes

ASSUME FundsAssumption == Funds \in Nat \ {0}
ASSUME PageSizeAssumption == PageSize \in Nat \ {0}
ASSUME FeaturesAssumption ==
    Features \subseteq {"reorg", "rescan", "reconcile", "export", "recancel"}

VARIABLES
    txs,                \* LocalTransactionIntent, by transaction
    outputs,            \* OutputRecord, by commitment
    scanned,            \* hashes of the blocks up to the scan cursor
    op,                 \* the command in progress
    handed              \* transactions whose bytes a submit call sent out

walletVars == <<txs, outputs, scanned, op, handed>>
vars == <<nodeVars, walletVars>>

\* Commitments in order of value: the funds, then the change of each send.
Commitments == 1 .. (Funds + MaxTxs)
Change(t) == Funds + t

NoTx ==
    [lifecycle |-> "Draft", block |-> NoBlock, exposure |-> NeverBroadcast,
     submitted |-> FALSE, inputs |-> {}, bound |-> {}, context |-> FALSE,
     bytes |-> FALSE, expires |-> 0]

NoOutput == [state |-> "Absent", owner |-> 0, born |-> 0, spent |-> 0]

\* inputs: the commitments the transaction spends.  bound: those of them whose
\* output record is still the one reserved_output_ids names; a record that is
\* dropped and found again has a new id.  context: private context and request
\* bytes are stored.  bytes: the finalized transaction is stored.
TxRecords ==
    [lifecycle : Lifecycles,
     block : [height : 0 .. MaxHeight, hash : 0 .. MaxBlocks],
     exposure : Exposures, submitted : BOOLEAN,
     inputs : SUBSET Commitments, bound : SUBSET Commitments,
     context : BOOLEAN, bytes : BOOLEAN, expires : 0 .. MaxHeight + 1]

OutputRecords ==
    [state : {"Absent", "PendingIncoming", "Confirmed", "PendingOutgoing", "Spent"},
     owner : 0 .. MaxTxs, born : 0 .. MaxHeight, spent : 0 .. MaxHeight]

Outcomes == {"accepted", "unrelayed", "known", "uncertain", "rejected"}

NoOp == [kind |-> "none", tx |-> 0, retry |-> FALSE, outcome |-> "none"]

TypeOK ==
    /\ NodeTypeOK
    /\ txs \in [Txs -> TxRecords]
    /\ outputs \in [Commitments -> OutputRecords]
    /\ scanned \in Seq(1 .. MaxBlocks)
    /\ op \in [kind : {"none", "building", "calling", "answered"},
               tx : 0 .. MaxTxs, retry : BOOLEAN,
               outcome : Outcomes \union {"none"}]
    /\ handed \in SUBSET Txs

Created(t) == txs[t].lifecycle # "Draft"
Idle == op.kind = "none"

\* A wallet that has scanned the funding block.
Init ==
    /\ NodeInit
    /\ txs = [t \in Txs |-> NoTx]
    /\ outputs = [c \in Commitments |->
            IF c <= Funds THEN [NoOutput EXCEPT !.state = "Confirmed", !.born = 1]
            ELSE NoOutput]
    /\ scanned = <<1>>
    /\ op = NoOp
    /\ handed = {}

-----------------------------------------------------------------------------
(* Commit: the state must validate, otherwise nothing changes. *)

\* WalletState::validate: exposure floors, and exactly one live owner for
\* every reserved output that is not spent.
Valid(ts, os) ==
    /\ \A t \in Txs : ts[t].exposure >= MinimumExposure(ts[t])
    /\ \A c \in Commitments :
          os[c].owner # 0 /\ os[c].state # "Spent" =>
              /\ c \in ts[os[c].owner].bound
              /\ ts[os[c].owner].lifecycle \notin {"Cancelled", "Failed"}

\* On success the command goes on to next, on failure it returns the error.
Commit(ts, os, next) ==
    IF Valid(ts, os) THEN txs' = ts /\ outputs' = os /\ op' = next
    ELSE UNCHANGED <<txs, outputs>> /\ op' = NoOp

\* Commit one changed transaction record.
CommitTx(t, record, next) == Commit([txs EXCEPT ![t] = record], outputs, next)
-----------------------------------------------------------------------------
(* Send, response, finalize. *)

\* Mutant: the reservation is not looked at; refresh_maturity has made the
\* reserved output Confirmed again.
SpendableReserved == {c \in Commitments : outputs[c].state = "Confirmed"}

\* spendable_outputs
Spendable == {c \in Commitments : outputs[c].state = "Confirmed" /\ outputs[c].owner = 0}

\* Selection takes spendable outputs in order until the amount is covered.
Selections ==
    {s \in SUBSET Spendable :
        s # {} /\ \A c \in s, d \in Spendable \ s : c < d}

\* transaction_send_create, first commit: reserve the inputs.
SendReserve(t, s, expires) ==
    /\ Idle
    /\ ~Created(t) /\ \A u \in Txs : u < t => Created(u)
    /\ s \in Selections
    /\ expires > Tip
    /\ Commit([txs EXCEPT ![t] = [NoTx EXCEPT !.lifecycle = "InputsReserved",
                    !.inputs = s, !.bound = s, !.expires = expires]],
              [c \in Commitments |->
                    IF c \in s THEN [outputs[c] EXCEPT !.owner = t,
                                                       !.state = "PendingOutgoing"]
                    ELSE outputs[c]],
              [NoOp EXCEPT !.kind = "building", !.tx = t])
    /\ UNCHANGED <<nodeVars, scanned, handed>>

\* transaction_send_create, second commit: change output and private context.
SendBuild ==
    /\ op.kind = "building"
    /\ Commit([txs EXCEPT ![op.tx].context = TRUE],
              [outputs EXCEPT ![Change(op.tx)] =
                    [NoOutput EXCEPT !.state = "PendingIncoming"]],
              NoOp)
    /\ UNCHANGED <<nodeVars, scanned, handed>>

\* slate_response_import
ResponseImport(t) ==
    /\ Idle
    /\ txs[t].context
    /\ txs[t].expires > Tip
    /\ Allowed(txs[t], "ResponseImported", NoBlock, "RecipientResponse")
    /\ CommitTx(t, Transition(txs[t], "ResponseImported", NoBlock, "RecipientResponse"),
                NoOp)
    /\ UNCHANGED <<nodeVars, scanned, handed>>

\* transaction_finalize; a second call on a finalized transaction is a no-op.
Finalize(t) ==
    /\ Idle
    /\ txs[t].context
    /\ txs[t].expires > Tip
    /\ txs[t].lifecycle # "Finalized"
    /\ Allowed(txs[t], "Finalized", NoBlock, "Finalization")
    /\ CommitTx(t, [Transition(txs[t], "Finalized", NoBlock, "Finalization")
                        EXCEPT !.bytes = TRUE], NoOp)
    /\ UNCHANGED <<nodeVars, scanned, handed>>

\* transaction_finalized_export gives the bytes to the counterparty, who may
\* broadcast them; the wallet's own state does not change.
FinalizedExport(t) ==
    /\ "export" \in Features
    /\ Idle
    /\ txs[t].lifecycle = "Finalized"
    /\ pool' = pool \union {t}
    /\ UNCHANGED <<chain, content, walletVars>>

-----------------------------------------------------------------------------
(* Submission. *)

\* The lifecycles submit_transaction accepts.
MaySubmit(t, retry) ==
    \/ txs[t].lifecycle = "Finalized"
    \/ retry /\ txs[t].lifecycle \in {"Submitting", "RetransmitRequired"}

\* Mutant: the node is called before the attempt is durable.
SubmitWithoutCommit(t, retry) ==
    /\ Idle
    /\ MaySubmit(t, retry)
    /\ op' = [NoOp EXCEPT !.kind = "calling", !.tx = t, !.retry = retry]
    /\ UNCHANGED <<nodeVars, txs, outputs, scanned, handed>>

\* First commit: Submitting and its exposure are durable before the call.
SubmitBegin(t, retry) ==
    /\ Idle
    /\ MaySubmit(t, retry)
    /\ CommitTx(t, Transition(txs[t], "Submitting", NoBlock, "SubmissionStarted"),
                [NoOp EXCEPT !.kind = "calling", !.tx = t, !.retry = retry])
    /\ UNCHANGED <<nodeVars, scanned, handed>>

\* The inputs of t exist and are unspent in a sequence of blocks.
SpentIn(blocks, c) ==
    {h \in DOMAIN blocks :
        \E t \in content[blocks[h]] : c \in txs[t].inputs}
CreatedIn(blocks, c) ==
    IF c <= Funds THEN DOMAIN blocks \intersect {1}
    ELSE HeightsOf(blocks, c - Funds)
Includable(blocks, t) ==
    \A c \in txs[t].inputs : CreatedIn(blocks, c) # {} /\ SpentIn(blocks, c) = {}

\* What the node may answer.  A retry names the transaction by its hash, so a
\* node that does not hold it cannot accept it.
Answers(t, retry) ==
    {o \in Outcomes :
        /\ o \in {"accepted", "unrelayed"} =>
              Includable(chain, t) /\ (retry => t \in pool)
        /\ o = "known" => t \in pool /\ ~Mined(t)
        /\ o = "rejected" => t \notin pool \/ ~Includable(chain, t)}

NodeAnswers(outcome) ==
    /\ op.kind = "calling"
    /\ outcome \in Answers(op.tx, op.retry)
    /\ pool' = IF outcome \in {"accepted", "unrelayed"} THEN pool \union {op.tx} ELSE pool
    /\ handed' = IF op.retry THEN handed ELSE handed \union {op.tx}
    /\ op' = [op EXCEPT !.kind = "answered", !.outcome = outcome]
    /\ UNCHANGED <<chain, content, txs, outputs, scanned>>

\* The call fails in transport: the node may have taken the bytes or not, and
\* the record stays Submitting.
AnswerLost(taken) ==
    /\ op.kind = "calling"
    /\ taken => ~op.retry /\ Includable(chain, op.tx)
    /\ pool' = IF taken THEN pool \union {op.tx} ELSE pool
    /\ handed' = IF op.retry THEN handed ELSE handed \union {op.tx}
    /\ op' = NoOp
    /\ UNCHANGED <<chain, content, txs, outputs, scanned>>

\* apply_submission_outcome: the target lifecycle and its evidence.
OutcomeTarget(outcome) ==
    CASE outcome = "accepted" -> "Submitted"
      [] outcome = "unrelayed" -> "AcceptedNotRelayed"
      [] outcome = "known" -> "InMempool"
      [] outcome = "uncertain" -> "RetransmitRequired"
      [] outcome = "rejected" -> "Failed"
OutcomeEvidence(outcome) ==
    IF outcome = "known" THEN "MempoolObservation" ELSE "SubmissionOutcome"
OutcomeAllowed(tx, outcome) ==
    Allowed(tx, OutcomeTarget(outcome), NoBlock, OutcomeEvidence(outcome))
OutcomeApplied(tx, outcome) ==
    [Transition(tx, OutcomeTarget(outcome), NoBlock, OutcomeEvidence(outcome))
        EXCEPT !.submitted = @ \/ outcome \in {"accepted", "unrelayed", "known"}]

\* Second commit of submit_transaction.
SubmitEnd ==
    /\ op.kind = "answered"
    /\ OutcomeAllowed(txs[op.tx], op.outcome)
    /\ CommitTx(op.tx, OutcomeApplied(txs[op.tx], op.outcome), NoOp)
    /\ UNCHANGED <<nodeVars, scanned, handed>>
-----------------------------------------------------------------------------
(* Reconciliation and cancellation. *)

\* Mutant: the height of the block after the one that holds the kernel.
BlockAfter(blocks, h) == [height |-> h + 1, hash |-> blocks[h]]

BlockAt(blocks, h) == [height |-> h, hash |-> blocks[h]]

\* What query_submission may find: a kernel in the chain, an entry in the
\* mempool with the outcome it was admitted with, or nothing (never received,
\* or evicted).  An outcome other than acceptance is reported for the last.
Queries(t) ==
    IF Mined(t) THEN {"confirmed"}
    ELSE {"unknown"} \union
         (IF t \in pool THEN {"accepted", "unrelayed", "known"}
          ELSE {"uncertain", "rejected"})

\* apply_submission_query: is the answer applicable, and the record after it.
QueryTarget(tx, query) ==
    CASE query = "confirmed" -> "Confirmed"
      [] query \in {"accepted", "unrelayed", "known"} -> "InMempool"
      [] query = "unknown" ->
            IF tx.lifecycle = "Confirmed" THEN "Reorged" ELSE "ReconciliationRequired"
QueryEvidence(tx, query) ==
    CASE query = "confirmed" -> "ConfirmationEvidence"
      [] query \in {"accepted", "unrelayed", "known"} -> "MempoolObservation"
      [] query = "unknown" ->
            IF tx.lifecycle = "Confirmed" THEN "ReorgEvidence"
            ELSE "ReconciliationEvidence"

\* An answer that carries an outcome applies the outcome first; an observation
\* then moves the record on.
AfterOutcome(tx, query) == IF query \in Outcomes THEN OutcomeApplied(tx, query) ELSE tx

QueryApplicable(tx, query, block) ==
    /\ query \in Outcomes => OutcomeAllowed(tx, query)
    /\ query \notin {"uncertain", "rejected"} =>
          LET mid == AfterOutcome(tx, query)
          IN  Allowed(mid, QueryTarget(mid, query), block, QueryEvidence(mid, query))

QueryApplied(tx, query, block) ==
    LET mid == AfterOutcome(tx, query)
    IN  IF query \in {"uncertain", "rejected"} THEN mid
        ELSE [Transition(mid, QueryTarget(mid, query), block, QueryEvidence(mid, query))
                EXCEPT !.submitted = @ \/ query # "unknown"]

\* transaction_reconcile_submission
Reconcile(t, query) ==
    LET block == IF query = "confirmed"
                 THEN BlockAt(chain, CHOOSE h \in HeightsOf(chain, t) : TRUE)
                 ELSE NoBlock
    IN  /\ "reconcile" \in Features
        /\ Idle
        /\ txs[t].bytes
        /\ query \in Queries(t)
        /\ QueryApplicable(txs[t], query, block)
        /\ CommitTx(t, QueryApplied(txs[t], query, block), NoOp)
        /\ UNCHANGED <<nodeVars, scanned, handed>>

\* Reservations released by id; the code does not look at the owner.
Released(os, cs) ==
    [c \in Commitments |->
        IF c \in cs
        THEN [os[c] EXCEPT !.owner = 0,
                  !.state = IF @ = "PendingOutgoing" THEN "Confirmed" ELSE @]
        ELSE os[c]]

\* Mutant: a submission that has only started may be cancelled.
CancelStarted(t) ==
    /\ Idle
    /\ Created(t) /\ txs[t].lifecycle # "Cancelled"
    /\ txs[t].exposure <= SubmissionStarted
    /\ Commit([txs EXCEPT ![t].lifecycle = "Cancelled"],
              Released(outputs, txs[t].bound), NoOp)
    /\ UNCHANGED <<nodeVars, scanned, handed>>

\* transaction_cancel of a transaction that was never broadcast.
Cancel(t) ==
    /\ Idle
    /\ Created(t)
    /\ ReleaseNeverBroadcast(txs[t])
    /\ txs[t].lifecycle = "Cancelled" => "recancel" \in Features
    /\ Allowed(txs[t], "Cancelled", NoBlock, "Cancellation")
    /\ Commit([txs EXCEPT ![t] = Transition(@, "Cancelled", NoBlock, "Cancellation")],
              Released(outputs, txs[t].bound), NoOp)
    /\ UNCHANGED <<nodeVars, scanned, handed>>

\* transaction_cancel of any other: refused, and marked for reconciliation.
CancelRefused(t) ==
    /\ Idle
    /\ Created(t)
    /\ ~ReleaseNeverBroadcast(txs[t])
    /\ txs[t].lifecycle # "ReconciliationRequired"
    /\ Allowed(txs[t], "ReconciliationRequired", NoBlock, "ReconciliationEvidence")
    /\ CommitTx(t, Transition(txs[t], "ReconciliationRequired", NoBlock,
                              "ReconciliationEvidence"), NoOp)
    /\ UNCHANGED <<nodeVars, scanned, handed>>
-----------------------------------------------------------------------------
(* Synchronization.  A page commits the rewind (if any), the outputs, the   *)
(* kernel evidence, the expiries and the cursor together.                   *)

\* refresh_maturity: an unspent output the chain has shown is Confirmed, even
\* while it is reserved.
Refreshed(os) ==
    [c \in Commitments |->
        IF os[c].born > 0 /\ os[c].state # "Spent"
        THEN [os[c] EXCEPT !.state = "Confirmed"] ELSE os[c]]

\* Mutant: confirmations in abandoned blocks are kept.
RewoundKeepsConfirmed(safe) ==
    [t \in Txs |-> [txs[t] EXCEPT !.bound = {c \in @ : outputs[c].born <= safe}]]

\* rewind_recovery_state: records of later blocks go (and with them the ids
\* that reservations name), later spends are undone, later confirmations
\* become Reorged.
RewoundTxs(safe) ==
    [t \in Txs |->
        LET kept == [txs[t] EXCEPT !.bound = {c \in @ : outputs[c].born <= safe}]
        IN  IF txs[t].lifecycle = "Confirmed" /\ txs[t].block.height > safe
            THEN Transition(kept, "Reorged", NoBlock, "ReorgEvidence") ELSE kept]

\* Mutant: spends in abandoned blocks are not undone.
RewoundKeepsSpends(safe) ==
    Refreshed([c \in Commitments |->
        IF outputs[c].born > safe THEN NoOutput ELSE outputs[c]])

RewoundOutputs(safe) ==
    Refreshed([c \in Commitments |->
        IF outputs[c].born > safe THEN NoOutput
        ELSE IF outputs[c].state = "Spent" /\ outputs[c].spent > safe
             THEN [outputs[c] EXCEPT !.state = "Confirmed", !.spent = 0]
        ELSE outputs[c]])

\* restore_reorged_reservations: every Reorged transaction takes its inputs
\* back; an input that another transaction owns by now is an error.
Claims(ts, os, c) ==
    {t \in Txs : /\ ts[t].lifecycle = "Reorged"
                 /\ c \in ts[t].bound
                 /\ os[c].state # "Spent"}
RestoreConflict(ts, os) ==
    \E c \in Commitments : \E t \in Claims(ts, os, c) :
        \/ os[c].owner \notin {0, t}
        \/ Claims(ts, os, c) # {t}

\* Mutant: reservations of reorganized transactions are not taken back.
NothingRestored(ts, os) == os

Restored(ts, os) ==
    [c \in Commitments |->
        IF Claims(ts, os, c) # {}
        THEN [os[c] EXCEPT !.owner = CHOOSE t \in Claims(ts, os, c) : TRUE,
                           !.state = "PendingOutgoing"]
        ELSE os[c]]

\* merge_restored_output and the inputs of the page: what blocks lo+1 .. hi of
\* the chain do to the record of one commitment.
Merged(o, made) ==
    IF made = {} THEN o
    ELSE IF o.state = "Absent" \/ o.born = 0
         THEN [o EXCEPT !.state = "Confirmed", !.born = CHOOSE h \in made : TRUE]
    ELSE o
MergeConflict(o, made, used) ==
    \/ made # {} /\ o.born > 0 /\ o.born \notin made
    \/ made # {} /\ o.born = 0 /\ (o.owner # 0 \/ o.state \notin {"Absent", "PendingIncoming"})
    \/ used # {} /\ o.state = "Spent" /\ o.spent \notin used

PageMade(lo, hi, c) == CreatedIn(chain, c) \intersect (lo + 1 .. hi)
PageUsed(lo, hi, c) == SpentIn(chain, c) \intersect (lo + 1 .. hi)

\* Mutant: a spent input keeps its reservation-free record unspent.
SpendsIgnored(os, lo, hi) ==
    Refreshed([c \in Commitments |-> Merged(os[c], PageMade(lo, hi, c))])

PageOutputs(os, lo, hi) ==
    Refreshed([c \in Commitments |->
        LET o == Merged(os[c], PageMade(lo, hi, c))
        IN  IF PageUsed(lo, hi, c) # {} /\ o.state # "Absent"
            THEN [o EXCEPT !.state = "Spent", !.owner = 0,
                           !.spent = CHOOSE h \in PageUsed(lo, hi, c) : TRUE]
            ELSE o])

\* apply_kernel_evidence for one transaction found in a block.
Settling == {"Submitted", "AcceptedNotRelayed", "InMempool", "RetransmitRequired",
             "Submitting", "Reorged"}
\* Mutant: a transaction whose submission was cut short is not settled.
KernelFoundAfterOutcome(tx, block) ==
    IF tx.lifecycle \in Settling \ {"Submitting"}
    THEN Transition(tx, "Confirmed", block, "ConfirmationEvidence") ELSE tx

KernelFound(tx, block) ==
    IF tx.lifecycle \in Settling
    THEN Transition(tx, "Confirmed", block, "ConfirmationEvidence")
    ELSE IF tx.lifecycle = "Confirmed" /\ tx.block # block
    THEN Transition(tx, "ReconciliationRequired", NoBlock, "ReconciliationEvidence")
    ELSE tx

PageTxs(ts, lo, hi) ==
    [t \in Txs |->
        LET found == HeightsOf(chain, t) \intersect (lo + 1 .. hi)
        IN  IF found = {} THEN ts[t]
            ELSE KernelFound(ts[t], BlockAt(chain, CHOOSE h \in found : TRUE))]

\* cancel_expired_unfinalized_reservations at the observed tip.
Expired(tx) ==
    /\ tx.inputs # {}
    /\ ~tx.bytes
    /\ tx.expires # 0 /\ tx.expires <= Tip
    /\ tx.exposure = NeverBroadcast
    /\ tx.lifecycle \notin Settling \union {"Cancelled", "Confirmed",
                                            "ReconciliationRequired"}
ExpiredTxs(ts) ==
    [t \in Txs |-> IF Expired(ts[t])
                   THEN Transition(ts[t], "Cancelled", NoBlock, "Cancellation") ELSE ts[t]]
ExpiredOutputs(ts, os) ==
    Released(os, {c \in Commitments :
        os[c].owner # 0 /\ Expired(ts[os[c].owner]) /\ c \in ts[os[c].owner].bound})

\* The sink's commit of blocks lo+1 .. hi onto rewound or current records.
CommitPage(ts, os, lo, hi) ==
    LET ts1 == PageTxs(ts, lo, hi)
        os1 == PageOutputs(os, lo, hi)
        ts2 == ExpiredTxs(ts1)
        os2 == ExpiredOutputs(ts1, os1)
    IN  /\ \A c \in Commitments :
              ~MergeConflict(os[c], PageMade(lo, hi, c), PageUsed(lo, hi, c))
        /\ Valid(ts2, os2)
        /\ txs' = ts2
        /\ outputs' = os2
        /\ scanned' = SubSeq(chain, 1, hi)
        /\ UNCHANGED <<nodeVars, op, handed>>

PageEnd(lo) == IF lo + PageSize < Tip THEN lo + PageSize ELSE Tip

\* Heights at which the committed blocks agree with the chain.
Agreeing == {h \in DOMAIN scanned : h <= Tip /\ chain[h] = scanned[h]}
CursorCanonical == Len(scanned) = 0 \/ Len(scanned) \in Agreeing

\* reconcile_once, cursor still canonical: the next page.
SyncNext ==
    /\ Idle
    /\ CursorCanonical
    /\ Len(scanned) < Tip
    /\ CommitPage(txs, outputs, Len(scanned), PageEnd(Len(scanned)))

\* reconcile_reorg: rewind to the highest agreeing block and scan from there.
SyncReorg ==
    /\ Idle
    /\ ~CursorCanonical
    /\ \E safe \in Agreeing :
         /\ \A h \in Agreeing : h <= safe
         /\ LET ts == RewoundTxs(safe)
                os == RewoundOutputs(safe)
            IN  /\ ~RestoreConflict(ts, os)
                /\ CommitPage(ts, Restored(ts, os), safe, PageEnd(safe))

\* rescan_from_genesis, its own commit; the pages follow.
Rescan ==
    /\ "rescan" \in Features
    /\ Idle
    /\ scanned # <<>>
    /\ LET ts == RewoundTxs(0)
           os == RewoundOutputs(0)
       IN  /\ ~RestoreConflict(ts, os)
           /\ Valid(ts, Restored(ts, os))
           /\ txs' = ts
           /\ outputs' = Restored(ts, os)
    /\ scanned' = <<>>
    /\ UNCHANGED <<nodeVars, op, handed>>
-----------------------------------------------------------------------------
(* The node, the end of a command by crash or error, and the specification. *)

\* The next block, or a block on an earlier one that becomes the new tip.
NodeExtends(h, included) ==
    /\ h = Tip \/ ("reorg" \in Features /\ h \in 1 .. Tip - 1)
    /\ included \in {{}} \union {{t} : t \in pool}
    /\ \A t \in included : Includable(SubSeq(chain, 1, h), t)
    /\ Extend(h, included)
    /\ UNCHANGED walletVars

\* A crash, a lock, or an error between the commits of a command.
CommandCut ==
    /\ ~Idle
    /\ op' = NoOp
    /\ UNCHANGED <<nodeVars, txs, outputs, scanned, handed>>

Sync == SyncNext \/ SyncReorg

Command ==
    \/ \E t \in Txs, s \in SUBSET Commitments, expires \in {Tip + 1, MaxHeight + 1} :
          SendReserve(t, s, expires)
    \/ SendBuild
    \/ \E t \in Txs : ResponseImport(t)
    \/ \E t \in Txs : Finalize(t)
    \/ \E t \in Txs : FinalizedExport(t)
    \/ \E t \in Txs, retry \in BOOLEAN : SubmitBegin(t, retry)
    \/ \E outcome \in Outcomes : NodeAnswers(outcome)
    \/ \E taken \in BOOLEAN : AnswerLost(taken)
    \/ SubmitEnd
    \/ \E t \in Txs, query \in Outcomes \union {"confirmed", "unknown"} :
          Reconcile(t, query)
    \/ \E t \in Txs : Cancel(t)
    \/ \E t \in Txs : CancelRefused(t)
    \/ Rescan

Next ==
    \/ Command
    \/ CommandCut
    \/ Sync
    \/ \E h \in 1 .. MaxHeight, included \in SUBSET Txs : NodeExtends(h, included)

\* The follow loop keeps asking for the mutex and gets it between commands,
\* and a started command ends.
Fairness ==
    /\ SF_vars(Sync)
    /\ WF_vars(CommandCut \/ SendBuild \/ SubmitEnd)

Spec == Init /\ [][Next]_vars /\ Fairness

-----------------------------------------------------------------------------
(* Properties. *)

\* Bytes that submit_transaction gave to the node are covered by a durable
\* exposure: whatever crash or error follows, the wallet still knows that the
\* transaction may be on its way.
HandedIsExposed == \A t \in handed : txs[t].exposure >= SubmissionStarted

\* A cancelled transaction, whose inputs were released to later sends, was
\* never given to the node.
CancelledNeverHanded == \A t \in Txs : txs[t].lifecycle = "Cancelled" => t \notin handed

\* The recorded exposure never decreases, by no command, scan or rewind.
ExposureMonotone == [][\A t \in Txs : txs[t].exposure <= txs'[t].exposure]_vars

Live(t) == txs[t].lifecycle \notin {"Draft", "Cancelled", "Failed"}

\* Until the chain spends it, every input of a live transaction is reserved by
\* that transaction.
InputsHeld ==
    \A t \in Txs : Live(t) =>
        \A c \in txs[t].inputs : outputs[c].owner = t \/ outputs[c].state = "Spent"

\* Through reorganizations and rescans: an input whose record survived is
\* still reserved by its transaction, or spent, unless the transaction waits
\* for manual reconciliation (restore_reorged_reservations).
BoundInputsHeld ==
    \A t \in Txs : Live(t) /\ txs[t].lifecycle # "ReconciliationRequired" =>
        \A c \in txs[t].bound : outputs[c].owner = t \/ outputs[c].state = "Spent"

\* The chain part of the output records is what a scan of the committed blocks
\* from scratch would give: an output is known exactly when those blocks create
\* it, at that height, and spent exactly when they spend it, however many
\* pages, reorganizations and rescans lie behind.
ProjectionFaithful ==
    \A c \in Commitments :
        /\ {h \in 1 .. MaxHeight : h = outputs[c].born} = CreatedIn(scanned, c)
        /\ {h \in 1 .. MaxHeight : h = outputs[c].spent} =
              IF outputs[c].born > 0 THEN SpentIn(scanned, c) ELSE {}
        /\ outputs[c].state = "Spent" <=> outputs[c].spent > 0

\* A transaction whose kernel the committed blocks hold does not linger in a
\* lifecycle that waits for the network (apply_kernel_evidence).
OnChainIsSettled ==
    \A t \in Txs : HeightsOf(scanned, t) # {} => txs[t].lifecycle \notin Settling

\* A confirmation names a block the wallet has committed and that holds the
\* kernel (specs/0003: confirmation is created only by the synchronization
\* that commits the matching observations and the cursor).
ConfirmedInScannedBlock ==
    \A t \in Txs : txs[t].lifecycle = "Confirmed" =>
        \E h \in HeightsOf(scanned, t) : txs[t].block = BlockAt(scanned, h)

\* Once the chain is quiet and nobody asks for another rescan, the follow loop
\* brings the cursor to the tip: no rewind, merge or validation error stops it.
SyncCatchesUp == <>[][~Rescan]_vars => <>[](scanned = chain)
=============================================================================
