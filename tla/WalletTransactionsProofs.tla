---------------------- MODULE WalletTransactionsProofs ----------------------
(***************************************************************************)
(* What WalletTransactions does to its records, for any number of          *)
(* transactions, blocks and funds and with every optional operation.       *)
(*                                                                         *)
(* The exposure argument is about one record at a time.  Evolves(a, b)     *)
(* says what a step may do to a record; every operator that changes        *)
(* records is shown to stay within it, and every action is made of those   *)
(* operators.  So the recorded exposure only grows, it covers every        *)
(* transaction whose bytes the node was given, and none of those is ever   *)
(* cancelled.  The second half is about blocks, output records and the     *)
(* inputs of transactions, for the argument of WalletChainProofs.          *)
(***************************************************************************)
EXTENDS WalletTransactions, TLAPS

\* Leaves that name no prover are for Zenon.
USE ZenonT(30)

\* A part of a sequence.
LEMMA Cut ==
    ASSUME NEW S, NEW s, NEW m \in Nat, NEW n \in Nat, \A i \in m .. n : s[i] \in S
    PROVE  /\ SubSeq(s, m, n) \in Seq(S)
           /\ Len(SubSeq(s, m, n)) = IF m <= n THEN n - m + 1 ELSE 0
           /\ \A i \in 1 .. n - m + 1 : SubSeq(s, m, n)[i] = s[m + i - 1]
BY SMT

\* The types the argument needs, without the bounds of an instance.
Blocks == [height : Nat, hash : Nat]
TxShape ==
    [lifecycle : Lifecycles, block : Blocks, exposure : Exposures,
     submitted : BOOLEAN, inputs : SUBSET Commitments, bound : SUBSET Commitments,
     context : BOOLEAN, bytes : BOOLEAN, expires : Nat]

Shape ==
    /\ chain \in Seq(Nat)
    /\ content \in Seq(SUBSET Txs)
    /\ txs \in [Txs -> TxShape]
    /\ op \in [kind : {"none", "building", "calling", "answered"},
               tx : 0 .. MaxTxs, retry : BOOLEAN,
               outcome : Outcomes \union {"none"}]
    /\ handed \in SUBSET Txs

\* A command that works on a transaction has created it; one that calls the
\* node has made the attempt durable.
CallInv ==
    /\ op.kind = "building" => op.tx \in Txs
    /\ op.kind \in {"calling", "answered"} =>
          /\ op.tx \in Txs
          /\ txs[op.tx].lifecycle = "Submitting"
          /\ txs[op.tx].exposure >= SubmissionStarted
    /\ op.kind = "answered" => op.outcome \in Outcomes

\* A transaction that does not exist yet has no exposure to lose.
DraftInv ==
    \A t \in Txs : txs[t].lifecycle = "Draft" => txs[t].exposure = NeverBroadcast

IInv ==
    /\ Shape
    /\ DraftInv
    /\ CallInv
    /\ HandedIsExposed
    /\ CancelledNeverHanded

\* What a step may do to one record.
Evolves(a, b) ==
    /\ b \in TxShape
    /\ a.exposure <= b.exposure
    /\ b.lifecycle = "Cancelled" =>
          a.lifecycle = "Cancelled" \/ a.exposure = NeverBroadcast
    /\ b.lifecycle = "Draft" =>
          a.lifecycle = "Draft" /\ b.exposure = a.exposure

-----------------------------------------------------------------------------
(* Operators on one record. *)

\* Exposures are numbers, and evidence proves one.
LEMMA ExposureTypes ==
    /\ \A e \in Exposures : e \in Nat
    /\ \A evidence : Observed(evidence) \in Exposures
    /\ NeverBroadcast \in Exposures
  BY SMT DEF Exposures, Observed, NeverBroadcast, SubmissionStarted, PossiblyRelayed,
         ObservedInMempool, ConfirmedOnChain

\* A record that does not change evolves.
LEMMA EvolvesRefl == \A a \in TxShape : Evolves(a, a)
  BY SMT, ExposureTypes DEF Evolves, TxShape

\* Two changes of a record in one step are one change.
LEMMA EvolvesTrans ==
    ASSUME NEW a \in TxShape, NEW b, NEW c, Evolves(a, b), Evolves(b, c)
    PROVE  Evolves(a, c)
  <1>1. a.exposure \in 0 .. 4 /\ b.exposure \in 0 .. 4 /\ c.exposure \in 0 .. 4
    BY DEF Evolves, TxShape, Exposures, NeverBroadcast, ConfirmedOnChain
  <1> QED
    BY SMT, <1>1 DEF Evolves, NeverBroadcast

\* LocalTransactionIntent::transition: the exposure is the strongest so far.
LEMMA TransitionEvolves ==
    ASSUME NEW tx \in TxShape, NEW lifecycle \in Lifecycles, NEW block \in Blocks,
           NEW evidence,
           lifecycle # "Draft",
           lifecycle = "Cancelled" => tx.exposure = NeverBroadcast
    PROVE  /\ Evolves(tx, Transition(tx, lifecycle, block, evidence))
           /\ Transition(tx, lifecycle, block, evidence).lifecycle = lifecycle
           /\ Transition(tx, lifecycle, block, evidence).exposure >= Observed(evidence)
  <1> DEFINE e == IF Observed(evidence) > tx.exposure THEN Observed(evidence)
                  ELSE tx.exposure
             r == Transition(tx, lifecycle, block, evidence)
  <1>1. /\ tx.exposure \in Exposures /\ Observed(evidence) \in Exposures
        /\ tx.exposure \in Nat /\ Observed(evidence) \in Nat
    BY ExposureTypes DEF TxShape
  <1>2. e \in Exposures /\ e >= tx.exposure /\ e >= Observed(evidence)
    BY SMT, <1>1
  <1>3. r = [tx EXCEPT !.lifecycle = lifecycle, !.block = block, !.exposure = e]
    BY DEF Transition
  <1>4. r \in TxShape /\ r.lifecycle = lifecycle /\ r.exposure = e
    BY <1>2, <1>3 DEF TxShape
  <1> QED
    BY <1>1, <1>2, <1>4 DEF Evolves

\* Updates of a record beside its lifecycle leave the exposure alone.
LEMMA FieldEvolves ==
    ASSUME NEW tx \in TxShape
    PROVE  /\ Evolves(tx, [tx EXCEPT !.bytes = TRUE])
           /\ Evolves(tx, [tx EXCEPT !.context = TRUE])
           /\ \A s \in SUBSET Commitments : Evolves(tx, [tx EXCEPT !.bound = s])
           /\ \A b \in BOOLEAN : Evolves(tx, [tx EXCEPT !.submitted = b])
  <1>1. /\ [tx EXCEPT !.bytes = TRUE] \in TxShape
        /\ [tx EXCEPT !.context = TRUE] \in TxShape
        /\ \A s \in SUBSET Commitments : [tx EXCEPT !.bound = s] \in TxShape
        /\ \A b \in BOOLEAN : [tx EXCEPT !.submitted = b] \in TxShape
    BY DEF TxShape
  <1>2. tx.exposure <= tx.exposure
    BY SMT, ExposureTypes DEF TxShape
  <1> QED
    BY <1>1, <1>2 DEF Evolves, TxShape

\* apply_submission_outcome
LEMMA OutcomeEvolves ==
    ASSUME NEW tx \in TxShape, NEW outcome \in Outcomes
    PROVE  Evolves(tx, OutcomeApplied(tx, outcome))
  <1> DEFINE mid == Transition(tx, OutcomeTarget(outcome), NoBlock, OutcomeEvidence(outcome))
  <1>1. /\ OutcomeTarget(outcome) \in Lifecycles \ {"Draft", "Cancelled"}
        /\ NoBlock \in Blocks
    BY DEF OutcomeTarget, Outcomes, Lifecycles, NoBlock, Blocks
  <1>2. Evolves(tx, mid)
    BY <1>1, TransitionEvolves
  <1>3. mid \in TxShape
    BY <1>2 DEF Evolves
  <1>4. mid.submitted \in BOOLEAN
    BY <1>3 DEF TxShape
  <1> DEFINE b == mid.submitted \/ outcome \in {"accepted", "unrelayed", "known"}
  <1>5. OutcomeApplied(tx, outcome) = [mid EXCEPT !.submitted = b]
    BY DEF OutcomeApplied
  <1>6. Evolves(mid, [mid EXCEPT !.submitted = b])
    BY <1>3, FieldEvolves
  <1> QED
    BY <1>2, <1>5, <1>6, EvolvesTrans

\* apply_submission_query
LEMMA QueryEvolves ==
    ASSUME NEW tx \in TxShape, NEW query \in Outcomes \union {"confirmed", "unknown"},
           NEW block \in Blocks
    PROVE  Evolves(tx, QueryApplied(tx, query, block))
  <1> DEFINE mid == AfterOutcome(tx, query)
             end == Transition(mid, QueryTarget(mid, query), block,
                               QueryEvidence(mid, query))
  <1>1. Evolves(tx, mid)
    BY OutcomeEvolves, EvolvesRefl DEF AfterOutcome
  <1>2. mid \in TxShape
    BY <1>1 DEF Evolves
  <1>3. CASE query \in {"uncertain", "rejected"}
    BY <1>1, <1>3 DEF QueryApplied
  <1>4. CASE query \notin {"uncertain", "rejected"}
    <2>1. QueryTarget(mid, query) \in Lifecycles \ {"Draft", "Cancelled"}
      BY <1>4 DEF QueryTarget, Outcomes, Lifecycles
    <2>2. Evolves(mid, end)
      BY <1>2, <2>1, TransitionEvolves
    <2>3. end \in TxShape
      BY <2>2 DEF Evolves
    <2> DEFINE b == end.submitted \/ query # "unknown"
    <2>4. QueryApplied(tx, query, block) = [end EXCEPT !.submitted = b]
      BY <1>4 DEF QueryApplied
    <2>5. Evolves(end, [end EXCEPT !.submitted = b])
      BY <2>3, FieldEvolves
    <2>6. Evolves(tx, end)
      BY <1>1, <2>2, EvolvesTrans
    <2> QED
      BY <2>4, <2>5, <2>6, EvolvesTrans
  <1> QED
    BY <1>3, <1>4

\* apply_kernel_evidence
LEMMA KernelEvolves ==
    ASSUME NEW tx \in TxShape, NEW block \in Blocks
    PROVE  Evolves(tx, KernelFound(tx, block))
  <1>1. "Confirmed" \in Lifecycles /\ "ReconciliationRequired" \in Lifecycles
        /\ NoBlock \in Blocks
    BY DEF Lifecycles, NoBlock, Blocks
  <1>2. /\ Evolves(tx, Transition(tx, "Confirmed", block, "ConfirmationEvidence"))
        /\ Evolves(tx, Transition(tx, "ReconciliationRequired", NoBlock,
                                  "ReconciliationEvidence"))
    BY <1>1, TransitionEvolves
  <1> QED
    BY <1>2, EvolvesRefl DEF KernelFound

-----------------------------------------------------------------------------
(* Operators on all records. *)

\* A kernel's block in the canonical chain.
LEMMA BlockTypes ==
    ASSUME Shape, NEW t \in Txs, NEW h \in HeightsOf(chain, t)
    PROVE  BlockAt(chain, h) \in Blocks
  BY SMT DEF Shape, HeightsOf, BlockAt, Blocks

\* The kernels of a page.
LEMMA PageEvolves ==
    ASSUME Shape, NEW ts \in [Txs -> TxShape], NEW lo, NEW hi, NEW t \in Txs
    PROVE  Evolves(ts[t], PageTxs(ts, lo, hi)[t])
  <1> DEFINE found == HeightsOf(chain, t) \intersect (lo + 1 .. hi)
             h == CHOOSE k \in found : TRUE
  <1>1. PageTxs(ts, lo, hi)[t] =
            IF found = {} THEN ts[t] ELSE KernelFound(ts[t], BlockAt(chain, h))
    BY DEF PageTxs
  <1>2. CASE found = {}
    BY <1>1, <1>2, EvolvesRefl
  <1>3. CASE found # {}
    <2>1. h \in found
      BY <1>3
    <2>2. BlockAt(chain, h) \in Blocks
      BY <2>1, BlockTypes
    <2> QED
      BY <1>1, <1>3, <2>2, KernelEvolves
  <1> QED
    BY <1>2, <1>3

\* cancel_expired_unfinalized_reservations
LEMMA ExpiryEvolves ==
    ASSUME NEW ts \in [Txs -> TxShape], NEW t \in Txs
    PROVE  Evolves(ts[t], ExpiredTxs(ts)[t])
  <1>1. "Cancelled" \in Lifecycles /\ NoBlock \in Blocks
    BY DEF Lifecycles, NoBlock, Blocks
  <1>2. Expired(ts[t]) =>
            Evolves(ts[t], Transition(ts[t], "Cancelled", NoBlock, "Cancellation"))
    BY <1>1, TransitionEvolves DEF Expired
  <1> QED
    BY <1>2, EvolvesRefl DEF ExpiredTxs

\* rewind_recovery_state
LEMMA RewindEvolves ==
    ASSUME Shape, NEW safe, NEW t \in Txs
    PROVE  Evolves(txs[t], RewoundTxs(safe)[t])
  <1> DEFINE s == {c \in txs[t].bound : outputs[c].born <= safe}
             kept == [txs[t] EXCEPT !.bound = s]
  <1>1. txs[t] \in TxShape /\ s \in SUBSET Commitments
    BY DEF Shape, TxShape
  <1>2. Evolves(txs[t], kept) /\ kept \in TxShape
    BY <1>1, FieldEvolves DEF Evolves
  <1>3. "Reorged" \in Lifecycles /\ NoBlock \in Blocks
    BY DEF Lifecycles, NoBlock, Blocks
  <1>4. Evolves(kept, Transition(kept, "Reorged", NoBlock, "ReorgEvidence"))
    BY <1>2, <1>3, TransitionEvolves
  <1>5. Evolves(txs[t], Transition(kept, "Reorged", NoBlock, "ReorgEvidence"))
    BY <1>1, <1>2, <1>4, EvolvesTrans
  <1>6. RewoundTxs(safe)[t] =
            IF txs[t].lifecycle = "Confirmed" /\ txs[t].block.height > safe
            THEN Transition(kept, "Reorged", NoBlock, "ReorgEvidence") ELSE kept
    BY DEF RewoundTxs
  <1> QED
    BY <1>2, <1>5, <1>6

-----------------------------------------------------------------------------
(* Steps. *)

\* Every step of the wallet and the node lets every record evolve.
LEMMA RecordsEvolve ==
    ASSUME IInv, [Next]_vars
    PROVE  /\ txs' \in [Txs -> TxShape]
           /\ \A t \in Txs : Evolves(txs[t], txs'[t])
  <1> DEFINE Good(ts) == /\ ts \in [Txs -> TxShape]
                         /\ \A t \in Txs : Evolves(txs[t], ts[t])
  <1>s. Shape /\ CallInv /\ DraftInv /\ txs \in [Txs -> TxShape]
    BY DEF IInv, Shape
  <1>r. Good(txs)
    BY <1>s, EvolvesRefl
  <1>u. ASSUME NEW t \in Txs, NEW record, Evolves(txs[t], record)
        PROVE  Good([txs EXCEPT ![t] = record])
    BY <1>u, <1>r DEF Evolves
  <1>p. ASSUME NEW ts, Good(ts), NEW lo, NEW hi
        PROVE  Good(ExpiredTxs(PageTxs(ts, lo, hi)))
    <2> DEFINE page == PageTxs(ts, lo, hi)
               end == ExpiredTxs(page)
    <2>1. /\ \A t \in Txs : Evolves(ts[t], page[t])
          /\ page = [t \in Txs |-> page[t]]
      BY SMT, <1>p, <1>s, PageEvolves DEF PageTxs
    <2>2. page \in [Txs -> TxShape]
      BY <2>1 DEF Evolves
    <2>3. /\ \A t \in Txs : Evolves(page[t], end[t])
          /\ end = [t \in Txs |-> end[t]]
      BY <2>2, ExpiryEvolves DEF ExpiredTxs
    <2>4. \A t \in Txs : Evolves(txs[t], page[t])
      BY <1>p, <1>s, <2>1, EvolvesTrans
    <2>5. \A t \in Txs : Evolves(txs[t], end[t])
      BY <1>s, <2>3, <2>4, EvolvesTrans
    <2>6. end \in [Txs -> TxShape]
      BY <2>3 DEF Evolves
    <2> QED
      BY <2>5, <2>6
  <1>w. \A safe : Good(RewoundTxs(safe))
    <2>1. \A safe : \A t \in Txs : Evolves(txs[t], RewoundTxs(safe)[t])
      BY <1>s, RewindEvolves
    <2>2. \A safe : RewoundTxs(safe) = [t \in Txs |-> RewoundTxs(safe)[t]]
      BY DEF RewoundTxs
    <2> QED
      BY <2>1, <2>2 DEF Evolves
  <1> SUFFICES Good(txs')
    OBVIOUS
  <1> HIDE DEF Good
  <1>b. NoBlock \in Blocks
    BY DEF NoBlock, Blocks
  <1>e. \A t \in Txs : txs[t] \in TxShape
    BY <1>s
  <1>1. ASSUME NEW t \in Txs, NEW s \in SUBSET Commitments,
               NEW expires \in {Tip + 1, MaxHeight + 1}, SendReserve(t, s, expires)
        PROVE  Good(txs')
    <2> DEFINE new == [NoTx EXCEPT !.lifecycle = "InputsReserved",
                            !.inputs = s, !.bound = s, !.expires = expires]
    <2>1. txs[t].lifecycle = "Draft" /\ txs[t].exposure = NeverBroadcast
      BY <1>1, <1>s DEF SendReserve, Created, DraftInv
    <2>2. expires \in Nat
      BY SMT, <1>s, MaxHeightAssumption DEF Tip, Shape
    <2>3. NoTx \in TxShape /\ NoTx.exposure = NeverBroadcast
      BY <1>b, ExposureTypes DEF NoTx, TxShape, Lifecycles
    <2>4. new \in TxShape /\ new.exposure = NeverBroadcast
          /\ new.lifecycle = "InputsReserved"
      BY <2>2, <2>3 DEF TxShape, Lifecycles
    <2>5. Evolves(txs[t], new)
      BY SMT, <2>1, <2>4 DEF Evolves, NeverBroadcast
    <2>6. txs' = [txs EXCEPT ![t] = new] \/ txs' = txs
      BY <1>1 DEF SendReserve, Commit
    <2> QED
      BY <1>u, <1>r, <2>5, <2>6
  <1>2. CASE SendBuild
    <2>1. op.tx \in Txs
      BY <1>2, <1>s DEF SendBuild, CallInv
    <2>2. txs' = [txs EXCEPT ![op.tx] = [txs[op.tx] EXCEPT !.context = TRUE]]
          \/ txs' = txs
      BY <1>2, <2>1, <1>s DEF SendBuild, Commit
    <2> QED
      BY <1>u, <1>r, <1>e, <2>1, <2>2, FieldEvolves
  <1>3. ASSUME NEW t \in Txs, ResponseImport(t)
        PROVE  Good(txs')
    <2> DEFINE new == Transition(txs[t], "ResponseImported", NoBlock, "RecipientResponse")
    <2>1. Evolves(txs[t], new)
      BY SMT, <1>b, <1>e, TransitionEvolves DEF Lifecycles
    <2>2. txs' = [txs EXCEPT ![t] = new] \/ txs' = txs
      BY <1>3 DEF ResponseImport, CommitTx, Commit
    <2> QED
      BY <1>u, <1>r, <2>1, <2>2
  <1>4. ASSUME NEW t \in Txs, Finalize(t)
        PROVE  Good(txs')
    <2> DEFINE mid == Transition(txs[t], "Finalized", NoBlock, "Finalization")
    <2>1. Evolves(txs[t], mid)
      BY SMT, <1>b, <1>e, TransitionEvolves DEF Lifecycles
    <2>2. Evolves(mid, [mid EXCEPT !.bytes = TRUE])
      BY <2>1, FieldEvolves DEF Evolves
    <2>3. Evolves(txs[t], [mid EXCEPT !.bytes = TRUE])
      BY <1>e, <2>1, <2>2, EvolvesTrans
    <2>4. txs' = [txs EXCEPT ![t] = [mid EXCEPT !.bytes = TRUE]] \/ txs' = txs
      BY <1>4 DEF Finalize, CommitTx, Commit
    <2> QED
      BY <1>u, <1>r, <2>3, <2>4
  <1>5. ASSUME NEW t \in Txs, FinalizedExport(t)
        PROVE  Good(txs')
    BY <1>5, <1>r DEF FinalizedExport, walletVars
  <1>6. ASSUME NEW t \in Txs, NEW retry \in BOOLEAN, SubmitBegin(t, retry)
        PROVE  Good(txs')
    <2> DEFINE new == Transition(txs[t], "Submitting", NoBlock, "SubmissionStarted")
    <2>1. Evolves(txs[t], new)
      BY SMT, <1>b, <1>e, TransitionEvolves DEF Lifecycles
    <2>2. txs' = [txs EXCEPT ![t] = new] \/ txs' = txs
      BY <1>6 DEF SubmitBegin, CommitTx, Commit
    <2> QED
      BY <1>u, <1>r, <2>1, <2>2
  <1>7. CASE SubmitEnd
    <2>1. op.tx \in Txs /\ op.outcome \in Outcomes
      BY <1>7, <1>s DEF SubmitEnd, CallInv
    <2>2. txs' = [txs EXCEPT ![op.tx] = OutcomeApplied(txs[op.tx], op.outcome)]
          \/ txs' = txs
      BY <1>7 DEF SubmitEnd, CommitTx, Commit
    <2> QED
      BY <1>u, <1>r, <1>e, <2>1, <2>2, OutcomeEvolves
  <1>8. ASSUME NEW t \in Txs, NEW query \in Outcomes \union {"confirmed", "unknown"},
               Reconcile(t, query)
        PROVE  Good(txs')
    <2> DEFINE h == CHOOSE k \in HeightsOf(chain, t) : TRUE
               block == IF query = "confirmed" THEN BlockAt(chain, h) ELSE NoBlock
    <2>1. query = "confirmed" => h \in HeightsOf(chain, t)
      BY <1>8 DEF Reconcile, Queries, Mined, Outcomes
    <2>2. block \in Blocks
      BY <2>1, <1>b, <1>s, BlockTypes
    <2>3. Evolves(txs[t], QueryApplied(txs[t], query, block))
      BY <1>e, <2>2, QueryEvolves
    <2>4. txs' = [txs EXCEPT ![t] = QueryApplied(txs[t], query, block)] \/ txs' = txs
      BY <1>8 DEF Reconcile, CommitTx, Commit
    <2> QED
      BY SMT, <1>u, <1>r, <2>3, <2>4
  <1>9. ASSUME NEW t \in Txs, Cancel(t)
        PROVE  Good(txs')
    <2> DEFINE new == Transition(txs[t], "Cancelled", NoBlock, "Cancellation")
    <2>1. Evolves(txs[t], new)
      BY SMT, <1>9, <1>b, <1>e, TransitionEvolves
         DEF Lifecycles, Cancel, ReleaseNeverBroadcast
    <2>2. txs' = [txs EXCEPT ![t] = new] \/ txs' = txs
      BY <1>9, <1>s DEF Cancel, Commit
    <2> QED
      BY <1>u, <1>r, <2>1, <2>2
  <1>10. ASSUME NEW t \in Txs, CancelRefused(t)
         PROVE  Good(txs')
    <2> DEFINE new == Transition(txs[t], "ReconciliationRequired", NoBlock,
                                 "ReconciliationEvidence")
    <2>1. Evolves(txs[t], new)
      BY SMT, <1>b, <1>e, TransitionEvolves DEF Lifecycles
    <2>2. txs' = [txs EXCEPT ![t] = new] \/ txs' = txs
      BY <1>10 DEF CancelRefused, CommitTx, Commit
    <2> QED
      BY <1>u, <1>r, <2>1, <2>2
  <1>11. CASE Rescan
    BY <1>11, <1>w DEF Rescan
  <1>12. CASE SyncNext
    BY <1>12, <1>p, <1>r DEF SyncNext, CommitPage
  <1>13. CASE SyncReorg
    BY <1>13, <1>p, <1>w DEF SyncReorg, CommitPage
  <1>14. CASE txs' = txs
    BY <1>14, <1>r
  <1> QED
    BY <1>1, <1>2, <1>3, <1>4, <1>5, <1>6, <1>7, <1>8, <1>9, <1>10, <1>11, <1>12,
       <1>13, <1>14
       DEF Next, Command, Sync, NodeAnswers, AnswerLost, CommandCut, NodeExtends,
           walletVars, vars

\* The command in progress and the node keep their types; only a call to the
\* node extends handed, and only by the transaction it is about.
LEMMA CallsEvolve ==
    ASSUME IInv, [Next]_vars
    PROVE  /\ chain' \in Seq(Nat) /\ content' \in Seq(SUBSET Txs)
           /\ op' \in [kind : {"none", "building", "calling", "answered"},
                       tx : 0 .. MaxTxs, retry : BOOLEAN,
                       outcome : Outcomes \union {"none"}]
           /\ CallInv'
           /\ \/ handed' = handed
              \/ op.kind = "calling" /\ handed' = handed \union {op.tx}
  <1> DEFINE Ops == [kind : {"none", "building", "calling", "answered"},
                     tx : 0 .. MaxTxs, retry : BOOLEAN,
                     outcome : Outcomes \union {"none"}]
             Same == chain' = chain /\ content' = content
             Good == /\ chain' \in Seq(Nat) /\ content' \in Seq(SUBSET Txs)
                     /\ op' \in Ops
                     /\ CallInv'
                     /\ \/ handed' = handed
                        \/ op.kind = "calling" /\ handed' = handed \union {op.tx}
  <1>s. /\ Shape /\ CallInv /\ op \in Ops /\ \A t \in Txs : t \in 0 .. MaxTxs
        /\ chain \in Seq(Nat) /\ content \in Seq(SUBSET Txs)
    BY SMT, MaxTxsAssumption DEF IInv, Shape, Txs
  <1>n. NoOp \in Ops /\ NoOp.kind = "none"
    BY SMT, MaxTxsAssumption DEF NoOp, Outcomes
  <1>a. ASSUME Same, op' = NoOp, handed' = handed
        PROVE  Good
    BY <1>a, <1>s, <1>n DEF CallInv
  <1>b. ASSUME Idle, op' = op, handed' = handed,
               chain' \in Seq(Nat), content' \in Seq(SUBSET Txs)
        PROVE  Good
    BY <1>b, <1>s DEF CallInv, Idle
  <1> SUFFICES Good
    OBVIOUS
  <1>1. ASSUME NEW t \in Txs, NEW s \in SUBSET Commitments,
               NEW expires \in {Tip + 1, MaxHeight + 1}, SendReserve(t, s, expires)
        PROVE  Good
    <2>1. Same /\ handed' = handed
      BY <1>1 DEF SendReserve, nodeVars
    <2>2. op' = [NoOp EXCEPT !.kind = "building", !.tx = t] \/ op' = NoOp
      BY <1>1 DEF SendReserve, Commit
    <2>3. CASE op' = [NoOp EXCEPT !.kind = "building", !.tx = t]
      <3>1. op' \in Ops /\ op'.kind = "building" /\ op'.tx = t
        BY <2>3, <1>n, <1>s
      <3> QED
        BY <2>1, <3>1, <1>s DEF CallInv
    <2> QED
      BY <1>a, <2>1, <2>2, <2>3
  <1>2. ASSUME NEW t \in Txs, NEW retry \in BOOLEAN, SubmitBegin(t, retry)
        PROVE  Good
    <2> DEFINE new == Transition(txs[t], "Submitting", NoBlock, "SubmissionStarted")
               next == [NoOp EXCEPT !.kind = "calling", !.tx = t, !.retry = retry]
    <2>1. Same /\ handed' = handed
      BY <1>2 DEF SubmitBegin, nodeVars
    <2>2. \/ op' = NoOp
          \/ op' = next /\ txs' = [txs EXCEPT ![t] = new]
      BY <1>2 DEF SubmitBegin, CommitTx, Commit
    <2>3. CASE op' = next /\ txs' = [txs EXCEPT ![t] = new]
      <3>1. op' \in Ops /\ op'.kind = "calling" /\ op'.tx = t
        BY <2>3, <1>n, <1>s
      <3>2. new.lifecycle = "Submitting" /\ new.exposure >= Observed("SubmissionStarted")
        BY SMT, <1>s, TransitionEvolves DEF Shape, Lifecycles, NoBlock, Blocks
      <3>3. Observed("SubmissionStarted") = SubmissionStarted
        BY DEF Observed
      <3>4. txs'[t] = new
        BY <2>3, <1>s DEF Shape
      <3> QED
        BY <2>1, <3>1, <3>2, <3>3, <3>4, <1>s DEF CallInv
    <2> QED
      BY <1>a, <2>1, <2>2, <2>3
  <1>3. ASSUME NEW outcome \in Outcomes, NodeAnswers(outcome)
        PROVE  Good
    <2>1. op' = [op EXCEPT !.kind = "answered", !.outcome = outcome]
      BY <1>3 DEF NodeAnswers
    <2>2. op' \in Ops /\ op'.kind = "answered" /\ op'.tx = op.tx /\ op'.outcome = outcome
      BY <2>1, <1>s
    <2> QED
      BY <1>3, <1>s, <2>2 DEF NodeAnswers, CallInv
  <1>4. ASSUME NEW taken \in BOOLEAN, AnswerLost(taken)
        PROVE  Good
    BY <1>4, <1>s, <1>n DEF AnswerLost, CallInv
  <1>5. CASE SendBuild \/ SubmitEnd
    <2>1. Same /\ handed' = handed /\ op' = NoOp
      BY <1>5 DEF SendBuild, SubmitEnd, CommitTx, Commit, nodeVars
    <2> QED
      BY <1>a, <2>1
  <1>6. CASE CommandCut
    BY <1>6, <1>a DEF CommandCut, nodeVars
  <1>7. ASSUME NEW t \in Txs,
               \/ ResponseImport(t) \/ Finalize(t) \/ Cancel(t) \/ CancelRefused(t)
               \/ \E query \in Outcomes \union {"confirmed", "unknown"} :
                     Reconcile(t, query)
        PROVE  Good
    <2>1. Same /\ handed' = handed /\ op' = NoOp
      BY <1>7 DEF ResponseImport, Finalize, Cancel, CancelRefused, Reconcile,
                  CommitTx, Commit, nodeVars
    <2> QED
      BY <1>a, <2>1
  <1>8. ASSUME NEW t \in Txs, FinalizedExport(t)
        PROVE  Good
    BY <1>8, <1>b, <1>s DEF FinalizedExport, walletVars
  <1>9. CASE Rescan \/ Sync
    <2>1. Same /\ handed' = handed /\ op' = op /\ Idle
      BY <1>9 DEF Rescan, Sync, SyncNext, SyncReorg, CommitPage, nodeVars
    <2> QED
      BY <1>b, <1>s, <2>1
  <1>10. ASSUME NEW h \in 1 .. MaxHeight, NEW included \in SUBSET Txs,
                NodeExtends(h, included)
         PROVE  Good
    <2>1. /\ content' = Append(content, included)
          /\ chain' = Append(SubSeq(chain, 1, h), Len(content) + 1)
          /\ UNCHANGED walletVars
      BY <1>10 DEF NodeExtends, Extend
    <2>2. content' \in Seq(SUBSET Txs)
      BY SMT, <1>s, <2>1
    <2>3. h \in 1 .. Len(chain)
      BY SMT, <1>10, <1>s DEF NodeExtends, Tip
    <2>4. SubSeq(chain, 1, h) \in Seq(Nat)
      BY SMT, <1>s, <2>3
    <2>5. chain' \in Seq(Nat)
      BY SMT, <1>s, <2>1, <2>4
    <2> QED
      BY <2>1, <2>2, <2>5, <1>s DEF walletVars, CallInv
  <1>11. CASE UNCHANGED vars
    BY <1>11, <1>s DEF vars, walletVars, nodeVars, CallInv
  <1> QED
    BY <1>1, <1>2, <1>3, <1>4, <1>5, <1>6, <1>7, <1>8, <1>9, <1>10, <1>11
       DEF Next, Command

-----------------------------------------------------------------------------
(* Theorems. *)

\* A new wallet satisfies the invariant.
LEMMA InvInit == Init => IInv
  <1> SUFFICES ASSUME Init PROVE IInv
    OBVIOUS
  <1>1. NoTx \in TxShape /\ NoTx.exposure = NeverBroadcast /\ NoTx.lifecycle = "Draft"
    BY ExposureTypes DEF NoTx, TxShape, Lifecycles, NoBlock, Blocks
  <1>2. Shape
    BY SMT, <1>1, MaxTxsAssumption DEF Init, NodeInit, Shape, NoOp, Outcomes
  <1> QED
    BY <1>1, <1>2 DEF Init, IInv, DraftInv, CallInv, HandedIsExposed,
                      CancelledNeverHanded, NoOp

\* Every step keeps the invariant: a record that was handed over is exposed,
\* exposure only grows, and only unexposed records are cancelled.
LEMMA InvStep == IInv /\ [Next]_vars => IInv'
  <1> SUFFICES ASSUME IInv, [Next]_vars PROVE IInv'
    OBVIOUS
  <1>1. /\ txs' \in [Txs -> TxShape]
        /\ \A t \in Txs : Evolves(txs[t], txs'[t])
    BY RecordsEvolve
  <1>2. /\ CallInv'
        /\ handed' \in SUBSET Txs
        /\ \A t \in handed' : txs[t].exposure >= SubmissionStarted
        /\ \A t \in handed' : txs[t].lifecycle # "Cancelled"
    BY CallsEvolve DEF IInv, Shape, CallInv, HandedIsExposed, CancelledNeverHanded
  <1>3. Shape'
    BY <1>1, <1>2, CallsEvolve DEF Shape
  <1>4. \A t \in Txs : txs[t].exposure \in Nat /\ txs'[t].exposure \in Nat
    BY <1>1, ExposureTypes DEF IInv, Shape, TxShape
  <1>5. DraftInv'
    BY <1>1 DEF IInv, DraftInv, Evolves
  <1>6. HandedIsExposed'
    BY SMT, <1>1, <1>2, <1>4 DEF HandedIsExposed, Evolves, SubmissionStarted
  <1>7. CancelledNeverHanded'
    BY SMT, <1>1, <1>2 DEF CancelledNeverHanded, Evolves, SubmissionStarted, NeverBroadcast
  <1> QED
    BY <1>2, <1>3, <1>5, <1>6, <1>7 DEF IInv

\* The invariant holds in every state of the wallet.
THEOREM Invariance == Spec => []IInv
  BY InvInit, InvStep, PTL DEF Spec

\* Whatever crash, lost answer, scan, reorganization or rescan follows, bytes
\* that a submit call sent out stay covered by a durable exposure.
THEOREM SubmittedBytesAreExposed == Spec => []HandedIsExposed
  <1>1. IInv => HandedIsExposed
    BY DEF IInv
  <1> QED
    BY <1>1, Invariance, PTL

\* No transaction the node was given is ever cancelled, by the user or by
\* expiry, so its inputs are not released.
THEOREM SubmittedIsNotCancelled == Spec => []CancelledNeverHanded
  <1>1. IInv => CancelledNeverHanded
    BY DEF IInv
  <1> QED
    BY <1>1, Invariance, PTL

\* BroadcastExposure is monotonic under every command, scan and rewind.
THEOREM ExposureNeverDecreases == Spec => ExposureMonotone
  <1> DEFINE A == \A t \in Txs : txs[t].exposure <= txs'[t].exposure
  <1>1. IInv /\ [Next]_vars => [A]_vars
    BY RecordsEvolve DEF Evolves
  <1> QED
    BY <1>1, Invariance, PTL DEF Spec, ExposureMonotone

-----------------------------------------------------------------------------
(***************************************************************************)
(* What the records say of the chain: the invariant of WalletChainProofs.  *)
(***************************************************************************)

\* Where blocks hold a transaction, create an output and spend it, for the
\* transaction records ts and the block contents ct.
Holds(ct, B, t) == {h \in DOMAIN B : t \in ct[B[h]]}
Uses(ts, ct, B, c) == {h \in DOMAIN B : \E t \in ct[B[h]] : c \in ts[t].inputs}
Makes(ct, B, c) == IF c <= Funds THEN DOMAIN B \cap {1} ELSE Holds(ct, B, c - Funds)

\* Each transaction is in one block, each output is spent in one, and after
\* the block that creates it.
Sound(ts, ct, B) ==
    /\ \A t \in Txs : \A g, h \in Holds(ct, B, t) : g = h
    /\ \A c \in Commitments :
         /\ \A g, h \in Uses(ts, ct, B, c) : g = h
         /\ \A h \in Uses(ts, ct, B, c) : \E g \in Makes(ct, B, c) : g < h

OutputShape ==
    [state : {"Absent", "PendingIncoming", "Confirmed", "PendingOutgoing", "Spent"},
     owner : 0 .. MaxTxs, born : Nat, spent : Nat]

\* The chain part of a record, where the blocks create it in M and spend it in U.
Projected(o, M, U) ==
    /\ M = {} => o.born = 0 /\ o.spent = 0
    /\ M # {} => /\ o.born \in M /\ o.state # "Absent"
                 /\ IF U = {} THEN o.spent = 0 ELSE o.spent \in U
    /\ o.state = "Spent" <=> o.spent # 0

\* The lifecycles of a transaction that has its private context.
Late == Lifecycles \ {"Draft", "InputsReserved", "Cancelled"}

RecordInv(r) ==
    /\ r.lifecycle \in Late => r.context
    /\ r.context => r.lifecycle # "Draft"
    /\ r.lifecycle # "Draft" => r.inputs # {}
    /\ r.bound \subseteq r.inputs

\* The transaction was created and not cancelled.
Alive(r) == r.lifecycle \notin {"Draft", "Cancelled"}

\* The network holds the transaction, or a block does.
InPlay(t) == t \in pool \/ \E i \in DOMAIN content : t \in content[i]

\* Blocks with one hash have the same ancestors.
Ancestry ==
    \A h \in DOMAIN chain \cap DOMAIN scanned :
        chain[h] = scanned[h] => \A g \in 1 .. h : chain[g] = scanned[g]

BlockInv ==
    /\ pool \in SUBSET Txs
    /\ chain \in Seq(1 .. Len(content)) /\ Len(chain) <= MaxHeight
    /\ scanned \in Seq(1 .. Len(content)) /\ Len(scanned) <= MaxHeight
    /\ Ancestry
    /\ Sound(txs, content, chain) /\ Sound(txs, content, scanned)

ChainInv ==
    /\ IInv
    /\ BlockInv
    /\ outputs \in [Commitments -> OutputShape]
    /\ \A t \in Txs : RecordInv(txs[t])
    /\ \A t \in Txs : InPlay(t) => txs[t].context
    /\ op.kind = "building" =>
         ~txs[op.tx].context /\ txs[op.tx].lifecycle # "Draft"
    /\ \A c \in Commitments :
         Projected(outputs[c], Makes(content, scanned, c), Uses(txs, content, scanned, c))

-----------------------------------------------------------------------------
(***************************************************************************)
(* Blocks.                                                                 *)
(***************************************************************************)
LEMMA Named ==
    /\ \A B, t : HeightsOf(B, t) = Holds(content, B, t)
    /\ \A B, c : SpentIn(B, c) = Uses(txs, content, B, c)
    /\ \A B, c : CreatedIn(B, c) = Makes(content, B, c)
BY DEF HeightsOf, Holds, SpentIn, Uses, CreatedIn, Makes

\* The first elements of a sequence.
LEMMA Prefix ==
    ASSUME NEW S, NEW B \in Seq(S), NEW n \in 0 .. Len(B)
    PROVE  LET P == SubSeq(B, 1, n)
           IN  /\ P \in Seq(S) /\ Len(P) = n /\ DOMAIN P = 1 .. n
               /\ \A i \in 1 .. n : P[i] = B[i]
<1>1. \A i \in 1 .. n : B[i] \in S
  BY SMT
<1>2. n \in Nat /\ 1 \in Nat
  BY SMT
<1>3. /\ SubSeq(B, 1, n) \in Seq(S)
      /\ Len(SubSeq(B, 1, n)) = IF 1 <= n THEN n - 1 + 1 ELSE 0
      /\ \A i \in 1 .. n - 1 + 1 : SubSeq(B, 1, n)[i] = B[1 + i - 1]
  BY SMT, <1>1, <1>2, Cut
<1> QED BY SMT, <1>3

\* P are the first n blocks of B.
First(P, n, B) ==
    /\ n \in Nat /\ DOMAIN P = 1 .. n /\ 1 .. n \subseteq DOMAIN B
    /\ \A i \in 1 .. n : P[i] = B[i]

\* They do what the blocks do up to there.
LEMMA FirstHolds ==
    ASSUME NEW ct, NEW B, NEW P, NEW n, First(P, n, B)
    PROVE  \A t : Holds(ct, P, t) = Holds(ct, B, t) \cap (1 .. n)
BY DEF Holds, First

\* Among the first n blocks an output is used where it is on the chain.
LEMMA FirstUses ==
    ASSUME NEW ts, NEW ct, NEW B, NEW P, NEW n, First(P, n, B)
    PROVE  \A c : Uses(ts, ct, P, c) = Uses(ts, ct, B, c) \cap (1 .. n)
BY DEF Uses, First

\* Among the first n blocks an output is made where it is on the chain.
LEMMA FirstMakes ==
    ASSUME NEW ct, NEW B, NEW P, NEW n, First(P, n, B)
    PROVE  \A c : Makes(ct, P, c) = Makes(ct, B, c) \cap (1 .. n)
<1>1. \A t : Holds(ct, P, t) = Holds(ct, B, t) \cap (1 .. n)
  BY SMT, FirstHolds
<1> QED BY <1>1 DEF Makes, First

\* The first blocks of a sound chain are a sound chain.
LEMMA PrefixSound ==
    ASSUME NEW ts, NEW ct, NEW B, NEW P, NEW n, First(P, n, B),
           DOMAIN B \subseteq Nat \ {0}, Sound(ts, ct, B)
    PROVE  Sound(ts, ct, P)
<1>1. /\ \A t : Holds(ct, P, t) = Holds(ct, B, t) \cap (1 .. n)
      /\ \A c : Uses(ts, ct, P, c) = Uses(ts, ct, B, c) \cap (1 .. n)
      /\ \A c : Makes(ct, P, c) = Makes(ct, B, c) \cap (1 .. n)
  BY SMT, FirstHolds, FirstUses, FirstMakes
<1>2. \A c : Makes(ct, B, c) \subseteq Nat \ {0}
  BY DEF Makes, Holds
<1>3. \A t \in Txs : \A g, h \in Holds(ct, P, t) : g = h
  BY SMT, <1>1 DEF Sound
<1>4. ASSUME NEW c \in Commitments
      PROVE  /\ \A g, h \in Uses(ts, ct, P, c) : g = h
             /\ \A h \in Uses(ts, ct, P, c) : \E g \in Makes(ct, P, c) : g < h
  <2>1. \A g, h \in Uses(ts, ct, P, c) : g = h
    BY SMT, <1>1 DEF Sound
  <2>2. ASSUME NEW h \in Uses(ts, ct, P, c) PROVE \E g \in Makes(ct, P, c) : g < h
    <3>1. h \in Uses(ts, ct, B, c) /\ h \in 1 .. n
      BY <1>1
    <3>2. PICK g \in Makes(ct, B, c) : g < h
      BY <3>1 DEF Sound
    <3>3. g \in 1 .. n
      BY SMT, <1>2, <3>1, <3>2 DEF First
    <3> QED BY <1>1, <3>2, <3>3
  <2> QED BY <2>1, <2>2
<1> QED BY <1>3, <1>4 DEF Sound

\* New blocks and records change nothing of the blocks there are, as long as
\* what is in them keeps its inputs.
Unmoved(ts, us, ct, du, B) ==
    \A h \in DOMAIN B :
        du[B[h]] = ct[B[h]] /\ \A t \in ct[B[h]] : us[t].inputs = ts[t].inputs

\* What blocks say does not depend on transactions and contents that did not move.
LEMMA BlocksStay ==
    ASSUME NEW ts, NEW us, NEW ct, NEW du, NEW B, Unmoved(ts, us, ct, du, B)
    PROVE  /\ \A t : Holds(du, B, t) = Holds(ct, B, t)
           /\ \A c : Uses(us, du, B, c) = Uses(ts, ct, B, c)
           /\ \A c : Makes(du, B, c) = Makes(ct, B, c)
           /\ Sound(ts, ct, B) => Sound(us, du, B)
<1>1. \A t : Holds(du, B, t) = Holds(ct, B, t)
  BY DEF Holds, Unmoved
<1>2. \A c : Uses(us, du, B, c) = Uses(ts, ct, B, c)
  BY DEF Uses, Unmoved
<1>3. \A c : Makes(du, B, c) = Makes(ct, B, c)
  BY <1>1 DEF Makes
<1> QED BY <1>1, <1>2, <1>3 DEF Sound

-----------------------------------------------------------------------------
(***************************************************************************)
(* The chain part of one record.                                           *)
(***************************************************************************)

\* One block creates it, one spends it, later.
Once(M, U) ==
    /\ M \subseteq Nat \ {0} /\ U \subseteq Nat \ {0}
    /\ \A g, h \in M : g = h
    /\ \A g, h \in U : g = h
    /\ \A h \in U : \E g \in M : g < h

\* A change that the chain has no part in.
Aside(o, p) ==
    /\ p \in OutputShape /\ p.born = o.born /\ p.spent = o.spent
    /\ p.state = "Spent" <=> o.state = "Spent"
    /\ p.state = "Absent" => o.state = "Absent"

\* A change beside the chain heights keeps a record what the blocks say.
LEMMA AsideProjected ==
    ASSUME NEW o, NEW p, NEW M, NEW U, Projected(o, M, U), Aside(o, p)
    PROVE  Projected(p, M, U)
BY DEF Projected, Aside

\* Owners and the states of an unspent record are beside the chain heights.
LEMMA OwnerAside ==
    ASSUME NEW o \in OutputShape, NEW t \in 0 .. MaxTxs, NEW s \in {"Confirmed", "PendingOutgoing"}
    PROVE  /\ Aside(o, o)
           /\ Aside(o, [o EXCEPT !.owner = t])
           /\ o.state # "Spent" => Aside(o, [o EXCEPT !.owner = t, !.state = s])
           /\ o.state # "Spent" => Aside(o, [o EXCEPT !.state = s])
BY DEF Aside, OutputShape

\* refresh_maturity changes nothing the chain says.
LEMMA RefreshedAside ==
    ASSUME NEW os \in [Commitments -> OutputShape]
    PROVE  \A c \in Commitments : Aside(os[c], Refreshed(os)[c])
<1> SUFFICES ASSUME NEW c \in Commitments PROVE Aside(os[c], Refreshed(os)[c])
  OBVIOUS
<1>1. os[c] \in OutputShape /\ 0 \in 0 .. MaxTxs
  BY SMT, MaxTxsAssumption
<1>2. /\ Aside(os[c], os[c])
      /\ os[c].state # "Spent" => Aside(os[c], [os[c] EXCEPT !.state = "Confirmed"])
  BY <1>1, OwnerAside
<1>3. Refreshed(os)[c] = IF os[c].born > 0 /\ os[c].state # "Spent"
                         THEN [os[c] EXCEPT !.state = "Confirmed"] ELSE os[c]
  BY DEF Refreshed
<1> QED BY <1>2, <1>3

\* Releasing reservations changes nothing the chain says.
LEMMA ReleasedAside ==
    ASSUME NEW os \in [Commitments -> OutputShape], NEW cs
    PROVE  \A c \in Commitments : Aside(os[c], Released(os, cs)[c])
<1> SUFFICES ASSUME NEW c \in Commitments PROVE Aside(os[c], Released(os, cs)[c])
  OBVIOUS
<1> DEFINE s == IF os[c].state = "PendingOutgoing" THEN "Confirmed" ELSE os[c].state
<1>1. os[c] \in OutputShape /\ 0 \in 0 .. MaxTxs
  BY SMT, MaxTxsAssumption
<1>2. Released(os, cs)[c] = IF c \in cs THEN [os[c] EXCEPT !.owner = 0, !.state = s] ELSE os[c]
  BY DEF Released
<1>3. [os[c] EXCEPT !.owner = 0, !.state = s] \in OutputShape
  BY <1>1 DEF OutputShape
<1>4. s = "Spent" <=> os[c].state = "Spent"
  OBVIOUS
<1>5. s = "Absent" => os[c].state = "Absent"
  OBVIOUS
<1> HIDE DEF s
<1> QED BY <1>1, <1>2, <1>3, <1>4, <1>5 DEF Aside, OutputShape

\* Restoring reservations changes nothing the chain says.
LEMMA RestoredAside ==
    ASSUME NEW ts, NEW os \in [Commitments -> OutputShape]
    PROVE  \A c \in Commitments : Aside(os[c], Restored(ts, os)[c])
<1> SUFFICES ASSUME NEW c \in Commitments PROVE Aside(os[c], Restored(ts, os)[c])
  OBVIOUS
<1>1. os[c] \in OutputShape /\ 0 \in 0 .. MaxTxs
  BY SMT, MaxTxsAssumption
<1>2. CASE Claims(ts, os, c) = {}
  BY <1>1, <1>2, OwnerAside DEF Restored
<1>3. CASE Claims(ts, os, c) # {}
  <2> DEFINE t == CHOOSE t \in Claims(ts, os, c) : TRUE
  <2>1. t \in Claims(ts, os, c)
    BY <1>3
  <2>2. t \in 0 .. MaxTxs /\ os[c].state # "Spent"
    BY SMT, <2>1, MaxTxsAssumption DEF Claims, Txs
  <2>3. Restored(ts, os)[c] = [os[c] EXCEPT !.owner = t, !.state = "PendingOutgoing"]
    BY <1>3 DEF Restored
  <2> HIDE DEF t
  <2>4. Aside(os[c], [os[c] EXCEPT !.owner = t, !.state = "PendingOutgoing"])
    BY <1>1, <2>2, OwnerAside
  <2> QED BY <2>3, <2>4
<1> QED BY <1>2, <1>3

\* rewind_recovery_state: what blocks after the safe one did is gone.
LEMMA RewoundProjected ==
    ASSUME outputs \in [Commitments -> OutputShape], NEW c \in Commitments,
           NEW safe \in Nat, NEW M, NEW U, Once(M, U), Projected(outputs[c], M, U)
    PROVE  /\ RewoundOutputs(safe)[c] \in OutputShape
           /\ Projected(RewoundOutputs(safe)[c], M \cap (1 .. safe), U \cap (1 .. safe))
<1> DEFINE past == [d \in Commitments |->
                      IF outputs[d].born > safe THEN NoOutput
                      ELSE IF outputs[d].state = "Spent" /\ outputs[d].spent > safe
                      THEN [outputs[d] EXCEPT !.state = "Confirmed", !.spent = 0]
                      ELSE outputs[d]]
           o == outputs[c]
<1>1. \A d \in Commitments : outputs[d] \in OutputShape
  OBVIOUS
<1>2. NoOutput \in OutputShape /\ NoOutput.born = 0 /\ NoOutput.spent = 0
      /\ NoOutput.state = "Absent"
  BY SMT, MaxTxsAssumption DEF NoOutput, OutputShape
<1>3. \A p \in OutputShape : [p EXCEPT !.state = "Confirmed", !.spent = 0] \in OutputShape
  BY DEF OutputShape
<1>4. past \in [Commitments -> OutputShape]
  BY <1>1, <1>2, <1>3
<1>5. RewoundOutputs(safe) = Refreshed(past)
  BY DEF RewoundOutputs
<1>6. past[c] = IF o.born > safe THEN NoOutput
                ELSE IF o.state = "Spent" /\ o.spent > safe
                THEN [o EXCEPT !.state = "Confirmed", !.spent = 0]
                ELSE o
  OBVIOUS
<1> HIDE DEF past
<1>7. Aside(past[c], RewoundOutputs(safe)[c])
  BY <1>4, <1>5, RefreshedAside
<1>8. Projected(past[c], M \cap (1 .. safe), U \cap (1 .. safe))
  <2>1. o \in OutputShape /\ o.born \in Nat /\ o.spent \in Nat
    BY <1>1 DEF OutputShape
  <2> HIDE DEF o
  <2>2. Projected(o, M, U)
    BY DEF o
  <2>3. CASE o.born > safe
    <3>1. M # {} /\ o.born \in M
      BY SMT, <2>1, <2>2, <2>3 DEF Projected
    <3>2. M \cap (1 .. safe) = {}
      BY SMT, <2>1, <2>3, <3>1 DEF Once
    <3> QED BY <1>2, <1>6, <2>3, <3>2 DEF Projected
  <2>4. CASE o.born <= safe /\ M # {}
    <3>1. o.born \in M /\ o.born \in M \cap (1 .. safe) /\ o.state # "Absent"
      BY SMT, <2>1, <2>2, <2>4 DEF Projected, Once
    <3>2. CASE U = {}
      BY SMT, <1>6, <2>1, <2>2, <2>4, <3>1, <3>2 DEF Projected
    <3>3. CASE U # {} /\ o.spent <= safe
      <4>0. o.spent \in U
        BY <2>2, <2>4, <3>3 DEF Projected
      <4>1. o.spent \in U /\ o.spent \in U \cap (1 .. safe)
        BY SMT, <2>1, <3>3, <4>0 DEF Once
      <4> QED BY SMT, <1>6, <2>1, <2>2, <2>4, <3>1, <3>3, <4>1 DEF Projected
    <3>4. CASE U # {} /\ o.spent > safe
      <4>1. o.spent \in U
        BY <2>2, <2>4, <3>4 DEF Projected
      <4>2. U \cap (1 .. safe) = {}
        BY SMT, <2>1, <3>4, <4>1 DEF Once
      <4>3. past[c] = [o EXCEPT !.state = "Confirmed", !.spent = 0]
        BY SMT, <1>6, <2>1, <2>2, <2>4, <3>4 DEF Projected
      <4>4. past[c].born = o.born /\ past[c].state = "Confirmed" /\ past[c].spent = 0
        BY <2>1, <4>3 DEF OutputShape
      <4> QED BY <2>4, <3>1, <4>2, <4>4 DEF Projected
    <3> QED BY SMT, <2>1, <3>2, <3>3, <3>4
  <2>5. CASE o.born <= safe /\ M = {}
    <3>1. past[c] = o
      BY SMT, <1>6, <2>1, <2>2, <2>5 DEF Projected
    <3> QED BY <2>2, <2>5, <3>1 DEF Projected
  <2> QED BY SMT, <2>1, <2>3, <2>4, <2>5
<1> QED BY <1>7, <1>8, AsideProjected DEF Aside

\* apply_scan_page on one record: it gets what the blocks lo+1 .. hi add.
LEMMA PagedProjected ==
    ASSUME NEW os \in [Commitments -> OutputShape], NEW c \in Commitments,
           NEW lo \in Nat, NEW hi \in Nat, lo <= hi, NEW M, NEW U, Once(M, U),
           PageMade(lo, hi, c) = M \cap (lo + 1 .. hi),
           PageUsed(lo, hi, c) = U \cap (lo + 1 .. hi),
           Projected(os[c], M \cap (1 .. lo), U \cap (1 .. lo)),
           \A d \in Commitments : PageMade(lo, hi, d) \subseteq Nat /\ PageUsed(lo, hi, d) \subseteq Nat
    PROVE  /\ PageOutputs(os, lo, hi) \in [Commitments -> OutputShape]
           /\ Projected(PageOutputs(os, lo, hi)[c], M \cap (1 .. hi), U \cap (1 .. hi))
<1> DEFINE Seen(d) == Merged(os[d], PageMade(lo, hi, d))
           Gone(d) == IF PageUsed(lo, hi, d) # {} /\ Seen(d).state # "Absent"
                      THEN [Seen(d) EXCEPT !.state = "Spent", !.owner = 0,
                              !.spent = CHOOSE h \in PageUsed(lo, hi, d) : TRUE]
                      ELSE Seen(d)
           page == [d \in Commitments |-> Gone(d)]
<1>1. PageOutputs(os, lo, hi) = Refreshed(page)
  BY DEF PageOutputs
<1>2. ASSUME NEW d \in Commitments PROVE Seen(d) \in OutputShape
  <2>1. os[d] \in OutputShape /\ PageMade(lo, hi, d) \subseteq Nat
    OBVIOUS
  <2>2. PageMade(lo, hi, d) # {} => (CHOOSE h \in PageMade(lo, hi, d) : TRUE) \in Nat
    BY <2>1
  <2> QED BY <2>1, <2>2 DEF Merged, OutputShape
<1>3. ASSUME NEW d \in Commitments PROVE Gone(d) \in OutputShape
  <2>1. PageUsed(lo, hi, d) # {} => (CHOOSE h \in PageUsed(lo, hi, d) : TRUE) \in Nat
    OBVIOUS
  <2>2. Seen(d) \in OutputShape
    BY <1>2
  <2> HIDE DEF Seen
  <2>3. ASSUME NEW s \in OutputShape, NEW h \in Nat
        PROVE  [s EXCEPT !.state = "Spent", !.owner = 0, !.spent = h] \in OutputShape
    <3>1. 0 \in 0 .. MaxTxs
      BY SMT, MaxTxsAssumption
    <3>2. [s EXCEPT !.state = "Spent", !.owner = 0] \in OutputShape
      BY <3>1 DEF OutputShape
    <3> QED BY <3>2 DEF OutputShape
  <2> QED BY <2>1, <2>2, <2>3
<1>4. page \in [Commitments -> OutputShape]
  BY <1>3
<1>5. page[c] = Gone(c) /\ Seen(c) \in OutputShape /\ Gone(c) \in OutputShape
  BY <1>2, <1>3
<1> HIDE DEF page
<1>6. /\ PageOutputs(os, lo, hi) = [d \in Commitments |-> PageOutputs(os, lo, hi)[d]]
      /\ \A d \in Commitments : Aside(page[d], PageOutputs(os, lo, hi)[d])
  BY <1>1, <1>4, RefreshedAside DEF Refreshed
<1>7. Projected(Gone(c), M \cap (1 .. hi), U \cap (1 .. hi))
  <2> DEFINE made == PageMade(lo, hi, c)
             used == PageUsed(lo, hi, c)
             o == os[c]
             s == Seen(c)
             g == Gone(c)
  <2>o. o \in OutputShape /\ Projected(o, M \cap (1 .. lo), U \cap (1 .. lo))
    OBVIOUS
  <2>s. s = Merged(o, made) /\ s \in OutputShape
    BY <1>5
  <2>g. /\ used # {} /\ s.state # "Absent" =>
             g = [s EXCEPT !.state = "Spent", !.owner = 0,
                           !.spent = CHOOSE h \in used : TRUE]
        /\ ~(used # {} /\ s.state # "Absent") => g = s
    OBVIOUS
  <2>d. made = M \cap (lo + 1 .. hi) /\ used = U \cap (lo + 1 .. hi)
    OBVIOUS
  <2> SUFFICES Projected(g, M \cap (1 .. hi), U \cap (1 .. hi))
    OBVIOUS
  <2> HIDE DEF made, used, o, s, g, Seen, Gone
  <2>1. Projected(s, M \cap (1 .. hi), U \cap (1 .. lo))
    <3>1. CASE made = {}
      <4>1. M \cap (1 .. hi) = M \cap (1 .. lo)
        BY SMT, <2>d, <3>1 DEF Once
      <4>2. s = o
        BY <2>s, <3>1 DEF Merged
      <4> QED BY <2>o, <4>1, <4>2
    <3>2. CASE made # {}
      <4>1. M \cap (1 .. lo) = {}
        BY SMT, <2>d, <3>2 DEF Once
      <4>2. o.born = 0 /\ o.spent = 0 /\ o.state # "Spent"
        BY <2>o, <4>1 DEF Projected
      <4>3. (CHOOSE h \in made : TRUE) \in made
        BY <3>2
      <4>4. s = [o EXCEPT !.state = "Confirmed", !.born = CHOOSE h \in made : TRUE]
        BY <2>s, <3>2, <4>2 DEF Merged
      <4>5. s.born \in made /\ s.state = "Confirmed" /\ s.spent = 0
        BY <2>o, <4>2, <4>3, <4>4 DEF OutputShape
      <4>6. U \cap (1 .. lo) = {}
        <5> SUFFICES ASSUME NEW u \in U \cap (1 .. lo) PROVE FALSE
          OBVIOUS
        <5>1. PICK m \in M : m < u
          BY DEF Once
        <5>2. m \in M \cap (1 .. lo)
          BY SMT, <5>1 DEF Once
        <5> QED BY <4>1, <5>2
      <4>7. made \subseteq M \cap (1 .. hi)
        BY SMT, <2>d
      <4> QED BY <4>5, <4>6, <4>7 DEF Projected
    <3> QED BY <3>1, <3>2
  <2>2. CASE used = {}
    <3>1. U \cap (1 .. hi) = U \cap (1 .. lo)
      BY SMT, <2>d, <2>2 DEF Once
    <3> QED BY <2>1, <2>g, <2>2, <3>1
  <2>3. CASE used # {}
    <3>1. PICK u \in used : TRUE
      BY <2>3
    <3>2. PICK m \in M : m < u
      BY <2>d DEF Once
    <3>3. m \in M \cap (1 .. hi)
      BY SMT, <2>d, <3>1, <3>2 DEF Once
    <3>4. s.state # "Absent" /\ s.born \in M \cap (1 .. hi)
      BY <2>1, <3>3 DEF Projected
    <3>5. (CHOOSE h \in used : TRUE) \in used
      BY <2>3
    <3>6. g.state = "Spent" /\ g.born = s.born /\ g.spent = CHOOSE h \in used : TRUE
      BY <2>3, <2>g, <2>s, <3>4 DEF OutputShape
    <3>7. used \subseteq U \cap (1 .. hi) /\ 0 \notin used
      BY SMT, <2>d
    <3> QED BY <3>4, <3>5, <3>6, <3>7 DEF Projected
  <2> QED BY <2>2, <2>3
<1> QED BY SMT, <1>4, <1>5, <1>6, <1>7, AsideProjected DEF Aside

-----------------------------------------------------------------------------
(***************************************************************************)
(* Transaction records: the inputs of a transaction with a context stay.   *)
(***************************************************************************)
Keeps(a, b) ==
    /\ RecordInv(a) => RecordInv(b)
    /\ b.inputs = a.inputs /\ b.context = a.context
    /\ Alive(b) => Alive(a)

\* Keeps is transitive.
LEMMA KeepsTrans ==
    ASSUME NEW a, NEW b, NEW c, Keeps(a, b), Keeps(b, c) PROVE Keeps(a, c)
BY DEF Keeps

\* A transaction that was finalized is neither a draft nor cancelled.
LEMMA LateLifecycles ==
    /\ Late \subseteq Lifecycles \ {"Draft", "Cancelled"}
    /\ Settling \subseteq Late /\ "Confirmed" \in Late
    /\ \A r : r.lifecycle \in Late => Alive(r) /\ r.lifecycle # "Draft"
BY DEF Late, Lifecycles, Settling, Alive

\* A transition of a live transaction keeps its inputs and its context.
LEMMA TransitionKeeps ==
    ASSUME NEW tx \in TxShape, NEW lifecycle \in Lifecycles \ {"Draft"}, NEW block \in Blocks,
           NEW evidence,
           tx.lifecycle # "Draft" \/ tx.inputs # {},
           lifecycle # "Cancelled" => Alive(tx),
           lifecycle \in Late => tx.context \/ tx.lifecycle \in Late
    PROVE  Keeps(tx, Transition(tx, lifecycle, block, evidence))
<1> DEFINE r == Transition(tx, lifecycle, block, evidence)
<1>1. /\ r.lifecycle = lifecycle /\ r.inputs = tx.inputs /\ r.context = tx.context
      /\ r.bound = tx.bound
  BY DEF Transition, TxShape
<1> SUFFICES Keeps(tx, r)
  OBVIOUS
<1> HIDE DEF r
<1> QED BY <1>1 DEF Keeps, RecordInv, Alive

\* So does a change of its bytes, of its bound ids or of its submission.
LEMMA FieldKeeps ==
    ASSUME NEW tx \in TxShape
    PROVE  /\ Keeps(tx, tx)
           /\ Keeps(tx, [tx EXCEPT !.bytes = TRUE])
           /\ \A s \in SUBSET tx.bound : Keeps(tx, [tx EXCEPT !.bound = s])
           /\ \A b : Keeps(tx, [tx EXCEPT !.submitted = b])
BY DEF Keeps, RecordInv, TxShape, Alive

\* The lifecycle graph: what comes after the response was imported.
LEMMA AllowedFrom ==
    ASSUME NEW tx, NEW lifecycle \in Late \ {"ResponseImported"}, NEW block, NEW evidence,
           Allowed(tx, lifecycle, block, evidence), tx.lifecycle \in Lifecycles
    PROVE  tx.lifecycle \in Late
<1>1. CASE tx.lifecycle = lifecycle
  BY <1>1
<1>2. CASE <<tx.lifecycle, lifecycle, evidence>> \in Edges
  <2> SUFFICES tx.lifecycle \notin {"Draft", "InputsReserved", "Cancelled"}
    BY DEF Late
  <2>1. lifecycle \notin {"InputsReserved", "ResponseImported", "Cancelled"}
    BY DEF Late
  <2> QED BY <1>2, <2>1 DEF Edges
<1> QED BY <1>1, <1>2 DEF Allowed

\* So does the answer to a submission.
LEMMA OutcomeKeeps ==
    ASSUME NEW tx \in TxShape, NEW outcome \in Outcomes, tx.lifecycle \in Late
    PROVE  Keeps(tx, OutcomeApplied(tx, outcome))
<1> DEFINE mid == Transition(tx, OutcomeTarget(outcome), NoBlock, OutcomeEvidence(outcome))
<1>1. /\ OutcomeTarget(outcome) \in Lifecycles \ {"Draft", "Cancelled"}
      /\ NoBlock \in Blocks
  BY DEF OutcomeTarget, Outcomes, Lifecycles, NoBlock, Blocks
<1>2. Keeps(tx, mid) /\ Evolves(tx, mid)
  BY <1>1, LateLifecycles, TransitionKeeps, TransitionEvolves
<1>3. mid \in TxShape
  BY <1>2 DEF Evolves
<1> DEFINE b == mid.submitted \/ outcome \in {"accepted", "unrelayed", "known"}
<1>4. OutcomeApplied(tx, outcome) = [mid EXCEPT !.submitted = b]
  BY DEF OutcomeApplied
<1>5. Keeps(mid, [mid EXCEPT !.submitted = b])
  BY <1>3, FieldKeeps
<1> QED BY <1>2, <1>4, <1>5, KeepsTrans

\* So does the answer to a query.
LEMMA QueryKeeps ==
    ASSUME NEW tx \in TxShape, NEW query \in Outcomes \union {"confirmed", "unknown"},
           NEW block \in Blocks, QueryApplicable(tx, query, block)
    PROVE  /\ Keeps(tx, QueryApplied(tx, query, block))
           /\ tx.lifecycle \in Late
<1> DEFINE mid == AfterOutcome(tx, query)
           end == Transition(mid, QueryTarget(mid, query), block, QueryEvidence(mid, query))
<1>1. query \in Outcomes => tx.lifecycle \in Late
  <2>1. query \in Outcomes => OutcomeTarget(query) \in Late \ {"ResponseImported"}
    BY DEF OutcomeTarget, Outcomes, Late, Lifecycles
  <2>2. query \in Outcomes => Allowed(tx, OutcomeTarget(query), NoBlock, OutcomeEvidence(query))
    BY DEF QueryApplicable, OutcomeAllowed
  <2> QED BY <2>1, <2>2, AllowedFrom DEF TxShape
<1>2. Keeps(tx, mid) /\ Evolves(tx, mid)
  BY <1>1, OutcomeKeeps, OutcomeEvolves, FieldKeeps, EvolvesRefl DEF AfterOutcome
<1>3. mid \in TxShape
  BY <1>2 DEF Evolves
<1>4. CASE query \in {"uncertain", "rejected"}
  BY <1>1, <1>2, <1>4 DEF QueryApplied, Outcomes
<1>5. CASE query \notin {"uncertain", "rejected"}
  <2>1. QueryTarget(mid, query) \in Late \ {"ResponseImported"}
    BY <1>5 DEF QueryTarget, Outcomes, Late, Lifecycles
  <2>2. Allowed(mid, QueryTarget(mid, query), block, QueryEvidence(mid, query))
    BY <1>5 DEF QueryApplicable
  <2> HIDE DEF mid
  <2>3. mid.lifecycle \in Late
    BY <1>3, <2>1, <2>2, AllowedFrom DEF TxShape
  <2>4. Keeps(mid, end) /\ Evolves(mid, end)
    BY <1>3, <2>1, <2>3, LateLifecycles, TransitionKeeps, TransitionEvolves
  <2>5. end \in TxShape
    BY <2>4 DEF Evolves
  <2> DEFINE b == end.submitted \/ query # "unknown"
  <2>6. QueryApplied(tx, query, block) = [end EXCEPT !.submitted = b]
    BY <1>5 DEF QueryApplied, mid
  <2>7. Keeps(end, [end EXCEPT !.submitted = b])
    BY <2>5, FieldKeeps
  <2>8. Keeps(tx, QueryApplied(tx, query, block))
    <3>1. Keeps(tx, end)
      BY <1>2, <2>4, KeepsTrans
    <3> QED BY <2>6, <2>7, <3>1, KeepsTrans
  <2>9. tx.lifecycle \in Late
    <3>1. query \notin Outcomes => mid = tx
      BY DEF mid, AfterOutcome
    <3> QED BY <1>1, <2>3, <3>1
  <2> QED BY <2>8, <2>9
<1> QED BY <1>4, <1>5

\* So does the kernel evidence of a page.
LEMMA PageKeeps ==
    ASSUME Shape, NEW ts \in [Txs -> TxShape], NEW lo, NEW hi, NEW t \in Txs
    PROVE  Keeps(ts[t], PageTxs(ts, lo, hi)[t])
<1> DEFINE found == HeightsOf(chain, t) \intersect (lo + 1 .. hi)
           h == CHOOSE k \in found : TRUE
<1>1. PageTxs(ts, lo, hi)[t] =
          IF found = {} THEN ts[t] ELSE KernelFound(ts[t], BlockAt(chain, h))
  BY SMT DEF PageTxs
<1>2. CASE found = {}
  BY <1>1, <1>2, FieldKeeps
<1>3. CASE found # {}
  <2>1. h \in found
    BY SMT, <1>3
  <2>2. BlockAt(chain, h) \in Blocks /\ NoBlock \in Blocks
    BY <2>1, BlockTypes DEF NoBlock, Blocks
  <2>3. ts[t] \in TxShape /\ "Confirmed" \in Lifecycles /\ "ReconciliationRequired" \in Lifecycles
    BY DEF Lifecycles
  <2>4. \A block : ts[t].lifecycle \in Settling /\ block \in Blocks =>
            Keeps(ts[t], Transition(ts[t], "Confirmed", block, "ConfirmationEvidence"))
    BY <2>3, LateLifecycles, TransitionKeeps
  <2>5. ts[t].lifecycle = "Confirmed" =>
            Keeps(ts[t], Transition(ts[t], "ReconciliationRequired", NoBlock,
                                    "ReconciliationEvidence"))
    BY <2>2, <2>3, LateLifecycles, TransitionKeeps
  <2> HIDE DEF h
  <2>6. Keeps(ts[t], KernelFound(ts[t], BlockAt(chain, h)))
    BY <2>2, <2>3, <2>4, <2>5, FieldKeeps DEF KernelFound
  <2> QED BY <1>1, <1>3, <2>6
<1> QED BY SMT, <1>2, <1>3

\* So does the expiry.
LEMMA ExpiryKeeps ==
    ASSUME NEW ts \in [Txs -> TxShape], NEW t \in Txs
    PROVE  Keeps(ts[t], ExpiredTxs(ts)[t])
<1>1. "Cancelled" \in Lifecycles /\ NoBlock \in Blocks /\ ts[t] \in TxShape
  BY DEF Lifecycles, NoBlock, Blocks
<1>2. Expired(ts[t]) =>
          Keeps(ts[t], Transition(ts[t], "Cancelled", NoBlock, "Cancellation"))
  BY <1>1, LateLifecycles, TransitionKeeps DEF Expired
<1> QED BY <1>1, <1>2, FieldKeeps DEF ExpiredTxs

\* So does a rewind.
LEMMA RewindKeeps ==
    ASSUME Shape, NEW safe, NEW t \in Txs
    PROVE  Keeps(txs[t], RewoundTxs(safe)[t])
<1> DEFINE s == {c \in txs[t].bound : outputs[c].born <= safe}
           kept == [txs[t] EXCEPT !.bound = s]
<1>1. txs[t] \in TxShape /\ s \in SUBSET Commitments /\ s \in SUBSET txs[t].bound
  BY DEF Shape, TxShape
<1>2. Keeps(txs[t], kept) /\ kept \in TxShape /\ kept.lifecycle = txs[t].lifecycle
  BY <1>1, FieldKeeps DEF TxShape
<1>3. "Reorged" \in Lifecycles /\ NoBlock \in Blocks
  BY SMT DEF Lifecycles, NoBlock, Blocks
<1>4. txs[t].lifecycle = "Confirmed" =>
          Keeps(kept, Transition(kept, "Reorged", NoBlock, "ReorgEvidence"))
  BY <1>2, <1>3, LateLifecycles, TransitionKeeps
<1>5. RewoundTxs(safe)[t] =
          IF txs[t].lifecycle = "Confirmed" /\ txs[t].block.height > safe
          THEN Transition(kept, "Reorged", NoBlock, "ReorgEvidence") ELSE kept
  BY SMT DEF RewoundTxs
<1> HIDE DEF kept
<1> QED BY <1>2, <1>4, <1>5, KeepsTrans

\* Every step keeps the records well formed and the inputs of a transaction
\* that has its context.
LEMMA RecordsKeep ==
    ASSUME ChainInv, [Next]_vars
    PROVE  \A t \in Txs :
             /\ RecordInv(txs'[t])
             /\ txs[t].context => txs'[t].context /\ txs'[t].inputs = txs[t].inputs
             /\ \/ txs'[t].inputs = txs[t].inputs /\ (Alive(txs'[t]) => Alive(txs[t]))
                \/ \E s \in SUBSET Commitments, expires \in {Tip + 1, MaxHeight + 1} :
                      SendReserve(t, s, expires)
<1> DEFINE Good(ts) ==
             \A t \in Txs :
               /\ RecordInv(ts[t])
               /\ txs[t].context => ts[t].context /\ ts[t].inputs = txs[t].inputs
               /\ \/ ts[t].inputs = txs[t].inputs /\ (Alive(ts[t]) => Alive(txs[t]))
                  \/ \E s \in SUBSET Commitments, expires \in {Tip + 1, MaxHeight + 1} :
                        SendReserve(t, s, expires)
           Kept(ts) == \A t \in Txs : Keeps(txs[t], ts[t])
<1>s. /\ Shape /\ CallInv /\ txs \in [Txs -> TxShape]
      /\ \A t \in Txs : txs[t] \in TxShape /\ RecordInv(txs[t])
  BY DEF ChainInv, IInv, Shape
<1>k. \A ts : Kept(ts) => Good(ts)
  BY <1>s DEF Keeps
<1>r. Kept(txs)
  BY <1>s, FieldKeeps
<1>u. ASSUME NEW t \in Txs, NEW record, Keeps(txs[t], record)
      PROVE  Kept([txs EXCEPT ![t] = record])
  BY <1>u, <1>r, <1>s
<1>p. ASSUME NEW ts \in [Txs -> TxShape], Kept(ts), NEW lo, NEW hi
      PROVE  Kept(ExpiredTxs(PageTxs(ts, lo, hi)))
  <2> DEFINE page == PageTxs(ts, lo, hi)
             end == ExpiredTxs(page)
  <2>1. \A t \in Txs : Keeps(ts[t], page[t])
    BY <1>s, PageKeeps
  <2>2. page \in [Txs -> TxShape]
    <3>1. \A t \in Txs : Evolves(ts[t], page[t])
      BY <1>s, PageEvolves
    <3>2. page = [t \in Txs |-> page[t]]
      BY SMT DEF PageTxs
    <3> QED BY <3>1, <3>2 DEF Evolves
  <2>3. \A t \in Txs : Keeps(page[t], end[t])
    BY <2>2, ExpiryKeeps
  <2> HIDE DEF page, end
  <2>4. \A t \in Txs : Keeps(txs[t], end[t])
    BY <1>p, <2>1, <2>3, KeepsTrans
  <2> QED BY <2>4 DEF page, end
<1>w. \A safe : Kept(RewoundTxs(safe)) /\ RewoundTxs(safe) \in [Txs -> TxShape]
  <2>1. \A safe : \A t \in Txs : Evolves(txs[t], RewoundTxs(safe)[t])
    BY <1>s, RewindEvolves
  <2>2. \A safe : RewoundTxs(safe) = [t \in Txs |-> RewoundTxs(safe)[t]]
    BY SMT DEF RewoundTxs
  <2>3. \A safe : RewoundTxs(safe) \in [Txs -> TxShape]
    BY <2>1, <2>2 DEF Evolves
  <2>4. \A safe : Kept(RewoundTxs(safe))
    BY <1>s, RewindKeeps
  <2> QED BY <2>3, <2>4
<1>b. NoBlock \in Blocks
  BY SMT DEF NoBlock, Blocks
<1> SUFFICES Good(txs')
  OBVIOUS
<1> HIDE DEF Kept
<1>1. ASSUME NEW t \in Txs, NEW s \in SUBSET Commitments,
             NEW expires \in {Tip + 1, MaxHeight + 1}, SendReserve(t, s, expires)
      PROVE  Good(txs')
  <2> DEFINE new == [NoTx EXCEPT !.lifecycle = "InputsReserved",
                          !.inputs = s, !.bound = s, !.expires = expires]
  <2>1. txs[t].lifecycle = "Draft" /\ s # {}
    BY <1>1 DEF SendReserve, Created, Selections
  <2>2. ~txs[t].context
    BY <1>s, <2>1 DEF RecordInv
  <2>3. /\ new.lifecycle = "InputsReserved" /\ new.inputs = s /\ new.context = FALSE
        /\ new.bound = s
    BY DEF NoTx
  <2> HIDE DEF new
  <2>4. RecordInv(new)
    BY <2>1, <2>3 DEF RecordInv, Late
  <2>5. txs' = [txs EXCEPT ![t] = new] \/ txs' = txs
    BY <1>1 DEF SendReserve, Commit, new
  <2>6. Good(txs)
    BY <1>s
  <2>7. Good([txs EXCEPT ![t] = new])
    BY <1>1, <1>s, <2>2, <2>4, <2>6
  <2> QED BY <2>5, <2>6, <2>7
<1>2. CASE SendBuild
  <2> DEFINE new == [txs[op.tx] EXCEPT !.context = TRUE]
  <2>1. op.tx \in Txs
    BY <1>2, <1>s DEF SendBuild, CallInv
  <2>2. txs' = [txs EXCEPT ![op.tx] = new] \/ txs' = txs
    BY <1>2, <2>1, <1>s DEF SendBuild, Commit
  <2>3. txs[op.tx].lifecycle # "Draft"
    BY <1>2 DEF SendBuild, ChainInv
  <2>4. /\ new.lifecycle = txs[op.tx].lifecycle /\ new.inputs = txs[op.tx].inputs
        /\ new.context = TRUE /\ new.bound = txs[op.tx].bound
    BY <1>s, <2>1 DEF TxShape
  <2> HIDE DEF new
  <2>5. RecordInv(new)
    BY <1>s, <2>1, <2>3, <2>4 DEF RecordInv
  <2>6. Good(txs)
    BY <1>s
  <2>7. Good([txs EXCEPT ![op.tx] = new])
    BY <1>s, <2>1, <2>4, <2>5, <2>6 DEF Alive
  <2> QED BY <2>2, <2>6, <2>7
<1>3. ASSUME NEW t \in Txs, ResponseImport(t)
      PROVE  Kept(txs')
  <2> DEFINE new == Transition(txs[t], "ResponseImported", NoBlock, "RecipientResponse")
  <2>1. txs[t].context
    BY <1>3 DEF ResponseImport
  <2>4. <<"Cancelled", "ResponseImported", "RecipientResponse">> \notin Edges
    BY DEF Edges
  <2>5. Alive(txs[t])
    BY <1>3, <1>s, <2>1, <2>4 DEF ResponseImport, Allowed, RecordInv, Alive
  <2>2. Keeps(txs[t], new)
    BY <1>b, <1>s, <2>1, <2>5, TransitionKeeps DEF Lifecycles, RecordInv
  <2>3. txs' = [txs EXCEPT ![t] = new] \/ txs' = txs
    BY SMT, <1>3 DEF ResponseImport, CommitTx, Commit
  <2> QED BY SMT, <1>u, <1>r, <2>2, <2>3
<1>4. ASSUME NEW t \in Txs, Finalize(t)
      PROVE  Kept(txs')
  <2> DEFINE mid == Transition(txs[t], "Finalized", NoBlock, "Finalization")
  <2>0. txs[t].lifecycle \in Late
    <3>1. "Finalized" \in Late \ {"ResponseImported"}
      BY DEF Late, Lifecycles
    <3> QED BY <1>4, <1>s, <3>1, AllowedFrom DEF Finalize, TxShape
  <2>1. Keeps(txs[t], mid) /\ Evolves(txs[t], mid)
    BY SMT, <1>b, <1>s, <2>0, LateLifecycles, TransitionKeeps, TransitionEvolves DEF Lifecycles
  <2>2. Keeps(mid, [mid EXCEPT !.bytes = TRUE])
    BY <2>1, FieldKeeps DEF Evolves
  <2>3. Keeps(txs[t], [mid EXCEPT !.bytes = TRUE])
    BY <2>1, <2>2, KeepsTrans
  <2>4. txs' = [txs EXCEPT ![t] = [mid EXCEPT !.bytes = TRUE]] \/ txs' = txs
    BY SMT, <1>4 DEF Finalize, CommitTx, Commit
  <2> QED BY <1>u, <1>r, <2>3, <2>4
<1>5. ASSUME NEW t \in Txs, NEW retry \in BOOLEAN, SubmitBegin(t, retry)
      PROVE  Kept(txs')
  <2> DEFINE new == Transition(txs[t], "Submitting", NoBlock, "SubmissionStarted")
  <2>1. txs[t].lifecycle \in Late
    BY <1>5 DEF SubmitBegin, MaySubmit, Late, Lifecycles
  <2>2. Keeps(txs[t], new)
    BY <1>b, <1>s, <2>1, LateLifecycles, TransitionKeeps DEF Lifecycles
  <2>3. txs' = [txs EXCEPT ![t] = new] \/ txs' = txs
    BY SMT, <1>5 DEF SubmitBegin, CommitTx, Commit
  <2> QED BY SMT, <1>u, <1>r, <2>2, <2>3
<1>6. CASE SubmitEnd
  <2>1. op.tx \in Txs /\ op.outcome \in Outcomes /\ txs[op.tx].lifecycle = "Submitting"
    BY <1>6, <1>s DEF SubmitEnd, CallInv
  <2>2. txs' = [txs EXCEPT ![op.tx] = OutcomeApplied(txs[op.tx], op.outcome)]
        \/ txs' = txs
    BY SMT, <1>6 DEF SubmitEnd, CommitTx, Commit
  <2>3. txs[op.tx].lifecycle \in Late
    BY <2>1 DEF Late, Lifecycles
  <2>4. Keeps(txs[op.tx], OutcomeApplied(txs[op.tx], op.outcome))
    BY <1>s, <2>1, <2>3, OutcomeKeeps
  <2>5. Kept([txs EXCEPT ![op.tx] = OutcomeApplied(txs[op.tx], op.outcome)])
    BY <1>u, <2>1, <2>4
  <2> QED BY <1>k, <1>r, <2>2, <2>5
<1>7. ASSUME NEW t \in Txs, NEW query \in Outcomes \union {"confirmed", "unknown"},
             Reconcile(t, query)
      PROVE  Kept(txs')
  <2> DEFINE h == CHOOSE k \in HeightsOf(chain, t) : TRUE
             block == IF query = "confirmed" THEN BlockAt(chain, h) ELSE NoBlock
  <2>1. query = "confirmed" => h \in HeightsOf(chain, t)
    BY SMT, <1>7 DEF Reconcile, Queries, Mined, Outcomes
  <2>2. block \in Blocks
    BY <2>1, <1>b, <1>s, BlockTypes
  <2>3. QueryApplicable(txs[t], query, block)
    BY <1>7 DEF Reconcile
  <2>4. txs' = [txs EXCEPT ![t] = QueryApplied(txs[t], query, block)] \/ txs' = txs
    BY SMT, <1>7 DEF Reconcile, CommitTx, Commit
  <2> HIDE DEF block
  <2>5. Keeps(txs[t], QueryApplied(txs[t], query, block))
    BY <1>s, <2>2, <2>3, QueryKeeps
  <2> QED BY <1>u, <1>r, <2>4, <2>5
<1>8. ASSUME NEW t \in Txs, Cancel(t)
      PROVE  Kept(txs')
  <2> DEFINE new == Transition(txs[t], "Cancelled", NoBlock, "Cancellation")
  <2>1. txs[t].lifecycle # "Draft"
    BY <1>8 DEF Cancel, Created
  <2>2. Keeps(txs[t], new)
    BY <1>b, <1>s, <2>1, LateLifecycles, TransitionKeeps DEF Lifecycles
  <2>3. txs' = [txs EXCEPT ![t] = new] \/ txs' = txs
    BY <1>8, <1>s DEF Cancel, Commit
  <2> QED BY SMT, <1>u, <1>r, <2>2, <2>3
<1>9. ASSUME NEW t \in Txs, CancelRefused(t)
      PROVE  Kept(txs')
  <2> DEFINE new == Transition(txs[t], "ReconciliationRequired", NoBlock,
                               "ReconciliationEvidence")
  <2>0. "ReconciliationRequired" \in Late \ {"ResponseImported"}
    BY DEF Late, Lifecycles
  <2>1. txs[t].lifecycle \in Late
    BY <1>9, <1>s, <2>0, AllowedFrom DEF CancelRefused, TxShape
  <2>2. Keeps(txs[t], new)
    BY <1>b, <1>s, <2>1, LateLifecycles, TransitionKeeps DEF Lifecycles
  <2>3. txs' = [txs EXCEPT ![t] = new] \/ txs' = txs
    BY SMT, <1>9 DEF CancelRefused, CommitTx, Commit
  <2> QED BY SMT, <1>u, <1>r, <2>2, <2>3
<1>10. ASSUME Rescan PROVE Kept(txs')
  BY <1>10, <1>w DEF Rescan
<1>11. ASSUME SyncNext PROVE Kept(txs')
  BY <1>11, <1>p, <1>r, <1>s DEF SyncNext, CommitPage
<1>12. ASSUME SyncReorg PROVE Kept(txs')
  BY <1>12, <1>p, <1>w DEF SyncReorg, CommitPage
<1>13. ASSUME txs' = txs PROVE Kept(txs')
  BY SMT, <1>13, <1>r
<1> HIDE DEF Good
<1> QED
  BY <1>k, <1>1, <1>2, <1>3, <1>4, <1>5, <1>6, <1>7, <1>8, <1>9, <1>10, <1>11, <1>12, <1>13
     DEF Next, Command, Sync, FinalizedExport, NodeAnswers, AnswerLost, CommandCut,
         NodeExtends, walletVars, vars
=============================================================================
