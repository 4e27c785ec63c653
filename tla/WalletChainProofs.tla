-------------------------- MODULE WalletChainProofs --------------------------
(***************************************************************************)
(* What a wallet records of the chain, for any number of transactions,     *)
(* blocks and funds: the output records are those a scan of the committed  *)
(* blocks would give; a confirmation names a committed block and no        *)
(* transaction of a committed block waits for the network; and the inputs  *)
(* of a live transaction stay reserved by it. The argument: blocks of one  *)
(* hash have the same ancestors, so rewinding to an agreeing block leaves  *)
(* what the common blocks determine, and a page adds what its blocks add.  *)
(***************************************************************************)
EXTENDS WalletTransactionsProofs, WalletViews

\* Leaves that name no prover are for Zenon.
USE ZenonT(30)

-----------------------------------------------------------------------------
(***************************************************************************)
(* Steps: what is in play, the blocks, the outputs.                        *)
(***************************************************************************)

\* What gets into the pool or a block: the transaction a submit call is about,
\* one whose bytes are exported, and what the pool already holds.
LEMMA Entering ==
    ASSUME ChainInv, [Next]_vars
    PROVE  /\ pool' \in SUBSET Txs
           /\ \A t \in Txs : InPlay(t)' =>
                \/ InPlay(t)
                \/ op.kind = "calling" /\ t = op.tx
                \/ FinalizedExport(t)
<1> DEFINE Enters(t) == t \in Txs /\ (FinalizedExport(t) \/ (op.kind = "calling" /\ t = op.tx))
<1>s. CallInv /\ pool \in SUBSET Txs /\ content \in Seq(SUBSET Txs)
  BY DEF ChainInv, IInv, Shape, BlockInv
<1>1. pool' = pool \/ \E t : Enters(t) /\ pool' = pool \union {t}
  <2>1. ASSUME NEW t \in Txs, FinalizedExport(t) PROVE Enters(t) /\ pool' = pool \union {t}
    BY <2>1 DEF FinalizedExport
  <2>2. ASSUME op.kind = "calling" PROVE Enters(op.tx)
    BY <1>s, <2>2 DEF CallInv
  <2>3. ASSUME NEW outcome \in Outcomes, NodeAnswers(outcome)
        PROVE  pool' = pool \/ (Enters(op.tx) /\ pool' = pool \union {op.tx})
    BY <2>2, <2>3 DEF NodeAnswers
  <2>4. ASSUME NEW taken \in BOOLEAN, AnswerLost(taken)
        PROVE  pool' = pool \/ (Enters(op.tx) /\ pool' = pool \union {op.tx})
    BY <2>2, <2>4 DEF AnswerLost
  <2> HIDE DEF Enters
  <2> QED
    BY <2>1, <2>3, <2>4
       DEF Next, Command, CommandCut, Sync, SyncNext, SyncReorg, CommitPage, Rescan, SendReserve,
           SendBuild, ResponseImport, Finalize, SubmitBegin, SubmitEnd, Reconcile, Cancel,
           CancelRefused, NodeExtends, Extend, nodeVars, vars
<1>2. content' = content \/ \E included \in SUBSET Txs :
          /\ included \subseteq pool /\ content' = Append(content, included)
  <2>1. ASSUME NEW h \in 1 .. MaxHeight, NEW included \in SUBSET Txs, NodeExtends(h, included)
        PROVE  included \subseteq pool /\ content' = Append(content, included)
    BY <2>1 DEF NodeExtends, Extend
  <2> QED
    BY <2>1
       DEF Next, Command, CommandCut, Sync, SyncNext, SyncReorg, CommitPage, Rescan, SendReserve,
           SendBuild, ResponseImport, Finalize, FinalizedExport, SubmitBegin, NodeAnswers,
           AnswerLost, SubmitEnd, Reconcile, Cancel, CancelRefused, nodeVars, vars
<1> HIDE DEF Enters
<1>3. ASSUME NEW t \in Txs, InPlay(t)' PROVE InPlay(t) \/ Enters(t)
  <2>1. CASE t \in pool'
    BY <1>1, <2>1 DEF InPlay
  <2>2. CASE \E i \in DOMAIN content' : t \in content'[i]
    <3>1. CASE content' = content
      BY <2>2, <3>1 DEF InPlay
    <3>2. ASSUME NEW included \in SUBSET Txs,
                 included \subseteq pool, content' = Append(content, included)
          PROVE  InPlay(t)
      <4>1. PICK i \in DOMAIN content' : t \in content'[i]
        BY <2>2
      <4>2. (i \in DOMAIN content /\ content'[i] = content[i]) \/ content'[i] = included
        BY SMT, <1>s, <3>2, <4>1
      <4> QED BY <3>2, <4>1, <4>2 DEF InPlay
    <3> QED BY <1>2, <3>1, <3>2
  <2> QED BY <1>3, <2>1, <2>2 DEF InPlay
<1>4. pool' \in SUBSET Txs
  BY <1>1, <1>s DEF Enters
<1> QED BY <1>3, <1>4 DEF Enters

\* Only a transaction with a context gets into the pool or a block, and the
\* one that is being built has none.
LEMMA PlayKeeps ==
    ASSUME ChainInv, [Next]_vars
    PROVE  /\ pool' \in SUBSET Txs
           /\ \A t \in Txs : InPlay(t)' => txs'[t].context
           /\ op'.kind = "building" => ~txs'[op'.tx].context /\ txs'[op'.tx].lifecycle # "Draft"
<1> DEFINE Building == op'.kind = "building" =>
                          ~txs'[op'.tx].context /\ txs'[op'.tx].lifecycle # "Draft"
<1>s. /\ Shape /\ CallInv /\ txs \in [Txs -> TxShape]
      /\ \A t \in Txs : txs[t] \in TxShape /\ RecordInv(txs[t])
      /\ \A t \in Txs : InPlay(t) => txs[t].context
      /\ op.kind = "building" => ~txs[op.tx].context /\ txs[op.tx].lifecycle # "Draft"
  BY DEF ChainInv, IInv, Shape
<1>3. ASSUME NEW t \in Txs, InPlay(t)' PROVE txs[t].context
  <2>1. "Finalized" \in Late /\ "Submitting" \in Late
    BY DEF Late, Lifecycles
  <2>2. FinalizedExport(t) => txs[t].lifecycle = "Finalized"
    BY DEF FinalizedExport
  <2>3. op.kind = "calling" /\ t = op.tx => txs[t].lifecycle = "Submitting"
    BY <1>s DEF CallInv
  <2> QED BY <1>3, <1>s, <2>1, <2>2, <2>3, Entering DEF RecordInv
<1>4. \A t \in Txs : InPlay(t)' => txs'[t].context
  BY <1>3, RecordsKeep
<1>5. pool' \in SUBSET Txs
  BY Entering
<1>6. Building
  <2>1. ASSUME NEW t \in Txs, NEW s \in SUBSET Commitments,
               NEW expires \in {Tip + 1, MaxHeight + 1}, SendReserve(t, s, expires)
        PROVE  Building
    <3> DEFINE new == [NoTx EXCEPT !.lifecycle = "InputsReserved",
                            !.inputs = s, !.bound = s, !.expires = expires]
    <3>1. \/ op' = NoOp
          \/ op' = [NoOp EXCEPT !.kind = "building", !.tx = t] /\ txs' = [txs EXCEPT ![t] = new]
      BY <2>1 DEF SendReserve, Commit
    <3>2. new.lifecycle = "InputsReserved" /\ new.context = FALSE
      BY DEF NoTx
    <3>3. NoOp.kind = "none"
      BY DEF NoOp
    <3> HIDE DEF new
    <3>4. CASE op' = [NoOp EXCEPT !.kind = "building", !.tx = t] /\ txs' = [txs EXCEPT ![t] = new]
      <4>1. op'.tx = t /\ txs'[t] = new
        BY <3>4, <1>s DEF NoOp
      <4> QED BY <3>2, <4>1
    <3> QED BY <3>1, <3>3, <3>4
  <2>2. CASE op'.kind # "building"
    BY <2>2
  <2>3. CASE op' = op /\ (Idle \/ txs' = txs)
    BY <2>3, <1>s DEF Idle
  <2>4. op' = NoOp => op'.kind # "building"
    BY SMT DEF NoOp
  <2>5. ASSUME NEW t \in Txs, NEW retry \in BOOLEAN, SubmitBegin(t, retry)
        PROVE  op'.kind # "building"
    <3>1. op' = NoOp \/ op' = [NoOp EXCEPT !.kind = "calling", !.tx = t, !.retry = retry]
      BY <2>5 DEF SubmitBegin, CommitTx, Commit
    <3>2. [NoOp EXCEPT !.kind = "calling", !.tx = t, !.retry = retry].kind = "calling"
      BY DEF NoOp
    <3> QED BY <3>1, <3>2, <2>4
  <2>6. ASSUME NEW outcome \in Outcomes, NodeAnswers(outcome) PROVE op'.kind # "building"
    BY <2>6, <1>s DEF NodeAnswers, Shape
  <2>7. \/ \E t \in Txs, s \in SUBSET Commitments, expires \in {Tip + 1, MaxHeight + 1} :
             SendReserve(t, s, expires)
        \/ \E t \in Txs, retry \in BOOLEAN : SubmitBegin(t, retry)
        \/ \E outcome \in Outcomes : NodeAnswers(outcome)
        \/ op' = NoOp
        \/ op' = op /\ (Idle \/ txs' = txs)
    BY DEF Next, Command, CommandCut, Sync, SyncNext, SyncReorg, CommitPage, Rescan, AnswerLost,
           SendBuild, ResponseImport, Finalize, FinalizedExport, SubmitEnd, Reconcile, Cancel,
           CancelRefused, CommitTx, Commit, NodeExtends, Extend, walletVars, vars
  <2> HIDE DEF Building
  <2> QED BY <2>1, <2>2, <2>3, <2>4, <2>5, <2>6, <2>7
<1> QED BY <1>4, <1>5, <1>6

\* What blocks do is the same after a step.
LEMMA BlocksKept ==
    ASSUME ChainInv, [Next]_vars, NEW B \in Seq(1 .. Len(content))
    PROVE  /\ \A t : Holds(content', B, t) = Holds(content, B, t)
           /\ \A c : Uses(txs', content', B, c) = Uses(txs, content, B, c)
           /\ \A c : Makes(content', B, c) = Makes(content, B, c)
           /\ Sound(txs, content, B) => Sound(txs', content', B)
           /\ Len(content) \in Nat /\ Len(content') \in Nat /\ Len(content) <= Len(content')
<1>s. content \in Seq(SUBSET Txs) /\ \A t \in Txs : InPlay(t) => txs[t].context
  BY DEF ChainInv, IInv, Shape
<1>1. content' = content \/ \E included : content' = Append(content, included)
  BY DEF Next, Command, CommandCut, Sync, SyncNext, SyncReorg, CommitPage, Rescan, SendReserve,
         SendBuild, ResponseImport, Finalize, FinalizedExport, SubmitBegin, NodeAnswers,
         AnswerLost, SubmitEnd, Reconcile, Cancel, CancelRefused, NodeExtends, Extend,
         nodeVars, vars
<1>2. /\ \A i \in 1 .. Len(content) : content'[i] = content[i]
      /\ Len(content) \in Nat /\ Len(content') \in Nat /\ Len(content) <= Len(content')
  BY SMTT(30), <1>s, <1>1
<1>3. \A h \in DOMAIN B : B[h] \in 1 .. Len(content)
  BY SMT
<1>4. ASSUME NEW h \in DOMAIN B, NEW t \in content[B[h]] PROVE txs'[t].inputs = txs[t].inputs
  <2>1. B[h] \in DOMAIN content /\ t \in Txs
    BY SMT, <1>s, <1>3
  <2>2. txs[t].context
    BY <1>s, <2>1 DEF InPlay
  <2> QED BY <2>1, <2>2, RecordsKeep
<1>5. \A h \in DOMAIN B : content'[B[h]] = content[B[h]]
  BY <1>2, <1>3
<1>6. Unmoved(txs, txs', content, content', B)
  BY <1>4, <1>5 DEF Unmoved
<1>7. /\ \A t : Holds(content', B, t) = Holds(content, B, t)
      /\ \A c : Uses(txs', content', B, c) = Uses(txs, content, B, c)
      /\ \A c : Makes(content', B, c) = Makes(content, B, c)
      /\ Sound(txs, content, B) => Sound(txs', content', B)
  BY <1>6, BlocksStay
<1> QED BY <1>2, <1>7

\* Q has one block more than P, with a transaction that spends what P left.
Grown(ts, ct, P, Q, n, included) ==
    /\ n \in Nat /\ DOMAIN P = 1 .. n /\ DOMAIN Q = 1 .. n + 1
    /\ \A i \in 1 .. n : Q[i] = P[i]
    /\ ct[Q[n + 1]] = included
    /\ \A t, u \in included : t = u
    /\ \A t \in included :
         /\ ts[t].inputs \subseteq Commitments /\ ts[t].inputs # {}
         /\ \A c \in ts[t].inputs : Makes(ct, P, c) # {} /\ Uses(ts, ct, P, c) = {}

\* A block of admissible transactions on a sound chain gives a sound chain.
LEMMA ExtendSound ==
    ASSUME NEW ts, NEW ct, NEW P, NEW Q, NEW n, NEW included,
           Grown(ts, ct, P, Q, n, included), Sound(ts, ct, P)
    PROVE  Sound(ts, ct, Q)
<1> USE DEF Grown
<1>1. /\ \A t : Holds(ct, P, t) = Holds(ct, Q, t) \cap (1 .. n)
      /\ \A c : Uses(ts, ct, P, c) = Uses(ts, ct, Q, c) \cap (1 .. n)
      /\ \A c : Makes(ct, P, c) = Makes(ct, Q, c) \cap (1 .. n)
  <2>1. First(P, n, Q)
    BY SMT DEF First
  <2> QED BY SMT, <2>1, FirstHolds, FirstUses, FirstMakes
<1>2. \A t : Holds(ct, Q, t) \subseteq 1 .. n + 1 /\ (n + 1 \in Holds(ct, Q, t) => t \in included)
  BY DEF Holds
<1>3. \A c : /\ Uses(ts, ct, Q, c) \subseteq 1 .. n + 1
             /\ n + 1 \in Uses(ts, ct, Q, c) => \E t \in included : c \in ts[t].inputs
  BY DEF Uses
<1>4. ASSUME NEW t \in included PROVE Holds(ct, P, t) = {}
  <2>1. PICK c \in ts[t].inputs : Uses(ts, ct, P, c) = {}
    BY SMT
  <2> QED BY <2>1 DEF Holds, Uses
<1>5. ASSUME NEW t \in Txs, NEW g \in Holds(ct, Q, t), NEW h \in Holds(ct, Q, t) PROVE g = h
  <2>1. CASE t \in included
    <3>1. \A k \in Holds(ct, Q, t) : k \notin 1 .. n
      BY SMT, <1>1, <1>4, <2>1
    <3> QED BY SMT, <1>2, <3>1
  <2>2. CASE t \notin included
    <3>1. g \in Holds(ct, P, t) /\ h \in Holds(ct, P, t)
      BY SMT, <1>1, <1>2, <2>2
    <3> QED BY <3>1 DEF Sound
  <2> QED BY <2>1, <2>2
<1>6. ASSUME NEW c \in Commitments
      PROVE  /\ \A g, h \in Uses(ts, ct, Q, c) : g = h
             /\ \A h \in Uses(ts, ct, Q, c) : \E g \in Makes(ct, Q, c) : g < h
  <2>1. CASE n + 1 \in Uses(ts, ct, Q, c)
    <3>1. Makes(ct, P, c) # {} /\ Uses(ts, ct, P, c) = {}
      BY <1>3, <2>1
    <3>2. \A h \in Uses(ts, ct, Q, c) : h = n + 1
      BY SMT, <1>1, <1>3, <3>1
    <3>3. PICK g \in Makes(ct, Q, c) : g \in 1 .. n
      BY SMT, <1>1, <3>1
    <3> QED BY SMT, <3>2, <3>3
  <2>2. CASE n + 1 \notin Uses(ts, ct, Q, c)
    <3>1. \A h \in Uses(ts, ct, Q, c) : h \in 1 .. n + 1 /\ h # n + 1
      BY <1>3, <2>2
    <3>2. \A h \in Uses(ts, ct, Q, c) : h \in Uses(ts, ct, P, c)
      BY SMT, <1>1, <3>1
    <3> QED BY SMT, <1>1, <3>2 DEF Sound
  <2> QED BY <2>1, <2>2
<1> QED BY <1>5, <1>6 DEF Sound

\* The page of a synchronization ends at the tip at the latest.
LEMMA PageBounds ==
    ASSUME Tip \in Nat, NEW lo \in 0 .. Tip
    PROVE  PageEnd(lo) \in 0 .. Tip /\ lo <= PageEnd(lo)
BY SMT, PageSizeAssumption DEF PageEnd

\* Every step keeps the blocks of the chain and of the cursor sound.
LEMMA BlocksKeep ==
    ASSUME ChainInv, [Next]_vars
    PROVE  BlockInv'
<1>s. /\ chain \in Seq(1 .. Len(content)) /\ Len(chain) <= MaxHeight
      /\ scanned \in Seq(1 .. Len(content)) /\ Len(scanned) <= MaxHeight
      /\ content \in Seq(SUBSET Txs) /\ Ancestry
      /\ Sound(txs, content, chain) /\ Sound(txs, content, scanned)
      /\ txs \in [Txs -> TxShape] /\ pool \in SUBSET Txs
  BY DEF ChainInv, BlockInv, IInv, Shape
<1>p. pool' \in SUBSET Txs
  BY PlayKeeps
<1>c. /\ Len(content) \in Nat /\ Len(content') \in Nat /\ Len(content) <= Len(content')
      /\ Sound(txs', content', chain) /\ Sound(txs', content', scanned)
  BY <1>s, BlocksKept
<1>t. \A B : B \in Seq(1 .. Len(content)) => B \in Seq(1 .. Len(content'))
  <2> SUFFICES ASSUME NEW B \in Seq(1 .. Len(content)) PROVE B \in Seq(1 .. Len(content'))
    OBVIOUS
  <2>1. B \in [1 .. Len(B) -> 1 .. Len(content')] /\ Len(B) \in Nat
    BY SMT, <1>c
  <2> QED BY SMT, <2>1
<1>h. MaxHeight \in Nat /\ Len(chain) \in Nat /\ Len(scanned) \in Nat
  BY SMT, <1>s, MaxHeightAssumption
<1>1. CASE chain' = chain /\ scanned' = scanned
  BY <1>1, <1>s, <1>p, <1>c, <1>t DEF BlockInv, Ancestry
<1>2. CASE /\ chain' = chain
           /\ \E hi \in 0 .. Tip : scanned' = SubSeq(chain, 1, hi)
  <2>1. PICK hi \in 0 .. Tip : scanned' = SubSeq(chain, 1, hi)
    BY <1>2
  <2>2. /\ scanned' \in Seq(1 .. Len(content)) /\ Len(scanned') = hi /\ DOMAIN scanned' = 1 .. hi
        /\ \A i \in 1 .. hi : scanned'[i] = chain[i]
    BY SMT, <1>s, <2>1, Prefix DEF Tip
  <2>3. Ancestry'
    BY SMT, <1>2, <1>h, <2>2 DEF Ancestry
  <2>4. First(scanned', hi, chain) /\ DOMAIN chain \subseteq Nat \ {0}
    BY SMT, <1>s, <2>2 DEF Tip, First
  <2>5. Sound(txs', content', scanned')
    BY <1>c, <2>4, PrefixSound
  <2>6. Len(scanned') <= MaxHeight
    BY SMT, <1>s, <1>h, <2>2 DEF Tip
  <2> QED BY <1>2, <1>s, <1>p, <1>c, <1>t, <2>2, <2>3, <2>5, <2>6 DEF BlockInv
<1>3. CASE chain' = chain /\ scanned' = <<>>
  <2>1. scanned' \in Seq(1 .. Len(content')) /\ DOMAIN scanned' = {} /\ Len(scanned') <= MaxHeight
    BY SMT, <1>3, <1>h
  <2>2. Sound(txs', content', scanned')
    BY <2>1 DEF Sound, Holds, Uses
  <2>3. Ancestry'
    BY <2>1 DEF Ancestry
  <2> QED BY <1>3, <1>s, <1>p, <1>c, <1>t, <2>1, <2>2, <2>3 DEF BlockInv
<1>4. ASSUME NEW h \in 1 .. MaxHeight, NEW included \in SUBSET Txs, NodeExtends(h, included)
      PROVE  BlockInv'
  <2> DEFINE P == SubSeq(chain, 1, h)
  <2>1. /\ h \in 1 .. Len(chain) /\ h < MaxHeight
        /\ included \subseteq pool /\ \A t, u \in included : t = u
        /\ \A t \in included : Includable(P, t)
        /\ content' = Append(content, included)
        /\ chain' = Append(P, Len(content) + 1)
        /\ txs' = txs /\ scanned' = scanned
    BY SMT, <1>4, <1>h DEF NodeExtends, Extend, Tip, walletVars
  <2>2. /\ P \in Seq(1 .. Len(content)) /\ Len(P) = h /\ DOMAIN P = 1 .. h
        /\ \A i \in 1 .. h : P[i] = chain[i]
    BY SMTT(30), <1>s, <1>h, <2>1, Prefix
  <2> HIDE DEF P
  <2>3. Len(content') = Len(content) + 1 /\ content'[Len(content) + 1] = included
    BY SMT, <1>s, <2>1
  <2>4. P \in Seq(1 .. Len(content'))
    BY <1>t, <2>2
  <2>5. /\ chain' \in Seq(1 .. Len(content')) /\ Len(chain') = h + 1 /\ DOMAIN chain' = 1 .. h + 1
        /\ \A i \in 1 .. h : chain'[i] = P[i]
        /\ chain'[h + 1] = Len(content) + 1
    BY SMT, <1>c, <2>1, <2>2, <2>3, <2>4
  <2>6. Sound(txs, content, P)
    <3>1. First(P, h, chain) /\ DOMAIN chain \subseteq Nat \ {0}
      BY SMTT(30), <1>s, <2>1, <2>2 DEF First
    <3> QED BY <1>s, <3>1, PrefixSound
  <2>7. /\ Sound(txs', content', P)
        /\ \A c : Uses(txs', content', P, c) = Uses(txs, content, P, c)
        /\ \A c : Makes(content', P, c) = Makes(content, P, c)
    BY <2>2, <2>6, BlocksKept
  <2>8. ASSUME NEW t \in included
        PROVE  /\ txs'[t].inputs \subseteq Commitments /\ txs'[t].inputs # {}
               /\ \A c \in txs'[t].inputs :
                    Makes(content', P, c) # {} /\ Uses(txs', content', P, c) = {}
    <3>1. t \in Txs /\ InPlay(t)
      BY <2>1, <2>8 DEF InPlay
    <3>2. txs[t].context /\ RecordInv(txs[t])
      BY <3>1 DEF ChainInv
    <3>3. txs[t].inputs # {} /\ txs[t].inputs \subseteq Commitments
      BY <1>s, <3>1, <3>2 DEF RecordInv, TxShape
    <3>4. \A c \in txs[t].inputs : CreatedIn(P, c) # {} /\ SpentIn(P, c) = {}
      BY <2>1, <2>8 DEF Includable
    <3> QED BY <2>1, <2>7, <3>3, <3>4, Named
  <2>9. content'[chain'[h + 1]] = included
    BY <2>3, <2>5
  <2>10. Sound(txs', content', chain')
    <3>1. Grown(txs', content', P, chain', h, included)
      BY SMT, <2>1, <2>2, <2>5, <2>8, <2>9 DEF Grown
    <3> QED BY <2>7, <3>1, ExtendSound
  <2>11. Ancestry'
    <3> SUFFICES ASSUME NEW k \in DOMAIN chain' \cap DOMAIN scanned', chain'[k] = scanned'[k]
                 PROVE  \A g \in 1 .. k : chain'[g] = scanned'[g]
      BY DEF Ancestry
    <3>1. scanned[k] \in 1 .. Len(content)
      BY SMTT(30), <1>s, <2>1
    <3>2. k # h + 1
      BY SMT, <1>c, <2>1, <2>5, <3>1
    <3>3. k \in 1 .. h
      BY SMT, <2>5, <3>2
    <3>a. 1 .. h \subseteq DOMAIN chain
      BY SMT, <1>s, <1>h, <2>1
    <3>4. \A i \in 1 .. h : chain'[i] = chain[i] /\ i \in DOMAIN chain
      BY <2>2, <2>5, <3>a
    <3>5. k \in DOMAIN chain /\ k \in DOMAIN scanned /\ chain[k] = scanned[k]
      BY <2>1, <3>3, <3>4
    <3>6. \A g \in 1 .. k : chain[g] = scanned[g]
      BY <1>s, <3>5 DEF Ancestry
    <3>7. \A g \in 1 .. k : g \in 1 .. h
      BY SMT, <3>3
    <3> QED BY <2>1, <3>4, <3>6, <3>7
  <2>12. Len(chain') <= MaxHeight
    BY SMT, <1>h, <2>1, <2>5
  <2> QED BY <1>s, <1>p, <1>c, <1>t, <2>1, <2>5, <2>10, <2>11, <2>12 DEF BlockInv
<1>5. CASE SyncNext
  <2>1. chain' = chain /\ scanned' = SubSeq(chain, 1, PageEnd(Len(scanned)))
    BY <1>5 DEF SyncNext, CommitPage, nodeVars
  <2>2. Len(scanned) \in 0 .. Tip /\ Tip \in Nat
    BY SMT, <1>5, <1>h DEF SyncNext, Tip
  <2> QED BY <1>2, <2>1, <2>2, PageBounds
<1>6. CASE SyncReorg
  <2>1. PICK safe \in Agreeing : chain' = chain /\ scanned' = SubSeq(chain, 1, PageEnd(safe))
    BY <1>6 DEF SyncReorg, CommitPage, nodeVars
  <2>2. safe \in 0 .. Tip /\ Tip \in Nat
    BY SMTT(30), <1>s, <1>h DEF Agreeing, Tip
  <2> QED BY <1>2, <2>1, <2>2, PageBounds
<1>7. CASE Rescan
  BY <1>3, <1>7 DEF Rescan, nodeVars
<1> QED
  BY <1>1, <1>4, <1>5, <1>6, <1>7
     DEF Next, Command, CommandCut, Sync, SendReserve,
         SendBuild, ResponseImport, Finalize, FinalizedExport, SubmitBegin, NodeAnswers,
         AnswerLost, SubmitEnd, Reconcile, Cancel, CancelRefused, walletVars, nodeVars, vars

\* The blocks a page starts from are the first ones of the chain, and a page
\* on records of those blocks gives records of its last block.
LEMMA PageSteps ==
    ASSUME ChainInv, [Next]_vars, NEW ts, NEW os \in [Commitments -> OutputShape],
           NEW lo \in 0 .. Tip, CommitPage(ts, os, lo, PageEnd(lo)),
           \A c \in Commitments :
              Projected(os[c], Makes(content, chain, c) \cap (1 .. lo),
                               Uses(txs, content, chain, c) \cap (1 .. lo))
    PROVE  /\ outputs' \in [Commitments -> OutputShape]
           /\ \A c \in Commitments :
                Projected(outputs'[c], Makes(content', scanned', c),
                                       Uses(txs', content', scanned', c))
<1> DEFINE hi == PageEnd(lo)
           M(c) == Makes(content, chain, c)
           U(c) == Uses(txs, content, chain, c)
           page == PageOutputs(os, lo, hi)
<1>1. chain \in Seq(1 .. Len(content)) /\ Sound(txs, content, chain)
  BY DEF ChainInv, BlockInv
<1>2. Tip \in Nat /\ hi \in 0 .. Tip /\ lo <= hi
  BY SMT, <1>1, PageBounds DEF Tip
<1>3. outputs' = Released(page, {c \in Commitments :
          page[c].owner # 0 /\ Expired(PageTxs(ts, lo, hi)[page[c].owner])
                            /\ c \in PageTxs(ts, lo, hi)[page[c].owner].bound})
  BY DEF CommitPage, ExpiredOutputs
<1>4. scanned' = SubSeq(chain, 1, hi)
  BY DEF CommitPage
<1> HIDE DEF hi
<1>5. /\ scanned' \in Seq(1 .. Len(content)) /\ DOMAIN scanned' = 1 .. hi
      /\ \A i \in 1 .. hi : scanned'[i] = chain[i]
  BY SMT, <1>1, <1>2, <1>4, Prefix DEF Tip
<1>6. \A c : /\ Makes(content', scanned', c) = M(c) \cap (1 .. hi)
             /\ Uses(txs', content', scanned', c) = U(c) \cap (1 .. hi)
  <2>1. \A c : /\ Makes(content', scanned', c) = Makes(content, scanned', c)
               /\ Uses(txs', content', scanned', c) = Uses(txs, content, scanned', c)
    BY <1>5, BlocksKept
  <2>2. First(scanned', hi, chain)
    BY SMT, <1>1, <1>2, <1>5 DEF Tip, First
  <2>3. \A c : /\ Makes(content, scanned', c) = M(c) \cap (1 .. hi)
               /\ Uses(txs, content, scanned', c) = U(c) \cap (1 .. hi)
    BY SMT, <2>2, FirstUses, FirstMakes
  <2> QED BY <2>1, <2>3
<1>7. \A c \in Commitments :
          /\ PageMade(lo, hi, c) = M(c) \cap (lo + 1 .. hi)
          /\ PageUsed(lo, hi, c) = U(c) \cap (lo + 1 .. hi)
  BY Named DEF PageMade, PageUsed
<1>8. \A c \in Commitments : Once(M(c), U(c))
  <2>1. DOMAIN chain \subseteq Nat \ {0}
    BY SMT, <1>1
  <2>2. \A c : M(c) \subseteq Nat \ {0} /\ U(c) \subseteq Nat \ {0}
    BY <2>1 DEF Makes, Holds, Uses
  <2>3. \A c \in Commitments : \A g, h \in M(c) : g = h
    <3> SUFFICES ASSUME NEW c \in Commitments, c > Funds PROVE c - Funds \in Txs
      BY SMT, <1>1, FundsAssumption DEF Makes, Sound, Commitments
    <3> QED BY SMT, FundsAssumption, MaxTxsAssumption DEF Commitments, Txs
  <2> QED BY <1>1, <2>2, <2>3 DEF Once, Sound
<1> HIDE DEF M, U
<1>9. \A d \in Commitments : PageMade(lo, hi, d) \subseteq Nat /\ PageUsed(lo, hi, d) \subseteq Nat
  BY SMT, <1>7
<1>10. ASSUME NEW c \in Commitments
       PROVE  /\ page \in [Commitments -> OutputShape]
              /\ Projected(page[c], M(c) \cap (1 .. hi), U(c) \cap (1 .. hi))
  <2>1. Projected(os[c], M(c) \cap (1 .. lo), U(c) \cap (1 .. lo))
    BY DEF M, U
  <2>2. lo \in Nat /\ hi \in Nat
    BY SMT, <1>2
  <2> QED BY <1>2, <1>7, <1>8, <1>9, <2>1, <2>2, PagedProjected
<1>11. page \in [Commitments -> OutputShape]
  <2>1. 1 \in Commitments
    BY SMT, FundsAssumption, MaxTxsAssumption DEF Commitments
  <2> QED BY <1>10, <2>1
<1> HIDE DEF page
<1>12. /\ outputs' = [c \in Commitments |-> outputs'[c]]
       /\ \A c \in Commitments : Aside(page[c], outputs'[c])
  <2>1. \A cs : /\ Released(page, cs) = [c \in Commitments |-> Released(page, cs)[c]]
                /\ \A c \in Commitments : Aside(page[c], Released(page, cs)[c])
    BY <1>11, ReleasedAside DEF Released
  <2> QED BY <1>3, <2>1
<1> QED BY <1>6, <1>10, <1>12, AsideProjected DEF Aside

\* Every step keeps the chain part of the output records what the committed
\* blocks determine.
LEMMA OutputsKeep ==
    ASSUME ChainInv, [Next]_vars
    PROVE  /\ outputs' \in [Commitments -> OutputShape]
           /\ \A c \in Commitments :
                Projected(outputs'[c], Makes(content', scanned', c),
                                       Uses(txs', content', scanned', c))
<1> DEFINE Good == /\ outputs' \in [Commitments -> OutputShape]
                   /\ \A c \in Commitments :
                        Projected(outputs'[c], Makes(content', scanned', c),
                                               Uses(txs', content', scanned', c))
           M(c) == Makes(content, scanned, c)
           U(c) == Uses(txs, content, scanned, c)
<1>s. /\ chain \in Seq(1 .. Len(content)) /\ scanned \in Seq(1 .. Len(content))
      /\ Ancestry /\ Sound(txs, content, scanned)
      /\ Shape /\ CallInv /\ txs \in [Txs -> TxShape]
      /\ outputs \in [Commitments -> OutputShape]
      /\ \A c \in Commitments : Projected(outputs[c], M(c), U(c))
  BY DEF ChainInv, BlockInv, IInv, Shape
<1>k. \A c : /\ Makes(content', scanned, c) = M(c)
             /\ Uses(txs', content', scanned, c) = U(c)
  BY <1>s, BlocksKept
<1>d. DOMAIN scanned = 1 .. Len(scanned) /\ Len(scanned) \in Nat /\ DOMAIN chain = 1 .. Tip
      /\ Tip \in Nat
  BY SMT, <1>s DEF Tip
<1>a. ASSUME scanned' = scanned, outputs' = [c \in Commitments |-> outputs'[c]],
             \A c \in Commitments : Aside(outputs[c], outputs'[c])
      PROVE  Good
  <2>1. outputs' \in [Commitments -> OutputShape]
    BY <1>a DEF Aside
  <2>2. \A c \in Commitments : Projected(outputs'[c], M(c), U(c))
    BY <1>a, <1>s, AsideProjected
  <2> HIDE DEF M, U
  <2> QED BY <1>a, <1>k, <2>1, <2>2
<1>b. ASSUME scanned' = scanned, outputs' = outputs
      PROVE  Good
  <2>1. \A c \in Commitments : Aside(outputs[c], outputs[c])
    BY <1>s DEF Aside
  <2> QED BY <1>a, <1>b, <1>s, <2>1
<1>o. \A c \in Commitments : Once(M(c), U(c))
  <2>1. DOMAIN scanned \subseteq Nat \ {0}
    BY SMT, <1>s
  <2>2. \A c : M(c) \subseteq Nat \ {0} /\ U(c) \subseteq Nat \ {0}
    BY <2>1 DEF Makes, Holds, Uses
  <2>3. \A c \in Commitments : \A g, h \in M(c) : g = h
    <3> SUFFICES ASSUME NEW c \in Commitments, c > Funds PROVE c - Funds \in Txs
      BY SMT, <1>s, FundsAssumption DEF Makes, Sound, Commitments
    <3> QED BY SMT, FundsAssumption, MaxTxsAssumption DEF Commitments, Txs
  <2> QED BY <1>s, <2>2, <2>3 DEF Once, Sound
<1>w. ASSUME NEW safe \in Nat
      PROVE  LET os == Restored(RewoundTxs(safe), RewoundOutputs(safe))
             IN  /\ os \in [Commitments -> OutputShape]
                 /\ \A c \in Commitments :
                      Projected(os[c], M(c) \cap (1 .. safe), U(c) \cap (1 .. safe))
  <2> DEFINE rs == RewoundOutputs(safe)
             os == Restored(RewoundTxs(safe), rs)
  <2>1. \A c \in Commitments :
           /\ rs[c] \in OutputShape
           /\ Projected(rs[c], M(c) \cap (1 .. safe), U(c) \cap (1 .. safe))
    BY <1>s, <1>o, RewoundProjected
  <2>2. rs = [c \in Commitments |-> rs[c]]
    BY SMT DEF RewoundOutputs, Refreshed
  <2> HIDE DEF rs
  <2>3. rs \in [Commitments -> OutputShape]
    BY <2>1, <2>2
  <2>4. \A c \in Commitments : Aside(rs[c], os[c])
    BY <2>3, RestoredAside
  <2>5. os = [c \in Commitments |-> os[c]]
    BY DEF Restored
  <2> HIDE DEF os, M, U
  <2>6. os \in [Commitments -> OutputShape]
    BY <2>4, <2>5 DEF Aside
  <2>7. \A c \in Commitments : Projected(os[c], M(c) \cap (1 .. safe), U(c) \cap (1 .. safe))
    BY <2>1, <2>4, AsideProjected
  <2> QED BY <2>6, <2>7 DEF os, rs

\* Blocks that agree at a height are the same up to there.
<1>g. ASSUME NEW n \in 0 .. Tip, n \in 0 .. Len(scanned), n = 0 \/ n \in Agreeing
      PROVE  \A c : /\ M(c) \cap (1 .. n) = Makes(content, chain, c) \cap (1 .. n)
                    /\ U(c) \cap (1 .. n) = Uses(txs, content, chain, c) \cap (1 .. n)
  <2> DEFINE P == SubSeq(chain, 1, n)
  <2>1. \A i \in 1 .. n : chain[i] = scanned[i]
    <3>1. CASE n = 0
      BY SMT, <3>1
    <3>2. CASE n \in Agreeing
      <4>1. n \in DOMAIN chain \cap DOMAIN scanned /\ chain[n] = scanned[n]
        BY SMT, <1>d, <3>2 DEF Agreeing
      <4> QED BY <1>s, <4>1 DEF Ancestry
    <3> QED BY <1>g, <3>1, <3>2
  <2>2. DOMAIN P = 1 .. n /\ \A i \in 1 .. n : P[i] = chain[i]
    BY SMT, <1>s, <1>d, Prefix DEF Tip
  <2>3. n \in Nat /\ 1 .. n \subseteq DOMAIN chain /\ 1 .. n \subseteq DOMAIN scanned
    BY SMT, <1>d, <1>g
  <2>4. First(P, n, scanned) /\ First(P, n, chain)
    BY <2>1, <2>2, <2>3 DEF First
  <2> HIDE DEF P
  <2>5. \A c : /\ Makes(content, P, c) = M(c) \cap (1 .. n)
               /\ Uses(txs, content, P, c) = U(c) \cap (1 .. n)
    BY SMT, <2>4, FirstUses, FirstMakes
  <2>6. \A c : /\ Makes(content, P, c) = Makes(content, chain, c) \cap (1 .. n)
               /\ Uses(txs, content, P, c) = Uses(txs, content, chain, c) \cap (1 .. n)
    BY SMT, <2>4, FirstUses, FirstMakes
  <2> QED BY <2>5, <2>6
<1> SUFFICES Good
  OBVIOUS
<1>1. ASSUME NEW t \in Txs, NEW s \in SUBSET Commitments,
             NEW expires \in {Tip + 1, MaxHeight + 1}, SendReserve(t, s, expires)
      PROVE  Good
  <2> DEFINE os == [c \in Commitments |->
                      IF c \in s THEN [outputs[c] EXCEPT !.owner = t, !.state = "PendingOutgoing"]
                      ELSE outputs[c]]
  <2>1. scanned' = scanned /\ (outputs' = os \/ outputs' = outputs)
    BY <1>1 DEF SendReserve, Commit
  <2>2. \A c \in s : outputs[c].state = "Confirmed"
    BY <1>1 DEF SendReserve, Selections, Spendable
  <2>3. ASSUME NEW c \in Commitments PROVE Aside(outputs[c], os[c])
    <3>1. outputs[c] \in OutputShape /\ t \in 0 .. MaxTxs
      BY SMT, <1>s DEF Txs
    <3> QED BY <2>2, <3>1, OwnerAside
  <2>4. os = [c \in Commitments |-> os[c]]
    OBVIOUS
  <2> HIDE DEF os, Good
  <2> QED BY <1>a, <1>b, <2>1, <2>3, <2>4
<1>2. CASE SendBuild
  <2> DEFINE d == Change(op.tx)
             new == [NoOutput EXCEPT !.state = "PendingIncoming"]
  <2>1. scanned' = scanned /\ (outputs' = [outputs EXCEPT ![d] = new] \/ outputs' = outputs)
    BY <1>2 DEF SendBuild, Commit
  <2>2. op.tx \in Txs /\ ~txs[op.tx].context
    BY <1>2, <1>s DEF SendBuild, CallInv, ChainInv
  <2>3. d \in Commitments /\ ~(d <= Funds) /\ d - Funds = op.tx
    BY SMT, <2>2, FundsAssumption, MaxTxsAssumption DEF Change, Commitments, Txs
  <2>4. Holds(content, scanned, op.tx) = {}
    <3>1. ~InPlay(op.tx)
      BY <2>2 DEF ChainInv
    <3>2. \A h \in DOMAIN scanned : scanned[h] \in DOMAIN content
      BY SMT, <1>s DEF Shape
    <3> QED BY <3>1, <3>2 DEF InPlay, Holds
  <2>5. M(d) = {}
    BY <2>3, <2>4 DEF Makes
  <2>6. new \in OutputShape /\ new.born = 0 /\ new.spent = 0 /\ new.state = "PendingIncoming"
    BY SMT, MaxTxsAssumption DEF OutputShape, NoOutput
  <2> HIDE DEF d, new, M, U
  <2>7. Projected(new, M(d), U(d))
    BY <2>5, <2>6 DEF Projected
  <2>8. CASE outputs' = [outputs EXCEPT ![d] = new]
    <3>1. outputs' \in [Commitments -> OutputShape]
      BY <1>s, <2>6, <2>8
    <3>2. \A c \in Commitments : Projected(outputs'[c], M(c), U(c))
      BY <1>s, <2>3, <2>7, <2>8
    <3> QED BY <1>k, <2>1, <3>1, <3>2
  <2> HIDE DEF Good
  <2> QED BY <1>b, <2>1, <2>8
<1>3. ASSUME NEW t \in Txs, Cancel(t) PROVE Good
  <2>1. scanned' = scanned /\ (outputs' = Released(outputs, txs[t].bound) \/ outputs' = outputs)
    BY <1>3 DEF Cancel, Commit
  <2>2. \A c \in Commitments : Aside(outputs[c], Released(outputs, txs[t].bound)[c])
    BY <1>s, ReleasedAside
  <2>3. Released(outputs, txs[t].bound) = [c \in Commitments |-> Released(outputs, txs[t].bound)[c]]
    BY DEF Released
  <2> HIDE DEF Good
  <2> QED BY <1>a, <1>b, <2>1, <2>2, <2>3
<1>4. CASE SyncNext
  <2> DEFINE lo == Len(scanned)
  <2>1. CommitPage(txs, outputs, lo, PageEnd(lo)) /\ CursorCanonical /\ lo \in 0 .. Tip
    BY SMT, <1>4, <1>d DEF SyncNext
  <2>2. lo = 0 \/ lo \in Agreeing
    BY <2>1 DEF CursorCanonical
  <2>3. \A c : /\ M(c) \cap (1 .. lo) = Makes(content, chain, c) \cap (1 .. lo)
               /\ U(c) \cap (1 .. lo) = Uses(txs, content, chain, c) \cap (1 .. lo)
    BY SMT, <1>d, <1>g, <2>1, <2>2
  <2>4. \A c : M(c) \cap (1 .. lo) = M(c) /\ U(c) \cap (1 .. lo) = U(c)
    BY <1>d DEF Makes, Holds, Uses
  <2> HIDE DEF lo, M, U
  <2>5. \A c \in Commitments :
          Projected(outputs[c], Makes(content, chain, c) \cap (1 .. lo),
                                Uses(txs, content, chain, c) \cap (1 .. lo))
    BY <1>s, <2>3, <2>4
  <2> QED BY <1>s, <2>1, <2>5, PageSteps
<1>5. CASE SyncReorg
  <2> DEFINE os(safe) == Restored(RewoundTxs(safe), RewoundOutputs(safe))
  <2>1. PICK safe \in Agreeing : CommitPage(RewoundTxs(safe), os(safe), safe, PageEnd(safe))
    BY <1>5 DEF SyncReorg
  <2>2. safe \in 0 .. Tip /\ safe \in 0 .. Len(scanned) /\ safe \in Nat
    BY SMT, <1>d DEF Agreeing
  <2>3. \A c : /\ M(c) \cap (1 .. safe) = Makes(content, chain, c) \cap (1 .. safe)
               /\ U(c) \cap (1 .. safe) = Uses(txs, content, chain, c) \cap (1 .. safe)
    BY <1>g, <2>2
  <2>4. /\ os(safe) \in [Commitments -> OutputShape]
        /\ \A c \in Commitments :
             Projected(os(safe)[c], M(c) \cap (1 .. safe), U(c) \cap (1 .. safe))
    BY <1>w, <2>2
  <2> HIDE DEF os, M, U
  <2>5. \A c \in Commitments :
          Projected(os(safe)[c], Makes(content, chain, c) \cap (1 .. safe),
                                 Uses(txs, content, chain, c) \cap (1 .. safe))
    BY <2>3, <2>4
  <2> QED BY <2>1, <2>2, <2>4, <2>5, PageSteps
<1>6. CASE Rescan
  <2> DEFINE os == Restored(RewoundTxs(0), RewoundOutputs(0))
  <2>1. outputs' = os /\ scanned' = <<>>
    BY <1>6 DEF Rescan
  <2>2. /\ os \in [Commitments -> OutputShape]
        /\ \A c \in Commitments : Projected(os[c], M(c) \cap (1 .. 0), U(c) \cap (1 .. 0))
    BY <1>w
  <2>3. \A c : Makes(content', <<>>, c) = {} /\ Uses(txs', content', <<>>, c) = {}
    BY SMT DEF Makes, Holds, Uses
  <2>4. \A c : M(c) \cap (1 .. 0) = {} /\ U(c) \cap (1 .. 0) = {}
    BY SMT
  <2> HIDE DEF os, M, U
  <2> QED BY <2>1, <2>2, <2>3, <2>4
<1> HIDE DEF Good
<1> QED
  BY <1>b, <1>1, <1>2, <1>3, <1>4, <1>5, <1>6
     DEF Next, Command, CommandCut, Sync, ResponseImport, Finalize, FinalizedExport, SubmitBegin,
         NodeAnswers, AnswerLost, SubmitEnd, Reconcile, CancelRefused, CommitTx, Commit,
         NodeExtends, walletVars, vars

-----------------------------------------------------------------------------
(***************************************************************************)
(* The projection.                                                         *)
(***************************************************************************)
LEMMA ChainInit == Init => ChainInv
<1> SUFFICES ASSUME Init PROVE ChainInv
  OBVIOUS
<1>1. IInv
  BY InvInit
<1>2. /\ chain = <<1>> /\ scanned = <<1>> /\ content = << {} >> /\ pool = {}
      /\ Len(content) = 1 /\ DOMAIN content = {1} /\ content[1] = {}
      /\ \A t \in Txs : txs[t] = NoTx
  BY SMT DEF Init, NodeInit
<1>3. <<1>> \in Seq(1 .. 1) /\ Len(<<1>>) = 1 /\ DOMAIN <<1>> = {1} /\ <<1>>[1] = 1
  BY SMT
<1>4. /\ \A t : Holds(content, <<1>>, t) = {}
      /\ \A c : Uses(txs, content, <<1>>, c) = {}
      /\ \A c : Makes(content, <<1>>, c) = IF c <= Funds THEN {1} ELSE {}
  BY <1>2, <1>3 DEF Holds, Uses, Makes
<1>5. Sound(txs, content, <<1>>)
  BY <1>4 DEF Sound
<1>6. BlockInv
  BY SMT, <1>2, <1>3, <1>5, MaxHeightAssumption DEF BlockInv, Ancestry
<1>7. ASSUME NEW c \in Commitments
      PROVE  /\ outputs[c] \in OutputShape
             /\ Projected(outputs[c], Makes(content, scanned, c), Uses(txs, content, scanned, c))
  <2>1. outputs[c] = IF c <= Funds THEN [NoOutput EXCEPT !.state = "Confirmed", !.born = 1]
                     ELSE NoOutput
    BY DEF Init
  <2>2. /\ NoOutput \in OutputShape
        /\ [NoOutput EXCEPT !.state = "Confirmed", !.born = 1] \in OutputShape
    <3>1. 0 \in 0 .. MaxTxs /\ 0 \in Nat /\ 1 \in Nat
      BY SMT, MaxTxsAssumption
    <3> QED BY <3>1 DEF NoOutput, OutputShape
  <2> QED BY SMT, <1>2, <1>4, <2>1, <2>2 DEF Projected, NoOutput
<1>8. outputs \in [Commitments -> OutputShape]
  BY <1>7 DEF Init
<1>9. \A t \in Txs : RecordInv(txs[t]) /\ ~InPlay(t)
  BY SMT, <1>2 DEF RecordInv, NoTx, Late, InPlay
<1>10. op.kind # "building"
  BY DEF Init, NoOp
<1> QED BY <1>1, <1>6, <1>7, <1>8, <1>9, <1>10 DEF ChainInv

\* Every step preserves the invariant.
LEMMA ChainStep == ChainInv /\ [Next]_vars => ChainInv'
<1> SUFFICES ASSUME ChainInv, [Next]_vars PROVE ChainInv'
  OBVIOUS
<1>1. IInv'
  BY InvStep DEF ChainInv
<1>2. \A t \in Txs : RecordInv(txs'[t])
  BY RecordsKeep
<1>3. \A t \in Txs : RecordInv(txs[t])'
  BY <1>2 DEF RecordInv
<1> QED BY <1>1, <1>3, PlayKeeps, BlocksKeep, OutputsKeep DEF ChainInv

\* Whatever sends, cancellations, pages, reorganizations and rescans lie
\* behind, the wallet's output records say of the chain what a scan of the
\* committed blocks from scratch would say (rewind_recovery_state,
\* merge_restored_output): created at that height, spent at that one.
THEOREM ProjectionIsFaithful == Spec => []ProjectionFaithful
<1>1. ChainInv => ProjectionFaithful
  <2> SUFFICES ASSUME ChainInv, NEW c \in Commitments
               PROVE  /\ {h \in 1 .. MaxHeight : h = outputs[c].born} = CreatedIn(scanned, c)
                      /\ {h \in 1 .. MaxHeight : h = outputs[c].spent} =
                            IF outputs[c].born > 0 THEN SpentIn(scanned, c) ELSE {}
                      /\ outputs[c].state = "Spent" <=> outputs[c].spent > 0
    BY DEF ProjectionFaithful
  <2> DEFINE M == Makes(content, scanned, c)
             U == Uses(txs, content, scanned, c)
             o == outputs[c]
  <2>1. CreatedIn(scanned, c) = M /\ SpentIn(scanned, c) = U
    BY Named
  <2>2. o \in OutputShape /\ Projected(o, M, U)
    BY DEF ChainInv
  <2>b. /\ scanned \in Seq(1 .. Len(content)) /\ Len(scanned) <= MaxHeight
        /\ Sound(txs, content, scanned)
    BY DEF ChainInv, BlockInv
  <2>3. DOMAIN scanned \subseteq 1 .. MaxHeight /\ Sound(txs, content, scanned)
    BY SMT, <2>b, MaxHeightAssumption
  <2>4. M \subseteq 1 .. MaxHeight /\ U \subseteq 1 .. MaxHeight
    BY <2>3 DEF Makes, Holds, Uses
  <2>5. \A g, h \in M : g = h
    <3>1. c > Funds => c - Funds \in Txs
      BY SMT, FundsAssumption, MaxTxsAssumption DEF Commitments, Txs
    <3> QED BY SMT, <2>3, <3>1, FundsAssumption DEF Makes, Sound, Commitments
  <2>6. (\A g, h \in U : g = h) /\ (U # {} => M # {})
    BY <2>3 DEF Sound
  <2> HIDE DEF M, U, o
  <2>7. o.born \in Nat /\ o.spent \in Nat
    BY <2>2 DEF OutputShape
  <2>m. /\ M = {} => o.born = 0 /\ o.spent = 0
        /\ M # {} => o.born \in M
        /\ M # {} /\ U = {} => o.spent = 0
        /\ M # {} /\ U # {} => o.spent \in U
    BY <2>2 DEF Projected
  <2>8. {h \in 1 .. MaxHeight : h = o.born} = M /\ (o.born > 0 <=> M # {})
    <3>1. CASE M = {}
      BY SMT, <2>m, <3>1
    <3>2. CASE M # {}
      <4>0. o.born \in M /\ o.born \in 1 .. MaxHeight
        BY <2>m, <2>4, <3>2
      <4>1. o.born \in M /\ o.born \in 1 .. MaxHeight /\ o.born > 0
        BY SMT, <4>0, MaxHeightAssumption
      <4>2. \A h \in M : h = o.born /\ h \in 1 .. MaxHeight
        BY <2>4, <2>5, <4>1
      <4> QED BY <3>2, <4>1, <4>2
    <3> QED BY <3>1, <3>2
  <2>9. {h \in 1 .. MaxHeight : h = o.spent} = IF o.born > 0 THEN U ELSE {}
    <3>1. CASE U = {}
      BY SMT, <2>m, <3>1
    <3>2. CASE U # {}
      <4>1. o.spent \in U /\ o.spent \in 1 .. MaxHeight
        BY <2>m, <2>4, <2>6, <3>2
      <4>2. \A h \in U : h = o.spent /\ h \in 1 .. MaxHeight
        BY <2>4, <2>6, <4>1
      <4> QED BY <2>6, <2>8, <3>2, <4>1, <4>2
    <3> QED BY <3>1, <3>2
  <2>10. o.state = "Spent" <=> o.spent > 0
    BY SMT, <2>2, <2>7 DEF Projected
  <2> QED BY <2>1, <2>8, <2>9, <2>10 DEF o
<1> QED BY <1>1, ChainInit, ChainStep, PTL DEF Spec

\* The lifecycles of a transaction that was submitted, and those the scan does
\* not change any more.
Sent == {"Submitting", "Submitted", "AcceptedNotRelayed", "InMempool", "Confirmed",
         "Reorged", "RetransmitRequired", "Failed", "ReconciliationRequired"}
Settled == {"Confirmed", "Failed", "ReconciliationRequired"}

\* With no query and no export: what is in play has been submitted, and the
\* scan has the last word on what it has seen.
SettledInv ==
    /\ ChainInv
    /\ Valid(txs, outputs)
    /\ \A t \in Txs : InPlay(t) => txs[t].lifecycle \in Sent
    /\ OnChainIsSettled
    /\ ConfirmedInScannedBlock

\* With one chain and one cancellation: the cursor is a prefix of the chain and
\* no record is ever dropped.
Rooted(o) == o.state \in {"Confirmed", "PendingOutgoing"} => o.born # 0
Held(ts, os) ==
    \A t \in Txs : Alive(ts[t]) =>
        \A c \in ts[t].inputs : os[c].owner = t \/ os[c].state = "Spent"

HeldInv ==
    /\ ChainInv
    /\ \A h \in DOMAIN scanned : h \in DOMAIN chain /\ chain[h] = scanned[h]
    /\ \A c \in Commitments : Rooted(outputs[c])
    /\ \A t \in Txs : \A c \in txs[t].inputs : outputs[c].born # 0
    /\ Held(txs, outputs)

-----------------------------------------------------------------------------
\* Every commit is checked: WalletState::validate holds of what is durable.
LEMMA ValidKept ==
    ASSUME Valid(txs, outputs), [Next]_vars PROVE Valid(txs', outputs')
<1>1. ASSUME NEW ts, NEW os, NEW next, Commit(ts, os, next) PROVE Valid(txs', outputs')
  <2>1. Valid(ts, os) => txs' = ts /\ outputs' = os
    BY <1>1 DEF Commit
  <2>2. ~Valid(ts, os) => txs' = txs /\ outputs' = outputs
    BY <1>1 DEF Commit
  <2> QED BY <2>1, <2>2
<1>2. ASSUME NEW ts, NEW os, NEW lo, NEW hi, CommitPage(ts, os, lo, hi)
      PROVE  Valid(txs', outputs')
  BY <1>2 DEF CommitPage
<1>3. ASSUME Rescan PROVE Valid(txs', outputs')
  BY <1>3 DEF Rescan
<1>4. ASSUME UNCHANGED <<txs, outputs>> PROVE Valid(txs', outputs')
  BY <1>4
<1>5. \/ \E ts, os, next : Commit(ts, os, next)
      \/ \E ts, os, lo, hi : CommitPage(ts, os, lo, hi)
      \/ Rescan
      \/ UNCHANGED <<txs, outputs>>
  BY DEF Next, Command, CommandCut, Sync, SyncNext, SyncReorg, SendReserve, SendBuild,
         ResponseImport, Finalize, FinalizedExport, SubmitBegin, NodeAnswers, AnswerLost,
         SubmitEnd, Reconcile, Cancel, CancelRefused, CommitTx, NodeExtends, walletVars, vars
<1> QED BY <1>1, <1>2, <1>3, <1>4, <1>5

\* The empty wallet is valid.
LEMMA ValidInit == Init => Valid(txs, outputs)
<1> SUFFICES ASSUME Init PROVE Valid(txs, outputs)
  OBVIOUS
<1>1. \A t \in Txs : txs[t] = NoTx
  BY DEF Init
<1>2. NoTx.exposure = 0 /\ MinimumExposure(NoTx) = 0
  BY DEF NoTx, MinimumExposure, NeverBroadcast
<1>3. \A c \in Commitments : outputs[c].owner = 0
  BY DEF Init, NoOutput
<1> QED BY SMT, <1>1, <1>2, <1>3 DEF Valid

\* validate: a submitted transaction is exposed.
LEMMA SentIsExposed ==
    ASSUME NEW ts \in [Txs -> TxShape], NEW os, Valid(ts, os), NEW t \in Txs, ts[t].lifecycle \in Sent
    PROVE  ts[t].exposure # NeverBroadcast
<1>1. ts[t].exposure \in Nat /\ ts[t].exposure >= MinimumExposure(ts[t])
  BY ExposureTypes DEF Valid, TxShape
<1>2. MinimumExposure(ts[t]) \in {1, 2}
  BY DEF MinimumExposure, Sent, SubmissionStarted, PossiblyRelayed
<1> QED BY SMT, <1>1, <1>2 DEF NeverBroadcast

-----------------------------------------------------------------------------
(***************************************************************************)
(* What a command does to a record whose kernel the chain may hold.        *)
(***************************************************************************)
Rests(a, b) ==
    /\ b.lifecycle = "Confirmed" => a.lifecycle = "Confirmed" /\ b.block = a.block
    /\ a.lifecycle \in Sent /\ a.exposure # NeverBroadcast => b.lifecycle \in Sent
    /\ a.lifecycle \in Settled /\ a.exposure # NeverBroadcast => b.lifecycle \in Settled

\* A transaction that went to the node is settled or the next page settles it.
LEMMA SentLifecycles ==
    /\ Settled \subseteq Sent /\ Settling \subseteq Sent
    /\ Sent \subseteq Settled \union Settling /\ Settled \cap Settling = {}
    /\ "Confirmed" \in Settled
BY DEF Sent, Settled, Settling

\* A transition that confirms nothing and does not leave those lifecycles rests.
LEMMA TransitionRests ==
    ASSUME NEW tx \in TxShape, NEW lifecycle \in Lifecycles, NEW block \in Blocks, NEW evidence,
           lifecycle # "Confirmed",
           tx.lifecycle \in Sent /\ tx.exposure # NeverBroadcast => lifecycle \in Sent,
           tx.lifecycle \in Settled /\ tx.exposure # NeverBroadcast => lifecycle \in Settled
    PROVE  Rests(tx, Transition(tx, lifecycle, block, evidence))
<1> DEFINE r == Transition(tx, lifecycle, block, evidence)
<1>1. r.lifecycle = lifecycle
  BY DEF Transition, TxShape
<1> SUFFICES Rests(tx, r)
  OBVIOUS
<1> HIDE DEF r
<1> QED BY <1>1 DEF Rests

\* A change of the other fields rests.
LEMMA FieldRests ==
    ASSUME NEW tx, NEW mid \in TxShape, Rests(tx, mid)
    PROVE  /\ Rests(tx, [mid EXCEPT !.bytes = TRUE])
           /\ Rests(tx, [mid EXCEPT !.context = TRUE])
           /\ \A b : Rests(tx, [mid EXCEPT !.submitted = b])
BY DEF Rests, TxShape

\* Without queries no command confirms a transaction or unsettles one.
LEMMA CommandsRest ==
    ASSUME ChainInv, [Next]_vars, "reconcile" \notin Features, ~Sync, ~Rescan
    PROVE  \A t \in Txs : Rests(txs[t], txs'[t])
<1> DEFINE Good(ts) == \A t \in Txs : Rests(txs[t], ts[t])
<1>s. /\ CallInv /\ DraftInv /\ txs \in [Txs -> TxShape] /\ \A t \in Txs : txs[t] \in TxShape
  BY DEF ChainInv, IInv, Shape
<1>r. Good(txs)
  BY DEF Rests
<1>u. ASSUME NEW t \in Txs, NEW record, Rests(txs[t], record)
      PROVE  Good([txs EXCEPT ![t] = record])
  BY <1>u, <1>r, <1>s
<1>b. NoBlock \in Blocks
  BY DEF NoBlock, Blocks
<1> SUFFICES Good(txs')
  OBVIOUS
<1> HIDE DEF Good
<1>1. ASSUME NEW t \in Txs, NEW s \in SUBSET Commitments,
             NEW expires \in {Tip + 1, MaxHeight + 1}, SendReserve(t, s, expires)
      PROVE  Good(txs')
  <2> DEFINE new == [NoTx EXCEPT !.lifecycle = "InputsReserved",
                          !.inputs = s, !.bound = s, !.expires = expires]
  <2>1. txs[t].lifecycle = "Draft"
    BY <1>1 DEF SendReserve, Created
  <2>2. new.lifecycle = "InputsReserved"
    BY DEF NoTx
  <2>3. txs' = [txs EXCEPT ![t] = new] \/ txs' = txs
    BY <1>1 DEF SendReserve, Commit
  <2> HIDE DEF new
  <2>4. Rests(txs[t], new)
    BY <2>1, <2>2 DEF Rests, Sent, Settled
  <2> QED BY <1>u, <1>r, <2>3, <2>4
<1>2. CASE SendBuild
  <2>1. op.tx \in Txs
    BY <1>2, <1>s DEF SendBuild, CallInv
  <2>2. txs' = [txs EXCEPT ![op.tx] = [txs[op.tx] EXCEPT !.context = TRUE]] \/ txs' = txs
    BY <1>2, <2>1, <1>s DEF SendBuild, Commit
  <2>3. Rests(txs[op.tx], [txs[op.tx] EXCEPT !.context = TRUE])
    <3>1. Rests(txs[op.tx], txs[op.tx])
      BY DEF Rests
    <3> QED BY <1>s, <2>1, <3>1, FieldRests
  <2> QED BY <1>u, <1>r, <2>1, <2>2, <2>3
<1>3. ASSUME NEW t \in Txs, ResponseImport(t) PROVE Good(txs')
  <2> DEFINE new == Transition(txs[t], "ResponseImported", NoBlock, "RecipientResponse")
  <2>1. txs[t].lifecycle \notin Sent \union Settled
    BY <1>3 DEF ResponseImport, Allowed, Edges, Sent, Settled
  <2>2. Rests(txs[t], new)
    BY <1>b, <1>s, <2>1, TransitionRests DEF Lifecycles
  <2>3. txs' = [txs EXCEPT ![t] = new] \/ txs' = txs
    BY <1>3 DEF ResponseImport, CommitTx, Commit
  <2> QED BY <1>u, <1>r, <2>2, <2>3
<1>4. ASSUME NEW t \in Txs, Finalize(t) PROVE Good(txs')
  <2> DEFINE mid == Transition(txs[t], "Finalized", NoBlock, "Finalization")
  <2>1. txs[t].lifecycle \notin Sent \union Settled
    BY SMT, <1>4 DEF Finalize, Allowed, Edges, Sent, Settled
  <2>2. Rests(txs[t], mid) /\ Evolves(txs[t], mid)
    BY SMT, <1>b, <1>s, <2>1, TransitionRests, TransitionEvolves DEF Lifecycles
  <2>3. Rests(txs[t], [mid EXCEPT !.bytes = TRUE])
    BY <2>2, FieldRests DEF Evolves
  <2>4. txs' = [txs EXCEPT ![t] = [mid EXCEPT !.bytes = TRUE]] \/ txs' = txs
    BY <1>4 DEF Finalize, CommitTx, Commit
  <2> QED BY <1>u, <1>r, <2>3, <2>4
<1>5. ASSUME NEW t \in Txs, NEW retry \in BOOLEAN, SubmitBegin(t, retry) PROVE Good(txs')
  <2> DEFINE new == Transition(txs[t], "Submitting", NoBlock, "SubmissionStarted")
  <2>1. txs[t].lifecycle \notin Settled /\ "Submitting" \in Sent
    BY <1>5 DEF SubmitBegin, MaySubmit, Sent, Settled
  <2>2. Rests(txs[t], new)
    BY <1>b, <1>s, <2>1, TransitionRests DEF Lifecycles
  <2>3. txs' = [txs EXCEPT ![t] = new] \/ txs' = txs
    BY <1>5 DEF SubmitBegin, CommitTx, Commit
  <2> QED BY <1>u, <1>r, <2>2, <2>3
<1>6. CASE SubmitEnd
  <2> DEFINE tx == txs[op.tx]
             mid == Transition(tx, OutcomeTarget(op.outcome), NoBlock, OutcomeEvidence(op.outcome))
             b == mid.submitted \/ op.outcome \in {"accepted", "unrelayed", "known"}
  <2>1. op.tx \in Txs /\ op.outcome \in Outcomes /\ tx.lifecycle = "Submitting"
    BY <1>6, <1>s DEF SubmitEnd, CallInv
  <2>2. OutcomeTarget(op.outcome) \in (Sent \cap Lifecycles) \ {"Confirmed", "Draft", "Cancelled"}
    BY <2>1 DEF OutcomeTarget, Outcomes, Sent, Lifecycles
  <2>3. tx \in TxShape /\ tx.lifecycle \notin Settled
    BY <1>s, <2>1 DEF Settled
  <2>4. Rests(tx, mid) /\ Evolves(tx, mid)
    BY <1>b, <2>2, <2>3, TransitionRests, TransitionEvolves
  <2>5. Rests(tx, [mid EXCEPT !.submitted = b])
    BY <2>4, FieldRests DEF Evolves
  <2>6. OutcomeApplied(tx, op.outcome) = [mid EXCEPT !.submitted = b]
    BY DEF OutcomeApplied
  <2>7. txs' = [txs EXCEPT ![op.tx] = OutcomeApplied(tx, op.outcome)] \/ txs' = txs
    BY <1>6 DEF SubmitEnd, CommitTx, Commit
  <2> QED BY SMT, <1>u, <1>r, <2>1, <2>5, <2>6, <2>7
<1>7. ASSUME NEW t \in Txs, Cancel(t) PROVE Good(txs')
  <2> DEFINE new == Transition(txs[t], "Cancelled", NoBlock, "Cancellation")
  <2>1. txs[t].exposure = NeverBroadcast
    BY <1>7 DEF Cancel, ReleaseNeverBroadcast
  <2>2. Rests(txs[t], new)
    BY <1>b, <1>s, <2>1, TransitionRests DEF Lifecycles
  <2>3. txs' = [txs EXCEPT ![t] = new] \/ txs' = txs
    BY <1>7, <1>s DEF Cancel, Commit
  <2> QED BY <1>u, <1>r, <2>2, <2>3
<1>8. ASSUME NEW t \in Txs, CancelRefused(t) PROVE Good(txs')
  <2> DEFINE new == Transition(txs[t], "ReconciliationRequired", NoBlock,
                               "ReconciliationEvidence")
  <2>1. "ReconciliationRequired" \in Sent \cap Settled
    BY DEF Sent, Settled
  <2>2. Rests(txs[t], new)
    BY <1>b, <1>s, <2>1, TransitionRests DEF Lifecycles
  <2>3. txs' = [txs EXCEPT ![t] = new] \/ txs' = txs
    BY <1>8 DEF CancelRefused, CommitTx, Commit
  <2> QED BY <1>u, <1>r, <2>2, <2>3
<1>9. CASE txs' = txs
  BY <1>9, <1>r
<1> QED
  BY <1>1, <1>2, <1>3, <1>4, <1>5, <1>6, <1>7, <1>8, <1>9
     DEF Next, Command, FinalizedExport, NodeAnswers, AnswerLost, CommandCut, Reconcile,
         NodeExtends, walletVars, vars
-----------------------------------------------------------------------------
(***************************************************************************)
(* The scan.                                                               *)
(***************************************************************************)

\* What the records ts say of the first lo blocks of the chain.
Seen(ts, lo) ==
    \A t \in Txs :
        /\ Holds(content, chain, t) \cap (1 .. lo) # {} => ts[t].lifecycle \in Settled
        /\ ts[t].lifecycle = "Confirmed" =>
              \E h \in Holds(content, chain, t) \cap (1 .. lo) :
                  ts[t].block = BlockAt(chain, h)
        /\ InPlay(t) => ts[t].lifecycle \in Sent /\ ts[t].exposure # NeverBroadcast

\* A transaction in a block was given to the network.
LEMMA HeldIsInPlay ==
    ASSUME ChainInv, NEW t \in Txs, Holds(content, chain, t) # {} PROVE InPlay(t)
BY SMT DEF Holds, InPlay, ChainInv, BlockInv, IInv, Shape

\* A page settles what its blocks hold, and leaves the rest alone.
LEMMA PageSettles ==
    ASSUME ChainInv, NEW ts \in [Txs -> TxShape], NEW lo \in Nat, NEW hi \in Nat, lo <= hi,
           Seen(ts, lo)
    PROVE  Seen(PageTxs(ts, lo, hi), hi)
<1> SUFFICES ASSUME NEW t \in Txs
             PROVE  LET new == PageTxs(ts, lo, hi)[t]
                        H == Holds(content, chain, t)
                    IN  /\ H \cap (1 .. hi) # {} => new.lifecycle \in Settled
                        /\ new.lifecycle = "Confirmed" =>
                             \E h \in H \cap (1 .. hi) : new.block = BlockAt(chain, h)
                        /\ InPlay(t) => new.lifecycle \in Sent /\ new.exposure # NeverBroadcast
  BY DEF Seen
<1> DEFINE H == Holds(content, chain, t)
           found == H \intersect (lo + 1 .. hi)
           b == BlockAt(chain, CHOOSE h \in found : TRUE)
           new == PageTxs(ts, lo, hi)[t]
<1>1. new = IF found = {} THEN ts[t] ELSE KernelFound(ts[t], b)
  <2> DEFINE heights == HeightsOf(chain, t) \intersect (lo + 1 .. hi)
  <2>1. new = IF heights = {} THEN ts[t]
              ELSE KernelFound(ts[t], BlockAt(chain, CHOOSE h \in heights : TRUE))
    BY DEF PageTxs
  <2>2. heights = found
    BY Named
  <2> QED BY <2>1, <2>2
<1>2. /\ H \cap (1 .. lo) # {} => ts[t].lifecycle \in Settled
      /\ ts[t].lifecycle = "Confirmed" =>
            \E h \in H \cap (1 .. lo) : ts[t].block = BlockAt(chain, h)
      /\ InPlay(t) => ts[t].lifecycle \in Sent /\ ts[t].exposure # NeverBroadcast
  BY DEF Seen
<1>3. H \subseteq Nat \ {0} /\ \A g, h \in H : g = h
  <2>1. chain \in Seq(1 .. Len(content)) /\ Sound(txs, content, chain)
    BY DEF ChainInv, BlockInv
  <2> QED BY SMT, <2>1 DEF Sound, Holds
<1>4. H # {} => InPlay(t)
  BY HeldIsInPlay
<1>5. ts[t] \in TxShape /\ Evolves(ts[t], new)
  BY PageEvolves DEF ChainInv, IInv
<1>6. new.exposure # NeverBroadcast \/ ts[t].exposure = NeverBroadcast
  BY SMT, <1>5, ExposureTypes DEF Evolves, TxShape, NeverBroadcast
<1> HIDE DEF H
<1>7. H \cap (1 .. hi) = (H \cap (1 .. lo)) \union found
  BY SMT, <1>3
<1>8. CASE found = {}
  BY <1>1, <1>2, <1>7, <1>8 DEF H
<1>9. CASE found # {}
  <2>1. (CHOOSE h \in found : TRUE) \in found
    BY <1>9
  <2>2. H \cap (1 .. lo) = {}
    BY SMT, <1>3, <2>1
  <2>3. ts[t].lifecycle \in Sent \ {"Confirmed"} /\ ts[t].exposure # NeverBroadcast
    BY <1>2, <1>4, <2>1, <2>2
  <2>4. \E h \in H \cap (1 .. hi) : b = BlockAt(chain, h)
    BY <1>7, <2>1
  <2> HIDE DEF b, new, found
  <2>5. CASE ts[t].lifecycle \in Settling
    <3>1. new = Transition(ts[t], "Confirmed", b, "ConfirmationEvidence")
      BY <1>1, <1>9, <2>5 DEF KernelFound
    <3>2. new.lifecycle = "Confirmed" /\ new.block = b
      BY <1>5, <3>1 DEF Transition, TxShape
    <3> QED BY <1>6, <2>3, <2>4, <3>2, SentLifecycles DEF H, new
  <2>6. CASE ts[t].lifecycle \notin Settling
    <3>1. new = ts[t]
      BY <1>1, <1>9, <2>3, <2>6 DEF KernelFound
    <3>2. new.lifecycle \in Settled \ {"Confirmed"}
      BY <2>3, <2>6, <3>1, SentLifecycles
    <3> QED BY <1>6, <2>3, <3>2, SentLifecycles DEF H, new
  <2> QED BY <2>5, <2>6
<1> QED BY <1>8, <1>9

\* The expiry of reservations leaves what was submitted alone.
LEMMA ExpirySettles ==
    ASSUME ChainInv, NEW ts \in [Txs -> TxShape], NEW hi \in Nat, Seen(ts, hi)
    PROVE  Seen(ExpiredTxs(ts), hi)
<1> SUFFICES ASSUME NEW t \in Txs
             PROVE  LET new == ExpiredTxs(ts)[t]
                        H == Holds(content, chain, t)
                    IN  /\ H \cap (1 .. hi) # {} => new.lifecycle \in Settled
                        /\ new.lifecycle = "Confirmed" =>
                             \E h \in H \cap (1 .. hi) : new.block = BlockAt(chain, h)
                        /\ InPlay(t) => new.lifecycle \in Sent /\ new.exposure # NeverBroadcast
  BY DEF Seen
<1> DEFINE H == Holds(content, chain, t)
           new == ExpiredTxs(ts)[t]
<1>1. new = IF Expired(ts[t]) THEN Transition(ts[t], "Cancelled", NoBlock, "Cancellation")
            ELSE ts[t]
  BY DEF ExpiredTxs
<1>2. /\ H \cap (1 .. hi) # {} => ts[t].lifecycle \in Settled
      /\ ts[t].lifecycle = "Confirmed" =>
            \E h \in H \cap (1 .. hi) : ts[t].block = BlockAt(chain, h)
      /\ InPlay(t) => ts[t].lifecycle \in Sent /\ ts[t].exposure # NeverBroadcast
  BY DEF Seen
<1>3. H # {} => InPlay(t)
  BY HeldIsInPlay
<1>4. CASE ~Expired(ts[t])
  BY <1>1, <1>2, <1>4
<1>5. CASE Expired(ts[t])
  <2>1. ~InPlay(t)
    BY <1>2, <1>5 DEF Expired
  <2>2. new.lifecycle = "Cancelled"
    BY <1>1, <1>5 DEF Transition, TxShape
  <2> QED BY <1>3, <2>1, <2>2
<1> QED BY <1>4, <1>5

\* Current and rewound records agree with the blocks the scan continues from.
LEMMA RewindSettles ==
    ASSUME SettledInv, NEW lo \in Nat, lo <= Len(chain), lo <= Len(scanned),
           \A h \in 1 .. lo : chain[h] = scanned[h]
    PROVE  Seen(RewoundTxs(lo), lo)
<1> SUFFICES ASSUME NEW t \in Txs
             PROVE  LET new == RewoundTxs(lo)[t]
                        H == Holds(content, chain, t)
                    IN  /\ H \cap (1 .. lo) # {} => new.lifecycle \in Settled
                        /\ new.lifecycle = "Confirmed" =>
                             \E h \in H \cap (1 .. lo) : new.block = BlockAt(chain, h)
                        /\ InPlay(t) => new.lifecycle \in Sent /\ new.exposure # NeverBroadcast
  BY DEF Seen
<1> DEFINE H == Holds(content, chain, t)
           G == Holds(content, scanned, t)
           new == RewoundTxs(lo)[t]
           kept == [txs[t] EXCEPT !.bound = {c \in @ : outputs[c].born <= lo}]
<1>0. /\ ChainInv /\ Shape /\ txs \in [Txs -> TxShape] /\ txs[t] \in TxShape
      /\ chain \in Seq(1 .. Len(content)) /\ scanned \in Seq(1 .. Len(content))
      /\ \A g, h \in G : g = h
  BY DEF SettledInv, ChainInv, BlockInv, Sound, IInv, Shape
<1>1. new = IF txs[t].lifecycle = "Confirmed" /\ txs[t].block.height > lo
            THEN Transition(kept, "Reorged", NoBlock, "ReorgEvidence") ELSE kept
  BY DEF RewoundTxs
<1>2. kept.lifecycle = txs[t].lifecycle /\ kept.block = txs[t].block
  BY <1>0 DEF TxShape
<1>3. new.lifecycle = IF txs[t].lifecycle = "Confirmed" /\ txs[t].block.height > lo
                      THEN "Reorged" ELSE txs[t].lifecycle
  BY <1>0, <1>1, <1>2 DEF Transition, TxShape
<1>4. new.lifecycle = "Confirmed" => new.block = txs[t].block
  BY <1>1, <1>2, <1>3
<1>5. H \cap (1 .. lo) = G \cap (1 .. lo)
  BY SMTT(30), <1>0 DEF Holds
<1>6. /\ G # {} => txs[t].lifecycle \notin Settling
      /\ txs[t].lifecycle = "Confirmed" => \E h \in G : txs[t].block = BlockAt(scanned, h)
      /\ InPlay(t) => txs[t].lifecycle \in Sent
  BY Named DEF SettledInv, OnChainIsSettled, ConfirmedInScannedBlock
<1>7. InPlay(t) => new.lifecycle \in Sent
  BY <1>3, <1>6 DEF Sent
<1>8. InPlay(t) => new.exposure # NeverBroadcast
  <2>1. InPlay(t) => txs[t].exposure # NeverBroadcast
    BY <1>0, <1>6, SentIsExposed DEF SettledInv
  <2>2. Evolves(txs[t], new)
    BY <1>0, RewindEvolves
  <2> QED BY SMT, <1>0, <2>1, <2>2, ExposureTypes DEF Evolves, TxShape, NeverBroadcast
<1>9. \A h \in G : h \in Nat \ {0} /\ BlockAt(scanned, h).height = h
  BY SMT, <1>0 DEF Holds, BlockAt
<1> HIDE DEF G, H, new
<1>10. ASSUME H \cap (1 .. lo) # {} PROVE new.lifecycle \in Settled
  <2>1. G # {} /\ \A h \in G : h <= lo
    BY SMTT(30), <1>0, <1>5, <1>9, <1>10
  <2>2. txs[t].lifecycle = "Confirmed" => ~(txs[t].block.height > lo)
    BY SMT, <1>6, <1>9, <2>1
  <2>3. InPlay(t)
    BY <1>0, <1>10, HeldIsInPlay DEF H
  <2> QED BY <1>3, <1>6, <2>1, <2>2, <2>3, SentLifecycles
<1>11. ASSUME new.lifecycle = "Confirmed"
       PROVE  \E h \in H \cap (1 .. lo) : new.block = BlockAt(chain, h)
  <2>1. txs[t].lifecycle = "Confirmed" /\ ~(txs[t].block.height > lo)
    BY <1>3, <1>11
  <2>2. PICK h \in G : txs[t].block = BlockAt(scanned, h)
    BY <1>6, <2>1
  <2>3. h \in 1 .. lo
    BY SMT, <1>9, <2>1, <2>2
  <2>4. h \in H \cap (1 .. lo) /\ BlockAt(chain, h) = BlockAt(scanned, h)
    BY <1>5, <2>2, <2>3 DEF BlockAt
  <2> QED BY <1>4, <1>11, <2>2, <2>4
<1> QED BY <1>7, <1>8, <1>10, <1>11 DEF G, H, new

\* Records that agree with the blocks up to lo give records that agree with
\* the cursor once the page from lo is committed.
LEMMA ScanSettles ==
    ASSUME ChainInv, [Next]_vars, NEW ts \in [Txs -> TxShape], NEW os,
           NEW lo \in 0 .. Tip, CommitPage(ts, os, lo, PageEnd(lo)), Seen(ts, lo)
    PROVE  /\ \A t \in Txs : InPlay(t)' => txs'[t].lifecycle \in Sent
           /\ OnChainIsSettled'
           /\ ConfirmedInScannedBlock'
<1> DEFINE hi == PageEnd(lo)
<1>1. /\ Shape /\ chain \in Seq(1 .. Len(content)) /\ Tip \in Nat /\ lo \in Nat
      /\ hi \in 0 .. Tip /\ hi \in Nat /\ lo <= hi
  <2>1. Shape /\ chain \in Seq(1 .. Len(content))
    BY DEF ChainInv, BlockInv, IInv
  <2>2. Tip \in Nat /\ lo \in Nat
    BY SMT, <2>1 DEF Tip
  <2>3. hi \in 0 .. Tip /\ lo <= hi
    BY <2>2, PageBounds
  <2> QED BY SMT, <2>1, <2>2, <2>3
<1>2. /\ txs' = ExpiredTxs(PageTxs(ts, lo, hi)) /\ scanned' = SubSeq(chain, 1, hi)
      /\ chain' = chain /\ content' = content /\ pool' = pool
  BY DEF CommitPage, nodeVars
<1> HIDE DEF hi
<1>3. PageTxs(ts, lo, hi) \in [Txs -> TxShape]
  BY <1>1, PageEvolves DEF Evolves, PageTxs
<1>4. Seen(txs', hi)
  BY <1>1, <1>2, <1>3, PageSettles, ExpirySettles
<1>5. First(scanned', hi, chain)
  BY SMT, <1>1, <1>2, Prefix DEF Tip, First
<1>6. \A t : Holds(content, scanned', t) = Holds(content, chain, t) \cap (1 .. hi)
  BY SMT, <1>5, FirstHolds
<1>7. \A t : HeightsOf(scanned, t)' = Holds(content, chain, t) \cap (1 .. hi)
  BY <1>2, <1>6 DEF HeightsOf, Holds
<1>8. \A t : InPlay(t)' <=> InPlay(t)
  BY <1>2 DEF InPlay
<1>9. \A h \in 1 .. hi : BlockAt(scanned', h) = BlockAt(chain, h)
  BY <1>5 DEF First, BlockAt
<1>10. \A t \in Txs : InPlay(t)' => txs'[t].lifecycle \in Sent
  BY <1>4, <1>8 DEF Seen
<1>11. OnChainIsSettled'
  BY <1>4, <1>7, SentLifecycles DEF Seen, OnChainIsSettled
<1>12. ConfirmedInScannedBlock'
  <2> SUFFICES ASSUME NEW t \in Txs, txs'[t].lifecycle = "Confirmed"
               PROVE  \E h \in HeightsOf(scanned, t)' : txs'[t].block = BlockAt(scanned', h)
    BY DEF ConfirmedInScannedBlock
  <2>1. PICK h \in Holds(content, chain, t) \cap (1 .. hi) : txs'[t].block = BlockAt(chain, h)
    BY <1>4 DEF Seen
  <2> QED BY <1>7, <1>9, <2>1
<1> QED BY <1>10, <1>11, <1>12

\* Every step preserves the invariant when nothing is queried or exported.
LEMMA SettledStep ==
    ASSUME "reconcile" \notin Features, "export" \notin Features, SettledInv, [Next]_vars
    PROVE  SettledInv'
<1>0. /\ ChainInv /\ Shape /\ txs \in [Txs -> TxShape] /\ CallInv
      /\ chain \in Seq(1 .. Len(content)) /\ scanned \in Seq(1 .. Len(content))
      /\ Len(chain) \in Nat /\ Len(scanned) \in Nat /\ Ancestry
      /\ Valid(txs, outputs)
      /\ \A t \in Txs : InPlay(t) => txs[t].lifecycle \in Sent
  BY SMT DEF SettledInv, ChainInv, BlockInv, IInv, Shape
<1>1. ChainInv'
  BY <1>0, ChainStep
<1>2. Valid(txs', outputs')
  BY <1>0, ValidKept
<1> DEFINE Good == /\ \A t \in Txs : InPlay(t)' => txs'[t].lifecycle \in Sent
                   /\ OnChainIsSettled'
                   /\ ConfirmedInScannedBlock'
<1> SUFFICES Good
  BY <1>1, <1>2 DEF SettledInv
<1>3. CASE SyncNext
  <2> DEFINE lo == Len(scanned)
  <2>1. CommitPage(txs, outputs, lo, PageEnd(lo)) /\ lo \in 0 .. Tip /\ CursorCanonical
    BY SMT, <1>0, <1>3 DEF SyncNext, Tip
  <2>2. \A h \in 1 .. lo : chain[h] = scanned[h]
    BY SMTT(30), <1>0, <2>1 DEF CursorCanonical, Agreeing, Ancestry, Tip
  <2>3. First(scanned, lo, chain)
    BY SMT, <1>0, <2>1, <2>2 DEF First, Tip
  <2>4. \A t : Holds(content, scanned, t) = Holds(content, chain, t) \cap (1 .. lo)
    BY SMT, <2>3, FirstHolds
  <2>5. \A h \in 1 .. lo : BlockAt(scanned, h) = BlockAt(chain, h)
    BY <2>2 DEF BlockAt
  <2>6. /\ \A t \in Txs : Holds(content, scanned, t) # {} => txs[t].lifecycle \notin Settling
        /\ \A t \in Txs : txs[t].lifecycle = "Confirmed" =>
              \E h \in Holds(content, scanned, t) : txs[t].block = BlockAt(scanned, h)
    BY Named DEF SettledInv, OnChainIsSettled, ConfirmedInScannedBlock
  <2>7. \A t \in Txs : InPlay(t) => txs[t].exposure # NeverBroadcast
    BY <1>0, SentIsExposed
  <2>8. Seen(txs, lo)
    <3> SUFFICES ASSUME NEW t \in Txs
                 PROVE  /\ Holds(content, chain, t) \cap (1 .. lo) # {} =>
                              txs[t].lifecycle \in Settled
                        /\ txs[t].lifecycle = "Confirmed" =>
                              \E h \in Holds(content, chain, t) \cap (1 .. lo) :
                                  txs[t].block = BlockAt(chain, h)
      BY <1>0, <2>7 DEF Seen
    <3> HIDE DEF lo
    <3>1. Holds(content, chain, t) \cap (1 .. lo) # {} => InPlay(t)
      BY <1>0, HeldIsInPlay
    <3>2. Holds(content, chain, t) \cap (1 .. lo) # {} => txs[t].lifecycle \in Settled
      BY <1>0, <2>4, <2>6, <3>1, SentLifecycles
    <3> QED BY <2>4, <2>5, <2>6, <3>2
  <2> QED BY <1>0, <2>1, <2>8, ScanSettles
<1>4. CASE SyncReorg
  <2>1. PICK safe \in Agreeing :
            CommitPage(RewoundTxs(safe), Restored(RewoundTxs(safe), RewoundOutputs(safe)),
                       safe, PageEnd(safe))
    BY <1>4 DEF SyncReorg
  <2>2. /\ safe \in 0 .. Tip /\ safe \in Nat /\ safe <= Len(chain) /\ safe <= Len(scanned)
        /\ \A h \in 1 .. safe : chain[h] = scanned[h]
    BY SMTT(30), <1>0 DEF Agreeing, Ancestry, Tip
  <2>3. RewoundTxs(safe) \in [Txs -> TxShape]
    BY <1>0, RewindEvolves DEF Evolves, RewoundTxs
  <2>4. Seen(RewoundTxs(safe), safe)
    BY <2>2, RewindSettles
  <2> QED BY <1>0, <2>1, <2>2, <2>3, <2>4, ScanSettles
<1>5. CASE Rescan
  <2>1. Seen(RewoundTxs(0), 0)
    BY SMT, <1>0, RewindSettles
  <2>2. txs' = RewoundTxs(0) /\ scanned' = <<>> /\ content' = content /\ pool' = pool
    BY <1>5 DEF Rescan, nodeVars
  <2>3. \A t \in Txs : txs'[t].lifecycle # "Confirmed" /\
                       (InPlay(t)' => txs'[t].lifecycle \in Sent)
    BY SMT, <2>1, <2>2 DEF Seen, InPlay
  <2>4. \A t : HeightsOf(scanned, t)' = {}
    BY SMT, <2>2 DEF HeightsOf
  <2> QED BY <2>3, <2>4 DEF OnChainIsSettled, ConfirmedInScannedBlock
<1>6. CASE ~Sync /\ ~Rescan
  <2>1. \A t \in Txs : Rests(txs[t], txs'[t])
    BY <1>0, <1>6, CommandsRest
  <2>2. scanned' = scanned
    BY <1>6 DEF Next, Command, CommandCut, SendReserve, SendBuild, ResponseImport, Finalize,
                FinalizedExport, SubmitBegin, NodeAnswers, AnswerLost, SubmitEnd, Reconcile,
                Cancel, CancelRefused, NodeExtends, walletVars, vars
  <2>3. \A t \in Txs : HeightsOf(scanned, t)' = HeightsOf(scanned, t)
    <3>1. \A t : Holds(content', scanned, t) = Holds(content, scanned, t)
      BY <1>0, BlocksKept
    <3> QED BY <2>2, <3>1 DEF HeightsOf, Holds
  <2>4. ASSUME NEW t \in Txs, InPlay(t)' PROVE txs'[t].lifecycle \in Sent
    <3>1. ~FinalizedExport(t)
      BY DEF FinalizedExport
    <3>2. op.kind = "calling" /\ t = op.tx => txs[t].lifecycle \in Sent
      BY <1>0 DEF CallInv, Sent
    <3>3. txs[t].lifecycle \in Sent
      BY <1>0, <2>4, <3>1, <3>2, Entering
    <3>4. txs[t].exposure # NeverBroadcast
      BY <1>0, <3>3, SentIsExposed
    <3> QED BY <2>1, <3>3, <3>4 DEF Rests
  <2>5. OnChainIsSettled'
    <3> SUFFICES ASSUME NEW t \in Txs, HeightsOf(scanned, t) # {}
                 PROVE  txs'[t].lifecycle \notin Settling
      BY <2>3 DEF OnChainIsSettled
    <3>1. txs[t].lifecycle \notin Settling
      BY DEF SettledInv, OnChainIsSettled
    <3>2. InPlay(t)
      BY SMT, <1>0 DEF HeightsOf, InPlay, Shape
    <3>3. txs[t].lifecycle \in Settled /\ txs[t].exposure # NeverBroadcast
      BY <1>0, <3>1, <3>2, SentIsExposed, SentLifecycles
    <3> QED BY <2>1, <3>3, SentLifecycles DEF Rests
  <2>6. ConfirmedInScannedBlock'
    <3> SUFFICES ASSUME NEW t \in Txs, txs'[t].lifecycle = "Confirmed"
                 PROVE  \E h \in HeightsOf(scanned, t) : txs'[t].block = BlockAt(scanned, h)
      BY <2>2, <2>3 DEF ConfirmedInScannedBlock
    <3>1. txs[t].lifecycle = "Confirmed" /\ txs'[t].block = txs[t].block
      BY <2>1 DEF Rests
    <3> QED BY <3>1 DEF SettledInv, ConfirmedInScannedBlock
  <2> QED BY <2>4, <2>5, <2>6
<1> QED BY <1>3, <1>4, <1>5, <1>6 DEF Sync

\* Initially no block is committed.
LEMMA SettledInit == Init => SettledInv
<1> SUFFICES ASSUME Init PROVE SettledInv
  BY SMT
<1>1. /\ chain = <<1>> /\ scanned = <<1>> /\ content = << {} >> /\ pool = {}
      /\ DOMAIN content = {1} /\ content[1] = {} /\ DOMAIN scanned = {1} /\ scanned[1] = 1
      /\ \A t \in Txs : txs[t] = NoTx
  BY SMT DEF Init, NodeInit
<1>2. \A t : HeightsOf(scanned, t) = {} /\ ~InPlay(t)
  BY <1>1 DEF HeightsOf, InPlay
<1>3. OnChainIsSettled /\ ConfirmedInScannedBlock
  BY SMT, <1>1, <1>2 DEF OnChainIsSettled, ConfirmedInScannedBlock, NoTx
<1> QED BY <1>2, <1>3, ChainInit, ValidInit DEF SettledInv

\* The invariant holds in every reachable state.
LEMMA SettledInvariance ==
    ASSUME "reconcile" \notin Features, "export" \notin Features PROVE Spec => []SettledInv
<1>1. SettledInv /\ [Next]_vars => SettledInv'
  BY SettledStep
<1> QED BY <1>1, SettledInit, PTL DEF Spec

\* Scans, reorganizations and rescans settle every transaction they find
\* (apply_kernel_evidence): with no query of the node about a submission and no
\* export of the bytes, a transaction in a committed block never lingers as
\* submitted, in the mempool or reorganized.
THEOREM CommittedBlocksSettle ==
    ASSUME "reconcile" \notin Features, "export" \notin Features
    PROVE  Spec => []OnChainIsSettled
<1>1. SettledInv => OnChainIsSettled
  BY DEF SettledInv
<1> QED BY <1>1, SettledInvariance, PTL

\* With no query of the node about a submission and no export, a confirmation
\* names a block the wallet has committed and that holds the kernel, whatever
\* reorganizations and rescans lie behind (rewind_recovery_state,
\* apply_kernel_evidence).
THEOREM ConfirmationsAreCommitted ==
    ASSUME "reconcile" \notin Features, "export" \notin Features
    PROVE  Spec => []ConfirmedInScannedBlock
<1>1. SettledInv => ConfirmedInScannedBlock
  BY DEF SettledInv
<1> QED BY <1>1, SettledInvariance, PTL
-----------------------------------------------------------------------------
(***************************************************************************)
(* Reservations on one chain.                                              *)
(***************************************************************************)
LEMMA PageHeld ==
    ASSUME NEW os \in [Commitments -> OutputShape], NEW lo, NEW hi, NEW c \in Commitments,
           PageMade(lo, hi, c) \subseteq Nat \ {0}
    PROVE  LET p == PageOutputs(os, lo, hi)[c]
           IN  /\ Rooted(os[c]) => Rooted(p)
               /\ DOMAIN p = {"state", "owner", "born", "spent"}
               /\ os[c].born # 0 /\ os[c].state # "Absent" =>
                    /\ p.owner = os[c].owner \/ p.state = "Spent"
                    /\ os[c].state = "Spent" => p.state = "Spent"
<1> DEFINE made == PageMade(lo, hi, c)
           used == PageUsed(lo, hi, c)
           o == os[c]
           m == Merged(o, made)
           u == IF used # {} /\ m.state # "Absent"
                THEN [m EXCEPT !.state = "Spent", !.owner = 0, !.spent = CHOOSE h \in used : TRUE]
                ELSE m
           p == PageOutputs(os, lo, hi)[c]
<1>1. p = IF u.born > 0 /\ u.state # "Spent" THEN [u EXCEPT !.state = "Confirmed"] ELSE u
  BY DEF PageOutputs, Refreshed
<1>2. o \in OutputShape
  OBVIOUS
<1> HIDE DEF p, u, m, o, made, used
<1>3. (made # {} => (CHOOSE h \in made : TRUE) \in Nat \ {0})
  BY DEF made
<1>4. /\ m.owner = o.owner
      /\ m = o \/ (m.state = "Confirmed" /\ m.born # 0)
      /\ o.born # 0 /\ o.state # "Absent" => m = o
      /\ DOMAIN m = {"state", "owner", "born", "spent"} /\ m.born \in Nat
  BY <1>2, <1>3 DEF m, Merged, OutputShape
<1>5. /\ u.born = m.born /\ (u.state = m.state \/ u.state = "Spent")
      /\ u.owner = m.owner \/ u.state = "Spent"
      /\ DOMAIN u = {"state", "owner", "born", "spent"}
  BY <1>4 DEF u
<1>6. /\ p.born = u.born /\ p.owner = u.owner
      /\ p.state = IF u.born > 0 /\ u.state # "Spent" THEN "Confirmed" ELSE u.state
  BY <1>1, <1>5
<1>7. Rooted(o) => Rooted(p)
  BY SMT, <1>4, <1>5, <1>6 DEF Rooted
<1>8. ASSUME o.born # 0, o.state # "Absent"
      PROVE  /\ p.owner = o.owner \/ p.state = "Spent"
             /\ o.state = "Spent" => p.state = "Spent"
  BY <1>4, <1>5, <1>6, <1>8
<1>9. DOMAIN p = {"state", "owner", "born", "spent"}
  BY <1>1, <1>5
<1> QED BY <1>7, <1>8, <1>9 DEF p, o

\* A release touches the records it names and spends none.
LEMMA ReleasedHeld ==
    ASSUME NEW os, NEW cs, NEW c \in Commitments,
           DOMAIN os[c] = {"state", "owner", "born", "spent"}
    PROVE  LET p == Released(os, cs)[c]
           IN  /\ Rooted(os[c]) => Rooted(p)
               /\ p.state = "Spent" <=> os[c].state = "Spent"
               /\ c \notin cs => p = os[c]
<1> DEFINE p == Released(os, cs)[c]
<1>1. p = IF c \in cs
          THEN [os[c] EXCEPT !.owner = 0,
                    !.state = IF @ = "PendingOutgoing" THEN "Confirmed" ELSE @]
          ELSE os[c]
  BY DEF Released
<1> HIDE DEF p
<1>3. /\ p.born = os[c].born
      /\ p.state = os[c].state \/ (os[c].state = "PendingOutgoing" /\ p.state = "Confirmed")
  BY <1>1
<1> QED BY <1>1, <1>3 DEF p, Rooted

\* The chain has made an output exactly when its record has a height.
LEMMA BornIsMade ==
    ASSUME ChainInv, NEW c \in Commitments
    PROVE  outputs[c].born # 0 <=> Makes(content, scanned, c) # {}
<1>1. Projected(outputs[c], Makes(content, scanned, c), Uses(txs, content, scanned, c))
  BY DEF ChainInv
<1>2. scanned \in Seq(1 .. Len(content))
  BY DEF ChainInv, BlockInv
<1>3. 0 \notin Makes(content, scanned, c)
  BY SMT, <1>2 DEF Makes, Holds
<1> QED BY <1>1, <1>3 DEF Projected

\* With one chain and no rescan the cursor only grows, along the chain.
LEMMA Growing ==
    ASSUME HeldInv, [Next]_vars, "reorg" \notin Features, "rescan" \notin Features
    PROVE  /\ ~SyncReorg
           /\ \A h \in DOMAIN scanned : h \in DOMAIN scanned' /\ scanned'[h] = scanned[h]
           /\ \A h \in DOMAIN scanned' : h \in DOMAIN chain' /\ chain'[h] = scanned'[h]
<1>0. /\ chain \in Seq(1 .. Len(content)) /\ scanned \in Seq(1 .. Len(content))
      /\ Tip \in Nat /\ DOMAIN chain = 1 .. Tip /\ DOMAIN scanned = 1 .. Len(scanned)
      /\ Len(scanned) \in Nat
      /\ \A h \in DOMAIN scanned : h \in DOMAIN chain /\ chain[h] = scanned[h]
  <2>1. chain \in Seq(1 .. Len(content)) /\ scanned \in Seq(1 .. Len(content))
    BY DEF HeldInv, ChainInv, BlockInv
  <2>2. \A h \in DOMAIN scanned : h \in DOMAIN chain /\ chain[h] = scanned[h]
    BY DEF HeldInv
  <2>3. /\ Tip \in Nat /\ DOMAIN chain = 1 .. Tip /\ DOMAIN scanned = 1 .. Len(scanned)
        /\ Len(scanned) \in Nat
    BY SMT, <2>1 DEF Tip
  <2> QED BY <2>1, <2>2, <2>3
<1>1. ~SyncReorg
  <2>1. CursorCanonical
    BY SMT, <1>0 DEF CursorCanonical, Agreeing
  <2> QED BY <2>1 DEF SyncReorg
<1>2. CASE SyncNext
  <2> DEFINE lo == Len(scanned)
             hi == PageEnd(lo)
  <2>0. scanned' = SubSeq(chain, 1, hi) /\ chain' = chain /\ lo < Tip
    BY <1>2 DEF SyncNext, CommitPage, nodeVars
  <2>1. scanned' = SubSeq(chain, 1, hi) /\ chain' = chain /\ lo \in 0 .. Tip
    BY SMT, <1>0, <2>0
  <2>2. hi \in 0 .. Tip /\ lo <= hi
    BY <1>0, <2>1, PageBounds
  <2> HIDE DEF hi
  <2>3. DOMAIN scanned' = 1 .. hi /\ \A i \in 1 .. hi : scanned'[i] = chain[i]
    BY SMT, <1>0, <2>1, <2>2, Prefix DEF Tip
  <2>4. 1 .. Len(scanned) \subseteq 1 .. hi /\ 1 .. hi \subseteq 1 .. Tip
    BY SMT, <1>0, <2>2
  <2>5. \A h \in DOMAIN scanned : h \in DOMAIN scanned' /\ scanned'[h] = scanned[h]
    BY <1>0, <2>3, <2>4
  <2>6. \A h \in DOMAIN scanned' : h \in DOMAIN chain' /\ chain'[h] = scanned'[h]
    BY <1>0, <2>1, <2>3, <2>4
  <2> QED BY <1>1, <2>5, <2>6
<1>3. ASSUME NEW g \in 1 .. MaxHeight, NEW included \in SUBSET Txs, NodeExtends(g, included)
      PROVE  /\ scanned' = scanned
             /\ \A h \in DOMAIN chain : h \in DOMAIN chain' /\ chain'[h] = chain[h]
  <2>1. g = Tip /\ scanned' = scanned /\ chain' = Append(SubSeq(chain, 1, Tip), Len(content) + 1)
    BY <1>3 DEF NodeExtends, Extend, walletVars
  <2> DEFINE P == SubSeq(chain, 1, Tip)
  <2>2. P \in Seq(1 .. Len(content)) /\ Len(P) = Tip /\ \A i \in 1 .. Tip : P[i] = chain[i]
    BY SMT, <1>0, Prefix DEF Tip
  <2> HIDE DEF P
  <2>3. \A h \in 1 .. Tip : h \in DOMAIN Append(P, Len(content) + 1)
                            /\ Append(P, Len(content) + 1)[h] = P[h]
    BY SMT, <1>0, <2>2
  <2> QED BY <1>0, <2>1, <2>2, <2>3 DEF P
<1>4. CASE scanned' = scanned /\ chain' = chain
  BY <1>0, <1>1, <1>4
<1> QED
  BY <1>0, <1>1, <1>2, <1>3, <1>4
     DEF Next, Command, CommandCut, Sync, Rescan, SendReserve, SendBuild, ResponseImport, Finalize,
         FinalizedExport, SubmitBegin, NodeAnswers, AnswerLost, SubmitEnd, Reconcile, Cancel,
         CancelRefused, walletVars, nodeVars, vars

\* So an output the chain has made stays made.
LEMMA BornStays ==
    ASSUME HeldInv, [Next]_vars, "reorg" \notin Features, "rescan" \notin Features
    PROVE  \A c \in Commitments : outputs[c].born # 0 => outputs'[c].born # 0
<1> SUFFICES ASSUME NEW c \in Commitments, outputs[c].born # 0 PROVE outputs'[c].born # 0
  OBVIOUS
<1>1. ChainInv /\ scanned \in Seq(1 .. Len(content))
  BY DEF HeldInv, ChainInv, BlockInv
<1>2. Makes(content, scanned, c) # {}
  BY <1>1, BornIsMade
<1>3. Makes(content', scanned, c) = Makes(content, scanned, c)
  BY <1>1, BlocksKept
<1>4. Makes(content', scanned, c) \subseteq Makes(content', scanned', c)
  BY Growing DEF Makes, Holds
<1>5. ChainInv'
  BY <1>1, ChainStep
<1>6. Projected(outputs'[c], Makes(content', scanned', c), Uses(txs', content', scanned', c))
  BY <1>5 DEF ChainInv
<1>7. 0 \notin Makes(content', scanned', c)
  <2>1. scanned' \in Seq(1 .. Len(content'))
    BY <1>5 DEF ChainInv, BlockInv
  <2> QED BY SMT, <2>1 DEF Makes, Holds
<1> QED BY <1>2, <1>3, <1>4, <1>6, <1>7 DEF Projected

\* A send reserves inputs: the only step that gives a record new inputs.
Reserving ==
    \E t \in Txs, s \in SUBSET Commitments, expires \in {Tip + 1, MaxHeight + 1} :
        SendReserve(t, s, expires)

\* A page keeps the reservations of transactions it does not cancel.
LEMMA PageKeepsHeld ==
    ASSUME HeldInv, [Next]_vars, SyncNext, ~Reserving
    PROVE  /\ \A c \in Commitments : Rooted(outputs'[c])
           /\ Held(txs', outputs')
<1> DEFINE lo == Len(scanned)
           hi == PageEnd(lo)
           ts == PageTxs(txs, lo, hi)
           page == PageOutputs(outputs, lo, hi)
           cs == {c \in Commitments :
                     page[c].owner # 0 /\ Expired(ts[page[c].owner])
                                       /\ c \in ts[page[c].owner].bound}
<1>0. /\ ChainInv /\ Shape /\ txs \in [Txs -> TxShape] /\ outputs \in [Commitments -> OutputShape]
      /\ chain \in Seq(1 .. Len(content)) /\ scanned \in Seq(1 .. Len(content))
      /\ Sound(txs, content, chain)
      /\ Held(txs, outputs) /\ \A c \in Commitments : Rooted(outputs[c])
      /\ \A t \in Txs : \A c \in txs[t].inputs : c \in Commitments /\ outputs[c].born # 0
  BY DEF HeldInv, ChainInv, BlockInv, IInv, Shape, TxShape
<1>1. txs' = ExpiredTxs(ts) /\ outputs' = Released(page, cs)
  BY DEF SyncNext, CommitPage, ExpiredOutputs
<1>2. \A c \in Commitments : PageMade(lo, hi, c) \subseteq Nat \ {0}
  <2>1. chain \in Seq(1 .. Len(content))
    BY <1>0
  <2>2. DOMAIN chain \subseteq Nat \ {0}
    BY SMT, <2>1
  <2> QED BY <2>2, Named DEF PageMade, Makes, Holds
<1> HIDE DEF page, ts, hi, cs
<1>4. \A c \in Commitments :
          /\ Rooted(page[c]) /\ DOMAIN page[c] = {"state", "owner", "born", "spent"}
          /\ outputs[c].born # 0 /\ outputs[c].state # "Absent" =>
               /\ page[c].owner = outputs[c].owner \/ page[c].state = "Spent"
               /\ outputs[c].state = "Spent" => page[c].state = "Spent"
  <2> SUFFICES ASSUME NEW c \in Commitments
               PROVE  /\ Rooted(page[c]) /\ DOMAIN page[c] = {"state", "owner", "born", "spent"}
                      /\ outputs[c].born # 0 /\ outputs[c].state # "Absent" =>
                           /\ page[c].owner = outputs[c].owner \/ page[c].state = "Spent"
                           /\ outputs[c].state = "Spent" => page[c].state = "Spent"
    OBVIOUS
  <2>1. outputs \in [Commitments -> OutputShape] /\ Rooted(outputs[c])
    BY <1>0
  <2>2. PageMade(lo, hi, c) \subseteq Nat \ {0}
    BY <1>2
  <2> HIDE DEF lo
  <2>3. LET p == PageOutputs(outputs, lo, hi)[c]
        IN  /\ Rooted(outputs[c]) => Rooted(p)
            /\ DOMAIN p = {"state", "owner", "born", "spent"}
            /\ outputs[c].born # 0 /\ outputs[c].state # "Absent" =>
                 /\ p.owner = outputs[c].owner \/ p.state = "Spent"
                 /\ outputs[c].state = "Spent" => p.state = "Spent"
    BY <2>1, <2>2, PageHeld
  <2> QED BY <2>1, <2>3 DEF page
<1>5. \A c \in Commitments :
          /\ Rooted(outputs'[c])
          /\ outputs'[c].state = "Spent" <=> page[c].state = "Spent"
          /\ c \notin cs => outputs'[c] = page[c]
  BY SMT, <1>1, <1>4, ReleasedHeld
<1>6. ASSUME NEW t \in Txs, Alive(txs'[t]), NEW c \in txs'[t].inputs
      PROVE  outputs'[c].owner = t \/ outputs'[c].state = "Spent"
  <2>1. txs'[t].inputs = txs[t].inputs /\ Alive(txs[t])
    BY <1>0, <1>6, RecordsKeep DEF Reserving
  <2>2. c \in Commitments /\ outputs[c].born # 0
        /\ (outputs[c].owner = t \/ outputs[c].state = "Spent")
    BY <1>0, <2>1 DEF Held
  <2>3. outputs[c].state # "Absent"
    <3>1. Projected(outputs[c], Makes(content, scanned, c), Uses(txs, content, scanned, c))
      BY <1>0, <2>2 DEF ChainInv
    <3> QED BY <2>2, <3>1 DEF Projected
  <2>4. page[c].owner = t \/ page[c].state = "Spent"
    BY <1>4, <2>2, <2>3
  <2>5. ~Expired(ts[t])
    <3>1. Expired(ts[t]) => txs'[t].lifecycle = "Cancelled"
      <4>1. ts[t] \in TxShape
        BY <1>0, PageEvolves DEF Evolves, ts
      <4> QED BY <1>1, <4>1 DEF ExpiredTxs, Transition, TxShape
    <3> QED BY <1>6, <3>1 DEF Alive
  <2>6. page[c].owner = t => c \notin cs
    BY <2>5 DEF cs
  <2> QED BY <1>5, <2>2, <2>4, <2>6
<1> QED BY <1>5, <1>6 DEF Held

\* Every step preserves the invariant on one chain with one cancellation per
\* transaction.
LEMMA HeldStep ==
    ASSUME "reorg" \notin Features, "rescan" \notin Features, "recancel" \notin Features,
           HeldInv, [Next]_vars
    PROVE  HeldInv'
<1> DEFINE Good == (\A c \in Commitments : Rooted(outputs'[c])) /\ Held(txs', outputs')
           Born == \A t \in Txs : \A c \in txs'[t].inputs : outputs[c].born # 0
<1>0. /\ ChainInv /\ CallInv /\ txs \in [Txs -> TxShape] /\ outputs \in [Commitments -> OutputShape]
      /\ Held(txs, outputs) /\ \A c \in Commitments : Rooted(outputs[c])
      /\ \A t \in Txs : \A c \in txs[t].inputs : c \in Commitments /\ outputs[c].born # 0
      /\ \A t \in Txs : txs[t].bound \subseteq txs[t].inputs
  BY DEF HeldInv, ChainInv, IInv, Shape, TxShape, RecordInv
<1>k. ASSUME ~Reserving
      PROVE  /\ \A t \in Txs : txs'[t].inputs = txs[t].inputs /\ (Alive(txs'[t]) => Alive(txs[t]))
             /\ Born
  BY <1>0, <1>k, RecordsKeep DEF Reserving
<1>h. ASSUME ~Reserving, outputs' = outputs
      PROVE  Good /\ Born
  BY <1>0, <1>k, <1>h DEF Held
<1>1. ASSUME NEW t \in Txs, NEW s \in SUBSET Commitments,
             NEW expires \in {Tip + 1, MaxHeight + 1}, SendReserve(t, s, expires)
      PROVE  Good /\ Born
  <2> DEFINE new == [NoTx EXCEPT !.lifecycle = "InputsReserved",
                          !.inputs = s, !.bound = s, !.expires = expires]
  <2>1. \/ UNCHANGED <<txs, outputs>>
        \/ /\ txs' = [txs EXCEPT ![t] = new]
           /\ outputs' = [c \in Commitments |->
                             IF c \in s THEN [outputs[c] EXCEPT !.owner = t,
                                                                !.state = "PendingOutgoing"]
                             ELSE outputs[c]]
    BY <1>1 DEF SendReserve, Commit
  <2>2. CASE UNCHANGED <<txs, outputs>>
    BY <1>0, <2>2 DEF Held
  <2>3. CASE /\ txs' = [txs EXCEPT ![t] = new]
             /\ outputs' = [c \in Commitments |->
                               IF c \in s THEN [outputs[c] EXCEPT !.owner = t,
                                                                  !.state = "PendingOutgoing"]
                               ELSE outputs[c]]
    <3>1. \A c \in s : outputs[c].state = "Confirmed" /\ outputs[c].owner = 0
      BY <1>1 DEF SendReserve, Selections, Spendable
    <3>2. new.inputs = s
      BY DEF NoTx
    <3> HIDE DEF new
    <3>3. txs'[t].inputs = s /\ \A u \in Txs \ {t} : txs'[u] = txs[u]
      BY <1>0, <2>3, <3>2
    <3>4. \A c \in s : outputs'[c].owner = t /\ outputs'[c].born = outputs[c].born
      BY <1>0, <2>3 DEF OutputShape
    <3>5. \A c \in Commitments \ s : outputs'[c] = outputs[c]
      BY <2>3
    <3>6. \A c \in s : outputs[c].born # 0
      BY <1>0, <3>1 DEF Rooted
    <3>7. \A c \in Commitments : Rooted(outputs'[c])
      BY <1>0, <3>4, <3>5, <3>6 DEF Rooted
    <3>8. ASSUME NEW u \in Txs, Alive(txs'[u]), NEW c \in txs'[u].inputs
          PROVE  outputs'[c].owner = u \/ outputs'[c].state = "Spent"
      <4>1. CASE u = t
        BY <3>3, <3>4, <3>8, <4>1
      <4>2. CASE u # t
        <5>1. c \in Commitments /\ (outputs[c].owner = u \/ outputs[c].state = "Spent")
          BY <1>0, <3>3, <3>8, <4>2 DEF Held
        <5>2. c \notin s
          BY SMT, <3>1, <5>1 DEF Txs
        <5> QED BY <3>5, <5>1, <5>2
      <4> QED BY <4>1, <4>2
    <3> QED BY <1>0, <3>3, <3>6, <3>7, <3>8 DEF Held
  <2> HIDE DEF new
  <2> QED BY <2>1, <2>2, <2>3
<1>2. ASSUME ~Reserving, SendBuild PROVE Good /\ Born
  <2>1. /\ op.kind = "building" /\ op.tx \in Txs /\ ~txs[op.tx].context
    BY <1>0, <1>2 DEF SendBuild, CallInv, ChainInv
  <2>2. Change(op.tx) \in Commitments => outputs[Change(op.tx)].born = 0
    <3>1. Change(op.tx) - Funds = op.tx /\ ~(Change(op.tx) <= Funds)
      BY SMT, <2>1, FundsAssumption, MaxTxsAssumption DEF Change, Txs
    <3>2. ~InPlay(op.tx)
      BY <1>0, <2>1 DEF ChainInv
    <3>3. Holds(content, scanned, op.tx) = {}
      <4>1. scanned \in Seq(1 .. Len(content)) /\ content \in Seq(SUBSET Txs)
        BY <1>0 DEF ChainInv, BlockInv, IInv, Shape
      <4> QED BY SMT, <3>2, <4>1 DEF InPlay, Holds
    <3>4. Makes(content, scanned, Change(op.tx)) = {}
      BY <3>1, <3>3 DEF Makes
    <3> QED BY <1>0, <3>4, BornIsMade
  <2>3. \A c \in Commitments : outputs'[c] = outputs[c]
            \/ (c = Change(op.tx) /\ outputs'[c].state = "PendingIncoming")
    <3>1. outputs' = outputs \/ outputs' = [outputs EXCEPT ![Change(op.tx)] =
                    [NoOutput EXCEPT !.state = "PendingIncoming"]]
      BY <1>2 DEF SendBuild, Commit
    <3>2. [NoOutput EXCEPT !.state = "PendingIncoming"].state = "PendingIncoming"
      BY DEF NoOutput
    <3> QED BY <1>0, <3>1, <3>2
  <2>4. Born /\ \A t \in Txs : txs'[t].inputs = txs[t].inputs /\ (Alive(txs'[t]) => Alive(txs[t]))
    BY <1>k, <1>2
  <2>5. \A c \in Commitments : Rooted(outputs'[c])
    BY <1>0, <2>3 DEF Rooted
  <2>6. Held(txs', outputs')
    <3> SUFFICES ASSUME NEW t \in Txs, Alive(txs'[t]), NEW c \in txs'[t].inputs
                 PROVE  outputs'[c].owner = t \/ outputs'[c].state = "Spent"
      BY DEF Held
    <3>1. c \in Commitments /\ outputs[c].born # 0
          /\ (outputs[c].owner = t \/ outputs[c].state = "Spent")
      BY <1>0, <2>4 DEF Held
    <3> QED BY <2>2, <2>3, <3>1
  <2> QED BY <2>4, <2>5, <2>6
<1>3. ASSUME ~Reserving, NEW t \in Txs, Cancel(t) PROVE Good /\ Born
  <2>1. /\ Alive(txs[t])
        /\ \/ outputs' = outputs /\ txs' = txs
           \/ outputs' = Released(outputs, txs[t].bound) /\ txs'[t].lifecycle = "Cancelled"
    <3>1. txs[t] \in TxShape
      BY <1>0
    <3>2. Transition(txs[t], "Cancelled", NoBlock, "Cancellation").lifecycle = "Cancelled"
      BY <3>1 DEF Transition, TxShape
    <3>3. Alive(txs[t])
      BY <1>3 DEF Cancel, Alive, Created
    <3>4. \/ UNCHANGED <<txs, outputs>>
          \/ /\ txs' = [txs EXCEPT ![t] = Transition(@, "Cancelled", NoBlock, "Cancellation")]
             /\ outputs' = Released(outputs, txs[t].bound)
      BY <1>3 DEF Cancel, Commit
    <3>5. CASE UNCHANGED <<txs, outputs>>
      BY <3>3, <3>5
    <3>6. CASE /\ txs' = [txs EXCEPT ![t] = Transition(@, "Cancelled", NoBlock, "Cancellation")]
               /\ outputs' = Released(outputs, txs[t].bound)
      <4>1. txs'[t].lifecycle = "Cancelled"
        BY <1>0, <3>2, <3>6
      <4> QED BY <3>3, <3>6, <4>1
    <3> QED BY <3>4, <3>5, <3>6
  <2>2. CASE outputs' = outputs /\ txs' = txs
    BY <1>0, <2>2 DEF Held
  <2>3. CASE outputs' = Released(outputs, txs[t].bound) /\ txs'[t].lifecycle = "Cancelled"
    <3>1. Born /\ \A u \in Txs : txs'[u].inputs = txs[u].inputs /\ (Alive(txs'[u]) => Alive(txs[u]))
      BY <1>k, <1>3
    <3>2. \A c \in Commitments :
              /\ Rooted(outputs'[c])
              /\ outputs'[c].state = "Spent" <=> outputs[c].state = "Spent"
              /\ c \notin txs[t].bound => outputs'[c] = outputs[c]
      <4>1. \A c \in Commitments : DOMAIN outputs[c] = {"state", "owner", "born", "spent"}
        BY <1>0 DEF OutputShape
      <4> QED BY SMT, <1>0, <2>3, <4>1, ReleasedHeld
    <3>3. ASSUME NEW u \in Txs, Alive(txs'[u]), NEW c \in txs'[u].inputs
          PROVE  outputs'[c].owner = u \/ outputs'[c].state = "Spent"
      <4>1. u # t /\ Alive(txs[u]) /\ c \in txs[u].inputs
        BY <2>3, <3>1, <3>3 DEF Alive
      <4>2. c \in Commitments /\ (outputs[c].owner = u \/ outputs[c].state = "Spent")
        BY <1>0, <4>1 DEF Held
      <4>3. c \in txs[t].bound => outputs[c].owner = t \/ outputs[c].state = "Spent"
        BY <1>0, <2>1 DEF Held
      <4> QED BY <3>2, <4>1, <4>2, <4>3
    <3> QED BY <3>1, <3>2, <3>3 DEF Held
  <2> QED BY <2>1, <2>2, <2>3
<1>4. ASSUME ~Reserving, SyncNext PROVE Good /\ Born
  BY <1>4, <1>k, PageKeepsHeld
<1>5. ~SyncReorg /\ ~Rescan
  BY Growing DEF Rescan
<1> HIDE DEF Good, Born
<1>6. Good /\ Born
  <2>1. CASE Reserving
    BY <1>1, <2>1 DEF Reserving
  <2>2. CASE ~Reserving
    <3>1. \/ SendBuild \/ SyncNext \/ \E t \in Txs : Cancel(t)
          \/ outputs' = outputs
      BY <1>5, <2>2
         DEF Next, Command, CommandCut, Sync, ResponseImport, Finalize, FinalizedExport,
             SubmitBegin, NodeAnswers, AnswerLost, SubmitEnd, Reconcile, CancelRefused, CommitTx,
             Commit, NodeExtends, Reserving, walletVars, vars
    <3> QED BY <1>h, <1>2, <1>3, <1>4, <2>2, <3>1
  <2> QED BY <2>1, <2>2
<1>7. ChainInv'
  BY <1>0, ChainStep
<1>8. \A t \in Txs : \A c \in txs'[t].inputs : outputs'[c].born # 0
  <2>1. txs' \in [Txs -> TxShape]
    BY <1>7 DEF ChainInv, IInv, Shape
  <2>2. \A t \in Txs : txs'[t].inputs \subseteq Commitments
    BY <2>1 DEF TxShape
  <2> QED BY <1>6, <2>2, BornStays DEF Born
<1>9. \A h \in DOMAIN scanned' : h \in DOMAIN chain' /\ chain'[h] = scanned'[h]
  BY Growing
<1>10. (\A c \in Commitments : Rooted(outputs[c]))' /\ Held(txs, outputs)'
  BY <1>6 DEF Good, Rooted, Held, Alive
<1> QED BY <1>7, <1>8, <1>9, <1>10 DEF HeldInv

\* Initially nothing is reserved.
LEMMA HeldInit == Init => HeldInv
<1> SUFFICES ASSUME Init PROVE HeldInv
  BY SMT
<1>1. /\ chain = <<1>> /\ scanned = <<1>> /\ \A t \in Txs : txs[t] = NoTx
  BY DEF Init, NodeInit
<1>2. \A c \in Commitments : Rooted(outputs[c])
  <2>1. \A c \in Commitments :
           outputs[c] = IF c <= Funds THEN [NoOutput EXCEPT !.state = "Confirmed", !.born = 1]
                        ELSE NoOutput
    BY DEF Init
  <2>2. Rooted(NoOutput) /\ Rooted([NoOutput EXCEPT !.state = "Confirmed", !.born = 1])
    BY SMT DEF NoOutput, Rooted
  <2> QED BY <2>1, <2>2
<1>3. \A t \in Txs : txs[t].inputs = {}
  BY SMT, <1>1 DEF NoTx
<1> QED BY <1>1, <1>2, <1>3, ChainInit DEF HeldInv, Held

\* With one chain and one cancellation per transaction: from the reservation
\* until the chain spends it, an input of a live transaction belongs to that
\* transaction, whatever lost answers, crashes, expiries, queries, exports and
\* pages happen (spendable_outputs, cancel_expired_unfinalized_reservations).
THEOREM InputsStayHeld ==
    ASSUME "reorg" \notin Features, "rescan" \notin Features, "recancel" \notin Features
    PROVE  Spec => []InputsHeld
<1>1. HeldInv /\ [Next]_vars => HeldInv'
  BY HeldStep
<1>2. HeldInv => InputsHeld
  BY DEF HeldInv, Held, InputsHeld, Live, Alive
<1> QED BY <1>1, <1>2, HeldInit, PTL DEF Spec

-----------------------------------------------------------------------------
(***************************************************************************)
(* What the summary of a transaction offers.                               *)
(***************************************************************************)

\* The lifecycles for which the summary offers a cancellation all have an edge
\* to Cancelled.
LEMMA OfferedHasEdge ==
    ASSUME NEW l \in Lifecycles,
           l \notin Settling \union {"Cancelled", "Confirmed", "ReconciliationRequired"}
    PROVE  l # "Cancelled" /\ <<l, "Cancelled", "Cancellation">> \in Edges
<1>1. l \in {"Draft", "InputsReserved", "RequestExported", "RequestImported",
             "ResponsePrepared", "ResponseExported", "ResponseImported",
             "Finalized", "Failed"}
  BY DEF Lifecycles, Settling
<1> QED BY <1>1 DEF Edges

\* transaction_summary_from and transaction_cancel decide by different rules,
\* and agree: a cancellation the summary offers passes the exposure guard, has
\* an edge of the lifecycle, and is of bytes the node was never given.
THEOREM OfferedCancelsAreSafe == Spec => []OfferedCancelIsSafe
<1>1. IInv => OfferedCancelIsSafe
  <2> SUFFICES ASSUME IInv, NEW t \in Txs,
                      transaction_summary_from(txs[t]).manual_cancel_allowed
               PROVE  /\ ReleaseNeverBroadcast(txs[t])
                      /\ Allowed(txs[t], "Cancelled", NoBlock, "Cancellation")
                      /\ t \notin handed
    BY DEF OfferedCancelIsSafe
  <2>1. ManualCancelAllowed(txs[t])
    BY DEF transaction_summary_from
  <2>2. txs[t].lifecycle \in Lifecycles /\ HandedIsExposed
    BY SMT DEF IInv, Shape, TxShape
  <2>3. txs[t].exposure = NeverBroadcast
    BY <2>1 DEF ManualCancelAllowed
  <2>4. Allowed(txs[t], "Cancelled", NoBlock, "Cancellation")
    BY <2>1, <2>2, OfferedHasEdge DEF ManualCancelAllowed, Allowed
  <2>5. ~(NeverBroadcast >= SubmissionStarted)
    BY SMT DEF NeverBroadcast, SubmissionStarted
  <2> QED BY <2>2, <2>3, <2>4, <2>5 DEF ReleaseNeverBroadcast, HandedIsExposed
<1> QED BY <1>1, Invariance, PTL
=============================================================================
