------------------------- MODULE CounterpartyProofs -------------------------
(***************************************************************************)
(* What is exchanged with another party: slates and swap sessions.         *)
(***************************************************************************)
EXTENDS SlateExchange, SwapDesk, FiniteSetTheorems, TLAPS

\* Leaves that name no prover are for Zenon.
USE ZenonT(30)

-----------------------------------------------------------------------------
(***************************************************************************)
(* The slate exchange for any number of slates, coordinates and frames:    *)
(* users may show, repeat and reorder the texts of all slates as they like.*)
(***************************************************************************)
USE MaxCoordinateAssumption DEF NoCoordinate, Coordinates, NeverBroadcast

-----------------------------------------------------------------------------
(* The edges of the lifecycle graph the exchange uses. *)

\* A response is imported only before the finalization.
LEMMA ImportEdge ==
    ASSUME NEW record, MayMove(record, "ResponseImported", "RecipientResponse")
    PROVE  record.lifecycle \in {"InputsReserved", "RequestExported", "ResponseImported"}
BY DEF MayMove, Allowed, Edges

\* Only an imported response is finalized.
LEMMA FinalizeEdge ==
    ASSUME NEW record, MayMove(record, "Finalized", "Finalization"),
           record.lifecycle # "Finalized"
    PROVE  record.lifecycle = "ResponseImported"
BY DEF MayMove, Allowed, Edges

\* No evidence of the exchange raises the exposure.
LEMMA MovedRecord ==
    ASSUME NEW record \in Records, NEW lifecycle \in Lifecycles,
           NEW evidence \in {"RecipientResponse", "Finalization", "Cancellation"}
    PROVE  /\ Moved(record, lifecycle, evidence) \in Records
           /\ Moved(record, lifecycle, evidence).lifecycle = lifecycle
           /\ Moved(record, lifecycle, evidence).response = record.response
           /\ Moved(record, lifecycle, evidence).finalized = record.finalized
<1>1. Observed(evidence) = 0
  BY DEF Observed
<1>2. Moved(record, lifecycle, evidence) =
        [record EXCEPT !.lifecycle = lifecycle, !.block = NoBlock, !.exposure = 0]
  BY <1>1 DEF Moved, Transition, Records
<1> QED
  BY <1>2 DEF Records

-----------------------------------------------------------------------------
(* The invariants. *)

Phases == {"SenderOffer", "ReceiverResponse", "Finalized"}
Texts == [phase : Phases, slate : Slates, response : Coordinates \union {NoCoordinate}]

Shapes ==
    /\ sender \in [Slates -> Records]
    /\ recipient \in [Slates -> Records]
    /\ floor \in Nat
    /\ responding = NotResponding
       \/ responding \in [slate : Slates, coordinate : Coordinates]
    /\ texts \subseteq Texts

\* The sender's finalized bytes are fixed once they exist: no response can be
\* imported after that, and nothing is shown or retained but those bytes.
SignInv ==
    /\ \A s \in Slates :
          /\ sender[s].lifecycle = "Finalized" => sender[s].finalized # NoCoordinate
          /\ sender[s].finalized # NoCoordinate =>
                 sender[s].lifecycle \in {"Finalized", "Cancelled"}
          /\ recipient[s].finalized \in {NoCoordinate, sender[s].finalized}
    /\ \A x \in texts : x.phase = "Finalized" =>
          x.response # NoCoordinate /\ x.response = sender[x.slate].finalized

\* A coordinate that is burned and not yet used has no output, and those with
\* an output belong to one slate each.
BackInv ==
    /\ \A c \in outputs : c \in Nat /\ c <= floor
    /\ responding # NotResponding =>
          responding.coordinate <= floor /\ responding.coordinate \notin outputs
    /\ \A s \in Slates : recipient[s].response # NoCoordinate =>
          /\ recipient[s].response \in outputs
          /\ \A u \in Slates \ {s} : recipient[u].response # recipient[s].response
    /\ \A x \in texts : x.phase = "ReceiverResponse" =>
          /\ x.response # NoCoordinate /\ x.response \in outputs
          /\ \A u \in Slates \ {x.slate} : recipient[u].response # x.response
          /\ \A y \in texts : y.phase = "ReceiverResponse" /\ y.response = x.response =>
                y.slate = x.slate

\* Initially nothing was shown.
LEMMA InitEstablishes == SlateInit => Shapes /\ SignInv /\ BackInv
<1> SUFFICES ASSUME SlateInit PROVE Shapes /\ SignInv /\ BackInv
  OBVIOUS
<1>1. Record("Draft") \in Records /\ Record("Draft").lifecycle = "Draft"
      /\ Record("Draft").response = 0 /\ Record("Draft").finalized = 0
  BY DEF Record, Records, Lifecycles
<1> QED
  BY <1>1 DEF SlateInit, Shapes, SignInv, BackInv

\* What the sender may do to a record.
LEMMA SenderChanges ==
    ASSUME Shapes, SignInv, BackInv, NEW s \in Slates, NEW r \in Records,
           sender' = [sender EXCEPT ![s] = r],
           sender[s].finalized # NoCoordinate => r.finalized = sender[s].finalized,
           r.lifecycle = "Finalized" => r.finalized # NoCoordinate,
           r.finalized # NoCoordinate => r.lifecycle \in {"Finalized", "Cancelled"},
           UNCHANGED <<recipient, floor, outputs, responding, texts>>
    PROVE  Shapes' /\ SignInv' /\ BackInv'
<1>1. Shapes' /\ BackInv'
  BY SMT DEF Shapes, BackInv
<1>2. \A u \in Slates : sender'[u] = IF u = s THEN r ELSE sender[u]
  BY DEF Shapes
<1>3. ASSUME NEW x \in texts, x.phase = "Finalized"
      PROVE  x.response # NoCoordinate /\ x.response = sender'[x.slate].finalized
  <2>1. x.slate \in Slates
    BY DEF Shapes, Texts
  <2> QED
    BY SMT, <1>2, <1>3, <2>1 DEF SignInv
<1>4. SignInv'
  BY SMT, <1>2, <1>3 DEF SignInv
<1> QED
  BY <1>1, <1>4

\* The sender's commands preserve the invariants.
LEMMA SenderPreserves ==
    ASSUME Shapes, SignInv, BackInv, NEW s \in Slates,
           \/ transaction_send_create(s) \/ \E c \in Coordinates : slate_response_import(s, c)
           \/ transaction_finalize(s) \/ SenderCancel(s) \/ CancelExpired(s)
    PROVE  Shapes' /\ SignInv' /\ BackInv'
<1>1. sender[s] \in Records /\ sender \in [Slates -> Records]
  BY DEF Shapes
<1>2. {"InputsReserved", "ResponseImported", "Finalized", "Cancelled"} \subseteq Lifecycles
  BY DEF Lifecycles
<1>3. UNCHANGED <<recipient, floor, outputs, responding, texts>>
  BY DEF transaction_send_create, slate_response_import, transaction_finalize, SenderCancel,
         CancelExpired
<1>4. CASE transaction_send_create(s)
  <2> DEFINE r == Record("InputsReserved")
  <2>1. r \in Records /\ r.lifecycle = "InputsReserved" /\ r.finalized = 0
    BY <1>2 DEF Record, Records
  <2>2. sender[s].finalized = 0
    BY <1>4 DEF transaction_send_create, Known, SignInv
  <2>3. sender' = [sender EXCEPT ![s] = r]
    BY <1>4 DEF transaction_send_create
  <2> HIDE DEF r
  <2> QED
    BY <1>3, <2>1, <2>2, <2>3, SenderChanges
<1>5. CASE \E c \in Coordinates : slate_response_import(s, c)
  <2>0. PICK c \in Coordinates : slate_response_import(s, c)
    BY <1>5
  <2> DEFINE m == Moved(sender[s], "ResponseImported", "RecipientResponse")
             r == [m EXCEPT !.response = c]
  <2>1. m \in Records /\ m.lifecycle = "ResponseImported" /\ m.finalized = sender[s].finalized
    BY SMT, <1>1, <1>2, MovedRecord
  <2>2. sender[s].finalized = 0
    BY <2>0, ImportEdge DEF slate_response_import, SignInv
  <2>3. sender' = [sender EXCEPT ![s] = r]
    BY <1>1, <2>0 DEF slate_response_import
  <2> HIDE DEF m
  <2>4. r \in Records /\ r.lifecycle = "ResponseImported" /\ r.finalized = 0
    BY <2>1, <2>2 DEF Records
  <2> HIDE DEF r
  <2> QED
    BY <1>3, <2>2, <2>3, <2>4, SenderChanges
<1>6. CASE transaction_finalize(s)
  <2> DEFINE m == Moved(sender[s], "Finalized", "Finalization")
             r == [m EXCEPT !.finalized = sender[s].response]
  <2>1. m \in Records /\ m.lifecycle = "Finalized"
    BY SMT, <1>1, <1>2, MovedRecord
  <2>2. sender[s].finalized = 0
    BY <1>6, FinalizeEdge DEF transaction_finalize, SignInv
  <2>3. sender' = [sender EXCEPT ![s] = r]
    BY <1>1, <1>6 DEF transaction_finalize
  <2>4. sender[s].response # 0 /\ sender[s].response \in Coordinates
    BY <1>1, <1>6 DEF transaction_finalize, Records
  <2> HIDE DEF m
  <2>5. r \in Records /\ r.lifecycle = "Finalized" /\ r.finalized # 0
    BY <2>1, <2>4 DEF Records
  <2> HIDE DEF r
  <2> QED
    BY <1>3, <2>2, <2>3, <2>5, SenderChanges
<1>7. CASE SenderCancel(s) \/ CancelExpired(s)
  <2> DEFINE r == Moved(sender[s], "Cancelled", "Cancellation")
  <2>1. r \in Records /\ r.lifecycle = "Cancelled" /\ r.finalized = sender[s].finalized
    BY SMT, <1>1, <1>2, MovedRecord
  <2>2. sender' = [sender EXCEPT ![s] = r]
    BY <1>1, <1>7 DEF SenderCancel, CancelExpired
  <2> HIDE DEF r
  <2> QED
    BY <1>3, <2>1, <2>2, SenderChanges
<1> QED
  BY <1>4, <1>5, <1>6, <1>7

\* What the recipient may do to a record, apart from preparing a response.
LEMMA RecipientChanges ==
    ASSUME Shapes, SignInv, BackInv, NEW s \in Slates, NEW r \in Records,
           recipient' = [recipient EXCEPT ![s] = r],
           r.response = recipient[s].response \/ r.response = NoCoordinate,
           r.finalized \in {NoCoordinate, sender[s].finalized},
           UNCHANGED <<sender, floor, outputs, responding, texts>>
    PROVE  Shapes' /\ SignInv' /\ BackInv'
<1>1. \A u \in Slates : recipient'[u] = IF u = s THEN r ELSE recipient[u]
  BY DEF Shapes
<1>2. Shapes' /\ SignInv'
  BY <1>1 DEF Shapes, SignInv
<1>3. \A u \in Slates : recipient'[u].response \in {recipient[u].response, NoCoordinate}
  BY <1>1
<1>4. BackInv'
  BY SMT, <1>3 DEF BackInv
<1> QED
  BY <1>2, <1>4

\* The recipient's commands preserve the invariants.
LEMMA RecipientPreserves ==
    ASSUME Shapes, SignInv, BackInv, NEW s \in Slates,
           \/ slate_request_import(s) \/ RecipientCancel(s)
           \/ \E c \in Coordinates : transaction_finalized_verify_and_import(s, c)
    PROVE  Shapes' /\ SignInv' /\ BackInv'
<1>1. recipient[s] \in Records /\ recipient \in [Slates -> Records]
      /\ recipient[s].finalized \in {NoCoordinate, sender[s].finalized}
  BY DEF Shapes, SignInv
<1>2. {"RequestImported", "Cancelled"} \subseteq Lifecycles
  BY DEF Lifecycles
<1>3. UNCHANGED <<sender, floor, outputs, responding, texts>>
  BY DEF slate_request_import, RecipientCancel, transaction_finalized_verify_and_import
<1>4. CASE slate_request_import(s)
  <2> DEFINE r == Record("RequestImported")
  <2>1. r \in Records /\ r.finalized = 0 /\ r.response = 0
    BY <1>2 DEF Record, Records
  <2>2. recipient' = [recipient EXCEPT ![s] = r]
    BY <1>4 DEF slate_request_import
  <2> HIDE DEF r
  <2> QED
    BY <1>3, <2>1, <2>2, RecipientChanges
<1>5. CASE RecipientCancel(s)
  <2> DEFINE r == Moved(recipient[s], "Cancelled", "Cancellation")
  <2>1. r \in Records /\ r.response = recipient[s].response
        /\ r.finalized = recipient[s].finalized
    BY SMT, <1>1, <1>2, MovedRecord
  <2>2. recipient' = [recipient EXCEPT ![s] = r]
    BY <1>1, <1>5 DEF RecipientCancel
  <2> HIDE DEF r
  <2> QED
    BY <1>1, <1>3, <2>1, <2>2, RecipientChanges
<1>6. CASE \E c \in Coordinates : transaction_finalized_verify_and_import(s, c)
  <2>0. PICK c \in Coordinates : transaction_finalized_verify_and_import(s, c)
    BY <1>6
  <2> DEFINE r == [recipient[s] EXCEPT !.finalized = c]
  <2>1. r \in Records /\ r.response = recipient[s].response /\ r.finalized = c
    BY <1>1 DEF Records
  <2>2. recipient' = [recipient EXCEPT ![s] = r]
    BY <1>1, <2>0 DEF transaction_finalized_verify_and_import
  <2>3. c = sender[s].finalized
    BY <2>0 DEF transaction_finalized_verify_and_import, SignInv, Finalized
  <2> HIDE DEF r
  <2> QED
    BY <1>3, <2>1, <2>2, <2>3, RecipientChanges
<1> QED
  BY <1>4, <1>5, <1>6

\* The two commits of slate_response_create, and its failure between them.
LEMMA ResponsePreserves ==
    ASSUME Shapes, SignInv, BackInv,
           ResponsePrepare \/ ResponseFails \/ \E s \in Slates : slate_response_create(s)
    PROVE  Shapes' /\ SignInv' /\ BackInv'
<1>1. CASE \E s \in Slates : slate_response_create(s)
  <2>1. PICK s \in Slates : slate_response_create(s)
    BY <1>1
  <2>2. floor + 1 \in Coordinates /\ floor' = floor + 1 /\ floor + 1 \notin outputs
        /\ responding' = [slate |-> s, coordinate |-> floor + 1]
        /\ UNCHANGED <<sender, recipient, outputs, texts>>
    BY SMT, <2>1 DEF slate_response_create, Shapes, BackInv
  <2>3. Shapes' /\ SignInv'
    BY SMT, <2>2 DEF Shapes, SignInv
  <2>4. BackInv'
    BY SMT, <2>2 DEF Shapes, BackInv
  <2> QED
    BY <2>3, <2>4
<1>2. CASE ResponsePrepare
  <2> DEFINE s == responding.slate
             c == responding.coordinate
             m == Moved(recipient[s], "ResponsePrepared", "RecipientResponse")
             r == [m EXCEPT !.response = c]
  <2>1. s \in Slates /\ c \in Coordinates /\ c \notin outputs /\ c <= floor
    BY <1>2 DEF ResponsePrepare, Shapes, BackInv
  <2>2. recipient' = [recipient EXCEPT ![s] = r] /\ outputs' = outputs \union {c}
        /\ responding' = NotResponding /\ UNCHANGED <<sender, floor, texts>>
    BY <1>2, <2>1 DEF ResponsePrepare, Shapes
  <2>3. m \in Records /\ m.finalized = recipient[s].finalized
    BY SMT, <2>1, MovedRecord DEF Shapes, Lifecycles
  <2> HIDE DEF s, c, m
  <2>4. r \in Records /\ r.response = c /\ r.finalized = recipient[s].finalized
    BY <2>1, <2>3 DEF Records
  <2> HIDE DEF r
  <2>5. \A u \in Slates : recipient'[u] = IF u = s THEN r ELSE recipient[u]
    BY <2>1, <2>2 DEF Shapes
  <2>6. Shapes' /\ SignInv'
    BY <2>1, <2>2, <2>4, <2>5 DEF Shapes, SignInv
  <2>7. \A u \in Slates : recipient[u].response # c
    BY SMT, <2>1 DEF BackInv
  <2>8. \A x \in texts : x.phase = "ReceiverResponse" => x.response # c
    BY <2>1 DEF BackInv
  <2>9. \A u \in Slates : recipient'[u].response = IF u = s THEN c ELSE recipient[u].response
    BY <2>4, <2>5
  <2>10. ASSUME NEW u \in Slates, recipient'[u].response # NoCoordinate
         PROVE  /\ recipient'[u].response \in outputs'
                /\ \A v \in Slates \ {u} : recipient'[v].response # recipient'[u].response
    BY SMT, <2>2, <2>7, <2>9, <2>10 DEF BackInv
  <2>11. ASSUME NEW x \in texts', x.phase = "ReceiverResponse"
         PROVE  /\ x.response # NoCoordinate /\ x.response \in outputs'
                /\ \A u \in Slates \ {x.slate} : recipient'[u].response # x.response
                /\ \A y \in texts' : y.phase = "ReceiverResponse" /\ y.response = x.response =>
                      y.slate = x.slate
    BY SMT, <2>2, <2>8, <2>9, <2>11 DEF BackInv
  <2>12. \A d \in outputs' : d \in Nat /\ d <= floor'
    BY SMT, <2>1, <2>2 DEF BackInv
  <2>13. BackInv'
    BY <2>2, <2>10, <2>11, <2>12 DEF BackInv
  <2> QED
    BY <2>6, <2>13
<1>3. CASE ResponseFails
  BY SMT, <1>3 DEF ResponseFails, Shapes, SignInv, BackInv
<1> QED
  BY <1>1, <1>2, <1>3

\* A new text: a request, the stored response, the stored finalized bytes.
LEMMA ExportPreserves ==
    ASSUME Shapes, SignInv, BackInv, NEW s \in Slates,
           slate_request_export(s) \/ slate_response_export(s) \/ transaction_finalized_export(s)
    PROVE  Shapes' /\ SignInv' /\ BackInv'
<1>1. UNCHANGED <<sender, recipient, floor, outputs, responding>>
  BY DEF slate_request_export, slate_response_export, transaction_finalized_export
<1>2. sender[s] \in Records /\ recipient[s] \in Records
  BY DEF Shapes
<1>3. CASE slate_request_export(s)
  <2>1. texts' = texts \union {Request(s)} /\ Request(s) \in Texts
        /\ Request(s).phase = "SenderOffer"
    BY <1>3 DEF slate_request_export, Request, Texts, Phases
  <2> QED
    BY SMT, <1>1, <2>1 DEF Shapes, SignInv, BackInv
<1>4. CASE slate_response_export(s)
  <2> DEFINE c == recipient[s].response
             x == Response(s, c)
  <2>1. c # NoCoordinate /\ c \in Coordinates
    BY <1>2, <1>4 DEF slate_response_export, Records
  <2>2. texts' = texts \union {x}
    BY <1>4 DEF slate_response_export
  <2>3. x \in Texts /\ x.phase = "ReceiverResponse" /\ x.slate = s /\ x.response = c
    BY <2>1 DEF Response, Texts, Phases
  <2>4. c \in outputs /\ \A u \in Slates \ {s} : recipient[u].response # c
    BY <2>1 DEF BackInv
  <2>5. \A y \in texts : y.phase = "ReceiverResponse" /\ y.response = c => y.slate = s
    BY DEF BackInv
  <2> HIDE DEF x, c
  <2>6. Shapes' /\ SignInv'
    BY <1>1, <2>2, <2>3 DEF Shapes, SignInv
  <2>7. BackInv'
    BY SMT, <1>1, <2>1, <2>2, <2>3, <2>4, <2>5 DEF BackInv
  <2> QED
    BY <2>6, <2>7
<1>5. CASE transaction_finalized_export(s)
  <2> DEFINE c == sender[s].finalized
             x == Finalized(s, c)
  <2>1. c # NoCoordinate /\ c \in Coordinates
    BY <1>2, <1>5 DEF transaction_finalized_export, SignInv, Records
  <2>2. texts' = texts \union {x}
    BY <1>5 DEF transaction_finalized_export
  <2>3. x \in Texts /\ x.phase = "Finalized" /\ x.slate = s /\ x.response = c
    BY <2>1 DEF Finalized, Texts, Phases
  <2> HIDE DEF x
  <2>4. Shapes' /\ SignInv'
    BY <1>1, <2>1, <2>2, <2>3 DEF Shapes, SignInv
  <2>5. BackInv'
    BY SMT, <1>1, <2>2, <2>3 DEF BackInv
  <2> QED
    BY SMT, <2>4, <2>5
<1> QED
  BY <1>3, <1>4, <1>5

\* Heights and frames touch none of the wallets' records.
LEMMA Inductive ==
    Shapes /\ SignInv /\ BackInv /\ [SlateNext]_slateVars => Shapes' /\ SignInv' /\ BackInv'
<1> SUFFICES ASSUME Shapes, SignInv, BackInv, [SlateNext]_slateVars PROVE Shapes' /\ SignInv' /\ BackInv'
  OBVIOUS
<1>1. CASE UNCHANGED <<sender, recipient, floor, outputs, responding, texts>>
  BY SMT, <1>1 DEF Shapes, SignInv, BackInv
<1>2. CASE \E s \in Slates :
              \/ transaction_send_create(s) \/ transaction_finalize(s) \/ SenderCancel(s)
              \/ CancelExpired(s) \/ \E c \in Coordinates : slate_response_import(s, c)
  BY <1>2, SenderPreserves
<1>3. CASE \E s \in Slates :
              \/ slate_request_import(s) \/ RecipientCancel(s)
              \/ \E c \in Coordinates : transaction_finalized_verify_and_import(s, c)
  BY <1>3, RecipientPreserves
<1>4. CASE ResponsePrepare \/ ResponseFails \/ \E s \in Slates : slate_response_create(s)
  BY <1>4, ResponsePreserves
<1>5. CASE \E s \in Slates :
              slate_request_export(s) \/ slate_response_export(s) \/ transaction_finalized_export(s)
  BY <1>5, ExportPreserves
<1>6. CASE \/ clear_qr_buffers \/ SenderRestart
           \/ \E w \in Wallets, s \in Slates : HeightReached(w, s)
           \/ \E text \in texts, intact \in BOOLEAN : \E frame \in slate_qr_encode(text) :
                 slate_qr_decode_frame(frame.message, frame.index, intact)
  <2>1. ASSUME NEW message, NEW index, NEW intact, slate_qr_decode_frame(message, index, intact)
        PROVE  UNCHANGED <<sender, recipient, floor, outputs, responding, texts>>
    BY <2>1 DEF slate_qr_decode_frame
  <2>2. ASSUME clear_qr_buffers \/ SenderRestart \/ \E w \in Wallets, s \in Slates : HeightReached(w, s)
        PROVE  UNCHANGED <<sender, recipient, floor, outputs, responding, texts>>
    BY <2>2 DEF clear_qr_buffers, SenderRestart, HeightReached
  <2>3. UNCHANGED <<sender, recipient, floor, outputs, responding, texts>>
    BY <1>6, <2>1, <2>2
  <2> QED BY <1>1, <2>3
<1>7. CASE UNCHANGED slateVars
  BY <1>1, <1>7 DEF slateVars
<1> QED
  BY <1>2, <1>3, <1>4, <1>5, <1>6, <1>7 DEF SlateNext

\* Of every slate at most one finalized transaction leaves the sender, and the
\* recipient retains no other (slate_response_import, transaction_finalize,
\* transaction_finalized_verify_and_import), for any number of slates.
THEOREM OneNonceSignsOnce == SlateSpec => []OneTransaction
<1>1. Shapes /\ SignInv => OneTransaction
  <2> SUFFICES ASSUME Shapes, SignInv, NEW s \in Slates
               PROVE  /\ \A c, d \in Coordinates :
                            Finalized(s, c) \in texts /\ Finalized(s, d) \in texts => c = d
                      /\ recipient[s].finalized # NoCoordinate =>
                            recipient[s].finalized = sender[s].finalized
    BY DEF OneTransaction
  <2>1. \A c \in Coordinates : Finalized(s, c) \in texts => c = sender[s].finalized
    BY DEF SignInv, Finalized
  <2> QED
    BY <2>1 DEF SignInv
<1> QED
  BY <1>1, InitEstablishes, Inductive, PTL DEF SlateSpec

\* Every response that was ever shown has its output and blinding on disk, under
\* a coordinate no other slate uses, although a call may fail or the process die
\* between the two commits of slate_response_create.
THEOREM ShownResponsesAreBacked == SlateSpec => []ResponsesBacked
<1>1. BackInv => ResponsesBacked
  <2> SUFFICES ASSUME BackInv, NEW s \in Slates, NEW c \in Coordinates, Response(s, c) \in texts
               PROVE  /\ c \in outputs /\ c <= floor
                      /\ \A u \in Slates \ {s} :
                            Response(u, c) \notin texts /\ recipient[u].response # c
    BY DEF ResponsesBacked
  <2>1. /\ Response(s, c).phase = "ReceiverResponse" /\ Response(s, c).slate = s
        /\ Response(s, c).response = c
    BY DEF Response
  <2>2. ASSUME NEW u \in Slates \ {s}, Response(u, c) \in texts PROVE FALSE
    <3>1. /\ Response(u, c).phase = "ReceiverResponse" /\ Response(u, c).slate = u
          /\ Response(u, c).response = c
      BY DEF Response
    <3> QED
      BY SMT, <2>1, <2>2, <3>1 DEF BackInv
  <2> QED
    BY SMT, <2>1, <2>2 DEF BackInv
<1> QED
  BY <1>1, InitEstablishes, Inductive, PTL DEF SlateSpec

-----------------------------------------------------------------------------
(* The reassembler of the QR frames. *)

Frames == [index : Parts, intact : BOOLEAN]

FrameInv ==
    /\ qr \in [active : [message : texts \union {NoText}, parts : SUBSET Frames,
                         complete : BOOLEAN],
               completed : SUBSET texts]
    /\ qr.active.complete => /\ qr.active.message \in texts
                             /\ {p.index : p \in qr.active.parts} = Parts
                             /\ Integrity(qr.active.parts)

\* An assembly without parts is not complete.
LEMMA EmptyAssembly ==
    NoAssembly \in [message : texts \union {NoText}, parts : SUBSET Frames, complete : BOOLEAN]
    /\ NoAssembly.complete = FALSE
BY DEF NoAssembly

\* A frame of a text that was shown.
LEMMA FramePreserves ==
    ASSUME FrameInv, NEW text \in texts, NEW intact \in BOOLEAN, NEW i \in Parts,
           slate_qr_decode_frame(text, i, intact)
    PROVE  FrameInv'
<1> DEFINE old == IF qr.active = NoAssembly THEN [NoAssembly EXCEPT !.message = text]
                  ELSE qr.active
           parts == old.parts \union {Part(i, intact)}
           whole == {p.index : p \in parts} = Parts /\ Integrity(parts)
           assembly == [old EXCEPT !.parts = parts, !.complete = whole]
           Assemblies == [message : texts \union {NoText}, parts : SUBSET Frames,
                          complete : BOOLEAN]
<1>1. old \in Assemblies /\ old.message = text
  <2>1. CASE qr.active = NoAssembly
    BY <2>1 DEF NoAssembly
  <2>2. CASE qr.active # NoAssembly
    BY <2>2 DEF FrameInv, slate_qr_decode_frame
  <2> QED
    BY <2>1, <2>2
<1>2. qr' = [active |-> assembly,
             completed |-> IF whole THEN qr.completed \union {text} ELSE qr.completed]
      /\ UNCHANGED texts
  BY DEF slate_qr_decode_frame
<1>3. Part(i, intact) \in Frames
  BY DEF Part, Frames
<1>4. parts \in SUBSET Frames
  BY <1>1, <1>3
<1>5. whole \in BOOLEAN
  OBVIOUS
<1> HIDE DEF old, parts
<1>6. assembly \in Assemblies /\ assembly.message = text /\ assembly.parts = parts
      /\ assembly.complete = whole
  <2> HIDE DEF whole
  <2> QED
    BY <1>1, <1>4, <1>5
<1>7. (IF whole THEN qr.completed \union {text} ELSE qr.completed) \in SUBSET texts
  BY DEF FrameInv
<1>8. whole => {p.index : p \in parts} = Parts /\ Integrity(parts)
  OBVIOUS
<1> HIDE DEF whole, assembly
<1>9. qr'.active = assembly /\ qr'.completed \in SUBSET texts
      /\ qr' \in [active : Assemblies, completed : SUBSET texts]
  BY <1>2, <1>6, <1>7
<1> QED
  BY <1>2, <1>6, <1>8, <1>9 DEF FrameInv

\* Texts are only added, and the frames are those of a text.
LEMMA FrameInvStep == FrameInv /\ [SlateNext]_slateVars => FrameInv'
<1> SUFFICES ASSUME FrameInv, [SlateNext]_slateVars PROVE FrameInv'
  OBVIOUS
<1>1. CASE UNCHANGED qr /\ texts \subseteq texts'
  <2>1. qr.active \in [message : texts' \union {NoText}, parts : SUBSET Frames, complete : BOOLEAN]
        /\ qr.completed \in SUBSET texts'
    BY <1>1 DEF FrameInv
  <2>2. qr' \in [active : [message : texts' \union {NoText}, parts : SUBSET Frames,
                           complete : BOOLEAN],
                 completed : SUBSET texts']
    BY <1>1, <2>1 DEF FrameInv
  <2> QED
    BY <1>1, <2>2 DEF FrameInv
<1>2. CASE \E text \in texts, intact \in BOOLEAN : \E frame \in slate_qr_encode(text) :
              slate_qr_decode_frame(frame.message, frame.index, intact)
  <2>1. PICK text \in texts, intact \in BOOLEAN : \E frame \in slate_qr_encode(text) :
              slate_qr_decode_frame(frame.message, frame.index, intact)
    BY <1>2
  <2>2. PICK i \in Parts : slate_qr_decode_frame(text, i, intact)
    BY SMT, <2>1 DEF slate_qr_encode
  <2> QED
    BY <2>2, FramePreserves
<1>3. CASE clear_qr_buffers \/ SenderRestart
  <2>1. qr'.active = NoAssembly /\ qr'.completed \in SUBSET texts /\ UNCHANGED texts
        /\ qr' = [active |-> NoAssembly, completed |-> qr'.completed]
    BY SMT, <1>3 DEF clear_qr_buffers, SenderRestart, FrameInv
  <2> QED
    BY <2>1, EmptyAssembly DEF FrameInv
<1>4. CASE UNCHANGED slateVars
  BY <1>1, <1>4 DEF slateVars
<1> QED
  BY <1>1, <1>2, <1>3, <1>4 DEF SlateNext, HeightReached, transaction_send_create, slate_request_export,
     slate_request_import, slate_response_create, ResponsePrepare, ResponseFails,
     slate_response_export, slate_response_import, transaction_finalize,
     transaction_finalized_export, transaction_finalized_verify_and_import, SenderCancel,
     RecipientCancel, CancelExpired

\* A text the reassembler hands out was shown, and it has every part of it,
\* unaltered (slate_qr_decode_frame), for any number of parts.
THEOREM AssembledTextsAreWhole == SlateSpec => []OnlyWholeTexts
<1>1. SlateInit => FrameInv
  BY SMT, EmptyAssembly DEF SlateInit, FrameInv
<1>2. FrameInv => OnlyWholeTexts
  <2> SUFFICES ASSUME FrameInv, qr.active.complete, NEW i \in Parts
               PROVE  Part(i, TRUE) \in qr.active.parts
    BY DEF OnlyWholeTexts, FrameInv
  <2>1. PICK p \in qr.active.parts : p.index = i
    BY SMT DEF FrameInv
  <2>2. p \in Frames /\ p.intact = TRUE
    BY <2>1 DEF FrameInv, Integrity, Frames
  <2>3. p = Part(i, TRUE)
    BY <2>1, <2>2 DEF Frames, Part
  <2> QED
    BY <2>3
<1> QED
  BY <1>1, <1>2, FrameInvStep, PTL DEF SlateSpec

HIDE MaxCoordinateAssumption DEF NoCoordinate, Coordinates, NeverBroadcast


-----------------------------------------------------------------------------
(***************************************************************************)
(* The swap sessions of a wallet, for any number of sessions, routes,      *)
(* quotes, faults and restorations.                                        *)
(***************************************************************************)
Fields == {"state", "route", "leg", "quote", "fee", "noted"}

\* A wallet state: sessions among the drawn ids, each under an index of its
\* own that is below the next one.
Whole(wallet, ids) ==
    /\ wallet = [sessions |-> wallet.sessions, next |-> wallet.next]
    /\ wallet.next \in 0..MaxLegIndex
    /\ DOMAIN wallet.sessions \subseteq ids
    /\ \A id \in DOMAIN wallet.sessions :
          LET session == wallet.sessions[id]
          IN  /\ session = [f \in Fields |-> session[f]]
              /\ session.leg \in Nat
              /\ session.leg < wallet.next
              /\ session.route[2] \in DOMAIN ASSET_REGISTRY
    /\ \A a, b \in DOMAIN wallet.sessions :
          wallet.sessions[a].leg = wallet.sessions[b].leg => a = b

\* A session keeps its leg and its route from one state to a later one.
Keeps(old, new) ==
    \A id \in DOMAIN old.sessions :
        /\ id \in DOMAIN new.sessions
        /\ new.sessions[id].leg = old.sessions[id].leg
        /\ new.sessions[id].route = old.sessions[id].route

Recorded(leg, wallet) ==
    /\ leg.id \in DOMAIN wallet.sessions
    /\ wallet.sessions[leg.id].leg = leg.leg
    /\ wallet.sessions[leg.id].route = leg.route

\* The state in memory is an earlier one of the same file, a command between
\* its two commits has the newest one, and what a command returned is on disk
\* as long as the file is.
SwapInv ==
    /\ file \in Nat
    /\ Whole(disk, drafted)
    /\ memory # Locked => Whole(memory, drafted) /\ Keeps(memory, disk)
    /\ drafting # None =>
          /\ memory = disk /\ memory # Locked
          /\ drafting \in DOMAIN disk.sessions
          /\ disk.sessions[drafting].state = "IntentDraft"
    /\ \A leg \in handed :
          /\ leg.file \in Nat /\ leg.file <= file
          /\ leg.file = file => Recorded(leg, disk)
    /\ \A a, b \in handed : a.leg = b.leg /\ a.file = b.file => a.id = b.id

\* The fields of a leg.
LEMMA LegFields ==
    ASSUME NEW id, NEW wallet
    PROVE  /\ Leg(id, wallet).id = id
           /\ Leg(id, wallet).leg = wallet.sessions[id].leg
           /\ Leg(id, wallet).route = wallet.sessions[id].route
           /\ Leg(id, wallet).file = file
BY DEF Leg

\* A wallet without sessions is whole.
LEMMA NewIsWhole ==
    ASSUME NEW ids
    PROVE  Whole(NewWallet, ids) /\ DOMAIN NewWallet.sessions = {}
<1>1. DOMAIN NewWallet.sessions = {} /\ NewWallet.next = 0
  BY SMT DEF NewWallet
<1> QED
  BY SMT, <1>1, SwapBoundsAssumption DEF Whole, NewWallet

\* Initially there is a wallet without sessions.
LEMMA SwapInit == DeskInit => SwapInv
<1> SUFFICES ASSUME DeskInit PROVE SwapInv
  OBVIOUS
<1>1. /\ disk = NewWallet /\ memory = NewWallet /\ drafting = None /\ drafted = {}
      /\ handed = {} /\ file = 0
  BY DEF DeskInit, Init
<1> QED
  BY <1>1, NewIsWhole DEF SwapInv, Keeps

\* The invariant gives each session its own leg, under an address that the
\* wallet exports and scans.
LEMMA SwapInvImplies == SwapInv => OneLegPerSession
<1> SUFFICES ASSUME SwapInv PROVE OneLegPerSession
  OBVIOUS
<1>1. ASSUME NEW a \in KnownLegs, a.file = file
      PROVE  Recorded(a, disk)
  <2>1. CASE a \in handed
    BY <1>1, <2>1 DEF SwapInv
  <2>2. CASE \E id \in DOMAIN disk.sessions : a = Leg(id, disk)
    BY SMT, <2>2, LegFields DEF Recorded
  <2>3. CASE memory # Locked /\ \E id \in DOMAIN memory.sessions : a = Leg(id, memory)
    BY SMT, <2>3, LegFields DEF SwapInv, Keeps, Recorded
  <2> QED BY <2>1, <2>2, <2>3 DEF KnownLegs
<1>2. ASSUME NEW a \in KnownLegs, NEW b \in KnownLegs, a.leg = b.leg, a.file = b.file
      PROVE  a.id = b.id
  <2>1. CASE a.file = file
    <3>1. Recorded(a, disk) /\ Recorded(b, disk)
      BY <1>1, <1>2, <2>1
    <3>2. \A i, j \in DOMAIN disk.sessions : disk.sessions[i].leg = disk.sessions[j].leg => i = j
      BY DEF SwapInv, Whole
    <3> QED BY <1>2, <3>1, <3>2 DEF Recorded
  <2>2. CASE a.file # file
    <3>1. a \in handed /\ b \in handed
      BY SMT, <1>2, <2>2, LegFields DEF KnownLegs
    <3> QED BY <1>2, <3>1 DEF SwapInv
  <2> QED BY <2>1, <2>2
<1>3. ASSUME NEW leg \in handed, leg.file = file
      PROVE  ReceivingAddresses(leg.route, leg.leg)
                 \subseteq swap_leg_keys_export(disk) \cap swap_leg_scan_plan(disk)
  <2>1. Recorded(leg, disk)
    BY <1>3 DEF SwapInv
  <2>2. /\ leg.leg \in swap_used_leg_indices(disk)
        /\ leg.route[2] \in DOMAIN ASSET_REGISTRY
        /\ leg.leg \in Nat /\ leg.leg < disk.next /\ disk.next \in 0..MaxLegIndex
    BY SMT, <2>1 DEF Recorded, SwapInv, Whole, swap_used_leg_indices, Range
  <2>3. leg.leg \in 0..swap_leg_scan_bounds(disk)
    BY SMT, <2>2, SwapBoundsAssumption DEF swap_leg_scan_bounds
  <2>4. 0 \in swap_used_leg_indices(disk) /\ 0 \in 0..swap_leg_scan_bounds(disk)
    BY SMT, <2>2, SwapBoundsAssumption DEF swap_leg_scan_bounds, swap_used_leg_indices
  <2>5. ASSET_REGISTRY[leg.route[2]] \in {"dom", "bitcoin", "monero", "evm", "solana"}
    BY <2>2 DEF ASSET_REGISTRY
  <2> QED
    BY SMT, <2>2, <2>3, <2>4, <2>5
       DEF ReceivingAddresses, swap_leg_keys_export, swap_leg_scan_plan, Addresses
<1> QED
  BY <1>2, <1>3 DEF OneLegPerSession

-----------------------------------------------------------------------------
(***************************************************************************)
(* Commits.                                                                *)
(***************************************************************************)

\* What a step may do: publish a state in which every session keeps its leg,
\* and tell the caller of one of its sessions.
LEMMA Publishes ==
    ASSUME SwapInv, NEW w, w # Locked, Whole(w, drafted'), Keeps(disk, w),
           disk' = w, memory' = w \/ (memory' = memory /\ memory # Locked),
           drafted \subseteq drafted', file' = file,
           \/ drafting' = None
           \/ /\ memory' = w /\ drafting' \in DOMAIN w.sessions
              /\ w.sessions[drafting'].state = "IntentDraft",
           handed' = handed \/ \E id \in DOMAIN w.sessions : Returned(id, w)
    PROVE  SwapInv'
<1>1. memory' # Locked => Whole(memory', drafted') /\ Keeps(memory', w)
  <2>1. Keeps(w, w)
    BY DEF Keeps
  <2>2. memory # Locked => Keeps(memory, w)
    BY DEF SwapInv, Keeps
  <2>3. memory # Locked => Whole(memory, drafted')
    BY DEF SwapInv, Whole
  <2> QED BY <2>1, <2>2, <2>3
<1>2. ASSUME NEW leg \in handed, leg.file = file
      PROVE  Recorded(leg, w)
  BY <1>2 DEF SwapInv, Keeps, Recorded
<1>3. \A i, j \in DOMAIN w.sessions : w.sessions[i].leg = w.sessions[j].leg => i = j
  BY DEF Whole
<1>4. /\ \A leg \in handed' :
            /\ leg.file \in Nat /\ leg.file <= file
            /\ leg.file = file => Recorded(leg, w)
      /\ \A a, b \in handed' : a.leg = b.leg /\ a.file = b.file => a.id = b.id
  <2>1. CASE handed' = handed
    BY <1>2, <2>1 DEF SwapInv
  <2>2. ASSUME NEW id \in DOMAIN w.sessions, Returned(id, w)
        PROVE  <1>4!1 /\ <1>4!2
    <3>1. Recorded(Leg(id, w), w) /\ Leg(id, w).file = file
      BY SMT, LegFields DEF Recorded
    <3>2. handed' = handed \cup {Leg(id, w)}
      BY <2>2 DEF Returned
    <3>3. ASSUME NEW a \in handed', NEW b \in handed', a.leg = b.leg, a.file = b.file
          PROVE  a.id = b.id
      <4>1. CASE a.file = file
        <5>1. Recorded(a, w) /\ Recorded(b, w)
          BY <1>2, <3>1, <3>2, <3>3, <4>1
        <5> QED BY <1>3, <3>3, <5>1 DEF Recorded
      <4>2. CASE a.file # file
        BY <3>1, <3>2, <3>3, <4>2 DEF SwapInv
      <4> QED BY <4>1, <4>2
    <3> QED BY SMT, <1>2, <3>1, <3>2, <3>3 DEF SwapInv
  <2> QED BY <2>1, <2>2
<1> QED
  BY <1>1, <1>4 DEF SwapInv

\* A step that publishes nothing.
LEMMA Rests ==
    ASSUME SwapInv, UNCHANGED <<disk, memory, handed, file>>, drafted \subseteq drafted',
           drafting' = None \/ drafting' = drafting
    PROVE  SwapInv'
<1>1. Whole(disk, drafted') /\ (memory # Locked => Whole(memory, drafted'))
  BY DEF SwapInv, Whole
<1> QED
  BY <1>1 DEF SwapInv

\* A command changes one session of the state in memory, and not its leg.
LEMMA Changed ==
    ASSUME SwapInv, memory # Locked, NEW id \in DOMAIN memory.sessions, NEW session,
           session = [f \in Fields |-> session[f]],
           session.leg = memory.sessions[id].leg, session.route = memory.sessions[id].route
    PROVE  LET w == WithSession(memory, id, session)
           IN  /\ w # Locked /\ Whole(w, drafted) /\ Keeps(memory, w)
               /\ DOMAIN w.sessions = DOMAIN memory.sessions
               /\ \A i \in DOMAIN memory.sessions :
                     w.sessions[i] = IF i = id THEN session ELSE memory.sessions[i]
<1> DEFINE w == WithSession(memory, id, session)
<1>0. Whole(memory, drafted)
  BY DEF SwapInv
<1>1. w = [sessions |-> [i \in DOMAIN memory.sessions |->
                           IF i = id THEN session ELSE memory.sessions[i]],
           next |-> memory.next]
  BY SMT, <1>0 DEF WithSession, Whole
<1> HIDE DEF w
<1>2. /\ DOMAIN w.sessions = DOMAIN memory.sessions /\ w.next = memory.next
      /\ w = [sessions |-> w.sessions, next |-> w.next]
      /\ \A i \in DOMAIN memory.sessions :
            w.sessions[i] = IF i = id THEN session ELSE memory.sessions[i]
  BY <1>1
<1>3. Keeps(memory, w)
  BY <1>2 DEF Keeps
<1>4. Whole(w, drafted)
  BY SMT, <1>0, <1>2 DEF Whole
<1>5. w # Locked
  BY SMT, <1>4 DEF Whole, Locked
<1> QED
  BY <1>2, <1>3, <1>4, <1>5 DEF w

\* No session disappears, and one that ended stays as it is.
StaysFinal(old, new) ==
    \A id \in DOMAIN old.sessions :
        /\ id \in DOMAIN new.sessions
        /\ old.sessions[id].state \in Terminal => new.sessions[id] = old.sessions[id]

\* A commit of a command that changes a session which has not ended: it is
\* published from the newest state or not at all (WalletService::commit).
LEMMA CommitPreserves ==
    ASSUME SwapInv, memory # Locked, NEW id \in DOMAIN memory.sessions, NEW session,
           session = [f \in Fields |-> session[f]],
           session.leg = memory.sessions[id].leg, session.route = memory.sessions[id].route,
           memory.sessions[id].state \notin Terminal,
           Commit(WithSession(memory, id, session), id),
           drafting' = None, UNCHANGED <<drafted, file>>
    PROVE  SwapInv' /\ StaysFinal(disk, disk')
<1> DEFINE w == WithSession(memory, id, session)
<1>1. /\ w # Locked /\ Whole(w, drafted) /\ Keeps(memory, w)
      /\ DOMAIN w.sessions = DOMAIN memory.sessions
      /\ \A i \in DOMAIN memory.sessions :
            w.sessions[i] = IF i = id THEN session ELSE memory.sessions[i]
  BY SMT, Changed
<1>2. \/ CommitSucceeds(w) /\ Returned(id, w)
      \/ CommitHalfReported(w)
      \/ CommitFails
  BY DEF Commit
<1> HIDE DEF w
<1>3. CASE CommitSucceeds(w) /\ Returned(id, w)
  <2>1. memory = disk /\ disk' = w /\ memory' = w
    BY <1>3 DEF CommitSucceeds, ExpectedGeneration
  <2>2. StaysFinal(disk, disk')
    BY <1>1, <2>1 DEF StaysFinal
  <2>3. Keeps(disk, w) /\ Whole(w, drafted') /\ drafted \subseteq drafted'
        /\ \E i \in DOMAIN w.sessions : Returned(i, w)
    BY <1>1, <1>3, <2>1
  <2>4. SwapInv'
    BY <1>1, <2>1, <2>3, Publishes
  <2> QED BY <2>2, <2>4
<1>4. CASE CommitHalfReported(w)
  <2>1. memory = disk /\ disk' = w /\ memory' = memory /\ handed' = handed
    BY <1>4 DEF CommitHalfReported, ExpectedGeneration
  <2>2. StaysFinal(disk, disk')
    BY <1>1, <2>1 DEF StaysFinal
  <2>3. Keeps(disk, w) /\ Whole(w, drafted') /\ drafted \subseteq drafted'
    BY <1>1, <2>1
  <2>4. SwapInv'
    BY <1>1, <2>1, <2>3, Publishes
  <2> QED BY SMT, <2>2, <2>4
<1>5. CASE CommitFails
  BY <1>5, Rests DEF CommitFails, StaysFinal
<1> QED
  BY <1>2, <1>3, <1>4, <1>5

\* A draft gets the next index, and the index after it is the next.
LEMMA Drafted ==
    ASSUME SwapInv, memory # Locked, NEW id \in Sessions, id \notin drafted, NEW route \in Routes,
           route[2] \in DOMAIN ASSET_REGISTRY, memory.next + 1 <= MaxLegIndex
    PROVE  LET w == swap_session_create_draft(id, route)
           IN  /\ w # Locked /\ Whole(w, drafted \cup {id}) /\ Keeps(memory, w)
               /\ DOMAIN w.sessions = DOMAIN memory.sessions \cup {id}
               /\ w.sessions[id] = Draft(route, memory.next)
               /\ \A i \in DOMAIN memory.sessions : w.sessions[i] = memory.sessions[i]
<1> DEFINE w == swap_session_create_draft(id, route)
<1>0. Whole(memory, drafted) /\ id \notin DOMAIN memory.sessions
  BY DEF SwapInv, Whole
<1>1. w = [sessions |-> [i \in DOMAIN memory.sessions \cup {id} |->
                           IF i = id THEN Draft(route, memory.next) ELSE memory.sessions[i]],
           next |-> memory.next + 1]
  <2>1. AllocatesLeg(memory) = [sessions |-> memory.sessions, next |-> memory.next + 1]
    BY SMT, <1>0 DEF AllocatesLeg, Whole
  <2> QED BY SMT, <2>1 DEF swap_session_create_draft, WithSession
<1> HIDE DEF w
<1>2. /\ DOMAIN w.sessions = DOMAIN memory.sessions \cup {id} /\ w.next = memory.next + 1
      /\ w = [sessions |-> w.sessions, next |-> w.next]
      /\ w.sessions[id] = Draft(route, memory.next)
      /\ \A i \in DOMAIN memory.sessions : w.sessions[i] = memory.sessions[i]
  BY <1>0, <1>1
<1>3. Keeps(memory, w)
  BY <1>2 DEF Keeps
<1>4. Whole(w, drafted \cup {id})
  <2> DEFINE session == Draft(route, memory.next)
  <2>1. /\ session = [f \in Fields |-> session[f]]
        /\ session.leg = memory.next /\ session.route = route
    BY DEF Draft, Fields
  <2>2. memory.next \in Nat /\ w.next \in 0..MaxLegIndex /\ w.next = memory.next + 1
    BY SMT, <1>0, <1>2, SwapBoundsAssumption DEF Whole
  <2> HIDE DEF session
  <2>3. ASSUME NEW i \in DOMAIN w.sessions
        PROVE  /\ w.sessions[i] = [f \in Fields |-> w.sessions[i][f]]
               /\ w.sessions[i].leg \in Nat
               /\ w.sessions[i].leg < w.next
               /\ w.sessions[i].route[2] \in DOMAIN ASSET_REGISTRY
               /\ i # id => w.sessions[i].leg < memory.next
    BY SMT, <1>0, <1>2, <2>1, <2>2 DEF Whole, session
  <2>4. w.sessions[id].leg = memory.next
    BY <1>2, <2>1 DEF session
  <2>5. ASSUME NEW a \in DOMAIN w.sessions, NEW b \in DOMAIN w.sessions,
               w.sessions[a].leg = w.sessions[b].leg
        PROVE  a = b
    <3>1. CASE a # id /\ b # id
      BY <1>0, <1>2, <2>5, <3>1 DEF Whole
    <3>2. CASE a = id \/ b = id
      <4>1. \A i \in DOMAIN w.sessions :
              i # id => w.sessions[i].leg \in Nat /\ w.sessions[i].leg < memory.next
        BY <2>3
      <4> QED BY SMT, <2>2, <2>4, <2>5, <3>2, <4>1
    <3> QED BY <3>1, <3>2
  <2> QED BY <1>0, <1>2, <2>2, <2>3, <2>5 DEF Whole
<1>5. w # Locked
  BY SMT, <1>4 DEF Whole, Locked
<1> QED
  BY <1>2, <1>3, <1>4, <1>5 DEF w

\* swap_intent_create, its first commit.
LEMMA IntentPreserves ==
    ASSUME SwapInv, NEW id \in Sessions, NEW route \in Routes, IntentCreate(id, route)
    PROVE  SwapInv' /\ StaysFinal(disk, disk')
<1> DEFINE w == swap_session_create_draft(id, route)
<1>0. /\ memory # Locked /\ drafting = None /\ id \notin drafted
      /\ drafted' = drafted \cup {id} /\ file' = file
      /\ route[2] \in DOMAIN ASSET_REGISTRY /\ memory.next + 1 <= MaxLegIndex
  BY DEF IntentCreate, Idle
<1>d. /\ w # Locked /\ Whole(w, drafted \cup {id}) /\ Keeps(memory, w)
      /\ DOMAIN w.sessions = DOMAIN memory.sessions \cup {id}
      /\ w.sessions[id] = Draft(route, memory.next)
      /\ \A i \in DOMAIN memory.sessions : w.sessions[i] = memory.sessions[i]
  BY <1>0, Drafted
<1>1. /\ w # Locked /\ Whole(w, drafted') /\ Keeps(memory, w)
      /\ DOMAIN w.sessions = DOMAIN memory.sessions \cup {id}
      /\ w.sessions[id] = Draft(route, memory.next)
      /\ \A i \in DOMAIN memory.sessions : w.sessions[i] = memory.sessions[i]
  BY <1>0, <1>d
<1>2. \/ CommitSucceeds(w) /\ drafting' = id /\ UNCHANGED handed
      \/ (CommitHalfReported(w) \/ CommitFails) /\ UNCHANGED drafting
  BY DEF IntentCreate
<1> HIDE DEF w
<1>3. CASE CommitSucceeds(w) /\ drafting' = id /\ UNCHANGED handed
  <2>1. memory = disk /\ disk' = w /\ memory' = w /\ handed' = handed
    BY <1>3 DEF CommitSucceeds, ExpectedGeneration
  <2>2. StaysFinal(disk, disk')
    BY <1>1, <2>1 DEF StaysFinal
  <2>3. /\ Keeps(disk, w) /\ drafted \subseteq drafted'
        /\ drafting' \in DOMAIN w.sessions /\ w.sessions[drafting'].state = "IntentDraft"
    BY SMT, <1>0, <1>1, <1>3, <2>1 DEF Draft
  <2>4. SwapInv'
    BY <1>0, <1>1, <2>1, <2>3, Publishes
  <2> QED BY <2>2, <2>4
<1>4. CASE CommitHalfReported(w) /\ UNCHANGED drafting
  <2>1. memory = disk /\ disk' = w /\ memory' = memory /\ handed' = handed
    BY <1>4 DEF CommitHalfReported, ExpectedGeneration
  <2>2. StaysFinal(disk, disk')
    BY <1>1, <2>1 DEF StaysFinal
  <2>3. Keeps(disk, w) /\ drafted \subseteq drafted'
    BY <1>0, <1>1, <2>1
  <2>4. SwapInv'
    BY <1>0, <1>1, <1>4, <2>1, <2>3, Publishes
  <2> QED BY SMT, <2>2, <2>4
<1>5. CASE CommitFails /\ UNCHANGED drafting
  BY <1>0, <1>5, Rests DEF CommitFails, StaysFinal
<1> QED
  BY <1>2, <1>3, <1>4, <1>5

\* Its second commit.
LEMMA NotedPreserves ==
    ASSUME SwapInv, IntentNoted
    PROVE  SwapInv' /\ StaysFinal(disk, disk')
<1> DEFINE session == [memory.sessions[drafting] EXCEPT !.noted = TRUE]
<1>1. /\ memory # Locked /\ drafting \in DOMAIN memory.sessions
      /\ memory.sessions[drafting].state = "IntentDraft"
  BY DEF SwapInv, IntentNoted
<1>2. memory.sessions[drafting] = [f \in Fields |-> memory.sessions[drafting][f]]
  BY <1>1 DEF SwapInv, Whole
<1>3. /\ session = [f \in Fields |-> session[f]]
      /\ session.leg = memory.sessions[drafting].leg
      /\ session.route = memory.sessions[drafting].route
  BY <1>2 DEF Fields
<1>4. /\ Commit(WithSession(memory, drafting, session), drafting)
      /\ drafting' = None /\ UNCHANGED <<drafted, file>>
  BY DEF IntentNoted
<1> QED
  BY <1>1, <1>3, <1>4, CommitPreserves DEF Terminal

\* No transition leaves an end.
LEMMA EndsAreEnds ==
    ASSUME NEW state, NEW next, <<state, next>> \in may_transition_to
    PROVE  state \notin Terminal
BY DEF may_transition_to, ForwardEdges, Locking, free_cancellation, Terminal

\* A transition, by a cancellation or by the daemon's channel.
LEMMA TransitionPreserves ==
    ASSUME SwapInv, NEW id, NEW next, SessionTransition(id, next)
    PROVE  SwapInv' /\ StaysFinal(disk, disk')
<1> DEFINE session == [memory.sessions[id] EXCEPT !.state = next]
<1>1. /\ memory # Locked /\ id \in DOMAIN memory.sessions /\ drafting' = None
      /\ memory.sessions[id].state \notin Terminal
  BY EndsAreEnds DEF SessionTransition, Idle
<1>2. memory.sessions[id] = [f \in Fields |-> memory.sessions[id][f]]
  BY <1>1 DEF SwapInv, Whole
<1>3. /\ session = [f \in Fields |-> session[f]]
      /\ session.leg = memory.sessions[id].leg
      /\ session.route = memory.sessions[id].route
  BY <1>2 DEF Fields
<1>4. Commit(WithSession(memory, id, session), id) /\ UNCHANGED <<drafted, file>>
  BY DEF SessionTransition
<1> QED
  BY <1>1, <1>3, <1>4, CommitPreserves

\* The commit of an accepted quote.
LEMMA QuotePreserves ==
    ASSUME SwapInv, NEW id, NEW quote, swap_authenticated_quote_commit(id, quote)
    PROVE  SwapInv' /\ StaysFinal(disk, disk')
<1>0. /\ memory # Locked /\ id \in DOMAIN memory.sessions /\ drafting' = None
      /\ UNCHANGED <<drafted, file>>
  BY DEF swap_authenticated_quote_commit, Idle
<1>1. PICK fee : swap_session_accept_quote(id, quote, fee)
  BY DEF swap_authenticated_quote_commit
<1> DEFINE session == AcceptsQuote(memory.sessions[id], quote, fee)
<1>2. /\ memory.sessions[id].state \notin Terminal
      /\ Commit(WithSession(memory, id, session), id)
  BY <1>1, EndsAreEnds DEF swap_session_accept_quote
<1>3. memory.sessions[id] = [f \in Fields |-> memory.sessions[id][f]]
  BY <1>0 DEF SwapInv, Whole
<1>4. /\ session = [f \in Fields |-> session[f]]
      /\ session.leg = memory.sessions[id].leg
      /\ session.route = memory.sessions[id].route
  BY <1>3 DEF Fields, AcceptsQuote
<1> QED
  BY <1>0, <1>2, <1>4, CommitPreserves

\* Every step keeps the invariant, and within one wallet file it keeps every
\* session and does not change one that ended.
LEMMA SwapStep ==
    ASSUME SwapInv, [DeskNext]_vars
    PROVE  SwapInv' /\ (file' = file => StaysFinal(disk, disk'))
<1>1. CASE \E id \in Sessions, route \in Routes : IntentCreate(id, route)
  BY <1>1, IntentPreserves
<1>2. CASE IntentNoted
  BY <1>2, NotedPreserves
<1>3. CASE \E id \in Sessions : swap_session_cancel(id) \/ DaemonAdvances(id)
  BY <1>3, TransitionPreserves DEF swap_session_cancel, DaemonAdvances
<1>4. CASE LockOrCrash
  <2>1. /\ memory' = Locked /\ drafting' = None
        /\ UNCHANGED <<disk, drafted, handed, file>>
    BY <1>4 DEF LockOrCrash
  <2> QED BY <2>1 DEF SwapInv, StaysFinal
<1>5. CASE Load
  <2>1. memory' = disk /\ UNCHANGED <<disk, drafting, drafted, handed, file>>
    BY <1>5 DEF Load
  <2>2. disk # Locked
    BY SMT DEF SwapInv, Whole, Locked
  <2>3. Keeps(disk, disk)
    BY DEF Keeps
  <2> QED BY <2>1, <2>2, <2>3 DEF SwapInv, StaysFinal
<1>6. CASE RestoreFromPhrase
  <2>1. /\ memory = Locked /\ file' = file + 1 /\ disk' = NewWallet
        /\ UNCHANGED <<memory, drafting, drafted, handed>>
    BY <1>6 DEF RestoreFromPhrase
  <2>2. \A leg \in handed : leg.file \in Nat /\ leg.file <= file' /\ leg.file # file'
    BY SMT, <2>1 DEF SwapInv
  <2>3. drafting = None /\ Whole(NewWallet, drafted) /\ file' \in Nat /\ file' # file
    BY SMT, <2>1, NewIsWhole DEF SwapInv
  <2> QED BY <2>1, <2>2, <2>3 DEF SwapInv
<1>7. CASE AdapterCommits
  BY <1>7, QuotePreserves DEF AdapterCommits
<1>8. CASE UNCHANGED svars
  BY <1>8, Rests DEF svars, StaysFinal
<1> QED
  BY <1>1, <1>2, <1>3, <1>4, <1>5, <1>6, <1>7, <1>8 DEF DeskNext, SessionStep, vars

-----------------------------------------------------------------------------
\* Two sessions of a wallet file never share a derivation index, and the
\* address of every session a command returned is exported and scanned,
\* whatever commits fail or are half reported, for any number of sessions,
\* routes, faults and restorations (swap_session_create_draft).
THEOREM LegsAreNotShared == Spec => []OneLegPerSession
<1> QED
  BY SwapInit, SwapStep, SwapInvImplies, PTL DEF Spec

\* A session that ended stays as it is and none disappears
\* (SwapSessionState::may_transition_to, WalletService::commit).
THEOREM EndedSessionsStay == Spec => FinalStaysFinal
<1>1. SwapInv /\ [DeskNext]_vars =>
        [ file' = file =>
            \A id \in DOMAIN disk.sessions :
              /\ id \in DOMAIN disk'.sessions
              /\ disk.sessions[id].state \in Terminal =>
                    disk'.sessions[id] = disk.sessions[id] ]_vars
  BY SwapStep DEF StaysFinal
<1> QED
  BY <1>1, SwapInit, SwapStep, PTL DEF Spec, FinalStaysFinal

-----------------------------------------------------------------------------
(***************************************************************************)
(* The envelopes the swap client signs, for any number of solvers, quotes  *)
(* and messages.                                                           *)
(***************************************************************************)
\* A set of naturals has a least element.
LEMMA Least ==
    ASSUME NEW S \in SUBSET Nat, S # {}
    PROVE  \E m \in S : \A n \in S : m <= n
<1> DEFINE R == OpToRel(<, Nat)
<1>1. IsWellFoundedOn(R, Nat)
  BY NatLessThanWellFounded DEF OpToRel
<1> HIDE DEF R
<1>2. PICK m \in S : \A n \in S : ~ (<<n, m>> \in R)
  BY <1>1, WFMin
<1>3. \A n \in S : ~ (n < m)
  <2> SUFFICES ASSUME NEW n \in S, n < m PROVE FALSE
    OBVIOUS
  <2>1. <<n, m>> \in Nat \X Nat
    OBVIOUS
  <2>2. <<n, m>> \in R
    BY <2>1 DEF R, OpToRel
  <2> QED BY <1>2, <2>2
<1> QED BY SMT, <1>3

\* A client and its record of what was signed: every envelope is addressed to a
\* solver and not past the last one of its flow, and no sequence has two.
Sound(fs, es) ==
    /\ fs = [solver \in Range(Solvers) |-> fs[solver]]
    /\ \A solver \in Range(Solvers) : fs[solver].sequence \in Nat \cup {-1}
    /\ \A e \in es : /\ e.recipient \in Range(Solvers)
                     /\ e.sequence \in Nat
                     /\ e.sequence <= fs[e.recipient].sequence
    /\ \A a, b \in es : a.recipient = b.recipient /\ a.sequence = b.sequence => a = b

\* Mail and quotes name solvers of the descriptor.
NegotiationInv ==
    /\ Sound(flows, signed)
    /\ \A frame \in mailbox : frame.sender \in Range(Solvers)
    /\ \A quote \in held : quote.solver \in Range(Solvers)

\* A new envelope takes the next sequence of its flow.
LEMMA EnvelopeIsSound ==
    ASSUME NEW chain, NEW es, Sound(chain.flows, es \cup chain.signed),
           NEW message, message[1] \in Range(Solvers)
    PROVE  Sound(SignNext(chain, message).flows, es \cup SignNext(chain, message).signed)
<1> DEFINE to == message[1]
           new == Envelope(chain.flows[to], to, message[2])
           fs == [chain.flows EXCEPT ![to] = new]
<1>1. /\ SignNext(chain, message).flows = fs
      /\ SignNext(chain, message).signed = chain.signed \cup {new}
  BY DEF SignNext
<1>2. /\ new.recipient = to /\ new.sequence = chain.flows[to].sequence + 1
      /\ new.sequence \in Nat
  BY SMT DEF Envelope, Sound
<1> HIDE DEF new
<1>3. /\ fs = [solver \in Range(Solvers) |-> fs[solver]] /\ fs[to] = new
      /\ \A solver \in Range(Solvers) : solver # to => fs[solver] = chain.flows[solver]
  BY DEF Sound
<1>4. \A e \in es \cup chain.signed : e.recipient = to => e.sequence < new.sequence
  BY SMT, <1>2 DEF Sound
<1> HIDE DEF fs, to
<1>5. Sound(fs, es \cup chain.signed \cup {new})
  <2>1. \A solver \in Range(Solvers) : fs[solver].sequence \in Nat \cup {-1}
    BY <1>2, <1>3 DEF Sound
  <2>2. ASSUME NEW e \in es \cup chain.signed \cup {new}
        PROVE  /\ e.recipient \in Range(Solvers) /\ e.sequence \in Nat
               /\ e.sequence <= fs[e.recipient].sequence
    <3>1. CASE e = new
      BY SMT, <1>2, <1>3, <3>1 DEF to
    <3>2. CASE e \in es \cup chain.signed /\ e.recipient = to
      BY SMT, <1>2, <1>3, <1>4, <3>2 DEF Sound
    <3>3. CASE e \in es \cup chain.signed /\ e.recipient # to
      BY <1>3, <3>3 DEF Sound
    <3> QED BY <3>1, <3>2, <3>3
  <2>3. ASSUME NEW a \in es \cup chain.signed \cup {new}, NEW b \in es \cup chain.signed \cup {new},
               a.recipient = b.recipient, a.sequence = b.sequence
        PROVE  a = b
    BY SMT, <1>2, <1>4, <2>3 DEF Sound
  <2> QED BY SMTT(30), <1>3, <2>1, <2>2, <2>3 DEF Sound
<1> QED BY <1>1, <1>5

\* The client after k messages is what signing the k-th made of it.
LEMMA SigningIs ==
    ASSUME NEW messages, NEW n \in Nat
    PROVE  /\ Signing(messages, n)[0] = [flows |-> flows, signed |-> {}]
           /\ \A k \in 1 .. n :
                Signing(messages, n)[k] = SignNext(Signing(messages, n)[k - 1], messages[k])
<1> DEFINE start == [flows |-> flows, signed |-> {}]
           Of(g, m) == [k \in 0 .. m |-> IF k = 0 THEN start
                                         ELSE SignNext(g[k - 1], messages[k])]
           Bad == {m \in Nat : ~ \E g : g = Of(g, m)}
<1> HIDE DEF start
<1>1. ASSUME NEW m \in Nat, NEW g, g = Of(g, m)
      PROVE  \E h : h = Of(h, m + 1)
  <2> DEFINE h == [k \in 0 .. m + 1 |-> IF k \in 0 .. m THEN g[k]
                                        ELSE SignNext(g[m], messages[m + 1])]
  <2>1. DOMAIN h = 0 .. m + 1 /\ \A k \in 0 .. m : h[k] = g[k]
    BY SMT
  <2>2. h[m + 1] = SignNext(g[m], messages[m + 1])
    BY SMT
  <2>3. \A k \in 0 .. m : g[k] = IF k = 0 THEN start ELSE SignNext(g[k - 1], messages[k])
    BY <1>1
  <2>4. h = [k \in 0 .. m + 1 |-> h[k]]
    OBVIOUS
  <2> HIDE DEF h
  <2>5. ASSUME NEW k \in 0 .. m + 1
        PROVE  h[k] = IF k = 0 THEN start ELSE SignNext(h[k - 1], messages[k])
    <3>1. CASE k = 0
      BY SMT, <2>1, <2>3, <3>1
    <3>2. CASE k \in 1 .. m
      <4>1. k \in 0 .. m /\ k - 1 \in 0 .. m /\ k # 0
        BY SMT, <3>2
      <4> QED BY <2>1, <2>3, <4>1
    <3>3. CASE k = m + 1
      <4>1. k # 0 /\ k - 1 = m /\ m \in 0 .. m
        BY SMT, <3>3
      <4> QED BY <2>1, <2>2, <3>3, <4>1
    <3> QED BY SMT, <3>1, <3>2, <3>3
  <2>6. h = Of(h, m + 1)
    BY <2>4, <2>5
  <2> QED BY <2>6
<1>2. \E g : g = Of(g, 0)
  <2> DEFINE g == [k \in 0 .. 0 |-> start]
  <2>1. g = Of(g, 0)
    BY SMT
  <2> QED BY <2>1
<1>3. Bad = {}
  <2> SUFFICES ASSUME Bad # {} PROVE FALSE
    OBVIOUS
  <2>1. PICK m \in Bad : \A i \in Bad : m <= i
    BY Least
  <2>2. m # 0
    BY <1>2
  <2>3. m - 1 \in Nat /\ m - 1 \notin Bad /\ (m - 1) + 1 = m
    BY SMT, <2>1, <2>2
  <2>4. PICK g : g = Of(g, m - 1)
    BY <2>3
  <2>5. \E h : h = Of(h, (m - 1) + 1)
    BY <1>1, <2>3, <2>4
  <2>6. \E h : h = Of(h, m)
    BY SMT, <2>3, <2>5
  <2> QED BY <2>6
<1>4. \E g : g = Of(g, n)
  BY <1>3
<1>5. Signing(messages, n) = Of(Signing(messages, n), n)
  BY <1>4 DEF Signing, start
<1> HIDE DEF Of
<1>6. \A k \in 0 .. n : Of(Signing(messages, n), n)[k] =
         IF k = 0 THEN start ELSE SignNext(Signing(messages, n)[k - 1], messages[k])
  BY DEF Of
<1>7. 0 \in 0 .. n /\ \A k \in 1 .. n : k \in 0 .. n /\ k # 0
  BY SMT
<1> QED BY <1>5, <1>6, <1>7 DEF start

\* Signing messages to solvers keeps the client sound.
LEMMA SignsSoundly ==
    ASSUME Sound(flows, signed), NEW messages, NEW n \in Nat, Signs(messages, n),
           \A k \in 1 .. n : messages[k][1] \in Range(Solvers)
    PROVE  Sound(flows', signed')
<1> DEFINE C == Signing(messages, n)
           Bad == {k \in 0 .. n : ~ Sound(C[k].flows, signed \cup C[k].signed)}
<1>0. C[0] = [flows |-> flows, signed |-> {}] /\ \A k \in 1 .. n : C[k] = SignNext(C[k - 1], messages[k])
  BY SigningIs
<1>1. flows' = C[n].flows /\ signed' = signed \cup C[n].signed
  BY DEF Signs
<1> HIDE DEF C
<1>2. Sound(C[0].flows, signed \cup C[0].signed)
  <2>1. signed \cup C[0].signed = signed /\ C[0].flows = flows
    BY SMT, <1>0
  <2> QED BY <2>1
<1>3. ASSUME NEW k \in 1 .. n, Sound(C[k - 1].flows, signed \cup C[k - 1].signed)
      PROVE  Sound(C[k].flows, signed \cup C[k].signed)
  <2>1. messages[k][1] \in Range(Solvers) /\ C[k] = SignNext(C[k - 1], messages[k])
    BY <1>0
  <2> QED BY <1>3, <2>1, EnvelopeIsSound
<1>4. Bad = {}
  <2> SUFFICES ASSUME Bad # {} PROVE FALSE
    OBVIOUS
  <2>0. Bad \in SUBSET Nat
    BY SMT
  <2>1. PICK k \in Bad : \A i \in Bad : k <= i
    BY <2>0, Least
  <2>2. k # 0 /\ k \in 0 .. n
    BY <1>2
  <2>3. k \in 1 .. n /\ k - 1 \in 0 .. n /\ k - 1 \notin Bad
    BY SMT, <2>1, <2>2
  <2> QED BY <1>3, <2>3
<1> QED BY SMT, <1>1, <1>4

\* What a client signs for a list of messages, whole or in part.
LEMMA ListSoundly ==
    ASSUME Sound(flows, signed), NEW messages, Len(messages) \in Nat,
           SignsAll(messages) \/ SignsSome(messages),
           \A k \in 1 .. Len(messages) : messages[k][1] \in Range(Solvers)
    PROVE  Sound(flows', signed')
<1>1. CASE SignsAll(messages)
  BY <1>1, SignsSoundly DEF SignsAll
<1>2. CASE SignsSome(messages)
  <2>1. PICK n \in 0 .. Len(messages) - 1 : Signs(messages, n)
    BY <1>2 DEF SignsSome
  <2>2. n \in Nat /\ 1 .. n \subseteq 1 .. Len(messages)
    BY SMT
  <2> QED BY <2>1, <2>2, SignsSoundly
<1> QED BY <1>1, <1>2

\* The messages of a request and of an acceptance are addressed to solvers.
LEMMA Recipients ==
    /\ \A route : /\ Len(RfqMessages(route)) \in Nat
                  /\ \A k \in 1 .. Len(RfqMessages(route)) :
                        RfqMessages(route)[k][1] \in Range(Solvers)
    /\ \A quote, deadline : quote.solver \in Range(Solvers) =>
          /\ Len(AcceptMessages(quote, deadline)) \in Nat
          /\ \A k \in 1 .. Len(AcceptMessages(quote, deadline)) :
                AcceptMessages(quote, deadline)[k][1] \in Range(Solvers)
<1>1. ASSUME NEW route
      PROVE  /\ Len(RfqMessages(route)) \in Nat
             /\ \A k \in 1 .. Len(RfqMessages(route)) :
                   RfqMessages(route)[k][1] \in Range(Solvers)
  <2>1. DOMAIN Solvers = 1 .. Len(Solvers) /\ Len(Solvers) \in Nat
    BY SMT, SolversAssumption
  <2>2. Len(RfqMessages(route)) = Len(Solvers)
    BY SMT, <2>1 DEF RfqMessages
  <2>3. \A k \in 1 .. Len(Solvers) :
          /\ RfqMessages(route)[k] = <<Solvers[k], <<"RFQ", route>>>>
          /\ Solvers[k] \in Range(Solvers)
    BY <2>1 DEF RfqMessages, Range
  <2> QED BY SMT, <2>1, <2>2, <2>3
<1>2. ASSUME NEW quote, NEW deadline, quote.solver \in Range(Solvers)
      PROVE  /\ Len(AcceptMessages(quote, deadline)) \in Nat
             /\ \A k \in 1 .. Len(AcceptMessages(quote, deadline)) :
                   AcceptMessages(quote, deadline)[k][1] \in Range(Solvers)
  BY SMT, <1>2 DEF AcceptMessages
<1> QED BY <1>1, <1>2

\* Initially nothing is signed.
LEMMA NegotiationInit == DeskInit => NegotiationInv
BY SMT DEF DeskInit, NInit, NegotiationInv, Sound, Start

\* Every step keeps the client sound.
LEMMA NegotiationStep ==
    ASSUME NegotiationInv, [DeskNext]_vars
    PROVE  NegotiationInv'
<1>1. CASE \E route, deadline : prepare_rfq(route, deadline)
  <2>1. PICK route, deadline : prepare_rfq(route, deadline)
    BY <1>1
  <2>2. /\ SignsAll(RfqMessages(<<route, deadline>>)) \/ SignsSome(RfqMessages(<<route, deadline>>))
        /\ UNCHANGED <<held, mailbox>>
    BY <2>1 DEF prepare_rfq
  <2>3. Sound(flows', signed')
    BY <2>2, Recipients, ListSoundly DEF NegotiationInv
  <2> QED BY <2>2, <2>3 DEF NegotiationInv
<1>2. CASE \E solver \in Range(Solvers), quote \in Quotes : Submits(solver, quote)
  <2>1. PICK solver \in Range(Solvers), quote \in Quotes : Submits(solver, quote)
    BY <1>2
  <2>2. UNCHANGED <<flows, held, signed>>
    BY <2>1 DEF Submits
  <2>3. \A frame \in mailbox' : frame \in mailbox \/ frame.sender = solver
    BY SMT, <2>1 DEF Submits
  <2> QED BY <2>2, <2>3 DEF NegotiationInv
<1>3. CASE \E frame \in mailbox : ingest_quotes(frame)
  <2>1. PICK frame \in mailbox : ingest_quotes(frame)
    BY <1>3
  <2>2. UNCHANGED <<flows, mailbox, signed>>
    BY <2>1 DEF ingest_quotes
  <2>3. \A quote \in held' : quote \in held \/ quote.solver = frame.sender
    BY <2>1 DEF ingest_quotes, Corresponds
  <2> QED BY <2>2, <2>3 DEF NegotiationInv
<1>4. CASE \E quote \in held, deadline \in Deadlines : accept_quote(quote, deadline)
  <2>1. PICK quote \in held, deadline \in Deadlines : accept_quote(quote, deadline)
    BY <1>4
  <2>2. /\ SignsAll(AcceptMessages(quote, deadline)) \/ SignsSome(AcceptMessages(quote, deadline))
        /\ UNCHANGED <<held, mailbox>>
    BY <2>1 DEF accept_quote
  <2>3. quote.solver \in Range(Solvers)
    BY DEF NegotiationInv
  <2>4. Sound(flows', signed')
    BY <2>2, <2>3, Recipients, ListSoundly DEF NegotiationInv
  <2> QED BY <2>2, <2>4 DEF NegotiationInv
<1>5. CASE UNCHANGED nvars
  BY <1>5 DEF nvars, NegotiationInv
<1> QED
  BY <1>1, <1>2, <1>3, <1>4, <1>5 DEF DeskNext, Negotiates, vars

\* No sequence number of a flow is ever signed twice with different contents,
\* whatever envelopes cannot be encoded or signed and however often a request or
\* an acceptance is repeated, for any number of solvers, quotes and deadlines
\* (build_envelope).
THEOREM NoSequenceTwice == Spec => []NoEquivocation
<1>1. NegotiationInv => NoEquivocation
  BY DEF NegotiationInv, Sound, NoEquivocation
<1> QED
  BY <1>1, NegotiationInit, NegotiationStep, PTL DEF Spec

-----------------------------------------------------------------------------
(***************************************************************************)
(* The terms of accepted sessions, for any quotes, routes and deadlines.   *)
(***************************************************************************)
\* The tier of a route depends on whether the DOM is one of its assets.
LEMMA TierOfRoute ==
    ASSUME NEW from, NEW to
    PROVE  fee_bps_for_route(from, to) = IF "DOM" \in {from, to} THEN 50 ELSE 100
<1> DEFINE outer == {i \in 1..2 : <<from, to>>[i] # "DOM"}
<1>0. external_legs(from, to) = Cardinality(outer)
  BY DEF external_legs
<1>1. <<from, to>>[1] = from /\ <<from, to>>[2] = to
  BY SMT
<1>2. 1..2 = {1, 2}
  BY SMT
<1>3. CASE from = "DOM" /\ to = "DOM"
  <2>1. outer = {}
    BY <1>1, <1>2, <1>3
  <2>2. Cardinality(outer) = 0
    BY <2>1, FS_EmptySet
  <2> HIDE DEF outer
  <2> QED BY SMT, <1>0, <2>2, <1>3 DEF fee_bps_for_route
<1>4. CASE from # "DOM" /\ to = "DOM"
  <2>1. outer = {1}
    BY SMT, <1>1, <1>4
  <2>2. Cardinality(outer) = 1
    BY <2>1, FS_Singleton
  <2> HIDE DEF outer
  <2> QED BY SMT, <1>0, <2>2, <1>4 DEF fee_bps_for_route
<1>5. CASE from = "DOM" /\ to # "DOM"
  <2>1. outer = {2}
    BY SMT, <1>1, <1>5
  <2>2. Cardinality(outer) = 1
    BY <2>1, FS_Singleton
  <2> HIDE DEF outer
  <2> QED BY SMT, <1>0, <2>2, <1>5 DEF fee_bps_for_route
<1>6. CASE from # "DOM" /\ to # "DOM"
  <2>1. outer = {1} \cup {2} /\ 2 \notin {1}
    BY SMT, <1>1, <1>6
  <2>2. IsFiniteSet({1}) /\ Cardinality({1}) = 1
    BY FS_Singleton
  <2>3. Cardinality({1} \cup {2}) = Cardinality({1}) + 1
    BY <2>1, <2>2, FS_AddElement
  <2>4. Cardinality(outer) = 2
    BY SMT, <2>1, <2>2, <2>3
  <2> HIDE DEF outer
  <2> QED BY SMT, <1>0, <2>4, <1>6 DEF fee_bps_for_route
<1> QED BY <1>3, <1>4, <1>5, <1>6

\* The fee is the least that covers its part of the amount (swap_fee_noms).
LEMMA FeeIsLeast ==
    ASSUME NEW amount \in Nat, NEW bps \in {50, 100}
    PROVE  LET fee == swap_fee_noms(amount, bps)
           IN  /\ fee \in Nat
               /\ fee * BPS_DENOMINATOR >= amount * bps
               /\ (fee - 1) * BPS_DENOMINATOR < amount * bps
<1>1. CASE bps = 50
  BY SMT, <1>1 DEF swap_fee_noms, BPS_DENOMINATOR
<1>2. CASE bps = 100
  BY SMT, <1>2 DEF swap_fee_noms, BPS_DENOMINATOR
<1> QED BY <1>1, <1>2

\* What a session holds: nothing of a quote until it accepts one, and then the
\* quote of accepted terms with its fee.
Covered(session, outcomes) ==
    LET due == session.quote.dom * (IF "DOM" \in Range(session.route) THEN 50 ELSE 100)
    IN  /\ session.quote \in {outcome[1] : outcome \in outcomes}
        /\ session.quote.genuine /\ session.quote.answers
        /\ session.fee * BPS_DENOMINATOR >= due
        /\ (session.fee - 1) * BPS_DENOMINATOR < due

Honest(session, outcomes) ==
    /\ session.route \in Routes
    /\ session.state \in {"IntentDraft", "IntentPublished"} => session.quote = NoQuote
    /\ session.state \in Accepted => Covered(session, outcomes)

AllHonest(wallet, outcomes) ==
    \A id \in DOMAIN wallet.sessions : Honest(wallet.sessions[id], outcomes)

\* Quotes on the way to acceptance: those that are held answer the request, and
\* accepted ones were also signed by their solver.
QuoteInv ==
    /\ \A frame \in mailbox : frame.quote \in Quotes
    /\ \A quote \in held : quote \in Quotes /\ quote.answers
    /\ \A outcome \in terms :
          outcome[1] \in Quotes /\ outcome[1].genuine /\ outcome[1].answers

TermsInv ==
    /\ QuoteInv
    /\ AllHonest(disk, terms)
    /\ memory # Locked => AllHonest(memory, terms)

\* The assets of a route.
LEMMA RouteRange ==
    ASSUME NEW route \in Routes
    PROVE  Range(route) = {route[1], route[2]}
<1>1. route = <<route[1], route[2]>>
  BY RoutesAssumption
<1> DEFINE a == route[1]
           b == route[2]
<1>2. route = <<a, b>>
  BY <1>1
<1> HIDE DEF a, b
<1>3. Range(<<a, b>>) = {a, b}
  <2>1. DOMAIN <<a, b>> = {1, 2} /\ <<a, b>>[1] = a /\ <<a, b>>[2] = b
    BY SMT
  <2> QED BY <2>1 DEF Range
<1> QED BY <1>2, <1>3 DEF a, b

\* More accepted terms cover what fewer did.
LEMMA HonestGrows ==
    ASSUME NEW wallet, NEW few, NEW many, few \subseteq many, AllHonest(wallet, few)
    PROVE  AllHonest(wallet, many)
<1>1. ASSUME NEW session, Covered(session, few) PROVE Covered(session, many)
  BY <1>1 DEF Covered
<1> QED BY <1>1 DEF AllHonest, Honest

\* What the client does leaves accepted terms accepted.
LEMMA QuoteStep ==
    ASSUME QuoteInv, Negotiates
    PROVE  QuoteInv' /\ terms \subseteq terms'
<1>1. ASSUME NEW route, NEW deadline, prepare_rfq(route, deadline)
      PROVE  UNCHANGED <<held, mailbox, terms>>
  BY <1>1 DEF prepare_rfq
<1>2. ASSUME NEW solver, NEW quote \in Quotes, Submits(solver, quote)
      PROVE  QuoteInv' /\ terms \subseteq terms'
  <2>1. /\ UNCHANGED <<held, terms>>
        /\ \E n : mailbox' = mailbox \cup {[sender |-> solver, sequence |-> n, quote |-> quote]}
    BY <1>2 DEF Submits
  <2>2. \A frame \in mailbox' : frame.quote \in Quotes
    BY SMT, <2>1 DEF QuoteInv
  <2> QED BY <2>1, <2>2 DEF QuoteInv
<1>3. ASSUME NEW frame \in mailbox, ingest_quotes(frame)
      PROVE  QuoteInv' /\ terms \subseteq terms'
  BY <1>3 DEF ingest_quotes, Corresponds, QuoteInv
<1>4. ASSUME NEW quote \in held, NEW deadline, accept_quote(quote, deadline)
      PROVE  QuoteInv' /\ terms \subseteq terms'
  <2>1. /\ UNCHANGED <<held, mailbox>> /\ quote.genuine
        /\ terms' = terms \/ terms' = terms \cup {<<quote, deadline>>}
    BY <1>4 DEF accept_quote, Admissible
  <2>2. <<quote, deadline>>[1] = quote
    BY SMT
  <2> QED BY <2>1, <2>2 DEF QuoteInv
<1> QED BY <1>1, <1>2, <1>3, <1>4 DEF Negotiates, QuoteInv

\* A commit of a command that leaves an honest session.
LEMMA CommitHonest ==
    ASSUME SwapInv, TermsInv, UNCHANGED nvars, memory # Locked,
           NEW id \in DOMAIN memory.sessions, NEW session,
           session = [f \in Fields |-> session[f]],
           session.leg = memory.sessions[id].leg, session.route = memory.sessions[id].route,
           Honest(session, terms), Commit(WithSession(memory, id, session), id)
    PROVE  TermsInv'
<1> DEFINE w == WithSession(memory, id, session)
<1>1. /\ DOMAIN w.sessions = DOMAIN memory.sessions
      /\ \A i \in DOMAIN memory.sessions :
            w.sessions[i] = IF i = id THEN session ELSE memory.sessions[i]
  BY SMT, Changed
<1>2. disk' = disk \/ disk' = w
  BY DEF Commit, CommitSucceeds, CommitHalfReported, CommitFails
<1>3. memory' = memory \/ memory' = w
  BY DEF Commit, CommitSucceeds, CommitHalfReported, CommitFails
<1> HIDE DEF w
<1>4. AllHonest(w, terms) /\ AllHonest(memory, terms) /\ AllHonest(disk, terms)
  BY <1>1 DEF AllHonest, TermsInv
<1>5. terms' = terms /\ QuoteInv'
  BY DEF nvars, QuoteInv, TermsInv
<1> QED BY <1>2, <1>3, <1>4, <1>5 DEF TermsInv

\* Neither a session without a quote nor an aborted one is past acceptance.
LEMMA NotAccepted ==
    \A state \in {"IntentDraft", "IntentPublished", "SafelyAborted"} : state \notin Accepted
BY DEF Accepted

\* A session gets past acceptance only by accepting a quote.
LEMMA AcceptanceEdges ==
    ASSUME NEW state, NEW next, <<state, next>> \in may_transition_to
    PROVE  /\ state \in {"IntentDraft", "IntentPublished"} \/ state \in Accepted
           /\ next # "IntentDraft"
           /\ next = "IntentPublished" => state = "IntentDraft"
           /\ next = "QuoteAccepted" => state = "IntentPublished"
           /\ state \in {"IntentDraft", "IntentPublished"} =>
                 next \in {"IntentPublished", "QuoteAccepted", "SafelyAborted"}
<1>1. state \in States
  <2>1. <<state, next>>[1] = state
    BY SMT
  <2> QED BY <2>1 DEF States
<1>2. \/ <<state, next>> \in ForwardEdges
      \/ state \in Locking /\ next = "CancelTimelockExpired"
      \/ state \in free_cancellation /\ next = "SafelyAborted"
  BY DEF may_transition_to
<1>3. state # "SafelyAborted"
  BY <1>2 DEF ForwardEdges, Locking, free_cancellation
<1>4. /\ next # "IntentDraft"
      /\ next = "IntentPublished" => state = "IntentDraft"
      /\ next = "QuoteAccepted" => state = "IntentPublished"
      /\ state \in {"IntentDraft", "IntentPublished"} =>
            next \in {"IntentPublished", "QuoteAccepted", "SafelyAborted"}
  BY <1>2 DEF ForwardEdges, Locking, free_cancellation
<1> QED BY <1>1, <1>3, <1>4 DEF Accepted

\* A session that accepts a quote of accepted terms is covered by it.
LEMMA QuoteCovers ==
    ASSUME QuoteInv, NEW session, session = [f \in Fields |-> session[f]],
           session.route \in Routes, NEW outcome \in terms
    PROVE  LET route == session.route
               fee == swap_fee_noms(outcome[1].dom, fee_bps_for_route(route[1], route[2]))
           IN  Covered(AcceptsQuote(session, outcome[1], fee), terms)
<1> DEFINE quote == outcome[1]
           route == session.route
           bps == fee_bps_for_route(route[1], route[2])
           fee == swap_fee_noms(quote.dom, bps)
           accepted == AcceptsQuote(session, quote, fee)
<1>1. /\ quote \in Quotes /\ quote.genuine /\ quote.answers
      /\ quote \in {o[1] : o \in terms}
  BY DEF QuoteInv
<1>2. quote.dom \in Nat
  BY <1>1, QuotesAssumption
<1>3. bps = IF "DOM" \in Range(route) THEN 50 ELSE 100
  BY TierOfRoute, RouteRange
<1>4. bps \in {50, 100}
  BY <1>3
<1>5. /\ fee * BPS_DENOMINATOR >= quote.dom * bps
      /\ (fee - 1) * BPS_DENOMINATOR < quote.dom * bps
  BY <1>2, <1>4, FeeIsLeast
<1>6. accepted.quote = quote /\ accepted.fee = fee /\ accepted.route = route
  BY DEF AcceptsQuote, Fields
<1> HIDE DEF quote, route, bps, fee, accepted
<1>7. Covered(accepted, terms)
  BY <1>1, <1>3, <1>5, <1>6 DEF Covered
<1> QED BY <1>7 DEF accepted, fee, bps, route, quote

\* A transition that is no acceptance leaves an honest session.
LEMMA TransitionHonest ==
    ASSUME SwapInv, TermsInv, UNCHANGED nvars, NEW id, NEW next, SessionTransition(id, next)
    PROVE  TermsInv'
<1> DEFINE old == memory.sessions[id]
           session == [old EXCEPT !.state = next]
<1>1. /\ memory # Locked /\ id \in DOMAIN memory.sessions
      /\ <<old.state, next>> \in may_transition_to
      /\ next = "QuoteAccepted" => old.quote # NoQuote
      /\ Commit(WithSession(memory, id, session), id)
  BY DEF SessionTransition, Idle
<1>2. old = [f \in Fields |-> old[f]]
  BY <1>1 DEF SwapInv, Whole
<1>3. Honest(old, terms)
  BY <1>1 DEF TermsInv, AllHonest
<1> HIDE DEF old
<1>4. /\ session = [f \in Fields |-> session[f]]
      /\ session.leg = old.leg /\ session.route = old.route /\ session.state = next
      /\ session.quote = old.quote /\ session.fee = old.fee
  BY <1>2 DEF Fields
<1> HIDE DEF session
<1>5. next # "QuoteAccepted"
  BY <1>1, <1>3, AcceptanceEdges DEF Honest
<1>6. next \in Accepted => old.state \in Accepted
  BY <1>1, <1>5, AcceptanceEdges, NotAccepted
<1>7. next \in {"IntentDraft", "IntentPublished"} => old.state = "IntentDraft"
  BY <1>1, AcceptanceEdges
<1>8. Covered(old, terms) => Covered(session, terms)
  BY <1>4 DEF Covered
<1>9. Honest(session, terms)
  BY <1>3, <1>4, <1>6, <1>7, <1>8 DEF Honest
<1> QED BY <1>1, <1>4, <1>9, CommitHonest DEF old, session

\* The commit of accepted terms.
LEMMA AcceptanceHonest ==
    ASSUME SwapInv, TermsInv, UNCHANGED nvars, NEW id, NEW outcome \in terms,
           swap_authenticated_quote_commit(id, outcome[1])
    PROVE  TermsInv'
<1> DEFINE old == memory.sessions[id]
           fee == swap_fee_noms(outcome[1].dom, fee_bps_for_route(old.route[1], old.route[2]))
           session == AcceptsQuote(old, outcome[1], fee)
<1>1. /\ memory # Locked /\ id \in DOMAIN memory.sessions
      /\ Commit(WithSession(memory, id, session), id)
  BY DEF swap_authenticated_quote_commit, swap_session_accept_quote, Idle
<1>2. old = [f \in Fields |-> old[f]]
  BY <1>1 DEF SwapInv, Whole
<1>3. old.route \in Routes
  BY <1>1 DEF TermsInv, AllHonest, Honest
<1> HIDE DEF old
<1>4. Covered(session, terms)
  BY <1>2, <1>3, QuoteCovers DEF TermsInv
<1> HIDE DEF fee
<1>5. /\ session = [f \in Fields |-> session[f]]
      /\ session.leg = old.leg /\ session.route = old.route
      /\ session.state = "QuoteAccepted"
  BY <1>2 DEF Fields, AcceptsQuote
<1>6. Honest(session, terms)
  BY <1>3, <1>4, <1>5 DEF Honest
<1> HIDE DEF session
<1> QED BY <1>1, <1>5, <1>6, CommitHonest DEF old

\* A new draft holds no quote.
LEMMA IntentHonest ==
    ASSUME SwapInv, TermsInv, UNCHANGED nvars, NEW id \in Sessions, NEW route \in Routes,
           IntentCreate(id, route)
    PROVE  TermsInv'
<1> DEFINE w == swap_session_create_draft(id, route)
<1>1. /\ memory # Locked /\ id \notin drafted /\ route[2] \in DOMAIN ASSET_REGISTRY
      /\ memory.next + 1 <= MaxLegIndex
  BY DEF IntentCreate, Idle
<1>2. /\ w # Locked /\ Whole(w, drafted \cup {id}) /\ Keeps(memory, w)
      /\ DOMAIN w.sessions = DOMAIN memory.sessions \cup {id}
      /\ w.sessions[id] = Draft(route, memory.next)
      /\ \A i \in DOMAIN memory.sessions : w.sessions[i] = memory.sessions[i]
  BY <1>1, Drafted
<1>3. (disk' = disk \/ disk' = w) /\ (memory' = memory \/ memory' = w)
  BY DEF IntentCreate, CommitSucceeds, CommitHalfReported, CommitFails
<1> HIDE DEF w
<1>4. Honest(Draft(route, memory.next), terms)
  <2>1. /\ Draft(route, memory.next).route = route
        /\ Draft(route, memory.next).state = "IntentDraft"
        /\ Draft(route, memory.next).quote = NoQuote
    BY DEF Draft
  <2> QED BY <2>1, NotAccepted DEF Honest
<1>5. AllHonest(w, terms) /\ AllHonest(memory, terms) /\ AllHonest(disk, terms)
  BY <1>1, <1>2, <1>4 DEF AllHonest, TermsInv
<1>6. terms' = terms /\ QuoteInv'
  BY DEF nvars, QuoteInv, TermsInv
<1> QED BY <1>3, <1>5, <1>6 DEF TermsInv

\* The note that no daemon was reached changes no terms.
LEMMA NotedHonest ==
    ASSUME SwapInv, TermsInv, UNCHANGED nvars, IntentNoted
    PROVE  TermsInv'
<1> DEFINE old == memory.sessions[drafting]
           session == [old EXCEPT !.noted = TRUE]
<1>1. /\ memory # Locked /\ drafting \in DOMAIN memory.sessions
      /\ Commit(WithSession(memory, drafting, session), drafting)
  BY DEF IntentNoted, SwapInv
<1>2. old = [f \in Fields |-> old[f]] /\ Honest(old, terms)
  BY <1>1 DEF SwapInv, Whole, TermsInv, AllHonest
<1> HIDE DEF old
<1>3. /\ session = [f \in Fields |-> session[f]]
      /\ session.leg = old.leg /\ session.route = old.route /\ session.state = old.state
      /\ session.quote = old.quote /\ session.fee = old.fee
  BY <1>2 DEF Fields
<1> HIDE DEF session
<1>4. Honest(session, terms)
  BY <1>2, <1>3 DEF Honest, Covered
<1> QED BY <1>1, <1>3, <1>4, CommitHonest DEF old, session

\* Every step keeps what sessions hold.
LEMMA TermsStep ==
    ASSUME SwapInv, TermsInv, [DeskNext]_vars
    PROVE  TermsInv'
<1>1. CASE SessionStep /\ UNCHANGED nvars
  <2>0. terms' = terms /\ QuoteInv'
    BY <1>1 DEF nvars, QuoteInv, TermsInv
  <2>1. CASE \E id \in Sessions, route \in Routes : IntentCreate(id, route)
    BY <1>1, <2>1, IntentHonest
  <2>2. CASE IntentNoted
    BY <1>1, <2>2, NotedHonest
  <2>3. CASE \E id \in Sessions : swap_session_cancel(id) \/ DaemonAdvances(id)
    BY <1>1, <2>3, TransitionHonest DEF swap_session_cancel, DaemonAdvances
  <2>4. CASE LockOrCrash
    BY <2>0, <2>4 DEF LockOrCrash, TermsInv
  <2>5. CASE Load
    BY <2>0, <2>5 DEF Load, TermsInv
  <2>6. CASE RestoreFromPhrase
    <3>1. memory' = Locked /\ disk' = NewWallet
      BY <2>6 DEF RestoreFromPhrase
    <3>2. AllHonest(NewWallet, terms)
      BY NewIsWhole DEF AllHonest
    <3> QED BY <2>0, <3>1, <3>2 DEF TermsInv
  <2> QED BY <1>1, <2>1, <2>2, <2>3, <2>4, <2>5, <2>6 DEF SessionStep
<1>2. CASE AdapterCommits /\ UNCHANGED nvars
  BY <1>2, AcceptanceHonest DEF AdapterCommits
<1>3. CASE Negotiates /\ UNCHANGED svars
  <2>1. QuoteInv' /\ terms \subseteq terms'
    BY <1>3, QuoteStep DEF TermsInv
  <2>2. disk' = disk /\ memory' = memory
    BY <1>3 DEF svars
  <2> QED BY <2>1, <2>2, HonestGrows DEF TermsInv
<1>4. CASE UNCHANGED vars
  BY <1>4 DEF vars, svars, nvars, TermsInv, QuoteInv
<1> QED BY <1>1, <1>2, <1>3, <1>4 DEF DeskNext

\* Initially nothing is quoted.
LEMMA TermsInit == DeskInit => TermsInv
<1> SUFFICES ASSUME DeskInit PROVE TermsInv
  BY SMT
<1>1. /\ disk = NewWallet /\ memory = NewWallet
      /\ held = {} /\ mailbox = {} /\ terms = {}
  BY DEF DeskInit, Init, NInit
<1>2. AllHonest(NewWallet, terms)
  BY NewIsWhole DEF AllHonest
<1> QED BY <1>1, <1>2 DEF TermsInv, QuoteInv

-----------------------------------------------------------------------------
\* A session past acceptance, on disk, holds a quote that the client accepted
\* from a solver that signed it for this request, and the least fee that covers
\* the tier of its route, whatever commits fail, envelopes are refused or
\* processes end (swap_authenticated_quote_commit, swap_fee_noms).
THEOREM AcceptedTermsAreCovered == Spec => []AcceptedTermsCovered
<1>1. TermsInv => AcceptedTermsCovered
  <2> SUFFICES ASSUME TermsInv, NEW session \in Range(disk.sessions),
                      session.state \in Accepted
               PROVE  Covered(session, terms)
    BY DEF AcceptedTermsCovered, Covered
  <2>1. PICK id \in DOMAIN disk.sessions : session = disk.sessions[id]
    BY DEF Range
  <2> QED BY <2>1 DEF TermsInv, AllHonest, Honest
<1> QED
  BY <1>1, SwapInit, SwapStep, TermsInit, TermsStep, PTL DEF Spec
=============================================================================
