---------------------------- MODULE SlateExchange ----------------------------
(***************************************************************************)
(* The manual exchange of dom-wallet-core between two wallets: the sender's *)
(* request, the recipient's response, the sender's finalized bytes, which   *)
(* users carry between the wallets as text in any order and as often as     *)
(* they like, and the reassembly of multipart QR frames (src-tauri) in the  *)
(* application of the sender, which scans responses.                        *)
(*                                                                          *)
(* A response is named by the recovery coordinate its output was built with *)
(* (building is deterministic in the coordinate), a finalized transaction   *)
(* by the slate and the response it was built from.  Inputs, reservations   *)
(* and submission are those of WalletTransactions.                          *)
(***************************************************************************)
EXTENDS TransactionLifecycle, FiniteSets

CONSTANTS
    Slates,           \* the sends under way
    MaxCoordinate,    \* bound: receive coordinates the recipient may reserve
    Parts,            \* the indices of the QR frames of one text
    Expiring,         \* bound: the slates that expire within a behavior
    Scanned           \* bound: the slates whose texts are shown as QR frames

ASSUME MaxCoordinateAssumption == MaxCoordinate \in Nat

VARIABLES
    sender,       \* the durable record of each slate in the sender's wallet
    recipient,    \* the durable record of each slate in the recipient's wallet
    floor,        \* recipient: recovery_allocation_floors.received
    outputs,      \* recipient: coordinates with an output record and its blinding
    responding,   \* recipient: slate_response_create between its two commits
    expired,      \* per wallet, the slates whose height its node has reached
    texts,        \* every text and finalized transaction ever shown to a user
    qr            \* sender: the reassembler of the QR frames

slateVars == <<sender, recipient, floor, outputs, responding, expired, texts, qr>>

Wallets == {"sender", "recipient"}
Coordinates == 1 .. MaxCoordinate
NoCoordinate == 0
NotResponding == [slate |-> "none", coordinate |-> NoCoordinate]

\* The phases of an envelope; a request names no response.
Request(s) == [phase |-> "SenderOffer", slate |-> s, response |-> NoCoordinate]
Response(s, c) == [phase |-> "ReceiverResponse", slate |-> s, response |-> c]
Finalized(s, c) == [phase |-> "Finalized", slate |-> s, response |-> c]
NoText == [phase |-> "none", slate |-> "none", response |-> NoCoordinate]

\* LocalTransactionIntent as far as the exchange reads it.
Record(lifecycle) ==
    [lifecycle |-> lifecycle, block |-> NoBlock, exposure |-> NeverBroadcast,
     response |-> NoCoordinate, finalized |-> NoCoordinate]
Known(wallet, s) == wallet[s].lifecycle # "Draft"

\* validate_transaction_expiry and the height check of every decoded envelope,
\* with the tip of the wallet's own node: expiry is inclusive.
Expired(w, s) == s \in expired[w]

\* verify_recoverable_transaction_against_response: inputs, outputs, offset and
\* kernel are those of the response, which is decoded first.
Verifies(w, s, finalized, response) == finalized = response /\ ~Expired(w, s)

NoAssembly == [message |-> NoText, parts |-> {}, complete |-> FALSE]

SlateInit ==
    /\ sender = [s \in Slates |-> Record("Draft")]
    /\ recipient = [s \in Slates |-> Record("Draft")]
    /\ floor = 0
    /\ outputs = {}
    /\ responding = NotResponding
    /\ expired = [w \in Wallets |-> {}]
    /\ texts = {}
    /\ qr = [active |-> NoAssembly, completed |-> {}]

\* A wallet's node reports a tip at or past the expiry of the slate.
HeightReached(w, s) ==
    /\ s \in Expiring /\ ~Expired(w, s)
    /\ Known(sender, s)
    /\ expired' = [expired EXCEPT ![w] = @ \union {s}]
    /\ UNCHANGED <<sender, recipient, floor, outputs, responding, texts, qr>>
-----------------------------------------------------------------------------
(* The recipient's service is one mutex: no other call runs in it between   *)
(* the two commits of slate_response_create.                                *)
RecipientIdle == responding = NotResponding

Moved(record, lifecycle, evidence) == Transition(record, lifecycle, NoBlock, evidence)
MayMove(record, lifecycle, evidence) == Allowed(record, lifecycle, NoBlock, evidence)

\* transaction_send_create, after its second commit.
transaction_send_create(s) ==
    /\ ~Known(sender, s)
    /\ sender' = [sender EXCEPT ![s] = Record("InputsReserved")]
    /\ UNCHANGED <<recipient, floor, outputs, responding, expired, texts, qr>>

\* The request can be exported whatever has become of the send, until it expires.
slate_request_export(s) ==
    /\ Known(sender, s) /\ ~Expired("sender", s)
    /\ texts' = texts \union {Request(s)}
    /\ UNCHANGED <<sender, recipient, floor, outputs, responding, expired, qr>>

\* A slate any record names is a replay.
slate_request_import(s) ==
    /\ RecipientIdle
    /\ Request(s) \in texts /\ ~Expired("recipient", s)
    /\ ~Known(recipient, s)
    /\ recipient' = [recipient EXCEPT ![s] = Record("RequestImported")]
    /\ UNCHANGED <<sender, floor, outputs, responding, expired, texts, qr>>

\* Mutant: the coordinate is read and the moved floor is not committed.
ReserveWithoutCommit(s) ==
    /\ RecipientIdle
    /\ Known(recipient, s)
    /\ floor < MaxCoordinate
    /\ responding' = [slate |-> s, coordinate |-> floor + 1]
    /\ UNCHANGED <<sender, recipient, floor, outputs, expired, texts, qr>>

\* slate_response_create, first commit: burn a coordinate (in any lifecycle:
\* neither the lifecycle nor the expiry is looked at before).
slate_response_create(s) ==
    /\ RecipientIdle
    /\ Known(recipient, s)
    /\ floor < MaxCoordinate
    /\ floor' = floor + 1
    /\ responding' = [slate |-> s, coordinate |-> floor + 1]
    /\ UNCHANGED <<sender, recipient, outputs, expired, texts, qr>>

\* Second commit: output, blinding, private context and response together.  A
\* response may be prepared again: the new one replaces the old.
ResponsePrepare ==
    LET s == responding.slate
        c == responding.coordinate
    IN  /\ responding # NotResponding
        /\ ~Expired("recipient", s)
        /\ MayMove(recipient[s], "ResponsePrepared", "RecipientResponse")
        /\ recipient' = [recipient EXCEPT
                ![s] = [Moved(@, "ResponsePrepared", "RecipientResponse")
                            EXCEPT !.response = c]]
        /\ outputs' = outputs \union {c}
        /\ responding' = NotResponding
        /\ UNCHANGED <<sender, floor, expired, texts, qr>>

\* An expired request, a refused transition or any error in between: the
\* coordinate stays burned.  Also a crash, which keeps what is durable.
ResponseFails ==
    /\ responding # NotResponding
    /\ responding' = NotResponding
    /\ UNCHANGED <<sender, recipient, floor, outputs, expired, texts, qr>>

slate_response_export(s) ==
    /\ RecipientIdle
    /\ recipient[s].response # NoCoordinate /\ ~Expired("recipient", s)
    /\ texts' = texts \union {Response(s, recipient[s].response)}
    /\ UNCHANGED <<sender, recipient, floor, outputs, responding, expired, qr>>
-----------------------------------------------------------------------------
\* What the sender's user can paste, or have from the camera.
Readable(text) == text \in texts \/ (qr.active.complete /\ qr.active.message = text)

\* Mutant: a response is taken whatever the lifecycle.
ImportAnyTime(s, c) ==
    /\ Readable(Response(s, c)) /\ ~Expired("sender", s)
    /\ Known(sender, s)
    /\ sender' = [sender EXCEPT ![s].lifecycle = "ResponseImported", ![s].response = c]
    /\ UNCHANGED <<recipient, floor, outputs, responding, expired, texts, qr>>

\* A response may be imported again, and replaced, until it is finalized.
slate_response_import(s, c) ==
    /\ Readable(Response(s, c)) /\ ~Expired("sender", s)
    /\ Known(sender, s)
    /\ MayMove(sender[s], "ResponseImported", "RecipientResponse")
    /\ sender' = [sender EXCEPT
            ![s] = [Moved(@, "ResponseImported", "RecipientResponse")
                        EXCEPT !.response = c]]
    /\ UNCHANGED <<recipient, floor, outputs, responding, expired, texts, qr>>

\* The stored response is signed with the one nonce of the slate.
transaction_finalize(s) ==
    /\ sender[s].lifecycle # "Finalized"
    /\ sender[s].response # NoCoordinate /\ ~Expired("sender", s)
    /\ MayMove(sender[s], "Finalized", "Finalization")
    /\ sender' = [sender EXCEPT
            ![s] = [Moved(@, "Finalized", "Finalization")
                        EXCEPT !.finalized = sender[s].response]]
    /\ UNCHANGED <<recipient, floor, outputs, responding, expired, texts, qr>>

\* The bytes are verified against the stored response, whose envelope must
\* not have expired.
transaction_finalized_export(s) ==
    /\ sender[s].lifecycle = "Finalized"
    /\ Verifies("sender", s, sender[s].finalized, sender[s].response)
    /\ texts' = texts \union {Finalized(s, sender[s].finalized)}
    /\ UNCHANGED <<sender, recipient, floor, outputs, responding, expired, qr>>

\* Verified against the recipient's stored response; other bytes than the
\* retained ones are refused.
transaction_finalized_verify_and_import(s, c) ==
    /\ RecipientIdle
    /\ Finalized(s, c) \in texts
    /\ Verifies("recipient", s, c, recipient[s].response)
    /\ recipient[s].finalized \in {NoCoordinate, c}
    /\ recipient' = [recipient EXCEPT ![s].finalized = c]
    /\ UNCHANGED <<sender, floor, outputs, responding, expired, texts, qr>>

\* transaction_cancel in either wallet.
SenderCancel(s) ==
    /\ Known(sender, s)
    /\ MayMove(sender[s], "Cancelled", "Cancellation")
    /\ sender' = [sender EXCEPT ![s] = Moved(@, "Cancelled", "Cancellation")]
    /\ UNCHANGED <<recipient, floor, outputs, responding, expired, texts, qr>>
RecipientCancel(s) ==
    /\ RecipientIdle
    /\ Known(recipient, s)
    /\ MayMove(recipient[s], "Cancelled", "Cancellation")
    /\ recipient' = [recipient EXCEPT ![s] = Moved(@, "Cancelled", "Cancellation")]
    /\ UNCHANGED <<sender, floor, outputs, responding, expired, texts, qr>>

\* cancel_expired_unfinalized_reservations, with a page of the scan: only sends
\* without finalized bytes.
CancelExpired(s) ==
    /\ Expired("sender", s)
    /\ sender[s].lifecycle \in {"InputsReserved", "ResponseImported"}
    /\ sender[s].finalized = NoCoordinate
    /\ sender' = [sender EXCEPT ![s] = Moved(@, "Cancelled", "Cancellation")]
    /\ UNCHANGED <<recipient, floor, outputs, responding, expired, texts, qr>>
-----------------------------------------------------------------------------
(* QR frames.  A frame carries the identity of its message (id, role, part  *)
(* count, length and content hash: the text itself here), the index of its  *)
(* part and a payload.  A payload may have been misread: there is no hash   *)
(* over a frame.                                                            *)
Part(i, intact) == [index |-> i, intact |-> intact]

\* slate_qr_encode of an exported text: one frame for each part.
slate_qr_encode(text) == {[message |-> text, index |-> i] : i \in Parts}

\* Mutant: the concatenated parts are not hashed.
IntegrityByCount(parts) == Cardinality(parts) = Cardinality(Parts)

\* The concatenated parts have the content hash of the message.
Integrity(parts) == \A p \in parts : p.intact

\* slate_qr_decode_frame of a frame that passes parse_slate_qr_frame.  When the
\* last part arrives and the content hash fails, the parts stay.
slate_qr_decode_frame(text, i, intact) ==
    LET old == IF qr.active = NoAssembly THEN [NoAssembly EXCEPT !.message = text]
               ELSE qr.active
        stored == {p \in old.parts : p.index = i}
        parts == old.parts \union {Part(i, intact)}
        whole == {p.index : p \in parts} = Parts /\ Integrity(parts)
    IN  /\ text.phase # "Finalized" /\ text.slate \in Scanned
        /\ text \notin qr.completed
        /\ old.message = text
        /\ stored \in {{}, {Part(i, intact)}}
        /\ qr' = [active |-> [old EXCEPT !.parts = parts, !.complete = whole],
                  completed |-> IF whole THEN qr.completed \union {text}
                                ELSE qr.completed]
        /\ UNCHANGED <<sender, recipient, floor, outputs, responding, expired, texts>>

\* clear_qr_buffers: the user clears, locks or closes.  What was completed
\* once stays refused until the application is restarted.
clear_qr_buffers ==
    /\ qr.active # NoAssembly
    /\ qr' = [qr EXCEPT !.active = NoAssembly]
    /\ UNCHANGED <<sender, recipient, floor, outputs, responding, expired, texts>>

SenderRestart ==
    /\ qr.completed # {}
    /\ qr' = [active |-> NoAssembly, completed |-> {}]
    /\ UNCHANGED <<sender, recipient, floor, outputs, responding, expired, texts>>

SlateNext ==
    \/ \E w \in Wallets, s \in Slates : HeightReached(w, s)
    \/ \E s \in Slates : transaction_send_create(s)
    \/ \E s \in Slates : slate_request_export(s)
    \/ \E s \in Slates : slate_request_import(s)
    \/ \E s \in Slates : slate_response_create(s)
    \/ ResponsePrepare
    \/ ResponseFails
    \/ \E s \in Slates : slate_response_export(s)
    \/ \E s \in Slates, c \in Coordinates : slate_response_import(s, c)
    \/ \E s \in Slates : transaction_finalize(s)
    \/ \E s \in Slates : transaction_finalized_export(s)
    \/ \E s \in Slates, c \in Coordinates : transaction_finalized_verify_and_import(s, c)
    \/ \E s \in Slates : SenderCancel(s)
    \/ \E s \in Slates : RecipientCancel(s)
    \/ \E s \in Slates : CancelExpired(s)
    \/ \E text \in texts, intact \in BOOLEAN : \E frame \in slate_qr_encode(text) :
          slate_qr_decode_frame(frame.message, frame.index, intact)
    \/ clear_qr_buffers
    \/ SenderRestart

SlateSpec == SlateInit /\ [][SlateNext]_slateVars
-----------------------------------------------------------------------------
Records == [lifecycle : Lifecycles, block : {NoBlock}, exposure : {NeverBroadcast},
            response : Coordinates \union {NoCoordinate},
            finalized : Coordinates \union {NoCoordinate}]

\* Types of the state.
TypeOK ==
    /\ sender \in [Slates -> Records]
    /\ recipient \in [Slates -> Records]
    /\ floor \in 0 .. MaxCoordinate
    /\ outputs \subseteq Coordinates
    /\ responding = NotResponding
       \/ responding \in [slate : Slates, coordinate : Coordinates]
    /\ expired \in [Wallets -> SUBSET Slates]
    /\ qr.completed \subseteq texts

\* One nonce signs once: of every slate at most one finalized transaction ever
\* leaves the sender, and the bytes the recipient retains are those the sender
\* holds, however often responses are created, imported and replaced
\* (slate_response_import, transaction_finalize).
OneTransaction ==
    \A s \in Slates :
        /\ \A c, d \in Coordinates :
              Finalized(s, c) \in texts /\ Finalized(s, d) \in texts => c = d
        /\ recipient[s].finalized # NoCoordinate =>
              recipient[s].finalized = sender[s].finalized

\* A coordinate builds the output of one slate only, also when a call fails or
\* the process dies between the two commits of slate_response_create; and every
\* response that left the recipient has its output and blinding on disk, so
\* what a sender finalizes with it can be spent.
ResponsesBacked ==
    \A s \in Slates, c \in Coordinates :
        Response(s, c) \in texts =>
            /\ c \in outputs /\ c <= floor
            /\ \A u \in Slates \ {s} :
                  Response(u, c) \notin texts /\ recipient[u].response # c

\* "Incomplete or mixed frames never reach slate parsing": a text the
\* reassembler hands out has every part, each of the message that was shown,
\* although frames are repeated, misread or belong to another text.
OnlyWholeTexts ==
    qr.active.complete =>
        /\ qr.active.message \in texts
        /\ \A i \in Parts : Part(i, TRUE) \in qr.active.parts

\* docs/MANUAL_SLATE_EXCHANGE.md step 5: the recipient verifies the finalized
\* bytes against its persisted response.  Violated: a second
\* slate_response_create replaces the response the sender has finalized.
RecipientCanVerify ==
    \A s \in Slates, c \in Coordinates :
        Finalized(s, c) \in texts => recipient[s].response = c

\* docs/MANUAL_SLATE_EXCHANGE.md: frames have a "per-frame integrity hash".
\* Violated: a misread payload becomes part of the assembly, and the intact
\* frame is refused afterwards.
FramesChecked == \A p \in qr.active.parts : p.intact
=============================================================================
