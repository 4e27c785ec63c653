-------------------------- MODULE SwapNegotiation --------------------------
(***************************************************************************)
(* The initiator's side of one request for quotes (dom-wallet-swap-client, *)
(* SwapRfqClientV1): signed envelopes that form one chain per solver, the  *)
(* quotes taken from an at-least-once, unordered mailbox, and the          *)
(* acceptance that freezes the terms.  The relay, the acceptance pipeline  *)
(* of an envelope and the selection rule are libraries of the protocol and *)
(* are modelled as the client uses them.                                   *)
(*                                                                         *)
(* A digest is the envelope it is taken of.                                *)
(***************************************************************************)
EXTENDS Integers, Sequences, FiniteSets, Functions

CONSTANTS
    Solvers,         \* the solvers of the descriptor, in descriptor order
    Quotes,          \* the quotes solvers may author
    QuoteDeadlines,  \* the deadlines the caller may set for the quotes
    Deadlines,       \* the refund deadlines the caller may choose
    MaxSequence,     \* the sequence that is exhausted
    MaxFrames,       \* bound: envelopes a solver sends
    MaxRefusals      \* bound: envelopes that cannot be encoded or signed

ASSUME SolversAssumption == Solvers \in Seq(Range(Solvers))
ASSUME QuotesAssumption == \A quote \in Quotes : quote.dom \in Nat

VARIABLES
    rfq,       \* the authored request, or NoRfq
    flows,     \* per solver, the last signed envelope (next_sequence, previous_digest)
    held,      \* the verified quotes
    inbound,   \* per solver, the next sequence of TranscriptStateV1
    mailbox,   \* the relay: envelopes addressed to this wallet
    signed,    \* ghost: every envelope build_envelope returned
    terms,     \* ghost: the outcomes accept_quote returned
    refusals   \* ghost: envelopes that failed

nvars == <<rfq, flows, held, inbound, mailbox, signed, terms, refusals>>

NoRfq == << >>
Start == [sequence |-> -1]

\* The codes of assets a descriptor can list: at most eight capitals and digits.
Listable == {"DOM", "BTC", "XMR", "SOL", "USDT"}

MAX_DESCRIPTOR_ENTRIES == 64

Distinct(seq) == \A i, j \in DOMAIN seq : seq[i] = seq[j] => i = j

\* SwapNetworkDescriptorV1::from_json accepts the descriptor: a roster that
\* names everyone once, this wallet as an initiator, every solver as a solver,
\* and the DOM among the assets on its own chain.
from_json(d) ==
    LET roles(id) == {d.members[i].role : i \in {j \in DOMAIN d.members : d.members[j].id = id}}
    IN  /\ d.version = 1
        /\ Len(d.members) \in 1 .. MAX_DESCRIPTOR_ENTRIES
        /\ Len(d.solvers) \in 1 .. MAX_DESCRIPTOR_ENTRIES
        /\ Len(d.assets) \in 2 .. MAX_DESCRIPTOR_ENTRIES
        /\ Distinct([i \in DOMAIN d.members |-> d.members[i].id])
        /\ \A i \in DOMAIN d.members : d.members[i].role \in {"initiator", "solver", "observer"}
        /\ roles(d.user) = {"initiator"}
        /\ Distinct(d.solvers)
        /\ \A i \in DOMAIN d.solvers : roles(d.solvers[i]) = {"solver"}
        /\ Distinct([i \in DOMAIN d.assets |-> d.assets[i].code])
        /\ \A i \in DOMAIN d.assets : d.assets[i].code \in Listable
        /\ \E i \in DOMAIN d.assets : d.assets[i] = [code |-> "DOM", chain |-> d.domChain]

\* swap_network_descriptor_check: what the user is told of a descriptor before
\* it is used; a member's key is its id here.
swap_network_descriptor_check(d, key) ==
    IF ~from_json(d)
    THEN [valid |-> FALSE, registered |-> FALSE, solvers |-> 0, assets |-> {}]
    ELSE [valid |-> TRUE, registered |-> d.user = key, solvers |-> Len(d.solvers),
          assets |-> {d.assets[i].code : i \in DOMAIN d.assets}]

\* The descriptor of the client: its roster, and an asset per chain.
Descriptor ==
    [version |-> 1, user |-> "user", solvers |-> Solvers, domChain |-> "DOM",
     members |-> << [id |-> "user", role |-> "initiator"] >> \o
                 [i \in DOMAIN Solvers |-> [id |-> Solvers[i], role |-> "solver"]],
     assets |-> CHOOSE assets \in Bijection(1 .. Cardinality(Listable),
                                            {[code |-> c, chain |-> c] : c \in Listable}) : TRUE]

ASSUME DescriptorAssumption == swap_network_descriptor_check(Descriptor, "user").registered

NInit ==
    /\ rfq = NoRfq
    /\ flows = [solver \in Range(Solvers) |-> Start]
    /\ held = {}
    /\ inbound = [solver \in Range(Solvers) |-> 0]
    /\ mailbox = {}
    /\ signed = {}
    /\ terms = {}
    /\ refusals = 0

(***************************************************************************)
(* Envelopes.                                                              *)
(***************************************************************************)
\* The sequence is consumed by signing; the next envelope chains on this one.
Envelope(flow, recipient, payload) ==
    [ recipient |-> recipient, sequence |-> flow.sequence + 1,
      previous |-> flow, payload |-> payload ]

\* A message is a recipient and a payload.
SignNext(chain, message) ==
    LET new == Envelope(chain.flows[message[1]], message[1], message[2])
    IN  [ flows |-> [chain.flows EXCEPT ![message[1]] = new], signed |-> chain.signed \cup {new} ]

\* The client after each of the first n messages of a list.
Signing(messages, n) ==
    LET chain[k \in 0..n] == IF k = 0 THEN [flows |-> flows, signed |-> {}]
                             ELSE SignNext(chain[k - 1], messages[k])
    IN  chain

Signs(messages, n) ==
    LET after == Signing(messages, n)[n]
    IN  /\ \A solver \in Range(Solvers) : after.flows[solver].sequence < MaxSequence
        /\ flows' = after.flows
        /\ signed' = signed \cup after.signed

\* Every envelope is built, or one of them cannot be encoded or signed, or takes
\* the last sequence, and the call fails.  That one may have been signed by then;
\* build_envelope drops it and leaves the flow as it was.
SignsAll(messages) == Signs(messages, Len(messages)) /\ UNCHANGED refusals

\* Mutant: a call that fails puts the flows back to where they were.
SignsSomeRolledBack(messages) ==
    /\ refusals < MaxRefusals /\ refusals' = refusals + 1
    /\ \E n \in 0..(Len(messages) - 1) : signed' = signed \cup Signing(messages, n)[n].signed
    /\ UNCHANGED flows

SignsSome(messages) ==
    \E n \in 0..(Len(messages) - 1) :
        /\ Signs(messages, n)
        /\ \/ refusals < MaxRefusals /\ refusals' = refusals + 1
           \/ /\ flows'[messages[n + 1][1]].sequence + 1 = MaxSequence
              /\ UNCHANGED refusals

(***************************************************************************)
(* Operations of the client.                                               *)
(***************************************************************************)
RfqMessages(request) == [i \in DOMAIN Solvers |-> <<Solvers[i], <<"RFQ", request>>>>]

prepare_rfq(route, deadline) ==
    /\ rfq = NoRfq
    /\ {route[1], route[2]} \subseteq Listable
    /\ LET request == <<route, deadline>> IN
       \/ SignsAll(RfqMessages(request)) /\ rfq' = request
       \/ SignsSome(RfqMessages(request)) /\ UNCHANGED rfq
    /\ UNCHANGED <<held, inbound, mailbox, terms>>

\* The solver, or someone writing into the mailbox under the solver's name.
Submits(solver, quote) ==
    /\ rfq # NoRfq
    /\ LET sent == {frame \in mailbox : frame.sender = solver}
       IN  /\ Cardinality(sent) < MaxFrames
           /\ mailbox' = mailbox \cup
                {[sender |-> solver, sequence |-> Cardinality(sent), quote |-> quote]}
    /\ UNCHANGED <<rfq, flows, held, inbound, signed, terms, refusals>>

\* accept_envelope: each sequence of a sender is taken once and in order.
accept_envelope(frame) == frame.sequence = inbound[frame.sender]

Corresponds(frame) == frame.quote.solver = frame.sender /\ frame.quote.answers

\* The mailbox delivers any of its envelopes again; a delivery of several is
\* the same as deliveries of one after the other.
ingest_quotes(frame) ==
    /\ rfq # NoRfq
    /\ accept_envelope(frame)
    /\ inbound' = [inbound EXCEPT ![frame.sender] = @ + 1]
    /\ held' = IF Corresponds(frame) THEN held \cup {frame.quote} ELSE held
    /\ UNCHANGED <<rfq, flows, mailbox, signed, terms, refusals>>

Admissible(quote) == quote.genuine

\* The most output wins; the order of the quotes decides a tie.
Winners ==
    {q \in held : Admissible(q) /\ \A other \in held : Admissible(other) => other.output <= q.output}

AcceptMessages(quote, deadline) ==
    << <<quote.solver, <<"ACCEPTANCE", quote, deadline>>>>, <<quote.solver, <<"SELECTION", quote>>>> >>

accept_quote(quote, deadline) ==
    /\ rfq # NoRfq
    /\ quote \in held
    /\ Admissible(quote)
    /\ quote \in Winners
    /\ \/ SignsAll(AcceptMessages(quote, deadline)) /\ terms' = terms \cup {<<quote, deadline>>}
       \/ SignsSome(AcceptMessages(quote, deadline)) /\ UNCHANGED terms
    /\ UNCHANGED <<rfq, held, inbound, mailbox>>

=============================================================================
