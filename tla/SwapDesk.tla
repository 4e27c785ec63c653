------------------------------ MODULE SwapDesk ------------------------------
(***************************************************************************)
(* One durable session that is negotiated with the solvers, beside others  *)
(* that are not.  The daemon channel that will drive the client in         *)
(* production does not exist yet; it is represented by the order that      *)
(* swap_authenticated_quote_commit and the client's documentation ask of   *)
(* it: a transition of the session is committed before the message it      *)
(* authorizes, and only accepted terms reach the session.  A client that   *)
(* is lost with its process takes no further step.                         *)
(***************************************************************************)
EXTENDS SwapSessions, SwapNegotiation

CONSTANT Traded   \* the session that is negotiated

vars == <<svars, nvars>>

DeskInit == Init /\ NInit

\* The request is authored once the session is durably published.
Published ==
    /\ Idle
    /\ Traded \in DOMAIN memory.sessions
    /\ memory.sessions[Traded].state = "IntentPublished"

Negotiates ==
    \/ /\ Published
       /\ \E deadline \in QuoteDeadlines : prepare_rfq(memory.sessions[Traded].route, deadline)
    \/ \E solver \in Range(Solvers), quote \in Quotes : Submits(solver, quote)
    \/ \E frame \in mailbox : ingest_quotes(frame)
    \/ \E quote \in held, deadline \in Deadlines : accept_quote(quote, deadline)

AdapterCommits ==
    \E outcome \in terms : swap_authenticated_quote_commit(Traded, outcome[1])

DeskNext ==
    \/ SessionStep /\ UNCHANGED nvars
    \/ AdapterCommits /\ UNCHANGED nvars
    \/ Negotiates /\ UNCHANGED svars

Spec == DeskInit /\ [][DeskNext]_vars

(***************************************************************************)
(* Properties.                                                             *)
(***************************************************************************)
KnownLegs ==
    handed \cup UNION { {Leg(id, wallet) : id \in DOMAIN wallet.sessions}
                         : wallet \in {disk, memory} \ {Locked} }

\* Two sessions of a wallet file never share a derivation index, whatever
\* commits fail or are only half reported, and the address that receives the
\* output of a session a command returned is in the key export and in the scan
\* plan of the durable state (swap_session_create_draft, swap_leg_keys_export,
\* swap_leg_scan_plan).
OneLegPerSession ==
    /\ \A a, b \in KnownLegs : a.leg = b.leg /\ a.file = b.file => a.id = b.id
    /\ \A leg \in handed : leg.file = file =>
          ReceivingAddresses(leg.route, leg.leg)
              \subseteq swap_leg_keys_export(disk) \cap swap_leg_scan_plan(disk)

Accepted == States \ {"IntentDraft", "IntentPublished", "SafelyAborted"}

\* A durable session past acceptance holds a quote that the client accepted
\* under a genuine solver signature, and the least fee that covers its tier of
\* the quote's DOM leg (swap_authenticated_quote_commit, accept_quote).
AcceptedTermsCovered ==
    \A session \in Range(disk.sessions) :
        session.state \in Accepted =>
            LET due == session.quote.dom * (IF "DOM" \in Range(session.route) THEN 50 ELSE 100)
            IN  /\ session.quote \in {outcome[1] : outcome \in terms}
                /\ session.quote.genuine /\ session.quote.answers
                /\ session.fee * BPS_DENOMINATOR >= due
                /\ (session.fee - 1) * BPS_DENOMINATOR < due

\* An abandoned or finished session stays as it is and none disappears: no
\* commit made from an overtaken state in memory brings one back
\* (SwapSessionState::may_transition_to, WalletService::commit).
FinalStaysFinal ==
    [][ file' = file =>
          \A id \in DOMAIN disk.sessions :
            /\ id \in DOMAIN disk'.sessions
            /\ disk.sessions[id].state \in Terminal => disk'.sessions[id] = disk.sessions[id] ]_vars

\* One sequence of a flow never carries two different envelopes
\* (build_envelope).
NoEquivocation ==
    \A a, b \in signed : a.recipient = b.recipient /\ a.sequence = b.sequence => a = b

\* The acceptance freezes the terms: the client signs one of them.
TermsAreFrozen == Cardinality(terms) <= 1

\* Every address a session ever used is in the scan plan after a restoration
\* from the recovery phrase alone.
PhraseFindsLegs ==
    \A leg \in handed : ReceivingAddresses(leg.route, leg.leg) \subseteq swap_leg_scan_plan(disk)

\* A swap never takes the index of an earlier swap of the same seed.
FreshLegs == \A a, b \in KnownLegs : a.leg = b.leg => a.id = b.id

\* The assets of a session can be requested from the swap network.
RouteIsQuotable ==
    \A session \in Range(disk.sessions) : {session.route[1], session.route[2]} \subseteq Listable

=============================================================================
