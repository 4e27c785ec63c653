----------------------- MODULE ScriptlessReservations -----------------------
(***************************************************************************)
(* The Scriptless handoff of dom-wallet-core: the wallet reserves outputs  *)
(* to fund a two-party contract, or an output to be paid by its claim or   *)
(* its refund, hands public components out, and later signs one template.  *)
(* Reservations live for as long as the chain may still decide about them, *)
(* so the model also scans: every page, rewind and genesis rescan rebuilds *)
(* the wallet's output records and must give the reservations back.        *)
(* Values, keys and proofs are abstracted: an output is its commitment,    *)
(* an offset, a share binding and a template are names.                    *)
(***************************************************************************)
EXTENDS Naturals, Sequences

CONSTANTS
    Inputs,             \* wallet outputs paid by transactions outside the model
    Payers, Claimers, Refunders,    \* sessions with a reservation of each role
    Offsets,            \* public offset contributions the builder may draw
    Shares,             \* DOM binding digests a caller may present
    Templates,          \* typed templates a caller may present
    None,
    MaxHeight,          \* bound on the height of the chain
    MaxReorgs,          \* bound on reorganizations and on genesis rescans
    Chained             \* whether a reservation may select another one's output

ASSUME BoundsAssumption == MaxHeight \in Nat /\ MaxReorgs \in Nat /\ Chained \in BOOLEAN

VARIABLES
    chain,              \* canonical blocks: sets of transactions
    scanned,            \* the blocks the committed cursor stands on
    coins,              \* WalletState.outputs, by commitment
    res,                \* scriptless_funding_ and _payout_reservations
    handed,             \* what has left the wallet, by reservation
    reorgs              \* reorganizations and rescans so far

vars == <<chain, scanned, coins, res, handed, reorgs>>

\* A reservation is named by its session and role, as the code keys it.
Fundings == Payers \X {"Funding"}
Payouts == (Claimers \X {"Claim"}) \cup (Refunders \X {"Refund"})
Reservations == Fundings \cup Payouts

\* The output a reservation creates (change or payout) is named after it.
Coins == Inputs \cup Reservations

\* Commitments, sessions and what a caller presents are told apart.
ASSUME NamesAssumption ==
    /\ Inputs \cap Reservations = {}
    /\ None \notin Reservations \cup Offsets \cup Shares \cup Templates

\* OutputRecord: `id` changes when the scan records the commitment under a
\* new Uuid; only equality with the id a reservation keeps matters, so two
\* values are enough.  `found` is discovered_height, 0 before any block.
Absent(id) == [state |-> "Absent", owner |-> None, id |-> id, found |-> 0, spent |-> 0]
Pending(id) == [Absent(id) EXCEPT !.state = "PendingIncoming"]

NoReservation == [state |-> "None", ids |-> <<>>, own |-> FALSE,
                  offset |-> None, share |-> None, template |-> None]

inputsOf(r) == DOMAIN r.ids

retains_inputs(r) == r.state \notin {"None", "Cancelled"}

may_cancel_and_release(r) == r.state \in {"Reserved", "Prepared"}

has_prepared_material(r) == r.state \notin {"None", "Reserved", "Cancelled"}

\* What a transaction creates and spends: a payment outside the model, or the
\* transaction of a reservation.
Makes(x) == IF x \in Inputs THEN {x} ELSE IF res[x].own THEN {x} ELSE {}
Uses(x) == IF x \in Inputs THEN {} ELSE inputsOf(res[x])

MadeAt(blocks, c) == {h \in DOMAIN blocks : \E x \in blocks[h] : c \in Makes(x)}
UsedAt(blocks, c) == {h \in DOMAIN blocks : \E x \in blocks[h] : c \in Uses(x)}

Init ==
    /\ chain = << Inputs >>
    /\ scanned = chain
    /\ coins = [c \in Coins |-> IF c \in Inputs
                                THEN [Absent(0) EXCEPT !.state = "Confirmed", !.found = 1]
                                ELSE Absent(0)]
    /\ res = [k \in Reservations |-> NoReservation]
    /\ handed = [k \in Reservations |-> [points |-> {}, components |-> {}, signed |-> {}]]
    /\ reorgs = 0

(***************************************************************************)
(* The chain.  The transaction of a reservation can be mined once its      *)
(* template has been signed; claim and refund spend the one output its     *)
(* session's funding creates.                                              *)
(***************************************************************************)
InBlocks(blocks, x) == \E h \in DOMAIN blocks : x \in blocks[h]

SharedUnspent(blocks, k) ==
    /\ InBlocks(blocks, <<k[1], "Funding">>)
    /\ ~\E r \in {"Claim", "Refund"} : InBlocks(blocks, <<k[1], r>>)

Mineable(blocks) ==
    {x \in Coins :
        /\ ~InBlocks(blocks, x)
        /\ x \in Reservations => handed[x].signed # {}
        /\ x \in Payouts => SharedUnspent(blocks, x)
        /\ \A c \in Uses(x) : MadeAt(blocks, c) # {} /\ UsedAt(blocks, c) = {}}

Block ==
    /\ Len(chain) < MaxHeight
    /\ \E x \in Mineable(chain) : chain' = Append(chain, {x})
    /\ UNCHANGED <<scanned, coins, res, handed, reorgs>>

Reorganize ==
    /\ reorgs < MaxReorgs
    /\ reorgs' = reorgs + 1
    /\ \E h \in 0 .. Len(chain) - 1 :
         LET base == SubSeq(chain, 1, h)
         IN  \E b \in {{}} \cup {{x} : x \in Mineable(base)} : chain' = Append(base, b)
    /\ UNCHANGED <<scanned, coins, res, handed>>

(***************************************************************************)
(* Rewinding and giving the reservations their outputs back.               *)
(***************************************************************************)
Recreated(cs, rs, ks) ==
    [c \in Coins |-> IF /\ c \in ks
                        /\ has_prepared_material(rs[c])
                        /\ rs[c].own
                        /\ cs[c].state = "Absent"
                     THEN Pending(cs[c].id)
                     ELSE cs[c]]

Holders(rs, c) == {k \in Fundings : retains_inputs(rs[k]) /\ c \in inputsOf(rs[k])}

\* The slip: an input is looked for under the id the reservation remembers.
FindsById(r, c, o) == o.state # "Absent" /\ o.id = r.ids[c]

\* restore_scriptless_funding_reservations finds an input by its commitment,
\* whatever id the scan recorded it under, and remembers that id.
Finds(r, c, o) == o.state # "Absent"

Taken(rs, c, o) ==
    LET holders == {k \in Holders(rs, c) : Finds(rs[k], c, o)}
    IN  IF holders = {} \/ o.state = "Spent"
        THEN o
        ELSE [o EXCEPT !.owner = CHOOSE k \in holders : TRUE,
                       !.state = "PendingOutgoing"]

Rebound(rs, cs) ==
    [k \in Reservations |->
        IF retains_inputs(rs[k])
        THEN [rs[k] EXCEPT !.ids = [c \in inputsOf(rs[k]) |->
                 IF Finds(rs[k], c, cs[c]) THEN cs[c].id ELSE rs[k].ids[c]]]
        ELSE rs[k]]

restore_scriptless_funding_reservations(rs, cs) ==
    LET made == Recreated(cs, rs, Fundings)
    IN  [c \in Coins |-> Taken(rs, c, made[c])]

\* The slip: a page gives the inputs back and forgets the payouts.
PayoutsForgotten(rs, cs) == cs

restore_scriptless_payout_reservations(rs, cs) == Recreated(cs, rs, Payouts)

Restored(rs, cs) ==
    restore_scriptless_payout_reservations(rs, restore_scriptless_funding_reservations(rs, cs))

RestoreConflict(rs, cs) ==
    \E c \in Coins :
        /\ cs[c].state \notin {"Absent", "Spent"}
        /\ \E k \in Holders(rs, c) : cs[c].owner \notin {None, k}

\* refresh_maturity: whatever a block created and nothing spent is Confirmed
\* again, reserved or not.
refresh_maturity(cs) ==
    [c \in Coins |-> IF cs[c].found > 0 /\ cs[c].state # "Spent"
                     THEN [cs[c] EXCEPT !.state = "Confirmed"]
                     ELSE cs[c]]

Rewound(cs, safe) ==
    refresh_maturity(
        [c \in Coins |->
            IF cs[c].found > safe THEN Absent(cs[c].id)
            ELSE IF cs[c].state = "Spent" /\ cs[c].spent > safe
            THEN [cs[c] EXCEPT !.state = "Confirmed", !.spent = 0]
            ELSE cs[c]])

(***************************************************************************)
(* One page: blocks lo + 1 .. hi of the chain.                             *)
(***************************************************************************)
PageMade(lo, hi, c) == MadeAt(chain, c) \cap (lo + 1 .. hi)
PageUsed(lo, hi, c) == UsedAt(chain, c) \cap (lo + 1 .. hi)

\* merge_restored_output: a record the wallet made itself is adopted only
\* while it is pending and free.
MergeConflict(o, made) ==
    /\ made # {}
    /\ o.state # "Absent"
    /\ IF o.found > 0 THEN o.found \notin made
                      ELSE o.owner # None \/ o.state # "PendingIncoming"

merge_restored_output(o, made) ==
    IF made = {} \/ o.found > 0 THEN o
    ELSE [o EXCEPT !.state = "Confirmed",
                   !.found = CHOOSE h \in made : TRUE,
                   !.id = IF o.state = "Absent" THEN 1 - o.id ELSE o.id]

SpentBy(o, used) ==
    IF used = {} \/ o.state = "Absent" THEN o
    ELSE [o EXCEPT !.state = "Spent", !.owner = None, !.spent = CHOOSE h \in used : TRUE]

Scanned(cs, lo, hi) ==
    refresh_maturity([c \in Coins |->
        SpentBy(merge_restored_output(cs[c], PageMade(lo, hi, c)), PageUsed(lo, hi, c))])

ScanConflict(cs, lo, hi) ==
    \E c \in Coins :
        \/ MergeConflict(cs[c], PageMade(lo, hi, c))
        \/ /\ PageUsed(lo, hi, c) # {}
           /\ cs[c].state = "Spent"
           /\ cs[c].spent \notin PageUsed(lo, hi, c)

(***************************************************************************)
(* WalletState::validate, which every commit runs.                         *)
(***************************************************************************)
\* Each state holds exactly the material its step has produced: the offset
\* once prepared, the share once bound, the template once bound (an abandoned
\* reservation may have had one or not).
FundingMaterial(r) ==
    /\ r.own => inputsOf(r) # {}
    /\ has_prepared_material(r) <=> r.offset # None
    /\ r.share # None <=>
         r.state \in {"SessionBound", "Exported", "TemplateBound", "AbandonedRetained"}
    /\ r.state = "TemplateBound" => r.template # None
    /\ r.template # None => r.state \in {"TemplateBound", "AbandonedRetained"}

\* An input whose id is known is spent, or owned and unavailable, and no
\* other reservation retains it; one whose id is unknown awaits the scan.
InputsBound(rs, cs, k) ==
    \A c \in inputsOf(rs[k]) :
        LET known == cs[c].state # "Absent" /\ cs[c].id = rs[k].ids[c]
        IN  IF retains_inputs(rs[k])
            THEN /\ Holders(rs, c) = {k}
                 /\ known => \/ cs[c].state = "Spent" /\ cs[c].owner = None
                             \/ cs[c].state = "PendingOutgoing" /\ cs[c].owner = k
            ELSE known => cs[c].owner # k

ChangeRecorded(rs, cs, k) ==
    rs[k].own => /\ has_prepared_material(rs[k]) => cs[k].state # "Absent"
                 /\ rs[k].state = "Cancelled" => cs[k].state = "Absent"

\* A reserved output names an owner that retains it.
OwnersRetain(rs, cs) ==
    \A c \in Coins :
        (cs[c].owner # None /\ cs[c].state # "Spent") =>
            retains_inputs(rs[cs[c].owner]) /\ c \in inputsOf(rs[cs[c].owner])

PayoutMaterial(r) ==
    /\ has_prepared_material(r) <=> r.offset # None
    /\ CASE r.state \in {"None", "Reserved", "Cancelled", "Prepared"} ->
               r.share = None /\ r.template = None
         [] r.state \in {"SessionBound", "Exported"} ->
               r.share # None /\ r.template = None
         [] r.state = "TemplateBound" -> r.share # None /\ r.template # None
         [] r.state = "AbandonedRetained" -> r.share # None

\* The payout is recorded exactly while there is material for it.
PayoutRecorded(rs, cs, k) ==
    rs[k].own => (has_prepared_material(rs[k]) <=> cs[k].state # "Absent")

Valid(rs, cs) ==
    /\ \A k \in Fundings :
         FundingMaterial(rs[k]) /\ InputsBound(rs, cs, k) /\ ChangeRecorded(rs, cs, k)
    /\ OwnersRetain(rs, cs)
    /\ \A k \in Payouts : PayoutMaterial(rs[k]) /\ PayoutRecorded(rs, cs, k)

\* The commit of a page read as `page', with the reservations restored as
\* `next', over the records `base'.
PageCommits(base, page, next, lo, hi) ==
    /\ ~ScanConflict(base, lo, hi)
    /\ ~RestoreConflict(res, page)
    /\ Valid(Rebound(res, next), next)

RewindCommits(safe) ==
    LET past == Rewound(coins, safe)
        next == Restored(res, past)
    IN  ~RestoreConflict(res, past) /\ Valid(Rebound(res, next), next)

Canonical == Len(scanned) <= Len(chain) /\ SubSeq(chain, 1, Len(scanned)) = scanned

\* The highest block both sequences agree on: the anchor of a reorganization.
Anchor ==
    CHOOSE h \in 0 .. Len(scanned) :
        /\ h <= Len(chain) /\ SubSeq(chain, 1, h) = SubSeq(scanned, 1, h)
        /\ \A g \in h + 1 .. Len(scanned) :
             g > Len(chain) \/ SubSeq(chain, 1, g) # SubSeq(scanned, 1, g)

\* What the scan applies its next page to: the records as they are, or
\* rewound to the anchor with the reservations restored.
PageBase(anchor) ==
    IF Canonical THEN coins ELSE Restored(res, Rewound(coins, anchor))

BaseRestores(anchor) == Canonical \/ ~RestoreConflict(res, Rewound(coins, anchor))

\* Where a page may end; when the anchor of a reorganization is the tip there is
\* nothing to scan, and the rewind is committed alone.
PageEnds(anchor) ==
    IF ~Canonical /\ anchor = Len(chain) THEN {anchor} ELSE anchor + 1 .. Len(chain)

Page ==
    LET anchor == Anchor
        base == PageBase(anchor)
    IN  \E hi \in PageEnds(anchor) :
         LET page == Scanned(base, anchor, hi)
             next == Restored(res, page)
         IN  /\ BaseRestores(anchor)
             /\ PageCommits(base, page, next, anchor, hi)
             /\ coins' = next
             /\ res' = Rebound(res, next)
             /\ scanned' = SubSeq(chain, 1, hi)
             /\ UNCHANGED <<chain, handed, reorgs>>

rescan_from_genesis ==
    /\ reorgs < MaxReorgs
    /\ reorgs' = reorgs + 1
    /\ RewindCommits(0)
    /\ LET next == Restored(res, Rewound(coins, 0))
       IN  coins' = next /\ res' = Rebound(res, next)
    /\ scanned' = <<>>
    /\ UNCHANGED <<chain, handed>>

(***************************************************************************)
(* Reserving.  The inputs are durable before anything is constructed; the  *)
(* construction is a second commit that a crash or an error may separate   *)
(* from the first, and every later command resumes it.                     *)
(***************************************************************************)
Spendable ==
    {c \in (IF Chained THEN Coins ELSE Inputs) :
        coins[c].state = "Confirmed" /\ coins[c].owner = None}

\* The outputs selected cover the debit; a zero-debit signer selects none.
scriptless_funding_prepare(k) ==
    /\ k \in Fundings
    /\ res[k].state = "None"
    /\ \E S \in SUBSET Spendable, own \in BOOLEAN :
         /\ own => S # {}
         /\ res' = [res EXCEPT ![k] = [NoReservation EXCEPT
                        !.state = "Reserved", !.own = own,
                        !.ids = [c \in S |-> coins[c].id]]]
         /\ coins' = [c \in Coins |-> IF c \in S
                        THEN [coins[c] EXCEPT !.state = "PendingOutgoing", !.owner = k]
                        ELSE coins[c]]
    /\ UNCHANGED <<chain, scanned, handed, reorgs>>

scriptless_payout_prepare(k) ==
    /\ k \in Payouts
    /\ res[k].state = "None"
    /\ \E own \in BOOLEAN :
         res' = [res EXCEPT ![k] = [NoReservation EXCEPT !.state = "Reserved", !.own = own]]
    /\ UNCHANGED <<chain, scanned, coins, handed, reorgs>>

Prepared(k) ==
    /\ \E o \in Offsets :
         res' = [res EXCEPT ![k].state = "Prepared", ![k].offset = o]
    /\ coins' = IF res[k].own THEN [coins EXCEPT ![k] = Pending(@.id)] ELSE coins
    /\ UNCHANGED <<chain, scanned, handed, reorgs>>

\* The slip: preparing again what is prepared already.
ResumableAgain(r) == r.state \in {"Reserved", "Prepared", "SessionBound"}

Resumable(r) == r.state = "Reserved"

scriptless_funding_resume_preparation(k) ==
    /\ k \in Fundings
    /\ Resumable(res[k])
    /\ \A c \in inputsOf(res[k]) :
         /\ coins[c].id = res[k].ids[c]
         /\ coins[c].owner = k
         /\ coins[c].state = "PendingOutgoing"
    /\ Prepared(k)

scriptless_payout_resume_preparation(k) ==
    /\ k \in Payouts
    /\ Resumable(res[k])
    /\ coins[k].state = "Absent"
    /\ Prepared(k)

(***************************************************************************)
(* Handing out.  Each command commits what it is about to return first.    *)
(***************************************************************************)
\* A share other than the one persisted is refused.
BindsShare(r, share) ==
    \/ r.state = "Prepared"
    \/ r.state \in {"SessionBound", "Exported", "TemplateBound"} /\ r.share = share

HandsPoint(k) ==
    /\ \E share \in Shares :
         /\ BindsShare(res[k], share)
         /\ res' = [res EXCEPT ![k].share = share,
                               ![k].state = IF @ = "Prepared" THEN "SessionBound" ELSE @]
         /\ handed' = [handed EXCEPT ![k].points = @ \cup {<<share, res[k].offset>>}]
    /\ UNCHANGED <<chain, scanned, coins, reorgs>>

scriptless_funding_prepare_kernel_excess_point(k) == k \in Fundings /\ HandsPoint(k)
scriptless_payout_prepare_kernel_excess_point(k) == k \in Payouts /\ HandsPoint(k)

HandsComponents(k) ==
    /\ res[k].state \in {"SessionBound", "Exported", "TemplateBound"}
    /\ res' = [res EXCEPT ![k].state = IF @ = "SessionBound" THEN "Exported" ELSE @]
    /\ handed' = [handed EXCEPT ![k].components = @ \cup {res[k].offset}]
    /\ UNCHANGED <<chain, scanned, coins, reorgs>>

scriptless_funding_export(k) == k \in Fundings /\ HandsComponents(k)
scriptless_payout_export(k) == k \in Payouts /\ HandsComponents(k)

\* The slip: the retry does not compare the template.
BindsAnyTemplate(r, template) == r.state \in {"Exported", "TemplateBound"}

\* A template other than the one bound is refused.
BindsTemplate(r, template) ==
    \/ r.state = "Exported"
    \/ r.state = "TemplateBound" /\ r.template = template

BindsOne(k) ==
    /\ \E template \in Templates :
         /\ BindsTemplate(res[k], template)
         /\ res' = [res EXCEPT ![k].state = "TemplateBound", ![k].template = template]
    /\ UNCHANGED <<chain, scanned, coins, handed, reorgs>>

scriptless_funding_bind_template(k) == k \in Fundings /\ BindsOne(k)
scriptless_payout_bind_template(k) == k \in Payouts /\ BindsOne(k)

Signs(k) ==
    /\ res[k].state = "TemplateBound"
    /\ handed' = [handed EXCEPT ![k].signed = @ \cup {res[k].template}]
    /\ UNCHANGED <<chain, scanned, coins, res, reorgs>>

scriptless_funding_signing_capability(k) == k \in Fundings /\ Signs(k)
scriptless_payout_signing_capability(k) == k \in Payouts /\ Signs(k)

(***************************************************************************)
(* Giving up.                                                              *)
(***************************************************************************)
Cancelled(k) ==
    res' = [res EXCEPT ![k] = [@ EXCEPT !.state = "Cancelled", !.offset = None,
                                        !.share = None, !.template = None]]

scriptless_funding_cancel_unexposed(k) ==
    /\ k \in Fundings
    /\ may_cancel_and_release(res[k])
    /\ \A c \in inputsOf(res[k]) :
         /\ coins[c].id = res[k].ids[c]
         /\ coins[c].owner = k
         /\ coins[c].state = "PendingOutgoing"
    /\ coins' = [c \in Coins |->
                    IF c = k THEN Absent(coins[c].id)
                    ELSE IF c \in inputsOf(res[k])
                    THEN [coins[c] EXCEPT !.state = "Confirmed", !.owner = None]
                    ELSE coins[c]]
    /\ Cancelled(k)
    /\ UNCHANGED <<chain, scanned, handed, reorgs>>

scriptless_payout_cancel_unexposed(k) ==
    /\ k \in Payouts
    /\ may_cancel_and_release(res[k])
    /\ coins' = [coins EXCEPT ![k] = Absent(@.id)]
    /\ Cancelled(k)
    /\ UNCHANGED <<chain, scanned, handed, reorgs>>

Abandons(k) ==
    /\ res[k].state \in {"SessionBound", "Exported", "TemplateBound"}
    /\ res' = [res EXCEPT ![k].state = "AbandonedRetained"]
    /\ UNCHANGED <<chain, scanned, coins, handed, reorgs>>

scriptless_funding_abandon_exposed(k) == k \in Fundings /\ Abandons(k)
scriptless_payout_abandon_exposed(k) == k \in Payouts /\ Abandons(k)

Command(k) ==
    \/ scriptless_funding_prepare(k)
    \/ scriptless_payout_prepare(k)
    \/ scriptless_funding_resume_preparation(k)
    \/ scriptless_payout_resume_preparation(k)
    \/ scriptless_funding_prepare_kernel_excess_point(k)
    \/ scriptless_payout_prepare_kernel_excess_point(k)
    \/ scriptless_funding_export(k)
    \/ scriptless_payout_export(k)
    \/ scriptless_funding_bind_template(k)
    \/ scriptless_payout_bind_template(k)
    \/ scriptless_funding_signing_capability(k)
    \/ scriptless_payout_signing_capability(k)
    \/ scriptless_funding_cancel_unexposed(k)
    \/ scriptless_payout_cancel_unexposed(k)
    \/ scriptless_funding_abandon_exposed(k)
    \/ scriptless_payout_abandon_exposed(k)

Next ==
    \/ \E k \in Reservations : Command(k)
    \/ Page
    \/ rescan_from_genesis
    \/ Block
    \/ Reorganize

Spec == Init /\ [][Next]_vars

-----------------------------------------------------------------------------
CoinStates == {"Absent", "PendingIncoming", "Confirmed", "PendingOutgoing", "Spent"}
ReservationStates == {"None", "Reserved", "Prepared", "SessionBound", "Exported",
                      "TemplateBound", "AbandonedRetained", "Cancelled"}

\* Every record has a state of the code's enumerations.
TypeOK ==
    /\ \A c \in Coins :
         /\ coins[c].state \in CoinStates
         /\ coins[c].owner \in Fundings \cup {None}
         /\ coins[c].id \in 0 .. 1
         /\ coins[c].found \in 0 .. MaxHeight
    /\ \A k \in Reservations :
         /\ res[k].state \in ReservationStates
         /\ inputsOf(res[k]) \subseteq Coins
         /\ res[k].offset \in Offsets \cup {None}

\* An input that a reservation retains is, by its commitment, unknown to the
\* wallet, spent, or owned by that reservation and unavailable: through any
\* order of commands, pages, reorganizations and genesis rescans no coin
\* selection can see it, and once something was handed out it never leaves
\* this state (scriptless_funding_cancel_unexposed against exposure).
RetainedInputsHeld ==
    \A k \in Fundings :
        (retains_inputs(res[k]) \/ handed[k].points # {}) =>
            \A c \in inputsOf(res[k]) :
                \/ coins[c].state \in {"Absent", "Spent"}
                \/ coins[c].owner = k /\ coins[c].state = "PendingOutgoing"

AtMostOne(S) == \A x, y \in S : x = y

\* Whatever a reservation has ever handed out belongs to one composition: one
\* offset, one share binding, one signed template, after any crash, retry,
\* abandonment, reorganization or rescan (`Re-export is byte-identical').
OneComposition ==
    \A k \in Reservations :
        /\ AtMostOne(handed[k].points)
        /\ AtMostOne({p[2] : p \in handed[k].points} \cup handed[k].components)
        /\ AtMostOne(handed[k].signed)

\* No commit is refused: every command leaves a state that WalletState::validate
\* accepts, and whatever the reservations did, the next page, of any length,
\* and a genesis rescan merge, restore and validate (apply_recovery_batch and
\* rewind_recovery_state return no error).
BatchesCommit ==
    LET anchor == Anchor
        base == PageBase(anchor)
    IN  /\ Valid(res, coins)
        /\ BaseRestores(anchor)
        /\ \A hi \in PageEnds(anchor) :
             LET page == Scanned(base, anchor, hi)
             IN  PageCommits(base, page, Restored(res, page), anchor, hi)
        /\ RewindCommits(0)
=============================================================================
