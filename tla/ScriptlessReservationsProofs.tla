-------------------- MODULE ScriptlessReservationsProofs --------------------
(***************************************************************************)
(* What a Scriptless reservation keeps and what it hands out, for any      *)
(* number of sessions, outputs and blocks, with and without reservations   *)
(* that select one another's outputs.                                      *)
(***************************************************************************)
EXTENDS ScriptlessReservations, TLAPS

\* Leaves that name no prover are for Zenon.
USE ZenonT(30)

\* A part of a sequence.
LEMMA Cut ==
    ASSUME NEW S, NEW s, NEW m \in Nat, NEW n \in Nat, \A i \in m .. n : s[i] \in S
    PROVE  /\ SubSeq(s, m, n) \in Seq(S)
           /\ Len(SubSeq(s, m, n)) = IF m <= n THEN n - m + 1 ELSE 0
           /\ \A i \in 1 .. n - m + 1 : SubSeq(s, m, n)[i] = s[m + i - 1]
BY SMT

\* The part between crossed bounds is empty.
LEMMA EmptyCut ==
    ASSUME NEW s, NEW m \in Nat, NEW n \in Nat, n < m
    PROVE  SubSeq(s, m, n) = <<>>
BY SMT

\* A sequence with one more element.
LEMMA Added ==
    ASSUME NEW S, NEW s \in Seq(S), NEW e \in S
    PROVE  LET t == Append(s, e)
           IN  /\ t \in Seq(S) /\ t # <<>> /\ Len(t) = Len(s) + 1 /\ t[Len(s) + 1] = e
               /\ \A i \in 1 .. Len(s) : t[i] = s[i]
BY SMT

CoinRecords ==
    [state : CoinStates, owner : Fundings \cup {None}, id : {0, 1}, found : Nat, spent : Nat]

\* The inputs of a reservation, each with the id it was reserved under.
Selections == UNION {[S -> {0, 1}] : S \in SUBSET Coins}

ReservationRecords ==
    [state : ReservationStates, ids : Selections, own : BOOLEAN,
     offset : Offsets \cup {None}, share : Shares \cup {None}, template : Templates \cup {None}]

HandedRecords ==
    [points : SUBSET ((Shares \cup {None}) \X (Offsets \cup {None})),
     components : SUBSET (Offsets \cup {None}), signed : SUBSET (Templates \cup {None})]

Shapes ==
    /\ coins \in [Coins -> CoinRecords]
    /\ res \in [Reservations -> ReservationRecords]
    /\ handed \in [Reservations -> HandedRecords]
    /\ chain \in Seq(SUBSET Coins) /\ scanned \in Seq(SUBSET Coins)

Exposed == {"SessionBound", "Exported", "TemplateBound", "AbandonedRetained"}
Bound == {"TemplateBound", "AbandonedRetained"}

\* All that has left the wallet for a reservation is what its record holds.
Composed(r, h) ==
    /\ h.points \subseteq {<<r.share, r.offset>>}
    /\ h.components \subseteq {r.offset}
    /\ h.signed \subseteq {r.template}
    /\ (h.points # {} \/ h.components # {}) => r.state \in Exposed
    /\ h.signed # {} => r.state \in Bound

Signed(k) == handed[k].signed # {}

\* The record of an output that is in no block the wallet has seen.
Fresh(o) == o.state \in {"Absent", "PendingIncoming"} /\ o.found = 0

IInv ==
    /\ Shapes
    /\ \A k \in Reservations : Composed(res[k], handed[k])
    /\ \A k \in Payouts : inputsOf(res[k]) = {}
    /\ \A h \in DOMAIN chain : \A k \in chain[h] \cap Reservations : Signed(k)
    /\ \A k \in Reservations : Fresh(coins[k]) \/ Signed(k)
    /\ \A k \in Fundings :
         retains_inputs(res[k]) => \A c \in inputsOf(res[k]) \cap Reservations : Signed(c)
    /\ RetainedInputsHeld

USE NamesAssumption

-----------------------------------------------------------------------------
(***************************************************************************)
(* Records and selections.                                                 *)
(***************************************************************************)
LEMMA SelectionDomain ==
    ASSUME NEW m \in Selections
    PROVE  DOMAIN m \subseteq Coins /\ m \in [DOMAIN m -> {0, 1}]
BY DEF Selections

\* A function on a set of coins is a selection.
LEMMA SelectionIntro ==
    ASSUME NEW S \in SUBSET Coins, NEW m \in [S -> {0, 1}]
    PROVE  m \in Selections /\ DOMAIN m = S
BY DEF Selections

\* Fundings and payouts are disjoint reservations, and both they and the ordinary
\* inputs are coins.
LEMMA Roles == Fundings \subseteq Reservations /\ Payouts \subseteq Reservations
               /\ Reservations \subseteq Coins /\ Inputs \subseteq Coins
               /\ Fundings \cap Payouts = {}
BY DEF Fundings, Payouts, Reservations, Coins

\* A record that does not exist, and one that is only announced, are fresh.
LEMMA AbsentIsFresh ==
    ASSUME NEW id \in {0, 1}
    PROVE  /\ Absent(id) \in CoinRecords /\ Fresh(Absent(id))
           /\ Absent(id).state = "Absent" /\ Absent(id).owner = None /\ Absent(id).id = id
           /\ Pending(id) \in CoinRecords /\ Fresh(Pending(id))
           /\ Pending(id).state = "PendingIncoming" /\ Pending(id).owner = None
           /\ Pending(id).id = id
BY DEF Absent, Pending, CoinRecords, CoinStates, Fresh

\* Before it is prepared a reservation selects nothing.
LEMMA NoReservationShape ==
    /\ NoReservation \in ReservationRecords
    /\ inputsOf(NoReservation) = {}
<1>1. NoReservation.ids \in [{} -> {0, 1}]
  BY SMT DEF NoReservation
<1>2. NoReservation.ids \in Selections /\ DOMAIN NoReservation.ids = {}
  BY <1>1, SelectionIntro
<1> QED
  BY <1>2 DEF NoReservation, ReservationRecords, ReservationStates, inputsOf

\* The empty wallet satisfies the invariant.
LEMMA InitEstablishes == Init => IInv
<1> SUFFICES ASSUME Init PROVE IInv
  OBVIOUS
<1>1. Shapes
  <2>1. coins \in [Coins -> CoinRecords]
    BY Roles DEF Init, Absent, CoinRecords, CoinStates
  <2>2. res \in [Reservations -> ReservationRecords]
    BY NoReservationShape DEF Init
  <2>3. handed \in [Reservations -> HandedRecords]
    BY DEF Init, HandedRecords
  <2>4. chain \in Seq(SUBSET Coins) /\ scanned \in Seq(SUBSET Coins)
    BY SMT, Roles DEF Init
  <2> QED BY <2>1, <2>2, <2>3, <2>4 DEF Shapes
<1>2. \A k \in Reservations : Composed(res[k], handed[k])
  BY DEF Init, Composed
<1>3. \A k \in Reservations : inputsOf(res[k]) = {} /\ ~retains_inputs(res[k])
  BY NoReservationShape DEF Init, retains_inputs, NoReservation
<1>4. \A h \in DOMAIN chain : \A k \in chain[h] \cap Reservations : Signed(k)
  BY SMT DEF Init
<1>5. \A k \in Reservations : Fresh(coins[k])
  BY Roles DEF Init, Fresh, Absent
<1>6. RetainedInputsHeld
  BY <1>3, Roles DEF RetainedInputsHeld
<1> QED
  BY <1>1, <1>2, <1>3, <1>4, <1>5, <1>6, Roles DEF IInv

-----------------------------------------------------------------------------
(***************************************************************************)
(* Commands.                                                               *)
(***************************************************************************)

\* A command that changes the progress of one reservation and hands out no
\* more than its record then holds.
LEMMA ProgressPreserves ==
    ASSUME IInv, NEW k \in Reservations, NEW r \in ReservationRecords, NEW h \in HandedRecords,
           res' = [res EXCEPT ![k] = r], handed' = [handed EXCEPT ![k] = h],
           r.ids = res[k].ids, retains_inputs(r), retains_inputs(res[k]),
           Composed(r, h), handed[k].signed \subseteq h.signed,
           UNCHANGED <<chain, scanned, coins>>
    PROVE  IInv'
<1>1. Shapes'
  BY DEF IInv, Shapes
<1>2. \A j \in Reservations : Composed(res'[j], handed'[j])
  BY DEF IInv, Shapes
<1>3. \A j \in Reservations : /\ inputsOf(res'[j]) = inputsOf(res[j])
                              /\ retains_inputs(res'[j]) <=> retains_inputs(res[j])
                              /\ Signed(j) => Signed(j)'
  BY DEF IInv, Shapes, inputsOf, Signed
<1>4. (\A h1 \in DOMAIN chain : \A j \in chain[h1] \cap Reservations : Signed(j))'
  BY <1>3 DEF IInv
<1>5. (\A j \in Reservations : Fresh(coins[j]) \/ Signed(j))'
  BY <1>3 DEF IInv
<1>6. (\A j \in Fundings :
         retains_inputs(res[j]) => \A c \in inputsOf(res[j]) \cap Reservations : Signed(c))'
  BY <1>3, Roles DEF IInv
<1>7. RetainedInputsHeld'
  <2> SUFFICES ASSUME NEW j \in Fundings, retains_inputs(res'[j]) \/ handed'[j].points # {},
                      NEW c \in inputsOf(res'[j])
               PROVE  \/ coins[c].state \in {"Absent", "Spent"}
                      \/ coins[c].owner = j /\ coins[c].state = "PendingOutgoing"
    BY SMT DEF RetainedInputsHeld
  <2>1. retains_inputs(res[j]) \/ handed[j].points # {}
    BY <1>3, Roles DEF IInv, Shapes
  <2> QED BY <1>3, <2>1, Roles DEF IInv, RetainedInputsHeld
<1>8. \A j \in Payouts : inputsOf(res'[j]) = {}
  BY <1>3, Roles DEF IInv
<1> QED
  BY <1>1, <1>2, <1>4, <1>5, <1>6, <1>7, <1>8 DEF IInv

\* Handing out the claim point preserves the invariant.
LEMMA PointPreserves ==
    ASSUME IInv, NEW k \in Reservations, HandsPoint(k)
    PROVE  IInv'
<1>1. PICK share \in Shares :
        /\ BindsShare(res[k], share)
        /\ res' = [res EXCEPT ![k].share = share,
                              ![k].state = IF @ = "Prepared" THEN "SessionBound" ELSE @]
        /\ handed' = [handed EXCEPT ![k].points = @ \cup {<<share, res[k].offset>>}]
  BY DEF HandsPoint
<1> DEFINE s == IF res[k].state = "Prepared" THEN "SessionBound" ELSE res[k].state
           r == [res[k] EXCEPT !.share = share, !.state = s]
           pts == handed[k].points \cup {<<share, res[k].offset>>}
           h == [handed[k] EXCEPT !.points = pts]
<1>2. res[k] \in ReservationRecords /\ handed[k] \in HandedRecords /\ Composed(res[k], handed[k])
  BY DEF IInv, Shapes
<1>3. s \in Exposed \ {"AbandonedRetained"} /\ s \in ReservationStates
      /\ retains_inputs(res[k]) /\ (s = "SessionBound" \/ s = res[k].state)
      /\ res[k].state \in {"Prepared", "SessionBound", "Exported", "TemplateBound"}
      /\ (res[k].state # "Prepared" => res[k].share = share /\ s = res[k].state)
      /\ (res[k].state = "Prepared" => s = "SessionBound")
  BY <1>1 DEF BindsShare, Exposed, retains_inputs, ReservationStates
<1>a. pts \in SUBSET ((Shares \cup {None}) \X (Offsets \cup {None}))
  BY SMT, <1>2 DEF ReservationRecords, HandedRecords
<1> HIDE DEF s, pts
<1>4. /\ r \in ReservationRecords /\ h \in HandedRecords
      /\ r.ids = res[k].ids /\ r.state = s /\ r.share = share /\ r.offset = res[k].offset
      /\ r.template = res[k].template
      /\ h.points = pts
      /\ h.components = handed[k].components /\ h.signed = handed[k].signed
  BY <1>2, <1>3, <1>a DEF ReservationRecords, HandedRecords
<1>5. retains_inputs(r)
  BY <1>3, <1>4 DEF retains_inputs, Exposed
<1>6. Composed(r, h)
  BY <1>2, <1>3, <1>4 DEF Composed, Exposed, Bound, pts
<1>7. res' = [res EXCEPT ![k] = r]
  BY <1>1 DEF s
<1>8. handed' = [handed EXCEPT ![k] = h]
  BY <1>1 DEF pts
<1>9. UNCHANGED <<chain, scanned, coins>>
  BY DEF HandsPoint
<1> HIDE DEF r, h
<1> QED
  BY <1>3, <1>4, <1>5, <1>6, <1>7, <1>8, <1>9, ProgressPreserves

\* Handing out the components preserves the invariant.
LEMMA ComponentsPreserve ==
    ASSUME IInv, NEW k \in Reservations, HandsComponents(k)
    PROVE  IInv'
<1> DEFINE s == IF res[k].state = "SessionBound" THEN "Exported" ELSE res[k].state
           r == [res[k] EXCEPT !.state = s]
           h == [handed[k] EXCEPT !.components = @ \cup {res[k].offset}]
<1>2. res[k] \in ReservationRecords /\ handed[k] \in HandedRecords /\ Composed(res[k], handed[k])
  BY DEF IInv, Shapes
<1>3. s \in Exposed \ {"AbandonedRetained"} /\ s \in ReservationStates
      /\ retains_inputs(res[k])
      /\ res[k].state \in {"SessionBound", "Exported", "TemplateBound"}
      /\ (res[k].state # "SessionBound" => s = res[k].state)
  BY DEF HandsComponents, Exposed, retains_inputs, ReservationStates
<1> HIDE DEF s
<1>4. /\ r \in ReservationRecords /\ h \in HandedRecords
      /\ r.ids = res[k].ids /\ r.state = s /\ r.share = res[k].share /\ r.offset = res[k].offset
      /\ r.template = res[k].template
      /\ h.components = handed[k].components \cup {res[k].offset}
      /\ h.points = handed[k].points /\ h.signed = handed[k].signed
  BY <1>2, <1>3 DEF ReservationRecords, HandedRecords
<1>5. retains_inputs(r)
  BY <1>3, <1>4 DEF retains_inputs, Exposed
<1>6. Composed(r, h)
  BY <1>2, <1>3, <1>4 DEF Composed, Exposed, Bound
<1>7. res' = [res EXCEPT ![k] = r]
  BY DEF s, HandsComponents
<1>8. handed' = [handed EXCEPT ![k] = h]
  BY DEF HandsComponents
<1>9. UNCHANGED <<chain, scanned, coins>>
  BY DEF HandsComponents
<1> HIDE DEF r, h
<1> QED
  BY <1>3, <1>4, <1>5, <1>6, <1>7, <1>8, <1>9, ProgressPreserves

\* Binding a template preserves the invariant: there was none, or this one.
LEMMA BindPreserves ==
    ASSUME IInv, NEW k \in Reservations, BindsOne(k)
    PROVE  IInv'
<1>1. PICK template \in Templates :
        /\ BindsTemplate(res[k], template)
        /\ res' = [res EXCEPT ![k].state = "TemplateBound", ![k].template = template]
  BY DEF BindsOne
<1> DEFINE r == [res[k] EXCEPT !.state = "TemplateBound", !.template = template]
<1>2. res[k] \in ReservationRecords /\ handed[k] \in HandedRecords /\ Composed(res[k], handed[k])
  BY DEF IInv, Shapes
<1>3. /\ r \in ReservationRecords
      /\ r.ids = res[k].ids /\ r.state = "TemplateBound" /\ r.share = res[k].share
      /\ r.offset = res[k].offset /\ r.template = template
  BY <1>2 DEF ReservationRecords, ReservationStates
<1>4. retains_inputs(r) /\ retains_inputs(res[k])
  BY <1>1, <1>3 DEF retains_inputs, BindsTemplate
<1>5. Composed(r, handed[k])
  BY <1>1, <1>2, <1>3 DEF Composed, Exposed, Bound, BindsTemplate
<1>6. res' = [res EXCEPT ![k] = r]
  BY <1>1
<1>7. handed' = [handed EXCEPT ![k] = handed[k]]
  BY DEF BindsOne, IInv, Shapes
<1>8. UNCHANGED <<chain, scanned, coins>>
  BY DEF BindsOne
<1> HIDE DEF r
<1> QED
  BY <1>2, <1>3, <1>4, <1>5, <1>6, <1>7, <1>8, ProgressPreserves

\* Handing out the signing capability preserves the invariant.
LEMMA SignPreserves ==
    ASSUME IInv, NEW k \in Reservations, Signs(k)
    PROVE  IInv'
<1> DEFINE h == [handed[k] EXCEPT !.signed = @ \cup {res[k].template}]
<1>2. res[k] \in ReservationRecords /\ handed[k] \in HandedRecords /\ Composed(res[k], handed[k])
  BY SMT DEF IInv, Shapes
<1>3. /\ h \in HandedRecords
      /\ h.signed = handed[k].signed \cup {res[k].template}
      /\ h.points = handed[k].points /\ h.components = handed[k].components
  BY <1>2 DEF HandedRecords, ReservationRecords
<1>4. retains_inputs(res[k])
  BY DEF retains_inputs, Signs
<1>5. Composed(res[k], h)
  BY <1>2, <1>3 DEF Composed, Exposed, Bound, Signs
<1>6. res' = [res EXCEPT ![k] = res[k]]
  BY DEF Signs, IInv, Shapes
<1>7. handed' = [handed EXCEPT ![k] = h]
  BY DEF Signs
<1>8. UNCHANGED <<chain, scanned, coins>>
  BY DEF Signs
<1> HIDE DEF h
<1> QED
  BY <1>2, <1>3, <1>4, <1>5, <1>6, <1>7, <1>8, ProgressPreserves

\* Abandoning a reservation preserves the invariant.
LEMMA AbandonPreserves ==
    ASSUME IInv, NEW k \in Reservations, Abandons(k)
    PROVE  IInv'
<1> DEFINE r == [res[k] EXCEPT !.state = "AbandonedRetained"]
<1>2. res[k] \in ReservationRecords /\ handed[k] \in HandedRecords /\ Composed(res[k], handed[k])
  BY SMT DEF IInv, Shapes
<1>3. /\ r \in ReservationRecords
      /\ r.ids = res[k].ids /\ r.state = "AbandonedRetained" /\ r.share = res[k].share
      /\ r.offset = res[k].offset /\ r.template = res[k].template
  BY <1>2 DEF ReservationRecords, ReservationStates
<1>4. retains_inputs(r) /\ retains_inputs(res[k])
  BY <1>3 DEF retains_inputs, Abandons
<1>5. Composed(r, handed[k])
  BY <1>2, <1>3 DEF Composed, Exposed, Bound, Abandons
<1>6. res' = [res EXCEPT ![k] = r]
  BY DEF Abandons
<1>7. handed' = [handed EXCEPT ![k] = handed[k]]
  BY DEF Abandons, IInv, Shapes
<1>8. UNCHANGED <<chain, scanned, coins>>
  BY DEF Abandons
<1> HIDE DEF r
<1> QED
  BY <1>2, <1>3, <1>4, <1>5, <1>6, <1>7, <1>8, ProgressPreserves

\* A new funding selects spendable coins, which no other reservation retains.
LEMMA FundingPreparePreserves ==
    ASSUME IInv, NEW k \in Fundings, scriptless_funding_prepare(k)
    PROVE  IInv'
<1>1. PICK S \in SUBSET Spendable, own \in BOOLEAN :
         /\ res' = [res EXCEPT ![k] = [NoReservation EXCEPT
                        !.state = "Reserved", !.own = own,
                        !.ids = [c \in S |-> coins[c].id]]]
         /\ coins' = [c \in Coins |-> IF c \in S
                        THEN [coins[c] EXCEPT !.state = "PendingOutgoing", !.owner = k]
                        ELSE coins[c]]
  BY DEF scriptless_funding_prepare
<1> DEFINE ids == [c \in S |-> coins[c].id]
           r == [NoReservation EXCEPT !.state = "Reserved", !.own = own, !.ids = ids]
<1>2. /\ coins \in [Coins -> CoinRecords] /\ res \in [Reservations -> ReservationRecords]
      /\ res[k].state = "None" /\ k \in Reservations
      /\ UNCHANGED <<chain, scanned, handed>>
  BY Roles DEF IInv, Shapes, scriptless_funding_prepare
<1>3. S \subseteq Coins /\ \A c \in S : coins[c].state = "Confirmed"
  BY Roles DEF Spendable
<1>4. ids \in [S -> {0, 1}]
  BY <1>2, <1>3 DEF CoinRecords
<1>5. ids \in Selections /\ DOMAIN ids = S
  BY <1>3, <1>4, SelectionIntro
<1> HIDE DEF ids
<1>6. r \in ReservationRecords /\ r.ids = ids /\ r.state = "Reserved"
  BY <1>5 DEF NoReservation, ReservationRecords, ReservationStates
<1>7. res' = [res EXCEPT ![k] = r]
  BY <1>1 DEF ids
<1> HIDE DEF r
<1>8. /\ res'[k] = r
      /\ \A j \in Reservations : j # k => res'[j] = res[j]
      /\ res' \in [Reservations -> ReservationRecords]
  BY <1>2, <1>6, <1>7
<1>9. \A c \in S : /\ coins'[c] \in CoinRecords
                   /\ coins'[c].state = "PendingOutgoing" /\ coins'[c].owner = k
  BY <1>1, <1>2, <1>3 DEF CoinRecords, CoinStates
<1>10. \A c \in Coins \ S : coins'[c] = coins[c]
  BY <1>1
<1>11. coins' \in [Coins -> CoinRecords]
  BY <1>1, <1>2, <1>3, <1>9, <1>10
<1>12. Composed(r, handed[k]) /\ handed[k].points = {}
  BY <1>2, <1>6 DEF IInv, Composed, Exposed, Bound
<1>13. \A c \in S \cap Reservations : Signed(c)
  BY <1>3 DEF IInv, Fresh
<1>14. RetainedInputsHeld'
  <2> SUFFICES ASSUME NEW j \in Fundings, retains_inputs(res'[j]) \/ handed'[j].points # {},
                      NEW c \in inputsOf(res'[j])
               PROVE  \/ coins'[c].state \in {"Absent", "Spent"}
                      \/ coins'[c].owner = j /\ coins'[c].state = "PendingOutgoing"
    BY DEF RetainedInputsHeld
  <2>1. CASE j = k
    BY <2>1, <1>5, <1>6, <1>8, <1>9 DEF inputsOf
  <2>2. CASE j # k
    <3>1. /\ \/ coins[c].state \in {"Absent", "Spent"}
             \/ coins[c].owner = j /\ coins[c].state = "PendingOutgoing"
          /\ c \in inputsOf(res[j])
      BY <2>2, <1>2, <1>8, Roles DEF IInv, RetainedInputsHeld
    <3>2. c \in Coins
      BY <3>1, <1>2, Roles, SelectionDomain DEF inputsOf, ReservationRecords
    <3> QED BY <3>1, <3>2, <1>3, <1>10
  <2> QED BY <2>1, <2>2
<1>15. Shapes'
  BY <1>2, <1>8, <1>11 DEF IInv, Shapes
<1>16. \A j \in Reservations : Composed(res'[j], handed'[j])
  BY <1>2, <1>8, <1>12 DEF IInv
<1>17. \A j \in Payouts : inputsOf(res'[j]) = {}
  BY <1>8, Roles DEF IInv
<1>18. \A j \in Reservations : Signed(j)' <=> Signed(j)
  BY <1>2 DEF Signed
<1>19. \A j \in Reservations : Fresh(coins'[j]) \/ Signed(j)
  BY <1>10, <1>13, Roles DEF IInv
<1>20. \A j \in Fundings :
         retains_inputs(res'[j]) => \A c \in inputsOf(res'[j]) \cap Reservations : Signed(c)
  BY <1>5, <1>6, <1>8, <1>13, Roles DEF IInv, inputsOf
<1> QED
  BY <1>2, <1>14, <1>15, <1>16, <1>17, <1>18, <1>19, <1>20 DEF IInv

\* A new payout selects nothing.
LEMMA PayoutPreparePreserves ==
    ASSUME IInv, NEW k \in Payouts, scriptless_payout_prepare(k)
    PROVE  IInv'
<1>1. PICK own \in BOOLEAN :
         res' = [res EXCEPT ![k] = [NoReservation EXCEPT !.state = "Reserved", !.own = own]]
  BY DEF scriptless_payout_prepare
<1> DEFINE r == [NoReservation EXCEPT !.state = "Reserved", !.own = own]
<1>2. /\ res \in [Reservations -> ReservationRecords]
      /\ res[k].state = "None" /\ k \in Reservations /\ k \notin Fundings
      /\ UNCHANGED <<chain, scanned, handed, coins>>
  BY Roles DEF IInv, Shapes, scriptless_payout_prepare
<1>3. r \in ReservationRecords /\ inputsOf(r) = {} /\ r.state = "Reserved"
  BY NoReservationShape DEF NoReservation, ReservationRecords, ReservationStates, inputsOf
<1>4. res' = [res EXCEPT ![k] = r]
  BY <1>1
<1> HIDE DEF r
<1>5. /\ res'[k] = r
      /\ \A j \in Reservations : j # k => res'[j] = res[j]
      /\ res' \in [Reservations -> ReservationRecords]
  BY <1>2, <1>3, <1>4
<1>6. Composed(r, handed[k])
  BY <1>2, <1>3 DEF IInv, Composed, Exposed, Bound
<1>7. \A j \in Fundings : res'[j] = res[j]
  BY <1>2, <1>5, Roles
<1>8. RetainedInputsHeld'
  BY SMT, <1>2, <1>7 DEF IInv, RetainedInputsHeld
<1>9. Shapes'
  BY <1>2, <1>5 DEF IInv, Shapes
<1>10. \A j \in Reservations : Composed(res'[j], handed'[j])
  BY <1>2, <1>5, <1>6 DEF IInv
<1>11. \A j \in Payouts : inputsOf(res'[j]) = {}
  BY <1>3, <1>5, Roles DEF IInv
<1>12. \A j \in Reservations : Signed(j)' <=> Signed(j)
  BY <1>2 DEF Signed
<1> QED
  BY <1>2, <1>7, <1>8, <1>9, <1>10, <1>11, <1>12 DEF IInv

\* The construction: the offset is drawn, the reservation's own output recorded.
LEMMA PreparedPreserves ==
    ASSUME IInv, NEW k \in Reservations, Resumable(res[k]), Prepared(k)
    PROVE  IInv'
<1>1. PICK o \in Offsets : res' = [res EXCEPT ![k].state = "Prepared", ![k].offset = o]
  BY DEF Prepared
<1> DEFINE r == [res[k] EXCEPT !.state = "Prepared", !.offset = o]
<1>2. /\ coins \in [Coins -> CoinRecords] /\ res \in [Reservations -> ReservationRecords]
      /\ res[k].state = "Reserved" /\ k \in Coins
      /\ UNCHANGED <<chain, scanned, handed>>
  BY Roles DEF IInv, Shapes, Prepared, Resumable
<1>3. r \in ReservationRecords /\ r.ids = res[k].ids /\ r.state = "Prepared"
  BY <1>2 DEF ReservationRecords, ReservationStates
<1>4. res' = [res EXCEPT ![k] = r]
  BY <1>1
<1> HIDE DEF r
<1>5. /\ res'[k] = r
      /\ \A j \in Reservations : j # k => res'[j] = res[j]
      /\ res' \in [Reservations -> ReservationRecords]
  BY <1>2, <1>3, <1>4
<1>6. ~Signed(k) /\ Composed(r, handed[k])
  BY <1>2, <1>3 DEF IInv, Composed, Exposed, Bound, Signed
<1>7. /\ coins' \in [Coins -> CoinRecords]
      /\ \A c \in Coins : c # k => coins'[c] = coins[c]
      /\ Fresh(coins'[k]) \/ coins'[k] = coins[k]
  <2>1. coins[k].id \in {0, 1}
    BY <1>2 DEF CoinRecords
  <2> DEFINE p == Pending(coins[k].id)
  <2>2. p \in CoinRecords /\ Fresh(p)
    BY <2>1, AbsentIsFresh
  <2>3. coins' = [coins EXCEPT ![k] = p] \/ coins' = coins
    BY DEF Prepared
  <2> HIDE DEF p
  <2> QED BY <2>2, <2>3, <1>2
<1>8. \A j \in Reservations : /\ inputsOf(res'[j]) = inputsOf(res[j])
                              /\ retains_inputs(res'[j]) <=> retains_inputs(res[j])
                              /\ Signed(j)' <=> Signed(j)
  BY <1>2, <1>3, <1>5 DEF inputsOf, retains_inputs, Signed
<1>9. RetainedInputsHeld'
  <2> SUFFICES ASSUME NEW j \in Fundings, retains_inputs(res'[j]) \/ handed'[j].points # {},
                      NEW c \in inputsOf(res'[j])
               PROVE  \/ coins'[c].state \in {"Absent", "Spent"}
                      \/ coins'[c].owner = j /\ coins'[c].state = "PendingOutgoing"
    BY DEF RetainedInputsHeld
  <2>1. j \in Reservations /\ c \in inputsOf(res[j])
    BY <1>8, Roles
  <2>2. retains_inputs(res[j])
    BY <1>2, <1>8, <2>1 DEF IInv, Composed, Exposed, retains_inputs
  <2>3. c # k
    BY <1>6, <2>1, <2>2 DEF IInv
  <2>4. c \in Coins
    BY <2>1, <1>2, SelectionDomain DEF inputsOf, ReservationRecords
  <2> QED BY SMT, <1>7, <2>1, <2>2, <2>3, <2>4 DEF IInv, RetainedInputsHeld
<1>10. Shapes'
  BY <1>2, <1>5, <1>7 DEF IInv, Shapes
<1>11. \A j \in Reservations : Composed(res'[j], handed'[j])
  BY <1>2, <1>5, <1>6 DEF IInv
<1>12. \A j \in Payouts : inputsOf(res'[j]) = {}
  BY <1>8, Roles DEF IInv
<1>13. \A j \in Reservations : Fresh(coins'[j]) \/ Signed(j)
  BY <1>7, Roles DEF IInv
<1>14. \A j \in Fundings :
         retains_inputs(res'[j]) => \A c \in inputsOf(res'[j]) \cap Reservations : Signed(c)
  BY <1>8, Roles DEF IInv
<1> QED
  BY <1>2, <1>8, <1>9, <1>10, <1>11, <1>12, <1>13, <1>14 DEF IInv

\* A cancellation: nothing was handed out, and every other reservation keeps
\* what it retains, since the inputs released were owned by this one.
LEMMA CancelPreserves ==
    ASSUME IInv, NEW k \in Reservations, may_cancel_and_release(res[k]), Cancelled(k),
           coins' \in [Coins -> CoinRecords],
           Fresh(coins'[k]),
           \A c \in Coins \ {k} :
             \/ coins'[c] = coins[c]
             \/ /\ c \in inputsOf(res[k]) /\ k \in Fundings
                /\ coins[c].owner = k /\ coins[c].state = "PendingOutgoing",
           UNCHANGED <<chain, scanned, handed>>
    PROVE  IInv'
<1> DEFINE r == [res[k] EXCEPT !.state = "Cancelled", !.offset = None,
                               !.share = None, !.template = None]
<1>1. /\ coins \in [Coins -> CoinRecords] /\ res \in [Reservations -> ReservationRecords]
      /\ res[k].state \in {"Reserved", "Prepared"} /\ k \in Coins
  BY Roles DEF IInv, Shapes, may_cancel_and_release
<1>a. res[k] \in ReservationRecords
  BY <1>1
<1>2. r \in ReservationRecords /\ r.ids = res[k].ids /\ r.state = "Cancelled"
  BY <1>a DEF ReservationRecords, ReservationStates
<1>3. res' = [res EXCEPT ![k] = r]
  BY DEF Cancelled
<1> HIDE DEF r
<1>4. /\ res'[k] = r
      /\ \A j \in Reservations : j # k => res'[j] = res[j]
      /\ res' \in [Reservations -> ReservationRecords]
  BY <1>1, <1>2, <1>3
<1>5. ~Signed(k) /\ Composed(r, handed[k]) /\ handed[k].points = {}
  BY <1>1, <1>2 DEF IInv, Composed, Exposed, Bound, Signed
<1>6. /\ retains_inputs(res[k]) /\ ~retains_inputs(res'[k])
      /\ \A j \in Reservations : /\ inputsOf(res'[j]) = inputsOf(res[j])
                                 /\ Signed(j)' <=> Signed(j)
  BY <1>1, <1>2, <1>4 DEF inputsOf, retains_inputs, Signed
<1>7. RetainedInputsHeld'
  <2> SUFFICES ASSUME NEW j \in Fundings, retains_inputs(res'[j]) \/ handed'[j].points # {},
                      NEW c \in inputsOf(res'[j])
               PROVE  \/ coins'[c].state \in {"Absent", "Spent"}
                      \/ coins'[c].owner = j /\ coins'[c].state = "PendingOutgoing"
    BY DEF RetainedInputsHeld
  <2>1. j \in Reservations /\ c \in inputsOf(res[j]) /\ j # k
    BY <1>5, <1>6, Roles
  <2>2. retains_inputs(res[j])
    BY <1>4, <2>1 DEF IInv, Composed, Exposed, retains_inputs
  <2>3. c # k
    BY <1>5, <2>1, <2>2 DEF IInv
  <2>4. c \in Coins
    BY <2>1, <1>1, SelectionDomain DEF inputsOf, ReservationRecords
  <2>5. \/ coins[c].state \in {"Absent", "Spent"}
        \/ coins[c].owner = j /\ coins[c].state = "PendingOutgoing"
    BY <2>1, <2>2 DEF IInv, RetainedInputsHeld
  <2> QED BY <2>1, <2>3, <2>4, <2>5
<1>8. Shapes'
  BY <1>1, <1>4 DEF IInv, Shapes
<1>9. \A j \in Reservations : Composed(res'[j], handed'[j])
  BY <1>4, <1>5 DEF IInv
<1>10. \A j \in Payouts : inputsOf(res'[j]) = {}
  BY <1>6, Roles DEF IInv
<1>11. \A j \in Reservations : Fresh(coins'[j]) \/ Signed(j)
  <2> SUFFICES ASSUME NEW j \in Reservations, j # k PROVE Fresh(coins'[j]) \/ Signed(j)
    OBVIOUS
  <2>1. CASE coins'[j] = coins[j]
    BY <2>1 DEF IInv
  <2>2. CASE coins'[j] # coins[j]
    BY <2>2, <1>6, Roles DEF IInv
  <2> QED BY <2>1, <2>2
<1>12. \A j \in Fundings :
         retains_inputs(res'[j]) => \A c \in inputsOf(res'[j]) \cap Reservations : Signed(c)
  BY <1>4, <1>6, Roles DEF IInv
<1> QED
  BY <1>1, <1>6, <1>7, <1>8, <1>9, <1>10, <1>11, <1>12 DEF IInv

\* A funding that exposed nothing may give its inputs back.
LEMMA FundingCancelPreserves ==
    ASSUME IInv, NEW k \in Fundings, scriptless_funding_cancel_unexposed(k)
    PROVE  IInv'
<1>1. /\ coins \in [Coins -> CoinRecords] /\ k \in Reservations /\ k \in Coins
      /\ \A c \in inputsOf(res[k]) : coins[c].owner = k /\ coins[c].state = "PendingOutgoing"
      /\ coins' = [c \in Coins |->
                    IF c = k THEN Absent(coins[c].id)
                    ELSE IF c \in inputsOf(res[k])
                    THEN [coins[c] EXCEPT !.state = "Confirmed", !.owner = None]
                    ELSE coins[c]]
  BY Roles DEF IInv, Shapes, scriptless_funding_cancel_unexposed
<1>2. \A c \in Coins : Absent(coins[c].id) \in CoinRecords /\ Fresh(Absent(coins[c].id))
  BY <1>1, AbsentIsFresh DEF CoinRecords
<1>3. \A c \in Coins : [coins[c] EXCEPT !.state = "Confirmed", !.owner = None] \in CoinRecords
  <2>1. \A o \in CoinRecords : [o EXCEPT !.state = "Confirmed", !.owner = None] \in CoinRecords
    BY DEF CoinRecords, CoinStates
  <2> QED BY <1>1, <2>1
<1>4. coins' \in [Coins -> CoinRecords]
  BY <1>1, <1>2, <1>3
<1>5. Fresh(coins'[k])
  BY <1>1, <1>2
<1>6. \A c \in Coins \ {k} :
             \/ coins'[c] = coins[c]
             \/ /\ c \in inputsOf(res[k]) /\ k \in Fundings
                /\ coins[c].owner = k /\ coins[c].state = "PendingOutgoing"
  BY <1>1
<1>7. may_cancel_and_release(res[k]) /\ Cancelled(k) /\ UNCHANGED <<chain, scanned, handed>>
  BY DEF scriptless_funding_cancel_unexposed
<1> QED
  BY <1>1, <1>4, <1>5, <1>6, <1>7, CancelPreserves

\* A payout that exposed nothing may be forgotten.
LEMMA PayoutCancelPreserves ==
    ASSUME IInv, NEW k \in Payouts, scriptless_payout_cancel_unexposed(k)
    PROVE  IInv'
<1> DEFINE a == Absent(coins[k].id)
<1>1. coins \in [Coins -> CoinRecords] /\ k \in Reservations /\ k \in Coins
  BY Roles DEF IInv, Shapes
<1>2. a \in CoinRecords /\ Fresh(a)
  BY <1>1, AbsentIsFresh DEF CoinRecords
<1>3. coins' = [coins EXCEPT ![k] = a]
  BY DEF scriptless_payout_cancel_unexposed
<1> HIDE DEF a
<1>4. /\ coins' \in [Coins -> CoinRecords] /\ Fresh(coins'[k])
      /\ \A c \in Coins \ {k} : coins'[c] = coins[c]
  BY <1>1, <1>2, <1>3
<1>5. may_cancel_and_release(res[k]) /\ Cancelled(k) /\ UNCHANGED <<chain, scanned, handed>>
  BY DEF scriptless_payout_cancel_unexposed
<1> QED
  BY <1>1, <1>4, <1>5, CancelPreserves

\* Every command on a reservation preserves the invariant.
LEMMA CommandPreserves ==
    ASSUME IInv, NEW k \in Reservations, Command(k)
    PROVE  IInv'
<1>1. CASE scriptless_funding_prepare(k)
  BY <1>1, FundingPreparePreserves DEF scriptless_funding_prepare
<1>2. CASE scriptless_payout_prepare(k)
  BY <1>2, PayoutPreparePreserves DEF scriptless_payout_prepare
<1>3. CASE scriptless_funding_resume_preparation(k) \/ scriptless_payout_resume_preparation(k)
  BY <1>3, PreparedPreserves
     DEF scriptless_funding_resume_preparation, scriptless_payout_resume_preparation
<1>4. CASE \/ scriptless_funding_prepare_kernel_excess_point(k)
           \/ scriptless_payout_prepare_kernel_excess_point(k)
  BY <1>4, PointPreserves
     DEF scriptless_funding_prepare_kernel_excess_point,
         scriptless_payout_prepare_kernel_excess_point
<1>5. CASE scriptless_funding_export(k) \/ scriptless_payout_export(k)
  BY <1>5, ComponentsPreserve DEF scriptless_funding_export, scriptless_payout_export
<1>6. CASE scriptless_funding_bind_template(k) \/ scriptless_payout_bind_template(k)
  BY SMT, <1>6, BindPreserves DEF scriptless_funding_bind_template, scriptless_payout_bind_template
<1>7. CASE scriptless_funding_signing_capability(k) \/ scriptless_payout_signing_capability(k)
  BY SMT, <1>7, SignPreserves
     DEF scriptless_funding_signing_capability, scriptless_payout_signing_capability
<1>8. CASE scriptless_funding_cancel_unexposed(k)
  BY <1>8, FundingCancelPreserves DEF scriptless_funding_cancel_unexposed
<1>9. CASE scriptless_payout_cancel_unexposed(k)
  BY <1>9, PayoutCancelPreserves DEF scriptless_payout_cancel_unexposed
<1>10. CASE scriptless_funding_abandon_exposed(k) \/ scriptless_payout_abandon_exposed(k)
  BY SMT, <1>10, AbandonPreserves
     DEF scriptless_funding_abandon_exposed, scriptless_payout_abandon_exposed
<1> QED
  BY <1>1, <1>2, <1>3, <1>4, <1>5, <1>6, <1>7, <1>8, <1>9, <1>10 DEF Command

-----------------------------------------------------------------------------
(***************************************************************************)
(* Rewinding, scanning and restoring: what each does to the record of an   *)
(* output, and that it leaves an output that is in no block alone.         *)
(***************************************************************************)
Records == [Coins -> CoinRecords]

\* refresh_maturity leaves a fresh record as it is.
LEMMA MaturityKeeps ==
    ASSUME NEW cs \in Records
    PROVE  /\ refresh_maturity(cs) \in Records
           /\ \A c \in Coins : Fresh(cs[c]) => refresh_maturity(cs)[c] = cs[c]
<1>1. \A o \in CoinRecords : [o EXCEPT !.state = "Confirmed"] \in CoinRecords
  BY DEF CoinRecords, CoinStates
<1>2. refresh_maturity(cs) \in Records
  BY <1>1 DEF refresh_maturity, Records
<1>3. \A c \in Coins : Fresh(cs[c]) => refresh_maturity(cs)[c] = cs[c]
  BY SMT DEF refresh_maturity, Fresh
<1> QED BY <1>2, <1>3

\* A rewind leaves a fresh record as it is.
LEMMA RewoundKeeps ==
    ASSUME NEW cs \in Records, NEW safe \in Nat
    PROVE  /\ Rewound(cs, safe) \in Records
           /\ \A c \in Coins : Fresh(cs[c]) => Rewound(cs, safe)[c] = cs[c]
<1> DEFINE past == [c \in Coins |->
            IF cs[c].found > safe THEN Absent(cs[c].id)
            ELSE IF cs[c].state = "Spent" /\ cs[c].spent > safe
            THEN [cs[c] EXCEPT !.state = "Confirmed", !.spent = 0]
            ELSE cs[c]]
<1>1. \A o \in CoinRecords : [o EXCEPT !.state = "Confirmed", !.spent = 0] \in CoinRecords
  BY DEF CoinRecords, CoinStates
<1>2. \A o \in CoinRecords : Absent(o.id) \in CoinRecords
  BY AbsentIsFresh DEF CoinRecords
<1>3. past \in Records
  BY <1>1, <1>2 DEF Records
<1>4. \A c \in Coins : Fresh(cs[c]) => past[c] = cs[c]
  BY SMT DEF Fresh
<1>5. Rewound(cs, safe) = refresh_maturity(past)
  BY DEF Rewound
<1> HIDE DEF past
<1> QED BY SMT, <1>3, <1>4, <1>5, MaturityKeeps

\* The outputs a restoration announces again are fresh.
LEMMA RecreatedKeeps ==
    ASSUME NEW rs, NEW cs \in Records, NEW ks
    PROVE  /\ Recreated(cs, rs, ks) \in Records
           /\ \A c \in Coins : Fresh(cs[c]) => Fresh(Recreated(cs, rs, ks)[c])
<1>1. \A o \in CoinRecords : Pending(o.id) \in CoinRecords /\ Fresh(Pending(o.id))
  BY AbsentIsFresh DEF CoinRecords
<1>2. \A c \in Coins : Recreated(cs, rs, ks)[c] \in {Pending(cs[c].id), cs[c]}
  BY DEF Recreated
<1>3. Recreated(cs, rs, ks) = [c \in Coins |-> Recreated(cs, rs, ks)[c]]
  BY DEF Recreated
<1> QED BY SMT, <1>1, <1>2, <1>3 DEF Records

\* A restoration does not touch a coin that no reservation holds.
LEMMA TakenKeeps ==
    ASSUME NEW rs, NEW c, NEW o \in CoinRecords
    PROVE  /\ Taken(rs, c, o) \in CoinRecords
           /\ Holders(rs, c) = {} => Taken(rs, c, o) = o
<1> DEFINE holders == {k \in Holders(rs, c) : Finds(rs[k], c, o)}
           k == CHOOSE j \in holders : TRUE
<1>1. Taken(rs, c, o) = IF holders = {} \/ o.state = "Spent" THEN o
                        ELSE [o EXCEPT !.owner = k, !.state = "PendingOutgoing"]
  BY DEF Taken
<1>2. holders # {} => k \in Fundings
  BY DEF Holders
<1>3. Holders(rs, c) = {} => holders = {}
  OBVIOUS
<1> HIDE DEF holders, k
<1>4. k \in Fundings => [o EXCEPT !.owner = k, !.state = "PendingOutgoing"] \in CoinRecords
  BY DEF CoinRecords, CoinStates
<1> QED BY <1>1, <1>2, <1>3, <1>4

\* A restoration keeps records well formed, and fresh ones fresh that nobody holds.
LEMMA RestoredKeeps ==
    ASSUME NEW rs, NEW cs \in Records
    PROVE  /\ Restored(rs, cs) \in Records
           /\ \A c \in Coins : Fresh(cs[c]) /\ Holders(rs, c) = {} => Fresh(Restored(rs, cs)[c])
<1> DEFINE made == Recreated(cs, rs, Fundings)
           given == [c \in Coins |-> Taken(rs, c, made[c])]
<1>1. made \in Records /\ \A c \in Coins : Fresh(cs[c]) => Fresh(made[c])
  BY RecreatedKeeps
<1> HIDE DEF made
<1>2. given \in Records
      /\ \A c \in Coins : Fresh(made[c]) /\ Holders(rs, c) = {} => Fresh(given[c])
  BY <1>1, TakenKeeps DEF Records
<1>3. Restored(rs, cs) = Recreated(given, rs, Payouts)
  BY DEF Restored, restore_scriptless_payout_reservations,
         restore_scriptless_funding_reservations, made
<1> HIDE DEF given
<1> QED BY <1>1, <1>2, <1>3, RecreatedKeeps

\* merge_restored_output changes a record only when a block made the output.
LEMMA MergeKeeps ==
    ASSUME NEW o \in CoinRecords, NEW made \in SUBSET Nat
    PROVE  /\ merge_restored_output(o, made) \in CoinRecords
           /\ made = {} => merge_restored_output(o, made) = o
<1> DEFINE h == CHOOSE g \in made : TRUE
           id == IF o.state = "Absent" THEN 1 - o.id ELSE o.id
<1>1. merge_restored_output(o, made) =
        IF made = {} \/ o.found > 0 THEN o
        ELSE [o EXCEPT !.state = "Confirmed", !.found = h, !.id = id]
  BY DEF merge_restored_output
<1>2. made # {} => h \in Nat
  OBVIOUS
<1>3. id \in {0, 1}
  BY SMT DEF CoinRecords
<1> HIDE DEF h, id
<1>4. h \in Nat => [o EXCEPT !.state = "Confirmed", !.found = h, !.id = id] \in CoinRecords
  BY <1>3 DEF CoinRecords, CoinStates
<1> QED BY <1>1, <1>2, <1>4

\* A spend changes a record only when a block used the output.
LEMMA SpentKeeps ==
    ASSUME NEW o \in CoinRecords, NEW used \in SUBSET Nat
    PROVE  /\ SpentBy(o, used) \in CoinRecords
           /\ used = {} => SpentBy(o, used) = o
<1> DEFINE h == CHOOSE g \in used : TRUE
<1>1. SpentBy(o, used) =
        IF used = {} \/ o.state = "Absent" THEN o
        ELSE [o EXCEPT !.state = "Spent", !.owner = None, !.spent = h]
  BY DEF SpentBy
<1>2. used # {} => h \in Nat
  OBVIOUS
<1> HIDE DEF h
<1>3. h \in Nat => [o EXCEPT !.state = "Spent", !.owner = None, !.spent = h] \in CoinRecords
  BY DEF CoinRecords, CoinStates
<1> QED BY <1>1, <1>2, <1>3

\* A page does not change the record of a coin that is in no block.
LEMMA ScannedKeeps ==
    ASSUME NEW cs \in Records, NEW lo \in Nat, NEW hi \in Nat
    PROVE  /\ Scanned(cs, lo, hi) \in Records
           /\ \A c \in Coins :
                Fresh(cs[c]) /\ MadeAt(chain, c) = {} /\ UsedAt(chain, c) = {} =>
                    Scanned(cs, lo, hi)[c] = cs[c]
<1> DEFINE m(c) == merge_restored_output(cs[c], PageMade(lo, hi, c))
           page == [c \in Coins |-> SpentBy(m(c), PageUsed(lo, hi, c))]
<1>1. \A c \in Coins : /\ PageMade(lo, hi, c) \in SUBSET Nat
                       /\ PageUsed(lo, hi, c) \in SUBSET Nat
                       /\ MadeAt(chain, c) = {} => PageMade(lo, hi, c) = {}
                       /\ UsedAt(chain, c) = {} => PageUsed(lo, hi, c) = {}
  BY SMT DEF PageMade, PageUsed
<1>2. \A c \in Coins : m(c) \in CoinRecords /\ (MadeAt(chain, c) = {} => m(c) = cs[c])
  BY <1>1, MergeKeeps DEF Records
<1> HIDE DEF m
<1>3. page \in Records
      /\ \A c \in Coins : UsedAt(chain, c) = {} => page[c] = m(c)
  BY <1>1, <1>2, SpentKeeps DEF Records
<1>4. Scanned(cs, lo, hi) = refresh_maturity(page)
  BY DEF Scanned, m
<1> HIDE DEF page
<1> QED BY SMT, <1>2, <1>3, <1>4, MaturityKeeps

\* Rebinding changes nothing of a reservation but the ids of its inputs.
LEMMA ReboundKeeps ==
    ASSUME NEW rs \in [Reservations -> ReservationRecords], NEW cs \in Records,
           NEW k \in Reservations
    PROVE  LET r == Rebound(rs, cs)[k]
           IN  /\ r \in ReservationRecords
               /\ inputsOf(r) = inputsOf(rs[k])
               /\ r.state = rs[k].state /\ r.own = rs[k].own /\ r.offset = rs[k].offset
               /\ r.share = rs[k].share /\ r.template = rs[k].template
               /\ retains_inputs(rs[k]) =>
                    \A c \in inputsOf(rs[k]) : cs[c].state # "Absent" => r.ids[c] = cs[c].id
<1> DEFINE ids == [c \in inputsOf(rs[k]) |->
                     IF Finds(rs[k], c, cs[c]) THEN cs[c].id ELSE rs[k].ids[c]]
           b == [rs[k] EXCEPT !.ids = ids]
<1>1. rs[k] \in ReservationRecords /\ inputsOf(rs[k]) \in SUBSET Coins
      /\ rs[k].ids \in [inputsOf(rs[k]) -> {0, 1}]
  BY SelectionDomain DEF ReservationRecords, inputsOf
<1>2. ids \in [inputsOf(rs[k]) -> {0, 1}]
  BY <1>1 DEF Records, CoinRecords
<1>3. ids \in Selections /\ DOMAIN ids = inputsOf(rs[k])
  BY <1>1, <1>2, SelectionIntro
<1>4. \A c \in inputsOf(rs[k]) : cs[c].state # "Absent" => ids[c] = cs[c].id
  BY DEF Finds
<1> HIDE DEF ids
<1>5. /\ b \in ReservationRecords /\ b.ids = ids /\ b.state = rs[k].state
      /\ b.own = rs[k].own /\ b.offset = rs[k].offset
      /\ b.share = rs[k].share /\ b.template = rs[k].template
  BY <1>1, <1>3 DEF ReservationRecords
<1>6. Rebound(rs, cs)[k] = IF retains_inputs(rs[k]) THEN b ELSE rs[k]
  BY DEF Rebound, ids
<1> HIDE DEF b
<1>7. inputsOf(b) = inputsOf(rs[k])
  BY <1>3, <1>5 DEF inputsOf
<1> QED BY <1>1, <1>3, <1>4, <1>5, <1>6, <1>7

\* A commit of the scan: the records it leaves satisfy validate, and the
\* reservations are the same ones under the ids the records then have.
LEMMA CommitPreserves ==
    ASSUME IInv, NEW next \in Records, coins' = next, res' = Rebound(res, next),
           Valid(Rebound(res, next), next), UNCHANGED <<chain, handed>>,
           scanned' \in Seq(SUBSET Coins),
           \A k \in Reservations : ~Signed(k) => Fresh(next[k])
    PROVE  IInv'
<1>1. res \in [Reservations -> ReservationRecords]
  BY DEF IInv, Shapes
<1>2. \A k \in Reservations :
         /\ res'[k] \in ReservationRecords
         /\ inputsOf(res'[k]) = inputsOf(res[k])
         /\ res'[k].state = res[k].state /\ res'[k].offset = res[k].offset
         /\ res'[k].share = res[k].share /\ res'[k].template = res[k].template
         /\ retains_inputs(res[k]) =>
              \A c \in inputsOf(res[k]) : next[c].state # "Absent" => res'[k].ids[c] = next[c].id
  BY SMT, <1>1, ReboundKeeps
<1>3. res' \in [Reservations -> ReservationRecords]
  BY <1>2 DEF Rebound
<1>4. Shapes'
  BY <1>3 DEF IInv, Shapes, Records
<1>5. \A k \in Reservations : Composed(res'[k], handed'[k])
  BY <1>2 DEF IInv, Composed
<1>6. \A k \in Reservations : /\ Signed(k)' <=> Signed(k)
                              /\ retains_inputs(res'[k]) <=> retains_inputs(res[k])
  BY <1>2 DEF Signed, retains_inputs
<1>7. RetainedInputsHeld'
  <2> SUFFICES ASSUME NEW j \in Fundings, retains_inputs(res'[j]) \/ handed'[j].points # {},
                      NEW c \in inputsOf(res'[j])
               PROVE  \/ next[c].state \in {"Absent", "Spent"}
                      \/ next[c].owner = j /\ next[c].state = "PendingOutgoing"
    BY DEF RetainedInputsHeld
  <2>1. j \in Reservations
    BY Roles
  <2>2. retains_inputs(res'[j])
    BY <1>5, <2>1 DEF Composed, Exposed, retains_inputs
  <2>3. next[c].state # "Absent" => next[c].id = res'[j].ids[c]
    BY <1>2, <1>6, <2>1, <2>2
  <2>4. InputsBound(res', next, j)
    BY DEF Valid
  <2> QED BY <2>2, <2>3, <2>4 DEF InputsBound
<1>8. \A j \in Payouts : inputsOf(res'[j]) = {}
  BY <1>2, Roles DEF IInv
<1>9. \A j \in Reservations : Fresh(coins'[j]) \/ Signed(j)
  OBVIOUS
<1>10. \A j \in Fundings :
         retains_inputs(res'[j]) => \A c \in inputsOf(res'[j]) \cap Reservations : Signed(c)
  BY <1>2, <1>6, Roles DEF IInv
<1> QED
  BY <1>4, <1>5, <1>6, <1>7, <1>8, <1>9, <1>10 DEF IInv

-----------------------------------------------------------------------------
(***************************************************************************)
(* Pages, rescans and the chain.                                           *)
(***************************************************************************)
LOCAL INSTANCE WellFoundedInduction

\* A set of naturals has a least element.
LEMMA NatMin ==
    ASSUME NEW S \in SUBSET Nat, S # {}
    PROVE  \E m \in S : \A n \in S : m <= n
<1> DEFINE R == OpToRel(<, Nat)
<1>1. IsWellFoundedOn(R, Nat)
  BY NatLessThanWellFounded DEF OpToRel
<1> HIDE DEF R
<1>2. PICK m \in S : \A n \in S : ~ (<<n, m>> \in R)
  BY <1>1, WFMin
<1>3. \A n \in S : ~ (n < m)
  <2> SUFFICES ASSUME NEW n \in S, n < m PROVE FALSE
    OBVIOUS
  <2>1. <<n, m>> \in Nat \X Nat
    OBVIOUS
  <2>2. <<n, m>> \in R
    BY <2>1 DEF R, OpToRel
  <2> QED BY <1>2, <2>2
<1> QED BY SMT, <1>3

\* The anchor is well defined: the longest prefix that both chains share.
LEMMA AnchorIsCommon ==
    ASSUME Shapes
    PROVE  /\ Anchor \in 0 .. Len(scanned) /\ Anchor <= Len(chain)
           /\ SubSeq(chain, 1, Anchor) = SubSeq(scanned, 1, Anchor)
           /\ \A g \in Anchor + 1 .. Len(scanned) :
                g > Len(chain) \/ SubSeq(chain, 1, g) # SubSeq(scanned, 1, g)
<1>1. Len(chain) \in Nat /\ Len(scanned) \in Nat
  BY SMT DEF Shapes
<1> DEFINE Agree(h) == h <= Len(chain) /\ SubSeq(chain, 1, h) = SubSeq(scanned, 1, h)
           Short == {n \in Nat : n <= Len(scanned) /\ Agree(Len(scanned) - n)}
<1>2. Agree(0)
  BY SMT, <1>1, EmptyCut
<1>3. Len(scanned) \in Short
  <2>1. Len(scanned) - Len(scanned) = 0
    BY SMT, <1>1
  <2> QED BY SMT, <1>1, <1>2, <2>1
<1> HIDE DEF Agree
<1>4. PICK m \in Short : \A n \in Short : m <= n
  BY <1>3, NatMin
<1> DEFINE h == Len(scanned) - m
<1>5. h \in 0 .. Len(scanned) /\ Agree(h)
  BY SMT, <1>1, <1>4
<1>6. \A g \in h + 1 .. Len(scanned) : ~Agree(g)
  <2> SUFFICES ASSUME NEW g \in h + 1 .. Len(scanned), Agree(g) PROVE FALSE
    OBVIOUS
  <2>1. Len(scanned) - (Len(scanned) - g) = g /\ Len(scanned) - g \in Nat
    BY SMT, <1>1, <1>5
  <2>2. Len(scanned) - g \in Short
    BY SMT, <1>1, <2>1
  <2>3. m \in Nat /\ g \in Int
    BY SMT, <1>1, <1>5
  <2>4. m <= Len(scanned) - g
    BY <1>4, <2>2
  <2> QED BY SMT, <1>1, <2>3, <2>4
<1>7. Anchor = CHOOSE a \in 0 .. Len(scanned) :
                  Agree(a) /\ \A g \in a + 1 .. Len(scanned) :
                    g > Len(chain) \/ SubSeq(chain, 1, g) # SubSeq(scanned, 1, g)
  BY DEF Anchor, Agree
<1>8. \A g \in h + 1 .. Len(scanned) :
         g > Len(chain) \/ SubSeq(chain, 1, g) # SubSeq(scanned, 1, g)
  BY SMTT(30), <1>1, <1>5, <1>6 DEF Agree
<1>9. Agree(Anchor) /\ Anchor \in 0 .. Len(scanned)
      /\ \A g \in Anchor + 1 .. Len(scanned) :
           g > Len(chain) \/ SubSeq(chain, 1, g) # SubSeq(scanned, 1, g)
  <2> HIDE DEF h
  <2> QED BY <1>5, <1>7, <1>8
<1> QED BY <1>9 DEF Agree

\* An output whose reservation has signed nothing is in no block and is
\* nobody's input.
LEMMA UnsignedIsUnseen ==
    ASSUME IInv, NEW k \in Reservations, ~Signed(k)
    PROVE  MadeAt(chain, k) = {} /\ UsedAt(chain, k) = {} /\ Holders(res, k) = {}
<1>1. Holders(res, k) = {}
  BY DEF IInv, Holders
<1>2. chain \in Seq(SUBSET Coins)
  BY DEF IInv, Shapes
<1>3. MadeAt(chain, k) = {}
  <2> SUFFICES ASSUME NEW h \in DOMAIN chain, NEW x \in chain[h], k \in Makes(x) PROVE FALSE
    BY DEF MadeAt
  <2>1. x = k
    BY DEF Makes
  <2> QED BY <2>1 DEF IInv
<1>4. UsedAt(chain, k) = {}
  <2> SUFFICES ASSUME NEW h \in DOMAIN chain, NEW x \in chain[h], k \in Uses(x) PROVE FALSE
    BY SMT DEF UsedAt
  <2>1. x \in Coins
    BY SMT, <1>2
  <2>2. x \in Reservations /\ k \in inputsOf(res[x])
    BY <2>1 DEF Uses, Coins
  <2>3. Signed(x)
    BY <2>2 DEF IInv
  <2>4. x \in Fundings
    BY <2>2 DEF IInv, Reservations
  <2>5. retains_inputs(res[x])
    BY <2>2, <2>3 DEF IInv, Composed, Bound, Signed, retains_inputs
  <2> QED BY <2>2, <2>4, <2>5 DEF IInv
<1> QED BY <1>1, <1>3, <1>4

\* A scan page, with or without a rewind, preserves the invariant.
LEMMA PagePreserves ==
    ASSUME IInv, Page
    PROVE  IInv'
<1> DEFINE anchor == Anchor
           past == Rewound(coins, anchor)
           base == PageBase(anchor)
<1>1. /\ coins \in Records /\ chain \in Seq(SUBSET Coins)
      /\ anchor \in Nat /\ Len(chain) \in Nat /\ anchor <= Len(chain)
  BY SMT, AnchorIsCommon DEF IInv, Shapes, Records
<1>2. PICK hi \in PageEnds(anchor) :
         LET page == Scanned(base, anchor, hi)
             next == Restored(res, page)
         IN  /\ PageCommits(base, page, next, anchor, hi)
             /\ coins' = next
             /\ res' = Rebound(res, next)
             /\ scanned' = SubSeq(chain, 1, hi)
             /\ UNCHANGED <<chain, handed>>
  BY DEF Page
<1>3. base \in Records
      /\ \A k \in Reservations : ~Signed(k) => Fresh(base[k])
  <2>1. \A k \in Reservations : ~Signed(k) => Fresh(coins[k]) /\ k \in Coins
    BY Roles DEF IInv
  <2>2. past \in Records /\ \A k \in Reservations : ~Signed(k) => Fresh(past[k])
    BY <1>1, <2>1, RewoundKeeps
  <2>3. base = coins \/ base = Restored(res, past)
    BY DEF PageBase
  <2> HIDE DEF past, base, anchor
  <2>4. Restored(res, past) \in Records
        /\ \A k \in Reservations : ~Signed(k) => Fresh(Restored(res, past)[k])
    BY <2>1, <2>2, UnsignedIsUnseen, RestoredKeeps
  <2> QED BY <1>1, <2>1, <2>3, <2>4
<1> HIDE DEF base, anchor
<1> DEFINE page == Scanned(base, anchor, hi)
           next == Restored(res, page)
<1>4. hi \in Nat /\ hi <= Len(chain)
  BY SMT, <1>1 DEF PageEnds
<1>5. page \in Records /\ \A k \in Reservations : ~Signed(k) => Fresh(page[k])
  <2>1. \A k \in Reservations : ~Signed(k) => /\ k \in Coins /\ Fresh(base[k])
                                               /\ MadeAt(chain, k) = {} /\ UsedAt(chain, k) = {}
    BY <1>3, UnsignedIsUnseen, Roles
  <2>2. /\ page \in Records
        /\ \A c \in Coins :
             Fresh(base[c]) /\ MadeAt(chain, c) = {} /\ UsedAt(chain, c) = {} => page[c] = base[c]
    BY <1>1, <1>3, <1>4, ScannedKeeps
  <2> HIDE DEF page
  <2> QED BY <2>1, <2>2
<1>6. /\ PageCommits(base, page, next, anchor, hi)
      /\ coins' = next /\ res' = Rebound(res, next)
      /\ scanned' = SubSeq(chain, 1, hi) /\ UNCHANGED <<chain, handed>>
  BY <1>2
<1> HIDE DEF page
<1>7. next \in Records /\ \A k \in Reservations : ~Signed(k) => Fresh(next[k])
  BY <1>5, UnsignedIsUnseen, RestoredKeeps, Roles
<1>8. Valid(Rebound(res, next), next)
  BY <1>6 DEF PageCommits
<1> HIDE DEF next
<1>9. scanned' \in Seq(SUBSET Coins)
  <2>1. \A i \in 1 .. hi : chain[i] \in SUBSET Coins
    BY SMT, <1>1, <1>4
  <2>2. SubSeq(chain, 1, hi) \in Seq(SUBSET Coins)
    BY <1>4, <2>1, Cut
  <2> QED BY <1>6, <2>2
<1> QED BY <1>6, <1>7, <1>8, <1>9, CommitPreserves

\* A rescan from genesis preserves the invariant.
LEMMA RescanPreserves ==
    ASSUME IInv, rescan_from_genesis
    PROVE  IInv'
<1> DEFINE past == Rewound(coins, 0)
           next == Restored(res, past)
<1>1. coins \in Records
  BY DEF IInv, Shapes, Records
<1>2. past \in Records /\ \A k \in Reservations : ~Signed(k) => Fresh(past[k])
  BY <1>1, RewoundKeeps, Roles DEF IInv
<1>3. /\ coins' = next /\ res' = Rebound(res, next) /\ scanned' = <<>>
      /\ UNCHANGED <<chain, handed>>
  BY DEF rescan_from_genesis
<1>4. Valid(Rebound(res, next), next)
  BY DEF rescan_from_genesis, RewindCommits
<1> HIDE DEF past
<1>5. next \in Records /\ \A k \in Reservations : ~Signed(k) => Fresh(next[k])
  BY <1>2, UnsignedIsUnseen, RestoredKeeps, Roles
<1> HIDE DEF next
<1>6. scanned' \in Seq(SUBSET Coins)
  BY SMT, <1>3
<1> QED BY <1>3, <1>4, <1>5, <1>6, CommitPreserves

\* A new tip, or a new branch: whatever is in a block has been signed.
LEMMA ChainPreserves ==
    ASSUME IInv, NEW base \in Seq(SUBSET Coins), NEW b \in SUBSET Coins,
           \A h \in DOMAIN base : \A k \in base[h] \cap Reservations : Signed(k),
           \A k \in b \cap Reservations : Signed(k),
           chain' = Append(base, b),
           UNCHANGED <<scanned, coins, res, handed>>
    PROVE  IInv'
<1>1. chain' \in Seq(SUBSET Coins)
  BY SMT
<1>2. \A h \in DOMAIN chain' : \A k \in chain'[h] \cap Reservations : Signed(k)
  BY SMT, Added
<1>3. Shapes'
  BY <1>1 DEF IInv, Shapes
<1>4. \A k \in Reservations : Signed(k)' <=> Signed(k)
  BY DEF Signed
<1>5. RetainedInputsHeld'
  BY DEF IInv, RetainedInputsHeld
<1> QED
  BY <1>2, <1>3, <1>4, <1>5 DEF IInv

\* The node mines ordinary outputs and what was signed.
LEMMA MineableIsSigned ==
    ASSUME NEW base, NEW x \in Mineable(base)
    PROVE  {x} \in SUBSET Coins /\ \A k \in {x} \cap Reservations : Signed(k)
BY DEF Mineable, Signed

\* A block preserves the invariant.
LEMMA BlockPreserves ==
    ASSUME IInv, Block
    PROVE  IInv'
<1>1. PICK x \in Mineable(chain) : chain' = Append(chain, {x})
  BY DEF Block
<1>2. chain \in Seq(SUBSET Coins) /\ UNCHANGED <<scanned, coins, res, handed>>
      /\ \A h \in DOMAIN chain : \A k \in chain[h] \cap Reservations : Signed(k)
  BY DEF Block, IInv, Shapes
<1>3. {x} \in SUBSET Coins /\ \A k \in {x} \cap Reservations : Signed(k)
  BY MineableIsSigned
<1> QED
  BY <1>1, <1>2, <1>3, ChainPreserves

\* A reorganization of the node preserves the invariant.
LEMMA ReorganizePreserves ==
    ASSUME IInv, Reorganize
    PROVE  IInv'
<1>1. PICK h \in 0 .. Len(chain) - 1 :
         LET base == SubSeq(chain, 1, h)
         IN  \E b \in {{}} \cup {{x} : x \in Mineable(base)} : chain' = Append(base, b)
  BY DEF Reorganize
<1> DEFINE base == SubSeq(chain, 1, h)
<1>2. PICK b \in {{}} \cup {{x} : x \in Mineable(base)} : chain' = Append(base, b)
  BY <1>1
<1>3. chain \in Seq(SUBSET Coins) /\ Len(chain) \in Nat /\ UNCHANGED <<scanned, coins, res, handed>>
  BY SMT DEF Reorganize, IInv, Shapes
<1>4. \A i \in 1 .. h : chain[i] \in SUBSET Coins
  BY SMT, <1>3
<1>5. /\ base \in Seq(SUBSET Coins) /\ Len(base) = h
      /\ \A i \in 1 .. h : base[i] = chain[i]
  BY SMT, <1>3, <1>4, Cut
<1> HIDE DEF base
<1>6. \A i \in DOMAIN base : \A k \in base[i] \cap Reservations : Signed(k)
  BY SMT, <1>3, <1>5 DEF IInv
<1>7. b \in SUBSET Coins /\ \A k \in b \cap Reservations : Signed(k)
  BY <1>2, MineableIsSigned
<1> QED
  BY <1>2, <1>3, <1>5, <1>6, <1>7, ChainPreserves

\* Every step preserves the invariant.
LEMMA NextPreserves == IInv /\ [Next]_vars => IInv'
<1> SUFFICES ASSUME IInv, [Next]_vars PROVE IInv'
  OBVIOUS
<1>1. CASE \E k \in Reservations : Command(k)
  BY <1>1, CommandPreserves
<1>2. CASE Page
  BY <1>2, PagePreserves
<1>3. CASE rescan_from_genesis
  BY SMT, <1>3, RescanPreserves
<1>4. CASE Block
  BY SMT, <1>4, BlockPreserves
<1>5. CASE Reorganize
  BY SMT, <1>5, ReorganizePreserves
<1>6. CASE UNCHANGED vars
  <2>1. \A k : Signed(k)' <=> Signed(k)
    BY <1>6 DEF vars, Signed
  <2>2. RetainedInputsHeld'
    BY <1>6 DEF IInv, vars, RetainedInputsHeld
  <2> QED BY <1>6, <2>1, <2>2 DEF IInv, vars, Shapes
<1> QED
  BY <1>1, <1>2, <1>3, <1>4, <1>5, <1>6 DEF Next

\* The inductive invariant holds in every reachable state: records are well
\* formed, handed material is that of the reservation, only signed sessions are
\* in blocks, and retained inputs are held.
THEOREM Invariance == Spec => []IInv
<1> QED BY InitEstablishes, NextPreserves, PTL DEF Spec

\* Whatever the commands, pages, reorganizations and rescans, and for any set
\* of sessions and outputs, chained or not: an input that a reservation retains
\* is unknown, spent, or owned by it and unavailable.
THEOREM RetainedInputsStayHeld == Spec => []RetainedInputsHeld
<1>1. IInv => RetainedInputsHeld
  BY DEF IInv
<1> QED BY <1>1, Invariance, PTL

\* Everything a reservation ever hands out, to any number of callers and
\* through any retries, belongs to one offset, one share and one template.
THEOREM HandoutsAreOneComposition == Spec => []OneComposition
<1>1. IInv => OneComposition
  <2> SUFFICES ASSUME IInv, NEW k \in Reservations
               PROVE  /\ AtMostOne(handed[k].points)
                      /\ AtMostOne({p[2] : p \in handed[k].points} \cup handed[k].components)
                      /\ AtMostOne(handed[k].signed)
    BY DEF OneComposition
  <2>1. Composed(res[k], handed[k])
    BY DEF IInv
  <2>2. handed[k].points \subseteq {<<res[k].share, res[k].offset>>}
        /\ handed[k].signed \subseteq {res[k].template}
    BY <2>1 DEF Composed
  <2>3. {p[2] : p \in handed[k].points} \cup handed[k].components \subseteq {res[k].offset}
    BY SMT, <2>1 DEF Composed
  <2> QED BY <2>2, <2>3 DEF AtMostOne
<1> QED BY <1>1, Invariance, PTL
=============================================================================
