---------------------- MODULE ScriptlessCommitsProofs ----------------------
(***************************************************************************)
(* No commit of the Scriptless handoff is refused, when no reservation     *)
(* selects an output of another one. The record of every output is         *)
(* determined by the blocks the cursor stands on and by the reservations   *)
(* (CInv); rewinding and scanning a page both lead back to such records    *)
(* for the new blocks, and such records satisfy validate: the commit at    *)
(* hand, the next page of any length and a rescan are accepted. CInv is    *)
(* inductive; the lemmas take the operations one by one.                   *)
(***************************************************************************)
EXTENDS ScriptlessReservationsProofs

\* Leaves that name no prover are for Zenon.
USE ZenonT(30)

\* Where the blocks B create c, and where they spend it.
Made(rs, B, c) == {h \in DOMAIN B : c \in B[h] /\ (c \in Inputs \/ rs[c].own)}
Used(rs, B, c) == {h \in DOMAIN B : \E x \in B[h] \cap Reservations : c \in inputsOf(rs[x])}

\* Blocks hold every transaction once, only signed ones, and each after the
\* outputs it spends.
WellFormed(rs, hs, B) ==
    /\ B \in Seq(SUBSET Coins)
    /\ \A g, h \in DOMAIN B : B[g] \cap B[h] # {} => g = h
    /\ \A h \in DOMAIN B : \A x \in B[h] \cap Reservations :
         /\ hs[x].signed # {}
         /\ \A c \in inputsOf(rs[x]) : \E g \in DOMAIN B : g < h /\ c \in B[g]

\* No two reservations retain one input, and inputs are not their outputs.
Exclusive(rs) ==
    /\ \A k \in Reservations : inputsOf(rs[k]) \subseteq Inputs
    /\ \A j, k \in Fundings : \A c \in inputsOf(rs[j]) \cap inputsOf(rs[k]) :
         retains_inputs(rs[j]) /\ retains_inputs(rs[k]) => j = k

Material(rs) ==
    /\ \A k \in Fundings : FundingMaterial(rs[k])
    /\ \A k \in Payouts : PayoutMaterial(rs[k])

Ground(rs, hs) ==
    /\ rs \in [Reservations -> ReservationRecords]
    /\ \A k \in Reservations : Composed(rs[k], hs[k])
    /\ \A k \in Payouts : inputsOf(rs[k]) = {}
    /\ Exclusive(rs)
    /\ Material(rs)

\* A reservation's own output that is still to be mined.
Awaited(rs, c) == c \in Reservations /\ rs[c].own /\ has_prepared_material(rs[c])

\* A record that the blocks creating and spending the output, M and U, the
\* reservations H that retain it and whether it is awaited determine.
Determined(o, M, U, H, awaited) ==
    /\ M = {} => /\ o.found = 0 /\ o.owner = None
                 /\ o.state = IF awaited THEN "PendingIncoming" ELSE "Absent"
    /\ M # {} =>
         /\ o.found \in M
         /\ U # {} => o.state = "Spent" /\ o.owner = None /\ o.spent \in U
         /\ U = {} => IF H = {} THEN o.state = "Confirmed" /\ o.owner = None
                      ELSE o.state = "PendingOutgoing" /\ o.owner \in H

\* The same before the reservations have been given their outputs back.
Nearly(o, M, U, H, awaited) ==
    /\ M = {} => /\ o.found = 0 /\ o.owner = None
                 /\ o.state = "Absent" \/ (o.state = "PendingIncoming" /\ awaited)
    /\ M # {} =>
         /\ o.found \in M
         /\ U # {} => o.state = "Spent" /\ o.owner = None /\ o.spent \in U
         /\ U = {} => o.state = "Confirmed" /\ o.owner \in H \cup {None}

Faithful(rs, B, c, o) ==
    Determined(o, Made(rs, B, c), Used(rs, B, c), Holders(rs, c), Awaited(rs, c))

Rough(rs, B, c, o) ==
    Nearly(o, Made(rs, B, c), Used(rs, B, c), Holders(rs, c), Awaited(rs, c))

CInv ==
    /\ IInv
    /\ Ground(res, handed)
    /\ WellFormed(res, handed, chain)
    /\ WellFormed(res, handed, scanned)
    /\ \A c \in Coins : Faithful(res, scanned, c, coins[c])

-----------------------------------------------------------------------------
(***************************************************************************)
(* Blocks.                                                                 *)
(***************************************************************************)
LEMMA MadeAndUsed ==
    ASSUME NEW B \in Seq(SUBSET Coins), NEW c
    PROVE  MadeAt(B, c) = Made(res, B, c) /\ UsedAt(B, c) = Used(res, B, c)
<1>1. \A h \in DOMAIN B : B[h] \subseteq Coins
  BY SMT
<1>2. \A h \in DOMAIN B : (\E x \in B[h] : c \in Makes(x)) <=> c \in B[h] /\ (c \in Inputs \/ res[c].own)
  BY DEF Makes
<1>3. \A h \in DOMAIN B : (\E x \in B[h] : c \in Uses(x))
                            <=> \E x \in B[h] \cap Reservations : c \in inputsOf(res[x])
  BY <1>1, NamesAssumption DEF Uses, Coins
<1> QED BY <1>2, <1>3 DEF MadeAt, UsedAt, Made, Used

\* The first blocks of a chain.
LEMMA Prefix ==
    ASSUME NEW B \in Seq(SUBSET Coins), NEW n \in 0 .. Len(B)
    PROVE  LET P == SubSeq(B, 1, n)
           IN  /\ P \in Seq(SUBSET Coins) /\ Len(P) = n /\ DOMAIN P = 1 .. n
               /\ \A i \in 1 .. n : P[i] = B[i]
<1>1. \A i \in 1 .. n : B[i] \in SUBSET Coins
  BY SMT
<1>2. n \in Nat /\ 1 \in Nat
  BY SMT
<1>3. /\ SubSeq(B, 1, n) \in Seq(SUBSET Coins)
      /\ Len(SubSeq(B, 1, n)) = IF 1 <= n THEN n - 1 + 1 ELSE 0
      /\ \A i \in 1 .. n - 1 + 1 : SubSeq(B, 1, n)[i] = B[1 + i - 1]
  BY SMT, <1>1, <1>2, Cut
<1> QED BY SMT, <1>3

\* Among the first n blocks an output is made and used where it is on the chain.
LEMMA PrefixMade ==
    ASSUME NEW rs, NEW c, NEW B \in Seq(SUBSET Coins), NEW n \in 0 .. Len(B)
    PROVE  /\ Made(rs, SubSeq(B, 1, n), c) = Made(rs, B, c) \cap (1 .. n)
           /\ Used(rs, SubSeq(B, 1, n), c) = Used(rs, B, c) \cap (1 .. n)
<1> DEFINE P == SubSeq(B, 1, n)
<1>1. DOMAIN P = 1 .. n /\ \A i \in 1 .. n : P[i] = B[i]
  BY Prefix
<1>2. DOMAIN B = 1 .. Len(B) /\ 1 .. n \subseteq DOMAIN B
  BY SMT
<1> HIDE DEF P
<1>3. Made(rs, P, c) = Made(rs, B, c) \cap (1 .. n)
  BY <1>1, <1>2 DEF Made
<1>4. Used(rs, P, c) = Used(rs, B, c) \cap (1 .. n)
  BY <1>1, <1>2 DEF Used
<1> QED BY <1>3, <1>4 DEF P

\* The same of the uses alone.
LEMMA PrefixUsed ==
    ASSUME NEW rs, NEW c, NEW B \in Seq(SUBSET Coins), NEW n \in 0 .. Len(B)
    PROVE  Used(rs, SubSeq(B, 1, n), c) = Used(rs, B, c) \cap (1 .. n)
BY SMTT(30), PrefixMade

\* The first blocks of a well-formed chain are a well-formed chain.
LEMMA PrefixWellFormed ==
    ASSUME NEW rs, NEW hs, NEW B, WellFormed(rs, hs, B), NEW n \in 0 .. Len(B)
    PROVE  WellFormed(rs, hs, SubSeq(B, 1, n))
<1> DEFINE P == SubSeq(B, 1, n)
<1>1. B \in Seq(SUBSET Coins) /\ DOMAIN B = 1 .. Len(B)
  BY SMT DEF WellFormed
<1>2. P \in Seq(SUBSET Coins) /\ DOMAIN P = 1 .. n /\ \A i \in 1 .. n : P[i] = B[i]
  BY <1>1, Prefix
<1>3. 1 .. n \subseteq DOMAIN B
  BY SMT, <1>1
<1> HIDE DEF P
<1>4. \A g, h \in DOMAIN P : P[g] \cap P[h] # {} => g = h
  BY <1>2, <1>3 DEF WellFormed
<1>5. \A h \in DOMAIN P : \A x \in P[h] \cap Reservations :
         /\ hs[x].signed # {}
         /\ \A c \in inputsOf(rs[x]) : \E g \in DOMAIN P : g < h /\ c \in P[g]
  <2> SUFFICES ASSUME NEW h \in DOMAIN P, NEW x \in P[h] \cap Reservations
               PROVE  /\ hs[x].signed # {}
                      /\ \A c \in inputsOf(rs[x]) : \E g \in DOMAIN P : g < h /\ c \in P[g]
    OBVIOUS
  <2>1. h \in DOMAIN B /\ x \in B[h] \cap Reservations
    BY <1>2, <1>3
  <2>2. /\ hs[x].signed # {}
        /\ \A c \in inputsOf(rs[x]) : \E g \in DOMAIN B : g < h /\ c \in B[g]
    BY <2>1 DEF WellFormed
  <2>3. \A g \in DOMAIN B : g < h => g \in DOMAIN P /\ P[g] = B[g]
    BY SMT, <1>1, <1>2
  <2> QED BY <2>2, <2>3
<1> QED BY <1>2, <1>4, <1>5 DEF WellFormed, P

\* Each output is created once and spent once, after it was created, by a
\* reservation that retains it.
LEMMA BlockFacts ==
    ASSUME NEW rs, NEW hs, NEW B, Ground(rs, hs), WellFormed(rs, hs, B), NEW c \in Coins
    PROVE  /\ Made(rs, B, c) \subseteq Nat \ {0} /\ Used(rs, B, c) \subseteq Nat \ {0}
           /\ \A g, h \in Made(rs, B, c) : g = h
           /\ \A g, h \in Used(rs, B, c) : g = h
           /\ \A h \in Used(rs, B, c) : \E g \in Made(rs, B, c) : g < h
           /\ Used(rs, B, c) # {} => Holders(rs, c) # {}
           /\ Holders(rs, c) # {} => c \in Inputs
           /\ Awaited(rs, c) => Holders(rs, c) = {}
           /\ c \in Reservations /\ Made(rs, B, c) # {} => Awaited(rs, c)
           /\ \A j, k \in Holders(rs, c) : j = k
<1>1. B \in Seq(SUBSET Coins) /\ DOMAIN B \subseteq Nat \ {0}
  BY SMT DEF WellFormed
<1>2. Made(rs, B, c) \subseteq Nat \ {0} /\ Used(rs, B, c) \subseteq Nat \ {0}
  BY <1>1 DEF Made, Used
<1>3. \A g, h \in Made(rs, B, c) : g = h
  BY DEF Made, WellFormed
<1>4. ASSUME NEW h \in DOMAIN B, NEW x \in B[h] \cap Reservations, NEW d \in inputsOf(rs[x])
      PROVE  x \in Holders(rs, d) /\ d \in Inputs
  <2>1. rs[x].state \in Bound
    BY DEF WellFormed, Ground, Composed
  <2>2. retains_inputs(rs[x])
    BY <2>1 DEF retains_inputs, Bound
  <2>3. x \in Fundings
    BY DEF Ground, Reservations
  <2> QED BY <2>2, <2>3 DEF Holders, Ground, Exclusive
<1>5. \A j, k \in Holders(rs, c) : j = k
  BY DEF Holders, Ground, Exclusive
<1>6. \A g, h \in Used(rs, B, c) : g = h
  <2> SUFFICES ASSUME NEW g \in Used(rs, B, c), NEW h \in Used(rs, B, c) PROVE g = h
    OBVIOUS
  <2>1. PICK x \in B[g] \cap Reservations : c \in inputsOf(rs[x])
    BY DEF Used
  <2>2. PICK y \in B[h] \cap Reservations : c \in inputsOf(rs[y])
    BY DEF Used
  <2>3. g \in DOMAIN B /\ h \in DOMAIN B
    BY DEF Used
  <2>4. x = y
    BY <1>4, <1>5, <2>1, <2>2, <2>3
  <2> QED BY <2>3, <2>4, <2>1, <2>2 DEF WellFormed
<1>7. \A h \in Used(rs, B, c) : \E g \in Made(rs, B, c) : g < h
  <2> SUFFICES ASSUME NEW h \in Used(rs, B, c) PROVE \E g \in Made(rs, B, c) : g < h
    OBVIOUS
  <2>1. PICK x \in B[h] \cap Reservations : c \in inputsOf(rs[x])
    BY DEF Used
  <2>2. h \in DOMAIN B
    BY DEF Used
  <2>3. PICK g \in DOMAIN B : g < h /\ c \in B[g]
    BY <2>1, <2>2 DEF WellFormed
  <2>4. c \in Inputs
    BY <1>4, <2>1, <2>2
  <2> QED BY <2>3, <2>4 DEF Made
<1>8. Used(rs, B, c) # {} => Holders(rs, c) # {}
  BY <1>4 DEF Used
<1>9. Holders(rs, c) # {} => c \in Inputs
  BY Roles DEF Holders, Ground, Exclusive
<1>10. Awaited(rs, c) => Holders(rs, c) = {}
  BY <1>9, NamesAssumption DEF Awaited
<1>11. c \in Reservations /\ Made(rs, B, c) # {} => Awaited(rs, c)
  <2> SUFFICES ASSUME c \in Reservations, NEW h \in Made(rs, B, c) PROVE Awaited(rs, c)
    OBVIOUS
  <2>1. h \in DOMAIN B /\ c \in B[h] /\ rs[c].own
    BY NamesAssumption DEF Made
  <2>2. rs[c].state \in Bound
    BY <2>1 DEF WellFormed, Ground, Composed
  <2> QED BY <2>1, <2>2 DEF Awaited, has_prepared_material, Bound
<1> QED BY <1>2, <1>3, <1>5, <1>6, <1>7, <1>8, <1>9, <1>10, <1>11

-----------------------------------------------------------------------------
(***************************************************************************)
(* One record: rewinding, scanning, restoring.                             *)
(***************************************************************************)
\* What is known of the blocks that create and spend one output.
Heights(M, U) ==
    /\ M \in SUBSET (Nat \ {0}) /\ U \in SUBSET (Nat \ {0})
    /\ \A g, h \in M : g = h
    /\ \A g, h \in U : g = h
    /\ \A h \in U : \E g \in M : g < h

\* A rewind leaves of a record what the remaining blocks say, up to the
\* reservations that the restoration adds.
LEMMA RewoundRecord ==
    ASSUME NEW cs \in Records, NEW c \in Coins, NEW n \in Nat,
           NEW M, NEW U, NEW H, NEW awaited \in BOOLEAN, Heights(M, U),
           U # {} => H # {}, awaited => H = {}, M # {} /\ H # {} => ~awaited,
           Determined(cs[c], M, U, H, awaited)
    PROVE  Nearly(Rewound(cs, n)[c], M \cap (1 .. n), U \cap (1 .. n), H, awaited)
<1> DEFINE o == cs[c]
           past == [d \in Coins |->
            IF cs[d].found > n THEN Absent(cs[d].id)
            ELSE IF cs[d].state = "Spent" /\ cs[d].spent > n
            THEN [cs[d] EXCEPT !.state = "Confirmed", !.spent = 0]
            ELSE cs[d]]
           MP == M \cap (1 .. n)
           UP == U \cap (1 .. n)
           q == Rewound(cs, n)[c]
<1> SUFFICES Nearly(q, MP, UP, H, awaited)
  OBVIOUS
<1>1. /\ o \in CoinRecords /\ o.found \in Nat /\ o.spent \in Nat /\ o.id \in {0, 1}
      /\ o.state \in CoinStates
  BY DEF Records, CoinRecords
<1>2. q = IF past[c].found > 0 /\ past[c].state # "Spent"
          THEN [past[c] EXCEPT !.state = "Confirmed"] ELSE past[c]
  BY DEF Rewound, refresh_maturity
<1>3. CASE o.found > n
  <2>1. past[c] = Absent(o.id)
    BY <1>3
  <2>2. q = Absent(o.id)
    <3>1. Absent(o.id).found = 0
      BY <1>1, AbsentIsFresh DEF Fresh
    <3> HIDE DEF past, q
    <3> QED BY SMT, <1>2, <2>1, <3>1
  <2>3. MP = {}
    BY SMT, <1>1, <1>3 DEF Determined, Heights
  <2> QED BY <1>1, <2>2, <2>3, AbsentIsFresh DEF Nearly, Fresh
<1>4. CASE ~(o.found > n) /\ o.state = "Spent" /\ o.spent > n
  <2> DEFINE p == [o EXCEPT !.state = "Confirmed", !.spent = 0]
  <2>1. past[c] = p
    BY <1>4
  <2>2. p \in CoinRecords /\ p.state = "Confirmed" /\ p.owner = o.owner /\ p.found = o.found
    BY <1>1 DEF CoinRecords, CoinStates
  <2>3. M # {} /\ U # {} /\ o.found \in M /\ o.owner = None /\ o.spent \in U
    BY <1>4, <1>1 DEF Determined
  <2>4. o.found > 0 /\ o.found \in MP /\ UP = {}
    BY SMT, <1>1, <1>4, <2>3 DEF Heights
  <2> HIDE DEF p
  <2>5. q = [p EXCEPT !.state = "Confirmed"]
    BY <1>2, <2>1, <2>2, <2>4
  <2>6. q.state = "Confirmed" /\ q.owner = None /\ q.found = o.found
    BY <2>2, <2>3, <2>5 DEF CoinRecords
  <2> HIDE DEF q
  <2> QED BY <2>4, <2>6 DEF Nearly
<1>5. CASE ~(o.found > n) /\ ~(o.state = "Spent" /\ o.spent > n)
  <2>1. past[c] = o
    BY <1>5
  <2>2. CASE M = {}
    <3>1. q = o
      BY SMT, <2>1, <2>2, <1>1, <1>2 DEF Determined
    <3>2. MP = {}
      BY <2>2
    <3> QED BY <2>2, <3>1, <3>2 DEF Determined, Nearly
  <2>3. CASE M # {} /\ U # {}
    <3>1. q = o
      BY <2>1, <2>3, <1>2 DEF Determined
    <3>2. o.found \in MP /\ o.spent \in UP
      BY SMT, <2>3, <1>1, <1>5 DEF Determined, Heights
    <3> QED BY <2>3, <3>1, <3>2 DEF Determined, Nearly
  <2>4. CASE M # {} /\ U = {}
    <3>1. o.found \in M /\ o.found > 0 /\ o.state # "Spent" /\ o.owner \in H \cup {None}
      BY SMT, <2>4, <1>1 DEF Determined, Heights
    <3>2. o.found \in MP /\ UP = {}
      BY SMT, <3>1, <2>4, <1>1, <1>5
    <3>3. q = [o EXCEPT !.state = "Confirmed"]
      BY <3>1, <2>1, <1>2
    <3>4. q.state = "Confirmed" /\ q.owner = o.owner /\ q.found = o.found
      BY <3>3, <1>1 DEF CoinRecords
    <3> HIDE DEF q
    <3> QED BY <3>1, <3>2, <3>4 DEF Nearly
  <2> QED BY <2>2, <2>3, <2>4
<1> QED BY <1>3, <1>4, <1>5

\* merge_restored_output, the spends of the page and refresh_maturity.
LEMMA ScannedRecord ==
    ASSUME NEW cs \in Records, NEW c \in Coins, NEW lo \in Nat, NEW hi \in Nat, lo <= hi,
           NEW M, NEW U, NEW H, NEW awaited \in BOOLEAN, Heights(M, U),
           M = MadeAt(chain, c), U = UsedAt(chain, c),
           Determined(cs[c], M \cap (1 .. lo), U \cap (1 .. lo), H, awaited)
    PROVE  /\ Nearly(Scanned(cs, lo, hi)[c], M \cap (1 .. hi), U \cap (1 .. hi), H, awaited)
           /\ ~MergeConflict(cs[c], PageMade(lo, hi, c))
           /\ ~(/\ PageUsed(lo, hi, c) # {}
                /\ cs[c].state = "Spent"
                /\ cs[c].spent \notin PageUsed(lo, hi, c))
<1> DEFINE o == cs[c]
           PM == M \cap (lo + 1 .. hi)
           PU == U \cap (lo + 1 .. hi)
           ML == M \cap (1 .. lo)
           UL == U \cap (1 .. lo)
           MH == M \cap (1 .. hi)
           UH == U \cap (1 .. hi)
           m == merge_restored_output(o, PM)
           p == SpentBy(m, PU)
           q == Scanned(cs, lo, hi)[c]
<1>1. /\ o \in CoinRecords /\ o.found \in Nat /\ o.spent \in Nat /\ o.id \in {0, 1}
      /\ o.state \in CoinStates
  BY DEF Records, CoinRecords
<1>2. PageMade(lo, hi, c) = PM /\ PageUsed(lo, hi, c) = PU
  BY DEF PageMade, PageUsed
<1>3. q = IF p.found > 0 /\ p.state # "Spent" THEN [p EXCEPT !.state = "Confirmed"] ELSE p
  BY <1>2 DEF Scanned, refresh_maturity
<1>4. /\ MH = ML \cup PM /\ UH = UL \cup PU
      /\ ML # {} => PM = {} /\ 0 \notin ML
      /\ UL # {} => PU = {}
      /\ 0 \notin PM /\ PM \subseteq Nat /\ PU \subseteq Nat
      /\ UL # {} => ML # {}
      /\ UH # {} => MH # {}
      /\ 0 \notin ML
  <2>1. MH = ML \cup PM /\ UH = UL \cup PU
    BY SMT DEF Heights
  <2>2. (ML # {} => PM = {}) /\ (UL # {} => PU = {}) /\ 0 \notin ML /\ 0 \notin PM
    BY SMT DEF Heights
  <2>3. (UL # {} => ML # {}) /\ (UH # {} => MH # {})
    BY SMT DEF Heights
  <2> QED BY <2>1, <2>2, <2>3 DEF Heights
<1> HIDE DEF PM, PU, ML, UL, MH, UH
<1>5. Determined(o, ML, UL, H, awaited)
  BY DEF ML, UL
<1>6. ~MergeConflict(o, PM)
  <2>1. CASE ML # {}
    BY <2>1, <1>4 DEF MergeConflict
  <2>2. CASE ML = {}
    <3>1. o.found = 0 /\ o.owner = None /\ o.state \in {"PendingIncoming", "Absent"}
      BY <2>2, <1>5 DEF Determined
    <3> QED BY SMT, <3>1 DEF MergeConflict
  <2> QED BY <2>1, <2>2
<1>7. ~(PU # {} /\ o.state = "Spent" /\ o.spent \notin PU)
  BY <1>4, <1>5 DEF Determined
<1>8. m \in CoinRecords /\ (PM = {} => m = o) /\ p \in CoinRecords /\ (PU = {} => p = m)
  BY <1>1, <1>4, MergeKeeps, SpentKeeps
<1>9. (PM # {} /\ o.found = 0) => m.state = "Confirmed" /\ m.found \in PM /\ m.owner = o.owner
  <2> DEFINE h == CHOOSE g \in PM : TRUE
             id == IF o.state = "Absent" THEN 1 - o.id ELSE o.id
  <2>1. PM # {} => h \in PM
    OBVIOUS
  <2> HIDE DEF h, id
  <2>2. PM # {} /\ o.found = 0 => m = [o EXCEPT !.state = "Confirmed", !.found = h, !.id = id]
    BY SMT, <1>1 DEF merge_restored_output, h, id
  <2> HIDE DEF m
  <2> QED BY <2>1, <2>2, <1>1 DEF CoinRecords
<1>10. (PU # {} /\ m.state # "Absent") =>
          p.state = "Spent" /\ p.owner = None /\ p.spent \in PU /\ p.found = m.found
  <2> DEFINE h == CHOOSE g \in PU : TRUE
  <2>1. PU # {} => h \in PU
    BY SMT
  <2> HIDE DEF h
  <2>2. PU # {} /\ m.state # "Absent" =>
           p = [m EXCEPT !.state = "Spent", !.owner = None, !.spent = h]
    BY DEF SpentBy, h
  <2> HIDE DEF p, m
  <2> QED BY <2>1, <2>2, <1>8 DEF CoinRecords
<1> HIDE DEF m, p, q
<1>11. (p.found > 0 /\ p.state # "Spent") =>
          q.state = "Confirmed" /\ q.owner = p.owner /\ q.found = p.found
  BY <1>3, <1>8 DEF CoinRecords
<1>12. ~(p.found > 0 /\ p.state # "Spent") => q = p
  BY <1>3
<1>13. Nearly(q, MH, UH, H, awaited)
  <2>1. CASE ML # {}
    <3>1. m = o /\ o.found \in ML /\ o.found > 0 /\ MH = ML
      <4>1. m = o /\ MH = ML
        BY <2>1, <1>4, <1>8
      <4>2. o.found \in ML /\ o.found # 0
        BY <2>1, <1>4, <1>5 DEF Determined
      <4> QED BY SMT, <1>1, <4>1, <4>2
    <3>2. CASE UL # {}
      <4>1. p = o /\ o.state = "Spent" /\ o.owner = None /\ o.spent \in UL /\ UH = UL
        BY <2>1, <3>1, <3>2, <1>4, <1>5, <1>8 DEF Determined
      <4> QED BY <2>1, <3>1, <4>1, <1>12 DEF Nearly
    <3>3. CASE UL = {} /\ PU # {}
      <4>1. o.state # "Absent"
        BY <2>1, <3>3, <1>5 DEF Determined
      <4>2. p.state = "Spent" /\ p.owner = None /\ p.spent \in PU /\ p.found = o.found /\ UH = PU
        BY <3>1, <3>3, <4>1, <1>4, <1>10
      <4> QED BY <2>1, <3>1, <3>3, <4>2, <1>12 DEF Nearly
    <3>4. CASE UL = {} /\ PU = {}
      <4>1. p = o /\ UH = {} /\ o.state # "Spent" /\ o.owner \in H \cup {None}
        BY <2>1, <3>1, <3>4, <1>4, <1>5, <1>8 DEF Determined
      <4> QED BY <2>1, <3>1, <4>1, <1>11 DEF Nearly
    <3> QED BY <3>2, <3>3, <3>4
  <2>2. CASE ML = {} /\ PM = {}
    <3>1. MH = {} /\ UH = {} /\ PU = {} /\ p = o
      BY <2>2, <1>4, <1>8
    <3>2. o.found = 0 /\ q = o
      BY SMT, <2>2, <3>1, <1>5, <1>12 DEF Determined
    <3> QED BY <2>2, <3>1, <3>2, <1>5 DEF Determined, Nearly
  <2>3. CASE ML = {} /\ PM # {}
    <3>1. /\ UL = {} /\ MH = PM /\ UH = PU
          /\ m.state = "Confirmed" /\ m.found \in PM /\ m.owner = None
      BY <2>3, <1>4, <1>5, <1>9 DEF Determined
    <3>2. CASE PU # {}
      <4>1. p.state = "Spent" /\ p.owner = None /\ p.spent \in PU /\ p.found = m.found
        BY <3>1, <3>2, <1>10
      <4> QED BY <2>3, <3>1, <3>2, <4>1, <1>12 DEF Nearly
    <3>3. CASE PU = {}
      <4>1. p = m
        BY <3>3, <1>8
      <4>2. p.found > 0 /\ p.state # "Spent"
        <5>1. p.found \in Nat /\ p.found # 0 /\ p.state = "Confirmed"
          BY <3>1, <4>1, <1>4
        <5> QED BY SMT, <5>1
      <4> QED BY <2>3, <3>1, <3>3, <4>1, <4>2, <1>11 DEF Nearly
    <3> QED BY <3>2, <3>3
  <2> QED BY <2>1, <2>2, <2>3
<1> QED BY <1>2, <1>6, <1>7, <1>13 DEF MH, UH, q

\* restore_scriptless_funding_reservations and then the payouts'.
LEMMA RestoredRecord ==
    ASSUME NEW rs, NEW cs \in Records, NEW c \in Coins, NEW M, NEW U, Heights(M, U),
           Nearly(cs[c], M, U, Holders(rs, c), Awaited(rs, c)),
           Awaited(rs, c) => Holders(rs, c) = {},
           U # {} => Holders(rs, c) # {}
    PROVE  Determined(Restored(rs, cs)[c], M, U, Holders(rs, c), Awaited(rs, c))
<1> DEFINE o == cs[c]
           H == Holders(rs, c)
           awaited == Awaited(rs, c)
           made == Recreated(cs, rs, Fundings)
           t == Taken(rs, c, made[c])
           given == restore_scriptless_funding_reservations(rs, cs)
           q == Restored(rs, cs)[c]
<1>1. o \in CoinRecords /\ o.id \in {0, 1}
  BY DEF Records, CoinRecords
<1>2. given = [d \in Coins |-> Taken(rs, d, made[d])]
  BY DEF restore_scriptless_funding_reservations
<1>3. given[c] = t
  BY <1>2
<1>4. made[c] = IF c \in Fundings /\ awaited /\ o.state = "Absent" THEN Pending(o.id) ELSE o
  BY Roles DEF Recreated, Awaited
<1>5. q = IF c \in Payouts /\ awaited /\ t.state = "Absent" THEN Pending(t.id) ELSE t
  BY <1>3, Roles DEF Restored, restore_scriptless_payout_reservations, Recreated, Awaited
<1>6. made[c] \in CoinRecords
  BY <1>1, <1>4, AbsentIsFresh
<1>7. t \in CoinRecords /\ t.id \in {0, 1} /\ (H = {} => t = made[c])
  <2>1. t \in CoinRecords /\ (H = {} => t = made[c])
    BY <1>6, TakenKeeps
  <2> HIDE DEF t
  <2> QED BY <2>1 DEF CoinRecords
<1>8. Pending(o.id).state = "PendingIncoming" /\ Pending(o.id).owner = None /\ Pending(o.id).found = 0
  BY <1>1, AbsentIsFresh DEF Fresh
<1>9. awaited \in BOOLEAN /\ (awaited => c \in Fundings \/ c \in Payouts)
  BY DEF Awaited, Reservations
<1>10. awaited => H = {}
  OBVIOUS
<1>11. Nearly(o, M, U, H, awaited)
  OBVIOUS
<1>12. H # {} /\ made[c].state \notin {"Absent", "Spent"} =>
          t.state = "PendingOutgoing" /\ t.owner \in H /\ t.found = made[c].found
  <2> DEFINE holders == {k \in H : Finds(rs[k], c, made[c])}
             k == CHOOSE j \in holders : TRUE
  <2> SUFFICES ASSUME H # {}, made[c].state \notin {"Absent", "Spent"}
               PROVE  t.state = "PendingOutgoing" /\ t.owner \in H /\ t.found = made[c].found
    OBVIOUS
  <2>1. holders = H
    BY DEF Finds
  <2>2. k \in H
    BY <2>1
  <2>3. t = [made[c] EXCEPT !.owner = k, !.state = "PendingOutgoing"]
    BY <2>1 DEF Taken
  <2> HIDE DEF k, t, made
  <2> QED BY <2>2, <2>3, <1>6 DEF CoinRecords
<1>13. made[c].state \in {"Absent", "Spent"} => t = made[c]
  BY DEF Taken, Finds
<1> HIDE DEF o, H, awaited, made, t, given, q
<1>14. Determined(q, M, U, H, awaited)
  <2>1. CASE M = {} /\ awaited
    <3>1. t = made[c]
      BY <2>1, <1>7, <1>10
    <3>2. CASE o.state = "Absent"
      <4>1. c \in Fundings => q = Pending(o.id)
        BY <2>1, <3>1, <3>2, <1>4, <1>5, <1>8
      <4>2. c \notin Fundings => q = Pending(o.id)
        BY <2>1, <3>1, <3>2, <1>4, <1>5, <1>9
      <4> QED BY <2>1, <4>1, <4>2, <1>8 DEF Determined
    <3>3. CASE o.state # "Absent"
      <4>1. q = o
        BY <3>1, <3>3, <1>4, <1>5
      <4> QED BY <2>1, <3>3, <4>1, <1>11 DEF Determined, Nearly
    <3> QED BY <3>2, <3>3
  <2>2. CASE M = {} /\ ~awaited
    <3>1. made[c] = o /\ o.state = "Absent"
      BY <2>2, <1>4, <1>11 DEF Nearly
    <3>2. q = o
      BY <2>2, <3>1, <1>5, <1>13
    <3> QED BY <2>2, <3>1, <3>2, <1>11 DEF Determined, Nearly
  <2>3. CASE M # {} /\ U # {}
    <3>1. made[c] = o /\ o.state = "Spent"
      BY <2>3, <1>4, <1>11 DEF Nearly
    <3>2. q = o
      BY <3>1, <1>5, <1>13
    <3> QED BY <2>3, <3>1, <3>2, <1>11 DEF Determined, Nearly
  <2>4. CASE M # {} /\ U = {}
    <3>1. made[c] = o /\ o.state = "Confirmed" /\ o.found \in M /\ o.owner \in H \cup {None}
      BY <2>4, <1>4, <1>11 DEF Nearly
    <3>2. CASE H = {}
      <4>1. q = o
        BY <3>1, <3>2, <1>5, <1>7
      <4> QED BY <2>4, <3>1, <3>2, <4>1 DEF Determined
    <3>3. CASE H # {}
      <4>1. t.state = "PendingOutgoing" /\ t.owner \in H /\ t.found = o.found
        BY <3>1, <3>3, <1>12
      <4>2. q = t
        BY <4>1, <1>5
      <4> QED BY <2>4, <3>1, <3>3, <4>1, <4>2 DEF Determined
    <3> QED BY <3>2, <3>3
  <2> QED BY <2>1, <2>2, <2>3, <2>4, <1>9
<1> QED BY <1>14 DEF H, awaited, q

-----------------------------------------------------------------------------
(***************************************************************************)
(* All records.                                                            *)
(***************************************************************************)
LEMMA RewindIsRough ==
    ASSUME NEW rs, NEW hs, NEW B, Ground(rs, hs), WellFormed(rs, hs, B),
           NEW cs \in Records, \A c \in Coins : Faithful(rs, B, c, cs[c]), NEW n \in 0 .. Len(B)
    PROVE  \A c \in Coins : Rough(rs, SubSeq(B, 1, n), c, Rewound(cs, n)[c])
<1> SUFFICES ASSUME NEW c \in Coins
             PROVE  Rough(rs, SubSeq(B, 1, n), c, Rewound(cs, n)[c])
  OBVIOUS
<1> DEFINE M == Made(rs, B, c)
           U == Used(rs, B, c)
           H == Holders(rs, c)
           awaited == Awaited(rs, c)
<1>1. B \in Seq(SUBSET Coins)
  BY DEF WellFormed
<1>2. n \in Nat
  BY SMT, <1>1
<1>3. Heights(M, U) /\ (U # {} => H # {}) /\ (awaited => H = {})
  BY BlockFacts DEF Heights
<1>4. Determined(cs[c], M, U, H, awaited)
  BY DEF Faithful
<1>5. awaited \in BOOLEAN
  BY DEF Awaited
<1>6. /\ Made(rs, SubSeq(B, 1, n), c) = M \cap (1 .. n)
      /\ Used(rs, SubSeq(B, 1, n), c) = U \cap (1 .. n)
  BY SMT, <1>1, PrefixMade
<1> HIDE DEF M, U, H, awaited
<1>7. Nearly(Rewound(cs, n)[c], M \cap (1 .. n), U \cap (1 .. n), H, awaited)
  BY <1>2, <1>3, <1>4, <1>5, RewoundRecord
<1> QED BY <1>6, <1>7 DEF Rough, H, awaited

\* After a rewind or a page the restoration meets no conflict and makes every
\* record what the blocks and the reservations say.
LEMMA RestoreIsFaithful ==
    ASSUME NEW rs, NEW hs, NEW B, Ground(rs, hs), WellFormed(rs, hs, B),
           NEW cs \in Records, \A c \in Coins : Rough(rs, B, c, cs[c])
    PROVE  /\ \A c \in Coins : Faithful(rs, B, c, Restored(rs, cs)[c])
           /\ ~RestoreConflict(rs, cs)
<1>1. ASSUME NEW c \in Coins PROVE Faithful(rs, B, c, Restored(rs, cs)[c])
  <2> DEFINE M == Made(rs, B, c)
             U == Used(rs, B, c)
  <2>1. /\ Heights(M, U) /\ (U # {} => Holders(rs, c) # {})
        /\ (Awaited(rs, c) => Holders(rs, c) = {})
    BY BlockFacts DEF Heights
  <2>2. Nearly(cs[c], M, U, Holders(rs, c), Awaited(rs, c))
    BY DEF Rough
  <2> HIDE DEF M, U
  <2>3. Determined(Restored(rs, cs)[c], M, U, Holders(rs, c), Awaited(rs, c))
    BY <2>1, <2>2, RestoredRecord
  <2> QED BY <2>3 DEF Faithful, M, U
<1>2. ~RestoreConflict(rs, cs)
  <2> SUFFICES ASSUME NEW c \in Coins, cs[c].state \notin {"Absent", "Spent"},
                      NEW k \in Holders(rs, c), cs[c].owner \notin {None, k}
               PROVE  FALSE
    BY DEF RestoreConflict
  <2>1. cs[c].owner \in Holders(rs, c) \cup {None}
    BY DEF Rough, Nearly
  <2>2. \A j \in Holders(rs, c) : j = k
    BY BlockFacts
  <2> QED BY <2>1, <2>2
<1> QED BY <1>1, <1>2

\* A page meets no conflicting output.
LEMMA ScanIsRough ==
    ASSUME Ground(res, handed), WellFormed(res, handed, chain), NEW base \in Records,
           NEW lo \in 0 .. Len(chain), NEW hi \in lo .. Len(chain),
           \A c \in Coins : Faithful(res, SubSeq(chain, 1, lo), c, base[c])
    PROVE  /\ \A c \in Coins : Rough(res, SubSeq(chain, 1, hi), c, Scanned(base, lo, hi)[c])
           /\ ~ScanConflict(base, lo, hi)
<1>1. chain \in Seq(SUBSET Coins)
  BY DEF WellFormed
<1>2. lo \in Nat /\ hi \in Nat /\ lo <= hi /\ hi \in 0 .. Len(chain)
  BY SMT, <1>1
<1>3. ASSUME NEW c \in Coins
      PROVE  /\ Rough(res, SubSeq(chain, 1, hi), c, Scanned(base, lo, hi)[c])
             /\ ~MergeConflict(base[c], PageMade(lo, hi, c))
             /\ ~(/\ PageUsed(lo, hi, c) # {}
                  /\ base[c].state = "Spent"
                  /\ base[c].spent \notin PageUsed(lo, hi, c))
  <2> DEFINE M == Made(res, chain, c)
             U == Used(res, chain, c)
             H == Holders(res, c)
             awaited == Awaited(res, c)
  <2>1. Heights(M, U) /\ M = MadeAt(chain, c) /\ U = UsedAt(chain, c)
    BY <1>1, BlockFacts, MadeAndUsed DEF Heights
  <2>2. awaited \in BOOLEAN
    BY DEF Awaited
  <2>3. /\ Made(res, SubSeq(chain, 1, lo), c) = M \cap (1 .. lo)
        /\ Used(res, SubSeq(chain, 1, lo), c) = U \cap (1 .. lo)
        /\ Made(res, SubSeq(chain, 1, hi), c) = M \cap (1 .. hi)
        /\ Used(res, SubSeq(chain, 1, hi), c) = U \cap (1 .. hi)
    <3>1. ASSUME NEW n \in 0 .. Len(chain)
          PROVE  Made(res, SubSeq(chain, 1, n), c) = M \cap (1 .. n)
      BY SMT, <1>1, <3>1, PrefixMade
    <3>2. ASSUME NEW n \in 0 .. Len(chain)
          PROVE  Used(res, SubSeq(chain, 1, n), c) = U \cap (1 .. n)
      BY SMT, <1>1, <3>2, PrefixUsed
    <3> HIDE DEF M, U
    <3> QED BY <3>1, <3>2, <1>2
  <2>4. Determined(base[c], M \cap (1 .. lo), U \cap (1 .. lo), H, awaited)
    BY <2>3 DEF Faithful
  <2> HIDE DEF M, U, H, awaited
  <2>5. /\ Nearly(Scanned(base, lo, hi)[c], M \cap (1 .. hi), U \cap (1 .. hi), H, awaited)
        /\ ~MergeConflict(base[c], PageMade(lo, hi, c))
        /\ ~(/\ PageUsed(lo, hi, c) # {}
             /\ base[c].state = "Spent"
             /\ base[c].spent \notin PageUsed(lo, hi, c))
    BY <1>2, <2>1, <2>2, <2>4, ScannedRecord
  <2> QED BY <2>3, <2>5 DEF Rough, H, awaited
<1> QED BY <1>3 DEF ScanConflict

\* Records that the blocks and the reservations determine satisfy validate.
LEMMA FaithfulIsValid ==
    ASSUME NEW rs, NEW hs, NEW B, Ground(rs, hs), WellFormed(rs, hs, B),
           NEW cs \in Records, \A c \in Coins : Faithful(rs, B, c, cs[c])
    PROVE  Valid(rs, cs)
<1>1. \A c \in Coins : cs[c].owner \in Holders(rs, c) \cup {None}
  BY DEF Faithful, Determined
<1>2. \A c \in Coins : Holders(rs, c) # {} =>
        \/ cs[c].state = "Absent"
        \/ cs[c].state = "Spent" /\ cs[c].owner = None
        \/ cs[c].state = "PendingOutgoing" /\ cs[c].owner \in Holders(rs, c)
  BY BlockFacts DEF Faithful, Determined
<1>3. \A k \in Reservations : rs[k].own =>
        (has_prepared_material(rs[k]) <=> cs[k].state # "Absent")
  <2> SUFFICES ASSUME NEW k \in Reservations, rs[k].own
               PROVE  has_prepared_material(rs[k]) <=> cs[k].state # "Absent"
    OBVIOUS
  <2>1. Made(rs, B, k) # {} => Awaited(rs, k)
    BY BlockFacts, Roles
  <2>2. Awaited(rs, k) <=> has_prepared_material(rs[k])
    BY DEF Awaited
  <2> QED BY <2>1, <2>2, Roles DEF Faithful, Determined
<1>4. \A k \in Fundings : FundingMaterial(rs[k])
  BY DEF Ground, Material
<1>5. \A k \in Payouts : PayoutMaterial(rs[k]) /\ PayoutRecorded(rs, cs, k)
  BY <1>3, Roles DEF Ground, Material, PayoutRecorded
<1>6. \A k \in Fundings : ChangeRecorded(rs, cs, k)
  BY <1>3, Roles DEF ChangeRecorded, has_prepared_material
<1>7. \A k \in Fundings : InputsBound(rs, cs, k)
  <2> SUFFICES ASSUME NEW k \in Fundings, NEW c \in inputsOf(rs[k])
               PROVE  IF retains_inputs(rs[k])
                      THEN /\ Holders(rs, c) = {k}
                           /\ cs[c].state # "Absent" =>
                                \/ cs[c].state = "Spent" /\ cs[c].owner = None
                                \/ cs[c].state = "PendingOutgoing" /\ cs[c].owner = k
                      ELSE cs[c].owner # k
    BY DEF InputsBound
  <2>1. c \in Coins
    BY Roles DEF Ground, Exclusive
  <2>2. CASE retains_inputs(rs[k])
    <3>1. k \in Holders(rs, c)
      BY <2>2 DEF Holders
    <3>2. Holders(rs, c) = {k}
      BY SMT, <2>1, <3>1, BlockFacts
    <3> QED BY <2>1, <2>2, <3>2, <1>2
  <2>3. CASE ~retains_inputs(rs[k])
    <3>1. k \notin Holders(rs, c) /\ k # None
      BY <2>3, Roles, NamesAssumption DEF Holders
    <3> QED BY <2>1, <2>3, <3>1, <1>1
  <2> QED BY <2>2, <2>3
<1>8. OwnersRetain(rs, cs)
  BY <1>1 DEF OwnersRetain, Holders
<1> QED BY <1>4, <1>5, <1>6, <1>7, <1>8 DEF Valid

-----------------------------------------------------------------------------
(***************************************************************************)
(* The next page, of any length, and a genesis rescan commit.              *)
(***************************************************************************)
\* Reservations that differ in the ids they remember only.
Alike(rs, rt) ==
    \A k \in Reservations :
        /\ rt[k].state = rs[k].state /\ rt[k].own = rs[k].own /\ inputsOf(rt[k]) = inputsOf(rs[k])
        /\ rt[k].offset = rs[k].offset /\ rt[k].share = rs[k].share
        /\ rt[k].template = rs[k].template

\* What is said of a chain depends on the reservations only through what rebinding
\* keeps.
LEMMA AlikeKeeps ==
    ASSUME NEW rs, NEW rt \in [Reservations -> ReservationRecords], NEW hs, NEW B,
           Alike(rs, rt), Ground(rs, hs), WellFormed(rs, hs, B)
    PROVE  /\ Ground(rt, hs) /\ WellFormed(rt, hs, B)
           /\ \A c \in Coins : \A o : Faithful(rs, B, c, o) => Faithful(rt, B, c, o)
<1>1. \A k \in Reservations : /\ retains_inputs(rt[k]) <=> retains_inputs(rs[k])
                              /\ has_prepared_material(rt[k]) <=> has_prepared_material(rs[k])
  BY DEF Alike, retains_inputs, has_prepared_material
<1>2. \A k \in Reservations : Composed(rt[k], hs[k])
  BY DEF Alike, Ground, Composed
<1>3. Exclusive(rt)
  <2>1. \A k \in Reservations : inputsOf(rt[k]) \subseteq Inputs
    BY DEF Alike, Ground, Exclusive
  <2>2. \A j, k \in Fundings : \A c \in inputsOf(rt[j]) \cap inputsOf(rt[k]) :
           retains_inputs(rt[j]) /\ retains_inputs(rt[k]) => j = k
    BY <1>1, Roles DEF Alike, Ground, Exclusive
  <2> QED BY <2>1, <2>2 DEF Exclusive
<1>4. Material(rt)
  <2>1. \A k \in Fundings : FundingMaterial(rt[k])
    BY <1>1, Roles DEF Alike, Ground, Material, FundingMaterial
  <2>2. \A k \in Payouts : PayoutMaterial(rt[k])
    BY <1>1, Roles DEF Alike, Ground, Material, PayoutMaterial
  <2> QED BY <2>1, <2>2 DEF Material
<1>5. Ground(rt, hs)
  BY <1>2, <1>3, <1>4, Roles DEF Ground, Alike
<1>6. WellFormed(rt, hs, B)
  BY DEF WellFormed, Alike
<1>7. ASSUME NEW c \in Coins
      PROVE  /\ Made(rt, B, c) = Made(rs, B, c) /\ Used(rt, B, c) = Used(rs, B, c)
             /\ Holders(rt, c) = Holders(rs, c) /\ Awaited(rt, c) = Awaited(rs, c)
  <2>1. Made(rt, B, c) = Made(rs, B, c)
    BY DEF Made, Alike, Coins
  <2>2. Used(rt, B, c) = Used(rs, B, c)
    BY DEF Used, Alike
  <2>3. Holders(rt, c) = Holders(rs, c)
    BY <1>1, Roles DEF Holders, Alike
  <2>4. Awaited(rt, c) = Awaited(rs, c)
    BY <1>1 DEF Awaited, Alike
  <2> QED BY <2>1, <2>2, <2>3, <2>4
<1> QED BY <1>5, <1>6, <1>7 DEF Faithful

\* Rebinding keeps that.
LEMMA ReboundIsAlike ==
    ASSUME NEW rs \in [Reservations -> ReservationRecords], NEW cs \in Records
    PROVE  /\ Rebound(rs, cs) \in [Reservations -> ReservationRecords]
           /\ Alike(rs, Rebound(rs, cs))
<1> DEFINE rt == Rebound(rs, cs)
<1>1. \A k \in Reservations :
        /\ rt[k] \in ReservationRecords
        /\ rt[k].state = rs[k].state /\ rt[k].own = rs[k].own /\ inputsOf(rt[k]) = inputsOf(rs[k])
        /\ rt[k].offset = rs[k].offset /\ rt[k].share = rs[k].share
        /\ rt[k].template = rs[k].template
  BY ReboundKeeps
<1>2. rt = [k \in Reservations |-> rt[k]]
  BY DEF Rebound
<1> HIDE DEF rt
<1>3. rt \in [Reservations -> ReservationRecords]
  BY <1>1, <1>2
<1> QED BY <1>1, <1>3 DEF Alike, rt

\* A restored state: it commits, and it is again what the blocks determine.
LEMMA RestoredCommits ==
    ASSUME CInv, NEW B, WellFormed(res, handed, B), NEW cs \in Records,
           \A c \in Coins : Rough(res, B, c, cs[c])
    PROVE  LET next == Restored(res, cs)
               rt == Rebound(res, next)
           IN  /\ ~RestoreConflict(res, cs)
               /\ next \in Records
               /\ Valid(rt, next)
               /\ \A c \in Coins : Faithful(res, B, c, next[c])
               /\ Ground(rt, handed) /\ WellFormed(rt, handed, B)
               /\ \A c \in Coins : Faithful(rt, B, c, next[c])
<1> DEFINE next == Restored(res, cs)
           rt == Rebound(res, next)
<1>1. Ground(res, handed) /\ res \in [Reservations -> ReservationRecords]
  BY DEF CInv, Ground
<1>2. /\ \A c \in Coins : Faithful(res, B, c, next[c])
      /\ ~RestoreConflict(res, cs)
  BY <1>1, RestoreIsFaithful
<1>3. next \in Records
  BY RestoredKeeps
<1> HIDE DEF next
<1>4. rt \in [Reservations -> ReservationRecords] /\ Alike(res, rt)
  BY <1>1, <1>3, ReboundIsAlike
<1> HIDE DEF rt
<1>5. /\ Ground(rt, handed) /\ WellFormed(rt, handed, B)
      /\ \A c \in Coins : Faithful(rt, B, c, next[c])
  BY <1>1, <1>2, <1>4, AlikeKeeps
<1>6. Valid(rt, next)
  BY <1>3, <1>5, FaithfulIsValid
<1> QED BY <1>2, <1>3, <1>5, <1>6 DEF next, rt

\* When the cursor is canonical the anchor is the cursor.
LEMMA CanonicalAnchor ==
    ASSUME Shapes, Canonical
    PROVE  Anchor = Len(scanned) /\ SubSeq(chain, 1, Anchor) = scanned
<1>1. scanned \in Seq(SUBSET Coins) /\ Len(scanned) \in Nat /\ chain \in Seq(SUBSET Coins)
      /\ Len(chain) \in Nat
  BY SMT DEF Shapes
<1>2. SubSeq(scanned, 1, Len(scanned)) = scanned
  BY SMT, <1>1
<1>3. SUFFICES ASSUME Anchor # Len(scanned) PROVE FALSE
  BY DEF Canonical
<1>4. Anchor \in 0 .. Len(scanned)
  BY AnchorIsCommon
<1>5. Len(scanned) \in Anchor + 1 .. Len(scanned)
  BY SMT, <1>1, <1>3, <1>4
<1>6. Len(scanned) > Len(chain)
      \/ SubSeq(chain, 1, Len(scanned)) # SubSeq(scanned, 1, Len(scanned))
  BY <1>5, AnchorIsCommon
<1> QED BY SMT, <1>1, <1>2, <1>6 DEF Canonical

\* What a page starts from, rewound or not, says what its blocks say.
LEMMA BaseIsFaithful ==
    ASSUME CInv
    PROVE  /\ Anchor \in 0 .. Len(chain) /\ PageBase(Anchor) \in Records
           /\ BaseRestores(Anchor)
           /\ \A c \in Coins : Faithful(res, SubSeq(chain, 1, Anchor), c, PageBase(Anchor)[c])
<1>1. Shapes /\ coins \in Records
  BY DEF CInv, IInv, Shapes, Records
<1>2. Len(scanned) \in Nat /\ Len(chain) \in Nat
  BY SMT, <1>1 DEF Shapes
<1>3. Anchor \in 0 .. Len(chain) /\ Anchor \in 0 .. Len(scanned)
      /\ SubSeq(chain, 1, Anchor) = SubSeq(scanned, 1, Anchor)
  BY SMT, <1>1, <1>2, AnchorIsCommon
<1>4. CASE Canonical
  <2>1. PageBase(Anchor) = coins /\ BaseRestores(Anchor)
    BY <1>4 DEF PageBase, BaseRestores
  <2>2. SubSeq(chain, 1, Anchor) = scanned
    BY <1>1, <1>4, CanonicalAnchor
  <2> QED BY <1>1, <1>3, <2>1, <2>2 DEF CInv
<1>5. CASE ~Canonical
  <2> DEFINE past == Rewound(coins, Anchor)
             B == SubSeq(scanned, 1, Anchor)
  <2>1. PageBase(Anchor) = Restored(res, past)
    BY <1>5 DEF PageBase
  <2>2. \A c \in Coins : Rough(res, B, c, past[c])
    BY <1>1, <1>3, RewindIsRough DEF CInv
  <2>3. WellFormed(res, handed, B)
    BY <1>3, PrefixWellFormed DEF CInv
  <2>4. past \in Records
    BY SMT, <1>1, <1>3, RewoundKeeps
  <2> HIDE DEF past, B
  <2>5. /\ ~RestoreConflict(res, past) /\ Restored(res, past) \in Records
        /\ \A c \in Coins : Faithful(res, B, c, Restored(res, past)[c])
    BY <2>2, <2>3, <2>4, RestoredCommits
  <2>6. BaseRestores(Anchor)
    BY <2>5 DEF BaseRestores, past
  <2> QED BY <1>3, <2>1, <2>5, <2>6 DEF B
<1> QED BY <1>4, <1>5

\* The next page of any length commits, and what it commits is faithful.
LEMMA PageIsFaithful ==
    ASSUME CInv, NEW hi \in PageEnds(Anchor)
    PROVE  LET base == PageBase(Anchor)
               page == Scanned(base, Anchor, hi)
               next == Restored(res, page)
               rt == Rebound(res, next)
               B == SubSeq(chain, 1, hi)
           IN  /\ PageCommits(base, page, next, Anchor, hi)
               /\ Ground(rt, handed) /\ WellFormed(rt, handed, B)
               /\ \A c \in Coins : Faithful(rt, B, c, next[c])
<1> DEFINE base == PageBase(Anchor)
           page == Scanned(base, Anchor, hi)
           B == SubSeq(chain, 1, hi)
<1>1. Anchor \in 0 .. Len(chain) /\ Anchor \in Nat /\ hi \in Nat /\ hi \in 0 .. Len(chain)
      /\ hi \in Anchor .. Len(chain)
  <2>1. Anchor \in 0 .. Len(chain) /\ chain \in Seq(SUBSET Coins)
    BY BaseIsFaithful DEF CInv, WellFormed
  <2> QED BY SMT, <2>1 DEF PageEnds
<1>2. base \in Records /\ \A c \in Coins : Faithful(res, SubSeq(chain, 1, Anchor), c, base[c])
  BY BaseIsFaithful
<1> HIDE DEF base
<1>3. /\ \A c \in Coins : Rough(res, B, c, page[c])
      /\ ~ScanConflict(base, Anchor, hi)
  BY <1>1, <1>2, ScanIsRough DEF CInv
<1>4. page \in Records
  BY <1>1, <1>2, ScannedKeeps
<1>5. WellFormed(res, handed, B)
  BY <1>1, PrefixWellFormed DEF CInv
<1> HIDE DEF page, B
<1> DEFINE next == Restored(res, page)
           rt == Rebound(res, next)
<1>6. /\ ~RestoreConflict(res, page) /\ Valid(rt, next)
      /\ Ground(rt, handed) /\ WellFormed(rt, handed, B)
      /\ \A c \in Coins : Faithful(rt, B, c, next[c])
  BY <1>3, <1>4, <1>5, RestoredCommits
<1>7. PageCommits(base, page, next, Anchor, hi)
  BY <1>3, <1>6 DEF PageCommits
<1> QED BY <1>6, <1>7 DEF page, base, B

\* A rescan from genesis commits, and what it commits is faithful.
LEMMA RescanIsFaithful ==
    ASSUME CInv
    PROVE  LET next == Restored(res, Rewound(coins, 0))
               rt == Rebound(res, next)
           IN  /\ RewindCommits(0)
               /\ Ground(rt, handed) /\ WellFormed(rt, handed, <<>>)
               /\ \A c \in Coins : Faithful(rt, <<>>, c, next[c])
<1> DEFINE past == Rewound(coins, 0)
           next == Restored(res, past)
           rt == Rebound(res, next)
<1>1. coins \in Records /\ Len(scanned) \in Nat
  BY SMT DEF CInv, IInv, Shapes, Records
<1>2. 0 \in 0 .. Len(scanned) /\ SubSeq(scanned, 1, 0) = <<>>
  BY SMT, <1>1, EmptyCut
<1>3. \A c \in Coins : Rough(res, <<>>, c, past[c])
  BY <1>1, <1>2, RewindIsRough DEF CInv
<1>4. WellFormed(res, handed, <<>>)
  BY <1>2, PrefixWellFormed DEF CInv
<1>5. past \in Records
  BY <1>1, RewoundKeeps
<1> HIDE DEF past
<1>6. /\ ~RestoreConflict(res, past) /\ Valid(rt, next)
      /\ Ground(rt, handed) /\ WellFormed(rt, handed, <<>>)
      /\ \A c \in Coins : Faithful(rt, <<>>, c, next[c])
  BY <1>3, <1>4, <1>5, RestoredCommits
<1>7. RewindCommits(0)
  BY <1>6 DEF RewindCommits, past
<1> QED BY <1>6, <1>7 DEF past

\* The invariant is strong enough.
LEMMA InvariantCommits == CInv => BatchesCommit
<1> SUFFICES ASSUME CInv PROVE BatchesCommit
  OBVIOUS
<1>1. coins \in Records
  BY DEF CInv, IInv, Shapes, Records
<1>2. Valid(res, coins)
  BY <1>1, FaithfulIsValid DEF CInv
<1>3. BaseRestores(Anchor)
  BY BaseIsFaithful
<1>4. \A hi \in PageEnds(Anchor) :
         PageCommits(PageBase(Anchor), Scanned(PageBase(Anchor), Anchor, hi),
                     Restored(res, Scanned(PageBase(Anchor), Anchor, hi)), Anchor, hi)
  BY PageIsFaithful
<1>5. RewindCommits(0)
  BY RescanIsFaithful
<1> QED BY <1>2, <1>3, <1>4, <1>5 DEF BatchesCommit

-----------------------------------------------------------------------------
(***************************************************************************)
(* Every step leads from such a state to such a state.                     *)
(***************************************************************************)
LEMMA CommitsInit == Init => CInv
<1> SUFFICES ASSUME Init PROVE CInv
  OBVIOUS
<1>1. IInv
  BY InitEstablishes
<1>2. \A k \in Reservations : res[k] = NoReservation
  BY DEF Init
<1>3. inputsOf(NoReservation) = {} /\ ~retains_inputs(NoReservation)
      /\ ~has_prepared_material(NoReservation) /\ NoReservation.own = FALSE
  BY NoReservationShape DEF NoReservation, retains_inputs, has_prepared_material
<1>4. Ground(res, handed)
  <2>1. Exclusive(res)
    BY <1>2, <1>3, Roles DEF Exclusive
  <2>2. FundingMaterial(NoReservation) /\ PayoutMaterial(NoReservation)
    BY <1>3 DEF FundingMaterial, PayoutMaterial, NoReservation
  <2>3. Material(res)
    BY <1>2, <2>2, Roles DEF Material
  <2> QED BY <1>1, <2>1, <2>3 DEF Ground, IInv, Shapes
<1>5. chain = <<Inputs>> /\ scanned = <<Inputs>>
  BY DEF Init
<1>6. WellFormed(res, handed, <<Inputs>>)
  <2>1. <<Inputs>> \in Seq(SUBSET Coins) /\ DOMAIN <<Inputs>> = {1} /\ <<Inputs>>[1] = Inputs
    BY SMT, Roles
  <2> QED BY <2>1, NamesAssumption DEF WellFormed
<1>7. \A c \in Coins : Faithful(res, <<Inputs>>, c, coins[c])
  <2> SUFFICES ASSUME NEW c \in Coins PROVE Faithful(res, <<Inputs>>, c, coins[c])
    OBVIOUS
  <2>1. DOMAIN <<Inputs>> = {1} /\ <<Inputs>>[1] = Inputs
    BY SMT
  <2>2. Used(res, <<Inputs>>, c) = {}
    BY <2>1, NamesAssumption DEF Used
  <2>3. Holders(res, c) = {}
    BY <1>2, <1>3, Roles DEF Holders
  <2>4. ~Awaited(res, c)
    BY <1>2, <1>3 DEF Awaited
  <2>5. CASE c \in Inputs
    <3>1. Made(res, <<Inputs>>, c) = {1}
      BY <2>1, <2>5 DEF Made
    <3>2. coins[c].state = "Confirmed" /\ coins[c].owner = None /\ coins[c].found = 1
      BY <2>5 DEF Init, Absent
    <3> QED BY <2>2, <2>3, <3>1, <3>2 DEF Faithful, Determined
  <2>6. CASE c \notin Inputs
    <3>1. Made(res, <<Inputs>>, c) = {}
      BY <2>1, <2>6 DEF Made
    <3>2. coins[c].state = "Absent" /\ coins[c].owner = None /\ coins[c].found = 0
      BY <2>6 DEF Init, Absent
    <3> QED BY <2>4, <3>1, <3>2 DEF Faithful, Determined
  <2> QED BY <2>5, <2>6
<1> QED BY <1>1, <1>4, <1>5, <1>6, <1>7 DEF CInv

\* A step of commands: blocks stay what they are, since what is in a block
\* has been signed and a signed reservation keeps its inputs.
LEMMA BlocksStay ==
    ASSUME CInv, NEW B, WellFormed(res, handed, B),
           \A k \in Reservations : Signed(k) =>
             /\ res'[k].own = res[k].own /\ inputsOf(res'[k]) = inputsOf(res[k])
             /\ handed'[k].signed # {}
    PROVE  /\ WellFormed(res', handed', B)
           /\ \A c \in Coins : Made(res', B, c) = Made(res, B, c) /\ Used(res', B, c) = Used(res, B, c)
<1>1. \A h \in DOMAIN B : \A x \in B[h] \cap Reservations : Signed(x)
  BY DEF WellFormed, Signed
<1>2. WellFormed(res', handed', B)
  BY <1>1 DEF WellFormed
<1>3. ASSUME NEW c \in Coins
      PROVE  Made(res', B, c) = Made(res, B, c) /\ Used(res', B, c) = Used(res, B, c)
  <2>1. \A h \in DOMAIN B : c \in B[h] => (c \in Inputs \/ res'[c].own <=> c \in Inputs \/ res[c].own)
    BY <1>1 DEF Coins
  <2>2. \A h \in DOMAIN B : \A x \in B[h] \cap Reservations : inputsOf(res'[x]) = inputsOf(res[x])
    BY <1>1
  <2> QED BY <2>1, <2>2 DEF Made, Used
<1> QED BY <1>2, <1>3

\* The commands that hand something out, bind, sign or abandon.
LEMMA ProgressCommits ==
    ASSUME CInv, IInv', UNCHANGED <<chain, scanned, coins>>,
           \A k \in Reservations :
             /\ res'[k].own = res[k].own /\ inputsOf(res'[k]) = inputsOf(res[k])
             /\ retains_inputs(res'[k]) <=> retains_inputs(res[k])
             /\ has_prepared_material(res'[k]) <=> has_prepared_material(res[k])
             /\ handed[k].signed \subseteq handed'[k].signed,
           Material(res')
    PROVE  CInv'
<1>1. Exclusive(res')
  <2>1. \A k \in Reservations : inputsOf(res'[k]) \subseteq Inputs
    BY DEF CInv, Ground, Exclusive
  <2>2. \A j, k \in Fundings : \A c \in inputsOf(res'[j]) \cap inputsOf(res'[k]) :
           retains_inputs(res'[j]) /\ retains_inputs(res'[k]) => j = k
    BY Roles DEF CInv, Ground, Exclusive
  <2> QED BY <2>1, <2>2 DEF Exclusive
<1>2. Ground(res', handed')
  BY <1>1 DEF Ground, IInv, Shapes
<1>3. \A k \in Reservations : Signed(k) =>
             /\ res'[k].own = res[k].own /\ inputsOf(res'[k]) = inputsOf(res[k])
             /\ handed'[k].signed # {}
  BY DEF Signed
<1>4. WellFormed(res', handed', chain) /\ WellFormed(res', handed', scanned)
      /\ \A c \in Coins : Made(res', scanned, c) = Made(res, scanned, c)
                          /\ Used(res', scanned, c) = Used(res, scanned, c)
  BY <1>3, BlocksStay DEF CInv
<1>5. \A c \in Coins : Holders(res', c) = Holders(res, c) /\ Awaited(res', c) = Awaited(res, c)
  BY Roles DEF Holders, Awaited
<1>6. \A c \in Coins : Faithful(res', scanned, c, coins[c])
  BY <1>4, <1>5 DEF CInv, Faithful
<1> QED BY <1>2, <1>4, <1>6 DEF CInv

\* Handing out the claim point preserves the invariant.
LEMMA PointCommits ==
    ASSUME CInv, IInv', NEW k \in Reservations, HandsPoint(k)
    PROVE  CInv'
<1>1. PICK share \in Shares :
        /\ BindsShare(res[k], share)
        /\ res' = [res EXCEPT ![k].share = share,
                              ![k].state = IF @ = "Prepared" THEN "SessionBound" ELSE @]
        /\ handed' = [handed EXCEPT ![k].points = @ \cup {<<share, res[k].offset>>}]
  BY DEF HandsPoint
<1> DEFINE s == IF res[k].state = "Prepared" THEN "SessionBound" ELSE res[k].state
           r == [res[k] EXCEPT !.share = share, !.state = s]
<1>2. res \in [Reservations -> ReservationRecords] /\ handed \in [Reservations -> HandedRecords]
  BY DEF CInv, IInv, Shapes
<1>3. res[k] \in ReservationRecords
  BY <1>2
<1>4. res' = [res EXCEPT ![k] = r]
  BY <1>1
<1>5. /\ res[k].state \in {"Prepared", "SessionBound", "Exported", "TemplateBound"}
      /\ res[k].state # "Prepared" => res[k].share = share /\ s = res[k].state
      /\ res[k].state = "Prepared" => s = "SessionBound"
      /\ share # None
  BY <1>1, NamesAssumption DEF BindsShare
<1> HIDE DEF s
<1>6. /\ r.ids = res[k].ids /\ r.state = s /\ r.share = share /\ r.offset = res[k].offset
      /\ r.template = res[k].template /\ r.own = res[k].own
  BY <1>3 DEF ReservationRecords
<1> HIDE DEF r
<1>7. res'[k] = r /\ \A j \in Reservations : j # k => res'[j] = res[j]
  BY <1>2, <1>4
<1>8. /\ inputsOf(r) = inputsOf(res[k])
      /\ retains_inputs(r) /\ retains_inputs(res[k])
      /\ has_prepared_material(r) /\ has_prepared_material(res[k])
  BY <1>5, <1>6 DEF inputsOf, retains_inputs, has_prepared_material
<1>9. FundingMaterial(res[k]) => FundingMaterial(r)
  BY <1>5, <1>6, <1>8 DEF FundingMaterial
<1>10. PayoutMaterial(res[k]) => PayoutMaterial(r)
  BY <1>5, <1>6, <1>8 DEF PayoutMaterial
<1>11. Material(res')
  BY <1>7, <1>9, <1>10, Roles DEF CInv, Ground, Material
<1>12. \A j \in Reservations : handed[j].signed \subseteq handed'[j].signed
  BY <1>1, <1>2 DEF HandedRecords
<1>13. UNCHANGED <<chain, scanned, coins>>
  BY DEF HandsPoint
<1> QED BY <1>6, <1>7, <1>8, <1>11, <1>12, <1>13, ProgressCommits

\* Handing out the components preserves the invariant.
LEMMA ComponentsCommit ==
    ASSUME CInv, IInv', NEW k \in Reservations, HandsComponents(k)
    PROVE  CInv'
<1> DEFINE s == IF res[k].state = "SessionBound" THEN "Exported" ELSE res[k].state
           r == [res[k] EXCEPT !.state = s]
<1>2. res \in [Reservations -> ReservationRecords] /\ handed \in [Reservations -> HandedRecords]
  BY DEF CInv, IInv, Shapes
<1>3. res[k] \in ReservationRecords
  BY <1>2
<1>4. res' = [res EXCEPT ![k] = r]
  BY DEF HandsComponents
<1>5. /\ res[k].state \in {"SessionBound", "Exported", "TemplateBound"}
      /\ res[k].state # "SessionBound" => s = res[k].state
      /\ res[k].state = "SessionBound" => s = "Exported"
  BY DEF HandsComponents
<1> HIDE DEF s
<1>6. /\ r.ids = res[k].ids /\ r.state = s /\ r.share = res[k].share /\ r.offset = res[k].offset
      /\ r.template = res[k].template /\ r.own = res[k].own
  BY <1>3 DEF ReservationRecords
<1> HIDE DEF r
<1>7. res'[k] = r /\ \A j \in Reservations : j # k => res'[j] = res[j]
  BY <1>2, <1>4
<1>8. /\ inputsOf(r) = inputsOf(res[k])
      /\ retains_inputs(r) /\ retains_inputs(res[k])
      /\ has_prepared_material(r) /\ has_prepared_material(res[k])
  BY <1>5, <1>6 DEF inputsOf, retains_inputs, has_prepared_material
<1>9. FundingMaterial(res[k]) => FundingMaterial(r)
  BY <1>5, <1>6, <1>8 DEF FundingMaterial
<1>10. PayoutMaterial(res[k]) => PayoutMaterial(r)
  BY <1>5, <1>6, <1>8 DEF PayoutMaterial
<1>11. Material(res')
  BY <1>7, <1>9, <1>10, Roles DEF CInv, Ground, Material
<1>12. \A j \in Reservations : handed[j].signed \subseteq handed'[j].signed
  BY <1>2 DEF HandsComponents, HandedRecords
<1>13. UNCHANGED <<chain, scanned, coins>>
  BY DEF HandsComponents
<1> QED BY <1>6, <1>7, <1>8, <1>11, <1>12, <1>13, ProgressCommits

\* Binding a template preserves the invariant.
LEMMA BindCommits ==
    ASSUME CInv, IInv', NEW k \in Reservations, BindsOne(k)
    PROVE  CInv'
<1>1. PICK template \in Templates :
        /\ BindsTemplate(res[k], template)
        /\ res' = [res EXCEPT ![k].state = "TemplateBound", ![k].template = template]
  BY DEF BindsOne
<1> DEFINE r == [res[k] EXCEPT !.state = "TemplateBound", !.template = template]
<1>2. res \in [Reservations -> ReservationRecords]
  BY DEF CInv, IInv, Shapes
<1>3. res[k] \in ReservationRecords
  BY <1>2
<1>4. res' = [res EXCEPT ![k] = r]
  BY <1>1
<1>5. res[k].state \in {"Exported", "TemplateBound"} /\ template # None
  BY <1>1, NamesAssumption DEF BindsTemplate
<1>6. /\ r.ids = res[k].ids /\ r.state = "TemplateBound" /\ r.share = res[k].share
      /\ r.offset = res[k].offset /\ r.template = template /\ r.own = res[k].own
  BY <1>3 DEF ReservationRecords
<1> HIDE DEF r
<1>7. res'[k] = r /\ \A j \in Reservations : j # k => res'[j] = res[j]
  BY <1>2, <1>4
<1>8. /\ inputsOf(r) = inputsOf(res[k])
      /\ retains_inputs(r) /\ retains_inputs(res[k])
      /\ has_prepared_material(r) /\ has_prepared_material(res[k])
  BY <1>5, <1>6 DEF inputsOf, retains_inputs, has_prepared_material
<1>9. FundingMaterial(res[k]) => FundingMaterial(r)
  BY <1>5, <1>6, <1>8 DEF FundingMaterial
<1>10. PayoutMaterial(res[k]) => PayoutMaterial(r)
  BY <1>5, <1>6, <1>8 DEF PayoutMaterial
<1>11. Material(res')
  BY <1>7, <1>9, <1>10, Roles DEF CInv, Ground, Material
<1>12. UNCHANGED <<chain, scanned, coins, handed>>
  BY DEF BindsOne
<1> QED BY <1>6, <1>7, <1>8, <1>11, <1>12, ProgressCommits

\* Handing out the signing capability preserves the invariant.
LEMMA SignCommits ==
    ASSUME CInv, IInv', NEW k \in Reservations, Signs(k)
    PROVE  CInv'
<1>1. handed \in [Reservations -> HandedRecords]
  BY DEF CInv, IInv, Shapes
<1>2. \A j \in Reservations : handed[j].signed \subseteq handed'[j].signed
  BY <1>1 DEF Signs, HandedRecords
<1>3. UNCHANGED <<chain, scanned, coins, res>>
  BY DEF Signs
<1>4. Material(res')
  BY <1>3 DEF CInv, Ground
<1> QED BY <1>2, <1>3, <1>4, ProgressCommits

\* Abandoning a reservation preserves the invariant.
LEMMA AbandonCommits ==
    ASSUME CInv, IInv', NEW k \in Reservations, Abandons(k)
    PROVE  CInv'
<1> DEFINE r == [res[k] EXCEPT !.state = "AbandonedRetained"]
<1>2. res \in [Reservations -> ReservationRecords]
  BY DEF CInv, IInv, Shapes
<1>3. res[k] \in ReservationRecords
  BY <1>2
<1>4. res' = [res EXCEPT ![k] = r]
  BY DEF Abandons
<1>5. res[k].state \in {"SessionBound", "Exported", "TemplateBound"}
  BY DEF Abandons
<1>6. /\ r.ids = res[k].ids /\ r.state = "AbandonedRetained" /\ r.share = res[k].share
      /\ r.offset = res[k].offset /\ r.template = res[k].template /\ r.own = res[k].own
  BY <1>3 DEF ReservationRecords
<1> HIDE DEF r
<1>7. res'[k] = r /\ \A j \in Reservations : j # k => res'[j] = res[j]
  BY <1>2, <1>4
<1>8. /\ inputsOf(r) = inputsOf(res[k])
      /\ retains_inputs(r) /\ retains_inputs(res[k])
      /\ has_prepared_material(r) /\ has_prepared_material(res[k])
  BY <1>5, <1>6 DEF inputsOf, retains_inputs, has_prepared_material
<1>9. FundingMaterial(res[k]) => FundingMaterial(r)
  BY <1>5, <1>6, <1>8 DEF FundingMaterial
<1>10. PayoutMaterial(res[k]) => PayoutMaterial(r)
  BY <1>5, <1>6, <1>8 DEF PayoutMaterial
<1>11. Material(res')
  BY <1>7, <1>9, <1>10, Roles DEF CInv, Ground, Material
<1>12. UNCHANGED <<chain, scanned, coins, handed>>
  BY DEF Abandons
<1> QED BY <1>6, <1>7, <1>8, <1>11, <1>12, ProgressCommits

\* The commands that change one reservation no block can hold yet, and with it
\* the records of outputs.
LEMMA OneCommits ==
    ASSUME CInv, IInv', NEW k \in Reservations, NEW r, ~Signed(k),
           res' = [res EXCEPT ![k] = r], UNCHANGED <<chain, scanned, handed>>,
           inputsOf(r) \subseteq Inputs,
           k \in Fundings => FundingMaterial(r), k \in Payouts => PayoutMaterial(r),
           \A j \in Fundings \ {k} : \A c \in inputsOf(res[j]) \cap inputsOf(r) :
               ~(retains_inputs(res[j]) /\ retains_inputs(r)),
           \A c \in Coins : Determined(coins'[c], Made(res, scanned, c), Used(res, scanned, c),
                                       Holders(res', c), Awaited(res', c))
    PROVE  CInv'
<1>1. res \in [Reservations -> ReservationRecords]
  BY DEF CInv, IInv, Shapes
<1>2. res'[k] = r /\ \A j \in Reservations : j # k => res'[j] = res[j]
  BY <1>1
<1>3. Exclusive(res')
  <2>1. \A j \in Reservations : inputsOf(res'[j]) \subseteq Inputs
    BY <1>2 DEF CInv, Ground, Exclusive
  <2>2. ASSUME NEW i \in Fundings, NEW j \in Fundings,
               NEW c \in inputsOf(res'[i]) \cap inputsOf(res'[j]),
               retains_inputs(res'[i]), retains_inputs(res'[j])
        PROVE  i = j
    <3>1. CASE i # k /\ j # k
      BY <1>2, <2>2, <3>1, Roles DEF CInv, Ground, Exclusive
    <3>2. CASE i = k /\ j # k
      BY <1>2, <2>2, <3>2, Roles
    <3>3. CASE i # k /\ j = k
      BY <1>2, <2>2, <3>3, Roles
    <3> QED BY <3>1, <3>2, <3>3
  <2> QED BY <2>1, <2>2 DEF Exclusive
<1>4. Material(res')
  BY <1>2, Roles DEF CInv, Ground, Material
<1>5. Ground(res', handed')
  BY <1>3, <1>4 DEF Ground, IInv, Shapes
<1>6. \A j \in Reservations : Signed(j) =>
             /\ res'[j].own = res[j].own /\ inputsOf(res'[j]) = inputsOf(res[j])
             /\ handed'[j].signed # {}
  BY <1>2 DEF Signed
<1>7. WellFormed(res', handed', chain) /\ WellFormed(res', handed', scanned)
      /\ \A c \in Coins : Made(res', scanned, c) = Made(res, scanned, c)
                          /\ Used(res', scanned, c) = Used(res, scanned, c)
  BY <1>6, BlocksStay DEF CInv
<1>8. \A c \in Coins : Faithful(res', scanned', c, coins'[c])
  BY <1>7 DEF Faithful
<1> QED BY <1>5, <1>7, <1>8 DEF CInv

\* What is not signed is in no block, so its output was not made.
LEMMA UnsignedNotMade ==
    ASSUME CInv, NEW k \in Reservations, res[k].state \notin Bound
    PROVE  ~Signed(k) /\ Made(res, scanned, k) = {}
<1>1. ~Signed(k)
  BY DEF CInv, IInv, Composed, Signed
<1>2. Made(res, scanned, k) = {}
  BY <1>1 DEF CInv, WellFormed, Made, Signed
<1> QED BY <1>1, <1>2

\* A new funding without chained inputs preserves the invariant.
LEMMA FundingPrepareCommits ==
    ASSUME CInv, IInv', Chained = FALSE, NEW k \in Fundings, scriptless_funding_prepare(k)
    PROVE  CInv'
<1>1. PICK S \in SUBSET Spendable, own \in BOOLEAN :
         /\ own => S # {}
         /\ res' = [res EXCEPT ![k] = [NoReservation EXCEPT
                        !.state = "Reserved", !.own = own,
                        !.ids = [c \in S |-> coins[c].id]]]
         /\ coins' = [c \in Coins |-> IF c \in S
                        THEN [coins[c] EXCEPT !.state = "PendingOutgoing", !.owner = k]
                        ELSE coins[c]]
  BY DEF scriptless_funding_prepare
<1> DEFINE m == [c \in S |-> coins[c].id]
           r == [NoReservation EXCEPT !.state = "Reserved", !.own = own, !.ids = m]
<1>2. /\ coins \in [Coins -> CoinRecords] /\ res \in [Reservations -> ReservationRecords]
      /\ k \in Reservations /\ k \notin Payouts /\ res[k].state = "None"
      /\ UNCHANGED <<chain, scanned, handed>>
  BY Roles DEF CInv, IInv, Shapes, scriptless_funding_prepare
<1>3. res' = [res EXCEPT ![k] = r] /\ DOMAIN m = S
  BY <1>1
<1> HIDE DEF m
<1>4. /\ r.state = "Reserved" /\ r.own = own /\ r.ids = m /\ r.offset = None
      /\ r.share = None /\ r.template = None
  BY DEF NoReservation
<1> HIDE DEF r
<1>5. inputsOf(r) = S /\ FundingMaterial(r) /\ retains_inputs(r) /\ ~has_prepared_material(r)
  <2>1. inputsOf(r) = S
    BY <1>3, <1>4 DEF inputsOf
  <2> QED BY <1>1, <1>4, <2>1 DEF FundingMaterial, retains_inputs, has_prepared_material
<1>6. ~retains_inputs(res[k]) /\ ~has_prepared_material(res[k])
  BY <1>2 DEF retains_inputs, has_prepared_material
<1>7. S \subseteq Inputs /\ \A c \in S : coins[c].state = "Confirmed" /\ coins[c].owner = None
  BY DEF Spendable
<1>8. \A c \in S : /\ Made(res, scanned, c) # {} /\ Used(res, scanned, c) = {}
                   /\ Holders(res, c) = {} /\ coins[c].found \in Made(res, scanned, c)
  BY <1>7, Roles DEF CInv, Faithful, Determined
<1>9. res'[k] = r /\ \A j \in Reservations : j # k => res'[j] = res[j]
  BY <1>2, <1>3
<1>10. \A j \in Fundings \ {k} : \A c \in inputsOf(res[j]) \cap inputsOf(r) :
               ~(retains_inputs(res[j]) /\ retains_inputs(r))
  BY <1>5, <1>8 DEF Holders
<1>11. ASSUME NEW c \in Coins
       PROVE  Determined(coins'[c], Made(res, scanned, c), Used(res, scanned, c),
                         Holders(res', c), Awaited(res', c))
  <2>1. CASE c \in S
    <3>1. coins[c] \in CoinRecords
      BY <1>2
    <3>2. coins'[c].state = "PendingOutgoing" /\ coins'[c].owner = k
          /\ coins'[c].found = coins[c].found
      BY <1>1, <2>1, <3>1 DEF CoinRecords
    <3>3. k \in Holders(res', c)
      BY <1>5, <1>9, <2>1, <1>2 DEF Holders
    <3> QED BY <1>8, <2>1, <3>2, <3>3 DEF Determined
  <2>2. CASE c \notin S
    <3>1. coins'[c] = coins[c]
      BY <1>1, <2>2
    <3>2. Holders(res', c) = Holders(res, c)
      BY <1>5, <1>6, <1>9, <2>2, Roles DEF Holders
    <3>3. Awaited(res', c) = Awaited(res, c)
      BY <1>5, <1>6, <1>9 DEF Awaited
    <3> QED BY <3>1, <3>2, <3>3 DEF CInv, Faithful
  <2> QED BY <2>1, <2>2
<1>12. ~Signed(k)
  BY <1>2, UnsignedNotMade DEF Bound
<1> QED BY <1>2, <1>3, <1>5, <1>7, <1>10, <1>11, <1>12, OneCommits

\* A new payout preserves the invariant.
LEMMA PayoutPrepareCommits ==
    ASSUME CInv, IInv', NEW k \in Payouts, scriptless_payout_prepare(k)
    PROVE  CInv'
<1>1. PICK own \in BOOLEAN :
         res' = [res EXCEPT ![k] = [NoReservation EXCEPT !.state = "Reserved", !.own = own]]
  BY DEF scriptless_payout_prepare
<1> DEFINE r == [NoReservation EXCEPT !.state = "Reserved", !.own = own]
<1>2. /\ res \in [Reservations -> ReservationRecords]
      /\ k \in Reservations /\ k \notin Fundings /\ res[k].state = "None"
      /\ UNCHANGED <<chain, scanned, handed, coins>>
  BY Roles DEF CInv, IInv, Shapes, scriptless_payout_prepare
<1>3. res' = [res EXCEPT ![k] = r]
  BY <1>1
<1>4. /\ r.state = "Reserved" /\ r.ids = NoReservation.ids /\ r.offset = None
      /\ r.share = None /\ r.template = None
  BY DEF NoReservation
<1> HIDE DEF r
<1>5. inputsOf(r) = {} /\ ~has_prepared_material(r)
  BY <1>4, NoReservationShape DEF inputsOf, has_prepared_material
<1>6. PayoutMaterial(r)
  BY <1>4, <1>5 DEF PayoutMaterial
<1>7. res'[k] = r /\ \A j \in Reservations : j # k => res'[j] = res[j]
  BY <1>2, <1>3
<1>8. ~has_prepared_material(res[k])
  BY <1>2 DEF has_prepared_material
<1>9. \A c \in Coins : Determined(coins'[c], Made(res, scanned, c), Used(res, scanned, c),
                                  Holders(res', c), Awaited(res', c))
  <2>1. \A c \in Coins : Holders(res', c) = Holders(res, c)
    BY <1>2, <1>7, Roles DEF Holders
  <2>2. \A c \in Coins : Awaited(res', c) = Awaited(res, c)
    BY <1>5, <1>7, <1>8 DEF Awaited
  <2> QED BY <1>2, <2>1, <2>2 DEF CInv, Faithful
<1>10. ~Signed(k)
  BY <1>2, UnsignedNotMade DEF Bound
<1> QED BY <1>2, <1>3, <1>5, <1>6, <1>9, <1>10, OneCommits

\* Completing a preparation announces the reservation's own output.
LEMMA PreparedCommits ==
    ASSUME CInv, IInv', NEW k \in Reservations, Resumable(res[k]), Prepared(k)
    PROVE  CInv'
<1>1. PICK o \in Offsets : res' = [res EXCEPT ![k].state = "Prepared", ![k].offset = o]
  BY DEF Prepared
<1> DEFINE r == [res[k] EXCEPT !.state = "Prepared", !.offset = o]
<1>2. /\ coins \in [Coins -> CoinRecords] /\ res \in [Reservations -> ReservationRecords]
      /\ res[k].state = "Reserved" /\ k \in Coins
      /\ UNCHANGED <<chain, scanned, handed>>
  BY Roles DEF CInv, IInv, Shapes, Resumable, Prepared
<1>3. res[k] \in ReservationRecords /\ res' = [res EXCEPT ![k] = r]
  BY <1>1, <1>2
<1>4. /\ r.state = "Prepared" /\ r.offset = o /\ r.ids = res[k].ids /\ r.own = res[k].own
      /\ r.share = res[k].share /\ r.template = res[k].template /\ o # None
  BY <1>3, NamesAssumption DEF ReservationRecords
<1> HIDE DEF r
<1>5. /\ inputsOf(r) = inputsOf(res[k]) /\ retains_inputs(r) /\ retains_inputs(res[k])
      /\ has_prepared_material(r) /\ ~has_prepared_material(res[k])
  BY <1>2, <1>4 DEF inputsOf, retains_inputs, has_prepared_material
<1>6. res'[k] = r /\ \A j \in Reservations : j # k => res'[j] = res[j]
  BY <1>2, <1>3
<1>7. k \in Fundings => FundingMaterial(r)
  BY <1>2, <1>4, <1>5 DEF CInv, Ground, Material, FundingMaterial
<1>8. k \in Payouts => PayoutMaterial(r)
  BY <1>2, <1>4, <1>5 DEF CInv, Ground, Material, PayoutMaterial
<1>9. ~Signed(k) /\ Made(res, scanned, k) = {}
  BY <1>2, UnsignedNotMade DEF Bound
<1>10. inputsOf(r) \subseteq Inputs
  BY <1>5 DEF CInv, Ground, Exclusive
<1>11. \A j \in Fundings \ {k} : \A c \in inputsOf(res[j]) \cap inputsOf(r) :
               ~(retains_inputs(res[j]) /\ retains_inputs(r))
  <2>1. CASE k \in Fundings
    BY <1>5, <2>1 DEF CInv, Ground, Exclusive
  <2>2. CASE k \notin Fundings
    BY <1>5, <2>2 DEF CInv, Ground, Reservations
  <2> QED BY <2>1, <2>2
<1>12. ASSUME NEW c \in Coins
       PROVE  Determined(coins'[c], Made(res, scanned, c), Used(res, scanned, c),
                         Holders(res', c), Awaited(res', c))
  <2>1. Holders(res', c) = Holders(res, c)
    BY <1>5, <1>6, Roles DEF Holders
  <2>2. Awaited(res, c) => Awaited(res', c)
    BY <1>5, <1>6 DEF Awaited
  <2>3. CASE c = k /\ res[k].own
    <3>1. coins[k].id \in {0, 1}
      BY <1>2 DEF CoinRecords
    <3>2. coins'[k] = Pending(coins[k].id)
      BY <1>2, <2>3 DEF Prepared
    <3>3. coins'[k].state = "PendingIncoming" /\ coins'[k].owner = None /\ coins'[k].found = 0
      BY <3>1, <3>2, AbsentIsFresh DEF Fresh
    <3>4. Awaited(res', k)
      BY <1>4, <1>5, <1>6, <2>3 DEF Awaited
    <3> QED BY <1>9, <2>3, <3>3, <3>4 DEF Determined
  <2>4. CASE ~(c = k /\ res[k].own)
    <3>1. coins'[c] = coins[c]
      BY <1>2, <2>4 DEF Prepared
    <3>2. Awaited(res', c) = Awaited(res, c)
      BY <1>4, <1>6, <2>4 DEF Awaited
    <3> QED BY <2>1, <3>1, <3>2 DEF CInv, Faithful
  <2> QED BY <2>3, <2>4
<1> QED BY <1>2, <1>3, <1>7, <1>8, <1>9, <1>10, <1>11, <1>12, OneCommits

\* The inputs of a cancelled reservation are nobody's again.
LEMMA CancelCommits ==
    ASSUME CInv, IInv', NEW k \in Reservations, may_cancel_and_release(res[k]), Cancelled(k),
           UNCHANGED <<chain, scanned, handed>>,
           coins'[k].state = "Absent", coins'[k].owner = None, coins'[k].found = 0,
           \A c \in Coins \ ({k} \cup inputsOf(res[k])) : coins'[c] = coins[c],
           \A c \in inputsOf(res[k]) :
             /\ k \in Fundings /\ coins[c].state = "PendingOutgoing"
             /\ coins'[c].state = "Confirmed" /\ coins'[c].owner = None
             /\ coins'[c].found = coins[c].found
    PROVE  CInv'
<1> DEFINE r == [res[k] EXCEPT !.state = "Cancelled", !.offset = None,
                               !.share = None, !.template = None]
<1>1. res \in [Reservations -> ReservationRecords] /\ res' = [res EXCEPT ![k] = r]
      /\ res[k].state \in {"Reserved", "Prepared"} /\ k \in Coins
  BY Roles DEF CInv, IInv, Shapes, Cancelled, may_cancel_and_release
<1>2. res[k] \in ReservationRecords
  BY <1>1
<1>3. /\ r.state = "Cancelled" /\ r.offset = None /\ r.ids = res[k].ids /\ r.own = res[k].own
      /\ r.share = None /\ r.template = None
  BY <1>2 DEF ReservationRecords
<1> HIDE DEF r
<1>4. /\ inputsOf(r) = inputsOf(res[k]) /\ ~retains_inputs(r) /\ retains_inputs(res[k])
      /\ ~has_prepared_material(r)
  BY <1>1, <1>3 DEF inputsOf, retains_inputs, has_prepared_material
<1>5. res'[k] = r /\ \A j \in Reservations : j # k => res'[j] = res[j]
  BY <1>1
<1>6. k \in Fundings => FundingMaterial(r)
  BY <1>3, <1>4 DEF CInv, Ground, Material, FundingMaterial
<1>7. k \in Payouts => PayoutMaterial(r)
  BY <1>3, <1>4 DEF PayoutMaterial
<1>8. ~Signed(k) /\ Made(res, scanned, k) = {}
  BY <1>1, UnsignedNotMade DEF Bound
<1>9. inputsOf(r) \subseteq Inputs /\ inputsOf(r) \subseteq Coins
  BY <1>4, Roles DEF CInv, Ground, Exclusive
<1>10. ASSUME NEW c \in Coins
       PROVE  Determined(coins'[c], Made(res, scanned, c), Used(res, scanned, c),
                         Holders(res', c), Awaited(res', c))
  <2>1. CASE c = k
    <3>1. ~Awaited(res', k)
      BY <1>4, <1>5 DEF Awaited
    <3> QED BY <1>8, <2>1, <3>1 DEF Determined
  <2>2. CASE c \in inputsOf(res[k])
    <3>1. Faithful(res, scanned, c, coins[c]) /\ coins[c].state = "PendingOutgoing"
      BY <2>2 DEF CInv
    <3>2. /\ Made(res, scanned, c) # {} /\ Used(res, scanned, c) = {}
          /\ coins[c].found \in Made(res, scanned, c)
      BY <3>1 DEF Faithful, Determined
    <3>3. Holders(res', c) = {}
      <4> SUFFICES ASSUME NEW j \in Holders(res', c) PROVE FALSE
        OBVIOUS
      <4>1. j \in Fundings /\ j # k /\ res'[j] = res[j]
        BY <1>4, <1>5, Roles DEF Holders
      <4>2. retains_inputs(res[j]) /\ c \in inputsOf(res[j])
        BY <4>1 DEF Holders
      <4> QED BY <1>4, <2>2, <4>1, <4>2 DEF CInv, Ground, Exclusive
    <3> QED BY <2>2, <3>2, <3>3 DEF Determined
  <2>3. CASE c # k /\ c \notin inputsOf(res[k])
    <3>1. coins'[c] = coins[c]
      BY <2>3
    <3>2. Holders(res', c) = Holders(res, c)
      BY <1>4, <1>5, <2>3, Roles DEF Holders
    <3>3. Awaited(res', c) = Awaited(res, c)
      BY <1>5, <2>3 DEF Awaited
    <3> QED BY <3>1, <3>2, <3>3 DEF CInv, Faithful
  <2> QED BY <2>1, <2>2, <2>3
<1> QED BY <1>1, <1>4, <1>6, <1>7, <1>8, <1>9, <1>10, OneCommits

\* Cancelling a funding gives back exactly what it selected.
LEMMA FundingCancelCommits ==
    ASSUME CInv, IInv', NEW k \in Fundings, scriptless_funding_cancel_unexposed(k)
    PROVE  CInv'
<1>1. /\ coins \in [Coins -> CoinRecords] /\ k \in Reservations /\ k \in Coins
      /\ may_cancel_and_release(res[k]) /\ Cancelled(k) /\ UNCHANGED <<chain, scanned, handed>>
      /\ \A c \in inputsOf(res[k]) : coins[c].state = "PendingOutgoing"
      /\ coins' = [c \in Coins |->
                    IF c = k THEN Absent(coins[c].id)
                    ELSE IF c \in inputsOf(res[k])
                    THEN [coins[c] EXCEPT !.state = "Confirmed", !.owner = None]
                    ELSE coins[c]]
  BY Roles DEF CInv, IInv, Shapes, scriptless_funding_cancel_unexposed
<1>2. inputsOf(res[k]) \subseteq Inputs /\ k \notin inputsOf(res[k])
      /\ inputsOf(res[k]) \subseteq Coins
  BY <1>1, Roles, NamesAssumption DEF CInv, Ground, Exclusive
<1>3. coins[k].id \in {0, 1} /\ coins'[k] = Absent(coins[k].id)
  BY <1>1 DEF CoinRecords
<1>4. coins'[k].state = "Absent" /\ coins'[k].owner = None /\ coins'[k].found = 0
  BY SMT, <1>3 DEF Absent
<1>5. \A c \in inputsOf(res[k]) : /\ coins'[c].state = "Confirmed" /\ coins'[c].owner = None
                                  /\ coins'[c].found = coins[c].found
  <2> SUFFICES ASSUME NEW c \in inputsOf(res[k])
               PROVE  /\ coins'[c].state = "Confirmed" /\ coins'[c].owner = None
                      /\ coins'[c].found = coins[c].found
    OBVIOUS
  <2>1. coins[c] \in CoinRecords
    BY <1>1, <1>2
  <2>2. coins'[c] = [coins[c] EXCEPT !.state = "Confirmed", !.owner = None]
    BY <1>1, <1>2
  <2> QED BY <2>1, <2>2 DEF CoinRecords
<1>6. \A c \in Coins \ ({k} \cup inputsOf(res[k])) : coins'[c] = coins[c]
  BY <1>1
<1> QED BY <1>1, <1>4, <1>5, <1>6, CancelCommits

\* Cancelling a payout withdraws its announced output.
LEMMA PayoutCancelCommits ==
    ASSUME CInv, IInv', NEW k \in Payouts, scriptless_payout_cancel_unexposed(k)
    PROVE  CInv'
<1>1. /\ coins \in [Coins -> CoinRecords] /\ k \in Reservations /\ k \in Coins
      /\ may_cancel_and_release(res[k]) /\ Cancelled(k) /\ UNCHANGED <<chain, scanned, handed>>
      /\ coins' = [coins EXCEPT ![k] = Absent(coins[k].id)]
      /\ inputsOf(res[k]) = {}
  BY Roles DEF CInv, Ground, IInv, Shapes, scriptless_payout_cancel_unexposed
<1>2. coins'[k].state = "Absent" /\ coins'[k].owner = None /\ coins'[k].found = 0
  BY <1>1 DEF Absent
<1>3. \A c \in Coins \ ({k} \cup inputsOf(res[k])) : coins'[c] = coins[c]
  BY <1>1
<1> QED BY <1>1, <1>2, <1>3, CancelCommits

\* Every command on a reservation preserves the invariant.
LEMMA CommandCommits ==
    ASSUME CInv, IInv', Chained = FALSE, NEW k \in Reservations, Command(k)
    PROVE  CInv'
<1>1. CASE scriptless_funding_prepare(k)
  BY <1>1, FundingPrepareCommits DEF scriptless_funding_prepare
<1>2. CASE scriptless_payout_prepare(k)
  BY <1>2, PayoutPrepareCommits DEF scriptless_payout_prepare
<1>3. CASE scriptless_funding_resume_preparation(k) \/ scriptless_payout_resume_preparation(k)
  BY <1>3, PreparedCommits
     DEF scriptless_funding_resume_preparation, scriptless_payout_resume_preparation
<1>4. CASE \/ scriptless_funding_prepare_kernel_excess_point(k)
           \/ scriptless_payout_prepare_kernel_excess_point(k)
  BY <1>4, PointCommits
     DEF scriptless_funding_prepare_kernel_excess_point,
         scriptless_payout_prepare_kernel_excess_point
<1>5. CASE scriptless_funding_export(k) \/ scriptless_payout_export(k)
  BY <1>5, ComponentsCommit DEF scriptless_funding_export, scriptless_payout_export
<1>6. CASE scriptless_funding_bind_template(k) \/ scriptless_payout_bind_template(k)
  BY SMT, <1>6, BindCommits DEF scriptless_funding_bind_template, scriptless_payout_bind_template
<1>7. CASE scriptless_funding_signing_capability(k) \/ scriptless_payout_signing_capability(k)
  BY SMT, <1>7, SignCommits
     DEF scriptless_funding_signing_capability, scriptless_payout_signing_capability
<1>8. CASE scriptless_funding_cancel_unexposed(k)
  BY <1>8, FundingCancelCommits DEF scriptless_funding_cancel_unexposed
<1>9. CASE scriptless_payout_cancel_unexposed(k)
  BY <1>9, PayoutCancelCommits DEF scriptless_payout_cancel_unexposed
<1>10. CASE scriptless_funding_abandon_exposed(k) \/ scriptless_payout_abandon_exposed(k)
  BY SMT, <1>10, AbandonCommits
     DEF scriptless_funding_abandon_exposed, scriptless_payout_abandon_exposed
<1> QED BY <1>1, <1>2, <1>3, <1>4, <1>5, <1>6, <1>7, <1>8, <1>9, <1>10 DEF Command

\* A page and a genesis rescan: what they commit is again what the blocks
\* they read determine.
LEMMA ScanCommits ==
    ASSUME CInv, IInv', Page \/ rescan_from_genesis
    PROVE  CInv'
<1>1. /\ res \in [Reservations -> ReservationRecords] /\ Ground(res, handed)
      /\ WellFormed(res, handed, chain) /\ UNCHANGED <<chain, handed>>
  BY DEF CInv, IInv, Shapes, Page, rescan_from_genesis
<1>2. coins' \in Records
  BY DEF IInv, Shapes, Records
<1>3. /\ res' = Rebound(res, coins')
      /\ Ground(res', handed) /\ WellFormed(res', handed, scanned')
      /\ \A c \in Coins : Faithful(res', scanned', c, coins'[c])
  <2>1. CASE Page
    BY <2>1, PageIsFaithful DEF Page
  <2>2. CASE rescan_from_genesis
    BY <2>2, RescanIsFaithful DEF rescan_from_genesis
  <2> QED BY <2>1, <2>2
<1>4. Alike(res, res') /\ res' \in [Reservations -> ReservationRecords]
  BY <1>1, <1>2, <1>3, ReboundIsAlike
<1>5. WellFormed(res', handed, chain)
  BY <1>1, <1>4, AlikeKeeps
<1> QED BY <1>1, <1>3, <1>5 DEF CInv

\* What may be mined on blocks that are well formed keeps them so.
LEMMA MinedWellFormed ==
    ASSUME CInv, NEW base, WellFormed(res, handed, base),
           NEW b \in {{}} \cup {{x} : x \in Mineable(base)}
    PROVE  WellFormed(res, handed, Append(base, b))
<1> DEFINE B == Append(base, b)
           n == Len(base) + 1
<1>1. base \in Seq(SUBSET Coins) /\ Len(base) \in Nat /\ DOMAIN base = 1 .. Len(base)
  BY SMT DEF WellFormed
<1>2. b \in SUBSET Coins
  BY DEF Mineable
<1>3. /\ B \in Seq(SUBSET Coins) /\ DOMAIN B = 1 .. n /\ B[n] = b
      /\ \A i \in DOMAIN base : B[i] = base[i] /\ i \in DOMAIN B /\ i < n
      /\ \A i \in DOMAIN B : i \in DOMAIN base \/ i = n
  BY SMT, <1>1, <1>2
<1> HIDE DEF B, n
<1>4. \A x \in b : /\ \A i \in DOMAIN base : x \notin base[i]
                   /\ x \in Reservations => handed[x].signed # {}
                   /\ x \in Reservations => \A c \in inputsOf(res[x]) : MadeAt(base, c) # {}
  BY NamesAssumption DEF Mineable, InBlocks, Uses
<1>5. \A g, h \in DOMAIN B : B[g] \cap B[h] # {} => g = h
  <2> SUFFICES ASSUME NEW g \in DOMAIN B, NEW h \in DOMAIN B, NEW x \in B[g] \cap B[h] PROVE g = h
    OBVIOUS
  <2>1. CASE g \in DOMAIN base /\ h \in DOMAIN base
    BY <1>3, <2>1 DEF WellFormed
  <2>2. CASE g = n \/ h = n
    BY <1>3, <1>4, <2>2
  <2> QED BY <1>3, <2>1, <2>2
<1>6. ASSUME NEW h \in DOMAIN B, NEW x \in B[h] \cap Reservations
      PROVE  /\ handed[x].signed # {}
             /\ \A c \in inputsOf(res[x]) : \E g \in DOMAIN B : g < h /\ c \in B[g]
  <2>1. CASE h \in DOMAIN base
    <3>1. /\ handed[x].signed # {}
          /\ \A c \in inputsOf(res[x]) : \E g \in DOMAIN base : g < h /\ c \in base[g]
      BY <1>3, <2>1 DEF WellFormed
    <3> QED BY <1>3, <3>1
  <2>2. CASE h = n
    <3>1. x \in b
      BY <1>3, <2>2
    <3>2. ASSUME NEW c \in inputsOf(res[x]) PROVE \E g \in DOMAIN base : c \in base[g]
      <4>1. MadeAt(base, c) = Made(res, base, c)
        BY <1>1, MadeAndUsed
      <4> QED BY <1>4, <3>1, <4>1 DEF Made
    <3> QED BY <1>3, <1>4, <2>2, <3>1, <3>2
  <2> QED BY <1>3, <2>1, <2>2
<1> QED BY <1>3, <1>5, <1>6 DEF WellFormed, B

\* Blocks and reorganizations of the node keep its chain well formed.
LEMMA MiningCommits ==
    ASSUME CInv, IInv', Block \/ Reorganize
    PROVE  CInv'
<1>0. Shapes
  BY DEF CInv, IInv
<1>1. chain \in Seq(SUBSET Coins) /\ Len(chain) \in Nat
  BY SMT, <1>0 DEF Shapes
<1>2. UNCHANGED <<scanned, coins, res, handed>>
  BY DEF Block, Reorganize
<1>3. WellFormed(res, handed, chain')
  <2>1. CASE Block
    <3>1. PICK x \in Mineable(chain) : chain' = Append(chain, {x})
      BY <2>1 DEF Block
    <3> QED BY <3>1, MinedWellFormed DEF CInv
  <2>2. CASE Reorganize
    <3>1. PICK h \in 0 .. Len(chain) - 1 :
             \E b \in {{}} \cup {{x} : x \in Mineable(SubSeq(chain, 1, h))} :
                chain' = Append(SubSeq(chain, 1, h), b)
      BY <2>2 DEF Reorganize
    <3>2. WellFormed(res, handed, SubSeq(chain, 1, h))
      <4>1. h \in 0 .. Len(chain)
        BY SMT, <1>1
      <4> QED BY <4>1, PrefixWellFormed DEF CInv
    <3> QED BY <3>1, <3>2, MinedWellFormed
  <2> QED BY <2>1, <2>2
<1> QED BY <1>2, <1>3 DEF CInv

\* Every step preserves the invariant when fundings are not chained.
LEMMA CommitsNext ==
    ASSUME CInv, [Next]_vars, Chained = FALSE
    PROVE  CInv'
<1>1. IInv'
  BY NextPreserves DEF CInv
<1>2. CASE \E k \in Reservations : Command(k)
  BY <1>1, <1>2, CommandCommits
<1>3. CASE Page \/ rescan_from_genesis
  BY <1>1, <1>3, ScanCommits
<1>4. CASE Block \/ Reorganize
  BY SMT, <1>1, <1>4, MiningCommits
<1>5. CASE UNCHANGED vars
  <2>1. UNCHANGED <<chain, scanned, coins, res, handed>>
    BY <1>5 DEF vars
  <2> QED BY <1>1, <2>1 DEF CInv
<1> QED BY <1>2, <1>3, <1>4, <1>5 DEF Next

\* For any set of sessions and outputs and a chain of any height: when no
\* reservation selects the output of another one, every command leaves a state
\* that WalletState::validate accepts, and the next page of any length and a
\* genesis rescan merge, restore and validate without an error.
THEOREM CommitsAreAccepted ==
    ASSUME Chained = FALSE
    PROVE  Spec => []BatchesCommit
<1>1. Init => CInv
  BY CommitsInit
<1>2. CInv /\ [Next]_vars => CInv'
  BY CommitsNext
<1>3. CInv => BatchesCommit
  BY InvariantCommits
<1> QED BY <1>1, <1>2, <1>3, PTL DEF Spec
=============================================================================
