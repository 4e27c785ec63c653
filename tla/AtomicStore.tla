---------------------------- MODULE AtomicStore ----------------------------
(***************************************************************************)
(* What the wallet directory promises to the code above it: one durable    *)
(* state that is replaced as a whole, once per successful commit, and a    *)
(* caller that is told "committed" only about updates the state contains.  *)
(* specs/0004 calls this old-or-new: nobody ever reads anything else.      *)
(***************************************************************************)
EXTENDS Naturals

CONSTANT Updates        \* the units of work callers commit

VARIABLES
    version,            \* number of the durable state
    value,              \* the updates the durable state contains
    acked               \* the updates a caller was told are committed

avars == <<version, value, acked>>

AInit ==
    /\ version = 0
    /\ value = {}
    /\ acked = {}

\* The whole effect of a commit happens in one step and keeps what was there.
Publish(u) ==
    /\ version' = version + 1
    /\ value' = value \union {u}
    /\ UNCHANGED acked

\* The caller learns of the commit later, or never.
Acknowledge(u) ==
    /\ u \in value
    /\ acked' = acked \union {u}
    /\ UNCHANGED <<version, value>>

ANext == \E u \in Updates : Publish(u) \/ Acknowledge(u)

ASpec == AInit /\ [][ANext]_avars
=============================================================================
