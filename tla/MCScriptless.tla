---------------------------- MODULE MCScriptless ----------------------------
(***************************************************************************)
(* ScriptlessReservations for TLC.  The names of offsets, shares,          *)
(* templates and inputs are interchangeable, and the runs check only       *)
(* invariants.                                                             *)
(***************************************************************************)
EXTENDS ScriptlessReservations, TLC

Names == Permutations(Offsets) \cup Permutations(Shares)
            \cup Permutations(Templates) \cup Permutations(Inputs)
=============================================================================
