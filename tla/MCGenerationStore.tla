------------------------- MODULE MCGenerationStore -------------------------
(* The wallet directory with a bounded number of generations and faults. *)
EXTENDS GenerationStore
=============================================================================
