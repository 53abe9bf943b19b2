---------------------------- MODULE MCProduction ----------------------------
(***************************************************************************)
(* Small instances of Production for TLC.                                  *)
(***************************************************************************)
EXTENDS Production, TLC

ProductionSymmetry ==
    Permutations(Callers) \cup Permutations(Procs) \cup Permutations(Services)
=============================================================================
