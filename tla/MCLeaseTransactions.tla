------------------------- MODULE MCLeaseTransactions -------------------------
(***************************************************************************)
(* Small instances of LeaseTransactions for TLC.                           *)
(***************************************************************************)
EXTENDS LeaseTransactions
=============================================================================
