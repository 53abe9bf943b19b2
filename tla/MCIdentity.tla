----------------------------- MODULE MCIdentity -----------------------------
(***************************************************************************)
(* A small instance of Identity for TLC: one subject, two admins that      *)
(* assign it to two principals, human ones or services, and three          *)
(* ticks of the clock, so that the subject can have three versions and a   *)
(* clock that was read early can be overtaken by the version after it.     *)
(***************************************************************************)
EXTENDS Identity
=============================================================================
