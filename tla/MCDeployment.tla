---------------------------- MODULE MCDeployment ----------------------------
(***************************************************************************)
(* Small instances of Deployment for TLC.                                  *)
(***************************************************************************)
EXTENDS Deployment, TLC

CallerSymmetry == Permutations(Callers) \cup Permutations(Users)
PairSymmetry == CallerSymmetry \cup Permutations(Deployments)
=============================================================================
