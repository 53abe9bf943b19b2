---------------------------- MODULE MCSupervisor ----------------------------
EXTENDS Supervisor, TLC

\* Supervisor processes are interchangeable.
ProcSymmetry == Permutations(Procs)
=============================================================================
