-------------------------- MODULE MCWorkspaceLock --------------------------
(* Instances of WorkspaceLock for TLC.                                     *)
EXTENDS WorkspaceLock, TLC

\* The processes differ in nothing but their name.  For safety runs only.
ProcSymmetry == Permutations(Procs)
=============================================================================
