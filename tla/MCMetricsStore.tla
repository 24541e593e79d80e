--------------------------- MODULE MCMetricsStore ---------------------------
(* Instances of MetricsStore for TLC.                                      *)
EXTENDS MetricsStore, TLC

\* The processes differ in nothing but their name.  For safety runs only.
ProcSymmetry == Permutations(Procs)
=============================================================================
